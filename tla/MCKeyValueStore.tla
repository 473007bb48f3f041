--------------------------- MODULE MCKeyValueStore ---------------------------
EXTENDS KeyValueStore

\* Values of one word, and one of two.
SmallPayloads == {<<1>>, <<2>>, <<1, 2>>}
=============================================================================
