----------------------------- MODULE MCSortPair -----------------------------
EXTENDS SortPair

AllBuilds == [secondary : BOOLEAN, asserts : BOOLEAN, firstId : {0, 1}, room : BOOLEAN]
=============================================================================
