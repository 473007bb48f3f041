------------------------ MODULE MCSerializerWithSort ------------------------
EXTENDS SerializerWithSort

SmallRecords == {<<1>>, <<2, 1>>}

AllCalls == {"insert", "object", "multi", "sort", "begin", "search", "update", "updateIter",
             "unlink", "reopen"}

\* The order of the example's string_sorter: bytes first, then lengths.
LexLess(a, b) ==
    \E k \in 1..Len(b) :
        /\ \A m \in 1..(k - 1) : m <= Len(a) /\ a[m] = b[m]
        /\ k > Len(a) \/ a[k] < b[k]

LexCompare(lhs, rhs) == IF LexLess(lhs, rhs) THEN -1 ELSE IF lhs = rhs THEN 0 ELSE 1
=============================================================================
