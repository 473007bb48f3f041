------------------------------ MODULE SortSpec ------------------------------
(***************************************************************************)
(* What sorting an index promises, whatever the algorithm: in one step the *)
(* records, identified by the slot they occupied before the sort, are      *)
(* arranged in nondecreasing rank, each of them in exactly one slot.       *)
(***************************************************************************)
EXTENDS Integers

CONSTANTS N,     \* number of index entries
          Ranks  \* positions of the records in the order compare() induces

Slots == 0..(N - 1)

VARIABLES rank,        \* rank[r]: the rank of record r
          arrangement, \* arrangement[p]: the record that slot p describes
          sorted       \* the sort has returned

specVars == <<rank, arrangement, sorted>>

Untouched == [p \in Slots |-> p]

EachRecordOnce(f) ==
    \A r \in Slots : \E p \in Slots : f[p] = r /\ \A q \in Slots : f[q] = r => q = p

InRankOrder(f, rk) == \A p, q \in Slots : p < q => rk[f[p]] <= rk[f[q]]

SpecInit == /\ rank \in [Slots -> Ranks]
            /\ arrangement = Untouched
            /\ sorted = FALSE

Sort == /\ ~sorted
        /\ sorted' = TRUE
        /\ arrangement' \in [Slots -> Slots]
        /\ EachRecordOnce(arrangement')
        /\ InRankOrder(arrangement', rank)
        /\ UNCHANGED rank

SortSpecification == SpecInit /\ [][Sort]_specVars
=============================================================================
