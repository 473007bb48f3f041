------------------------------ MODULE BinSearch -----------------------------
(***************************************************************************)
(* virtual_sorter::binSearch over a sorted store, one loop turn per step.  *)
(* A record is its rank in the order compare() induces; the arithmetic on  *)
(* positions wraps modulo MaxWord + 1, as that of uint_fast64_t does.  A   *)
(* probe outside the index reads memory the store does not own: it kills   *)
(* the process or makes compare() answer anything.                         *)
(***************************************************************************)
EXTENDS Integers

CONSTANTS MaxRecords, \* bound on the number of records in the store
          Ranks,      \* ranks of records and of targets
          MaxWord     \* the largest uint_fast64_t

ASSUME CountAssumption == MaxRecords \in Nat
ASSUME RanksAssumption == Ranks \subseteq Int
ASSUME WordAssumption == MaxWord \in Nat /\ 2 * MaxRecords < MaxWord

Words == 0..MaxWord

Inc(w) == IF w = MaxWord THEN 0 ELSE w + 1
\* Mutant of Dec: a signed position.
DecSigned(w) == w - 1

Dec(w) == IF w = 0 THEN MaxWord ELSE w - 1
Add(v, w) == IF v + w > MaxWord THEN v + w - (MaxWord + 1) ELSE v + w

VARIABLES n,       \* number of records in the store; 0 for an empty file
          rank,    \* rank[p]: the rank of the record in slot p
          target,  \* the rank of the record searched for
          hi,      \* the local i of binSearch, last slot of the window
          lo,      \* the local j, first slot of the window
          outcome, \* "searching", "found", "end" or "crashed"
          position \* where the returned iterator stands

searchVars == <<n, rank, target, hi, lo, outcome, position>>

Slots == 0..(n - 1)

\* Mutant of END_SIZE: the count of records, not the last slot.
END_SIZE_Count == n

\* END_SIZE: the last slot; on an empty store the subtraction wraps.
END_SIZE == Dec(n)

mid == Add(hi, lo) \div 2

Sign(x) == IF x < 0 THEN -1 ELSE IF x > 0 THEN 1 ELSE 0

\* Mutant of CompareAt: the arguments of compare() exchanged.
CompareSwapped(m) ==
    IF m \in Slots THEN {Sign(target - rank[m])}
    ELSE IF n = 0 THEN {} ELSE {-1, 0, 1}

\* The answers compare() may give for the record in slot m.  An empty store
\* has no mapping at all, so a probe of it gives none.
CompareAt(m) ==
    IF m \in Slots THEN {Sign(rank[m] - target)}
    ELSE IF n = 0 THEN {} ELSE {-1, 0, 1}

\* sortPair has run on the store.
InOrder == \A p, q \in Slots : p < q => rank[p] <= rank[q]

Init ==
    /\ n \in 0..MaxRecords
    /\ rank \in [Slots -> Ranks]
    /\ InOrder
    /\ target \in Ranks
    /\ hi = END_SIZE
    /\ lo = 0
    /\ outcome = "searching"
    /\ position = 0

InLoop == outcome = "searching" /\ hi >= lo

\* Mutant of ProbeEqual: the iterator is placed at the end of the window.
ProbeEqualAtHi ==
    /\ InLoop /\ 0 \in CompareAt(mid)
    /\ outcome' = "found"
    /\ position' = hi
    /\ UNCHANGED <<n, rank, target, hi, lo>>

ProbeEqual ==
    /\ InLoop /\ 0 \in CompareAt(mid)
    /\ outcome' = "found"
    /\ position' = mid
    /\ UNCHANGED <<n, rank, target, hi, lo>>

\* Mutant of ProbeLess: the probed slot stays in the window.
ProbeLessKeepsMid ==
    /\ InLoop /\ -1 \in CompareAt(mid)
    /\ lo' = mid
    /\ UNCHANGED <<n, rank, target, hi, outcome, position>>

ProbeLess ==
    /\ InLoop /\ -1 \in CompareAt(mid)
    /\ lo' = Inc(mid)
    /\ UNCHANGED <<n, rank, target, hi, outcome, position>>

\* Mutant of ProbeGreater: the probed slot stays in the window.
ProbeGreaterKeepsMid ==
    /\ InLoop /\ 1 \in CompareAt(mid)
    /\ hi' = mid
    /\ UNCHANGED <<n, rank, target, lo, outcome, position>>

ProbeGreater ==
    /\ InLoop /\ 1 \in CompareAt(mid)
    /\ hi' = Dec(mid)
    /\ UNCHANGED <<n, rank, target, lo, outcome, position>>

ProbeFaults ==
    /\ InLoop /\ mid \notin Slots
    /\ outcome' = "crashed"
    /\ UNCHANGED <<n, rank, target, hi, lo, position>>

\* The window is empty: end() builds the iterator past the last slot.
GiveUp ==
    /\ outcome = "searching" /\ ~(hi >= lo)
    /\ outcome' = "end"
    /\ position' = Inc(END_SIZE)
    /\ UNCHANGED <<n, rank, target, hi, lo>>

Step == ProbeEqual \/ ProbeLess \/ ProbeGreater \/ ProbeFaults \/ GiveUp

Returned == outcome # "searching" /\ UNCHANGED searchVars

Next == Step \/ Returned

Spec == Init /\ [][Next]_searchVars
FairSpec == Spec /\ WF_searchVars(Step)

-----------------------------------------------------------------------------
(* Properties *)

\* All variables keep their types: no position leaves the machine word.
TypeOK ==
    /\ n \in 0..MaxRecords
    /\ rank \in [Slots -> Ranks]
    /\ target \in Ranks
    /\ hi \in Words
    /\ lo \in Words
    /\ outcome \in {"searching", "found", "end", "crashed"}
    /\ position \in Words

\* No record is at or below the target: the case binSearch mishandles.
BelowAll == \A p \in Slots : rank[p] > target

\* While some record is at or below the target, the window stays inside the
\* index, and every record left of it is smaller than the target and every
\* record right of it greater: a slot that could match is never discarded.
WindowKeepsTarget ==
    \/ BelowAll
    \/ /\ lo \in 0..n /\ hi \in Slots /\ lo <= hi + 1
       /\ \A p \in Slots : (p < lo => rank[p] < target) /\ (p > hi => rank[p] > target)

\* binSearch probes outside the index only if every record is greater than
\* the target; 2 * MaxRecords < MaxWord keeps hi + lo from overflowing before that.
ProbesOwnedSlots == InLoop /\ mid \notin Slots => BelowAll

\* An iterator to a found record stands on a record equal to the target,
\* unless the search left the index.
FoundIsEqual ==
    outcome = "found" /\ ~BelowAll => position \in Slots /\ rank[position] = target

\* The end iterator is returned only for a record the store does not hold,
\* and it is the position one past the last slot.
EndMeansAbsent ==
    outcome = "end" => position = n /\ \A p \in Slots : rank[p] # target

\* Whatever iterator comes back tells the truth.
AnswerIsRight == FoundIsEqual /\ EndMeansAbsent

\* A record the store holds is found: no run on it ends otherwise.
PresentIsFound ==
    (\E p \in Slots : rank[p] = target) => outcome \in {"searching", "found"}

\* Each turn discards at least half of the window, so the search takes at
\* most log2(n) + 1 turns.
WindowHalves ==
    [][~BelowAll /\ outcome' = "searching"
          => 2 * (hi' - lo' + 1) <= hi - lo + 1]_searchVars

\* The search ends, again unless the target is below every record: there a
\* wrapped window can make it probe the same slots for ever.
SearchReturns == ~BelowAll ~> outcome \in {"found", "end"}

\* virtual_sorter.h: "If the element has not been found, then the end
\* element is returned", here of a store that has records.
AbsentGivesEnd ==
    n > 0 /\ (\A p \in Slots : rank[p] # target) => outcome \in {"searching", "end"}
=============================================================================
