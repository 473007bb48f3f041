--------------------------- MODULE IndexQuicksort ---------------------------
(***************************************************************************)
(* virtual_sorter::quicksort and virtual_sorter::partition, over the       *)
(* memory-mapped primary index of variable-size records.  An index entry   *)
(* is the pair of columns id[p] and range[p]: range stands for the byte    *)
(* range begin..end, named by the slot that held it when the sort began.   *)
(* The bytes of a record matter only through compare(), hence its rank.    *)
(* C++ recursion is an explicit stack of (left, right) frames, the running *)
(* one at its head; uint_fast64_t wraps modulo MaxWord + 1.                *)
(***************************************************************************)
EXTENDS Integers, Sequences

CONSTANTS N,       \* number of index entries
          Ranks,   \* positions of the records in the order compare() induces
          MaxWord  \* the largest uint_fast64_t

ASSUME CountAssumption == N \in Nat \ {0}
ASSUME RanksAssumption == Ranks \subseteq Int
ASSUME WordAssumption == MaxWord \in Nat /\ N < MaxWord

Slots == 0..(N - 1)
Words == 0..MaxWord
Frames == [left : 0..N, right : Slots]

Inc(w) == IF w = MaxWord THEN 0 ELSE w + 1
Dec(w) == IF w = 0 THEN MaxWord ELSE w - 1

VARIABLES rank,    \* rank[r]: the rank of the record stored in byte range r
          id,      \* id[p]: the id field of the entry in slot p
          range,   \* range[p]: the begin/end fields of the entry in slot p
          stack,   \* activation frames of quicksort
          pc,      \* "call": about to test left < right; "scan": in partition
          i, j,    \* the locals of partition
          pivot    \* the byte range pivotElement points to

sortVars == <<rank, id, range, stack, pc, i, j, pivot>>

left == Head(stack).left
right == Head(stack).right

\* compare(...) < 0 on two byte ranges
Less(r, s) == rank[r] < rank[s]

\* Mutant of Swap: the exchange forgets what it saved of slot p.
SwapForgets(f, p, q) == [f EXCEPT ![p] = f[q]]

\* The macro swap: begin and end change places, id does not.
Swap(f, p, q) == [f EXCEPT ![p] = f[q], ![q] = f[p]]

SortInit ==
    /\ rank \in [Slots -> Ranks]
    /\ id = [p \in Slots |-> p + 1]
    /\ range = [p \in Slots |-> p]
    /\ stack = <<[left |-> 0, right |-> N - 1]>>
    /\ pc = "call"
    /\ i = 0 /\ j = 0 /\ pivot = 0

\* quicksort on a span of at most one slot returns at once.
Return ==
    /\ pc = "call" /\ stack # <<>>
    /\ ~(left < right)
    /\ stack' = Tail(stack)
    /\ UNCHANGED <<rank, id, range, pc, i, j, pivot>>

EnterPartition ==
    /\ pc = "call" /\ stack # <<>>
    /\ left < right
    /\ pivot' = range[right]
    /\ i' = Dec(left)
    /\ j' = left
    /\ pc' = "scan"
    /\ UNCHANGED <<rank, id, range, stack>>

\* One turn of the for loop whose element is below the pivot.
ScanLess ==
    /\ pc = "scan" /\ j < right
    /\ Less(range[j], pivot)
    /\ i' = Inc(i)
    /\ range' = Swap(range, Inc(i), j)
    /\ j' = j + 1
    /\ UNCHANGED <<rank, id, stack, pc, pivot>>

ScanSkip ==
    /\ pc = "scan" /\ j < right
    /\ ~Less(range[j], pivot)
    /\ j' = j + 1
    /\ UNCHANGED <<rank, id, range, stack, pc, i, pivot>>

\* Mutants of Split: no test of part > 0 before part - 1; the left call one
\* slot short; the right call from the pivot's slot; no right call.
SplitUnguarded(part) ==
    <<[left |-> left, right |-> Dec(part)], [left |-> part + 1, right |-> right]>>

SplitShort(part) ==
    (IF part > 1 THEN <<[left |-> left, right |-> part - 2]>> ELSE <<>>)
        \o <<[left |-> part + 1, right |-> right]>>

SplitKeepsPivot(part) ==
    (IF part > 0 THEN <<[left |-> left, right |-> part - 1]>> ELSE <<>>)
        \o <<[left |-> part, right |-> right]>>

SplitOneSided(part) == IF part > 0 THEN <<[left |-> left, right |-> part - 1]>> ELSE <<>>

\* The frames quicksort runs next once partition has returned part.
Split(part) ==
    (IF part > 0 THEN <<[left |-> left, right |-> part - 1]>> ELSE <<>>)
        \o <<[left |-> part + 1, right |-> right]>>

\* Mutant of PlacePivot: the last exchange is made with the last slot of the
\* index and not of the span.
PlacePivotAtEnd ==
    /\ pc = "scan" /\ ~(j < right)
    /\ range' = IF Less(range[right], range[Inc(i)])
                   THEN Swap(range, Inc(i), N - 1) ELSE range
    /\ stack' = Split(Inc(i)) \o Tail(stack)
    /\ pc' = "call"
    /\ UNCHANGED <<rank, id, i, j, pivot>>

\* After the loop: the pivot is put in its place and the recursion goes on.
PlacePivot ==
    /\ pc = "scan" /\ ~(j < right)
    /\ LET part == Inc(i)
       IN  /\ range' = IF Less(range[right], range[part])
                         THEN Swap(range, part, right) ELSE range
           /\ stack' = Split(part) \o Tail(stack)
    /\ pc' = "call"
    /\ UNCHANGED <<rank, id, i, j, pivot>>

SortStep == Return \/ EnterPartition \/ ScanLess \/ ScanSkip \/ PlacePivot

Sorted == stack = <<>>
SortReturned == Sorted /\ UNCHANGED sortVars

SortNext == SortStep \/ SortReturned

Spec == SortInit /\ [][SortNext]_sortVars
FairSpec == Spec /\ WF_sortVars(SortStep)

-----------------------------------------------------------------------------
(* Properties *)

Span(f) == f.left..f.right

EachOnce(f) ==
    \A r \in Slots : \E p \in Slots : f[p] = r /\ \A q \in Slots : f[q] = r => q = p

\* All variables keep their types: every frame lies inside the index and
\* the locals of partition fit in a machine word.
TypeOK ==
    /\ rank \in [Slots -> Ranks]
    /\ id \in [Slots -> 1..N]
    /\ range \in [Slots -> Slots]
    /\ stack \in Seq(Frames)
    /\ pc \in {"call", "scan"}
    /\ i \in Words
    /\ j \in Slots
    /\ pivot \in Slots

\* Every byte range is described by exactly one index entry at every step
\* of the sort: no exchange loses a record or describes one twice.
EachRangeOnce == EachOnce(range)

\* The pending spans are disjoint and in ascending order on the stack, so a
\* recursive call never touches a slot another pending call owns.
SpansDisjoint ==
    \A k, l \in 1..Len(stack) : k < l => stack[k].right < stack[l].left

\* While partition runs, although i starts one below left (wrapping when
\* left is 0): slots left..i are below the pivot, slots i+1..j-1 are not,
\* both indices stay in the span, and the cached pivot is still in place.
PartitionWindow ==
    pc = "scan" =>
        /\ stack # <<>> /\ left < right
        /\ j \in left..right
        /\ Inc(i) \in left..j
        /\ pivot = range[right]
        /\ \A p \in left..(Inc(i) - 1) : rank[range[p]] < rank[pivot]
        /\ \A p \in Inc(i)..(j - 1) : rank[range[p]] >= rank[pivot]

\* Two slots are in rank order unless one pending call still owns both.
OrderedAcrossSpans ==
    \A p, q \in Slots :
        \/ p >= q
        \/ rank[range[p]] <= rank[range[q]]
        \/ \E k \in 1..Len(stack) : p \in Span(stack[k]) /\ q \in Span(stack[k])

\* When quicksort has returned, the index lists the records in rank order.
SortedWhenDone ==
    Sorted => \A p, q \in Slots : p < q => rank[range[p]] <= rank[range[q]]

\* Slots outside all pending spans are final: a step never rewrites them.
SettledSlotsStay ==
    [][\A p \in Slots :
          (\A k \in 1..Len(stack) : p \notin Span(stack[k])) => range'[p] = range[p]
      ]_sortVars

\* The recursion ends on every input.
SortTerminates == <>Sorted

\* The sort as one step of the abstract specification.
Abstract == INSTANCE SortSpec
    WITH arrangement <- IF Sorted THEN range ELSE [p \in Slots |-> p],
         sorted <- Sorted

\* Seen only when it returns, the quicksort is a single step that arranges
\* every record exactly once in rank order.
ImplementsSort == Abstract!SortSpecification
=============================================================================
