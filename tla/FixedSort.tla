----------------------------- MODULE FixedSort -----------------------------
(***************************************************************************)
(* virtual_sorter::sortPair on a file of fixed-size blocks.  There is no   *)
(* index: smart_index_pointer makes up the entry of a slot, always in the  *)
(* same struct unthread_safe, and unsafe_swap exchanges the blocks in the  *)
(* mapped file through a buffer.  Frames and machine words are as in       *)
(* IndexQuicksort; a block is its key and the rest, its load.              *)
(***************************************************************************)
EXTENDS Integers, Sequences

CONSTANTS N,       \* number of blocks in the file
          Keys,    \* the keys compare() looks at
          TmpLens  \* values tmp.iov_len may have, in words of a block

\* struct smart_index_pointer leaves tmp.iov_len unset: any length, of which
\* 3 stands for all that are more than a block.
BlockWords == 2
ASSUME CountAssumption == N \in Nat \ {0}
ASSUME KeysAssumption == Keys \subseteq Nat
ASSUME TmpLenAssumption == TmpLens \subseteq 0..(BlockWords + 1)

VARIABLES key,     \* key[r]: the key of the block stored r-th before the sort
          tmpLen,  \* tmp.iov_len
          mem,     \* mem[p]: the block in slot p of the mapped file
          buffer,  \* the block held by smart_index_pointer::malloc
          stack,   \* activation frames of quicksort
          pc,      \* "call", "scan", "swap" between two memcpy, "segfault"
          i, j     \* the locals of partition; i one up, so that 0 is left - 1

vars == <<key, tmpLen, mem, buffer, stack, pc, i, j>>

Slots == 0..(N - 1)
Block(r) == [key |-> key[r], load |-> r + 1]
Zeroed == [key |-> 0, load |-> 0]

left == Head(stack).left
right == Head(stack).right

Init ==
    /\ key \in [Slots -> Keys]
    /\ tmpLen \in TmpLens
    /\ mem = [p \in Slots |-> Block(p)]
    /\ buffer = Zeroed
    /\ stack = <<[left |-> 0, right |-> N - 1]>>
    /\ pc = "call"
    /\ i = 0 /\ j = 0

Return ==
    /\ pc = "call" /\ stack # <<>>
    /\ ~(left < right)
    /\ stack' = Tail(stack)
    /\ UNCHANGED <<key, tmpLen, mem, buffer, pc, i, j>>

\* pivotElement is the address of the block in slot right.
EnterPartition ==
    /\ pc = "call" /\ stack # <<>>
    /\ left < right
    /\ i' = left /\ j' = left
    /\ pc' = "scan"
    /\ UNCHANGED <<key, tmpLen, mem, buffer, stack>>

\* domalloc and docopy: the first tmpLen words of the block are saved; the
\* others keep what the buffer held, zero at first.
Saved(block) ==
    [key |-> IF tmpLen >= 1 THEN block.key ELSE buffer.key,
     load |-> IF tmpLen >= BlockWords THEN block.load ELSE buffer.load]

\* Mutant of SwapOut: the block saved is the one in slot j.
SwapOutSavesJ ==
    /\ pc = "scan" /\ j < right
    /\ mem[j].key < mem[right].key
    /\ buffer' = Saved(mem[j])
    /\ mem' = [mem EXCEPT ![i] = mem[j]]
    /\ i' = i + 1 /\ pc' = "swap"
    /\ UNCHANGED <<key, tmpLen, stack, j>>

\* The block in slot j is below the pivot: i++, and the first memcpy of
\* unsafe_swap.  Slot i + 1 is the local i of the code after its increment.
SwapOut ==
    /\ pc = "scan" /\ j < right
    /\ mem[j].key < mem[right].key
    /\ buffer' = Saved(mem[i])
    /\ mem' = [mem EXCEPT ![i] = mem[j]]
    /\ i' = i + 1
    /\ pc' = "swap"
    /\ UNCHANGED <<key, tmpLen, stack, j>>

\* docopy of more bytes than the mapping or the heap has.
SwapFaults ==
    /\ pc = "scan" /\ j < right
    /\ mem[j].key < mem[right].key
    /\ tmpLen > BlockWords
    /\ pc' = "segfault"
    /\ UNCHANGED <<key, tmpLen, mem, buffer, stack, i, j>>

\* The second memcpy.
SwapIn ==
    /\ pc = "swap"
    /\ mem' = [mem EXCEPT ![j] = buffer]
    /\ j' = j + 1
    /\ pc' = "scan"
    /\ UNCHANGED <<key, tmpLen, buffer, stack, i>>

ScanSkip ==
    /\ pc = "scan" /\ j < right
    /\ ~(mem[j].key < mem[right].key)
    /\ j' = j + 1
    /\ UNCHANGED <<key, tmpLen, mem, buffer, stack, pc, i>>

\* Mutants of Split: no test of part > 0; the right call from slot part.
SplitUnguarded(part) ==
    <<[left |-> left, right |-> part - 1], [left |-> part + 1, right |-> right]>>

SplitKeepsPivot(part) ==
    (IF part > 0 THEN <<[left |-> left, right |-> part - 1]>> ELSE <<>>)
        \o <<[left |-> part, right |-> right]>>

Split(part) ==
    (IF part > 0 THEN <<[left |-> left, right |-> part - 1]>> ELSE <<>>)
        \o <<[left |-> part + 1, right |-> right]>>

\* The slot an entry obtained for slot first denotes after operator[] was
\* called for slot last: both calls return &unthread_safe.
SlotDenoted(first, last) == last

\* The loop is over: the pivot would be exchanged with slot i + 1 if it were
\* less than that, but compare() is given the same slot twice.
PartitionReturns ==
    /\ pc = "scan" /\ ~(j < right)
    /\ ~(mem[SlotDenoted(right, i)].key < mem[i].key)
    /\ stack' = Split(i) \o Tail(stack)
    /\ pc' = "call"
    /\ UNCHANGED <<key, tmpLen, mem, buffer, i, j>>

Step == \/ Return \/ EnterPartition \/ SwapOut \/ SwapFaults \/ SwapIn \/ ScanSkip
        \/ PartitionReturns

Done == pc = "segfault" \/ (pc = "call" /\ stack = <<>>)
Stopped == Done /\ UNCHANGED vars

Spec == Init /\ [][Step \/ Stopped]_vars
FairSpec == Spec /\ WF_vars(Step)

-----------------------------------------------------------------------------
(* Properties *)

Blocks == [key : Keys \union {0}, load : 0..N]

\* All variables keep their types, and no frame leaves the file.
TypeOK ==
    /\ key \in [Slots -> Keys]
    /\ tmpLen \in TmpLens
    /\ mem \in [Slots -> Blocks] /\ buffer \in Blocks
    /\ stack \in Seq([left : 0..N, right : Slots])
    /\ pc \in {"call", "scan", "swap", "segfault"}
    /\ i \in 0..N /\ j \in Slots

Whole == tmpLen >= BlockWords

EachBlockOnce(f) ==
    \A r \in Slots : \E p \in Slots : f[p] = Block(r) /\ \A q \in Slots : f[q] = Block(r) => q = p

\* If tmp.iov_len happens to cover a block, the sort only moves blocks: the
\* file holds each of them once, except that between the two memcpy of
\* unsafe_swap one block is in the buffer alone and another one twice in the
\* file (and a kill there leaves it so).
BlocksKept ==
    Whole => EachBlockOnce(IF pc = "swap" THEN [mem EXCEPT ![j] = buffer] ELSE mem)

\* sortPair returns or dies whatever the unset length is.
SortReturns == <>Done

\* common_sort_pair (virtual_sorter.cpp:92) relies on fixed-size memory being
\* "already in-place sorted" when the quicksort returns.
SortedInPlace ==
    Whole /\ pc = "call" /\ stack = <<>> =>
        \A p, q \in Slots : p < q => mem[p].key <= mem[q].key
=============================================================================
