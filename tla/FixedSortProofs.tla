-------------------------- MODULE FixedSortProofs --------------------------
(***************************************************************************)
(* Theorems about FixedSort, for every number of blocks, every assignment  *)
(* of keys and every length that tmp.iov_len may have.                     *)
(***************************************************************************)
EXTENDS FixedSort, SequenceTheorems, TLAPS

Frames == [left : 0..N, right : Slots]

\* The loop of partition keeps i and j in the span: i + 1 of the code never
\* leaves it, although i starts one below.
Window ==
    pc \in {"scan", "swap"} =>
        /\ stack # <<>>
        /\ left <= i /\ j <= right
        /\ pc = "scan" => i <= j
        /\ pc = "swap" => i <= j + 1 /\ j < right

\* The inductive invariant.  The window is what keeps the slots of mem, and
\* the frames that Split makes, in the file.
Inv == TypeOK /\ Window /\ BlocksKept

\* EachBlockOnce(f) for the keys k.
OnceIn(k, f) ==
    \A r \in Slots : \E p \in Slots :
        LET b == [key |-> k[r], load |-> r + 1]
        IN  f[p] = b /\ \A q \in Slots : f[q] = b => q = p

-----------------------------------------------------------------------------
(* Blocks and frames *)

\* A block is its two fields: saving a whole one keeps it.
LEMMA SavedBlock ==
    ASSUME TypeOK, NEW b \in Blocks
    PROVE  Saved(b) \in Blocks /\ (Whole => Saved(b) = b)
<1>1. buffer \in Blocks /\ tmpLen \in 0..(BlockWords + 1)
  BY TmpLenAssumption DEF TypeOK
<1> QED
  BY <1>1 DEF Saved, Blocks, Whole, BlockWords

\* The running frame is in the file, and popping it leaves frames.
LEMMA PopFrame ==
    ASSUME TypeOK, stack # <<>>
    PROVE  /\ left \in 0..N /\ right \in Slots
           /\ Tail(stack) \in Seq(Frames)
<1>1. stack \in Seq(Frames)
  BY DEF TypeOK, Frames
<1>2. Head(stack) \in Frames /\ Tail(stack) \in Seq(Frames)
  BY <1>1, HeadTailProperties
<1> QED
  BY <1>2 DEF Frames, left, right

\* The calls made once partition has returned a slot of the span.
LEMMA SplitFrames ==
    ASSUME TypeOK, stack # <<>>, NEW part \in Slots, left <= part, part <= right
    PROVE  Split(part) \o Tail(stack) \in Seq(Frames)
<1>1. left \in 0..N /\ right \in Slots /\ Tail(stack) \in Seq(Frames)
  BY PopFrame
<1>2. [left |-> part + 1, right |-> right] \in Frames
  BY <1>1, CountAssumption DEF Frames, Slots
<1>3. part > 0 => [left |-> left, right |-> part - 1] \in Frames
  BY <1>1, CountAssumption DEF Frames, Slots
<1>4. <<[left |-> part + 1, right |-> right]>> \in Seq(Frames)
  BY <1>2
<1>5. (IF part > 0 THEN <<[left |-> left, right |-> part - 1]>> ELSE <<>>) \in Seq(Frames)
  <2>1. CASE part > 0
    BY <1>3, <2>1
  <2>2. CASE ~(part > 0)
    BY <2>2
  <2> QED BY <2>1, <2>2
<1>6. Split(part) \in Seq(Frames)
  BY <1>4, <1>5, ConcatProperties DEF Split
<1> QED
  BY <1>1, <1>6, ConcatProperties

\* Exchanging the blocks of two slots keeps each block once.
LEMMA ExchangeKeepsBlocks ==
    ASSUME NEW f, DOMAIN f = Slots, f = [s \in Slots |-> f[s]],
           NEW p \in Slots, NEW q \in Slots, EachBlockOnce(f)
    PROVE  EachBlockOnce([[f EXCEPT ![p] = f[q]] EXCEPT ![q] = f[p]])
<1> DEFINE g == [[f EXCEPT ![p] = f[q]] EXCEPT ![q] = f[p]]
<1>1. /\ g[p] = f[q] /\ g[q] = f[p]
      /\ \A s \in Slots \ {p, q} : g[s] = f[s]
  OBVIOUS
<1> SUFFICES ASSUME NEW r \in Slots
             PROVE  \E s \in Slots : g[s] = Block(r) /\ \A t \in Slots : g[t] = Block(r) => t = s
  BY DEF EachBlockOnce
<1>2. PICK s \in Slots : f[s] = Block(r) /\ \A t \in Slots : f[t] = Block(r) => t = s
  BY DEF EachBlockOnce
<1> HIDE DEF g
<1>3. CASE s = p
  <2>1. g[q] = Block(r) /\ \A t \in Slots : g[t] = Block(r) => t = q
    BY <1>1, <1>2, <1>3
  <2> QED BY <2>1
<1>4. CASE s = q
  <2>1. g[p] = Block(r) /\ \A t \in Slots : g[t] = Block(r) => t = p
    BY <1>1, <1>2, <1>4
  <2> QED BY <2>1
<1>5. CASE s \notin {p, q}
  <2>1. g[s] = Block(r) /\ \A t \in Slots : g[t] = Block(r) => t = s
    BY <1>1, <1>2, <1>5
  <2> QED BY <2>1
<1> QED
  BY <1>3, <1>4, <1>5

-----------------------------------------------------------------------------
(* The invariant *)

LEMMA Start == Init => Inv
<1> SUFFICES ASSUME Init PROVE Inv
  OBVIOUS
<1> USE DEF Init
<1>1. <<[left |-> 0, right |-> N - 1]>> \in Seq([left : 0..N, right : Slots])
  <2>1. [left |-> 0, right |-> N - 1] \in [left : 0..N, right : Slots]
    BY CountAssumption DEF Slots
  <2> QED BY <2>1
<1>2. mem \in [Slots -> Blocks] /\ buffer \in Blocks
  BY CountAssumption, KeysAssumption DEF Block, Blocks, Zeroed, Slots
<1>3. TypeOK
  BY <1>1, <1>2, CountAssumption DEF TypeOK, Slots
<1>4. EachBlockOnce(mem)
  <2>1. ASSUME NEW r \in Slots, NEW q \in Slots, Block(q) = Block(r) PROVE q = r
    <3>1. Block(q).load = q + 1 /\ Block(r).load = r + 1
      BY DEF Block
    <3> QED BY <2>1, <3>1 DEF Slots
  <2>2. \A q \in Slots : mem[q] = Block(q)
    OBVIOUS
  <2> QED
    BY <2>1, <2>2, Zenon DEF EachBlockOnce
<1> QED
  BY <1>3, <1>4 DEF Inv, Window, BlocksKept

LEMMA TypeStep == ASSUME Inv, [Step \/ Stopped]_vars PROVE TypeOK' /\ Window'
<1> USE DEF Inv
<1>1. CASE Return
  <2>1. Tail(stack) \in Seq([left : 0..N, right : Slots])
    BY <1>1, PopFrame DEF Return, Frames
  <2> QED
    BY <1>1, <2>1 DEF Return, TypeOK, Window, Slots
<1>2. CASE EnterPartition
  <2>1. left \in 0..N /\ right \in Slots
    BY <1>2, PopFrame DEF EnterPartition
  <2>2. /\ left \in 0..N /\ left \in Slots /\ left' = left /\ right' = right
    BY <1>2, <2>1, CountAssumption DEF EnterPartition, Slots, left, right
  <2> QED
    BY <1>2, <2>1, <2>2 DEF EnterPartition, TypeOK, Window, Slots
<1>3. CASE SwapOut
  <2>1. /\ left \in 0..N /\ right \in Slots /\ i \in Slots /\ j \in Slots
        /\ left <= i /\ i <= j /\ left' = left /\ right' = right
    BY <1>3, PopFrame, CountAssumption DEF SwapOut, Window, TypeOK, Slots, left, right
  <2>2. mem' \in [Slots -> Blocks] /\ buffer' \in Blocks
    BY <1>3, <2>1, SavedBlock DEF SwapOut, TypeOK
  <2>3. i' \in 0..N
    BY <1>3, <2>1, CountAssumption DEF SwapOut, Slots
  <2>4. TypeOK'
    BY <1>3, <2>2, <2>3 DEF SwapOut, TypeOK, Slots
  <2>5. Window'
    BY <1>3, <2>1, CountAssumption DEF SwapOut, Window, Slots
  <2> QED BY <2>4, <2>5
<1>4. CASE SwapFaults
  BY <1>4 DEF SwapFaults, TypeOK, Window, Slots
<1>5. CASE SwapIn
  <2>1. /\ right \in Slots /\ j \in Slots /\ left' = left /\ right' = right
        /\ left <= i /\ i <= j + 1 /\ j < right /\ stack # <<>>
    BY <1>5, PopFrame DEF SwapIn, Window, TypeOK, left, right
  <2>2. mem' \in [Slots -> Blocks]
    BY <1>5, <2>1 DEF SwapIn, TypeOK
  <2>3. j' \in Slots
    BY <1>5, <2>1, CountAssumption DEF SwapIn, Slots
  <2>4. TypeOK'
    BY <1>5, <2>2, <2>3 DEF SwapIn, TypeOK, Slots
  <2>5. Window'
    BY <1>5, <2>1, <2>3, CountAssumption DEF SwapIn, Window, Slots
  <2> QED BY <2>4, <2>5
<1>6. CASE ScanSkip
  <2>1. /\ right \in Slots /\ j \in Slots /\ left' = left /\ right' = right
        /\ left <= i /\ i <= j /\ j < right /\ stack # <<>>
        /\ left \in 0..N
    BY <1>6, PopFrame DEF ScanSkip, Window, TypeOK, left, right
  <2>2. j' \in Slots
    BY <1>6, <2>1, CountAssumption DEF ScanSkip, Slots
  <2>3. TypeOK'
    BY <1>6, <2>2 DEF ScanSkip, TypeOK, Slots
  <2>4. Window'
    BY <1>6, <2>1, <2>2, CountAssumption DEF ScanSkip, Window, Slots, TypeOK
  <2> QED BY <2>3, <2>4
<1>7. CASE PartitionReturns
  <2>1. /\ stack # <<>> /\ right \in Slots /\ left \in 0..N
        /\ left <= i /\ i <= j /\ j <= right
    BY <1>7, PopFrame DEF PartitionReturns, Window
  <2>2. i \in Slots /\ i <= right
    BY <2>1, CountAssumption DEF TypeOK, Slots
  <2>3. stack' \in Seq([left : 0..N, right : Slots])
    BY <1>7, <2>1, <2>2, SplitFrames DEF PartitionReturns, Frames
  <2> QED
    BY <1>7, <2>3 DEF PartitionReturns, TypeOK, Window, Slots
<1>8. CASE UNCHANGED vars
  BY <1>8 DEF vars, TypeOK, Window, Slots, Blocks, left, right
<1> QED
  BY <1>1, <1>2, <1>3, <1>4, <1>5, <1>6, <1>7, <1>8 DEF Step, Stopped

LEMMA BlockStep == ASSUME Inv, [Step \/ Stopped]_vars PROVE BlocksKept'
<1> USE DEF Inv
<1>1. CASE SwapOut
  <2>1. /\ right \in Slots /\ i \in Slots /\ j \in Slots /\ mem \in [Slots -> Blocks]
        /\ key' = key /\ pc' = "swap" /\ j' = j /\ Whole' = Whole
    BY <1>1, PopFrame, CountAssumption DEF SwapOut, Window, TypeOK, Slots, Whole
  <2> DEFINE exchanged == [[mem EXCEPT ![i] = mem[j]] EXCEPT ![j] = mem[i]]
             pending == IF pc = "swap" THEN [mem EXCEPT ![j] = buffer] ELSE mem
  <2>2. Whole => EachBlockOnce(exchanged)
    BY <1>1, <2>1, ExchangeKeepsBlocks DEF SwapOut, BlocksKept
  <2>3. Whole => pending' = exchanged
    BY <1>1, <2>1, SavedBlock DEF SwapOut
  <2>4. BlocksKept' <=> (Whole' => OnceIn(key', pending'))
    BY DEF BlocksKept, EachBlockOnce, OnceIn, Block
  <2>5. EachBlockOnce(exchanged) => OnceIn(key, exchanged)
    BY DEF EachBlockOnce, OnceIn, Block
  <2> QED
    BY <2>1, <2>2, <2>3, <2>4, <2>5
<1>2. CASE SwapIn
  BY <1>2 DEF SwapIn, BlocksKept, Whole, EachBlockOnce, Block, Slots
<1>3. CASE Return \/ EnterPartition \/ SwapFaults \/ ScanSkip \/ PartitionReturns \/ UNCHANGED vars
  <2>1. /\ UNCHANGED <<mem, key, tmpLen>>
        /\ \/ pc' # "swap" /\ pc # "swap"
           \/ pc' = pc /\ UNCHANGED <<buffer, j>>
    BY <1>3 DEF Return, EnterPartition, SwapFaults, ScanSkip, PartitionReturns, vars
  <2> QED
    BY <2>1 DEF BlocksKept, Whole, EachBlockOnce, Block, Slots
<1> QED
  BY <1>1, <1>2, <1>3 DEF Step, Stopped

\* The inductive invariant holds in every reachable state.
THEOREM Invariance == Spec => []Inv
<1>1. Inv /\ [Step \/ Stopped]_vars => Inv'
  BY TypeStep, BlockStep DEF Inv
<1> QED
  BY Start, <1>1, PTL DEF Spec

\* Every local stays in its range and no frame reaches outside the file, for
\* files of any number of blocks: the sort in place never touches a slot
\* that does not exist.
THEOREM TypeCorrect == Spec => []TypeOK
<1>1. Inv => TypeOK
  BY DEF Inv
<1> QED
  BY Invariance, <1>1, PTL

\* If tmp.iov_len covers a block, no exchange loses or doubles one: at every
\* step each block is in the file, or the one that is not is in the buffer.
THEOREM NoBlockLost == Spec => []BlocksKept
<1>1. Inv => BlocksKept
  BY DEF Inv
<1> QED
  BY Invariance, <1>1, PTL
=============================================================================
