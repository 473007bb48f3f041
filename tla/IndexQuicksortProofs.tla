------------------------ MODULE IndexQuicksortProofs ------------------------
(***************************************************************************)
(* Theorems about IndexQuicksort, for every number of entries, every set   *)
(* of ranks and every word size.                                           *)
(***************************************************************************)
EXTENDS IndexQuicksort, SequenceTheorems, TLAPS

\* Exchanging two slots of an index leaves an index over the same slots.
LEMMA SwapType ==
    ASSUME NEW f \in [Slots -> Slots], NEW p \in Slots, NEW q \in Slots
    PROVE  /\ Swap(f, p, q) \in [Slots -> Slots]
           /\ Swap(f, p, q)[p] = f[q]
           /\ Swap(f, p, q)[q] = f[p]
           /\ \A s \in Slots \ {p, q} : Swap(f, p, q)[s] = f[s]
  BY DEF Swap

\* Exchanging two slots loses no record and duplicates none.
LEMMA SwapKeepsEachOnce ==
    ASSUME NEW f \in [Slots -> Slots], NEW p \in Slots, NEW q \in Slots,
           EachOnce(f)
    PROVE  EachOnce(Swap(f, p, q))
<1> DEFINE g == Swap(f, p, q)
<1> SUFFICES ASSUME NEW r \in Slots
             PROVE  \E s \in Slots : g[s] = r /\ \A t \in Slots : g[t] = r => t = s
  BY DEF EachOnce
<1>1. PICK s \in Slots : f[s] = r /\ \A t \in Slots : f[t] = r => t = s
  BY DEF EachOnce
<1>2. /\ g \in [Slots -> Slots] /\ g[p] = f[q] /\ g[q] = f[p]
      /\ \A u \in Slots \ {p, q} : g[u] = f[u]
  BY DEF Swap
<1> HIDE DEF g
<1>3. CASE s = p
  <2>1. g[q] = r
    BY <1>1, <1>2, <1>3
  <2>2. ASSUME NEW t \in Slots, g[t] = r PROVE t = q
    BY <1>1, <1>2, <1>3, <2>2
  <2> QED
    BY <2>1, <2>2
<1>4. CASE s = q
  <2>1. g[p] = r
    BY <1>1, <1>2, <1>4
  <2>2. ASSUME NEW t \in Slots, g[t] = r PROVE t = p
    BY <1>1, <1>2, <1>4, <2>2
  <2> QED
    BY <2>1, <2>2
<1>5. CASE s \notin {p, q}
  <2>1. g[s] = r
    BY <1>1, <1>2, <1>5
  <2>2. ASSUME NEW t \in Slots, g[t] = r PROVE t = s
    BY <1>1, <1>2, <1>5, <2>2
  <2> QED
    BY <2>1, <2>2
<1> QED
  BY <1>3, <1>4, <1>5

\* Popping the running frame leaves the pending ones, one place higher.
LEMMA PopFrame ==
    ASSUME NEW s \in Seq(Frames), s # <<>>
    PROVE  /\ Head(s) \in Frames /\ Head(s) = s[1] /\ Len(s) \in Nat /\ Len(s) >= 1
           /\ Tail(s) \in Seq(Frames)
           /\ Len(Tail(s)) = Len(s) - 1
           /\ \A k \in 1..(Len(s) - 1) : Tail(s)[k] = s[k + 1]
  BY HeadTailProperties, EmptySeq, LenProperties, ElementOfSeq

\* The inductive invariant: the properties the runs check, taken together.
\* None is inductive alone: the order needs the partition window at the
\* moment the pivot is placed, and the window needs the spans disjoint.
IInv == /\ TypeOK
        /\ EachRangeOnce
        /\ SpansDisjoint
        /\ PartitionWindow
        /\ OrderedAcrossSpans

LEMMA InitIInv == SortInit => IInv
<1> SUFFICES ASSUME SortInit PROVE IInv
  OBVIOUS
<1> DEFINE f == [left |-> 0, right |-> N - 1]
<1>1. f \in Frames
  BY CountAssumption DEF Frames, Slots
<1>2. /\ stack = <<f>> /\ stack \in Seq(Frames) /\ Len(stack) = 1 /\ stack[1] = f
  BY <1>1 DEF SortInit
<1>3. /\ id \in [Slots -> 1..N] /\ range \in [Slots -> Slots]
      /\ i \in Words /\ j \in Slots /\ pivot \in Slots
  BY CountAssumption, WordAssumption DEF SortInit, Slots, Words
<1>4. TypeOK
  BY <1>2, <1>3 DEF SortInit, TypeOK
<1>5. EachRangeOnce
  BY DEF SortInit, EachRangeOnce, EachOnce
<1>6. SpansDisjoint
  BY <1>2 DEF SpansDisjoint
<1>7. PartitionWindow
  BY DEF SortInit, PartitionWindow
<1>8. OrderedAcrossSpans
  <2> SUFFICES ASSUME NEW p \in Slots, NEW q \in Slots
               PROVE  p \in Span(stack[1]) /\ q \in Span(stack[1])
    BY <1>2 DEF OrderedAcrossSpans
  <2> QED
    BY <1>2 DEF Span, Slots
<1> QED
  BY <1>4, <1>5, <1>6, <1>7, <1>8 DEF IInv

\* The running frame lies inside the index and left of the pending ones.
LEMMA HeadFrame ==
    ASSUME TypeOK, SpansDisjoint, stack # <<>>
    PROVE  /\ Len(stack) \in Nat /\ Len(stack) >= 1
           /\ left = stack[1].left /\ right = stack[1].right
           /\ left \in 0..N /\ right \in Slots
           /\ \A k \in 1..Len(stack) :
                 stack[k] \in Frames /\ stack[k].left \in 0..N /\ stack[k].right \in Slots
           /\ \A k \in 2..Len(stack) : right < stack[k].left
<1>1. stack \in Seq(Frames)
  BY DEF TypeOK
<1>2. /\ Head(stack) \in Frames /\ Head(stack) = stack[1]
      /\ Len(stack) \in Nat /\ Len(stack) >= 1
  BY <1>1, PopFrame
<1>3. \A k \in 1..Len(stack) : stack[k] \in Frames
  BY <1>1, ElementOfSeq
<1>4. \A k \in 1..Len(stack) : stack[k].left \in 0..N /\ stack[k].right \in Slots
  BY <1>3 DEF Frames
<1>5. ASSUME NEW k \in 2..Len(stack) PROVE right < stack[k].left
  BY <1>2, 1 \in 1..Len(stack), k \in 1..Len(stack), 1 < k DEF SpansDisjoint, right
<1> QED
  BY <1>2, <1>3, <1>4, <1>5 DEF left, right

\* Exchanging two slots of the running span cannot break the order between
\* slots that no pending call owns together.
LEMMA SwapInsideRunningSpan ==
    ASSUME TypeOK, SpansDisjoint, OrderedAcrossSpans, stack # <<>>,
           NEW a \in Slots, NEW b \in Slots, a \in left..right, b \in left..right,
           NEW f, f = Swap(range, a, b)
    PROVE  \A p, q \in Slots :
              \/ p >= q
              \/ rank[f[p]] <= rank[f[q]]
              \/ \E k \in 1..Len(stack) : p \in Span(stack[k]) /\ q \in Span(stack[k])
<1> SUFFICES ASSUME NEW p \in Slots, NEW q \in Slots, p < q,
                    \A k \in 1..Len(stack) : ~(p \in Span(stack[k]) /\ q \in Span(stack[k]))
             PROVE  rank[f[p]] <= rank[f[q]]
  BY DEF Slots
<1>1. range \in [Slots -> Slots]
  BY DEF TypeOK
<1>2. /\ f[a] = range[b] /\ f[b] = range[a]
      /\ \A s \in Slots \ {a, b} : f[s] = range[s]
  BY <1>1 DEF Swap
<1>3. /\ Len(stack) \in Nat /\ Len(stack) >= 1
      /\ left \in 0..N /\ right \in Slots
      /\ Span(stack[1]) = left..right
  BY HeadFrame DEF Span
<1>4. ~(p \in left..right /\ q \in left..right)
  BY <1>3
<1>5. ASSUME NEW s \in Slots, NEW t \in Slots, s < t,
             s \in left..right, t \notin left..right
      PROVE  rank[range[s]] <= rank[range[t]]
  <2>1. ASSUME NEW k \in 1..Len(stack) PROVE ~(s \in Span(stack[k]) /\ t \in Span(stack[k]))
    <3>1. CASE k = 1
      BY <1>3, <1>5, <3>1
    <3>2. CASE k # 1
      <4>1. k \in 2..Len(stack)
        BY <1>3, <3>2
      <4>2. right < stack[k].left /\ stack[k].left \in 0..N /\ stack[k].right \in Slots
        BY <4>1, HeadFrame
      <4> QED
        BY <4>2, <1>3, <1>5 DEF Span, Slots
    <3> QED
      BY <3>1, <3>2
  <2>2. s \in Int /\ t \in Int
    BY DEF Slots
  <2> QED
    BY <1>5, <2>1, <2>2 DEF OrderedAcrossSpans
<1>6. ASSUME NEW s \in Slots, NEW t \in Slots, s < t,
             s \notin left..right, t \in left..right
      PROVE  rank[range[s]] <= rank[range[t]]
  <2>1. ASSUME NEW k \in 1..Len(stack) PROVE ~(s \in Span(stack[k]) /\ t \in Span(stack[k]))
    <3>1. CASE k = 1
      BY <1>3, <1>6, <3>1
    <3>2. CASE k # 1
      <4>1. k \in 2..Len(stack)
        BY <1>3, <3>2
      <4>2. right < stack[k].left /\ stack[k].left \in 0..N /\ stack[k].right \in Slots
        BY <4>1, HeadFrame
      <4> QED
        BY <4>2, <1>3, <1>6 DEF Span, Slots
    <3> QED
      BY <3>1, <3>2
  <2>2. s \in Int /\ t \in Int
    BY DEF Slots
  <2> QED
    BY <1>6, <2>1, <2>2 DEF OrderedAcrossSpans
<1>7. CASE p \in left..right
  <2>1. q \notin left..right /\ right < q /\ q \notin {a, b}
    BY <1>3, <1>4, <1>7 DEF Slots
  <2>2. PICK s \in Slots : s \in left..right /\ f[p] = range[s]
    BY <1>2, <1>7
  <2>3. s < q
    BY <2>1, <2>2, <1>3 DEF Slots
  <2> QED
    BY <1>2, <1>5, <2>1, <2>2, <2>3
<1>8. CASE p \notin left..right /\ q \in left..right
  <2>1. p < left /\ p \notin {a, b}
    BY <1>3, <1>8 DEF Slots
  <2>2. PICK t \in Slots : t \in left..right /\ f[q] = range[t]
    BY <1>2, <1>8
  <2>3. p < t
    BY <2>1, <2>2, <1>3 DEF Slots
  <2> QED
    BY <1>2, <1>6, <1>8, <2>1, <2>2, <2>3
<1>9. CASE p \notin left..right /\ q \notin left..right
  <2>1. f[p] = range[p] /\ f[q] = range[q]
    BY <1>2, <1>9
  <2>2. p \in Int /\ q \in Int
    BY DEF Slots
  <2> QED
    BY <2>1, <2>2 DEF OrderedAcrossSpans
<1> QED
  BY <1>7, <1>8, <1>9

\* A call on a span of at most one slot returns and owes nothing.
LEMMA ReturnKeeps == IInv /\ Return => IInv'
<1> SUFFICES ASSUME IInv, Return PROVE IInv'
  OBVIOUS
<1> USE DEF IInv
<1>1. stack \in Seq(Frames) /\ stack # <<>>
  BY DEF TypeOK, Return
<1>2. /\ stack' \in Seq(Frames) /\ Len(stack) \in Nat /\ Len(stack) >= 1
      /\ Len(stack') = Len(stack) - 1
      /\ \A k \in 1..(Len(stack) - 1) : stack'[k] = stack[k + 1]
  BY <1>1, PopFrame DEF Return
<1>3. TypeOK'
  BY <1>2 DEF TypeOK, Return
<1>4. EachRangeOnce'
  BY DEF EachRangeOnce, EachOnce, Return
<1>5. SpansDisjoint'
  BY <1>2 DEF SpansDisjoint
<1>6. PartitionWindow'
  BY DEF PartitionWindow, Return
<1>7. OrderedAcrossSpans'
  <2> SUFFICES ASSUME NEW p \in Slots, NEW q \in Slots, p < q,
                      ~(rank[range[p]] <= rank[range[q]])
               PROVE  \E k \in 1..Len(stack') : p \in Span(stack'[k]) /\ q \in Span(stack'[k])
    BY DEF OrderedAcrossSpans, Return, Span, Slots
  <2>1. PICK k \in 1..Len(stack) : p \in Span(stack[k]) /\ q \in Span(stack[k])
    BY DEF OrderedAcrossSpans, Slots
  <2>2. k # 1
    <3>1. left \in 0..N /\ right \in Slots /\ left = stack[1].left /\ right = stack[1].right
      BY <1>1, HeadFrame
    <3> QED
      BY <2>1, <3>1 DEF Span, Return, Slots
  <2>3. k - 1 \in 1..Len(stack') /\ stack'[k - 1] = stack[k]
    BY <1>2, <2>2
  <2> QED
    BY <2>1, <2>3
<1> QED
  BY <1>3, <1>4, <1>5, <1>6, <1>7

\* Entering partition establishes the window, empty on both sides: the
\* wrapped i increments back to left.
LEMMA EnterKeeps == IInv /\ EnterPartition => IInv'
<1> SUFFICES ASSUME IInv, EnterPartition PROVE IInv'
  OBVIOUS
<1> USE DEF IInv
<1>1. left \in 0..N /\ right \in Slots /\ left < right
  BY HeadFrame DEF EnterPartition
<1>2. left \in Slots /\ left \in Nat /\ left < MaxWord /\ MaxWord \in Nat
  BY <1>1, CountAssumption, WordAssumption DEF Slots
<1>3. i' \in Words /\ Inc(i') = left
  BY <1>2 DEF EnterPartition, Inc, Dec, Words
<1>4. pivot' \in Slots /\ pivot' = range[right] /\ j' = left
  BY <1>1 DEF TypeOK, EnterPartition
<1>5. TypeOK'
  BY <1>2, <1>3, <1>4 DEF TypeOK, EnterPartition
<1>6. EachRangeOnce'
  BY DEF EachRangeOnce, EachOnce, EnterPartition
<1>7. SpansDisjoint'
  BY DEF SpansDisjoint, EnterPartition
<1>8. PartitionWindow'
  BY <1>1, <1>2, <1>3, <1>4 DEF PartitionWindow, EnterPartition, Slots, left, right
<1>9. OrderedAcrossSpans'
  BY DEF OrderedAcrossSpans, EnterPartition, Span
<1> QED
  BY <1>5, <1>6, <1>7, <1>8, <1>9

\* What the window says of the indices while the loop runs.
LEMMA WindowBounds ==
    ASSUME IInv, pc = "scan"
    PROVE  /\ stack # <<>>
           /\ left \in Nat /\ left <= N /\ right \in Nat /\ right < N /\ left < right
           /\ j \in Nat /\ left <= j /\ j <= right
           /\ Inc(i) \in Nat /\ left <= Inc(i) /\ Inc(i) <= j
           /\ Inc(i) \in Slots /\ j \in Slots /\ right \in Slots
<1>1. /\ stack # <<>> /\ left < right /\ j \in left..right /\ Inc(i) \in left..j
  BY DEF IInv, PartitionWindow
<1>2. left \in 0..N /\ right \in Slots
  BY <1>1, HeadFrame DEF IInv
<1> QED
  BY <1>1, <1>2, CountAssumption DEF Slots

\* An element below the pivot moves to the low side of the window.
LEMMA ScanLessKeeps == IInv /\ ScanLess => IInv'
<1> SUFFICES ASSUME IInv, ScanLess PROVE IInv'
  OBVIOUS
<1> USE DEF IInv
<1> DEFINE a == Inc(i)
<1>0. pc = "scan" /\ j < right /\ rank[range[j]] < rank[pivot]
  BY DEF ScanLess, Less
<1>1. /\ stack # <<>>
      /\ left \in Nat /\ left <= N /\ right \in Nat /\ right < N /\ left < right
      /\ j \in Nat /\ left <= j /\ j <= right
      /\ a \in Nat /\ left <= a /\ a <= j
      /\ a \in Slots /\ j \in Slots /\ right \in Slots
  BY <1>0, WindowBounds
<1>2. range \in [Slots -> Slots] /\ rank \in [Slots -> Ranks] /\ pivot \in Slots
  BY DEF TypeOK
<1>3. range' = Swap(range, a, j) /\ i' = a /\ j' = j + 1
      /\ UNCHANGED <<rank, id, stack, pc, pivot, left, right>>
  BY DEF ScanLess, left, right
<1>4. /\ range' \in [Slots -> Slots] /\ range'[a] = range[j] /\ range'[j] = range[a]
      /\ \A s \in Slots \ {a, j} : range'[s] = range[s]
  BY <1>1, <1>2, <1>3 DEF Swap
<1>5. i' \in Words /\ Inc(i') = a + 1 /\ j' \in Slots
  BY <1>0, <1>1, <1>3, CountAssumption, WordAssumption DEF Inc, Words, Slots
<1>6. TypeOK'
  BY <1>3, <1>4, <1>5 DEF TypeOK
<1>7. EachRangeOnce'
  <2>1. EachOnce(Swap(range, a, j))
    BY <1>1, <1>2, SwapKeepsEachOnce DEF EachRangeOnce
  <2> QED
    BY <1>3, <2>1 DEF EachRangeOnce, EachOnce
<1>8. SpansDisjoint'
  BY <1>3 DEF SpansDisjoint
<1>9. PartitionWindow'
  <2> HIDE DEF a
  <2>1. /\ pivot = range[right]
        /\ \A p \in left..(a - 1) : rank[range[p]] < rank[pivot]
        /\ \A p \in a..(j - 1) : rank[range[p]] >= rank[pivot]
    BY <1>0 DEF PartitionWindow, a
  <2>2. range'[right] = range[right]
    BY <1>0, <1>1, <1>4
  <2>3. ASSUME NEW p \in left..a PROVE rank[range'[p]] < rank[pivot]
    <3>1. CASE p = a
      BY <3>1, <1>0, <1>4
    <3>2. CASE p # a
      <4>1. p \in left..(a - 1) /\ p \in Slots \ {a, j}
        BY <3>2, <1>1, CountAssumption DEF Slots
      <4> QED
        BY <4>1, <2>1, <1>4
    <3> QED
      BY <3>1, <3>2
  <2>4. ASSUME NEW p \in (a + 1)..j PROVE rank[range'[p]] >= rank[pivot]
    <3>1. CASE p = j
      <4>1. a \in a..(j - 1)
        BY <3>1, <1>1
      <4> QED
        BY <4>1, <3>1, <2>1, <1>4
    <3>2. CASE p # j
      <4>1. p \in a..(j - 1) /\ p \in Slots \ {a, j}
        BY <3>2, <1>1, CountAssumption DEF Slots
      <4> QED
        BY <4>1, <2>1, <1>4
    <3> QED
      BY <3>1, <3>2
  <2>5. Inc(i') - 1 = a /\ j' - 1 = j /\ Inc(i') = a + 1
    BY <1>1, <1>3, <1>5
  <2>6. j' \in left..right /\ Inc(i') \in left..j'
    BY <1>0, <1>1, <1>3, <1>5
  <2> QED
    BY <1>0, <1>1, <1>3, <2>1, <2>2, <2>3, <2>4, <2>5, <2>6 DEF PartitionWindow
<1>10. OrderedAcrossSpans'
  <2>1. a \in left..right /\ j \in left..right
    BY <1>1
  <2>2. \A p, q \in Slots :
           \/ p >= q
           \/ rank[range'[p]] <= rank[range'[q]]
           \/ \E k \in 1..Len(stack) : p \in Span(stack[k]) /\ q \in Span(stack[k])
    BY <1>1, <1>3, <2>1, SwapInsideRunningSpan
  <2> QED
    BY <1>3, <2>2 DEF OrderedAcrossSpans, Span
<1> QED
  BY <1>6, <1>7, <1>8, <1>9, <1>10

\* An element not below the pivot stays on the high side of the window.
LEMMA ScanSkipKeeps == IInv /\ ScanSkip => IInv'
<1> SUFFICES ASSUME IInv, ScanSkip PROVE IInv'
  OBVIOUS
<1> USE DEF IInv
<1>1. pc = "scan" /\ j < right /\ ~(rank[range[j]] < rank[pivot])
  BY DEF ScanSkip, Less
<1>2. /\ left \in Nat /\ right \in Nat /\ right < N
      /\ j \in Nat /\ left <= j /\ j <= right /\ j \in Slots
      /\ Inc(i) \in Nat /\ left <= Inc(i) /\ Inc(i) <= j
  BY <1>1, WindowBounds
<1>3. UNCHANGED <<rank, id, range, stack, pc, i, pivot, left, right>> /\ j' = j + 1
  BY DEF ScanSkip, left, right
<1>4. rank[range[j]] \in Int /\ rank[pivot] \in Int
  BY <1>2, RanksAssumption DEF TypeOK
<1>5. TypeOK'
  <2>1. j' \in Slots
    BY <1>1, <1>2, <1>3, CountAssumption DEF Slots
  <2> QED
    BY <1>3, <2>1 DEF TypeOK
<1>6. EachRangeOnce'
  BY <1>3 DEF EachRangeOnce, EachOnce
<1>7. SpansDisjoint'
  BY <1>3 DEF SpansDisjoint
<1>8. PartitionWindow'
  <2>1. \A p \in Inc(i)..j : rank[range[p]] >= rank[pivot]
    BY <1>1, <1>2, <1>4 DEF PartitionWindow
  <2>2. j' - 1 = j /\ j' \in left..right /\ Inc(i) \in left..j' /\ Inc(i') = Inc(i)
    BY <1>1, <1>2, <1>3
  <2> QED
    BY <1>1, <1>3, <2>1, <2>2 DEF PartitionWindow
<1>9. OrderedAcrossSpans'
  BY <1>3 DEF OrderedAcrossSpans, Span
<1> QED
  BY <1>5, <1>6, <1>7, <1>8, <1>9

\* Placing the pivot: whether or not the last exchange happens, the slots
\* left of part hold smaller records, slot part holds the pivot's rank and
\* the slots right of it hold records that are not smaller.
LEMMA PivotSplits ==
    ASSUME IInv, PlacePivot, NEW part, part = Inc(i)
    PROVE  \A p \in left..right :
              /\ p < part => rank[range'[p]] < rank[pivot]
              /\ p = part => rank[range'[p]] = rank[pivot]
              /\ p > part => rank[range'[p]] >= rank[pivot]
<1>1. pc = "scan" /\ ~(j < right)
  BY DEF PlacePivot
<1>2. /\ left \in Nat /\ right \in Nat /\ right < N /\ j = right
      /\ part \in Nat /\ left <= part /\ part <= right
      /\ part \in Slots /\ right \in Slots
  BY <1>1, WindowBounds
<1>3. /\ pivot = range[right]
      /\ \A p \in left..(part - 1) : rank[range[p]] < rank[pivot]
      /\ \A p \in part..(right - 1) : rank[range[p]] >= rank[pivot]
  BY <1>1, <1>2 DEF IInv, PartitionWindow
<1>4. /\ range \in [Slots -> Slots]
      /\ \A r \in Slots : rank[r] \in Int
  BY RanksAssumption DEF IInv, TypeOK
<1>8. rank[range[part]] \in Int /\ rank[range[right]] \in Int
  BY <1>2, <1>4
<1> SUFFICES ASSUME NEW p \in left..right
             PROVE  /\ p < part => rank[range'[p]] < rank[pivot]
                    /\ p = part => rank[range'[p]] = rank[pivot]
                    /\ p > part => rank[range'[p]] >= rank[pivot]
  OBVIOUS
<1>5. p \in Slots /\ p \in Nat
  BY <1>2, CountAssumption DEF Slots
<1>6. CASE Less(range[right], range[part])
  <2>1. range' = Swap(range, part, right)
    BY <1>2, <1>6 DEF PlacePivot
  <2>2. /\ range'[part] = range[right] /\ range'[right] = range[part]
        /\ \A s \in Slots \ {part, right} : range'[s] = range[s]
    BY <1>2, <1>4, <2>1 DEF Swap
  <2>3. part # right /\ part \in part..(right - 1)
    BY <1>2, <1>6, <1>8 DEF Less
  <2>4. CASE p = right
    BY <1>2, <1>3, <1>4, <2>2, <2>3, <2>4
  <2>5. CASE p = part
    BY <1>2, <1>3, <1>4, <2>2, <2>3, <2>5
  <2>6. CASE p \notin {part, right}
    <3>1. range'[p] = range[p]
      BY <1>5, <2>2, <2>6
    <3> QED
      BY <1>2, <1>3, <1>5, <2>6, <3>1
  <2> QED
    BY <2>4, <2>5, <2>6
<1>7. CASE ~Less(range[right], range[part])
  <2>1. range' = range
    BY <1>2, <1>7 DEF PlacePivot
  <2>2. rank[range[part]] <= rank[pivot]
    BY <1>3, <1>7, <1>8 DEF Less
  <2>3. rank[range[part]] = rank[pivot]
    <3>1. CASE part = right
      BY <1>3, <3>1
    <3>2. CASE part < right
      <4>1. part \in part..(right - 1)
        BY <1>2, <3>2
      <4> QED
        BY <4>1, <1>3, <1>8, <2>2
    <3> QED
      BY <1>2, <3>1, <3>2
  <2>4. CASE p = right
    BY <1>2, <1>3, <1>4, <2>1, <2>3, <2>4
  <2>5. CASE p # right
    BY <1>2, <1>3, <1>5, <2>1, <2>3, <2>5
  <2> QED
    BY <2>4, <2>5
<1> QED
  BY <1>6, <1>7

\* The frames that replace the running one cover its span but for part.
LEMMA SplitFrames ==
    ASSUME IInv, PlacePivot, NEW part, part = Inc(i)
    PROVE  \E n \in {1, 2} :
              /\ stack' \in Seq(Frames)
              /\ Len(stack') = Len(stack) - 1 + n
              /\ stack'[n] = [left |-> part + 1, right |-> right]
              /\ n = 2 => stack'[1] = [left |-> left, right |-> part - 1]
              /\ n = 1 => part = left
              /\ \A k \in (n + 1)..Len(stack') :
                    k - n + 1 \in 2..Len(stack) /\ stack'[k] = stack[k - n + 1]
<1>1. pc = "scan" /\ ~(j < right)
  BY DEF PlacePivot
<1>2. /\ stack # <<>> /\ left \in Nat /\ left <= N /\ right \in Nat /\ right < N
      /\ part \in Nat /\ left <= part /\ part <= right /\ right \in Slots
  BY <1>1, WindowBounds
<1>3. stack \in Seq(Frames)
  BY DEF IInv, TypeOK
<1>4. /\ Len(stack) \in Nat /\ Len(stack) >= 1
      /\ Tail(stack) \in Seq(Frames) /\ Len(Tail(stack)) = Len(stack) - 1
      /\ \A k \in 1..(Len(stack) - 1) : Tail(stack)[k] = stack[k + 1]
  BY <1>2, <1>3, PopFrame
<1>5. stack' = Split(part) \o Tail(stack)
  BY DEF PlacePivot
<1> DEFINE lo == [left |-> left, right |-> part - 1]
           hi == [left |-> part + 1, right |-> right]
<1>6. hi \in Frames
  BY <1>2, CountAssumption DEF Frames, Slots
<1>7. CASE part > 0
  <2>1. lo \in Frames
    BY <1>2, <1>7, CountAssumption DEF Frames, Slots
  <2> HIDE DEF lo, hi
  <2>2. Split(part) = <<lo>> \o <<hi>>
    BY <1>7 DEF Split, lo, hi
  <2>3. /\ Split(part) \in Seq(Frames) /\ Len(Split(part)) = 2
        /\ Split(part)[1] = lo /\ Split(part)[2] = hi
    BY <2>1, <2>2, <1>6
  <2>4. /\ stack' \in Seq(Frames) /\ Len(stack') = Len(stack) + 1
        /\ \A k \in 1..(Len(stack) + 1) :
              stack'[k] = IF k <= 2 THEN Split(part)[k] ELSE Tail(stack)[k - 2]
    <3> DEFINE s1 == Split(part)
               s2 == Tail(stack)
    <3>1. s1 \in Seq(Frames) /\ s2 \in Seq(Frames) /\ stack' = s1 \o s2
      BY <2>3, <1>4, <1>5
    <3>2. Len(s1) = 2 /\ Len(s2) = Len(stack) - 1 /\ Len(stack) \in Nat
      BY <2>3, <1>4
    <3> HIDE DEF s1, s2
    <3>3. /\ s1 \o s2 \in Seq(Frames)
          /\ Len(s1 \o s2) = Len(s1) + Len(s2)
          /\ \A k \in 1..(Len(s1) + Len(s2)) :
                (s1 \o s2)[k] = IF k <= Len(s1) THEN s1[k] ELSE s2[k - Len(s1)]
      BY <3>1, ConcatProperties
    <3>4. Len(s1) + Len(s2) = Len(stack) + 1
      BY <3>2
    <3> QED
      BY <3>1, <3>2, <3>3, <3>4 DEF s1, s2
  <2>5. stack'[1] = lo /\ stack'[2] = hi
    BY <2>3, <2>4, <1>4
  <2>6. ASSUME NEW k \in 3..Len(stack')
        PROVE  k - 1 \in 2..Len(stack) /\ stack'[k] = stack[k - 1]
    <3>1. /\ k \in 1..(Len(stack) + 1) /\ ~(k <= 2)
          /\ k - 2 \in 1..(Len(stack) - 1) /\ (k - 2) + 1 = k - 1
      BY <2>4, <1>4
    <3>2. stack'[k] = Tail(stack)[k - 2] /\ Tail(stack)[k - 2] = stack[(k - 2) + 1]
      BY <2>4, <3>1, <1>4
    <3> QED
      BY <3>1, <3>2, <1>4
  <2>7. \A k \in (2 + 1)..Len(stack') :
           k - 2 + 1 \in 2..Len(stack) /\ stack'[k] = stack[k - 2 + 1]
    BY <2>6, <2>4, <1>4
  <2>8. Len(stack') = Len(stack) - 1 + 2
    BY <2>4, <1>4
  <2> QED
    BY <2>4, <2>5, <2>7, <2>8 DEF lo, hi
<1>8. CASE ~(part > 0)
  <2>1. part = 0 /\ part = left
    BY <1>2, <1>8
  <2> HIDE DEF hi
  <2>2. Split(part) = <<>> \o <<hi>>
    BY <1>8 DEF Split, hi
  <2>3. /\ Split(part) \in Seq(Frames) /\ Len(Split(part)) = 1 /\ Split(part)[1] = hi
    BY <2>2, <1>6
  <2>4. /\ stack' \in Seq(Frames) /\ Len(stack') = Len(stack)
        /\ \A k \in 1..Len(stack) :
              stack'[k] = IF k <= 1 THEN Split(part)[k] ELSE Tail(stack)[k - 1]
    <3> DEFINE s1 == Split(part)
               s2 == Tail(stack)
    <3>1. s1 \in Seq(Frames) /\ s2 \in Seq(Frames) /\ stack' = s1 \o s2
      BY <2>3, <1>4, <1>5
    <3>2. Len(s1) = 1 /\ Len(s2) = Len(stack) - 1 /\ Len(stack) \in Nat
      BY <2>3, <1>4
    <3> HIDE DEF s1, s2
    <3>3. /\ s1 \o s2 \in Seq(Frames)
          /\ Len(s1 \o s2) = Len(s1) + Len(s2)
          /\ \A k \in 1..(Len(s1) + Len(s2)) :
                (s1 \o s2)[k] = IF k <= Len(s1) THEN s1[k] ELSE s2[k - Len(s1)]
      BY <3>1, ConcatProperties
    <3>4. Len(s1) + Len(s2) = Len(stack)
      BY <3>2
    <3> QED
      BY <3>1, <3>2, <3>3, <3>4 DEF s1, s2
  <2>5. stack'[1] = hi
    BY <2>3, <2>4, <1>4
  <2>6. ASSUME NEW k \in 2..Len(stack')
        PROVE  stack'[k] = stack[k]
    BY <2>4, <1>4
  <2>7. \A k \in (1 + 1)..Len(stack') :
           k - 1 + 1 \in 2..Len(stack) /\ stack'[k] = stack[k - 1 + 1]
    BY <2>6, <2>4, <1>4
  <2>8. Len(stack') = Len(stack) - 1 + 1
    BY <2>4, <1>4
  <2> QED
    BY <2>1, <2>4, <2>5, <2>7, <2>8 DEF hi
<1> QED
  BY <1>7, <1>8, <1>2

\* Placing the pivot splits the running span at a slot that is now final.
LEMMA PlaceKeeps == IInv /\ PlacePivot => IInv'
<1> SUFFICES ASSUME IInv, PlacePivot PROVE IInv'
  OBVIOUS
<1> DEFINE part == Inc(i)
<1>0. TypeOK /\ EachRangeOnce /\ SpansDisjoint /\ OrderedAcrossSpans
  BY DEF IInv
<1>1. /\ stack # <<>>
      /\ left \in Nat /\ left <= N /\ right \in Nat /\ right < N /\ left < right
      /\ part \in Nat /\ left <= part /\ part <= right
      /\ part \in Slots /\ right \in Slots
  <2>1. pc = "scan" /\ ~(j < right)
    BY DEF PlacePivot
  <2> QED
    BY <2>1, WindowBounds
<1>2. PICK n \in {1, 2} :
         /\ stack' \in Seq(Frames)
         /\ Len(stack') = Len(stack) - 1 + n
         /\ stack'[n] = [left |-> part + 1, right |-> right]
         /\ n = 2 => stack'[1] = [left |-> left, right |-> part - 1]
         /\ n = 1 => part = left
         /\ \A k \in (n + 1)..Len(stack') :
               k - n + 1 \in 2..Len(stack) /\ stack'[k] = stack[k - n + 1]
  BY SplitFrames
<1>3. /\ Len(stack) \in Nat /\ Len(stack) >= 1
      /\ left = stack[1].left /\ right = stack[1].right
      /\ \A k \in 1..Len(stack) : stack[k].left \in 0..N /\ stack[k].right \in Slots
      /\ \A k \in 2..Len(stack) : right < stack[k].left
  BY <1>0, <1>1, HeadFrame
<1>4. /\ range' \in [Slots -> Slots]
      /\ range' = range \/ range' = Swap(range, part, right)
      /\ UNCHANGED <<rank, id, i, j, pivot>> /\ pc' = "call"
  <2>1. range \in [Slots -> Slots]
    BY <1>0 DEF TypeOK
  <2> QED
    BY <1>1, <2>1 DEF PlacePivot, Swap
<1> HIDE DEF part
<1>5. TypeOK'
  BY <1>0, <1>2, <1>4 DEF TypeOK
<1>6. EachRangeOnce'
  <2>1. EachOnce(range) /\ range \in [Slots -> Slots]
    BY <1>0 DEF EachRangeOnce, TypeOK
  <2>2. EachOnce(Swap(range, part, right))
    BY <1>1, <2>1, SwapKeepsEachOnce
  <2>3. EachOnce(range')
    BY <1>4, <2>1, <2>2
  <2> QED
    BY <2>3 DEF EachRangeOnce, EachOnce
<1>7. SpansDisjoint'
  <2> SUFFICES ASSUME NEW k \in 1..Len(stack'), NEW l \in 1..Len(stack'), k < l
               PROVE  stack'[k].right < stack'[l].left
    BY DEF SpansDisjoint
  <2>1. Len(stack') \in Nat
    BY <1>2, <1>3
  <2>2. CASE k > n
    <3>1. /\ k \in (n + 1)..Len(stack') /\ l \in (n + 1)..Len(stack')
          /\ k - n + 1 < l - n + 1
      BY <2>1, <2>2
    <3>2. /\ k - n + 1 \in 1..Len(stack) /\ l - n + 1 \in 1..Len(stack)
          /\ stack'[k] = stack[k - n + 1] /\ stack'[l] = stack[l - n + 1]
      BY <3>1, <1>2, <1>3
    <3> QED
      BY <3>1, <3>2, <1>0 DEF SpansDisjoint
  <2>3. CASE k <= n /\ l > n
    <3>1. l \in (n + 1)..Len(stack')
      BY <2>1, <2>3
    <3>2. right < stack'[l].left /\ stack'[l].left \in 0..N
      <4>1. l - n + 1 \in 2..Len(stack) /\ stack'[l] = stack[l - n + 1]
        BY <3>1, <1>2
      <4>2. l - n + 1 \in 1..Len(stack)
        BY <4>1, <1>3
      <4> QED
        BY <4>1, <4>2, <1>3
    <3>3. stack'[k].right = right \/ stack'[k].right = part - 1
      BY <1>2, <2>3
    <3> QED
      BY <3>2, <3>3, <1>1
  <2>4. CASE l <= n
    <3>1. n = 2 /\ k = 1 /\ l = 2
      BY <2>4
    <3>2. stack'[k].right = part - 1 /\ stack'[l].left = part + 1
      BY <1>2, <3>1
    <3> QED
      BY <3>2, <1>1
  <2> QED
    BY <2>2, <2>3, <2>4
<1>8. PartitionWindow'
  BY <1>4 DEF PartitionWindow
<1>9. OrderedAcrossSpans'
  <2> SUFFICES ASSUME NEW p \in Slots, NEW q \in Slots, p < q,
                      ~(rank[range'[p]] <= rank[range'[q]])
               PROVE  \E k \in 1..Len(stack') : p \in Span(stack'[k]) /\ q \in Span(stack'[k])
    BY <1>4 DEF OrderedAcrossSpans, Span, Slots
  <2>0. p \in Int /\ q \in Int
    BY DEF Slots
  <2>1. PICK k \in 1..Len(stack) : p \in Span(stack[k]) /\ q \in Span(stack[k])
    <3>1. CASE range' = range
      BY <3>1, <1>0, <2>0 DEF OrderedAcrossSpans
    <3>2. CASE range' = Swap(range, part, right)
      <4>1. part \in left..right /\ right \in left..right
        BY <1>1
      <4>2. \A s, t \in Slots :
               \/ s >= t
               \/ rank[range'[s]] <= rank[range'[t]]
               \/ \E m \in 1..Len(stack) : s \in Span(stack[m]) /\ t \in Span(stack[m])
        BY <1>0, <1>1, <3>2, <4>1, SwapInsideRunningSpan
      <4> QED
        BY <4>2, <2>0
    <3> QED
      BY <1>4, <3>1, <3>2
  <2>2. CASE k > 1
    <3>1. k + n - 1 \in (n + 1)..Len(stack')
      BY <1>2, <1>3, <2>2
    <3>2. k + n - 1 - n + 1 = k /\ k + n - 1 \in 1..Len(stack')
      BY <1>2, <1>3, <2>2
    <3>3. stack'[k + n - 1] = stack[k]
      BY <1>2, <3>1, <3>2
    <3> QED
      BY <2>1, <3>2, <3>3
  <2>3. CASE k = 1
    <3>1. p \in left..right /\ q \in left..right
      BY <1>3, <2>1, <2>3 DEF Span
    <3>2. \A s \in left..right :
              /\ s < part => rank[range'[s]] < rank[pivot]
              /\ s = part => rank[range'[s]] = rank[pivot]
              /\ s > part => rank[range'[s]] >= rank[pivot]
      BY PivotSplits DEF part
    <3>3. rank[range'[p]] \in Int /\ rank[range'[q]] \in Int /\ rank[pivot] \in Int
      BY <1>0, <1>4, RanksAssumption DEF TypeOK
    <3>4. (q < part) \/ (p > part)
      BY <2>0, <3>1, <3>2, <3>3, <1>1
    <3>5. CASE q < part
      <4>1. n = 2
        BY <1>1, <1>2, <3>1, <3>5, <2>0
      <4>2. 1 \in 1..Len(stack') /\ Span(stack'[1]) = left..(part - 1)
        BY <4>1, <1>2, <1>3 DEF Span
      <4>3. p \in left..(part - 1) /\ q \in left..(part - 1)
        BY <3>1, <3>5, <1>1, <2>0
      <4> QED
        BY <4>2, <4>3
    <3>6. CASE p > part
      <4>1. n \in 1..Len(stack') /\ Span(stack'[n]) = (part + 1)..right
        BY <1>2, <1>3 DEF Span
      <4>2. p \in (part + 1)..right /\ q \in (part + 1)..right
        BY <3>1, <3>6, <1>1, <2>0
      <4> QED
        BY <4>1, <4>2
    <3> QED
      BY <3>4, <3>5, <3>6
  <2> QED
    BY <2>2, <2>3
<1> QED
  BY <1>5, <1>6, <1>7, <1>8, <1>9 DEF IInv

LEMMA Inductive == IInv /\ [SortNext]_sortVars => IInv'
<1>1. IInv /\ UNCHANGED sortVars => IInv'
  BY DEF IInv, sortVars, TypeOK, EachRangeOnce, EachOnce, SpansDisjoint,
         PartitionWindow, OrderedAcrossSpans, Span, left, right
<1> QED
  BY <1>1, ReturnKeeps, EnterKeeps, ScanLessKeeps, ScanSkipKeeps, PlaceKeeps
     DEF SortNext, SortStep, SortReturned

THEOREM Invariance == Spec => []IInv
  BY InitIInv, Inductive, PTL DEF Spec

\* The recursion never leaves the index and no local of partition overflows.
THEOREM TypeCorrect == Spec => []TypeOK
<1>1. IInv => TypeOK
  BY DEF IInv
<1> QED
  BY <1>1, Invariance, PTL

\* No step of the sort loses a record or describes one twice.
THEOREM NoRecordLost == Spec => []EachRangeOnce
<1>1. IInv => EachRangeOnce
  BY DEF IInv
<1> QED
  BY <1>1, Invariance, PTL

\* Two slots are in rank order unless a pending call still owns both: whatever
\* the order of the calls, no partition ever undoes what an earlier one did.
THEOREM OrderBetweenSpans == Spec => []OrderedAcrossSpans
<1>1. IInv => OrderedAcrossSpans
  BY DEF IInv
<1> QED
  BY <1>1, Invariance, PTL

LEMMA OrderWhenEmpty == IInv => SortedWhenDone
<1> SUFFICES ASSUME IInv, stack = <<>>, NEW p \in Slots, NEW q \in Slots, p < q
             PROVE  rank[range[p]] <= rank[range[q]]
  BY DEF SortedWhenDone, Sorted
<1>1. 1..Len(stack) = {}
  OBVIOUS
<1> QED
  BY <1>1 DEF IInv, OrderedAcrossSpans, Slots

\* When quicksort returns, the index is in rank order.
THEOREM Sortedness == Spec => []SortedWhenDone
  BY OrderWhenEmpty, Invariance, PTL

\* A slot that no pending call owns is final: a step of the sort exchanges
\* slots of the running span only.
THEOREM Settled == Spec => SettledSlotsStay
<1>1. ASSUME IInv, [SortNext]_sortVars, NEW p \in Slots,
             \A k \in 1..Len(stack) : p \notin Span(stack[k])
      PROVE  range'[p] = range[p]
  <2>1. ASSUME stack # <<>>, NEW a \in Slots, NEW b \in Slots,
               a \in left..right, b \in left..right, range' = Swap(range, a, b)
        PROVE  range'[p] = range[p]
    <3>1. /\ 1 \in 1..Len(stack) /\ left = stack[1].left /\ right = stack[1].right
      BY <1>1, <2>1, HeadFrame DEF IInv
    <3>2. p \notin left..right
      BY <1>1, <3>1 DEF Span
    <3>3. range \in [Slots -> Slots]
      BY <1>1 DEF IInv, TypeOK
    <3> QED
      BY <2>1, <3>2, <3>3 DEF Swap
  <2>2. CASE ScanLess
    <3>1. pc = "scan" /\ j < right /\ range' = Swap(range, Inc(i), j)
      BY <2>2 DEF ScanLess
    <3>2. /\ stack # <<>> /\ Inc(i) \in Slots /\ j \in Slots
          /\ Inc(i) \in left..right /\ j \in left..right
      BY <1>1, <3>1, WindowBounds
    <3> QED
      BY <2>1, <3>1, <3>2
  <2>3. CASE PlacePivot
    <3>1. pc = "scan" /\ (range' = range \/ range' = Swap(range, Inc(i), right))
      BY <2>3 DEF PlacePivot
    <3>2. /\ stack # <<>> /\ Inc(i) \in Slots /\ right \in Slots
          /\ Inc(i) \in left..right /\ right \in left..right
      BY <1>1, <3>1, WindowBounds
    <3> QED
      BY <2>1, <3>1, <3>2
  <2>4. CASE Return \/ EnterPartition \/ ScanSkip \/ UNCHANGED sortVars
    BY <2>4 DEF Return, EnterPartition, ScanSkip, sortVars
  <2> QED
    BY <1>1, <2>2, <2>3, <2>4 DEF SortNext, SortStep, SortReturned
<1>2. IInv /\ [SortNext]_sortVars =>
         [\A p \in Slots :
            (\A k \in 1..Len(stack) : p \notin Span(stack[k])) => range'[p] = range[p]
         ]_sortVars
  BY <1>1
<1> QED
  BY <1>2, Invariance, PTL DEF Spec, SettledSlotsStay

\* The quicksort implements the one-step sort: it stutters until the step
\* that empties the stack, and that step is Sort.
THEOREM Refinement == Spec => ImplementsSort
<1>1. SortInit => Abstract!SpecInit
  BY DEF SortInit, Abstract!SpecInit, Abstract!Untouched, Abstract!Slots, Slots, Sorted
<1>2. ASSUME IInv, IInv', [SortNext]_sortVars
      PROVE  [Abstract!Sort]_(Abstract!specVars)
  <2>1. CASE UNCHANGED sortVars
    BY <2>1 DEF sortVars, Abstract!specVars, Sorted
  <2>2. CASE SortStep /\ stack' # <<>>
    <3>1. ~Sorted /\ ~Sorted' /\ rank' = rank
      BY <1>2, <2>2, WindowBounds
         DEF SortStep, Return, EnterPartition, ScanLess, ScanSkip, PlacePivot, Sorted
    <3> QED
      BY <3>1 DEF Abstract!specVars, Sorted
  <2>3. CASE SortStep /\ stack' = <<>>
    <3>1. ~Sorted /\ Sorted' /\ rank' = rank
      BY <1>2, <2>3, WindowBounds
         DEF SortStep, Return, EnterPartition, ScanLess, ScanSkip, PlacePivot, Sorted
    <3>2. range' \in [Slots -> Slots]
      BY <1>2 DEF IInv, TypeOK
    <3>3. Abstract!EachRecordOnce(range')
      BY <1>2 DEF IInv, EachRangeOnce, EachOnce, Abstract!EachRecordOnce, Abstract!Slots, Slots
    <3>4. SortedWhenDone'
      BY <1>2, OrderWhenEmpty, PTL
    <3>5. Abstract!InRankOrder(range', rank)
      BY <3>1, <3>4 DEF SortedWhenDone, Abstract!InRankOrder, Abstract!Slots, Slots
    <3> QED
      BY <3>1, <3>2, <3>3, <3>5 DEF Abstract!Sort, Abstract!Slots, Slots
  <2> QED
    BY <1>2, <2>1, <2>2, <2>3 DEF SortNext, SortReturned
<1> QED
  BY <1>1, <1>2, InitIInv, Inductive, PTL
     DEF Spec, ImplementsSort, Abstract!SortSpecification

=============================================================================
