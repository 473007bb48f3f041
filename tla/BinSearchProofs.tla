--------------------------- MODULE BinSearchProofs --------------------------
(***************************************************************************)
(* Theorems about BinSearch, for every store and every word size.          *)
(***************************************************************************)
EXTENDS BinSearch, TLAPS

\* The inductive invariant.  The window is what makes the search correct;
\* the conjuncts on the outcome record what it has delivered, and the order
\* of the records, which never changes, is what discarding a half relies on.
IInv == /\ TypeOK
        /\ InOrder
        /\ WindowKeepsTarget
        /\ FoundIsEqual
        /\ EndMeansAbsent
        /\ PresentIsFound

\* The probe of a window inside the index is inside the window: the sum of
\* its ends does not overflow.
LEMMA ProbeInWindow ==
    ASSUME TypeOK, hi \in Slots, lo \in 0..n, lo <= hi
    PROVE  mid \in Slots /\ mid \in lo..hi /\ Inc(mid) = mid + 1 /\ mid \in Nat
           /\ 2 * mid <= hi + lo /\ hi + lo <= 2 * mid + 1
<1>1. n \in Nat /\ n <= MaxRecords /\ MaxRecords \in Nat /\ MaxWord \in Nat
      /\ 2 * MaxRecords < MaxWord
  BY CountAssumption, WordAssumption DEF TypeOK
<1>2. hi \in Nat /\ lo \in Nat /\ hi < n
  BY <1>1 DEF Slots
<1>3. mid = (hi + lo) \div 2
  BY <1>1, <1>2 DEF mid, Add
<1>4. mid \in Nat /\ 2 * mid <= hi + lo /\ hi + lo <= 2 * mid + 1
  BY <1>2, <1>3
<1> QED
  BY <1>1, <1>2, <1>4 DEF Slots, Inc

LEMMA InitIInv == Init => IInv
<1> SUFFICES ASSUME Init PROVE IInv
  OBVIOUS
<1>1. n \in Nat /\ n <= MaxRecords /\ MaxRecords \in Nat /\ MaxWord \in Nat
      /\ 2 * MaxRecords < MaxWord
  BY CountAssumption, WordAssumption DEF Init
<1>2. hi \in Words /\ lo \in Words /\ position \in Words
  BY <1>1 DEF Init, END_SIZE, Dec, Words
<1>3. TypeOK
  BY <1>2 DEF Init, TypeOK
<1>4. WindowKeepsTarget
  <2>1. CASE n = 0
    BY <2>1 DEF WindowKeepsTarget, BelowAll, Slots
  <2>2. CASE n # 0
    <3>1. hi = n - 1 /\ lo = 0
      BY <1>1, <2>2 DEF Init, END_SIZE, Dec
    <3> QED
      BY <1>1, <2>2, <3>1 DEF WindowKeepsTarget, Slots
  <2> QED
    BY <2>1, <2>2
<1> QED
  BY <1>3, <1>4 DEF Init, IInv, FoundIsEqual, EndMeansAbsent, PresentIsFound

\* Outside the mishandled case, the probe of a running search is an owned
\* slot and compare() answers truthfully.
LEMMA TruthfulProbe ==
    ASSUME IInv, InLoop, ~BelowAll
    PROVE  /\ mid \in Slots /\ mid \in lo..hi /\ Inc(mid) = mid + 1 /\ mid \in Nat
           /\ 2 * mid <= hi + lo /\ hi + lo <= 2 * mid + 1
           /\ CompareAt(mid) = {Sign(rank[mid] - target)}
           /\ rank[mid] \in Int /\ target \in Int
           /\ hi \in Slots /\ lo \in 0..n
           /\ n \in Nat
<1>1. hi \in Slots /\ lo \in 0..n /\ n \in Nat
  BY DEF IInv, WindowKeepsTarget, TypeOK
<1>2. hi \in Int /\ lo \in Int /\ lo <= hi
  BY <1>1 DEF InLoop, Slots
<1>3. /\ mid \in Slots /\ mid \in lo..hi /\ Inc(mid) = mid + 1 /\ mid \in Nat
      /\ 2 * mid <= hi + lo /\ hi + lo <= 2 * mid + 1
  BY <1>1, <1>2, ProbeInWindow DEF IInv
<1>4. rank[mid] \in Int /\ target \in Int
  BY <1>3, RanksAssumption DEF IInv, TypeOK
<1> QED
  BY <1>1, <1>3, <1>4 DEF CompareAt

LEMMA ProbeEqualKeeps == IInv /\ ProbeEqual => IInv'
<1> SUFFICES ASSUME IInv, ProbeEqual PROVE IInv'
  OBVIOUS
<1>1. UNCHANGED <<n, rank, target, hi, lo>> /\ outcome' = "found" /\ position' = mid
  BY DEF ProbeEqual
<1>2. mid \in Words
  <2>1. hi \in Nat /\ lo \in Nat /\ MaxWord \in Nat /\ hi <= MaxWord /\ lo <= MaxWord
    BY WordAssumption DEF IInv, TypeOK, Words
  <2>2. Add(hi, lo) \in Nat /\ Add(hi, lo) <= MaxWord
    BY <2>1 DEF Add
  <2> QED
    BY <2>1, <2>2 DEF mid, Words
<1>3. TypeOK' /\ InOrder' /\ WindowKeepsTarget'
  BY <1>1, <1>2 DEF IInv, TypeOK, InOrder, WindowKeepsTarget, BelowAll, Slots, Words
<1>4. FoundIsEqual'
  <2> SUFFICES ASSUME ~BelowAll PROVE mid \in Slots /\ rank[mid] = target
    BY <1>1 DEF FoundIsEqual, BelowAll, Slots
  <2>1. mid \in Slots /\ 0 = Sign(rank[mid] - target) /\ rank[mid] \in Int /\ target \in Int
    BY TruthfulProbe DEF ProbeEqual
  <2> QED
    BY <2>1 DEF Sign
<1> QED
  BY <1>1, <1>3, <1>4 DEF IInv, EndMeansAbsent, PresentIsFound

LEMMA ProbeLessKeeps == IInv /\ ProbeLess => IInv'
<1> SUFFICES ASSUME IInv, ProbeLess PROVE IInv'
  OBVIOUS
<1>1. UNCHANGED <<n, rank, target, hi, outcome, position>> /\ lo' = Inc(mid) /\ InLoop
  BY DEF ProbeLess
<1>2. Inc(mid) \in Words
  <2>1. hi \in Nat /\ lo \in Nat /\ MaxWord \in Nat /\ hi <= MaxWord /\ lo <= MaxWord
    BY WordAssumption DEF IInv, TypeOK, Words
  <2>2. Add(hi, lo) \in Nat /\ Add(hi, lo) <= MaxWord
    BY <2>1 DEF Add
  <2>3. mid \in Nat /\ mid <= MaxWord
    BY <2>2, <2>1 DEF mid
  <2> QED
    BY <2>1, <2>3 DEF Inc, Words
<1>3. TypeOK' /\ InOrder'
  BY <1>1, <1>2 DEF IInv, TypeOK, InOrder, Slots, Words
<1>4. WindowKeepsTarget'
  <2> SUFFICES ASSUME ~BelowAll PROVE WindowKeepsTarget'
    BY <1>1 DEF WindowKeepsTarget, BelowAll, Slots
  <2>1. /\ mid \in Slots /\ mid \in lo..hi /\ Inc(mid) = mid + 1 /\ mid \in Nat
        /\ -1 = Sign(rank[mid] - target) /\ rank[mid] \in Int /\ target \in Int
        /\ hi \in Slots /\ lo \in 0..n /\ n \in Nat
    BY TruthfulProbe DEF ProbeLess
  <2>2. rank[mid] < target
    BY <2>1 DEF Sign
  <2>3. ASSUME NEW p \in Slots, p < mid + 1 PROVE rank[p] < target
    <3>1. p = mid \/ rank[p] <= rank[mid]
      BY <2>1, <2>3 DEF IInv, InOrder, Slots
    <3>2. rank[p] \in Int
      BY RanksAssumption DEF IInv, TypeOK
    <3> QED
      BY <2>1, <2>2, <3>1, <3>2
  <2>4. mid + 1 \in 0..n /\ mid + 1 <= hi + 1
    BY <2>1 DEF Slots
  <2>5. \A p \in Slots : p > hi => rank[p] > target
    BY DEF IInv, WindowKeepsTarget
  <2> QED
    BY <1>1, <2>1, <2>3, <2>4, <2>5 DEF WindowKeepsTarget, Slots
<1> QED
  BY <1>1, <1>3, <1>4 DEF IInv, FoundIsEqual, EndMeansAbsent, PresentIsFound, InLoop, BelowAll, Slots

LEMMA ProbeGreaterKeeps == IInv /\ ProbeGreater => IInv'
<1> SUFFICES ASSUME IInv, ProbeGreater PROVE IInv'
  OBVIOUS
<1>1. UNCHANGED <<n, rank, target, lo, outcome, position>> /\ hi' = Dec(mid) /\ InLoop
  BY DEF ProbeGreater
<1>2. Dec(mid) \in Words
  <2>1. hi \in Nat /\ lo \in Nat /\ MaxWord \in Nat /\ hi <= MaxWord /\ lo <= MaxWord
    BY WordAssumption DEF IInv, TypeOK, Words
  <2>2. Add(hi, lo) \in Nat /\ Add(hi, lo) <= MaxWord
    BY <2>1 DEF Add
  <2>3. mid \in Nat /\ mid <= MaxWord
    BY <2>2, <2>1 DEF mid
  <2> QED
    BY <2>1, <2>3 DEF Dec, Words
<1>3. TypeOK' /\ InOrder'
  BY <1>1, <1>2 DEF IInv, TypeOK, InOrder, Slots, Words
<1>4. WindowKeepsTarget'
  <2> SUFFICES ASSUME ~BelowAll PROVE WindowKeepsTarget'
    BY <1>1 DEF WindowKeepsTarget, BelowAll, Slots
  <2>1. /\ mid \in Slots /\ mid \in lo..hi /\ mid \in Nat
        /\ 1 = Sign(rank[mid] - target) /\ rank[mid] \in Int /\ target \in Int
        /\ hi \in Slots /\ lo \in 0..n /\ n \in Nat
    BY TruthfulProbe DEF ProbeGreater
  <2>2. rank[mid] > target
    BY <2>1 DEF Sign
  <2>3. ASSUME NEW p \in Slots, p >= mid PROVE rank[p] > target
    <3>1. p = mid \/ rank[mid] <= rank[p]
      BY <2>1, <2>3 DEF IInv, InOrder, Slots
    <3>2. rank[p] \in Int
      BY RanksAssumption DEF IInv, TypeOK
    <3> QED
      BY <2>1, <2>2, <3>1, <3>2
  <2>4. mid # 0
    <3> SUFFICES ASSUME mid = 0 PROVE FALSE
      OBVIOUS
    <3> QED
      BY <2>1, <2>3 DEF BelowAll, Slots
  <2>5. hi' = mid - 1 /\ hi' \in Slots /\ lo <= hi' + 1
    BY <1>1, <2>1, <2>4 DEF Dec, Slots
  <2>6. \A p \in Slots : p < lo => rank[p] < target
    BY DEF IInv, WindowKeepsTarget
  <2>7. \A p \in Slots : p > mid - 1 => rank[p] > target
    BY <2>1, <2>3 DEF Slots
  <2> QED
    BY <1>1, <2>1, <2>5, <2>6, <2>7 DEF WindowKeepsTarget, Slots
<1> QED
  BY <1>1, <1>3, <1>4 DEF IInv, FoundIsEqual, EndMeansAbsent, PresentIsFound, InLoop, BelowAll, Slots

LEMMA ProbeFaultsKeeps == IInv /\ ProbeFaults => IInv'
<1> SUFFICES ASSUME IInv, ProbeFaults PROVE IInv'
  OBVIOUS
<1>1. UNCHANGED <<n, rank, target, hi, lo, position>> /\ outcome' = "crashed"
  BY DEF ProbeFaults
<1>2. TypeOK' /\ InOrder' /\ WindowKeepsTarget'
  BY <1>1 DEF IInv, TypeOK, InOrder, WindowKeepsTarget, BelowAll, Slots, Words
<1>3. BelowAll
  BY TruthfulProbe DEF ProbeFaults
<1>4. \A p \in Slots : rank[p] # target
  BY <1>3, RanksAssumption DEF BelowAll, IInv, TypeOK
<1> QED
  BY <1>1, <1>2, <1>4 DEF IInv, FoundIsEqual, EndMeansAbsent, PresentIsFound, Slots

LEMMA GiveUpKeeps == IInv /\ GiveUp => IInv'
<1> SUFFICES ASSUME IInv, GiveUp PROVE IInv'
  OBVIOUS
<1>1. UNCHANGED <<n, rank, target, hi, lo>> /\ outcome' = "end" /\ position' = Inc(END_SIZE)
      /\ ~(hi >= lo)
  BY DEF GiveUp
<1>2. n \in Nat /\ n <= MaxWord /\ MaxWord \in Nat
  BY CountAssumption, WordAssumption DEF IInv, TypeOK
<1>3. Inc(END_SIZE) = n /\ n \in Words
  BY <1>2 DEF END_SIZE, Inc, Dec, Words
<1>4. TypeOK' /\ InOrder' /\ WindowKeepsTarget'
  BY <1>1, <1>3 DEF IInv, TypeOK, InOrder, WindowKeepsTarget, BelowAll, Slots, Words
<1>5. ASSUME NEW p \in Slots PROVE rank[p] # target
  <2>1. rank[p] \in Int /\ target \in Int
    BY RanksAssumption DEF IInv, TypeOK
  <2>2. CASE BelowAll
    BY <2>1, <2>2 DEF BelowAll
  <2>3. CASE ~BelowAll
    BY <1>1, <2>1, <2>3 DEF IInv, WindowKeepsTarget, Slots
  <2> QED
    BY <2>2, <2>3
<1>6. EndMeansAbsent' /\ PresentIsFound'
  BY <1>1, <1>3, <1>5 DEF EndMeansAbsent, PresentIsFound, Slots
<1> QED
  BY <1>1, <1>4, <1>6 DEF IInv, FoundIsEqual

LEMMA Inductive == IInv /\ [Next]_searchVars => IInv'
<1>1. IInv /\ UNCHANGED searchVars => IInv'
  BY DEF IInv, searchVars, TypeOK, InOrder, WindowKeepsTarget, BelowAll, FoundIsEqual,
         EndMeansAbsent, PresentIsFound, Slots, Words
<1> QED
  BY <1>1, ProbeEqualKeeps, ProbeLessKeeps, ProbeGreaterKeeps, ProbeFaultsKeeps, GiveUpKeeps
     DEF Next, Step, Returned

THEOREM Invariance == Spec => []IInv
  BY InitIInv, Inductive, PTL DEF Spec

\* The search never discards a slot that could hold the target.
THEOREM WindowIsSound == Spec => []WindowKeepsTarget
<1>1. IInv => WindowKeepsTarget
  BY DEF IInv
<1> QED
  BY <1>1, Invariance, PTL

\* A present record is never reported absent, nor lost to a fault.
THEOREM PresentNeverMissed == Spec => []PresentIsFound
<1>1. IInv => PresentIsFound
  BY DEF IInv
<1> QED
  BY <1>1, Invariance, PTL

\* Every variable keeps its type: no position leaves the machine word.
THEOREM TypeCorrect == Spec => []TypeOK
<1>1. IInv => TypeOK
  BY DEF IInv
<1> QED
  BY <1>1, Invariance, PTL

\* The iterator binSearch returns tells the truth, found or not.
THEOREM AnswersRight == Spec => []AnswerIsRight
<1>1. IInv => AnswerIsRight
  BY DEF IInv, AnswerIsRight
<1> QED
  BY <1>1, Invariance, PTL

\* The probe leaves the index only when every record exceeds the target.
THEOREM ProbesSafe == Spec => []ProbesOwnedSlots
<1>1. IInv => ProbesOwnedSlots
  BY TruthfulProbe DEF ProbesOwnedSlots
<1> QED
  BY <1>1, Invariance, PTL

\* Every turn halves the window, the measure behind the logarithmic cost.
THEOREM Halving == Spec => WindowHalves
<1>1. ASSUME IInv, [Next]_searchVars, searchVars' # searchVars, ~BelowAll,
             outcome' = "searching"
      PROVE  2 * (hi' - lo' + 1) <= hi - lo + 1
  <2>1. InLoop /\ (ProbeLess \/ ProbeGreater)
    BY <1>1 DEF Next, Step, Returned, ProbeEqual, ProbeLess, ProbeGreater, ProbeFaults,
                GiveUp, InLoop
  <2>2. /\ mid \in Slots /\ mid \in lo..hi /\ Inc(mid) = mid + 1 /\ mid \in Nat
        /\ 2 * mid <= hi + lo /\ hi + lo <= 2 * mid + 1
        /\ CompareAt(mid) = {Sign(rank[mid] - target)}
        /\ rank[mid] \in Int /\ target \in Int
        /\ hi \in Slots /\ lo \in 0..n /\ n \in Nat
    BY <1>1, <2>1, TruthfulProbe
  <2>3. hi \in Nat /\ lo \in Nat
    BY <2>2 DEF Slots
  <2>4. CASE ProbeLess
    BY <2>2, <2>3, <2>4 DEF ProbeLess
  <2>5. CASE ProbeGreater
    <3>1. mid # 0
      <4> SUFFICES ASSUME mid = 0 PROVE FALSE
        OBVIOUS
      <4>1. rank[mid] > target
        BY <2>2, <2>5 DEF ProbeGreater, Sign
      <4>2. ASSUME NEW p \in Slots PROVE rank[p] > target
        <5>1. p = mid \/ rank[mid] <= rank[p]
          BY <1>1, <2>2 DEF IInv, InOrder, Slots
        <5>2. rank[p] \in Int
          BY <1>1, RanksAssumption DEF IInv, TypeOK
        <5> QED
          BY <2>2, <4>1, <5>1, <5>2
      <4> QED
        BY <1>1, <4>2 DEF BelowAll
    <3> QED
      BY <2>2, <2>3, <2>5, <3>1 DEF ProbeGreater, Dec
  <2> QED
    BY <2>1, <2>4, <2>5
<1>2. IInv /\ [Next]_searchVars =>
        [~BelowAll /\ outcome' = "searching"
           => 2 * (hi' - lo' + 1) <= hi - lo + 1]_searchVars
  BY <1>1
<1> QED
  BY <1>2, Invariance, PTL DEF Spec, WindowHalves

=============================================================================
