--------------------------- MODULE SortPairProofs ---------------------------
(***************************************************************************)
(* Theorems about SortPair, for every number of records, every assignment  *)
(* of ranks and lengths, and every kind of store and build.  The invariant *)
(* of the quicksort is the one of IndexQuicksortProofs; where a record of  *)
(* a file starts is a sum, about which the first section has an induction. *)
(***************************************************************************)
EXTENDS SortPair, IndexQuicksortProofs, WellFoundedInduction

-----------------------------------------------------------------------------
(* Where the records of a file start *)

\* Induction for a set of numbers: NatInduction takes an operator, which the
\* provers cannot instantiate, so this is drawn from the least element of
\* the complement.
LEMMA SetInduction ==
    ASSUME NEW S, 0 \in S, \A n \in Nat : n \in S => n + 1 \in S
    PROVE  \A n \in Nat : n \in S
<1> DEFINE T == Nat \ S
           R == OpToRel(<, Nat)
<1> SUFFICES ASSUME T # {} PROVE FALSE
  OBVIOUS
<1>1. IsWellFoundedOn(R, Nat)
  BY NatLessThanWellFounded
<1>2. T \subseteq Nat
  OBVIOUS
<1> HIDE DEF T, R
<1>3. PICK x \in T : \A y \in T : ~(<<y, x>> \in R)
  BY <1>1, <1>2, WFMin
<1>4. x \in Nat /\ x \notin S /\ x # 0
  BY DEF T
<1>5. x - 1 \in Nat
  BY <1>4
<1>6. x - 1 \notin T
  <2>1. <<x - 1, x>> \in R
    BY <1>4, <1>5 DEF R, OpToRel
  <2> QED BY <1>3, <2>1
<1>7. (x - 1) + 1 \in S /\ (x - 1) + 1 = x
  BY <1>4, <1>5, <1>6 DEF T
<1> QED
  BY <1>4, <1>7

\* g is the function that StartOf defines, up to the n-th record.
Starts(g, size, file, n) ==
    g = [m \in 1..n |-> IF m = 1 THEN 0 ELSE g[m - 1] + size[file[m - 1]]]

\* It exists for every number of records ...
LEMMA StartsExist ==
    ASSUME NEW size, NEW file, NEW n \in Nat, \A m \in 1..(n - 1) : size[file[m]] \in Nat
    PROVE  \E g : Starts(g, size, file, n) /\ g \in [1..n -> Nat]
<1> DEFINE Good(k) == \E g : Starts(g, size, file, k) /\ g \in [1..k -> Nat]
           D == {k \in Nat : k <= n => Good(k)}
<1>1. 0 \in D
  <2>1. Starts([m \in 1..0 |-> 0], size, file, 0) /\ [m \in 1..0 |-> 0] \in [1..0 -> Nat]
    BY DEF Starts
  <2> QED BY <2>1
<1>2. ASSUME NEW k \in Nat, k \in D PROVE k + 1 \in D
  <2> SUFFICES ASSUME k + 1 <= n PROVE Good(k + 1)
    OBVIOUS
  <2>1. PICK g : Starts(g, size, file, k) /\ g \in [1..k -> Nat]
    <3>1. k <= n
      OBVIOUS
    <3>2. Good(k)
      BY <1>2, <3>1
    <3> QED BY <3>2
  <2> DEFINE h == [m \in 1..(k + 1) |-> IF m = 1 THEN 0 ELSE g[m - 1] + size[file[m - 1]]]
  <2>2. ASSUME NEW m \in 1..(k + 1)
        PROVE  h[m] = (IF m = 1 THEN 0 ELSE h[m - 1] + size[file[m - 1]]) /\ h[m] \in Nat
    <3>1. CASE m = 1
      BY <3>1
    <3>2. CASE m # 1
      <4>1. m - 1 \in 1..k /\ m - 1 \in 1..(k + 1) /\ m - 1 \in 1..(n - 1)
        BY <3>2
      <4>2. h[m - 1] = g[m - 1] /\ g[m - 1] \in Nat
        BY <2>1, <4>1 DEF Starts
      <4>3. h[m] = g[m - 1] + size[file[m - 1]] /\ size[file[m - 1]] \in Nat
        BY <3>2, <4>1
      <4> QED BY <3>2, <4>2, <4>3
    <3> QED BY <3>1, <3>2
  <2>3. h = [m \in 1..(k + 1) |-> h[m]]
    OBVIOUS
  <2> HIDE DEF h
  <2>4. Starts(h, size, file, k + 1) /\ h \in [1..(k + 1) -> Nat]
    BY <2>2, <2>3 DEF Starts
  <2> QED BY <2>4
<1> HIDE DEF D
<1>3. n \in D
  BY <1>1, <1>2, SetInduction
<1> QED
  BY <1>3 DEF D

\* ... and is the same for all files with the same first records.
LEMMA StartsAgree ==
    ASSUME NEW size, NEW f1, NEW f2, NEW n1 \in Nat, NEW n2 \in Nat, NEW g1, NEW g2,
           Starts(g1, size, f1, n1), Starts(g2, size, f2, n2),
           n1 <= n2, \A m \in 1..(n1 - 1) : f1[m] = f2[m]
    PROVE  \A m \in 1..n1 : g1[m] = g2[m]
<1> DEFINE D == {k \in Nat : k \in 1..n1 => g1[k] = g2[k]}
<1>1. 0 \in D
  OBVIOUS
<1>2. ASSUME NEW k \in Nat, k \in D PROVE k + 1 \in D
  <2> SUFFICES ASSUME k + 1 \in 1..n1 PROVE g1[k + 1] = g2[k + 1]
    OBVIOUS
  <2>1. CASE k = 0
    BY <2>1 DEF Starts
  <2>2. CASE k # 0
    <3>1. k \in 1..n1 /\ k \in 1..(n1 - 1) /\ k + 1 \in 1..n2 /\ k + 1 # 1 /\ (k + 1) - 1 = k
      BY <2>2
    <3>2. g1[k] = g2[k] /\ f1[k] = f2[k]
      BY <1>2, <3>1
    <3>3. g1[k + 1] = g1[k] + size[f1[k]] /\ g2[k + 1] = g2[k] + size[f2[k]]
      BY <3>1 DEF Starts
    <3> QED BY <3>2, <3>3
  <2> QED BY <2>1, <2>2
<1> HIDE DEF D
<1>3. \A k \in Nat : k \in D
  BY <1>1, <1>2, SetInduction
<1>4. \A k \in 1..n1 : k \in D
  BY <1>3
<1> QED
  BY <1>4 DEF D

LEMMA StartOfIs ==
    ASSUME NEW file, NEW n \in Nat, \A m \in 1..(n - 1) : len[file[m]] \in Nat
    PROVE  \E g : /\ Starts(g, len, file, n) /\ g \in [1..n -> Nat]
                  /\ StartOf(file, n) = g[n]
<1> DEFINE G == CHOOSE g : Starts(g, len, file, n)
<1>1. PICK g : Starts(g, len, file, n) /\ g \in [1..n -> Nat]
  BY StartsExist
<1>2. Starts(G, len, file, n)
  BY <1>1
<1>3. StartOf(file, n) = G[n]
  BY DEF StartOf, Starts
<1> HIDE DEF G
<1>4. \A m \in 1..n : G[m] = g[m]
  BY <1>1, <1>2, StartsAgree
<1>5. G = [m \in 1..n |-> G[m]]
  BY <1>2 DEF Starts
<1>6. G \in [1..n -> Nat]
  BY <1>1, <1>4, <1>5
<1> QED
  BY <1>2, <1>3, <1>6

\* The first record starts at 0, and each following one where the one
\* before it ends.
LEMMA StartUnfolds ==
    ASSUME NEW file, NEW k \in Nat \ {0}, \A m \in 1..(k - 1) : len[file[m]] \in Nat
    PROVE  /\ StartOf(file, k) \in Nat
           /\ k = 1 => StartOf(file, k) = 0
           /\ k # 1 => StartOf(file, k) = StartOf(file, k - 1) + len[file[k - 1]]
<1>1. PICK g : Starts(g, len, file, k) /\ g \in [1..k -> Nat] /\ StartOf(file, k) = g[k]
  BY StartOfIs
<1>2. CASE k = 1
  BY <1>1, <1>2 DEF Starts
<1>3. CASE k # 1
  <2>1. k - 1 \in Nat /\ k - 1 <= k /\ k - 1 \in 1..(k - 1)
    BY <1>3
  <2>2. PICK h : Starts(h, len, file, k - 1) /\ StartOf(file, k - 1) = h[k - 1]
    <3>1. \A m \in 1..((k - 1) - 1) : len[file[m]] \in Nat
      OBVIOUS
    <3> QED BY <2>1, <3>1, StartOfIs
  <2>3. h[k - 1] = g[k - 1]
    <3> DEFINE n == k - 1
    <3>1. /\ n \in Nat /\ n <= k /\ k \in Nat /\ \A m \in 1..(n - 1) : file[m] = file[m]
          /\ Starts(h, len, file, n) /\ Starts(g, len, file, k)
      BY <1>1, <2>1, <2>2
    <3> HIDE DEF n
    <3>2. \A m \in 1..n : h[m] = g[m]
      BY <3>1, StartsAgree, SMT
    <3> QED BY <2>1, <3>2 DEF n
  <2>4. g[k] = g[k - 1] + len[file[k - 1]]
    BY <1>1, <1>3 DEF Starts
  <2> QED BY <1>1, <1>3, <2>2, <2>3, <2>4
<1> QED
  BY <1>2, <1>3

\* Where a record starts does not depend on the records behind it.
LEMMA StartOfPrefix ==
    ASSUME NEW file, NEW longer, NEW k \in Nat \ {0},
           \A m \in 1..(k - 1) : len[file[m]] \in Nat /\ longer[m] = file[m]
    PROVE  StartOf(longer, k) = StartOf(file, k)
<1>1. PICK g : Starts(g, len, file, k) /\ StartOf(file, k) = g[k]
  BY StartOfIs
<1>2. PICK h : Starts(h, len, longer, k) /\ StartOf(longer, k) = h[k]
  <2>1. \A m \in 1..(k - 1) : len[longer[m]] \in Nat
    OBVIOUS
  <2> QED BY <2>1, StartOfIs
<1>3. k <= k /\ k \in Nat /\ k \in 1..k
  OBVIOUS
<1>4. \A m \in 1..k : h[m] = g[m]
  BY <1>1, <1>2, <1>3, StartsAgree
<1> QED
  BY <1>1, <1>2, <1>3, <1>4

-----------------------------------------------------------------------------
(* The inductive invariant *)

Phases == {"sort", "rewrite", "replace", "done"} \union Deaths

\* The rewrite begins when the quicksort is over, never before, and the
\* file is closed after the last turn.
PhaseFollowsSort ==
    /\ phase \in Phases /\ written \in 0..N /\ turn \in Turns
    /\ phase = "sort" => written = 0 /\ turn = "write"
    /\ phase # "sort" => Sorted
    /\ phase \in {"replace", "done"} => written = N
    /\ written = N => turn = "write"

\* The number of records handed to the new file.
Handed == IF turn = "write" THEN written ELSE written + 1

\* They are those of the slots visited, in slot order.
OutFollowsSlots ==
    /\ out \in Seq(Slots)
    /\ Len(out) = Handed
    /\ \A k \in 1..Handed : out[k] = range[k - 1]
    /\ phase \in {"replace", "done"} => flushed = Len(out)

\* The bulk file is the original one until the new one is complete.
BulkIsOldOrWhole ==
    /\ phase # "done" => bulk = Original
    /\ phase = "done" => bulk = out

\* The entries visited give the bytes their records have in the new file,
\* the others those in the old one; the end of the entry in between is the
\* new one, and init is where its record starts.
Placed ==
    /\ init = StartOf(out, written + 1)
    /\ phase # "sort" =>
         /\ \A p \in Slots : Rewritten(p) =>
               begin[p] = StartOf(out, p + 1) /\ end[p] = StartOf(out, p + 2)
         /\ \A p \in Slots : Untouched(p) =>
               /\ begin[p] = StartOf(Original, range[p] + 1)
               /\ end[p] = StartOf(Original, range[p] + 2)
         /\ turn = "begin" => end[written] = StartOf(out, written + 2)

\* The ids of the primary entries stay where they were given, and the
\* secondary entries of the slots visited have their new offset.
Linked ==
    /\ \A p \in Slots : id[p] = p + 1
    /\ \A p \in Slots : p < written /\ p + 1 \in Slots =>
          secondary[p + 1].offset = begin[p]

\* The inductive invariant.
PairInv ==
    /\ IInv /\ PairTypeOK
    /\ PhaseFollowsSort /\ OutFollowsSlots /\ BulkIsOldOrWhole /\ Placed /\ Linked

-----------------------------------------------------------------------------

\* Lengths are natural numbers, whatever the records written.
LEMMA Lengths ==
    ASSUME len \in [Slots -> Lens], NEW file, NEW n \in Nat, \A m \in 1..n : file[m] \in Slots
    PROVE  /\ \A m \in 1..n : len[file[m]] \in Nat
           /\ \A k \in 1..(n + 1) : StartOf(file, k) \in Nat
           /\ StartOf(file, 1) = 0
           /\ \A k \in 1..n : StartOf(file, k + 1) = StartOf(file, k) + len[file[k]]
<1>1. \A m \in 1..n : len[file[m]] \in Nat
  BY LensAssumption
<1>2. ASSUME NEW k \in 1..(n + 1) PROVE StartOf(file, k) \in Nat
  <2>1. k \in Nat \ {0} /\ \A m \in 1..(k - 1) : len[file[m]] \in Nat
    BY <1>1
  <2> QED BY <2>1, StartUnfolds
<1>3. StartOf(file, 1) = 0
  <2>1. 1 \in Nat \ {0} /\ \A m \in 1..(1 - 1) : len[file[m]] \in Nat
    OBVIOUS
  <2> QED BY <2>1, StartUnfolds
<1>4. ASSUME NEW k \in 1..n PROVE StartOf(file, k + 1) = StartOf(file, k) + len[file[k]]
  <2>1. /\ k + 1 \in Nat \ {0} /\ k + 1 # 1 /\ (k + 1) - 1 = k
        /\ \A m \in 1..((k + 1) - 1) : len[file[m]] \in Nat
    BY <1>1
  <2> QED BY <2>1, StartUnfolds
<1> QED
  BY <1>1, <1>2, <1>3, <1>4

\* The bytes of a slot's record in the bulk file of the inserter.
LEMMA OriginalBytes ==
    ASSUME len \in [Slots -> Lens], NEW r \in Slots
    PROVE  /\ r + 1 \in 1..N /\ Original[r + 1] = r /\ (r + 1) + 1 = r + 2
           /\ StartOf(Original, r + 1) \in Nat
           /\ StartOf(Original, r + 2) = StartOf(Original, r + 1) + len[r]
<1>1. r + 1 \in 1..N /\ (r + 1) + 1 = r + 2 /\ N \in Nat /\ r + 1 \in 1..(N + 1)
  BY CountAssumption DEF Slots
<1>2. Original[r + 1] = r /\ \A m \in 1..N : Original[m] \in Slots
  BY <1>1, CountAssumption DEF Original, Slots
<1>3. /\ StartOf(Original, r + 1) \in Nat
      /\ StartOf(Original, (r + 1) + 1) = StartOf(Original, r + 1) + len[Original[r + 1]]
  BY <1>1, <1>2, Lengths
<1> QED
  BY <1>1, <1>2, <1>3

LEMMA PairStart == Init => PairInv
<1> SUFFICES ASSUME Init PROVE PairInv
  OBVIOUS
<1>1. IInv
  BY InitIInv DEF Init
<1>2. /\ out = <<>> /\ out \in Seq(Slots) /\ Len(out) = 0
      /\ bulk = Original /\ bulk \in Seq(Slots)
      /\ written = 0 /\ turn = "write" /\ phase = "sort" /\ init = 0 /\ flushed = 0
      /\ len \in [Slots -> Lens] /\ build \in Builds
      /\ range = [p \in Slots |-> p] /\ id = [p \in Slots |-> p + 1]
      /\ begin \in [Slots -> Nat] /\ end \in [Slots -> Nat]
  BY CountAssumption DEF Init, SortInit, Original, Slots
<1>3. \A k \in Slots : BeginOf(k) \in Nat
  BY <1>2, OriginalBytes DEF BeginOf
<1>4. PairTypeOK
  <2>1. secondary \in [Slots -> [id : 0..N, offset : Nat]]
    <3>1. secondary = [k \in Slots |-> [id |-> k + build.firstId, offset |-> BeginOf(k)]]
          /\ build.firstId \in {0, 1}
      BY BuildAssumption DEF Init
    <3>2. \A k \in Slots : k + build.firstId \in 0..N
      BY <3>1, CountAssumption DEF Slots
    <3> QED BY <1>3, <3>1, <3>2
  <2> QED BY <1>2, <2>1, CountAssumption DEF PairTypeOK, Turns
<1>5. Placed
  <2>1. StartOf(out, 1) = 0
    <3>1. 1 \in Nat \ {0} /\ \A m \in 1..(1 - 1) : len[out[m]] \in Nat
      OBVIOUS
    <3> QED BY <3>1, StartUnfolds
  <2> QED BY <1>2, <2>1 DEF Placed
<1>6. Linked
  BY <1>2 DEF Linked, Slots
<1>7. PhaseFollowsSort /\ OutFollowsSlots /\ BulkIsOldOrWhole
  BY <1>2, CountAssumption
     DEF PhaseFollowsSort, Phases, Turns, OutFollowsSlots, Handed, BulkIsOldOrWhole
<1> QED
  BY <1>1, <1>4, <1>5, <1>6, <1>7 DEF PairInv

\* The loop variable is a slot in every turn, and the records handed to the
\* file so far have a start.
LEMMA TurnFacts ==
    ASSUME PairInv, NEW store \in Turns, InTurn(store)
    PROVE  /\ written \in Slots /\ written \in Nat /\ written + 1 \in Nat
           /\ range \in [Slots -> Slots] /\ range[written] \in Slots
           /\ len \in [Slots -> Lens] /\ len[range[written]] \in Nat
           /\ Sorted /\ phase = "rewrite"
           /\ begin \in [Slots -> Nat] /\ end \in [Slots -> Nat]
           /\ init \in Nat
<1>1. written \in Slots /\ written \in Nat
  BY CountAssumption DEF PairInv, InTurn, PhaseFollowsSort, Slots
<1>2. range \in [Slots -> Slots]
  BY DEF PairInv, IInv, TypeOK
<1>3. range[written] \in Slots
  BY <1>1, <1>2
<1>4. len \in [Slots -> Lens] /\ len[range[written]] \in Nat
  BY <1>3, LensAssumption DEF PairInv, PairTypeOK
<1>5. Sorted /\ phase = "rewrite"
  BY DEF PairInv, InTurn, PhaseFollowsSort
<1>6. begin \in [Slots -> Nat] /\ end \in [Slots -> Nat] /\ init \in Nat
  BY DEF PairInv, PairTypeOK
<1> QED
  BY <1>1, <1>2, <1>3, <1>4, <1>5, <1>6

\* A step that leaves what the invariant of the quicksort is about.
LEMMA SortStays ==
    ASSUME PairInv, UNCHANGED sortVars
    PROVE  IInv' /\ range' = range /\ id' = id /\ Sorted' = Sorted
  BY Inductive DEF PairInv, sortVars, Sorted

LEMMA IdsStay == SortStep => UNCHANGED id
  BY DEF SortStep, Return, EnterPartition, ScanLess, ScanSkip, PlacePivot

LEMMA StartsStay ==
    ASSUME UNCHANGED len
    PROVE  \A k : /\ StartOf(out, k)' = StartOf(out', k)
                  /\ StartOf(Original, k)' = StartOf(Original, k)
  BY DEF StartOf, Original

-----------------------------------------------------------------------------
(* One lemma per step that changes entries or files *)

LEMMA QuicksortKeeps == PairInv /\ Quicksort => PairInv'
<1> SUFFICES ASSUME PairInv, Quicksort PROVE PairInv'
  OBVIOUS
<1> USE DEF PairInv
<1>1. IInv' /\ id' = id
  BY Inductive, IdsStay DEF Quicksort, SortNext
<1>2. /\ phase = "sort" /\ written = 0 /\ turn = "write" /\ Len(out) = 0
      /\ UNCHANGED <<build, len, phase, written, turn, init, begin, end, secondary,
                     out, flushed, bulk>>
  BY DEF Quicksort, PhaseFollowsSort, OutFollowsSlots, Handed, pairVars, mapped, files
<1>3. PairTypeOK'
  BY <1>2 DEF PairTypeOK
<1>4. Placed'
  BY <1>2, StartsStay DEF Placed
<1>5. Linked'
  BY <1>1, <1>2 DEF Linked
<1>6. PhaseFollowsSort' /\ OutFollowsSlots' /\ BulkIsOldOrWhole'
  BY <1>2, CountAssumption
     DEF PhaseFollowsSort, OutFollowsSlots, Handed, BulkIsOldOrWhole, Original
<1> QED
  BY <1>1, <1>3, <1>4, <1>5, <1>6

LEMMA OpenKeeps == PairInv /\ OpenSorted => PairInv'
<1> SUFFICES ASSUME PairInv, OpenSorted PROVE PairInv'
  OBVIOUS
<1> USE DEF PairInv
<1>1. IInv' /\ range' = range /\ id' = id /\ Sorted' /\ range \in [Slots -> Slots]
  BY SortStays DEF OpenSorted, IInv, TypeOK
<1>2. /\ phase = "sort" /\ phase' = "rewrite" /\ written = 0 /\ turn = "write"
      /\ out' = <<>> /\ flushed' = 0 /\ Len(out) = 0 /\ out \in Seq(Slots)
      /\ begin' = [p \in Slots |-> BeginOf(p)] /\ end' = [p \in Slots |-> EndOf(p)]
      /\ UNCHANGED <<build, len, written, turn, init, bulk, secondary>>
  BY DEF OpenSorted, PhaseFollowsSort, OutFollowsSlots, Handed
<1>3. out' = out /\ len \in [Slots -> Lens]
  BY <1>2 DEF PairTypeOK
<1>4. ASSUME NEW p \in Slots
      PROVE  /\ begin'[p] = StartOf(Original, range[p] + 1)
             /\ end'[p] = StartOf(Original, range[p] + 2)
             /\ begin'[p] \in Nat /\ end'[p] \in Nat
  <2>1. range[p] \in Slots
    BY <1>1
  <2>2. /\ begin'[p] = StartOf(Original, range[p] + 1)
        /\ end'[p] = StartOf(Original, range[p] + 2)
    BY <1>2 DEF BeginOf, EndOf
  <2>3. /\ StartOf(Original, range[p] + 1) \in Nat
        /\ StartOf(Original, range[p] + 2) = StartOf(Original, range[p] + 1) + len[range[p]]
    BY <1>3, <2>1, OriginalBytes
  <2>4. len[range[p]] \in Nat
    BY <1>3, <2>1, LensAssumption
  <2> QED BY <2>2, <2>3, <2>4
<1>5. begin' \in [Slots -> Nat] /\ end' \in [Slots -> Nat]
  <2>1. begin' = [p \in Slots |-> begin'[p]] /\ end' = [p \in Slots |-> end'[p]]
    BY <1>2
  <2> QED BY <1>4, <2>1
<1>6. PairTypeOK'
  BY <1>2, <1>3, <1>5 DEF PairTypeOK
<1>7. Placed'
  <2>1. \A p \in Slots : ~Rewritten(p)'
    BY <1>2, CountAssumption DEF Rewritten, Slots
  <2>2. init' = StartOf(out', written' + 1)
    BY <1>2, <1>3 DEF Placed
  <2> QED BY <1>1, <1>2, <1>4, <2>1, <2>2, StartsStay DEF Placed
<1>8. Linked'
  BY <1>1, <1>2, CountAssumption DEF Linked, Slots
<1>9. PhaseFollowsSort' /\ OutFollowsSlots' /\ BulkIsOldOrWhole'
  BY <1>1, <1>2, <1>3, CountAssumption
     DEF PhaseFollowsSort, Phases, OutFollowsSlots, Handed, BulkIsOldOrWhole, Original
<1> QED
  BY <1>1, <1>6, <1>7, <1>8, <1>9

LEMMA WriteKeeps == PairInv /\ WriteRecord => PairInv'
<1> SUFFICES ASSUME PairInv, WriteRecord PROVE PairInv'
  OBVIOUS
<1> USE DEF PairInv
<1>1. /\ written \in Slots /\ written \in Nat /\ range[written] \in Slots
      /\ len \in [Slots -> Lens] /\ Sorted
  BY TurnFacts DEF WriteRecord, Turns
<1>2. IInv' /\ range' = range /\ id' = id /\ Sorted'
  BY <1>1, SortStays DEF WriteRecord
<1>3. /\ phase = "rewrite" /\ turn = "write" /\ turn' = "end" /\ written < N
      /\ out' = Append(out, range[written]) /\ out \in Seq(Slots) /\ Len(out) = written
      /\ flushed' \in flushed..Len(out') /\ flushed \in 0..Len(out)
      /\ UNCHANGED <<build, len, phase, written, init, begin, end, secondary, bulk>>
  BY DEF WriteRecord, InTurn, OutFollowsSlots, Handed, mapped, PairTypeOK
<1>4. /\ out' \in Seq(Slots) /\ Len(out') = written + 1
      /\ \A k \in 1..written : out'[k] = out[k]
      /\ out'[written + 1] = range[written]
      /\ \A k \in 1..(written + 1) : StartOf(out', k) = StartOf(out, k)
  <2>1. /\ out' \in Seq(Slots) /\ Len(out') = Len(out) + 1
        /\ \A k \in 1..Len(out) : out'[k] = out[k]
        /\ out'[Len(out) + 1] = range[written]
    BY <1>1, <1>3, AppendProperties
  <2>2. \A m \in 1..written : out[m] \in Slots
    BY <1>3, ElementOfSeq
  <2>3. \A m \in 1..written : len[out[m]] \in Nat
    BY <1>1, <2>2, Lengths
  <2>4. ASSUME NEW k \in 1..(written + 1) PROVE StartOf(out', k) = StartOf(out, k)
    <3>1. k \in Nat \ {0} /\ \A m \in 1..(k - 1) : len[out[m]] \in Nat /\ out'[m] = out[m]
      BY <1>1, <1>3, <2>1, <2>3
    <3> QED BY <3>1, StartOfPrefix
  <2> QED BY <1>3, <2>1, <2>4
<1>5. PairTypeOK'
  <2>1. flushed' \in 0..Len(out')
    BY <1>1, <1>3, <1>4
  <2> QED BY <1>3, <1>4, <2>1 DEF PairTypeOK, Turns
<1>6. Placed'
  <2>1. ASSUME NEW p \in Slots
        PROVE  /\ Rewritten(p)' => /\ Rewritten(p) /\ p + 1 \in 1..(written + 1)
                                   /\ p + 2 \in 1..(written + 1)
               /\ Untouched(p)' => Untouched(p)
    BY <1>1, <1>3, CountAssumption DEF Rewritten, Untouched, Slots
  <2>2. init = StartOf(out, written + 1) /\ written + 1 \in 1..(written + 1)
    BY <1>1 DEF Placed
  <2>3. init' = StartOf(out', written + 1)
    BY <1>3, <1>4, <2>2
  <2>4. ASSUME NEW p \in Slots, Rewritten(p)'
        PROVE  begin'[p] = StartOf(out', p + 1) /\ end'[p] = StartOf(out', p + 2)
    <3>1. begin[p] = StartOf(out, p + 1) /\ end[p] = StartOf(out, p + 2)
      BY <1>3, <2>1, <2>4 DEF Placed
    <3> QED BY <1>3, <1>4, <2>1, <2>4, <3>1
  <2>5. ASSUME NEW p \in Slots, Untouched(p)'
        PROVE  /\ begin'[p] = StartOf(Original, range'[p] + 1)
               /\ end'[p] = StartOf(Original, range'[p] + 2)
    BY <1>2, <1>3, <2>1, <2>5 DEF Placed
  <2> QED BY <1>3, <2>3, <2>4, <2>5, StartsStay DEF Placed
<1>7. Linked'
  BY <1>2, <1>3 DEF Linked
<1>8. OutFollowsSlots'
  <2>1. ASSUME NEW k \in 1..(written + 1) PROVE out'[k] = range'[k - 1]
    <3>1. CASE k = written + 1
      BY <3>1, <1>1, <1>2, <1>4
    <3>2. CASE k # written + 1
      <4>1. k \in 1..written
        BY <3>2, <1>1
      <4> QED BY <4>1, <1>2, <1>3, <1>4 DEF OutFollowsSlots, Handed
    <3> QED BY <3>1, <3>2
  <2> QED BY <1>3, <1>4, <2>1 DEF OutFollowsSlots, Handed
<1>9. PhaseFollowsSort' /\ BulkIsOldOrWhole'
  BY <1>2, <1>3 DEF PhaseFollowsSort, Phases, Turns, BulkIsOldOrWhole, Original
<1> QED
  BY <1>2, <1>5, <1>6, <1>7, <1>8, <1>9

LEMMA EndKeeps == PairInv /\ StoreEnd => PairInv'
<1> SUFFICES ASSUME PairInv, StoreEnd PROVE PairInv'
  OBVIOUS
<1> USE DEF PairInv
<1>1. /\ written \in Slots /\ written \in Nat /\ range[written] \in Slots
      /\ len \in [Slots -> Lens] /\ len[range[written]] \in Nat /\ Sorted
      /\ end \in [Slots -> Nat]
  BY TurnFacts DEF StoreEnd, Turns
<1>2. IInv' /\ range' = range /\ id' = id /\ Sorted'
  BY <1>1, SortStays DEF StoreEnd
<1>3. /\ phase = "rewrite" /\ turn = "end" /\ turn' = "begin" /\ written < N
      /\ end' = [end EXCEPT ![written] = (end[written] - begin[written]) + init]
      /\ UNCHANGED <<build, len, phase, written, init, begin, secondary, out, flushed, bulk>>
  BY DEF StoreEnd, InTurn, files
<1>4. /\ out \in Seq(Slots) /\ Len(out) = written + 1
      /\ \A k \in 1..(written + 1) : out[k] \in Slots
      /\ out[written + 1] = range[written]
  <2>1. out \in Seq(Slots) /\ Len(out) = written + 1
    BY <1>3 DEF OutFollowsSlots, Handed
  <2>2. \A k \in 1..(written + 1) : out[k] \in Slots
    BY <2>1, ElementOfSeq
  <2>3. written + 1 \in 1..Handed /\ (written + 1) - 1 = written
    BY <1>1, <1>3 DEF Handed
  <2>4. out[written + 1] = range[(written + 1) - 1]
    BY <2>3 DEF OutFollowsSlots
  <2> QED BY <2>1, <2>2, <2>3, <2>4
<1>5. end[written] - begin[written] = len[range[written]]
  <2>1. Untouched(written)
    BY <1>3 DEF Untouched
  <2>2. /\ begin[written] = StartOf(Original, range[written] + 1)
        /\ end[written] = StartOf(Original, range[written] + 2)
    BY <1>1, <1>3, <2>1 DEF Placed
  <2>3. /\ StartOf(Original, range[written] + 1) \in Nat
        /\ StartOf(Original, range[written] + 2)
             = StartOf(Original, range[written] + 1) + len[range[written]]
    BY <1>1, OriginalBytes
  <2> QED BY <1>1, <2>2, <2>3
<1>6. len[range[written]] + init = StartOf(out, written + 2) /\ StartOf(out, written + 2) \in Nat
  <2> DEFINE n == written + 1
  <2>1. /\ n \in Nat /\ n \in 1..n /\ n + 1 \in 1..(n + 1) /\ n \in 1..(n + 1)
        /\ n + 1 = written + 2 /\ \A k \in 1..n : out[k] \in Slots
    BY <1>1, <1>4
  <2> HIDE DEF n
  <2>2. /\ StartOf(out, n) \in Nat /\ StartOf(out, n + 1) \in Nat
        /\ StartOf(out, n + 1) = StartOf(out, n) + len[out[n]]
    BY <1>1, <2>1, Lengths
  <2>3. init = StartOf(out, n) /\ out[n] = range[written]
    BY <1>4 DEF Placed, n
  <2>4. len[range[written]] + init = StartOf(out, n + 1)
    BY <1>1, <2>2, <2>3
  <2> QED BY <2>1, <2>2, <2>4
<1>7. end' = [end EXCEPT ![written] = StartOf(out, written + 2)]
  BY <1>3, <1>5, <1>6
<1>8. PairTypeOK'
  <2>1. end' \in [Slots -> Nat]
    BY <1>1, <1>6, <1>7
  <2> QED BY <1>3, <2>1 DEF PairTypeOK, Turns
<1>9. Placed'
  <2>1. ASSUME NEW p \in Slots
        PROVE  /\ Rewritten(p)' => Rewritten(p) /\ p # written
               /\ Untouched(p)' => Untouched(p) /\ p # written
    BY <1>1, <1>3, CountAssumption DEF Rewritten, Untouched, Slots
  <2>2. \A p \in Slots : p # written => end'[p] = end[p]
    BY <1>1, <1>7
  <2>3. end'[written] = StartOf(out, written + 2)
    BY <1>1, <1>7
  <2> QED BY <1>2, <1>3, <2>1, <2>2, <2>3, StartsStay DEF Placed
<1>10. Linked'
  BY <1>2, <1>3 DEF Linked
<1>11. PhaseFollowsSort' /\ OutFollowsSlots' /\ BulkIsOldOrWhole'
  BY <1>2, <1>3
     DEF PhaseFollowsSort, Phases, Turns, OutFollowsSlots, Handed, BulkIsOldOrWhole, Original
<1> QED
  BY <1>2, <1>8, <1>9, <1>10, <1>11

LEMMA BeginKeeps == PairInv /\ StoreBegin => PairInv'
<1> SUFFICES ASSUME PairInv, StoreBegin PROVE PairInv'
  OBVIOUS
<1> USE DEF PairInv
<1>1. /\ written \in Slots /\ written \in Nat /\ Sorted /\ init \in Nat
      /\ begin \in [Slots -> Nat]
  BY TurnFacts DEF StoreBegin, Turns
<1>2. IInv' /\ range' = range /\ id' = id /\ Sorted'
  BY <1>1, SortStays DEF StoreBegin
<1>3. /\ phase = "rewrite" /\ turn = "begin" /\ turn' = "link" /\ written < N
      /\ begin' = [begin EXCEPT ![written] = init]
      /\ UNCHANGED <<build, len, phase, written, init, end, secondary, out, flushed, bulk>>
  BY DEF StoreBegin, InTurn, files
<1>4. PairTypeOK'
  <2>1. begin' \in [Slots -> Nat]
    BY <1>1, <1>3
  <2> QED BY <1>3, <2>1 DEF PairTypeOK, Turns
<1>5. Placed'
  <2>1. ASSUME NEW p \in Slots
        PROVE  /\ Rewritten(p)' => p = written \/ (Rewritten(p) /\ p # written)
               /\ Untouched(p)' => Untouched(p) /\ p # written
    BY <1>1, <1>3, CountAssumption DEF Rewritten, Untouched, Slots
  <2>2. \A p \in Slots : p # written => begin'[p] = begin[p]
    BY <1>1, <1>3
  <2>3. begin'[written] = StartOf(out, written + 1) /\ end[written] = StartOf(out, written + 2)
    BY <1>1, <1>3 DEF Placed
  <2> QED BY <1>2, <1>3, <2>1, <2>2, <2>3, StartsStay DEF Placed
<1>6. Linked'
  <2>1. \A p \in Slots : p < written => begin'[p] = begin[p]
    BY <1>1, <1>3, CountAssumption DEF Slots
  <2> QED BY <1>2, <1>3, <2>1 DEF Linked
<1>7. PhaseFollowsSort' /\ OutFollowsSlots' /\ BulkIsOldOrWhole'
  BY <1>2, <1>3
     DEF PhaseFollowsSort, Phases, Turns, OutFollowsSlots, Handed, BulkIsOldOrWhole, Original
<1> QED
  BY <1>2, <1>4, <1>5, <1>6, <1>7

LEMMA LinkKeeps == PairInv /\ LinkEntry => PairInv'
<1> SUFFICES ASSUME PairInv, LinkEntry PROVE PairInv'
  OBVIOUS
<1> USE DEF PairInv
<1>1. /\ written \in Slots /\ written \in Nat /\ Sorted /\ init \in Nat
      /\ end \in [Slots -> Nat]
  BY TurnFacts DEF LinkEntry, InLink, Turns
<1>2. IInv' /\ range' = range /\ id' = id /\ Sorted'
  BY <1>1, SortStays DEF LinkEntry
<1>3. /\ phase = "rewrite" /\ turn = "link" /\ turn' = "write" /\ written < N
      /\ written' = written + 1 /\ init' = end[written]
      /\ secondary' = IF id[written] \in Slots
                        THEN [secondary EXCEPT ![id[written]].offset = init] ELSE secondary
      /\ UNCHANGED <<build, len, phase, begin, end, out, flushed, bulk>>
  BY DEF LinkEntry, InLink, InTurn, files
<1>4. secondary \in [Slots -> [id : 0..N, offset : Nat]]
  BY DEF PairTypeOK
<1>5. id[written] = written + 1
  BY <1>1 DEF Linked
<1>6. PairTypeOK'
  <2>1. secondary' \in [Slots -> [id : 0..N, offset : Nat]]
    BY <1>1, <1>3, <1>4
  <2>2. written' \in 0..N /\ init' \in Nat
    BY <1>1, <1>3, CountAssumption
  <2> QED BY <1>3, <2>1, <2>2 DEF PairTypeOK, Turns
<1>7. Rewritten(written) /\ written' + 1 = written + 2
  BY <1>1, <1>3 DEF Rewritten
<1>8. Placed'
  <2>1. ASSUME NEW p \in Slots
        PROVE  (Rewritten(p)' => Rewritten(p)) /\ (Untouched(p)' => Untouched(p))
    BY <1>1, <1>3, CountAssumption DEF Rewritten, Untouched, Slots
  <2>2. end[written] = StartOf(out, written + 2)
    BY <1>1, <1>3, <1>7 DEF Placed
  <2>3. init' = StartOf(out', written' + 1)
    BY <1>3, <1>7, <2>2
  <2> QED BY <1>2, <1>3, <2>1, <2>3, StartsStay DEF Placed
<1>9. Linked'
  <2>1. begin[written] = init
    BY <1>1, <1>3, <1>7 DEF Placed
  <2>2. ASSUME NEW p \in Slots, p < written', p + 1 \in Slots
        PROVE  secondary'[p + 1].offset = begin'[p]
    <3>1. CASE p = written
      BY <1>3, <1>4, <1>5, <2>1, <2>2, <3>1
    <3>2. CASE p # written
      <4>1. p < written /\ p + 1 # written + 1
        BY <1>1, <1>3, <2>2, <3>2, CountAssumption DEF Slots
      <4>2. secondary'[p + 1] = secondary[p + 1]
        BY <1>3, <1>4, <1>5, <2>2, <4>1
      <4> QED BY <1>3, <2>2, <4>1, <4>2 DEF Linked
    <3> QED BY <3>1, <3>2
  <2> QED BY <1>2, <2>2 DEF Linked
<1>10. OutFollowsSlots'
  <2>1. Handed' = Handed
    BY <1>3 DEF Handed
  <2> QED BY <1>2, <1>3, <2>1 DEF OutFollowsSlots
<1>11. PhaseFollowsSort' /\ BulkIsOldOrWhole'
  BY <1>1, <1>2, <1>3, CountAssumption
     DEF PhaseFollowsSort, Phases, Turns, BulkIsOldOrWhole, Original
<1> QED
  BY <1>2, <1>6, <1>8, <1>9, <1>10, <1>11

\* A step that changes the phase, the stream or the bulk file only.
LEMMA EntriesStay ==
    ASSUME PairInv, phase # "sort", phase' # "sort",
           UNCHANGED <<sortVars, len, written, turn, init, begin, end, secondary, out>>
    PROVE  IInv' /\ Sorted' /\ range' = range /\ Placed' /\ Linked'
<1>1. IInv' /\ range' = range /\ id' = id /\ Sorted'
  <2>1. Sorted
    BY DEF PairInv, PhaseFollowsSort
  <2> QED BY <2>1, SortStays
<1>2. Placed'
  <2>1. \A p \in Slots : Rewritten(p)' = Rewritten(p) /\ Untouched(p)' = Untouched(p)
    BY DEF Rewritten, Untouched
  <2> QED BY <1>1, <2>1, StartsStay DEF PairInv, Placed
<1>3. Linked'
  BY <1>1 DEF PairInv, Linked
<1> QED
  BY <1>1, <1>2, <1>3

LEMMA DeathKeeps ==
    ASSUME PairInv, NEW how \in Deaths, phase = "rewrite", written < N, Dies(how)
    PROVE  PairInv'
<1> USE DEF PairInv
<1>1. /\ UNCHANGED <<sortVars, build, len, written, turn, init, begin, end, secondary,
                     out, flushed, bulk>>
      /\ phase' = how /\ phase' \in Deaths /\ phase' # "sort"
      /\ phase' \notin {"replace", "done"}
  BY DEF Dies, mapped, files, Deaths
<1>2. IInv' /\ Sorted' /\ range' = range /\ Placed' /\ Linked'
  BY <1>1, EntriesStay
<1>3. PairTypeOK'
  BY <1>1 DEF PairTypeOK
<1>4. PhaseFollowsSort' /\ OutFollowsSlots' /\ BulkIsOldOrWhole'
  BY <1>1, <1>2
     DEF PhaseFollowsSort, Phases, OutFollowsSlots, Handed, BulkIsOldOrWhole, Original
<1> QED
  BY <1>2, <1>3, <1>4

LEMMA CloseKeeps == PairInv /\ CloseSorted => PairInv'
<1> SUFFICES ASSUME PairInv, CloseSorted PROVE PairInv'
  OBVIOUS
<1> USE DEF PairInv
<1>1. /\ phase = "rewrite" /\ phase' = "replace" /\ written = N /\ turn = "write"
      /\ flushed' = Len(out) /\ out \in Seq(Slots)
      /\ UNCHANGED <<sortVars, build, len, written, turn, init, begin, end, secondary,
                     out, bulk>>
  BY DEF CloseSorted, mapped, PhaseFollowsSort, OutFollowsSlots
<1>2. IInv' /\ Sorted' /\ range' = range /\ Placed' /\ Linked'
  BY <1>1, EntriesStay
<1>3. PairTypeOK'
  <2>1. Len(out) \in Nat
    BY <1>1, LenProperties
  <2> QED BY <1>1, <2>1 DEF PairTypeOK
<1>4. PhaseFollowsSort' /\ OutFollowsSlots' /\ BulkIsOldOrWhole'
  BY <1>1, <1>2
     DEF PhaseFollowsSort, Phases, OutFollowsSlots, Handed, BulkIsOldOrWhole, Original
<1> QED
  BY <1>2, <1>3, <1>4

LEMMA ReplaceKeeps == PairInv /\ ReplaceBulk => PairInv'
<1> SUFFICES ASSUME PairInv, ReplaceBulk PROVE PairInv'
  OBVIOUS
<1> USE DEF PairInv
<1>1. /\ phase = "replace" /\ phase' = "done" /\ flushed = Len(out) /\ out \in Seq(Slots)
      /\ bulk' = SubSeq(out, 1, flushed)
      /\ UNCHANGED <<sortVars, build, len, written, turn, init, begin, end, secondary,
                     out, flushed>>
  BY DEF ReplaceBulk, mapped, OutFollowsSlots
<1>2. bulk' = out
  BY <1>1, SubSeqFull
<1>3. IInv' /\ Sorted' /\ range' = range /\ Placed' /\ Linked'
  BY <1>1, EntriesStay
<1>4. PairTypeOK'
  BY <1>1, <1>2 DEF PairTypeOK
<1>5. PhaseFollowsSort' /\ OutFollowsSlots' /\ BulkIsOldOrWhole'
  BY <1>1, <1>2, <1>3
     DEF PhaseFollowsSort, Phases, OutFollowsSlots, Handed, BulkIsOldOrWhole, Original
<1> QED
  BY <1>3, <1>4, <1>5

LEMMA PairStep == PairInv /\ [Next]_vars => PairInv'
<1> SUFFICES ASSUME PairInv, [Next]_vars PROVE PairInv'
  OBVIOUS
<1>1. CASE Quicksort
  BY <1>1, QuicksortKeeps
<1>2. CASE OpenSorted
  BY <1>2, OpenKeeps
<1>3. CASE WriteRecord
  BY <1>3, WriteKeeps
<1>4. CASE StoreEnd
  BY <1>4, EndKeeps
<1>5. CASE StoreBegin
  BY <1>5, BeginKeeps
<1>6. CASE LinkEntry
  BY <1>6, LinkKeeps
<1>7. CASE AssertFails \/ LinkPastMapping \/ NoSecondaryFaults
  <2>1. /\ phase = "rewrite" /\ written < N
        /\ \E how \in Deaths : Dies(how)
    BY <1>7 DEF AssertFails, LinkPastMapping, NoSecondaryFaults, InLink, InTurn, Deaths
  <2> QED BY <2>1, DeathKeeps
<1>8. CASE CloseSorted
  BY <1>8, CloseKeeps
<1>9. CASE ReplaceBulk
  BY <1>9, ReplaceKeeps
<1>10. CASE UNCHANGED vars
  <2>1. /\ UNCHANGED <<sortVars, build, len, phase, written, turn, init, begin, end,
                       secondary, out, flushed, bulk>>
    BY <1>10 DEF vars, pairVars, mapped, files
  <2>2. IInv' /\ range' = range /\ id' = id /\ Sorted' = Sorted
    BY <2>1, SortStays
  <2>3. Placed'
    <3>1. \A p \in Slots : Rewritten(p)' = Rewritten(p) /\ Untouched(p)' = Untouched(p)
      BY <2>1 DEF Rewritten, Untouched
    <3> QED BY <2>1, <2>2, <3>1, StartsStay DEF PairInv, Placed
  <2>4. PairTypeOK' /\ Linked'
    BY <2>1, <2>2 DEF PairInv, PairTypeOK, Linked
  <2>5. PhaseFollowsSort' /\ OutFollowsSlots' /\ BulkIsOldOrWhole'
    BY <2>1, <2>2
       DEF PairInv, PhaseFollowsSort, OutFollowsSlots, Handed, BulkIsOldOrWhole, Original
  <2> QED BY <2>2, <2>3, <2>4, <2>5 DEF PairInv
<1> QED
  BY <1>1, <1>2, <1>3, <1>4, <1>5, <1>6, <1>7, <1>8, <1>9, <1>10 DEF Next, Step, Stopped

\* The inductive invariant holds in every reachable state.
THEOREM PairInvariance == PairSpec => []PairInv
  BY PairStart, PairStep, PTL DEF PairSpec

-----------------------------------------------------------------------------

\* Entries, offsets and files keep their types whatever the lengths.
THEOREM PairTypeCorrect == PairSpec => []PairTypeOK
<1>1. PairInv => PairTypeOK
  BY DEF PairInv
<1> QED
  BY <1>1, PairInvariance, PTL

\* In every state between two stores of the rewrite, the entries visited
\* describe the records handed to the new file and the others the old one,
\* except the entry between its stores to end and begin: the init that both
\* are computed from is the length of what was handed over.
THEOREM EntriesNeverStray == PairSpec => []RewriteSplit
<1>1. ASSUME PairInv PROVE RewriteSplit
  <2> USE <1>1 DEF PairInv
  <2> SUFFICES ASSUME phase # "done", NEW p \in Slots
               PROVE  /\ Rewritten(p) => Describes(p, out)
                      /\ Untouched(p) => Describes(p, bulk)
    BY DEF RewriteSplit
  <2>1. ASSUME Rewritten(p) PROVE Describes(p, out)
    <3>1. phase # "sort"
      BY <2>1, CountAssumption DEF Rewritten, PhaseFollowsSort, Slots
    <3>2. /\ Len(out) = Handed /\ p + 1 \in 1..Handed
          /\ (p + 1) - 1 = p /\ (p + 1) + 1 = p + 2
      BY <2>1, CountAssumption
         DEF Rewritten, Handed, Slots, OutFollowsSlots, PhaseFollowsSort
    <3>3. out[p + 1] = range[p]
      BY <3>2 DEF OutFollowsSlots
    <3>4. BeginOf(p) = StartOf(out, p + 1) /\ EndOf(p) = StartOf(out, p + 2)
      BY <2>1, <3>1 DEF BeginOf, EndOf, Placed
    <3> QED BY <3>2, <3>3, <3>4 DEF Describes
  <2>2. ASSUME Untouched(p) PROVE Describes(p, bulk)
    <3>1. bulk = Original /\ Len(Original) = N /\ range[p] \in Slots /\ len \in [Slots -> Lens]
      <4>1. Len(Original) = N
        BY CountAssumption DEF Original
      <4>2. range[p] \in Slots /\ len \in [Slots -> Lens]
        BY DEF IInv, TypeOK, PairTypeOK
      <4> QED BY <4>1, <4>2 DEF BulkIsOldOrWhole
    <3>2. range[p] + 1 \in 1..N /\ Original[range[p] + 1] = range[p]
          /\ (range[p] + 1) + 1 = range[p] + 2
      BY <3>1, OriginalBytes
    <3>3. /\ BeginOf(p) = StartOf(Original, range[p] + 1)
          /\ EndOf(p) = StartOf(Original, range[p] + 2)
      BY <2>2 DEF BeginOf, EndOf, Placed
    <3>4. Describes(p, Original)
      BY <3>1, <3>2, <3>3 DEF Describes
    <3> QED BY <3>1, <3>4
  <2> QED BY <2>1, <2>2
<1> QED
  BY <1>1, PairInvariance, PTL

\* The bulk file holds every record once at all times, however many there
\* are: sortPair replaces it as a whole, and the file it is replaced by has
\* the records of all slots, each of which the quicksort has kept.
THEOREM BulkStaysComplete == PairSpec => []BulkIsComplete
<1>1. ASSUME PairInv PROVE BulkIsComplete
  <2> USE <1>1 DEF PairInv
  <2>1. CASE phase # "done"
    <3>1. bulk = [k \in 1..N |-> k - 1]
      BY <2>1 DEF BulkIsOldOrWhole, Original
    <3>2. Len(bulk) = N
      BY <3>1, CountAssumption
    <3>3. ASSUME NEW r \in Slots PROVE \E k \in 1..N : bulk[k] = r
      <4>1. r + 1 \in 1..N /\ bulk[r + 1] = r
        BY <3>1, CountAssumption DEF Slots
      <4> QED BY <4>1
    <3> QED BY <3>2, <3>3 DEF BulkIsComplete
  <2>2. CASE phase = "done"
    <3>1. bulk = out /\ Len(bulk) = N /\ \A k \in 1..N : bulk[k] = range[k - 1]
      BY <2>2 DEF BulkIsOldOrWhole, OutFollowsSlots, PhaseFollowsSort, Handed
    <3>2. ASSUME NEW r \in Slots PROVE \E k \in 1..N : bulk[k] = r
      <4>1. PICK p \in Slots : range[p] = r
        BY DEF IInv, EachRangeOnce, EachOnce
      <4>2. p + 1 \in 1..N /\ (p + 1) - 1 = p
        BY CountAssumption DEF Slots
      <4> QED BY <3>1, <4>1, <4>2
    <3> QED BY <3>1, <3>2 DEF BulkIsComplete
  <2> QED BY <2>1, <2>2
<1> QED
  BY <1>1, PairInvariance, PTL

\* When sortPair has returned, the bulk file is in rank order and the
\* entries of the index tile it, from byte 0 to its last byte, for any
\* number of records of any lengths.
THEOREM BulkIsSorted == PairSpec => []SortedAndTiled
<1>1. ASSUME PairInv PROVE SortedAndTiled
  <2> USE <1>1 DEF PairInv
  <2> SUFFICES ASSUME phase = "done"
               PROVE  EntriesTile /\ EndOf(N - 1) = StartOf(bulk, N + 1) /\ BulkInOrder
    BY DEF SortedAndTiled
  <2>1. /\ written = N /\ bulk = out /\ Len(out) = N /\ out \in Seq(Slots)
        /\ \A k \in 1..N : bulk[k] = range[k - 1]
    BY DEF BulkIsOldOrWhole, OutFollowsSlots, PhaseFollowsSort, Handed
  <2>2. \A p \in Slots : BeginOf(p) = StartOf(out, p + 1) /\ EndOf(p) = StartOf(out, p + 2)
    <3>1. \A p \in Slots : Rewritten(p)
      BY <2>1, CountAssumption DEF Slots, Rewritten
    <3> QED BY <3>1 DEF BeginOf, EndOf, Placed
  <2>3. EntriesTile
    <3>1. BeginOf(0) = 0
      <4>1. 0 \in Slots /\ 0 + 1 = 1 /\ N \in Nat
        BY CountAssumption DEF Slots
      <4>2. \A k \in 1..N : out[k] \in Slots
        BY <2>1, ElementOfSeq
      <4>3. StartOf(out, 1) = 0
        BY <4>1, <4>2, Lengths DEF PairTypeOK
      <4> QED BY <2>2, <4>1, <4>3
    <3>2. ASSUME NEW p \in 1..(N - 1) PROVE BeginOf(p) = EndOf(p - 1)
      <4>1. p \in Slots /\ p - 1 \in Slots /\ (p - 1) + 2 = p + 1
        BY CountAssumption DEF Slots
      <4>2. BeginOf(p) = StartOf(out, p + 1)
        BY <2>2, <4>1
      <4>3. EndOf(p - 1) = StartOf(out, (p - 1) + 2)
        BY <2>2, <4>1
      <4> QED BY <4>1, <4>2, <4>3
    <3> QED BY <3>1, <3>2 DEF EntriesTile
  <2>4. EndOf(N - 1) = StartOf(bulk, N + 1)
    <3>1. N - 1 \in Slots /\ (N - 1) + 2 = N + 1
      BY CountAssumption DEF Slots
    <3>2. EndOf(N - 1) = StartOf(out, (N - 1) + 2)
      BY <2>2, <3>1
    <3> QED BY <2>1, <3>1, <3>2
  <2>5. BulkInOrder
    <3>1. SortedWhenDone /\ Sorted
      BY OrderWhenEmpty DEF PhaseFollowsSort
    <3>2. ASSUME NEW p \in 1..N, NEW q \in 1..N, p < q PROVE rank[bulk[p]] <= rank[bulk[q]]
      <4>1. p - 1 \in Slots /\ q - 1 \in Slots /\ p - 1 < q - 1
        BY <3>2, CountAssumption DEF Slots
      <4> QED BY <2>1, <3>1, <4>1 DEF SortedWhenDone
    <3> QED BY <3>2 DEF BulkInOrder
  <2> QED BY <2>3, <2>4, <2>5
<1> QED
  BY <1>1, PairInvariance, PTL

\* When sortPair has returned, every secondary entry that an id of the
\* primary index leads to holds the new offset of the entry with that id.
THEOREM OffsetsFollow == PairSpec => []SecondaryFollowsPrimary
<1>1. ASSUME PairInv PROVE SecondaryFollowsPrimary
  <2> USE <1>1 DEF PairInv
  <2> SUFFICES ASSUME phase = "done", NEW p \in Slots, id[p] \in Slots
               PROVE  secondary[id[p]].offset = BeginOf(p)
    BY DEF SecondaryFollowsPrimary
  <2>1. id[p] = p + 1 /\ p < written /\ BeginOf(p) = begin[p]
    BY CountAssumption DEF Linked, PhaseFollowsSort, Slots, BeginOf
  <2> QED BY <2>1 DEF Linked
<1> QED
  BY <1>1, PairInvariance, PTL
=============================================================================
