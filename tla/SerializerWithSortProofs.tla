---------------------- MODULE SerializerWithSortProofs ----------------------
(***************************************************************************)
(* Theorems about SerializerWithSort, for every set of records and any     *)
(* sequence of calls: who owns the files, what the flags tell about it,    *)
(* what the entries hold, what a search answers, and that the object       *)
(* implements the bag of records of StoreSpec.                             *)
(***************************************************************************)
EXTENDS SerializerWithSort, FiniteSetTheorems, SequenceTheorems, WellFoundedInduction, TLAPS

\* The records behind the variables keep their fields.
Shapes ==
    /\ sorter = [set |-> sorter.set, open |-> sorter.open,
                 isFixedSize |-> sorter.isFixedSize,
                 entries |-> sorter.entries, bytes |-> sorter.bytes]
    /\ {sorter.set, sorter.open, sorter.isFixedSize, c.open} \subseteq BOOLEAN
    /\ c = [open |-> c.open, named |-> c.named, end |-> c.end]
    /\ flags \in [hasInserted : BOOLEAN, hasRiskInsert : BOOLEAN, hasSorted : BOOLEAN]
    /\ Len(index) \in Nat /\ index = [k \in 1..Len(index) |-> index[k]]

\* The two insertion flags are always equal, and exclude the third.
FlagsAgree ==
    /\ flags.hasInserted = flags.hasRiskInsert
    /\ flags.hasSorted => ~flags.hasInserted

\* The files are mapped only while a flag says so: an insertion that trusts
\* the flags does not leave a mapping behind.
MappedIsFlagged == sorter.open => flags.hasSorted \/ flags.hasInserted

\* The inductive invariant.
Ownership == Shapes /\ FlagsAgree /\ MappedIsFlagged /\ IndexIsMapped /\ SortedIsMapped

-----------------------------------------------------------------------------
(* Sequences of any values *)

LEMMA FunctionIsSeq ==
    ASSUME NEW f, NEW n \in Nat, f = [k \in 1..n |-> f[k]]
    PROVE  f \in Seq({f[k] : k \in 1..n}) /\ Len(f) = n
<1> DEFINE S == {f[k] : k \in 1..n}
<1>1. f \in [1..n -> S]
  <2>1. \A k \in 1..n : f[k] \in S
    OBVIOUS
  <2> HIDE DEF S
  <2> QED BY <2>1
<1> QED
  BY <1>1

\* Appending keeps a sequence one.
LEMMA AppendIsSeq ==
    ASSUME NEW s, Len(s) \in Nat, s = [k \in 1..Len(s) |-> s[k]], NEW e
    PROVE  /\ Len(Append(s, e)) \in Nat
           /\ Append(s, e) = [k \in 1..Len(Append(s, e)) |-> Append(s, e)[k]]
<1> DEFINE S == {s[k] : k \in 1..Len(s)} \union {e}
<1>1. s \in Seq(S)
  <2>1. s \in Seq({s[k] : k \in 1..Len(s)})
    BY FunctionIsSeq
  <2> QED BY <2>1
<1>2. e \in S
  OBVIOUS
<1> HIDE DEF S
<1>3. Append(s, e) \in Seq(S)
  BY <1>1, <1>2, AppendProperties
<1>4. Append(s, e) \in [1..Len(Append(s, e)) -> S] /\ Len(Append(s, e)) \in Nat
  BY <1>3, LenProperties
<1> QED
  BY <1>4

\* So does rewriting an entry, which leaves the length as it is.
LEMMA RewriteIsSeq ==
    ASSUME NEW s, Len(s) \in Nat, s = [k \in 1..Len(s) |-> s[k]], NEW a, NEW v,
           NEW t, t = [s EXCEPT ![a] = v]
    PROVE  Len(t) = Len(s) /\ t = [k \in 1..Len(t) |-> t[k]]
<1>1. t = [k \in 1..Len(s) |-> t[k]]
  OBVIOUS
<1>2. Len(t) = Len(s)
  BY <1>1, FunctionIsSeq
<1> QED
  BY <1>1, <1>2

-----------------------------------------------------------------------------
(* Putting records one behind the other *)

\* Induction for a set of numbers: NatInduction takes an operator, which the
\* provers cannot instantiate, so this is drawn from the least element of
\* the complement.
LEMMA SetInduction ==
    ASSUME NEW S, 0 \in S, \A n \in Nat : n \in S => n + 1 \in S
    PROVE  \A n \in Nat : n \in S
<1> DEFINE T == Nat \ S
           R == OpToRel(<, Nat)
<1> SUFFICES ASSUME T # {} PROVE FALSE
  OBVIOUS
<1>1. IsWellFoundedOn(R, Nat)
  BY NatLessThanWellFounded
<1>2. T \subseteq Nat
  OBVIOUS
<1> HIDE DEF T, R
<1>3. PICK x \in T : \A y \in T : ~(<<y, x>> \in R)
  BY <1>1, <1>2, WFMin
<1>4. x \in Nat /\ x \notin S /\ x # 0
  BY DEF T
<1>5. x - 1 \in Nat
  BY <1>4
<1>6. x - 1 \notin T
  <2>1. <<x - 1, x>> \in R
    BY <1>4, <1>5 DEF R, OpToRel
  <2> QED BY <1>3, <2>1
<1>7. (x - 1) + 1 \in S /\ (x - 1) + 1 = x
  BY <1>4, <1>5, <1>6 DEF T
<1> QED
  BY <1>4, <1>7

\* Two records, one behind the other.
LEMMA Joined ==
    ASSUME NEW q \in Bytes, NEW r \in Bytes
    PROVE  /\ q \o r \in Bytes /\ Len(q) \in Nat /\ Len(r) \in Nat
           /\ Len(q \o r) = Len(q) + Len(r)
           /\ \A j \in 1..Len(q) : (q \o r)[j] = q[j]
           /\ \A i \in 1..Len(r) : (q \o r)[Len(q) + i] = r[i]
<1>1. /\ q \o r \in Bytes
      /\ Len(q \o r) = Len(q) + Len(r)
      /\ \A j \in 1..(Len(q) + Len(r)) : (q \o r)[j] = IF j <= Len(q) THEN q[j] ELSE r[j - Len(q)]
  BY ConcatProperties DEF Bytes
<1>2. Len(q) \in Nat /\ Len(r) \in Nat
  BY LenProperties DEF Bytes
<1>3. ASSUME NEW i \in 1..Len(r) PROVE (q \o r)[Len(q) + i] = r[i]
  <2> DEFINE j == Len(q) + i
  <2>1. j \in 1..(Len(q) + Len(r)) /\ ~(j <= Len(q)) /\ j - Len(q) = i
    BY <1>2
  <2> HIDE DEF j
  <2>2. (q \o r)[j] = r[j - Len(q)]
    BY <1>1, <2>1
  <2> QED BY <2>1, <2>2 DEF j
<1>4. ASSUME NEW j \in 1..Len(q) PROVE (q \o r)[j] = q[j]
  <2>1. j \in 1..(Len(q) + Len(r)) /\ j <= Len(q)
    BY <1>2
  <2> QED BY <1>1, <2>1
<1> QED
  BY <1>1, <1>2, <1>3, <1>4

\* f[i] is the first i of the sequences s, one behind the other: the function
\* FlattenSeq defines.
FlattensUpto(f, s, n) == f = [i \in 1..n |-> IF i = 1 THEN s[i] ELSE f[i - 1] \o s[i]]
Flattens(f, s) == FlattensUpto(f, s, Len(s))

LEMMA FlatteningExists ==
    ASSUME NEW s \in Seq(Bytes)
    PROVE  \E f : Flattens(f, s) /\ f \in [1..Len(s) -> Bytes]
<1> DEFINE Good(n) == \E f : FlattensUpto(f, s, n) /\ f \in [1..n -> Bytes]
           D == {n \in Nat : n <= Len(s) => Good(n)}
<1>0. Len(s) \in Nat /\ \A i \in 1..Len(s) : s[i] \in Bytes
  BY LenProperties
<1>1. 0 \in D
  <2>1. FlattensUpto([i \in 1..0 |-> <<>>], s, 0) /\ [i \in 1..0 |-> <<>>] \in [1..0 -> Bytes]
    BY DEF FlattensUpto
  <2> QED BY <2>1
<1>2. ASSUME NEW n \in Nat, n \in D PROVE n + 1 \in D
  <2> SUFFICES ASSUME n + 1 <= Len(s) PROVE Good(n + 1)
    OBVIOUS
  <2>1. PICK f : FlattensUpto(f, s, n) /\ f \in [1..n -> Bytes]
    <3>1. n <= Len(s)
      BY <1>0
    <3>2. Good(n)
      BY <1>2, <3>1
    <3> QED BY <3>2
  <2> DEFINE g == [i \in 1..(n + 1) |-> IF i = 1 THEN s[i] ELSE f[i - 1] \o s[i]]
  <2>2. ASSUME NEW i \in 1..(n + 1)
        PROVE  g[i] = (IF i = 1 THEN s[i] ELSE g[i - 1] \o s[i]) /\ g[i] \in Bytes
    <3>1. s[i] \in Bytes
      BY <1>0
    <3>2. CASE i = 1
      BY <3>1, <3>2
    <3>3. CASE i # 1
      <4>1. i - 1 \in 1..n /\ i - 1 \in 1..(n + 1)
        BY <3>3
      <4>2. g[i - 1] = f[i - 1] /\ f[i - 1] \in Bytes
        BY <2>1, <4>1 DEF FlattensUpto
      <4>3. g[i] = f[i - 1] \o s[i]
        BY <3>3
      <4>4. f[i - 1] \o s[i] \in Bytes
        BY <3>1, <4>2, Joined
      <4> QED BY <3>3, <4>2, <4>3, <4>4
    <3> QED BY <3>2, <3>3
  <2>3. g = [i \in 1..(n + 1) |-> g[i]]
    OBVIOUS
  <2> HIDE DEF g
  <2>4. FlattensUpto(g, s, n + 1) /\ g \in [1..(n + 1) -> Bytes]
    BY <2>2, <2>3 DEF FlattensUpto
  <2> QED BY <2>4
<1> HIDE DEF D
<1>3. Len(s) \in D
  BY <1>0, <1>1, <1>2, SetInduction
<1>4. Good(Len(s))
  BY <1>0, <1>3 DEF D
<1> QED
  BY <1>4 DEF Flattens

\* It is the same, as far as they go, for sequences with the same beginning.
LEMMA FlatteningsAgree ==
    ASSUME NEW s1, NEW s2, NEW f1, NEW f2, Flattens(f1, s1), Flattens(f2, s2),
           Len(s1) \in Nat, Len(s2) \in Nat, Len(s1) <= Len(s2),
           \A i \in 1..Len(s1) : s1[i] = s2[i]
    PROVE  \A i \in 1..Len(s1) : f1[i] = f2[i]
<1> DEFINE D == {k \in Nat : k \in 1..Len(s1) => f1[k] = f2[k]}
<1>1. 0 \in D
  OBVIOUS
<1>2. ASSUME NEW k \in Nat, k \in D PROVE k + 1 \in D
  <2> SUFFICES ASSUME k + 1 \in 1..Len(s1) PROVE f1[k + 1] = f2[k + 1]
    OBVIOUS
  <2>1. k + 1 \in 1..Len(s2) /\ s1[k + 1] = s2[k + 1]
    OBVIOUS
  <2>2. CASE k = 0
    BY <2>1, <2>2 DEF Flattens, FlattensUpto
  <2>3. CASE k # 0
    <3>1. k \in 1..Len(s1) /\ k + 1 # 1 /\ (k + 1) - 1 = k
      BY <2>3
    <3>2. f1[k] = f2[k]
      BY <1>2, <3>1
    <3>3. f1[k + 1] = f1[k] \o s1[k + 1] /\ f2[k + 1] = f2[k] \o s2[k + 1]
      BY <2>1, <3>1 DEF Flattens, FlattensUpto
    <3> QED BY <2>1, <3>2, <3>3
  <2> QED BY <2>2, <2>3
<1> HIDE DEF D
<1>3. \A k \in Nat : k \in D
  BY <1>1, <1>2, SetInduction
<1>4. \A k \in 1..Len(s1) : k \in D
  BY <1>3
<1> QED
  BY <1>4 DEF D

\* What FlattenSeq returns.
LEMMA FlattenSeqIs ==
    ASSUME NEW s \in Seq(Bytes), Len(s) # 0, NEW f, Flattens(f, s)
    PROVE  FlattenSeq(s) = f[Len(s)]
<1> DEFINE G == CHOOSE g : Flattens(g, s)
<1>1. Flattens(G, s)
  OBVIOUS
<1>2. FlattenSeq(s) = G[Len(s)]
  BY DEF FlattenSeq, Flattens, FlattensUpto
<1> HIDE DEF G
<1>3. Len(s) \in Nat /\ Len(s) \in 1..Len(s) /\ Len(s) <= Len(s) /\ \A i \in 1..Len(s) : s[i] = s[i]
  BY LenProperties
<1>4. \A i \in 1..Len(s) : G[i] = f[i]
  BY <1>1, <1>3, FlatteningsAgree
<1> QED
  BY <1>2, <1>3, <1>4

LEMMA FlattenEmpty == FlattenSeq(<<>>) = <<>>
  BY DEF FlattenSeq

LEMMA FlattenType ==
    ASSUME NEW s \in Seq(Bytes)
    PROVE  FlattenSeq(s) \in Bytes
<1>0. Len(s) \in Nat
  BY LenProperties
<1>1. CASE Len(s) = 0
  <2>1. s = <<>>
    BY <1>1, EmptySeq
  <2>2. <<>> \in Bytes
    BY DEF Bytes
  <2> QED BY <2>1, <2>2, FlattenEmpty
<1>2. CASE Len(s) # 0
  <2>1. PICK f : Flattens(f, s) /\ f \in [1..Len(s) -> Bytes]
    BY FlatteningExists
  <2>2. FlattenSeq(s) = f[Len(s)]
    BY <1>2, <2>1, FlattenSeqIs
  <2> QED BY <1>0, <1>2, <2>1, <2>2
<1> QED
  BY <1>1, <1>2

\* The first k sequences, one behind the other.
Prefix(s, k) == FlattenSeq(SubSeq(s, 1, k))

LEMMA PrefixGrows ==
    ASSUME NEW s \in Seq(Bytes)
    PROVE  /\ Prefix(s, 0) = <<>>
           /\ Prefix(s, Len(s)) = FlattenSeq(s)
           /\ \A k \in 0..Len(s) : Prefix(s, k) \in Bytes
           /\ \A k \in 1..Len(s) : Prefix(s, k) = Prefix(s, k - 1) \o s[k]
<1>0. Len(s) \in Nat /\ \A i \in 1..Len(s) : s[i] \in Bytes
  BY LenProperties
<1>1. Prefix(s, 0) = <<>>
  <2>1. SubSeq(s, 1, 0) = <<>>
    OBVIOUS
  <2> QED BY <2>1, FlattenEmpty DEF Prefix
<1>2. ASSUME NEW k \in 0..Len(s)
      PROVE  /\ SubSeq(s, 1, k) \in Seq(Bytes) /\ Len(SubSeq(s, 1, k)) = k
             /\ \A i \in 1..k : SubSeq(s, 1, k)[i] = s[i]
  BY <1>0
<1>3. Prefix(s, Len(s)) = FlattenSeq(s)
  <2>1. SubSeq(s, 1, Len(s)) = s
    BY <1>0
  <2> QED BY <2>1 DEF Prefix
<1>4. \A k \in 0..Len(s) : Prefix(s, k) \in Bytes
  BY <1>2, FlattenType DEF Prefix
<1>5. PICK f : Flattens(f, s) /\ f \in [1..Len(s) -> Bytes]
  BY FlatteningExists
<1>6. ASSUME NEW k \in 1..Len(s) PROVE Prefix(s, k) = f[k]
  <2> DEFINE t == SubSeq(s, 1, k)
  <2>1. t \in Seq(Bytes) /\ Len(t) = k /\ \A i \in 1..Len(t) : t[i] = s[i]
    BY <1>0, <1>2
  <2>2. Prefix(s, k) = FlattenSeq(t)
    BY DEF Prefix
  <2> HIDE DEF t
  <2>3. PICK g : Flattens(g, t)
    BY <2>1, FlatteningExists
  <2>4. FlattenSeq(t) = g[k]
    BY <2>1, <2>3, FlattenSeqIs
  <2>5. \A i \in 1..Len(t) : g[i] = f[i]
    BY <1>0, <1>5, <2>1, <2>3, FlatteningsAgree
  <2> QED BY <2>1, <2>2, <2>4, <2>5
<1>7. ASSUME NEW k \in 1..Len(s) PROVE Prefix(s, k) = Prefix(s, k - 1) \o s[k]
  <2>1. CASE k = 1
    <3>1. f[1] = s[1] /\ k - 1 = 0
      BY <1>0, <1>5, <2>1 DEF Flattens, FlattensUpto
    <3>2. <<>> \o s[1] = s[1]
      BY <1>0, <2>1, ConcatEmptySeq DEF Bytes
    <3> QED BY <1>1, <1>6, <2>1, <3>1, <3>2
  <2>2. CASE k # 1
    <3>1. k - 1 \in 1..Len(s)
      BY <1>0, <2>2
    <3>2. f[k] = f[k - 1] \o s[k]
      BY <1>5, <2>2 DEF Flattens, FlattensUpto
    <3> QED BY <1>6, <3>1, <3>2
  <2> QED BY <2>1, <2>2
<1> QED
  BY <1>1, <1>3, <1>4, <1>7

\* Each sequence is found whole where the ones before it end.
LEMMA PrefixSlices ==
    ASSUME NEW s \in Seq(Bytes), NEW k \in 1..Len(s)
    PROVE  /\ Len(Prefix(s, k - 1)) \in Nat
           /\ Len(Prefix(s, k)) = Len(Prefix(s, k - 1)) + Len(s[k])
           /\ Len(Prefix(s, k)) <= Len(FlattenSeq(s))
           /\ \A i \in 1..Len(s[k]) : FlattenSeq(s)[Len(Prefix(s, k - 1)) + i] = s[k][i]
<1> DEFINE P(n) == Prefix(s, n)
           Extends(n) == /\ Len(P(k)) <= Len(P(n))
                         /\ \A j \in 1..Len(P(k)) : P(n)[j] = P(k)[j]
           D == {n \in Nat : n \in k..Len(s) => Extends(n)}
<1>0. /\ Len(s) \in Nat /\ k \in 0..Len(s) /\ k - 1 \in 0..Len(s)
      /\ \A i \in 1..Len(s) : s[i] \in Bytes
  BY LenProperties
<1>1. \A n \in 0..Len(s) : P(n) \in Bytes /\ Len(P(n)) \in Nat
  BY PrefixGrows, LenProperties DEF Bytes
<1>2. \A n \in 1..Len(s) : P(n) = P(n - 1) \o s[n]
  BY PrefixGrows
<1> HIDE DEF P
<1>3. ASSUME NEW n \in 1..Len(s)
      PROVE  /\ Len(P(n)) = Len(P(n - 1)) + Len(s[n])
             /\ \A j \in 1..Len(P(n - 1)) : P(n)[j] = P(n - 1)[j]
             /\ \A i \in 1..Len(s[n]) : P(n)[Len(P(n - 1)) + i] = s[n][i]
  <2>1. n - 1 \in 0..Len(s)
    BY <1>0
  <2>2. P(n - 1) \in Bytes /\ s[n] \in Bytes
    BY <1>0, <1>1, <2>1
  <2> DEFINE q == P(n - 1)
             r == s[n]
  <2>3. q \in Bytes /\ r \in Bytes /\ P(n) = q \o r
    BY <1>2, <2>2
  <2> HIDE DEF q, r
  <2>4. /\ Len(q \o r) = Len(q) + Len(r)
        /\ \A j \in 1..Len(q) : (q \o r)[j] = q[j]
        /\ \A i \in 1..Len(r) : (q \o r)[Len(q) + i] = r[i]
    BY <2>3, Joined
  <2> QED BY <2>3, <2>4 DEF q, r
<1>4. 0 \in D
  BY <1>0
<1>5. ASSUME NEW n \in Nat, n \in D PROVE n + 1 \in D
  <2> SUFFICES ASSUME n + 1 \in k..Len(s) PROVE Extends(n + 1)
    OBVIOUS
  <2>1. CASE n + 1 = k
    BY <1>0, <1>1, <2>1
  <2>2. CASE n + 1 # k
    <3>1. n \in k..Len(s) /\ n + 1 \in 1..Len(s) /\ (n + 1) - 1 = n /\ n \in 0..Len(s)
      BY <1>0, <2>2
    <3>2. Extends(n)
      BY <1>5, <3>1
    <3>3. Len(P(n + 1)) = Len(P(n)) + Len(s[n + 1]) /\ \A j \in 1..Len(P(n)) : P(n + 1)[j] = P(n)[j]
      BY <1>3, <3>1
    <3>4. Len(s[n + 1]) \in Nat /\ Len(P(n)) \in Nat /\ Len(P(k)) \in Nat
      BY <1>0, <1>1, <3>1, LenProperties DEF Bytes
    <3> QED BY <3>2, <3>3, <3>4
  <2> QED BY <2>1, <2>2
<1> HIDE DEF D
<1>6. Len(s) \in D
  BY <1>0, <1>4, <1>5, SetInduction
<1>7. Extends(Len(s))
  BY <1>0, <1>6 DEF D
<1>8. P(Len(s)) = FlattenSeq(s)
  BY PrefixGrows DEF P
<1>9. /\ Len(P(k)) = Len(P(k - 1)) + Len(s[k]) /\ Len(P(k - 1)) \in Nat /\ Len(s[k]) \in Nat
      /\ \A i \in 1..Len(s[k]) : P(k)[Len(P(k - 1)) + i] = s[k][i]
  BY <1>0, <1>1, <1>3, LenProperties DEF Bytes
<1>10. ASSUME NEW i \in 1..Len(s[k]) PROVE FlattenSeq(s)[Len(P(k - 1)) + i] = s[k][i]
  <2>1. Len(P(k - 1)) + i \in 1..Len(P(k))
    BY <1>9
  <2> QED BY <1>7, <1>8, <1>9, <2>1
<1> QED
  BY <1>7, <1>8, <1>9, <1>10 DEF P

-----------------------------------------------------------------------------
(* Searching *)

\* The comparator puts the records in an order, whichever it is: the answer
\* is a number, and whatever follows a record too big is too big, whatever
\* precedes one too small too small.
ComparesInOrder ==
    \A a, b, r \in Bytes \ {<<>>} :
        /\ Compare(a, b) \in Int
        /\ Compare(a, b) <= 0 /\ Compare(a, r) > 0 => Compare(b, r) > 0
        /\ Compare(a, b) <= 0 /\ Compare(b, r) < 0 => Compare(a, r) < 0

\* The contents of the index are in order.
ContentsInOrder == \A k, m \in 1..Len(index) : k < m => Compare(Contents[k], Contents[m]) <= 0

\* One turn of the loop of binSearch, find having the result for the windows
\* the loop may go on with.
Turn(find, w, rec) ==
    LET m == (w.lo + w.hi) \div 2
        cr == Compare(Contents[m + 1], rec)
    IN  IF w.hi < w.lo THEN Len(index)
        ELSE IF cr = 0 THEN m
        ELSE IF cr < 0 THEN find[[lo |-> m + 1, hi |-> w.hi]]
        ELSE IF m = 0 THEN Astray ELSE find[[lo |-> w.lo, hi |-> m - 1]]

Finds(find, rec) == find = [w \in Windows |-> Turn(find, w, rec)]

\* A window that is not empty splits into smaller ones.
LEMMA WindowSplits ==
    ASSUME Len(index) \in Nat, NEW w \in Windows, ~(w.hi < w.lo),
           NEW m, m = (w.lo + w.hi) \div 2
    PROVE  /\ m \in Nat /\ w.lo <= m /\ m <= w.hi /\ m + 1 \in 1..Len(index)
           /\ [lo |-> m + 1, hi |-> w.hi] \in Windows /\ w.hi - (m + 1) < w.hi - w.lo
           /\ m # 0 => [lo |-> w.lo, hi |-> m - 1] \in Windows /\ (m - 1) - w.lo < w.hi - w.lo
<1>1. w.lo \in Nat /\ w.hi \in Int /\ w.lo <= w.hi /\ w.hi <= Len(index) - 1
  BY DEF Windows
<1>2. m \in Nat /\ w.lo <= m /\ m <= w.hi
  BY <1>1
<1>3. m + 1 \in 0..Len(index) /\ w.hi \in -1..(Len(index) - 1) /\ w.lo \in 0..Len(index)
  BY <1>1, <1>2
<1>4. m # 0 => m - 1 \in -1..(Len(index) - 1)
  BY <1>1, <1>2
<1> QED
  BY <1>1, <1>2, <1>3, <1>4 DEF Windows

LEMMA SearchExists ==
    ASSUME Len(index) \in Nat, NEW rec
    PROVE  \E find : Finds(find, rec)
<1> DEFINE Solves(f, n) == /\ f = [w \in Windows |-> f[w]]
                           /\ \A w \in Windows : w.hi - w.lo < n => f[w] = Turn(f, w, rec)
           D == {n \in Nat : \E f : Solves(f, n)}
<1>0. \A w \in Windows : w.lo \in Nat /\ w.hi \in Int /\ w.hi - w.lo < Len(index)
  BY DEF Windows
<1>1. 0 \in D
  <2> DEFINE f == [w \in Windows |-> Len(index)]
  <2>1. ASSUME NEW w \in Windows, w.hi - w.lo < 0 PROVE f[w] = Turn(f, w, rec)
    <3>1. w.hi < w.lo
      BY <1>0, <2>1
    <3> QED BY <3>1 DEF Turn
  <2>2. Solves(f, 0)
    BY <2>1
  <2> QED BY <2>2
<1>2. ASSUME NEW n \in Nat, n \in D PROVE n + 1 \in D
  <2>1. PICK f : Solves(f, n)
    BY <1>2
  <2> DEFINE g == [w \in Windows |-> Turn(f, w, rec)]
  <2>2. ASSUME NEW w \in Windows, w.hi - w.lo < n + 1 PROVE g[w] = Turn(g, w, rec)
    <3> DEFINE m == (w.lo + w.hi) \div 2
               up == [lo |-> m + 1, hi |-> w.hi]
               down == [lo |-> w.lo, hi |-> m - 1]
    <3>1. g[w] = Turn(f, w, rec)
      OBVIOUS
    <3>2. CASE w.hi < w.lo
      BY <3>1, <3>2 DEF Turn
    <3>3. CASE ~(w.hi < w.lo)
      <4>1. /\ up \in Windows /\ up.hi - up.lo < w.hi - w.lo
            /\ m # 0 => down \in Windows /\ down.hi - down.lo < w.hi - w.lo
        BY <3>3, WindowSplits
      <4>2. ASSUME NEW v \in Windows, v.hi - v.lo < w.hi - w.lo PROVE g[v] = f[v]
        <5>1. v.hi - v.lo < n
          BY <1>0, <2>2, <4>2
        <5> QED BY <2>1, <5>1
      <4>3. g[up] = f[up] /\ (m # 0 => g[down] = f[down])
        BY <4>1, <4>2
      <4> HIDE DEF g
      <4> QED BY <3>1, <3>3, <4>3 DEF Turn
    <3> QED BY <3>2, <3>3
  <2>3. g = [w \in Windows |-> g[w]]
    OBVIOUS
  <2> HIDE DEF g
  <2>4. Solves(g, n + 1)
    BY <2>2, <2>3
  <2> QED BY <2>4
<1> HIDE DEF D
<1>3. Len(index) \in D
  BY <1>1, <1>2, SetInduction
<1>4. PICK f : Solves(f, Len(index))
  BY <1>3 DEF D
<1>5. Finds(f, rec)
  BY <1>0, <1>4 DEF Finds
<1> QED
  BY <1>5

\* What the search on a window may answer: a slot of an equal record; that
\* there is none in the window; or that it would go below the first slot,
\* because the first record is too big.
Answers(v, w, rec) ==
    /\ v \in 0..Len(index) \union {Astray}
    /\ v \in 0..(Len(index) - 1) => Compare(Contents[v + 1], rec) = 0
    /\ ComparesInOrder /\ ContentsInOrder /\ rec \in Bytes \ {<<>>} =>
          /\ v = Astray => Compare(Contents[1], rec) > 0
          /\ v = Len(index) => \A k \in w.lo..w.hi : Compare(Contents[k + 1], rec) # 0

LEMMA TurnAnswers ==
    ASSUME Len(index) \in Nat, NEW rec, NEW find, NEW w \in Windows,
           \A k \in 1..Len(index) : Contents[k] \in Bytes \ {<<>>},
           \A v \in Windows : v.hi - v.lo < w.hi - w.lo => Answers(find[v], v, rec)
    PROVE  Answers(Turn(find, w, rec), w, rec)
<1>0. w.lo \in Nat /\ w.hi \in Int
  BY DEF Windows
<1> DEFINE m == (w.lo + w.hi) \div 2
           cr == Compare(Contents[m + 1], rec)
           up == [lo |-> m + 1, hi |-> w.hi]
           down == [lo |-> w.lo, hi |-> m - 1]
           t == Turn(find, w, rec)
<1>1. CASE w.hi < w.lo
  BY <1>0, <1>1 DEF Turn, Answers, Astray
<1>2. CASE ~(w.hi < w.lo)
  <2>1. /\ m \in Nat /\ w.lo <= m /\ m <= w.hi /\ m + 1 \in 1..Len(index)
        /\ up \in Windows /\ up.hi - up.lo < w.hi - w.lo
        /\ m # 0 => down \in Windows /\ down.hi - down.lo < w.hi - w.lo
    BY <1>2, WindowSplits
  <2>2. Answers(find[up], up, rec) /\ (m # 0 => Answers(find[down], down, rec))
    BY <2>1
  <2>3. t = IF cr = 0 THEN m ELSE IF cr < 0 THEN find[up] ELSE IF m = 0 THEN Astray ELSE find[down]
    BY <1>2 DEF Turn
  <2>4. up.lo = m + 1 /\ up.hi = w.hi /\ down.lo = w.lo /\ down.hi = m - 1
    OBVIOUS
  <2> HIDE DEF m, cr, up, down, t
  <2>5. cr = Compare(Contents[m + 1], rec)
    BY DEF cr
  <2>6. t \in 0..Len(index) \union {Astray}
    BY <2>1, <2>2, <2>3 DEF Answers
  <2>7. t \in 0..(Len(index) - 1) => Compare(Contents[t + 1], rec) = 0
    BY <2>1, <2>2, <2>3, <2>5 DEF Answers, Astray
  <2>8. ASSUME ComparesInOrder, ContentsInOrder, rec \in Bytes \ {<<>>}
        PROVE  /\ t = Astray => Compare(Contents[1], rec) > 0
               /\ t = Len(index) => \A k \in w.lo..w.hi : Compare(Contents[k + 1], rec) # 0
    <3>1. cr \in Int
      BY <2>1, <2>5, <2>8 DEF ComparesInOrder
    <3>2. CASE cr = 0
      BY <2>1, <2>3, <3>2 DEF Astray
    <3>3. CASE cr < 0
      <4>1. t = find[up]
        BY <2>3, <3>3, <3>1
      <4>2. ASSUME NEW k \in w.lo..w.hi, k < m + 1 PROVE Compare(Contents[k + 1], rec) # 0
        <5>1. CASE k = m
          BY <2>5, <3>3, <5>1, <3>1
        <5>2. CASE k # m
          <6>1. k + 1 \in 1..Len(index) /\ k + 1 < m + 1
            BY <1>0, <2>1, <4>2, <5>2
          <6>2. Compare(Contents[k + 1], Contents[m + 1]) <= 0
            BY <2>1, <2>8, <6>1 DEF ContentsInOrder
          <6>3. Compare(Contents[k + 1], rec) < 0
            BY <2>1, <2>5, <2>8, <3>3, <6>1, <6>2 DEF ComparesInOrder
          <6> QED BY <6>3
        <5> QED BY <5>1, <5>2
      <4>3. ASSUME NEW k \in w.lo..w.hi, ~(k < m + 1), t = Len(index)
            PROVE  Compare(Contents[k + 1], rec) # 0
        <5>1. k \in up.lo..up.hi
          BY <1>0, <2>1, <2>4, <4>3
        <5> QED BY <2>2, <2>8, <4>1, <4>3, <5>1 DEF Answers
      <4>4. t = Astray => Compare(Contents[1], rec) > 0
        BY <2>2, <2>8, <4>1 DEF Answers
      <4> QED BY <4>2, <4>3, <4>4
    <3>4. CASE cr > 0
      <4>1. t = IF m = 0 THEN Astray ELSE find[down]
        BY <2>3, <3>1, <3>4
      <4>2. ASSUME NEW k \in w.lo..w.hi, ~(k < m) PROVE Compare(Contents[k + 1], rec) # 0
        <5>1. CASE k = m
          BY <2>5, <3>4, <5>1, <3>1
        <5>2. CASE k # m
          <6>1. k + 1 \in 1..Len(index) /\ m + 1 < k + 1
            BY <1>0, <2>1, <4>2, <5>2 DEF Windows
          <6>2. Compare(Contents[m + 1], Contents[k + 1]) <= 0
            BY <2>1, <2>8, <6>1 DEF ContentsInOrder
          <6>3. Compare(Contents[k + 1], rec) > 0
            BY <2>1, <2>5, <2>8, <3>4, <6>1, <6>2 DEF ComparesInOrder
          <6> QED BY <6>3
        <5> QED BY <5>1, <5>2
      <4>3. ASSUME NEW k \in w.lo..w.hi, k < m, t = Len(index)
            PROVE  Compare(Contents[k + 1], rec) # 0
        <5>1. k \in down.lo..down.hi /\ m # 0
          BY <1>0, <2>1, <2>4, <4>3
        <5> QED BY <2>2, <2>8, <4>1, <4>3, <5>1 DEF Answers
      <4>4. t = Astray => Compare(Contents[1], rec) > 0
        <5>1. CASE m = 0
          BY <2>5, <3>4, <5>1
        <5>2. CASE m # 0
          BY <2>2, <2>8, <4>1, <5>2 DEF Answers
        <5> QED BY <5>1, <5>2
      <4> QED BY <4>2, <4>3, <4>4
    <3> QED BY <3>1, <3>2, <3>3, <3>4
  <2>9. Answers(t, w, rec)
    BY <2>6, <2>7, <2>8 DEF Answers
  <2> QED BY <2>9 DEF t
<1> QED
  BY <1>1, <1>2

\* What binSearch answers on the whole index.
LEMMA LocateAnswers ==
    ASSUME index \in Seq([begin : Nat, end : Nat]), NEW rec,
           \A k \in 1..Len(index) : Contents[k] \in Bytes \ {<<>>}
    PROVE  /\ Locate(rec) \in 0..Len(index) \union {Astray}
           /\ Locate(rec) \in 0..(Len(index) - 1) => Compare(Contents[Locate(rec) + 1], rec) = 0
           /\ ComparesInOrder /\ ContentsInOrder /\ rec \in Bytes \ {<<>>} =>
                 /\ Locate(rec) = Astray /\ index # <<>> => Compare(Contents[1], rec) > 0
                 /\ Locate(rec) = Len(index) =>
                       \A k \in 1..Len(index) : Compare(Contents[k], rec) # 0
<1>0. Len(index) \in Nat
  BY LenProperties
<1> DEFINE G == CHOOSE g : Finds(g, rec)
           D == {n \in Nat : \A w \in Windows : w.hi - w.lo < n => Answers(G[w], w, rec)}
           first == [lo |-> 0, hi |-> Len(index) - 1]
<1>1. Finds(G, rec)
  BY <1>0, SearchExists
<1>2. Locate(rec) = IF index = <<>> THEN Astray ELSE G[first]
  BY DEF Locate, Finds, Turn
<1> HIDE DEF G
<1>3. \A w \in Windows : w.lo \in Nat /\ w.hi \in Int /\ w.hi - w.lo < Len(index)
  BY <1>0 DEF Windows
<1>4. ASSUME NEW n \in Nat, \A w \in Windows : w.hi - w.lo < n => Answers(G[w], w, rec)
      PROVE  \A w \in Windows : w.hi - w.lo < n + 1 => Answers(G[w], w, rec)
  <2> SUFFICES ASSUME NEW w \in Windows, w.hi - w.lo < n + 1 PROVE Answers(G[w], w, rec)
    OBVIOUS
  <2>1. \A v \in Windows : v.hi - v.lo < w.hi - w.lo => Answers(G[v], v, rec)
    <3> SUFFICES ASSUME NEW v \in Windows, v.hi - v.lo < w.hi - w.lo PROVE v.hi - v.lo < n
      BY <1>4
    <3> QED BY <1>3
  <2>2. Answers(Turn(G, w, rec), w, rec)
    BY <1>0, <2>1, TurnAnswers
  <2> QED BY <1>1, <2>2 DEF Finds
<1>5. 0 \in D
  <2>1. ASSUME NEW w \in Windows, w.hi - w.lo < 0 PROVE Answers(G[w], w, rec)
    <3>1. w.hi < w.lo
      BY <1>3, <2>1
    <3>2. G[w] = Len(index)
      BY <1>1, <3>1 DEF Finds, Turn
    <3> QED BY <1>0, <1>3, <3>1, <3>2 DEF Answers, Astray
  <2> QED BY <2>1
<1>6. \A n \in Nat : n \in D => n + 1 \in D
  BY <1>4
<1> HIDE DEF D
<1>7. Len(index) \in D
  BY <1>0, <1>5, <1>6, SetInduction
<1>8. \A w \in Windows : Answers(G[w], w, rec)
  BY <1>3, <1>7 DEF D
<1>9. CASE index = <<>>
  BY <1>0, <1>2, <1>9 DEF Astray
<1>10. CASE index # <<>>
  <2>1. Len(index) # 0
    BY <1>10, EmptySeq
  <2>2. first \in Windows /\ first.lo = 0 /\ first.hi = Len(index) - 1
    BY <1>0, <2>1 DEF Windows
  <2>3. Answers(Locate(rec), first, rec)
    BY <1>2, <1>8, <1>10, <2>2
  <2>4. ASSUME \A k \in 0..(Len(index) - 1) : Compare(Contents[k + 1], rec) # 0
        PROVE  \A k \in 1..Len(index) : Compare(Contents[k], rec) # 0
    <3> SUFFICES ASSUME NEW k \in 1..Len(index) PROVE Compare(Contents[k], rec) # 0
      OBVIOUS
    <3>1. k - 1 \in 0..(Len(index) - 1) /\ (k - 1) + 1 = k
      BY <1>0
    <3> QED BY <2>4, <3>1
  <2> QED BY <2>2, <2>3, <2>4 DEF Answers
<1> QED
  BY <1>9, <1>10

-----------------------------------------------------------------------------
(* One lemma for each kind of call *)

LEMMA OwnershipStart == Init => Ownership
<1> SUFFICES ASSUME Init PROVE Ownership
  OBVIOUS
<1>1. index = <<>> /\ Len(index) = 0 /\ index = [k \in 1..0 |-> index[k]]
  BY DEF Init
<1> QED
  BY <1>1 DEF Init, NewWriter, NewSorters, NewFlags, Ownership, Shapes, FlagsAgree,
              MappedIsFlagged, IndexIsMapped, SortedIsMapped

\* risk_insert: the streams are open after it, so nothing may be mapped.
LEMMA AppendKeeps ==
    ASSUME Ownership, NEW rec, Append1(rec)
    PROVE  Ownership'
<1> USE DEF Ownership
<1>1. /\ flags' = Inserting
      /\ c' = [open |-> TRUE, named |-> TRUE, end |-> c.end + Len(rec)]
      /\ sorter' = IF ClosesSorter THEN Unmapped ELSE sorter
      /\ index' = Append(index, [begin |-> c.end, end |-> c.end + Len(rec)])
  BY DEF Append1, TakesFiles
<1>2. ~sorter'.open
  <2>1. CASE flags.hasSorted
    BY <1>1, <2>1 DEF ClosesSorter, Unmapped, Shapes
  <2>2. CASE ~flags.hasSorted
    <3>1. sorter.open => flags.hasInserted /\ flags.hasRiskInsert /\ ~c.open
      BY <2>2 DEF MappedIsFlagged, FlagsAgree, IndexIsMapped, Shapes
    <3>2. ~CannotWrite
      BY DEF Append1, TakesFiles
    <3>3. ~sorter.open
      BY <3>1, <3>2 DEF CannotWrite, ReopensWriter, Shapes
    <3> QED BY <1>1, <3>3 DEF Unmapped, Shapes
  <2> QED BY <2>1, <2>2
<1>3. Len(index') \in Nat /\ index' = [k \in 1..Len(index') |-> index'[k]]
  BY <1>1, AppendIsSeq DEF Shapes
<1>4. Shapes'
  BY <1>1, <1>3 DEF Shapes, Unmapped, Inserting
<1> QED
  BY <1>1, <1>2, <1>4 DEF Inserting, FlagsAgree, MappedIsFlagged, IndexIsMapped, SortedIsMapped

LEMMA MultiInsertKeeps ==
    ASSUME Ownership, NEW list, MultiInsert(list)
    PROVE  Ownership'
<1> USE DEF Ownership
<1>1. /\ flags' = (IF list = <<>> THEN [flags EXCEPT !.hasSorted = FALSE] ELSE Inserting)
      /\ c' = IF ReopensWriter THEN Opened ELSE c
      /\ sorter' = IF ClosesSorter THEN Unmapped ELSE sorter
      /\ index' = index
      /\ ~CannotWrite
  BY DEF MultiInsert, TakesFiles
<1>2. ~sorter'.open
  <2>1. CASE flags.hasSorted
    BY <1>1, <2>1 DEF ClosesSorter, Unmapped, Shapes
  <2>2. CASE ~flags.hasSorted
    <3>1. sorter.open => flags.hasInserted /\ flags.hasRiskInsert /\ ~c.open
      BY <2>2 DEF MappedIsFlagged, FlagsAgree, IndexIsMapped, Shapes
    <3>2. ~sorter.open
      BY <1>1, <3>1 DEF CannotWrite, ReopensWriter, Shapes
    <3> QED BY <1>1, <3>2 DEF Unmapped, Shapes
  <2> QED BY <2>1, <2>2
<1>3. Shapes'
  BY <1>1 DEF Shapes, Unmapped, Opened, Inserting
<1>4. FlagsAgree' /\ ~flags'.hasSorted
  BY <1>1 DEF Shapes, Inserting, FlagsAgree
<1> QED
  BY <1>2, <1>3, <1>4 DEF MappedIsFlagged, IndexIsMapped, SortedIsMapped

LEMMA SortKeeps ==
    ASSUME Ownership, SortElement
    PROVE  Ownership'
<1> USE DEF Ownership
<1>1. /\ flags' = [hasInserted |-> FALSE, hasRiskInsert |-> FALSE, hasSorted |-> TRUE]
      /\ c' = Closed /\ sorter' = OpenedToSort
  BY DEF SortElement
<1>2. index' = [k \in 1..Len(index) |-> index'[k]]
  <2>1. PICK sorted \in InOrder :
          index' = [k \in 1..Len(index) |->
                      [begin |-> Len(FlattenSeq(SubSeq(sorted, 1, k - 1))),
                       end |-> Len(FlattenSeq(SubSeq(sorted, 1, k)))]]
    BY DEF SortElement
  <2> QED BY <2>1
<1>3. Len(index') = Len(index)
  BY <1>2, FunctionIsSeq DEF Shapes
<1>4. Shapes'
  BY <1>1, <1>2, <1>3 DEF Shapes, Closed, OpenedToSort
<1> QED
  BY <1>1, <1>3, <1>4
     DEF Shapes, Closed, OpenedToSort, FlagsAgree, MappedIsFlagged, IndexIsMapped, SortedIsMapped

\* begin(), end() and searchFor().
LEMMA ReadKeeps ==
    ASSUME Ownership, ReadOpens
    PROVE  Ownership'
  BY DEF Ownership, ReadOpens, ReopensSorter, Mapped, Closed, Shapes, fileVars, FlagsAgree,
         MappedIsFlagged, IndexIsMapped, SortedIsMapped

\* update_internal: the entry of a slot is rewritten.
LEMMA UpdateKeeps ==
    ASSUME Ownership, NEW pos, NEW len, NEW neu, UpdateInternal(pos, len, neu)
    PROVE  Ownership'
<1> USE DEF Ownership
<1>1. flags' = Inserting
  BY DEF UpdateInternal, Overwrite, MoveToEnd
<1>2. Len(index') = Len(index) /\ index' = [k \in 1..Len(index') |-> index'[k]]
  <2>1. index' = index \/ \E v : index' = [index EXCEPT ![pos + 1] = v]
    BY DEF UpdateInternal, Overwrite, MoveToEnd, SetNewLen, UpdateWith
  <2> QED BY <2>1, RewriteIsSeq DEF Shapes
<1>3. CASE len >= Len(neu)
  <2>1. /\ c' = IF ReopensSorter THEN Closed ELSE c
        /\ sorter' = IF ReopensSorter THEN Mapped ELSE sorter
    BY <1>3 DEF UpdateInternal
  <2>2. Shapes'
    BY <1>1, <1>2, <2>1 DEF Shapes, Closed, Mapped, Inserting
  <2> QED
    BY <1>1, <1>2, <2>1, <2>2
       DEF Shapes, Closed, Mapped, Inserting, FlagsAgree, MappedIsFlagged, IndexIsMapped,
           SortedIsMapped
<1>4. CASE ~(len >= Len(neu))
  <2>1. c' = Opened /\ sorter' = Unmapped
    BY <1>4 DEF UpdateInternal
  <2> QED
    BY <1>1, <1>2, <2>1
       DEF Shapes, Opened, Unmapped, Inserting, FlagsAgree, MappedIsFlagged, IndexIsMapped,
           SortedIsMapped
<1> QED
  BY <1>3, <1>4

LEMMA UnlinkKeeps ==
    ASSUME Ownership, Unlink
    PROVE  Ownership'
<1>1. Len(index') \in Nat /\ index' = [k \in 1..Len(index') |-> index'[k]]
  <2>1. CASE index' = <<>>
    <3>1. <<>> = [k \in 1..0 |-> <<>>[k]] /\ Len(<<>>) = 0
      OBVIOUS
    <3> QED BY <2>1, <3>1
  <2>2. CASE index' = index
    BY <2>2 DEF Ownership, Shapes
  <2> QED BY <2>1, <2>2 DEF Unlink, fileVars
<1> QED
  BY <1>1 DEF Ownership, Unlink, Closed, Unmapped, Shapes, FlagsAgree,
              MappedIsFlagged, IndexIsMapped, SortedIsMapped

LEMMA ReopenKeeps ==
    ASSUME Ownership, Reopen
    PROVE  Ownership'
  BY DEF Ownership, Reopen, NewWriter, NewSorters, NewFlags, fileVars, Shapes, FlagsAgree,
         MappedIsFlagged, IndexIsMapped, SortedIsMapped

\* Calls that fail, or change nothing but the reply and the iterator.
LEMMA NothingKeeps ==
    ASSUME Ownership, UNCHANGED <<index, c, sorter, flags>>
    PROVE  Ownership'
  BY DEF Ownership, Shapes, FlagsAgree, MappedIsFlagged, IndexIsMapped, SortedIsMapped

-----------------------------------------------------------------------------

LEMMA OwnershipStep == Ownership /\ [Next]_vars => Ownership'
<1> SUFFICES ASSUME Ownership, [Next]_vars PROVE Ownership'
  OBVIOUS
<1>1. ASSUME NEW rec \in Records, Insert(rec) \/ InsertObject(rec) PROVE Ownership'
  BY <1>1, AppendKeeps DEF Insert, InsertObject
<1>2. ASSUME NEW old \in Records, NEW neu \in Records, UpdateInserts(old, neu) PROVE Ownership'
  BY <1>2, AppendKeeps DEF UpdateInserts
<1>3. ASSUME NEW list \in Lists, MultiInsert(list) PROVE Ownership'
  BY <1>3, MultiInsertKeeps
<1>4. CASE SortElement
  BY <1>4, SortKeeps
<1>5. CASE Begin
  BY <1>5, ReadKeeps DEF Begin
<1>6. ASSUME NEW rec \in Records, SearchFor(rec) \/ UpdateIterAtEnd(rec) PROVE Ownership'
  BY <1>6, ReadKeeps DEF SearchFor, UpdateIterAtEnd
<1>7. ASSUME NEW old \in Records, NEW neu \in Records, Update(old, neu) PROVE Ownership'
  BY <1>7, UpdateKeeps DEF Update
<1>8. ASSUME NEW rec \in Records, UpdateIter(rec) PROVE Ownership'
  BY <1>8, UpdateKeeps DEF UpdateIter
<1>9. CASE Unlink
  BY <1>9, UnlinkKeeps
<1>10. CASE Reopen
  BY <1>10, ReopenKeeps
<1>11. CASE InsertNothing \/ MultiInsertNothing \/ SortFails \/ SortedAlready \/ BeginFails \/ Advance
            \/ UNCHANGED vars
  BY <1>11, NothingKeeps DEF InsertNothing, MultiInsertNothing, SortFails, SortedAlready,
     BeginFails, Advance, Fails, fileVars, vars
<1>12. ASSUME NEW list \in Lists, MultiInsertFails(list) PROVE Ownership'
  BY <1>12, NothingKeeps DEF MultiInsertFails, Fails, fileVars
<1>13. ASSUME NEW rec \in Records,
              InsertFails(rec) \/ InsertObjectFails(rec) \/ SearchFails(rec) \/ UpdateIterFails(rec)
       PROVE  Ownership'
  BY <1>13, NothingKeeps DEF InsertFails, InsertObjectFails, SearchFails, UpdateIterFails,
     Fails, fileVars
<1>14. ASSUME NEW old \in Records, NEW neu \in Records, UpdateFails(old, neu) PROVE Ownership'
  BY <1>14, NothingKeeps DEF UpdateFails, Fails, fileVars
<1> QED
  BY <1>1, <1>2, <1>3, <1>4, <1>5, <1>6, <1>7, <1>8, <1>9, <1>10, <1>11, <1>12, <1>13, <1>14
     DEF Next

\* The inductive invariant holds in every reachable state.
THEOREM OwnershipInvariance == Spec => []Ownership
  BY OwnershipStart, OwnershipStep, PTL DEF Spec

\* The inserter's streams and the sorter's mappings never hold the files at
\* once, and a mapping has every entry of the index: the part of
\* MappingIsCurrent about the index, for stores of any size.
THEOREM OneOwner == Spec => []IndexIsMapped
<1>1. Ownership => IndexIsMapped
  BY DEF Ownership
<1> QED
  BY <1>1, OwnershipInvariance, PTL

\* While hasSorted is set and the object has its sorter, the files are
\* mapped, records are of variable size for the search, and nothing was
\* inserted: the part of SortedFlagIsTrue that does not look into the files.
THEOREM SortedMeansMapped == Spec => []SortedIsMapped
<1>1. Ownership => SortedIsMapped
  BY DEF Ownership
<1> QED
  BY <1>1, OwnershipInvariance, PTL

-----------------------------------------------------------------------------
(* What the files hold *)

Entries == [begin : Nat, end : Nat]

\* The types of what a call may change besides the client's part, every
\* entry with at least one byte.
FilesTyped ==
    /\ values \in Bytes /\ index \in Seq(Entries)
    /\ \A k \in 1..Len(index) : index[k].begin < index[k].end
    /\ c \in [open : BOOLEAN, named : BOOLEAN, end : Nat]
    /\ sorter \in [set : BOOLEAN, open : BOOLEAN, isFixedSize : BOOLEAN,
                   entries : Nat, bytes : Nat]
    /\ skewed \in BOOLEAN

\* Mapped files are mapped to their last byte, and in order when flagged so.
BytesMapped == sorter.open => sorter.bytes = Len(values)
FlaggedInOrder == flags.hasSorted /\ sorter.set => ContentsInOrder

FilesInv == Ownership /\ FilesTyped /\ BytesMapped /\ FlaggedInOrder

\* The records the entries stand for.
LEMMA ContentsTyped ==
    ASSUME FilesTyped
    PROVE  /\ Len(index) \in Nat /\ Contents \in Seq(Bytes) /\ Len(Contents) = Len(index)
           /\ \A k \in 1..Len(index) :
                 /\ Contents[k] = Content(index[k]) /\ Contents[k] \in Bytes \ {<<>>}
                 /\ Len(Contents[k]) = index[k].end - index[k].begin
<1>1. Len(index) \in Nat
  BY LenProperties DEF FilesTyped
<1>2. ASSUME NEW k \in 1..Len(index)
      PROVE  Content(index[k]) \in Bytes \ {<<>>} /\ Len(Content(index[k])) = index[k].end - index[k].begin
  <2> DEFINE e == index[k]
             n == e.end - e.begin
             x == Content(e)
  <2>1. e \in Entries /\ e.begin \in Nat /\ e.end \in Nat /\ e.begin < e.end
    <3>1. index \in Seq(Entries)
      BY DEF FilesTyped
    <3>2. index[k] \in Entries
      BY <3>1, ElementOfSeq
    <3>3. index[k].begin < index[k].end
      BY DEF FilesTyped
    <3>4. index[k].begin \in Nat /\ index[k].end \in Nat
      BY <3>2 DEF Entries
    <3> QED BY <3>2, <3>3, <3>4
  <2>2. n \in Nat /\ n # 0
    BY <2>1
  <2>3. x = [j \in 1..n |-> IF e.begin + j <= Len(values) THEN values[e.begin + j] ELSE 0]
    BY DEF Content
  <2> HIDE DEF e, n, x
  <2>4. Len(values) \in Nat /\ \A j \in 1..Len(values) : values[j] \in Nat
    BY LenProperties DEF FilesTyped, Bytes
  <2>5. ASSUME NEW j \in 1..n
        PROVE  (IF e.begin + j <= Len(values) THEN values[e.begin + j] ELSE 0) \in Nat
    BY <2>1, <2>2, <2>4
  <2>6. x \in [1..n -> Nat]
    BY <2>3, <2>5
  <2>7. x \in Seq(Nat) /\ Len(x) = n
    BY <2>2, <2>6
  <2>8. x # <<>>
    BY <2>2, <2>7
  <2> QED BY <2>7, <2>8 DEF e, n, x, Bytes
<1>3. /\ Contents = [k \in 1..Len(index) |-> Content(index[k])]
  BY DEF Contents
<1>4. Contents \in [1..Len(index) -> Bytes]
  BY <1>2, <1>3
<1>5. Contents \in Seq(Bytes) /\ Len(Contents) = Len(index)
  BY <1>1, <1>4
<1> QED
  BY <1>1, <1>2, <1>3, <1>5

\* A call that touches neither file leaves the records as they are.
LEMMA ContentsStay ==
    ASSUME UNCHANGED <<values, index>>
    PROVE  Contents' = Contents /\ ContentsInOrder' = ContentsInOrder
<1>1. Contents' = Contents
  BY DEF Contents, Content
<1> QED
  BY <1>1 DEF ContentsInOrder

\* risk_insert.
LEMMA AppendFiles ==
    ASSUME FilesInv, NEW rec \in Bytes \ {<<>>}, Append1(rec)
    PROVE  FilesInv'
<1> USE DEF FilesInv
<1>1. Ownership'
  BY AppendKeeps
<1>2. /\ flags' = Inserting
      /\ c' = [open |-> TRUE, named |-> TRUE, end |-> c.end + Len(rec)]
      /\ sorter' = IF ClosesSorter THEN Unmapped ELSE sorter
      /\ values' = values \o rec
      /\ index' = Append(index, [begin |-> c.end, end |-> c.end + Len(rec)])
      /\ skewed' = (skewed \/ c.end # Len(values))
  BY DEF Append1, TakesFiles
<1>3. ~sorter'.open /\ ~flags'.hasSorted
  BY <1>1, <1>2 DEF Ownership, IndexIsMapped, Inserting
<1>4. values' \in Bytes /\ Len(rec) \in Nat \ {0}
  <2>1. Len(rec) \in Nat /\ Len(rec) # 0
    BY LenProperties, EmptySeq DEF Bytes
  <2> QED BY <1>2, <2>1, Joined DEF FilesTyped
<1>5. index' \in Seq(Entries) /\ \A k \in 1..Len(index') : index'[k].begin < index'[k].end
  <2> DEFINE e == [begin |-> c.end, end |-> c.end + Len(rec)]
  <2>1. e \in Entries /\ e.begin < e.end
    BY <1>4 DEF FilesTyped, Entries
  <2>2. index' = Append(index, e) /\ index \in Seq(Entries)
    BY <1>2 DEF FilesTyped
  <2> HIDE DEF e
  <2>3. /\ index' \in Seq(Entries) /\ Len(index') = Len(index) + 1
        /\ \A k \in 1..Len(index) : index'[k] = index[k]
        /\ index'[Len(index) + 1] = e /\ Len(index) \in Nat
    BY <2>1, <2>2, AppendProperties, LenProperties
  <2>4. ASSUME NEW k \in 1..Len(index') PROVE index'[k].begin < index'[k].end
    <3>1. CASE k = Len(index) + 1
      BY <2>1, <2>3, <3>1
    <3>2. CASE k # Len(index) + 1
      <4>1. k \in 1..Len(index)
        BY <2>3, <3>2
      <4> QED BY <2>3, <4>1 DEF FilesTyped
    <3> QED BY <3>1, <3>2
  <2> QED BY <2>3, <2>4
<1>6. FilesTyped'
  <2>1. c.end + Len(rec) \in Nat
    BY <1>4 DEF FilesTyped
  <2>2. c' \in [open : BOOLEAN, named : BOOLEAN, end : Nat]
    BY <1>2, <2>1
  <2>3. sorter' \in [set : BOOLEAN, open : BOOLEAN, isFixedSize : BOOLEAN,
                     entries : Nat, bytes : Nat]
    BY <1>2 DEF FilesTyped, Unmapped
  <2>4. skewed' \in BOOLEAN
    BY <1>2 DEF FilesTyped
  <2> QED BY <1>4, <1>5, <2>2, <2>3, <2>4 DEF FilesTyped
<1> QED
  BY <1>1, <1>3, <1>6 DEF BytesMapped, FlaggedInOrder

\* Lists of records are sequences of bytes too.
LEMMA ListsTyped ==
    ASSUME NEW list \in Lists
    PROVE  list \in Seq(Bytes)
<1>1. Records \subseteq Bytes
  BY RecordsAssumption DEF Bytes
<1> HIDE DEF Bytes
<1>2. \/ list = <<>>
      \/ \E r \in Records : list = <<r>>
      \/ \E r \in Records, q \in Records : list = <<r, q>>
  BY DEF Lists
<1>3. \A r \in Records, q \in Records : <<r>> \in Seq(Bytes) /\ <<r, q>> \in Seq(Bytes)
  BY <1>1
<1>4. <<>> \in Seq(Bytes)
  OBVIOUS
<1> QED
  BY <1>2, <1>3, <1>4

\* iovec_multiinsert.
LEMMA MultiInsertFiles ==
    ASSUME FilesInv, NEW list \in Lists, MultiInsert(list)
    PROVE  FilesInv'
<1> USE DEF FilesInv
<1>1. Ownership'
  BY MultiInsertKeeps
<1>2. /\ flags' = (IF list = <<>> THEN [flags EXCEPT !.hasSorted = FALSE] ELSE Inserting)
      /\ c' = IF ReopensWriter THEN Opened ELSE c
      /\ sorter' = IF ClosesSorter THEN Unmapped ELSE sorter
      /\ index' = index /\ values' = values \o FlattenSeq(list)
      /\ skewed' = (skewed \/ list # <<>>)
  BY DEF MultiInsert, TakesFiles
<1>3. ~flags'.hasSorted
  BY <1>2 DEF Ownership, Shapes, Inserting
<1>4. values' \in Bytes
  BY <1>2, ListsTyped, FlattenType, Joined DEF FilesTyped
<1>5. BytesMapped'
  <2>1. CASE ClosesSorter
    BY <1>2, <2>1 DEF Unmapped, BytesMapped, FilesTyped
  <2>2. CASE ~ClosesSorter
    <3>1. ~CannotWrite
      BY DEF MultiInsert, TakesFiles
    <3>2. ~sorter.open
      <4>1. sorter.open => flags.hasInserted /\ flags.hasRiskInsert /\ ~c.open
        BY <2>2 DEF Ownership, MappedIsFlagged, FlagsAgree, IndexIsMapped, Shapes, ClosesSorter
      <4> QED BY <3>1, <4>1 DEF CannotWrite, ReopensWriter, Ownership, Shapes
    <3> QED BY <1>2, <2>2, <3>2 DEF BytesMapped
  <2> QED BY <2>1, <2>2
<1>6. FilesTyped'
  BY <1>2, <1>4 DEF FilesTyped, Unmapped, Opened
<1> QED
  BY <1>1, <1>3, <1>5, <1>6 DEF FlaggedInOrder

\* sortElement puts the records one behind the other in the order of sorted,
\* and each entry finds its record.
LEMMA SortResult ==
    ASSUME FilesTyped, SortElement
    PROVE  \E sorted \in InOrder :
              /\ Contents' = sorted
              /\ values' = FlattenSeq(sorted)
              /\ values' \in Bytes /\ index' \in Seq(Entries) /\ Len(index') = Len(index)
              /\ \A k \in 1..Len(index) :
                    /\ index'[k].begin < index'[k].end /\ index'[k].end <= Len(values')
                    /\ index'[k].begin = IF k = 1 THEN 0 ELSE index'[k - 1].end
              /\ index'[Len(index)].end = Len(values')
<1>1. PICK sorted \in InOrder :
        /\ values' = FlattenSeq(sorted)
        /\ index' = [k \in 1..Len(index) |->
                       [begin |-> Len(Prefix(sorted, k - 1)), end |-> Len(Prefix(sorted, k))]]
  BY DEF SortElement, Prefix
<1>2. /\ Len(index) \in Nat /\ Len(Contents) = Len(index) /\ Contents \in Seq(Bytes)
      /\ \A k \in 1..Len(index) : Contents[k] \in Bytes \ {<<>>}
  BY ContentsTyped
<1>3. /\ sorted \in Seq(Bytes) /\ Len(sorted) = Len(index)
      /\ \A k \in 1..Len(index) : sorted[k] \in Bytes \ {<<>>}
      /\ sorted = [k \in 1..Len(index) |-> sorted[k]]
  <2>1. sorted \in [1..Len(Contents) -> Range(Contents)]
    BY DEF InOrder, Arrangements
  <2>2. Range(Contents) \subseteq Bytes \ {<<>>}
    BY <1>2 DEF Range
  <2>3. sorted \in [1..Len(index) -> Bytes \ {<<>>}]
    BY <1>2, <2>1, <2>2
  <2> HIDE DEF Bytes
  <2> QED BY <1>2, <2>3
<1> DEFINE U(k) == Len(Prefix(sorted, k))
           n == Len(index)
<1>4. \A k \in 0..n : U(k) \in Nat
  BY <1>3, PrefixGrows, LenProperties DEF Bytes
<1>5. \A k \in 1..n : /\ U(k) = U(k - 1) + Len(sorted[k])
                      /\ U(k) <= Len(FlattenSeq(sorted))
                      /\ \A i \in 1..Len(sorted[k]) : FlattenSeq(sorted)[U(k - 1) + i] = sorted[k][i]
  BY <1>3, PrefixSlices
<1>6. U(0) = 0 /\ U(n) = Len(FlattenSeq(sorted))
  <2>1. Prefix(sorted, 0) = <<>> /\ Prefix(sorted, Len(sorted)) = FlattenSeq(sorted)
    BY <1>3, PrefixGrows
  <2>2. Len(<<>>) = 0
    OBVIOUS
  <2> QED BY <1>3, <2>1, <2>2
<1>7. \A k \in 1..n : index'[k] = [begin |-> U(k - 1), end |-> U(k)]
  BY <1>1
<1>8. FlattenSeq(sorted) \in Bytes /\ Len(FlattenSeq(sorted)) \in Nat
  BY <1>3, FlattenType, LenProperties DEF Bytes
<1>9. \A k \in 1..n : /\ Len(sorted[k]) \in Nat \ {0}
                      /\ sorted[k] = [i \in 1..Len(sorted[k]) |-> sorted[k][i]]
  BY <1>3, LenProperties, EmptySeq DEF Bytes
<1> HIDE DEF U
<1>10. index' \in Seq(Entries) /\ Len(index') = n
  <2>1. index' = [k \in 1..n |-> [begin |-> U(k - 1), end |-> U(k)]]
    BY <1>1 DEF U
  <2>2. \A k \in 1..n : [begin |-> U(k - 1), end |-> U(k)] \in Entries
    <3> SUFFICES ASSUME NEW k \in 1..n PROVE U(k - 1) \in Nat /\ U(k) \in Nat
      BY DEF Entries
    <3>1. k \in 0..n /\ k - 1 \in 0..n
      BY <1>2
    <3> QED BY <1>4, <3>1
  <2>3. index' \in [1..n -> Entries]
    BY <2>1, <2>2
  <2> QED BY <1>2, <2>3
<1>11. ASSUME NEW k \in 1..n
       PROVE  /\ index'[k].begin < index'[k].end /\ index'[k].end <= Len(values')
              /\ index'[k].begin = IF k = 1 THEN 0 ELSE index'[k - 1].end
  <2>1. index'[k].begin = U(k - 1) /\ index'[k].end = U(k)
    <3>1. index'[k] = [begin |-> U(k - 1), end |-> U(k)]
      BY <1>7
    <3> QED BY <3>1
  <2>2. U(k - 1) \in Nat /\ U(k) = U(k - 1) + Len(sorted[k]) /\ Len(sorted[k]) \in Nat \ {0}
    <3>1. k - 1 \in 0..n
      BY <1>2
    <3> QED BY <1>4, <1>5, <1>9, <3>1
  <2>3. CASE k = 1
    <3>1. U(k - 1) = 0
      BY <1>6, <2>3
    <3> QED BY <1>1, <1>5, <2>1, <2>2, <2>3, <3>1
  <2>4. CASE k # 1
    <3>1. k - 1 \in 1..n
      BY <1>2, <2>4
    <3>2. index'[k - 1].end = U(k - 1)
      <4> DEFINE j == k - 1
      <4>1. j \in 1..n
        BY <3>1
      <4> HIDE DEF j
      <4>2. index'[j] = [begin |-> U(j - 1), end |-> U(j)]
        BY <1>7, <4>1
      <4>3. index'[j].end = U(j)
        BY <4>2
      <4> QED BY <4>3 DEF j
    <3> QED BY <1>1, <1>5, <2>1, <2>2, <2>4, <3>2
  <2> QED BY <2>3, <2>4
<1>12. index'[n].end = Len(values')
  <2>1. n \in 1..n
    <3>1. index # <<>>
      BY DEF SortElement
    <3>2. n # 0
      BY <3>1, EmptySeq DEF FilesTyped
    <3> QED BY <1>2, <3>2
  <2> QED BY <1>1, <1>6, <1>7, <2>1
<1>13. ASSUME NEW k \in 1..n PROVE Contents'[k] = sorted[k]
  <2>1. Contents'[k] = [i \in 1..(index'[k].end - index'[k].begin) |->
                          IF index'[k].begin + i <= Len(values') THEN values'[index'[k].begin + i]
                                                                 ELSE 0]
    BY <1>10 DEF Contents, Content
  <2>2. /\ index'[k].begin = U(k - 1) /\ index'[k].end = U(k) /\ U(k - 1) \in Nat
        /\ U(k) = U(k - 1) + Len(sorted[k]) /\ U(k) <= Len(values') /\ Len(sorted[k]) \in Nat
    <3>1. k - 1 \in 0..n
      BY <1>2
    <3> QED BY <1>1, <1>4, <1>5, <1>7, <1>9, <3>1
  <2>3. index'[k].end - index'[k].begin = Len(sorted[k])
    BY <2>2
  <2>4. ASSUME NEW i \in 1..Len(sorted[k])
        PROVE  /\ index'[k].begin + i <= Len(values')
               /\ values'[index'[k].begin + i] = sorted[k][i]
    <3>1. U(k - 1) + i <= Len(values')
      BY <1>1, <1>8, <2>2
    <3> QED BY <1>1, <1>5, <2>2, <3>1
  <2>5. Contents'[k] = [i \in 1..Len(sorted[k]) |-> sorted[k][i]]
    BY <2>1, <2>3, <2>4
  <2> QED BY <1>9, <2>5
<1>14. Contents' = sorted
  <2>1. Contents' = [k \in 1..n |-> Contents'[k]]
    BY <1>10 DEF Contents
  <2> QED BY <1>3, <1>13, <2>1
<1> QED
  BY <1>1, <1>8, <1>10, <1>11, <1>12, <1>14

LEMMA SortFiles ==
    ASSUME FilesInv, SortElement
    PROVE  FilesInv'
<1> USE DEF FilesInv
<1>1. Ownership'
  BY SortKeeps
<1>2. PICK sorted \in InOrder :
        /\ Contents' = sorted
        /\ values' \in Bytes /\ index' \in Seq(Entries) /\ Len(index') = Len(index)
        /\ \A k \in 1..Len(index) : index'[k].begin < index'[k].end
  BY SortResult
<1>3. c' = Closed /\ sorter' = OpenedToSort /\ skewed' = skewed
  BY DEF SortElement
<1>4. Len(index) \in Nat /\ Len(Contents) = Len(index) /\ Len(values') \in Nat
  BY <1>2, ContentsTyped, LenProperties DEF Bytes
<1>5. FilesTyped'
  BY <1>2, <1>3, <1>4 DEF FilesTyped, Closed, OpenedToSort
<1>6. ContentsInOrder'
  <2>1. sorted \in Seq(Range(Contents)) /\ Len(sorted) = Len(index)
    <3>1. sorted \in [1..Len(Contents) -> Range(Contents)]
      BY DEF InOrder, Arrangements
    <3> QED BY <1>4, <3>1
  <2> QED BY <1>2, <2>1 DEF ContentsInOrder, InOrder
<1> QED
  BY <1>1, <1>3, <1>5, <1>6 DEF FilesTyped, OpenedToSort, BytesMapped, FlaggedInOrder
\* begin(), end() and searchFor().
LEMMA ReadFiles ==
    ASSUME FilesInv, ReadOpens
    PROVE  FilesInv'
<1> USE DEF FilesInv
<1>1. Ownership'
  BY ReadKeeps
<1>2. /\ c' = (IF ReopensSorter THEN Closed ELSE c)
      /\ sorter' = (IF ReopensSorter THEN Mapped ELSE sorter)
      /\ values' = values /\ index' = index /\ flags' = flags /\ skewed' = skewed
  BY DEF ReadOpens, fileVars
<1>3. Len(values) \in Nat /\ Len(index) \in Nat
  BY LenProperties DEF FilesTyped, Bytes
<1>4. FilesTyped' /\ BytesMapped'
  BY <1>2, <1>3 DEF FilesTyped, BytesMapped, Closed, Mapped
<1>5. FlaggedInOrder'
  <2>1. ContentsInOrder' = ContentsInOrder
    BY <1>2, ContentsStay
  <2>2. sorter'.set = sorter.set
    BY <1>2 DEF Mapped, FilesTyped
  <2> QED BY <1>2, <2>1, <2>2 DEF FlaggedInOrder
<1> QED
  BY <1>1, <1>4, <1>5

\* Writing within the mapping keeps the length of the file.
LEMMA OverlayTyped ==
    ASSUME values \in Bytes, NEW offset \in Nat, NEW bytes \in Bytes
    PROVE  Overlay(offset, bytes) \in Bytes /\ Len(Overlay(offset, bytes)) = Len(values)
<1>1. Len(values) \in Nat /\ Len(bytes) \in Nat
  BY LenProperties DEF Bytes
<1> DEFINE B(k) == IF k \in (offset + 1)..(offset + Len(bytes)) THEN bytes[k - offset] ELSE values[k]
<1>2. ASSUME NEW k \in 1..Len(values) PROVE B(k) \in Nat
  <2>1. CASE k \in (offset + 1)..(offset + Len(bytes))
    <3>1. k - offset \in 1..Len(bytes)
      BY <1>1, <2>1
    <3>2. bytes[k - offset] \in Nat
      BY <3>1, ElementOfSeq DEF Bytes
    <3> QED BY <2>1, <3>2
  <2>2. CASE k \notin (offset + 1)..(offset + Len(bytes))
    <3>1. values[k] \in Nat
      BY ElementOfSeq DEF Bytes
    <3> QED BY <2>2, <3>1
  <2> QED BY <2>1, <2>2
<1>3. Overlay(offset, bytes) = [k \in 1..Len(values) |-> B(k)]
  BY DEF Overlay
<1> HIDE DEF B
<1>4. Overlay(offset, bytes) \in [1..Len(values) -> Nat]
  BY <1>2, <1>3
<1>5. ASSUME NEW o, NEW n \in Nat, o \in [1..n -> Nat] PROVE o \in Seq(Nat) /\ Len(o) = n
  BY <1>5
<1> QED
  BY <1>1, <1>4, <1>5 DEF Bytes

\* A rewritten entry with at least one byte.
LEMMA RewriteTyped ==
    ASSUME FilesTyped, NEW k \in 1..Len(index), NEW e \in Entries, e.begin < e.end,
           index' = [index EXCEPT ![k] = e]
    PROVE  /\ index' \in Seq(Entries) /\ Len(index') = Len(index)
           /\ \A m \in 1..Len(index') : index'[m].begin < index'[m].end
<1>1. index \in Seq(Entries)
  BY DEF FilesTyped
<1>2. /\ index' \in Seq(Entries) /\ Len(index') = Len(index)
      /\ \A m \in 1..Len(index) : index'[m] = IF m = k THEN e ELSE index[m]
  BY <1>1, ExceptSeq
<1> QED
  BY <1>2 DEF FilesTyped

\* update_internal on a slot of the index, or on none with a record that
\* does not fit.
LEMMA UpdateFiles ==
    ASSUME FilesInv, NEW pos \in Nat, NEW len, NEW neu \in Bytes \ {<<>>},
           UpdateInternal(pos, len, neu), pos < Len(index) \/ ~(len >= Len(neu))
    PROVE  FilesInv'
<1> USE DEF FilesInv
<1>1. Ownership'
  BY UpdateKeeps
<1>2. flags' = Inserting
  BY DEF UpdateInternal, Overwrite, MoveToEnd
<1>3. FlaggedInOrder'
  BY <1>2 DEF FlaggedInOrder, Inserting
<1>4. Len(neu) \in Nat \ {0} /\ Len(index) \in Nat /\ Len(values) \in Nat
  BY LenProperties, EmptySeq DEF Bytes, FilesTyped
<1>5. CASE len >= Len(neu)
  <2>1. /\ c' = IF ReopensSorter THEN Closed ELSE c
        /\ sorter' = IF ReopensSorter THEN Mapped ELSE sorter
        /\ index' = SetNewLen(pos, Len(neu))
        /\ values' = Overlay(index[pos + 1].begin, neu)
        /\ skewed' = skewed
    BY <1>5 DEF UpdateInternal, Overwrite
  <2>2. pos + 1 \in 1..Len(index)
    BY <1>4, <1>5
  <2> DEFINE e == [index[pos + 1] EXCEPT !.end = index[pos + 1].begin + Len(neu)]
  <2>3. index[pos + 1] \in Entries
    BY <2>2, ElementOfSeq DEF FilesTyped
  <2>4. e \in Entries /\ e.begin < e.end /\ index[pos + 1].begin \in Nat
    BY <1>4, <2>3 DEF Entries
  <2>5. index' = [index EXCEPT ![pos + 1] = e]
    BY <2>1 DEF SetNewLen
  <2> HIDE DEF e
  <2>6. index' \in Seq(Entries) /\ \A m \in 1..Len(index') : index'[m].begin < index'[m].end
    BY <2>2, <2>4, <2>5, RewriteTyped
  <2>7. values' \in Bytes /\ Len(values') = Len(values)
    BY <2>1, <2>4, OverlayTyped DEF FilesTyped
  <2>8. FilesTyped' /\ BytesMapped'
    BY <1>4, <2>1, <2>6, <2>7 DEF FilesTyped, BytesMapped, Closed, Mapped
  <2> QED BY <1>1, <1>3, <2>8
<1>6. CASE ~(len >= Len(neu))
  <2>1. /\ c' = Opened /\ sorter' = Unmapped
        /\ index' = IF pos < Len(index) THEN UpdateWith(pos, LastEnd, Len(neu)) ELSE index
        /\ values' = values \o neu
        /\ skewed' = (skewed \/ LastEnd # Len(values) \/ pos >= Len(index))
    BY <1>6 DEF UpdateInternal, MoveToEnd
  <2>2. index' \in Seq(Entries) /\ \A m \in 1..Len(index') : index'[m].begin < index'[m].end
    <3>1. CASE pos < Len(index)
      <4>1. pos + 1 \in 1..Len(index) /\ Len(index) \in 1..Len(index)
        BY <1>4, <3>1
      <4> DEFINE e == [begin |-> LastEnd, end |-> LastEnd + Len(neu)]
      <4>2. index[Len(index)] \in Entries
        BY <4>1, ElementOfSeq DEF FilesTyped
      <4>3. e \in Entries /\ e.begin < e.end
        BY <1>4, <4>2 DEF Entries, LastEnd
      <4>4. index' = [index EXCEPT ![pos + 1] = e]
        BY <2>1, <3>1 DEF UpdateWith
      <4> HIDE DEF e
      <4> QED BY <4>1, <4>3, <4>4, RewriteTyped
    <3>2. CASE ~(pos < Len(index))
      BY <2>1, <3>2 DEF FilesTyped
    <3> QED BY <3>1, <3>2
  <2>3. values' \in Bytes
    BY <2>1, Joined DEF FilesTyped
  <2>4. ~sorter'.open /\ skewed' \in BOOLEAN
    BY <2>1 DEF Unmapped, FilesTyped
  <2>5. c' \in [open : BOOLEAN, named : BOOLEAN, end : Nat]
    BY <2>1 DEF Opened, FilesTyped
  <2>6. sorter' \in [set : BOOLEAN, open : BOOLEAN, isFixedSize : BOOLEAN,
                     entries : Nat, bytes : Nat]
    BY <2>1 DEF Unmapped, FilesTyped
  <2> QED BY <1>1, <1>3, <2>2, <2>3, <2>4, <2>5, <2>6 DEF FilesTyped, BytesMapped
<1> QED
  BY <1>5, <1>6

LEMMA UnlinkFiles ==
    ASSUME FilesInv, Unlink
    PROVE  FilesInv'
<1> USE DEF FilesInv
<1>1. Ownership'
  BY UnlinkKeeps
<1>2. /\ c' = Closed /\ sorter' = [Unmapped EXCEPT !.set = FALSE] /\ skewed' = skewed
      /\ values' \in {values, <<>>} /\ index' \in {index, <<>>}
  BY DEF Unlink, fileVars
<1>3. ~sorter'.open /\ ~sorter'.set
  BY <1>2 DEF Unmapped, FilesTyped
<1>4. values' \in Bytes
  <2>1. <<>> \in Bytes
    BY DEF Bytes
  <2> QED BY <1>2, <2>1 DEF FilesTyped
<1>5. index' \in Seq(Entries) /\ \A k \in 1..Len(index') : index'[k].begin < index'[k].end
  <2>1. CASE index' = index
    BY <2>1 DEF FilesTyped
  <2>2. CASE index' = <<>>
    <3>1. Len(index') = 0 /\ index' \in Seq(Entries)
      BY <2>2
    <3> QED BY <3>1
  <2> QED BY <1>2, <2>1, <2>2
<1>6. c' \in [open : BOOLEAN, named : BOOLEAN, end : Nat]
  BY <1>2 DEF Closed, FilesTyped
<1>7. sorter' \in [set : BOOLEAN, open : BOOLEAN, isFixedSize : BOOLEAN,
                   entries : Nat, bytes : Nat]
  BY <1>2 DEF Unmapped, FilesTyped
<1> QED
  BY <1>1, <1>2, <1>3, <1>4, <1>5, <1>6, <1>7 DEF FilesTyped, BytesMapped, FlaggedInOrder

LEMMA ReopenFiles ==
    ASSUME FilesInv, Reopen
    PROVE  FilesInv'
<1> USE DEF FilesInv
<1>1. Ownership'
  BY ReopenKeeps
<1>2. /\ c' = NewWriter /\ sorter' \in NewSorters /\ flags' = NewFlags
      /\ values' = values /\ index' = index /\ skewed' = skewed
  BY DEF Reopen, fileVars
<1>3. FilesTyped'
  <2>1. c' \in [open : BOOLEAN, named : BOOLEAN, end : Nat]
    BY <1>2 DEF NewWriter
  <2>2. sorter' \in [set : BOOLEAN, open : BOOLEAN, isFixedSize : BOOLEAN,
                     entries : Nat, bytes : Nat]
    <3>1. NewSorters \subseteq [set : BOOLEAN, open : BOOLEAN, isFixedSize : BOOLEAN,
                               entries : Nat, bytes : Nat]
      <4>1. {TRUE} \subseteq BOOLEAN /\ {FALSE} \subseteq BOOLEAN /\ {0} \subseteq Nat
        OBVIOUS
      <4> QED BY <4>1, Zenon DEF NewSorters
    <3> QED BY <1>2, <3>1
  <2> QED BY <1>2, <2>1, <2>2 DEF FilesTyped
<1> QED
  BY <1>1, <1>2, <1>3 DEF NewSorters, NewFlags, BytesMapped, FlaggedInOrder

\* Calls that fail, or change nothing but the reply and the iterator.
LEMMA NothingFiles ==
    ASSUME FilesInv, UNCHANGED <<values, index, c, sorter, flags, skewed>>
    PROVE  FilesInv'
<1>1. Ownership'
  BY NothingKeeps DEF FilesInv
<1>2. ContentsInOrder' = ContentsInOrder
  BY ContentsStay
<1> QED
  BY <1>1, <1>2 DEF FilesInv, FilesTyped, BytesMapped, FlaggedInOrder
-----------------------------------------------------------------------------
(* What the client holds, and the whole invariant *)

Iterators == [pos : Nat, last : Int, live : BOOLEAN]

ClientTyped ==
    /\ it \in Iterators
    /\ status \in {"running", "failed"}
    /\ reply.old \in Bytes /\ reply.neu \in Bytes
    /\ objects \in Nat

\* A closed sorter has no slots, and no iterator goes past the slots of an
\* index that can be read.
SlotsExist ==
    /\ ~sorter.open => sorter.entries = 0
    /\ sorter.set => it.last < Len(index)

\* The inductive invariant of the whole object.
ObjectInv == FilesInv /\ ClientTyped /\ SlotsExist

\* What every call but unlink and reopen leaves an iterator: the slots it had.
SlotsStay ==
    /\ Len(index) <= Len(index') /\ sorter'.set = sorter.set
    /\ ~sorter'.open => sorter'.entries = 0

LEMMA AppendSlots ==
    ASSUME ObjectInv, NEW rec, Append1(rec)
    PROVE  SlotsStay /\ it' \in Iterators /\ it'.last = it.last
<1>1. /\ sorter' = IF ClosesSorter THEN Unmapped ELSE sorter
      /\ it' = IF ClosesSorter THEN Dangling ELSE it
      /\ index' = Append(index, [begin |-> c.end, end |-> c.end + Len(rec)])
  BY DEF Append1, TakesFiles
<1>2. sorter'.set = sorter.set /\ (~sorter'.open => sorter'.entries = 0)
  BY <1>1 DEF ObjectInv, SlotsExist, FilesInv, FilesTyped, Unmapped
<1>3. it' \in Iterators /\ it'.last = it.last
  BY <1>1 DEF ObjectInv, ClientTyped, Iterators, Dangling
<1>4. Len(index) <= Len(index')
  <2> DEFINE e == [begin |-> c.end, end |-> c.end + Len(rec)]
  <2>1. index \in Seq(Entries \union {e}) /\ Len(index) \in Nat
    BY LenProperties DEF ObjectInv, FilesInv, FilesTyped
  <2>2. e \in Entries \union {e} /\ index' = Append(index, e)
    BY <1>1
  <2> HIDE DEF e
  <2>3. Len(index') = Len(index) + 1
    BY <2>1, <2>2, AppendProperties
  <2> QED BY <2>1, <2>3
<1> QED
  BY <1>2, <1>3, <1>4 DEF SlotsStay

LEMMA ReadSlots ==
    ASSUME ObjectInv, ReadOpens
    PROVE  SlotsStay /\ index' = index /\ sorter'.entries <= Len(index) /\ sorter'.entries \in Nat
<1>1. Len(index) \in Nat
  BY LenProperties DEF ObjectInv, FilesInv, FilesTyped
<1>2. sorter' = (IF ReopensSorter THEN Mapped ELSE sorter) /\ index' = index
  BY DEF ReadOpens, fileVars
<1> QED
  BY <1>1, <1>2 DEF SlotsStay, ObjectInv, SlotsExist, FilesInv, FilesTyped, Ownership,
                    IndexIsMapped, Mapped

LEMMA UpdateSlots ==
    ASSUME ObjectInv, NEW pos, NEW len, NEW neu, UpdateInternal(pos, len, neu)
    PROVE  SlotsStay
<1>1. index' = index \/ \E v : index' = [index EXCEPT ![pos + 1] = v]
  BY DEF UpdateInternal, Overwrite, MoveToEnd, SetNewLen, UpdateWith
<1>2. Len(index) \in Nat /\ Len(index') = Len(index)
  BY <1>1, RewriteIsSeq DEF ObjectInv, FilesInv, Ownership, Shapes
<1>3. sorter' \in {sorter, Mapped, Unmapped}
  BY DEF UpdateInternal
<1>4. sorter'.set = sorter.set /\ (~sorter'.open => sorter'.entries = 0)
  BY <1>3 DEF ObjectInv, SlotsExist, FilesInv, FilesTyped, Mapped, Unmapped
<1> QED
  BY <1>2, <1>4 DEF SlotsStay

LEMMA RecordsTyped == Records \subseteq Bytes \ {<<>>}
  BY RecordsAssumption DEF Bytes

\* Where a search may end.
LEMMA LocateInIndex ==
    ASSUME FilesInv, NEW rec
    PROVE  /\ Len(index) \in Nat /\ Locate(rec) \in 0..Len(index) \union {Astray}
           /\ Locate(rec) # Astray => Locate(rec) \in Nat
<1>1. /\ Len(index) \in Nat
      /\ \A k \in 1..Len(index) : Contents[k] \in Bytes \ {<<>>}
  BY ContentsTyped DEF FilesInv
<1>2. index \in Seq([begin : Nat, end : Nat])
  BY DEF FilesInv, FilesTyped, Entries
<1>3. Locate(rec) \in 0..Len(index) \union {Astray}
  BY <1>1, <1>2, LocateAnswers
<1> QED
  BY <1>1, <1>3
\* A call that answers without touching the object.
LEMMA NothingObject ==
    ASSUME ObjectInv, UNCHANGED <<values, index, c, sorter, flags, skewed>>,
           it' \in Iterators, it'.last = it.last, status' \in {"running", "failed"},
           reply'.old \in Bytes, reply'.neu \in Bytes, objects' = objects
    PROVE  ObjectInv'
  BY NothingFiles DEF ObjectInv, ClientTyped, SlotsExist

LEMMA FailsObject ==
    ASSUME ObjectInv, NEW op, NEW old \in Bytes, NEW neu \in Bytes, Fails(op, old, neu)
    PROVE  ObjectInv'
<1>1. /\ UNCHANGED <<values, index, c, sorter, flags, it, skewed, objects>>
      /\ status' = "failed" /\ reply'.old = old /\ reply'.neu = neu
  BY DEF Fails, Replies, fileVars
<1> QED
  BY <1>1, NothingObject DEF ObjectInv, ClientTyped

\* What is left to show of a call on the files.
LEMMA CallObject ==
    ASSUME ObjectInv, FilesInv', SlotsStay, it' \in Iterators,
           it'.last = it.last \/ it'.last < Len(index),
           Lives, NEW op, NEW old \in Bytes, NEW neu \in Bytes, NEW res, Replies(op, old, neu, res)
    PROVE  ObjectInv'
<1>1. status' = "running" /\ objects' = objects /\ reply'.old = old /\ reply'.neu = neu
  BY DEF Lives, Replies
<1>2. ClientTyped'
  BY <1>1 DEF ObjectInv, ClientTyped
<1>3. Len(index) \in Nat /\ Len(index') \in Nat
  BY LenProperties DEF ObjectInv, FilesInv, FilesTyped
<1>4. SlotsExist'
  BY <1>3 DEF ObjectInv, ClientTyped, SlotsExist, SlotsStay, Iterators
<1> QED
  BY <1>2, <1>4 DEF ObjectInv

LEMMA InsertObjectStep ==
    ASSUME ObjectInv, NEW rec \in Records, Append1(rec),
           NEW op, NEW old \in Bytes, NEW res, Replies(op, old, rec, res)
    PROVE  ObjectInv'
<1>1. rec \in Bytes \ {<<>>}
  BY RecordsTyped
<1>2. FilesInv'
  BY <1>1, AppendFiles DEF ObjectInv
<1>3. Lives
  BY DEF Append1
<1> QED
  BY <1>1, <1>2, <1>3, AppendSlots, CallObject

LEMMA MultiInsertObject ==
    ASSUME ObjectInv, NEW list \in Lists, MultiInsert(list)
    PROVE  ObjectInv'
<1>1. /\ sorter' = IF ClosesSorter THEN Unmapped ELSE sorter
      /\ it' = IF ClosesSorter THEN Dangling ELSE it
      /\ index' = index
  BY DEF MultiInsert, TakesFiles
<1>2. SlotsStay
  <2>1. Len(index) \in Nat
    BY LenProperties DEF ObjectInv, FilesInv, FilesTyped
  <2> QED
    BY <1>1, <2>1 DEF ObjectInv, SlotsExist, SlotsStay, FilesInv, FilesTyped, Unmapped
<1>3. it' \in Iterators /\ it'.last = it.last
  BY <1>1 DEF ObjectInv, ClientTyped, Iterators, Dangling
<1>4. FilesInv'
  BY MultiInsertFiles DEF ObjectInv
<1>5. <<>> \in Bytes
  BY DEF Bytes
<1>6. PICK res : Replies("multi", <<>>, <<>>, res)
  BY DEF MultiInsert
<1>7. Lives
  BY DEF MultiInsert
<1> QED
  BY <1>2, <1>3, <1>4, <1>5, <1>6, <1>7, CallObject

LEMMA SortObject ==
    ASSUME ObjectInv, SortElement
    PROVE  ObjectInv'
<1>1. FilesInv'
  BY SortFiles DEF ObjectInv
<1>2. Len(index') = Len(index) /\ Len(index) \in Nat
  BY SortResult, LenProperties DEF ObjectInv, FilesInv, FilesTyped
<1>3. SlotsStay
  <2>1. sorter' = OpenedToSort
    BY DEF SortElement
  <2> QED BY <1>2, <2>1 DEF ObjectInv, FilesInv, FilesTyped, SlotsStay, OpenedToSort
<1>4. it' \in Iterators /\ it'.last = it.last
  <2>1. PICK same \in BOOLEAN : it' = Remapped(same)
    BY DEF SortElement
  <2> QED BY <2>1 DEF ObjectInv, ClientTyped, Iterators, Remapped
<1>5. <<>> \in Bytes /\ Lives /\ Replies("sort", <<>>, <<>>, "none")
  BY DEF Bytes, SortElement
<1> QED
  BY <1>1, <1>3, <1>4, <1>5, CallObject

LEMMA BeginObject ==
    ASSUME ObjectInv, Begin
    PROVE  ObjectInv'
<1>1. ReadOpens /\ it' = FirstOf(sorter') /\ Replies("begin", <<>>, <<>>, "none") /\ Lives
  BY DEF Begin
<1>2. FilesInv'
  BY <1>1, ReadFiles DEF ObjectInv
<1>3. SlotsStay /\ sorter'.entries <= Len(index) /\ sorter'.entries \in Nat
  BY <1>1, ReadSlots
<1>4. Len(index) \in Nat
  BY LenProperties DEF ObjectInv, FilesInv, FilesTyped
<1>5. it' \in Iterators /\ it'.last < Len(index)
  BY <1>1, <1>3, <1>4 DEF FirstOf, Iterators
<1>6. <<>> \in Bytes
  BY DEF Bytes
<1> QED
  BY <1>1, <1>2, <1>3, <1>5, <1>6, CallObject

LEMMA SearchObject ==
    ASSUME ObjectInv, NEW rec \in Records, SearchFor(rec)
    PROVE  ObjectInv'
<1>1. /\ ReadOpens /\ Lives /\ Locate(rec) # Astray
      /\ it' = [pos |-> Locate(rec), last |-> Len(index) - 1, live |-> TRUE]
  BY DEF SearchFor
<1>2. PICK res : Replies("search", rec, <<>>, res)
  BY DEF SearchFor
<1>3. FilesInv' /\ SlotsStay
  BY <1>1, ReadFiles, ReadSlots DEF ObjectInv
<1>4. it' \in Iterators /\ it'.last < Len(index)
  BY <1>1, LocateInIndex DEF ObjectInv, Iterators
<1>5. <<>> \in Bytes /\ rec \in Bytes
  BY RecordsTyped DEF Bytes
<1> QED
  BY <1>1, <1>2, <1>3, <1>4, <1>5, CallObject

LEMMA UpdateObject ==
    ASSUME ObjectInv, NEW old \in Records, NEW neu \in Records, Update(old, neu)
    PROVE  ObjectInv'
<1> DEFINE pos == Locate(old)
<1>1. /\ pos \in 0..(Len(index) - 1) /\ UpdateInternal(pos, SizeOf(pos), neu) /\ Lives
      /\ \E same \in BOOLEAN : it' \in {it, Dangling, Remapped(same)}
  BY DEF Update
<1>2. PICK res : Replies("update", old, neu, res)
  BY DEF Update
<1>3. Len(index) \in Nat /\ old \in Bytes /\ neu \in Bytes \ {<<>>}
  BY RecordsTyped, LocateInIndex DEF ObjectInv
<1> HIDE DEF pos
<1>4. FilesInv' /\ SlotsStay
  <2>1. pos \in Nat /\ pos < Len(index)
    BY <1>1, <1>3
  <2> QED BY <1>1, <1>3, <2>1, UpdateFiles, UpdateSlots DEF ObjectInv
<1>5. it' \in Iterators /\ it'.last = it.last
  BY <1>1 DEF ObjectInv, ClientTyped, Iterators, Dangling, Remapped
<1> QED
  BY <1>1, <1>2, <1>3, <1>4, <1>5, CallObject

LEMMA UpdateIterObject ==
    ASSUME ObjectInv, NEW neu \in Records, UpdateIter(neu)
    PROVE  ObjectInv'
<1> DEFINE len == IF it.pos > it.last THEN 0 ELSE SizeOf(it.pos)
<1>1. /\ sorter.set /\ UpdateInternal(it.pos, len, neu) /\ Lives
      /\ it' = [it EXCEPT !.live = len >= Len(neu)]
  BY DEF UpdateIter
<1>2. PICK res : Replies("updateIter", <<>>, neu, res)
  BY DEF UpdateIter
<1>3. /\ Len(index) \in Nat /\ <<>> \in Bytes /\ neu \in Bytes \ {<<>>}
      /\ it \in Iterators /\ it.last < Len(index)
  BY <1>1, RecordsTyped, LenProperties
     DEF ObjectInv, FilesInv, FilesTyped, ClientTyped, SlotsExist, Bytes
<1>4. it.pos \in Nat /\ (it.pos < Len(index) \/ ~(len >= Len(neu)))
  <2>1. Len(neu) \in Nat \ {0}
    BY <1>3, LenProperties, EmptySeq DEF Bytes
  <2> QED BY <1>3, <2>1 DEF Iterators
<1>5. (len >= Len(neu)) \in BOOLEAN
  OBVIOUS
<1> HIDE DEF len
<1>6. FilesInv' /\ SlotsStay
  BY <1>1, <1>3, <1>4, UpdateFiles, UpdateSlots DEF ObjectInv
<1>7. it' \in Iterators /\ it'.last = it.last
  BY <1>1, <1>3, <1>5 DEF Iterators
<1> QED
  BY <1>1, <1>2, <1>3, <1>6, <1>7, CallObject

LEMMA UpdateIterAtEndObject ==
    ASSUME ObjectInv, NEW neu \in Records, UpdateIterAtEnd(neu)
    PROVE  ObjectInv'
<1>1. /\ ReadOpens /\ it' = [it EXCEPT !.live = TRUE] /\ Lives
      /\ Replies("updateIter", <<>>, neu, "-1")
  BY DEF UpdateIterAtEnd
<1>2. FilesInv' /\ SlotsStay
  BY <1>1, ReadFiles, ReadSlots DEF ObjectInv
<1>3. it' \in Iterators /\ it'.last = it.last
  BY <1>1 DEF ObjectInv, ClientTyped, Iterators
<1>4. <<>> \in Bytes /\ neu \in Bytes
  BY RecordsTyped DEF Bytes
<1> QED
  BY <1>1, <1>2, <1>3, <1>4, CallObject

LEMMA AdvanceObject ==
    ASSUME ObjectInv, Advance
    PROVE  ObjectInv'
<1>1. /\ UNCHANGED <<values, index, c, sorter, flags, skewed, objects>>
      /\ it' = [it EXCEPT !.pos = @ + 1] /\ status' = "running"
      /\ reply'.old = <<>> /\ reply'.neu = <<>>
  BY DEF Advance, Replies, Lives, fileVars
<1>2. it' \in Iterators /\ it'.last = it.last
  BY <1>1 DEF ObjectInv, ClientTyped, Iterators
<1>3. <<>> \in Bytes
  BY DEF Bytes
<1> QED
  BY <1>1, <1>2, <1>3, NothingObject

LEMMA UnlinkObject ==
    ASSUME ObjectInv, Unlink
    PROVE  ObjectInv'
<1>1. /\ sorter' = [Unmapped EXCEPT !.set = FALSE] /\ it' = Dangling /\ Lives
      /\ reply'.old = <<>> /\ reply'.neu = <<>>
  BY DEF Unlink, Replies
<1>2. it' \in Iterators
  BY <1>1 DEF ObjectInv, ClientTyped, Iterators, Dangling
<1>3. FilesInv'
  BY UnlinkFiles DEF ObjectInv
<1>4. SlotsExist'
  BY <1>1 DEF ObjectInv, FilesInv, FilesTyped, Unmapped, SlotsExist
<1>5. <<>> \in Bytes
  BY DEF Bytes
<1> QED
  BY <1>1, <1>2, <1>3, <1>4, <1>5 DEF ObjectInv, ClientTyped, Lives

LEMMA ReopenObject ==
    ASSUME ObjectInv, Reopen
    PROVE  ObjectInv'
<1>1. /\ sorter' \in NewSorters /\ it' = NoIterator /\ status' = status /\ index' = index
      /\ objects' = objects + 1 /\ reply'.old = <<>> /\ reply'.neu = <<>>
  BY DEF Reopen, Replies, fileVars
<1>2. it' \in Iterators /\ it'.last < Len(index)
  BY <1>1, LenProperties DEF ObjectInv, FilesInv, FilesTyped, NoIterator, Iterators
<1>3. FilesInv'
  BY ReopenFiles DEF ObjectInv
<1>4. SlotsExist'
  BY <1>1, <1>2 DEF NewSorters, SlotsExist
<1>5. <<>> \in Bytes
  BY DEF Bytes
<1> QED
  BY <1>1, <1>2, <1>3, <1>4, <1>5 DEF ObjectInv, ClientTyped
LEMMA ObjectStart == Init => ObjectInv
<1> SUFFICES ASSUME Init PROVE ObjectInv
  OBVIOUS
<1>1. /\ values = <<>> /\ index = <<>> /\ c = NewWriter /\ sorter \in NewSorters
      /\ flags = NewFlags /\ it = NoIterator /\ status = "running" /\ skewed = FALSE
      /\ reply = NoReply /\ objects = 1
  BY DEF Init
<1>2. Ownership
  BY OwnershipStart
<1>3. <<>> \in Bytes /\ <<>> \in Seq(Entries) /\ Len(<<>>) = 0
  BY DEF Bytes
<1>4. c \in [open : BOOLEAN, named : BOOLEAN, end : Nat]
  BY <1>1 DEF NewWriter
<1>5. sorter \in [set : BOOLEAN, open : BOOLEAN, isFixedSize : BOOLEAN, entries : Nat, bytes : Nat]
  <2>1. {TRUE} \subseteq BOOLEAN /\ {FALSE} \subseteq BOOLEAN /\ {0} \subseteq Nat
    OBVIOUS
  <2>2. NewSorters \subseteq [set : BOOLEAN, open : BOOLEAN, isFixedSize : BOOLEAN,
                             entries : Nat, bytes : Nat]
    BY <2>1, Zenon DEF NewSorters
  <2> QED BY <1>1, <2>2
<1>6. FilesTyped
  <2>1. skewed \in BOOLEAN /\ values \in Bytes /\ index \in Seq(Entries)
    BY <1>1, <1>3
  <2>2. ASSUME NEW k \in 1..Len(index) PROVE FALSE
    BY <1>1, <1>3
  <2> QED BY <1>4, <1>5, <2>1, <2>2 DEF FilesTyped
<1>7. BytesMapped /\ FlaggedInOrder
  BY <1>1 DEF NewSorters, NewFlags, BytesMapped, FlaggedInOrder
<1>8. ClientTyped
  <2>1. reply.old = <<>> /\ reply.neu = <<>>
    BY <1>1 DEF NoReply
  <2>2. it \in Iterators
    BY <1>1 DEF NoIterator, Iterators
  <2> QED BY <1>1, <1>3, <2>1, <2>2 DEF ClientTyped
<1>9. SlotsExist
  BY <1>1, <1>3 DEF NewSorters, NoIterator, SlotsExist
<1> QED
  BY <1>2, <1>6, <1>7, <1>8, <1>9 DEF ObjectInv, FilesInv

LEMMA ObjectStep == ObjectInv /\ [Next]_vars => ObjectInv'
<1> SUFFICES ASSUME ObjectInv, [Next]_vars PROVE ObjectInv'
  OBVIOUS
<1>1. <<>> \in Bytes /\ Records \subseteq Bytes
  BY RecordsTyped DEF Bytes
<1>2. ASSUME NEW rec \in Records, Insert(rec) \/ InsertObject(rec) PROVE ObjectInv'
  BY <1>1, <1>2, InsertObjectStep DEF Insert, InsertObject
<1>3. ASSUME NEW old \in Records, NEW neu \in Records, UpdateInserts(old, neu) PROVE ObjectInv'
  BY <1>1, <1>3, InsertObjectStep DEF UpdateInserts
<1>4. ASSUME NEW list \in Lists, MultiInsert(list) PROVE ObjectInv'
  BY <1>4, MultiInsertObject
<1>5. CASE SortElement
  BY <1>5, SortObject
<1>6. CASE Begin
  BY <1>6, BeginObject
<1>7. ASSUME NEW rec \in Records, SearchFor(rec) PROVE ObjectInv'
  BY <1>7, SearchObject
<1>8. ASSUME NEW rec \in Records, UpdateIterAtEnd(rec) PROVE ObjectInv'
  BY <1>8, UpdateIterAtEndObject
<1>9. ASSUME NEW old \in Records, NEW neu \in Records, Update(old, neu) PROVE ObjectInv'
  BY <1>9, UpdateObject
<1>10. ASSUME NEW rec \in Records, UpdateIter(rec) PROVE ObjectInv'
  BY <1>10, UpdateIterObject
<1>11. CASE Advance
  BY <1>11, AdvanceObject
<1>12. CASE Unlink
  BY <1>12, UnlinkObject
<1>13. CASE Reopen
  BY <1>13, ReopenObject
<1>14. CASE InsertNothing \/ MultiInsertNothing \/ SortedAlready
  <2>1. /\ UNCHANGED <<values, index, c, sorter, flags, it, skewed, objects>>
        /\ status' = "running" /\ reply'.old = <<>> /\ reply'.neu = <<>>
    BY <1>14 DEF InsertNothing, MultiInsertNothing, SortedAlready, Replies, Lives, fileVars
  <2>2. it \in Iterators
    BY DEF ObjectInv, ClientTyped
  <2> QED BY <1>1, <2>1, <2>2, NothingObject
<1>15. CASE SortFails \/ BeginFails
  BY <1>1, <1>15, FailsObject DEF SortFails, BeginFails
<1>16. ASSUME NEW list \in Lists, MultiInsertFails(list) PROVE ObjectInv'
  BY <1>1, <1>16, FailsObject DEF MultiInsertFails
<1>17. ASSUME NEW rec \in Records,
              InsertFails(rec) \/ InsertObjectFails(rec) \/ SearchFails(rec) \/ UpdateIterFails(rec)
       PROVE  ObjectInv'
  BY <1>1, <1>17, FailsObject DEF InsertFails, InsertObjectFails, SearchFails, UpdateIterFails
<1>18. ASSUME NEW old \in Records, NEW neu \in Records, UpdateFails(old, neu) PROVE ObjectInv'
  BY <1>1, <1>18, FailsObject DEF UpdateFails
<1>19. CASE UNCHANGED vars
  <2>1. UNCHANGED <<values, index, c, sorter, flags, it, skewed, objects, status, reply>>
    BY <1>19 DEF vars, fileVars
  <2> QED BY <2>1, NothingObject DEF ObjectInv, ClientTyped
<1> QED
  BY <1>2, <1>3, <1>4, <1>5, <1>6, <1>7, <1>8, <1>9, <1>10, <1>11, <1>12, <1>13, <1>14, <1>15,
     <1>16, <1>17, <1>18, <1>19 DEF Next

\* The inductive invariant of the whole object holds in every reachable state.
THEOREM ObjectInvariance == Spec => []ObjectInv
  BY ObjectStart, ObjectStep, PTL DEF Spec

\* Every variable keeps its type: the last slot of an iterator is a slot of
\* the index, an entry is rewritten only where there is one, and what is read
\* past the end of a file is still a byte.
THEOREM ObjectTypeCorrect == Spec => []TypeOK
<1>1. ObjectInv => TypeOK
  <2> SUFFICES ASSUME ObjectInv PROVE TypeOK
    OBVIOUS
  <2>1. FilesTyped /\ ClientTyped /\ Shapes
    BY DEF ObjectInv, FilesInv, Ownership
  <2>2. flags \in [hasInserted : BOOLEAN, hasRiskInsert : BOOLEAN, hasSorted : BOOLEAN]
    BY <2>1 DEF Shapes
  <2> QED BY <2>1, <2>2 DEF FilesTyped, ClientTyped, Entries, Iterators, TypeOK
<1> QED
  BY <1>1, ObjectInvariance, PTL

\* The files are never mapped while the streams are open, and whatever is
\* mapped is mapped to its last entry and its last byte, the file sortElement
\* has just put in place of the old one included: no read is stale.
THEOREM NoStaleRead == Spec => []MappingIsCurrent
<1>1. ObjectInv => MappingIsCurrent
  BY DEF ObjectInv, FilesInv, Ownership, BytesMapped, MappingIsCurrent
<1> QED
  BY <1>1, ObjectInvariance, PTL

\* As long as hasSorted is set and the object has its sorter, the files are
\* mapped and nothing was inserted, and the entries read the records in the
\* order of compare(): nothing clears the order and leaves the flag.
THEOREM SortedFlagTells == Spec => []SortedFlagIsTrue
<1>1. ObjectInv => SortedFlagIsTrue
  BY DEF ObjectInv, FilesInv, Ownership, FlaggedInOrder, ContentsInOrder, SortedFlagIsTrue
<1> QED
  BY <1>1, ObjectInvariance, PTL
-----------------------------------------------------------------------------
(* Calls on a sorted store *)

\* A store flagged as sorted is one whose files are mapped for the search.
LEMMA SortedIsReady ==
    ASSUME ObjectInv, flags.hasSorted, sorter.set
    PROVE  ~CannotWrite /\ ~ReopensSorter /\ CanSearch /\ ContentsInOrder
  BY DEF ObjectInv, FilesInv, Ownership, Shapes, SortedIsMapped, FlaggedInOrder,
         CannotWrite, ReopensWriter, ReopensSorter, CanSearch

\* A search leaves a sorted index only below its first record.
LEMMA AstrayMeansBelow ==
    ASSUME ComparesInOrder, ObjectInv, ContentsInOrder, NEW rec \in Bytes \ {<<>>},
           Locate(rec) = Astray
    PROVE  \A k \in 1..Len(index) : Compare(Contents[k], rec) > 0
<1>1. /\ Len(index) \in Nat
      /\ \A k \in 1..Len(index) : Contents[k] \in Bytes \ {<<>>}
  BY ContentsTyped DEF ObjectInv, FilesInv
<1>2. index \in Seq([begin : Nat, end : Nat])
  BY DEF ObjectInv, FilesInv, FilesTyped, Entries
<1> SUFFICES ASSUME NEW k \in 1..Len(index) PROVE Compare(Contents[k], rec) > 0
  OBVIOUS
<1>3. 1 \in 1..Len(index) /\ index # <<>>
  BY <1>1
<1>4. Compare(Contents[1], rec) > 0
  BY <1>1, <1>2, <1>3, LocateAnswers
<1>5. CASE k = 1
  BY <1>4, <1>5
<1>6. CASE k # 1
  <2>1. Compare(Contents[1], Contents[k]) <= 0
    BY <1>1, <1>3, <1>6 DEF ContentsInOrder
  <2> QED BY <1>1, <1>3, <1>4, <2>1 DEF ComparesInOrder
<1> QED
  BY <1>5, <1>6

\* A call that returns leaves the process running.
LEMMA OnlyFailsKill ==
    ASSUME [Next]_vars, vars' # vars, status' = "failed"
    PROVE  \/ SortFails \/ BeginFails
           \/ \E list \in Lists : MultiInsertFails(list)
           \/ \E rec \in Records :
                 \/ InsertFails(rec) \/ InsertObjectFails(rec)
                 \/ SearchFails(rec) \/ UpdateIterFails(rec)
           \/ \E old \in Records, neu \in Records : UpdateFails(old, neu)
<1>1. ~(InsertNothing \/ MultiInsertNothing \/ SortElement \/ SortedAlready \/ Begin \/ Advance
         \/ Unlink)
  BY DEF InsertNothing, MultiInsertNothing, SortElement, SortedAlready, Begin, Advance, Unlink, Lives
<1>2. ~Reopen
  BY DEF Reopen, Calling
<1>3. \A list \in Lists : ~MultiInsert(list)
  BY DEF MultiInsert, Lives
<1>4. \A rec \in Records : ~(Insert(rec) \/ InsertObject(rec) \/ SearchFor(rec) \/ UpdateIter(rec)
                              \/ UpdateIterAtEnd(rec))
  BY DEF Insert, InsertObject, Append1, SearchFor, UpdateIter, UpdateIterAtEnd, Lives
<1>5. \A old \in Records, neu \in Records : ~(Update(old, neu) \/ UpdateInserts(old, neu))
  BY DEF Update, UpdateInserts, Append1, Lives
<1> QED
  BY <1>1, <1>2, <1>3, <1>4, <1>5 DEF Next

\* A sorted store has entries, and a live iterator on it was not made over
\* an empty mapping.
SortedHolds ==
    flags.hasSorted /\ sorter.set => index # <<>> /\ (it.live => it.last # -1)

LEMMA SortedHoldsStep ==
    ASSUME ObjectInv, ObjectInv', SortedHolds, [Next]_vars
    PROVE  SortedHolds'
<1> SUFFICES ASSUME flags'.hasSorted, sorter'.set
             PROVE  index' # <<>> /\ (it'.live => it'.last # -1)
  BY DEF SortedHolds
<1>1. CASE UNCHANGED <<flags, sorter, index, it>>
  BY <1>1 DEF SortedHolds
<1>2. CASE SortElement
  <2>1. index # <<>> /\ Len(index') = Len(index) /\ Len(index) \in Nat \ {0}
    <3>1. FilesTyped /\ index # <<>>
      BY <1>2 DEF SortElement, ObjectInv, FilesInv
    <3>2. Len(index) \in Nat /\ Len(index) # 0
      BY <3>1, LenProperties, EmptySeq DEF FilesTyped
    <3> QED BY <1>2, <3>1, <3>2, SortResult
  <2>2. index' # <<>>
    <3>1. Len(<<>>) = 0
      OBVIOUS
    <3> QED BY <2>1, <3>1
  <2>3. it'.live => it'.last # -1
    <3>1. PICK same \in BOOLEAN : it' = Remapped(same)
      BY <1>2 DEF SortElement
    <3>2. it \in Iterators
      BY DEF ObjectInv, ClientTyped
    <3> QED BY <3>1, <3>2 DEF Remapped, Iterators
  <2> QED BY <2>2, <2>3
\* The calls that read a sorted store leave its entries and its mapping.
<1> DEFINE Reads == /\ UNCHANGED <<flags, index>> /\ sorter.set /\ ReadOpens
<1>3. ASSUME Reads PROVE index' # <<>> /\ sorter'.entries = Len(index) /\ Len(index) \in Nat \ {0}
  <2>1. index # <<>> /\ ~ReopensSorter /\ sorter' = sorter
    BY <1>3, SortedIsReady DEF SortedHolds, ReadOpens
  <2>2. sorter.open /\ sorter.entries = Len(index)
    BY <1>3 DEF ObjectInv, FilesInv, Ownership, SortedIsMapped, IndexIsMapped
  <2>3. Len(index) \in Nat /\ Len(index) # 0
    BY <2>1, LenProperties, EmptySeq DEF ObjectInv, FilesInv, FilesTyped
  <2> QED BY <1>3, <2>1, <2>2, <2>3
<1>4. CASE Begin
  <2>1. Reads /\ it' = FirstOf(sorter')
    BY <1>4 DEF Begin, ReadOpens, fileVars
  <2> QED BY <1>3, <2>1 DEF FirstOf
<1>5. CASE \E rec \in Records : SearchFor(rec)
  <2>1. Reads /\ it'.last = Len(index) - 1
    BY <1>5 DEF SearchFor, ReadOpens, fileVars
  <2> QED BY <1>3, <2>1
<1>6. CASE \E rec \in Records : UpdateIterAtEnd(rec)
  <2>1. Reads /\ it' = [it EXCEPT !.live = TRUE] /\ (it.live \/ (ReopensSorter /\ it.last # -1))
    BY <1>6 DEF UpdateIterAtEnd, ReadOpens, fileVars
  <2>2. it \in Iterators /\ ~ReopensSorter
    BY <2>1, SortedIsReady DEF ObjectInv, ClientTyped
  <2> QED BY <1>3, <2>1, <2>2 DEF Iterators, SortedHolds
<1>7. CASE Advance
  <2>1. UNCHANGED <<flags, sorter, index>> /\ it' = [it EXCEPT !.pos = it.pos + 1] /\ it \in Iterators
    BY <1>7 DEF Advance, fileVars, ObjectInv, ClientTyped
  <2> QED BY <2>1 DEF Iterators, SortedHolds
<1>8. ~Unlink
  BY DEF Unlink, Unmapped, ObjectInv, FilesInv, Ownership, Shapes
<1>9. ~Reopen
  BY DEF Reopen, NewFlags
<1>10. \A list \in Lists : ~MultiInsert(list)
  BY DEF MultiInsert, Inserting, ObjectInv, FilesInv, Ownership, Shapes
<1>11. \A rec \in Records : ~(Insert(rec) \/ InsertObject(rec) \/ UpdateIter(rec))
  BY DEF Insert, InsertObject, Append1, UpdateIter, UpdateInternal, Overwrite, MoveToEnd, Inserting
<1>12. \A old \in Records, neu \in Records : ~(Update(old, neu) \/ UpdateInserts(old, neu))
  BY DEF Update, UpdateInserts, Append1, UpdateInternal, Overwrite, MoveToEnd, Inserting
<1>13. CASE \/ InsertNothing \/ MultiInsertNothing \/ SortFails \/ SortedAlready \/ BeginFails
            \/ \E list \in Lists : MultiInsertFails(list)
            \/ \E rec \in Records : \/ InsertFails(rec) \/ InsertObjectFails(rec)
                                    \/ SearchFails(rec) \/ UpdateIterFails(rec)
            \/ \E old \in Records, neu \in Records : UpdateFails(old, neu)
            \/ UNCHANGED vars
  BY <1>1, <1>13 DEF InsertNothing, MultiInsertNothing, SortFails, SortedAlready, BeginFails,
     MultiInsertFails, InsertFails, InsertObjectFails, SearchFails, UpdateIterFails, UpdateFails,
     Fails, vars, fileVars
<1> QED
  BY <1>2, <1>4, <1>5, <1>6, <1>7, <1>8, <1>9, <1>10, <1>11, <1>12, <1>13 DEF Next

LEMMA SortedHoldsAlways == Spec => []SortedHolds
<1>1. Init => SortedHolds
  BY DEF Init, NewFlags, SortedHolds
<1>2. ObjectInv /\ ObjectInv' /\ SortedHolds /\ [Next]_vars => SortedHolds'
  BY SortedHoldsStep
<1> QED
  BY <1>1, <1>2, ObjectInvariance, PTL DEF Spec

\* With a comparator that orders the records, the calls on a sorted store
\* that kill the process are a search or an update of a record below all the
\* stored ones and an update through an iterator of an old mapping: nothing
\* else, after whatever calls.
THEOREM SortedStoreLives ==
    ASSUME ComparesInOrder
    PROVE  Spec => SortedStoreSurvives
<1> DEFINE Below(rec) == \A k \in 1..Len(index) : Compare(Contents[k], rec) > 0
           Excused == \/ reply'.op \in {"search", "update"} /\ Below(reply'.old)
                      \/ reply'.op = "updateIter" /\ ~it.live
<1>1. ASSUME ObjectInv, SortedHolds, [Next]_vars, vars' # vars, status' = "failed",
             flags.hasSorted, sorter.set
      PROVE  Excused
  <2>1. ~CannotWrite /\ ~ReopensSorter /\ CanSearch /\ ContentsInOrder
    BY <1>1, SortedIsReady
  <2>2. ~(SortFails \/ BeginFails)
    BY <1>1 DEF SortFails, BeginFails
  <2>3. \A list \in Lists : ~MultiInsertFails(list)
    BY <2>1 DEF MultiInsertFails
  <2>4. \A rec \in Records : ~(InsertFails(rec) \/ InsertObjectFails(rec))
    BY <2>1 DEF InsertFails, InsertObjectFails
  <2>5. ASSUME NEW rec \in Records, SearchFails(rec) PROVE Excused
    <3>1. Locate(rec) = Astray /\ reply'.op = "search" /\ reply'.old = rec
      BY <1>1, <2>1, <2>5 DEF SearchFails, Fails, Replies
    <3>2. rec \in Bytes \ {<<>>}
      BY RecordsTyped
    <3>3. Below(rec)
      BY <1>1, <2>1, <3>1, <3>2, AstrayMeansBelow
    <3> QED BY <3>1, <3>3
  <2>6. ASSUME NEW old \in Records, NEW neu \in Records, UpdateFails(old, neu) PROVE Excused
    <3>1. Locate(old) = Astray /\ reply'.op = "update" /\ reply'.old = old
      BY <1>1, <2>1, <2>6 DEF UpdateFails, Fails, Replies
    <3>2. old \in Bytes \ {<<>>}
      BY RecordsTyped
    <3>3. Below(old)
      BY <1>1, <2>1, <3>1, <3>2, AstrayMeansBelow
    <3> QED BY <3>1, <3>3
  <2>7. ASSUME NEW rec \in Records, UpdateIterFails(rec) PROVE Excused
    <3>1. reply'.op = "updateIter" /\ (~it.live \/ it.last = -1)
      BY <1>1, <2>1, <2>7 DEF UpdateIterFails, Fails, Replies
    <3> QED BY <1>1, <3>1 DEF SortedHolds
  <2> QED BY <1>1, <2>2, <2>3, <2>4, <2>5, <2>6, <2>7, OnlyFailsKill
<1>2. ObjectInv /\ SortedHolds /\ [Next]_vars =>
        [status' = "failed" /\ flags.hasSorted /\ sorter.set => Excused]_vars
  BY <1>1
<1> QED
  BY <1>2, ObjectInvariance, SortedHoldsAlways, PTL DEF Spec, SortedStoreSurvives

\* After an insertion somebody has the files: the streams, or the mapping
\* that a reading call put in their place.  An iterator over slots that
\* exist has a mapping under it.
SomebodyHasFiles ==
    /\ sorter.set /\ flags.hasInserted => c.open \/ sorter.open
    /\ it.live /\ it.last # -1 => sorter.open

LEMMA TakesFilesHas ==
    ASSUME ObjectInv, SomebodyHasFiles, TakesFiles
    PROVE  it'.live /\ it'.last # -1 => sorter'.open
<1>1. it \in Iterators
  BY DEF ObjectInv, ClientTyped
<1>2. CASE ClosesSorter
  BY <1>1, <1>2 DEF TakesFiles, Dangling, Iterators, SomebodyHasFiles
<1>3. CASE ~ClosesSorter
  BY <1>3 DEF TakesFiles, SomebodyHasFiles
<1> QED
  BY <1>2, <1>3

LEMMA MapsWhenRead ==
    ASSUME ObjectInv, SomebodyHasFiles, sorter' = IF ReopensSorter THEN Mapped ELSE sorter
    PROVE  /\ ReopensSorter => sorter'.open
           /\ sorter.open => sorter'.open
           /\ flags'.hasInserted = flags.hasInserted /\ c' = (IF ReopensSorter THEN Closed ELSE c) =>
                 (sorter'.set /\ flags'.hasInserted => c'.open \/ sorter'.open)
<1>1. ReopensSorter => sorter'.open
  BY DEF Mapped, ObjectInv, FilesInv, Ownership, Shapes
<1>2. ~ReopensSorter => sorter' = sorter
  OBVIOUS
<1>3. flags.hasInserted = flags.hasRiskInsert
  BY DEF ObjectInv, FilesInv, Ownership, FlagsAgree
<1> QED
  BY <1>1, <1>2, <1>3 DEF SomebodyHasFiles, ReopensSorter

LEMMA UpdateHas ==
    ASSUME ObjectInv, SomebodyHasFiles, NEW pos, NEW len, NEW neu, UpdateInternal(pos, len, neu),
           sorter.open \/ ReopensSorter
    PROVE  /\ c'.open \/ sorter'.open
           /\ len >= Len(neu) => sorter'.open
<1>1. CASE len >= Len(neu)
  <2>1. sorter' = IF ReopensSorter THEN Mapped ELSE sorter
    BY <1>1 DEF UpdateInternal
  <2> QED BY <2>1, MapsWhenRead
<1>2. CASE ~(len >= Len(neu))
  <2>1. c' = Opened
    BY <1>2 DEF UpdateInternal
  <2>2. c'.open
    BY <2>1 DEF Opened, ObjectInv, FilesInv, Ownership, Shapes
  <2> QED BY <1>2, <2>2
<1> QED
  BY <1>1, <1>2

LEMMA SomebodyStep ==
    ASSUME ObjectInv, SomebodyHasFiles, [Next]_vars
    PROVE  SomebodyHasFiles'
<1>0. it \in Iterators
  BY DEF ObjectInv, ClientTyped
<1>1. ASSUME NEW rec, Append1(rec) PROVE SomebodyHasFiles'
  <2>1. c'.open /\ TakesFiles
    BY <1>1 DEF Append1
  <2> QED BY <2>1, TakesFilesHas DEF SomebodyHasFiles
<1>2. ASSUME NEW list \in Lists, MultiInsert(list) PROVE SomebodyHasFiles'
  <2>1. TakesFiles /\ c' = (IF ReopensWriter THEN Opened ELSE c)
    BY <1>2 DEF MultiInsert
  <2>2. c'.open
    <3>1. Opened.open
      BY DEF Opened, ObjectInv, FilesInv, Ownership, Shapes
    <3> QED BY <2>1, <3>1 DEF TakesFiles, CannotWrite
  <2> QED BY <2>1, <2>2, TakesFilesHas DEF SomebodyHasFiles
<1>3. CASE SortElement
  <2>1. sorter'.open
    BY <1>3 DEF SortElement, OpenedToSort, ObjectInv, FilesInv, Ownership, Shapes
  <2> QED BY <2>1 DEF SomebodyHasFiles
<1>4. CASE Begin
  <2>1. /\ sorter' = (IF ReopensSorter THEN Mapped ELSE sorter) /\ flags' = flags
        /\ c' = (IF ReopensSorter THEN Closed ELSE c) /\ it' = FirstOf(sorter')
    BY <1>4 DEF Begin, ReadOpens
  <2>2. ~sorter.open => sorter.entries = 0
    BY DEF ObjectInv, SlotsExist
  <2>3. it'.last # -1 => sorter'.open
    <3>1. CASE ReopensSorter \/ sorter.open
      BY <2>1, <3>1, MapsWhenRead
    <3>2. CASE ~(ReopensSorter \/ sorter.open)
      BY <2>1, <2>2, <3>2 DEF FirstOf
    <3> QED BY <3>1, <3>2
  <2> QED BY <2>1, <2>3, MapsWhenRead DEF SomebodyHasFiles
<1>5. CASE \E rec \in Records : SearchFor(rec)
  <2>1. /\ sorter' = (IF ReopensSorter THEN Mapped ELSE sorter) /\ flags' = flags
        /\ c' = (IF ReopensSorter THEN Closed ELSE c) /\ CanSearch
    BY <1>5 DEF SearchFor, ReadOpens
  <2> QED BY <2>1, MapsWhenRead DEF SomebodyHasFiles, CanSearch
<1>6. CASE \E rec \in Records : UpdateIterAtEnd(rec)
  <2>1. /\ sorter' = (IF ReopensSorter THEN Mapped ELSE sorter) /\ flags' = flags
        /\ c' = (IF ReopensSorter THEN Closed ELSE c) /\ it' = [it EXCEPT !.live = TRUE]
        /\ it.live \/ (ReopensSorter /\ it.last # -1)
    BY <1>6 DEF UpdateIterAtEnd, ReadOpens
  <2> QED BY <1>0, <2>1, MapsWhenRead DEF SomebodyHasFiles, Iterators
<1>7. CASE Advance
  <2>1. UNCHANGED <<flags, sorter, c>> /\ it' = [it EXCEPT !.pos = it.pos + 1]
    BY <1>7 DEF Advance
  <2> QED BY <1>0, <2>1 DEF Iterators, SomebodyHasFiles
<1>8. ASSUME NEW old \in Records, NEW neu \in Records, Update(old, neu) PROVE SomebodyHasFiles'
  <2> DEFINE len == SizeOf(Locate(old))
  <2>1. CanSearch /\ UpdateInternal(Locate(old), len, neu)
    BY <1>8 DEF Update
  <2>2. \E same \in BOOLEAN :
          it' = IF len < Len(neu) THEN Dangling
                ELSE IF ReopensSorter THEN Remapped(same) ELSE it
    BY <1>8 DEF Update
  <2>3. len \in Int /\ Len(neu) \in Int
    <3>1. neu \in Bytes
      BY RecordsTyped
    <3>2. Len(neu) \in Nat
      BY <3>1, LenProperties DEF Bytes
    <3>3. Locate(old) + 1 \in 1..Len(index)
      BY <1>8 DEF Update, ObjectInv, FilesInv, Ownership, Shapes
    <3> DEFINE k == Locate(old) + 1
    <3>4. index[k] \in Entries
      <4>1. index \in Seq(Entries) /\ k \in 1..Len(index)
        BY <3>3 DEF ObjectInv, FilesInv, FilesTyped
      <4> HIDE DEF k
      <4> QED BY <4>1, ElementOfSeq
    <3>5. index[k].begin \in Nat /\ index[k].end \in Nat
      BY <3>4 DEF Entries
    <3> QED BY <3>2, <3>5 DEF SizeOf
  <2> HIDE DEF len
  <2>4. /\ c'.open \/ sorter'.open
        /\ len >= Len(neu) => sorter'.open
    BY <2>1, UpdateHas DEF CanSearch
  <2>5. CASE len >= Len(neu)
    BY <2>4, <2>5 DEF SomebodyHasFiles
  <2>6. CASE len < Len(neu)
    <3>1. it' = Dangling /\ (sorter.open \/ ReopensSorter)
      BY <2>1, <2>2, <2>6 DEF CanSearch
    <3>2. it'.live /\ it'.last # -1 => it.live /\ it.last # -1 /\ ~sorter.open
      BY <1>0, <3>1 DEF Dangling, Iterators
    <3> QED BY <2>4, <3>2 DEF SomebodyHasFiles
  <2> QED BY <2>3, <2>5, <2>6
<1>9. ASSUME NEW neu \in Records, UpdateIter(neu) PROVE SomebodyHasFiles'
  <2> DEFINE len == IF it.pos > it.last THEN 0 ELSE SizeOf(it.pos)
  <2>1. /\ UpdateInternal(it.pos, len, neu) /\ it' = [it EXCEPT !.live = len >= Len(neu)]
        /\ it.live \/ ReopensSorter
        /\ it.last # -1
    BY <1>9 DEF UpdateIter
  <2> HIDE DEF len
  <2>2. /\ c'.open \/ sorter'.open
        /\ len >= Len(neu) => sorter'.open
    BY <2>1, UpdateHas DEF SomebodyHasFiles
  <2> QED BY <1>0, <2>1, <2>2 DEF SomebodyHasFiles, Iterators
<1>10. CASE Unlink
  <2>1. c' = Closed /\ sorter' = [Unmapped EXCEPT !.set = FALSE] /\ it' = Dangling
    BY <1>10 DEF Unlink
  <2>2. ~sorter'.set
    BY <2>1 DEF Unmapped, ObjectInv, FilesInv, Ownership, Shapes
  <2>3. ~(it'.live /\ it'.last # -1)
    BY <1>0, <2>1 DEF Dangling, Iterators, SomebodyHasFiles
  <2> QED BY <2>2, <2>3 DEF SomebodyHasFiles
<1>11. CASE Reopen
  BY <1>11 DEF Reopen, NewFlags, NoIterator, SomebodyHasFiles
<1>12. CASE \/ InsertNothing \/ MultiInsertNothing \/ SortFails \/ SortedAlready \/ BeginFails
            \/ \E list \in Lists : MultiInsertFails(list)
            \/ \E rec \in Records : \/ InsertFails(rec) \/ InsertObjectFails(rec)
                                    \/ SearchFails(rec) \/ UpdateIterFails(rec)
            \/ \E old \in Records, neu \in Records : UpdateFails(old, neu)
            \/ UNCHANGED vars
  <2>1. UNCHANGED <<flags, sorter, c, it>>
    BY <1>12 DEF InsertNothing, MultiInsertNothing, SortFails, SortedAlready, BeginFails,
       MultiInsertFails, InsertFails, InsertObjectFails, SearchFails, UpdateIterFails, UpdateFails,
       Fails, vars, fileVars
  <2> QED BY <2>1 DEF SomebodyHasFiles
<1>13. ASSUME NEW rec \in Records, Insert(rec) \/ InsertObject(rec) PROVE SomebodyHasFiles'
  BY <1>1, <1>13 DEF Insert, InsertObject
<1>14. ASSUME NEW old \in Records, NEW neu \in Records, UpdateInserts(old, neu)
       PROVE  SomebodyHasFiles'
  BY <1>1, <1>14 DEF UpdateInserts
<1> QED
  BY <1>2, <1>3, <1>4, <1>5, <1>6, <1>7, <1>8, <1>9, <1>10, <1>11, <1>12, <1>13, <1>14 DEF Next

\* Insertion kills the process only after a reading call that no sort
\* followed, or after unlink: sorting makes the store writable again, and
\* nothing else closes the streams under the flags.
THEOREM InsertLivesUnlessReading == Spec => InsertDiesOnlyWhileReading
<1>1. Init => SomebodyHasFiles
  BY DEF Init, NewFlags, NoIterator, SomebodyHasFiles
<1>2. ObjectInv /\ SomebodyHasFiles /\ [Next]_vars => SomebodyHasFiles'
  BY SomebodyStep
<1>3. ASSUME ObjectInv, SomebodyHasFiles, [Next]_vars, vars' # vars, status' = "failed",
             reply'.op \in {"insert", "object"}
      PROVE  (sorter.open /\ ~flags.hasSorted) \/ ~sorter.set
  <2>1. ~(SortFails \/ BeginFails)
    BY <1>3 DEF SortFails, BeginFails, Fails, Replies
  <2>2. \A list \in Lists : ~MultiInsertFails(list)
    BY <1>3 DEF MultiInsertFails, Fails, Replies
  <2>3. \A rec \in Records : ~(SearchFails(rec) \/ UpdateIterFails(rec))
    BY <1>3 DEF SearchFails, UpdateIterFails, Fails, Replies
  <2>4. \A old \in Records, neu \in Records : ~UpdateFails(old, neu)
    BY <1>3 DEF UpdateFails, Fails, Replies
  <2>5. PICK rec \in Records : InsertFails(rec) \/ InsertObjectFails(rec)
    BY <1>3, <2>1, <2>2, <2>3, <2>4, OnlyFailsKill
  <2>6. CannotWrite
    BY <2>5 DEF InsertFails, InsertObjectFails
  <2>7. ~ReopensWriter /\ ~c.open /\ sorter.set => flags.hasInserted /\ sorter.open
    BY <1>3 DEF ReopensWriter, SomebodyHasFiles
  <2>8. flags.hasSorted => ~flags.hasInserted
    BY <1>3 DEF ObjectInv, FilesInv, Ownership, FlagsAgree
  <2> QED BY <2>6, <2>7, <2>8 DEF CannotWrite
<1>4. ObjectInv /\ SomebodyHasFiles /\ [Next]_vars =>
        [status' = "failed" /\ reply'.op \in {"insert", "object"} =>
            (sorter.open /\ ~flags.hasSorted) \/ ~sorter.set]_vars
  BY <1>3
<1> QED
  BY <1>1, <1>2, <1>4, ObjectInvariance, PTL DEF Spec, InsertDiesOnlyWhileReading

\* Only a search answers as a search does.
LEMMA OnlySearches ==
    ASSUME [Next]_vars, vars' # vars, reply'.op = "search"
    PROVE  \E rec \in Records : SearchFor(rec) \/ SearchFails(rec)
<1>1. ~(InsertNothing \/ MultiInsertNothing \/ SortElement \/ SortFails \/ SortedAlready \/ Begin
         \/ BeginFails \/ Advance \/ Unlink \/ Reopen)
  BY DEF InsertNothing, MultiInsertNothing, SortElement, SortFails, SortedAlready, Begin, BeginFails,
         Advance, Unlink, Reopen, Fails, Replies
<1>2. \A list \in Lists : ~(MultiInsert(list) \/ MultiInsertFails(list))
  BY DEF MultiInsert, MultiInsertFails, Fails, Replies
<1>3. \A rec \in Records :
        ~(Insert(rec) \/ InsertObject(rec) \/ InsertFails(rec) \/ InsertObjectFails(rec)
           \/ UpdateIter(rec) \/ UpdateIterAtEnd(rec) \/ UpdateIterFails(rec))
  BY DEF Insert, InsertObject, InsertFails, InsertObjectFails, UpdateIter, UpdateIterAtEnd,
         UpdateIterFails, Fails, Replies
<1>4. \A old \in Records, neu \in Records :
        ~(Update(old, neu) \/ UpdateInserts(old, neu) \/ UpdateFails(old, neu))
  BY DEF Update, UpdateInserts, UpdateFails, Fails, Replies
<1> QED
  BY <1>1, <1>2, <1>3, <1>4 DEF Next

\* With a comparator that orders the records, a search of a sorted store
\* finds a record that is equal to the one sought, and answers end() only if
\* there is none, whatever calls have led there.
THEOREM SortedSearchIsRight ==
    ASSUME ComparesInOrder
    PROVE  Spec => SortedSearchAnswers
<1> DEFINE Right ==
             /\ reply'.res = "end" =>
                   \A k \in 1..Len(index) : Compare(Contents[k], reply'.old) # 0
             /\ reply'.res = "found" => Compare(Contents[it'.pos + 1], reply'.old) = 0
<1>1. ASSUME ObjectInv, [Next]_vars, vars' # vars, reply'.op = "search", flags.hasSorted
      PROVE  Right
  <2>1. ASSUME NEW rec \in Records, SearchFails(rec) PROVE Right
    BY <2>1 DEF SearchFails, Fails, Replies
  <2>2. ASSUME NEW rec \in Records, SearchFor(rec) PROVE Right
    <3>1. /\ sorter.set /\ Locate(rec) # Astray
          /\ it'.pos = Locate(rec) /\ reply'.old = rec
          /\ reply'.res = IF Locate(rec) < Len(index) THEN "found" ELSE "end"
      BY <2>2 DEF SearchFor, ReadOpens, Replies
    <3>2. rec \in Bytes \ {<<>>}
      BY RecordsTyped
    <3>3. ContentsInOrder
      BY <1>1, <3>1, SortedIsReady
    <3>4. /\ Len(index) \in Nat
          /\ \A k \in 1..Len(index) : Contents[k] \in Bytes \ {<<>>}
      BY <1>1, ContentsTyped DEF ObjectInv, FilesInv
    <3>5. index \in Seq([begin : Nat, end : Nat])
      BY <1>1 DEF ObjectInv, FilesInv, FilesTyped, Entries
    <3>6. /\ Locate(rec) \in 0..Len(index)
          /\ Locate(rec) \in 0..(Len(index) - 1) => Compare(Contents[Locate(rec) + 1], rec) = 0
          /\ Locate(rec) = Len(index) => \A k \in 1..Len(index) : Compare(Contents[k], rec) # 0
      BY <3>1, <3>2, <3>3, <3>4, <3>5, LocateAnswers
    <3>7. CASE Locate(rec) < Len(index)
      <4>1. Locate(rec) \in 0..(Len(index) - 1) /\ reply'.res = "found"
        BY <3>1, <3>4, <3>6, <3>7
      <4> QED BY <3>1, <3>6, <4>1
    <3>8. CASE ~(Locate(rec) < Len(index))
      <4>1. Locate(rec) = Len(index) /\ reply'.res = "end"
        BY <3>1, <3>4, <3>6, <3>8
      <4> QED BY <3>1, <3>6, <4>1
    <3> QED BY <3>7, <3>8
  <2> QED BY <1>1, <2>1, <2>2, OnlySearches
<1>2. ObjectInv /\ [Next]_vars => [reply'.op = "search" /\ flags.hasSorted => Right]_vars
  BY <1>1
<1> QED
  BY <1>2, ObjectInvariance, PTL DEF Spec, SortedSearchAnswers
-----------------------------------------------------------------------------
(* Entries that hold whole records *)

\* Content of entry e in a file v.
Slice(v, e) == [k \in 1..(e.end - e.begin) |-> IF e.begin + k <= Len(v) THEN v[e.begin + k] ELSE 0]

LEMMA ContentsAreSlices ==
    /\ Contents = [k \in 1..Len(index) |-> Slice(values, index[k])]
    /\ Contents' = [k \in 1..Len(index') |-> Slice(values', index'[k])]
  BY DEF Contents, Content, Slice

\* An entry reads the same in two files that agree where it points.
LEMMA SlicesAgree ==
    ASSUME NEW v, NEW w, NEW e \in Entries, Len(v) \in Nat, Len(w) \in Nat,
           e.end <= Len(v), e.end <= Len(w),
           \A i \in Nat : e.begin < i /\ i <= e.end => v[i] = w[i]
    PROVE  Slice(v, e) = Slice(w, e)
<1>1. e.begin \in Nat /\ e.end \in Nat
  BY DEF Entries
<1> DEFINE Read(f, k) == IF e.begin + k <= Len(f) THEN f[e.begin + k] ELSE 0
<1>2. ASSUME NEW k \in 1..(e.end - e.begin) PROVE Read(v, k) = Read(w, k)
  <2> DEFINE i == e.begin + k
  <2>1. i \in Nat /\ e.begin < i /\ i <= e.end
    BY <1>1
  <2> HIDE DEF i
  <2>2. v[i] = w[i] /\ i <= Len(v) /\ i <= Len(w)
    BY <1>1, <2>1
  <2> QED BY <2>2 DEF i
<1>3. /\ Slice(v, e) = [k \in 1..(e.end - e.begin) |-> Read(v, k)]
      /\ Slice(w, e) = [k \in 1..(e.end - e.begin) |-> Read(w, k)]
  BY DEF Slice
<1> HIDE DEF Read
<1> QED
  BY <1>2, <1>3

\* An entry made for a record reads it where it was written.
LEMMA SliceReads ==
    ASSUME NEW v, NEW b \in Nat, NEW rec \in Bytes, Len(v) \in Nat, b + Len(rec) <= Len(v),
           \A i \in 1..Len(rec) : v[b + i] = rec[i]
    PROVE  Slice(v, [begin |-> b, end |-> b + Len(rec)]) = rec
<1> DEFINE e == [begin |-> b, end |-> b + Len(rec)]
<1>1. Len(rec) \in Nat /\ rec = [i \in 1..Len(rec) |-> rec[i]]
  BY LenProperties DEF Bytes
<1>2. e.begin = b /\ e.end - e.begin = Len(rec)
  BY <1>1
<1> DEFINE Read(k) == IF b + k <= Len(v) THEN v[b + k] ELSE 0
<1>3. ASSUME NEW k \in 1..Len(rec) PROVE Read(k) = rec[k]
  BY <1>1
<1>4. Slice(v, e) = [k \in 1..Len(rec) |-> Read(k)]
  BY <1>2 DEF Slice
<1> HIDE DEF Read
<1> QED
  BY <1>1, <1>3, <1>4

\* Every entry ends within the file.
Whole == \A k \in 1..Len(index) : index[k].end <= Len(values)

\* No two entries overlap.
Apart == \A k, m \in 1..Len(index) :
           k # m => index[k].end <= index[m].begin \/ index[m].end <= index[k].begin

\* Unless an offset was wrong, each entry has bytes of its own.
OwnBytes == ~skewed => Whole /\ Apart

\* risk_insert with an offset that is right adds the record.
LEMMA AppendContents ==
    ASSUME FilesInv, OwnBytes, NEW rec \in Bytes \ {<<>>}, Append1(rec), ~skewed'
    PROVE  Contents' = Append(Contents, rec) /\ OwnBytes'
<1>1. /\ values' = values \o rec
      /\ index' = Append(index, [begin |-> c.end, end |-> c.end + Len(rec)])
      /\ skewed' = (skewed \/ c.end # Len(values))
  BY DEF Append1
<1>2. c.end = Len(values) /\ Whole /\ Apart
  BY <1>1 DEF OwnBytes
<1> DEFINE n == Len(index)
           e == [begin |-> c.end, end |-> c.end + Len(rec)]
<1>3. /\ Len(values) \in Nat /\ Len(rec) \in Nat /\ Len(values') = Len(values) + Len(rec)
      /\ \A j \in 1..Len(values) : values'[j] = values[j]
      /\ \A i \in 1..Len(rec) : values'[Len(values) + i] = rec[i]
  BY <1>1, Joined, LenProperties DEF FilesInv, FilesTyped, Bytes
<1>4. e \in Entries /\ e.begin = Len(values) /\ e.end = Len(values') /\ index \in Seq(Entries)
  BY <1>2, <1>3 DEF FilesInv, FilesTyped, Entries
<1>5. index' = Append(index, e)
  BY <1>1
<1>6. Slice(values', e) = rec
  <2> DEFINE v == values'
             b == c.end
  <2>1. /\ b \in Nat /\ rec \in Bytes /\ Len(v) \in Nat /\ b + Len(rec) <= Len(v)
        /\ \A i \in 1..Len(rec) : v[b + i] = rec[i]
        /\ e = [begin |-> b, end |-> b + Len(rec)]
    BY <1>2, <1>3
  <2> HIDE DEF v, b, e
  <2>2. Slice(v, e) = rec
    BY <2>1, SliceReads, Zenon
  <2> QED BY <2>2 DEF v
<1> HIDE DEF e
<1>7. /\ n \in Nat /\ Len(index') = n + 1 /\ index'[n + 1] = e
      /\ \A k \in 1..n : index'[k] = index[k] /\ index[k] \in Entries
  BY <1>4, <1>5, AppendProperties, LenProperties, ElementOfSeq
<1>8. \A k \in 1..n : index[k].begin \in Nat /\ index[k].end \in Nat /\ index[k].end <= Len(values)
  BY <1>2, <1>7 DEF Whole, Entries
<1> HIDE DEF n
<1>9. ASSUME NEW k \in 1..n PROVE Slice(values', index'[k]) = Slice(values, index[k])
  <2> DEFINE d == index[k]
  <2>1. d \in Entries /\ d.end <= Len(values) /\ d.end \in Nat /\ d.begin \in Nat /\ index'[k] = d
    BY <1>7, <1>8
  <2> HIDE DEF d
  <2>2. \A i \in Nat : d.begin < i /\ i <= d.end => values[i] = values'[i]
    BY <1>3, <2>1
  <2>3. Len(values') \in Nat /\ d.end <= Len(values')
    BY <1>3, <2>1
  <2>4. Slice(values, d) = Slice(values', d)
    BY <1>3, <2>1, <2>2, <2>3, SlicesAgree
  <2> QED BY <2>1, <2>4 DEF d
<1>10. Contents' = Append(Contents, rec)
  <2>1. /\ Len(Contents) = n /\ Contents \in Seq(Bytes) /\ rec \in Bytes
        /\ \A k \in 1..n : Contents[k] = Slice(values, index[k])
    BY ContentsTyped, ContentsAreSlices DEF FilesInv, n
  <2>2. Contents' = [k \in 1..(n + 1) |-> Slice(values', index'[k])]
    BY <1>7, ContentsAreSlices
  <2> DEFINE t == Append(Contents, rec)
  <2>3. /\ t \in Seq(Bytes) /\ Len(t) = n + 1 /\ t[n + 1] = rec
        /\ \A k \in 1..n : t[k] = Contents[k]
    BY <2>1, AppendProperties
  <2> HIDE DEF t
  <2>4. t = [k \in 1..(n + 1) |-> t[k]]
    BY <2>3, LenProperties
  <2>5. ASSUME NEW k \in 1..(n + 1) PROVE t[k] = Slice(values', index'[k])
    <3>1. CASE k = n + 1
      BY <1>6, <1>7, <2>3, <3>1
    <3>2. CASE k # n + 1
      <4>1. k \in 1..n
        BY <1>7, <3>2
      <4> QED BY <1>9, <2>1, <2>3, <4>1
    <3> QED BY <3>1, <3>2
  <2> QED BY <2>2, <2>4, <2>5 DEF t
<1>11. Whole'
  <2> SUFFICES ASSUME NEW k \in 1..(n + 1) PROVE index'[k].end <= Len(values')
    BY <1>7 DEF Whole
  <2>1. CASE k = n + 1
    BY <1>3, <1>4, <1>7, <2>1
  <2>2. CASE k # n + 1
    <3>1. k \in 1..n
      BY <1>7, <2>2
    <3> QED BY <1>3, <1>7, <1>8, <3>1
  <2> QED BY <2>1, <2>2
<1>12. Apart'
  <2> SUFFICES ASSUME NEW k \in 1..(n + 1), NEW m \in 1..(n + 1), k # m
               PROVE  index'[k].end <= index'[m].begin \/ index'[m].end <= index'[k].begin
    BY <1>7 DEF Apart
  <2>1. CASE k = n + 1
    <3>1. m \in 1..n
      BY <1>7, <2>1
    <3> QED BY <1>4, <1>7, <1>8, <2>1, <3>1
  <2>2. CASE m = n + 1
    <3>1. k \in 1..n
      BY <1>7, <2>2
    <3> QED BY <1>4, <1>7, <1>8, <2>2, <3>1
  <2>3. CASE k # n + 1 /\ m # n + 1
    <3>1. k \in 1..n /\ m \in 1..n
      BY <1>7, <2>3
    <3> QED BY <1>2, <1>7, <3>1 DEF Apart, n
  <2> QED BY <2>1, <2>2, <2>3
<1> QED
  BY <1>10, <1>11, <1>12 DEF OwnBytes
\* One entry now reads another record, from bytes no other entry has.
LEMMA RewriteContents ==
    ASSUME FilesTyped, Whole, Apart, NEW k \in 1..Len(index), NEW e \in Entries, NEW neu \in Bytes,
           index' = [index EXCEPT ![k] = e], Slice(values', e) = neu,
           values' \in Bytes, Len(values) <= Len(values'), e.end <= Len(values'),
           \A m \in 1..Len(index) :
              m # k => index[m].end <= e.begin \/ e.end <= index[m].begin,
           \A i \in 1..Len(values) : (e.begin < i /\ i <= e.end) \/ values'[i] = values[i]
    PROVE  Contents' = [Contents EXCEPT ![k] = neu] /\ Whole' /\ Apart'
<1> DEFINE n == Len(index)
<1>1. index \in Seq(Entries)
  BY DEF FilesTyped
<1>2. /\ n \in Nat /\ Len(index') = n
      /\ \A m \in 1..n : index[m] \in Entries /\ index'[m] = IF m = k THEN e ELSE index[m]
  BY <1>1, ExceptSeq, ElementOfSeq, LenProperties
<1>3. \A m \in 1..n : index[m].begin \in Nat /\ index[m].end \in Nat /\ index[m].end <= Len(values)
  BY <1>2 DEF Whole, Entries
<1>4. Len(values) \in Nat /\ Len(values') \in Nat /\ e.begin \in Nat /\ e.end \in Nat
  BY LenProperties DEF FilesTyped, Bytes, Entries
<1>5. /\ Contents \in Seq(Bytes) /\ Len(Contents) = n
      /\ \A m \in 1..n : Contents[m] = Slice(values, index[m])
  BY ContentsTyped, ContentsAreSlices
<1> HIDE DEF n
<1>6. ASSUME NEW m \in 1..n, m # k PROVE Slice(values', index'[m]) = Slice(values, index[m])
  <2> DEFINE d == index[m]
  <2>1. /\ d \in Entries /\ d.begin \in Nat /\ d.end \in Nat /\ d.end <= Len(values)
        /\ index'[m] = d /\ (d.end <= e.begin \/ e.end <= d.begin)
    BY <1>2, <1>3, <1>6 DEF n
  <2> HIDE DEF d
  <2>2. ASSUME NEW i \in Nat, d.begin < i, i <= d.end PROVE values[i] = values'[i]
    <3>1. i \in 1..Len(values) /\ ~(e.begin < i /\ i <= e.end)
      BY <1>4, <2>1, <2>2
    <3> QED BY <3>1
  <2>3. d.end <= Len(values')
    BY <1>4, <2>1
  <2>4. Slice(values, d) = Slice(values', d)
    BY <1>4, <2>1, <2>2, <2>3, SlicesAgree
  <2> QED BY <2>1, <2>4 DEF d
<1>7. Contents' = [Contents EXCEPT ![k] = neu]
  <2>1. Contents' = [m \in 1..n |-> Slice(values', index'[m])]
    BY <1>2, ContentsAreSlices
  <2> DEFINE t == [Contents EXCEPT ![k] = neu]
  <2>2. k \in 1..n
    BY DEF n
  <2>3. t \in Seq(Bytes) /\ Len(t) = n /\ \A m \in 1..n : t[m] = IF m = k THEN neu ELSE Contents[m]
    BY <1>5, <2>2, ExceptSeq
  <2> HIDE DEF t
  <2>4. t = [m \in 1..n |-> t[m]]
    BY <2>3, LenProperties
  <2>5. ASSUME NEW m \in 1..n PROVE t[m] = Slice(values', index'[m])
    <3>1. CASE m = k
      BY <1>2, <2>3, <3>1
    <3>2. CASE m # k
      BY <1>5, <1>6, <2>3, <3>2
    <3> QED BY <3>1, <3>2
  <2> QED BY <2>1, <2>4, <2>5 DEF t
<1>8. Whole'
  <2> SUFFICES ASSUME NEW m \in 1..n PROVE index'[m].end <= Len(values')
    BY <1>2 DEF Whole
  <2>1. CASE m = k
    BY <1>2, <2>1
  <2>2. CASE m # k
    BY <1>2, <1>3, <1>4, <2>2
  <2> QED BY <2>1, <2>2
<1>9. Apart'
  <2> SUFFICES ASSUME NEW j \in 1..n, NEW m \in 1..n, j # m
               PROVE  index'[j].end <= index'[m].begin \/ index'[m].end <= index'[j].begin
    BY <1>2 DEF Apart
  <2>1. CASE j = k
    <3>1. index'[j] = e /\ index'[m] = index[m]
      BY <1>2, <2>1
    <3> QED BY <2>1, <3>1 DEF n
  <2>2. CASE m = k
    <3>1. index'[m] = e /\ index'[j] = index[j]
      BY <1>2, <2>2
    <3> QED BY <2>2, <3>1 DEF n
  <2>3. CASE j # k /\ m # k
    <3>1. index'[m] = index[m] /\ index'[j] = index[j]
      BY <1>2, <2>3
    <3> QED BY <3>1 DEF Apart, n
  <2> QED BY <2>1, <2>2, <2>3
<1> QED
  BY <1>7, <1>8, <1>9

\* update_internal replaces the record of its slot and no other, whether the
\* record is written over the old one or to the end of the file.
LEMMA UpdateContents ==
    ASSUME FilesInv, OwnBytes, NEW pos \in Nat, NEW len, NEW neu \in Bytes \ {<<>>},
           UpdateInternal(pos, len, neu), ~skewed',
           len >= Len(neu) => pos < Len(index) /\ len = SizeOf(pos)
    PROVE  /\ pos + 1 \in 1..Len(index)
           /\ Contents' = [Contents EXCEPT ![pos + 1] = neu] /\ OwnBytes'
<1>1. /\ Len(index) \in Nat /\ Len(values) \in Nat /\ Len(neu) \in Nat /\ neu \in Bytes
      /\ \A i \in 1..Len(neu) : neu[i] = neu[i]
  BY LenProperties DEF FilesInv, FilesTyped, Bytes
<1>2. ~skewed
  BY DEF UpdateInternal, Overwrite, MoveToEnd
<1>3. pos + 1 \in 1..Len(index)
  <2>1. CASE len >= Len(neu)
    BY <1>1, <2>1
  <2>2. CASE ~(len >= Len(neu))
    <3>1. ~(pos >= Len(index))
      BY <2>2 DEF UpdateInternal, MoveToEnd
    <3> QED BY <1>1, <3>1
  <2> QED BY <2>1, <2>2
<1>4. Whole /\ Apart /\ FilesTyped /\ FilesTyped'
  <2>1. pos < Len(index)
    BY <1>1, <1>3
  <2> QED BY <1>2, <2>1, UpdateFiles DEF OwnBytes, FilesInv
<1>5. values' \in Bytes
  BY <1>4 DEF FilesTyped
<1> DEFINE k == pos + 1
           d == index[k]
<1>6. k \in 1..Len(index) /\ d \in Entries /\ d.begin \in Nat /\ d.end \in Nat /\ d.end <= Len(values)
  <2>1. d \in Entries
    BY <1>3, <1>4, ElementOfSeq DEF FilesTyped
  <2> QED BY <1>3, <1>4, <2>1 DEF Whole, Entries
<1>7. \A m \in 1..Len(index) :
        /\ index[m].begin \in Nat /\ index[m].end \in Nat /\ index[m].end <= Len(values)
        /\ m # k => index[m].end <= d.begin \/ d.end <= index[m].begin
  <2> SUFFICES ASSUME NEW m \in 1..Len(index)
               PROVE  /\ index[m].begin \in Nat /\ index[m].end \in Nat /\ index[m].end <= Len(values)
                      /\ m # k => index[m].end <= d.begin \/ d.end <= index[m].begin
    OBVIOUS
  <2>1. index[m] \in Entries
    BY <1>4, ElementOfSeq DEF FilesTyped
  <2>2. index[m].begin \in Nat /\ index[m].end \in Nat
    BY <2>1 DEF Entries
  <2> QED BY <1>4, <1>6, <2>2 DEF Whole, Apart
<1>8. CASE len >= Len(neu)
  <2> DEFINE b == d.begin
             e == [begin |-> b, end |-> b + Len(neu)]
  <2>1. index' = [index EXCEPT ![k] = e]
    <3>1. index' = [index EXCEPT ![pos + 1].end = index[pos + 1].begin + Len(neu)]
      BY <1>8 DEF UpdateInternal, Overwrite, SetNewLen
    <3>2. [d EXCEPT !.end = d.begin + Len(neu)] = e
      BY <1>6 DEF Entries
    <3> QED BY <3>1, <3>2
  <2>2. values' = Overlay(b, neu)
    BY <1>8 DEF UpdateInternal, Overwrite
  <2>3. b \in Nat /\ b + Len(neu) <= d.end /\ b + Len(neu) <= Len(values)
    <3>1. len = d.end - d.begin
      BY <1>8 DEF SizeOf
    <3> QED BY <1>1, <1>6, <1>8, <3>1
  <2>4. e \in Entries /\ e.begin = b /\ e.end = b + Len(neu)
    BY <1>1, <2>3 DEF Entries
  <2> HIDE DEF d, b, k
  <2>5. Len(values') = Len(values)
    BY <1>5, <2>2, <2>3, <1>1, <1>4, OverlayTyped DEF FilesTyped
  <2>6. \A i \in 1..Len(values) :
          values'[i] = IF i \in (b + 1)..(b + Len(neu)) THEN neu[i - b] ELSE values[i]
    BY <2>2 DEF Overlay
  <2>7. ASSUME NEW i \in 1..Len(neu) PROVE values'[b + i] = neu[i]
    <3> DEFINE j == b + i
    <3>1. j \in 1..Len(values) /\ j \in (b + 1)..(b + Len(neu)) /\ j - b = i
      BY <1>1, <2>3
    <3> HIDE DEF j
    <3>2. values'[j] = neu[i]
      BY <2>6, <3>1
    <3> QED BY <3>2 DEF j
  <2>8. Slice(values', e) = neu
    <3> DEFINE v == values'
    <3>1. /\ Len(v) \in Nat /\ b + Len(neu) <= Len(v)
          /\ \A i \in 1..Len(neu) : v[b + i] = neu[i]
      BY <1>1, <2>3, <2>5, <2>7
    <3> HIDE DEF v
    <3>2. Slice(v, e) = neu
      BY <1>1, <2>3, <3>1, SliceReads, Zenon
    <3> QED BY <3>2 DEF v
  <2>9. \A m \in 1..Len(index) : m # k => index[m].end <= e.begin \/ e.end <= index[m].begin
    BY <1>1, <1>6, <1>7, <2>3, <2>4 DEF b
  <2>10. \A i \in 1..Len(values) : (e.begin < i /\ i <= e.end) \/ values'[i] = values[i]
    BY <1>1, <2>3, <2>4, <2>6
  <2>11. Len(values) <= Len(values') /\ e.end <= Len(values')
    BY <1>1, <2>3, <2>4, <2>5
  <2> HIDE DEF e
  <2>12. Contents' = [Contents EXCEPT ![k] = neu] /\ Whole' /\ Apart'
    BY <1>1, <1>4, <1>5, <1>6, <2>1, <2>4, <2>8, <2>9, <2>10, <2>11, RewriteContents
  <2> QED BY <1>3, <2>12 DEF OwnBytes, k
<1>9. CASE ~(len >= Len(neu))
  <2> DEFINE b == LastEnd
             e == [begin |-> b, end |-> b + Len(neu)]
  <2>1. /\ values' = values \o neu /\ b = Len(values) /\ pos < Len(index)
        /\ index' = [index EXCEPT ![k] = e]
    <3>1. /\ values' = values \o neu
          /\ index' = IF pos < Len(index) THEN UpdateWith(pos, LastEnd, Len(neu)) ELSE index
          /\ skewed' = (skewed \/ LastEnd # Len(values) \/ pos >= Len(index))
      BY <1>9 DEF UpdateInternal, MoveToEnd
    <3>2. LastEnd = Len(values)
      BY <3>1
    <3>3. pos < Len(index)
      BY <1>1, <1>3
    <3> QED BY <3>1, <3>2, <3>3 DEF UpdateWith
  <2>2. b \in Nat /\ e \in Entries /\ e.begin = b /\ e.end = b + Len(neu)
    BY <1>1, <2>1 DEF Entries
  <2>3. /\ Len(values') = Len(values) + Len(neu)
        /\ \A j \in 1..Len(values) : values'[j] = values[j]
        /\ \A i \in 1..Len(neu) : values'[Len(values) + i] = neu[i]
    BY <1>1, <1>4, <2>1, Joined DEF FilesTyped
  <2> HIDE DEF d, b, k
  <2>4. Slice(values', e) = neu
    <3> DEFINE v == values'
    <3>1. /\ Len(v) \in Nat /\ b + Len(neu) <= Len(v)
          /\ \A i \in 1..Len(neu) : v[b + i] = neu[i]
      BY <1>1, <2>1, <2>3
    <3> HIDE DEF v
    <3>2. Slice(v, e) = neu
      BY <1>1, <2>2, <3>1, SliceReads, Zenon
    <3> QED BY <3>2 DEF v
  <2>5. \A m \in 1..Len(index) : m # k => index[m].end <= e.begin \/ e.end <= index[m].begin
    BY <1>7, <2>1, <2>2
  <2>6. \A i \in 1..Len(values) : (e.begin < i /\ i <= e.end) \/ values'[i] = values[i]
    BY <2>3
  <2>7. Len(values) <= Len(values') /\ e.end <= Len(values')
    BY <1>1, <2>1, <2>2, <2>3
  <2> HIDE DEF e
  <2>8. index' = [index EXCEPT ![k] = e]
    BY <2>1
  <2>9. Contents' = [Contents EXCEPT ![k] = neu] /\ Whole' /\ Apart'
    BY <1>1, <1>4, <1>5, <1>6, <2>2, <2>4, <2>5, <2>6, <2>7, <2>8, RewriteContents
  <2> QED BY <1>3, <2>9 DEF OwnBytes, k
<1> QED
  BY <1>8, <1>9

\* sortElement lays the entries end to end.
LEMMA SortSeparates ==
    ASSUME FilesTyped, SortElement
    PROVE  Whole' /\ Apart' /\ index # <<>> /\ index' # <<>> /\ index'[1].begin = 0
<1> DEFINE n == Len(index)
<1>1. /\ Len(index') = n /\ index' \in Seq(Entries)
      /\ \A k \in 1..n : /\ index'[k].begin < index'[k].end /\ index'[k].end <= Len(values')
                         /\ index'[k].begin = IF k = 1 THEN 0 ELSE index'[k - 1].end
  BY SortResult
<1>2. n \in Nat /\ n # 0 /\ index # <<>>
  <2>1. index # <<>>
    BY DEF SortElement
  <2> QED BY <2>1, LenProperties, EmptySeq DEF FilesTyped
<1> HIDE DEF n
<1>3. \A k \in 1..n : index'[k].begin \in Nat /\ index'[k].end \in Nat
  <2> SUFFICES ASSUME NEW k \in 1..n PROVE index'[k].begin \in Nat /\ index'[k].end \in Nat
    OBVIOUS
  <2>1. index'[k] \in Entries
    BY <1>1, ElementOfSeq
  <2> QED BY <2>1 DEF Entries
<1>4. ASSUME NEW k \in 1..n
      PROVE  \A m \in 1..n : k < m => index'[k].end <= index'[m].begin
  <2> DEFINE Follows(m) == k < m /\ m <= n => index'[k].end <= index'[m].begin
             D == {m \in Nat : Follows(m)}
  <2>1. 0 \in D
    OBVIOUS
  <2>2. ASSUME NEW m \in Nat, m \in D PROVE m + 1 \in D
    <3> SUFFICES ASSUME k < m + 1, m + 1 <= n PROVE index'[k].end <= index'[m + 1].begin
      OBVIOUS
    <3> DEFINE j == m + 1
    <3>1. m \in 1..n /\ j \in 1..n /\ j # 1 /\ j - 1 = m
      BY <1>2
    <3> HIDE DEF j
    <3>2. index'[j].begin = index'[m].end
      BY <1>1, <3>1
    <3>3. CASE k = m
      BY <1>3, <3>2, <3>3 DEF j
    <3>4. CASE k # m
      <4>1. k < m /\ m <= n
        BY <1>2, <3>1, <3>4 DEF j
      <4>2. index'[k].end <= index'[m].begin
        BY <2>2, <4>1
      <4>3. index'[m].begin < index'[m].end
        BY <1>1, <3>1
      <4>4. index'[k].end <= index'[j].begin
        BY <1>3, <3>1, <3>2, <4>2, <4>3
      <4> QED BY <4>4 DEF j
    <3> QED BY <3>3, <3>4
  <2> HIDE DEF D
  <2>3. \A m \in Nat : m \in D
    BY <2>1, <2>2, SetInduction
  <2> QED BY <1>2, <2>3 DEF D
<1>5. Apart'
  <2> SUFFICES ASSUME NEW k \in 1..n, NEW m \in 1..n, k # m
               PROVE  index'[k].end <= index'[m].begin \/ index'[m].end <= index'[k].begin
    BY <1>1 DEF Apart
  <2>1. k < m \/ m < k
    BY <1>2
  <2> QED BY <1>4, <2>1
<1>6. Whole'
  BY <1>1 DEF Whole
<1>7. 1 \in 1..n /\ index' # <<>>
  BY <1>1, <1>2
<1> QED
  BY <1>1, <1>2, <1>5, <1>6, <1>7
-----------------------------------------------------------------------------
(* The bag of records *)

Count(s, n, r) == Cardinality({k \in 1..n : s[k] = r})
BagOf(s, n) == [r \in Range(s) |-> Count(s, n, r)]

LEMMA ContentsBag ==
    /\ BagOfContents = BagOf(Contents, Len(index))
    /\ BagOfContents' = BagOf(Contents', Len(index'))
  BY DEF BagOfContents, BagOf, Count

\* One slot and the others.
Others(s, n, k, r) == {j \in 1..n : j # k /\ s[j] = r}

LEMMA CountAt ==
    ASSUME NEW s, NEW n \in Nat, NEW k \in 1..n, NEW r
    PROVE  /\ Cardinality(Others(s, n, k, r)) \in Nat
           /\ Count(s, n, r) = Cardinality(Others(s, n, k, r)) + (IF s[k] = r THEN 1 ELSE 0)
<1> USE DEF Others
<1> DEFINE A == Others(s, n, k, r)
           B == {j \in 1..n : s[j] = r}
<1>1. IsFiniteSet(1..n)
  BY FS_Interval
<1>2. A \in SUBSET (1..n)
  OBVIOUS
<1>3. IsFiniteSet(A) /\ Cardinality(A) \in Nat
  <2> HIDE DEF A
  <2> QED BY <1>1, <1>2, FS_Subset, FS_CardinalityType
<1>4. CASE s[k] = r
  <2>1. B = A \union {k} /\ k \notin A
    BY <1>4
  <2> HIDE DEF A
  <2>2. Cardinality(A \union {k}) = Cardinality(A) + 1
    BY <1>3, <2>1, FS_AddElement
  <2> QED BY <1>3, <1>4, <2>1, <2>2 DEF A, Count
<1>5. CASE s[k] # r
  <2>1. B = A
    BY <1>5
  <2> QED BY <1>3, <1>5, <2>1 DEF Count
<1> QED
  BY <1>4, <1>5

LEMMA CountPositive ==
    ASSUME NEW S, NEW s \in Seq(S), NEW r
    PROVE  Count(s, Len(s), r) \in Nat /\ (r \in Range(s) <=> Count(s, Len(s), r) > 0)
<1> DEFINE B == {j \in 1..Len(s) : s[j] = r}
<1>1. Len(s) \in Nat /\ DOMAIN s = 1..Len(s)
  BY LenProperties
<1>2. IsFiniteSet(1..Len(s)) /\ B \in SUBSET (1..Len(s))
  BY <1>1, FS_Interval
<1>3. r \in Range(s) <=> B # {}
  BY <1>1 DEF Range
<1> HIDE DEF B
<1>4. IsFiniteSet(B) /\ Cardinality(B) \in Nat /\ (Cardinality(B) = 0 <=> B = {})
  BY <1>2, FS_Subset, FS_CardinalityType, FS_EmptySet
<1>5. Count(s, Len(s), r) = Cardinality(B)
  BY DEF B, Count
<1> QED
  BY <1>3, <1>4, <1>5

\* What a bag of a sequence has of a record, zero if the record is not there.
LEMMA BagOfHas ==
    ASSUME NEW S, NEW s \in Seq(S), NEW r
    PROVE  /\ DOMAIN BagOf(s, Len(s)) = Range(s)
           /\ (IF r \in Range(s) THEN BagOf(s, Len(s))[r] ELSE 0) = Count(s, Len(s), r)
<1>1. Count(s, Len(s), r) \in Nat /\ (r \in Range(s) <=> Count(s, Len(s), r) > 0)
  BY CountPositive
<1>2. DOMAIN BagOf(s, Len(s)) = Range(s)
  BY DEF BagOf
<1>3. r \in Range(s) => BagOf(s, Len(s))[r] = Count(s, Len(s), r)
  BY DEF BagOf
<1> QED
  BY <1>1, <1>2, <1>3

LEMMA BagAppend ==
    ASSUME NEW S, NEW s \in Seq(S), NEW r \in S
    PROVE  BagOf(Append(s, r), Len(s) + 1) = BagOf(s, Len(s)) (+) SetToBag({r})
<1> DEFINE n == Len(s)
           t == Append(s, r)
           B == BagOf(s, n)
           C == SetToBag({r})
<1>1. /\ n \in Nat /\ DOMAIN s = 1..n
      /\ t \in Seq(S) /\ Len(t) = n + 1 /\ DOMAIN t = 1..(n + 1)
      /\ t[n + 1] = r /\ \A k \in 1..n : t[k] = s[k]
  BY AppendProperties, LenProperties
<1>2. DOMAIN C = {r} /\ C[r] = 1
  BY DEF SetToBag
<1> HIDE DEF n, t
<1>3. Range(t) = Range(s) \union {r}
  <2>1. ASSUME NEW x \in Range(t) PROVE x \in Range(s) \union {r}
    <3>1. PICK k \in 1..(n + 1) : t[k] = x
      BY <1>1, <2>1 DEF Range
    <3>2. CASE k = n + 1
      BY <1>1, <3>1, <3>2
    <3>3. CASE k # n + 1
      <4>1. k \in 1..n
        BY <1>1, <3>3
      <4> QED BY <1>1, <3>1, <4>1 DEF Range
    <3> QED BY <3>2, <3>3
  <2>2. ASSUME NEW x \in Range(s) PROVE x \in Range(t)
    <3>1. PICK k \in 1..n : s[k] = x
      BY <1>1, <2>2 DEF Range
    <3>2. k \in 1..(n + 1) /\ t[k] = x
      BY <1>1, <3>1
    <3> QED BY <1>1, <3>2 DEF Range
  <2>3. r \in Range(t)
    <3>1. n + 1 \in 1..(n + 1)
      BY <1>1
    <3> QED BY <1>1, <3>1 DEF Range
  <2> QED BY <2>1, <2>2, <2>3
<1>4. ASSUME NEW x
      PROVE  /\ Count(t, n + 1, x) = Count(s, n, x) + (IF x = r THEN 1 ELSE 0)
             /\ Count(s, n, x) \in Nat
  <2> DEFINE m == n + 1
  <2>1. m \in Nat /\ m \in 1..m
    BY <1>1
  <2>2. Others(t, m, m, x) = {j \in 1..n : s[j] = x}
    <3>1. \A j : j \in 1..m /\ j # m <=> j \in 1..n
      BY <1>1
    <3> HIDE DEF m
    <3> QED BY <1>1, <3>1 DEF Others
  <2>3. t[m] = r
    BY <1>1
  <2> HIDE DEF m
  <2>4. Count(t, m, x) = Cardinality(Others(t, m, m, x)) + (IF t[m] = x THEN 1 ELSE 0)
    BY <2>1, CountAt
  <2>5. Count(s, n, x) = Cardinality({j \in 1..n : s[j] = x})
    BY DEF Count
  <2>6. Count(s, n, x) \in Nat
    BY CountPositive DEF n
  <2> QED BY <2>2, <2>3, <2>4, <2>5, <2>6 DEF m
<1>5. DOMAIN B = Range(s) /\ \A x : (IF x \in Range(s) THEN B[x] ELSE 0) = Count(s, n, x)
  BY BagOfHas DEF n
<1>6. BagOf(t, n + 1) = [x \in Range(t) |-> Count(t, n + 1, x)]
  BY DEF BagOf
<1>7. B (+) C = [x \in Range(s) \union {r} |-> (IF x \in Range(s) THEN B[x] ELSE 0)
                                               + (IF x \in {r} THEN C[x] ELSE 0)]
  BY <1>2, <1>5 DEF (+)
<1> HIDE DEF B, C
<1>8. ASSUME NEW x
      PROVE  Count(t, n + 1, x) = (IF x \in Range(s) THEN B[x] ELSE 0) + (IF x \in {r} THEN C[x] ELSE 0)
  BY <1>2, <1>4, <1>5
<1>9. BagOf(t, n + 1) = B (+) C
  BY <1>3, <1>6, <1>7, <1>8
<1> QED
  BY <1>9 DEF B, C, n, t

\* The sequence s with r in the place of its k-th.
Put(s, k, r) == [s EXCEPT ![k] = r]
Swapped(B, q, r) == (B (-) SetToBag({q})) (+) SetToBag({r})

LEMMA BagReplace ==
    ASSUME NEW S, NEW s \in Seq(S), NEW k \in 1..Len(s), NEW r \in S
    PROVE  /\ BagOf(Put(s, k, r), Len(s)) = Swapped(BagOf(s, Len(s)), s[k], r)
           /\ s[k] \in BagToSet(BagOf(s, Len(s)))
<1> DEFINE n == Len(s)
           t == Put(s, k, r)
           q == s[k]
           B == BagOf(s, n)
           C == SetToBag({r})
           Q == SetToBag({q})
           M == B (-) Q
<1>0. /\ t \in Seq(S) /\ Len(t) = Len(s)
      /\ \A j \in 1..Len(s) : t[j] = IF j = k THEN r ELSE s[j]
  BY ExceptSeq DEF Put
<1> HIDE DEF t
<1>1. /\ n \in Nat /\ k \in 1..n /\ DOMAIN s = 1..n
      /\ t \in Seq(S) /\ Len(t) = n /\ DOMAIN t = 1..n
      /\ \A j \in 1..n : t[j] = IF j = k THEN r ELSE s[j]
  BY <1>0, LenProperties
<1>2. DOMAIN C = {r} /\ C[r] = 1 /\ DOMAIN Q = {q} /\ Q[q] = 1
  BY DEF SetToBag
<1>3. /\ DOMAIN B = Range(s)
      /\ \A x : (IF x \in Range(s) THEN B[x] ELSE 0) = Count(s, n, x)
      /\ \A x : Count(s, n, x) \in Nat /\ (x \in Range(s) <=> Count(s, n, x) > 0)
      /\ \A x : Count(t, n, x) \in Nat /\ (x \in Range(t) <=> Count(t, n, x) > 0)
  BY <1>1, BagOfHas, CountPositive
<1>4. q \in Range(s)
  BY <1>1 DEF Range
<1> HIDE DEF n
<1>5. ASSUME NEW x
      PROVE  Count(t, n, x) + (IF q = x THEN 1 ELSE 0) = Count(s, n, x) + (IF r = x THEN 1 ELSE 0)
  <2>1. Others(t, n, k, x) = Others(s, n, k, x)
    BY <1>1 DEF Others
  <2>2. t[k] = r
    BY <1>1
  <2>3. /\ Cardinality(Others(s, n, k, x)) \in Nat
        /\ Count(s, n, x) = Cardinality(Others(s, n, k, x)) + (IF s[k] = x THEN 1 ELSE 0)
    BY <1>1, CountAt
  <2>4. Count(t, n, x) = Cardinality(Others(t, n, k, x)) + (IF t[k] = x THEN 1 ELSE 0)
    BY <1>1, CountAt
  <2>5. Count(s, n, x) = Cardinality(Others(s, n, k, x)) + (IF q = x THEN 1 ELSE 0)
    BY <2>3
  <2>6. Count(t, n, x) = Cardinality(Others(s, n, k, x)) + (IF r = x THEN 1 ELSE 0)
    BY <2>1, <2>2, <2>4
  <2> QED BY <2>3, <2>5, <2>6
<1> DEFINE Left(x) == IF x \in {q} THEN B[x] - Q[x] ELSE B[x]
<1>6. M = [x \in {d \in Range(s) : Left(d) > 0} |-> Left(x)]
  <2> DEFINE L == [x \in Range(s) |-> Left(x)]
  <2>1. M = [x \in {d \in DOMAIN L : L[d] > 0} |-> L[x]]
    BY <1>2, <1>3 DEF (-)
  <2> QED BY <2>1
<1> HIDE DEF B, C, Q, M, q
<1>7. ASSUME NEW x \in Range(s) PROVE Left(x) = Count(s, n, x) - (IF q = x THEN 1 ELSE 0)
  BY <1>2, <1>3
<1>8. DOMAIN M = {d \in Range(s) : Left(d) > 0} /\ \A x \in DOMAIN M : M[x] = Left(x)
  BY <1>6
<1> HIDE DEF Left
<1>9. ASSUME NEW x
      PROVE  (IF x \in DOMAIN M THEN M[x] ELSE 0) = Count(s, n, x) - (IF q = x THEN 1 ELSE 0)
  <2>1. CASE x \in Range(s)
    BY <1>3, <1>7, <1>8, <2>1
  <2>2. CASE x \notin Range(s)
    BY <1>3, <1>4, <1>8, <2>2
  <2> QED BY <2>1, <2>2
<1>10. ASSUME NEW x
       PROVE  Count(t, n, x) = (IF x \in DOMAIN M THEN M[x] ELSE 0) + (IF x \in {r} THEN C[x] ELSE 0)
  <2>1. (IF x \in {r} THEN C[x] ELSE 0) = IF r = x THEN 1 ELSE 0
    BY <1>2
  <2>2. Count(s, n, x) \in Nat /\ Count(t, n, x) \in Nat
    BY <1>3
  <2> QED BY <1>5, <1>9, <2>1, <2>2
<1>11. Range(t) = DOMAIN M \union {r}
  <2>1. ASSUME NEW x PROVE x \in Range(t) <=> x \in DOMAIN M \union {r}
    <3>1. x \in DOMAIN M => Count(s, n, x) - (IF q = x THEN 1 ELSE 0) > 0
      BY <1>7, <1>8
    <3>2. x \in Range(s) /\ Count(s, n, x) - (IF q = x THEN 1 ELSE 0) > 0 => x \in DOMAIN M
      BY <1>7, <1>8
    <3>3. /\ Count(s, n, x) \in Nat /\ (x \in Range(s) <=> Count(s, n, x) > 0)
          /\ Count(t, n, x) \in Nat /\ (x \in Range(t) <=> Count(t, n, x) > 0)
          /\ Count(t, n, x) + (IF q = x THEN 1 ELSE 0) = Count(s, n, x) + (IF r = x THEN 1 ELSE 0)
          /\ x = q => x \in Range(s)
      BY <1>3, <1>4, <1>5
    <3>4. CASE x = r
      BY <3>3, <3>4
    <3>5. CASE x # r
      BY <3>1, <3>2, <3>3, <3>5
    <3> QED BY <3>4, <3>5
  <2> QED BY <2>1
<1>12. M (+) C = [x \in DOMAIN M \union {r} |-> (IF x \in DOMAIN M THEN M[x] ELSE 0)
                                                + (IF x \in {r} THEN C[x] ELSE 0)]
  BY <1>2 DEF (+)
<1>13. BagOf(t, n) = M (+) C
  <2>1. BagOf(t, n) = [x \in Range(t) |-> Count(t, n, x)]
    BY DEF BagOf
  <2> QED BY <1>10, <1>11, <1>12, <2>1
<1> QED
  BY <1>3, <1>4, <1>13 DEF B, C, M, Q, q, t, n, BagToSet, Swapped

\* Another arrangement of the same records is the same bag.
LEMMA BagArranged ==
    ASSUME NEW S, NEW s \in Seq(S), NEW u \in Arrangements(s)
    PROVE  BagOf(u, Len(s)) = BagOf(s, Len(s))
<1> DEFINE n == Len(s)
<1>1. /\ u \in [1..n -> Range(s)] /\ n \in Nat
      /\ \A r \in Range(s) : Count(u, n, r) = Count(s, n, r)
  BY LenProperties DEF Arrangements, Count
<1> HIDE DEF n
<1>2. u \in Seq(Range(s)) /\ Len(u) = n
  BY <1>1
<1>3. \A r : r \in Range(u) <=> Count(u, n, r) > 0
  BY <1>2, CountPositive
<1>4. \A r : r \in Range(s) <=> Count(s, n, r) > 0
  BY CountPositive DEF n
<1>5. Range(u) \subseteq Range(s)
  BY <1>1 DEF Range
<1>6. Range(u) = Range(s)
  BY <1>1, <1>3, <1>4, <1>5
<1> QED
  BY <1>1, <1>6 DEF BagOf, n
-----------------------------------------------------------------------------
(* How long the records are together *)

\* u adds up the lengths of the first n records of s.
Sums(u, s, n) ==
    /\ \A k \in 0..n : u[k] \in Int
    /\ u[0] = 0 /\ \A k \in 1..n : u[k] = u[k - 1] + Len(s[k]) /\ Len(s[k]) \in Int

\* One more slot.
LEMMA CountNext ==
    ASSUME NEW s, NEW n \in Nat, NEW r
    PROVE  /\ Count(s, n, r) \in Nat
           /\ Count(s, n + 1, r) = Count(s, n, r) + (IF s[n + 1] = r THEN 1 ELSE 0)
<1> DEFINE m == n + 1
<1>1. m \in Nat /\ m \in 1..m
  OBVIOUS
<1>2. Others(s, m, m, r) = {j \in 1..n : s[j] = r}
  <2>1. \A j : j \in 1..m /\ j # m <=> j \in 1..n
    OBVIOUS
  <2> HIDE DEF m
  <2> QED BY <2>1 DEF Others
<1> HIDE DEF m
<1>3. /\ Cardinality(Others(s, m, m, r)) \in Nat
      /\ Count(s, m, r) = Cardinality(Others(s, m, m, r)) + (IF s[m] = r THEN 1 ELSE 0)
  BY <1>1, CountAt
<1>4. Count(s, n, r) = Cardinality({j \in 1..n : s[j] = r})
  BY DEF Count
<1> QED
  BY <1>2, <1>3, <1>4 DEF m

\* t is s with x in its k-th place; w adds up the lengths of t, u those of s.
IsPut(t, s, n, k, x) == \A i \in 1..n : t[i] = IF i = k THEN x ELSE s[i]
ChangesBy(w, u, s, n, k, x) == w[n] = u[n] - Len(s[k]) + Len(x)

\* A record put in the place of another changes the sum by their difference.
LEMMA PutSums ==
    ASSUME NEW n \in Nat, NEW s, NEW u, Sums(u, s, n), NEW k \in 1..n, NEW x, Len(x) \in Int,
           NEW t, IsPut(t, s, n, k, x)
    PROVE  \E w : Sums(w, t, n) /\ ChangesBy(w, u, s, n, k, x)
<1> DEFINE w == [m \in 0..n |-> IF m < k THEN u[m] ELSE u[m] - Len(s[k]) + Len(x)]
<1>1. /\ \A m \in 0..n : u[m] \in Int
      /\ u[0] = 0 /\ \A m \in 1..n : u[m] = u[m - 1] + Len(s[m]) /\ Len(s[m]) \in Int
  BY DEF Sums
<1>2. \A m \in 0..n : w[m] = IF m < k THEN u[m] ELSE u[m] - Len(s[k]) + Len(x)
  OBVIOUS
<1>3. \A m \in 1..n : t[m] = IF m = k THEN x ELSE s[m]
  BY DEF IsPut
<1> HIDE DEF w
<1>4. ASSUME NEW m \in 0..n PROVE w[m] \in Int
  <2>1. u[m] \in Int /\ Len(s[k]) \in Int
    BY <1>1
  <2>2. u[m] - Len(s[k]) + Len(x) \in Int
    BY <2>1
  <2>3. w[m] = IF m < k THEN u[m] ELSE u[m] - Len(s[k]) + Len(x)
    BY <1>2
  <2> QED BY <2>1, <2>2, <2>3
<1>5. w[0] = 0 /\ w[n] = u[n] - Len(s[k]) + Len(x)
  BY <1>1, <1>2
<1>6. ASSUME NEW m \in 1..n PROVE w[m] = w[m - 1] + Len(t[m]) /\ Len(t[m]) \in Int
  <2>1. m \in 0..n /\ m - 1 \in 0..n
    OBVIOUS
  <2>2. /\ w[m] = IF m < k THEN u[m] ELSE u[m] - Len(s[k]) + Len(x)
        /\ w[m - 1] = IF m - 1 < k THEN u[m - 1] ELSE u[m - 1] - Len(s[k]) + Len(x)
    BY <1>2, <2>1
  <2>3. /\ u[m] = u[m - 1] + Len(s[m]) /\ u[m] \in Int /\ u[m - 1] \in Int
        /\ Len(s[m]) \in Int /\ Len(s[k]) \in Int
    BY <1>1, <2>1
  <2>4. CASE m = k
    BY <1>3, <2>2, <2>3, <2>4
  <2>5. CASE m # k
    <3>1. t[m] = s[m]
      BY <1>3, <2>5
    <3>2. m < k <=> m - 1 < k
      BY <2>5
    <3> QED BY <2>2, <2>3, <3>1, <3>2
  <2> QED BY <2>4, <2>5
<1> QED
  BY <1>4, <1>5, <1>6 DEF Sums, ChangesBy

\* Sequences that have each record equally often are equally long together.
SameSums(n) ==
    \A s, u, t, v : /\ Sums(u, s, n) /\ Sums(v, t, n)
                    /\ \A r : Count(s, n, r) = Count(t, n, r)
                    => u[n] = v[n]

LEMMA CountsGiveSums == \A n \in Nat : SameSums(n)
<1> DEFINE D == {n \in Nat : SameSums(n)}
<1>1. 0 \in D
  BY DEF SameSums, Sums
<1>2. ASSUME NEW n \in Nat, n \in D PROVE n + 1 \in D
  <2> SUFFICES ASSUME NEW s, NEW u, NEW t, NEW v, Sums(u, s, n + 1), Sums(v, t, n + 1),
                      \A r : Count(s, n + 1, r) = Count(t, n + 1, r)
               PROVE  u[n + 1] = v[n + 1]
    BY DEF SameSums
  <2>0. SameSums(n)
    BY <1>2
  <2> HIDE DEF D
  <2> DEFINE x == t[n + 1]
             y == s[n + 1]
  <2>1. /\ Sums(u, s, n) /\ Sums(v, t, n)
        /\ u[n + 1] = u[n] + Len(y) /\ v[n + 1] = v[n] + Len(x)
        /\ u[n] \in Int /\ v[n] \in Int /\ Len(x) \in Int /\ Len(y) \in Int
    <3>1. n + 1 \in 1..(n + 1) /\ (n + 1) - 1 = n /\ n \in 0..(n + 1)
      OBVIOUS
    <3>2. \A k : (k \in 0..n => k \in 0..(n + 1)) /\ (k \in 1..n => k \in 1..(n + 1))
      OBVIOUS
    <3> QED BY <3>1, <3>2 DEF Sums
  <2>2. \A r : /\ Count(s, n, r) \in Nat /\ Count(t, n, r) \in Nat
               /\ Count(s, n + 1, r) = Count(s, n, r) + (IF y = r THEN 1 ELSE 0)
               /\ Count(t, n + 1, r) = Count(t, n, r) + (IF x = r THEN 1 ELSE 0)
    BY CountNext
  <2> HIDE DEF x, y
  <2>3. CASE x = y
    <3>1. ASSUME NEW r PROVE Count(s, n, r) = Count(t, n, r)
      BY <2>2, <2>3
    <3>2. u[n] = v[n]
      BY <2>0, <2>1, <3>1 DEF SameSums
    <3> QED BY <2>1, <2>3, <3>2
  <2>4. CASE x # y
    <3>1. PICK j \in 1..n : t[j] = y
      <4>1. Count(s, n + 1, y) = Count(s, n, y) + 1
        BY <2>2
      <4>2. Count(t, n + 1, y) = Count(t, n, y)
        BY <2>2, <2>4
      <4>3. Count(t, n, y) # 0
        BY <2>2, <4>1, <4>2
      <4>4. {i \in 1..n : t[i] = y} # {}
        BY <4>3, FS_EmptySet DEF Count
      <4> QED BY <4>4
    <3> DEFINE p == [i \in 1..n |-> IF i = j THEN x ELSE t[i]]
    <3>2. PICK w : Sums(w, p, n) /\ ChangesBy(w, v, t, n, j, x)
      <4>1. Sums(v, t, n) /\ Len(x) \in Int /\ IsPut(p, t, n, j, x)
        BY <2>1 DEF IsPut
      <4> HIDE DEF p
      <4> QED BY <4>1, PutSums
    <3>3. ASSUME NEW r PROVE Count(s, n, r) = Count(p, n, r)
      <4>1. Others(p, n, j, r) = Others(t, n, j, r) /\ p[j] = x
        BY DEF Others
      <4> HIDE DEF p
      <4>2. /\ Cardinality(Others(t, n, j, r)) \in Nat
            /\ Count(t, n, r) = Cardinality(Others(t, n, j, r)) + (IF t[j] = r THEN 1 ELSE 0)
        BY CountAt
      <4>3. Count(p, n, r) = Cardinality(Others(p, n, j, r)) + (IF p[j] = r THEN 1 ELSE 0)
        BY CountAt
      <4>4. Count(p, n, r) + (IF y = r THEN 1 ELSE 0) = Count(t, n, r) + (IF x = r THEN 1 ELSE 0)
        BY <3>1, <4>1, <4>2, <4>3
      <4>5. Count(s, n, r) + (IF y = r THEN 1 ELSE 0) = Count(t, n, r) + (IF x = r THEN 1 ELSE 0)
        BY <2>2
      <4>6. Count(p, n, r) \in Nat /\ Count(s, n, r) \in Nat
        BY <2>2, <4>1, <4>2, <4>3
      <4> QED BY <4>4, <4>5, <4>6
    <3> HIDE DEF p
    <3>4. u[n] = w[n]
      BY <2>0, <2>1, <3>2, <3>3 DEF SameSums
    <3> QED BY <2>1, <3>1, <3>2, <3>4 DEF ChangesBy
  <2> QED BY <2>3, <2>4
<1> HIDE DEF D
<1>3. \A n \in Nat : n \in D
  BY <1>1, <1>2, SetInduction
<1> QED
  BY <1>3 DEF D

LEMMA ArrangedSums ==
    ASSUME NEW S, NEW s \in Seq(S), NEW a \in Arrangements(s), NEW u, NEW v,
           Sums(u, s, Len(s)), Sums(v, a, Len(s))
    PROVE  v[Len(s)] = u[Len(s)]
<1> DEFINE n == Len(s)
<1>1. n \in Nat /\ BagOf(a, n) = BagOf(s, n)
  BY BagArranged, LenProperties
<1>2. a \in Seq(Range(s)) /\ Len(a) = n
  <2>1. a \in [1..n -> Range(s)]
    BY DEF Arrangements
  <2> QED BY <1>1, <2>1
<1> HIDE DEF n
<1>3. ASSUME NEW r PROVE Count(a, n, r) = Count(s, n, r)
  <2>1. /\ DOMAIN BagOf(s, n) = Range(s)
        /\ (IF r \in Range(s) THEN BagOf(s, n)[r] ELSE 0) = Count(s, n, r)
    BY BagOfHas DEF n
  <2>2. /\ DOMAIN BagOf(a, n) = Range(a)
        /\ (IF r \in Range(a) THEN BagOf(a, n)[r] ELSE 0) = Count(a, n, r)
    BY <1>2, BagOfHas
  <2> QED BY <1>1, <2>1, <2>2
<1>4. SameSums(n)
  BY <1>1, CountsGiveSums
<1> QED
  BY <1>3, <1>4 DEF SameSums, n

-----------------------------------------------------------------------------
(* The abstract store *)

\* Records are equal for the comparator only if they are the same.
EqualIsSame == \A a, b \in Records : Compare(a, b) = 0 => a = b

\* Unless an offset was wrong, every entry has a record that was put in.
HoldsRecords == ~skewed => \A k \in 1..Len(index) : Contents[k] \in Records

RefinementInv == ObjectInv /\ OwnBytes /\ HoldsRecords

\* Insertions and sorts leave records behind.
LEMMA AppendRecords ==
    ASSUME FilesInv, OwnBytes, HoldsRecords, NEW rec \in Records, Append1(rec)
    PROVE  HoldsRecords'
<1>1. rec \in Bytes \ {<<>>} /\ skewed' = (skewed \/ c.end # Len(values))
  BY RecordsTyped DEF Append1
<1>2. CASE skewed'
  BY <1>2 DEF HoldsRecords
<1>3. CASE ~skewed'
  <2>1. Contents' = Append(Contents, rec)
    BY <1>1, <1>3, AppendContents
  <2>2. /\ Contents \in Seq(Bytes) /\ Len(Contents) = Len(index) /\ Len(index) \in Nat
        /\ \A k \in 1..Len(index) : Contents[k] \in Records
    BY <1>1, <1>3, ContentsTyped DEF FilesInv, HoldsRecords
  <2>3. Len(index') = Len(index) + 1
    <3> DEFINE e == [begin |-> c.end, end |-> c.end + Len(rec)]
    <3>1. index' = Append(index, e) /\ index \in Seq(Entries \union {e}) /\ e \in Entries \union {e}
      BY DEF Append1, FilesInv, FilesTyped
    <3> HIDE DEF e
    <3> QED BY <3>1, AppendProperties
  <2> DEFINE t == Append(Contents, rec)
             n == Len(index)
  <2>4. t[n + 1] = rec /\ \A k \in 1..n : t[k] = Contents[k]
    BY <1>1, <2>2, AppendProperties
  <2> HIDE DEF t
  <2>5. ASSUME NEW k \in 1..(n + 1) PROVE t[k] \in Records
    <3>1. CASE k = n + 1
      BY <2>4, <3>1
    <3>2. CASE k # n + 1
      <4>1. k \in 1..n
        BY <2>2, <3>2
      <4> QED BY <2>2, <2>4, <4>1
    <3> QED BY <3>1, <3>2
  <2> QED BY <2>1, <2>3, <2>5 DEF t, HoldsRecords
<1> QED
  BY <1>2, <1>3

LEMMA SortRecords ==
    ASSUME FilesTyped, HoldsRecords, SortElement
    PROVE  HoldsRecords'
<1>1. PICK sorted \in InOrder : Contents' = sorted /\ Len(index') = Len(index)
  BY SortResult
<1>2. Len(Contents) = Len(index) /\ skewed' = skewed /\ Contents \in Seq(Bytes)
  BY ContentsTyped DEF SortElement
<1>3. ASSUME ~skewed PROVE \A k \in 1..Len(index) : sorted[k] \in Records
  <2>1. sorted \in [1..Len(index) -> Range(Contents)]
    BY <1>2 DEF InOrder, Arrangements
  <2>2. Range(Contents) \subseteq Records
    BY <1>2, <1>3, LenProperties DEF Range, HoldsRecords
  <2> QED BY <2>1, <2>2
<1> QED
  BY <1>1, <1>2, <1>3 DEF HoldsRecords

\* The actions of StoreSpec, on the bag of the contents.
Answer(op, results) == reply'.op = op /\ reply'.res \in results

AddsRecord ==
    /\ Answer("object", {"any"}) \/ Answer("insert", {"0"}) \/ Answer("update", {"0"})
    /\ BagOfContents' = BagOfContents (+) SetToBag({reply'.neu})
    /\ Exact => Exact'

ReplacesRecord ==
    /\ Answer("update", {"1", "2"}) \/ Answer("updateIter", {"1", "2"})
    /\ \E r \in BagToSet(BagOfContents) :
          /\ reply'.op = "update" => r = reply'.old
          /\ BagOfContents' = (BagOfContents (-) SetToBag({r})) (+) SetToBag({reply'.neu})

\* The answers of a call that stores nothing.
StoresNothing ==
    \/ Answer("insert", {"-1"}) \/ Answer("updateIter", {"-1"})
    \/ Answer("sort", {"none"}) \/ Answer("begin", {"none"}) \/ Answer("advance", {"none"})
    \/ Answer("search", {"end"})
    \/ Answer("search", {"found"}) /\ BagIn(reply'.old, BagOfContents)
    \/ Answer("multi", {"true", "false"})
    \/ Answer("unlink", {"kept"})

ObservesRecords == StoresNothing /\ BagOfContents' = BagOfContents /\ (Exact => Exact')

ReopensStore == Answer("reopen", {"none"}) /\ BagOfContents' = BagOfContents

EmptiesStore == Answer("unlink", {"removed"}) /\ BagOfContents' = EmptyBag

CallOnBag == AddsRecord \/ ReplacesRecord \/ ObservesRecords \/ ReopensStore \/ EmptiesStore

\* The three ways a call may end.
CallReturns == status' = "running" /\ ~skewed /\ ~skewed' /\ CallOnBag

CallSkews ==
    /\ status' = "running" /\ skewed' /\ reply'.res # "failed"
    /\ ~skewed => \/ ~Exact /\ reply'.op \in {"insert", "object", "update"}
                  \/ reply'.op \in {"multi", "updateIter"}

CallDies ==
    /\ status' = "failed" /\ reply'.res = "failed"
    /\ reply'.op \notin {"advance", "unlink", "reopen"}

\* What a call must do to be one of the abstract store.
Refines == OwnBytes' /\ HoldsRecords' /\ (CallReturns \/ CallSkews \/ CallDies)

\* The bag operators StoreSpec uses are these.
LEMMA SameBags ==
    ASSUME NEW A, NEW B
    PROVE  /\ Store!(+)(A, B) = A (+) B /\ Store!(-)(A, B) = A (-) B
           /\ Store!SetToBag(A) = SetToBag(A) /\ Store!EmptyBag = EmptyBag
           /\ Store!BagToSet(A) = BagToSet(A) /\ (Store!BagIn(A, B) <=> BagIn(A, B))
<1>1. Store!SetToBag(A) = SetToBag(A) /\ Store!EmptyBag = EmptyBag
  BY DEF SetToBag, Store!SetToBag, EmptyBag, Store!EmptyBag
<1>2. Store!BagToSet(A) = BagToSet(A) /\ (Store!BagIn(A, B) <=> BagIn(A, B))
  BY DEF BagToSet, Store!BagToSet, BagIn, Store!BagIn
<1>3. Store!(+)(A, B) = A (+) B
  BY DEF (+), Store!(+)
<1>4. Store!(-)(A, B) = A (-) B
  BY DEF (-), Store!(-)
<1> QED
  BY <1>1, <1>2, <1>3, <1>4

\* What these calls do is what the abstract store's do.
LEMMA CallMaps ==
    ASSUME status = "running", Refines
    PROVE  Store!Call
<1>1. CASE CallDies
  <2>1. Mode' = "failed" /\ Mode \in {"ok", "skewed"}
    BY <1>1 DEF CallDies, Mode
  <2> QED BY <1>1, <2>1 DEF CallDies, Store!Call, Store!Dies
<1>2. CASE CallSkews
  <2>1. Mode' = "skewed" /\ Mode \in {"ok", "skewed"} /\ (Mode = "ok" => ~skewed)
    BY <1>2 DEF CallSkews, Mode
  <2> QED BY <1>2, <2>1 DEF CallSkews, Store!Call, Store!Skews
<1>3. CASE CallReturns
  <2>1. Mode = "ok" /\ Mode' = "ok" /\ CallOnBag
    BY <1>3 DEF CallReturns, Mode
  <2>2. CASE AddsRecord
    <3>1. Store!Adds
      BY <2>1, <2>2, SameBags DEF AddsRecord, Answer, Store!Adds, Store!Answers
    <3> QED BY <2>1, <3>1 DEF Store!Call, Store!Returns
  <2>3. CASE ReplacesRecord
    <3>1. PICK r \in BagToSet(BagOfContents) :
             /\ reply'.op = "update" => r = reply'.old
             /\ BagOfContents' = (BagOfContents (-) SetToBag({r})) (+) SetToBag({reply'.neu})
      BY <2>3 DEF ReplacesRecord
    <3>2. Answer("update", {"1", "2"}) \/ Answer("updateIter", {"1", "2"})
      BY <2>3 DEF ReplacesRecord
    <3>3. Store!Answers("update", {"1", "2"}) \/ Store!Answers("updateIter", {"1", "2"})
      BY <3>2 DEF Answer, Store!Answers
    <3>4. Store!Replaces
      BY <2>1, <3>1, <3>3, SameBags DEF Store!Replaces
    <3> QED BY <2>1, <3>4 DEF Store!Call, Store!Returns
  <2>4. CASE ObservesRecords
    <3>1. Store!Observes
      BY <2>1, <2>4, SameBags
         DEF ObservesRecords, StoresNothing, Answer, Store!Observes, Store!Answers
    <3> QED BY <2>1, <3>1 DEF Store!Call, Store!Returns
  <2>5. CASE ReopensStore
    <3>1. Store!Reopens
      BY <2>1, <2>5 DEF ReopensStore, Answer, Store!Reopens, Store!Answers
    <3> QED BY <2>1, <3>1 DEF Store!Call, Store!Returns
  <2>6. CASE EmptiesStore
    <3>1. Store!Empties
      BY <2>1, <2>6, SameBags DEF EmptiesStore, Answer, Store!Empties, Store!Answers
    <3> QED BY <2>1, <3>1 DEF Store!Call, Store!Returns
  <2> QED BY <2>1, <2>2, <2>3, <2>4, <2>5, <2>6 DEF CallOnBag
<1> QED
  BY <1>1, <1>2, <1>3 DEF Refines

\* Files and entries that stay leave the records, and the offsets with them.
LEMMA FilesStay ==
    ASSUME RefinementInv, UNCHANGED <<values, index, skewed>>
    PROVE  /\ OwnBytes' /\ HoldsRecords' /\ BagOfContents' = BagOfContents
           /\ c'.end = c.end => Exact' = Exact
           /\ \A r \in Range(Contents) : BagIn(r, BagOfContents)
<1>1. OwnBytes' /\ HoldsRecords'
  BY ContentsStay DEF RefinementInv, OwnBytes, Whole, Apart, HoldsRecords
<1>2. BagOfContents' = BagOfContents
  BY ContentsStay, ContentsBag
<1>3. DOMAIN BagOfContents = Range(Contents)
  BY ContentsBag DEF BagOf
<1>4. c'.end = c.end => Exact' = Exact
  BY DEF Exact, EndOf
<1> QED
  BY <1>1, <1>2, <1>3, <1>4 DEF BagIn, BagToSet

\* Calls that die touch no file.
LEMMA FailsCall ==
    ASSUME RefinementInv, NEW op, NEW old, NEW neu, Fails(op, old, neu),
           op \notin {"advance", "unlink", "reopen"}
    PROVE  Refines
<1>1. UNCHANGED <<values, index, skewed>>
  BY DEF Fails, fileVars
<1>2. CallDies
  BY DEF Fails, Replies, CallDies
<1> QED
  BY <1>1, <1>2, FilesStay DEF Refines

\* Calls that return and touch no file observe.
LEMMA ObservesCall ==
    ASSUME RefinementInv, UNCHANGED <<values, index, skewed>>, status' = "running",
           c'.end = c.end, ~skewed => StoresNothing, reply'.res # "failed"
    PROVE  Refines
<1>1. /\ OwnBytes' /\ HoldsRecords' /\ BagOfContents' = BagOfContents /\ Exact' = Exact
  BY FilesStay
<1>2. CASE skewed
  BY <1>1, <1>2 DEF Refines, CallSkews
<1>3. CASE ~skewed
  <2>1. ObservesRecords
    BY <1>1, <1>3 DEF ObservesRecords
  <2> QED BY <1>1, <1>3, <2>1 DEF Refines, CallReturns, CallOnBag
<1> QED
  BY <1>2, <1>3

LEMMA ReopenCall ==
    ASSUME RefinementInv, Reopen, status = "running"
    PROVE  Refines
<1>1. /\ UNCHANGED <<values, index, skewed, status>>
      /\ reply'.op = "reopen" /\ reply'.res = "none"
  BY DEF Reopen, Replies, fileVars
<1>2. OwnBytes' /\ HoldsRecords' /\ BagOfContents' = BagOfContents
  BY <1>1, FilesStay
<1>3. CASE skewed
  BY <1>1, <1>2, <1>3 DEF Refines, CallSkews
<1>4. CASE ~skewed
  <2>1. ReopensStore
    BY <1>1, <1>2 DEF ReopensStore, Answer
  <2> QED BY <1>1, <1>2, <1>4, <2>1 DEF Refines, CallReturns, CallOnBag
<1> QED
  BY <1>3, <1>4

\* A record that goes to the end of the file, which is where its entry says.
LEMMA AppendExact ==
    ASSUME FilesInv, NEW rec \in Bytes, Append1(rec), Exact
    PROVE  Exact' /\ c.end = Len(values)
<1> DEFINE e == [begin |-> c.end, end |-> c.end + Len(rec)]
           n == Len(index)
           E(k) == IF k = 0 THEN 0 ELSE index'[k].end
<1>1. /\ values' = values \o rec /\ index' = Append(index, e) /\ c'.end = c.end + Len(rec)
      /\ index \in Seq(Entries \union {e}) /\ e \in Entries \union {e}
      /\ values \in Bytes
  BY DEF Append1, FilesInv, FilesTyped
<1>2. e.begin = c.end /\ e.end = c.end + Len(rec)
  OBVIOUS
<1> HIDE DEF e
<1>3. /\ n \in Nat /\ Len(index') = n + 1 /\ index'[n + 1] = e
      /\ \A k \in 1..n : index'[k] = index[k]
  BY <1>1, AppendProperties, LenProperties
<1>4. Len(values') = Len(values) + Len(rec) /\ Len(values) \in Nat /\ Len(rec) \in Nat
  BY <1>1, Joined
<1>5. /\ \A k \in 1..n : index[k].begin = EndOf(k - 1)
      /\ EndOf(n) = Len(values) /\ c.end = Len(values)
  BY DEF Exact
<1> HIDE DEF n
<1>6. \A k \in 0..n : E(k) = EndOf(k)
  <2> SUFFICES ASSUME NEW k \in 0..n
               PROVE  (IF k = 0 THEN 0 ELSE index'[k].end) = IF k = 0 THEN 0 ELSE index[k].end
    BY DEF EndOf
  <2>1. CASE k = 0
    BY <2>1
  <2>2. CASE k # 0
    <3>1. k \in 1..n
      BY <1>3, <2>2
    <3> QED BY <1>3, <2>2, <3>1
  <2> QED BY <2>1, <2>2
<1>7. E(n + 1) = Len(values') /\ c'.end = Len(values')
  <2>1. n + 1 # 0
    BY <1>3
  <2>2. E(n + 1) = index'[n + 1].end
    BY <2>1 DEF EndOf
  <2> QED BY <1>1, <1>2, <1>3, <1>4, <1>5, <2>2
<1>8. ASSUME NEW k \in 1..(n + 1) PROVE index'[k].begin = E(k - 1)
  <2>1. CASE k = n + 1
    <3>1. k - 1 = n /\ n \in 0..n
      BY <1>3, <2>1
    <3>2. E(n) = EndOf(n)
      BY <1>6, <3>1
    <3> QED BY <1>2, <1>3, <1>5, <2>1, <3>1, <3>2
  <2>2. CASE k # n + 1
    <3>1. k \in 1..n /\ k - 1 \in 0..n
      BY <1>3, <2>2
    <3>2. E(k - 1) = EndOf(k - 1)
      BY <1>6, <3>1
    <3> QED BY <1>3, <1>5, <3>1, <3>2
  <2> QED BY <2>1, <2>2
<1> QED
  BY <1>3, <1>5, <1>7, <1>8 DEF Exact, EndOf, n

LEMMA AppendCall ==
    ASSUME RefinementInv, NEW rec \in Records, Append1(rec),
           NEW op, NEW old, NEW res, Replies(op, old, rec, res),
           (op = "object" /\ res = "any") \/ (op \in {"insert", "update"} /\ res = "0")
    PROVE  Refines
<1>0. rec \in Bytes \ {<<>>} /\ FilesInv
  BY RecordsTyped DEF RefinementInv, ObjectInv
<1>1. /\ skewed' = (skewed \/ c.end # Len(values)) /\ status' = "running"
      /\ reply'.op = op /\ reply'.res = res /\ reply'.neu = rec
      /\ Exact => Exact' /\ c.end = Len(values)
  BY <1>0, AppendExact DEF Append1, Lives, Replies
<1>2. CASE skewed'
  <2>1. ~skewed => ~Exact
    BY <1>1, <1>2
  <2> QED BY <1>1, <1>2, <2>1 DEF Refines, CallSkews, OwnBytes, HoldsRecords
<1>3. CASE ~skewed'
  <2>1. rec \in Bytes \ {<<>>} /\ FilesInv /\ OwnBytes
    BY RecordsTyped DEF RefinementInv, ObjectInv
  <2>2. Contents' = Append(Contents, rec) /\ OwnBytes' /\ HoldsRecords'
    BY <1>3, <2>1, AppendContents, AppendRecords DEF RefinementInv
  <2>3. Len(index') = Len(index) + 1
    <3> DEFINE e == [begin |-> c.end, end |-> c.end + Len(rec)]
    <3>1. index' = Append(index, e) /\ index \in Seq(Entries \union {e}) /\ e \in Entries \union {e}
      BY <2>1 DEF Append1, FilesInv, FilesTyped
    <3> HIDE DEF e
    <3> QED BY <3>1, AppendProperties
  <2>4. Contents \in Seq(Bytes) /\ Len(Contents) = Len(index)
    BY <2>1, ContentsTyped DEF FilesInv
  <2>5. BagOf(Append(Contents, rec), Len(Contents) + 1)
          = BagOf(Contents, Len(Contents)) (+) SetToBag({rec})
    BY <2>1, <2>4, BagAppend
  <2>6. BagOfContents' = BagOfContents (+) SetToBag({rec})
    BY <2>2, <2>3, <2>4, <2>5, ContentsBag
  <2>7. AddsRecord
    BY <1>1, <2>6 DEF AddsRecord, Answer
  <2> QED BY <1>1, <1>3, <2>2, <2>7 DEF Refines, CallReturns, CallOnBag
<1> QED
  BY <1>2, <1>3

LEMMA UpdateCall ==
    ASSUME RefinementInv, NEW pos \in Nat, NEW len, NEW neu \in Records,
           UpdateInternal(pos, len, neu),
           len >= Len(neu) => pos < Len(index) /\ len = SizeOf(pos),
           ~skewed /\ reply'.op = "update" => Contents[pos + 1] = reply'.old,
           reply'.op = "update" => pos < Len(index), status' = "running",
           reply'.op \in {"update", "updateIter"}, reply'.res \in {"1", "2"}, reply'.neu = neu
    PROVE  Refines
<1>1. skewed => skewed'
  BY DEF UpdateInternal, Overwrite, MoveToEnd
<1>2. CASE skewed'
  <2>1. ASSUME ~skewed, reply'.op = "update" PROVE ~Exact
    <3>1. LastEnd # Len(values) \/ pos >= Len(index)
      BY <1>2, <2>1 DEF UpdateInternal, Overwrite, MoveToEnd
    <3>2. pos < Len(index) /\ Len(index) \in Nat
      BY <2>1, LenProperties DEF RefinementInv, ObjectInv, FilesInv, FilesTyped
    <3>3. LastEnd # Len(values) /\ Len(index) # 0
      BY <3>1, <3>2
    <3> QED BY <3>3 DEF Exact, EndOf, LastEnd
  <2> QED BY <1>2, <2>1 DEF Refines, CallSkews, OwnBytes, HoldsRecords
<1>3. CASE ~skewed'
  <2>1. neu \in Bytes \ {<<>>} /\ FilesInv /\ OwnBytes
    BY RecordsTyped DEF RefinementInv, ObjectInv
  <2> DEFINE k == pos + 1
  <2>2. k \in 1..Len(index) /\ Contents' = [Contents EXCEPT ![k] = neu] /\ OwnBytes'
    BY <1>3, <2>1, UpdateContents
  <2>3. reply'.op = "update" => Contents[k] = reply'.old
    BY <1>1, <1>3
  <2> HIDE DEF k
  <2>4. Len(index') = Len(index)
    <3>1. index' = index \/ \E v : index' = [index EXCEPT ![pos + 1] = v]
      BY DEF UpdateInternal, Overwrite, MoveToEnd, SetNewLen, UpdateWith
    <3> QED BY <2>1, <3>1, RewriteIsSeq DEF FilesInv, Ownership, Shapes
  <2>5. Contents \in Seq(Bytes) /\ Len(Contents) = Len(index)
    BY <2>1, ContentsTyped DEF FilesInv
  <2>6. /\ BagOf([Contents EXCEPT ![k] = neu], Len(Contents))
             = (BagOf(Contents, Len(Contents)) (-) SetToBag({Contents[k]})) (+) SetToBag({neu})
        /\ Contents[k] \in BagToSet(BagOf(Contents, Len(Contents)))
    <3> DEFINE s == Contents
    <3>1. s \in Seq(Bytes) /\ k \in 1..Len(s) /\ neu \in Bytes
      BY <2>1, <2>2, <2>5
    <3> HIDE DEF s
    <3>2. /\ BagOf(Put(s, k, neu), Len(s)) = Swapped(BagOf(s, Len(s)), s[k], neu)
          /\ s[k] \in BagToSet(BagOf(s, Len(s)))
      BY <3>1, BagReplace
    <3> QED BY <3>2 DEF s, Put, Swapped
  <2>7. /\ BagOfContents' = (BagOfContents (-) SetToBag({Contents[k]})) (+) SetToBag({neu})
        /\ Contents[k] \in BagToSet(BagOfContents)
    BY <2>2, <2>4, <2>5, <2>6, ContentsBag
  <2>8. ReplacesRecord
    BY <2>3, <2>7 DEF ReplacesRecord, Answer
  <2>9. HoldsRecords'
    <3>1. \A m \in 1..Len(index) : Contents[m] \in Records
      BY <1>1, <1>3 DEF RefinementInv, HoldsRecords
    <3>2. ASSUME NEW m \in 1..Len(index) PROVE [Contents EXCEPT ![k] = neu][m] \in Records
      BY <2>5, <3>1, LenProperties
    <3> QED BY <2>2, <2>4, <3>2 DEF HoldsRecords
  <2> QED BY <1>1, <1>3, <2>2, <2>8, <2>9 DEF Refines, CallReturns, CallOnBag
<1> QED
  BY <1>2, <1>3

\* Entries that tile the file add up the lengths of their records.
LEMMA TilesSum ==
    ASSUME FilesTyped, \A k \in 1..Len(index) : index[k].begin = EndOf(k - 1)
    PROVE  Sums([k \in 0..Len(index) |-> EndOf(k)], Contents, Len(index))
<1> DEFINE n == Len(index)
           u == [k \in 0..n |-> EndOf(k)]
<1>1. n \in Nat /\ \A k \in 1..n : Len(Contents[k]) = index[k].end - index[k].begin
  BY ContentsTyped
<1>2. \A k \in 1..n : index[k].begin \in Nat /\ index[k].end \in Nat
  <2> SUFFICES ASSUME NEW k \in 1..n PROVE index[k].begin \in Nat /\ index[k].end \in Nat
    OBVIOUS
  <2>1. index[k] \in Entries
    BY ElementOfSeq DEF FilesTyped
  <2> QED BY <2>1 DEF Entries
<1>3. \A k \in 1..n : index[k].begin = EndOf(k - 1) /\ EndOf(k) = index[k].end
  <2> SUFFICES ASSUME NEW k \in 1..n PROVE EndOf(k) = index[k].end
    OBVIOUS
  <2>1. k # 0
    BY <1>1
  <2> QED BY <2>1 DEF EndOf
<1>4. EndOf(0) = 0 /\ \A k \in 0..n : u[k] = EndOf(k)
  BY DEF EndOf
<1> HIDE DEF u, n
<1>5. \A k \in 0..n : u[k] \in Int
  <2> SUFFICES ASSUME NEW k \in 0..n PROVE EndOf(k) \in Int
    BY <1>4
  <2>1. CASE k = 0
    BY <1>4, <2>1
  <2>2. CASE k # 0
    <3>1. k \in 1..n
      BY <1>1, <2>2
    <3> QED BY <1>2, <1>3, <3>1
  <2> QED BY <2>1, <2>2
<1>6. ASSUME NEW k \in 1..n PROVE u[k] = u[k - 1] + Len(Contents[k]) /\ Len(Contents[k]) \in Int
  <2>1. k \in 0..n /\ k - 1 \in 0..n
    BY <1>1
  <2>2. u[k] = index[k].end /\ u[k - 1] = index[k].begin
    BY <1>3, <1>4, <2>1
  <2> QED BY <1>1, <1>2, <2>2
<1>7. 0 \in 0..n
  BY <1>1
<1> QED
  BY <1>4, <1>5, <1>6, <1>7 DEF Sums, u, n

LEMMA ContentsTypedNext ==
    ASSUME FilesTyped'
    PROVE  \A k \in 1..Len(index') : Len(Contents'[k]) = index'[k].end - index'[k].begin
<1> SUFFICES ASSUME NEW k \in 1..Len(index')
             PROVE  Len(Contents'[k]) = index'[k].end - index'[k].begin
  OBVIOUS
<1> DEFINE n == index'[k].end - index'[k].begin
           x == Contents'[k]
<1>1. n \in Nat
  <2>1. index'[k] \in Entries /\ index'[k].begin < index'[k].end
    BY ElementOfSeq DEF FilesTyped
  <2>2. index'[k].begin \in Nat /\ index'[k].end \in Nat
    BY <2>1 DEF Entries
  <2> QED BY <2>1, <2>2
<1>2. x = [j \in 1..n |-> IF index'[k].begin + j <= Len(values') THEN values'[index'[k].begin + j] ELSE 0]
  BY DEF Contents, Content
<1> HIDE DEF n, x
<1>3. x = [j \in 1..n |-> x[j]]
  BY <1>2
<1> QED
  BY <1>1, <1>3, FunctionIsSeq DEF n, x

\* The sort lays the same records end to end, so it ends where they ended.
LEMMA SortExact ==
    ASSUME FilesTyped, FilesTyped', SortElement, Exact
    PROVE  Exact'
<1> DEFINE n == Len(index)
           E(k) == IF k = 0 THEN 0 ELSE index'[k].end
           u == [k \in 0..n |-> EndOf(k)]
           v == [k \in 0..n |-> E(k)]
<1>1. PICK sorted \in InOrder :
        /\ Contents' = sorted /\ Len(index') = n
        /\ \A k \in 1..n : index'[k].begin = IF k = 1 THEN 0 ELSE index'[k - 1].end
        /\ index'[n].end = Len(values')
  BY SortResult
<1>2. sorted \in Arrangements(Contents) /\ Contents \in Seq(Bytes) /\ Len(Contents) = n /\ n \in Nat
  BY ContentsTyped DEF InOrder
<1>3. n # 0
  <2>1. index # <<>>
    BY DEF SortElement
  <2> QED BY <2>1, EmptySeq DEF FilesTyped
<1>4. c'.end = c.end
  BY DEF SortElement, Closed, FilesTyped
<1> HIDE DEF n
<1>5. Sums(u, Contents, n)
  BY TilesSum DEF Exact, n
<1>6. \A k \in 1..n : index'[k].begin = E(k - 1)
  <2> SUFFICES ASSUME NEW k \in 1..n PROVE index'[k].begin = IF k - 1 = 0 THEN 0 ELSE index'[k - 1].end
    BY DEF EndOf
  <2>1. k - 1 = 0 <=> k = 1
    BY <1>2
  <2> QED BY <1>1, <2>1
<1>7. Sums(v, sorted, n)
  <2>1. /\ \A k \in 1..n : index'[k] \in Entries
        /\ \A k \in 1..n : Len(Contents'[k]) = index'[k].end - index'[k].begin
    <3>1. \A k \in 1..n : index'[k] \in Entries
      BY <1>1, ElementOfSeq DEF FilesTyped
    <3>2. \A k \in 1..Len(index') : Len(Contents'[k]) = index'[k].end - index'[k].begin
      BY ContentsTypedNext
    <3> QED BY <1>1, <3>1, <3>2
  <2>2. \A k \in 1..n : index'[k].begin \in Nat /\ index'[k].end \in Nat
    BY <2>1 DEF Entries
  <2>3. \A k \in 1..n : E(k) = index'[k].end
    <3> SUFFICES ASSUME NEW k \in 1..n PROVE (IF k = 0 THEN 0 ELSE index'[k].end) = index'[k].end
      BY DEF EndOf
    <3>1. k # 0
      BY <1>2
    <3> QED BY <3>1
  <2>4. E(0) = 0 /\ 0 \in 0..n /\ \A k \in 0..n : v[k] = E(k)
    BY <1>2 DEF EndOf
  <2> HIDE DEF v
  <2>5. \A k \in 0..n : v[k] \in Int
    <3> SUFFICES ASSUME NEW k \in 0..n PROVE v[k] \in Int
      OBVIOUS
    <3>1. CASE k = 0
      BY <2>4, <3>1
    <3>2. CASE k # 0
      <4>1. k \in 1..n
        BY <1>2, <3>2
      <4> QED BY <2>2, <2>3, <2>4, <4>1
    <3> QED BY <3>1, <3>2
  <2>6. ASSUME NEW k \in 1..n PROVE v[k] = v[k - 1] + Len(sorted[k]) /\ Len(sorted[k]) \in Int
    <3>1. k \in 0..n /\ k - 1 \in 0..n
      BY <1>2
    <3>2. v[k] = index'[k].end /\ v[k - 1] = index'[k].begin
      BY <1>6, <2>3, <2>4, <3>1
    <3> QED BY <1>1, <2>1, <2>2, <3>2
  <2> QED BY <2>4, <2>5, <2>6 DEF Sums
<1>8. v[n] = u[n]
  <2> HIDE DEF u, v
  <2> QED BY <1>2, <1>5, <1>7, ArrangedSums
<1>9. v[n] = E(n) /\ u[n] = EndOf(n) /\ n \in 0..n
  BY <1>2
<1>10. E(n) = Len(values')
  BY <1>1, <1>3 DEF EndOf
<1>11. EndOf(n) = Len(values) /\ c.end = Len(values)
  BY DEF Exact, n
<1> QED
  BY <1>1, <1>4, <1>6, <1>8, <1>9, <1>10, <1>11 DEF Exact, EndOf

LEMMA SortCall ==
    ASSUME RefinementInv, SortElement
    PROVE  Refines
<1>1. FilesTyped
  BY DEF RefinementInv, ObjectInv, FilesInv
<1>2. OwnBytes' /\ HoldsRecords'
  BY <1>1, SortSeparates, SortRecords DEF OwnBytes, RefinementInv
<1>3. PICK sorted \in InOrder : Contents' = sorted /\ Len(index') = Len(index)
  BY <1>1, SortResult
<1>4. sorted \in Arrangements(Contents)
  BY DEF InOrder
<1>5. Contents \in Seq(Bytes) /\ Len(Contents) = Len(index)
  BY <1>1, ContentsTyped
<1>6. BagOfContents' = BagOfContents
  BY <1>3, <1>4, <1>5, BagArranged, ContentsBag
<1>7. reply'.op = "sort" /\ reply'.res = "none" /\ skewed' = skewed /\ status' = "running"
  BY DEF SortElement, Replies, Lives
<1>8. Exact => Exact'
  <2>1. FilesTyped'
    BY SortFiles DEF RefinementInv, ObjectInv, FilesInv
  <2> QED BY <1>1, <2>1, SortExact
<1>9. StoresNothing
  BY <1>7 DEF StoresNothing, Answer
<1>10. CASE skewed
  BY <1>2, <1>7, <1>10 DEF Refines, CallSkews
<1>11. CASE ~skewed
  BY <1>2, <1>6, <1>7, <1>8, <1>9, <1>11 DEF Refines, CallReturns, CallOnBag, ObservesRecords
<1> QED
  BY <1>10, <1>11

\* unlink takes the records with the files, if it knows their names.
LEMMA UnlinkCall ==
    ASSUME RefinementInv, Unlink
    PROVE  Refines
<1>1. /\ skewed' = skewed /\ status' = "running"
      /\ reply'.op = "unlink" /\ reply'.res = IF c.named THEN "removed" ELSE "kept"
  BY DEF Unlink, Replies, Lives
<1>2. CASE c.named
  <2>1. index' = <<>> /\ Len(index') = 0
    BY <1>2 DEF Unlink
  <2>2. OwnBytes' /\ HoldsRecords'
    BY <2>1 DEF OwnBytes, Whole, Apart, HoldsRecords
  <2>3. Contents' = [k \in 1..0 |-> Slice(values', index'[k])]
    BY <2>1, ContentsAreSlices
  <2>4. Range(Contents') = {}
    BY <2>3 DEF Range
  <2>5. BagOfContents' = EmptyBag
    BY <2>4, ContentsBag DEF BagOf, EmptyBag, SetToBag
  <2>6. CASE skewed
    BY <1>1, <1>2, <2>2, <2>6 DEF Refines, CallSkews
  <2>7. CASE ~skewed
    BY <1>1, <1>2, <2>2, <2>5, <2>7 DEF Refines, CallReturns, CallOnBag, EmptiesStore, Answer
  <2> QED BY <2>6, <2>7
<1>3. CASE ~c.named
  <2>1. UNCHANGED <<values, index, skewed>> /\ c'.end = c.end
    BY <1>1, <1>3 DEF Unlink, Closed, fileVars, RefinementInv, ObjectInv, FilesInv, FilesTyped
  <2>2. StoresNothing
    BY <1>1, <1>3 DEF StoresNothing, Answer
  <2> QED BY <1>1, <1>3, <2>1, <2>2, ObservesCall
<1> QED
  BY <1>2, <1>3

\* Without a list nothing is written, and with one the offsets are wrong.
LEMMA MultiInsertCall ==
    ASSUME RefinementInv, NEW list \in Lists, MultiInsert(list)
    PROVE  Refines
<1>1. /\ index' = index /\ values' = values \o FlattenSeq(list)
      /\ skewed' = (skewed \/ list # <<>>) /\ status' = "running"
      /\ reply'.op = "multi" /\ reply'.res \in {"true", "false"} /\ c'.end = c.end
  BY DEF MultiInsert, Replies, Lives, Opened, RefinementInv, ObjectInv, FilesInv, FilesTyped
<1>2. CASE skewed'
  BY <1>1, <1>2 DEF Refines, CallSkews, OwnBytes, HoldsRecords
<1>3. CASE ~skewed'
  <2>1. list = <<>> /\ skewed' = skewed
    BY <1>1, <1>3 DEF RefinementInv, ObjectInv, FilesInv, FilesTyped
  <2>2. values' = values
    BY <1>1, <2>1, FlattenEmpty, ConcatEmptySeq
       DEF RefinementInv, ObjectInv, FilesInv, FilesTyped, Bytes
  <2>3. StoresNothing
    BY <1>1 DEF StoresNothing, Answer
  <2> QED BY <1>1, <2>1, <2>2, <2>3, ObservesCall
<1> QED
  BY <1>2, <1>3

\* A search that finds a record finds the one that was sought.
LEMMA FoundIsThere ==
    ASSUME EqualIsSame, RefinementInv, ~skewed, NEW rec \in Records,
           Locate(rec) \in 0..(Len(index) - 1)
    PROVE  Contents[Locate(rec) + 1] = rec /\ rec \in Range(Contents)
<1>1. /\ Len(index) \in Nat /\ Contents \in Seq(Bytes) /\ Len(Contents) = Len(index)
      /\ \A k \in 1..Len(index) : Contents[k] \in Bytes \ {<<>>}
  BY ContentsTyped DEF RefinementInv, ObjectInv, FilesInv
<1>2. index \in Seq([begin : Nat, end : Nat])
  BY DEF RefinementInv, ObjectInv, FilesInv, FilesTyped, Entries
<1>3. Compare(Contents[Locate(rec) + 1], rec) = 0
  BY <1>1, <1>2, LocateAnswers
<1> DEFINE k == Locate(rec) + 1
<1>4. k \in 1..Len(index)
  BY <1>1
<1>5. Contents[k] \in Records
  BY <1>4 DEF RefinementInv, HoldsRecords
<1> HIDE DEF k
<1>6. Contents[k] = rec
  BY <1>3, <1>5 DEF EqualIsSame, k
<1>7. rec \in Range(Contents)
  BY <1>1, <1>4, <1>6 DEF Range
<1> QED
  BY <1>6, <1>7 DEF k

LEMMA RefinementStart == Init => RefinementInv /\ Store!SpecInit
<1> SUFFICES ASSUME Init PROVE RefinementInv /\ Store!SpecInit
  OBVIOUS
<1>1. index = <<>> /\ Len(index) = 0 /\ status = "running" /\ skewed = FALSE
  BY DEF Init
<1>2. RefinementInv
  BY <1>1, ObjectStart DEF RefinementInv, OwnBytes, Whole, Apart, HoldsRecords
<1>3. Range(Contents) = {}
  BY <1>1 DEF Contents, Range
<1>4. BagOfContents = EmptyBag
  BY <1>3, ContentsBag DEF BagOf, EmptyBag, SetToBag
<1>5. Mode = "ok"
  BY <1>1 DEF Mode
<1>6. Exact
  <2>1. Len(values) = 0 /\ c.end = 0
    BY DEF Init, NewWriter
  <2> QED BY <1>1, <2>1 DEF Exact, EndOf
<1>7. Store!SpecInit
  BY <1>4, <1>5, <1>6, SameBags DEF Store!SpecInit
<1> QED
  BY <1>2, <1>7

LEMMA RefinementStep ==
    ASSUME EqualIsSame
    PROVE  RefinementInv /\ [Next]_vars => RefinementInv' /\ [Store!Call]_(Store!specVars)
<1> SUFFICES ASSUME RefinementInv, [Next]_vars
             PROVE  RefinementInv' /\ [Store!Call]_(Store!specVars)
  OBVIOUS
<1>1. ObjectInv'
  BY ObjectStep DEF RefinementInv
<1>2. CASE UNCHANGED vars
  <2>1. UNCHANGED <<values, index, skewed, status, reply, c>>
    BY <1>2 DEF vars, fileVars
  <2>2. OwnBytes' /\ HoldsRecords'
    BY <2>1, ContentsStay DEF RefinementInv, OwnBytes, Whole, Apart, HoldsRecords
  <2>3. BagOfContents' = BagOfContents /\ Mode' = Mode /\ Exact' = Exact
    BY <2>1, ContentsStay, ContentsBag DEF Mode, Exact, EndOf
  <2>4. UNCHANGED Store!specVars
    BY <2>1, <2>3 DEF Store!specVars
  <2> QED BY <1>1, <2>2, <2>4 DEF RefinementInv
<1>3. CASE Next
  <2>1. status = "running"
    BY <1>3 DEF Next, InsertNothing, MultiInsertNothing, SortElement, SortFails, SortedAlready, Begin,
       BeginFails, Advance, Unlink, Reopen, MultiInsert, MultiInsertFails, Insert, InsertFails,
       InsertObject, InsertObjectFails, SearchFor, SearchFails, UpdateIter, UpdateIterAtEnd,
       UpdateIterFails, Update, UpdateInserts, UpdateFails, Calling
  <2>2. ASSUME NEW rec \in Records, Insert(rec) \/ InsertObject(rec) PROVE Refines
    BY <2>2, AppendCall DEF Insert, InsertObject
  <2>3. ASSUME NEW old \in Records, NEW neu \in Records, UpdateInserts(old, neu) PROVE Refines
    BY <2>3, AppendCall DEF UpdateInserts
  <2>4. ASSUME NEW list \in Lists, MultiInsert(list) PROVE Refines
    BY <2>4, MultiInsertCall
  <2>5. ASSUME SortElement PROVE Refines
    BY <2>5, SortCall
  <2>6. ASSUME Unlink PROVE Refines
    BY <2>6, UnlinkCall
  <2>7. ASSUME NEW rec \in Records, SearchFor(rec) PROVE Refines
    <3>1. /\ UNCHANGED <<values, index, skewed>> /\ Locate(rec) # Astray
          /\ status' = "running" /\ reply'.op = "search" /\ reply'.old = rec
          /\ reply'.res = IF Locate(rec) < Len(index) THEN "found" ELSE "end"
          /\ c' = IF ReopensSorter THEN Closed ELSE c
      BY <2>7 DEF SearchFor, ReadOpens, Replies, Lives, fileVars
    <3>2. Locate(rec) \in 0..Len(index) /\ Len(index) \in Nat
      BY <3>1, LocateInIndex DEF RefinementInv, ObjectInv
    <3>3. reply'.res = "found" => Locate(rec) \in 0..(Len(index) - 1)
      BY <3>1, <3>2
    <3>4. c'.end = c.end
      BY <3>1 DEF Closed, RefinementInv, ObjectInv, FilesInv, FilesTyped
    <3>5. ASSUME ~skewed PROVE StoresNothing
      <4>1. reply'.res = "found" => rec \in Range(Contents)
        BY <3>3, <3>5, FoundIsThere
      <4>2. reply'.res = "found" => BagIn(rec, BagOfContents)
        BY <3>1, <4>1, FilesStay
      <4> QED BY <3>1, <4>2 DEF StoresNothing, Answer
    <3>6. reply'.res # "failed"
      BY <3>1
    <3> QED BY <3>1, <3>4, <3>5, <3>6, ObservesCall
  <2>8. ASSUME NEW old \in Records, NEW neu \in Records, Update(old, neu) PROVE Refines
    <3> DEFINE pos == Locate(old)
    <3>1. /\ pos \in 0..(Len(index) - 1) /\ UpdateInternal(pos, SizeOf(pos), neu)
          /\ reply'.op = "update" /\ reply'.old = old /\ reply'.neu = neu /\ reply'.res \in {"1", "2"}
          /\ status' = "running"
      BY <2>8 DEF Update, Replies, Lives
    <3>2. ~skewed => Contents[pos + 1] = old
      BY <3>1, FoundIsThere
    <3>3. Len(index) \in Nat
      BY LocateInIndex DEF RefinementInv, ObjectInv
    <3> HIDE DEF pos
    <3>4. pos \in Nat /\ pos < Len(index)
      BY <3>1, <3>3
    <3> QED BY <3>1, <3>2, <3>4, UpdateCall
  <2>9. ASSUME NEW neu \in Records, UpdateIter(neu) PROVE Refines
    <3> DEFINE len == IF it.pos > it.last THEN 0 ELSE SizeOf(it.pos)
    <3>1. /\ sorter.set /\ UpdateInternal(it.pos, len, neu)
          /\ reply'.op = "updateIter" /\ reply'.neu = neu /\ reply'.res \in {"1", "2"}
          /\ status' = "running"
      BY <2>9 DEF UpdateIter, Replies, Lives
    <3>2. it \in Iterators /\ it.last < Len(index) /\ Len(index) \in Nat
      BY <3>1, LenProperties
         DEF RefinementInv, ObjectInv, FilesInv, FilesTyped, ClientTyped, SlotsExist
    <3>3. Len(neu) \in Nat \ {0}
      BY RecordsTyped, LenProperties, EmptySeq DEF Bytes
    <3>4. it.pos \in Nat /\ (len >= Len(neu) => it.pos < Len(index) /\ len = SizeOf(it.pos))
      BY <3>2, <3>3 DEF Iterators
    <3> HIDE DEF len
    <3> QED BY <3>1, <3>4, UpdateCall
  <2>10. ASSUME InsertNothing \/ MultiInsertNothing \/ SortedAlready \/ Begin \/ Advance
         PROVE  Refines
    <3>1. /\ UNCHANGED <<values, index, skewed>> /\ status' = "running"
          /\ c' = c \/ c' = Closed
      BY <2>10 DEF InsertNothing, MultiInsertNothing, SortedAlready, Begin, ReadOpens, Advance,
         Lives, fileVars
    <3>2. StoresNothing /\ reply'.res # "failed"
      BY <2>10 DEF InsertNothing, MultiInsertNothing, SortedAlready, Begin, Advance, Replies,
         StoresNothing, Answer
    <3>3. c'.end = c.end
      BY <3>1 DEF Closed, RefinementInv, ObjectInv, FilesInv, FilesTyped
    <3> QED BY <3>1, <3>2, <3>3, ObservesCall
  <2>11. ASSUME Reopen PROVE Refines
    BY <2>1, <2>11, ReopenCall
  <2>12. ASSUME SortFails \/ BeginFails PROVE Refines
    BY <2>12, FailsCall DEF SortFails, BeginFails
  <2>13. ASSUME NEW list \in Lists, MultiInsertFails(list) PROVE Refines
    BY <2>13, FailsCall DEF MultiInsertFails
  <2>14. ASSUME NEW rec \in Records,
                InsertFails(rec) \/ InsertObjectFails(rec) \/ SearchFails(rec) \/ UpdateIterFails(rec)
         PROVE  Refines
    BY <2>14, FailsCall DEF InsertFails, InsertObjectFails, SearchFails, UpdateIterFails
  <2>15. ASSUME NEW rec \in Records, UpdateIterAtEnd(rec) PROVE Refines
    <3>1. /\ UNCHANGED <<values, index, skewed>> /\ status' = "running"
          /\ reply'.op = "updateIter" /\ reply'.res = "-1" /\ (c' = c \/ c' = Closed)
      BY <2>15 DEF UpdateIterAtEnd, ReadOpens, Replies, Lives, fileVars
    <3>2. StoresNothing /\ reply'.res # "failed"
      BY <3>1 DEF StoresNothing, Answer
    <3>3. c'.end = c.end
      BY <3>1 DEF Closed, RefinementInv, ObjectInv, FilesInv, FilesTyped
    <3> QED BY <3>1, <3>2, <3>3, ObservesCall
  <2>16. ASSUME NEW old \in Records, NEW neu \in Records, UpdateFails(old, neu) PROVE Refines
    BY <2>16, FailsCall DEF UpdateFails
  <2>17. Refines
    BY <1>3, <2>2, <2>3, <2>4, <2>5, <2>6, <2>7, <2>8, <2>9, <2>10, <2>11, <2>12, <2>13, <2>14,
       <2>15, <2>16 DEF Next
  <2>18. Store!Call
    BY <2>1, <2>17, CallMaps
  <2> QED BY <1>1, <2>17, <2>18 DEF RefinementInv, Refines
<1> QED
  BY <1>2, <1>3

\* With a comparator for which only a record itself is equal to it, the
\* object implements the abstract store, call by call: an insertion or an
\* update that reports success has taken effect on the bag the entries hold,
\* no other call has changed it, and offsets go wrong only where the store's
\* specification says.
THEOREM StoreIsImplemented ==
    ASSUME EqualIsSame
    PROVE  Spec => ImplementsStore
<1>1. Init => RefinementInv /\ Store!SpecInit
  BY RefinementStart
<1>2. RefinementInv /\ [Next]_vars => RefinementInv' /\ [Store!Call]_(Store!specVars)
  BY RefinementStep
<1> QED
  BY <1>1, <1>2, PTL DEF Spec, ImplementsStore, Store!StoreSpecification
=============================================================================
