------------------------ MODULE KeyValueStoreProofs ------------------------
(***************************************************************************)
(* Theorems about KeyValueStore, for every set of keys and values: when a  *)
(* setter can die, and what a getter answers.  Files, sorts and searches   *)
(* are those of SerializerWithSortProofs.                                  *)
(***************************************************************************)
EXTENDS KeyValueStore, SerializerWithSortProofs

\* A key-value store has its sorter, having no call that removes the files;
\* and since an insertion either the streams are open or a getter has mapped
\* the files.
InsertedSomewhere ==
    /\ sorter.set = TRUE
    /\ flags.hasInserted => c.open \/ sorter.open

\* The inductive invariant.
StoreInv == Ownership /\ InsertedSomewhere

LEMMA StoreStart == Init => StoreInv
<1>1. ASSUME Init PROVE InsertedSomewhere
  <2>1. sorter.set = TRUE
    BY <1>1 DEF Init, NewSorters
  <2>2. flags.hasInserted = FALSE
    BY <1>1 DEF Init, NewFlags
  <2> QED BY <2>1, <2>2 DEF InsertedSomewhere
<1> QED
  BY <1>1, OwnershipStart DEF StoreInv

\* risk_insert leaves the streams open.
LEMMA SetKeeps ==
    ASSUME StoreInv, NEW rec, Append1(rec)
    PROVE  StoreInv'
<1>1. Ownership'
  BY AppendKeeps DEF StoreInv
<1>2. c'.open /\ sorter'.set = TRUE
  BY DEF StoreInv, InsertedSomewhere, Ownership, Shapes, Append1, TakesFiles, Unmapped
<1> QED
  BY <1>1, <1>2 DEF StoreInv, InsertedSomewhere

\* A getter maps the files when it closes the streams.
LEMMA GetKeeps ==
    ASSUME StoreInv, ReadOpens
    PROVE  StoreInv'
<1>1. Ownership'
  BY ReadKeeps DEF StoreInv
<1>2. InsertedSomewhere'
  BY DEF StoreInv, InsertedSomewhere, Ownership, Shapes, ReadOpens, ReopensSorter, Mapped
<1> QED
  BY <1>1, <1>2 DEF StoreInv

LEMMA StoreStep == StoreInv /\ [KeyValueNext]_vars => StoreInv'
<1> SUFFICES ASSUME StoreInv, [KeyValueNext]_vars PROVE StoreInv'
  OBVIOUS
<1>1. ASSUME NEW rec \in Records, Set(rec) PROVE StoreInv'
  BY <1>1, SetKeeps DEF Set
<1>2. ASSUME NEW key \in Keys, Get(key) \/ GetRecord(key) PROVE StoreInv'
  BY <1>2, GetKeeps DEF Get, GetRecord
<1>3. CASE Begin
  BY <1>3, GetKeeps DEF Begin
<1>4. CASE SortElement
  <2>1. Ownership' /\ ~flags'.hasInserted
    BY <1>4, SortKeeps DEF SortElement, StoreInv
  <2>2. sorter'.set = TRUE
    BY <1>4 DEF SortElement, OpenedToSort, StoreInv, InsertedSomewhere, Ownership,
                Shapes
  <2> QED BY <2>1, <2>2 DEF StoreInv, InsertedSomewhere
<1>5. CASE Reopen
  <2>1. Ownership'
    BY <1>5, ReopenKeeps DEF StoreInv
  <2> QED
    BY <1>5, <2>1 DEF Reopen, NewSorters, NewFlags, StoreInv, InsertedSomewhere
<1>6. ASSUME UNCHANGED <<index, c, sorter, flags>> PROVE StoreInv'
  BY <1>6, NothingKeeps DEF StoreInv, InsertedSomewhere
<1>7. CASE SortFails \/ SortedAlready \/ UNCHANGED vars
  BY <1>6, <1>7 DEF SortFails, SortedAlready, Fails, fileVars, vars
<1>8. ASSUME NEW rec \in Records, SetFails(rec) PROVE StoreInv'
  BY <1>6, <1>8 DEF SetFails, Fails, fileVars
<1>9. ASSUME NEW key \in Keys, GetFails(key) PROVE StoreInv'
  BY <1>6, <1>9 DEF GetFails, Fails, fileVars
<1> QED
  BY <1>1, <1>2, <1>3, <1>4, <1>5, <1>7, <1>8, <1>9 DEF KeyValueNext

\* The inductive invariant holds in every reachable state.
THEOREM StoreInvariance == KeyValueSpec => []StoreInv
  BY StoreStart, StoreStep, PTL DEF KeyValueSpec

\* Nothing is mapped while the streams are open, for key-value stores too,
\* whose calls are others than those of OneOwner.
THEOREM StoreHasOneOwner == KeyValueSpec => []IndexIsMapped
<1>1. StoreInv => IndexIsMapped
  BY DEF StoreInv, Ownership
<1> QED
  BY <1>1, StoreInvariance, PTL

\* A setter can only kill the process of a client that has read the store
\* since its last insertion without sorting it, whatever came before.
THEOREM SetSurvives == KeyValueSpec => SetDiesOnlyWhileReading
<1>1. ASSUME StoreInv, [KeyValueNext]_vars
      PROVE  [reply'.op = "set" /\ status' = "failed" => sorter.open /\ ~flags.hasSorted]_vars
  <2> SUFFICES ASSUME KeyValueNext, reply'.op = "set", status' = "failed"
               PROVE  sorter.open /\ ~flags.hasSorted
    BY <1>1
  <2>1. PICK rec \in Records : SetFails(rec)
    <3>1. ~SortElement /\ ~SortedAlready /\ ~Begin /\ \A rec \in Records : ~Set(rec)
      <4>1. ~(status' = "running")
        OBVIOUS
      <4> QED BY <4>1 DEF SortElement, SortedAlready, Begin, Set, Append1, Lives
    <3>2. ~SortFails /\ ~Reopen
      BY DEF SortFails, Reopen, Fails, Replies
    <3>3. \A key \in Keys : ~Get(key) /\ ~GetRecord(key) /\ ~GetFails(key)
      <4>1. ASSUME NEW key \in Keys, Get(key) \/ GetRecord(key) PROVE FALSE
        BY <4>1 DEF Get, GetRecord, Lives
      <4>2. ASSUME NEW key \in Keys, GetFails(key) PROVE FALSE
        BY <4>2 DEF GetFails, Fails, Replies
      <4> QED BY <4>1, <4>2
    <3> QED BY <3>1, <3>2, <3>3 DEF KeyValueNext
  <2>2. CannotWrite
    BY <2>1 DEF SetFails
  <2> QED
    BY <2>2, <1>1 DEF CannotWrite, ReopensWriter, StoreInv, InsertedSomewhere, Ownership, Shapes,
                      FlagsAgree
<1> QED
  BY <1>1, StoreInvariance, PTL DEF KeyValueSpec, SetDiesOnlyWhileReading
-----------------------------------------------------------------------------
(* What a getter answers *)

\* Every entry has a record that was set; and a sorted store begins with the
\* first of them.
KeyRecords ==
    /\ HoldsRecords
    /\ flags.hasSorted => index # <<>> /\ index[1].begin = 0

KeyInv == StoreInv /\ FilesInv /\ OwnBytes /\ KeyRecords

LEMMA KeyStart == Init => KeyInv
<1> SUFFICES ASSUME Init PROVE KeyInv
  OBVIOUS
<1>1. FilesInv /\ StoreInv
  BY ObjectStart, StoreStart DEF ObjectInv
<1>2. index = <<>> /\ Len(index) = 0 /\ ~flags.hasSorted
  BY DEF Init, NewFlags
<1> QED
  BY <1>1, <1>2 DEF KeyInv, OwnBytes, Whole, Apart, KeyRecords, HoldsRecords

LEMMA SetFiles ==
    ASSUME KeyInv, NEW rec \in Records, Append1(rec)
    PROVE  FilesInv' /\ OwnBytes' /\ KeyRecords'
<1>1. rec \in Bytes \ {<<>>} /\ FilesInv /\ OwnBytes /\ HoldsRecords
  BY RecordsTyped DEF KeyInv, KeyRecords
<1>2. FilesInv' /\ HoldsRecords'
  BY <1>1, AppendFiles, AppendRecords
<1>3. ~flags'.hasSorted
  BY DEF Append1, Inserting
<1>4. OwnBytes'
  BY <1>1, AppendContents DEF OwnBytes
<1> QED
  BY <1>2, <1>3, <1>4 DEF KeyRecords

\* Calls that leave the files and the flags.
LEMMA StayFiles ==
    ASSUME KeyInv, UNCHANGED <<values, index, flags, skewed>>
    PROVE  OwnBytes' /\ KeyRecords'
<1>1. Contents' = Contents
  BY ContentsStay
<1> QED
  BY <1>1 DEF KeyInv, OwnBytes, Whole, Apart, KeyRecords, HoldsRecords

LEMMA SortKeys ==
    ASSUME KeyInv, SortElement
    PROVE  FilesInv' /\ OwnBytes' /\ KeyRecords'
<1>1. FilesTyped /\ FilesInv'
  BY SortFiles DEF KeyInv, FilesInv
<1>2. Whole' /\ Apart' /\ index' # <<>> /\ index'[1].begin = 0
  BY <1>1, SortSeparates
<1>3. HoldsRecords'
  BY <1>1, SortRecords DEF KeyInv, KeyRecords
<1> QED
  BY <1>1, <1>2, <1>3 DEF OwnBytes, KeyRecords

LEMMA KeyStep == KeyInv /\ [KeyValueNext]_vars => KeyInv'
<1> SUFFICES ASSUME KeyInv, [KeyValueNext]_vars PROVE KeyInv'
  OBVIOUS
<1>1. StoreInv'
  BY StoreStep DEF KeyInv
<1> SUFFICES FilesInv' /\ OwnBytes' /\ KeyRecords'
  BY <1>1 DEF KeyInv
<1>2. ASSUME NEW rec \in Records, Set(rec) PROVE FilesInv' /\ OwnBytes' /\ KeyRecords'
  BY <1>2, SetFiles DEF Set
<1>3. ASSUME ReadOpens PROVE FilesInv' /\ OwnBytes' /\ KeyRecords'
  <2>1. UNCHANGED <<values, index, flags, skewed>>
    BY <1>3 DEF ReadOpens, fileVars
  <2> QED BY <1>3, <2>1, ReadFiles, StayFiles DEF KeyInv
<1>4. ASSUME NEW key \in Keys, Get(key) \/ GetRecord(key)
      PROVE  FilesInv' /\ OwnBytes' /\ KeyRecords'
  BY <1>3, <1>4 DEF Get, GetRecord
<1>5. CASE Begin
  BY <1>3, <1>5 DEF Begin
<1>6. CASE SortElement
  BY <1>6, SortKeys
<1>7. CASE Reopen
  <2>1. FilesInv'
    BY <1>7, ReopenFiles DEF KeyInv
  <2>2. UNCHANGED <<values, index, skewed>> /\ ~flags'.hasSorted
    BY <1>7 DEF Reopen, NewFlags, fileVars
  <2>3. Contents' = Contents
    BY <2>2, ContentsStay
  <2> QED BY <2>1, <2>2, <2>3 DEF KeyInv, OwnBytes, Whole, Apart, KeyRecords, HoldsRecords
<1>8. ASSUME UNCHANGED <<values, index, c, sorter, flags, skewed>>
      PROVE  FilesInv' /\ OwnBytes' /\ KeyRecords'
  BY <1>8, NothingFiles, StayFiles DEF KeyInv
<1>9. CASE SortFails \/ SortedAlready \/ UNCHANGED vars
  BY <1>8, <1>9 DEF SortFails, SortedAlready, Fails, fileVars, vars
<1>10. ASSUME NEW rec \in Records, SetFails(rec) PROVE FilesInv' /\ OwnBytes' /\ KeyRecords'
  BY <1>8, <1>10 DEF SetFails, Fails, fileVars
<1>11. ASSUME NEW key \in Keys, GetFails(key) PROVE FilesInv' /\ OwnBytes' /\ KeyRecords'
  BY <1>8, <1>11 DEF GetFails, Fails, fileVars
<1> QED
  BY <1>2, <1>4, <1>5, <1>6, <1>7, <1>9, <1>10, <1>11 DEF KeyValueNext

\* The invariant with the records and their bytes holds in every reachable
\* state.
THEOREM KeyInvariance == KeyValueSpec => []KeyInv
  BY KeyStart, KeyStep, PTL DEF KeyValueSpec

\* The comparator of the store is that of its keys.
KeysCompared == \A a, b \in Bytes \ {<<>>} : Compare(a, b) = StoreCompare(a, b)

\* Its answer is the order of the keys seen.
LEMMA SeenInOrder ==
    ASSUME KeysCompared
    PROVE  /\ \A a \in Bytes \ {<<>>} : KeySeen(a) \in Nat
           /\ \A a, b \in Bytes \ {<<>>} :
                 /\ Compare(a, b) \in Int
                 /\ Compare(a, b) < 0 <=> KeySeen(a) < KeySeen(b)
                 /\ Compare(a, b) > 0 <=> KeySeen(b) < KeySeen(a)
                 /\ Compare(a, b) = 0 <=> KeySeen(a) = KeySeen(b)
<1>1. \A a \in Bytes \ {<<>>} : KeySeen(a) \in Nat
  <2> SUFFICES ASSUME NEW a \in Bytes \ {<<>>} PROVE KeySeen(a) \in Nat
    OBVIOUS
  <2>1. a \in Seq(Nat) /\ Len(a) \in Nat /\ Len(a) # 0
    BY LenProperties, EmptySeq DEF Bytes
  <2>2. a[1] \in Nat /\ (Len(a) = 4 => a[3] \in Nat)
    BY <2>1, ElementOfSeq
  <2> QED BY <2>2 DEF KeySeen
<1>2. \A a, b \in Bytes \ {<<>>} :
        /\ Compare(a, b) \in Int
        /\ Compare(a, b) < 0 <=> KeySeen(a) < KeySeen(b)
        /\ Compare(a, b) > 0 <=> KeySeen(b) < KeySeen(a)
        /\ Compare(a, b) = 0 <=> KeySeen(a) = KeySeen(b)
  <2> SUFFICES ASSUME NEW a \in Bytes \ {<<>>}, NEW b \in Bytes \ {<<>>}
               PROVE  /\ Compare(a, b) \in Int
                      /\ Compare(a, b) < 0 <=> KeySeen(a) < KeySeen(b)
                      /\ Compare(a, b) > 0 <=> KeySeen(b) < KeySeen(a)
                      /\ Compare(a, b) = 0 <=> KeySeen(a) = KeySeen(b)
    OBVIOUS
  <2>1. KeySeen(a) \in Nat /\ KeySeen(b) \in Nat /\ Compare(a, b) = StoreCompare(a, b)
    BY <1>1 DEF KeysCompared
  <2>2. CASE KeySeen(b) > KeySeen(a)
    BY <2>1, <2>2 DEF StoreCompare, KeyCompare, GreaterThan
  <2>3. CASE KeySeen(a) > KeySeen(b)
    BY <2>1, <2>3 DEF StoreCompare, KeyCompare, GreaterThan
  <2>4. CASE ~(KeySeen(b) > KeySeen(a)) /\ ~(KeySeen(a) > KeySeen(b))
    BY <2>1, <2>4 DEF StoreCompare, KeyCompare, GreaterThan
  <2> QED BY <2>2, <2>3, <2>4
<1> QED
  BY <1>1, <1>2

\* It puts every sequence of words in an order.
LEMMA KeysInOrder ==
    ASSUME KeysCompared
    PROVE  ComparesInOrder
<1> SUFFICES ASSUME NEW a \in Bytes \ {<<>>}, NEW b \in Bytes \ {<<>>}, NEW r \in Bytes \ {<<>>}
             PROVE  /\ Compare(a, b) \in Int
                    /\ Compare(a, b) <= 0 /\ Compare(a, r) > 0 => Compare(b, r) > 0
                    /\ Compare(a, b) <= 0 /\ Compare(b, r) < 0 => Compare(a, r) < 0
  BY DEF ComparesInOrder
<1>3. KeySeen(a) \in Nat /\ KeySeen(b) \in Nat /\ KeySeen(r) \in Nat
  BY SeenInOrder
<1>4. Compare(a, b) \in Int /\ (Compare(a, b) <= 0 => KeySeen(a) <= KeySeen(b))
  BY <1>3, SeenInOrder
<1> QED
  BY <1>3, <1>4, SeenInOrder
\* A record of four words is the header, the key and a value of one word; a
\* word that is not the header's is found in no other.
LEMMA SeenKey ==
    ASSUME NEW rec \in KeyValueRecords, NEW key \in Keys, WordBytes \notin Keys
    PROVE  /\ rec[1] = WordBytes /\ Len(rec) \in Nat /\ Len(rec) >= 3
           /\ rec[2] = WordBytes <=> Len(rec) = 4
           /\ KeySeen(rec) = key <=> Len(rec) = 4 /\ rec[3] = key
<1>1. PICK k \in Keys, v \in Payloads : rec = Serialized(k, v)
  BY DEF KeyValueRecords
<1>2. v \in Seq(Nat) /\ Len(v) \in Nat /\ k \in Nat
  BY <1>1, KeysAssumption, LenProperties
<1> DEFINE head == <<WordBytes, WordBytes * Len(v), k>>
<1>3. head \in Seq(Nat) /\ Len(head) = 3 /\ head[1] = WordBytes /\ head[2] = WordBytes * Len(v) /\ head[3] = k
  BY <1>2 DEF WordBytes
<1>4. rec = head \o v
  BY <1>1 DEF Serialized
<1> HIDE DEF head
<1>5. /\ Len(rec) = 3 + Len(v)
      /\ rec[1] = head[1] /\ rec[2] = head[2] /\ rec[3] = head[3]
  <2>1. Len(head \o v) = Len(head) + Len(v)
    BY <1>2, <1>3, ConcatProperties
  <2>2. \A i \in 1..(Len(head) + Len(v)) :
          (head \o v)[i] = IF i <= Len(head) THEN head[i] ELSE v[i - Len(head)]
    BY <1>2, <1>3, ConcatProperties
  <2>3. 1 \in 1..(3 + Len(v)) /\ 2 \in 1..(3 + Len(v)) /\ 3 \in 1..(3 + Len(v))
    BY <1>2
  <2>4. Len(rec) = 3 + Len(v)
    BY <1>3, <1>4, <2>1
  <2>5. \A i \in 1..3 : rec[i] = head[i]
    <3> SUFFICES ASSUME NEW i \in 1..3 PROVE rec[i] = head[i]
      OBVIOUS
    <3>1. i \in 1..(Len(head) + Len(v)) /\ i <= Len(head)
      BY <1>2, <1>3
    <3> QED BY <1>4, <2>2, <3>1
  <2> QED BY <2>4, <2>5
<1>6. Len(rec) = 4 <=> Len(v) = 1
  <2> DEFINE n == Len(v)
             m == Len(rec)
  <2>1. n \in Nat /\ m = 3 + n
    BY <1>2, <1>5
  <2> HIDE DEF m, n
  <2>2. m = 4 <=> n = 1
    BY <2>1
  <2> QED BY <2>2 DEF m, n
<1>7. rec[2] = WordBytes <=> Len(v) = 1
  <2>1. rec[2] = WordBytes * Len(v)
    BY <1>3, <1>5
  <2> DEFINE n == Len(v)
  <2>2. WordBytes * n = WordBytes <=> n = 1
    <3>1. n \in Nat
      BY <1>2
    <3> HIDE DEF n
    <3> QED BY <3>1 DEF WordBytes
  <2> QED BY <2>1, <2>2
<1>8. key # WordBytes
  OBVIOUS
<1> QED
  BY <1>2, <1>3, <1>5, <1>6, <1>7, <1>8 DEF KeySeen

\* A bare key is compared by itself.
LEMMA SeenBare ==
    ASSUME NEW key \in Keys
    PROVE  <<key>> \in Bytes \ {<<>>} /\ KeySeen(<<key>>) = key
<1>1. key \in Nat
  BY KeysAssumption
<1>2. <<key>> \in Seq(Nat) /\ Len(<<key>>) = 1 /\ <<key>>[1] = key
  BY <1>1
<1> QED
  BY <1>2 DEF KeySeen, Bytes

\* What the file holds at the offset of an entry is what the entry reads.
LEMMA WordsRead ==
    ASSUME FilesTyped, Whole, NEW k \in 1..Len(index), NEW i \in 1..Len(Contents[k])
    PROVE  values[index[k].begin + i] = Contents[k][i]
<1> DEFINE e == index[k]
           n == e.end - e.begin
           x == Content(e)
<1>1. x = Contents[k] /\ Len(x) = n
  BY ContentsTyped
<1>2. e \in Entries
  <2>1. index \in Seq(Entries)
    BY DEF FilesTyped
  <2> QED BY <2>1, ElementOfSeq
<1>3. e.begin \in Nat /\ e.end \in Nat /\ e.end <= Len(values) /\ Len(values) \in Nat
  BY <1>2, LenProperties DEF Entries, Whole, FilesTyped, Bytes
<1>4. x = [j \in 1..n |-> IF e.begin + j <= Len(values) THEN values[e.begin + j] ELSE 0]
  BY DEF Content
<1> HIDE DEF e, n, x
<1>5. i \in 1..n /\ e.begin + i <= Len(values)
  <2>1. i \in 1..n
    BY <1>1
  <2>2. n = e.end - e.begin
    BY DEF n
  <2> QED BY <1>3, <2>1, <2>2
<1>6. x[i] = values[e.begin + i]
  BY <1>4, <1>5
<1> QED
  BY <1>1, <1>6 DEF e

\* What the getter needs of a sorted store.
LEMMA SortedAnswers ==
    ASSUME KeysCompared, KeyInv, Records = KeyValueRecords, WordBytes \notin Keys,
           flags.hasSorted, ~skewed, NEW key \in Keys
    PROVE  LET pos == Locate(<<key>>)
           IN  /\ CanSearch
               /\ pos \in 0..Len(index) \union {Astray}
               /\ pos \in 0..(Len(index) - 1) => pos + 1 \in Holders(key)
               /\ Holders(key) # {} => pos \in 0..(Len(index) - 1)
<1> DEFINE bare == <<key>>
           pos == Locate(bare)
<1>1. bare \in Bytes \ {<<>>} /\ KeySeen(bare) = key
  BY SeenBare
<1>2. CanSearch /\ ContentsInOrder
  BY DEF KeyInv, StoreInv, InsertedSomewhere, FilesInv, Ownership, Shapes, SortedIsMapped,
         FlaggedInOrder, ReopensSorter, CanSearch
<1>3. /\ Len(index) \in Nat
      /\ \A k \in 1..Len(index) : Contents[k] \in Bytes \ {<<>>}
  BY ContentsTyped DEF KeyInv, FilesInv
<1>4. index \in Seq([begin : Nat, end : Nat]) /\ index # <<>>
  BY DEF KeyInv, KeyRecords, FilesInv, FilesTyped, Entries
<1>5. ASSUME NEW k \in 1..Len(index)
      PROVE  Compare(Contents[k], bare) = 0 <=> k \in Holders(key)
  <2>1. Contents[k] \in KeyValueRecords /\ Contents[k] \in Bytes \ {<<>>}
    BY <1>3 DEF KeyInv, KeyRecords, HoldsRecords
  <2>2. KeySeen(Contents[k]) = key <=> Len(Contents[k]) = 4 /\ Contents[k][3] = key
    BY <2>1, SeenKey
  <2>3. Compare(Contents[k], bare) = 0 <=> KeySeen(Contents[k]) = KeySeen(bare)
    BY <1>1, <2>1, SeenInOrder
  <2> QED BY <1>1, <2>2, <2>3 DEF Holders
<1> HIDE DEF bare
<1>6. ComparesInOrder
  BY KeysInOrder
<1>7. /\ pos \in 0..Len(index) \union {Astray}
      /\ pos \in 0..(Len(index) - 1) => Compare(Contents[pos + 1], bare) = 0
      /\ pos = Astray => Compare(Contents[1], bare) > 0
      /\ pos = Len(index) => \A k \in 1..Len(index) : Compare(Contents[k], bare) # 0
  BY <1>1, <1>2, <1>3, <1>4, <1>6, LocateAnswers
<1> HIDE DEF pos
<1>8. pos \in 0..(Len(index) - 1) => pos + 1 \in Holders(key)
  <2> SUFFICES ASSUME pos \in 0..(Len(index) - 1) PROVE pos + 1 \in Holders(key)
    OBVIOUS
  <2>1. pos + 1 \in 1..Len(index)
    BY <1>3
  <2> QED BY <1>5, <1>7, <2>1
<1>9. ASSUME NEW h \in Holders(key) PROVE pos \in 0..(Len(index) - 1)
  <2>1. h \in 1..Len(index) /\ 1 \in 1..Len(index)
    BY <1>3 DEF Holders
  <2>2. Compare(Contents[h], bare) = 0
    BY <1>5, <1>9, <2>1
  <2>3. pos # Len(index)
    BY <1>7, <2>1, <2>2
  <2>4. pos # Astray
    <3> SUFFICES ASSUME pos = Astray PROVE FALSE
      OBVIOUS
    <3>1. Compare(Contents[1], bare) > 0
      BY <1>7
    <3>2. h # 1
      BY <2>2, <3>1
    <3>3. Compare(Contents[1], Contents[h]) <= 0
      BY <1>2, <2>1, <3>2 DEF ContentsInOrder
    <3>4. Compare(Contents[h], bare) > 0
      BY <1>1, <1>3, <1>6, <2>1, <3>1, <3>3 DEF ComparesInOrder
    <3> QED BY <2>2, <3>4
  <2> QED BY <1>3, <1>7, <2>3, <2>4
<1> QED
  BY <1>2, <1>7, <1>8, <1>9 DEF pos, bare

\* The value read at a slot, or at end() in the place of the first one.
LEMMA SlotReads ==
    ASSUME KeyInv, Records = KeyValueRecords, WordBytes \notin Keys, flags.hasSorted, ~skewed,
           NEW key \in Keys, NEW pos \in 0..Len(index), NEW k \in 1..Len(index),
           k = IF pos < Len(index) THEN pos + 1 ELSE 1
    PROVE  /\ HasWord(pos) <=> Len(Contents[k]) = 4
           /\ HasWord(pos) => ValueWord(pos) = Contents[k][4]
<1>1. BeginAt(pos) = index[k].begin
  BY DEF BeginAt, KeyInv, KeyRecords
<1>2. Contents[k] \in KeyValueRecords
  BY DEF KeyInv, KeyRecords, HoldsRecords
<1> DEFINE x == Contents[k]
           b == index[k].begin
<1>3. /\ x[1] = WordBytes /\ Len(x) \in Nat /\ Len(x) >= 3
      /\ x[2] = WordBytes <=> Len(x) = 4
  BY <1>2, SeenKey
<1>4. \A i \in 1..Len(x) : values[b + i] = x[i]
  BY WordsRead DEF KeyInv, OwnBytes, FilesInv
<1> HIDE DEF x
<1>5. b \in Nat
  <2>1. index \in Seq(Entries)
    BY DEF KeyInv, FilesInv, FilesTyped
  <2>2. index[k] \in Entries
    BY <2>1, ElementOfSeq
  <2> QED BY <2>2 DEF Entries
<1> HIDE DEF b
<1>6. values[b + 1] = WordBytes /\ values[b + 2] = x[2] /\ (Len(x) = 4 => values[b + 4] = x[4])
  BY <1>3, <1>4
<1>7. HasWord(pos) <=> values[b + 2] = WordBytes
  BY <1>1 DEF HasWord, b
<1>8. ValueWord(pos) = values[b + 3 + values[b + 1] \div WordBytes]
  BY <1>1 DEF ValueWord, b
<1>9. b + 3 + values[b + 1] \div WordBytes = b + 4
  BY <1>5, <1>6 DEF WordBytes
<1> QED
  BY <1>3, <1>6, <1>7, <1>8, <1>9 DEF x

\* Only a getter answers as one does.
LEMMA OnlyGets ==
    ASSUME [KeyValueNext]_vars, vars' # vars, reply'.op = "get"
    PROVE  \E key \in Keys : Get(key) \/ GetFails(key)
<1>1. ~(SortElement \/ SortFails \/ SortedAlready \/ Begin \/ Reopen)
  BY DEF SortElement, SortFails, SortedAlready, Begin, Reopen, Fails, Replies
<1>2. \A rec \in Records : ~(Set(rec) \/ SetFails(rec))
  BY DEF Set, SetFails, Fails, Replies
<1>3. \A key \in Keys : ~GetRecord(key)
  BY DEF GetRecord, Replies
<1> QED
  BY <1>1, <1>2, <1>3 DEF KeyValueNext

\* On a sorted store a key with a value of one word is found and one of its
\* values given; for another key the getter dies or gives what the first
\* record holds.  No key is the word that begins every record: the record of
\* a longer value is compared as if that word were its key.
THEOREM GetterAnswers ==
    ASSUME KeysCompared, Records = KeyValueRecords, WordBytes \notin Keys
    PROVE  KeyValueSpec => GetAnswersKey
<1> DEFINE Right ==
             IF Holders(reply'.old[1]) # {}
               THEN \E k \in Holders(reply'.old[1]) : reply'.neu = <<Contents[k][4]>>
               ELSE \/ reply'.res # "value"
                    \/ reply'.neu = <<Contents[1][4]>>
<1>1. ASSUME KeyInv, [KeyValueNext]_vars, vars' # vars, reply'.op = "get", flags.hasSorted, ~skewed
      PROVE  Right
  <2>1. PICK key \in Keys : Get(key) \/ GetFails(key)
    BY <1>1, OnlyGets
  <2> DEFINE pos == Locate(<<key>>)
  <2>2. /\ CanSearch
        /\ pos \in 0..Len(index) \union {Astray}
        /\ pos \in 0..(Len(index) - 1) => pos + 1 \in Holders(key)
        /\ Holders(key) # {} => pos \in 0..(Len(index) - 1)
    BY <1>1, SortedAnswers
  <2>3. Len(index) \in Nat /\ Len(index) # 0
    BY <1>1, ContentsTyped, EmptySeq DEF KeyInv, FilesInv, KeyRecords
  <2>4. reply'.old = <<key>> /\ reply'.old[1] = key
    <3>1. ASSUME Get(key) PROVE reply'.old = <<key>>
      <4>1. CASE HasWord(pos)
        BY <3>1, <4>1 DEF Get, Replies
      <4>2. CASE ~HasWord(pos)
        <5>1. Replies("get", <<key>>, <<>>, "any word")
          BY <3>1, <4>2 DEF Get
        <5> QED BY <5>1 DEF Replies
      <4> QED BY <4>1, <4>2
    <3>2. ASSUME GetFails(key) PROVE reply'.old = <<key>>
      BY <3>2 DEF GetFails, Fails, Replies
    <3> QED BY <2>1, <3>1, <3>2
  <2>5. CASE GetFails(key)
    <3>1. reply'.res = "failed" /\ pos = Astray
      BY <2>2, <2>5 DEF GetFails, Fails, Replies
    <3>2. Holders(key) = {}
      BY <2>2, <2>3, <3>1 DEF Astray
    <3> QED BY <2>4, <3>1, <3>2
  <2>6. CASE Get(key)
    <3>1. /\ pos # Astray
          /\ HasWord(pos) => reply'.neu = <<ValueWord(pos)>>
          /\ ~HasWord(pos) => reply'.res = "any word"
      <4>1. pos # Astray
        BY <2>6 DEF Get
      <4>2. ASSUME HasWord(pos) PROVE reply'.neu = <<ValueWord(pos)>>
        BY <2>6, <4>2 DEF Get, Replies
      <4>3. ASSUME ~HasWord(pos) PROVE reply'.res = "any word"
        <5>1. Replies("get", <<key>>, <<>>, "any word")
          BY <2>6, <4>3 DEF Get
        <5> QED BY <5>1 DEF Replies
      <4> QED BY <4>1, <4>2, <4>3
    <3> DEFINE k == IF pos < Len(index) THEN pos + 1 ELSE 1
    <3>2. pos \in 0..Len(index) /\ k \in 1..Len(index)
      <4>1. pos \in 0..Len(index)
        BY <2>2, <3>1
      <4> HIDE DEF pos
      <4> QED BY <2>3, <4>1
    <3>3. /\ HasWord(pos) <=> Len(Contents[k]) = 4
          /\ HasWord(pos) => ValueWord(pos) = Contents[k][4]
      BY <1>1, <3>2, SlotReads
    <3> HIDE DEF pos
    <3>4. CASE pos < Len(index)
      <4>1. pos \in 0..(Len(index) - 1) /\ k = pos + 1
        BY <2>3, <3>2, <3>4
      <4>2. k \in Holders(key)
        BY <2>2, <4>1
      <4>3. Len(Contents[k]) = 4
        BY <4>2 DEF Holders
      <4> QED BY <2>4, <3>1, <3>3, <4>2, <4>3
    <3>5. CASE ~(pos < Len(index))
      <4>1. Holders(key) = {} /\ k = 1
        BY <2>2, <2>3, <3>2, <3>5
      <4> QED BY <2>4, <3>1, <3>3, <4>1
    <3> QED BY <3>4, <3>5
  <2> QED BY <2>1, <2>5, <2>6
<1>2. KeyInv /\ [KeyValueNext]_vars => [reply'.op = "get" /\ flags.hasSorted /\ ~skewed => Right]_vars
  BY <1>1
<1> QED
  BY <1>2, KeyInvariance, PTL DEF KeyValueSpec, GetAnswersKey
=============================================================================
