----------------------- MODULE ExternalMergeSortProofs -----------------------
(***************************************************************************)
(* What holds of external_merge_sort::run() for any input, run size,       *)
(* comparator and leftovers.  The invariant has five parts besides the     *)
(* types: what the buffers, the scratch files, the heap, the end of the    *)
(* merge and the files of the store look like at each step of the call.    *)
(***************************************************************************)
EXTENDS ExternalMergeSort, SequenceTheorems, TLAPS

BeforeMerge == {"chunk", "copy", "store", "openOutput"}
Merging == {"openRuns", "merge", "push"}

\* There is a slot for every record of a run, and postfix ++ never moves.
BufferInv ==
    /\ Len(buffers) >= call.runSize
    /\ pos = 0

\* Entries name records that are there, and a file that was opened by this
\* call has something to read.
ScratchInv ==
    \A f \in ScratchFiles :
        /\ ends[f] > 0 => f < num_ways
        /\ pc \in BeforeMerge \union Merging =>
              /\ ends[f] <= Len(scratch[f].values.recs)
              /\ ends[f] > 0 => scratch[f].values.exists /\ SizeOf(f) > 0
              /\ \A k \in 1..Len(scratch[f].index.recs) :
                    scratch[f].index.recs[k] \in 1..Len(scratch[f].values.recs)

HeapInv ==
    /\ ptrs = [f \in ScratchFiles |-> 0]
    /\ pc \in BeforeMerge => heap = {}
    /\ HeapHoldsOpenFiles
    /\ pc = "openRuns" => /\ \A x \in heap : x.file < run
                          /\ run > 0 => heap # {}
    /\ pc = "push" => /\ ends[popped] > 0
                      /\ \A x \in heap : x.file # popped

\* The merge of a file that was written does not end.
MergeInv ==
    /\ pc = "merge" => heap # {} \/ ends[0] = 0
    /\ pc \in {"unlinkIndex", "unlinkValues", "renameValues", "renameIndex", "done"} => ends[0] = 0

DiskInv ==
    pc \notin {"renameValues", "renameIndex", "done"} => disk.values = FileOf(call.input)

Inv == TypeOK /\ BufferInv /\ ScratchInv /\ HeapInv /\ MergeInv /\ DiskInv

-----------------------------------------------------------------------------
(* Facts about the operators *)

\* There are no more scratch files than records.
LEMMA Ways ==
    ASSUME call \in Calls
    PROVE  /\ full \in 0..MaxInput /\ call.runSize \in Nat \ {0}
           /\ num_ways \in 0..full
           /\ call.input \in Seq(Records)
<1>1. PICK n \in 0..MaxInput : call.input \in [1..n -> Records]
  BY DEF Calls
<1>2. call.runSize \in Nat \ {0}
  BY SizesAssumption DEF Calls
<1>3. call.input \in Seq(Records) /\ Len(call.input) = n
  BY <1>1, SizesAssumption
<1>4. \A a \in Nat, b \in Nat \ {0} : a \div b \in 0..a
  OBVIOUS
<1> QED BY <1>2, <1>3, <1>4, SizesAssumption DEF full, num_ways

\* Sorting the buffers keeps their number and brings in nothing new.
LEMMA SortedBuffers ==
    ASSUME NEW S, NEW s \in Seq(S), NEW t \in Sorted(s)
    PROVE  /\ t \in Seq(S) /\ Len(t) = Len(s)
           /\ \A k \in 1..Len(t) : \E m \in 1..Len(s) : t[k] = s[m]
<1>1. t \in [1..Len(s) -> Range(s)]
  BY DEF Sorted, Permuted
<1>2. \A r \in Range(s) : r \in S /\ \E m \in 1..Len(s) : r = s[m]
  BY DEF Range
<1> QED BY <1>1, <1>2

\* Opening for appending and writing keep the type of a file.
LEMMA FileTypes ==
    ASSUME NEW S, NEW file \in File(S), NEW x \in S
    PROVE  /\ OpenToAppend(file) \in File(S) /\ OpenToAppend(file).exists
           /\ WriteTo(file, x) \in File(S) /\ WriteTo(file, x).exists
           /\ WriteTo(file, x).recs = Append(file.recs, x)
           /\ NoFile \in File(S)
           /\ \A recs \in Seq(S) : FileOf(recs) \in File(S) /\ FileOf(recs).exists
                                   /\ FileOf(recs).recs = recs
  BY DEF File, OpenToAppend, WriteTo, FileOf, NoFile

\* What an iterator reads from a scratch file is a record.
LEMMA ReadsRecords ==
    ASSUME TypeOK, ScratchInv, pc \in BeforeMerge \union Merging,
           NEW f \in ScratchFiles, NEW p \in Nat, p < SizeOf(f)
    PROVE  RecordAt(f, p) \in Ranks
<1>1. /\ scratch[f].values \in File(Ranks) /\ scratch[f].index \in File(Nat)
      /\ scratch[f].values.recs \in Seq(Ranks) /\ scratch[f].index.recs \in Seq(Nat)
  BY DEF TypeOK, File
<1>2. CASE call.fixed
  <2>1. p + 1 \in 1..Len(scratch[f].values.recs)
    BY <1>1, <1>2 DEF SizeOf
  <2> QED BY <1>1, <1>2, <2>1 DEF RecordAt
<1>3. CASE ~call.fixed
  <2>1. p + 1 \in 1..Len(scratch[f].index.recs)
    BY <1>1, <1>3 DEF SizeOf
  <2>2. scratch[f].index.recs[p + 1] \in 1..Len(scratch[f].values.recs)
    BY <2>1 DEF ScratchInv
  <2> QED BY <1>1, <1>3, <2>2 DEF RecordAt
<1> QED BY <1>2, <1>3

\* Removing scratch files leaves the others as they are.
LEMMA UnlinkTypes ==
    ASSUME NEW S, UnlinkRuns(S),
           scratch \in [ScratchFiles -> [values : File(Ranks), index : File(Nat)]]
    PROVE  scratch' \in [ScratchFiles -> [values : File(Ranks), index : File(Nat)]]
<1>1. NoFile \in File(Ranks) /\ NoFile \in File(Nat)
  BY DEF NoFile, File
<1> QED BY <1>1 DEF UnlinkRuns

-----------------------------------------------------------------------------
(* The initial states *)

\* The index of a scratch file whose only entry was flushed.
OneEntry == <<1>>

\* What a killed call leaves: an entry, if it was flushed, names the record.
LEMMA LeftoverFiles ==
    ASSUME NEW fixed, NEW l \in Leftovers(fixed)
    PROVE  /\ l \in [values : File(Ranks), index : File(Nat)]
           /\ \A k \in 1..Len(l.index.recs) : l.index.recs[k] \in 1..Len(l.values.recs)
<1>1. CASE l = [values |-> NoFile, index |-> NoFile]
  BY <1>1 DEF File, NoFile
<1>2. ASSUME NEW r \in Strangers, NEW e \in {<<>>, OneEntry},
             l = [values |-> FileOf(<<r>>), index |-> IndexOf(fixed, e)]
      PROVE  /\ l \in [values : File(Ranks), index : File(Nat)]
             /\ \A k \in 1..Len(l.index.recs) : l.index.recs[k] \in 1..Len(l.values.recs)
  <2>1. FileOf(<<r>>) \in File(Ranks) /\ Len(FileOf(<<r>>).recs) = 1
    BY DEF FileOf, File, Ranks
  <2>2. e \in Seq(Nat) /\ \A k \in 1..Len(e) : e[k] = 1
    <3>1. CASE e = <<>>
      BY <3>1
    <3>2. CASE e = OneEntry
      BY <3>2 DEF OneEntry
    <3> QED BY <3>1, <3>2
  <2>3. /\ IndexOf(fixed, e) \in File(Nat)
        /\ \A k \in 1..Len(IndexOf(fixed, e).recs) : IndexOf(fixed, e).recs[k] = 1
    BY <2>2 DEF IndexOf, FileOf, NoFile, File
  <2>4. l.values = FileOf(<<r>>) /\ l.index = IndexOf(fixed, e)
    BY <1>2
  <2>5. l \in [values : File(Ranks), index : File(Nat)]
    BY <1>2, <2>1, <2>3
  <2>6. ASSUME NEW k \in 1..Len(l.index.recs)
        PROVE  l.index.recs[k] \in 1..Len(l.values.recs)
    <3>1. l.index.recs[k] = 1 /\ Len(l.values.recs) = 1
      BY <2>1, <2>3, <2>4, <2>6
    <3> QED BY <3>1
  <2> QED BY <2>5, <2>6
<1>3. \/ l = [values |-> NoFile, index |-> NoFile]
      \/ \E r \in Strangers, e \in {<<>>, OneEntry} :
            l = [values |-> FileOf(<<r>>), index |-> IndexOf(fixed, e)]
  BY DEF Leftovers, OneEntry
<1> QED BY <1>1, <1>2, <1>3

LEMMA Start == Init => Inv
<1> SUFFICES ASSUME Init PROVE Inv
  OBVIOUS
<1> USE DEF Init, EmptyBuffers
<1>1. call \in Calls /\ full \in 0..MaxInput /\ call.runSize \in Nat \ {0}
      /\ call.input \in Seq(Records)
  BY Ways
<1>2. ASSUME NEW l \in Leftovers(call.fixed)
      PROVE  /\ l \in [values : File(Ranks), index : File(Nat)]
             /\ \A k \in 1..Len(l.index.recs) : l.index.recs[k] \in 1..Len(l.values.recs)
  BY LeftoverFiles
<1>3. /\ disk \in [values : File(Ranks), index : File(Nat),
                   tempValues : File(Ranks), tempIndex : File(Nat)]
      /\ disk.values = FileOf(call.input) /\ disk.values.exists
      /\ call.fixed \/ disk.index.exists
  <2>1. PICK temp \in Leftovers(call.fixed) :
          disk = [values |-> FileOf(call.input),
                  index |-> IndexOf(call.fixed, [k \in 1..full |-> k]),
                  tempValues |-> temp.values, tempIndex |-> temp.index]
    OBVIOUS
  <2>2. FileOf(call.input) \in File(Ranks) /\ FileOf(call.input).exists
    BY <1>1 DEF FileOf, File, Ranks
  <2>3. [k \in 1..full |-> k] \in Seq(Nat)
    BY <1>1
  <2>4. /\ IndexOf(call.fixed, [k \in 1..full |-> k]) \in File(Nat)
        /\ call.fixed \/ IndexOf(call.fixed, [k \in 1..full |-> k]).exists
    BY <2>3 DEF IndexOf, FileOf, NoFile, File
  <2> QED BY <2>1, <2>2, <2>4, <1>2
<1>4. /\ scratch \in [ScratchFiles -> [values : File(Ranks), index : File(Nat)]]
      /\ \A f \in ScratchFiles : \A k \in 1..Len(scratch[f].index.recs) :
            scratch[f].index.recs[k] \in 1..Len(scratch[f].values.recs)
  <2>1. PICK left \in Leftovers(call.fixed) :
          scratch = [f \in ScratchFiles |->
                       IF f = 0 THEN left ELSE [values |-> NoFile, index |-> NoFile]]
    OBVIOUS
  <2>2. NoFile \in File(Ranks) /\ NoFile \in File(Nat) /\ NoFile.recs = <<>>
    BY DEF File, NoFile
  <2> QED BY <1>2, <2>1, <2>2
<1>5. buffers \in Seq(Records \union {NoRecord}) /\ Len(buffers) = call.runSize
  BY <1>1
<1>6. 0 \in ScratchFiles
  BY SizesAssumption DEF ScratchFiles
<1>7. TypeOK
  BY <1>1, <1>3, <1>4, <1>5, <1>6 DEF TypeOK, Steps
<1>8. BufferInv
  BY <1>1, <1>5 DEF BufferInv
<1>9. ScratchInv
  <2>1. \A f \in ScratchFiles : scratch[f].values.recs \in Seq(Ranks)
    BY <1>4 DEF File
  <2> QED BY <1>4, <2>1 DEF ScratchInv
<1>10. HeapInv
  BY DEF HeapInv, HeapHoldsOpenFiles, BeforeMerge
<1>11. MergeInv /\ DiskInv
  BY <1>3 DEF MergeInv, DiskInv, Merging
<1> QED BY <1>7, <1>8, <1>9, <1>10, <1>11 DEF Inv
-----------------------------------------------------------------------------
(* The types, action by action *)

LEMMA TypeStep == Inv /\ [Next]_vars => TypeOK'
<1> SUFFICES ASSUME Inv, [Next]_vars PROVE TypeOK'
  OBVIOUS
<1> USE DEF Inv
<1>1. /\ full \in 0..MaxInput /\ call.runSize \in Nat \ {0}
      /\ num_ways \in 0..full /\ call.input \in Seq(Records) /\ call \in Calls
  BY Ways DEF TypeOK
<1>2. /\ 0 \in ScratchFiles /\ pos = 0
      /\ num_ways <= MaxInput /\ \A f \in 0..(num_ways - 1) : f \in ScratchFiles
  BY <1>1, SizesAssumption DEF ScratchFiles, BufferInv
<1>3. CASE \/ UNCHANGED vars \/ EndRuns \/ SortFaults \/ StoreFaults
           \/ OpenRunFaults \/ OpenNoMoreRuns \/ OpenHollowFaults
  BY <1>3 DEF TypeOK, Steps, vars, callVars, chunkVars, mergeVars, full, EndRuns, SortFaults,
     StoreFaults, OpenRunFaults, OpenNoMoreRuns, OpenHollowFaults, Fault
<1>4. CASE StartChunk
  BY <1>1, <1>4 DEF TypeOK, Steps, StartChunk, callVars, mergeVars, full
<1>5. CASE CopyRecord
  <2>1. /\ filled' \in 0..call.runSize /\ completed' \in 0..(full + 1) /\ pos' = 0
        /\ stored \in 0..filled'
    BY <1>1, <1>2, <1>5 DEF TypeOK, CopyRecord, MoreToCopy, PostfixStep
  <2>2. buffers' \in Seq(Records \union {NoRecord})
    <3>1. call.input[pos + 1] \in Records
      BY <1>1, <1>2, <1>5 DEF CopyRecord, MoreToCopy, full
    <3> DEFINE slots == IF run = 0 THEN Append(buffers, NoRecord) ELSE buffers
    <3>2. slots \in Seq(Records \union {NoRecord})
      BY DEF TypeOK
    <3>3. buffers' = [slots EXCEPT ![filled + 1] = call.input[pos + 1]]
      BY <1>5 DEF CopyRecord
    <3>4. filled + 1 \in 1..Len(slots)
      BY <1>1, <1>5 DEF TypeOK, BufferInv, CopyRecord, MoreToCopy
    <3> HIDE DEF slots
    <3> QED BY <3>1, <3>2, <3>3, <3>4, ExceptSeq
  <2> QED BY <1>1, <1>2, <1>5, <2>1, <2>2 DEF TypeOK, CopyRecord, callVars, mergeVars, full
<1>6. CASE SortBuffers
  <2>1. buffers' \in Seq(Records \union {NoRecord})
    BY <1>6, SortedBuffers DEF TypeOK, SortBuffers
  <2> QED BY <1>6, <2>1 DEF TypeOK, Steps, SortBuffers, callVars, mergeVars, full
<1>7. CASE StoreRecord
  <2>1. run \in ScratchFiles
    BY <1>1, <1>2, <1>7 DEF TypeOK, StoreRecord
  <2>2. buffers[stored + 1] \in Records
    <3>1. stored + 1 \in 1..Len(buffers) /\ buffers \in Seq(Records \union {NoRecord})
      BY <1>1, <1>7 DEF TypeOK, BufferInv, StoreRecord
    <3> QED BY <1>7, <3>1 DEF StoreRecord
  <2>3. /\ WriteTo(scratch[run].values, buffers[stored + 1]) \in File(Ranks)
        /\ WriteTo(scratch[run].index, ends[run] + 1) \in File(Nat)
    <3>1. scratch[run].values \in File(Ranks) /\ buffers[stored + 1] \in Ranks
      BY <2>1, <2>2 DEF TypeOK, Ranks
    <3>2. scratch[run].index \in File(Nat) /\ ends[run] + 1 \in Nat
      BY <2>1 DEF TypeOK
    <3>3. WriteTo(scratch[run].values, buffers[stored + 1]) \in File(Ranks)
      BY <3>1, FileTypes
    <3>4. WriteTo(scratch[run].index, ends[run] + 1) \in File(Nat)
      BY <3>2, FileTypes
    <3> QED BY <3>3, <3>4
  <2>4. scratch' \in [ScratchFiles -> [values : File(Ranks), index : File(Nat)]]
    BY <1>7, <2>1, <2>3 DEF TypeOK, StoreRecord
  <2>5. ends' \in [ScratchFiles -> Nat] /\ stored' \in 0..filled
    BY <1>7, <2>1 DEF TypeOK, StoreRecord
  <2> QED BY <1>7, <2>4, <2>5 DEF TypeOK, StoreRecord, mergeVars, full
<1>8. CASE StoreNothing
  BY <1>1, <1>8 DEF TypeOK, StoreNothing, callVars, mergeVars, full
<1>9. CASE EndChunk
  BY <1>1, <1>9 DEF TypeOK, Steps, EndChunk, callVars, mergeVars, full
<1>10. CASE OpenOutput
  <2>1. /\ OpenToAppend(disk.tempValues) \in File(Ranks)
        /\ OpenToAppend(disk.tempIndex) \in File(Nat)
    BY DEF TypeOK, OpenToAppend, FileOf, File
  <2>2. disk' \in [values : File(Ranks), index : File(Nat),
                   tempValues : File(Ranks), tempIndex : File(Nat)]
    BY <1>10, <2>1 DEF TypeOK, OpenOutput
  <2> QED BY <1>10, <2>2 DEF TypeOK, Steps, OpenOutput, mergeVars, full
<1>11. CASE OpenRun
  <2>1. run \in ScratchFiles
    BY <1>1, <1>2, <1>11 DEF TypeOK, OpenRun
  <2>2. RecordAt(run, 0) \in Ranks
    <3>1. 0 < SizeOf(run)
      BY <1>11, <2>1 DEF ScratchInv, Merging, OpenRun
    <3> QED BY <1>11, <2>1, <3>1, ReadsRecords DEF Merging, OpenRun
  <2>3. heap' \subseteq [rec : Ranks, file : ScratchFiles]
    BY <1>11, <2>1, <2>2 DEF TypeOK, OpenRun, Element
  <2>4. ptrs' = [ptrs EXCEPT ![run] = 0] /\ run' = run + 1
    BY <1>11 DEF OpenRun
  <2>5. ptrs' \in [ScratchFiles -> Nat] /\ run' \in Nat
    <3>1. ptrs \in [ScratchFiles -> Nat] /\ run \in Nat
      BY DEF TypeOK
    <3>2. run' \in Nat
      BY <2>4, <3>1
    <3>3. [ptrs EXCEPT ![run] = 0] \in [ScratchFiles -> Nat]
      BY <3>1
    <3> QED BY <2>4, <3>2, <3>3
  <2> QED BY <1>11, <2>3, <2>5 DEF TypeOK, OpenRun, callVars, full
<1>12. ASSUME NEW x \in heap, Pop(x)
      PROVE  TypeOK'
  <2>1. x \in [rec : Ranks, file : ScratchFiles]
    BY DEF TypeOK
  <2>2. /\ WriteTo(disk.tempValues, x.rec) \in File(Ranks)
        /\ WriteTo(disk.tempIndex, outEnd + 1) \in File(Nat)
    <3>1. disk.tempValues \in File(Ranks) /\ x.rec \in Ranks
      BY <2>1 DEF TypeOK
    <3>2. disk.tempIndex \in File(Nat) /\ outEnd + 1 \in Nat
      BY DEF TypeOK
    <3>3. WriteTo(disk.tempValues, x.rec) \in File(Ranks)
      BY <3>1, FileTypes
    <3>4. WriteTo(disk.tempIndex, outEnd + 1) \in File(Nat)
      BY <3>2, FileTypes
    <3> QED BY <3>3, <3>4
  <2>3. disk' \in [values : File(Ranks), index : File(Nat),
                   tempValues : File(Ranks), tempIndex : File(Nat)]
    BY <1>12, <2>2 DEF TypeOK, Pop
  <2>4. outEnd' \in Nat /\ ptrs' \in [ScratchFiles -> Nat] /\ popped' \in ScratchFiles
        /\ heap' \subseteq heap
    BY <1>12, <2>1 DEF TypeOK, Pop, PostfixStep
  <2> QED BY <1>12, <2>3, <2>4 DEF TypeOK, Steps, Pop, chunkVars, full
<1>13. CASE Push
  <2>1. ptrs[popped] = 0 /\ popped \in ScratchFiles
    BY DEF TypeOK, HeapInv
  <2>2. SizeOf(popped) > 0
    BY <1>13, <2>1 DEF ScratchInv, HeapInv, Merging, Push
  <2>3. RecordAt(popped, ptrs[popped]) \in Ranks
    BY <1>13, <2>1, <2>2, ReadsRecords DEF Merging, Push
  <2>4. heap' \subseteq [rec : Ranks, file : ScratchFiles]
    BY <1>13, <2>1, <2>3 DEF TypeOK, Push, Element
  <2>5. scratch' \in [ScratchFiles -> [values : File(Ranks), index : File(Nat)]]
    BY <1>13, UnlinkTypes DEF TypeOK, Push
  <2> QED BY <1>13, <2>4, <2>5 DEF TypeOK, Steps, Push, chunkVars, full
<1>14. CASE EndMerge
  <2>1. scratch' \in [ScratchFiles -> [values : File(Ranks), index : File(Nat)]]
    BY <1>14, UnlinkTypes DEF TypeOK, EndMerge
  <2> QED BY <1>14, <2>1 DEF TypeOK, Steps, EndMerge, chunkVars, mergeVars, full
<1>15. CASE UnlinkIndex \/ UnlinkValues \/ RenameValues \/ RenameIndex
  <2>1. NoFile \in File(Ranks) /\ NoFile \in File(Nat)
    BY DEF NoFile, File
  <2>2. disk' \in [values : File(Ranks), index : File(Nat),
                   tempValues : File(Ranks), tempIndex : File(Nat)]
    BY <1>15, <2>1 DEF TypeOK, UnlinkIndex, UnlinkValues, RenameValues, RenameIndex
  <2>3. pc' \in Steps
    BY <1>15 DEF Steps, Step, UnlinkIndex, UnlinkValues, RenameValues, RenameIndex
  <2>4. UNCHANGED <<call, scratch, chunkVars, mergeVars>>
    BY <1>15 DEF Step, UnlinkIndex, UnlinkValues, RenameValues, RenameIndex
  <2> QED BY <2>2, <2>3, <2>4 DEF TypeOK, chunkVars, mergeVars, full
<1> QED
  BY <1>3, <1>4, <1>5, <1>6, <1>7, <1>8, <1>9, <1>10, <1>11, <1>12, <1>13, <1>14, <1>15 DEF Next

-----------------------------------------------------------------------------
(* The buffers *)

LEMMA BufferStep == Inv /\ [Next]_vars => BufferInv'
<1> SUFFICES ASSUME Inv, [Next]_vars PROVE BufferInv'
  OBVIOUS
<1>1. /\ buffers \in Seq(Records \union {NoRecord}) /\ call.runSize \in Nat \ {0}
      /\ filled \in 0..call.runSize /\ full \in Nat
  BY Ways DEF Inv, TypeOK
<1>2. Len(buffers) >= call.runSize /\ pos = 0
  BY DEF Inv, BufferInv
<1>3. ASSUME UNCHANGED <<call, buffers, pos>>
      PROVE  BufferInv'
  BY <1>3, <1>2 DEF BufferInv
<1>4. CASE CopyRecord
  <2> DEFINE slots == IF run = 0 THEN Append(buffers, NoRecord) ELSE buffers
  <2>1. slots \in Seq(Records \union {NoRecord}) /\ Len(slots) >= call.runSize
    BY <1>1, <1>2
  <2>2. buffers' = [slots EXCEPT ![filled + 1] = call.input[1]] /\ call' = call /\ pos' = 0
    BY <1>2, <1>4 DEF CopyRecord, callVars, PostfixStep
  <2> HIDE DEF slots
  <2>3. Len(buffers') = Len(slots)
    BY <2>1, <2>2
  <2> QED BY <2>1, <2>2, <2>3 DEF BufferInv
<1>5. CASE SortBuffers
  <2>1. Len(buffers') = Len(buffers)
    BY <1>1, <1>5, SortedBuffers DEF SortBuffers
  <2>2. call' = call /\ pos' = pos
    BY <1>5 DEF SortBuffers, callVars
  <2> QED BY <1>2, <2>1, <2>2 DEF BufferInv
<1>6. ASSUME Next, ~CopyRecord, ~SortBuffers
      PROVE  UNCHANGED <<call, buffers, pos>>
  <2>1. CASE EndRuns \/ StartChunk \/ SortFaults
    BY <2>1 DEF EndRuns, StartChunk, SortFaults, Fault, callVars, chunkVars
  <2>2. CASE StoreRecord \/ StoreNothing \/ StoreFaults \/ EndChunk
    BY <2>2 DEF StoreRecord, StoreNothing, StoreFaults, EndChunk, Fault, callVars, chunkVars
  <2>3. CASE \/ OpenOutput \/ OpenRun \/ OpenRunFaults \/ OpenNoMoreRuns \/ OpenHollowFaults
    BY <2>3 DEF OpenOutput, OpenRun, OpenRunFaults, OpenNoMoreRuns, OpenHollowFaults, Fault,
       callVars, chunkVars
  <2>4. CASE (\E x \in heap : Pop(x)) \/ Push \/ EndMerge
    BY <2>4 DEF Pop, Push, EndMerge, chunkVars
  <2>5. CASE UnlinkIndex \/ UnlinkValues \/ RenameValues \/ RenameIndex
    BY <2>5 DEF UnlinkIndex, UnlinkValues, RenameValues, RenameIndex, Step, chunkVars
  <2> QED BY <1>6, <2>1, <2>2, <2>3, <2>4, <2>5 DEF Next
<1>7. CASE UNCHANGED vars
  BY <1>3, <1>7 DEF vars, callVars, chunkVars
<1> QED BY <1>3, <1>4, <1>5, <1>6, <1>7

-----------------------------------------------------------------------------
(* The scratch files *)

\* No file is ever read to its end.
LEMMA PushGoesOn ==
    ASSUME Inv, Push
    PROVE  /\ scratch' = scratch /\ popped \in ScratchFiles
           /\ ends[popped] > 0 /\ SizeOf(popped) > 0 /\ ptrs[popped] = 0
           /\ heap' = heap \union {Element(popped, 0)}
<1>1. popped \in ScratchFiles /\ ptrs[popped] = 0 /\ ends[popped] > 0
  BY DEF Inv, TypeOK, HeapInv, Push
<1>2. SizeOf(popped) > 0
  BY <1>1 DEF Inv, ScratchInv, Merging, Push
<1>3. heap' = heap \union {Element(popped, 0)} /\ UnlinkRuns({})
  BY <1>1, <1>2 DEF Push
<1>4. scratch' = scratch
  <2>1. scratch = [f \in ScratchFiles |-> scratch[f]]
    BY DEF Inv, TypeOK
  <2>2. scratch' = [f \in ScratchFiles |-> scratch[f]]
    BY <1>3 DEF UnlinkRuns
  <2> QED BY <2>1, <2>2
<1> QED BY <1>1, <1>2, <1>3, <1>4

LEMMA ScratchStep == Inv /\ [Next]_vars => ScratchInv'
<1> SUFFICES ASSUME Inv, [Next]_vars PROVE ScratchInv'
  OBVIOUS
<1>1. ScratchInv /\ num_ways \in Nat
  BY Ways DEF Inv, TypeOK
<1>2. ASSUME UNCHANGED <<call, scratch, ends>>,
             pc \in BeforeMerge \union Merging \/ pc' \notin BeforeMerge \union Merging
      PROVE  ScratchInv'
  BY <1>1, <1>2 DEF ScratchInv, SizeOf, num_ways, full
<1>3. CASE StoreRecord
  <2>1. run \in ScratchFiles /\ run < num_ways
    BY <1>3, Ways, SizesAssumption DEF Inv, TypeOK, StoreRecord, ScratchFiles
  <2> DEFINE old == scratch[run]
             new == scratch'[run]
  <2>2. /\ call' = call /\ pc = "store" /\ pc' = "store" /\ run' = run
        /\ ends' = [ends EXCEPT ![run] = @ + 1]
        /\ \A f \in ScratchFiles : f # run => scratch'[f] = scratch[f] /\ ends'[f] = ends[f]
        /\ new.values = WriteTo(old.values, buffers[stored + 1])
        /\ new.index = IF call.fixed THEN old.index ELSE WriteTo(old.index, ends[run] + 1)
        /\ ends'[run] = ends[run] + 1
    BY <1>3, <2>1 DEF Inv, TypeOK, StoreRecord
  <2>3. /\ old.values.recs \in Seq(Ranks) /\ old.index.recs \in Seq(Nat) /\ ends[run] \in Nat
        /\ ends[run] <= Len(old.values.recs)
        /\ \A k \in 1..Len(old.index.recs) : old.index.recs[k] \in 1..Len(old.values.recs)
    BY <2>1, <2>2 DEF Inv, TypeOK, File, ScratchInv, BeforeMerge
  <2>4. scratch[run] = old /\ scratch'[run] = new
    OBVIOUS
  <2> HIDE DEF old, new
  <2>5. /\ new.values.exists
        /\ new.values.recs = Append(old.values.recs, buffers[stored + 1])
        /\ Len(new.values.recs) = Len(old.values.recs) + 1
    BY <2>2, <2>3 DEF WriteTo, FileOf
  <2>6. /\ \A k \in 1..Len(new.index.recs) : new.index.recs[k] \in 1..Len(new.values.recs)
        /\ ~call.fixed => Len(new.index.recs) > 0
    <3>1. CASE call.fixed
      <4>1. new.index = old.index
        BY <2>2, <3>1
      <4>2. ASSUME NEW k \in 1..Len(old.index.recs)
            PROVE  old.index.recs[k] \in 1..Len(new.values.recs)
        <5>1. old.index.recs[k] \in 1..Len(old.values.recs)
          BY <2>3
        <5> QED BY <2>3, <2>5, <5>1
      <4> QED BY <3>1, <4>1, <4>2
    <3>2. CASE ~call.fixed
      <4>1. new.index.recs = Append(old.index.recs, ends[run] + 1)
        BY <2>2, <3>2 DEF WriteTo, FileOf
      <4>2. Len(new.index.recs) = Len(old.index.recs) + 1
        BY <2>3, <4>1
      <4>3. ASSUME NEW k \in 1..Len(new.index.recs)
            PROVE  new.index.recs[k] \in 1..Len(new.values.recs)
        <5>1. CASE k = Len(old.index.recs) + 1
          <6>1. new.index.recs[k] = ends[run] + 1
            BY <2>3, <4>1, <5>1
          <6> QED BY <2>3, <2>5, <6>1
        <5>2. CASE k \in 1..Len(old.index.recs)
          <6>1. new.index.recs[k] = old.index.recs[k]
            BY <2>3, <4>1, <5>2
          <6>2. old.index.recs[k] \in 1..Len(old.values.recs)
            BY <2>3, <5>2
          <6> QED BY <2>3, <2>5, <6>1, <6>2
        <5> QED BY <2>3, <4>2, <5>1, <5>2
      <4> QED BY <2>3, <4>2, <4>3
    <3> QED BY <3>1, <3>2
  <2>7. SizeOf(run)' > 0
    BY <2>2, <2>3, <2>4, <2>5, <2>6 DEF SizeOf
  <2>8. ASSUME NEW f \in ScratchFiles, f # run
        PROVE  SizeOf(f)' = SizeOf(f)
    BY <2>2, <2>8 DEF SizeOf
  <2>9. num_ways' = num_ways
    BY <2>2 DEF num_ways, full
  <2>10. ASSUME NEW f \in ScratchFiles
        PROVE  /\ ends'[f] > 0 => f < num_ways'
               /\ ends'[f] <= Len(scratch'[f].values.recs)
               /\ ends'[f] > 0 => scratch'[f].values.exists /\ SizeOf(f)' > 0
               /\ \A k \in 1..Len(scratch'[f].index.recs) :
                     scratch'[f].index.recs[k] \in 1..Len(scratch'[f].values.recs)
    <3>1. CASE f = run
      <4>1. f < num_ways' /\ SizeOf(f)' > 0
        BY <2>1, <2>2, <2>7, <2>9, <3>1
      <4>2. ends'[f] <= Len(scratch'[f].values.recs) /\ scratch'[f].values.exists
        BY <2>2, <2>3, <2>4, <2>5, <3>1
      <4> QED BY <2>4, <2>6, <3>1, <4>1, <4>2
    <3>2. CASE f # run
      BY <1>1, <2>2, <2>8, <2>9, <3>2 DEF ScratchInv, BeforeMerge
    <3> QED BY <3>1, <3>2
  <2> QED BY <2>10 DEF ScratchInv
<1>4. CASE Push
  BY <1>2, <1>4, PushGoesOn DEF Push, Merging, chunkVars
<1>5. CASE EndMerge
  <2>1. UNCHANGED <<call, ends>> /\ pc' \notin BeforeMerge \union Merging
    BY <1>5 DEF EndMerge, BeforeMerge, Merging, chunkVars
  <2> QED BY <1>1, <2>1 DEF ScratchInv, num_ways, full
<1>6. CASE EndRuns \/ StartChunk \/ CopyRecord \/ SortBuffers \/ StoreNothing \/ EndChunk
  BY <1>2, <1>6 DEF EndRuns, StartChunk, CopyRecord, SortBuffers, StoreNothing, EndChunk,
     callVars, chunkVars, BeforeMerge
<1>7. CASE OpenOutput \/ OpenRun \/ OpenNoMoreRuns \/ \E x \in heap : Pop(x)
  BY <1>2, <1>7 DEF OpenOutput, OpenRun, OpenNoMoreRuns, Pop, callVars, chunkVars,
     BeforeMerge, Merging
<1>8. CASE SortFaults \/ StoreFaults \/ OpenRunFaults \/ OpenHollowFaults
  BY <1>2, <1>8 DEF SortFaults, StoreFaults, OpenRunFaults, OpenHollowFaults, Fault,
     callVars, chunkVars, BeforeMerge, Merging
<1>9. CASE UnlinkIndex \/ UnlinkValues \/ RenameValues \/ RenameIndex
  BY <1>2, <1>9 DEF UnlinkIndex, UnlinkValues, RenameValues, RenameIndex, Step, chunkVars,
     BeforeMerge, Merging
<1>10. CASE UNCHANGED vars
  <2>1. UNCHANGED <<call, scratch, ends, pc>>
    BY <1>10 DEF vars, callVars, chunkVars
  <2> QED BY <1>2, <2>1
<1> QED BY <1>3, <1>4, <1>5, <1>6, <1>7, <1>8, <1>9, <1>10 DEF Next

-----------------------------------------------------------------------------
(* The heap *)

\* Nothing the heap depends on changes as long as these variables do not.
LEMMA HeapStays ==
    ASSUME Inv, UNCHANGED <<call, scratch, ends, ptrs, heap, run, popped>>,
           \/ pc' = pc
           \/ pc' \in BeforeMerge /\ pc \in BeforeMerge
           \/ pc' \notin BeforeMerge \union Merging
    PROVE  HeapInv'
<1>1. HeapHoldsOpenFiles => HeapHoldsOpenFiles'
  BY DEF HeapHoldsOpenFiles, SizeOf, RecordAt, BeforeMerge, Merging
<1> QED BY <1>1 DEF Inv, HeapInv, BeforeMerge, Merging

LEMMA HeapStep == Inv /\ [Next]_vars => HeapInv'
<1> SUFFICES ASSUME Inv, [Next]_vars PROVE HeapInv'
  OBVIOUS
<1>1. HeapInv
  BY DEF Inv
<1>2. CASE OpenOutput
  <2>1. /\ pc = "openOutput" /\ pc' = "openRuns" /\ run' = 0 /\ heap' = heap /\ ptrs' = ptrs
    BY <1>2 DEF OpenOutput, mergeVars
  <2>2. heap' = {}
    BY <1>1, <2>1 DEF HeapInv, BeforeMerge
  <2> QED BY <1>1, <2>1, <2>2 DEF HeapInv, HeapHoldsOpenFiles, BeforeMerge
<1>3. CASE OpenRun
  <2>1. /\ pc = "openRuns" /\ pc' = "openRuns" /\ run' = run + 1 /\ ends[run] > 0
        /\ heap' = heap \union {Element(run, 0)} /\ ptrs' = [ptrs EXCEPT ![run] = 0]
        /\ UNCHANGED <<call, scratch, ends, popped>>
    BY <1>3 DEF OpenRun, callVars
  <2>2. run \in ScratchFiles /\ run \in Nat /\ \A x \in heap : x.file \in Nat
    BY <1>3, Ways, SizesAssumption DEF Inv, TypeOK, OpenRun, ScratchFiles
  <2>3. ptrs' = ptrs
    BY <1>1, <2>1, <2>2 DEF HeapInv
  <2>4. scratch[run].values.exists /\ SizeOf(run) > 0 /\ ptrs[run] = 0
    BY <1>1, <2>1, <2>2 DEF Inv, ScratchInv, HeapInv, Merging
  <2>5. \A x \in heap : /\ x.file < run /\ scratch[x.file].values.exists /\ ends[x.file] > 0
                        /\ ptrs[x.file] < SizeOf(x.file)
                        /\ x.rec = RecordAt(x.file, ptrs[x.file])
    BY <1>1, <2>1 DEF HeapInv, HeapHoldsOpenFiles
  <2>6. \A x, y \in heap : x.file = y.file => x = y
    BY <1>1, <2>1 DEF HeapInv, HeapHoldsOpenFiles
  <2>7. Element(run, 0).file = run /\ Element(run, 0).rec = RecordAt(run, 0)
    BY DEF Element
  <2>8. HeapHoldsOpenFiles'
    <3>1. ASSUME NEW x \in heap'
          PROVE  /\ scratch'[x.file].values.exists /\ ends'[x.file] > 0
                 /\ ptrs'[x.file] < SizeOf(x.file)'
                 /\ x.rec = RecordAt(x.file, ptrs[x.file])'
      <4>1. CASE x \in heap
        BY <2>1, <2>3, <2>5, <4>1 DEF SizeOf, RecordAt
      <4>2. CASE x = Element(run, 0)
        <5>1. x.file = run /\ x.rec = RecordAt(run, 0)
          BY <2>7, <4>2
        <5> QED BY <2>1, <2>3, <2>4, <5>1 DEF SizeOf, RecordAt
      <4> QED BY <2>1, <4>1, <4>2
    <3>2. ASSUME NEW x \in heap', NEW y \in heap', x.file = y.file
          PROVE  x = y
      BY <2>1, <2>2, <2>5, <2>6, <2>7, <3>2
    <3> QED BY <3>1, <3>2 DEF HeapHoldsOpenFiles
  <2>9. \A x \in heap' : x.file < run'
    BY <2>1, <2>2, <2>5, <2>7
  <2> QED BY <1>1, <2>1, <2>3, <2>8, <2>9 DEF HeapInv, BeforeMerge
<1>4. CASE OpenNoMoreRuns
  <2>1. /\ pc = "openRuns" /\ pc' = "merge"
        /\ UNCHANGED <<call, scratch, ends, ptrs, heap, run, popped>>
    BY <1>4 DEF OpenNoMoreRuns, callVars, chunkVars, mergeVars
  <2>2. HeapHoldsOpenFiles'
    BY <1>1, <2>1 DEF HeapInv, HeapHoldsOpenFiles, SizeOf, RecordAt
  <2> QED BY <1>1, <2>1, <2>2 DEF HeapInv, BeforeMerge
<1>5. ASSUME NEW x \in heap, Pop(x)
      PROVE  HeapInv'
  <2>1. /\ pc = "merge" /\ pc' = "push" /\ heap' = heap \ {x} /\ popped' = x.file
        /\ ptrs' = [ptrs EXCEPT ![x.file] = @ + 0]
        /\ UNCHANGED <<call, scratch, ends, run>>
    BY <1>5 DEF Pop, PostfixStep, chunkVars
  <2>2. ptrs' = ptrs
    BY <1>1, <2>1 DEF HeapInv
  <2>3. ends[x.file] > 0 /\ \A y \in heap : y.file = x.file => y = x
    BY <1>1, <2>1 DEF HeapInv, HeapHoldsOpenFiles
  <2>4. HeapHoldsOpenFiles'
    BY <1>1, <2>1, <2>2 DEF HeapInv, HeapHoldsOpenFiles, SizeOf, RecordAt
  <2> QED BY <1>1, <2>1, <2>2, <2>3, <2>4 DEF HeapInv, BeforeMerge
<1>6. CASE Push
  <2>1. /\ pc = "push" /\ pc' = "merge" /\ UNCHANGED <<call, scratch, ends, ptrs, popped, run>>
        /\ heap' = heap \union {Element(popped, 0)} /\ SizeOf(popped) > 0 /\ ptrs[popped] = 0
        /\ ends[popped] > 0 /\ popped \in ScratchFiles
    BY <1>6, PushGoesOn DEF Push, chunkVars
  <2>2. scratch[popped].values.exists
    BY <2>1 DEF Inv, ScratchInv, Merging
  <2>3. \A x \in heap : x.file # popped
    BY <1>1, <2>1 DEF HeapInv
  <2>4. Element(popped, 0).file = popped /\ Element(popped, 0).rec = RecordAt(popped, 0)
    BY DEF Element
  <2>5. /\ \A x \in heap : /\ scratch[x.file].values.exists /\ ends[x.file] > 0
                           /\ ptrs[x.file] < SizeOf(x.file)
                           /\ x.rec = RecordAt(x.file, ptrs[x.file])
        /\ \A x, y \in heap : x.file = y.file => x = y
    BY <1>1, <2>1 DEF HeapInv, HeapHoldsOpenFiles
  <2>6. HeapHoldsOpenFiles'
    <3>1. ASSUME NEW x \in heap'
          PROVE  /\ scratch'[x.file].values.exists /\ ends'[x.file] > 0
                 /\ ptrs'[x.file] < SizeOf(x.file)'
                 /\ x.rec = RecordAt(x.file, ptrs[x.file])'
      <4>1. CASE x \in heap
        BY <2>1, <2>5, <4>1 DEF SizeOf, RecordAt
      <4>2. CASE x = Element(popped, 0)
        <5>1. x.file = popped /\ x.rec = RecordAt(popped, 0)
          BY <2>4, <4>2
        <5> QED BY <2>1, <2>2, <5>1 DEF SizeOf, RecordAt
      <4> QED BY <2>1, <4>1, <4>2
    <3>2. ASSUME NEW x \in heap', NEW y \in heap', x.file = y.file
          PROVE  x = y
      BY <2>1, <2>3, <2>4, <2>5, <3>2
    <3> QED BY <3>1, <3>2 DEF HeapHoldsOpenFiles
  <2> QED BY <1>1, <2>1, <2>6 DEF HeapInv, BeforeMerge
<1>7. CASE EndRuns \/ StartChunk \/ CopyRecord \/ SortBuffers \/ StoreNothing
  BY <1>7, HeapStays DEF EndRuns, StartChunk, CopyRecord, SortBuffers, StoreNothing,
     callVars, chunkVars, mergeVars, BeforeMerge
<1>8. CASE StoreRecord \/ EndChunk
  <2>1. pc \in BeforeMerge /\ pc' \in BeforeMerge /\ UNCHANGED <<ptrs, heap, popped>>
    BY <1>8 DEF StoreRecord, EndChunk, mergeVars, BeforeMerge
  <2>2. heap' = {}
    BY <1>1, <2>1 DEF HeapInv
  <2> QED BY <1>1, <2>1, <2>2 DEF HeapInv, HeapHoldsOpenFiles, BeforeMerge
<1>9. CASE SortFaults \/ StoreFaults \/ OpenRunFaults \/ OpenHollowFaults
  BY <1>9, HeapStays DEF SortFaults, StoreFaults, OpenRunFaults, OpenHollowFaults, Fault,
     callVars, chunkVars, mergeVars, BeforeMerge, Merging
<1>10. CASE EndMerge \/ UnlinkIndex \/ UnlinkValues \/ RenameValues \/ RenameIndex
  <2>1. UNCHANGED ptrs /\ pc' \notin BeforeMerge \union Merging
    BY <1>10 DEF EndMerge, UnlinkIndex, UnlinkValues, RenameValues, RenameIndex, Step, mergeVars,
       BeforeMerge, Merging
  <2> QED BY <1>1, <2>1 DEF HeapInv, HeapHoldsOpenFiles, BeforeMerge, Merging
<1>11. CASE UNCHANGED vars
  BY <1>11, HeapStays DEF vars, callVars, chunkVars, mergeVars
<1> QED BY <1>2, <1>3, <1>4, <1>5, <1>6, <1>7, <1>8, <1>9, <1>10, <1>11 DEF Next

-----------------------------------------------------------------------------
(* The end of the merge, and the files of the store *)

LEMMA MergeStep == Inv /\ [Next]_vars => MergeInv'
<1> SUFFICES ASSUME Inv, [Next]_vars PROVE MergeInv'
  OBVIOUS
<1>1. MergeInv
  BY DEF Inv
<1>2. CASE OpenNoMoreRuns
  <2>1. /\ pc = "openRuns" /\ pc' = "merge" /\ heap' = heap /\ ends' = ends
        /\ run < num_ways => ends[run] = 0
    BY <1>2 DEF OpenNoMoreRuns, chunkVars, mergeVars
  <2>2. CASE run > 0
    BY <2>1, <2>2 DEF Inv, HeapInv, MergeInv
  <2>3. CASE run = 0
    <3>1. ends[0] = 0
      <4>1. 0 \in ScratchFiles /\ ends[0] \in Nat /\ num_ways \in Nat
        BY Ways, SizesAssumption DEF Inv, TypeOK, ScratchFiles
      <4>2. ends[0] > 0 => 0 < num_ways
        BY <4>1 DEF Inv, ScratchInv
      <4> QED BY <2>1, <2>3, <4>1, <4>2
    <3> QED BY <2>1, <3>1 DEF MergeInv
  <2> QED BY <2>2, <2>3 DEF Inv, TypeOK
<1>3. CASE Push
  BY <1>3, PushGoesOn DEF MergeInv, Push
<1>4. CASE EndMerge
  BY <1>1, <1>4 DEF MergeInv, EndMerge, chunkVars
<1>5. CASE UnlinkIndex \/ UnlinkValues \/ RenameValues \/ RenameIndex
  BY <1>1, <1>5 DEF MergeInv, UnlinkIndex, UnlinkValues, RenameValues, RenameIndex, Step, chunkVars
<1>6. ASSUME pc' \in BeforeMerge \union {"openRuns", "push", "fault"}
      PROVE  MergeInv'
  BY <1>6 DEF MergeInv, BeforeMerge
<1>7. CASE EndRuns \/ StartChunk \/ CopyRecord \/ SortBuffers \/ StoreRecord \/ StoreNothing \/ EndChunk
  BY <1>6, <1>7 DEF EndRuns, StartChunk, CopyRecord, SortBuffers, StoreRecord, StoreNothing,
     EndChunk, BeforeMerge
<1>8. CASE OpenOutput \/ OpenRun \/ \E x \in heap : Pop(x)
  BY <1>6, <1>8 DEF OpenOutput, OpenRun, Pop
<1>9. CASE SortFaults \/ StoreFaults \/ OpenRunFaults \/ OpenHollowFaults
  BY <1>6, <1>9 DEF SortFaults, StoreFaults, OpenRunFaults, OpenHollowFaults, Fault
<1>10. CASE UNCHANGED vars
  BY <1>1, <1>10 DEF MergeInv, vars, chunkVars, mergeVars
<1> QED BY <1>2, <1>3, <1>4, <1>5, <1>7, <1>8, <1>9, <1>10 DEF Next

LEMMA DiskStep == Inv /\ [Next]_vars => DiskInv'
<1> SUFFICES ASSUME Inv, [Next]_vars PROVE DiskInv'
  OBVIOUS
<1>1. DiskInv /\ DOMAIN disk = {"values", "index", "tempValues", "tempIndex"}
  BY DEF Inv, TypeOK
<1>2. disk = [values |-> disk.values, index |-> disk.index,
              tempValues |-> disk.tempValues, tempIndex |-> disk.tempIndex]
  BY DEF Inv, TypeOK
<1>3. CASE OpenOutput \/ UnlinkIndex
  <2>1. /\ call' = call /\ disk'.values = disk.values
        /\ pc \notin {"renameValues", "renameIndex", "done"}
    BY <1>2, <1>3 DEF OpenOutput, UnlinkIndex, Step
  <2> QED BY <1>1, <2>1 DEF DiskInv
<1>4. ASSUME NEW x \in heap, Pop(x)
      PROVE  DiskInv'
  <2>1. pc = "merge" /\ call' = call /\ disk'.values = disk.values
    BY <1>2, <1>4 DEF Pop
  <2> QED BY <1>1, <2>1 DEF DiskInv
<1>5. CASE UnlinkValues \/ RenameValues \/ RenameIndex
  BY <1>5 DEF DiskInv, UnlinkValues, RenameValues, RenameIndex, Step
<1>6. ASSUME UNCHANGED <<call, disk>>, pc' = pc \/ pc \in BeforeMerge \union Merging
      PROVE  DiskInv'
  BY <1>1, <1>6 DEF DiskInv, BeforeMerge, Merging
<1>7. CASE EndRuns \/ StartChunk \/ CopyRecord \/ SortBuffers \/ StoreRecord \/ StoreNothing \/ EndChunk
  BY <1>6, <1>7 DEF EndRuns, StartChunk, CopyRecord, SortBuffers, StoreRecord, StoreNothing,
     EndChunk, callVars, BeforeMerge
<1>8. CASE OpenRun \/ OpenNoMoreRuns \/ Push \/ EndMerge
  BY <1>6, <1>8 DEF OpenRun, OpenNoMoreRuns, Push, EndMerge, callVars, Merging
<1>9. CASE SortFaults \/ StoreFaults \/ OpenRunFaults \/ OpenHollowFaults
  BY <1>6, <1>9 DEF SortFaults, StoreFaults, OpenRunFaults, OpenHollowFaults, Fault, callVars,
     BeforeMerge, Merging
<1>10. CASE UNCHANGED vars
  BY <1>6, <1>10 DEF vars, callVars
<1> QED BY <1>3, <1>4, <1>5, <1>7, <1>8, <1>9, <1>10 DEF Next

-----------------------------------------------------------------------------
(* The theorems *)

\* The inductive invariant of the external merge sort.
THEOREM Invariance == Spec => []Inv
<1>1. Init => Inv
  BY Start
<1>2. Inv /\ [Next]_vars => Inv'
  BY TypeStep, BufferStep, ScratchStep, HeapStep, MergeStep, DiskStep DEF Inv
<1> QED BY <1>1, <1>2, PTL DEF Spec

\* The counters and files of the call keep their types.
THEOREM TypeCorrect == Spec => []TypeOK
BY Invariance, PTL DEF Inv

\* The elements of the heap and the open scratch files correspond.
THEOREM HeapIsRight == Spec => []HeapHoldsOpenFiles
<1>1. Inv => HeapHoldsOpenFiles
  BY DEF Inv, HeapInv
<1> QED BY Invariance, <1>1, PTL

\* The files of the store are replaced only if the first run was empty.
THEOREM StoreUntouched == Spec => []ReplacedOnlyWhenEmpty
<1>1. Inv => ReplacedOnlyWhenEmpty
  BY DEF Inv, DiskInv, MergeInv, ReplacedOnlyWhenEmpty
<1> QED BY Invariance, <1>1, PTL
=============================================================================
