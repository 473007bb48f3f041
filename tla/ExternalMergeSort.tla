-------------------------- MODULE ExternalMergeSort --------------------------
(***************************************************************************)
(* One call of external_merge_sort::run().  The input is copied in chunks  *)
(* of run_size records to buffers in memory; each chunk is sorted there    *)
(* and appended to a scratch file; the scratch files are merged through a  *)
(* heap into temporary files, which are then renamed over the input.       *)
(*                                                                         *)
(* A record is its rank for the client's comparator, and all records have  *)
(* one size, so that an index entry is the place of a record in its file.  *)
(* What the disk holds in a state is what a process killed there leaves:   *)
(* no action is needed for the kill, and the files a later call may find   *)
(* are among the initial states.                                           *)
(***************************************************************************)
EXTENDS Integers, Sequences, SequencesExt, FiniteSets

CONSTANTS Records,      \* ranks of the records of the input
          Strangers,    \* ranks of the records an earlier, killed call left
          MaxInput,     \* bound on the number of records of the input
          RunSizes,     \* the values of run_size
          Comparators,  \* what a comparator makes of an empty buffer
          MaxOut        \* the records of temp.txt the model keeps

ASSUME RanksAssumption == Records \subseteq Nat /\ Strangers \subseteq Nat
ASSUME SizesAssumption ==
    MaxInput \in Nat \ {0} /\ MaxOut \in Nat /\ RunSizes \subseteq Nat \ {0}
ASSUME ComparatorsAssumption == Comparators \subseteq {"faults", "least", "greatest"}

VARIABLES call,       \* the arguments and the build: see Calls
          disk,       \* the files of the store, and temp.txt and temp.idx
          scratch,    \* the scratch files, by number: [values, index]
          pc,         \* the next step of the call
          buffers,    \* in_memory_file_copy: records, NoRecord in empty slots
          filled,     \* currentSize: the records copied to this chunk
          stored,     \* j: the buffers of this chunk passed to insert
          completed,  \* records copied so far, full + 1 when more than full
          pos,        \* position of ptr in the input
          run,        \* next_output_file, and i in the loops of mergeFiles
          ends,       \* entries each scratch inserter wrote, 0 if never opened
          outEnd,     \* entries the inserter of the output wrote
          ptrs,       \* position in each scratch file during the merge
          heap,       \* minheap: a set of [rec, file]
          popped      \* fileid of the element written last

callVars == <<call, disk, scratch>>
chunkVars == <<buffers, filled, stored, completed, pos, run, ends>>
mergeVars == <<outEnd, ptrs, heap, popped>>
vars == <<callVars, pc, chunkVars, mergeVars>>

-----------------------------------------------------------------------------
(* Files, records, and the order of the comparator *)

NoRecord == -1

\* A buffer before its first docopy().
EmptyBuffers(n) == [k \in 1..n |-> NoRecord]

NoFile == [exists |-> FALSE, recs |-> <<>>]
FileOf(recs) == [exists |-> TRUE, recs |-> recs]

\* fopen in mode "a+", and a write to the stream.
OpenToAppend(file) == FileOf(file.recs)
WriteTo(file, x) == FileOf(Append(file.recs, x))

ScratchFiles == 0..(MaxInput - 1)

full == Len(call.input)
num_ways == full \div call.runSize

\* What a file and its index hold for an iterator, by blocks or by entries.
SizeOf(f) == Len(IF call.fixed THEN scratch[f].values.recs ELSE scratch[f].index.recs)
RecordAt(f, p) ==
    scratch[f].values.recs[IF call.fixed THEN p + 1 ELSE scratch[f].index.recs[p + 1]]

\* greaterThan(r, l), with an empty buffer below or above every record: as a
\* comparison of bytes, or one of a default value, would place it.
Less(l, r) ==
    CASE l = NoRecord -> call.comparator = "least" /\ r # NoRecord
      [] r = NoRecord -> call.comparator = "greatest"
      [] OTHER -> l < r

\* The same buffers in any order: swap() exchanges what two of them hold.
Permuted(s) ==
    {t \in [1..Len(s) -> Range(s)] :
        \A r \in Range(s) : Cardinality({k \in 1..Len(s) : t[k] = r})
                             = Cardinality({k \in 1..Len(s) : s[k] = r})}

\* ... and in the order of the comparator.
Sorted(s) == {t \in Permuted(s) : \A a, b \in 1..Len(s) : a < b => ~Less(t[b], t[a])}

\* operator++(int v) adds v, and the v of it++ is 0.
PostfixStep == 0

-----------------------------------------------------------------------------
(* The states a call starts from *)

\* returns: operator() of the comparator, which has no return statement,
\* still yields the answer of greaterThan, as builds without optimisation do.
Calls ==
    [input : UNION {[1..n -> Records] : n \in 0..MaxInput}, runSize : RunSizes,
     fixed : BOOLEAN, comparator : Comparators, returns : BOOLEAN]

\* An index exists for records of variable size only.
IndexOf(fixed, entries) == IF fixed THEN NoFile ELSE FileOf(entries)

\* Nothing, or one record of a killed call, its entry flushed or not.
Leftovers(fixed) ==
    LET left(entries) ==
          {[values |-> FileOf(<<r>>), index |-> IndexOf(fixed, entries)] : r \in Strangers}
    IN  {[values |-> NoFile, index |-> NoFile]} \union left(<<>>) \union left(<<1>>)

Init ==
    /\ call \in Calls
    /\ \E temp \in Leftovers(call.fixed) :
          disk = [values |-> FileOf(call.input),
                  index |-> IndexOf(call.fixed, [k \in 1..full |-> k]),
                  tempValues |-> temp.values, tempIndex |-> temp.index]
    /\ \E left \in Leftovers(call.fixed) :
          scratch = [f \in ScratchFiles |->
                       IF f = 0 THEN left ELSE [values |-> NoFile, index |-> NoFile]]
    /\ pc = "chunk"
    /\ buffers = EmptyBuffers(call.runSize)
    /\ filled = 0 /\ stored = 0 /\ completed = 0 /\ pos = 0 /\ run = 0
    /\ ends = [f \in ScratchFiles |-> 0]
    /\ outEnd = 0 /\ ptrs = [f \in ScratchFiles |-> 0] /\ heap = {} /\ popped = 0

\* The process dies: an exception nobody catches, or a wild address.
Fault == pc' = "fault" /\ UNCHANGED <<callVars, chunkVars, mergeVars>>

-----------------------------------------------------------------------------
(* createInitialRuns *)

EndRuns ==
    /\ pc = "chunk" /\ completed = full
    /\ pc' = "openOutput"
    /\ UNCHANGED <<callVars, chunkVars, mergeVars>>

StartChunk ==
    /\ pc = "chunk" /\ completed # full
    /\ pc' = "copy" /\ filled' = 0 /\ stored' = 0
    /\ UNCHANGED <<callVars, buffers, completed, pos, run, ends, mergeVars>>

\* Mutant of MoreToCopy: one record too many.
MoreThanARun == filled <= call.runSize /\ pos < full

MoreToCopy == filled < call.runSize /\ pos < full

\* The first chunk adds a slot for every record to the run_size slots the
\* vector was made with.
CopyRecord ==
    /\ pc = "copy" /\ MoreToCopy
    /\ LET slots == IF run = 0 THEN Append(buffers, NoRecord) ELSE buffers
       IN  buffers' = [slots EXCEPT ![filled + 1] = call.input[pos + 1]]
    /\ completed' = IF completed > full THEN completed ELSE completed + 1
    /\ pos' = pos + PostfixStep
    /\ filled' = filled + 1
    /\ UNCHANGED <<callVars, pc, stored, run, ends, mergeVars>>

CannotCompare ==
    call.comparator = "faults" /\ Len(buffers) > 1 /\ \E k \in DOMAIN buffers : buffers[k] = NoRecord

\* do_quicksort ignores the number of records and sorts the whole vector.
SortBuffers ==
    /\ pc = "copy" /\ ~MoreToCopy /\ ~CannotCompare
    /\ buffers' \in Sorted(buffers)
    /\ pc' = "store"
    /\ UNCHANGED <<callVars, filled, stored, completed, pos, run, ends, mergeVars>>

SortFaults == pc = "copy" /\ ~MoreToCopy /\ CannotCompare /\ Fault

\* insert() of a buffer with a record: a scratch file is opened at the first,
\* for appending, while its offsets start from 0.
StoreRecord ==
    /\ pc = "store" /\ stored < filled
    /\ buffers[stored + 1] # NoRecord /\ run < num_ways
    /\ scratch' = [scratch EXCEPT
          ![run].values = WriteTo(@, buffers[stored + 1]),
          ![run].index = IF call.fixed THEN @ ELSE WriteTo(@, ends[run] + 1)]
    /\ ends' = [ends EXCEPT ![run] = @ + 1]
    /\ stored' = stored + 1
    /\ UNCHANGED <<call, disk, pc, buffers, filled, completed, pos, run, mergeVars>>

\* insert() of an empty buffer returns at once, whatever the vector out holds.
\* Mutant: the buffer is tried again.
StoreNothingAgain ==
    /\ pc = "store" /\ stored < filled
    /\ buffers[stored + 1] = NoRecord
    /\ UNCHANGED vars

StoreNothing ==
    /\ pc = "store" /\ stored < filled
    /\ buffers[stored + 1] = NoRecord
    /\ stored' = stored + 1
    /\ UNCHANGED <<callVars, pc, buffers, filled, completed, pos, run, ends, mergeVars>>

\* There is no serializer out[num_ways].
StoreFaults ==
    /\ pc = "store" /\ stored < filled
    /\ buffers[stored + 1] # NoRecord /\ run >= num_ways
    /\ Fault

EndChunk ==
    /\ pc = "store" /\ stored = filled
    /\ run' = run + 1
    /\ pc' = "chunk"
    /\ UNCHANGED <<callVars, buffers, filled, stored, completed, pos, ends, mergeVars>>

-----------------------------------------------------------------------------
(* mergeFiles *)

OpenOutput ==
    /\ pc = "openOutput"
    /\ disk' = [disk EXCEPT !.tempValues = OpenToAppend(@),
                            !.tempIndex = IF call.fixed THEN @ ELSE OpenToAppend(@)]
    /\ run' = 0
    /\ pc' = "openRuns"
    /\ UNCHANGED <<call, scratch, buffers, filled, stored, completed, pos, ends, mergeVars>>

Element(f, p) == [rec |-> RecordAt(f, p), file |-> f]

\* Mutant of OpenRun: the record the inserter wrote last enters the heap.
OpenRunAtEnd ==
    /\ pc = "openRuns" /\ run < num_ways
    /\ ends[run] > 0 /\ (heap # {} => call.returns)
    /\ heap' = heap \union {[rec |-> Last(scratch[run].values.recs), file |-> run]}
    /\ ptrs' = [ptrs EXCEPT ![run] = 0]
    /\ run' = run + 1
    /\ UNCHANGED <<callVars, pc, buffers, filled, stored, completed, pos, ends, outEnd, popped>>

\* begin(), then end(), which maps the files again: the new mapping is placed
\* where the old one was, or what begin() returned dangles.
OpenRun ==
    /\ pc = "openRuns" /\ run < num_ways
    /\ ends[run] > 0 /\ (heap # {} => call.returns)
    /\ heap' = heap \union {Element(run, 0)}
    /\ ptrs' = [ptrs EXCEPT ![run] = 0]
    /\ run' = run + 1
    /\ UNCHANGED <<callVars, pc, buffers, filled, stored, completed, pos, ends, outEnd, popped>>

\* The stale iterator differs from end() and is dereferenced; or a heap of
\* two calls the comparator that returns nothing.
OpenRunFaults ==
    /\ pc = "openRuns" /\ run < num_ways
    /\ ends[run] > 0
    /\ Fault

\* A file this call never wrote: begin() equals end(), and the loop is left.
OpenNoMoreRuns ==
    /\ pc = "openRuns"
    /\ run < num_ways => ends[run] = 0
    /\ pc' = "merge"
    /\ UNCHANGED <<callVars, chunkVars, mergeVars>>

\* With records of fixed size the block size of the unopened sorter is not
\* set, and END_SIZE divides by it.
OpenHollowFaults ==
    /\ pc = "openRuns" /\ run < num_ways
    /\ ends[run] = 0 /\ call.fixed
    /\ Fault

Pop(x) ==
    /\ pc = "merge" /\ x \in heap
    /\ \A y \in heap : ~Less(y.rec, x.rec)
    /\ disk' = IF Len(disk.tempValues.recs) >= MaxOut THEN disk
               ELSE [disk EXCEPT
                       !.tempValues = WriteTo(@, x.rec),
                       !.tempIndex = IF call.fixed THEN @ ELSE WriteTo(@, outEnd + 1)]
    /\ outEnd' = IF Len(disk.tempValues.recs) >= MaxOut THEN outEnd ELSE outEnd + 1
    /\ heap' = heap \ {x}
    /\ ptrs' = [ptrs EXCEPT ![x.file] = @ + PostfixStep]
    /\ popped' = x.file
    /\ pc' = "push"
    /\ UNCHANGED <<call, scratch, chunkVars>>

UnlinkRuns(S) ==
    scratch' = [f \in ScratchFiles |->
                  IF f \notin S THEN scratch[f]
                  ELSE [values |-> NoFile, index |-> IF call.fixed THEN scratch[f].index ELSE NoFile]]

\* The next record of the same file; a file read to its end goes.
Push ==
    LET more == ptrs[popped] # SizeOf(popped)
    IN  /\ pc = "push"
        /\ heap' = IF more THEN heap \union {Element(popped, ptrs[popped])} ELSE heap
        /\ UnlinkRuns(IF more THEN {} ELSE {popped})
        /\ pc' = "merge"
        /\ UNCHANGED <<call, disk, chunkVars, outEnd, ptrs, popped>>

\* Mutant of EndMerge: the merge stops when one file is left.
EndMergeEarly ==
    /\ pc = "merge" /\ Cardinality(heap) <= 1
    /\ UnlinkRuns({f \in ScratchFiles : ends[f] > 0})
    /\ pc' = "unlinkIndex"
    /\ UNCHANGED <<call, disk, chunkVars, mergeVars>>

\* unlink() of every serializer: an inserter that never opened its files has
\* not learnt their names.
EndMerge ==
    /\ pc = "merge" /\ heap = {}
    /\ UnlinkRuns({f \in ScratchFiles : ends[f] > 0})
    /\ pc' = "unlinkIndex"
    /\ UNCHANGED <<call, disk, chunkVars, mergeVars>>

-----------------------------------------------------------------------------
(* run(): the output takes the place of the input *)

Step(from, to) == pc = from /\ pc' = to /\ UNCHANGED <<call, scratch, chunkVars, mergeVars>>

UnlinkIndex ==
    /\ Step("unlinkIndex", "unlinkValues")
    /\ disk' = [disk EXCEPT !.index = NoFile]

UnlinkValues ==
    /\ Step("unlinkValues", "renameValues")
    /\ disk' = [disk EXCEPT !.values = NoFile]

RenameValues ==
    /\ Step("renameValues", "renameIndex")
    /\ disk' = [disk EXCEPT !.values = disk.tempValues, !.tempValues = NoFile]

\* There may be no temp.idx, and rename fails.
RenameIndex ==
    /\ Step("renameIndex", "done")
    /\ disk' = IF disk.tempIndex.exists
                 THEN [disk EXCEPT !.index = disk.tempIndex, !.tempIndex = NoFile]
                 ELSE disk

-----------------------------------------------------------------------------

Next ==
    \/ EndRuns \/ StartChunk \/ CopyRecord \/ SortBuffers \/ SortFaults
    \/ StoreRecord \/ StoreNothing \/ StoreFaults \/ EndChunk
    \/ OpenOutput \/ OpenRun \/ OpenRunFaults \/ OpenNoMoreRuns \/ OpenHollowFaults
    \/ (\E x \in heap : Pop(x)) \/ Push \/ EndMerge
    \/ UnlinkIndex \/ UnlinkValues \/ RenameValues \/ RenameIndex

\* One thread runs the call: as long as it can step, it does.
Spec == Init /\ [][Next]_vars /\ WF_vars(Next)

-----------------------------------------------------------------------------
(* Properties *)

File(S) == [exists : BOOLEAN, recs : Seq(S)]
Ranks == Records \union Strangers
Slots == Ranks \union {NoRecord}

Steps == {"chunk", "copy", "store", "openOutput", "openRuns", "merge", "push",
          "unlinkIndex", "unlinkValues", "renameValues", "renameIndex", "done", "fault"}

\* All variables keep their types, and the counters of createInitialRuns the
\* ranges that the loops give them.
TypeOK ==
    /\ call \in Calls
    /\ disk \in [values : File(Ranks), index : File(Nat),
                 tempValues : File(Ranks), tempIndex : File(Nat)]
    /\ scratch \in [ScratchFiles -> [values : File(Ranks), index : File(Nat)]]
    /\ pc \in Steps
    /\ buffers \in Seq(Records \union {NoRecord})
    /\ filled \in 0..call.runSize /\ stored \in 0..filled
    /\ completed \in 0..(full + 1) /\ pos \in 0..full /\ run \in Nat
    /\ ends \in [ScratchFiles -> Nat] /\ outEnd \in Nat
    /\ ptrs \in [ScratchFiles -> Nat]
    /\ heap \subseteq [rec : Ranks, file : ScratchFiles]
    /\ popped \in ScratchFiles

\* While files are merged, every element of the heap is the record at the
\* position of its file, which still exists, and no file has two elements:
\* fileid leads back to the iterator that has to advance.
HeapHoldsOpenFiles ==
    pc \in {"openRuns", "merge", "push"} =>
        /\ \A x \in heap : /\ scratch[x.file].values.exists /\ ends[x.file] > 0
                          /\ ptrs[x.file] < SizeOf(x.file)
                          /\ x.rec = RecordAt(x.file, ptrs[x.file])
        /\ \A x, y \in heap : x.file = y.file => x = y

\* Whatever happens, a kill at any step included, the files of the store are
\* as they were unless the first scratch file was never written, for want of
\* records or because its buffers were empty: run() replaces them only then.
ReplacedOnlyWhenEmpty == disk.values # FileOf(call.input) => ends[0] = 0

\* createInitialRuns always comes to an end, by returning or by a fault,
\* though completed may jump over full.
InitialRunsEnd == <>(pc \notin {"chunk", "copy", "store"})

\* external_merge_sort.h, on createInitialRuns: "Using a merge-sort algorithm,
\* create the initial runs, and divide them evenly among the output files".
\* A call that returns would then have put the records in order.
SortKeepsRecords == pc = "done" => disk.values.recs \in Sorted(call.input)
=============================================================================
