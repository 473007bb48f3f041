------------------------------ MODULE Inserter ------------------------------
(***************************************************************************)
(* class inserter: records are appended to a values file, and for records  *)
(* of variable size an entry [id, begin, end] to the primary index and,    *)
(* optionally, an entry [id, offset] to the secondary index.  The three    *)
(* files are stdio streams opened with "a+": what fwrite has put in the    *)
(* buffer of a stream is lost if the process is killed, which may happen   *)
(* between any two calls that write or flush.  Files are measured in       *)
(* words; the bytes of a record are only its size.                         *)
(***************************************************************************)
EXTENDS Integers, Sequences

CONSTANTS Sizes,     \* sizes of the records written
          GivenIds,  \* ids a client may pass through secondary_ptr
          BufSize,   \* words in the buffer of a stream
          MaxWords,  \* bound on the length of the values file
          MaxStarts  \* bound on the number of processes, one after another

ASSUME SizesAssumption == Sizes \subseteq Nat \ {0}
ASSUME IdsAssumption == GivenIds \subseteq Nat
ASSUME BufAssumption == BufSize \in Nat \ {0}
ASSUME BoundsAssumption == MaxWords \in Nat /\ MaxStarts \in Nat

VARIABLES fixed,           \* hasFixedSizeInput
          useSecondary,    \* useSecondaryIndex
          alive,           \* the process that owns the inserter is running
          opened,          \* the streams are open
          named,           \* values_file and primary_index_file are set
          toSerialize,     \* the primary entry written last, as kept in memory
          toTmpSerialize,  \* the secondary entry written last
          values,          \* the values file
          primary,         \* the primary index file
          secondary,       \* the secondary index file
          index,           \* entries handed to the primary index and not lost
          secIndex,        \* entries handed to the secondary index and not lost
          job,             \* where risk_writeKeyAndValue_with_prev is: see NoJob
          pending,         \* words written since the last entry
          past,            \* what has happened: see Events
          starts           \* processes started so far

filesVars == <<values, primary, secondary, index, secIndex>>
memoryVars == <<toSerialize, toTmpSerialize>>
vars == <<fixed, useSecondary, alive, opened, named, filesVars, memoryVars, job, pending, past,
          starts>>

\* "restart": a process appended to files another one had filled; "drift":
\* words written without an entry were not covered by the next entry;
\* "reuse": files removed by dounlink were written again; "crash": a process
\* was killed; "ids": a client numbered records itself.
Events == {"restart", "drift", "reuse", "crash", "ids"}

NoId == -1

\* The next step of the call, and its arguments.
NoJob == [step |-> "idle", size |-> 0, prev |-> 0, idPtr |-> NoId]
Idle == alive /\ job.step = "idle"

\* An open or closed file: words on disk, words buffered, and words of
\* entries that a crash cut in two.
Empty == [disk |-> 0, buf |-> 0, torn |-> 0]
Length(f) == f.disk + f.buf

\* Mutant of Fwrite: the buffer grows without bound.
FwriteKeepsAll(f, n) == [f EXCEPT !.buf = @ + n]

\* fwrite fills the buffer; when it overflows, whole buffers are written.
Fwrite(f, n) ==
    LET total == f.buf + n
        kept == IF total <= BufSize THEN total ELSE total % BufSize
    IN  [disk |-> f.disk + total - kept, buf |-> kept, torn |-> f.torn]

Fflush(f) == [disk |-> f.disk + f.buf, buf |-> 0, torn |-> f.torn]

\* struct primary_index and struct secondary_index, in words
PrimaryWords == 3
SecondaryWords == 2

\* The file a killed process leaves, and the whole entries it still holds.
Durable(f, w) == (f.disk - f.torn) \div w
Killed(f, w) ==
    [disk |-> f.disk, buf |-> 0, torn |-> f.torn + ((f.disk - f.torn) % w)]

Init ==
    /\ fixed \in BOOLEAN /\ useSecondary \in BOOLEAN
    /\ alive = TRUE /\ opened = FALSE /\ named = FALSE
    /\ toSerialize = [id |-> 0, begin |-> 0, end |-> 0]
    /\ toTmpSerialize = [id |-> 0, offset |-> 0]
    /\ values = Empty /\ primary = Empty /\ secondary = Empty
    /\ index = <<>> /\ secIndex = <<>>
    /\ job = NoJob
    /\ pending = 0
    /\ past = {}
    /\ starts = 1

FlushAll ==
    /\ values' = Fflush(values)
    /\ primary' = Fflush(primary)
    /\ secondary' = Fflush(secondary)
    /\ UNCHANGED <<index, secIndex>>

\* open() first closes what is open; "a+" keeps the contents of the files.
\* The entries of a process start again from offset 0.
Open ==
    /\ Idle
    /\ FlushAll
    /\ opened' = TRUE /\ named' = TRUE
    /\ past' = past \union
         (IF toSerialize.id = 0 /\ Length(values) > pending THEN {"restart"} ELSE {})
    /\ UNCHANGED <<fixed, useSecondary, alive, memoryVars, job, pending, starts>>

\* open(fixed_size, kvFile) turns the inserter into a fixed-size one.
OpenFixed ==
    /\ Idle
    /\ FlushAll
    /\ opened' = TRUE /\ named' = TRUE
    /\ fixed' = TRUE
    /\ UNCHANGED <<useSecondary, alive, memoryVars, job, pending, past, starts>>

\* Mutant of Close: the streams are forgotten, not closed.
CloseForgets ==
    /\ Idle
    /\ opened' = FALSE
    /\ values' = [values EXCEPT !.buf = 0]
    /\ primary' = [primary EXCEPT !.buf = 0]
    /\ secondary' = [secondary EXCEPT !.buf = 0]
    /\ UNCHANGED <<fixed, useSecondary, alive, named, index, secIndex, memoryVars, job,
                   pending, past, starts>>

Close ==
    /\ Idle
    /\ FlushAll
    /\ opened' = FALSE
    /\ UNCHANGED <<fixed, useSecondary, alive, named, memoryVars, job, pending, past, starts>>

\* Mutants of NextEntry and NextSecondary: words written without an entry are
\* not covered; the offset is the end of the record.
NextEntryAlone(size, prev) ==
    [id |-> toSerialize.id + 1, begin |-> toSerialize.end, end |-> toSerialize.end + size]

NextSecondaryAtEnd(idPtr) ==
    [id |-> IF idPtr = NoId THEN toTmpSerialize.id + 1 ELSE idPtr, offset |-> toSerialize.end]

\* The entries of a record of this size, with prev words before it.
NextEntry(size, prev) ==
    [id |-> toSerialize.id + 1, begin |-> toSerialize.end, end |-> toSerialize.end + prev + size]

NextSecondary(idPtr) ==
    [id |-> IF idPtr = NoId THEN toTmpSerialize.id + 1 ELSE idPtr, offset |-> toSerialize.begin]

\* Mutant of After: the values are flushed when the entries are written.
AfterFlushLast(step) ==
    CASE step = "write" -> IF fixed THEN "flush" ELSE "primary"
      [] step = "primary" -> IF useSecondary THEN "secondary" ELSE "flush"
      [] step = "secondary" -> "flush"
      [] step = "flush" -> "idle"

\* The order of the calls of risk_writeKeyAndValue_with_prev and of
\* write_indexing_structures, which does nothing for fixed sizes.
After(step) ==
    CASE step = "write" -> "flush"
      [] step = "flush" -> IF fixed THEN "idle" ELSE "primary"
      [] step = "primary" -> IF useSecondary THEN "secondary" ELSE "idle"
      [] step = "secondary" -> "idle"

At(step) == alive /\ job.step = step
Proceed(step) == job' = IF After(step) = "idle" THEN NoJob ELSE [job EXCEPT !.step = After(step)]

\* risk_writeKeyAndValue_with_prev; writeKeyAndValue is the case prev = 0.
WriteValue(size, prev, idPtr) ==
    /\ Idle /\ opened
    /\ Length(values) + size <= MaxWords
    /\ values' = Fwrite(values, size)
    /\ job' = [step |-> After("write"), size |-> size, prev |-> prev, idPtr |-> idPtr]
    /\ pending' = pending + size
    /\ past' = past
         \union (IF prev # pending THEN {"drift"} ELSE {})
         \union (IF idPtr # NoId THEN {"ids"} ELSE {})
    /\ UNCHANGED <<fixed, useSecondary, alive, opened, named, primary, secondary, index,
                   secIndex, memoryVars, starts>>

FlushValue ==
    /\ At("flush")
    /\ values' = Fflush(values)
    /\ pending' = IF fixed THEN 0 ELSE pending
    /\ Proceed("flush")
    /\ UNCHANGED <<fixed, useSecondary, alive, opened, named, primary, secondary, index,
                   secIndex, memoryVars, past, starts>>

\* The entry goes to the buffer of the index stream.  at and size remember
\* where the words it stands for really are.
WritePrimary ==
    /\ At("primary")
    /\ toSerialize' = NextEntry(job.size, job.prev)
    /\ primary' = Fwrite(primary, PrimaryWords)
    /\ index' = Append(index,
          [id |-> toSerialize'.id, begin |-> toSerialize'.begin, end |-> toSerialize'.end,
           at |-> Length(values) - pending, size |-> pending])
    /\ pending' = 0
    /\ Proceed("primary")
    /\ UNCHANGED <<fixed, useSecondary, alive, opened, named, values, secondary, secIndex,
                   toTmpSerialize, past, starts>>

WriteSecondary ==
    /\ At("secondary")
    /\ toTmpSerialize' = NextSecondary(job.idPtr)
    /\ secondary' = Fwrite(secondary, SecondaryWords)
    /\ secIndex' = Append(secIndex, toTmpSerialize')
    /\ Proceed("secondary")
    /\ UNCHANGED <<fixed, useSecondary, alive, opened, named, values, primary, index,
                   toSerialize, pending, past, starts>>

\* risk_writeKeyAndValue_noindex: no entry, no flush.
WriteNoIndex(size) ==
    /\ Idle /\ opened
    /\ Length(values) + size <= MaxWords
    /\ values' = Fwrite(values, size)
    /\ pending' = pending + size
    /\ UNCHANGED <<fixed, useSecondary, alive, opened, named, primary, secondary, index,
                   secIndex, memoryVars, job, past, starts>>

\* dounlink removes the files this process has opened: the counters in
\* memory keep their values.  Before any open() the file names are empty.
Dounlink ==
    /\ Idle /\ named
    /\ "reuse" \notin past  \* bound: the files are removed once
    /\ opened' = FALSE
    /\ values' = Empty
    /\ IF fixed
         THEN /\ primary' = Fflush(primary) /\ secondary' = Fflush(secondary)
              /\ UNCHANGED <<index, secIndex>>
         ELSE /\ primary' = Empty /\ index' = <<>>
              /\ secondary' = Empty /\ secIndex' = <<>>
    /\ pending' = 0
    /\ past' = past \union {"reuse"}
    /\ UNCHANGED <<fixed, useSecondary, alive, named, memoryVars, job, starts>>

DounlinkUnnamed == Idle /\ ~named /\ UNCHANGED vars

\* The process ends normally: ~inserter closes the streams.
Exit ==
    /\ Idle
    /\ FlushAll
    /\ opened' = FALSE /\ alive' = FALSE
    /\ UNCHANGED <<fixed, useSecondary, named, memoryVars, job, pending, past, starts>>

\* The process is killed, also in the middle of a write: buffers are lost,
\* and with them whole entries and the rest of an entry that was only partly
\* written.
Kill ==
    /\ alive
    /\ alive' = FALSE /\ opened' = FALSE
    /\ values' = [values EXCEPT !.buf = 0]
    /\ primary' = Killed(primary, PrimaryWords)
    /\ secondary' = Killed(secondary, SecondaryWords)
    /\ index' = SubSeq(index, 1, Durable(primary, PrimaryWords))
    /\ secIndex' = SubSeq(secIndex, 1, Durable(secondary, SecondaryWords))
    /\ job' = NoJob
    /\ past' = past \union {"crash"}
    /\ UNCHANGED <<fixed, useSecondary, named, memoryVars, pending, starts>>

\* A new process makes an inserter of the same kind over the same files.
Start ==
    /\ ~alive /\ starts < MaxStarts
    /\ alive' = TRUE /\ named' = FALSE
    /\ toSerialize' = [id |-> 0, begin |-> 0, end |-> 0]
    /\ toTmpSerialize' = [id |-> 0, offset |-> 0]
    /\ pending' = 0
    /\ starts' = starts + 1
    /\ UNCHANGED <<fixed, useSecondary, opened, filesVars, job, past>>

Write == \E size \in Sizes, prev \in {0, pending}, idPtr \in GivenIds \union {NoId} :
            WriteValue(size, prev, idPtr)

Next == \/ Open \/ OpenFixed \/ Close \/ Dounlink \/ DounlinkUnnamed \/ Exit \/ Kill \/ Start
        \/ Write \/ FlushValue \/ WritePrimary \/ WriteSecondary
        \/ \E size \in Sizes : WriteNoIndex(size)

Spec == Init /\ [][Next]_vars

-----------------------------------------------------------------------------
(* Properties *)

File == [disk : Nat, buf : 0..BufSize, torn : Nat]
Entry == [id : Nat, begin : Nat, end : Nat, at : Int, size : Nat]
SecEntry == [id : Nat, offset : Nat]

\* All variables keep their types; no buffer ever exceeds its capacity.
TypeOK ==
    /\ fixed \in BOOLEAN /\ useSecondary \in BOOLEAN
    /\ alive \in BOOLEAN /\ opened \in BOOLEAN /\ named \in BOOLEAN
    /\ toSerialize \in [id : Nat, begin : Nat, end : Nat]
    /\ toTmpSerialize \in SecEntry
    /\ values \in File /\ primary \in File /\ secondary \in File
    /\ index \in Seq(Entry) /\ secIndex \in Seq(SecEntry)
    /\ job \in [step : {"idle", "flush", "primary", "secondary"}, size : Nat, prev : Nat,
               idPtr : Nat \union {NoId}]
    /\ pending \in Nat
    /\ past \subseteq Events
    /\ starts \in Nat

\* No entry that is on disk speaks of words that are not, in whatever state a
\* process is killed: the values are flushed before the entry is handed to
\* the index stream, whose buffer may overflow at once.  A crash leaves
\* values without entries but never entries without values.
IndexNeverAhead ==
    "reuse" \notin past =>
        \A k \in 1..Durable(primary, PrimaryWords) : index[k].end <= values.disk

\* In the life of one process that covers what it writes without an entry
\* by the next entry, each entry gives exactly the words of its record.
EntriesDescribeRecords ==
    past \intersect {"restart", "drift", "reuse"} = {} =>
        \A k \in 1..Len(index) :
            /\ index[k].begin = index[k].at
            /\ index[k].end = index[k].at + index[k].size

\* Unless a process was killed, primary and secondary index hold an entry
\* for the same records at the same offsets, with the same id where the
\* client gives none; only between the two fwrites is the primary index one
\* entry ahead.
IndexesAgree ==
    useSecondary /\ "crash" \notin past =>
        /\ Len(index) = Len(secIndex) + (IF job.step = "secondary" THEN 1 ELSE 0)
        /\ \A k \in 1..Len(secIndex) : secIndex[k].offset = index[k].begin
        /\ "ids" \notin past => \A k \in 1..Len(secIndex) : secIndex[k].id = index[k].id

\* Closed index files that no crash has touched hold whole entries only,
\* all of those written.
ClosedIsWhole ==
    "crash" \notin past /\ ~opened =>
        /\ primary.disk = PrimaryWords * Len(index)
        /\ secondary.disk = SecondaryWords * Len(secIndex)

\* A killed process loses at most the entries one buffer can hold.
CrashLosesOneBuffer ==
    [][Len(index') < Len(index) /\ values' # Empty =>
          PrimaryWords * (Len(index) - Len(index')) < BufSize + PrimaryWords]_vars

\* README.md: files are opened in append mode so that "new-data could be
\* later on re-sorted after doing some insertions".  The entries of a later
\* process would then describe the records it appends.
AppendedEntriesDescribeRecords ==
    past \subseteq {"restart"} =>
        \A k \in 1..Len(index) :
            /\ index[k].begin = index[k].at
            /\ index[k].end = index[k].at + index[k].size
=============================================================================
