------------------------------ MODULE SortPair ------------------------------
(***************************************************************************)
(* virtual_sorter::sortPair for variable-size records: the quicksort of    *)
(* the index, then common_sort_pair's pass that writes the records to      *)
(* <bulk>.sorted in index order, rewrites begin/end of every entry and the *)
(* offset of a secondary entry, and renames the new file over the bulk     *)
(* file.  Index and secondary are shared mappings: each store into them is *)
(* a step of its own, and what they hold in a state is what a process      *)
(* killed in that state leaves.  The .sorted file is a stdio stream, and   *)
(* a killed process leaves only what the stream has passed on.             *)
(***************************************************************************)
EXTENDS IndexQuicksort

CONSTANTS Lens,    \* record lengths in bytes
          Builds   \* the stores and builds examined: see BuildAssumption

\* secondary: the store was made with use_secondary; asserts: NDEBUG is off;
\* firstId: the first id of the secondary index, 1 from the inserter's
\* counter, 0 when the client numbers its records from 0; room: the N entries
\* of the secondary index do not fill the last page of its mapping.
ASSUME BuildAssumption ==
    Builds \subseteq [secondary : BOOLEAN, asserts : BOOLEAN, firstId : {0, 1}, room : BOOLEAN]
ASSUME LensAssumption == Lens \subseteq Nat \ {0}

VARIABLES build,     \* the member of Builds this behaviour runs
          len,       \* len[r]: bytes of the record stored in range r
          phase,     \* "sort", "rewrite", "replace", "done", or how it died
          written,   \* the loop variable i of common_sort_pair
          turn,      \* the next store of the loop turn: see Turns
          begin,     \* begin[p] and end[p]: the entries as numbers, from
          end,       \* the end of the quicksort on
          init,      \* the offset of the next record in the .sorted file
          out,       \* the records handed to the .sorted stream, in order
          flushed,   \* how many of them are whole in the .sorted file
          bulk,      \* the records in the bulk file, in order
          secondary  \* secondary[k]: the k-th secondary entry

mapped == <<begin, end, secondary>>
files == <<out, flushed, bulk>>
pairVars == <<build, len, phase, written, turn, init, mapped, files>>
vars == <<sortVars, pairVars>>

Turns == {"write", "end", "begin", "link"}

\* Where the k-th record of a file starts.
StartOf(file, k) ==
    LET start[m \in 1..k] == IF m = 1 THEN 0 ELSE start[m - 1] + len[file[m - 1]]
    IN  start[k]

\* The bulk file as the inserter left it.
Original == [k \in 1..N |-> k - 1]

\* The entry of slot p: the quicksort moves the ranges of the original file,
\* the rewrite changes the numbers.
BeginOf(p) == IF phase = "sort" THEN StartOf(Original, range[p] + 1) ELSE begin[p]
EndOf(p) == IF phase = "sort" THEN StartOf(Original, range[p] + 2) ELSE end[p]

Init ==
    /\ SortInit
    /\ build \in Builds
    /\ len \in [Slots -> Lens]
    /\ phase = "sort"
    /\ written = 0 /\ turn = "write"
    /\ begin = [p \in Slots |-> 0] /\ end = [p \in Slots |-> 0]
    /\ init = 0
    /\ out = <<>> /\ flushed = 0
    /\ bulk = Original
    /\ secondary = [k \in Slots |-> [id |-> k + build.firstId, offset |-> BeginOf(k)]]

Quicksort ==
    /\ phase = "sort"
    /\ SortStep
    /\ UNCHANGED pairVars

\* The quicksort has returned; fopen(..., "w+") truncates what an earlier
\* sort may have left.
OpenSorted ==
    /\ phase = "sort" /\ Sorted
    /\ phase' = "rewrite"
    /\ begin' = [p \in Slots |-> BeginOf(p)] /\ end' = [p \in Slots |-> EndOf(p)]
    /\ out' = <<>> /\ flushed' = 0
    /\ UNCHANGED <<sortVars, build, len, written, turn, init, bulk, secondary>>

InTurn(store) == phase = "rewrite" /\ written < N /\ turn = store

\* fwrite: the stream passes on as much as it likes.
WriteRecord ==
    /\ InTurn("write")
    /\ out' = Append(out, range[written])
    /\ flushed' \in flushed..Len(out')
    /\ turn' = "end"
    /\ UNCHANGED <<sortVars, build, len, phase, written, init, mapped, bulk>>

\* Mutants of StoreEnd: begin - end for end - begin; begin rewritten before
\* end is computed from it.
StoreEndNegative ==
    /\ InTurn("end")
    /\ end' = [end EXCEPT ![written] = (begin[written] - end[written]) + init]
    /\ turn' = "begin"
    /\ UNCHANGED <<sortVars, build, len, phase, written, init, begin, secondary, files>>

StoreEndLate ==
    /\ InTurn("end")
    /\ begin' = [begin EXCEPT ![written] = init]
    /\ end' = [end EXCEPT ![written] = (end[written] - init) + init]
    /\ turn' = "begin"
    /\ UNCHANGED <<sortVars, build, len, phase, written, init, secondary, files>>

StoreEnd ==
    /\ InTurn("end")
    /\ end' = [end EXCEPT ![written] = (end[written] - begin[written]) + init]
    /\ turn' = "begin"
    /\ UNCHANGED <<sortVars, build, len, phase, written, init, begin, secondary, files>>

StoreBegin ==
    /\ InTurn("begin")
    /\ begin' = [begin EXCEPT ![written] = init]
    /\ turn' = "link"
    /\ UNCHANGED <<sortVars, build, len, phase, written, init, end, secondary, files>>

\* What mmap_2index_File[k].id reads: behind the last entry the page is zero.
SecondaryIdAt(k) == IF k \in Slots THEN secondary[k].id ELSE 0

\* The entry is behind the last one, and so behind the mapping.
PastMapping(k) == k \notin Slots /\ ~build.room

InLink == InTurn("link") /\ build.secondary

\* Mutants of LinkEntry: init does not advance; it advances too early.
LinkEntryStays ==
    /\ InLink /\ ~PastMapping(id[written])
    /\ build.asserts => SecondaryIdAt(id[written]) = id[written]
    /\ secondary' = IF id[written] \in Slots
                      THEN [secondary EXCEPT ![id[written]].offset = init] ELSE secondary
    /\ written' = written + 1 /\ turn' = "write"
    /\ UNCHANGED <<sortVars, build, len, phase, init, begin, end, files>>

LinkEntryAtEnd ==
    /\ InLink /\ ~PastMapping(id[written])
    /\ build.asserts => SecondaryIdAt(id[written]) = id[written]
    /\ secondary' = IF id[written] \in Slots
                      THEN [secondary EXCEPT ![id[written]].offset = end[written]] ELSE secondary
    /\ init' = end[written]
    /\ written' = written + 1 /\ turn' = "write"
    /\ UNCHANGED <<sortVars, build, len, phase, begin, end, files>>

\* The secondary entry at position id gets the offset; what is stored behind
\* the last entry changes the rest of the page only.
LinkEntry ==
    /\ InLink /\ ~PastMapping(id[written])
    /\ build.asserts => SecondaryIdAt(id[written]) = id[written]
    /\ secondary' = IF id[written] \in Slots
                      THEN [secondary EXCEPT ![id[written]].offset = init] ELSE secondary
    /\ init' = end[written]
    /\ written' = written + 1 /\ turn' = "write"
    /\ UNCHANGED <<sortVars, build, len, phase, begin, end, files>>

Dies(how) ==
    /\ phase' = how
    /\ UNCHANGED <<sortVars, build, len, written, turn, init, mapped, files>>

\* Mutant of AssertFails: the check also stops a release build.
AssertAlwaysFails ==
    /\ InLink /\ ~PastMapping(id[written])
    /\ SecondaryIdAt(id[written]) # id[written]
    /\ Dies("aborted")

AssertFails ==
    /\ InLink /\ build.asserts /\ ~PastMapping(id[written])
    /\ SecondaryIdAt(id[written]) # id[written]
    /\ Dies("aborted")

\* The page behind the mapping: not there, or that of another mapping, whose
\* contents the assertion compares and the store overwrites.
LinkPastMapping ==
    /\ InLink /\ PastMapping(id[written])
    /\ \E how \in {"segfault", "corrupt"} \union (IF build.asserts THEN {"aborted"} ELSE {}) :
          Dies(how)

\* Without a secondary index mmap_2index_File is null.
NoSecondaryFaults ==
    /\ InTurn("link") /\ ~build.secondary
    /\ Dies("segfault")

\* Mutant of CloseSorted: the stream is not closed before the rename.
CloseSortedLate ==
    /\ phase = "rewrite" /\ written = N
    /\ phase' = "replace"
    /\ UNCHANGED <<sortVars, build, len, written, turn, init, mapped, files>>

\* fclose passes on what the stream still holds.
CloseSorted ==
    /\ phase = "rewrite" /\ written = N
    /\ phase' = "replace"
    /\ flushed' = Len(out)
    /\ UNCHANGED <<sortVars, build, len, written, turn, init, mapped, out, bulk>>

\* rename, and the new mapping of the bulk file.
ReplaceBulk ==
    /\ phase = "replace"
    /\ bulk' = SubSeq(out, 1, flushed)
    /\ phase' = "done"
    /\ UNCHANGED <<sortVars, build, len, written, turn, init, mapped, out, flushed>>

Step == \/ Quicksort \/ OpenSorted
        \/ WriteRecord \/ StoreEnd \/ StoreBegin \/ LinkEntry
        \/ AssertFails \/ LinkPastMapping \/ NoSecondaryFaults
        \/ CloseSorted \/ ReplaceBulk

Deaths == {"aborted", "segfault", "corrupt"}

Stopped == phase \in {"done"} \union Deaths /\ UNCHANGED vars

Next == Step \/ Stopped

PairSpec == Init /\ [][Next]_vars /\ WF_vars(Step)

-----------------------------------------------------------------------------
(* Properties *)

\* The numbers in entries and secondary entries, the loop variable and the
\* counts of records stay in range: no length that end is computed from is
\* negative.
PairTypeOK ==
    /\ build \in Builds
    /\ len \in [Slots -> Lens]
    /\ phase \in {"sort", "rewrite", "replace", "done"} \union Deaths
    /\ written \in 0..N /\ turn \in Turns
    /\ begin \in [Slots -> Nat] /\ end \in [Slots -> Nat]
    /\ init \in Nat
    /\ out \in Seq(Slots) /\ bulk \in Seq(Slots)
    /\ flushed \in 0..Len(out)
    /\ secondary \in [Slots -> [id : 0..N, offset : Nat]]

\* Entry p gives the bytes of the record it stands for in this file.
Describes(p, file) ==
    \E k \in 1..Len(file) :
        /\ file[k] = range[p]
        /\ BeginOf(p) = StartOf(file, k)
        /\ EndOf(p) = StartOf(file, k + 1)

\* Whether the loop has passed entry p; of the one between its two stores
\* neither holds.
Rewritten(p) == p < written \/ (p = written /\ turn = "link")
Untouched(p) == p > written \/ (p = written /\ turn \in {"write", "end"})

\* Wherever sortPair is killed before the rename, the entries visited
\* describe the new file, the others the bulk file, and only the entry
\* between its stores to end and begin may describe neither.  (The new file
\* is what was handed to the stream: the end of it may still be in its
\* buffer.)
RewriteSplit ==
    phase \notin {"done", "corrupt"} =>
        \A p \in Slots : /\ Rewritten(p) => Describes(p, out)
                         /\ Untouched(p) => Describes(p, bulk)

\* The bulk file holds every record once at all times, sorted or not: it is
\* replaced as a whole, by a file that the stream has been flushed to, and
\* never by an incomplete one.  (Not after a store into a foreign mapping.)
BulkIsComplete ==
    phase # "corrupt" =>
        Len(bulk) = N /\ \A r \in Slots : \E k \in 1..N : bulk[k] = r

EntriesTile == BeginOf(0) = 0 /\ \A p \in 1..(N - 1) : BeginOf(p) = EndOf(p - 1)
BulkInOrder == \A p, q \in 1..N : p < q => rank[bulk[p]] <= rank[bulk[q]]

\* When sortPair has returned, the entries tile the bulk file from its
\* first byte to its last, in rank order.
SortedAndTiled ==
    phase = "done" => EntriesTile /\ EndOf(N - 1) = StartOf(bulk, N + 1) /\ BulkInOrder

\* When sortPair has returned, the secondary entry at position k holds the
\* offset of the record whose primary entry has id k: the offset is stored
\* before init moves on, and at the id of the slot, not of the record.
SecondaryFollowsPrimary ==
    phase = "done" =>
        \A p \in Slots : id[p] \in Slots => secondary[id[p]].offset = BeginOf(p)

\* sortPair returns or dies, and it returns on a store with a secondary
\* index when the assertions are compiled out and the access behind the last
\* entry stays in the mapping.
PairReturns ==
    /\ <>(phase \in {"done"} \union Deaths)
    /\ build.secondary /\ ~build.asserts /\ build.room ~> phase = "done"
=============================================================================
