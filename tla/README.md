# Varsorter: specifications, model checking and proofs

Varsorter stores records in a values file, keeps for records of variable size an
index of byte ranges, sorts the index through a memory mapping and then rewrites
the values in order. This directory holds TLA+ models of that code, the TLC
configurations that check them on small instances, theorems that TLAPS proves
for all instances, and `PROJECT.json`, which lists the runs, the line of code
behind each definition, the hazards, the findings and the theorems.

Everything is run inside this directory, for instance

    tlc -workers 2 -config MCInserter.cfg Inserter
    tlapm InserterProofs.tla

## 1. The system

The library has no threads and no locks. What makes it hard is that three
parties keep state about the same files and must agree: the *inserter*, which
appends through buffered stdio streams and keeps ids and offsets in memory; the
*sorter*, which maps the files and rewrites them in place; and the *serializer*,
whose three flags decide which of the two has the files open. A process may be
killed at any point, and what was in a shared mapping then stays while what was
in a stream's buffer is lost. All arithmetic is on `uint_fast64_t`, which wraps.

| component | state | operations | what makes it correct |
|---|---|---|---|
| `virtual_sorter`: quicksort, partition | the index entries, the recursion | `partition`, `quicksort`, the macro `swap` | ends; every record kept; in order at the end; writes only inside pending spans |
| `virtual_sorter`: `binSearch` | the window `i`, `j` | `binSearch`, `end` | probes only slots; a present record is found; an absent one gives `end()` |
| `virtual_sorter`: `common_sort_pair` | both indexes (mapped), the values file, the `.sorted` file | the rewrite and `rename` | index and values agree before and after; no record lost |
| fixed-size sort (`smart_index_pointer`, `smart_malloc`) | blocks in the mapping, the exchange buffer, the shared entry | `operator[]`, `unsafe_swap`, `domalloc`, `docopy` | blocks kept; ends; in order at the end |
| `inserter` | three streams, two entries kept in memory | `open` (two), `close`, `writeKeyAndValue`, `risk_..._with_prev`, `risk_..._noindex`, `dounlink`, destructor | entries describe records; the two indexes agree; a crash leaves no entry without its record |
| `serializer_with_sort` | inserter, sorter, `hasInserted`, `hasRiskInsert`, `hasSorted` | `insert`/`risk_insert`, `iovec_multiinsert`, `sortElement`, `begin`, `end`, `searchFor`, `update` (two), `unlink`, destructor | no stale mapping; the sorted flag is true; seen from outside, a bag of records |
| `virtual_sorter::iterator` | position, last position, addresses | comparison, `++`, `->`, `setNewLen`, `updateWith` | usable only while its mapping is |
| external merge sort | buffers in memory, scratch files, a heap, temporary files | `createInitialRuns`, `mergeFiles`, `run` | the store is replaced only by its own records, in order; no kill loses them; ends |
| key-value store | the above, one buffer | `Deref` getters and setters; `KeyValueStore::sortPair`, which nothing calls | what was set is read back; no call kills a client that sorts before it reads |
| `mmapFile`, data types, comparators, examples | none | | |

Calls: a client calls the serializer; the serializer calls `inserter::open`,
`writeKeyAndValue`, `close` on one side and `openvirtual_sorter`,
`openIfRequired`, `sortPair`, `binSearch`, `doclose` on the other; the sorter
calls back the client's `compare()`. Inserter and sorter never call each other:
they meet only in the files. `KeyValueStore` is a serializer and its sorter at
once. Its own `sortPair` chooses by a threshold between `common_sort_pair` and
`external_merge_sort::run`, but it only hides `virtual_sorter::sortPair`, which is
not virtual (virtual_sorter.h:77) and which `sortElement` calls
(serializer_with_sort.cpp:73): unless a client calls it directly, it never runs.
`external_merge_sort::run` makes serializers of its own for the scratch files and
an inserter for the output.

## 2. Modules and how they correspond to the code

* **SortSpec** - what a sort promises: one step that arranges every record in
  exactly one slot, in rank order.
* **IndexQuicksort** - `quicksort` and `partition` for variable-size records
  (virtual_sorter.cpp:45-71). One action per turn of the loop (`ScanLess`,
  `ScanSkip`), per start and end of a partition (`EnterPartition`, `PlacePivot`)
  and per trivial call (`Return`). The recursion is a stack of `(left, right)`
  frames. A byte range is named by the slot that first held it, a record is its
  rank in the order of `compare()`; ids are a separate column because the code
  does not exchange them.
* **BinSearch** - `binSearch` (253-275) and the iterator it returns. Each action
  is one turn of the loop (`ProbeEqual`, `ProbeLess`, `ProbeGreater`), the exit
  (`GiveUp`), or a probe whose result is not determined because it reads outside
  the index (`ProbeFaults`). Words wrap at `MaxWord`.
* **SortPair** - extends IndexQuicksort with `common_sort_pair` (90-121). A turn
  of its loop is four steps: `fwrite` to the `.sorted` stream (`WriteRecord`), the
  store to `end`, the store to `begin` and the assertion with the store to the
  secondary entry (`StoreEnd`, `StoreBegin`, `LinkEntry`); then come `fclose`
  (`CloseSorted`) and the rename (`ReplaceBulk`). Index and secondary are shared
  mappings, so what they hold in a state is what a process killed there leaves;
  of the stream it leaves the records passed on so far (`flushed`), any number of
  those written until `fclose`. `build` is the kind of store and build: with or
  without a secondary index, with or without `NDEBUG`, secondary ids from 0 or 1,
  and whether the last page of the secondary mapping has room behind its last
  entry. The primary ids run 1..N, and a primary id is used as a position in the
  secondary index: position N is behind the last entry. If the page has room it
  reads zero there and the store is harmless; if not, the access faults, or hits
  the mapping that happens to lie behind (`LinkPastMapping`, phase `"corrupt"`).
* **FixedSort** - the same sort over fixed-size blocks: the entry
  `smart_index_pointer::operator[]` makes up is one shared struct
  (`SlotDenoted`), and `unsafe_swap` is two steps (`SwapOut`, `SwapIn`) with a
  buffer that receives as many words as the unset `tmp.iov_len` says.
* **Inserter** - class `inserter` over streams with a buffer of `BufSize` words:
  `Fwrite` fills the buffer and writes whole buffers when it overflows. A file is
  words on disk, words buffered, and words of entries cut by a crash. A record is
  written by up to four steps, in the order of the code (`After`): the value
  (`WriteValue`), its flush (`FlushValue`), the primary entry (`WritePrimary`) and
  the secondary entry (`WriteSecondary`). `Kill` may come between any two; it
  drops the buffers, `Start` is the next process over the same files. The
  variable `past` remembers which kinds of event happened, so that each property
  says exactly under which it holds. Words of a stream are abstract: any record
  size and buffer size may be given.
* **StoreSpec** - what a serializer promises its client: a bag of records, and for
  each call and answer what becomes of it. An insertion that answers 0 has added
  its record, an update that answers 1 or 2 has replaced one, all other answers
  leave the bag alone. `exact` says that the offset the inserter keeps in memory is
  the end of the file: insertions, searches and sorts keep it, unlink, reopening,
  a moving update or an overwrite of the last record may lose it, and only
  then may an insertion put a record astray (`Skews`); `iovec_multiinsert` and an
  update through an iterator past the end may do so at any time. A store with
  records astray is promised nothing more.
* **SerializerWithSort** - class `serializer_with_sort` with variable-size
  records, one action per call and outcome. The values file is kept byte by byte,
  so that an entry with a wrong offset denotes the bytes it would denote.
  A call that writes to a null stream or goes through a null, unmapped or dangling
  address sets `status` to `"failed"`; no call follows it. `sortElement` appears
  with its result only, in a build in which it succeeds: SortPair has the others.
* **KeyValueStore** - extends SerializerWithSort with the operators of `Deref`
  for keys of one word: a record is two lengths, the key and the value
  (`Serialized`), files are counted in words, and `Compare` is the key
  comparator with its test for a record of 32 bytes (`KeySeen`). `Set` is the
  setter, an update of nothing, hence always an insertion; `Get` reads what the
  search returns without looking whether it is `end()`. `sortElement` is that of
  the serializer, for stores of any size. `compare()` and
  `compareKeys()` have no return statement: the module is about builds without
  optimisation, where the answer of the comparator is still in the register of
  the result; in others the order is undefined and nothing can be said.
* **ExternalMergeSort** - one call of `run()`: chunks are copied
  (`StartChunk`, `CopyRecord`), sorted in memory (`SortBuffers`) and stored
  (`StoreRecord`, `StoreNothing`, `EndChunk`); scratch files are opened
  (`OpenRun`), merged (`Pop`, `Push`) and removed (`EndMerge`); the output takes
  the place of the input in four steps (`UnlinkIndex` to `RenameIndex`). A
  record is its rank. What the comparator makes of an empty buffer is a
  parameter of the call: a fault, as with the repository's key comparator, or a
  place below or above all records. What an earlier, killed call left
  in scratch files and in `temp.txt` is part of the initial states, so that each
  state on disk is also one that a later call may find.
* **IndexQuicksortProofs, BinSearchProofs, InserterProofs, SortPairProofs,
  FixedSortProofs, ExternalMergeSortProofs, SerializerWithSortProofs,
  KeyValueStoreProofs** - theorems about the module each is named for.
* **MCSortPair, MCSerializerWithSort, MCKeyValueStore** - values that a `.cfg`
  cannot write.

The definitions called *Mutant of X* are X as a plausible bug would make it; they
are not part of any specification. For each checked property one of them, put
in the place of X, makes TLC report that property, which shows that the property
depends on what the code does.

## 3. Runs

| run | instance | what it shows |
|---|---|---|
| `quicksort` | all orders of 5 records, ties included, words up to 7 | ends, keeps every entry, orders, never writes a settled slot, and implements SortSpec |
| `binsearch` | all ordered stores of 0..5 records, 7 targets, words up to 15 | a stored record is found, a found slot is right, `end` means absent, the window halves; outside the index only for a target below all records or in an empty store |
| `sort_pair` | 3 records of length 1 or 3, all 16 kinds of store and build | until the rename the visited entries describe what was handed to the new file and the others the old one, but for the one between its two stores; the values file is complete at all times; on return the entries tile it in order, and the secondary entries hold the offsets of the ids at whose positions they are |
| `inserter` | records of 1 and 2 words, buffers of 2, two processes | what a killed, closed or reopened index says of the values |
| `serializer` | records `<<1>>` and `<<2,1>>` in byte order, 3 entries, 4 bytes, two objects, every call in every order | no stale mapping, a true sorted flag, right answers on a sorted store, only two ways to die on a sorted store, insertions that die only on a store that is being read or was unlinked, and refinement of StoreSpec |
| `fixed_sort` | 4 blocks, 4 keys, every class of `tmp.iov_len` | blocks are only moved if the length covers one, the call ends |
| `merge_sort` | inputs of 0..4 records, runs of 1 to 3, both kinds of record, three comparators, every leftover of a killed call | the heap holds the records under the iterators of open files; the store is replaced only when nothing was written to the first scratch file; the initial runs end |
| `key_value` | 2 keys, values of one and two words, 4 records, two objects | on a sorted store the getter gives a value of its key, whatever lies between; a setter dies only on a store that was read since its last insertion and not sorted |

Four runs end in a violation and show a disagreement between the code and what a
comment or the README says of it. Two were also reproduced by running the code
(the fixed-size sort, and the binary search below all records).

| run | disagreement |
|---|---|
| `search_below_all` | in a store that has records, `m-1` wraps at 0; virtual_sorter.h:142 promises the end element |
| `append_later` | offsets restart at 0 in each object; README.md:9 appends and re-sorts later |
| `fixed_sort_order` | the pivot of a fixed-size partition is compared with itself; virtual_sorter.cpp:92 |
| `merge_sort_loss` | the merge sort of a store of one record may return and leave none; external_merge_sort.h:65 speaks of its runs as sorted parts of the input |

What else the models show, without a run of its own:

* The exchange of the quicksort leaves `id` behind (`Swap` acts on `range` only,
  `id` never changes), while virtual_sorter.h:129 calls what
  `getCurrentPosition` returns the original id.
* The inserter numbers records from 1, and virtual_sorter.cpp:108 asserts that
  position and id of a secondary entry are equal: with assertions on,
  `sortPair` of a store with a secondary index never returns. It stops at the
  first turn (`AssertFails`); if the client gives secondary ids from 0, the
  positions 1..N-1 agree, and the turn of the record with primary id N stops it,
  behind the last entry. Without assertions position 0 keeps its old offset.
* `update` of an absent record after an insertion does not insert it
  (serializer_with_sort.h:107 says it does): the search has closed the streams
  and the flags still say that they are open (`UpdateFails`).
* `searchFor` does not sort, though serialize_with_sort_example.cpp:103 says that
  sorting "is done automatically when we're searching for an element".
* The key comparator takes the first word of a record with a longer value, the
  number 8, for its key, so a store with such values must not use the key 8
  (`WordBytes \notin Keys` in `GetterAnswers`; the key-value run with 8 among its
  keys ends in a violation of `GetAnswersKey` after four calls).
* A merge of runs that are not empty never ends: postfix `++` advances by 0. So
  `run()` returns only if nothing reached the first scratch file, which is what
  `ReplacedOnlyWhenEmpty` says, and never with the records in order.

### Bounds, and why they are enough

Five slots give the quicksort a partition with both sides longer than one slot,
nested splits, a pivot at either end and ties on both sides; three frames are
pending at once. Words up to 7 or 15 make `left - 1`, `m - 1` and `(i + j)` wrap
within reach. Three records make the rewrite start, continue and end, with the
out-of-place id after, at and before the one being visited. A stream buffer of
two words does not divide the three of an entry, so kills cut entries, and two
entries fill it exactly, so the last one written may be on disk at once; two
processes suffice for one to append to what another left. In the serializer, one
record is a byte and the other two, so that an update may overwrite or move;
three entries and four bytes allow an insertion after a move, and two objects
one reopening. Four records and runs of one to three make zero, one, two and
four scratch files, a last chunk that is short, and one that has no scratch
file. In the key-value run four records hold one with a long value between,
before and after the one sought. Bounds appear only as guards on growth:
`MaxWords`, `MaxStarts`, one unlink (`Inserter`); `MaxRecords`, `MaxBytes`,
`MaxObjects` and the reach of a null iterator (`SerializerWithSort`); `MaxInput`
and `MaxOut`, after which records of an endless merge are no longer added to
`temp.txt` (`ExternalMergeSort`). `CHECK_DEADLOCK FALSE` is used for these only:
a process that was killed and not restarted, a failed call, a full file or a
call that returned may be the end.

### Fairness

`quicksort`, `binsearch`, `sort_pair`, `fixed_sort` and `merge_sort` are single
threads that run until they return, so weak fairness of their step is what the
scheduler gives a running process. `SearchReturns` excludes a target below all
records, where the wrapped window may probe the same slots for ever.
`PairReturns` states success only for a store with a secondary index in a build
without assertions, whose last page has room. `InitialRunsEnd` stops at the
merge, which need not end. Inserter, serializer and key-value store have no
liveness property: they do only what a client asks.

## 4. Proofs

Assumptions: those of the modules (`ASSUME`), each evaluated by a run. At least one
record, ranks are integers, the word is larger than the index (`N < MaxWord`:
a mapped index cannot fill the address space); record sizes positive; a
nonempty stream buffer; run sizes positive; lengths the unset `tmp.iov_len` may
have up to one word more than a block, which stands for all longer ones.

* **IndexQuicksortProofs.** `SortedWhenDone` is not inductive. `IInv` adds that
  every pending span lies in the index, that spans are disjoint and ascending,
  that two slots out of order belong to a common pending span, that each range
  occurs once, and while `partition` runs that slots `left..i` are below the
  pivot and `i+1..j-1` are not, with `i` possibly wrapped. From it follow type
  correctness, that no record is lost, order on return, that settled slots stay
  and, with initial states and steps mapped, the refinement of SortSpec.
* **BinSearchProofs.** `IInv` says that the slots below the window are less than
  the target and those above it greater, or that the window has wrapped, which
  happens only if the target is below all records. From it follow that a stored
  record is found, that both answers are right, that probes stay inside the
  index, and that the window halves.
* **InserterProofs.** `IInv` accounts for every index stream word by word
  (`Accounts`: disk minus torn plus buffered words are the entries handed over
  and not lost), says when streams are empty and untorn (`Tidy`), that entries
  never run ahead of flushed values (`NotAhead`), at each of the four steps of a
  write, where the next entry begins (`NextEntryIsDue`), and that the counters
  agree. `KillTruncates` shows that a kill leaves a prefix of the entries and
  bounds what it loses. All six properties of the run follow, for all record
  sizes and buffers, and any number of restarts and kills.

* **SortPairProofs.** `PairInv` takes the invariant of the quicksort over: while
  `phase` is `"sort"` its steps are those of IndexQuicksort, afterwards its
  variables stand still and `Sorted` holds. It adds that the new file holds the
  records of the slots visited in slot order, that the bulk file is the old one
  until the new one is whole, and for each store of a turn which numbers of the
  entry it has changed: a rewritten entry begins where the one before ended, at
  the sum of the lengths before it. So the bulk file holds every record once at
  all times, an entry describes the file it was written for wherever the process
  is killed, unless that is between its own two stores, and at the end the
  entries are in rank order, tile the file to its last byte, and have given
  their offsets to the secondary entries at the positions of their ids. The sums
  are the recursive function in `StartOf`; `StartsExist`, `StartsAgree` and
  `StartUnfolds` show that it exists, that there is one, and what it adds up.
* **FixedSortProofs.** `Inv` adds to the types the window of `partition`
  (`left <= i <= j <= right`, one more for `i` between two memcpy), which keeps
  every access inside the file, and `BlocksKept`, for which an exchange of two
  blocks is one permutation of the file in which the buffer stands for slot `j`.
* **ExternalMergeSortProofs.** `Inv` says what the buffers can hold (nothing, or
  the first record), ties `ends`, scratch files and heap together, and follows
  the files of the store through the last four steps. That the first scratch
  file was never written if the merge ended rests on the iterators standing at 0
  in files that are not empty. What becomes of the records once the store is
  replaced is not among the theorems: `merge_sort_loss` shows that they are lost.
* **SerializerWithSortProofs.** Three invariants, each needed by the next, with
  one lemma per kind of call; KeyValueStoreProofs uses the same lemmas, since it
  shares the calls. `Ownership` relates the three flags to the streams and the
  mapping: the two insertion flags are equal and exclude `hasSorted`; something
  is mapped only if a flag says so, then the streams are closed and the mapping
  has every entry. `ObjectInv` adds what the files hold (every entry has at
  least one byte, a mapping has every byte, the contents are in order while the
  flag says so: `FilesInv`) and that a client's iterator stands on slots that
  exist (`SlotsExist`); from it follow types, that no read is stale and that the
  sorted flag is true. With `LocateAnswers`, on the recursive function in
  `Locate`, it says what a search answers on a sorted store and which calls can
  still kill the process; that an insertion dies only on a store being read
  (`InsertLivesUnlessReading`) needs in addition that the streams are open or
  the files mapped whenever `hasInserted` is set (`SomebodyHasFiles`).
  `RefinementInv` adds `OwnBytes`: as long as no offset was wrong, every entry
  ends within the file and no two overlap, so that a call which writes one
  record leaves the others as they read, and `HoldsRecords`, that each entry has
  a record of the client's. Then `AppendContents`, `UpdateContents` and
  `SortResult` say what each call does to the sequence of contents, `BagAppend`,
  `BagReplace` and `BagArranged` to their bag, and every step of the object is a
  step of StoreSpec or none. That a wrong offset comes only where StoreSpec
  allows one needs the length of the file: while `exact` holds the last entry,
  the offset in memory and the end of the file agree (`AppendExact`), also after
  a sort, whose records are together as long as before (`ArrangedSums`,
  `SortExact`).
* **KeyValueStoreProofs.** `StoreInv` adds to `Ownership` that after an
  insertion the files are open or mapped, from which it follows when a setter
  can die. `KeyInv` adds the files and `KeyRecords`: every entry holds a record
  that was set, and a sorted store begins with one at offset 0. `SeenKey` says
  what the comparator sees of a record; hence a search for a bare key finds a
  slot that holds it (`SortedAnswers`), and what the getter reads at its offset
  is the value (`SlotReads`).

Facts about recursive functions and flattened sequences are not in the library in a
form the provers can instantiate. They are proved here with induction stated for
a set of numbers (`SetInduction`: a set that has 0, and n + 1 with n, has all of
`Nat`), which follows from the well-foundedness of `<` and takes no operator:
`FlattenSeqIs`, `PrefixGrows` and `PrefixSlices` for the file a sort writes,
`SearchExists` and `TurnAnswers` for the search.

Four theorems have a hypothesis of their own, beyond the modules' assumptions:

* `ComparesInOrder` (`SortedStoreLives`, `SortedSearchIsRight`): the comparator
  answers with a number and is monotonic on both sides of a record. A client's
  `compare()` owes the sort as much, and those the repository has do it: the
  example's `string_sorter` compares up to the shorter length or the first zero
  byte and then lengths, and `KeysInOrder`
  proves it of `KeyCompare`.
* `EqualIsSame` (`StoreIsImplemented`): of the client's records, only a record
  itself is equal to it. For `string_sorter` it holds if no record has a zero
  byte, at which its `strncmp` stops, as in strings. It is needed because a
  search returns some record that is equal to the one sought, and an update
  replaces that one, while StoreSpec takes the sought record itself out of the
  bag.
* `KeysCompared`, `Records = KeyValueRecords` and `WordBytes \notin Keys`
  (`GetterAnswers`): the store is used with its own comparator and records, as
  the run has it, and no client uses the key 8. The last one is a limit of the
  code: the comparator reads the key of a record of 32 bytes only, and compares
  any other record by its first word, the length of the key, which is 8. With
  the key 8 and a value of two words under any key, the search stops at that
  record, and the getter gives an undefined word though its key has a value.

Only model-checked, and why:

* Liveness (`SortTerminates`, `SearchReturns`, `PairReturns`, `SortReturns`,
  `InitialRunsEnd`): it needs fairness and ENABLED.
* The four runs that end in a violation: what they check is not true.

## 5. What is not modelled

* Key-value stores with fixed-size records or string keys, and what an optimised
  build makes of functions without a return statement.
* In the external merge sort: the steps of `do_quicksort` on buffers in memory
  (its result appears), secondary indexes of scratch files, records of different
  sizes.
* Failing system calls (`fopen`, `fwrite`, `rename`, `stat`, `mmap`). The code
  ignores their results; the properties are shown for calls that succeed.
* A kill inside the exchange of two index entries (four stores: `Swap` is one
  step), torn pages, and what the page cache loses when the system itself crashes.
* `KeyValueStore::sortPair` called by a client itself, with its threshold and its
  merge sort: nothing in the repository does.
* Fixed-size objects of `serializer_with_sort`, and `secondary_ptr` in its updates.
* Reading back index files that a crash misaligned.
* The depth of the C++ stack; reads past the end of a mapping other than as an
  undetermined result.
* Two processes on the same files at the same time: the code has no provision for it.

## 6. Plan

Done: all modules above, with proofs about eight of them; every invariant and
action property of a passing run, and both refinements, are theorems. In order:

1. Fixed-size objects in SerializerWithSort, where `sortElement` is FixedSort's,
   and `secondary_ptr` in its updates.
2. Kills inside the exchange of the quicksort, recovered index files, failing writes.
3. String keys in KeyValueStore: a comparator that reads the bytes of a bare key
   as a length.
