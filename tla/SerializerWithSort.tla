------------------------- MODULE SerializerWithSort -------------------------
(***************************************************************************)
(* class serializer_with_sort over records of variable size: the calls a   *)
(* client makes on one object, the flags that decide whether the inserter  *)
(* c or the memory-mapped sorter owns the files, and the offsets each call *)
(* writes.  Files are sequences of bytes, so that an entry with a wrong    *)
(* offset reads what it would read.  Of the sort only the result appears:  *)
(* IndexQuicksort and SortPair show how it is reached.                     *)
(***************************************************************************)
EXTENDS Integers, Sequences, SequencesExt, Bags, FiniteSets, TLC

CONSTANTS Records,     \* the records clients store: nonempty byte sequences
          MaxRecords,  \* bound on the entries of the index
          MaxBytes,    \* bound on the length of the values file
          MaxObjects,  \* bound on the objects made over the files, in turn
          Calls,       \* the calls clients make
          Compare(_, _) \* compare() of a stored and a sought record: an integer

ASSUME RecordsAssumption == Records \subseteq Seq(Nat) \ {<<>>}
ASSUME BoundsAssumption == {MaxRecords, MaxBytes, MaxObjects} \subseteq Nat

VARIABLES values,   \* bytes of the values file
          index,    \* entries [begin, end] of the primary index file
          c,        \* the inserter: [open, named, end]
          sorter,   \* the sorter: [set, open, isFixedSize, entries, bytes]
          flags,    \* [hasInserted, hasRiskInsert, hasSorted]
          it,       \* the iterator the client holds: [pos, last, live]
          status,   \* "running" or "failed"
          skewed,   \* some entry was written with offsets that are wrong
          reply,    \* the last call and its result
          objects   \* objects made so far

fileVars == <<values, index>>
vars == <<fileVars, c, sorter, flags, it, status, skewed, reply, objects>>

-----------------------------------------------------------------------------
(* What the files say *)

\* The bytes an entry denotes; the mapping reads zero past the end of the
\* file.
Content(e) ==
    [k \in 1..(e.end - e.begin) |->
        IF e.begin + k <= Len(values) THEN values[e.begin + k] ELSE 0]

Contents == [k \in 1..Len(index) |-> Content(index[k])]

BagOfContents ==
    [r \in Range(Contents) |-> Cardinality({k \in 1..Len(index) : Contents[k] = r})]

\* memcpy into the mapping: nothing reaches the file past its end.
Overlay(offset, bytes) ==
    [k \in 1..Len(values) |->
        IF k \in (offset + 1)..(offset + Len(bytes)) THEN bytes[k - offset] ELSE values[k]]

\* The end field of the last entry of the mapped index.
LastEnd == index[Len(index)].end

Astray == -1

\* The slots binSearch has left to look at.
Windows == [lo : 0..Len(index), hi : -1..(Len(index) - 1)]

\* binSearch on the mapped index: a slot from 0, Len(index) for end(), or
\* Astray when the window passes below slot 0.
Locate(rec) ==
    LET find[w \in Windows] ==
          LET m == (w.lo + w.hi) \div 2
              cr == Compare(Contents[m + 1], rec)
          IN  IF w.hi < w.lo THEN Len(index)
              ELSE IF cr = 0 THEN m
              ELSE IF cr < 0 THEN find[[lo |-> m + 1, hi |-> w.hi]]
              ELSE IF m = 0 THEN Astray ELSE find[[lo |-> w.lo, hi |-> m - 1]]
    IN  IF index = <<>> THEN Astray ELSE find[[lo |-> 0, hi |-> Len(index) - 1]]

-----------------------------------------------------------------------------
(* The object *)

\* live: the addresses the iterator keeps are those of the present mapping;
\* last = -1 stands for 0 - 1, the last slot when nothing is mapped.
NoIterator == [pos |-> 0, last |-> -1, live |-> FALSE]
NoReply == [op |-> "none", old |-> <<>>, neu |-> <<>>, res |-> "none"]

\* A new object.  virtual_sorter's constructor leaves isFixedSize unset.
NewWriter == [open |-> FALSE, named |-> FALSE, end |-> 0]
NewSorters == [set : {TRUE}, open : {FALSE}, isFixedSize : BOOLEAN,
               entries : {0}, bytes : {0}]
NewFlags == [hasInserted |-> FALSE, hasRiskInsert |-> FALSE, hasSorted |-> FALSE]

Init ==
    /\ values = <<>> /\ index = <<>>
    /\ c = NewWriter /\ sorter \in NewSorters /\ flags = NewFlags
    /\ it = NoIterator
    /\ status = "running"
    /\ skewed = FALSE
    /\ reply = NoReply
    /\ objects = 1

Calling(op) == status = "running" /\ op \in Calls

Replies(op, old, neu, res) ==
    reply' = [op |-> op, old |-> old, neu |-> neu, res |-> res]

\* A call that writes to a closed stream, or goes through a null or unmapped
\* pointer, kills the process or leaves its memory undefined: no call follows.
Fails(op, old, neu) ==
    /\ status' = "failed"
    /\ Replies(op, old, neu, "failed")
    /\ UNCHANGED <<fileVars, c, sorter, flags, it, skewed, objects>>

Lives == status' = "running" /\ UNCHANGED objects

\* doclose() and open: the mapping made now covers what the files hold now.
Unmapped == [sorter EXCEPT !.open = FALSE, !.entries = 0, !.bytes = 0]
Mapped == [sorter EXCEPT !.open = TRUE, !.entries = Len(index), !.bytes = Len(values)]

Closed == [c EXCEPT !.open = FALSE]
Opened == [c EXCEPT !.open = TRUE, !.named = TRUE]

\* An iterator keeps addresses: after a new mapping they are the mapping's
\* again, or not, as the kernel places it; those of an unmapped file dangle.
Dangling == IF sorter.open THEN [it EXCEPT !.live = FALSE] ELSE it
Remapped(same) == [it EXCEPT !.live = same /\ it.last # -1]

-----------------------------------------------------------------------------
(* Insertions *)

\* Mutant of ReopensWriter: the streams are opened again after a sort only.
ReopensAfterSort == flags.hasSorted

\* What risk_insert and iovec_multiinsert do before they write.
ReopensWriter == ~flags.hasInserted \/ ~flags.hasRiskInsert
\* Mutant of ClosesSorter: an insertion leaves the sorted files mapped.
SorterStays == flags.hasInserted /\ ~flags.hasRiskInsert

ClosesSorter == flags.hasSorted \/ (flags.hasInserted /\ ~flags.hasRiskInsert)

CannotWrite == \/ ClosesSorter /\ ~sorter.set
               \/ ~ReopensWriter /\ ~c.open

TakesFiles ==
    /\ ~CannotWrite
    /\ sorter' = IF ClosesSorter THEN Unmapped ELSE sorter
    /\ it' = IF ClosesSorter THEN Dangling ELSE it

Inserting == [hasInserted |-> TRUE, hasRiskInsert |-> TRUE, hasSorted |-> FALSE]

\* risk_insert with a record: writeKeyAndValue takes the begin of the new
\* entry from memory, not from the file.
Append1(rec) ==
    /\ Len(index) < MaxRecords /\ Len(values) + Len(rec) <= MaxBytes
    /\ TakesFiles
    /\ values' = values \o rec
    /\ index' = Append(index, [begin |-> c.end, end |-> c.end + Len(rec)])
    /\ c' = [open |-> TRUE, named |-> TRUE, end |-> c.end + Len(rec)]
    /\ flags' = Inserting
    /\ skewed' = (skewed \/ c.end # Len(values))
    /\ Lives

Insert(rec) ==
    /\ Calling("insert")
    /\ Append1(rec)
    /\ Replies("insert", <<>>, rec, "0")

InsertFails(rec) ==
    /\ Calling("insert")
    /\ CannotWrite
    /\ Fails("insert", <<>>, rec)

\* risk_insert of an object that serializes itself: the result is that of a
\* template without a return statement.
InsertObject(rec) ==
    /\ Calling("object")
    /\ Append1(rec)
    /\ Replies("object", <<>>, rec, "any")

InsertObjectFails(rec) ==
    /\ Calling("object")
    /\ CannotWrite
    /\ Fails("object", <<>>, rec)

\* risk_insert of a null or empty buffer.
InsertNothing ==
    /\ Calling("insert")
    /\ Replies("insert", <<>>, <<>>, "-1")
    /\ Lives
    /\ UNCHANGED <<fileVars, c, sorter, flags, it, skewed>>

\* iovec_multiinsert: every element is written without an entry (size stays
\* 0 and i < lsize always holds); an empty list still opens the streams.
MultiInsert(list) ==
    /\ Calling("multi")
    /\ Len(values) + Len(FlattenSeq(list)) <= MaxBytes
    /\ TakesFiles
    /\ values' = values \o FlattenSeq(list)
    /\ c' = IF ReopensWriter THEN Opened ELSE c
    /\ flags' = IF list = <<>> THEN [flags EXCEPT !.hasSorted = FALSE] ELSE Inserting
    /\ skewed' = (skewed \/ list # <<>>)
    /\ Replies("multi", <<>>, <<>>,
               IF flags'.hasInserted /\ flags'.hasRiskInsert THEN "true" ELSE "false")
    /\ Lives
    /\ UNCHANGED index

\* With an empty list the closed stream is not written to.
MultiInsertFails(list) ==
    /\ Calling("multi")
    /\ CannotWrite
    /\ list = <<>> => ClosesSorter /\ ~sorter.set
    /\ Fails("multi", <<>>, <<>>)

MultiInsertNothing ==
    /\ Calling("multi")
    /\ CannotWrite /\ ~(ClosesSorter /\ ~sorter.set)
    /\ Replies("multi", <<>>, <<>>, "true")
    /\ Lives
    /\ UNCHANGED <<fileVars, c, sorter, flags, it, skewed>>

-----------------------------------------------------------------------------
(* Sorting *)

Arrangements(seq) ==
    {s \in [1..Len(seq) -> Range(seq)] :
        \A r \in Range(seq) : Cardinality({k \in 1..Len(seq) : s[k] = r})
                             = Cardinality({k \in 1..Len(seq) : seq[k] = r})}

\* Mutants: the sort leaves the records in reverse order; sortElement opens
\* the sorter as the reading calls do, with openIfRequired.
InOrderReversed ==
    {s \in Arrangements(Contents) :
        \A k, m \in 1..Len(s) : k < m => Compare(s[m], s[k]) <= 0}
OpenedToRead == Mapped

\* The records in every order that compare() allows: the quicksort does not
\* keep the order of records that are equal for it.
InOrder ==
    {s \in Arrangements(Contents) :
        \A k, m \in 1..Len(s) : k < m => Compare(s[k], s[m]) <= 0}

\* openvirtual_sorter, then the new mapping of the values file that the sort
\* has put in the place of the old one.
OpenedToSort ==
    [sorter EXCEPT !.open = TRUE, !.isFixedSize = FALSE,
                   !.entries = Len(index), !.bytes = Len(values')]

\* sortElement on a store that is not flagged as sorted: values and index
\* are rewritten in the order of compare(), in a build where that succeeds
\* (SortPair has the others).
SortElement ==
    /\ Calling("sort")
    /\ ~flags.hasSorted
    /\ sorter.set /\ index # <<>>
    /\ \E sorted \in InOrder :
        LET until(k) == Len(FlattenSeq(SubSeq(sorted, 1, k)))
        IN /\ values' = FlattenSeq(sorted)
           /\ index' = [k \in 1..Len(index) |-> [begin |-> until(k - 1), end |-> until(k)]]
    /\ c' = Closed
    /\ sorter' = OpenedToSort
    /\ \E same \in BOOLEAN : it' = Remapped(same)
    /\ flags' = [hasInserted |-> FALSE, hasRiskInsert |-> FALSE, hasSorted |-> TRUE]
    /\ Replies("sort", <<>>, <<>>, "none")
    /\ Lives
    /\ UNCHANGED skewed

\* No sorter after unlink(); or no entries, and 0 - 1 as the last slot.
SortFails ==
    /\ Calling("sort")
    /\ ~flags.hasSorted
    /\ ~sorter.set \/ index = <<>>
    /\ Fails("sort", <<>>, <<>>)

SortedAlready ==
    /\ Calling("sort")
    /\ flags.hasSorted
    /\ Replies("sort", <<>>, <<>>, "none")
    /\ Lives
    /\ UNCHANGED <<fileVars, c, sorter, flags, it, skewed>>

-----------------------------------------------------------------------------
(* Reading *)

\* begin(), end() and searchFor(): after insertions the streams are closed
\* and the files are mapped anew.
ReopensSorter == flags.hasRiskInsert

ReadOpens ==
    /\ sorter.set
    /\ c' = IF ReopensSorter THEN Closed ELSE c
    /\ sorter' = IF ReopensSorter THEN Mapped ELSE sorter
    /\ UNCHANGED <<fileVars, flags, skewed>>

\* What binSearch needs: a mapping, and isFixedSize set to FALSE, which
\* openIfRequired does not do.
CanSearch == (ReopensSorter \/ sorter.open) /\ ~sorter.isFixedSize

\* begin() of the sorter: slot 0, and the last slot of the mapping.
FirstOf(mapping) == [pos |-> 0, last |-> mapping.entries - 1, live |-> TRUE]

Begin ==
    /\ Calling("begin")
    /\ ReadOpens
    /\ it' = FirstOf(sorter')
    /\ Replies("begin", <<>>, <<>>, "none")
    /\ Lives

BeginFails ==
    /\ Calling("begin")
    /\ ~sorter.set
    /\ Fails("begin", <<>>, <<>>)

\* Prefix ++ stops at the last element.
Advance ==
    /\ Calling("begin") /\ it # NoIterator
    /\ it.pos < it.last \/ (it.last = -1 /\ it.pos < MaxRecords)
    /\ it' = [it EXCEPT !.pos = @ + 1]
    /\ Replies("advance", <<>>, <<>>, "none")
    /\ Lives
    /\ UNCHANGED <<fileVars, c, sorter, flags, skewed>>

\* Mutant of SearchFor: a slot below 0 is returned like any other.
SearchForAstray(rec) ==
    /\ Calling("search")
    /\ CanSearch
    /\ ReadOpens
    /\ it' = [pos |-> Locate(rec), last |-> Len(index) - 1, live |-> TRUE]
    /\ Replies("search", rec, <<>>, IF Locate(rec) \in 0..(Len(index) - 1) THEN "found" ELSE "end")
    /\ Lives

SearchFor(rec) ==
    /\ Calling("search")
    /\ CanSearch /\ Locate(rec) # Astray
    /\ ReadOpens
    /\ it' = [pos |-> Locate(rec), last |-> Len(index) - 1, live |-> TRUE]
    /\ Replies("search", rec, <<>>, IF Locate(rec) < Len(index) THEN "found" ELSE "end")
    /\ Lives

\* A search that leaves the index counts as fatal; BinSearch explores its
\* outcomes.
SearchFails(rec) ==
    /\ Calling("search")
    /\ ~sorter.set \/ ~CanSearch \/ Locate(rec) = Astray
    /\ Fails("search", rec, <<>>)

-----------------------------------------------------------------------------
(* Updates *)

\* setNewLen and updateWith of the iterator on slot pos.
SetNewLen(pos, len) == [index EXCEPT ![pos + 1].end = index[pos + 1].begin + len]
UpdateWith(pos, begin, len) == [index EXCEPT ![pos + 1] = [begin |-> begin, end |-> begin + len]]

\* Mutants of Overwrite: the length stays that of the old record; the store
\* stays flagged as sorted.
OverwriteKeepsLength(pos, neu) ==
    /\ values' = Overlay(index[pos + 1].begin, neu)
    /\ flags' = Inserting
    /\ UNCHANGED <<index, skewed>>

OverwriteStaysSorted(pos, neu) ==
    /\ index' = SetNewLen(pos, Len(neu))
    /\ values' = Overlay(index[pos + 1].begin, neu)
    /\ UNCHANGED <<flags, skewed>>

\* update_internal when the old record is at least as long: in place.
Overwrite(pos, neu) ==
    /\ index' = SetNewLen(pos, Len(neu))
    /\ values' = Overlay(index[pos + 1].begin, neu)
    /\ flags' = Inserting
    /\ UNCHANGED skewed

\* update_internal when the new record is longer: the entry is pointed at
\* the end of the last entry, and the bytes go to the end of the file.
MoveToEnd(pos, neu) ==
    /\ Len(values) + Len(neu) <= MaxBytes
    /\ index' = IF pos < Len(index) THEN UpdateWith(pos, LastEnd, Len(neu)) ELSE index
    /\ values' = values \o neu
    /\ flags' = Inserting
    /\ skewed' = (skewed \/ LastEnd # Len(values) \/ pos >= Len(index))

\* update_internal on slot pos, whose record has len bytes for the iterator.
UpdateInternal(pos, len, neu) ==
    IF len >= Len(neu)
      THEN /\ Overwrite(pos, neu)
           /\ c' = IF ReopensSorter THEN Closed ELSE c
           /\ sorter' = IF ReopensSorter THEN Mapped ELSE sorter
      ELSE /\ MoveToEnd(pos, neu)
           /\ c' = Opened
           /\ sorter' = Unmapped

SizeOf(pos) == index[pos + 1].end - index[pos + 1].begin

\* update() of a record that binSearch finds.  end(), called to compare with
\* it, maps the files again after insertions; what searchFor returned is
\* usable if the new mapping is placed where the old one was.
Update(old, neu) ==
    /\ Calling("update")
    /\ sorter.set /\ CanSearch /\ Locate(old) \in 0..(Len(index) - 1)
    /\ UpdateInternal(Locate(old), SizeOf(Locate(old)), neu)
    /\ \E same \in BOOLEAN :
          it' = IF SizeOf(Locate(old)) < Len(neu) THEN Dangling
                ELSE IF ReopensSorter THEN Remapped(same) ELSE it
    /\ Replies("update", old, neu, IF SizeOf(Locate(old)) >= Len(neu) THEN "1" ELSE "2")
    /\ Lives

\* The record is not there, and the search did not have to close the
\* streams: risk_insert.
UpdateInserts(old, neu) ==
    /\ Calling("update")
    /\ sorter.set /\ CanSearch /\ Locate(old) = Len(index)
    /\ ~ReopensSorter
    /\ Append1(neu)
    /\ Replies("update", old, neu, "0")

\* The search fails; or it had to map the files, and then either the record
\* is there and its iterator stale, or it is not there and risk_insert
\* writes to the closed streams.
UpdateFails(old, neu) ==
    /\ Calling("update")
    /\ ~sorter.set \/ ~CanSearch \/ Locate(old) = Astray \/ ReopensSorter
    /\ Fails("update", old, neu)

\* The slots mapped when update() compares its iterator with end().
EntriesMapped == IF ReopensSorter THEN Len(index) ELSE sorter.entries

ItAtEnd == it.last = EntriesMapped - 1 /\ it.pos = EntriesMapped

\* update() through an iterator the client kept.
UpdateIter(neu) ==
    /\ Calling("updateIter") /\ it # NoIterator
    /\ sorter.set /\ (it.live \/ ReopensSorter)
    /\ it.last # -1 /\ ~ItAtEnd
    /\ LET len == IF it.pos > it.last THEN 0 ELSE SizeOf(it.pos)
       IN  /\ UpdateInternal(it.pos, len, neu)
           /\ it' = [it EXCEPT !.live = len >= Len(neu)]
           /\ Replies("updateIter", <<>>, neu, IF len >= Len(neu) THEN "1" ELSE "2")
    /\ Lives

\* The iterator equals end(): nothing is updated.
UpdateIterAtEnd(neu) ==
    /\ Calling("updateIter") /\ it # NoIterator
    /\ sorter.set /\ ItAtEnd /\ (it.live \/ (ReopensSorter /\ it.last # -1))
    /\ ReadOpens
    /\ it' = [it EXCEPT !.live = TRUE]
    /\ Replies("updateIter", <<>>, neu, "-1")
    /\ Lives

\* It differs from end() because it dangles, and is dereferenced; or it was
\* left by an empty mapping and dereferences null.
UpdateIterFails(neu) ==
    /\ Calling("updateIter") /\ it # NoIterator
    /\ ~sorter.set \/ ReopensSorter \/ ~it.live \/ (it.last = -1 /\ ~ItAtEnd)
    /\ Fails("updateIter", <<>>, neu)

-----------------------------------------------------------------------------
(* Removing the files, and the next object over them *)

\* dounlink knows the names of files the inserter has opened, and no others.
Unlink ==
    /\ Calling("unlink")
    /\ IF c.named THEN values' = <<>> /\ index' = <<>> ELSE UNCHANGED fileVars
    /\ c' = Closed
    /\ sorter' = [Unmapped EXCEPT !.set = FALSE]
    /\ it' = Dangling
    /\ Replies("unlink", <<>>, <<>>, IF c.named THEN "removed" ELSE "kept")
    /\ Lives
    /\ UNCHANGED <<flags, skewed>>

\* The destructor closes everything; a new object opens nothing.
Reopen ==
    /\ Calling("reopen") /\ objects < MaxObjects
    /\ c' = NewWriter /\ sorter' \in NewSorters /\ flags' = NewFlags
    /\ it' = NoIterator
    /\ Replies("reopen", <<>>, <<>>, "none")
    /\ objects' = objects + 1
    /\ UNCHANGED <<fileVars, status, skewed>>

-----------------------------------------------------------------------------

Lists == {<<>>} \union {<<r>> : r \in Records} \union {<<r, q>> : r \in Records, q \in Records}

Next ==
    \/ InsertNothing \/ MultiInsertNothing
    \/ SortElement \/ SortFails \/ SortedAlready
    \/ Begin \/ BeginFails \/ Advance
    \/ Unlink \/ Reopen
    \/ \E list \in Lists : MultiInsert(list) \/ MultiInsertFails(list)
    \/ \E rec \in Records :
          \/ Insert(rec) \/ InsertFails(rec)
          \/ InsertObject(rec) \/ InsertObjectFails(rec)
          \/ SearchFor(rec) \/ SearchFails(rec)
          \/ UpdateIter(rec) \/ UpdateIterAtEnd(rec) \/ UpdateIterFails(rec)
    \/ \E old \in Records, neu \in Records :
          Update(old, neu) \/ UpdateInserts(old, neu) \/ UpdateFails(old, neu)

Spec == Init /\ [][Next]_vars

-----------------------------------------------------------------------------
(* Properties *)

Bytes == Seq(Nat)

\* All variables keep their types.
TypeOK ==
    /\ values \in Bytes
    /\ index \in Seq([begin : Nat, end : Nat])
    /\ c \in [open : BOOLEAN, named : BOOLEAN, end : Nat]
    /\ sorter \in [set : BOOLEAN, open : BOOLEAN, isFixedSize : BOOLEAN,
                   entries : Nat, bytes : Nat]
    /\ flags \in [hasInserted : BOOLEAN, hasRiskInsert : BOOLEAN, hasSorted : BOOLEAN]
    /\ it \in [pos : Nat, last : Int, live : BOOLEAN]
    /\ status \in {"running", "failed"}
    /\ skewed \in BOOLEAN
    /\ reply.old \in Bytes /\ reply.neu \in Bytes
    /\ objects \in Nat

IndexIsMapped == sorter.open => ~c.open /\ sorter.entries = Len(index)

\* The files are never mapped while the streams may hold buffered data, and
\* a mapping covers every entry and byte of its file: no read is stale.
MappingIsCurrent == IndexIsMapped /\ (sorter.open => sorter.bytes = Len(values))

SortedIsMapped ==
    flags.hasSorted /\ sorter.set =>
        sorter.open /\ ~sorter.isFixedSize /\ ~flags.hasInserted /\ ~flags.hasRiskInsert

\* The flag hasSorted tells the truth about the files and the mapping.
SortedFlagIsTrue ==
    /\ SortedIsMapped
    /\ flags.hasSorted /\ sorter.set =>
          \A k, m \in 1..Len(index) : k < m => Compare(Contents[k], Contents[m]) <= 0

\* On a sorted store no call kills the process but one that looks for a
\* record below all the stored ones, or uses an iterator of an old mapping.
SortedStoreSurvives ==
    [][status' = "failed" /\ flags.hasSorted /\ sorter.set =>
          \/ /\ reply'.op \in {"search", "update"}
             /\ \A k \in 1..Len(index) : Compare(Contents[k], reply'.old) > 0
          \/ reply'.op = "updateIter" /\ ~it.live]_vars

\* An insertion kills the process only between a call that maps the files
\* (begin, a search, an update in place) and the next sort, or after unlink:
\* the streams were closed for it and the flags do not tell.  Sorting makes
\* the store writable again, and so does an update that moves a record.
InsertDiesOnlyWhileReading ==
    [][status' = "failed" /\ reply'.op \in {"insert", "object"} =>
          (sorter.open /\ ~flags.hasSorted) \/ ~sorter.set]_vars

\* A record a sorted store holds is found; one it does not hold is not.
SortedSearchAnswers ==
    [][reply'.op = "search" /\ flags.hasSorted =>
          /\ reply'.res = "end" => \A k \in 1..Len(index) : Compare(Contents[k], reply'.old) # 0
          /\ reply'.res = "found" => Compare(Contents[it'.pos + 1], reply'.old) = 0]_vars

Mode == IF status = "failed" THEN "failed" ELSE IF skewed THEN "skewed" ELSE "ok"

\* The entries tile the values file, and the offset the inserter keeps in
\* memory is its end.
EndOf(k) == IF k = 0 THEN 0 ELSE index[k].end

Exact ==
    /\ \A k \in 1..Len(index) : index[k].begin = EndOf(k - 1)
    /\ EndOf(Len(index)) = Len(values) /\ c.end = Len(values)

Store == INSTANCE StoreSpec
    WITH bag <- IF Mode = "ok" THEN BagOfContents ELSE EmptyBag, exact <- Exact, mode <- Mode

\* Call by call, the entries hold the bag of records of the abstract store:
\* a successful insertion adds its record, a successful update puts the new
\* one in the place of the old, other calls change nothing.  Offsets go
\* wrong only after an update, an unlink or a new object has left the
\* inserter with another offset than the end of the file, or by the calls
\* that are wrong by themselves.
ImplementsStore == Store!StoreSpecification
=============================================================================
