---------------------------- MODULE KeyValueStore ----------------------------
(***************************************************************************)
(* class KeyValueStore with keys of one word: operator[] on top of         *)
(* serializer_with_sort.  Deref's setters serialize a key and a value into *)
(* one record and insert it, its getter looks for the bare key with the    *)
(* comparator of the records.  sortElement is the serializer's: it calls   *)
(* sortPair through a virtual_sorter pointer, and sortPair is not virtual, *)
(* so that KeyValueStore::sortPair, with its threshold and its merge sort, *)
(* is never reached.  Files, offsets and lengths are counted in words, the *)
(* two lengths in the header of a record in bytes, as the code does.       *)
(*                                                                         *)
(* compareKeys and compare have no return statement; without optimisation, *)
(* which CMakeLists.txt does not ask for, the comparator's answer is still *)
(* in the register of the result.  The module is about those builds.       *)
(***************************************************************************)
EXTENDS SerializerWithSort

CONSTANTS Keys,     \* the keys clients use
          Payloads  \* the values they store, as sequences of words

ASSUME KeysAssumption == Keys \subseteq Nat /\ Payloads \subseteq Seq(Nat)

WordBytes == 8

\* INITIAL_OFFSET bytes of lengths, the key, and the value.
Serialized(key, value) == <<WordBytes, WordBytes * Len(value), key>> \o value

KeyValueRecords == {Serialized(k, v) : k \in Keys, v \in Payloads}

\* Mutant of KeySeen: the key is the first word of everything.
KeySeenFirst(words) == words[1]

\* get() of ExternalULongKeyComparator: the third word of a record of four
\* words; the first word of a bare key, and of any other record.
KeySeen(words) == IF Len(words) = 4 THEN words[3] ELSE words[1]

GreaterThan(lhs, rhs) == KeySeen(lhs) > KeySeen(rhs)

\* compare() of the comparator.
KeyCompare(lhs, rhs) ==
    CASE GreaterThan(rhs, lhs) -> -1
      [] GreaterThan(lhs, rhs) -> 1
      [] OTHER -> 0

\* compare() of the store: what keyComparator has left in the register.
StoreCompare(lhs, rhs) == KeyCompare(lhs, rhs)

-----------------------------------------------------------------------------
(* Setters *)

\* store[key] = value: update() of nothing, so that the record is inserted
\* even when the key is already there.
Set(rec) ==
    /\ Calling("set")
    /\ Append1(rec)
    /\ Replies("set", <<>>, rec, "0")

SetFails(rec) ==
    /\ Calling("set")
    /\ CannotWrite
    /\ Fails("set", <<>>, rec)

-----------------------------------------------------------------------------
(* The getter *)

\* The offset of slot pos: the index page reads zero behind the last entry.
BeginAt(pos) == IF pos < Len(index) THEN index[pos + 1].begin ELSE 0

\* getValue(): the words at the offset are read as a header, and nothing is
\* assigned unless they announce a value of one word.
HasWord(pos) == values[BeginAt(pos) + 2] = WordBytes
ValueWord(pos) == values[BeginAt(pos) + 3 + values[BeginAt(pos) + 1] \div WordBytes]

\* (uint_fast64_t) store[key]: what searchFor returns is not compared with
\* end().  Without an assignment the result is any word.
Get(key) ==
    /\ Calling("get")
    /\ CanSearch /\ Locate(<<key>>) # Astray
    /\ ReadOpens
    /\ \E same \in BOOLEAN : it' = IF ReopensSorter THEN Remapped(same) ELSE it
    /\ IF HasWord(Locate(<<key>>))
         THEN Replies("get", <<key>>, <<ValueWord(Locate(<<key>>))>>, "value")
         ELSE Replies("get", <<key>>, <<>>, "any word")
    /\ Lives

\* Deref as a pointer to an iovec: it points into the iterator that operator*
\* was called on, which is gone when the client has it.
GetRecord(key) ==
    /\ Calling("get")
    /\ CanSearch /\ Locate(<<key>>) # Astray
    /\ ReadOpens
    /\ \E same \in BOOLEAN : it' = IF ReopensSorter THEN Remapped(same) ELSE it
    /\ Replies("getRecord", <<key>>, <<>>, "dangling")
    /\ Lives

\* Nothing is mapped yet, or the search leaves the index.
GetFails(key) ==
    /\ Calling("get")
    /\ ~CanSearch \/ Locate(<<key>>) = Astray
    /\ Fails("get", <<key>>, <<>>)

-----------------------------------------------------------------------------

KeyValueNext ==
    \/ SortElement \/ SortFails \/ SortedAlready
    \/ Begin \/ Reopen
    \/ \E rec \in Records : Set(rec) \/ SetFails(rec)
    \/ \E key \in Keys : Get(key) \/ GetRecord(key) \/ GetFails(key)

KeyValueSpec == Init /\ [][KeyValueNext]_vars

-----------------------------------------------------------------------------
(* Properties *)

\* The slots that hold a key with a value of one word.
Holders(key) == {k \in 1..Len(index) : Len(Contents[k]) = 4 /\ Contents[k][3] = key}

\* On a sorted store the getter never dies on a key that has a value of one
\* word, and gives a value stored under that key, whatever records with
\* longer values lie between; for a key that is not there it dies, or gives
\* what the first record of the store holds.  A store with displaced entries
\* (skewed: another object inserted before) promises nothing.
GetAnswersKey ==
    [][reply'.op = "get" /\ flags.hasSorted /\ ~skewed =>
          IF Holders(reply'.old[1]) # {}
            THEN \E k \in Holders(reply'.old[1]) : reply'.neu = <<Contents[k][4]>>
            ELSE \/ reply'.res # "value"
                 \/ reply'.neu = <<Contents[1][4]>>]_vars

\* A setter kills the process only when the store was read since its last
\* insertion and not sorted again: clients that sort before they read can
\* go on storing afterwards.
SetDiesOnlyWhileReading ==
    [][reply'.op = "set" /\ status' = "failed" => sorter.open /\ ~flags.hasSorted]_vars
=============================================================================
