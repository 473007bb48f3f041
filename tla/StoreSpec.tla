------------------------------ MODULE StoreSpec -----------------------------
(***************************************************************************)
(* What a serializer_with_sort promises its client: a bag of records, and  *)
(* for each call and result what becomes of it.  A call that says it       *)
(* stored or replaced a record has done so; every other call leaves the    *)
(* bag as it was.  exact says that the offset kept in memory is the end of *)
(* the values file: insertions, searches and sorts keep it so, and only    *)
(* where it is lost may a call that writes put records astray.             *)
(***************************************************************************)
EXTENDS Integers, Bags

CONSTANT Records

VARIABLES bag,   \* the records held: a bag over Records
          reply, \* the last call and its result: [op, old, neu, res]
          exact, \* the next record goes where its entry will say
          mode   \* "ok", "skewed" (an entry has wrong offsets) or "failed"

specVars == <<bag, reply, exact, mode>>

SpecInit == bag = EmptyBag /\ exact = TRUE /\ mode = "ok"

Answers(op, results) == reply'.op = op /\ reply'.res \in results

\* risk_insert, or update of a record that is not there.
Adds ==
    /\ Answers("object", {"any"}) \/ Answers("insert", {"0"}) \/ Answers("update", {"0"})
    /\ bag' = bag (+) SetToBag({reply'.neu})
    /\ exact => exact'

\* update in place ("1") or at the end ("2").  By key, the record replaced
\* is one equal to the key.
Replaces ==
    /\ Answers("update", {"1", "2"}) \/ Answers("updateIter", {"1", "2"})
    /\ \E r \in BagToSet(bag) :
          /\ reply'.op = "update" => r = reply'.old
          /\ bag' = (bag (-) SetToBag({r})) (+) SetToBag({reply'.neu})

\* Calls that store nothing, by what they answer.
Observes ==
    /\ \/ Answers("insert", {"-1"}) \/ Answers("updateIter", {"-1"})
       \/ Answers("sort", {"none"}) \/ Answers("begin", {"none"}) \/ Answers("advance", {"none"})
       \/ Answers("search", {"end"})
       \/ Answers("search", {"found"}) /\ BagIn(reply'.old, bag)
       \/ Answers("multi", {"true", "false"})
       \/ Answers("unlink", {"kept"})
    /\ bag' = bag
    /\ exact => exact'

\* A new object finds the records its predecessor left, but starts to
\* count offsets from 0.
Reopens == Answers("reopen", {"none"}) /\ bag' = bag

Empties == Answers("unlink", {"removed"}) /\ bag' = EmptyBag

Returns == mode = "ok" /\ mode' = "ok" /\ (Adds \/ Replaces \/ Observes \/ Reopens \/ Empties)

\* Nothing is promised of the bag once offsets are wrong.  An insertion does
\* it only where exact was lost; iovec_multiinsert (which writes no entries)
\* and an update through an iterator past the end do it by themselves.
Skews ==
    /\ mode' = "skewed" /\ mode \in {"ok", "skewed"} /\ reply'.res # "failed"
    /\ mode = "ok" =>
          \/ ~exact /\ reply'.op \in {"insert", "object", "update"}
          \/ reply'.op \in {"multi", "updateIter"}

\* No call follows the one that kills the process.
Dies ==
    /\ mode' = "failed" /\ mode \in {"ok", "skewed"}
    /\ reply'.res = "failed" /\ reply'.op \notin {"advance", "unlink", "reopen"}

Call == Returns \/ Skews \/ Dies

StoreSpecification == SpecInit /\ [][Call]_specVars
=============================================================================
