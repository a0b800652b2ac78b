------------------------------- MODULE TagUsage -------------------------------
(***************************************************************************)
(* The tags of notes at the backend: the rows of tags with their usage     *)
(* counts, the rows of item_tags, the tags array of an item, and the       *)
(* requests that change them, each a transaction at READ COMMITTED.        *)
(*                                                                         *)
(* A tag stands for its name in any capitalisation; renaming is left out   *)
(* (TagManagement has it), and so are requests that are refused before     *)
(* they change anything.                                                   *)
(***************************************************************************)
EXTENDS Naturals, FiniteSets, Sequences, SequencesExt

CONSTANTS
  Items, Tags,
  Waiting, Archived,   \* the items to confirm, and the archived ones, at first
  Wanted,              \* the sequences of tags a request may give
  MaxRequests,         \* bound: requests
  MaxFaults            \* bound: requests that fail half-way

ASSUME TagUsageAssumption ==
  /\ Waiting \subseteq Items /\ Archived \subseteq Items /\ Waiting \cap Archived = {}
  /\ Wanted \subseteq Seq(Tags)
  /\ MaxRequests \in Nat /\ MaxFaults \in Nat
  /\ IsFiniteSet(Items) /\ Items # {} /\ IsFiniteSet(Tags)

VARIABLES
  tags,      \* the committed rows of tags
  items,     \* the committed items
  links,     \* the committed rows of item_tags
  requests,
  drifted,   \* ghost: tags whose count a commit wrote from a stale one, or twice
  faults

vars == <<tags, items, links, requests, drifted, faults>>

Slots == 1..MaxRequests
TagRow == [state : {"absent", "live", "deleted"}, usage : Nat]
Item == [status : {"absent", "waiting", "archived", "discarded"}, tags : SUBSET Tags]
Op == [op : {"find", "add", "keep", "remove", "copy", "restore", "delete"}, tag : Tags]
NoRow == [state |-> "absent", usage |-> 0]

\* rows has the tags a transaction has written and holds; seen is the row it
\* has read to write it next.
Unused ==
  [kind |-> "none", item |-> CHOOSE i \in Items : TRUE, wanted |-> <<>>, phase |-> "unused",
   todo |-> <<>>, seen |-> NoRow, first |-> 0, held |-> {}, rows |-> [t \in Tags |-> NoRow],
   stale |-> {}]
Ended == [Unused EXCEPT !.phase = "ended"]

TypeOK ==
  /\ tags \in [Tags -> TagRow]
  /\ items \in [Items -> Item]
  /\ links \subseteq Items \X Tags
  /\ \A r \in Slots :
       /\ requests[r].phase \in {"unused", "running", "writing", "ended"}
       /\ requests[r].todo \in Seq(Op)
       /\ requests[r].rows \in [Tags -> TagRow]
       /\ requests[r].phase = "writing" => requests[r].todo # <<>>
  /\ drifted \subseteq Tags
  /\ faults \in 0..MaxFaults

TagsOf(i) == {t \in Tags : <<i, t>> \in links}
Bearing(t) == {i \in Items : <<i, t>> \in links}

\* A count may have drifted before.
Init ==
  /\ items \in [Items -> [status : {"absent", "waiting", "archived"}, tags : SUBSET Tags]]
  /\ \A i \in Items :
       /\ items[i].status = "waiting" <=> i \in Waiting
       /\ items[i].status = "archived" <=> i \in Archived
       /\ i \notin Archived => items[i].tags = {}
  /\ links = {l \in Items \X Tags : l[2] \in items[l[1]].tags}
  /\ \E state \in [Tags -> {"absent", "live", "deleted"}] :
       /\ \A t \in Tags : state[t] = "absent" => Bearing(t) = {}
       /\ drifted \in SUBSET {t \in Tags : Bearing(t) # {}}
       /\ tags = [t \in Tags |-> [state |-> state[t],
                                 usage |-> IF t \in drifted THEN 0 ELSE Cardinality(Bearing(t))]]
  /\ requests = [r \in Slots |-> Unused]
  /\ faults = 0

-----------------------------------------------------------------------------
(* The requests, as the operations on tags they consist of                 *)

Each(op, sequence) == [k \in DOMAIN sequence |-> [op |-> op, tag |-> sequence[k]]]
Distinct(sequence) == {k \in DOMAIN sequence : \A j \in 1..(k - 1) : sequence[j] # sequence[k]}
Twice(sequence) == {sequence[k] : k \in DOMAIN sequence \ Distinct(sequence)}

\* Every tag of a note is counted with each edit.
AddedAll(i, wanted) == DOMAIN wanted

\* Only the new tags of a note are counted.
Added(i, wanted) == {k \in DOMAIN wanted : wanted[k] \notin TagsOf(i)}

\* The tag at k is linked, and counted if it is one of the counted.
Link(wanted, k, counted) == [op |-> IF k \in counted THEN "add" ELSE "keep", tag |-> wanted[k]]

\* The row of the item is locked from the first statement to the end.
Free(i) == \A r \in Slots : requests[r].phase \in {"running", "writing"} => requests[r].item # i \/ requests[r].kind = "tag"

Begin(r, kind, i, wanted, todo, stale) ==
  /\ requests[r] = Unused /\ \A q \in 1..(r - 1) : requests[q] # Unused
  /\ requests' = [requests EXCEPT ![r] =
       [Unused EXCEPT !.kind = kind, !.item = i, !.wanted = wanted, !.phase = "running",
                      !.todo = todo, !.stale = stale]]
  /\ UNCHANGED <<tags, items, links, drifted, faults>>

\* A note saved at once with tags the user has, deleted ones included; a tag
\* given twice is counted twice.
Save(r, i, wanted) ==
  /\ items[i].status = "absent" /\ Free(i)
  /\ \A k \in DOMAIN wanted : tags[wanted[k]].state # "absent"
  /\ Begin(r, "save", i, wanted, Each("add", wanted), Twice(wanted))

\* Accepted suggestions and tags by name: each found or made, then linked once.
Confirm(r, i, wanted) ==
  /\ items[i].status = "waiting" /\ Free(i)
  /\ LET counted == Distinct(wanted) \cap Added(i, wanted)
         todo == [k \in 1..(2 * Len(wanted)) |->
                    IF k % 2 = 1 THEN [op |-> "find", tag |-> wanted[(k + 1) \div 2]]
                                 ELSE Link(wanted, k \div 2, counted)]
     IN  Begin(r, "confirm", i, wanted, todo, {})

\* Also of a note still to be confirmed.  The old tags come in any order.
Edit(r, i, wanted) ==
  /\ items[i].status \in {"waiting", "archived"} /\ Free(i)
  /\ LET old == TagsOf(i) \ ToSet(wanted)
         counted == Added(i, wanted)
     IN  \E removed \in Bijection(1..Cardinality(old), old) :
           Begin(r, "edit", i, wanted,
                 Each("find", wanted) \o Each("remove", removed)
                   \o [k \in DOMAIN wanted |-> Link(wanted, k, counted)],
                 {wanted[k] : k \in counted \ Distinct(wanted)})

\* Links and counts stay.
Discard(r, i) ==
  /\ items[i].status \in {"waiting", "archived"} /\ Free(i)
  /\ Begin(r, "discard", i, <<>>, <<>>, {})

\* The requests about a tag itself.  A colour is written with the count that
\* get_by_id read, and update reads the row again before.
OnTag(r, t) ==
  \E todo \in {<<"copy", "restore">>, <<"delete">>, <<"find">>} :
    /\ todo # <<"find">> => tags[t].state # "absent"
    /\ Begin(r, "tag", Unused.item, <<>>, [k \in DOMAIN todo |-> [op |-> todo[k], tag |-> t]], {})

-----------------------------------------------------------------------------
(* One operation at a time: a SELECT, then the UPDATE or INSERT of flush   *)

Current(r) == Head(requests[r].todo)
Seen(r, t) == IF t \in requests[r].held THEN requests[r].rows[t] ELSE tags[t]

\* No look at the count before it is lowered.
NothingToWriteElse(op, row) ==
  \/ op = "find" /\ row.state = "live"
  \/ op = "delete" /\ row.state # "live"
  \/ op \in {"copy", "keep"}

\* What the SELECT shows to be nothing to write.
NothingToWrite(op, row) ==
  \/ op = "find" /\ row.state = "live"
  \/ op = "remove" /\ row.usage = 0
  \/ op = "delete" /\ row.state # "live"
  \/ op \in {"copy", "keep"}

Read(r) ==
  LET q == requests[r]
      row == Seen(r, Current(r).tag)
  IN
  /\ q.phase = "running" /\ q.todo # <<>>
  /\ requests' = [requests EXCEPT ![r] =
       IF NothingToWrite(Current(r).op, row)
       THEN [q EXCEPT !.todo = Tail(q.todo), !.first = IF Current(r).op = "copy" THEN row.usage ELSE q.first]
       ELSE [q EXCEPT !.phase = "writing", !.seen = row]]
  /\ UNCHANGED <<tags, items, links, drifted, faults>>

\* The count an operation writes, of the count read before; a copy is written
\* back only where it differs.
Count(r, usage) ==
  CASE Current(r).op = "add" -> requests[r].seen.usage + 1
    [] Current(r).op = "remove" -> requests[r].seen.usage - 1
    [] Current(r).op = "restore" /\ requests[r].first # requests[r].seen.usage -> requests[r].first
    [] OTHER -> usage

\* The count it should write.
RightCount(r, usage) ==
  CASE Current(r).op = "add" -> usage + 1
    [] Current(r).op = "remove" -> usage - 1
    [] OTHER -> usage

State(r, state) ==
  CASE Current(r).op = "find" -> "live" [] Current(r).op = "delete" -> "deleted" [] OTHER -> state

Locked(r, t) == \E q \in Slots \ {r} : t \in requests[q].held

\* A name inserted by another in the meantime.
Duplicate(r) ==
  /\ Current(r).op = "find" /\ requests[r].seen.state = "absent"
  /\ Seen(r, Current(r).tag).state # "absent"

Write(r) ==
  LET q == requests[r]
      t == Current(r).tag
      row == Seen(r, t)
  IN
  /\ q.phase = "writing" /\ ~Locked(r, t) /\ ~Duplicate(r)
  /\ requests' = [requests EXCEPT ![r] =
       [q EXCEPT !.phase = "running", !.todo = Tail(q.todo), !.seen = NoRow,
                 !.held = q.held \cup {t},
                 !.rows = [q.rows EXCEPT ![t] = [state |-> State(r, row.state), usage |-> Count(r, row.usage)]],
                 !.stale = IF Count(r, row.usage) = RightCount(r, row.usage) THEN q.stale ELSE q.stale \cup {t}]]
  /\ UNCHANGED <<tags, items, links, drifted, faults>>

-----------------------------------------------------------------------------
(* The end of a transaction                                                *)

\* delete_by_item_id comes before the new links.
LinksOf(i, kind, wanted) ==
  CASE kind \in {"save", "edit"} -> ToSet(wanted)
    [] kind = "confirm" -> TagsOf(i) \cup ToSet(wanted)
    [] OTHER -> TagsOf(i)

\* A confirmation that names no tags leaves those of the item, or clears them if
\* it gives an empty list.
ItemsAfter(item, kind, wanted) ==
  CASE kind = "save" -> {[status |-> "archived", tags |-> ToSet(wanted)]}
    [] kind = "edit" -> {[item EXCEPT !.tags = ToSet(wanted)]}
    [] kind = "confirm" ->
         {[status |-> "archived", tags |-> t] :
            t \in {ToSet(wanted)} \cup IF wanted = <<>> THEN {item.tags} ELSE {}}
    [] kind = "discard" -> {[item EXCEPT !.status = "discarded"]}
    [] OTHER -> {item}

Commit(r) ==
  LET q == requests[r] IN
  /\ q.phase = "running" /\ q.todo = <<>>
  /\ tags' = [t \in Tags |-> Seen(r, t)]
  /\ \E item \in ItemsAfter(items[q.item], q.kind, q.wanted) : items' = [items EXCEPT ![q.item] = item]
  /\ links' = {l \in links : l[1] # q.item} \cup ({q.item} \X LinksOf(q.item, q.kind, q.wanted))
  /\ drifted' = drifted \cup q.stale
  /\ requests' = [requests EXCEPT ![r] = Ended]
  /\ UNCHANGED faults

Rollback(r) == requests' = [requests EXCEPT ![r] = Ended]

WaitsFor(r, q) ==
  /\ requests[r].phase = "writing" /\ q # r /\ Current(r).tag \in requests[q].held

\* No deadlock is noticed.
InCycleUnnoticed(r) == FALSE

\* A transaction waits for at most one other: a cycle is a set of them in which
\* each waits for one, and one for each.
InCycle(r) ==
  \E circle \in SUBSET Slots :
    /\ r \in circle
    /\ \A q \in circle : (\E s \in circle : WaitsFor(q, s)) /\ \E s \in circle : WaitsFor(s, q)

\* The unique index refuses a name, or the database breaks a deadlock.
Refuse(r) ==
  /\ requests[r].phase = "writing"
  /\ (~Locked(r, Current(r).tag) /\ Duplicate(r)) \/ InCycle(r)
  /\ Rollback(r)
  /\ UNCHANGED <<tags, items, links, drifted, faults>>

Fail(r) ==
  /\ requests[r].phase \in {"running", "writing"}
  /\ faults < MaxFaults /\ faults' = faults + 1
  /\ Rollback(r)
  /\ UNCHANGED <<tags, items, links, drifted>>

-----------------------------------------------------------------------------
User(r) ==
  \/ \E i \in Items, wanted \in Wanted : Save(r, i, wanted) \/ Confirm(r, i, wanted) \/ Edit(r, i, wanted)
  \/ \E i \in Items : Discard(r, i)
  \/ \E t \in Tags : OnTag(r, t)

Progress(r) == Read(r) \/ Write(r) \/ Commit(r) \/ Refuse(r)

Next == \E r \in Slots : User(r) \/ Progress(r) \/ Fail(r)

\* The backend carries on with every transaction it has begun.
Fairness == \A r \in Slots : WF_vars(Progress(r))

Spec == Init /\ [][Next]_vars /\ Fairness

-----------------------------------------------------------------------------
\* An item is linked to every tag it shows, and the count of a tag is the
\* number of items linked to it, discarded ones included, unless a count was
\* written from one that was stale by then, or a request counted a tag twice
\* (increment_usage, decrement_usage, update of the tag repository;
\* create_item.py and update_item.py).
CountsDriftOnlyByRaces ==
  \A t \in Tags :
    /\ {i \in Items : t \in items[i].tags} \subseteq Bearing(t)
    /\ t \notin drifted => tags[t].usage = Cardinality(Bearing(t))

\* Every request comes to an end, though they lock tags in the order in which
\* their users gave them.
EditsEnd == \A r \in Slots : requests[r].phase = "running" ~> requests[r].phase = "ended"
=============================================================================
