---------------------------- MODULE TagUsageProofs ----------------------------
(***************************************************************************)
(* The count of a tag is the number of items linked to it, whatever edits  *)
(* overlap, unless a commit wrote it from a stale count.                   *)
(***************************************************************************)
EXTENDS TagUsage, FiniteSetTheorems, SequenceTheorems, WellFoundedInduction, TLAPS

Kinds == {"none", "save", "confirm", "edit", "discard", "tag"}
Request ==
  [kind : Kinds, item : Items, wanted : Seq(Tags), phase : {"unused", "running", "writing", "ended"},
   todo : Seq(Op), seen : TagRow, first : Nat, held : SUBSET Tags, rows : [Tags -> TagRow],
   stale : SUBSET Tags]

\* A row that is about to be written was found to need it.
TypeInv ==
  /\ tags \in [Tags -> TagRow]
  /\ items \in [Items -> Item]
  /\ links \subseteq Items \X Tags
  /\ requests \in [Slots -> Request]
  /\ \A r \in Slots : requests[r].phase = "writing" =>
       requests[r].todo # <<>> /\ ~NothingToWrite(Head(requests[r].todo).op, requests[r].seen)
  /\ drifted \subseteq Tags
  /\ faults \in 0..MaxFaults

Active(q) == q.phase \in {"running", "writing"}
Linked == [i \in Items |-> TagsOf(i)]

\* What is left to do to the count of t.
Has(todo, op, t) == \E k \in DOMAIN todo : todo[k].op = op /\ todo[k].tag = t
Counts(step, t) == step.op \in {"add", "remove"} /\ step.tag = t
Once(todo, t) == \A j, k \in DOMAIN todo : Counts(todo[j], t) /\ Counts(todo[k], t) => j = k
Net(todo, t) == IF Has(todo, "add", t) THEN 1 ELSE IF Has(todo, "remove", t) THEN -1 ELSE 0
Weight(step, t) ==
  IF step.tag # t THEN 0 ELSE IF step.op = "add" THEN 1 ELSE IF step.op = "remove" THEN -1 ELSE 0

\* What the commit makes of the links of the item, and of their number for t.
After(old, kind, wanted) ==
  CASE kind \in {"save", "edit"} -> ToSet(wanted)
    [] kind = "confirm" -> old \cup ToSet(wanted)
    [] OTHER -> old
Gain(old, new, t) == IF t \in new \ old THEN 1 ELSE IF t \in old \ new THEN -1 ELSE 0
GainOf(q, linked, t) == Gain(linked[q.item], After(linked[q.item], q.kind, q.wanted), t)

Row(q, committed, t) == IF t \in q.held THEN q.rows[t] ELSE committed[t]

\* The count the transaction sees, with what it still does to it, is the
\* committed one with what the commit does to the links.
Balanced(q, committed, linked, t) ==
  /\ Once(q.todo, t)
  /\ Has(q.todo, "remove", t) => GainOf(q, linked, t) = -1
  /\ Row(q, committed, t).usage + Net(q.todo, t) = committed[t].usage + GainOf(q, linked, t)

BalanceInv ==
  \A r \in Slots : Active(requests[r]) =>
    \A t \in Tags \ (requests[r].stale \cup drifted) : Balanced(requests[r], tags, Linked, t)

\* A row is held by one transaction, and so is an item.
LockInv ==
  /\ \A r \in Slots : ~Active(requests[r]) => requests[r].held = {}
  /\ \A r, s \in Slots : r # s => requests[r].held \cap requests[s].held = {}
  /\ \A r, s \in Slots :
       Active(requests[r]) /\ Active(requests[s]) /\ requests[r].item = requests[s].item =>
         r = s \/ requests[r].kind = "tag" \/ requests[s].kind = "tag"

\* What is edited is there, and what is not there is linked to no tag.
ItemInv ==
  /\ \A i \in Items : items[i].tags \subseteq Linked[i] /\ (items[i].status = "absent" => Linked[i] = {})
  /\ \A r \in Slots : Active(requests[r]) /\ requests[r].kind \in {"edit", "confirm", "discard"} =>
       items[requests[r].item].status # "absent"

CountInv == \A t \in Tags \ drifted : tags[t].usage = Cardinality(Bearing(t))

IInv == TypeInv /\ BalanceInv /\ LockInv /\ ItemInv /\ CountInv

-----------------------------------------------------------------------------
(* Sequences of operations                                                 *)

LEMMA StepAtATime ==
  ASSUME NEW todo \in Seq(Op), todo # <<>>
  PROVE  /\ Head(todo) \in Op /\ Head(todo) = todo[1] /\ Tail(todo) \in Seq(Op)
         /\ 1 \in DOMAIN todo
         /\ \A k \in DOMAIN Tail(todo) : k + 1 \in DOMAIN todo /\ Tail(todo)[k] = todo[k + 1]
         /\ \A k \in DOMAIN todo : k = 1 \/ (k - 1 \in DOMAIN Tail(todo) /\ Tail(todo)[k - 1] = todo[k])
<1>1. Head(todo) \in Op /\ Tail(todo) \in Seq(Op) /\ Len(Tail(todo)) = Len(todo) - 1
      /\ \A k \in 1..Len(Tail(todo)) : Tail(todo)[k] = todo[k + 1]
  BY HeadTailProperties
<1>2. Len(todo) \in Nat /\ Len(todo) > 0 /\ DOMAIN todo = 1..Len(todo) /\ DOMAIN Tail(todo) = 1..Len(Tail(todo))
      /\ Head(todo) = todo[1]
  BY <1>1
<1> QED
  BY <1>1, <1>2

\* The head of what is left to do, and the rest.
LEMMA NetOfTail ==
  ASSUME NEW todo \in Seq(Op), todo # <<>>, NEW t \in Tags, Once(todo, t)
  PROVE  /\ Once(Tail(todo), t)
         /\ \A op : Has(Tail(todo), op, t) => Has(todo, op, t)
         /\ Net(todo, t) = Weight(Head(todo), t) + Net(Tail(todo), t)
         /\ Net(Tail(todo), t) \in Int
         /\ Head(todo).op = "remove" /\ Head(todo).tag = t => Has(todo, "remove", t) /\ Net(todo, t) = -1
<1>1. Once(Tail(todo), t)
  <2> SUFFICES ASSUME NEW j \in DOMAIN Tail(todo), NEW k \in DOMAIN Tail(todo),
                      Counts(Tail(todo)[j], t), Counts(Tail(todo)[k], t)
               PROVE  j = k
    BY DEF Once
  <2>1. j + 1 = k + 1
    BY StepAtATime DEF Once
  <2>2. j \in Int /\ k \in Int
    BY StepAtATime
  <2> QED
    BY <2>1, <2>2
<1>2. \A op : Has(Tail(todo), op, t) => Has(todo, op, t)
  BY StepAtATime DEF Has
<1>3. \A op : Has(todo, op, t) <=> (Head(todo).op = op /\ Head(todo).tag = t) \/ Has(Tail(todo), op, t)
  BY StepAtATime DEF Has
<1>4. ASSUME Counts(Head(todo), t), NEW op \in {"add", "remove"}
      PROVE  ~Has(Tail(todo), op, t)
  <2> SUFFICES ASSUME NEW k \in DOMAIN Tail(todo), Tail(todo)[k].op = op, Tail(todo)[k].tag = t
               PROVE  FALSE
    BY DEF Has
  <2>1. k + 1 = 1
    BY <1>4, StepAtATime DEF Once, Counts
  <2>2. k \in Nat /\ k >= 1
    BY StepAtATime
  <2> QED
    BY <2>1, <2>2
<1>5. Net(todo, t) = Weight(Head(todo), t) + Net(Tail(todo), t)
  BY <1>3, <1>4 DEF Net, Weight, Counts
<1>6. Head(todo).op = "remove" /\ Head(todo).tag = t => Has(todo, "remove", t) /\ Net(todo, t) = -1
  BY <1>3, <1>4 DEF Net, Counts
<1> QED
  BY <1>1, <1>2, <1>5, <1>6 DEF Net

-----------------------------------------------------------------------------
(* What a request has to do when it begins                                 *)

LEMMA SeqFacts ==
  ASSUME NEW wanted \in Seq(Tags)
  PROVE  /\ Len(wanted) \in Nat /\ DOMAIN wanted = 1..Len(wanted)
         /\ \A k \in DOMAIN wanted : wanted[k] \in Tags
         /\ ToSet(wanted) = {wanted[k] : k \in DOMAIN wanted} /\ ToSet(wanted) \subseteq Tags
  BY DEF ToSet

\* The first of the places of a tag is distinct.
LEMMA FirstPlace ==
  ASSUME NEW wanted \in Seq(Tags), NEW t \in ToSet(wanted)
  PROVE  \E k \in Distinct(wanted) : wanted[k] = t
<1> DEFINE Places == {k \in DOMAIN wanted : wanted[k] = t}
<1>1. Places \subseteq Nat /\ Places # {}
  BY SeqFacts
<1>2. PICK k \in Places : \A j \in Places : ~(<<j, k>> \in OpToRel(<, Nat))
  BY <1>1, NatLessThanWellFounded, WFMin
<1>3. \A j \in Places : ~(j < k)
  BY <1>1, <1>2 DEF OpToRel
<1>4. \A j \in 1..(k - 1) : wanted[j] # wanted[k]
  BY <1>1, <1>3, SeqFacts
<1> QED
  BY <1>4 DEF Distinct

\* A saved note: each of its tags is added.
LEMMA SaveTodo ==
  ASSUME NEW wanted \in Seq(Tags)
  PROVE  /\ Each("add", wanted) \in Seq(Op)
         /\ \A t \in Tags \ Twice(wanted) :
              /\ Once(Each("add", wanted), t) /\ ~Has(Each("add", wanted), "remove", t)
              /\ Has(Each("add", wanted), "add", t) <=> t \in ToSet(wanted)
<1> DEFINE todo == Each("add", wanted)
<1>1. todo \in [1..Len(wanted) -> Op]
  BY SeqFacts DEF Each, Op
<1>2. todo \in Seq(Op) /\ DOMAIN todo = DOMAIN wanted
  BY <1>1, SeqFacts
<1>3. \A k \in DOMAIN todo : todo[k].op = "add" /\ todo[k].tag = wanted[k]
  BY DEF Each
<1> HIDE DEF todo
<1>4. ASSUME NEW t \in Tags \ Twice(wanted)
      PROVE  Once(todo, t) /\ ~Has(todo, "remove", t) /\ (Has(todo, "add", t) <=> t \in ToSet(wanted))
  <2>1. ASSUME NEW j \in DOMAIN wanted, NEW k \in DOMAIN wanted, wanted[j] = t, wanted[k] = t, j < k
        PROVE  FALSE
    <3>1. j \in 1..(k - 1)
      BY <2>1, SeqFacts
    <3> QED
      BY <2>1, <3>1 DEF Twice, Distinct
  <2>2. Once(todo, t)
    BY <1>2, <1>3, <2>1, SeqFacts DEF Once, Counts
  <2> QED
    BY <1>2, <1>3, <2>2, SeqFacts DEF Has
<1> QED
  BY <1>2, <1>4 DEF todo

ConfirmTodo(wanted, counted) ==
  [k \in 1..(2 * Len(wanted)) |->
     IF k % 2 = 1 THEN [op |-> "find", tag |-> wanted[(k + 1) \div 2]] ELSE Link(wanted, k \div 2, counted)]

\* A confirmed note: each tag it does not have is added once.
LEMMA ConfirmTodoFacts ==
  ASSUME NEW wanted \in Seq(Tags), NEW i \in Items,
         NEW counted, counted = Distinct(wanted) \cap Added(i, wanted)
  PROVE  /\ ConfirmTodo(wanted, counted) \in Seq(Op)
         /\ \A t \in Tags :
              /\ Once(ConfirmTodo(wanted, counted), t) /\ ~Has(ConfirmTodo(wanted, counted), "remove", t)
              /\ Has(ConfirmTodo(wanted, counted), "add", t) <=> t \in ToSet(wanted) \ TagsOf(i)
<1> DEFINE todo == ConfirmTodo(wanted, counted)
<1> DEFINE n == Len(wanted)
<1>1. n \in Nat /\ DOMAIN wanted = 1..n /\ \A k \in 1..n : wanted[k] \in Tags
  BY SeqFacts
<1>2. ASSUME NEW k \in 1..(2 * n)
      PROVE  /\ k % 2 = 1 => (k + 1) \div 2 \in 1..n
             /\ k % 2 # 1 => k \div 2 \in 1..n /\ k = 2 * (k \div 2)
  <2>1. k \in Nat /\ k >= 1 /\ k <= 2 * n
    BY <1>1
  <2>2. k = 2 * (k \div 2) + (k % 2) /\ k % 2 \in 0..1 /\ k \div 2 \in Nat
    BY <2>1
  <2>3. CASE k % 2 = 1
    <3>1. k + 1 = 2 * (k \div 2 + 1)
      BY <2>2, <2>3
    <3>2. (k + 1) \div 2 = k \div 2 + 1
      BY <3>1, <2>2
    <3> QED
      BY <1>1, <2>1, <2>2, <2>3, <3>2
  <2>4. CASE k % 2 # 1
    BY <1>1, <2>1, <2>2, <2>4
  <2> QED
    BY <2>3, <2>4
<1>3. ASSUME NEW k \in 1..(2 * n)
      PROVE  /\ todo[k] \in Op /\ todo[k].op # "remove"
             /\ todo[k].op = "add" => k % 2 # 1 /\ k \div 2 \in counted /\ todo[k].tag = wanted[k \div 2]
  <2>1. CASE k % 2 = 1
    BY <1>1, <1>2, <2>1 DEF ConfirmTodo, Op
  <2>2. CASE k % 2 # 1
    BY <1>1, <1>2, <2>2 DEF ConfirmTodo, Op, Link
  <2> QED
    BY <2>1, <2>2
<1>4. DOMAIN todo = 1..(2 * n) /\ todo \in Seq(Op)
  <2>1. 2 * n \in Nat
    BY <1>1
  <2>2. todo \in [1..(2 * n) -> Op]
    BY <1>3 DEF ConfirmTodo
  <2>3. ASSUME NEW m \in Nat, NEW f \in [1..m -> Op]
        PROVE  DOMAIN f = 1..m /\ f \in Seq(Op)
    OBVIOUS
  <2> HIDE DEF todo
  <2> QED
    BY <2>1, <2>2, <2>3
<1>5. ASSUME NEW j \in counted
      PROVE  2 * j \in DOMAIN todo /\ todo[2 * j].op = "add" /\ todo[2 * j].tag = wanted[j]
  <2>1. j \in 1..n
    BY <1>1 DEF Added
  <2>2. 2 * j \in 1..(2 * n) /\ (2 * j) % 2 = 0 /\ (2 * j) \div 2 = j
    BY <1>1, <2>1
  <2> QED
    BY <1>4, <2>2 DEF ConfirmTodo, Link
<1>6. ASSUME NEW j \in counted, NEW k \in counted, wanted[j] = wanted[k]
      PROVE  j = k
  <2>1. j \in 1..n /\ k \in 1..n
    BY <1>1 DEF Added
  <2>2. ~(j \in 1..(k - 1)) /\ ~(k \in 1..(j - 1))
    BY <1>6 DEF Distinct
  <2> QED
    BY <1>1, <2>1, <2>2
<1> HIDE DEF todo
<1>7. ASSUME NEW t \in Tags
      PROVE  Once(todo, t) /\ ~Has(todo, "remove", t) /\ (Has(todo, "add", t) <=> t \in ToSet(wanted) \ TagsOf(i))
  <2>1. Once(todo, t)
    <3> SUFFICES ASSUME NEW j \in DOMAIN todo, NEW k \in DOMAIN todo, Counts(todo[j], t), Counts(todo[k], t)
                 PROVE  j = k
      BY DEF Once
    <3>1. j \div 2 = k \div 2
      BY <1>3, <1>4, <1>6 DEF Counts
    <3>2. j = 2 * (j \div 2) /\ k = 2 * (k \div 2)
      BY <1>2, <1>3, <1>4 DEF Counts
    <3> QED
      BY <3>1, <3>2
  <2>2. ~Has(todo, "remove", t)
    BY <1>3, <1>4 DEF Has
  <2>3. Has(todo, "add", t) => t \in ToSet(wanted) \ TagsOf(i)
    BY <1>3, <1>4, SeqFacts DEF Has, Added
  <2>4. t \in ToSet(wanted) \ TagsOf(i) => Has(todo, "add", t)
    BY FirstPlace, <1>5 DEF Has, Added, Distinct
  <2> QED
    BY <2>1, <2>2, <2>3, <2>4
<1> QED
  BY <1>4, <1>7 DEF todo

CountsSome(todo, t) == \E k \in DOMAIN todo : Counts(todo[k], t)

\* Two sequences one after the other.
LEMMA Concatenated ==
  ASSUME NEW a \in Seq(Op), NEW b \in Seq(Op), NEW t \in Tags
  PROVE  /\ a \o b \in Seq(Op)
         /\ \A op : Has(a \o b, op, t) <=> Has(a, op, t) \/ Has(b, op, t)
         /\ CountsSome(a \o b, t) <=> CountsSome(a, t) \/ CountsSome(b, t)
         /\ Once(a, t) /\ Once(b, t) /\ ~(CountsSome(a, t) /\ CountsSome(b, t)) => Once(a \o b, t)
<1>1. /\ a \o b \in Seq(Op) /\ Len(a \o b) = Len(a) + Len(b)
      /\ \A k \in 1..(Len(a) + Len(b)) : (a \o b)[k] = IF k <= Len(a) THEN a[k] ELSE b[k - Len(a)]
  BY ConcatProperties
<1>2. /\ Len(a) \in Nat /\ DOMAIN a = 1..Len(a) /\ Len(b) \in Nat /\ DOMAIN b = 1..Len(b)
      /\ DOMAIN (a \o b) = 1..(Len(a) + Len(b))
  BY <1>1
<1> DEFINE c == a \o b
<1> DEFINE n == Len(a)
<1>3. ASSUME NEW k \in DOMAIN c
      PROVE  \/ k \in DOMAIN a /\ c[k] = a[k]
             \/ k > n /\ k - n \in DOMAIN b /\ c[k] = b[k - n]
  BY <1>1, <1>2
<1>4. \A k \in DOMAIN a : k \in DOMAIN c /\ c[k] = a[k]
  BY <1>1, <1>2
<1>5. \A k \in DOMAIN b : n + k \in DOMAIN c /\ c[n + k] = b[k]
  <2> SUFFICES ASSUME NEW k \in DOMAIN b
               PROVE  n + k \in DOMAIN c /\ c[n + k] = b[k]
    OBVIOUS
  <2>1. n + k \in 1..(n + Len(b)) /\ ~(n + k <= n) /\ (n + k) - n = k
    BY <1>2
  <2> QED
    BY <1>1, <1>2, <2>1
<1>6. c \in Seq(Op) /\ n \in Nat /\ \A k \in DOMAIN c : k \in Nat
  BY <1>1, <1>2
<1> HIDE DEF c, n
<1>7. \A op : Has(c, op, t) <=> Has(a, op, t) \/ Has(b, op, t)
  BY <1>3, <1>4, <1>5 DEF Has
<1>8. CountsSome(c, t) <=> CountsSome(a, t) \/ CountsSome(b, t)
  BY <1>3, <1>4, <1>5 DEF CountsSome
<1>9. ASSUME Once(a, t), Once(b, t), ~(CountsSome(a, t) /\ CountsSome(b, t)),
             NEW j \in DOMAIN c, NEW k \in DOMAIN c, Counts(c[j], t), Counts(c[k], t)
      PROVE  j = k
  <2>1. CASE CountsSome(a, t)
    BY <1>3, <1>9, <2>1 DEF Once, CountsSome
  <2>2. CASE ~CountsSome(a, t)
    <3>1. j - n = k - n
      BY <1>3, <1>9, <2>2 DEF Once, CountsSome
    <3> QED
      BY <1>6, <3>1
  <2> QED
    BY <2>1, <2>2
<1>10. Once(a, t) /\ Once(b, t) /\ ~(CountsSome(a, t) /\ CountsSome(b, t)) => Once(c, t)
  BY <1>9 DEF Once
<1> QED
  BY <1>6, <1>7, <1>8, <1>10 DEF c

EditTodo(wanted, removed, counted) ==
  Each("find", wanted) \o Each("remove", removed) \o [k \in DOMAIN wanted |-> Link(wanted, k, counted)]

\* An edited note: each tag it loses is removed once, each it gains is added,
\* once if it was given once.
LEMMA EditTodoFacts ==
  ASSUME NEW wanted \in Seq(Tags), NEW i \in Items, NEW old, old = TagsOf(i) \ ToSet(wanted), IsFiniteSet(old),
         NEW removed \in Bijection(1..Cardinality(old), old), NEW counted, counted = Added(i, wanted)
  PROVE  /\ EditTodo(wanted, removed, counted) \in Seq(Op)
         /\ \A t \in Tags \ {wanted[k] : k \in counted \ Distinct(wanted)} :
              /\ Once(EditTodo(wanted, removed, counted), t)
              /\ Has(EditTodo(wanted, removed, counted), "add", t) <=> t \in ToSet(wanted) \ TagsOf(i)
              /\ Has(EditTodo(wanted, removed, counted), "remove", t) <=> t \in TagsOf(i) \ ToSet(wanted)
<1> DEFINE found == Each("find", wanted)
<1> DEFINE lost == Each("remove", removed)
<1> DEFINE gained == [k \in DOMAIN wanted |-> Link(wanted, k, counted)]
<1>1. Len(wanted) \in Nat /\ DOMAIN wanted = 1..Len(wanted) /\ \A k \in DOMAIN wanted : wanted[k] \in Tags
  BY SeqFacts
<1>2. /\ Cardinality(old) \in Nat /\ removed \in [1..Cardinality(old) -> old] /\ old \subseteq Tags
      /\ \A j, k \in DOMAIN removed : removed[j] = removed[k] => j = k
      /\ \A t \in old : \E k \in DOMAIN removed : removed[k] = t
  BY FS_CardinalityType DEF Bijection, Injection, Surjection, IsInjective, TagsOf
<1>3. /\ found \in Seq(Op) /\ DOMAIN found = DOMAIN wanted
      /\ \A k \in DOMAIN found : found[k].op = "find"
  <2>1. found \in [1..Len(wanted) -> Op]
    BY <1>1 DEF Each, Op
  <2> QED
    BY <1>1, <2>1 DEF Each
<1>4. /\ lost \in Seq(Op) /\ DOMAIN lost = DOMAIN removed
      /\ \A k \in DOMAIN lost : lost[k].op = "remove" /\ lost[k].tag = removed[k]
  <2>1. DOMAIN removed = 1..Cardinality(old) /\ \A k \in DOMAIN removed : removed[k] \in Tags
    BY <1>2
  <2>2. DOMAIN lost = DOMAIN removed /\ \A k \in DOMAIN lost : lost[k] = [op |-> "remove", tag |-> removed[k]]
    BY DEF Each
  <2>3. lost \in [1..Cardinality(old) -> Op]
    BY <2>1, <2>2 DEF Each, Op
  <2>4. ASSUME NEW m \in Nat, NEW f \in [1..m -> Op]
        PROVE  f \in Seq(Op)
    OBVIOUS
  <2> HIDE DEF lost
  <2>5. lost \in Seq(Op)
    BY <1>2, <2>3, <2>4
  <2> QED
    BY <2>2, <2>5
<1>5. /\ gained \in Seq(Op) /\ DOMAIN gained = DOMAIN wanted
      /\ \A k \in DOMAIN gained : gained[k].tag = wanted[k] /\ gained[k].op = IF k \in counted THEN "add" ELSE "keep"
  <2>1. gained \in [1..Len(wanted) -> Op]
    BY <1>1 DEF Link, Op
  <2> QED
    BY <1>1, <2>1 DEF Link
<1> HIDE DEF found, lost, gained
<1>6. ASSUME NEW t \in Tags \ {wanted[k] : k \in counted \ Distinct(wanted)}
      PROVE  /\ Once(found, t) /\ ~CountsSome(found, t)
             /\ Once(lost, t) /\ (CountsSome(lost, t) <=> t \in old)
             /\ Once(gained, t) /\ (CountsSome(gained, t) <=> t \in ToSet(wanted) \ TagsOf(i))
             /\ ~Has(found, "add", t) /\ ~Has(found, "remove", t)
             /\ ~Has(lost, "add", t) /\ (Has(lost, "remove", t) <=> t \in old)
             /\ (Has(gained, "add", t) <=> t \in ToSet(wanted) \ TagsOf(i)) /\ ~Has(gained, "remove", t)
  <2>1. /\ Once(found, t) /\ ~CountsSome(found, t) /\ ~Has(found, "add", t) /\ ~Has(found, "remove", t)
    BY <1>3 DEF Once, CountsSome, Has, Counts
  <2>2. Once(lost, t)
    <3> SUFFICES ASSUME NEW j \in DOMAIN lost, NEW k \in DOMAIN lost, Counts(lost[j], t), Counts(lost[k], t)
                 PROVE  j = k
      BY DEF Once
    <3>1. removed[j] = removed[k] /\ j \in DOMAIN removed /\ k \in DOMAIN removed
      BY <1>4 DEF Counts
    <3> QED
      BY <1>2, <3>1
  <2>3. (CountsSome(lost, t) <=> t \in old) /\ ~Has(lost, "add", t) /\ (Has(lost, "remove", t) <=> t \in old)
    <3>1. ASSUME NEW k \in DOMAIN lost
          PROVE  lost[k].op = "remove" /\ lost[k].tag \in old
      BY <1>2, <1>4
    <3>2. ASSUME t \in old
          PROVE  \E k \in DOMAIN lost : lost[k].op = "remove" /\ lost[k].tag = t
      <4>1. PICK k \in DOMAIN removed : removed[k] = t
        BY <1>2, <3>2
      <4>2. k \in DOMAIN lost /\ lost[k].op = "remove" /\ lost[k].tag = t
        BY <1>4, <4>1
      <4> QED
        BY <4>2
    <3> QED
      BY <3>1, <3>2 DEF CountsSome, Has, Counts
  <2>4. ASSUME NEW j \in DOMAIN wanted, NEW k \in DOMAIN wanted, j \in counted, k \in counted,
               wanted[j] = t, wanted[k] = t
        PROVE  j = k
    <3>1. j \in Distinct(wanted) /\ k \in Distinct(wanted)
      BY <2>4
    <3>2. ~(j \in 1..(k - 1)) /\ ~(k \in 1..(j - 1))
      BY <2>4, <3>1 DEF Distinct
    <3> QED
      BY <1>1, <3>2
  <2>5. Once(gained, t)
    BY <1>5, <2>4 DEF Once, Counts
  <2>6. (CountsSome(gained, t) <=> t \in ToSet(wanted) \ TagsOf(i)) /\ ~Has(gained, "remove", t)
        /\ (Has(gained, "add", t) <=> t \in ToSet(wanted) \ TagsOf(i))
    BY <1>5, SeqFacts DEF CountsSome, Has, Counts, Added
  <2> QED
    BY <2>1, <2>2, <2>3, <2>5, <2>6
<1>7. found \o lost \in Seq(Op)
  BY <1>3, <1>4, ConcatProperties
<1>8. (found \o lost) \o gained \in Seq(Op)
  BY <1>5, <1>7, ConcatProperties
<1>9. ASSUME NEW t \in Tags \ {wanted[k] : k \in counted \ Distinct(wanted)}
      PROVE  /\ Once((found \o lost) \o gained, t)
             /\ Has((found \o lost) \o gained, "add", t) <=> t \in ToSet(wanted) \ TagsOf(i)
             /\ Has((found \o lost) \o gained, "remove", t) <=> t \in TagsOf(i) \ ToSet(wanted)
  <2>1. /\ \A op : Has(found \o lost, op, t) <=> Has(found, op, t) \/ Has(lost, op, t)
        /\ CountsSome(found \o lost, t) <=> CountsSome(found, t) \/ CountsSome(lost, t)
        /\ Once(found \o lost, t)
    BY <1>3, <1>4, <1>6, Concatenated
  <2>2. /\ \A op : Has((found \o lost) \o gained, op, t) <=> Has(found \o lost, op, t) \/ Has(gained, op, t)
        /\ Once((found \o lost) \o gained, t)
    BY <1>5, <1>6, <1>7, <2>1, Concatenated
  <2> QED
    BY <1>6, <2>1, <2>2
<1> QED
  BY <1>8, <1>9 DEF found, lost, gained, EditTodo

-----------------------------------------------------------------------------
(* A step of a request that leaves what is committed alone                 *)

LEMMA UnusedRow ==
  /\ Unused \in Request /\ ~Active(Unused) /\ Unused.held = {} /\ Unused.seen = NoRow
  /\ Ended \in Request /\ ~Active(Ended) /\ Ended.held = {} /\ Ended.phase = "ended"
<1>1. (CHOOSE i \in Items : TRUE) \in Items
  BY TagUsageAssumption
<1>2. Unused \in Request
  BY <1>1 DEF Unused, Request, Kinds, NoRow, TagRow
<1>3. Unused.held = {} /\ Unused.seen = NoRow /\ Unused.phase = "unused"
  BY DEF Unused
<1>4. Ended \in Request /\ Ended.held = {} /\ Ended.phase = "ended"
  BY <1>2, <1>3 DEF Ended, Request
<1> QED
  BY <1>2, <1>3, <1>4 DEF Active

\* One request moves on, and the rest stays as it is.
LEMMA OneRequest ==
  ASSUME IInv, UNCHANGED <<tags, items, links, drifted>>, faults' \in 0..MaxFaults,
         NEW r \in Slots, NEW q \in Request, requests' = [requests EXCEPT ![r] = q],
         q.phase = "writing" => q.todo # <<>> /\ ~NothingToWrite(Head(q.todo).op, q.seen),
         Active(q) => \A t \in Tags \ (q.stale \cup drifted) : Balanced(q, tags, Linked, t),
         ~Active(q) => q.held = {},
         \A s \in Slots \ {r} : requests[s].held \cap q.held = {},
         \A s \in Slots \ {r} :
           Active(q) /\ Active(requests[s]) /\ q.item = requests[s].item => "tag" \in {q.kind, requests[s].kind},
         Active(q) /\ q.kind \in {"edit", "confirm", "discard"} => items[q.item].status # "absent"
  PROVE  IInv'
<1>1. requests \in [Slots -> Request]
  BY DEF IInv, TypeInv
<1>2. requests' \in [Slots -> Request] /\ requests'[r] = q /\ \A s \in Slots \ {r} : requests'[s] = requests[s]
  BY <1>1
<1>3. Linked' = Linked
  BY DEF Linked, TagsOf
<1>4. TypeInv'
  BY <1>2 DEF IInv, TypeInv
<1>5. BalanceInv'
  <2> SUFFICES ASSUME NEW s \in Slots, Active(requests'[s]), NEW t \in Tags \ (requests'[s].stale \cup drifted)
               PROVE  Balanced(requests'[s], tags, Linked, t)
    BY <1>3 DEF BalanceInv
  <2>1. CASE s = r
    BY <1>2, <2>1
  <2>2. CASE s # r
    BY <1>2, <2>2 DEF IInv, BalanceInv
  <2> QED
    BY <2>1, <2>2
<1>6. LockInv'
  <2>1. \A s \in Slots : ~Active(requests'[s]) => requests'[s].held = {}
    BY <1>2 DEF IInv, LockInv
  <2>2. \A s, u \in Slots : s # u => requests'[s].held \cap requests'[u].held = {}
    BY <1>2 DEF IInv, LockInv
  <2>3. ASSUME NEW s \in Slots, NEW u \in Slots, Active(requests'[s]), Active(requests'[u]),
               requests'[s].item = requests'[u].item
        PROVE  s = u \/ requests'[s].kind = "tag" \/ requests'[u].kind = "tag"
    BY <1>2, <2>3 DEF IInv, LockInv
  <2> QED
    BY <2>1, <2>2, <2>3 DEF LockInv
<1>7. ItemInv'
  BY <1>2, <1>3 DEF IInv, ItemInv
<1>8. CountInv'
  BY DEF IInv, CountInv, Bearing
<1> QED
  BY <1>4, <1>5, <1>6, <1>7, <1>8 DEF IInv

\* A request may begin with this to do.
Starts(todo, kind, i, wanted, t) ==
  LET gain == Gain(Linked[i], After(Linked[i], kind, wanted), t) IN
  Once(todo, t) /\ (Has(todo, "remove", t) => gain = -1) /\ Net(todo, t) = gain

LEMMA BeginStep ==
  ASSUME IInv, NEW r \in Slots, NEW kind \in Kinds, NEW i \in Items, NEW wanted \in Seq(Tags),
         NEW todo \in Seq(Op), NEW stale \in SUBSET Tags, Begin(r, kind, i, wanted, todo, stale),
         kind = "tag" \/ Free(i),
         kind \in {"edit", "confirm", "discard"} => items[i].status # "absent",
         \A t \in Tags \ stale : Starts(todo, kind, i, wanted, t)
  PROVE  IInv'
<1> DEFINE q == [Unused EXCEPT !.kind = kind, !.item = i, !.wanted = wanted, !.phase = "running",
                               !.todo = todo, !.stale = stale]
<1>1. q \in Request /\ requests' = [requests EXCEPT ![r] = q]
  BY UnusedRow DEF Begin, Request
<1>2. /\ q.kind = kind /\ q.item = i /\ q.wanted = wanted /\ q.phase = "running" /\ q.todo = todo
      /\ q.stale = stale /\ q.held = {}
  BY UnusedRow DEF Request
<1> HIDE DEF q
<1>3. tags \in [Tags -> TagRow] /\ faults' \in 0..MaxFaults /\ UNCHANGED <<tags, items, links, drifted>>
  BY DEF IInv, TypeInv, Begin
<1>4. ASSUME NEW t \in Tags \ (q.stale \cup drifted)
      PROVE  Balanced(q, tags, Linked, t)
  <2>1. Starts(todo, kind, i, wanted, t)
    BY <1>2
  <2> QED
    BY <1>2, <2>1 DEF Balanced, Row, GainOf, Starts
<1>5. ASSUME NEW s \in Slots \ {r}, Active(requests[s]), q.item = requests[s].item
      PROVE  "tag" \in {q.kind, requests[s].kind}
  BY <1>2, <1>5 DEF Free, Active
<1>6. requests[r].held = {} /\ \A s \in Slots \ {r} : requests[s].held \cap q.held = {}
  BY <1>2, UnusedRow DEF Begin
<1> QED
  BY <1>1, <1>2, <1>3, <1>4, <1>5, <1>6, OneRequest DEF Active

LEMMA LinkedTags ==
  ASSUME NEW i \in Items
  PROVE  Linked[i] = TagsOf(i) /\ TagsOf(i) \subseteq Tags /\ IsFiniteSet(TagsOf(i))
<1>1. TagsOf(i) \subseteq Tags
  BY DEF TagsOf
<1> QED
  BY <1>1, TagUsageAssumption, FS_Subset DEF Linked

LEMMA SaveStep ==
  ASSUME IInv, NEW r \in Slots, NEW i \in Items, NEW wanted \in Seq(Tags), Save(r, i, wanted)
  PROVE  IInv'
<1>1. Twice(wanted) \in SUBSET Tags
  BY SeqFacts DEF Twice
<1>2. Linked[i] = {}
  BY DEF Save, IInv, ItemInv
<1>3. ASSUME NEW t \in Tags \ Twice(wanted)
      PROVE  Starts(Each("add", wanted), "save", i, wanted, t)
  BY <1>2, SaveTodo DEF Starts, Net, Gain, After
<1> QED
  BY <1>1, <1>3, SaveTodo, BeginStep DEF Save, Kinds

LEMMA ConfirmStep ==
  ASSUME IInv, NEW r \in Slots, NEW i \in Items, NEW wanted \in Seq(Tags), Confirm(r, i, wanted)
  PROVE  IInv'
<1> DEFINE todo == ConfirmTodo(wanted, Distinct(wanted) \cap Added(i, wanted))
<1>1. todo \in Seq(Op) /\ \A t \in Tags : Starts(todo, "confirm", i, wanted, t)
  <2>1. todo \in Seq(Op) /\ \A t \in Tags :
          Once(todo, t) /\ ~Has(todo, "remove", t) /\ (Has(todo, "add", t) <=> t \in ToSet(wanted) \ Linked[i])
    BY ConfirmTodoFacts, LinkedTags
  <2> HIDE DEF todo
  <2> QED
    BY <2>1 DEF Starts, Net, Gain, After
<1>2. Begin(r, "confirm", i, wanted, todo, {}) /\ Free(i) /\ items[i].status # "absent"
  BY DEF Confirm, ConfirmTodo
<1> HIDE DEF todo
<1> QED
  BY <1>1, <1>2, BeginStep DEF Kinds

LEMMA EditStep ==
  ASSUME IInv, NEW r \in Slots, NEW i \in Items, NEW wanted \in Seq(Tags), Edit(r, i, wanted)
  PROVE  IInv'
<1> DEFINE old == TagsOf(i) \ ToSet(wanted)
<1> DEFINE counted == Added(i, wanted)
<1> DEFINE stale == {wanted[k] : k \in counted \ Distinct(wanted)}
<1>1. PICK removed \in Bijection(1..Cardinality(old), old) :
        Begin(r, "edit", i, wanted, EditTodo(wanted, removed, counted), stale)
  BY DEF Edit, EditTodo
<1> DEFINE todo == EditTodo(wanted, removed, counted)
<1>2. IsFiniteSet(old)
  BY LinkedTags, FS_Subset
<1>3. stale \in SUBSET Tags
  BY SeqFacts DEF Added
<1>4. todo \in Seq(Op) /\ \A t \in Tags \ stale : Starts(todo, "edit", i, wanted, t)
  <2>1. todo \in Seq(Op) /\ \A t \in Tags \ stale :
          /\ Once(todo, t) /\ (Has(todo, "add", t) <=> t \in ToSet(wanted) \ Linked[i])
          /\ Has(todo, "remove", t) <=> t \in Linked[i] \ ToSet(wanted)
    BY <1>2, EditTodoFacts, LinkedTags
  <2> HIDE DEF todo, stale
  <2> QED
    BY <2>1 DEF Starts, Net, Gain, After
<1>5. Begin(r, "edit", i, wanted, todo, stale) /\ Free(i) /\ items[i].status # "absent"
  BY <1>1 DEF Edit
<1> HIDE DEF todo, stale
<1> QED
  BY <1>3, <1>4, <1>5, BeginStep DEF Kinds

\* What counts nothing leaves the links alone.
LEMMA UncountedStart ==
  ASSUME NEW todo \in Seq(Op), \A k \in DOMAIN todo : todo[k].op \notin {"add", "remove"},
         NEW i \in Items, NEW t \in Tags, NEW kind \in {"discard", "tag"}, NEW wanted
  PROVE  Starts(todo, kind, i, wanted, t)
<1>1. ~Has(todo, "add", t) /\ ~Has(todo, "remove", t) /\ Once(todo, t)
  BY DEF Has, Once, Counts
<1> QED
  BY <1>1 DEF Starts, Net, Gain, After

LEMMA DiscardStep ==
  ASSUME IInv, NEW r \in Slots, NEW i \in Items, Discard(r, i)
  PROVE  IInv'
<1>1. <<>> \in Seq(Op) /\ <<>> \in Seq(Tags) /\ \A t \in Tags : Starts(<<>>, "discard", i, <<>>, t)
  <2>1. ASSUME NEW todo \in Seq(Op), todo = <<>>, NEW t \in Tags
        PROVE  Starts(todo, "discard", i, <<>>, t)
    <3>1. DOMAIN todo = 1..Len(todo) /\ Len(todo) = 0
      BY <2>1
    <3>2. \A k \in DOMAIN todo : todo[k].op \notin {"add", "remove"}
      BY <3>1
    <3> QED
      BY <3>2, UncountedStart
  <2>2. <<>> \in Seq(Op) /\ <<>> \in Seq(Tags)
    OBVIOUS
  <2> QED
    BY <2>1, <2>2
<1>2. {} \in SUBSET Tags /\ "discard" \in Kinds
  BY DEF Kinds
<1>3. Begin(r, "discard", i, <<>>, <<>>, {}) /\ Free(i) /\ items[i].status # "absent"
  BY DEF Discard
<1> QED
  BY <1>1, <1>2, <1>3, BeginStep

LEMMA OnTagStep ==
  ASSUME IInv, NEW r \in Slots, NEW t \in Tags, OnTag(r, t)
  PROVE  IInv'
<1>1. PICK ops \in {<<"copy", "restore">>, <<"delete">>, <<"find">>} :
        Begin(r, "tag", Unused.item, <<>>, [k \in DOMAIN ops |-> [op |-> ops[k], tag |-> t]], {})
  BY DEF OnTag
<1> DEFINE todo == [k \in DOMAIN ops |-> [op |-> ops[k], tag |-> t]]
<1>2. todo \in Seq(Op) /\ \A k \in DOMAIN todo : todo[k].op \notin {"add", "remove"}
  <2>1. Len(ops) \in Nat /\ DOMAIN ops = 1..Len(ops)
        /\ \A k \in DOMAIN ops : ops[k] \in {"copy", "restore", "delete", "find"}
    OBVIOUS
  <2>2. todo \in [1..Len(ops) -> Op]
    BY <2>1 DEF Op
  <2> QED
    BY <2>1, <2>2
<1>3. Unused.item \in Items /\ <<>> \in Seq(Tags) /\ {} \in SUBSET Tags /\ "tag" \in Kinds
  BY UnusedRow DEF Request, Kinds
<1> HIDE DEF todo
<1>4. \A u \in Tags : Starts(todo, "tag", Unused.item, <<>>, u)
  BY <1>2, <1>3, UncountedStart
<1>5. Begin(r, "tag", Unused.item, <<>>, todo, {})
  BY <1>1 DEF todo
<1> QED
  BY <1>2, <1>3, <1>4, <1>5, BeginStep

-----------------------------------------------------------------------------
LEMMA RowTyped ==
  ASSUME TypeInv, NEW r \in Slots, NEW t \in Tags
  PROVE  Seen(r, t) = Row(requests[r], tags, t) /\ Seen(r, t) \in TagRow
  BY DEF TypeInv, Seen, Row, Request

\* A tag to be removed is on the item, so its count is not 0.
LEMMA RemovalCounted ==
  ASSUME IInv, NEW r \in Slots, Active(requests[r]), requests[r].todo # <<>>,
         Head(requests[r].todo).op = "remove",
         NEW t \in Tags \ (requests[r].stale \cup drifted), Head(requests[r].todo).tag = t
  PROVE  Row(requests[r], tags, t).usage # 0
<1> DEFINE q == requests[r]
<1>1. q \in Request /\ q.todo \in Seq(Op) /\ q.item \in Items
  BY DEF IInv, TypeInv, Request
<1>2. Balanced(q, tags, Linked, t)
  BY DEF IInv, BalanceInv
<1>3. Has(q.todo, "remove", t) /\ Net(q.todo, t) = -1
  BY <1>1, <1>2, NetOfTail DEF Balanced
<1>4. GainOf(q, Linked, t) = -1
  BY <1>2, <1>3 DEF Balanced
<1>5. q.item \in Bearing(t)
  <2>1. t \in Linked[q.item]
    BY <1>4 DEF GainOf, Gain
  <2> QED
    BY <1>1, <2>1, LinkedTags DEF Bearing, TagsOf
<1>6. IsFiniteSet(Bearing(t))
  BY TagUsageAssumption, FS_Subset DEF Bearing
<1>7. tags[t].usage # 0
  BY <1>5, <1>6, FS_EmptySet DEF IInv, CountInv
<1>8. tags[t].usage \in Nat /\ Row(q, tags, t).usage \in Nat
  BY RowTyped DEF IInv, TypeInv, TagRow
<1> QED
  BY <1>2, <1>3, <1>4, <1>7, <1>8 DEF Balanced

\* What is known of a request that is under way, apart from its balance.
LEMMA UnderWay ==
  ASSUME IInv, NEW r \in Slots, Active(requests[r])
  PROVE  /\ requests[r] \in Request
         /\ \A s \in Slots \ {r} : requests[s].held \cap requests[r].held = {}
         /\ \A s \in Slots \ {r} :
              Active(requests[s]) /\ requests[r].item = requests[s].item => "tag" \in {requests[r].kind, requests[s].kind}
         /\ requests[r].kind \in {"edit", "confirm", "discard"} => items[requests[r].item].status # "absent"
         /\ \A t \in Tags \ (requests[r].stale \cup drifted) : Balanced(requests[r], tags, Linked, t)
<1>1. /\ \A s \in Slots \ {r} : requests[s].held \cap requests[r].held = {}
      /\ \A s \in Slots \ {r} :
           Active(requests[s]) /\ requests[r].item = requests[s].item => "tag" \in {requests[r].kind, requests[s].kind}
  BY DEF IInv, LockInv
<1> QED
  BY <1>1 DEF IInv, TypeInv, ItemInv, BalanceInv

\* What is read needs no write, and is done.
LEMMA ReadDone ==
  ASSUME IInv, NEW r \in Slots, requests[r].phase = "running", requests[r].todo # <<>>, NEW usage \in Nat,
         NothingToWrite(Head(requests[r].todo).op, Row(requests[r], tags, Head(requests[r].todo).tag)),
         requests' = [requests EXCEPT ![r] = [requests[r] EXCEPT !.todo = Tail(requests[r].todo), !.first = usage]],
         UNCHANGED <<tags, items, links, drifted, faults>>
  PROVE  IInv'
<1> DEFINE old == requests[r]
<1> DEFINE q == [old EXCEPT !.todo = Tail(old.todo), !.first = usage]
<1>1. Active(old)
  BY DEF Active
<1>2. old \in Request /\ old.todo \in Seq(Op)
  BY <1>1, UnderWay DEF Request
<1>3. Head(old.todo) \in Op /\ Tail(old.todo) \in Seq(Op)
  BY <1>2, StepAtATime
<1>4. q \in Request
  BY <1>2, <1>3 DEF Request
<1>5. /\ q.kind = old.kind /\ q.item = old.item /\ q.wanted = old.wanted /\ q.phase = "running"
      /\ q.todo = Tail(old.todo) /\ q.held = old.held /\ q.rows = old.rows /\ q.stale = old.stale
  BY <1>2 DEF Request
<1> HIDE DEF q
<1>6. ASSUME NEW t \in Tags \ (q.stale \cup drifted)
      PROVE  Balanced(q, tags, Linked, t)
  <2>1. Balanced(old, tags, Linked, t)
    BY <1>1, <1>5, UnderWay
  <2>2. Weight(Head(old.todo), t) = 0
    <3>1. CASE Head(old.todo).op = "remove" /\ Head(old.todo).tag = t
      BY <1>1, <1>5, <3>1, RemovalCounted DEF NothingToWrite
    <3>2. CASE ~(Head(old.todo).op = "remove" /\ Head(old.todo).tag = t)
      BY <3>2 DEF NothingToWrite, Weight
    <3> QED
      BY <3>1, <3>2
  <2>3. /\ Once(Tail(old.todo), t) /\ (Has(Tail(old.todo), "remove", t) => Has(old.todo, "remove", t))
        /\ Net(old.todo, t) = Net(Tail(old.todo), t)
    BY <1>2, <2>1, <2>2, NetOfTail DEF Balanced
  <2> QED
    BY <1>5, <2>1, <2>3 DEF Balanced, Row, GainOf
<1>7. faults' \in 0..MaxFaults
  BY DEF IInv, TypeInv
<1>8. requests' = [requests EXCEPT ![r] = q]
  BY DEF q
<1>9. /\ \A s \in Slots \ {r} : requests[s].held \cap q.held = {}
      /\ \A s \in Slots \ {r} :
           Active(q) /\ Active(requests[s]) /\ q.item = requests[s].item => "tag" \in {q.kind, requests[s].kind}
      /\ Active(q) /\ q.kind \in {"edit", "confirm", "discard"} => items[q.item].status # "absent"
  BY <1>1, <1>5, UnderWay
<1>10. Active(q) /\ q.phase # "writing"
  BY <1>5 DEF Active
<1> QED
  BY <1>4, <1>6, <1>7, <1>8, <1>9, <1>10, OneRequest

\* What is read is to be written.
LEMMA ReadToWrite ==
  ASSUME IInv, NEW r \in Slots, requests[r].phase = "running", requests[r].todo # <<>>, NEW row \in TagRow,
         ~NothingToWrite(Head(requests[r].todo).op, row),
         requests' = [requests EXCEPT ![r] = [requests[r] EXCEPT !.phase = "writing", !.seen = row]],
         UNCHANGED <<tags, items, links, drifted, faults>>
  PROVE  IInv'
<1> DEFINE old == requests[r]
<1> DEFINE q == [old EXCEPT !.phase = "writing", !.seen = row]
<1>1. Active(old)
  BY DEF Active
<1>2. old \in Request
  BY <1>1, UnderWay
<1>3. q \in Request
  BY <1>2 DEF Request
<1>4. /\ q.kind = old.kind /\ q.item = old.item /\ q.wanted = old.wanted /\ q.phase = "writing" /\ q.seen = row
      /\ q.todo = old.todo /\ q.held = old.held /\ q.rows = old.rows /\ q.stale = old.stale
  BY <1>2 DEF Request
<1> HIDE DEF q
<1>5. ASSUME NEW t \in Tags \ (q.stale \cup drifted)
      PROVE  Balanced(q, tags, Linked, t)
  BY <1>1, <1>4, UnderWay DEF Balanced, Row, GainOf
<1>6. faults' \in 0..MaxFaults
  BY DEF IInv, TypeInv
<1>7. requests' = [requests EXCEPT ![r] = q]
  BY DEF q
<1>8. /\ \A s \in Slots \ {r} : requests[s].held \cap q.held = {}
      /\ \A s \in Slots \ {r} :
           Active(q) /\ Active(requests[s]) /\ q.item = requests[s].item => "tag" \in {q.kind, requests[s].kind}
      /\ Active(q) /\ q.kind \in {"edit", "confirm", "discard"} => items[q.item].status # "absent"
  BY <1>1, <1>4, UnderWay
<1>9. Active(q) /\ q.todo # <<>> /\ ~NothingToWrite(Head(q.todo).op, q.seen)
  BY <1>4 DEF Active
<1> QED
  BY <1>3, <1>5, <1>6, <1>7, <1>8, <1>9, OneRequest

LEMMA ReadStep ==
  ASSUME IInv, NEW r \in Slots, Read(r)
  PROVE  IInv'
<1> DEFINE old == requests[r]
<1> DEFINE row == Seen(r, Current(r).tag)
<1>1. old \in Request /\ old.todo \in Seq(Op) /\ old.todo # <<>> /\ old.phase = "running" /\ TypeInv
      /\ requests \in [Slots -> Request]
  BY DEF Read, IInv, TypeInv, Request
<1>2. Current(r) = Head(old.todo) /\ Current(r).tag \in Tags
  BY <1>1, StepAtATime DEF Current, Op
<1>3. row \in TagRow /\ row = Row(old, tags, Head(old.todo).tag)
  BY <1>1, <1>2, RowTyped
<1>4. UNCHANGED <<tags, items, links, drifted, faults>>
  BY DEF Read
<1>5. old.first \in Nat /\ row.usage \in Nat
  BY <1>1, <1>3 DEF Request, TagRow
<1>6. CASE NothingToWrite(Current(r).op, row)
  <2> DEFINE usage == IF Current(r).op = "copy" THEN row.usage ELSE old.first
  <2>1. usage \in Nat
    BY <1>5
  <2>2. requests' = [requests EXCEPT ![r] = [old EXCEPT !.todo = Tail(old.todo), !.first = usage]]
    <3>1. CASE Current(r).op = "copy"
      BY <1>1, <1>6, <3>1 DEF Read
    <3>2. CASE Current(r).op # "copy"
      BY <1>1, <1>6, <3>2 DEF Read
    <3> QED
      BY <3>1, <3>2
  <2> HIDE DEF usage, row
  <2> QED
    BY <1>1, <1>2, <1>3, <1>4, <1>6, <2>1, <2>2, ReadDone
<1>7. CASE ~NothingToWrite(Current(r).op, row)
  <2>1. requests' = [requests EXCEPT ![r] = [old EXCEPT !.phase = "writing", !.seen = row]]
    BY <1>1, <1>7 DEF Read
  <2> HIDE DEF row
  <2> QED
    BY <1>1, <1>2, <1>3, <1>4, <1>7, <2>1, ReadToWrite
<1> QED
  BY <1>6, <1>7

\* What is written is the row read, with one count changed.
LEMMA WriteStep ==
  ASSUME IInv, NEW r \in Slots, Write(r)
  PROVE  IInv'
<1> DEFINE old == requests[r]
<1> DEFINE step == Head(old.todo)
<1> DEFINE row == Row(old, tags, step.tag)
<1> DEFINE count == Count(r, row.usage)
<1> DEFINE new == [state |-> State(r, row.state), usage |-> count]
<1> DEFINE stale == IF count = RightCount(r, row.usage) THEN old.stale ELSE old.stale \cup {step.tag}
<1> DEFINE q == [old EXCEPT !.phase = "running", !.todo = Tail(old.todo), !.seen = NoRow,
                            !.held = old.held \cup {step.tag}, !.rows = [old.rows EXCEPT ![step.tag] = new],
                            !.stale = stale]
<1>1. Active(old) /\ old.phase = "writing"
  BY DEF Write, Active
<1>2. old \in Request /\ old.todo \in Seq(Op) /\ old.todo # <<>> /\ ~NothingToWrite(step.op, old.seen)
  BY <1>1 DEF IInv, TypeInv, Request
<1>3. step \in Op /\ step.tag \in Tags /\ Tail(old.todo) \in Seq(Op) /\ Current(r) = step
  BY <1>2, StepAtATime DEF Op, Current
<1>4. row \in TagRow /\ Seen(r, step.tag) = row
  BY <1>3, RowTyped DEF IInv
<1>5. /\ requests' = [requests EXCEPT ![r] = q] /\ UNCHANGED <<tags, items, links, drifted, faults>>
      /\ ~Locked(r, step.tag)
  BY <1>3, <1>4 DEF Write
<1>6. count \in Nat
  <2>1. old.seen.usage \in Nat /\ old.first \in Nat /\ row.usage \in Nat
    BY <1>2, <1>4 DEF Request, TagRow
  <2>2. step.op = "remove" => old.seen.usage # 0
    BY <1>2 DEF NothingToWrite
  <2> QED
    BY <1>3, <2>1, <2>2 DEF Count
<1>7. new \in TagRow
  BY <1>3, <1>4, <1>6 DEF State, TagRow
<1>8. RightCount(r, row.usage) = row.usage + Weight(step, step.tag)
  BY <1>3, <1>4 DEF RightCount, Weight, TagRow
<1> HIDE DEF count
<1>9. stale \in SUBSET Tags
  BY <1>2, <1>3 DEF Request
<1> HIDE DEF new, stale
<1>10. q \in Request
  BY <1>2, <1>3, <1>7, <1>9, UnusedRow DEF Request
<1>11. /\ q.kind = old.kind /\ q.item = old.item /\ q.wanted = old.wanted /\ q.phase = "running"
       /\ q.todo = Tail(old.todo) /\ q.held = old.held \cup {step.tag} /\ q.stale = stale
       /\ q.rows = [old.rows EXCEPT ![step.tag] = new]
  BY <1>2 DEF Request
<1>12. old.rows \in [Tags -> TagRow] /\ new.usage = count
  BY <1>2 DEF Request, new
<1> HIDE DEF q, row, step
<1>13. ASSUME NEW t \in Tags \ (q.stale \cup drifted)
       PROVE  Balanced(q, tags, Linked, t)
  <2>1. Balanced(old, tags, Linked, t) /\ Once(old.todo, t)
    BY <1>1, <1>11, UnderWay DEF stale, Balanced
  <2>2. /\ Once(Tail(old.todo), t) /\ (Has(Tail(old.todo), "remove", t) => Has(old.todo, "remove", t))
        /\ Net(old.todo, t) = Weight(step, t) + Net(Tail(old.todo), t) /\ Net(Tail(old.todo), t) \in Int
    BY <1>2, <2>1, NetOfTail DEF step
  <2>3. Row(q, tags, t).usage = Row(old, tags, t).usage + Weight(step, t)
    <3>1. CASE t = step.tag
      <4>1. count = row.usage + Weight(step, t)
        BY <1>8, <1>11, <3>1 DEF stale
      <4>2. Row(q, tags, t) = new
        BY <1>11, <1>12, <3>1 DEF Row
      <4> QED
        BY <1>12, <3>1, <4>1, <4>2 DEF row
    <3>2. CASE t # step.tag
      <4>1. Row(q, tags, t) = Row(old, tags, t) /\ Weight(step, t) = 0
        BY <1>11, <1>12, <3>2 DEF Row, Weight
      <4>2. Row(old, tags, t).usage \in Nat
        BY RowTyped DEF IInv, TagRow
      <4> QED
        BY <4>1, <4>2
    <3> QED
      BY <3>1, <3>2
  <2>4. Row(old, tags, t).usage \in Nat /\ Weight(step, t) \in Int
    BY RowTyped DEF IInv, TagRow, Weight
  <2>5. Row(q, tags, t).usage + Net(q.todo, t) = Row(old, tags, t).usage + Net(old.todo, t)
    BY <1>11, <2>2, <2>3, <2>4
  <2> QED
    BY <1>11, <2>1, <2>2, <2>5 DEF Balanced, GainOf
<1>14. faults' \in 0..MaxFaults
  BY <1>5 DEF IInv, TypeInv
<1>15. /\ \A s \in Slots \ {r} : requests[s].held \cap q.held = {}
       /\ \A s \in Slots \ {r} :
            Active(q) /\ Active(requests[s]) /\ q.item = requests[s].item => "tag" \in {q.kind, requests[s].kind}
       /\ Active(q) /\ q.kind \in {"edit", "confirm", "discard"} => items[q.item].status # "absent"
  BY <1>1, <1>5, <1>11, UnderWay DEF Locked
<1>16. Active(q) /\ q.phase # "writing"
  BY <1>11 DEF Active
<1> QED
  BY <1>5, <1>10, <1>13, <1>14, <1>15, <1>16, OneRequest

\* A request that is given up leaves nothing.
LEMMA RollbackStep ==
  ASSUME IInv, NEW r \in Slots, Rollback(r), UNCHANGED <<tags, items, links, drifted>>, faults' \in 0..MaxFaults
  PROVE  IInv'
<1>1. requests' = [requests EXCEPT ![r] = Ended] /\ Ended \in Request /\ ~Active(Ended)
      /\ Ended.held = {} /\ Ended.phase # "writing"
  BY UnusedRow DEF Rollback
<1> QED
  BY <1>1, OneRequest

-----------------------------------------------------------------------------
(* A commit                                                                *)

\* What a commit makes of the item.
LEMMA ItemCommitted ==
  ASSUME NEW old \in Item, NEW kind \in Kinds, NEW wanted \in Seq(Tags), NEW linked \in SUBSET Tags,
         old.tags \subseteq linked, NEW item \in ItemsAfter(old, kind, wanted)
  PROVE  /\ item \in Item /\ item.tags \subseteq After(linked, kind, wanted)
         /\ item.status = "absent" => old.status = "absent" /\ kind \in {"edit", "tag", "none"}
<1>1. ToSet(wanted) \subseteq Tags
  BY SeqFacts
<1>2. CASE kind = "save"
  BY <1>1, <1>2 DEF ItemsAfter, After, Item
<1>3. CASE kind = "edit"
  BY <1>1, <1>3 DEF ItemsAfter, After, Item
<1>4. CASE kind = "confirm"
  <2>1. item.status = "archived" /\ item.tags \in {ToSet(wanted), old.tags}
        /\ item = [status |-> "archived", tags |-> item.tags]
    BY <1>4 DEF ItemsAfter
  <2>2. item.tags \subseteq After(linked, kind, wanted) /\ item.tags \subseteq Tags
    BY <1>1, <1>4, <2>1 DEF After, Item
  <2> QED
    BY <2>1, <2>2 DEF Item
<1>5. CASE kind = "discard"
  BY <1>5 DEF ItemsAfter, After, Item
<1>6. CASE kind \in {"tag", "none"}
  BY <1>6 DEF ItemsAfter, After, Item
<1> QED
  BY <1>2, <1>3, <1>4, <1>5, <1>6 DEF Kinds

\* The links of the other items stay.
LEMMA LinksCommitted ==
  ASSUME TypeInv, NEW r \in Slots, Commit(r)
  PROVE  /\ requests[r].item \in Items /\ requests[r].kind \in Kinds /\ requests[r].wanted \in Seq(Tags)
         /\ links' \subseteq Items \X Tags
         /\ \A j \in Items : Linked'[j] =
              IF j = requests[r].item THEN After(Linked[j], requests[r].kind, requests[r].wanted) ELSE Linked[j]
         /\ \A t \in Tags : Bearing(t)' =
              IF t \in After(Linked[requests[r].item], requests[r].kind, requests[r].wanted)
              THEN Bearing(t) \cup {requests[r].item} ELSE Bearing(t) \ {requests[r].item}
<1> DEFINE q == requests[r]
<1> DEFINE i == q.item
<1> DEFINE new == After(Linked[i], q.kind, q.wanted)
<1>1. i \in Items /\ q.kind \in Kinds /\ q.wanted \in Seq(Tags)
  BY DEF TypeInv, Request
<1>2. LinksOf(i, q.kind, q.wanted) = new
  BY <1>1, LinkedTags DEF LinksOf, After
<1>3. new \subseteq Tags
  BY <1>1, LinkedTags, SeqFacts DEF After
<1>4. links' = {l \in links : l[1] # i} \cup ({i} \X new)
  BY <1>2 DEF Commit
<1> HIDE DEF new, i
<1>5. links \subseteq Items \X Tags
  BY DEF TypeInv
<1>6. links' \subseteq Items \X Tags
  BY <1>1, <1>3, <1>4, <1>5 DEF i
<1>7. ASSUME NEW j \in Items, NEW t \in Tags
      PROVE  <<j, t>> \in links' <=> IF j = i THEN t \in new ELSE <<j, t>> \in links
  BY <1>4, <1>5
<1>8. ASSUME NEW j \in Items
      PROVE  Linked'[j] = IF j = i THEN new ELSE Linked[j]
  <2>1. Linked'[j] = {t \in Tags : <<j, t>> \in links'} /\ Linked[j] = {t \in Tags : <<j, t>> \in links}
    BY DEF Linked, TagsOf
  <2> QED
    BY <1>3, <1>7, <2>1
<1>9. ASSUME NEW t \in Tags
      PROVE  Bearing(t)' = IF t \in new THEN Bearing(t) \cup {i} ELSE Bearing(t) \ {i}
  <2>1. Bearing(t)' = {j \in Items : <<j, t>> \in links'} /\ Bearing(t) = {j \in Items : <<j, t>> \in links}
    BY DEF Bearing
  <2>2. i \in Items
    BY <1>1 DEF i
  <2> QED
    BY <1>7, <2>1, <2>2
<1> QED
  BY <1>1, <1>6, <1>8, <1>9 DEF i, new

LEMMA CommitStep ==
  ASSUME IInv, NEW r \in Slots, Commit(r)
  PROVE  IInv'
<1> DEFINE q == requests[r]
<1> DEFINE new == After(Linked[q.item], q.kind, q.wanted)
<1>1. Active(q) /\ q \in Request /\ q.todo = <<>> /\ q.kind \in Kinds /\ q.item \in Items /\ q.wanted \in Seq(Tags)
      /\ q.stale \subseteq Tags
  BY DEF Commit, Active, IInv, TypeInv, Request
<1>2. /\ requests \in [Slots -> Request] /\ requests' \in [Slots -> Request]
      /\ requests'[r] = Ended /\ \A s \in Slots \ {r} : requests'[s] = requests[s]
  BY UnusedRow DEF Commit, IInv, TypeInv
<1>3. /\ tags' = [t \in Tags |-> Row(q, tags, t)] /\ tags' \in [Tags -> TagRow]
      /\ drifted' = drifted \cup q.stale /\ faults' = faults
  <2>1. \A t \in Tags : Seen(r, t) = Row(q, tags, t) /\ Row(q, tags, t) \in TagRow
    BY RowTyped DEF IInv
  <2>2. tags' = [t \in Tags |-> Seen(r, t)] /\ drifted' = drifted \cup q.stale /\ faults' = faults
    BY DEF Commit
  <2>3. tags' = [t \in Tags |-> Row(q, tags, t)]
    BY <2>1, <2>2
  <2> QED
    BY <2>1, <2>2, <2>3
<1>4. PICK item \in ItemsAfter(items[q.item], q.kind, q.wanted) : items' = [items EXCEPT ![q.item] = item]
  BY DEF Commit
<1>5. /\ items \in [Items -> Item] /\ items[q.item] \in Item
      /\ items[q.item].tags \subseteq Linked[q.item] /\ Linked[q.item] \subseteq Tags
  BY <1>1, LinkedTags DEF IInv, TypeInv, ItemInv
<1>6. /\ item \in Item /\ item.tags \subseteq new
      /\ item.status = "absent" => items[q.item].status = "absent" /\ q.kind \in {"edit", "tag", "none"}
  BY <1>1, <1>5, ItemCommitted
<1>7. items' \in [Items -> Item] /\ items'[q.item] = item /\ \A j \in Items : j # q.item => items'[j] = items[j]
  BY <1>1, <1>4, <1>5, <1>6
<1>8. /\ links' \subseteq Items \X Tags
      /\ \A j \in Items : Linked'[j] = IF j = q.item THEN new ELSE Linked[j]
      /\ \A t \in Tags : Bearing(t)' = IF t \in new THEN Bearing(t) \cup {q.item} ELSE Bearing(t) \ {q.item}
  BY LinksCommitted DEF IInv
<1>9. \A t \in Tags \ (q.stale \cup drifted) : Balanced(q, tags, Linked, t)
  BY <1>1, UnderWay
<1> HIDE DEF new, q
<1>10. TypeInv'
  <2>1. ASSUME NEW s \in Slots, requests'[s].phase = "writing"
        PROVE  requests'[s].todo # <<>> /\ ~NothingToWrite(Head(requests'[s].todo).op, requests'[s].seen)
    BY <1>2, <2>1, UnusedRow DEF IInv, TypeInv
  <2> QED
    BY <1>1, <1>2, <1>3, <1>7, <1>8, <2>1 DEF IInv, TypeInv
<1>11. LockInv'
  <2>1. ~Active(Ended) /\ Ended.held = {}
    BY UnusedRow
  <2>2. \A s \in Slots : ~Active(requests'[s]) => requests'[s].held = {}
    BY <1>2, <2>1 DEF IInv, LockInv
  <2>3. \A s, u \in Slots : s # u => requests'[s].held \cap requests'[u].held = {}
    BY <1>2, <2>1 DEF IInv, LockInv
  <2>4. ASSUME NEW s \in Slots, NEW u \in Slots, Active(requests'[s]), Active(requests'[u]),
               requests'[s].item = requests'[u].item
        PROVE  s = u \/ requests'[s].kind = "tag" \/ requests'[u].kind = "tag"
    BY <1>2, <2>1, <2>4 DEF IInv, LockInv
  <2> QED
    BY <2>2, <2>3, <2>4 DEF LockInv
<1>12. ItemInv'
  <2>1. item.status = "absent" => new = {}
    <3>1. q.kind = "edit" => items[q.item].status # "absent"
      BY <1>1 DEF IInv, ItemInv, q
    <3>2. q.kind \in {"tag", "none"} => new = Linked[q.item]
      BY DEF new, After
    <3> QED
      BY <1>1, <1>6, <3>1, <3>2 DEF IInv, ItemInv
  <2>2. ASSUME NEW j \in Items
        PROVE  items'[j].tags \subseteq Linked'[j] /\ (items'[j].status = "absent" => Linked'[j] = {})
    BY <1>6, <1>7, <1>8, <2>1 DEF IInv, ItemInv
  <2>3. ASSUME NEW s \in Slots, Active(requests'[s]), requests'[s].kind \in {"edit", "confirm", "discard"}
        PROVE  items'[requests'[s].item].status # "absent"
    <3>1. s # r
      BY <1>2, <2>3, UnusedRow
    <3>2. requests'[s] = requests[s] /\ items[requests[s].item].status # "absent" /\ requests[s].item \in Items
      BY <1>2, <2>3, <3>1 DEF IInv, ItemInv, Request
    <3> QED
      BY <1>6, <1>7, <3>2
  <2> QED
    BY <2>2, <2>3 DEF ItemInv
<1>13. CountInv'
  <2> SUFFICES ASSUME NEW t \in Tags \ drifted'
               PROVE  tags'[t].usage = Cardinality(Bearing(t)')
    BY DEF CountInv
  <2>1. Balanced(q, tags, Linked, t) /\ tags[t].usage = Cardinality(Bearing(t))
    BY <1>3, <1>9 DEF IInv, CountInv
  <2>2. Net(q.todo, t) = 0
    <3>1. ASSUME NEW todo \in Seq(Op), todo = <<>>
          PROVE  Net(todo, t) = 0
      <4>1. DOMAIN todo = 1..Len(todo) /\ Len(todo) = 0
        BY <3>1
      <4>2. \A k \in DOMAIN todo : FALSE
        BY <4>1
      <4> QED
        BY <4>2 DEF Net, Has
    <3> QED
      BY <1>1, <3>1 DEF Request
  <2>3. tags'[t] = Row(q, tags, t) /\ Row(q, tags, t).usage \in Nat /\ tags[t].usage \in Nat
    BY <1>3 DEF IInv, TypeInv, TagRow
  <2>4. tags'[t].usage = Cardinality(Bearing(t)) + Gain(Linked[q.item], new, t)
    BY <2>1, <2>2, <2>3 DEF Balanced, GainOf, Gain, new
  <2>5. IsFiniteSet(Bearing(t)) /\ Cardinality(Bearing(t)) \in Nat
    BY TagUsageAssumption, FS_Subset, FS_CardinalityType DEF Bearing
  <2>6. q.item \in Bearing(t) <=> t \in Linked[q.item]
    BY <1>1 DEF Bearing, Linked, TagsOf
  <2>7. CASE t \in new
    <3>1. Bearing(t)' = Bearing(t) \cup {q.item}
      BY <1>8, <2>7
    <3>2. Cardinality(Bearing(t) \cup {q.item}) = IF t \in Linked[q.item] THEN Cardinality(Bearing(t)) ELSE Cardinality(Bearing(t)) + 1
      BY <2>5, <2>6, FS_AddElement
    <3> QED
      BY <2>4, <2>5, <2>7, <3>1, <3>2 DEF Gain
  <2>8. CASE t \notin new
    <3>1. Bearing(t)' = Bearing(t) \ {q.item}
      BY <1>8, <2>8
    <3>2. Cardinality(Bearing(t) \ {q.item}) = IF t \in Linked[q.item] THEN Cardinality(Bearing(t)) - 1 ELSE Cardinality(Bearing(t))
      BY <2>5, <2>6, FS_RemoveElement
    <3> QED
      BY <2>4, <2>5, <2>8, <3>1, <3>2 DEF Gain
  <2> QED
    BY <2>7, <2>8
<1>14. BalanceInv'
  <2> SUFFICES ASSUME NEW s \in Slots, Active(requests'[s]), NEW t \in Tags \ (requests'[s].stale \cup drifted')
               PROVE  Balanced(requests'[s], tags', Linked', t)
    BY DEF BalanceInv
  <2> DEFINE p == requests[s]
  <2>1. s # r /\ requests'[s] = p /\ Active(p) /\ p \in Request
    BY <1>2, UnusedRow
  <2>2. Balanced(p, tags, Linked, t) /\ (p.item = q.item => "tag" \in {p.kind, q.kind}) /\ p.held \cap q.held = {}
    BY <1>1, <1>3, <2>1, UnderWay DEF q
  <2>3. p.item \in Items
    BY <2>1 DEF Request
  <2> HIDE DEF p
  <2>4. GainOf(p, Linked', t) = GainOf(p, Linked, t)
    <3>1. CASE p.item # q.item
      BY <1>8, <2>3, <3>1 DEF GainOf
    <3>2. CASE p.kind = "tag"
      BY <3>2 DEF GainOf, Gain, After
    <3>3. CASE p.item = q.item /\ q.kind = "tag"
      BY <1>8, <2>3, <3>3 DEF GainOf, After, new
    <3> QED
      BY <2>2, <3>1, <3>2, <3>3
  <2>5. Row(p, tags', t).usage + Net(p.todo, t) = tags'[t].usage + GainOf(p, Linked, t)
    <3>1. CASE t \in p.held
      <4>1. tags'[t] = tags[t] /\ Row(p, tags', t) = Row(p, tags, t)
        BY <1>3, <2>2, <3>1 DEF Row
      <4> QED
        BY <2>2, <4>1 DEF Balanced
    <3>2. CASE t \notin p.held
      <4>1. Row(p, tags', t) = tags'[t] /\ Row(p, tags, t) = tags[t]
        BY <3>2 DEF Row
      <4>2. tags[t].usage \in Nat /\ tags'[t].usage \in Nat /\ Net(p.todo, t) \in Int /\ GainOf(p, Linked, t) \in Int
        BY <1>3 DEF IInv, TypeInv, TagRow, Net, GainOf, Gain
      <4>3. Net(p.todo, t) = GainOf(p, Linked, t)
        BY <2>2, <4>1, <4>2 DEF Balanced
      <4> QED
        BY <4>1, <4>3
    <3> QED
      BY <3>1, <3>2
  <2> QED
    BY <2>1, <2>2, <2>4, <2>5 DEF Balanced
<1> QED
  BY <1>10, <1>11, <1>12, <1>13, <1>14 DEF IInv

-----------------------------------------------------------------------------
LEMMA InitInv == Init => IInv
<1> SUFFICES ASSUME Init PROVE IInv
  OBVIOUS
<1>1. items \in [Items -> Item] /\ \A i \in Items : items[i].status = "absent" => items[i].tags = {}
  <2>1. items \in [Items -> [status : {"absent", "waiting", "archived"}, tags : SUBSET Tags]]
        /\ \A i \in Items : (items[i].status = "archived" <=> i \in Archived) /\ (i \notin Archived => items[i].tags = {})
    BY DEF Init
  <2>2. \A i \in Items : items[i] \in Item
    BY <2>1 DEF Item
  <2> QED
    BY <2>1, <2>2
<1>2. /\ links \subseteq Items \X Tags
      /\ \A i \in Items, t \in Tags : <<i, t>> \in links <=> t \in items[i].tags
  BY DEF Init
<1>3. \A i \in Items : Linked[i] = items[i].tags
  <2> SUFFICES ASSUME NEW i \in Items PROVE TagsOf(i) = items[i].tags
    BY DEF Linked
  <2>1. items[i].tags \subseteq Tags
    BY <1>1 DEF Item
  <2> QED
    BY <1>2, <2>1 DEF TagsOf
<1>4. PICK state \in [Tags -> {"absent", "live", "deleted"}] :
        /\ drifted \in SUBSET {t \in Tags : Bearing(t) # {}}
        /\ tags = [t \in Tags |-> [state |-> state[t],
                                  usage |-> IF t \in drifted THEN 0 ELSE Cardinality(Bearing(t))]]
  BY DEF Init
<1>5. \A t \in Tags : Cardinality(Bearing(t)) \in Nat
  <2> SUFFICES ASSUME NEW t \in Tags PROVE IsFiniteSet(Bearing(t))
    BY FS_CardinalityType
  <2> QED
    BY TagUsageAssumption, FS_Subset DEF Bearing
<1>6. tags \in [Tags -> TagRow] /\ \A t \in Tags \ drifted : tags[t].usage = Cardinality(Bearing(t))
  <2>1. \A t \in Tags : tags[t] \in TagRow
    BY <1>4, <1>5 DEF TagRow
  <2> QED
    BY <1>4, <2>1
<1>7. requests = [r \in Slots |-> Unused] /\ faults = 0
  BY DEF Init
<1>8. TypeInv
  <2>1. requests \in [Slots -> Request] /\ \A r \in Slots : requests[r].phase # "writing"
    BY <1>7, UnusedRow DEF Active
  <2>2. faults \in 0..MaxFaults
    BY <1>7, TagUsageAssumption
  <2> QED
    BY <1>1, <1>2, <1>4, <1>6, <2>1, <2>2 DEF TypeInv
<1>9. BalanceInv /\ LockInv
  BY <1>7, UnusedRow DEF BalanceInv, LockInv
<1>10. ItemInv
  BY <1>1, <1>3, <1>7, UnusedRow DEF ItemInv
<1>11. CountInv
  BY <1>6 DEF CountInv
<1> QED
  BY <1>8, <1>9, <1>10, <1>11 DEF IInv

LEMMA StepInv == IInv /\ [Next]_vars => IInv'
<1> SUFFICES ASSUME IInv, [Next]_vars PROVE IInv'
  OBVIOUS
<1>1. \A wanted \in Wanted : wanted \in Seq(Tags)
  BY TagUsageAssumption
<1>2. ASSUME NEW r \in Slots, User(r)
      PROVE  IInv'
  BY <1>1, <1>2, SaveStep, ConfirmStep, EditStep, DiscardStep, OnTagStep DEF User
<1>3. ASSUME NEW r \in Slots, Refuse(r)
      PROVE  IInv'
  <2>1. Rollback(r) /\ UNCHANGED <<tags, items, links, drifted>> /\ faults' \in 0..MaxFaults
    BY <1>3 DEF Refuse, IInv, TypeInv
  <2> QED
    BY <2>1, RollbackStep
<1>4. ASSUME NEW r \in Slots, Fail(r)
      PROVE  IInv'
  <2>1. Rollback(r) /\ UNCHANGED <<tags, items, links, drifted>> /\ faults' \in 0..MaxFaults
    BY <1>4, TagUsageAssumption DEF Fail, IInv, TypeInv
  <2> QED
    BY <2>1, RollbackStep
<1>5. CASE Next
  BY <1>2, <1>3, <1>4, <1>5, ReadStep, WriteStep, CommitStep DEF Next, Progress
<1>6. CASE UNCHANGED vars
  <2>1. UNCHANGED <<tags, items, links, requests, drifted, faults>>
    BY <1>6 DEF vars
  <2>2. Linked' = Linked /\ \A t \in Tags : Bearing(t)' = Bearing(t)
    BY <2>1 DEF Linked, TagsOf, Bearing
  <2>3. TypeInv'
    BY <2>1 DEF IInv, TypeInv
  <2>4. BalanceInv' /\ LockInv'
    BY <2>1, <2>2 DEF IInv, BalanceInv, LockInv
  <2>5. ItemInv' /\ CountInv'
    BY <2>1, <2>2 DEF IInv, ItemInv, CountInv
  <2> QED
    BY <2>3, <2>4, <2>5 DEF IInv
<1> QED
  BY <1>5, <1>6

\* No count falls below 0, however the operations of the requests interleave:
\* a count is lowered only after it was read to be above 0 (increment_usage,
\* decrement_usage and update of the tag repository).
THEOREM TagTypes == Spec => []TypeOK
<1>1. IInv => TypeOK
  BY DEF IInv, TypeInv, Request, TypeOK
<1> QED
  BY <1>1, InitInv, StepInv, PTL DEF Spec

\* An item is linked to every tag it shows, and the count of a tag is the
\* number of items linked to it, unless a count was written from a stale one
\* or a request counted a tag twice (create_item.py, update_item.py and the
\* tag repository).
THEOREM CountsFollowLinks == Spec => []CountsDriftOnlyByRaces
<1>1. IInv => CountsDriftOnlyByRaces
  <2> SUFFICES ASSUME IInv PROVE CountsDriftOnlyByRaces
    OBVIOUS
  <2>1. \A t \in Tags \ drifted : tags[t].usage = Cardinality(Bearing(t))
    BY DEF IInv, CountInv
  <2>2. ASSUME NEW i \in Items, NEW t \in Tags, t \in items[i].tags
        PROVE  i \in Bearing(t)
    BY <2>2 DEF IInv, ItemInv, Linked, TagsOf, Bearing
  <2> QED
    BY <2>1, <2>2 DEF CountsDriftOnlyByRaces
<1> QED
  BY <1>1, InitInv, StepInv, PTL DEF Spec
=============================================================================
