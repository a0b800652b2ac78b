------------------------ MODULE ItemAdmissionProofs -------------------------
(***************************************************************************)
(* Machine-checked proofs about ItemAdmission, for any items, keys,        *)
(* requests, days and limits.                                              *)
(*                                                                         *)
(* IInv adds to the properties what the requests in progress know: the item*)
(* they insert is fresh, the count they will commit is one more than the   *)
(* committed one, the key they hold is free, and none of these is shared.  *)
(***************************************************************************)
EXTENDS ItemAdmission, FiniteSetTheorems, TLAPS

Holding(r) == req[r].pc \in {"inserted", "keyed"}

HoldInv ==
  \A r \in Requests :
    /\ req[r].pc # "idle" => req[r].day \in Days
    /\ req[r].pc = "admitted" => req[r].enrich
    /\ Holding(r) => req[r].item \in Items /\ status[req[r].item] = "ABSENT"
    /\ Holding(r) /\ req[r].enrich => req[r].used = usage[req[r].day] + 1
    /\ req[r].pc = "keyed" => req[r].key \in Keys /\ keys[req[r].key].item = NoItem

\* Locks and fresh ids belong to one request each.
Exclusive ==
  \A q, r \in Requests : q # r =>
    /\ Holding(q) /\ Holding(r) => req[q].item # req[r].item
    /\ Holding(q) /\ Holding(r) /\ req[q].enrich /\ req[r].enrich
         => req[q].day # req[r].day
    /\ req[q].pc = "keyed" /\ req[r].pc = "keyed" => req[q].key # req[r].key

\* An item's history begins with its commit, and a key's row names its item.
RowInv ==
  \A i \in Items :
    /\ status[i] = "ABSENT" => charged[i] = 0 /\ keyOf[i] = NoKey
    /\ keyOf[i] # NoKey => keys[keyOf[i]].item = i

\* Requests that have passed the concurrency check and are not committed yet.
Counted ==
  {r \in Requests : req[r].pc = "admitted" \/ (Holding(r) /\ req[r].enrich)}

Active == Enriching \ retried

Overshoot ==
  Cardinality(Active) + Cardinality(Counted)
    < ConcurrencyLimit + Cardinality(Requests)

IInv ==
  TypeOK /\ HoldInv /\ Exclusive /\ RowInv /\ ChargesMatchItems /\ Overshoot

-----------------------------------------------------------------------------
(* Finite sets.                                                            *)

LEMMA OneMore ==
  ASSUME NEW S, IsFiniteSet(S), NEW x
  PROVE  /\ IsFiniteSet(S \cup {x}) /\ Cardinality(S \cup {x}) \in Nat
         /\ Cardinality(S \cup {x}) <= Cardinality(S) + 1
<1>1. Cardinality(S) \in Nat
  BY FS_CardinalityType
<1>2. CASE x \in S
  <2>1. S \cup {x} = S
    BY <1>2
  <2>2. Cardinality(S) <= Cardinality(S) + 1
    BY <1>1
  <2>. QED
    BY <1>1, <2>1, <2>2
<1>3. CASE x \notin S
  <2>1. IsFiniteSet(S \cup {x}) /\ Cardinality(S \cup {x}) = Cardinality(S) + 1
    BY <1>3, FS_AddElement
  <2>. QED
    BY <1>1, <2>1
<1>. QED
  BY <1>2, <1>3

LEMMA Finite ==
  /\ IsFiniteSet(Active) /\ Cardinality(Active) \in Nat
  /\ IsFiniteSet(Enriching) /\ Cardinality(Enriching) \in Nat
  /\ Cardinality(Active) <= Cardinality(Enriching)
  /\ IsFiniteSet(Counted) /\ Cardinality(Counted) \in Nat
  /\ Cardinality(Counted) <= Cardinality(Requests)
  /\ Cardinality(Requests) \in Nat
  /\ \A d \in Days : IsFiniteSet(ChargedOn(d)) /\ Cardinality(ChargedOn(d)) \in Nat
<1>1. /\ IsFiniteSet(Enriching) /\ IsFiniteSet(Counted)
      /\ \A d \in Days : IsFiniteSet(ChargedOn(d))
  BY AdmissionAssumption, FS_Subset DEF Enriching, Counted, ChargedOn
<1>2. IsFiniteSet(Active) /\ Cardinality(Active) <= Cardinality(Enriching)
  BY <1>1, FS_Subset DEF Active
<1>3. Cardinality(Counted) <= Cardinality(Requests)
  BY AdmissionAssumption, FS_Subset DEF Counted
<1>. QED
  BY <1>1, <1>2, <1>3, AdmissionAssumption, FS_CardinalityType

LEMMA FiniteNext ==
  /\ IsFiniteSet(Active') /\ Cardinality(Active') \in Nat
  /\ IsFiniteSet(Counted') /\ Cardinality(Counted') \in Nat
  /\ Cardinality(Counted') <= Cardinality(Requests)
<1>1. IsFiniteSet(Active')
  BY AdmissionAssumption, FS_Subset DEF Active, Enriching
<1>2. IsFiniteSet(Counted') /\ Cardinality(Counted') <= Cardinality(Requests)
  BY AdmissionAssumption, FS_Subset DEF Counted
<1>. QED
  BY <1>1, <1>2, FS_CardinalityType

\* Fewer enriching items and fewer requests on their way are no danger.
LEMMA OvershootShrinks ==
  ASSUME Overshoot, Active' \subseteq Active, Counted' \subseteq Counted
  PROVE  Overshoot'
<1>1. Cardinality(Active') <= Cardinality(Active)
  BY Finite, FS_Subset
<1>2. Cardinality(Counted') <= Cardinality(Counted)
  BY Finite, FS_Subset
<1>. QED
  BY <1>1, <1>2, Finite, FiniteNext, AdmissionAssumption DEF Overshoot

-----------------------------------------------------------------------------
LEMMA InitEstablishes == Init => IInv
<1> SUFFICES ASSUME Init PROVE IInv
  OBVIOUS
<1>1. TypeOK
  BY AdmissionAssumption
  DEF Init, TypeOK, Days, KeyRow, NoKeyRow, RequestState, NoRequest
<1>2. HoldInv /\ Exclusive /\ RowInv
  BY DEF Init, HoldInv, Exclusive, RowInv, Holding, NoRequest
<1>3. ChargesMatchItems
  <2> SUFFICES ASSUME NEW d \in Days PROVE usage[d] = Cardinality(ChargedOn(d))
    BY DEF ChargesMatchItems
  <2>1. ChargedOn(d) = {}
    BY DEF Init, ChargedOn, Days
  <2>. QED
    BY <2>1, FS_EmptySet DEF Init
<1>4. Overshoot
  <2>1. Active = {} /\ Counted = {}
    BY DEF Init, Active, Enriching, Counted, Holding, NoRequest
  <2>. QED
    BY <2>1, FS_EmptySet, Finite, AdmissionAssumption DEF Overshoot
<1>. QED
  BY <1>1, <1>2, <1>3, <1>4 DEF IInv

\* A request that ends without a commit gives up what it held.
LEMMA FinishPreserves ==
  ASSUME IInv, NEW r \in Requests, Finish(r), UNCHANGED Stored
  PROVE  IInv'
<1>1. TypeOK'
  BY AdmissionAssumption DEF IInv, TypeOK, Stored, Finish, NoRequest, RequestState
<1>2. HoldInv' /\ Exclusive' /\ RowInv'
  BY DEF IInv, TypeOK, HoldInv, Exclusive, RowInv, Holding, Stored, Finish, NoRequest
<1>3. ChargesMatchItems'
  BY DEF IInv, ChargesMatchItems, ChargedOn, Stored
<1>4. Active' \subseteq Active /\ Counted' \subseteq Counted
  BY DEF IInv, TypeOK, Active, Enriching, Counted, Holding, Stored, Finish, NoRequest
<1>. QED
  BY <1>1, <1>2, <1>3, <1>4, OvershootShrinks DEF IInv

LEMMA BeginStep ==
  ASSUME IInv, NEW r \in Requests, NEW k \in Keys \cup {NoKey}, NEW enrich \in BOOLEAN,
         Begin(r, k, enrich)
  PROVE  IInv'
<1>1. /\ req' = [req EXCEPT ![r] = [pc |-> "started", enrich |-> enrich, key |-> k,
                                    day |-> today, used |-> 0, item |-> NoItem]]
      /\ UNCHANGED Stored
  BY DEF Begin
<1>2. TypeOK'
  BY <1>1, AdmissionAssumption DEF IInv, TypeOK, Stored, RequestState, Days
<1>3. HoldInv' /\ Exclusive' /\ RowInv'
  BY <1>1 DEF IInv, TypeOK, HoldInv, Exclusive, RowInv, Holding, Stored
<1>4. ChargesMatchItems'
  BY <1>1 DEF IInv, ChargesMatchItems, ChargedOn, Stored
<1>5. Active' \subseteq Active /\ Counted' \subseteq Counted
  BY <1>1 DEF IInv, TypeOK, Active, Enriching, Counted, Holding, Stored
<1>. QED
  BY <1>2, <1>3, <1>4, <1>5, OvershootShrinks DEF IInv

\* Whoever passes the check saw room for one more; only requests on their way
\* at the same time can have taken it.
LEMMA CountEnrichingStep ==
  ASSUME IInv, NEW r \in Requests, CountEnriching(r)
  PROVE  IInv'
<1>1. CASE TooActive
  BY <1>1, FinishPreserves DEF CountEnriching
<1>2. CASE ~TooActive
  <2>1. /\ req' = [req EXCEPT ![r].pc = "admitted"]
        /\ req[r].pc = "started" /\ req[r].enrich
        /\ UNCHANGED Stored
    BY <1>2 DEF CountEnriching
  <2>2. TypeOK'
    BY <2>1 DEF IInv, TypeOK, Stored, RequestState
  <2>3. HoldInv' /\ Exclusive' /\ RowInv'
    BY <2>1 DEF IInv, TypeOK, HoldInv, Exclusive, RowInv, Holding, Stored
  <2>4. ChargesMatchItems'
    BY <2>1 DEF IInv, ChargesMatchItems, ChargedOn, Stored
  <2>5. Active' = Active
    BY <2>1 DEF Active, Enriching, Stored
  <2>6. Cardinality(Active) < ConcurrencyLimit
    BY <1>2, Finite, AdmissionAssumption DEF TooActive
  <2>7. Overshoot'
    BY <2>5, <2>6, Finite, FiniteNext, AdmissionAssumption DEF Overshoot
  <2>. QED
    BY <2>2, <2>3, <2>4, <2>7 DEF IInv
<1>. QED
  BY <1>1, <1>2

\* A request takes a fresh item; if it pays for it, under the day's lock.
LEMMA InsertPreserves ==
  ASSUME IInv, NEW r \in Requests, NEW i \in Items, NEW n \in 0 .. DailyLimit,
         ~Holding(r), req[r].pc # "idle", Unused(i),
         req[r].enrich => /\ req[r].pc = "admitted"
                          /\ n = usage[req[r].day] + 1
                          /\ ~UsageLocked(req[r].day),
         req' = [req EXCEPT ![r] = [@ EXCEPT !.pc = "inserted", !.used = n, !.item = i]],
         UNCHANGED Stored
  PROVE  IInv'
<1>1. TypeOK'
  BY DEF IInv, TypeOK, Stored, RequestState
<1>2. /\ req'[r].pc = "inserted" /\ req'[r].item = i /\ req'[r].used = n
      /\ req'[r].enrich = req[r].enrich /\ req'[r].day = req[r].day
      /\ req'[r].key = req[r].key
      /\ \A q \in Requests : q # r => req'[q] = req[q]
  BY DEF IInv, TypeOK, RequestState
<1>3. HoldInv'
  BY <1>2 DEF IInv, HoldInv, Holding, Stored, Unused
<1>4. Exclusive'
  BY <1>2 DEF IInv, Exclusive, Holding, Unused, UsageLocked
<1>5. RowInv'
  BY DEF IInv, RowInv, Stored
<1>6. ChargesMatchItems'
  BY DEF IInv, ChargesMatchItems, ChargedOn, Stored
<1>7. Active' \subseteq Active /\ Counted' \subseteq Counted
  BY <1>2 DEF Active, Enriching, Counted, Holding, Stored
<1>. QED
  BY <1>1, <1>3, <1>4, <1>5, <1>6, <1>7, OvershootShrinks DEF IInv

LEMMA ChargeStep ==
  ASSUME IInv, NEW r \in Requests, Charge(r)
  PROVE  IInv'
<1> DEFINE n == usage[req[r].day] + 1
<1>1. CASE OverQuota(n)
  BY <1>1, FinishPreserves DEF Charge
<1>2. CASE ~OverQuota(n)
  <2>1. PICK i \in Items :
          /\ Unused(i)
          /\ req' = [req EXCEPT ![r] = [@ EXCEPT !.pc = "inserted", !.used = n,
                                                 !.item = i]]
    BY <1>2 DEF Charge
  <2>2. req[r].pc = "admitted" /\ ~UsageLocked(req[r].day) /\ UNCHANGED Stored
    BY DEF Charge
  <2>3. req[r].day \in Days
    BY <2>2 DEF IInv, HoldInv
  <2>4. usage[req[r].day] \in 0 .. DailyLimit
    BY <2>3 DEF IInv, TypeOK
  <2>5. n \in 0 .. DailyLimit
    BY <1>2, <2>4, AdmissionAssumption DEF OverQuota
  <2>6. ~Holding(r)
    BY <2>2 DEF Holding
  <2>. QED
    BY <2>1, <2>2, <2>5, <2>6, InsertPreserves
<1>. QED
  BY <1>1, <1>2

LEMMA InsertDirectlyStep ==
  ASSUME IInv, NEW r \in Requests, InsertDirectly(r)
  PROVE  IInv'
<1>1. PICK i \in Items :
        /\ Unused(i)
        /\ req' = [req EXCEPT ![r] = [@ EXCEPT !.pc = "inserted", !.item = i]]
  BY DEF InsertDirectly
<1>2. req[r].pc = "started" /\ ~req[r].enrich /\ UNCHANGED Stored
  BY DEF InsertDirectly
<1>3. TypeOK'
  BY <1>1, <1>2 DEF IInv, TypeOK, Stored, RequestState
<1>4. /\ req'[r].pc = "inserted" /\ req'[r].item = i
      /\ ~req'[r].enrich /\ req'[r].day = req[r].day
      /\ \A q \in Requests : q # r => req'[q] = req[q]
  BY <1>1, <1>2 DEF IInv, TypeOK, RequestState
<1>5. HoldInv'
  BY <1>1, <1>2, <1>4 DEF IInv, HoldInv, Holding, Stored, Unused
<1>6. Exclusive'
  BY <1>1, <1>2, <1>4 DEF IInv, Exclusive, Holding, Unused
<1>7. RowInv'
  BY <1>2 DEF IInv, RowInv, Stored
<1>8. ChargesMatchItems'
  BY <1>2 DEF IInv, ChargesMatchItems, ChargedOn, Stored
<1>9. Active' \subseteq Active /\ Counted' \subseteq Counted
  BY <1>2, <1>4 DEF Active, Enriching, Counted, Holding, Stored
<1>. QED
  BY <1>3, <1>5, <1>6, <1>7, <1>8, <1>9, OvershootShrinks DEF IInv

LEMMA WriteKeyStep ==
  ASSUME IInv, NEW r \in Requests, WriteKey(r)
  PROVE  IInv'
<1>1. CASE KeyConflict(r)
  BY <1>1, FinishPreserves DEF KeyConflict
<1>2. CASE ~KeyConflict(r)
  <2>1. /\ req[r].pc = "inserted" /\ req[r].key # NoKey
        /\ ~KeyLocked(req[r].key)
        /\ keys[req[r].key].item = NoItem
        /\ req' = [req EXCEPT ![r].pc = "keyed"]
        /\ UNCHANGED Stored
    BY <1>2 DEF WriteKey, MayWriteKey, KeyTaken
  <2>2. TypeOK' /\ req[r].key \in Keys
    BY <2>1 DEF IInv, TypeOK, Stored, RequestState
  <2>3. /\ req'[r] = [req[r] EXCEPT !.pc = "keyed"]
        /\ \A q \in Requests : q # r => req'[q] = req[q]
    BY <2>1 DEF IInv, TypeOK
  <2>4. /\ req'[r].pc = "keyed" /\ req'[r].item = req[r].item
        /\ req'[r].enrich = req[r].enrich /\ req'[r].day = req[r].day
        /\ req'[r].key = req[r].key /\ req'[r].used = req[r].used
    BY <2>3 DEF IInv, TypeOK, RequestState
  <2>5. HoldInv'
    BY <2>1, <2>2, <2>3, <2>4 DEF IInv, HoldInv, Holding, Stored
  <2>6. Exclusive'
    BY <2>1, <2>3, <2>4 DEF IInv, Exclusive, Holding, KeyLocked
  <2>7. RowInv'
    BY <2>1 DEF IInv, RowInv, Stored
  <2>8. ChargesMatchItems'
    BY <2>1 DEF IInv, ChargesMatchItems, ChargedOn, Stored
  <2>9. Active' \subseteq Active /\ Counted' \subseteq Counted
    BY <2>1, <2>3, <2>4 DEF Active, Enriching, Counted, Holding, Stored
  <2>. QED
    BY <2>2, <2>5, <2>6, <2>7, <2>8, <2>9, OvershootShrinks DEF IInv
<1>. QED
  BY <1>1, <1>2

LEMMA CommitStep ==
  ASSUME IInv, NEW r \in Requests, Commit(r)
  PROVE  IInv'
<1> DEFINE i == req[r].item
           k == req[r].key
           d == req[r].day
<1>1. /\ Holding(r) /\ (k # NoKey => req[r].pc = "keyed")
      /\ Finish(r) /\ UNCHANGED <<today, retried>>
      /\ keys' = IF k = NoKey THEN keys
                 ELSE [keys EXCEPT ![k] = [item |-> i, day |-> today, expired |-> FALSE]]
      /\ keyOf' = [keyOf EXCEPT ![i] = k]
  BY DEF Commit, Holding
<1>2. IF req[r].enrich
      THEN /\ status' = [status EXCEPT ![i] = "ENRICHING"]
           /\ charged' = [charged EXCEPT ![i] = d]
           /\ usage' = [usage EXCEPT ![d] = req[r].used]
      ELSE /\ status' = [status EXCEPT ![i] = "ARCHIVED"]
           /\ UNCHANGED <<charged, usage>>
  BY DEF Commit
<1>3. /\ i \in Items /\ status[i] = "ABSENT" /\ charged[i] = 0 /\ keyOf[i] = NoKey
      /\ d \in Days /\ req[r].used \in 0 .. DailyLimit
      /\ k \in Keys \cup {NoKey}
      /\ k # NoKey => keys[k].item = NoItem
      /\ req[r].enrich => req[r].used = usage[d] + 1
  BY <1>1 DEF IInv, TypeOK, RequestState, HoldInv, RowInv, Holding
<1>4. TypeOK'
  <2>1. status' \in [Items -> ItemStatus \cup {"ABSENT"}]
    BY <1>2, <1>3 DEF IInv, TypeOK, ItemStatus
  <2>2. charged' \in [Items -> 0 .. MaxDay] /\ usage' \in [Days -> 0 .. DailyLimit]
    <3>1. d \in 0 .. MaxDay
      BY <1>3, AdmissionAssumption DEF Days
    <3>2. charged \in [Items -> 0 .. MaxDay] /\ usage \in [Days -> 0 .. DailyLimit]
      BY DEF IInv, TypeOK
    <3>3. CASE req[r].enrich
      BY <1>2, <1>3, <3>1, <3>2, <3>3
    <3>4. CASE ~req[r].enrich
      BY <1>2, <3>2, <3>4
    <3>. QED
      BY <3>3, <3>4
  <2>3. keys' \in [Keys -> KeyRow] /\ keyOf' \in [Items -> Keys \cup {NoKey}]
    BY <1>1, <1>3, AdmissionAssumption DEF IInv, TypeOK, KeyRow, Days
  <2>4. req' \in [Requests -> RequestState]
    BY <1>1, AdmissionAssumption DEF IInv, TypeOK, Finish, NoRequest, RequestState
  <2>. QED
    BY <1>1, <2>1, <2>2, <2>3, <2>4 DEF IInv, TypeOK
<1>5. /\ req'[r].pc = "idle"
      /\ \A q \in Requests : q # r => req'[q] = req[q]
  BY <1>1 DEF IInv, TypeOK, Finish, NoRequest
<1>6. HoldInv'
  <2> SUFFICES ASSUME NEW q \in Requests, q # r
               PROVE  /\ req[q].pc # "idle" => req[q].day \in Days
                      /\ req[q].pc = "admitted" => req[q].enrich
                      /\ Holding(q) => req[q].item \in Items /\ status'[req[q].item] = "ABSENT"
                      /\ Holding(q) /\ req[q].enrich
                           => req[q].used = usage'[req[q].day] + 1
                      /\ req[q].pc = "keyed"
                           => req[q].key \in Keys /\ keys'[req[q].key].item = NoItem
    BY <1>5 DEF HoldInv, Holding
  <2>1. Holding(q) => status'[req[q].item] = "ABSENT"
    BY <1>1, <1>2, <1>3 DEF IInv, TypeOK, HoldInv, Exclusive
  <2>2. Holding(q) /\ req[q].enrich => req[q].used = usage'[req[q].day] + 1
    BY <1>1, <1>2, <1>3 DEF IInv, TypeOK, HoldInv, Exclusive, Holding
  <2>3. req[q].pc = "keyed" => keys'[req[q].key].item = NoItem
    BY <1>1, <1>3, AdmissionAssumption DEF IInv, TypeOK, HoldInv, Exclusive
  <2>. QED
    BY <2>1, <2>2, <2>3 DEF IInv, HoldInv
<1>7. Exclusive'
  BY <1>5 DEF IInv, Exclusive, Holding
<1>8. RowInv'
  <2> SUFFICES ASSUME NEW j \in Items
               PROVE  /\ status'[j] = "ABSENT" => charged'[j] = 0 /\ keyOf'[j] = NoKey
                      /\ keyOf'[j] # NoKey => keys'[keyOf'[j]].item = j
    BY DEF RowInv
  <2>1. CASE j = i
    BY <1>1, <1>2, <1>3, <2>1 DEF IInv, TypeOK
  <2>2. CASE j # i
    <3>1. status'[j] = status[j] /\ charged'[j] = charged[j] /\ keyOf'[j] = keyOf[j]
      BY <1>1, <1>2, <1>3, <2>2 DEF IInv, TypeOK
    <3>2. keyOf[j] # NoKey => keys'[keyOf[j]].item = j
      BY <1>1, <1>3, AdmissionAssumption DEF IInv, TypeOK, RowInv
    <3>. QED
      BY <3>1, <3>2 DEF IInv, RowInv
  <2>. QED
    BY <2>1, <2>2
<1>9. ChargesMatchItems'
  <2> SUFFICES ASSUME NEW e \in Days PROVE usage'[e] = Cardinality(ChargedOn(e)')
    BY DEF ChargesMatchItems
  <2>1. usage[e] = Cardinality(ChargedOn(e))
    BY DEF IInv, ChargesMatchItems
  <2>2. CASE ~req[r].enrich \/ e # d
    <3>1. e # 0
      BY DEF Days
    <3>2. ChargedOn(e)' = ChargedOn(e)
      BY <1>2, <1>3, <2>2, <3>1 DEF IInv, TypeOK, ChargedOn
    <3>. QED
      BY <1>2, <1>3, <2>1, <2>2, <3>2 DEF IInv, TypeOK
  <2>3. CASE req[r].enrich /\ e = d
    <3>1. ChargedOn(e)' = ChargedOn(e) \cup {i} /\ i \notin ChargedOn(e)
      BY <1>2, <1>3, <2>3 DEF IInv, TypeOK, ChargedOn, Days
    <3>2. Cardinality(ChargedOn(e)') = Cardinality(ChargedOn(e)) + 1
      BY <3>1, Finite, FS_AddElement
    <3>3. usage'[e] = usage[e] + 1
      BY <1>2, <1>3, <2>3 DEF IInv, TypeOK
    <3>. QED
      BY <2>1, <3>2, <3>3
  <2>. QED
    BY <2>2, <2>3
<1>10. Overshoot'
  <2>1. CASE req[r].enrich
    <3>1. Active' \subseteq Active \cup {i}
      BY <1>1, <1>2, <2>1 DEF IInv, TypeOK, Active, Enriching
    <3>2. Counted' = Counted \ {r} /\ r \in Counted
      BY <1>1, <1>5, <2>1 DEF Counted, Holding
    <3>3. Cardinality(Active') <= Cardinality(Active) + 1
      <4>1. /\ IsFiniteSet(Active \cup {i}) /\ Cardinality(Active \cup {i}) \in Nat
            /\ Cardinality(Active \cup {i}) <= Cardinality(Active) + 1
        BY Finite, OneMore
      <4>2. Cardinality(Active') <= Cardinality(Active \cup {i})
        BY <3>1, <4>1, FS_Subset
      <4>. QED
        BY <4>1, <4>2, Finite, FiniteNext
    <3>4. Cardinality(Counted') = Cardinality(Counted) - 1
      BY <3>2, Finite, FS_RemoveElement
    <3>5. Overshoot
      BY DEF IInv
    <3>. QED
      BY <3>3, <3>4, <3>5, Finite, FiniteNext, AdmissionAssumption DEF Overshoot
  <2>2. CASE ~req[r].enrich
    <3>1. Active' \subseteq Active
      BY <1>1, <1>2, <1>3, <2>2 DEF IInv, TypeOK, Active, Enriching
    <3>2. Counted' \subseteq Counted
      BY <1>5 DEF Counted, Holding
    <3>. QED
      BY <3>1, <3>2, OvershootShrinks DEF IInv
  <2>. QED
    BY <2>1, <2>2
<1>. QED
  BY <1>4, <1>6, <1>7, <1>8, <1>9, <1>10 DEF IInv

-----------------------------------------------------------------------------
(* Steps of others.                                                        *)

LEMMA SettleStep ==
  ASSUME IInv, NEW i \in Items, Settle(i)
  PROVE  IInv'
<1>1. PICK s \in {"READY_TO_CONFIRM", "FAILED"} : status' = [status EXCEPT ![i] = s]
  BY DEF Settle
<1>2. /\ status[i] = "ENRICHING"
      /\ UNCHANGED <<today, charged, usage, keys, req, keyOf, retried>>
  BY DEF Settle
<1>3. TypeOK'
  BY <1>1, <1>2 DEF IInv, TypeOK, ItemStatus
<1>4. HoldInv' /\ Exclusive' /\ RowInv'
  BY <1>1, <1>2 DEF IInv, TypeOK, HoldInv, Exclusive, RowInv, Holding
<1>5. ChargesMatchItems'
  BY <1>2 DEF IInv, ChargesMatchItems, ChargedOn
<1>6. Active' \subseteq Active /\ Counted' \subseteq Counted
  BY <1>1, <1>2 DEF IInv, TypeOK, Active, Enriching, Counted, Holding
<1>. QED
  BY <1>3, <1>4, <1>5, <1>6, OvershootShrinks DEF IInv

\* Only a retry leads back to ENRICHING.
LEMMA TransitionTable ==
  ASSUME NEW s \in ItemStatus, NEW a \in UserActions, CanTransition(s, a)
  PROVE  /\ AllowedTransitions[s][a] \in ItemStatus
         /\ AllowedTransitions[s][a] = "ENRICHING" => a = "retry"
  BY DEF ItemStatus, UserActions, CanTransition, AllowedTransitions, NoActions

LEMMA ActStep ==
  ASSUME IInv, NEW i \in Items, NEW a \in UserActions, Act(i, a)
  PROVE  IInv'
<1>1. status[i] \in ItemStatus /\ CanTransition(status[i], a)
  BY DEF IInv, TypeOK, Act
<1>2. PICK s \in ItemStatus : s = AllowedTransitions[status[i]][a] /\ (s = "ENRICHING" => a = "retry")
  BY <1>1, TransitionTable
<1>3. /\ status[i] # "ABSENT" /\ status' = [status EXCEPT ![i] = s]
      /\ retried' = IF a = "retry" THEN retried \cup {i} ELSE retried
      /\ UNCHANGED <<today, charged, usage, keys, req, keyOf>>
  BY <1>2 DEF Act
<1>4. s # "ABSENT"
  BY DEF ItemStatus
<1>5. TypeOK'
  BY <1>3 DEF IInv, TypeOK
<1>6. HoldInv' /\ Exclusive' /\ RowInv'
  BY <1>3, <1>4 DEF IInv, TypeOK, HoldInv, Exclusive, RowInv, Holding
<1>7. ChargesMatchItems'
  BY <1>3 DEF IInv, ChargesMatchItems, ChargedOn
<1>8. Active' \subseteq Active /\ Counted' \subseteq Counted
  BY <1>2, <1>3 DEF IInv, TypeOK, Active, Enriching, Counted, Holding
<1>. QED
  BY <1>5, <1>6, <1>7, <1>8, OvershootShrinks DEF IInv

LEMMA ExpireStep ==
  ASSUME IInv, NEW k \in Keys, Expire(k)
  PROVE  IInv'
<1>1. /\ keys' = [keys EXCEPT ![k].expired = TRUE]
      /\ UNCHANGED <<today, status, charged, usage, req, keyOf, retried>>
  BY DEF Expire
<1>2. TypeOK'
  BY <1>1 DEF IInv, TypeOK, KeyRow
<1>3. \A l \in Keys : keys'[l].item = keys[l].item
  BY <1>1 DEF IInv, TypeOK, KeyRow
<1>4. HoldInv' /\ Exclusive' /\ RowInv'
  BY <1>1, <1>3 DEF IInv, TypeOK, HoldInv, Exclusive, RowInv, Holding
<1>5. ChargesMatchItems'
  BY <1>1 DEF IInv, ChargesMatchItems, ChargedOn
<1>6. Active' \subseteq Active /\ Counted' \subseteq Counted
  BY <1>1 DEF Active, Enriching, Counted, Holding
<1>. QED
  BY <1>2, <1>4, <1>5, <1>6, OvershootShrinks DEF IInv

\* Midnight, or no step at all.
LEMMA OthersUnchanged ==
  ASSUME IInv, today' \in Days, UNCHANGED <<status, charged, usage, keys, req, keyOf, retried>>
  PROVE  IInv'
<1>1. TypeOK'
  BY DEF IInv, TypeOK
<1>2. HoldInv' /\ Exclusive' /\ RowInv'
  BY DEF IInv, HoldInv, Exclusive, RowInv, Holding
<1>3. ChargesMatchItems'
  BY DEF IInv, ChargesMatchItems, ChargedOn
<1>4. Active' \subseteq Active /\ Counted' \subseteq Counted
  BY DEF Active, Enriching, Counted, Holding
<1>. QED
  BY <1>1, <1>2, <1>3, <1>4, OvershootShrinks DEF IInv

LEMMA NextPreserves == IInv /\ [Next]_vars => IInv'
<1> SUFFICES ASSUME IInv, [Next]_vars PROVE IInv'
  OBVIOUS
<1>1. ASSUME NEW r \in Requests, NEW k \in Keys \cup {NoKey}, NEW enrich \in BOOLEAN,
             Begin(r, k, enrich)
      PROVE  IInv'
  BY <1>1, BeginStep
<1>2. ASSUME NEW r \in Requests, RequestStep(r) PROVE IInv'
  BY <1>2, CountEnrichingStep, ChargeStep, InsertDirectlyStep, WriteKeyStep, CommitStep
  DEF RequestStep
<1>3. ASSUME NEW r \in Requests, Abort(r) PROVE IInv'
  BY <1>3, FinishPreserves DEF Abort
<1>4. ASSUME NEW i \in Items, Settle(i) \/ \E a \in UserActions : Act(i, a) PROVE IInv'
  BY <1>4, SettleStep, ActStep
<1>5. ASSUME NEW k \in Keys, Expire(k) PROVE IInv'
  BY <1>5, ExpireStep
<1>6. CASE Midnight
  <2>1. today' \in Days
    BY <1>6, AdmissionAssumption DEF IInv, TypeOK, Midnight, Days
  <2>. QED
    BY <1>6, <2>1, OthersUnchanged DEF Midnight
<1>7. CASE UNCHANGED vars
  <2>1. today' \in Days
    BY <1>7 DEF IInv, TypeOK, vars
  <2>. QED
    BY <1>7, <2>1, OthersUnchanged DEF vars
<1>. QED
  BY <1>1, <1>2, <1>3, <1>4, <1>5, <1>6, <1>7 DEF Next

\* The strengthened invariant holds in every reachable state.
THEOREM AdmissionInvariance == Spec => []IInv
  BY InitEstablishes, NextPreserves, PTL DEF Spec

\* Every variable keeps its type; in particular no day's usage passes the
\* daily limit.
THEOREM AdmissionTypes == Spec => []TypeOK
<1>1. IInv => TypeOK
  BY DEF IInv
<1>. QED
  BY AdmissionInvariance, <1>1, PTL

\* Each day's usage counter is the number of items created for enrichment on
\* that day, whatever was refused, rolled back or repeated meanwhile.
THEOREM ExactCharges == Spec => []ChargesMatchItems
<1>1. IInv => ChargesMatchItems
  BY DEF IInv
<1>. QED
  BY AdmissionInvariance, <1>1, PTL

\* An idempotency key stands for at most one item, for ever.
THEOREM KeysNameOneItem == Spec => []OneItemPerKey
<1>1. IInv => OneItemPerKey
  BY DEF IInv, RowInv, OneItemPerKey
<1>. QED
  BY AdmissionInvariance, <1>1, PTL

\* Concurrent creations exceed the concurrency limit by fewer items than there
\* are requests at a time.
THEOREM BoundedOvershoot == Spec => []OvershootBounded
<1>1. IInv => OvershootBounded
  BY Finite, AdmissionAssumption DEF IInv, Overshoot, OvershootBounded, Active
<1>. QED
  BY AdmissionInvariance, <1>1, PTL
=============================================================================
