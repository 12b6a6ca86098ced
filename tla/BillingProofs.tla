---------------------------- MODULE BillingProofs ----------------------------
(* The checkout's invariants for any set of tenants, orders, runs of         *)
(* start_checkout and concurrent webhook deliveries.                         *)
EXTENDS Billing, TLAPS

LEMMA InitInv == Init => Inv
  BY OrdersAssumption, CallsAssumption, EventsAssumption
  DEF Init, Inv, TypeOK, RowInv, OneSlot, CallInv, OneRequest, HookInv, Statuses,
      Pending, Closed, ProvStates, Accepted

(* Steps of start_checkout before it writes the row, and its crash. *)
LEMMA QuietCallSteps ==
  ASSUME Inv, NEW c \in Calls,
         (\E o \in Orders : ReadExisting(c, o)) \/ ReadSlot(c) \/ Answer(c) \/ CrashCall(c)
  PROVE  Inv'
  <1> USE DEF dbVars, hookVars, Emitted
  <1>1. TypeOK'
    BY DEF Inv, TypeOK, ReadExisting, ReadSlot, Answer, CrashCall, Refuse
  <1>2. \A d \in Calls : prov[d] # "unsent" => order'[d] = order[d]
    BY DEF Inv, TypeOK, CallInv, ReadExisting, ReadSlot, Answer, CrashCall, Refuse
  <1>3. UNCHANGED <<dbVars, prov, hookVars>>
    BY DEF ReadExisting, ReadSlot, Answer, CrashCall
  <1>4. RowInv' /\ OneSlot'
    BY <1>2, <1>3 DEF Inv, TypeOK, RowInv, OneSlot, Accepted
  <1>5. CallInv'
    <2> SUFFICES ASSUME NEW d \in Calls
                 PROVE  /\ prov'[d] = "unsent" <=> pc'[d] \in {"idle", "slot", "insert"}
                        /\ pc'[d] # "idle" => order'[d] \in Orders
                        /\ prov'[d] # "unsent" => Agrees(status'[order'[d]], prov'[d])
                        /\ pc'[d] = "created" => prov'[d] \in Accepted
                        /\ pc'[d] = "rejected" => prov'[d] = "rejected"
      BY DEF CallInv, Agrees, Accepted
    <2>1. CASE d # c
      BY <1>2, <1>3, <2>1 DEF Inv, TypeOK, CallInv, Refuse,
         ReadExisting, ReadSlot, Answer, CrashCall
    <2>2. CASE \E o \in Orders : ReadExisting(c, o)
      BY <2>2, <1>3 DEF Inv, TypeOK, CallInv, ReadExisting
    <2>3. CASE ReadSlot(c)
      BY <2>3, <1>3 DEF Inv, TypeOK, CallInv, ReadSlot, Refuse
    <2>4. CASE Answer(c)
      BY <2>4, <1>3 DEF Inv, TypeOK, CallInv, Answer
    <2>5. CASE CrashCall(c)
      BY <2>5, <1>3 DEF Inv, TypeOK, CallInv, CrashCall, Refuse
    <2>6. QED
      BY <2>1, <2>2, <2>3, <2>4, <2>5
  <1>6. OneRequest'
    BY <1>2, <1>3 DEF Inv, OneRequest
  <1>7. HookInv'
    BY <1>2, <1>3 DEF Inv, TypeOK, HookInv, Events, Accepted
  <1>8. QED
    BY <1>1, <1>4, <1>5, <1>6, <1>7 DEF Inv

(* The insert takes a free slot for an order without a row. *)
LEMMA InsertStep ==
  ASSUME Inv, NEW c \in Calls, Insert(c)
  PROVE  Inv'
  <1> DEFINE o == order[c]
  <1> USE DEF dbVars, hookVars, MayInsert, StillCreating, IsUncertain
  <1>1. o \in Orders /\ prov[c] = "unsent"
    BY DEF Inv, CallInv, Insert
  <1>2. CASE status[o] # "none" \/ SlotTaken(TenantOf[o])
    <2>1. \A d \in Calls : prov[d] # "unsent" => order'[d] = order[d]
      BY <1>1, <1>2 DEF Inv, TypeOK, Insert, Refuse
    <2>2. TypeOK'
      BY <1>2 DEF Inv, TypeOK, Insert, Refuse
    <2>3. RowInv' /\ OneSlot'
      BY <1>2, <2>1 DEF Inv, TypeOK, RowInv, OneSlot, Accepted, Insert
    <2>4. CallInv'
      BY <1>1, <1>2, <2>1 DEF Inv, TypeOK, CallInv, Insert, Refuse, Agrees, Accepted
    <2>5. OneRequest'
      BY <1>2, <2>1 DEF Inv, OneRequest, Insert
    <2>6. HookInv'
      BY <1>2, <2>1 DEF Inv, TypeOK, HookInv, Events, Accepted, Emitted, Insert
    <2>7. QED
      BY <2>2, <2>3, <2>4, <2>5, <2>6 DEF Inv
  <1>3. CASE status[o] = "none" /\ ~SlotTaken(TenantOf[o])
    <2>1. /\ status' = [status EXCEPT ![o] = "creating"]
          /\ slot' = slot \cup {o}
          /\ pc' = [pc EXCEPT ![c] = "waiting"]
          /\ prov' = [prov EXCEPT ![c] = "sent"]
          /\ UNCHANGED <<pid, link, order, receipts, hook, ev, acked>>
      BY <1>3 DEF Insert
    <2>2. \A d \in Calls : prov[d] # "unsent" => order[d] # o
      BY <1>3 DEF Inv, CallInv, Agrees, Pending
    <2>3. TypeOK'
      BY <1>1, <2>1 DEF Inv, TypeOK, Statuses, Pending, ProvStates
    <2>4. RowInv'
      BY <1>1, <2>1, <2>2 DEF Inv, TypeOK, RowInv, Pending, Accepted
    <2>5. OneSlot'
      BY <1>1, <1>3, <2>1 DEF Inv, TypeOK, OneSlot, SlotTaken
    <2>6. CallInv'
      BY <1>1, <2>1, <2>2 DEF Inv, TypeOK, CallInv, Agrees, Pending, Accepted
    <2>7. OneRequest'
      BY <1>1, <2>1, <2>2 DEF Inv, TypeOK, OneRequest
    <2>8. HookInv'
      <3>1. \A e \in Events : Emitted(e) => Emitted(e)'
        <4>1. \A d \in Calls : prov[d] # "unsent" => prov'[d] = prov[d]
          BY <1>1, <2>1 DEF Inv, TypeOK
        <4>2. QED
          BY <4>1 DEF Emitted, Events, EventTypes, Accepted
      <3>2. \A e \in receipts : prov[e.checkout] # "unsent" /\ order[e.checkout] # o
        <4>1. \A e \in receipts : e \in Events /\ Emitted(e)
          BY DEF Inv, TypeOK, HookInv
        <4>2. \A e \in Events : Emitted(e) => prov[e.checkout] # "unsent"
          BY DEF Emitted, Events, EventTypes, Accepted
        <4>3. QED
          BY <2>2, <4>1, <4>2 DEF Events
      <3>3. \A e \in receipts : status'[order[e.checkout]] = status[order[e.checkout]]
        BY <2>1, <3>2
      <3>4. receipts \subseteq Events
        BY DEF Inv, TypeOK
      <3>5. UNCHANGED <<receipts, hook, ev, acked, order>>
        BY <2>1
      <3>6. QED
        BY <3>1, <3>3, <3>4, <3>5 DEF Inv, HookInv
    <2>9. QED
      BY <2>3, <2>4, <2>5, <2>6, <2>7, <2>8 DEF Inv
  <1>4. QED
    BY <1>2, <1>3

(* The provider moves on; what it emitted before stays emitted. *)
LEMMA ProviderSteps ==
  ASSUME Inv, NEW c \in Calls, ProviderDecide(c) \/ ProviderSettle(c)
  PROVE  Inv'
  <1> USE DEF dbVars, hookVars, callVars
  <1>1. UNCHANGED <<status, slot, pid, link, pc, order, receipts, hook, ev, acked>>
    BY DEF ProviderDecide, ProviderSettle
  <1>2. PICK p \in Accepted \cup {"rejected"} : prov' = [prov EXCEPT ![c] = p]
    BY DEF ProviderDecide, ProviderSettle, Accepted
  <1>3. \/ prov[c] = "sent" /\ p \in {"active", "rejected"}
        \/ prov[c] = "active" /\ p \in {"paid", "canceled", "expired"}
    BY <1>2 DEF ProviderDecide, ProviderSettle, Inv, TypeOK
  <1>4. TypeOK'
    BY <1>1, <1>2 DEF Inv, TypeOK, ProvStates, Accepted
  <1>5. RowInv' /\ OneSlot'
    BY <1>1, <1>2, <1>3 DEF Inv, TypeOK, RowInv, OneSlot, Accepted
  <1>6. CallInv'
    BY <1>1, <1>2, <1>3 DEF Inv, TypeOK, CallInv, Agrees, Accepted
  <1>7. OneRequest'
    BY <1>1, <1>2, <1>3 DEF Inv, TypeOK, OneRequest
  <1>8. \A e \in Events : Emitted(e) => Emitted(e)'
    BY <1>2, <1>3 DEF Inv, TypeOK, Emitted, Events, EventTypes, Accepted
  <1>9. HookInv'
    BY <1>1, <1>8 DEF Inv, TypeOK, HookInv
  <1>10. QED
    BY <1>4, <1>5, <1>6, <1>7, <1>9 DEF Inv

(* The transaction that records the provider's answer. *)
LEMMA RecordSteps ==
  ASSUME Inv, NEW c \in Calls, RecordFailure(c) \/ RecordCreated(c)
  PROVE  Inv'
  <1> DEFINE o == order[c]
  <1> USE DEF dbVars, hookVars, MayInsert, StillCreating, IsUncertain
  <1>1. o \in Orders /\ prov[c] # "unsent" /\ pc' = [pc EXCEPT ![c] = "done"]
        /\ UNCHANGED <<order, prov, hookVars>>
    BY DEF Inv, CallInv, RecordFailure, RecordCreated
  <1>2. Agrees(status[o], prov[c])
    BY <1>1 DEF Inv, CallInv
  <1>3. TypeOK'
    BY <1>1 DEF Inv, TypeOK, RecordFailure, RecordCreated, Statuses, Pending, Closed
  <1>4. RowInv'
    <2>1. CASE RecordFailure(c)
      BY <1>1, <2>1 DEF Inv, TypeOK, RowInv, RecordFailure, Pending
    <2>2. CASE RecordCreated(c)
      BY <1>1, <2>2 DEF Inv, TypeOK, RowInv, CallInv, RecordCreated, Pending, Accepted
    <2>3. QED
      BY <2>1, <2>2
  <1>5. OneSlot'
    BY <1>1 DEF Inv, TypeOK, OneSlot, RecordFailure, RecordCreated
  <1>6. Agrees(status'[o], prov[c])
    BY <1>1, <1>2 DEF Inv, TypeOK, CallInv, RecordFailure, RecordCreated, Agrees, Pending
  <1>7. \A p \in Orders \ {o} : status'[p] = status[p]
    BY <1>1 DEF Inv, TypeOK, RecordFailure, RecordCreated
  <1>8. CallInv'
    BY <1>1, <1>6, <1>7 DEF Inv, TypeOK, CallInv, OneRequest
  <1>9. OneRequest'
    BY <1>1 DEF Inv, OneRequest
  <1>10. HookInv'
    <2>1. \A p \in Orders : status[p] = "paid" => status'[p] = "paid"
      BY <1>1 DEF Inv, TypeOK, RecordFailure, RecordCreated
    <2>2. \A e \in receipts : order[e.checkout] \in Orders
      BY DEF Inv, TypeOK, CallInv, HookInv, Emitted, Events, EventTypes, Accepted
    <2>3. QED
      BY <1>1, <2>1, <2>2 DEF Inv, TypeOK, HookInv, Emitted
  <1>11. QED
    BY <1>3, <1>4, <1>5, <1>8, <1>9, <1>10 DEF Inv

(* Deliveries that begin, are answered or are cut off. *)
LEMMA QuietHookSteps ==
  ASSUME Inv, NEW h \in Hooks,
         (\E e \in Events : ReceiveEvent(h, e)) \/ Acknowledge(h) \/ CrashHook(h)
  PROVE  Inv'
  <1> USE DEF dbVars, callVars, Finish
  <1>1. UNCHANGED <<dbVars, callVars, prov, receipts>>
    BY DEF ReceiveEvent, Acknowledge, CrashHook
  <1>2. TypeOK'
    BY DEF Inv, TypeOK, HookInv, ReceiveEvent, Acknowledge, CrashHook
  <1>3. RowInv' /\ OneSlot' /\ CallInv' /\ OneRequest'
    BY <1>1 DEF Inv, RowInv, OneSlot, CallInv, OneRequest, Agrees
  <1>4. \A e \in Events : Emitted(e)' <=> Emitted(e)
    BY <1>1 DEF Emitted
  <1>5. HookInv'
    BY <1>1, <1>4 DEF Inv, TypeOK, HookInv, ReceiveEvent, Acknowledge, CrashHook
  <1>6. QED
    BY <1>2, <1>3, <1>5 DEF Inv

(* A webhook's transaction: what it carries did happen at the provider, so *)
(* the row it finds is that of the run whose checkout it reports.          *)
LEMMA ApplyStep ==
  ASSUME Inv, NEW h \in Hooks, ApplyEvent(h)
  PROVE  Inv'
  <1> DEFINE e == ev[h]
             c == e.checkout
  <1> USE DEF dbVars, callVars, Openable
  <1>1. e \in Events /\ c \in Calls /\ Emitted(e) /\ prov[c] \in Accepted /\ order[c] \in Orders
    BY DEF Inv, TypeOK, HookInv, CallInv, ApplyEvent, Events, EventTypes, Emitted, Accepted
  <1>2. UNCHANGED <<callVars, prov, acked>>
    BY DEF ApplyEvent
  <1>3. \A x \in Events : Emitted(x)' <=> Emitted(x)
    BY <1>2 DEF Emitted
  <1>4. CASE UNCHANGED <<dbVars, receipts>> /\ RefuseEvent(h)
    <2>1. RowInv' /\ OneSlot' /\ CallInv' /\ OneRequest'
      BY <1>2, <1>4 DEF Inv, RowInv, OneSlot, CallInv, OneRequest, Agrees
    <2>2. TypeOK'
      BY <1>2, <1>4 DEF Inv, TypeOK, RefuseEvent, Finish
    <2>3. HookInv'
      BY <1>2, <1>3, <1>4 DEF Inv, TypeOK, HookInv, RefuseEvent, Finish
    <2>4. QED
      BY <2>1, <2>2, <2>3 DEF Inv
  <1>5. CASE e \in receipts /\ Finish(h, "ack") /\ UNCHANGED <<dbVars, receipts, ev>>
    <2>1. RowInv' /\ OneSlot' /\ CallInv' /\ OneRequest'
      BY <1>2, <1>5 DEF Inv, RowInv, OneSlot, CallInv, OneRequest, Agrees
    <2>2. TypeOK'
      BY <1>2, <1>5 DEF Inv, TypeOK, Finish
    <2>3. HookInv'
      BY <1>2, <1>3, <1>5 DEF Inv, TypeOK, HookInv, Finish
    <2>4. QED
      BY <2>1, <2>2, <2>3 DEF Inv
  <1>6. ASSUME NEW o \in Orders, Matches(e, o), ~Conflicts(e, o), e \notin receipts,
               Finish(h, "ack"), UNCHANGED <<ev, link>>,
               status' = [status EXCEPT ![o] = NewStatus(e, @)],
               slot' = NewSlot(e, o, NewStatus(e, status[o])),
               pid' = [pid EXCEPT ![o] = c],
               receipts' = receipts \cup {e}
        PROVE  Inv'
    <2>1. o = order[c]
      BY <1>1, <1>6, CallsAssumption DEF Inv, RowInv, CallInv, Matches
    <2>2. Agrees(status[o], prov[c])
      BY <1>1, <2>1 DEF Inv, CallInv, Accepted
    <2>3. /\ e.type = "PAID" => prov[c] = "paid" /\ status'[o] = "paid" /\ slot' = slot \cup {o}
          /\ e.type = "CREATED" => \/ status[o] \in Pending /\ status'[o] = "open"
                                   \/ status[o] \notin Pending /\ status'[o] = status[o]
          /\ e.type = "CANCELED" => prov[c] = "canceled" /\ status'[o] = "canceled"
          /\ e.type = "EXPIRED" => prov[c] = "expired" /\ status'[o] = "expired"
      BY <1>1, <1>6, <2>2 DEF Inv, TypeOK, Emitted, NewStatus, NewSlot, Agrees, Pending, Accepted
    <2>4. e.type \in EventTypes
      BY <1>1 DEF Events
    <2>5. Agrees(status'[o], prov[c]) /\ (status'[o] = "paid" => prov[c] = "paid")
      BY <1>1, <2>2, <2>3, <2>4 DEF Agrees, EventTypes, Pending, Accepted
    <2>6. status[o] # "failed" /\ status'[o] \in Statuses \ {"failed", "none"}
      BY <1>1, <2>2, <2>3, <2>4 DEF Agrees, EventTypes, Pending, Accepted, Statuses, Closed
    <2>7. slot' = IF status'[o] \in {"canceled", "expired"} THEN slot \ {o} ELSE slot
      <3>1. status[o] \in Pending \cup {"open", "paid"} <=> o \in slot
        BY DEF Inv, RowInv
      <3>2. NewStatus(e, status[o]) = status'[o]
        BY <1>6 DEF Inv, TypeOK
      <3>3. CASE e.type = "PAID"
        <4>1. prov[c] = "paid" /\ status'[o] = "paid" /\ slot' = slot \cup {o}
          BY <2>3, <3>3
        <4>2. o \in slot
          BY <2>2, <3>1, <4>1 DEF Agrees
        <4>3. QED
          BY <4>1, <4>2
      <3>4. CASE e.type # "PAID"
        BY <1>6, <3>2, <3>4 DEF NewSlot
      <3>5. QED
        BY <3>3, <3>4
    <2>8. TypeOK'
      BY <1>1, <1>2, <1>6, <2>6, <2>7 DEF Inv, TypeOK, Finish, Statuses, Pending
    <2>9. RowInv'
      <3> SUFFICES ASSUME NEW p \in Orders
                   PROVE  /\ p \in slot' <=> status'[p] \in Pending \cup {"open", "paid"}
                          /\ pid'[p] # NoCheckout => order[pid'[p]] = p /\ prov[pid'[p]] \in Accepted
                          /\ status'[p] = "paid" => pid'[p] # NoCheckout /\ prov[pid'[p]] = "paid"
        BY <1>2 DEF RowInv
      <3>1. CASE p # o
        BY <1>6, <2>7, <3>1 DEF Inv, TypeOK, RowInv
      <3>2. CASE p = o
        <4>1. pid'[o] = c /\ c # NoCheckout
          BY <1>1, <1>6, CallsAssumption DEF Inv, TypeOK
        <4>2. o \in slot <=> status[o] \in Pending \cup {"open", "paid"}
          BY DEF Inv, RowInv
        <4>3. o \in slot' <=> status'[o] \in Pending \cup {"open", "paid"}
          BY <1>1, <2>2, <2>3, <2>4, <2>7, <4>2 DEF Agrees, EventTypes, Pending, Accepted
        <4>4. QED
          BY <1>1, <2>1, <2>5, <3>2, <4>1, <4>3
      <3>3. QED
        BY <3>1, <3>2
    <2>10. OneSlot'
      BY <2>7 DEF Inv, OneSlot
    <2>11. CallInv'
      BY <1>1, <1>2, <1>6, <2>1, <2>5 DEF Inv, TypeOK, CallInv, OneRequest, Accepted
    <2>12. OneRequest'
      BY <1>2 DEF Inv, OneRequest
    <2>13. HookInv'
      <3>0. e.type = "PAID" => status'[order[c]] = "paid"
        BY <2>1, <2>3
      <3>1. \A x \in receipts : order[x.checkout] \in Orders
        BY DEF Inv, TypeOK, CallInv, HookInv, Emitted, Events, EventTypes, Accepted
      <3>2. \A p \in Orders : status[p] = "paid" => status'[p] = "paid"
        BY <1>1, <1>6, <2>2, <2>3, <2>4 DEF Inv, TypeOK, Agrees, Accepted, EventTypes, Pending, Emitted
      <3>3. \A x \in receipts' : Emitted(x)' /\ (x.type = "PAID" => status'[order[x.checkout]] = "paid")
        BY <1>1, <1>3, <1>6, <3>0, <3>1, <3>2 DEF Inv, TypeOK, HookInv
      <3>4. QED
        BY <1>1, <1>2, <1>3, <1>6, <3>3 DEF Inv, TypeOK, HookInv, Finish
    <2>14. QED
      BY <2>8, <2>9, <2>10, <2>11, <2>12, <2>13 DEF Inv
  <1>7. QED
    <2>1. \/ RefuseEvent(h)
          \/ \E o \in Orders :
               /\ Matches(e, o) /\ ~Conflicts(e, o) /\ Finish(h, "ack") /\ UNCHANGED <<ev, link>>
               /\ \/ e \in receipts /\ UNCHANGED <<status, slot, pid, receipts>>
                  \/ /\ e \notin receipts
                     /\ status' = [status EXCEPT ![o] = NewStatus(e, @)]
                     /\ slot' = NewSlot(e, o, NewStatus(e, status[o]))
                     /\ pid' = [pid EXCEPT ![o] = c]
                     /\ receipts' = receipts \cup {e}
      BY DEF ApplyEvent
    <2>2. RefuseEvent(h) => UNCHANGED <<dbVars, receipts>>
      BY DEF RefuseEvent
    <2>3. QED
      BY <1>4, <1>5, <1>6, <2>1, <2>2

LEMMA NextInv == Inv /\ [Next]_vars => Inv'
  <1> SUFFICES ASSUME Inv, [Next]_vars PROVE Inv'
    OBVIOUS
  <1>1. ASSUME NEW c \in Calls, CallStep(c) PROVE Inv'
    BY <1>1, QuietCallSteps, InsertStep, RecordSteps DEF CallStep
  <1>2. ASSUME NEW c \in Calls, ProviderDecide(c) \/ ProviderSettle(c) PROVE Inv'
    BY <1>2, ProviderSteps
  <1>3. ASSUME NEW h \in Hooks, HookStep(h) PROVE Inv'
    BY <1>3, QuietHookSteps, ApplyStep DEF HookStep
  <1>4. CASE UNCHANGED vars
    <2> USE <1>4 DEF vars, dbVars, callVars, hookVars, Inv
    <2>1. TypeOK' /\ RowInv' /\ OneSlot'
      BY DEF TypeOK, RowInv, OneSlot
    <2>2. CallInv' /\ OneRequest'
      BY DEF CallInv, OneRequest, Agrees
    <2>3. HookInv'
      BY DEF HookInv, Emitted
    <2>4. QED
      BY <2>1, <2>2, <2>3
  <1>5. QED
    BY <1>1, <1>2, <1>3, <1>4 DEF Next

(* The inductive invariant holds of every behaviour of the checkout. *)
THEOREM InvHolds == Spec => []Inv
  BY InitInv, NextInv, PTL DEF Spec

(* Every row and every run keeps its type. *)
THEOREM TypeCorrect == Spec => []TypeOK
  BY InvHolds, PTL DEF Inv

LEMMA InvPayable == Inv => PayableHoldsSlot
  BY DEF Inv, TypeOK, RowInv, CallInv, Agrees, PayableHoldsSlot, Purchasable, Pending, Accepted

LEMMA InvOnePurchase == Inv => OnePurchasePerTenant
  <1> SUFFICES ASSUME Inv, NEW c \in Calls, NEW d \in Calls,
                      prov[c] \in Purchasable, prov[d] \in Purchasable,
                      TenantOf[order[c]] = TenantOf[order[d]]
               PROVE  c = d
    BY DEF OnePurchasePerTenant
  <1>1. order[c] \in slot /\ order[d] \in slot
    BY InvPayable DEF PayableHoldsSlot
  <1>2. order[c] = order[d]
    BY <1>1 DEF Inv, OneSlot
  <1>3. QED
    BY <1>2 DEF Inv, OneRequest, Purchasable

(* No tenant ever has two checkouts at the provider that can be or were    *)
(* paid, however many runs, retries, crashes and lost answers there are.   *)
THEOREM OnePurchase == Spec => []OnePurchasePerTenant
  BY InvHolds, InvOnePurchase, PTL

(* Whatever can still become a payment holds its tenant's slot. *)
THEOREM Payable == Spec => []PayableHoldsSlot
  BY InvHolds, InvPayable, PTL

(* A payment whose webhook was acknowledged is in the row. *)
THEOREM AcknowledgedPayment == Spec => []AcknowledgedPaymentIsRecorded
  <1>1. Inv => AcknowledgedPaymentIsRecorded
    BY DEF Inv, HookInv, AcknowledgedPaymentIsRecorded
  <1>2. QED
    BY InvHolds, <1>1, PTL

(* The row says paid only of a checkout that the provider saw paid. *)
THEOREM PaidMeansPaid == Spec => []PaidOnlyIfPaid
  <1>1. Inv => PaidOnlyIfPaid
    BY DEF Inv, RowInv, PaidOnlyIfPaid
  <1>2. QED
    BY InvHolds, <1>1, PTL

(* One payable checkout for a tenant, and it holds the slot. *)
THEOREM SlotIsSafe == Spec => []SlotSafety
  BY OnePurchase, Payable, PTL DEF SlotSafety

(* Rows and the provider agree on what is paid, as far as acknowledged. *)
THEOREM PaymentIsSafe == Spec => []PaymentSafety
  BY AcknowledgedPayment, PaidMeansPaid, PTL DEF PaymentSafety

(* What one step can do to the status column. *)
Ongoing == Pending \cup {"open"}

StatusStep(o) ==
    /\ \A p \in Orders \ {o} : status'[p] = status[p]
    /\ \/ status'[o] = status[o]
       \/ status[o] = "none" /\ ~SlotTaken(TenantOf[o]) /\ status'[o] = "creating"
       \/ status[o] \in Ongoing /\ status'[o] \in Ongoing \cup Closed \cup {"paid"}

LEMMA ApplyStatus ==
  ASSUME Inv, NEW h \in Hooks, ApplyEvent(h)
  PROVE  status' = status \/ \E o \in Orders : StatusStep(o)
  <1> DEFINE e == ev[h]
             c == e.checkout
  <1>1. e \in Events /\ c \in Calls /\ Emitted(e) /\ prov[c] \in Accepted /\ order[c] \in Orders
    BY DEF Inv, TypeOK, HookInv, CallInv, ApplyEvent, Events, EventTypes, Emitted, Accepted
  <1>2. CASE status' = status
    BY <1>2
  <1>3. ASSUME NEW o \in Orders, Matches(e, o), status' = [status EXCEPT ![o] = NewStatus(e, @)]
        PROVE  StatusStep(o)
    <2>1. o = order[c]
      BY <1>1, <1>3, CallsAssumption DEF Inv, RowInv, CallInv, Matches
    <2>2. Agrees(status[o], prov[c]) /\ e.type \in EventTypes
      BY <1>1, <2>1 DEF Inv, CallInv, Accepted, Events
    <2>3. status'[o] = NewStatus(e, status[o]) /\ \A p \in Orders \ {o} : status'[p] = status[p]
      BY <1>3 DEF Inv, TypeOK
    <2>4. \/ status'[o] = status[o]
          \/ status[o] \in Ongoing /\ status'[o] \in Ongoing \cup Closed \cup {"paid"}
      BY <1>1, <2>2, <2>3 DEF Agrees, EventTypes, Pending, Accepted, NewStatus, Openable, Ongoing, Closed, Emitted
    <2>5. QED
      BY <2>3, <2>4 DEF StatusStep
  <1>4. QED
    BY <1>2, <1>3 DEF ApplyEvent, RefuseEvent, dbVars

LEMMA NextStatus ==
  ASSUME Inv, [Next]_vars
  PROVE  status' = status \/ \E o \in Orders : StatusStep(o)
  <1>1. ASSUME NEW c \in Calls, Insert(c) PROVE status' = status \/ StatusStep(order[c])
    BY <1>1 DEF Insert, MayInsert, StatusStep, Inv, TypeOK, dbVars
  <1>2. ASSUME NEW c \in Calls, RecordFailure(c) \/ RecordCreated(c)
        PROVE  status' = status \/ StatusStep(order[c])
    BY <1>2 DEF RecordFailure, RecordCreated, StillCreating, IsUncertain, StatusStep, Inv, TypeOK, dbVars, Ongoing, Pending, Closed
  <1>3. ASSUME NEW c \in Calls, Insert(c) \/ RecordFailure(c) \/ RecordCreated(c)
        PROVE  order[c] \in Orders
    BY <1>3 DEF Insert, RecordFailure, RecordCreated, Inv, CallInv
  <1>4. ASSUME NEW c \in Calls,
               \/ (\E o \in Orders : ReadExisting(c, o)) \/ ReadSlot(c) \/ Answer(c) \/ CrashCall(c)
               \/ ProviderDecide(c) \/ ProviderSettle(c)
        PROVE  status' = status
    BY <1>4 DEF ReadExisting, ReadSlot, Answer, CrashCall, ProviderDecide, ProviderSettle, dbVars
  <1>5. ASSUME NEW h \in Hooks,
               (\E e \in Events : ReceiveEvent(h, e)) \/ Acknowledge(h) \/ CrashHook(h)
        PROVE  status' = status
    BY <1>5 DEF ReceiveEvent, Acknowledge, CrashHook, dbVars
  <1>6. CASE UNCHANGED vars
    BY <1>6 DEF vars, dbVars
  <1>7. QED
    BY <1>1, <1>2, <1>3, <1>4, <1>5, <1>6, ApplyStatus DEF Next, CallStep, HookStep

(* A closed or paid order never changes its status again. *)
THEOREM StaysOver == Spec => OverIsOver
  <1>1. Inv /\ [Next]_vars =>
          [\A o \in Orders : status[o] \in Closed \cup {"paid"} => status'[o] = status[o]]_vars
    BY NextStatus DEF StatusStep, Ongoing, Pending, Closed
  <1>2. QED
    BY InvHolds, <1>1, PTL DEF Spec, OverIsOver

(* The checkout implements the abstract subscription slot. *)
THEOREM Implements == Spec => ImplementsSlot
  <1> DEFINE Phase == [o \in Orders |-> PhaseOf(o)]
  <1>1. Init => Slot!Init
    BY DEF Init, Slot!Init, PhaseOf, Pending, Closed
  <1>2. ASSUME Inv, [Next]_vars PROVE [Slot!Next]_Phase
    <2>1. CASE status' = status
      BY <2>1 DEF PhaseOf
    <2>2. ASSUME NEW o \in Orders, StatusStep(o) PROVE [Slot!Next]_Phase
      <3>1. \A p \in Orders \ {o} : PhaseOf(p)' = PhaseOf(p)
        BY <2>2 DEF StatusStep, PhaseOf
      <3>2. Phase' = [Phase EXCEPT ![o] = PhaseOf(o)']
        BY <3>1
      <3>3. CASE status'[o] = status[o]
        BY <3>2, <3>3 DEF PhaseOf
      <3>4. CASE status[o] = "none" /\ ~SlotTaken(TenantOf[o]) /\ status'[o] = "creating"
        <4>1. \A p \in Orders : TenantOf[p] = TenantOf[o] => PhaseOf(p) \notin {"held", "subscribed"}
          <5> SUFFICES ASSUME NEW p \in Orders, TenantOf[p] = TenantOf[o]
                       PROVE  PhaseOf(p) \in {"new", "over"}
            OBVIOUS
          <5>1. status[p] \in Closed \cup {"none"}
            <6>1. p \notin slot
              BY <3>4 DEF SlotTaken
            <6>2. status[p] \in Statuses
              BY <1>2 DEF Inv, TypeOK
            <6>3. QED
              BY <1>2, <6>1, <6>2 DEF Inv, RowInv, Statuses
          <5>2. QED
            BY <5>1 DEF PhaseOf, Pending, Closed
        <4>2. PhaseOf(o) = "new" /\ PhaseOf(o)' = "held"
          BY <3>4 DEF PhaseOf, Pending, Closed
        <4>3. Slot!Reserve(o)
          BY <3>2, <4>1, <4>2 DEF Slot!Reserve, Slot!Holds
        <4>4. QED
          BY <4>3 DEF Slot!Next
      <3>5. CASE status[o] \in Ongoing /\ status'[o] \in Ongoing \cup Closed \cup {"paid"}
        <4>1. PhaseOf(o) = "held"
          BY <3>5 DEF PhaseOf, Ongoing, Pending, Closed
        <4>2. PhaseOf(o)' \in {"held", "over", "subscribed"}
          BY <3>5 DEF PhaseOf, Ongoing, Pending, Closed
        <4>3. Slot!Subscribe(o) \/ Slot!Release(o) \/ Phase' = Phase
          BY <3>2, <4>1, <4>2 DEF Slot!Subscribe, Slot!Release
        <4>4. QED
          BY <4>3 DEF Slot!Next
      <3>6. QED
        BY <2>2, <3>3, <3>4, <3>5 DEF StatusStep
    <2>3. QED
      BY <1>2, <2>1, <2>2, NextStatus
  <1>3. QED
    BY <1>1, <1>2, InvHolds, PTL DEF Spec, ImplementsSlot, Slot!Spec

(* At most one order of a tenant is in a phase that holds the slot. *)
THEOREM OneHolderEver == Spec => []Slot!OneHolder
  <1>1. Inv => Slot!OneHolder
    BY DEF Inv, RowInv, OneSlot, TypeOK, Statuses, Slot!OneHolder, Slot!Holds, PhaseOf,
       Pending, Closed
  <1>2. QED
    BY <1>1, InvHolds, PTL
=============================================================================
