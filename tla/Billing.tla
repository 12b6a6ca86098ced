------------------------------- MODULE Billing -------------------------------
(***************************************************************************)
(* The Asaas sandbox checkout: app/billing/service.py with the table of    *)
(* app/models/billing.py and the provider client of integrations/asaas.py. *)
(*                                                                         *)
(* A tenant's administrator posts a request id (an order).  start_checkout *)
(* commits a row that takes the tenant's subscription slot, calls the      *)
(* provider outside any transaction and records the answer in a second     *)
(* transaction.  The provider reports what became of the checkout through  *)
(* webhooks, which it redelivers until they are acknowledged, in any order.*)
(***************************************************************************)
EXTENDS Naturals, FiniteSets

CONSTANTS
    Tenants,
    Orders,        \* request ids; each owns at most one billing_checkouts row
    TenantOf,      \* the tenant that an order belongs to
    Calls,         \* runs of start_checkout, and the provider checkout of each
    Hooks,         \* concurrent runs of receive_webhook
    Unreferenced,  \* calls whose webhooks carry no externalReference
    Divergent,     \* calls whose PAID payload disagrees with the order
    NoOrder, NoCheckout, NoEvent

ASSUME OrdersAssumption == TenantOf \in [Orders -> Tenants] /\ NoOrder \notin Orders
ASSUME CallsAssumption ==
    NoCheckout \notin Calls /\ Unreferenced \subseteq Calls /\ Divergent \subseteq Calls

EventTypes == {"CREATED", "PAID", "CANCELED", "EXPIRED"}

(* An event id stands for one type of one provider checkout. *)
Events == [checkout : Calls, type : EventTypes]

ASSUME EventsAssumption == NoEvent \notin Events

VARIABLES
    status,    \* billing_checkouts.status by order; "none": no row
    slot,      \* the orders whose active_slot is "subscription"
    pid,       \* provider_checkout_id by order
    link,      \* the orders with a checkout_url
    pc, order, \* each run of start_checkout: its next step and its request id
    prov,      \* the provider's view of the checkout each run asked for
    receipts,  \* billing_webhook_receipts
    hook, ev,  \* each run of receive_webhook: its next step and its event
    acked      \* the events the provider saw acknowledged

dbVars   == <<status, slot, pid, link>>
callVars == <<pc, order>>
hookVars == <<receipts, hook, ev, acked>>
vars     == <<dbVars, callVars, prov, hookVars>>

Pending  == {"creating", "unknown"}
Closed   == {"canceled", "expired", "failed"}
Statuses == Pending \cup Closed \cup {"none", "open", "paid"}
Accepted == {"active", "paid", "canceled", "expired"}
ProvStates == Accepted \cup {"unsent", "sent", "rejected"}

TypeOK ==
    /\ status \in [Orders -> Statuses]
    /\ slot \subseteq Orders
    /\ pid \in [Orders -> Calls \cup {NoCheckout}]
    /\ link \subseteq Orders
    /\ pc \in [Calls -> {"idle", "slot", "insert", "waiting", "created",
                         "rejected", "uncertain", "done"}]
    /\ order \in [Calls -> Orders \cup {NoOrder}]
    /\ prov \in [Calls -> ProvStates]
    /\ receipts \subseteq Events
    /\ hook \in [Hooks -> {"idle", "apply", "ack"}]
    /\ ev \in [Hooks -> Events \cup {NoEvent}]
    /\ acked \subseteq Events

Init ==
    /\ status = [o \in Orders |-> "none"]
    /\ slot = {}
    /\ pid = [o \in Orders |-> NoCheckout]
    /\ link = {}
    /\ pc = [c \in Calls |-> "idle"]
    /\ order = [c \in Calls |-> NoOrder]
    /\ prov = [c \in Calls |-> "unsent"]
    /\ receipts = {}
    /\ hook = [h \in Hooks |-> "idle"]
    /\ ev = [h \in Hooks |-> NoEvent]
    /\ acked = {}

SlotTaken(t) == \E o \in slot : TenantOf[o] = t

-----------------------------------------------------------------------------
(* start_checkout: everything up to the provider call. *)

(* A run that ends before it inserts leaves no trace: 409, or the stored row. *)
Refuse(c) ==
    /\ pc' = [pc EXCEPT ![c] = "idle"]
    /\ order' = [order EXCEPT ![c] = NoOrder]

(* The lookup by (tenant, request_id). *)
ReadExisting(c, o) ==
    /\ pc[c] = "idle"
    /\ status[o] = "none"
    /\ pc' = [pc EXCEPT ![c] = "slot"]
    /\ order' = [order EXCEPT ![c] = o]
    /\ UNCHANGED <<dbVars, prov, hookVars>>

(* The lookup of the active slot, a second statement with its own snapshot. *)
ReadSlot(c) ==
    /\ pc[c] = "slot"
    /\ IF SlotTaken(TenantOf[order[c]])
         THEN Refuse(c)
         ELSE pc' = [pc EXCEPT ![c] = "insert"] /\ UNCHANGED order
    /\ UNCHANGED <<dbVars, prov, hookVars>>

(* The unique constraints on (tenant_id, request_id) and on the slot. *)
MayInsert(o) == status[o] = "none" /\ ~SlotTaken(TenantOf[o])

(* The constraints decide between runs that both got this far.             *)
(* After the commit the request to the provider is on its way.             *)
Insert(c) ==
    LET o == order[c] IN
    /\ pc[c] = "insert"
    /\ IF ~MayInsert(o)
         THEN Refuse(c) /\ UNCHANGED <<dbVars, prov>>
         ELSE /\ status' = [status EXCEPT ![o] = "creating"]
              /\ slot' = slot \cup {o}
              /\ pc' = [pc EXCEPT ![c] = "waiting"]
              /\ prov' = [prov EXCEPT ![c] = "sent"]
              /\ UNCHANGED <<pid, link, order>>
    /\ UNCHANGED hookVars

-----------------------------------------------------------------------------
(* The provider: it may take the request at any time after it was sent,    *)
(* even when nobody waits for the answer any more, or never.               *)

ProviderDecide(c) ==
    /\ prov[c] = "sent"
    /\ \E answer \in {"active", "rejected"} : prov' = [prov EXCEPT ![c] = answer]
    /\ UNCHANGED <<dbVars, callVars, hookVars>>

(* The payer pays or cancels, or the sixty minutes pass. *)
ProviderSettle(c) ==
    /\ prov[c] = "active"
    /\ \E end \in {"paid", "canceled", "expired"} : prov' = [prov EXCEPT ![c] = end]
    /\ UNCHANGED <<dbVars, callVars, hookVars>>

-----------------------------------------------------------------------------
(* start_checkout: the answer, and the transaction that records it. *)

(* A 4xx that only a rejection produces is certain; an accepted request may *)
(* be answered; anything else (timeout, 5xx, bad link) is uncertain.        *)
Answer(c) ==
    /\ pc[c] = "waiting"
    /\ \E answer \in {"created", "rejected", "uncertain"} :
         /\ answer = "created"  => prov[c] \in Accepted
         /\ answer = "rejected" => prov[c] = "rejected"
         /\ pc' = [pc EXCEPT ![c] = answer]
    /\ UNCHANGED <<dbVars, order, prov, hookVars>>

(* Mutant: the failure overwrites what a webhook already recorded. *)
StillCreatingUnchecked(o) == TRUE

(* Only a row that no webhook has moved yet takes the failure. *)
StillCreating(o) == status[o] = "creating"

(* Mutant: every failure frees the slot. *)
IsUncertainIgnored(c) == FALSE

IsUncertain(c) == pc[c] = "uncertain"

(* except AsaasUnavailable. *)
RecordFailure(c) ==
    LET o == order[c] IN
    /\ pc[c] \in {"rejected", "uncertain"}
    /\ IF ~StillCreating(o)
         THEN UNCHANGED <<status, slot>>
         ELSE IF IsUncertain(c)
           THEN status' = [status EXCEPT ![o] = "unknown"] /\ UNCHANGED slot
           ELSE status' = [status EXCEPT ![o] = "failed"] /\ slot' = slot \ {o}
    /\ pc' = [pc EXCEPT ![c] = "done"]
    /\ UNCHANGED <<pid, link, order, prov, hookVars>>

(* The row is read again under a lock: a webhook may have been faster. *)
RecordCreated(c) ==
    LET o == order[c] IN
    /\ pc[c] = "created"
    /\ IF pid[o] \notin {NoCheckout, c}
         THEN UNCHANGED dbVars
         ELSE /\ pid' = [pid EXCEPT ![o] = c]
              /\ link' = link \cup {o}
              /\ status' = [status EXCEPT ![o] = IF @ = "creating" THEN "open" ELSE @]
              /\ UNCHANGED slot
    /\ pc' = [pc EXCEPT ![c] = "done"]
    /\ UNCHANGED <<order, prov, hookVars>>

(* The API process dies; a request already sent is not called back. *)
CrashCall(c) ==
    /\ pc[c] \notin {"idle", "done"}
    /\ IF prov[c] = "unsent" THEN Refuse(c)
       ELSE pc' = [pc EXCEPT ![c] = "done"] /\ UNCHANGED order
    /\ UNCHANGED <<dbVars, prov, hookVars>>

-----------------------------------------------------------------------------
(* receive_webhook. *)

Emitted(e) ==
    CASE e.type = "CREATED"  -> prov[e.checkout] \in Accepted
      [] e.type = "PAID"     -> prov[e.checkout] = "paid"
      [] e.type = "CANCELED" -> prov[e.checkout] = "canceled"
      [] e.type = "EXPIRED"  -> prov[e.checkout] = "expired"

(* The receipt is looked up before any row is locked. *)
ReceiveEvent(h, e) ==
    /\ hook[h] = "idle"
    /\ Emitted(e)
    /\ ev' = [ev EXCEPT ![h] = e]
    /\ hook' = [hook EXCEPT ![h] = IF e \in receipts THEN "ack" ELSE "apply"]
    /\ UNCHANGED <<dbVars, callVars, prov, receipts, acked>>

Referenced(e) == e.checkout \notin Unreferenced

(* Mutant: the external reference is not consulted. *)
MatchesByProviderId(e, o) == status[o] # "none" /\ pid[o] = e.checkout

(* The row by provider id, or by externalReference while it has no id. *)
Matches(e, o) ==
    /\ status[o] # "none"
    /\ \/ pid[o] = e.checkout
       \/ Referenced(e) /\ o = order[e.checkout] /\ pid[o] = NoCheckout

(* Every reason for a 409 once a row is locked, in the order of the code. *)
Conflicts(e, o) ==
    \/ Referenced(e) /\ o # order[e.checkout]
    \/ e.type = "PAID" /\ e.checkout \in Divergent
    \/ e.type = "PAID" /\ \E p \in slot \ {o} : TenantOf[p] = TenantOf[o]

(* Mutant: a delayed CREATED reopens the checkout. *)
OpenableAlways(s) == TRUE

Openable(s) == s \in Pending

(* Mutant: the event type is stored as it came. *)
NewStatusRaw(e, s) == e.type

NewStatus(e, s) ==
    CASE e.type = "PAID" -> "paid"
      [] e.type # "PAID" /\ s = "paid" -> s
      [] e.type = "CREATED" /\ s # "paid" -> IF Openable(s) THEN "open" ELSE s
      [] e.type = "CANCELED" /\ s # "paid" -> "canceled"
      [] e.type = "EXPIRED" /\ s # "paid" -> "expired"

NewSlot(e, o, s) ==
    IF e.type = "PAID" THEN slot \cup {o}
    ELSE IF s \in {"canceled", "expired"} THEN slot \ {o}
    ELSE slot

Finish(h, step) == hook' = [hook EXCEPT ![h] = step]

(* Mutant: the conflict is answered with a 2xx. *)
RefuseEventAcknowledged(h) ==
    /\ Finish(h, "ack")
    /\ UNCHANGED <<dbVars, receipts, ev>>

(* A 409 leaves the event with the provider, which sends it again. *)
RefuseEvent(h) ==
    /\ Finish(h, "idle")
    /\ ev' = [ev EXCEPT ![h] = NoEvent]
    /\ UNCHANGED <<dbVars, receipts>>

(* The locked transaction.  A receipt that another delivery committed in   *)
(* the meantime makes the insert fail, and the delivery a duplicate.       *)
ApplyEvent(h) ==
    LET e == ev[h] IN
    /\ hook[h] = "apply"
    /\ \/ /\ ~\E o \in Orders : Matches(e, o)
          /\ RefuseEvent(h)
       \/ \E o \in Orders :
            /\ Matches(e, o)
            /\ IF Conflicts(e, o) THEN RefuseEvent(h)
               ELSE /\ Finish(h, "ack")
                    /\ UNCHANGED <<ev, link>>
                    /\ IF e \in receipts
                         THEN UNCHANGED <<status, slot, pid, receipts>>
                         ELSE /\ status' = [status EXCEPT ![o] = NewStatus(e, @)]
                              /\ slot' = NewSlot(e, o, NewStatus(e, status[o]))
                              /\ pid' = [pid EXCEPT ![o] = e.checkout]
                              /\ receipts' = receipts \cup {e}
    /\ UNCHANGED <<callVars, prov, acked>>

Acknowledge(h) ==
    /\ hook[h] = "ack"
    /\ acked' = acked \cup {ev[h]}
    /\ ev' = [ev EXCEPT ![h] = NoEvent]
    /\ Finish(h, "idle")
    /\ UNCHANGED <<dbVars, callVars, prov, receipts>>

(* The process dies, or its answer is lost: the provider saw no 2xx. *)
CrashHook(h) ==
    /\ hook[h] # "idle"
    /\ Finish(h, "idle")
    /\ ev' = [ev EXCEPT ![h] = NoEvent]
    /\ UNCHANGED <<dbVars, callVars, prov, receipts, acked>>

-----------------------------------------------------------------------------

CallStep(c) ==
    \/ \E o \in Orders : ReadExisting(c, o)
    \/ ReadSlot(c) \/ Insert(c) \/ Answer(c)
    \/ RecordFailure(c) \/ RecordCreated(c) \/ CrashCall(c)

HookStep(h) ==
    \/ \E e \in Events : ReceiveEvent(h, e)
    \/ ApplyEvent(h) \/ Acknowledge(h) \/ CrashHook(h)

Next ==
    \/ \E c \in Calls : CallStep(c) \/ ProviderDecide(c) \/ ProviderSettle(c)
    \/ \E h \in Hooks : HookStep(h)

Spec == Init /\ [][Next]_vars

(* For each checkout the provider redelivers what was not acknowledged, and *)
(* deliveries attempted again and again are not cut off every time.  Nothing *)
(* obliges the payer, the provider's decision or start_checkout to proceed. *)
Redeliver(c) ==
    \E h \in Hooks, e \in Events \ acked : e.checkout = c /\ ReceiveEvent(h, e)
ApplyFor(c)  == \E h \in Hooks : ApplyEvent(h) /\ ev[h].checkout = c
AnswerFor(c) == \E h \in Hooks : Acknowledge(h) /\ ev[h].checkout = c

FairSpec ==
    /\ Spec
    /\ \A c \in Calls : /\ SF_vars(Redeliver(c))
                         /\ SF_vars(ApplyFor(c))
                         /\ SF_vars(AnswerFor(c))
-----------------------------------------------------------------------------
(* Properties. *)

Purchasable == {"active", "paid"}

(* A tenant never has two provider checkouts that a payer can still pay or *)
(* has paid, whatever runs, retries and timeouts came before: start_checkout *)
(* keeps the slot through every uncertain outcome.                           *)
OnePurchasePerTenant ==
    \A c, d \in Calls :
        /\ prov[c] \in Purchasable /\ prov[d] \in Purchasable
        /\ TenantOf[order[c]] = TenantOf[order[d]]
        => c = d

(* A provider checkout that may still become a payment has a row that holds *)
(* its tenant's slot, so billing_status refuses a second purchase.          *)
PayableHoldsSlot ==
    \A c \in Calls : prov[c] \in Purchasable \cup {"sent"} => order[c] \in slot

(* The provider stops redelivering a payment only once the row says paid:  *)
(* "do not acknowledge a lost payment" (billing/service.py:154).            *)
AcknowledgedPaymentIsRecorded ==
    \A e \in acked : e.type = "PAID" => status[order[e.checkout]] = "paid"

(* The row never says paid unless the provider checkout it names was paid, *)
(* and names no checkout but the one its own run asked for.                *)
PaidOnlyIfPaid ==
    \A o \in Orders :
        /\ pid[o] # NoCheckout => order[pid[o]] = o
        /\ status[o] = "paid" => pid[o] # NoCheckout /\ prov[pid[o]] = "paid"

(* A tenant never has two checkouts that can be paid, and whatever can be   *)
(* paid holds its slot: across every run, crash and lost answer.            *)
SlotSafety == OnePurchasePerTenant /\ PayableHoldsSlot

(* Paid in the row and paid at the provider go together, as far as webhooks *)
(* were acknowledged.                                                       *)
PaymentSafety == AcknowledgedPaymentIsRecorded /\ PaidOnlyIfPaid

(* A late event or a late answer of the provider never changes the status  *)
(* of an order that is over, nor of a paid one.                             *)
OverIsOver ==
    [][\A o \in Orders : status[o] \in Closed \cup {"paid"} => status'[o] = status[o]]_vars

(* A payment whose webhook matches the order is recorded in the end, also   *)
(* when the run that asked for the checkout crashed or timed out.           *)
PaymentIsRecorded ==
    \A c \in Calls \ (Unreferenced \cup Divergent) :
        prov[c] = "paid" ~> order[c] # NoOrder /\ status[order[c]] = "paid"

(* A checkout that was canceled or expired gives the slot back in the end,  *)
(* so that the tenant can order again.                                      *)
SlotIsReleased ==
    \A c \in Calls \ Unreferenced :
        prov[c] \in {"canceled", "expired"} ~> order[c] \notin slot

(* Every order that the provider has decided is settled in the end.         *)
OrdersSettle == PaymentIsRecorded /\ SlotIsReleased

-----------------------------------------------------------------------------
(* Why the properties hold: an inductive invariant. *)

(* A row's status s goes with the provider's view p. *)
Agrees(s, p) ==
    \/ s \in Pending
    \/ s = "open" /\ p \in Accepted
    \/ s = "failed" /\ p = "rejected"
    \/ s = p /\ p \in {"paid", "canceled", "expired"}

(* A row holds the slot exactly until it is over, and its provider id is   *)
(* that of the checkout its own run obtained.                              *)
RowInv ==
    \A o \in Orders :
        /\ o \in slot <=> status[o] \in Pending \cup {"open", "paid"}
        /\ pid[o] # NoCheckout => order[pid[o]] = o /\ prov[pid[o]] \in Accepted
        /\ status[o] = "paid" => pid[o] # NoCheckout /\ prov[pid[o]] = "paid"

OneSlot == \A o, p \in slot : TenantOf[o] = TenantOf[p] => o = p

(* A request to the provider is sent at most once for an order, and the    *)
(* row keeps pace with the provider.                                       *)
CallInv ==
    \A c \in Calls :
        /\ prov[c] = "unsent" <=> pc[c] \in {"idle", "slot", "insert"}
        /\ pc[c] # "idle" => order[c] \in Orders
        /\ prov[c] # "unsent" => Agrees(status[order[c]], prov[c])
        /\ pc[c] = "created" => prov[c] \in Accepted
        /\ pc[c] = "rejected" => prov[c] = "rejected"

OneRequest ==
    \A c, d \in Calls :
        prov[c] # "unsent" /\ prov[d] # "unsent" /\ order[c] = order[d] => c = d

(* What a delivery carries or a receipt stands for did happen. *)
HookInv ==
    /\ \A h \in Hooks :
        /\ hook[h] # "idle" => ev[h] \in Events /\ Emitted(ev[h])
        /\ hook[h] = "ack" => ev[h] \in receipts
    /\ acked \subseteq receipts
    /\ \A e \in receipts :
        /\ Emitted(e)
        /\ e.type = "PAID" => status[order[e.checkout]] = "paid"

Inv == TypeOK /\ RowInv /\ OneSlot /\ CallInv /\ OneRequest /\ HookInv
-----------------------------------------------------------------------------
(* The slot as the abstract specification sees it: the row's status says   *)
(* which of the four phases its order is in.                               *)
PhaseOf(o) ==
    CASE status[o] = "none" -> "new"
      [] status[o] = "paid" -> "subscribed"
      [] status[o] \in Closed -> "over"
      [] status[o] \in Pending \cup {"open"} -> "held"

Slot == INSTANCE SubscriptionSlot WITH phase <- [o \in Orders |-> PhaseOf(o)]

(* Runs, crashes, answers and webhooks together do nothing to a tenant's   *)
(* slot but reserve it when it is free, keep it or release it, once.       *)
ImplementsSlot == Slot!Spec
=============================================================================
