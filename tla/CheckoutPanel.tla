---------------------------- MODULE CheckoutPanel ----------------------------
(***************************************************************************)
(* assets/js/billing-checkout.js: the panel from which an administrator    *)
(* starts a test checkout.  The panel may be mounted again while a mount   *)
(* or an order is on its way.  The server is start_checkout as the panel   *)
(* sees it; the module Billing has the whole of it.                        *)
(***************************************************************************)
EXTENDS Naturals, FiniteSets

CONSTANTS
    Paid,          \* plans with a price
    MaxRequests,   \* bound: identifiers made in a visit
    MaxForms       \* bound: forms and mounts at a time

ASSUME CheckoutAssumption == "none" \notin Paid /\ MaxRequests \in Nat

VARIABLES
    orders,        \* server: status and plan by request identifier
    requestIds,    \* requests: the identifier of each plan, 0 for none
    lastId,        \* identifiers made so far
    mounts,        \* mounts that wait for /billing/status or /billing/catalog
    forms          \* forms in the panel: their state and what they tell

checkoutVars == <<orders, requestIds, lastId, mounts, forms>>

Ids == 1..MaxRequests
Slots == 1..MaxForms

NoOrder == [status |-> "none", plan |-> "none"]
NoForm == [at |-> "none", plan |-> "none", id |-> 0, told |-> "none"]

CheckoutInit ==
    /\ orders = [i \in Ids |-> NoOrder]
    /\ requestIds = [p \in Paid |-> 0] /\ lastId = 0
    /\ mounts = [k \in Slots |-> IF k = 1 THEN "status" ELSE "none"]
    /\ forms = [k \in Slots |-> NoForm]

Active == \E i \in Ids : orders[i].status \in {"creating", "unknown", "open", "paid"}

\* The section, the button to update, the one to try again: nothing tells them
\* that another mount is on its way.
MountCheckout(k) ==
    /\ mounts[k] = "none"
    /\ mounts' = [mounts EXCEPT ![k] = "status"]
    /\ UNCHANGED <<orders, requestIds, lastId, forms>>

\* The content is replaced; a form follows when a checkout may be started.
CheckoutStatus(k) ==
    /\ mounts[k] = "status"
    /\ forms' = [f \in Slots |-> NoForm]
    /\ mounts' = [mounts EXCEPT ![k] = IF Active THEN "none" ELSE "catalog"]
    /\ UNCHANGED <<orders, requestIds, lastId>>

CheckoutForm(k, f) ==
    /\ mounts[k] = "catalog" /\ forms[f].at = "none"
    /\ mounts' = [mounts EXCEPT ![k] = "none"]
    /\ forms' = [forms EXCEPT ![f].at = "idle"]
    /\ UNCHANGED <<orders, requestIds, lastId>>

MountFails(k) ==
    /\ mounts[k] # "none"
    /\ mounts' = [mounts EXCEPT ![k] = "none"]
    /\ forms' = [f \in Slots |-> NoForm]
    /\ UNCHANGED <<orders, requestIds, lastId>>

(* Mutant: every submission is a request of its own. *)
KnownRequestNever(p) == FALSE

\* A plan keeps its identifier as long as the page is loaded.
KnownRequest(p) == requestIds[p] # 0

SubmitOrder(f, p) ==
    /\ forms[f].at \in {"idle", "error"}
    /\ IF KnownRequest(p) THEN UNCHANGED <<requestIds, lastId>>
       ELSE /\ lastId < MaxRequests /\ lastId' = lastId + 1
            /\ requestIds' = [requestIds EXCEPT ![p] = lastId']
    /\ forms' = [forms EXCEPT ![f] = [at |-> "sent", plan |-> p, id |-> requestIds'[p], told |-> "none"]]
    /\ UNCHANGED <<orders, mounts>>

Tell(f, at, told) == forms' = [forms EXCEPT ![f].at = at, ![f].told = told]

\* start_checkout: the order of the identifier, a refusal, or a new order that
\* goes to the provider. An order that a webhook opened has no address as long
\* as the provider has not answered.
ServerTakes(f) ==
    LET i == forms[f].id IN
    /\ forms[f].at = "sent"
    /\ CASE orders[i].status = "open" ->
              (Tell(f, "done", "link") \/ Tell(f, "error", "no link")) /\ UNCHANGED orders
         [] orders[i].status \in {"creating", "unknown"} ->
              Tell(f, "error", "reconcile") /\ UNCHANGED orders
         [] orders[i].status \in {"paid", "closed"} -> Tell(f, "error", "no link") /\ UNCHANGED orders
         [] orders[i].status = "none" /\ Active -> Tell(f, "error", "another") /\ UNCHANGED orders
         [] OTHER ->
              /\ orders' = [orders EXCEPT ![i] = [status |-> "creating", plan |-> forms[f].plan]]
              /\ Tell(f, "creating", "none")
    /\ UNCHANGED <<requestIds, lastId, mounts>>

\* The provider's answer, and what the forms that wait for it show. A webhook
\* may have moved the order meanwhile; the answer leaves it then.
AwaitsProvider(f, i) == forms[f].at = "creating" /\ forms[f].id = i

LinkShown(status) ==
    IF status = "open" THEN [at |-> "done", told |-> "link"] ELSE [at |-> "error", told |-> "no link"]

ProviderAnswers(i, status) ==
    LET creating == orders[i].status = "creating"
        shown == IF status = "open" THEN LinkShown(orders'[i].status) ELSE [at |-> "error", told |-> "unavailable"] IN
    /\ creating \/ \E f \in Slots : AwaitsProvider(f, i)
    /\ status \in {"open", "unknown", "closed"}
    /\ orders' = IF creating THEN [orders EXCEPT ![i].status = status] ELSE orders
    /\ forms' = [f \in Slots |->
         IF AwaitsProvider(f, i) THEN [forms[f] EXCEPT !.at = shown.at, !.told = shown.told] ELSE forms[f]]
    /\ UNCHANGED <<requestIds, lastId, mounts>>

\* receive_webhook, without the panel: a late creation opens only an order that
\* waits for its own, an end is taken while the order is not over, a payment also
\* later, unless another order has the slot of the organization.
OrderMoves(i, status) ==
    /\ \/ orders[i].status \in {"creating", "unknown"} /\ status \in {"open", "paid", "closed"}
       \/ orders[i].status = "open" /\ status \in {"paid", "closed"}
       \/ orders[i].status = "closed" /\ ~Active /\ status = "paid"
    /\ orders' = [orders EXCEPT ![i].status = status]
    /\ UNCHANGED <<requestIds, lastId, mounts, forms>>

\* The answer is lost on its way, the operation goes on.
AnswerLost(f) ==
    /\ forms[f].at \in {"sent", "creating"}
    /\ Tell(f, "error", "no answer")
    /\ UNCHANGED <<orders, requestIds, lastId, mounts>>

CheckoutNext ==
    \/ \E k \in Slots : MountCheckout(k) \/ CheckoutStatus(k) \/ MountFails(k)
    \/ \E k, f \in Slots : CheckoutForm(k, f)
    \/ \E f \in Slots, p \in Paid : SubmitOrder(f, p)
    \/ \E f \in Slots : ServerTakes(f) \/ AnswerLost(f)
    \/ \E i \in Ids, status \in {"open", "unknown", "paid", "closed"} :
          ProviderAnswers(i, status) \/ OrderMoves(i, status)

(***************************************************************************)
(* Properties.                                                             *)
(***************************************************************************)
\* A plan is never refused because of an order the page itself made for it: a
\* second click, a second form and a try after a lost answer come to that order.
OwnOrderIsFound ==
    [][\A f \in Slots : forms[f].at = "sent" /\ forms'[f].told = "another"
         => ~ \E i \in Ids : orders[i].plan = forms[f].plan]_checkoutVars

\* And the page makes one order for a plan, whatever happens to the answers.
OneOrderPerPlan ==
    \A i, j \in Ids : orders[i].plan = orders[j].plan /\ orders[i].plan # "none" => i = j
=============================================================================
