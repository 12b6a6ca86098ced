-------------------------- MODULE SubscriptionSlot --------------------------
(***************************************************************************)
(* What the checkout promises to a tenant, without database, provider or   *)
(* webhooks: an order waits for the tenant's only slot, holds it, and then *)
(* either keeps it for good or gives it back for good.                     *)
(***************************************************************************)
CONSTANTS Tenants, Orders, TenantOf

VARIABLE phase

Phases == {"new", "held", "subscribed", "over"}

TypeOK == phase \in [Orders -> Phases]

Init == phase = [o \in Orders |-> "new"]

Holds(o) == phase[o] \in {"held", "subscribed"}

Reserve(o) ==
    /\ phase[o] = "new"
    /\ \A p \in Orders : TenantOf[p] = TenantOf[o] => ~Holds(p)
    /\ phase' = [phase EXCEPT ![o] = "held"]

Subscribe(o) ==
    /\ phase[o] = "held"
    /\ phase' = [phase EXCEPT ![o] = "subscribed"]

Release(o) ==
    /\ phase[o] = "held"
    /\ phase' = [phase EXCEPT ![o] = "over"]

Next == \E o \in Orders : Reserve(o) \/ Subscribe(o) \/ Release(o)

Spec == Init /\ [][Next]_phase

(* At most one order of a tenant holds the slot. *)
OneHolder ==
    \A o, p \in Orders :
        Holds(o) /\ Holds(p) /\ TenantOf[o] = TenantOf[p] => o = p
=============================================================================
