------------------------------ MODULE MCBilling ------------------------------
(* Instances of Billing for TLC. *)
EXTENDS Billing, TLC

CONSTANT t1

(* One tenant only. *)
MCOneTenant == [o \in Orders |-> t1]

HookSymmetry == Permutations(Hooks)
=============================================================================
