---------------------------- MODULE MCAuditLedger ----------------------------
(* Instances of AuditLedger for TLC. *)
EXTENDS AuditLedger, TLC

Symmetric == Permutations(Requests) \cup Permutations(Data)
=============================================================================
