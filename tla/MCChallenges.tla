---------------------------- MODULE MCChallenges ----------------------------
(* Instances of Challenges for TLC. *)
EXTENDS Challenges, TLC

CONSTANTS e1

MCEmailOf == [k \in Challenges |-> e1]

Symmetric == Permutations(Requests) \cup Permutations(Challenges)
=============================================================================
