---------------------------- MODULE MCClientSubs ----------------------------
(* Instance of ClientSubs for TLC.                                         *)
EXTENDS ClientSubs, TLC

Symmetry == Permutations(Clients) \cup Permutations(Subs) \cup Permutations(Calls)
              \cup Permutations(Paths)
=============================================================================
