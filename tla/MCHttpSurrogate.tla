-------------------------- MODULE MCHttpSurrogate --------------------------
(* Instance of HttpSurrogate for TLC.                                      *)
EXTENDS HttpSurrogate, TLC

Symmetry == Permutations(Sockets) \cup Permutations(Surrs) \cup Permutations(Sids)
              \cup Permutations(Workers) \cup Permutations(Msgs)
=============================================================================
