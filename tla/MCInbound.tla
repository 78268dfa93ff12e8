----------------------------- MODULE MCInbound -----------------------------
(***************************************************************************)
(* Frames that need every mixture of steps, behind each form of header;    *)
(* all paths of some length; two nested events, and lookups of paths that  *)
(* are them, lie below, between or beside them, or share their letters.    *)
(***************************************************************************)
EXTENDS Inbound

CONSTANT MaxLen  \* bound: the longest path

MCInputs == UNION {[1 .. n -> Chars] : n \in 0 .. MaxLen}

MCLens == 0 .. 43
MCOutLens == {0, 1, 124, 125, 126, 127, 128, 255, 256, 65534, 65535, 65536, 65537,
              16777215, 16777216, 2147483600}

A == <<"a">>
AsB == <<"a", "/", "b">>

MCHandlers == {A, AsB}
MCQueries == {A, AsB, <<"b">>, <<"a", "b">>, <<"a", "b", "b">>, <<"a", "/", "a">>,
              <<"a", "/", "b", "b">>, <<"a", "/", "b", "/", "a">>}
=============================================================================
