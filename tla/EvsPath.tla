------------------------------ MODULE EvsPath ------------------------------
(***************************************************************************)
(* evs_clean_path: a path is cleaned in place, character by character; the *)
(* end of the buffer stands for the terminating NUL.                       *)
(***************************************************************************)
EXTENDS Integers, Sequences, FiniteSets

CONSTANTS SLASH,   \* the separator
          Good,    \* the other characters of _allowed_chars
          Other,   \* characters that are dropped
          Inputs   \* paths that are given to evs_clean_path

Chars == Good \cup Other \cup {SLASH}
Allowed == Good \cup {SLASH}

ASSUME CharsAssumption == SLASH \notin Good /\ SLASH \notin Other /\ Good \cap Other = {}
ASSUME InputsAssumption == \A p \in Inputs : p \in Seq(Chars)

VARIABLES
  input,    \* the path as it was
  buf,      \* ev_path
  curr,     \* curr, as an index
  writing,  \* writing, as an index
  pc        \* "char" in the outer loop, "skip" in the inner one, "done"

pathVars == <<input, buf, curr, writing, pc>>

PathInit ==
  /\ input \in Inputs
  /\ buf = input
  /\ curr = 1
  /\ writing = 1
  /\ pc = "char"

PathEnds == curr > Len(buf)

(* A loop that only skips further slashes, and the inner loop there is.    *)
SkippedSlash(c) == c = SLASH
Skipped(c) == c = SLASH \/ c \notin Allowed

(* One turn of the outer loop.                                             *)
Char ==
  /\ pc = "char"
  /\ ~PathEnds
  /\ IF buf[curr] \in Allowed
       THEN buf' = [buf EXCEPT ![writing] = buf[curr]] /\ writing' = writing + 1
       ELSE UNCHANGED <<buf, writing>>
  /\ pc' = IF buf[curr] = SLASH THEN "skip" ELSE "char"
  /\ curr' = curr + 1
  /\ UNCHANGED input

Skip ==
  /\ pc = "skip"
  /\ ~PathEnds
  /\ Skipped(buf[curr])
  /\ curr' = curr + 1
  /\ UNCHANGED <<input, buf, writing, pc>>

SkipEnd ==
  /\ pc = "skip"
  /\ ~PathEnds => ~Skipped(buf[curr])
  /\ pc' = "char"
  /\ UNCHANGED <<input, buf, curr, writing>>

(* The slash at the end kept, and dropped; ev_path ends at writing.        *)
TrailingKept == writing
Trailing == IF writing > 1 /\ buf[writing - 1] = SLASH THEN writing - 1 ELSE writing

Finish ==
  /\ pc = "char"
  /\ PathEnds
  /\ writing' = Trailing
  /\ pc' = "done"
  /\ UNCHANGED <<input, buf, curr>>

PathNext == Char \/ Skip \/ SkipEnd \/ Finish

PathSpec == PathInit /\ [][PathNext]_pathVars

Path == SubSeq(buf, 1, writing - 1)

-----------------------------------------------------------------------------
(* curr never passes the NUL and writing never passes the buffer's end.    *)
PathOK ==
  /\ input \in Seq(Chars) /\ buf \in Seq(Chars) /\ Len(buf) = Len(input)
  /\ curr \in 1 .. Len(buf) + 1 /\ writing \in 1 .. Len(buf) + 1
  /\ pc \in {"char", "skip", "done"}

(* What is cleaned in place is never overwritten before it was read.       *)
UnreadUntouched ==
  /\ writing <= curr
  /\ \A i \in curr .. Len(buf) : buf[i] = input[i]

(* A clean path has only characters that evs_query has an index for, no    *)
(* empty segment, and no slash at its end.                                 *)
WellFormed ==
  pc = "done" =>
    /\ \A i \in 1 .. writing - 1 : buf[i] \in Allowed
    /\ \A i \in 1 .. writing - 2 : ~(buf[i] = SLASH /\ buf[i + 1] = SLASH)
    /\ writing > 1 => buf[writing - 1] # SLASH

(* The reference does not work in place.  A gap begins with a slash and    *)
(* goes on to the next good character.  Good characters stay, and of the   *)
(* slashes those that begin a gap which ends.                              *)
InGap(p, i) ==
  \E j \in 1 .. i - 1 : p[j] = SLASH /\ \A k \in j + 1 .. i - 1 : p[k] \notin Good
Stays(p) == {i \in DOMAIN p :
               \/ p[i] \in Good
               \/ p[i] = SLASH /\ ~InGap(p, i) /\ \E k \in i + 1 .. Len(p) : p[k] \in Good}

(* c is what stays of p, in its order.                                     *)
CleansTo(p, c) ==
  /\ Len(c) = Cardinality(Stays(p))
  /\ \A i \in Stays(p) : c[Cardinality({j \in Stays(p) : j <= i})] = p[i]

(* Nothing else is lost: the path is cleaned to what the reference says,   *)
(* and of a path that was cleaned everything stays.                        *)
CleansAsDefined == pc = "done" => CleansTo(input, Path) /\ Stays(Path) = DOMAIN Path
=============================================================================
