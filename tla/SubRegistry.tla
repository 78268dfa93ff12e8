---------------------------- MODULE SubRegistry ----------------------------
(***************************************************************************)
(* What sub_get, sub_ref and sub_unref promise their callers (src/sub.h):  *)
(* a path names at most one subscription that anybody holds a reference    *)
(* to, every sub_get answers with that one, and a subscription disappears  *)
(* with its last reference.  Each operation is a single step here.         *)
(***************************************************************************)
EXTENDS Naturals

CONSTANTS Threads, \* the threads that call into sub.c
          Subs,    \* addresses a struct subscription may live at
          Paths,   \* the ev_extra values of one event
          NULL,
          MISSING  \* the answer of a lookup that found nothing

VARIABLES refs,    \* references held to each subscription, 0 when there is none
          name,    \* the path a referenced subscription is for
          asked,   \* the path the sub_get of each thread asks for
          answer   \* what the lookup of each thread found, until it returns

vars == <<refs, name, asked, answer>>

Live(p) == {s \in Subs : refs[s] > 0 /\ name[s] = p}

Init ==
  /\ refs = [s \in Subs |-> 0]
  /\ name = [s \in Subs |-> NULL]
  /\ asked = [t \in Threads |-> NULL]
  /\ answer = [t \in Threads |-> NULL]

Ask(t, p) ==
  /\ asked[t] = NULL
  /\ asked' = [asked EXCEPT ![t] = p]
  /\ UNCHANGED <<refs, name, answer>>

Find(t, s) ==
  /\ answer[t] = NULL
  /\ s \in Live(asked[t])
  /\ refs' = [refs EXCEPT ![s] = refs[s] + 1]
  /\ answer' = [answer EXCEPT ![t] = s]
  /\ UNCHANGED <<name, asked>>

Miss(t) ==
  /\ asked[t] # NULL
  /\ answer[t] = NULL
  /\ Live(asked[t]) = {}
  /\ answer' = [answer EXCEPT ![t] = MISSING]
  /\ UNCHANGED <<refs, name, asked>>

Create(t, s) ==
  /\ asked[t] # NULL
  /\ answer[t] = NULL
  /\ Live(asked[t]) = {}
  /\ refs[s] = 0
  /\ refs' = [refs EXCEPT ![s] = 1]
  /\ name' = [name EXCEPT ![s] = asked[t]]
  /\ answer' = [answer EXCEPT ![t] = s]
  /\ UNCHANGED asked

Return(t) ==
  /\ answer[t] # NULL
  /\ answer' = [answer EXCEPT ![t] = NULL]
  /\ asked' = [asked EXCEPT ![t] = NULL]
  /\ UNCHANGED <<refs, name>>

Ref(s) ==
  /\ refs[s] > 0
  /\ refs' = [refs EXCEPT ![s] = refs[s] + 1]
  /\ UNCHANGED <<name, asked, answer>>

Unref(s) ==
  /\ refs[s] > 0
  /\ refs' = [refs EXCEPT ![s] = refs[s] - 1]
  /\ name' = [name EXCEPT ![s] = IF refs[s] = 1 THEN NULL ELSE name[s]]
  /\ UNCHANGED <<asked, answer>>

Next ==
  \/ \E t \in Threads, p \in Paths : Ask(t, p)
  \/ \E t \in Threads, s \in Subs : Find(t, s) \/ Create(t, s)
  \/ \E t \in Threads : Miss(t) \/ Return(t)
  \/ \E s \in Subs : Ref(s) \/ Unref(s)

Spec == Init /\ [][Next]_vars
=============================================================================
