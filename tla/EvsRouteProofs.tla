--------------------------- MODULE EvsRouteProofs ---------------------------
(***************************************************************************)
(* Every event that asks for a callback is answered by one party only, and *)
(* the client knows of every server callback, for any number of threads,   *)
(* events, subscriptions, slots and callbacks.                             *)
(***************************************************************************)
EXTENDS EvsRoute, TLAPS

(* A token that was not given out yet has no answers.                      *)
Unasked == \A n \in Tokens : n > reqs => answers[n] = 0

IInv == TypeOK /\ OwedOnce /\ Unasked /\ CallbacksKnown

(* The thread is the one to answer tok: it was just asked, or owes it.     *)
Turn(t, tok) == Calls(t, tok) \/ (Owes(t) /\ th[t].tok = tok /\ UNCHANGED reqs)

(* What a step that goes on with t's event may do to the debts of others.  *)
OnlyTouches(t, tok) ==
  /\ \A u \in Threads \ {t} : th'[u] = th[u]
  /\ \A n \in 1 .. reqs' : n # tok => ~(Owes(t)' /\ th'[t].tok = n)

-----------------------------------------------------------------------------
(* Nobody else owes what it is the turn of a thread to answer, and that    *)
(* thread owes nothing else.                                               *)
LEMMA TurnFacts ==
  ASSUME IInv, NEW t \in Threads, NEW tok, Turn(t, tok)
  PROVE  /\ reqs' \in 0 .. MaxReqs /\ reqs <= reqs' /\ tok \in 0 .. reqs'
         /\ \A n \in 1 .. reqs' : n # tok => n \in 1 .. reqs /\ t \notin Holders(n)
         /\ tok # 0 => answers[tok] = 0 /\ Holders(tok) \subseteq {t} /\ Deferred(tok) = {}
         /\ \A n \in Tokens : n > reqs' => n > reqs /\ n # tok
<1>1. CASE Calls(t, tok)
  <2>1. /\ reqs' \in 0 .. MaxReqs /\ reqs <= reqs' /\ tok \in 0 .. reqs'
        /\ \A n \in 1 .. reqs' : n # tok => n \in 1 .. reqs
        /\ \A n \in Tokens : n > reqs' => n > reqs /\ n # tok
        /\ tok # 0 => tok = reqs + 1
    BY <1>1, BoundsAssumption DEF Calls, IInv, TypeOK, NoCallback, Tokens
  <2>2. \A n : t \notin Holders(n)
    BY <1>1 DEF Calls, Idle, Holders, Owes
  <2>3. ASSUME tok # 0 PROVE answers[tok] = 0 /\ Holders(tok) \subseteq {t} /\ Deferred(tok) = {}
    <3>1. tok = reqs + 1 /\ tok \in Tokens /\ reqs \in Nat
      BY <2>1, <2>3, BoundsAssumption DEF Tokens, IInv, TypeOK
    <3>2. \A u \in Threads : th[u].tok \in 0 .. reqs
      BY DEF IInv, TypeOK
    <3>3. \A x \in later : x.tok \in 0 .. reqs
      BY DEF IInv, TypeOK
    <3>4. answers[tok] = 0
      BY <3>1 DEF IInv, Unasked
    <3>5. Holders(tok) = {}
      BY <3>1, <3>2 DEF Holders
    <3>6. Deferred(tok) = {}
      BY <3>1, <3>3 DEF Deferred
    <3> QED BY <3>4, <3>5, <3>6
  <2> QED BY <2>1, <2>2, <2>3
<1>2. CASE Owes(t) /\ th[t].tok = tok /\ UNCHANGED reqs
  <2>1. reqs \in 0 .. MaxReqs /\ tok \in 0 .. reqs /\ reqs' = reqs
    BY <1>2 DEF IInv, TypeOK
  <2>2. t \in Holders(tok) /\ \A n : n # tok => t \notin Holders(n)
    BY <1>2 DEF Holders
  <2>3. ASSUME tok # 0 PROVE answers[tok] = 0 /\ Holders(tok) \subseteq {t} /\ Deferred(tok) = {}
    <3>1. tok \in 1 .. reqs
      BY <2>1, <2>3, BoundsAssumption
    <3>2. answers[tok] = 0 /\ OneDebtor(tok)
      BY <3>1, <2>2 DEF IInv, OwedOnce, NoDebtor
    <3> QED BY <3>2, <2>2 DEF OneDebtor
  <2>4. \A n \in Tokens : n > reqs' => n > reqs /\ n # tok
    BY <2>1, BoundsAssumption DEF Tokens
  <2> QED BY <2>1, <2>2, <2>3, <2>4, BoundsAssumption
<1> QED BY <1>1, <1>2 DEF Turn

(* The debts of the other tokens stay when a thread takes its turn.        *)
LEMMA OthersKept ==
  ASSUME IInv, NEW t \in Threads, NEW tok, Turn(t, tok), OnlyTouches(t, tok),
         NEW n \in 1 .. reqs', n # tok
  PROVE  n \in 1 .. reqs /\ Holders(n)' = Holders(n)
<1>1. n \in 1 .. reqs /\ t \notin Holders(n)
  BY TurnFacts
<1>2. t \notin Holders(n)'
  BY DEF OnlyTouches, Holders
<1>3. \A u \in Threads \ {t} : u \in Holders(n)' <=> u \in Holders(n)
  BY DEF OnlyTouches, Holders, Owes
<1> QED BY <1>1, <1>2, <1>3 DEF Holders

(* A thread in its turn answers, and is done with the token.               *)
LEMMA Settles ==
  ASSUME IInv, NEW t \in Threads, NEW tok, Turn(t, tok), OnlyTouches(t, tok),
         ~Owes(t)', later' = later, Answered(tok)
  PROVE  OwedOnce' /\ Unasked'
<1>0. /\ reqs' \in 0 .. MaxReqs /\ reqs <= reqs' /\ tok \in 0 .. reqs'
      /\ tok # 0 => answers[tok] = 0 /\ Holders(tok) \subseteq {t} /\ Deferred(tok) = {}
      /\ \A n \in Tokens : n > reqs' => n > reqs /\ n # tok
  BY TurnFacts
<1>1. ASSUME NEW n \in 1 .. reqs', n # tok
      PROVE  IF answers'[n] = 0 THEN OneDebtor(n)' ELSE answers'[n] = 1 /\ NoDebtor(n)'
  <2>1. n \in 1 .. reqs /\ Holders(n)' = Holders(n) /\ Deferred(n)' = Deferred(n)
    BY <1>1, OthersKept DEF Deferred
  <2>2. n \in Tokens
    BY <1>0, <1>1, BoundsAssumption DEF Tokens
  <2>3. answers'[n] = answers[n]
    BY <1>1, <2>2 DEF Answered
  <2> QED BY <2>1, <2>3 DEF IInv, OwedOnce, OneDebtor, NoDebtor
<1>2. ASSUME tok \in 1 .. reqs' PROVE answers'[tok] = 1 /\ NoDebtor(tok)'
  <2>1. tok \in Tokens /\ tok # 0
    BY <1>0, <1>2, BoundsAssumption DEF Tokens
  <2>2. answers'[tok] = 1
    BY <1>0, <2>1 DEF Answered
  <2>3. Deferred(tok)' = {}
    BY <1>0, <2>1 DEF Deferred
  <2>4. \A u \in Threads \ {t} : u \notin Holders(tok)'
    BY <1>0, <2>1 DEF OnlyTouches, Holders, Owes
  <2>5. Holders(tok)' = {}
    BY <2>4 DEF Holders
  <2> QED BY <2>2, <2>3, <2>5 DEF NoDebtor
<1>3. OwedOnce'
  BY <1>1, <1>2 DEF OwedOnce
<1>4. Unasked'
  BY <1>0 DEF Unasked, Answered, IInv
<1> QED BY <1>3, <1>4

(* A thread in its turn still owes the token after the step.               *)
LEMMA Keeps ==
  ASSUME IInv, NEW t \in Threads, NEW tok, Turn(t, tok), OnlyTouches(t, tok),
         Owes(t)', th'[t].tok = tok, later' = later, answers' = answers
  PROVE  OwedOnce' /\ Unasked'
<1>0. /\ reqs' \in 0 .. MaxReqs /\ tok \in 0 .. reqs'
      /\ tok # 0 => answers[tok] = 0 /\ Holders(tok) \subseteq {t} /\ Deferred(tok) = {}
      /\ \A n \in Tokens : n > reqs' => n > reqs
  BY TurnFacts
<1>1. ASSUME NEW n \in 1 .. reqs', n # tok
      PROVE  IF answers'[n] = 0 THEN OneDebtor(n)' ELSE answers'[n] = 1 /\ NoDebtor(n)'
  <2>1. n \in 1 .. reqs /\ Holders(n)' = Holders(n) /\ Deferred(n)' = Deferred(n)
    BY <1>1, OthersKept DEF Deferred
  <2> QED BY <2>1 DEF IInv, OwedOnce, OneDebtor, NoDebtor
<1>2. ASSUME tok \in 1 .. reqs' PROVE answers'[tok] = 0 /\ OneDebtor(tok)'
  <2>1. answers[tok] = 0 /\ Holders(tok) \subseteq {t} /\ Deferred(tok) = {}
    BY <1>0, <1>2
  <2>2. \A u \in Threads \ {t} : u \notin Holders(tok)'
    BY <2>1 DEF OnlyTouches, Holders, Owes
  <2>3. t \in Holders(tok)'
    BY DEF Holders
  <2>4. Holders(tok)' = {t}
    BY <2>2, <2>3 DEF Holders
  <2> QED BY <2>1, <2>4 DEF OneDebtor, Deferred
<1>3. OwedOnce'
  BY <1>1, <1>2 DEF OwedOnce
<1>4. Unasked'
  BY <1>0 DEF Unasked, IInv
<1> QED BY <1>3, <1>4

(* A thread in its turn leaves the answer to the application.              *)
LEMMA Defers ==
  ASSUME IInv, NEW t \in Threads, NEW tok, Turn(t, tok), OnlyTouches(t, tok),
         ~Owes(t)', NEW x, x.tok = tok, later' = later \cup {x}, answers' = answers
  PROVE  OwedOnce' /\ Unasked'
<1>0. /\ reqs' \in 0 .. MaxReqs /\ tok \in 0 .. reqs'
      /\ tok # 0 => answers[tok] = 0 /\ Holders(tok) \subseteq {t} /\ Deferred(tok) = {}
      /\ \A n \in Tokens : n > reqs' => n > reqs
  BY TurnFacts
<1>1. ASSUME NEW n \in 1 .. reqs', n # tok
      PROVE  IF answers'[n] = 0 THEN OneDebtor(n)' ELSE answers'[n] = 1 /\ NoDebtor(n)'
  <2>1. n \in 1 .. reqs /\ Holders(n)' = Holders(n)
    BY <1>1, OthersKept
  <2>2. Deferred(n)' = Deferred(n)
    BY <1>1 DEF Deferred
  <2> QED BY <2>1, <2>2 DEF IInv, OwedOnce, OneDebtor, NoDebtor
<1>2. ASSUME tok \in 1 .. reqs' PROVE answers'[tok] = 0 /\ OneDebtor(tok)'
  <2>1. answers[tok] = 0 /\ Holders(tok) \subseteq {t} /\ Deferred(tok) = {}
    BY <1>0, <1>2
  <2>2. \A u \in Threads \ {t} : u \notin Holders(tok)'
    BY <2>1 DEF OnlyTouches, Holders, Owes
  <2>3. Holders(tok)' = {}
    BY <2>2 DEF Holders
  <2>4. Deferred(tok)' = {x}
    BY <2>1 DEF Deferred
  <2> QED BY <2>1, <2>3, <2>4 DEF OneDebtor
<1>3. OwedOnce'
  BY <1>1, <1>2 DEF OwedOnce
<1>4. Unasked'
  BY <1>0 DEF Unasked, IInv
<1> QED BY <1>3, <1>4

(* What the application still has to answer is answered.                   *)
LEMMA LaterSettles ==
  ASSUME IInv, NEW x \in later, later' = later \ {x}, Answered(x.tok), UNCHANGED <<reqs, th>>
  PROVE  OwedOnce' /\ Unasked'
<1>0. x.tok \in 0 .. reqs /\ reqs \in 0 .. MaxReqs
  BY DEF IInv, TypeOK
<1>1. ASSUME NEW n \in 1 .. reqs
      PROVE  IF answers'[n] = 0 THEN OneDebtor(n)' ELSE answers'[n] = 1 /\ NoDebtor(n)'
  <2>0. Holders(n)' = Holders(n) /\ n \in Tokens
    BY <1>0, BoundsAssumption DEF Holders, Owes, Tokens
  <2>1. CASE n = x.tok
    <3>1. x \in Deferred(n)
      BY <2>1 DEF Deferred
    <3>2. answers[n] = 0 /\ Holders(n) = {} /\ Deferred(n) = {x}
      BY <3>1 DEF IInv, OwedOnce, OneDebtor, NoDebtor
    <3>3. Deferred(n)' = {}
      BY <3>2 DEF Deferred
    <3>4. answers'[n] = 1
      BY <2>0, <2>1, <3>2 DEF Answered
    <3> QED BY <2>0, <3>2, <3>3, <3>4 DEF NoDebtor
  <2>2. CASE n # x.tok
    <3>1. Deferred(n)' = Deferred(n)
      BY <2>2 DEF Deferred
    <3>2. answers'[n] = answers[n]
      BY <2>0, <2>2 DEF Answered
    <3>3. IF answers[n] = 0 THEN OneDebtor(n) ELSE answers[n] = 1 /\ NoDebtor(n)
      BY DEF IInv, OwedOnce
    <3>4. OneDebtor(n) => OneDebtor(n)'
      BY <2>0, <3>1 DEF OneDebtor, Deferred
    <3> QED BY <2>0, <3>1, <3>2, <3>3, <3>4 DEF NoDebtor
  <2> QED BY <2>1, <2>2
<1>2. OwedOnce'
  BY <1>1 DEF OwedOnce
<1>3. Unasked'
  BY <1>0, BoundsAssumption DEF Unasked, IInv, Answered, Tokens
<1> QED BY <1>2, <1>3

(* What the application still has to answer moves on without an answer.    *)
LEMMA LaterMoves ==
  ASSUME IInv, NEW x \in later, NEW y, y.tok = x.tok, later' = (later \ {x}) \cup {y},
         UNCHANGED <<reqs, th, answers>>
  PROVE  OwedOnce' /\ Unasked'
<1>1. ASSUME NEW n \in 1 .. reqs
      PROVE  IF answers'[n] = 0 THEN OneDebtor(n)' ELSE answers'[n] = 1 /\ NoDebtor(n)'
  <2>0. Holders(n)' = Holders(n)
    BY DEF Holders, Owes
  <2>1. CASE n = x.tok
    <3>1. x \in Deferred(n)
      BY <2>1 DEF Deferred
    <3>2. answers[n] = 0 /\ Holders(n) = {} /\ Deferred(n) = {x}
      BY <3>1 DEF IInv, OwedOnce, OneDebtor, NoDebtor
    <3>3. Deferred(n)' = {y}
      BY <2>1, <3>2 DEF Deferred
    <3> QED BY <2>0, <3>2, <3>3 DEF OneDebtor
  <2>2. CASE n # x.tok
    <3>1. Deferred(n)' = Deferred(n)
      BY <2>2 DEF Deferred
    <3>2. OneDebtor(n) => OneDebtor(n)'
      BY <2>0, <3>1 DEF OneDebtor, Deferred
    <3> QED BY <2>0, <3>1, <3>2 DEF NoDebtor, IInv, OwedOnce
  <2> QED BY <2>1, <2>2
<1>2. OwedOnce'
  BY <1>1 DEF OwedOnce
<1>3. Unasked'
  BY DEF Unasked, IInv
<1> QED BY <1>2, <1>3

(* Nothing that has to do with answers changes.                            *)
LEMMA NothingOwed ==
  ASSUME IInv, UNCHANGED <<reqs, th, later, answers>>
  PROVE  OwedOnce' /\ Unasked'
BY DEF IInv, OwedOnce, Unasked, OneDebtor, NoDebtor, Holders, Deferred, Owes

(* A handler that is done: the thread returns to evs_route.                *)
LEMMA Returns ==
  ASSUME IInv, NEW t \in Threads, NEW tok, NEW status, Return(t, tok, status)
  PROVE  /\ OnlyTouches(t, tok)
         /\ status = "HANDLED" => ~Owes(t)'
         /\ status # "HANDLED" => Owes(t)' /\ th'[t].tok = tok
<1>1. th' = [th EXCEPT ![t] = [pc |-> "out", tok |-> tok, status |-> status]]
  BY DEF Return, Goes
<1>2. th'[t] = [pc |-> "out", tok |-> tok, status |-> status] /\ \A u \in Threads \ {t} : th'[u] = th[u]
  BY <1>1 DEF IInv, TypeOK
<1> QED BY <1>2 DEF OnlyTouches, Owes

(* Types after a step of a thread's turn.                                  *)
LEMMA TurnTypes ==
  ASSUME IInv, NEW t \in Threads, NEW tok, Turn(t, tok),
         NEW pc \in {"cb_fn", "out"}, NEW status \in {"OK", "ERR", "HANDLED"},
         Goes(t, pc, tok, status)
  PROVE  /\ reqs' \in 0 .. MaxReqs /\ tok \in 0 .. reqs'
         /\ th' \in [Threads -> [pc : {"idle", "cb_fn", "out"}, tok : 0 .. reqs',
                                 status : {"OK", "ERR", "HANDLED"}]]
         /\ later \subseteq [tok : 0 .. reqs', path : Paths \cup {NULL}, pc : {"asked", "decided"}]
<1>1. reqs' \in 0 .. MaxReqs /\ reqs <= reqs' /\ tok \in 0 .. reqs'
  BY TurnFacts
<1>2. reqs \in Nat /\ reqs' \in Nat
  BY <1>1, BoundsAssumption DEF IInv, TypeOK
<1>3. 0 .. reqs \subseteq 0 .. reqs'
  BY <1>1, <1>2
<1>4. th' \in [Threads -> [pc : {"idle", "cb_fn", "out"}, tok : 0 .. reqs',
                           status : {"OK", "ERR", "HANDLED"}]]
  BY <1>1, <1>3 DEF Goes, IInv, TypeOK
<1>5. later \subseteq [tok : 0 .. reqs', path : Paths \cup {NULL}, pc : {"asked", "decided"}]
  BY <1>3 DEF IInv, TypeOK
<1> QED BY <1>1, <1>4, <1>5

(* Counting an answer.                                                     *)
LEMMA AnsweredType ==
  ASSUME IInv, NEW tok, Answered(tok)
  PROVE  answers' \in [Tokens -> Nat]
BY DEF Answered, IInv, TypeOK

(* The table of callbacks and what the client was told of it.              *)
CallbacksOK ==
  /\ made \in 0 .. MaxCbs /\ cbs \subseteq 1 .. made /\ told \subseteq 1 .. made
  /\ CallbacksKnown

(* Callbacks only leave the table (fired, pruned), or nothing happens.     *)
LEMMA CallbacksKept ==
  ASSUME IInv, made' = made, told' = told, cbs' \subseteq cbs
  PROVE  CallbacksOK'
BY DEF IInv, TypeOK, CallbacksOK, CallbacksKnown

(* client_cb_new, and what is sent with the new callback.                  *)
LEMMA CallbackMade ==
  ASSUME IInv, NewCb, told' = told \cup {made'}
  PROVE  CallbacksOK'
<1>1. made \in Nat /\ made' = made + 1 /\ made' \in 0 .. MaxCbs /\ 1 .. made \subseteq 1 .. made'
  BY BoundsAssumption DEF IInv, TypeOK, NewCb
<1>2. PICK lost : cbs' = (cbs \ lost) \cup {made'}
  BY DEF NewCb
<1>3. cbs \subseteq 1 .. made /\ told \subseteq 1 .. made /\ cbs \subseteq told
  BY DEF IInv, TypeOK, CallbacksKnown
<1>4. made' \in 1 .. made'
  BY <1>1
<1>5. cbs' \subseteq 1 .. made' /\ told' \subseteq 1 .. made' /\ cbs' \subseteq told'
  BY <1>1, <1>2, <1>3, <1>4
<1> QED BY <1>1, <1>5 DEF CallbacksOK, CallbacksKnown

(* evs_cb_full keeps the table in order, and counts as an answer.          *)
LEMMA RepliesCallbacks ==
  ASSUME IInv, NEW tok, Reply(tok) \/ ReplyWithCb(tok)
  PROVE  CallbacksOK' /\ Answered(tok)
<1>1. CASE Reply(tok)
  BY <1>1, CallbacksKept DEF Reply, callbacks
<1>2. CASE ReplyWithCb(tok)
  <2>1. CASE tok = NoCallback
    BY <1>2, <2>1, CallbacksKept DEF ReplyWithCb, callbacks
  <2>2. CASE tok # NoCallback
    BY <1>2, <2>2, CallbackMade DEF ReplyWithCb
  <2> QED BY <1>2, <2>1, <2>2 DEF ReplyWithCb
<1> QED BY <1>1, <1>2

(* Sums up what a step of a thread's turn has to show.                     *)
LEMMA TurnStep ==
  ASSUME IInv, NEW t \in Threads, NEW tok, Turn(t, tok),
         NEW pc \in {"cb_fn", "out"}, NEW status \in {"OK", "ERR", "HANDLED"},
         Goes(t, pc, tok, status), OwedOnce', Unasked', CallbacksOK',
         answers' \in [Tokens -> Nat],
         later' \subseteq [tok : 0 .. reqs', path : Paths \cup {NULL}, pc : {"asked", "decided"}],
         sub' \in [Paths -> {"none", "pending", "dropped", "active"}], conn' = conn
  PROVE  IInv'
BY TurnTypes DEF IInv, TypeOK, CallbacksOK

-----------------------------------------------------------------------------
(* A handler that has answered.                                            *)
LEMMA ReplyStep ==
  ASSUME IInv, NEW t \in Threads, NEW tok, Turn(t, tok), Reply(tok) \/ ReplyWithCb(tok),
         Return(t, tok, "HANDLED"), UNCHANGED <<later, conn>>,
         sub' \in [Paths -> {"none", "pending", "dropped", "active"}]
  PROVE  IInv'
<1>1. CallbacksOK' /\ Answered(tok)
  BY RepliesCallbacks
<1>2. OnlyTouches(t, tok) /\ ~Owes(t)'
  BY Returns
<1>3. OwedOnce' /\ Unasked'
  BY <1>1, <1>2, Settles
<1>4. answers' \in [Tokens -> Nat]
  BY <1>1, AnsweredType
<1>5. Goes(t, "out", tok, "HANDLED")
  BY DEF Return
<1>6. later' \subseteq [tok : 0 .. reqs', path : Paths \cup {NULL}, pc : {"asked", "decided"}]
  BY <1>5, TurnTypes
<1> QED BY <1>1, <1>3, <1>4, <1>5, <1>6, TurnStep

(* A handler that leaves the answer to evs_route.                          *)
LEMMA ReturnStep ==
  ASSUME IInv, NEW t \in Threads, NEW tok, Turn(t, tok),
         NEW status \in {"OK", "ERR"}, Return(t, tok, status),
         UNCHANGED <<later, answers, callbacks, conn>>,
         sub' \in [Paths -> {"none", "pending", "dropped", "active"}]
  PROVE  IInv'
<1>1. CallbacksOK'
  BY CallbacksKept DEF callbacks
<1>2. OnlyTouches(t, tok) /\ Owes(t)' /\ th'[t].tok = tok
  BY Returns
<1>3. OwedOnce' /\ Unasked'
  BY <1>2, Keeps
<1>4. answers' \in [Tokens -> Nat]
  BY DEF IInv, TypeOK
<1>5. Goes(t, "out", tok, status)
  BY DEF Return
<1>6. later' \subseteq [tok : 0 .. reqs', path : Paths \cup {NULL}, pc : {"asked", "decided"}]
  BY <1>5, TurnTypes
<1> QED BY <1>1, <1>3, <1>4, <1>5, <1>6, TurnStep

(* A handler that leaves the answer to the application.                    *)
LEMMA DeferStep ==
  ASSUME IInv, NEW t \in Threads, NEW tok, Turn(t, tok), NEW path \in Paths \cup {NULL},
         later' = later \cup {[tok |-> tok, path |-> path, pc |-> "asked"]},
         Return(t, tok, "HANDLED"), UNCHANGED <<answers, callbacks, conn>>,
         sub' \in [Paths -> {"none", "pending", "dropped", "active"}]
  PROVE  IInv'
<1> DEFINE x == [tok |-> tok, path |-> path, pc |-> "asked"]
<1>1. CallbacksOK'
  BY CallbacksKept DEF callbacks
<1>2. OnlyTouches(t, tok) /\ ~Owes(t)'
  BY Returns
<1>3. OwedOnce' /\ Unasked'
  <2>1. x.tok = tok /\ later' = later \cup {x}
    OBVIOUS
  <2> HIDE DEF x
  <2> QED BY <1>2, <2>1, Defers
<1>4. answers' \in [Tokens -> Nat]
  BY DEF IInv, TypeOK
<1>5. Goes(t, "out", tok, "HANDLED")
  BY DEF Return
<1>6. later' \subseteq [tok : 0 .. reqs', path : Paths \cup {NULL}, pc : {"asked", "decided"}]
  <2>1. /\ tok \in 0 .. reqs'
        /\ later \subseteq [tok : 0 .. reqs', path : Paths \cup {NULL}, pc : {"asked", "decided"}]
    BY <1>5, TurnTypes
  <2>2. x \in [tok : 0 .. reqs', path : Paths \cup {NULL}, pc : {"asked", "decided"}]
    BY <2>1
  <2> QED BY <2>1, <2>2
<1> QED BY <1>1, <1>3, <1>4, <1>5, <1>6, TurnStep

-----------------------------------------------------------------------------
(* The built-in events, and an event nobody handles.                       *)
LEMMA BuiltInStep ==
  ASSUME IInv, NEW t \in Threads, NEW tok, NotHandled(t, tok) \/ BuiltIn(t, tok)
  PROVE  IInv'
<1> DEFINE Sub == [Paths -> {"none", "pending", "dropped", "active"}]
<1>0. sub \in Sub
  BY DEF IInv, TypeOK
<1>1. CASE NotHandled(t, tok) \/ Ping(t, tok)
  BY <1>0, <1>1, ReturnStep DEF NotHandled, Ping, Turn
<1>2. CASE Hostname(t, tok) \/ NothingToSubscribe(t, tok)
  BY <1>0, <1>2, ReplyStep DEF Hostname, NothingToSubscribe, Turn
<1>3. ASSUME NEW id, CallbackMissing(t, tok, id) PROVE IInv'
  BY <1>0, <1>3, ReplyStep DEF CallbackMissing, Turn
<1>4. ASSUME NEW id, CallbackFire(t, tok, id) PROVE IInv'
  <2>1. Turn(t, tok) /\ Goes(t, "cb_fn", tok, "ERR")
    BY <1>4 DEF CallbackFire, Turn
  <2>2. CallbacksOK'
    BY <1>4, CallbacksKept DEF CallbackFire
  <2>3. th'[t] = [pc |-> "cb_fn", tok |-> tok, status |-> "ERR"]
        /\ \A u \in Threads \ {t} : th'[u] = th[u]
    BY <2>1 DEF Goes, IInv, TypeOK
  <2>4. OnlyTouches(t, tok) /\ Owes(t)' /\ th'[t].tok = tok
    BY <2>3 DEF OnlyTouches, Owes
  <2>5. later' = later /\ answers' = answers /\ sub' = sub /\ conn' = conn
    BY <1>4 DEF CallbackFire
  <2>6. OwedOnce' /\ Unasked'
    BY <2>1, <2>4, <2>5, Keeps
  <2>7. answers' \in [Tokens -> Nat] /\ sub' \in Sub
    BY <2>5 DEF IInv, TypeOK
  <2>8. later' \subseteq [tok : 0 .. reqs', path : Paths \cup {NULL}, pc : {"asked", "decided"}]
    BY <2>1, <2>5, TurnTypes
  <2> QED BY <2>1, <2>2, <2>5, <2>6, <2>7, <2>8, TurnStep
<1>5. ASSUME NEW p \in Paths,
             OnRefused(t, tok, p) \/ OnExisting(t, tok, p) \/ OnAccepted(t, tok, p)
      PROVE  IInv'
  <2>1. sub' \in Sub
    BY <1>0, <1>5 DEF OnRefused, OnExisting, OnAccepted
  <2>2. OnReplies(t, tok)
    BY <1>5 DEF OnRefused, OnExisting, OnAccepted
  <2> QED BY <2>1, <2>2, ReplyStep DEF OnReplies, Turn
<1>6. ASSUME NEW p \in Paths, OnDeferred(t, tok, p) PROVE IInv'
  <2>1. sub' \in Sub
    BY <1>0, <1>6 DEF OnDeferred
  <2> QED BY <1>6, <2>1, DeferStep DEF OnDeferred, Turn
<1>7. ASSUME NEW p \in Paths, Off(t, tok, p) PROVE IInv'
  <2>1. sub' \in Sub
    BY <1>0, <1>7 DEF Off
  <2> QED BY <1>7, <2>1, ReturnStep DEF Off, Turn
<1> QED BY <1>1, <1>2, <1>3, <1>4, <1>5, <1>6, <1>7 DEF BuiltIn

(* A handler of the application, or the function of a callback.            *)
LEMMA AppStep ==
  ASSUME IInv, NEW t \in Threads, NEW tok, App(t, tok)
  PROVE  IInv'
<1>0. sub \in [Paths -> {"none", "pending", "dropped", "active"}]
  BY DEF IInv, TypeOK
<1>1. InApp(t, tok) => Turn(t, tok)
  BY DEF InApp, Turn, Owes
<1>2. CASE AppReplies(t, tok)
  BY <1>0, <1>1, <1>2, ReplyStep DEF AppReplies
<1>3. CASE AppDefers(t, tok)
  BY <1>0, <1>1, <1>3, DeferStep DEF AppDefers
<1>4. ASSUME NEW s \in {"OK", "ERR"}, AppReturns(t, tok, s) PROVE IInv'
  BY <1>0, <1>1, <1>4, ReturnStep DEF AppReturns
<1> QED BY <1>2, <1>3, <1>4 DEF App

(* evs_route's switch on the handler's status.                             *)
LEMMA RouteEndStep ==
  ASSUME IInv, NEW t \in Threads, RouteEnd(t)
  PROVE  IInv'
<1>1. th'[t] = Idle /\ \A u \in Threads \ {t} : th'[u] = th[u]
  BY DEF RouteEnd, IInv, TypeOK
<1>2. reqs' = reqs /\ later' = later /\ sub' = sub /\ conn' = conn
  BY DEF RouteEnd
<1>3. ~Owes(t)' /\ \A tok : OnlyTouches(t, tok)
  BY <1>1 DEF Idle, Owes, OnlyTouches
<1>4. th' \in [Threads -> [pc : {"idle", "cb_fn", "out"}, tok : 0 .. reqs,
                          status : {"OK", "ERR", "HANDLED"}]]
  BY BoundsAssumption DEF RouteEnd, Idle, NoCallback, IInv, TypeOK
<1>5. OwedOnce' /\ Unasked' /\ CallbacksOK' /\ answers' \in [Tokens -> Nat]
  <2>1. CASE LeftToRoute(th[t].status)
    <3>1. Turn(t, th[t].tok)
      BY <1>2, <2>1 DEF Turn, Owes, RouteEnd, LeftToRoute
    <3>2. Reply(th[t].tok)
      BY <2>1 DEF RouteEnd
    <3>3. CallbacksOK' /\ Answered(th[t].tok)
      BY <3>2, RepliesCallbacks
    <3>4. OwedOnce' /\ Unasked'
      BY <1>2, <1>3, <3>1, <3>3, Settles
    <3> QED BY <3>3, <3>4, AnsweredType
  <2>2. CASE ~LeftToRoute(th[t].status)
    <3>1. UNCHANGED <<answers, callbacks>> /\ ~Owes(t)
      BY <2>2 DEF RouteEnd, LeftToRoute, Owes
    <3>2. \A n : Holders(n)' = Holders(n) /\ Deferred(n)' = Deferred(n)
      BY <1>1, <1>2, <1>3, <3>1 DEF Holders, Deferred, Owes
    <3>3. OwedOnce'
      BY <1>2, <3>1, <3>2 DEF IInv, OwedOnce, OneDebtor, NoDebtor
    <3>4. Unasked'
      BY <1>2, <3>1 DEF IInv, Unasked
    <3>5. CallbacksOK'
      BY <3>1, CallbacksKept DEF callbacks
    <3> QED BY <3>1, <3>3, <3>4, <3>5 DEF IInv, TypeOK
  <2> QED BY <2>1, <2>2
<1> QED BY <1>2, <1>4, <1>5 DEF IInv, TypeOK, CallbacksOK

(* The application gets round to an answer.                                *)
LEMMA LaterStep ==
  ASSUME IInv, NEW x \in later, Later(x)
  PROVE  IInv'
<1> DEFINE Whens == [tok : 0 .. reqs, path : Paths \cup {NULL}, pc : {"asked", "decided"}]
<1>0. x \in Whens /\ later \subseteq Whens
  BY DEF IInv, TypeOK
<1>1. CASE LaterReplies(x) \/ DecideReplies(x)
  <2>1. CallbacksOK' /\ Answered(x.tok)
    BY <1>1, RepliesCallbacks DEF LaterReplies, DecideReplies
  <2>2. later' = later \ {x} /\ UNCHANGED <<reqs, th, sub, conn>>
    BY <1>1 DEF LaterReplies, DecideReplies
  <2>3. OwedOnce' /\ Unasked'
    BY <2>1, <2>2, LaterSettles
  <2>4. answers' \in [Tokens -> Nat]
    BY <2>1, AnsweredType
  <2> QED BY <2>1, <2>2, <2>3, <2>4 DEF IInv, TypeOK, CallbacksOK
<1>2. CASE Decide(x)
  <2> DEFINE y == [x EXCEPT !.pc = "decided"]
  <2>1. y.tok = x.tok /\ y \in Whens
    BY <1>0
  <2>2. later' = (later \ {x}) \cup {y} /\ UNCHANGED <<reqs, th, answers, callbacks, conn>>
    BY <1>2 DEF Decide
  <2>3. later' \subseteq Whens
    BY <1>0, <2>1, <2>2
  <2>4. OwedOnce' /\ Unasked'
    <3> HIDE DEF y
    <3> QED BY <2>1, <2>2, LaterMoves
  <2>5. CallbacksOK'
    BY <2>2, CallbacksKept DEF callbacks
  <2>6. x.path \in Paths
    BY <1>0, <1>2 DEF Decide
  <2>7. sub' \in [Paths -> {"none", "pending", "dropped", "active"}]
    BY <1>2, <2>6 DEF Decide, IInv, TypeOK
  <2> QED BY <2>2, <2>3, <2>4, <2>5, <2>7 DEF IInv, TypeOK, CallbacksOK
<1> QED BY <1>1, <1>2 DEF Later

(* Steps that answer nothing.                                              *)
LEMMA OtherStep ==
  ASSUME IInv, Send \/ (\E i \in cbs : Prune(i)) \/ Close \/ Closed \/ UNCHANGED vars
  PROVE  IInv'
<1>1. UNCHANGED <<reqs, th, later, answers>>
  BY DEF Send, Prune, Close, Closed, vars
<1>2. OwedOnce' /\ Unasked'
  BY <1>1, NothingOwed
<1>3. CallbacksOK'
  <2>1. CASE Send
    BY <2>1, CallbackMade DEF Send
  <2>2. CASE \E i \in cbs : Prune(i)
    BY <2>2, CallbacksKept DEF Prune
  <2>3. CASE Close \/ Closed \/ UNCHANGED vars
    BY <2>3, CallbacksKept DEF Close, Closed, vars, callbacks
  <2> QED BY <2>1, <2>2, <2>3
<1>4. /\ sub' \in [Paths -> {"none", "pending", "dropped", "active"}]
      /\ conn' \in {"open", "closing", "closed"}
  BY DEF Send, Prune, Close, Closed, vars, IInv, TypeOK
<1> QED BY <1>1, <1>2, <1>3, <1>4 DEF IInv, TypeOK, CallbacksOK

-----------------------------------------------------------------------------
(* The inductive invariant of evs_route and what answers for it.           *)
THEOREM Invariance == Spec => []IInv
<1>1. Init => IInv
  <2> SUFFICES ASSUME Init PROVE IInv
    OBVIOUS
  <2>1. TypeOK
    BY BoundsAssumption DEF Init, TypeOK, Idle, NoCallback
  <2>2. OwedOnce
    BY DEF Init, OwedOnce
  <2> QED BY <2>1, <2>2 DEF IInv, Init, Unasked, CallbacksKnown
<1>2. IInv /\ [Next]_vars => IInv'
  <2> SUFFICES ASSUME IInv, [Next]_vars PROVE IInv'
    OBVIOUS
  <2>1. ASSUME NEW t \in Threads, Step(t) PROVE IInv'
    BY <2>1, BuiltInStep, AppStep, RouteEndStep DEF Step, Continue
  <2>2. ASSUME NEW x \in later, Later(x) PROVE IInv'
    BY <2>2, LaterStep
  <2> QED BY <2>1, <2>2, OtherStep DEF Next
<1> QED BY <1>1, <1>2, PTL DEF Spec

(* The subscriptions, the callbacks and what the threads owe have their    *)
(* types: evs_route and the built-in events leave nothing half made.       *)
THEOREM TypeCorrect == Spec => []TypeOK
BY Invariance, PTL DEF IInv

(* Every event that asks for a callback has one debtor until it is         *)
(* answered, and is answered once.                                         *)
THEOREM AnswersOwedOnce == Spec => []OwedOnce
BY Invariance, PTL DEF IInv

(* The client knows of every server callback in its table.                 *)
THEOREM KnowsCallbacks == Spec => []CallbacksKnown
BY Invariance, PTL DEF IInv
=============================================================================
