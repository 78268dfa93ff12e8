------------------------------ MODULE EvsQuery ------------------------------
(***************************************************************************)
(* evs_query.c: the tree of events.  Threads register handlers with        *)
(* evs_query_insert, which builds the nodes under a mutex but names the    *)
(* last one after it; clients look events up with evs_query, which takes   *)
(* no lock.  A node is the sequence of characters that leads to it, paths  *)
(* are clean (EvsPath) and without their leading slash; nodes are never    *)
(* removed.                                                                *)
(***************************************************************************)
EXTENDS Integers, Sequences, SequencesExt, FiniteSets

CONSTANTS Threads,   \* threads that register events
          Handlers,  \* the paths they register
          Queries,   \* the paths that are looked up
          SEP,       \* the separator
          None       \* NULL

(* The root, and what leads to an event.                                   *)
Nodes == {<<>>} \cup UNION {Prefixes(p) : p \in Handlers}

(* The characters of paths.                                                *)
Symbols == UNION {Range(p) : p \in Handlers \cup Queries}

ASSUME NoneAssumption == None \notin Nodes /\ None \notin Threads
ASSUME PathsAssumption == <<>> \notin Handlers /\ Handlers \cup Queries \subseteq Seq(Symbols)

VARIABLES
  nodes,   \* the nodes there are
  named,   \* nodes with an ev_path
  childs,  \* nodes with handle_children
  lock,    \* who holds _lock
  th,      \* [Threads -> call of evs_query_insert]
  won,     \* ghost: [Handlers -> {<<thread, handle_children>> that got an event}]
  q        \* a call of evs_query; calm: nothing was registered during it

tree == <<nodes, named, childs>>
queryVars == <<tree, lock, th, won, q>>

NoCall == [pc |-> "idle", path |-> <<>>, at |-> <<>>, hc |-> FALSE]
NoQuery == [pc |-> "idle", path |-> <<>>, at |-> <<>>, handler |-> None,
            result |-> None, known |-> FALSE, calm |-> TRUE]

QueryInit ==
  /\ nodes = {<<>>} /\ named = {} /\ childs = {}
  /\ lock = None
  /\ th = [t \in Threads |-> NoCall]
  /\ won = [p \in Handlers |-> {}]
  /\ q = NoQuery

-----------------------------------------------------------------------------
(* evs_query_insert                                                        *)

Goes(t, call) == th' = [th EXCEPT ![t] = call] /\ q' = [q EXCEPT !.calm = FALSE]

AddHandler(t, p, hc) ==
  /\ th[t].pc = "idle"
  /\ lock = None
  /\ lock' = t
  /\ Goes(t, [pc |-> "walk", path |-> p, at |-> <<>>, hc |-> hc])
  /\ UNCHANGED <<tree, won>>

Child(at, path) == SubSeq(path, 1, Len(at) + 1)

(* The child is allocated unless it is there.                              *)
Walk(t) ==
  /\ th[t].pc = "walk"
  /\ th[t].at # th[t].path
  /\ nodes' = nodes \cup {Child(th[t].at, th[t].path)}
  /\ Goes(t, [th[t] EXCEPT !.at = Child(th[t].at, th[t].path)])
  /\ UNCHANGED <<named, childs, lock, won>>

Unlock(t) ==
  /\ th[t].pc = "walk"
  /\ th[t].at = th[t].path
  /\ lock' = None
  /\ Goes(t, [th[t] EXCEPT !.pc = "check"])
  /\ UNCHANGED <<tree, won>>

Exists(t) ==
  /\ th[t].pc = "check"
  /\ th[t].path \in named
  /\ Goes(t, NoCall)
  /\ UNCHANGED <<tree, lock, won>>

IsFree(t) ==
  /\ th[t].pc = "check"
  /\ th[t].path \notin named
  /\ Goes(t, [th[t] EXCEPT !.pc = "path"])
  /\ UNCHANGED <<tree, lock, won>>

(* event_init: ev_path is assigned first, handle_children later.           *)
InitPath(t) ==
  /\ th[t].pc = "path"
  /\ named' = named \cup {th[t].path}
  /\ Goes(t, [th[t] EXCEPT !.pc = "children"])
  /\ UNCHANGED <<nodes, childs, lock, won>>

InitChildren(t) ==
  /\ th[t].pc = "children"
  /\ childs' = IF th[t].hc THEN childs \cup {th[t].path} ELSE childs \ {th[t].path}
  /\ won' = [won EXCEPT ![th[t].path] = @ \cup {<<t, th[t].hc>>}]
  /\ Goes(t, NoCall)
  /\ UNCHANGED <<nodes, named, lock>>

-----------------------------------------------------------------------------
(* evs_query                                                               *)

Registering == \E t \in Threads : th[t].pc # "idle"

Query(p) ==
  /\ q.pc = "idle"
  /\ q' = [NoQuery EXCEPT !.pc = "walk", !.path = p,
                          !.known = p \in named, !.calm = ~Registering]
  /\ UNCHANGED <<tree, lock, th, won>>

(* The first node that handles children remembered, and the last one.      *)
RememberFirst(at, handler) == IF at \in childs /\ handler = None THEN at ELSE handler
Remember(at, handler) == IF at \in childs THEN at ELSE handler

Descend ==
  /\ q.pc = "walk"
  /\ q.at # q.path
  /\ Child(q.at, q.path) \in nodes
  /\ q' = [q EXCEPT !.at = Child(q.at, q.path), !.handler = Remember(q.at, q.handler)]
  /\ UNCHANGED <<tree, lock, th, won>>

(* A remembered handler that is always taken, and only at a segment's end. *)
MatchesAny(h, path) == h # None
Matches(h, path) == h # None /\ path[Len(h) + 1] = SEP

NoChild ==
  /\ q.pc = "walk"
  /\ q.at # q.path
  /\ Child(q.at, q.path) \notin nodes
  /\ LET h == Remember(q.at, q.handler)
     IN q' = [q EXCEPT !.pc = "found", !.handler = h,
                       !.result = IF Matches(h, q.path) THEN h ELSE None]
  /\ UNCHANGED <<tree, lock, th, won>>

(* Reaching the end prefers a handler of children, and the event itself.   *)
ReachedHandler == IF q.handler # None THEN q.handler
                  ELSE IF q.at \in named THEN q.at ELSE None
Reached == IF q.at \in named THEN q.at ELSE None

AtEnd ==
  /\ q.pc = "walk"
  /\ q.at = q.path
  /\ q' = [q EXCEPT !.pc = "found", !.result = Reached]
  /\ UNCHANGED <<tree, lock, th, won>>

Return ==
  /\ q.pc = "found"
  /\ q' = NoQuery
  /\ UNCHANGED <<tree, lock, th, won>>

QueryNext ==
  \/ \E t \in Threads :
       \/ \E p \in Handlers, hc \in BOOLEAN : AddHandler(t, p, hc)
       \/ Walk(t) \/ Unlock(t) \/ Exists(t) \/ IsFree(t) \/ InitPath(t) \/ InitChildren(t)
  \/ \E p \in Queries : Query(p)
  \/ Descend \/ NoChild \/ AtEnd \/ Return

QuerySpec == QueryInit /\ [][QueryNext]_queryVars

-----------------------------------------------------------------------------
(* A node's parents are there, and so is the node a lookup stands on.      *)
QueryOK ==
  /\ nodes \subseteq Nodes /\ childs \subseteq named /\ named \subseteq nodes \cap Handlers
  /\ \A n \in nodes : Prefixes(n) \subseteq nodes
  /\ lock \in Threads \cup {None}
  /\ th \in [Threads -> [pc : {"idle", "walk", "check", "path", "children"},
                          path : Handlers \cup {<<>>}, at : nodes, hc : BOOLEAN]]
  /\ \A t \in Threads : /\ th[t].pc = "walk" <=> lock = t
                        /\ th[t].pc = "children" => th[t].path \in named
  /\ won \in [Handlers -> SUBSET (Threads \X BOOLEAN)]
  /\ q \in [pc : {"idle", "walk", "found"}, path : Queries \cup {<<>>}, at : nodes,
            handler : named \cup {None}, result : named \cup {None},
            known : BOOLEAN, calm : BOOLEAN]
  /\ q.at \in Prefixes(q.path)

InSegment(h, p) == IsStrictPrefix(h, p) /\ p[Len(h) + 1] = SEP

(* Whatever is registered meanwhile, evs_query only answers with an event  *)
(* of that very path, or one that was registered for its children and that *)
(* the path is a child of: /ev2 is not handled by /ev.                     *)
FoundHandles ==
  q.pc = "found" /\ q.result # None =>
    \/ q.result = q.path
    \/ /\ InSegment(q.result, q.path)
       /\ q.result \in childs \/ \E t \in Threads : <<t, TRUE>> \in won[q.result]

(* An event that was there before the lookup is found, whatever else is    *)
(* registered while the tree is read without a lock.                       *)
KnownIsFound == q.pc = "found" /\ q.known => q.result = q.path

(* What evs_query answers, said of the events rather than of the tree: the *)
(* event itself; nothing inside another event's path; else the nearest     *)
(* event above, of those that handle children, if the path continues it    *)
(* with a new segment.                                                     *)
Above(p) == {h \in childs : IsStrictPrefix(h, p)}

Expected(p) ==
  LET nearest == {h \in Above(p) : \A g \in Above(p) : Len(g) <= Len(h)}
  IN IF p \in named THEN {p}
     ELSE IF \E h \in named : IsPrefix(p, h) THEN {None}
     ELSE IF \E h \in nearest : InSegment(h, p) THEN nearest ELSE {None}

(* A lookup that no registration overlaps answers with what is expected.   *)
AnswersExpected == q.pc = "found" /\ q.calm => q.result \in Expected(q.path)

-----------------------------------------------------------------------------
(* What the documentation says and the code does not keep (README, section *)
(* 6): none of these is an invariant.                                      *)

(* An event registered for its children handles all its unhandled          *)
(* children.                                                               *)
ChildrenHandled ==
  q.pc = "found" /\ q.calm /\ (\E h \in childs : InSegment(h, q.path)) => q.result # None

(* evs_query_insert gives an event to one caller only.                     *)
InsertedOnce == \A p \in Handlers : Cardinality(won[p]) <= 1
=============================================================================
