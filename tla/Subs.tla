-------------------------------- MODULE Subs --------------------------------
(***************************************************************************)
(* The subscription table of one event, sub.c, at the grain of its atomic  *)
(* instructions.  Any number of threads run sub_get, sub_ref and sub_unref *)
(* at once.  ev->subs is guarded by a readers/writer lock, the reference   *)
(* counts are not: they are changed by compare-and-swap and atomic add, so *)
(* a count may reach zero while the table still points at the structure.   *)
(***************************************************************************)
EXTENDS Naturals, FiniteSets

CONSTANTS Threads, \* the threads that call into sub.c
          Subs,    \* addresses g_slice_alloc0 may return; they are reused
          Paths,   \* the ev_extra values of the event
          NULL,
          MISSING, \* see SubRegistry
          MaxHeld  \* bound: no caller takes a reference beyond this many

ASSUME NullAssumption == NULL \notin Threads \cup Subs \cup Paths
ASSUME MissingAssumption == MISSING \notin Subs /\ MISSING # NULL
ASSUME ThreadsAssumption == IsFiniteSet(Threads)

VARIABLES
  writer,   \* the thread inside g_rw_lock_writer_lock(&ev->subs_lock), or NULL
  readers,  \* the threads inside g_rw_lock_reader_lock(&ev->subs_lock)
  table,    \* ev->subs: the value stored for each ev_extra
  key,      \* ev->subs: the structure whose ev_extra string serves as the key
  refs,     \* sub->refs
  ev_extra, \* sub->ev_extra, NULL where no structure is allocated
  held,     \* references that callers own and no running call is using up
  pc,       \* where each thread is
  arg,      \* sub_get's ev_extra
  or_create,\* sub_get's or_create
  sub,      \* the local variable sub of sub_get and sub_unref
  val       \* the local variable val of atomic_inc_not_zero

shared == <<writer, readers, table, key, refs, ev_extra, held>>
locals == <<pc, arg, or_create, sub, val>>
vars == <<shared, locals>>

Pcs == {"idle",
        "rlock", "wlock",                   \* sub_get, about to take the lock
        "lookup", "read", "cas",            \* _get_if_exists, under either lock
        "create", "runlock", "wunlock",     \* sub_get, after _get_if_exists
        "dec", "ulock", "remove", "uunlock", "free"} \* sub_unref

Allocated == {s \in Subs : ev_extra[s] # NULL}

Init ==
  /\ writer = NULL
  /\ readers = {}
  /\ table = [p \in Paths |-> NULL]
  /\ key = [p \in Paths |-> NULL]
  /\ refs = [s \in Subs |-> 0]
  /\ ev_extra = [s \in Subs |-> NULL]
  /\ held = [s \in Subs |-> 0]
  /\ pc = [t \in Threads |-> "idle"]
  /\ arg = [t \in Threads |-> NULL]
  /\ or_create = [t \in Threads |-> FALSE]
  /\ sub = [t \in Threads |-> NULL]
  /\ val = [t \in Threads |-> 0]

-----------------------------------------------------------------------------
(* The readers/writer lock of GLib.                                        *)

ReaderLock(t) == writer = NULL /\ readers' = readers \cup {t} /\ UNCHANGED writer
ReaderUnlock(t) == readers' = readers \ {t} /\ UNCHANGED writer
WriterLock(t) ==
  writer = NULL /\ readers = {} /\ writer' = t /\ UNCHANGED readers
WriterUnlock(t) == writer' = NULL /\ UNCHANGED readers

Goto(t, label) == pc' = [pc EXCEPT ![t] = label]

(* The call of t returns: its local variables go out of scope.             *)
Return(t) ==
  /\ pc' = [pc EXCEPT ![t] = "idle"]
  /\ arg' = [arg EXCEPT ![t] = NULL]
  /\ or_create' = [or_create EXCEPT ![t] = FALSE]
  /\ sub' = [sub EXCEPT ![t] = NULL]
  /\ val' = [val EXCEPT ![t] = 0]

-----------------------------------------------------------------------------
(* sub_get                                                                 *)

CallGet(t, p, create) ==
  /\ pc[t] = "idle"
  /\ \A s \in Subs : held[s] < MaxHeld
  /\ Goto(t, "rlock")
  /\ arg' = [arg EXCEPT ![t] = p]
  /\ or_create' = [or_create EXCEPT ![t] = create]
  /\ UNCHANGED <<shared, sub, val>>

(* sub_get that creates under the writer lock without looking again.       *)
GetLockNoRecheck(t) ==
  /\ \/ pc[t] = "rlock" /\ ReaderLock(t) /\ Goto(t, "lookup")
     \/ pc[t] = "wlock" /\ WriterLock(t) /\ Goto(t, "create")
  /\ UNCHANGED <<table, key, refs, ev_extra, held, arg, or_create, sub, val>>

(* sub_get takes the reader lock, and the writer lock to look again.       *)
GetLock(t) ==
  /\ \/ pc[t] = "rlock" /\ ReaderLock(t)
     \/ pc[t] = "wlock" /\ WriterLock(t)
  /\ Goto(t, "lookup")
  /\ UNCHANGED <<table, key, refs, ev_extra, held, arg, or_create, sub, val>>

(* What sub_get does once _get_if_exists has produced s.                   *)
Found(t, s) ==
  /\ sub' = [sub EXCEPT ![t] = s]
  /\ Goto(t, IF t \in readers THEN "runlock"
             ELSE IF s = NULL THEN "create" ELSE "wunlock")

(* g_hash_table_lookup                                                     *)
Lookup(t) ==
  /\ pc[t] = "lookup"
  /\ IF table[arg[t]] = NULL
       THEN Found(t, NULL)
       ELSE /\ sub' = [sub EXCEPT ![t] = table[arg[t]]]
            /\ Goto(t, "read")
  /\ UNCHANGED <<shared, arg, or_create, val>>

(* atomic_inc_not_zero: the first load of the count.                       *)
ReadRefs(t) ==
  /\ pc[t] = "read"
  /\ val' = [val EXCEPT ![t] = refs[sub[t]]]
  /\ IF refs[sub[t]] = 0
       THEN Found(t, NULL)
       ELSE Goto(t, "cas") /\ UNCHANGED sub
  /\ UNCHANGED <<shared, arg, or_create>>

(* An increment whose load and store are not one instruction.              *)
IncRefsNotAtomic(t) ==
  /\ pc[t] = "cas"
  /\ refs' = [refs EXCEPT ![sub[t]] = val[t] + 1]
  /\ Found(t, sub[t])
  /\ UNCHANGED <<writer, readers, table, key, ev_extra, held, arg, or_create, val>>

(* atomic_inc_not_zero: one round of its compare-and-swap loop.            *)
CasRefs(t) ==
  /\ pc[t] = "cas"
  /\ IF refs[sub[t]] = val[t]
       THEN /\ refs' = [refs EXCEPT ![sub[t]] = val[t] + 1]
            /\ Found(t, sub[t])
            /\ UNCHANGED val
       ELSE /\ val' = [val EXCEPT ![t] = refs[sub[t]]]
            /\ IF refs[sub[t]] = 0 THEN Found(t, NULL)
                                   ELSE UNCHANGED <<pc, sub>>
            /\ UNCHANGED refs
  /\ UNCHANGED <<writer, readers, table, key, ev_extra, held, arg, or_create>>

(* g_hash_table_insert in place of g_hash_table_replace: an old key stays. *)
InsertSub(t, s) ==
  /\ pc[t] = "create"
  /\ s \notin Allocated
  /\ ev_extra' = [ev_extra EXCEPT ![s] = arg[t]]
  /\ refs' = [refs EXCEPT ![s] = 1]
  /\ table' = [table EXCEPT ![arg[t]] = s]
  /\ key' = [key EXCEPT ![arg[t]] = IF table[arg[t]] = NULL THEN s ELSE @]
  /\ sub' = [sub EXCEPT ![t] = s]
  /\ Goto(t, "wunlock")
  /\ UNCHANGED <<writer, readers, held, arg, or_create, val>>

(* sub_get allocates a subscription and stores it with                     *)
(* g_hash_table_replace, which swaps the key for the new string as well.   *)
CreateSub(t, s) ==
  /\ pc[t] = "create"
  /\ s \notin Allocated
  /\ ev_extra' = [ev_extra EXCEPT ![s] = arg[t]]
  /\ refs' = [refs EXCEPT ![s] = 1]
  /\ table' = [table EXCEPT ![arg[t]] = s]
  /\ key' = [key EXCEPT ![arg[t]] = s]
  /\ sub' = [sub EXCEPT ![t] = s]
  /\ Goto(t, "wunlock")
  /\ UNCHANGED <<writer, readers, held, arg, or_create, val>>

(* sub_get returns what it found; the caller owns the new reference.       *)
ReturnSub(t) ==
  /\ held' = IF sub[t] = NULL THEN held
             ELSE [held EXCEPT ![sub[t]] = held[sub[t]] + 1]
  /\ Return(t)

(* sub_get drops the lock it holds, and returns or goes on to create.      *)
GetUnlock(t) ==
  /\ \/ /\ pc[t] = "runlock"
        /\ ReaderUnlock(t)
        /\ IF sub[t] = NULL /\ or_create[t]
             THEN Goto(t, "wlock") /\ UNCHANGED <<held, arg, or_create, sub, val>>
             ELSE ReturnSub(t)
     \/ /\ pc[t] = "wunlock"
        /\ WriterUnlock(t)
        /\ ReturnSub(t)
  /\ UNCHANGED <<table, key, refs, ev_extra>>

-----------------------------------------------------------------------------
(* sub_ref and sub_unref                                                   *)

(* sub_ref, by a caller that owns a reference.                             *)
Ref(t, s) ==
  /\ pc[t] = "idle"
  /\ held[s] \in 1 .. MaxHeld - 1
  /\ refs' = [refs EXCEPT ![s] = refs[s] + 1]
  /\ held' = [held EXCEPT ![s] = held[s] + 1]
  /\ UNCHANGED <<writer, readers, table, key, ev_extra, locals>>

CallUnref(t, s) ==
  /\ pc[t] = "idle"
  /\ held[s] > 0
  /\ held' = [held EXCEPT ![s] = held[s] - 1]
  /\ sub' = [sub EXCEPT ![t] = s]
  /\ Goto(t, "dec")
  /\ UNCHANGED <<writer, readers, table, key, refs, ev_extra, arg, or_create, val>>

(* g_atomic_int_dec_and_test                                               *)
DecRefs(t) ==
  /\ pc[t] = "dec"
  /\ refs' = [refs EXCEPT ![sub[t]] = refs[sub[t]] - 1]
  /\ IF refs[sub[t]] = 1
       THEN Goto(t, "ulock") /\ UNCHANGED <<arg, or_create, sub, val>>
       ELSE Return(t)
  /\ UNCHANGED <<writer, readers, table, key, ev_extra, held>>

UnrefLock(t) ==
  /\ pc[t] = "ulock"
  /\ WriterLock(t)
  /\ Goto(t, "remove")
  /\ UNCHANGED <<table, key, refs, ev_extra, held, arg, or_create, sub, val>>

(* sub_unref that never asks whether it was replaced.                      *)
RemoveAlways(t) ==
  /\ pc[t] = "remove"
  /\ LET p == ev_extra[sub[t]] IN
       /\ table' = [table EXCEPT ![p] = NULL]
       /\ key' = [key EXCEPT ![p] = NULL]
  /\ Goto(t, "uunlock")
  /\ UNCHANGED <<writer, readers, refs, ev_extra, held, arg, or_create, sub, val>>

(* sub_unref that leaves the table entry alone.                            *)
RemoveNever(t) ==
  /\ pc[t] = "remove"
  /\ Goto(t, "uunlock")
  /\ UNCHANGED <<shared, arg, or_create, sub, val>>

(* sub_unref removes the entry unless a new subscription has replaced it.  *)
RemoveSub(t) ==
  /\ pc[t] = "remove"
  /\ LET p == ev_extra[sub[t]] IN
       IF table[p] = sub[t]
         THEN /\ table' = [table EXCEPT ![p] = NULL]
              /\ key' = [key EXCEPT ![p] = NULL]
         ELSE UNCHANGED <<table, key>>
  /\ Goto(t, "uunlock")
  /\ UNCHANGED <<writer, readers, refs, ev_extra, held, arg, or_create, sub, val>>

UnrefUnlock(t) ==
  /\ pc[t] = "uunlock"
  /\ WriterUnlock(t)
  /\ Goto(t, "free")
  /\ UNCHANGED <<table, key, refs, ev_extra, held, arg, or_create, sub, val>>

(* sub_unref frees ev_extra, the list and the structure.                   *)
FreeSub(t) ==
  /\ pc[t] = "free"
  /\ ev_extra' = [ev_extra EXCEPT ![sub[t]] = NULL]
  /\ Return(t)
  /\ UNCHANGED <<writer, readers, table, key, refs, held>>

-----------------------------------------------------------------------------
Call(t) ==
  \/ \E p \in Paths, create \in BOOLEAN : CallGet(t, p, create)
  \/ \E s \in Subs : Ref(t, s) \/ CallUnref(t, s)

Step(t) ==
  \/ GetLock(t) \/ Lookup(t) \/ ReadRefs(t) \/ CasRefs(t)
  \/ \E s \in Subs : CreateSub(t, s)
  \/ GetUnlock(t)
  \/ DecRefs(t) \/ UnrefLock(t) \/ RemoveSub(t) \/ UnrefUnlock(t) \/ FreeSub(t)

Next == \E t \in Threads : Call(t) \/ Step(t)

Spec == Init /\ [][Next]_vars

(* A thread inside sub.c is scheduled again and again.  Nothing is assumed *)
(* of the callers, nor of the order in which GLib's lock admits threads.   *)
FairSpec == Spec /\ \A t \in Threads : WF_vars(Step(t))

-----------------------------------------------------------------------------
(* The threads whose running call owns a reference to s: a sub_get that    *)
(* has taken one and not returned, a sub_unref that has not dropped its.   *)
Owners(s) ==
  {t \in Threads : sub[t] = s /\ pc[t] \in {"runlock", "wunlock", "dec"}}

(* The threads in the part of sub_unref that destroys s.                   *)
Reapers(s) ==
  {t \in Threads : sub[t] = s /\ pc[t] \in {"ulock", "remove", "uunlock", "free"}}

(* Every variable of sub.c holds a value of its type.                      *)
TypeOK ==
  /\ writer \in Threads \cup {NULL}
  /\ readers \in SUBSET Threads
  /\ table \in [Paths -> Subs \cup {NULL}]
  /\ key \in [Paths -> Subs \cup {NULL}]
  /\ refs \in [Subs -> Nat]
  /\ ev_extra \in [Subs -> Paths \cup {NULL}]
  /\ held \in [Subs -> Nat]
  /\ pc \in [Threads -> Pcs]
  /\ arg \in [Threads -> Paths \cup {NULL}]
  /\ or_create \in [Threads -> BOOLEAN]
  /\ sub \in [Threads -> Subs \cup {NULL}]
  /\ val \in [Threads -> Nat]

(* Nobody can reach freed memory: not the hash table, neither through a    *)
(* value nor through a key it compares with, not a thread about to touch   *)
(* sub->refs or sub->ev_extra, and not a caller that owns a reference.     *)
NoUseAfterFree ==
  /\ \A p \in Paths : table[p] # NULL => {table[p], key[p]} \subseteq Allocated
  /\ \A t \in Threads : pc[t] \in {"read", "cas", "dec", "ulock", "remove", "free"}
                       => sub[t] \in Allocated
  /\ \A s \in Subs : held[s] > 0 => s \in Allocated

(* A subscription somebody holds is the one sub_get finds for its path, so *)
(* that subscribers and broadcasts of a path always meet on one structure, *)
(* however sub_unref of the last reference and sub_get interleave.         *)
LiveIsFound ==
  \A s \in Subs : refs[s] > 0 => /\ s \in Allocated
                               /\ table[ev_extra[s]] = s

(* sub->refs counts the owned references exactly.                          *)
RefsCounted ==
  \A s \in Subs : refs[s] = held[s] + Cardinality(Owners(s))

(* A structure without references is being destroyed, and by one thread:   *)
(* it neither leaks nor is it freed twice.                                 *)
ReapedOnce ==
  /\ \A s \in Allocated : refs[s] = 0 => Reapers(s) # {}
  /\ \A s \in Subs : \A t, u \in Reapers(s) : t = u

(* The life of a subscription follows from its references: their number is *)
(* exact, and the last one to go, and nothing else, has it destroyed once. *)
RefsExact == RefsCounted /\ ReapedOnce

(* sub.c implements SubRegistry: each operation takes effect at one        *)
(* instant.  A count of zero makes the subscription vanish even though the *)
(* table still points at it; a lookup takes effect at the compare-and-swap,*)
(* at the allocation, or where it first sees that there is nothing.        *)
Registry ==
  INSTANCE SubRegistry WITH
    name <- [s \in Subs |-> IF refs[s] > 0 THEN ev_extra[s] ELSE NULL],
    asked <- arg,
    answer <- [t \in Threads |->
                 IF pc[t] \in {"runlock", "wunlock"} /\ sub[t] # NULL THEN sub[t]
                 ELSE IF pc[t] = "runlock" /\ ~or_create[t] THEN MISSING
                 ELSE NULL]
ImplementsRegistry == Registry!Spec

(* Once the callers stop calling, every call in progress returns, no lock  *)
(* stays taken, and every subscription without references has been freed   *)
(* and has left the table.                                                 *)
Quiet ==
  /\ writer = NULL /\ readers = {}
  /\ \A t \in Threads : pc[t] = "idle"
  /\ \A s \in Allocated : refs[s] > 0
  /\ \A p \in Paths : table[p] # NULL => refs[table[p]] > 0
Drains == <>[][\A t \in Threads : ~Call(t)]_vars => <>[]Quiet
=============================================================================
