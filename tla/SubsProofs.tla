----------------------------- MODULE SubsProofs -----------------------------
(***************************************************************************)
(* Proofs about Subs, for any number of threads, paths and addresses.      *)
(*                                                                         *)
(* LiveIsFound, the property that matters, is not inductive: the thread    *)
(* that creates a subscription relies on the lookup it made before under   *)
(* the same lock (LocalInv), on the lock excluding others (LockInv), on a  *)
(* count of zero staying zero (RefsCounted) and on the thread that brought *)
(* it there being the only one to remove and free (ReapInv).               *)
(***************************************************************************)
EXTENDS Subs, FiniteSetTheorems, TLAPS

(* Positions inside _get_if_exists, and inside sub_get.                    *)
LookupPcs == {"lookup", "read", "cas"}
GetPcs == {"rlock", "wlock", "lookup", "read", "cas", "create", "runlock", "wunlock"}

(* Who holds ev->subs_lock follows from where the threads are.             *)
LockInv ==
  /\ writer # NULL => readers = {}
  /\ \A t \in readers : pc[t] \in LookupPcs \cup {"runlock"}
  /\ \A t \in Threads :
       /\ writer = t => pc[t] \in LookupPcs \cup {"create", "wunlock", "remove", "uunlock"}
       /\ pc[t] \in LookupPcs => t \in readers \/ writer = t
       /\ pc[t] = "runlock" => t \in readers
       /\ pc[t] \in {"create", "wunlock", "remove", "uunlock"} => writer = t

(* What a thread's local variables say of the shared state.                *)
LocalInv ==
  \A t \in Threads :
    /\ IF pc[t] \in GetPcs THEN arg[t] \in Paths ELSE arg[t] = NULL
    /\ pc[t] \in {"read", "cas"} => sub[t] # NULL /\ table[arg[t]] = sub[t]
    /\ pc[t] = "cas" => val[t] > 0
    /\ pc[t] = "create" /\ table[arg[t]] # NULL => refs[table[arg[t]]] = 0
    /\ pc[t] \in {"wunlock", "dec", "ulock", "remove", "uunlock", "free"} => sub[t] \in Subs

(* An entry of ev->subs is for the path it is stored under, and its key is *)
(* its own string.                                                         *)
TableInv ==
  \A p \in Paths : table[p] # NULL =>
    /\ ev_extra[table[p]] = p
    /\ key[p] = table[p]

(* The thread that destroys a subscription finds it without references,    *)
(* and out of the table by the time it frees it.                           *)
ReapInv ==
  /\ ReapedOnce
  /\ \A s \in Subs : \A t \in Reapers(s) :
       /\ s \in Allocated
       /\ refs[s] = 0
       /\ pc[t] \in {"uunlock", "free"} => table[ev_extra[s]] # s

(* The inductive invariant.                                                *)
IndInv == /\ TypeOK
          /\ LockInv
          /\ LocalInv
          /\ TableInv
          /\ LiveIsFound
          /\ RefsCounted
          /\ ReapInv

(* Only threads own references inside a call.                              *)
LEMMA OwnersFinite == ASSUME NEW s PROVE IsFiniteSet(Owners(s))
  <1>1. Owners(s) \subseteq Threads
    BY DEF Owners
  <1> QED BY <1>1, ThreadsAssumption, FS_Subset

(* Finite sets that differ in one element at most.                         *)
LEMMA OneElement ==
  ASSUME NEW S, NEW T, IsFiniteSet(S), IsFiniteSet(T), NEW t, S \ {t} = T \ {t}
  PROVE  /\ Cardinality(S) \in Nat /\ Cardinality(T) \in Nat
         /\ t \in S /\ t \notin T => Cardinality(S) = Cardinality(T) + 1
         /\ t \notin S /\ t \in T => Cardinality(T) = Cardinality(S) + 1
         /\ (t \in S <=> t \in T) => S = T
  <1>1. Cardinality(S) \in Nat /\ Cardinality(T) \in Nat
    BY FS_CardinalityType
  <1>2. CASE t \in S /\ t \notin T
    <2>1. S = T \cup {t}
      BY <1>2
    <2> QED BY <1>1, <1>2, <2>1, FS_AddElement
  <1>3. CASE t \notin S /\ t \in T
    <2>1. T = S \cup {t}
      BY <1>3
    <2> QED BY <1>1, <1>3, <2>1, FS_AddElement
  <1>4. CASE t \in S <=> t \in T
    BY <1>1, <1>4
  <1> QED BY <1>2, <1>3, <1>4

(* How a step of thread t, which changes the locals of t only, changes the *)
(* number of owners of x.                                                  *)
LEMMA OwnersStep ==
  ASSUME TypeOK, NEW t \in Threads, NEW x \in Subs,
         \A u \in Threads \ {t} : pc'[u] = pc[u] /\ sub'[u] = sub[u]
  PROVE  /\ Cardinality(Owners(x)) \in Nat /\ Cardinality(Owners(x)') \in Nat
         /\ t \in Owners(x) /\ t \notin Owners(x)'
              => Cardinality(Owners(x)) = Cardinality(Owners(x)') + 1
         /\ t \notin Owners(x) /\ t \in Owners(x)'
              => Cardinality(Owners(x)') = Cardinality(Owners(x)) + 1
         /\ (t \in Owners(x) <=> t \in Owners(x)')
              => Cardinality(Owners(x)') = Cardinality(Owners(x))
  <1>1. Owners(x)' \subseteq Threads /\ Owners(x) \subseteq Threads
    BY DEF Owners
  <1>2. IsFiniteSet(Owners(x)) /\ IsFiniteSet(Owners(x)')
    BY <1>1, ThreadsAssumption, FS_Subset
  <1>3. Owners(x) \ {t} = Owners(x)' \ {t}
    BY DEF Owners
  <1> QED BY <1>2, <1>3, OneElement

(* A reference that is owned keeps the count above zero.                   *)
LEMMA OwnedIsLive ==
  ASSUME TypeOK, RefsCounted, NEW s \in Subs
  PROVE  /\ held[s] > 0 => refs[s] > 0
         /\ \A t \in Owners(s) : refs[s] > held[s]
  <1>1. IsFiniteSet(Owners(s))
    BY OwnersFinite
  <1>2. Cardinality(Owners(s)) \in Nat
    BY <1>1, FS_CardinalityType
  <1>3. ASSUME NEW t \in Owners(s) PROVE Cardinality(Owners(s)) > 0
    BY <1>1, <1>2, <1>3, FS_EmptySet
  <1> QED BY <1>2, <1>3 DEF TypeOK, RefsCounted

(* Leaving a call keeps the types of the local variables.                  *)
LEMMA ReturnType ==
  ASSUME TypeOK, NEW t \in Threads, Return(t)
  PROVE  /\ pc' \in [Threads -> Pcs]
         /\ arg' \in [Threads -> Paths \cup {NULL}]
         /\ or_create' \in [Threads -> BOOLEAN]
         /\ sub' \in [Threads -> Subs \cup {NULL}]
         /\ val' \in [Threads -> Nat]
  <1>1. or_create' \in [Threads -> BOOLEAN]
    BY Zenon DEF TypeOK, Return
  <1>2. pc' \in [Threads -> Pcs]
    BY DEF TypeOK, Return, Pcs
  <1> QED BY <1>1, <1>2 DEF TypeOK, Return

(* Entering sub_get preserves the invariant.                               *)
LEMMA CallGetPreserves ==
  ASSUME IndInv, NEW t \in Threads, NEW p \in Paths, NEW c \in BOOLEAN, CallGet(t, p, c)
  PROVE  IndInv'
  <1> USE NullAssumption DEF IndInv, CallGet, shared, Goto, Allocated,
                            Pcs, LookupPcs, GetPcs
  <1>1. TypeOK'
    BY DEF TypeOK, LocalInv, LiveIsFound, RefsCounted
  <1>2. LockInv'
    BY DEF TypeOK, LockInv
  <1>3. LocalInv'
    BY DEF TypeOK, LockInv, LocalInv, TableInv, LiveIsFound
  <1>4. TableInv'
    BY DEF TypeOK, LockInv, LocalInv, TableInv, LiveIsFound
  <1>5. LiveIsFound'
    BY DEF TypeOK, LockInv, LocalInv, TableInv, LiveIsFound, ReapInv, Reapers
  <1>6. RefsCounted'
    BY DEF TypeOK, LockInv, LocalInv, TableInv, LiveIsFound, RefsCounted, Owners
  <1>7. ReapInv'
    BY DEF TypeOK, LockInv, LocalInv, TableInv, LiveIsFound, ReapInv, ReapedOnce, Reapers
  <1> QED BY <1>1, <1>2, <1>3, <1>4, <1>5, <1>6, <1>7

(* Taking ev->subs_lock in sub_get preserves the invariant.                *)
LEMMA GetLockPreserves ==
  ASSUME IndInv, NEW t \in Threads, GetLock(t)
  PROVE  IndInv'
  <1> USE NullAssumption DEF IndInv, GetLock, ReaderLock, WriterLock, Goto, Allocated,
                            Pcs, LookupPcs, GetPcs
  <1>1. TypeOK'
    BY DEF TypeOK, LocalInv, LiveIsFound, RefsCounted
  <1>2. LockInv'
    BY DEF TypeOK, LockInv
  <1>3. LocalInv'
    BY DEF TypeOK, LockInv, LocalInv, TableInv, LiveIsFound
  <1>4. TableInv'
    BY DEF TypeOK, LockInv, LocalInv, TableInv, LiveIsFound
  <1>5. LiveIsFound'
    BY DEF TypeOK, LockInv, LocalInv, TableInv, LiveIsFound, ReapInv, Reapers
  <1>6. RefsCounted'
    BY DEF TypeOK, LockInv, LocalInv, TableInv, LiveIsFound, RefsCounted, Owners
  <1>7. ReapInv'
    BY DEF TypeOK, LockInv, LocalInv, TableInv, LiveIsFound, ReapInv, ReapedOnce, Reapers
  <1> QED BY <1>1, <1>2, <1>3, <1>4, <1>5, <1>6, <1>7

(* The table lookup of _get_if_exists preserves the invariant.             *)
LEMMA LookupPreserves ==
  ASSUME IndInv, NEW t \in Threads, Lookup(t)
  PROVE  IndInv'
  <1> USE NullAssumption DEF IndInv, Lookup, shared, Found, Goto, Allocated,
                            Pcs, LookupPcs, GetPcs
  <1>1. TypeOK'
    BY DEF TypeOK, LocalInv, LiveIsFound, RefsCounted
  <1>2. LockInv'
    BY DEF TypeOK, LockInv
  <1>3. LocalInv'
    BY DEF TypeOK, LockInv, LocalInv, TableInv, LiveIsFound
  <1>4. TableInv'
    BY DEF TypeOK, LockInv, LocalInv, TableInv, LiveIsFound
  <1>5. LiveIsFound'
    BY DEF TypeOK, LockInv, LocalInv, TableInv, LiveIsFound, ReapInv, Reapers
  <1>6. RefsCounted'
    BY DEF TypeOK, LockInv, LocalInv, TableInv, LiveIsFound, RefsCounted, Owners
  <1>7. ReapInv'
    BY DEF TypeOK, LockInv, LocalInv, TableInv, LiveIsFound, ReapInv, ReapedOnce, Reapers
  <1> QED BY <1>1, <1>2, <1>3, <1>4, <1>5, <1>6, <1>7

(* The first load of atomic_inc_not_zero preserves the invariant.          *)
LEMMA ReadRefsPreserves ==
  ASSUME IndInv, NEW t \in Threads, ReadRefs(t)
  PROVE  IndInv'
  <1> USE NullAssumption DEF IndInv, ReadRefs, shared, Found, Goto, Allocated,
                            Pcs, LookupPcs, GetPcs
  <1>1. TypeOK'
    BY DEF TypeOK, LocalInv, LiveIsFound, RefsCounted
  <1>2. LockInv'
    BY DEF TypeOK, LockInv
  <1>3. LocalInv'
    BY DEF TypeOK, LockInv, LocalInv, TableInv, LiveIsFound
  <1>4. TableInv'
    BY DEF TypeOK, LockInv, LocalInv, TableInv, LiveIsFound
  <1>5. LiveIsFound'
    BY DEF TypeOK, LockInv, LocalInv, TableInv, LiveIsFound, ReapInv, Reapers
  <1>6. RefsCounted'
    BY DEF TypeOK, LockInv, LocalInv, TableInv, LiveIsFound, RefsCounted, Owners
  <1>7. ReapInv'
    BY SMTT(30) DEF TypeOK, LockInv, LocalInv, TableInv, LiveIsFound, ReapInv, ReapedOnce, Reapers
  <1> QED BY <1>1, <1>2, <1>3, <1>4, <1>5, <1>6, <1>7

(* A round of the compare-and-swap loop preserves the invariant.           *)
LEMMA CasRefsPreserves ==
  ASSUME IndInv, NEW t \in Threads, CasRefs(t)
  PROVE  IndInv'
  <1> USE NullAssumption DEF IndInv, CasRefs, Found, Goto, Allocated,
                            Pcs, LookupPcs, GetPcs
  <1>1. TypeOK'
    BY DEF TypeOK, LocalInv, LiveIsFound, RefsCounted
  <1>2. LockInv'
    BY DEF TypeOK, LockInv
  <1>3. LocalInv'
    BY DEF TypeOK, LockInv, LocalInv, TableInv, LiveIsFound
  <1>4. TableInv'
    BY DEF TypeOK, LockInv, LocalInv, TableInv, LiveIsFound
  <1>5. LiveIsFound'
    BY DEF TypeOK, LockInv, LocalInv, TableInv, LiveIsFound, ReapInv, Reapers
  <1>6. RefsCounted'
    <2> SUFFICES ASSUME NEW x \in Subs
                 PROVE  refs'[x] = held'[x] + Cardinality(Owners(x)')
      BY DEF RefsCounted
    <2>1. refs[x] = held[x] + Cardinality(Owners(x)) /\ refs[x] \in Nat /\ held[x] \in Nat
      BY DEF RefsCounted, TypeOK
    <2>2. \A u \in Threads \ {t} : pc'[u] = pc[u] /\ sub'[u] = sub[u]
      BY DEF TypeOK
    <2> QED BY <2>1, <2>2, OwnersStep DEF TypeOK, LocalInv, Owners
  <1>7. ReapInv'
    BY DEF TypeOK, LockInv, LocalInv, TableInv, LiveIsFound, ReapInv, ReapedOnce, Reapers
  <1> QED BY <1>1, <1>2, <1>3, <1>4, <1>5, <1>6, <1>7

(* Allocating and storing a subscription preserves the invariant.          *)
LEMMA CreateSubPreserves ==
  ASSUME IndInv, NEW t \in Threads, NEW s \in Subs, CreateSub(t, s)
  PROVE  IndInv'
  <1> USE NullAssumption DEF IndInv, CreateSub, Allocated, Goto,
                            Pcs, LookupPcs, GetPcs
  <1>1. TypeOK'
    BY DEF TypeOK, LocalInv, LiveIsFound, RefsCounted
  <1>2. LockInv'
    BY DEF TypeOK, LockInv
  <1>3. LocalInv'
    BY DEF TypeOK, LockInv, LocalInv, TableInv, LiveIsFound
  <1>4. TableInv'
    BY DEF TypeOK, LockInv, LocalInv, TableInv, LiveIsFound
  <1>5. LiveIsFound'
    BY DEF TypeOK, LockInv, LocalInv, TableInv, LiveIsFound, ReapInv, Reapers
  <1>6. RefsCounted'
    <2> SUFFICES ASSUME NEW x \in Subs
                 PROVE  refs'[x] = held'[x] + Cardinality(Owners(x)')
      BY DEF RefsCounted
    <2>1. refs[x] = held[x] + Cardinality(Owners(x)) /\ refs[x] \in Nat /\ held[x] \in Nat
      BY DEF RefsCounted, TypeOK
    <2>2. \A u \in Threads \ {t} : pc'[u] = pc[u] /\ sub'[u] = sub[u]
      BY DEF TypeOK
    <2>3. refs[s] = 0
      BY DEF TypeOK, LiveIsFound
    <2>4. x = s => held[x] = 0 /\ Cardinality(Owners(x)) = 0
      BY <2>1, <2>2, <2>3, OwnersStep
    <2>5. t \notin Owners(x) /\ (t \in Owners(x)' <=> x = s)
      BY DEF TypeOK, Owners
    <2>6. refs'[x] = (IF x = s THEN 1 ELSE refs[x]) /\ held'[x] = held[x]
      BY DEF TypeOK
    <2> QED BY <2>1, <2>2, <2>4, <2>5, <2>6, OwnersStep
  <1>7. ReapInv'
    BY DEF TypeOK, LockInv, LocalInv, TableInv, LiveIsFound, ReapInv, ReapedOnce, Reapers
  <1> QED BY <1>1, <1>2, <1>3, <1>4, <1>5, <1>6, <1>7

(* Leaving the lock in sub_get preserves the invariant.                    *)
LEMMA GetUnlockPreserves ==
  ASSUME IndInv, NEW t \in Threads, GetUnlock(t)
  PROVE  IndInv'
  <1> USE NullAssumption DEF IndInv, GetUnlock, ReaderUnlock, WriterUnlock, ReturnSub, Return, Goto, Allocated,
                            Pcs, LookupPcs, GetPcs
  <1>1. TypeOK'
    <2>1. CASE pc[t] = "runlock" /\ sub[t] = NULL /\ or_create[t]
      BY <2>1 DEF TypeOK
    <2>2. CASE ReturnSub(t)
      <3>1. held' \in [Subs -> Nat]
        BY <2>2 DEF TypeOK
      <3> HIDE DEF Return
      <3> QED BY <2>2, <3>1, ReturnType DEF TypeOK
    <2> QED BY <2>1, <2>2
  <1>2. LockInv'
    BY DEF TypeOK, LockInv
  <1>3. LocalInv'
    BY DEF TypeOK, LockInv, LocalInv, TableInv, LiveIsFound
  <1>4. TableInv'
    BY DEF TypeOK, LockInv, LocalInv, TableInv, LiveIsFound
  <1>5. LiveIsFound'
    BY DEF TypeOK, LockInv, LocalInv, TableInv, LiveIsFound, ReapInv, Reapers
  <1>6. RefsCounted'
    <2> SUFFICES ASSUME NEW x \in Subs
                 PROVE  refs'[x] = held'[x] + Cardinality(Owners(x)')
      BY DEF RefsCounted
    <2>1. refs[x] = held[x] + Cardinality(Owners(x)) /\ refs[x] \in Nat /\ held[x] \in Nat
      BY DEF RefsCounted, TypeOK
    <2>2. \A u \in Threads \ {t} : pc'[u] = pc[u] /\ sub'[u] = sub[u]
      BY DEF TypeOK
    <2>3. CASE pc[t] = "runlock" /\ sub[t] = NULL /\ or_create[t]
      BY <2>1, <2>2, <2>3, OwnersStep DEF TypeOK, Owners
    <2>4. CASE ReturnSub(t)
      <3>1. t \in Owners(x) <=> sub[t] = x
        BY <2>4 DEF Owners
      <3>2. t \notin Owners(x)'
        BY <2>4 DEF TypeOK, Owners
      <3>3. held'[x] = IF sub[t] = x THEN held[x] + 1 ELSE held[x]
        BY <2>4 DEF TypeOK
      <3> QED BY <2>1, <2>2, <3>1, <3>2, <3>3, OwnersStep
    <2> QED BY <2>3, <2>4
  <1>7. ReapInv'
    <2>1. CASE pc[t] = "runlock" /\ sub[t] = NULL /\ or_create[t]
      BY <2>1 DEF TypeOK, LockInv, LocalInv, TableInv, LiveIsFound, ReapInv, ReapedOnce, Reapers
    <2>2. CASE pc[t] = "runlock" /\ ~(sub[t] = NULL /\ or_create[t])
      BY <2>2 DEF TypeOK, LockInv, LocalInv, TableInv, LiveIsFound, ReapInv, ReapedOnce, Reapers
    <2>3. CASE pc[t] = "wunlock"
      BY <2>3, SMTT(30) DEF TypeOK, LockInv, LocalInv, TableInv, LiveIsFound, ReapInv, ReapedOnce, Reapers
    <2> QED BY <2>1, <2>2, <2>3
  <1> QED BY <1>1, <1>2, <1>3, <1>4, <1>5, <1>6, <1>7

(* sub_ref preserves the invariant.                                        *)
LEMMA RefPreserves ==
  ASSUME IndInv, NEW t \in Threads, NEW s \in Subs, Ref(t, s)
  PROVE  IndInv'
  <1> USE NullAssumption DEF IndInv, Ref, locals, Allocated,
                            Pcs, LookupPcs, GetPcs
  <1>1. TypeOK'
    BY DEF TypeOK, LocalInv, LiveIsFound, RefsCounted
  <1>2. LockInv'
    BY DEF TypeOK, LockInv
  <1>3. LocalInv'
    BY OwnedIsLive DEF TypeOK, LockInv, LocalInv, TableInv, LiveIsFound
  <1>4. TableInv'
    BY DEF TypeOK, LockInv, LocalInv, TableInv, LiveIsFound
  <1>5. LiveIsFound'
    BY OwnedIsLive DEF TypeOK, LockInv, LocalInv, TableInv, LiveIsFound
  <1>6. RefsCounted'
    <2> SUFFICES ASSUME NEW x \in Subs
                 PROVE  refs'[x] = held'[x] + Cardinality(Owners(x)')
      BY DEF RefsCounted
    <2>1. Owners(x)' = Owners(x) /\ Cardinality(Owners(x)) \in Nat
      BY OwnersFinite, FS_CardinalityType DEF Owners
    <2> QED BY <2>1 DEF TypeOK, RefsCounted
  <1>7. ReapInv'
    BY OwnedIsLive DEF TypeOK, LockInv, LocalInv, TableInv, LiveIsFound, ReapInv, ReapedOnce, Reapers
  <1> QED BY <1>1, <1>2, <1>3, <1>4, <1>5, <1>6, <1>7

(* Entering sub_unref preserves the invariant.                             *)
LEMMA CallUnrefPreserves ==
  ASSUME IndInv, NEW t \in Threads, NEW s \in Subs, CallUnref(t, s)
  PROVE  IndInv'
  <1> USE NullAssumption DEF IndInv, CallUnref, Goto, Allocated,
                            Pcs, LookupPcs, GetPcs
  <1>1. TypeOK'
    BY DEF TypeOK, LocalInv, LiveIsFound, RefsCounted
  <1>2. LockInv'
    BY DEF TypeOK, LockInv
  <1>3. LocalInv'
    BY DEF TypeOK, LockInv, LocalInv, TableInv, LiveIsFound
  <1>4. TableInv'
    BY DEF TypeOK, LockInv, LocalInv, TableInv, LiveIsFound
  <1>5. LiveIsFound'
    BY DEF TypeOK, LockInv, LocalInv, TableInv, LiveIsFound, ReapInv, Reapers
  <1>6. RefsCounted'
    <2> SUFFICES ASSUME NEW x \in Subs
                 PROVE  refs'[x] = held'[x] + Cardinality(Owners(x)')
      BY DEF RefsCounted
    <2>1. refs[x] = held[x] + Cardinality(Owners(x)) /\ refs[x] \in Nat /\ held[x] \in Nat
      BY DEF RefsCounted, TypeOK
    <2>2. \A u \in Threads \ {t} : pc'[u] = pc[u] /\ sub'[u] = sub[u]
      BY DEF TypeOK
    <2> QED BY <2>1, <2>2, OwnersStep, SMTT(30) DEF TypeOK, LocalInv, Owners
  <1>7. ReapInv'
    BY DEF TypeOK, LockInv, LocalInv, TableInv, LiveIsFound, ReapInv, ReapedOnce, Reapers
  <1> QED BY <1>1, <1>2, <1>3, <1>4, <1>5, <1>6, <1>7

(* The atomic decrement of sub_unref preserves the invariant.              *)
LEMMA DecRefsPreserves ==
  ASSUME IndInv, NEW t \in Threads, DecRefs(t)
  PROVE  IndInv'
  <1> USE NullAssumption DEF IndInv, DecRefs, Return, Goto, Allocated,
                            Pcs, LookupPcs, GetPcs
  <1>1. TypeOK'
    <2>1. t \in Owners(sub[t]) /\ sub[t] \in Subs
      BY DEF LocalInv, Owners
    <2>2. refs[sub[t]] > 0
      BY <2>1, OwnedIsLive DEF TypeOK
    <2>3. refs' \in [Subs -> Nat]
      BY <2>1, <2>2 DEF TypeOK
    <2>4. CASE refs[sub[t]] = 1
      BY <2>3, <2>4 DEF TypeOK
    <2>5. CASE refs[sub[t]] # 1
      <3> HIDE DEF Return
      <3> QED BY <2>3, <2>5, ReturnType DEF TypeOK
    <2> QED BY <2>4, <2>5
  <1>2. LockInv'
    BY DEF TypeOK, LockInv
  <1>3. LocalInv'
    <2>1. t \in Owners(sub[t]) /\ sub[t] \in Subs
      BY DEF LocalInv, Owners
    <2>2. refs[sub[t]] > 0
      BY <2>1, OwnedIsLive DEF TypeOK
    <2> QED BY <2>1, <2>2 DEF TypeOK, LockInv, LocalInv, TableInv, LiveIsFound, Owners
  <1>4. TableInv'
    BY DEF TypeOK, LockInv, LocalInv, TableInv, LiveIsFound
  <1>5. LiveIsFound'
    BY DEF TypeOK, LockInv, LocalInv, TableInv, LiveIsFound, ReapInv, Reapers
  <1>6. RefsCounted'
    <2> SUFFICES ASSUME NEW x \in Subs
                 PROVE  refs'[x] = held'[x] + Cardinality(Owners(x)')
      BY DEF RefsCounted
    <2>1. refs[x] = held[x] + Cardinality(Owners(x)) /\ refs[x] \in Nat /\ held[x] \in Nat
      BY DEF RefsCounted, TypeOK
    <2>2. \A u \in Threads \ {t} : pc'[u] = pc[u] /\ sub'[u] = sub[u]
      BY DEF TypeOK
    <2>3. t \in Owners(x) <=> x = sub[t]
      BY DEF Owners
    <2>4. t \notin Owners(x)'
      BY DEF TypeOK, Owners
    <2>5. refs'[x] = (IF x = sub[t] THEN refs[x] - 1 ELSE refs[x]) /\ held'[x] = held[x]
      BY DEF TypeOK
    <2> QED BY <2>1, <2>2, <2>3, <2>4, <2>5, OwnersStep
  <1>7. ReapInv'
    <2>1. t \in Owners(sub[t]) /\ sub[t] \in Subs
      BY DEF LocalInv, Owners
    <2>2. refs[sub[t]] > 0
      BY <2>1, OwnedIsLive DEF TypeOK
    <2> QED BY <2>1, <2>2 DEF TypeOK, LockInv, LocalInv, TableInv, LiveIsFound, ReapInv, ReapedOnce, Reapers, Owners
  <1> QED BY <1>1, <1>2, <1>3, <1>4, <1>5, <1>6, <1>7

(* Taking the writer lock in sub_unref preserves the invariant.            *)
LEMMA UnrefLockPreserves ==
  ASSUME IndInv, NEW t \in Threads, UnrefLock(t)
  PROVE  IndInv'
  <1> USE NullAssumption DEF IndInv, UnrefLock, WriterLock, Goto, Allocated,
                            Pcs, LookupPcs, GetPcs
  <1>1. TypeOK'
    BY DEF TypeOK, LocalInv, LiveIsFound, RefsCounted
  <1>2. LockInv'
    BY DEF TypeOK, LockInv
  <1>3. LocalInv'
    BY DEF TypeOK, LockInv, LocalInv, TableInv, LiveIsFound
  <1>4. TableInv'
    BY DEF TypeOK, LockInv, LocalInv, TableInv, LiveIsFound
  <1>5. LiveIsFound'
    BY DEF TypeOK, LockInv, LocalInv, TableInv, LiveIsFound, ReapInv, Reapers
  <1>6. RefsCounted'
    BY DEF TypeOK, LockInv, LocalInv, TableInv, LiveIsFound, RefsCounted, Owners
  <1>7. ReapInv'
    BY DEF TypeOK, LockInv, LocalInv, TableInv, LiveIsFound, ReapInv, ReapedOnce, Reapers
  <1> QED BY <1>1, <1>2, <1>3, <1>4, <1>5, <1>6, <1>7

(* Removing the table entry in sub_unref preserves the invariant.          *)
LEMMA RemoveSubPreserves ==
  ASSUME IndInv, NEW t \in Threads, RemoveSub(t)
  PROVE  IndInv'
  <1> USE NullAssumption DEF IndInv, RemoveSub, Goto, Allocated,
                            Pcs, LookupPcs, GetPcs
  <1>1. TypeOK'
    BY DEF TypeOK, LocalInv, LiveIsFound, RefsCounted
  <1>2. LockInv'
    BY DEF TypeOK, LockInv
  <1>3. LocalInv'
    BY DEF TypeOK, LockInv, LocalInv, TableInv, LiveIsFound
  <1>4. TableInv'
    BY DEF TypeOK, LockInv, LocalInv, TableInv, LiveIsFound
  <1>5. LiveIsFound'
    BY DEF TypeOK, LockInv, LocalInv, TableInv, LiveIsFound, ReapInv, Reapers
  <1>6. RefsCounted'
    BY DEF TypeOK, LockInv, LocalInv, TableInv, LiveIsFound, RefsCounted, Owners
  <1>7. ReapInv'
    BY DEF TypeOK, LockInv, LocalInv, TableInv, LiveIsFound, ReapInv, ReapedOnce, Reapers
  <1> QED BY <1>1, <1>2, <1>3, <1>4, <1>5, <1>6, <1>7

(* Leaving the writer lock in sub_unref preserves the invariant.           *)
LEMMA UnrefUnlockPreserves ==
  ASSUME IndInv, NEW t \in Threads, UnrefUnlock(t)
  PROVE  IndInv'
  <1> USE NullAssumption DEF IndInv, UnrefUnlock, WriterUnlock, Goto, Allocated,
                            Pcs, LookupPcs, GetPcs
  <1>1. TypeOK'
    BY DEF TypeOK, LocalInv, LiveIsFound, RefsCounted
  <1>2. LockInv'
    BY DEF TypeOK, LockInv
  <1>3. LocalInv'
    BY DEF TypeOK, LockInv, LocalInv, TableInv, LiveIsFound
  <1>4. TableInv'
    BY DEF TypeOK, LockInv, LocalInv, TableInv, LiveIsFound
  <1>5. LiveIsFound'
    BY DEF TypeOK, LockInv, LocalInv, TableInv, LiveIsFound, ReapInv, Reapers
  <1>6. RefsCounted'
    BY DEF TypeOK, LockInv, LocalInv, TableInv, LiveIsFound, RefsCounted, Owners
  <1>7. ReapInv'
    BY DEF TypeOK, LockInv, LocalInv, TableInv, LiveIsFound, ReapInv, ReapedOnce, Reapers
  <1> QED BY <1>1, <1>2, <1>3, <1>4, <1>5, <1>6, <1>7

(* Freeing the subscription preserves the invariant.                       *)
LEMMA FreeSubPreserves ==
  ASSUME IndInv, NEW t \in Threads, FreeSub(t)
  PROVE  IndInv'
  <1> USE NullAssumption DEF IndInv, FreeSub, Return, Allocated,
                            Pcs, LookupPcs, GetPcs
  <1>1. TypeOK'
    BY DEF TypeOK, LocalInv, LiveIsFound, RefsCounted
  <1>2. LockInv'
    BY DEF TypeOK, LockInv
  <1>3. LocalInv'
    BY DEF TypeOK, LockInv, LocalInv, TableInv, LiveIsFound
  <1>4. TableInv'
    BY DEF TypeOK, LockInv, LocalInv, TableInv, LiveIsFound, ReapInv, Reapers
  <1>5. LiveIsFound'
    BY DEF TypeOK, LockInv, LocalInv, TableInv, LiveIsFound, ReapInv, Reapers
  <1>6. RefsCounted'
    BY DEF TypeOK, LockInv, LocalInv, TableInv, LiveIsFound, RefsCounted, Owners
  <1>7. ReapInv'
    BY DEF TypeOK, LockInv, LocalInv, TableInv, LiveIsFound, ReapInv, ReapedOnce, Reapers
  <1> QED BY <1>1, <1>2, <1>3, <1>4, <1>5, <1>6, <1>7

-----------------------------------------------------------------------------
(* The inductive invariant holds of every behaviour: Init establishes it   *)
(* and each step of sub.c, under any interleaving, preserves it.           *)
THEOREM Invariance == Spec => []IndInv
  <1>1. Init => IndInv
    <2> SUFFICES ASSUME Init PROVE IndInv
      OBVIOUS
    <2>1. \A s \in Subs : Owners(s) = {} /\ Reapers(s) = {}
      BY DEF Init, Owners, Reapers
    <2>2. RefsCounted
      BY <2>1, FS_EmptySet DEF Init, RefsCounted
    <2>3. TypeOK
      BY DEF Init, TypeOK, Pcs
    <2>4. LockInv /\ LocalInv /\ TableInv /\ LiveIsFound
      BY NullAssumption DEF Init, LockInv, LocalInv, TableInv, LiveIsFound, LookupPcs, GetPcs
    <2>5. ReapInv
      BY <2>1 DEF Init, ReapInv, ReapedOnce, Allocated
    <2> QED BY <2>2, <2>3, <2>4, <2>5 DEF IndInv
  <1>2. IndInv /\ [Next]_vars => IndInv'
    <2> SUFFICES ASSUME IndInv, [Next]_vars PROVE IndInv'
      OBVIOUS
    <2>1. CASE UNCHANGED vars
      BY <2>1 DEF vars, shared, locals, IndInv, TypeOK, LockInv, LocalInv, TableInv,
                  LiveIsFound, RefsCounted, ReapInv, ReapedOnce, Owners, Reapers, Allocated
    <2>2. ASSUME NEW t \in Threads, Call(t) PROVE IndInv'
      BY <2>2, CallGetPreserves, RefPreserves, CallUnrefPreserves DEF Call
    <2>3. ASSUME NEW t \in Threads, Step(t) PROVE IndInv'
      BY <2>3, GetLockPreserves, LookupPreserves, ReadRefsPreserves, CasRefsPreserves,
         CreateSubPreserves, GetUnlockPreserves, DecRefsPreserves, UnrefLockPreserves,
         RemoveSubPreserves, UnrefUnlockPreserves, FreeSubPreserves DEF Step
    <2> QED BY <2>1, <2>2, <2>3 DEF Next
  <1> QED BY <1>1, <1>2, PTL DEF Spec

(* Every variable of sub.c keeps its type; in particular no reference      *)
(* count is ever decremented below zero.                                   *)
THEOREM TypeCorrect == Spec => []TypeOK
  <1>1. IndInv => TypeOK
    BY DEF IndInv
  <1> QED BY <1>1, Invariance, PTL

(* For any number of threads, paths and addresses, neither the hash table  *)
(* nor a thread in sub.c nor the owner of a reference reaches freed memory.*)
THEOREM MemorySafe == Spec => []NoUseAfterFree
  <1>1. IndInv => NoUseAfterFree
    <2> SUFFICES ASSUME IndInv PROVE NoUseAfterFree
      OBVIOUS
    <2> USE DEF IndInv
    <2>1. \A p \in Paths : table[p] # NULL => {table[p], key[p]} \subseteq Allocated
      BY NullAssumption DEF TypeOK, TableInv, Allocated
    <2>2. ASSUME NEW t \in Threads, pc[t] \in {"read", "cas"} PROVE sub[t] \in Allocated
      BY <2>1, <2>2 DEF LocalInv, GetPcs
    <2>3. ASSUME NEW t \in Threads, pc[t] = "dec" PROVE sub[t] \in Allocated
      <3>1. sub[t] \in Subs /\ t \in Owners(sub[t])
        BY <2>3 DEF LocalInv, Owners
      <3>2. refs[sub[t]] > 0
        BY <3>1, OwnedIsLive DEF TypeOK
      <3> QED BY <3>1, <3>2 DEF LiveIsFound
    <2>4. ASSUME NEW t \in Threads, pc[t] \in {"ulock", "remove", "free"}
          PROVE  sub[t] \in Allocated
      BY <2>4 DEF LocalInv, ReapInv, Reapers
    <2>5. \A s \in Subs : held[s] > 0 => s \in Allocated
      BY OwnedIsLive DEF LiveIsFound
    <2> QED BY <2>1, <2>2, <2>3, <2>4, <2>5 DEF NoUseAfterFree
  <1> QED BY <1>1, Invariance, PTL

(* However many threads get and drop references to a path at once, the     *)
(* subscription somebody holds is the one the table gives the next caller. *)
THEOREM LiveFound == Spec => []LiveIsFound
  <1>1. IndInv => LiveIsFound
    BY DEF IndInv
  <1> QED BY <1>1, Invariance, PTL

(* sub->refs is at all times the number of owned references.               *)
THEOREM Counted == Spec => []RefsCounted
  <1>1. IndInv => RefsCounted
    BY DEF IndInv
  <1> QED BY <1>1, Invariance, PTL

(* Every subscription whose count is zero is being destroyed by exactly    *)
(* one thread.                                                             *)
THEOREM Reaped == Spec => []ReapedOnce
  <1>1. IndInv => ReapedOnce
    BY DEF IndInv, ReapInv
  <1> QED BY <1>1, Invariance, PTL

(* Both: sub_ref and sub_unref count exactly, and zero destroys once.      *)
THEOREM CountedAndReaped == Spec => []RefsExact
  <1>1. RefsCounted /\ ReapedOnce => RefsExact
    BY DEF RefsExact
  <1> QED BY <1>1, Counted, Reaped, PTL

-----------------------------------------------------------------------------
(* Refinement of SubRegistry.                                              *)

(* The state functions that Registry substitutes for name and answer.      *)
Name == [s \in Subs |-> IF refs[s] > 0 THEN ev_extra[s] ELSE NULL]
Answer == [t \in Threads |->
             IF pc[t] \in {"runlock", "wunlock"} /\ sub[t] # NULL THEN sub[t]
             ELSE IF pc[t] = "runlock" /\ ~or_create[t] THEN MISSING
             ELSE NULL]

(* A path has a referenced subscription exactly when the table shows one.  *)
LEMMA LiveInTable ==
  ASSUME IndInv, NEW p \in Paths
  PROVE  /\ table[p] = NULL => Registry!Live(p) = {}
         /\ table[p] # NULL /\ refs[table[p]] = 0 => Registry!Live(p) = {}
         /\ table[p] # NULL /\ refs[table[p]] > 0 => table[p] \in Registry!Live(p)
  BY NullAssumption DEF IndInv, TypeOK, TableInv, LiveIsFound, Registry!Live

(* A lookup that finds nothing is a Miss, or no step at all when sub_get   *)
(* goes on to create.                                                      *)
LEMMA FoundNothing ==
  ASSUME IndInv, NEW t \in Threads, pc[t] \in LookupPcs, Found(t, NULL),
         Registry!Live(arg[t]) = {},
         UNCHANGED <<shared, arg, or_create>>
  PROVE  Registry!Miss(t) \/ UNCHANGED Registry!vars
  <1>1. Name' = Name /\ arg[t] \in Paths
    BY DEF shared, Name, IndInv, LocalInv, LookupPcs, GetPcs
  <1>2. Answer[t] = NULL
    BY DEF Answer, LookupPcs
  <1>3. CASE t \in readers /\ ~or_create[t]
    <2>1. Answer' = [Answer EXCEPT ![t] = MISSING]
      BY <1>3 DEF Answer, Found, Goto, IndInv, TypeOK, LookupPcs
    <2> QED BY <1>1, <1>2, <2>1, NullAssumption
            DEF Registry!Miss, Name, Answer, shared
  <1>4. CASE ~(t \in readers /\ ~or_create[t])
    <2>1. Answer' = Answer
      BY <1>4 DEF Answer, Found, Goto, IndInv, TypeOK, LookupPcs
    <2> QED BY <1>1, <2>1 DEF Registry!vars, Name, Answer, shared
  <1> QED BY <1>3, <1>4

(* A step that leaves the registry's view of the state alone.              *)
LEMMA Invisible ==
  ASSUME Name' = Name, Answer' = Answer, UNCHANGED <<refs, arg>>
  PROVE  UNCHANGED Registry!vars
  BY DEF Registry!vars, Name, Answer

(* Steps of the registry, named by their subscription.                     *)
LEMMA RegistryStep ==
  ASSUME NEW t \in Threads, NEW s \in Subs,
         Registry!Find(t, s) \/ Registry!Unref(s)
  PROVE  Registry!Next
  BY DEF Registry!Next

(* What the callers do is a step of the registry.                          *)
LEMMA CallSimulates ==
  ASSUME IndInv, NEW t \in Threads, Call(t)
  PROVE  [Registry!Next]_(Registry!vars)
  <1> USE DEF IndInv
  <1>1. ASSUME NEW p \in Paths, NEW c \in BOOLEAN, CallGet(t, p, c)
        PROVE  Registry!Ask(t, p)
    <2>1. Name' = Name /\ Answer' = Answer /\ arg[t] = NULL
      BY <1>1 DEF CallGet, Goto, shared, Name, Answer, TypeOK, LocalInv, GetPcs
    <2> QED BY <1>1, <2>1 DEF Registry!Ask, CallGet, shared, Name, Answer
  <1>2. ASSUME NEW s \in Subs, Ref(t, s) PROVE Registry!Ref(s)
    <2>1. refs[s] > 0
      BY <1>2, OwnedIsLive DEF Ref
    <2>2. Name' = Name /\ Answer' = Answer
      BY <1>2, <2>1 DEF Ref, locals, Name, Answer, TypeOK
    <2> QED BY <1>2, <2>1, <2>2 DEF Registry!Ref, Ref, locals, Name, Answer
  <1>3. ASSUME NEW s \in Subs, CallUnref(t, s) PROVE UNCHANGED Registry!vars
    <2>1. Name' = Name /\ Answer' = Answer
      BY <1>3 DEF CallUnref, Goto, Name, Answer, TypeOK
    <2> QED BY <1>3, <2>1, Invisible DEF CallUnref
  <1> QED BY <1>1, <1>2, <1>3 DEF Call, Registry!Next

(* Each step inside sub_get is a step of the registry or invisible to it.  *)
LEMMA GetSimulates ==
  ASSUME IndInv, NEW t \in Threads,
         \/ GetLock(t) \/ Lookup(t) \/ ReadRefs(t) \/ CasRefs(t)
         \/ \E s \in Subs : CreateSub(t, s)
         \/ GetUnlock(t)
  PROVE  [Registry!Next]_(Registry!vars)
  <1> USE DEF IndInv
  <1>1. CASE GetLock(t)
    <2>1. Name' = Name /\ Answer' = Answer
      BY <1>1 DEF GetLock, Goto, Name, Answer, TypeOK
    <2> QED BY <1>1, <2>1, Invisible DEF GetLock
  <1>2. CASE Lookup(t)
    <2>1. arg[t] \in Paths
      BY <1>2 DEF Lookup, LocalInv, GetPcs
    <2>2. CASE table[arg[t]] = NULL
      <3>1. Registry!Miss(t) \/ UNCHANGED Registry!vars
        BY <1>2, <2>1, <2>2, LiveInTable, FoundNothing DEF Lookup, LookupPcs
      <3> QED BY <3>1 DEF Registry!Next
    <2>3. CASE table[arg[t]] # NULL
      <3>1. Name' = Name /\ Answer' = Answer
        BY <1>2, <2>3 DEF Lookup, Goto, shared, Name, Answer, TypeOK
      <3> QED BY <1>2, <3>1, Invisible DEF Lookup, shared
    <2> QED BY <2>2, <2>3
  <1>3. CASE ReadRefs(t)
    <2>1. arg[t] \in Paths /\ sub[t] # NULL /\ table[arg[t]] = sub[t]
      BY <1>3 DEF ReadRefs, LocalInv, GetPcs
    <2>2. CASE refs[sub[t]] = 0
      <3>1. Registry!Miss(t) \/ UNCHANGED Registry!vars
        BY <1>3, <2>1, <2>2, LiveInTable, FoundNothing DEF ReadRefs, LookupPcs
      <3> QED BY <3>1 DEF Registry!Next
    <2>3. CASE refs[sub[t]] # 0
      <3>1. Name' = Name /\ Answer' = Answer
        BY <1>3, <2>3 DEF ReadRefs, Goto, shared, Name, Answer, TypeOK
      <3> QED BY <1>3, <3>1, Invisible DEF ReadRefs, shared
    <2> QED BY <2>2, <2>3
  <1>4. CASE CasRefs(t)
    <2>1. arg[t] \in Paths /\ sub[t] \in Subs /\ sub[t] # NULL /\ table[arg[t]] = sub[t]
      BY <1>4 DEF CasRefs, LocalInv, GetPcs, TypeOK
    <2>2. CASE refs[sub[t]] = val[t]
      <3>1. refs[sub[t]] > 0 /\ refs[sub[t]] \in Nat
        BY <1>4, <2>1, <2>2 DEF CasRefs, LocalInv, TypeOK
      <3>2. sub[t] \in Registry!Live(arg[t])
        BY <2>1, <3>1, LiveInTable
      <3>3. Name' = Name
        BY <1>4, <2>1, <2>2, <3>1 DEF CasRefs, Name, TypeOK
      <3>4. Answer[t] = NULL /\ Answer' = [Answer EXCEPT ![t] = sub[t]]
        <4>1. Answer[t] = NULL
          BY <1>4 DEF CasRefs, Answer
        <4>2. pc'[t] \in {"runlock", "wunlock"} /\ sub'[t] = sub[t]
          BY <1>4, <2>1, <2>2 DEF CasRefs, Found, Goto, TypeOK
        <4>3. ASSUME NEW u \in Threads, u # t PROVE pc'[u] = pc[u] /\ sub'[u] = sub[u]
          BY <1>4, <2>2, <4>3 DEF CasRefs, Found, Goto, TypeOK
        <4>4. Answer'[t] = sub[t]
          BY <2>1, <4>2 DEF Answer
        <4>5. \A u \in Threads \ {t} : Answer'[u] = Answer[u]
          BY <1>4, <4>3 DEF CasRefs, Answer
        <4> QED BY <4>1, <4>4, <4>5 DEF Answer
      <3>5. PICK s \in Subs : s = sub[t]
        BY <2>1
      <3>6. Registry!Find(t, s)
        BY <1>4, <2>2, <3>2, <3>3, <3>4, <3>5 DEF Registry!Find, CasRefs, Name, Answer
      <3> QED BY <3>6, RegistryStep
    <2>3. CASE refs[sub[t]] # val[t] /\ refs[sub[t]] = 0
      <3>1. Registry!Miss(t) \/ UNCHANGED Registry!vars
        BY <1>4, <2>1, <2>3, LiveInTable, FoundNothing DEF CasRefs, LookupPcs, shared
      <3> QED BY <3>1 DEF Registry!Next
    <2>4. CASE refs[sub[t]] # val[t] /\ refs[sub[t]] # 0
      <3>1. Name' = Name /\ Answer' = Answer
        BY <1>4, <2>4 DEF CasRefs, Name, Answer
      <3> QED BY <1>4, <2>4, <3>1, Invisible DEF CasRefs
    <2> QED BY <2>2, <2>3, <2>4
  <1>5. ASSUME NEW s \in Subs, CreateSub(t, s) PROVE Registry!Create(t, s)
    <2>1. arg[t] \in Paths /\ Registry!Live(arg[t]) = {}
      BY <1>5, LiveInTable DEF CreateSub, LocalInv, GetPcs
    <2>2. refs[s] = 0
      BY <1>5 DEF CreateSub, TypeOK, LiveIsFound
    <2>3. Name' = [Name EXCEPT ![s] = arg[t]]
      <3>1. \A x \in Subs : Name'[x] = IF x = s THEN arg[t] ELSE Name[x]
        BY <1>5 DEF CreateSub, Name, TypeOK
      <3> QED BY <3>1 DEF Name
    <2>4. Answer[t] = NULL /\ Answer' = [Answer EXCEPT ![t] = s]
      BY <1>5, NullAssumption DEF CreateSub, Goto, Answer, TypeOK
    <2> QED BY <1>5, <2>1, <2>2, <2>3, <2>4, NullAssumption
            DEF Registry!Create, CreateSub, Name, Answer
  <1>6. CASE GetUnlock(t)
    <2>1. Name' = Name
      BY <1>6 DEF GetUnlock, Name
    <2>2. CASE pc[t] = "runlock" /\ sub[t] = NULL /\ or_create[t]
      <3>1. Answer' = Answer
        BY <1>6, <2>2 DEF GetUnlock, Goto, Answer, TypeOK
      <3> QED BY <1>6, <2>1, <2>2, <3>1, Invisible DEF GetUnlock
    <2>3. CASE ReturnSub(t) /\ ~(pc[t] = "runlock" /\ sub[t] = NULL /\ or_create[t])
      <3>1. Answer[t] # NULL
        BY <1>6, <2>3, MissingAssumption, NullAssumption DEF GetUnlock, Answer, LocalInv
      <3>2. Answer' = [Answer EXCEPT ![t] = NULL]
        BY <2>3 DEF ReturnSub, Return, Answer, TypeOK
      <3>3. Registry!Return(t)
        BY <1>6, <2>1, <2>3, <3>1, <3>2
           DEF Registry!Return, GetUnlock, ReturnSub, Return, Name, Answer
      <3> QED BY <3>3 DEF Registry!Next
    <2> QED BY <1>6, <2>2, <2>3 DEF GetUnlock
  <1> QED BY <1>1, <1>2, <1>3, <1>4, <1>5, <1>6 DEF Registry!Next

(* Each step inside sub_unref is a step of the registry or invisible.      *)
LEMMA UnrefSimulates ==
  ASSUME IndInv, NEW t \in Threads,
         \/ DecRefs(t) \/ UnrefLock(t) \/ RemoveSub(t) \/ UnrefUnlock(t) \/ FreeSub(t)
  PROVE  [Registry!Next]_(Registry!vars)
  <1> USE DEF IndInv
  <1>1. CASE DecRefs(t)
    <2>1. t \in Owners(sub[t]) /\ sub[t] \in Subs /\ arg[t] = NULL
      BY <1>1 DEF DecRefs, LocalInv, Owners, GetPcs
    <2>2. refs[sub[t]] > 0 /\ refs[sub[t]] \in Nat
      BY <2>1, OwnedIsLive DEF TypeOK
    <2>3. Name' = [Name EXCEPT ![sub[t]] = IF refs[sub[t]] = 1 THEN NULL ELSE Name[sub[t]]]
      <3>1. \A x \in Subs : x # sub[t] => Name'[x] = Name[x]
        BY <1>1, <2>1 DEF DecRefs, Name, TypeOK
      <3>2. Name'[sub[t]] = IF refs[sub[t]] = 1 THEN NULL ELSE Name[sub[t]]
        BY <1>1, <2>1, <2>2 DEF DecRefs, Name, TypeOK
      <3> QED BY <3>1, <3>2 DEF Name
    <2>4. Answer' = Answer
      BY <1>1 DEF DecRefs, Goto, Return, Answer, TypeOK
    <2>5. arg' = arg
      BY <1>1, <2>1 DEF DecRefs, Return, TypeOK
    <2>6. PICK s \in Subs : s = sub[t]
      BY <2>1
    <2>7. Registry!Unref(s)
      BY <1>1, <2>1, <2>2, <2>3, <2>4, <2>5, <2>6 DEF Registry!Unref, DecRefs, Name, Answer
    <2> QED BY <2>7, RegistryStep
  <1>2. CASE UnrefLock(t) \/ RemoveSub(t) \/ UnrefUnlock(t)
    <2>1. Name' = Name /\ Answer' = Answer /\ UNCHANGED <<refs, arg>>
      BY <1>2 DEF UnrefLock, RemoveSub, UnrefUnlock, Goto, Name, Answer, TypeOK
    <2> QED BY <2>1, Invisible
  <1>3. CASE FreeSub(t)
    <2>1. sub[t] \in Subs /\ refs[sub[t]] = 0 /\ arg[t] = NULL
      BY <1>3 DEF FreeSub, LocalInv, ReapInv, Reapers, GetPcs
    <2>2. Name' = Name
      BY <1>3, <2>1 DEF FreeSub, Name, TypeOK
    <2>3. Answer' = Answer
      BY <1>3 DEF FreeSub, Return, Answer, TypeOK
    <2>4. UNCHANGED <<refs, arg>>
      BY <1>3, <2>1 DEF FreeSub, Return, TypeOK
    <2> QED BY <2>2, <2>3, <2>4, Invisible
  <1> QED BY <1>1, <1>2, <1>3

(* sub.c implements the registry whose operations are atomic: a caller     *)
(* cannot tell its lock, its compare-and-swap loop and its deferred        *)
(* clean-up from single steps.                                             *)
THEOREM Refinement == Spec => ImplementsRegistry
  <1>1. Init => Registry!Init
    <2> SUFFICES ASSUME Init PROVE Registry!Init
      OBVIOUS
    <2>1. Name = [s \in Subs |-> NULL] /\ Answer = [t \in Threads |-> NULL]
      BY DEF Init, Name, Answer
    <2> QED BY <2>1 DEF Init, Registry!Init, Name, Answer
  <1>2. IndInv /\ [Next]_vars => [Registry!Next]_(Registry!vars)
    <2> SUFFICES ASSUME IndInv, [Next]_vars PROVE [Registry!Next]_(Registry!vars)
      OBVIOUS
    <2>1. CASE UNCHANGED vars
      BY <2>1 DEF vars, shared, locals, Registry!vars
    <2>2. ASSUME NEW t \in Threads, Call(t) PROVE [Registry!Next]_(Registry!vars)
      BY <2>2, CallSimulates
    <2>3. ASSUME NEW t \in Threads, Step(t) PROVE [Registry!Next]_(Registry!vars)
      BY <2>3, GetSimulates, UnrefSimulates DEF Step
    <2> QED BY <2>1, <2>2, <2>3 DEF Next
  <1> QED BY <1>1, <1>2, Invariance, PTL DEF Spec, ImplementsRegistry, Registry!Spec
=============================================================================
