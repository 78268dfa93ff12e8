----------------------------- MODULE ClientData -----------------------------
(***************************************************************************)
(* The values an application keeps on a client: client_set, client_get and *)
(* client_del of client.c, for one key.  client_get looks the value up     *)
(* under the client's lock and takes its reference after the lock.         *)
(***************************************************************************)
EXTENDS Naturals

CONSTANTS Threads, Values, \* the GVariants of the application
          NULL

VARIABLES
  data,   \* client->data at the key, or NULL
  refs,   \* references to each GVariant; it is freed when they are gone
  ret,    \* the local variable ret of each running client_get
  has     \* the value each thread got from client_get and has not released

vars == <<data, refs, ret, has>>

Init ==
  /\ data = NULL
  /\ refs = [v \in Values |-> 0]
  /\ ret = [t \in Threads |-> NULL]
  /\ has = [t \in Threads |-> NULL]

(* The reference of the table goes from the old value, if any, to v.       *)
Replace(v) ==
  /\ data' = v
  /\ refs' = [x \in Values |-> CASE x = v -> refs[x] + 1
                                 [] x = data -> refs[x] - 1
                                 [] OTHER -> refs[x]]

Free(t) == ret[t] = NULL /\ has[t] = NULL

(* client_set of a new, floating value: g_variant_ref_sink, then the       *)
(* destroy function of the table drops the old one.                        *)
Set(t, v) ==
  /\ Free(t)
  /\ refs[v] = 0
  /\ Replace(v)
  /\ UNCHANGED <<ret, has>>

Del(t) ==
  /\ Free(t)
  /\ data # NULL
  /\ Replace(NULL)
  /\ UNCHANGED <<ret, has>>

(* client_get, under the lock.                                             *)
GetLookup(t) ==
  /\ Free(t)
  /\ data # NULL
  /\ ret' = [ret EXCEPT ![t] = data]
  /\ UNCHANGED <<data, refs, has>>

(* client_get, after the lock: g_variant_ref.                              *)
GetRef(t) ==
  /\ ret[t] # NULL
  /\ refs' = [refs EXCEPT ![ret[t]] = @ + 1]
  /\ has' = [has EXCEPT ![t] = ret[t]]
  /\ ret' = [ret EXCEPT ![t] = NULL]
  /\ UNCHANGED data

(* The caller is done: g_variant_unref.                                    *)
Release(t) ==
  /\ has[t] # NULL
  /\ refs' = [refs EXCEPT ![has[t]] = @ - 1]
  /\ has' = [has EXCEPT ![t] = NULL]
  /\ UNCHANGED <<data, ret>>

Next ==
  \E t \in Threads :
    \/ \E v \in Values : Set(t, v)
    \/ Del(t) \/ GetLookup(t) \/ GetRef(t) \/ Release(t)

Spec == Init /\ [][Next]_vars
-----------------------------------------------------------------------------
(* client.h says that client_get returns a reference to the data: the      *)
(* value it is about to reference still exists.                            *)
GetFindsValue == \A t \in Threads : ret[t] # NULL => refs[ret[t]] > 0
=============================================================================
