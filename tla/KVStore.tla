-------------------------------- MODULE KVStore --------------------------------
(***************************************************************************)
(* What the database library promises its callers: one shared map from     *)
(* keys to data in which every db_fetch, db_store and db_delete takes       *)
(* effect at one instant between its call and its return, whatever the      *)
(* other processes do.  A sequential scan (db_nextrec) promises less.       *)
(***************************************************************************)
CONSTANTS Procs, Keys, Data, Requests, None

VARIABLES
    kv,     \* kv[k] is the data stored under k, or None
    call    \* call[p] is the call process p is making, if any

vars == <<kv, call>>

Idle == [st |-> "idle"]

Init ==
    /\ kv = [k \in Keys |-> None]
    /\ call = [p \in Procs |-> Idle]

Invoke(p) ==
    /\ call[p].st = "idle"
    /\ \E r \in Requests :
          call' = [call EXCEPT ![p] = [st |-> "pending", req |-> r]]
    /\ UNCHANGED kv

\* The instant a call takes effect: its result is fixed here.
Done(p, ret) ==
    /\ call[p].st = "pending"
    /\ call' = [call EXCEPT ![p] = [st |-> "done", req |-> @.req, ret |-> ret]]

Fetch(p) ==
    /\ call[p].st = "pending"
    /\ call[p].req.op = "fetch"
    /\ Done(p, kv[call[p].req.key])
    /\ UNCHANGED kv

Delete(p) ==
    /\ call[p].st = "pending"
    /\ call[p].req.op = "delete"
    /\ LET k == call[p].req.key
       IN /\ Done(p, IF kv[k] = None THEN "notfound" ELSE "ok")
          /\ kv' = [kv EXCEPT ![k] = None]

\* DB_INSERT refuses a key that exists, DB_REPLACE one that does not.
Store(p) ==
    /\ call[p].st = "pending"
    /\ call[p].req.op = "store"
    /\ LET r == call[p].req
           ret == CASE r.flag = "INSERT"  /\ kv[r.key] # None -> "exists"
                    [] r.flag = "REPLACE" /\ kv[r.key] = None -> "notfound"
                    [] OTHER -> "ok"
       IN /\ Done(p, ret)
          /\ kv' = IF ret = "ok" THEN [kv EXCEPT ![r.key] = r.data] ELSE kv

\* A record a scan may return: the current data of its key, or data a store
\* that has not finished (or whose process died) was about to make current.
Visible(k, d) ==
    \/ kv[k] = d
    \/ \E q \in Procs :
          /\ call[q].st \in {"pending", "dead"}
          /\ call[q].req.op = "store"
          /\ <<call[q].req.key, call[q].req.data>> = <<k, d>>

Scan(p) ==
    /\ call[p].st = "pending"
    /\ call[p].req.op = "nextrec"
    /\ \/ Done(p, None)
       \/ \E k \in Keys, d \in Data : Visible(k, d) /\ Done(p, <<k, d>>)
    /\ UNCHANGED kv

Return(p) ==
    /\ call[p].st = "done"
    /\ call' = [call EXCEPT ![p] = Idle]
    /\ UNCHANGED kv

\* A process may die inside a call.  Only the key that call was storing or
\* deleting is at risk, and only by losing its record.
Die(p) ==
    /\ call[p].st \in {"pending", "done"}
    /\ call' = [call EXCEPT ![p] = [st |-> "dead", req |-> @.req]]
    /\ \/ UNCHANGED kv
       \/ /\ call[p].req.op \in {"store", "delete"}
          /\ kv' = [kv EXCEPT ![call[p].req.key] = None]

Next ==
    \E p \in Procs :
        \/ Invoke(p) \/ Fetch(p) \/ Delete(p) \/ Store(p) \/ Scan(p)
        \/ Return(p) \/ Die(p)

Spec == Init /\ [][Next]_vars
================================================================================
