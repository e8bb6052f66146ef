---------------------------------- MODULE DbLive ----------------------------------
(***************************************************************************)
(* Progress of the database library.  A process that waits for a record     *)
(* lock (F_SETLKW) can be overtaken for ever by others, and nothing in the  *)
(* library prevents it, so progress is claimed when each process makes a    *)
(* bounded number of calls.  A process inside a call keeps running (weak    *)
(* fairness): the scheduler runs every process, and the kernel wakes one    *)
(* that waits for a lock when the lock becomes free.                        *)
(***************************************************************************)
EXTENDS DbSpec

CONSTANT CallMax    \* bound: calls per process

VARIABLE calls      \* calls[p]: the calls process p has begun

lvars == <<vars, calls>>

LInit == Init /\ calls = [p \in Procs |-> 0]

LCall(p) ==
    /\ calls[p] < CallMax
    /\ Call(p)
    /\ calls' = [calls EXCEPT ![p] = @ + 1]

LNext ==
    \E p \in Procs :
        \/ LCall(p)
        \/ (Rewind(p) \/ Step(p) \/ Kill(p)) /\ UNCHANGED calls

LSpec ==
    /\ LInit
    /\ [][LNext]_lvars
    /\ \A p \in Procs : WF_lvars(Step(p) /\ UNCHANGED calls)

Idle(p) == pc[p] \in {"idle"} \cup Ended

\* Every call ends: no process waits for a lock for ever, and no walk along a
\* hash chain or the free list goes round in a circle (db.c:289-296, 770-776).
\* A process that is killed outside _db_dodelete, or quits, keeps nobody
\* waiting.
CallsEnd == \A p \in Procs : ~Idle(p) ~> Idle(p)
================================================================================
