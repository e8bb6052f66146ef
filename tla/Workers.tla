-------------------------------- MODULE Workers --------------------------------
(***************************************************************************)
(* The list of client threads of the print spooler's daemon (add_worker,    *)
(* kill_workers and client_cleanup of apue.3e/printer/printd.c), with the   *)
(* memory its structures are allocated in.                                  *)
(*                                                                         *)
(* Every client thread enters itself in the list and takes itself off it    *)
(* when it ends or is cancelled; SIGTERM makes the signal thread cancel the *)
(* threads in the list and end the daemon.  A search of the list is one     *)
(* action per structure, the rest of what workerlock guards is one action.  *)
(***************************************************************************)
EXTENDS Naturals, FiniteSets

CONSTANTS
    Threads,    \* the client threads, in the order of their thread IDs
    Cells,      \* the memory malloc takes worker_thread structures from
    Killer,     \* the signal thread
    NULL        \* neither a thread nor a cell

VARIABLES
    workers,    \* the head of the list
    cell,       \* cell[m]: the structure in m, the last one if m is free
    free,       \* the cells that are not allocated
    workerlock, \* the thread that holds it, or NULL
    wtp,        \* wtp[t]: the local variable wtp
    pc,         \* pc[t]: where thread t is
    cancelled   \* the threads kill_workers has cancelled

vars == <<workers, cell, free, workerlock, wtp, pc, cancelled>>
Actors == Threads \cup {Killer}

Init ==
    /\ workers = NULL
    /\ cell = [m \in Cells |-> [next |-> NULL, prev |-> NULL, tid |-> NULL]]
    /\ free = Cells
    /\ workerlock = NULL
    /\ wtp = [t \in Actors |-> NULL]
    /\ pc = [t \in Actors |-> IF t = Killer THEN "sigwait" ELSE "none"]
    /\ cancelled = {}

Goto(t, label) == pc' = [pc EXCEPT ![t] = label]

\* main accepts a connection; add_worker allocates the structure.
Malloc(t) ==
    /\ pc[t] = "none"
    /\ \E m \in free :
          /\ free' = free \ {m}
          /\ cell' = [cell EXCEPT ![m].tid = t]
          /\ wtp' = [wtp EXCEPT ![t] = m]
    /\ Goto(t, "add")
    /\ UNCHANGED <<workers, workerlock, cancelled>>

\* The region of add_worker: the structure is put in front of the head, which
\* moves only if the list is empty.
AddWorker(t) ==
    /\ pc[t] = "add"
    /\ workerlock = NULL
    /\ LET added == [cell EXCEPT ![wtp[t]].prev = NULL, ![wtp[t]].next = workers]
       IN IF workers = NULL
            THEN cell' = added /\ workers' = wtp[t]
            ELSE cell' = [added EXCEPT ![workers].prev = wtp[t]]
                 /\ UNCHANGED workers
    /\ Goto(t, "serve")
    /\ UNCHANGED <<free, workerlock, wtp, cancelled>>

\* Done, or cancelled: client_cleanup takes the lock and starts at the head.
CleanupLock(t) ==
    /\ pc[t] = "serve"
    /\ workerlock = NULL
    /\ workerlock' = t
    /\ wtp' = [wtp EXCEPT ![t] = workers]
    /\ Goto(t, "search")
    /\ UNCHANGED <<workers, cell, free, cancelled>>

CleanupNext(t) ==
    /\ pc[t] = "search"
    /\ wtp[t] # NULL
    /\ cell[wtp[t]].tid # t
    /\ wtp' = [wtp EXCEPT ![t] = cell[wtp[t]].next]
    /\ UNCHANGED <<workers, cell, free, workerlock, pc, cancelled>>

\* Found: unlink it and release the lock.
CleanupUnlink(t) ==
    /\ pc[t] = "search"
    /\ wtp[t] # NULL
    /\ cell[wtp[t]].tid = t
    /\ LET w == cell[wtp[t]]
           c1 == IF w.next # NULL THEN [cell EXCEPT ![w.next].prev = w.prev]
                                  ELSE cell
       IN IF w.prev # NULL
            THEN /\ cell' = [c1 EXCEPT ![w.prev].next = c1[wtp[t]].next]
                 /\ UNCHANGED workers
            ELSE cell' = c1 /\ workers' = w.next
    /\ workerlock' = NULL
    /\ Goto(t, "free")
    /\ UNCHANGED <<free, wtp, cancelled>>

\* Not in the list: the socket stays open.
CleanupNone(t) ==
    /\ pc[t] = "search"
    /\ wtp[t] = NULL
    /\ workerlock' = NULL
    /\ Goto(t, "ended")
    /\ UNCHANGED <<workers, cell, free, wtp, cancelled>>

\* Close the socket and free the structure.
CleanupFree(t) ==
    /\ pc[t] = "free"
    /\ free' = free \cup {wtp[t]}
    /\ Goto(t, "ended")
    /\ UNCHANGED <<workers, cell, workerlock, wtp, cancelled>>

\* SIGTERM: kill_workers, then exit.
KillLock ==
    /\ pc[Killer] = "sigwait"
    /\ workerlock = NULL
    /\ workerlock' = Killer
    /\ wtp' = [wtp EXCEPT ![Killer] = workers]
    /\ Goto(Killer, "cancel")
    /\ UNCHANGED <<workers, cell, free, cancelled>>

KillCancel ==
    /\ pc[Killer] = "cancel"
    /\ wtp[Killer] # NULL
    /\ cancelled' = cancelled \cup {cell[wtp[Killer]].tid}
    /\ wtp' = [wtp EXCEPT ![Killer] = cell[wtp[Killer]].next]
    /\ UNCHANGED <<workers, cell, free, workerlock, pc>>

KillUnlock ==
    /\ pc[Killer] = "cancel"
    /\ wtp[Killer] = NULL
    /\ workerlock' = NULL
    /\ Goto(Killer, "exit")
    /\ UNCHANGED <<workers, cell, free, wtp, cancelled>>

\* What is done to memory that is free may also end the daemon: it is then
\* that a search follows the pointers of a free structure, or that add_worker
\* writes into one.
UsesFree(t) ==
    \/ pc[t] \in {"search", "cancel"} /\ wtp[t] \in free
    \/ pc[t] = "add" /\ workerlock = NULL /\ workers \in free

Fault ==
    /\ \E t \in Actors : UsesFree(t)
    /\ pc' = [t \in Actors |-> "crashed"]
    /\ workerlock' = NULL
    /\ UNCHANGED <<workers, cell, free, wtp, cancelled>>

\* A thread runs until the daemon has exited.
Worker(t) ==
    /\ pc[Killer] # "exit"
    /\ \/ Malloc(t) \/ AddWorker(t)
       \/ CleanupLock(t) \/ CleanupNext(t) \/ CleanupUnlink(t) \/ CleanupNone(t)
       \/ CleanupFree(t)
Terminate == KillLock \/ KillCancel \/ KillUnlock

Next == (\E t \in Threads : Worker(t)) \/ Terminate \/ Fault

Spec ==
    /\ Init
    /\ [][Next]_vars
    /\ \A t \in Threads : WF_vars(Worker(t))
    /\ WF_vars(KillCancel \/ KillUnlock)

\* Violated: client_cleanup and kill_workers acquire and release workerlock
\* (printd.c:555 and 570): whoever takes it lets it go.
LockReleased == \A t \in Actors : workerlock = t ~> workerlock # t
================================================================================
