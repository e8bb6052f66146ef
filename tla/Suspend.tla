--------------------------------- MODULE Suspend ---------------------------------
(***************************************************************************)
(* Waiting for SIGQUIT: apue.3e/signals/suspend2.c with a handler and        *)
(* sigsuspend, threadctl/suspend.c with a thread in sigwait that sets the    *)
(* flag under a mutex and signals a condition.                              *)
(***************************************************************************)
EXTENDS Naturals

CONSTANTS MaxInt    \* how often the user types the interrupt character

VARIABLES
    version,    \* "handler" or "thread"
    pc,         \* main
    tpc,        \* the thread: "none", "sigwait", "SIGQUIT", "locked", "signal", "ended"
    caught,     \* the signals that have a handler
    blocked,    \* the signals that are blocked
    pending,
    quitflag,
    lock,       \* "free", "main" or "thread"
    typed       \* how often each signal has been sent

vars == <<version, pc, tpc, caught, blocked, pending, quitflag, lock, typed>>

Signals == {"SIGINT", "SIGQUIT"}

Init ==
    /\ version \in {"handler", "thread"}
    /\ pc = IF version = "handler" THEN "signal SIGINT" ELSE "block"
    /\ tpc = "none"
    /\ caught = {}
    /\ blocked = {}
    /\ pending = {}
    /\ quitflag = FALSE
    /\ lock = "free"
    /\ typed = [s \in Signals |-> 0]

Ended == pc \in {"exit", "killed"}

\* A signal that is not blocked is delivered before the next step.
At(label) == pc = label /\ pending \subseteq blocked
-----------------------------------------------------------------------------
(* suspend2.c                                                               *)

SetHandler(s, next) ==
    /\ At(IF s = "SIGINT" THEN "signal SIGINT" ELSE "signal SIGQUIT")
    /\ version = "handler"
    /\ caught' = caught \cup {s}
    /\ pc' = next
    /\ UNCHANGED <<version, tpc, blocked, pending, quitflag, lock, typed>>

\* Here only SIGQUIT, in the other program both.
Block ==
    /\ At("block")
    /\ blocked' = IF version = "handler" THEN {"SIGQUIT"} ELSE Signals
    /\ pc' = IF version = "handler" THEN "while" ELSE "pthread_create"
    /\ UNCHANGED <<version, tpc, caught, pending, quitflag, lock, typed>>

\* while (quitflag == 0), and then the call of sigsuspend.
While ==
    /\ At("while")
    /\ pc' = IF quitflag THEN "clear" ELSE "tested"
    /\ UNCHANGED <<version, tpc, caught, blocked, pending, quitflag, lock, typed>>

Call ==
    /\ At("tested")
    /\ pc' = "sigsuspend"
    /\ UNCHANGED <<version, tpc, caught, blocked, pending, quitflag, lock, typed>>

\* No signal is blocked meanwhile; it returns when the handlers have.
Sigsuspend ==
    /\ pc = "sigsuspend" /\ pending # {}
    /\ quitflag' = (quitflag \/ "SIGQUIT" \in pending)
    /\ pending' = {}
    /\ pc' = "while"
    /\ UNCHANGED <<version, tpc, caught, blocked, lock, typed>>

Clear ==
    /\ At("clear")
    /\ quitflag' = FALSE
    /\ pc' = "restore"
    /\ UNCHANGED <<version, tpc, caught, blocked, pending, lock, typed>>

\* SIG_SETMASK of the old mask, and exit.
Restore ==
    /\ At("restore")
    /\ blocked' = {}
    /\ pc' = "last"
    /\ UNCHANGED <<version, tpc, caught, pending, quitflag, lock, typed>>

Exit ==
    /\ At("last")
    /\ pc' = "exit"
    /\ UNCHANGED <<version, tpc, caught, blocked, pending, quitflag, lock, typed>>
-----------------------------------------------------------------------------
(* suspend.c                                                                *)

Create ==
    /\ At("pthread_create")
    /\ tpc' = "sigwait"
    /\ pc' = "lock"
    /\ UNCHANGED <<version, caught, blocked, pending, quitflag, lock, typed>>

Lock ==
    /\ pc \in {"lock", "woken"} /\ lock = "free"
    /\ lock' = "main"
    /\ pc' = "test"
    /\ UNCHANGED <<version, tpc, caught, blocked, pending, quitflag, typed>>

\* while (quitflag == 0) pthread_cond_wait, which gives up the lock and sleeps in
\* one step; or unlock.
Test ==
    /\ pc = "test"
    /\ lock' = "free"
    /\ pc' = IF quitflag THEN "clear" ELSE "cond_wait"
    /\ UNCHANGED <<version, tpc, caught, blocked, pending, quitflag, typed>>

\* pthread_cond_wait may return by itself.
Spurious ==
    /\ pc = "cond_wait"
    /\ pc' = "woken"
    /\ UNCHANGED <<version, tpc, caught, blocked, pending, quitflag, lock, typed>>

Sigwait(s) ==
    /\ tpc = "sigwait" /\ s \in pending /\ ~Ended
    /\ pending' = pending \ {s}
    /\ tpc' = IF s = "SIGINT" THEN "sigwait" ELSE "SIGQUIT"
    /\ UNCHANGED <<version, pc, caught, blocked, quitflag, lock, typed>>

ThreadLock ==
    /\ tpc = "SIGQUIT" /\ lock = "free"
    /\ lock' = "thread"
    /\ tpc' = "locked"
    /\ UNCHANGED <<version, pc, caught, blocked, pending, quitflag, typed>>

SetFlag ==
    /\ tpc = "locked"
    /\ quitflag' = TRUE
    /\ lock' = "free"
    /\ tpc' = "signal"
    /\ UNCHANGED <<version, pc, caught, blocked, pending, typed>>

\* pthread_cond_signal, behind the unlock: main may have seen the flag before.
CondSignal ==
    /\ tpc = "signal" /\ ~Ended
    /\ pc' = IF pc = "cond_wait" THEN "woken" ELSE pc
    /\ tpc' = "ended"
    /\ UNCHANGED <<version, caught, blocked, pending, quitflag, lock, typed>>
-----------------------------------------------------------------------------
\* Delivered where it is not blocked: the handler, or the end of the process.
Deliver(s) ==
    /\ s \in pending \ blocked /\ pc # "sigsuspend" /\ ~Ended
    /\ pending' = pending \ {s}
    /\ quitflag' = (quitflag \/ (s = "SIGQUIT" /\ s \in caught))
    /\ pc' = IF s \in caught THEN pc ELSE "killed"
    /\ UNCHANGED <<version, tpc, caught, blocked, lock, typed>>

Type(s) ==
    /\ ~Ended
    /\ typed[s] < (IF s = "SIGINT" THEN MaxInt ELSE 2)
    /\ typed' = [typed EXCEPT ![s] = @ + 1]
    /\ pending' = pending \cup {s}
    /\ UNCHANGED <<version, pc, tpc, caught, blocked, quitflag, lock>>

Main ==
    \/ SetHandler("SIGINT", "signal SIGQUIT") \/ SetHandler("SIGQUIT", "block")
    \/ Block \/ While \/ Call \/ Sigsuspend \/ Clear \/ Restore \/ Exit
    \/ Create \/ Lock \/ Test
    \/ \E s \in Signals : Deliver(s)

Thread == (\E s \in Signals : Sigwait(s)) \/ ThreadLock \/ SetFlag \/ CondSignal

Next == Main \/ Thread \/ Spurious \/ \E s \in Signals : Type(s)

\* Strong fairness: a mutex that is free again and again is obtained, though main be
\* woken for nothing again and again.
Spec == Init /\ [][Next]_vars /\ WF_vars(Main) /\ SF_vars(Thread)
-----------------------------------------------------------------------------
\* SIGQUIT, whenever it is sent, is what ends the program: it is never missed between
\* the test of quitflag and the wait.
Quit == typed["SIGQUIT"] > 0
=============================================================================
