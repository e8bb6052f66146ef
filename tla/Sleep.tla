---------------------------------- MODULE Sleep ----------------------------------
(***************************************************************************)
(* The three versions of sleep: lib/sleep.c of apue.3e with sigsuspend, and  *)
(* signals/sleep1.c and sleep2.c with pause, the latter with longjmp; under  *)
(* the program signals/tsleep2.c, whose handler of SIGINT takes longer than  *)
(* the sleep.                                                               *)
(***************************************************************************)
EXTENDS Naturals

VARIABLES
    version,    \* "sleep", "sleep1" or "sleep2"
    pc,
    handler,    \* the action of SIGALRM: "caller" or "sig_alrm"
    blocked,    \* SIGALRM is blocked
    timer,      \* own: of sleep, "off", "set" or "expired"; caller: an alarm the caller
                \* has set before, "none", "set", "expired" or "canceled"
    pending,    \* SIGALRM is pending
    sigint,     \* the handler of SIGINT: "no", "running", "finished" or "left"
    woken,      \* pause or sigsuspend is to return: a handler has returned
    fate        \* "killed": SIGALRM met the caller's action, the default one;
                \* "undefined": a longjmp before the setjmp

vars == <<version, pc, handler, blocked, timer, pending, sigint, woken, fate>>

Init ==
    /\ version \in {"sleep", "sleep1", "sleep2"}
    /\ pc = "sigaction"
    /\ handler = "caller"
    /\ blocked = FALSE
    /\ \E c \in {"none", "set"} : timer = [own |-> "off", caller |-> c]
    /\ pending = FALSE
    /\ sigint = "no"
    /\ woken = FALSE
    /\ fate = "alive"

\* The process goes on in sleep when it is in no handler and none is to run first: a
\* signal that is not blocked is delivered before the next step.
At(label) ==
    /\ pc = label
    /\ sigint # "running" /\ fate = "alive"
    /\ ~pending \/ blocked
-----------------------------------------------------------------------------
Sigaction ==
    /\ At("sigaction")
    /\ handler' = "sig_alrm"
    /\ pc' = IF version = "sleep" THEN "block" ELSE "alarm"
    /\ UNCHANGED <<version, blocked, timer, pending, sigint, woken, fate>>

Block ==
    /\ At("block")
    /\ blocked' = TRUE
    /\ pc' = "alarm"
    /\ UNCHANGED <<version, handler, timer, pending, sigint, woken, fate>>

\* setjmp (sleep2) and alarm, of a time that is not 0.  There is one timer: an alarm of
\* the caller is canceled, and what was left of it, which alarm returns, thrown away.
Alarm ==
    /\ At("alarm")
    /\ timer' = [own |-> "set",
                  caller |-> IF timer.caller = "set" THEN "canceled" ELSE timer.caller]
    /\ pc' = "wait"
    /\ UNCHANGED <<version, handler, blocked, pending, sigint, woken, fate>>

\* The call of pause, or of sigsuspend, which unblocks SIGALRM while it waits: from
\* here on a handler wakes it.
Suspend ==
    /\ At("wait")
    /\ pc' = "suspended"
    /\ woken' = FALSE
    /\ UNCHANGED <<version, handler, blocked, timer, pending, sigint, fate>>

Wake ==
    /\ At("suspended") /\ woken
    /\ pc' = "cancel"
    /\ UNCHANGED <<version, handler, blocked, timer, pending, sigint, woken, fate>>

\* alarm(0): no signal any more, but one that is pending stays.
Cancel ==
    /\ At("cancel")
    /\ timer' = [timer EXCEPT !.own = "off"]
    /\ pc' = IF version = "sleep" THEN "restore" ELSE "returned"
    /\ UNCHANGED <<version, handler, blocked, pending, sigint, woken, fate>>

\* sigaction(SIGALRM, &oldact, NULL); the other versions leave the handler.
Restore ==
    /\ At("restore")
    /\ handler' = "caller"
    /\ pc' = "unblock"
    /\ UNCHANGED <<version, blocked, timer, pending, sigint, woken, fate>>

\* Mutant: the mask of the caller is not set again.
StayBlocked == UNCHANGED blocked

\* SIG_SETMASK of the mask the caller had.
SetMask == blocked' = FALSE

Unblock ==
    /\ At("unblock")
    /\ SetMask
    /\ pc' = "returned"
    /\ UNCHANGED <<version, handler, timer, pending, sigint, woken, fate>>
-----------------------------------------------------------------------------
Expire ==
    /\ \/ timer.own = "set" /\ timer' = [timer EXCEPT !.own = "expired"]
       \/ timer.caller = "set" /\ timer' = [timer EXCEPT !.caller = "expired"]
    /\ pending' = TRUE
    /\ UNCHANGED <<version, pc, handler, blocked, sigint, woken, fate>>

\* SIGALRM is delivered where it is not blocked, in the handler of SIGINT, too.
\* sig_alrm of sleep2 leaves whatever runs and goes on behind the pause, if setjmp has
\* been called.
Deliver ==
    /\ pending /\ fate = "alive"
    /\ ~blocked \/ (pc = "suspended" /\ ~woken)
    /\ pending' = FALSE
    /\ \/ /\ handler = "caller"
          /\ fate' = "killed"
          /\ UNCHANGED <<pc, sigint, woken>>
       \/ /\ handler = "sig_alrm" /\ version = "sleep2" /\ pc = "alarm"
          /\ fate' = "undefined"
          /\ UNCHANGED <<pc, sigint, woken>>
       \/ /\ handler = "sig_alrm" /\ version = "sleep2"
          /\ pc' = "cancel"
          /\ sigint' = IF sigint = "running" THEN "left" ELSE sigint
          /\ UNCHANGED <<woken, fate>>
       \/ /\ handler = "sig_alrm" /\ version # "sleep2"
          /\ woken' = (woken \/ pc = "suspended")
          /\ UNCHANGED <<pc, sigint, fate>>
    /\ UNCHANGED <<version, handler, blocked, timer>>

\* The user types the interrupt character once.
Interrupt ==
    /\ sigint = "no" /\ fate = "alive" /\ pc # "returned"
    /\ sigint' = "running"
    /\ UNCHANGED <<version, pc, handler, blocked, timer, pending, woken, fate>>

\* sig_int returns.
Finished ==
    /\ sigint = "running" /\ fate = "alive"
    /\ sigint' = "finished"
    /\ woken' = (woken \/ pc = "suspended")
    /\ UNCHANGED <<version, pc, handler, blocked, timer, pending, fate>>

Step == Sigaction \/ Block \/ Alarm \/ Suspend \/ Wake \/ Cancel \/ Restore \/ Unblock

Next == Step \/ Expire \/ Deliver \/ Interrupt \/ Finished

Spec ==
    /\ Init /\ [][Next]_vars
    /\ WF_vars(Step) /\ WF_vars(Expire) /\ WF_vars(Deliver) /\ WF_vars(Finished)
-----------------------------------------------------------------------------
\* sleep leaves the caller's action and mask as they were, no timer of its own and no
\* handler half way, which sleep1 and sleep2 do not; an alarm of the caller is gone
\* (sleep.c:27).  SIGALRM meets the caller's action only where it is the caller's own,
\* before sleep has changed the action, or where another signal, that alarm among them,
\* has ended the sleep and the time is over before alarm(0): then it is still pending
\* when the mask is restored (sleep.c:38-44).
SleepRestores ==
    version = "sleep" =>
        /\ pc = "returned" => handler = "caller" /\ ~blocked /\ timer.own = "off"
        /\ sigint # "left" /\ fate # "undefined"
        /\ fate = "killed" => sigint = "finished" \/ timer.caller = "expired"

\* sleep and sleep2 end; sleep1 sleeps for ever when the time is over before pause.
MustEnd == version # "sleep1"
Ended == pc = "returned" \/ fate # "alive"
-----------------------------------------------------------------------------
TypeOK ==
    /\ version \in {"sleep", "sleep1", "sleep2"}
    /\ pc \in {"sigaction", "block", "alarm", "wait", "suspended", "cancel", "restore",
               "unblock", "returned"}
    /\ handler \in {"caller", "sig_alrm"}
    /\ blocked \in BOOLEAN
    /\ timer \in [own : {"off", "set", "expired"},
                  caller : {"none", "set", "expired", "canceled"}]
    /\ pending \in BOOLEAN
    /\ sigint \in {"no", "running", "finished", "left"}
    /\ woken \in BOOLEAN
    /\ fate \in {"alive", "killed", "undefined"}

\* What makes SleepRestores inductive: where sleep is, and what of the handler, the
\* mask and the timer it has changed there; SIGALRM is pending before the time is over
\* only if it is the caller's, and behind the wait only if another handler has ended it.
SleepInv ==
    /\ TypeOK
    /\ version = "sleep" =>
          /\ handler = "caller" <=> pc \in {"sigaction", "unblock", "returned"}
          /\ blocked <=> pc \notin {"sigaction", "block", "returned"}
          /\ timer.own # "off" <=> pc \in {"wait", "suspended", "cancel"}
          /\ (pc \in {"sigaction", "block", "alarm"} \/ timer.own = "set") /\ pending =>
                timer.caller = "expired"
          /\ (pc = "suspended" /\ woken) \/ pc = "cancel" =>
                \/ timer.own = "expired" /\ ~pending
                \/ sigint = "finished" \/ timer.caller = "expired"
          /\ pc \in {"restore", "unblock", "returned"} /\ pending =>
                sigint = "finished" \/ timer.caller = "expired"
          /\ SleepRestores
=============================================================================
