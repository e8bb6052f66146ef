-------------------------------- MODULE TellWait --------------------------------
(***************************************************************************)
(* A parent and its child that take turns: TELL_WAIT and its four companions *)
(* with signals (apue.3e/lib/tellwait.c) and with two pipes (ipc1/           *)
(* tellwait.c), under the programs that use them most: the shared counter of *)
(* ipc1/devzero.c, which they increment in turn, and the two locked bytes of *)
(* advio/deadlock.c, where each waits for the byte of the other.            *)
(***************************************************************************)
EXTENDS Naturals

CONSTANTS NLOOPS    \* how often devzero.c increments the counter, an even number

VARIABLES
    prog,       \* "devzero" or "deadlock"
    version,    \* "signals" or "pipes"
    pc,
    i,          \* the value a process expects next
    counter,    \* the shared counter
    told,       \* the signals pending for a process, the bytes in its pipe
    sigflag,
    blocked,    \* SIGUSR1 and SIGUSR2 are blocked
    owner       \* owner[p]: the process that locks the byte p locks first, or "none"

vars == <<prog, version, pc, i, counter, told, sigflag, blocked, owner>>

Procs == {"parent", "child"}
Other(p) == IF p = "parent" THEN "child" ELSE "parent"

\* TELL_WAIT, before the fork.
Init ==
    /\ prog \in {"devzero", "deadlock"}
    /\ version \in {"signals", "pipes"}
    /\ pc = [p \in Procs |-> IF prog = "deadlock" THEN "lock"
                             ELSE IF p = "parent" THEN "update" ELSE "wait"]
    /\ i = [p \in Procs |-> IF p = "parent" THEN 0 ELSE 1]
    /\ counter = 0
    /\ told = [p \in Procs |-> 0]
    /\ sigflag = [p \in Procs |-> FALSE]
    /\ blocked = [p \in Procs |-> TRUE]
    /\ owner = [p \in Procs |-> "none"]

Goto(p, label) == pc' = [pc EXCEPT ![p] = label]

\* exit: the locks of the process go.
Exit(p, label) ==
    /\ Goto(p, label)
    /\ owner' = [q \in Procs |-> IF owner[q] = p THEN "none" ELSE owner[q]]

\* The next turn, or the end of the loop of devzero.c.
Turn(p, label) ==
    LET last == IF p = "parent" THEN NLOOPS ELSE NLOOPS + 1 IN
    /\ i' = [i EXCEPT ![p] = @ + 2]
    /\ IF i[p] + 2 < last THEN Goto(p, label) ELSE Goto(p, "done")
-----------------------------------------------------------------------------
(* TELL_PARENT and TELL_CHILD, WAIT_PARENT and WAIT_CHILD                   *)

\* kill: a signal that is pending already is not counted twice; write: a byte more.
Tell(p) ==
    /\ pc[p] = "tell"
    /\ told' = [told EXCEPT ![Other(p)] = IF version = "signals" THEN 1 ELSE @ + 1]
    /\ IF prog = "devzero" /\ p = "child"
         THEN Turn(p, "wait")
         ELSE Goto(p, "wait") /\ UNCHANGED i
    /\ UNCHANGED <<prog, version, counter, sigflag, blocked, owner>>

\* What the caller does when its wait is over.
Waited(p) ==
    IF prog = "deadlock" THEN Goto(p, "lock_other") /\ UNCHANGED i
    ELSE IF p = "child" THEN Goto(p, "update") /\ UNCHANGED i
    ELSE Turn(p, "update")

\* read from the pipe
WaitPipe(p) ==
    /\ version = "pipes"
    /\ pc[p] = "wait" /\ told[p] > 0
    /\ told' = [told EXCEPT ![p] = @ - 1]
    /\ Waited(p)
    /\ UNCHANGED <<prog, version, counter, sigflag, blocked, owner>>

\* while (sigflag == 0)
TestFlag(p) ==
    /\ version = "signals"
    /\ pc[p] = "wait"
    /\ Goto(p, IF sigflag[p] THEN "clear" ELSE "tested")
    /\ UNCHANGED <<prog, version, i, counter, told, sigflag, blocked, owner>>

Sigsuspend(p) ==
    /\ pc[p] = "tested"
    /\ Goto(p, "suspend")
    /\ UNCHANGED <<prog, version, i, counter, told, sigflag, blocked, owner>>

\* The signal handler: sigsuspend returns after it, and it runs anywhere once
\* the signals are no longer blocked.
Caught(p) ==
    /\ version = "signals"
    /\ told[p] > 0
    /\ pc[p] = "suspend" \/ ~blocked[p]
    /\ told' = [told EXCEPT ![p] = 0]
    /\ sigflag' = [sigflag EXCEPT ![p] = TRUE]
    /\ Goto(p, IF pc[p] = "suspend" THEN "wait" ELSE pc[p])
    /\ UNCHANGED <<prog, version, i, counter, blocked, owner>>

\* Mutant: sigflag is not set back to 0.
KeepFlag(p) == UNCHANGED sigflag

ClearFlag(p) == sigflag' = [sigflag EXCEPT ![p] = FALSE]

Clear(p) ==
    /\ pc[p] = "clear"
    /\ ClearFlag(p)
    /\ Goto(p, "unmask")
    /\ UNCHANGED <<prog, version, i, counter, told, blocked, owner>>

\* SIG_SETMASK of the mask before TELL_WAIT
Unmask(p) ==
    /\ pc[p] = "unmask"
    /\ blocked' = [blocked EXCEPT ![p] = FALSE]
    /\ Waited(p)
    /\ UNCHANGED <<prog, version, counter, told, sigflag, owner>>
-----------------------------------------------------------------------------
\* devzero.c: increment the counter, and give up if it is not the expected one.
Update(p) ==
    /\ pc[p] = "update"
    /\ counter' = counter + 1
    /\ Goto(p, IF counter = i[p] THEN "tell" ELSE "err_quit")
    /\ UNCHANGED <<prog, version, i, told, sigflag, blocked, owner>>

\* deadlock.c: lock a byte of one's own; it is free.
LockOwn(p) ==
    /\ pc[p] = "lock"
    /\ owner' = [owner EXCEPT ![p] = p]
    /\ Goto(p, "tell")
    /\ UNCHANGED <<prog, version, i, counter, told, sigflag, blocked>>

\* deadlock.c: wait for the byte of the other process.  The kernel lets nobody
\* wait in a circle: the second gets EDEADLK and exits.
LockOther(p) ==
    /\ pc[p] = "lock_other"
    /\ \/ /\ owner[Other(p)] = "none"
          /\ Exit(p, "done")
       \/ /\ owner[Other(p)] # "none" /\ pc[Other(p)] # "blocked"
          /\ Goto(p, "blocked")
          /\ UNCHANGED owner
       \/ /\ owner[Other(p)] # "none" /\ pc[Other(p)] = "blocked"
          /\ Exit(p, "err_sys")
    /\ UNCHANGED <<prog, version, i, counter, told, sigflag, blocked>>

Unblocked(p) ==
    /\ pc[p] = "blocked"
    /\ owner[Other(p)] = "none"
    /\ Exit(p, "done")
    /\ UNCHANGED <<prog, version, i, counter, told, sigflag, blocked>>

Step(p) ==
    \/ Tell(p) \/ WaitPipe(p) \/ TestFlag(p) \/ Sigsuspend(p) \/ Caught(p)
    \/ Clear(p) \/ Unmask(p)
    \/ Update(p) \/ LockOwn(p) \/ LockOther(p) \/ Unblocked(p)

Next == \E p \in Procs : Step(p)

Spec == Init /\ [][Next]_vars /\ \A p \in Procs : WF_vars(Step(p))
-----------------------------------------------------------------------------
\* The counter is touched by one process at a time and always has the value that
\* process expects; and of the two processes in the circle exactly one is refused:
\* nobody waits for a process that has the error, and not both have it
\* (WAIT_PARENT and WAIT_CHILD, update in devzero.c, lockabyte in deadlock.c).
TurnsAlternate ==
    /\ \A p \in Procs : pc[p] = "update" =>
          counter = i[p] /\ pc[Other(p)] \notin {"update", "tell"}
    /\ \A p \in Procs : pc[p] = "lock_other" =>
          owner[Other(p)] # "none" \/ pc[Other(p)] \in {"done", "err_sys"}
    /\ ~ \A p \in Procs : pc[p] = "err_sys"

\* The programs come to their end; the loop of devzero.c only with the pipes: once
\* WAIT_PARENT and WAIT_CHILD have restored the mask a signal between the test of
\* sigflag and sigsuspend is missed (tellwait.c:38-45).
MustEnd == version = "pipes" \/ prog = "deadlock"
Ended == \A p \in Procs : pc[p] \in {"done", "err_sys"}
-----------------------------------------------------------------------------
TypeOK ==
    /\ prog \in {"devzero", "deadlock"}
    /\ version \in {"signals", "pipes"}
    /\ pc \in [Procs -> {"update", "lock", "tell", "wait", "tested", "suspend", "clear",
                         "unmask", "lock_other", "blocked", "done", "err_quit",
                         "err_sys"}]
    /\ i \in [Procs -> Nat]
    /\ counter \in Nat
    /\ told \in [Procs -> {0, 1}]
    /\ sigflag \in [Procs -> BOOLEAN]
    /\ blocked \in [Procs -> BOOLEAN]
    /\ owner \in [Procs -> Procs \cup {"none"}]

Waiting(p) == pc[p] \in {"wait", "tested", "suspend"}
Notified(p) == told[p] > 0 \/ sigflag[p]

\* A process is told once, by a signal or a byte that is still to come or by the flag,
\* which is set where it is to be set back.
Flag(p) ==
    /\ told[p] = 1 => ~sigflag[p]
    /\ pc[p] = "clear" => sigflag[p]
    /\ pc[p] = "unmask" => ~Notified(p)

\* devzero.c: one of the two has its turn, or has been told that it has; the other
\* waits or is done.  In its turn the counter is what it expects, or one more when
\* it has incremented it.
HasTurn(p) == pc[p] \in {"update", "tell", "clear", "unmask"} \/ Notified(p)

OneTurn ==
    /\ \A p \in Procs :
          /\ pc[p] \in {"update", "tell", "wait", "tested", "suspend", "clear",
                        "unmask", "done"}
          /\ Notified(p) => Waiting(p) \/ pc[p] = "clear"
    /\ \/ HasTurn("parent") /\ ~HasTurn("child")
       \/ HasTurn("child") /\ Waiting("parent") /\ ~HasTurn("parent")
       \/ pc["parent"] = "done" /\ pc["child"] = "done"
    /\ pc["parent"] = "done" => pc["child"] = "done"
    /\ pc["child"] = "done" => i["child"] >= NLOOPS + 1
    /\ pc["child"] # "done" /\ i["child"] > 1 => i["child"] < NLOOPS + 1
    /\ pc["parent"] = "update" => counter = i["parent"]
    /\ pc["parent"] = "tell" => counter = i["parent"] + 1
    /\ pc["parent"] \in {"update", "tell"} =>
          pc["child"] # "done" /\ i["child"] = i["parent"] + 1
    /\ HasTurn("parent") /\ pc["parent"] \notin {"update", "tell"} =>
          counter = i["parent"] + 2 /\ i["child"] = counter + 1
    /\ HasTurn("child") =>
          /\ i["child"] = i["parent"] + 1
          /\ counter = i["child"] + (IF pc["child"] = "tell" THEN 1 ELSE 0)

\* deadlock.c: a process has its own byte from lockabyte to its end; it waits for the
\* other byte, or knows that it may, when that process has locked it.
Locks(p) ==
    /\ pc[p] \notin {"update", "err_quit"}
    /\ owner[p] = IF pc[p] \in {"lock", "done", "err_sys"} THEN "none" ELSE p
    /\ Notified(p) \/ pc[p] \in {"clear", "unmask", "lock_other", "blocked", "done",
                                 "err_sys"} => pc[Other(p)] \notin {"lock", "tell"}
    /\ pc[p] \in {"unmask", "lock_other", "blocked", "done", "err_sys"} => ~Notified(p)
    /\ pc[p] = "err_sys" => pc[Other(p)] \in {"blocked", "done"}

TurnsInv ==
    /\ TypeOK
    /\ \A p \in Procs : Flag(p)
    /\ prog = "devzero" => OneTurn
    /\ prog = "deadlock" => \A p \in Procs : Locks(p)
=============================================================================
