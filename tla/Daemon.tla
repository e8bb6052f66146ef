--------------------------------- MODULE Daemon ---------------------------------
(***************************************************************************)
(* Daemons, apue.3e/daemons: daemonize (init.c, lib/daemonize.c), the file   *)
(* that lets only one copy run (single.c), and two ways to read the          *)
(* configuration again at SIGHUP, a thread in sigwait (reread.c) and signal  *)
(* handlers (reread2.c).  Processes start, are sent signals and are killed   *)
(* in any order.                                                            *)
(***************************************************************************)
EXTENDS Naturals

CONSTANTS
    Procs,
    NULL

VARIABLES
    version,    \* "thread" or "handlers"
    pc,
    hup,        \* what SIGHUP does to a process: "default", "ignored", "blocked", "caught"
    pending,    \* SIGHUP is pending
    stale,      \* history: the configuration was changed before a SIGHUP that was not
                \* ignored, and not read since
    locker,     \* the process that locks the lock file, or NULL
    pidfile     \* the process whose ID is in it, or NULL

vars == <<version, pc, hup, pending, stale, locker, pidfile>>

Init ==
    /\ version \in {"thread", "handlers"}
    /\ pc = [p \in Procs |-> "off"]
    /\ hup = [p \in Procs |-> "default"]
    /\ pending = [p \in Procs |-> FALSE]
    /\ stale = [p \in Procs |-> FALSE]
    /\ locker = NULL
    /\ pidfile = NULL

Goto(p, label) == pc' = [pc EXCEPT ![p] = label]

\* The end of a process: its lock goes, its ID stays in the file.
Ends(p) ==
    /\ Goto(p, "off")
    /\ hup' = [hup EXCEPT ![p] = "default"]
    /\ pending' = [pending EXCEPT ![p] = FALSE]
    /\ stale' = [stale EXCEPT ![p] = FALSE]
    /\ locker' = IF locker = p THEN NULL ELSE locker
    /\ UNCHANGED <<version, pidfile>>
-----------------------------------------------------------------------------
\* daemonize: the process that is left after the two forks ignores SIGHUP.  Any of
\* its calls may fail.
Daemonize(p) ==
    /\ pc[p] = "off"
    /\ Goto(p, "open")
    /\ hup' = [hup EXCEPT ![p] = "ignored"]
    /\ UNCHANGED <<version, pending, stale, locker, pidfile>>

\* Mutant: a lock for reading.
ReadLock(p) == locker' = p

\* lockfile: a lock for writing on the whole file, or an error at once.
Lockfile(p) == locker = NULL /\ locker' = p

\* already_running: another daemon has the lock, or the file is locked.
AlreadyRunning(p) ==
    /\ pc[p] = "open"
    /\ locker # NULL
    /\ Ends(p)

LockPidfile(p) ==
    /\ pc[p] = "open"
    /\ Lockfile(p)
    /\ Goto(p, "truncate")
    /\ UNCHANGED <<version, hup, pending, stale, pidfile>>

\* ftruncate and write
Truncate(p) ==
    /\ pc[p] = "truncate"
    /\ pidfile' = NULL
    /\ Goto(p, "write")
    /\ UNCHANGED <<version, hup, pending, stale, locker>>

WritePid(p) ==
    /\ pc[p] = "write"
    /\ pidfile' = p
    /\ Goto(p, IF version = "thread" THEN "default" ELSE "handlers")
    /\ UNCHANGED <<version, hup, pending, stale, locker>>

\* reread.c: SIGHUP back to its default, and then all signals are blocked.
SighupDefault(p) ==
    /\ pc[p] = "default"
    /\ hup' = [hup EXCEPT ![p] = "default"]
    /\ Goto(p, "block")
    /\ UNCHANGED <<version, pending, stale, locker, pidfile>>

BlockSignals(p) ==
    /\ pc[p] = "block"
    /\ hup' = [hup EXCEPT ![p] = "blocked"]
    /\ Goto(p, "serve")
    /\ UNCHANGED <<version, pending, stale, locker, pidfile>>

\* reread2.c: the handlers.
SetHandlers(p) ==
    /\ pc[p] = "handlers"
    /\ hup' = [hup EXCEPT ![p] = "caught"]
    /\ Goto(p, "serve")
    /\ UNCHANGED <<version, pending, stale, locker, pidfile>>

\* thr_fn in reread.c and sighup in reread2.c: the signal is taken, the file is read.
TakeSighup(p) ==
    /\ pc[p] = "serve" /\ pending[p]
    /\ pending' = [pending EXCEPT ![p] = FALSE]
    /\ Goto(p, "reread")
    /\ UNCHANGED <<version, hup, stale, locker, pidfile>>

Reread(p) ==
    /\ pc[p] = "reread"
    /\ stale' = [stale EXCEPT ![p] = FALSE]
    /\ Goto(p, "serve")
    /\ UNCHANGED <<version, hup, pending, locker, pidfile>>
-----------------------------------------------------------------------------
\* The configuration is changed and SIGHUP sent to the process of the lock file.
Sighup(p) ==
    /\ pidfile = p /\ pc[p] # "off"
    /\ IF hup[p] = "default" THEN Ends(p)
       ELSE /\ pending' = [pending EXCEPT ![p] = hup[p] # "ignored"]
            /\ stale' = [stale EXCEPT ![p] = @ \/ hup[p] # "ignored"]
            /\ UNCHANGED <<version, pc, hup, locker, pidfile>>

\* The process exits: SIGTERM, SIGKILL, an error, or its work is done.
Exit(p) == pc[p] # "off" /\ Ends(p)

Step(p) ==
    \/ AlreadyRunning(p) \/ LockPidfile(p) \/ Truncate(p) \/ WritePid(p)
    \/ SighupDefault(p) \/ BlockSignals(p) \/ SetHandlers(p)
    \/ TakeSighup(p) \/ Reread(p)

Next == \E p \in Procs : Daemonize(p) \/ Step(p) \/ Sighup(p) \/ Exit(p)

Spec == Init /\ [][Next]_vars /\ \A p \in Procs : WF_vars(Step(p))
-----------------------------------------------------------------------------
Serving(p) == pc[p] \in {"serve", "reread"}

\* At most one daemon serves, it has the lock and its own ID is in the file, so that
\* a signal sent by it reaches that daemon, whoever starts and ends at the same time
\* (already_running, where the lock comes before the file is emptied).  A
\* change that was announced by a SIGHUP is read: the signal is pending or the file
\* is being read, unless the signal came while SIGHUP was ignored.
OneDaemon ==
    /\ \A p \in Procs : Serving(p) =>
          locker = p /\ pidfile = p /\ \A q \in Procs \ {p} : ~Serving(q)
    /\ \A p \in Procs : pc[p] \in {"truncate", "write"} => locker = p
    /\ \A p \in Procs : stale[p] => pending[p] \/ pc[p] = "reread"
-----------------------------------------------------------------------------
\* What makes OneDaemon inductive: the lock belongs to the process that is past it,
\* the file has held its ID since it was written, and a SIGHUP that counts comes to a
\* process that serves and no longer ignores it.
Locked(p) == pc[p] \notin {"off", "open"}
Named(p) == Locked(p) /\ pc[p] \notin {"truncate", "write"}

TypeOK ==
    /\ version \in {"thread", "handlers"}
    /\ pc \in [Procs -> {"off", "open", "truncate", "write", "default", "block",
                         "handlers", "serve", "reread"}]
    /\ hup \in [Procs -> {"default", "ignored", "blocked", "caught"}]
    /\ pending \in [Procs -> BOOLEAN]
    /\ stale \in [Procs -> BOOLEAN]
    /\ locker \in Procs \cup {NULL}
    /\ pidfile \in Procs \cup {NULL}

Steady(p) ==
    /\ Locked(p) => locker = p
    /\ Named(p) => pidfile = p
    /\ hup[p] \in {"blocked", "caught"} <=> Serving(p)
    /\ stale[p] => Serving(p) /\ (pending[p] \/ pc[p] = "reread")

DaemonInv == TypeOK /\ \A p \in Procs : Steady(p)
=============================================================================
