-------------------------------- MODULE Programs --------------------------------
(***************************************************************************)
(* The small programs and libraries of the repository side by side.  Each    *)
(* behaviour is one of one of them: "which" says of which and never changes, *)
(* the state of the module in question is in v1, v2, ..., and what it does   *)
(* not need is 0.  So the states are the sum of those of the modules, not    *)
(* their product; the programs have nothing to do with each other.          *)
(***************************************************************************)
EXTENDS Naturals, FiniteSets

CONSTANTS
    RefThreads, Objects,  \* those of the reference counted objects
    EnvThreads,           \* the threads that call getenv
    SemProcs, SemOpeners, \* the processes that use a semaphore, those that only open it
    BIGCOUNT, InitVal,    \* of the counter and of the semaphore
    MaxSets, MaxExits,    \* sets created, exits without sem_close
    QueueThreads, QueueJobs, \* those of a queue of jobs
    NQ, Messages,         \* the message queues and what is sent to each
    CoLines,              \* the lines for the coprocess
    NBUF, CopyBlocks,     \* the buffers of the copy, and its length
    NTHR, TNUM, LONG_MAX, \* the threads that sort, and their numbers
    SECTONSEC, Delay,     \* a second in ticks, the seconds until the call
    MaxClock,
    MemSize, Chars,       \* the size of the memory, the characters written to it
    DbProcs,              \* the processes that open a database
    Daemons,              \* the processes that would be the daemon
    NLOOPS,               \* the turns of parent and child
    MaxIn, MaxOut         \* what pty has to copy

\* No thread, process or object is NULL; a semaphore has fewer processes than the
\* counter can tell ("a process count": semaph.c).
ASSUME ProgramsAssumption ==
    /\ \A S \in {RefThreads, Objects, EnvThreads, QueueJobs, DbProcs, Daemons} : "NULL" \notin S
    /\ IsFiniteSet(SemProcs) /\ BIGCOUNT \in Nat /\ BIGCOUNT >= Cardinality(SemProcs)
    /\ InitVal \in Nat /\ MaxSets \in Nat /\ MaxExits \in Nat
    /\ IsFiniteSet(QueueJobs) /\ NQ \in Nat /\ Messages \in Nat /\ CoLines \in Nat
    /\ NBUF \in Nat /\ CopyBlocks \in Nat
    /\ NTHR \in Nat /\ TNUM \in Nat /\ LONG_MAX \in Nat
    /\ SECTONSEC \in Nat \ {0} /\ Delay \in Nat /\ MaxClock \in Nat
    /\ MemSize \in Nat \ {0}
    /\ NLOOPS \in Nat /\ MaxIn \in Nat /\ MaxOut \in Nat

VARIABLES which, v1, v2, v3, v4, v5, v6, v7, v8, v9

vars == <<which, v1, v2, v3, v4, v5, v6, v7, v8, v9>>

RC == INSTANCE Refcount WITH
    Threads <- RefThreads, NULL <- "NULL", version <- v1, alive <- v2, holders <- v3,
    count <- v4, flock <- v5, fh <- v6, hashlock <- v7, pc <- v8, arg <- v9

SE == INSTANCE Semaph WITH
    Procs <- SemProcs, Openers <- SemOpeners, cur <- v1, made <- v2, sem <- v3, undo <- v4,
    id <- v5, pc <- v6, exits <- v7

TW == INSTANCE TellWait WITH
    prog <- v1, version <- v2, pc <- v3, i <- v4, counter <- v5,
    told <- v6, sigflag <- v7, blocked <- v8, owner <- v9

JQ == INSTANCE JobQueue WITH
    Threads <- QueueThreads, Jobs <- QueueJobs, NULL <- "NULL",
    q_head <- v1, q_tail <- v2, j_next <- v3, j_prev <- v4, j_id <- v5, jp <- v6,
    queue <- v7

BA == INSTANCE Barrier WITH
    nums <- v1, snums <- v2, input <- v3,
    arrived <- v4, idx <- v5, sidx <- v6, pc <- v7

TI == INSTANCE Timeout WITH
    clock <- v1, when <- v2,
    condition <- v3, wake <- v4, to_wait <- v5, owner <- v6, depth <- v7,
    pc <- v8, ran <- v9

AI == INSTANCE AioCopy WITH
    Blocks <- CopyBlocks, op <- v1, block <- v2, data <- v3, last <- v4,
    done <- v5, off <- v6, i <- v7, pc <- v8, out <- v9

MS == INSTANCE MemStream WITH
    Size <- MemSize, open <- v1, buf <- v2, vsize <- v3, curpos <- v4,
    flags <- v5, file <- v6, got <- v7, wrote <- v8

DO == INSTANCE DbOpen WITH
    Procs <- DbProcs, NULL <- "NULL", idx <- v1, recs <- v2, dat <- v3,
    locker <- v4, oflag <- v5, pc <- v6, truncated <- v7, overlap <- v8

PT == INSTANCE Pty WITH
    opt <- v1, pc <- v2, tty <- v3, term <- v4,
    input <- v5, output <- v6

DA == INSTANCE Daemon WITH
    Procs <- Daemons, NULL <- "NULL", version <- v1, pc <- v2,
    hup <- v3, pending <- v4, stale <- v5, locker <- v6, pidfile <- v7

PO == INSTANCE Popen WITH
    Streams <- {"s1", "s2", "s3"}, NULL <- "NULL", type <- v1, childpid <- v2,
    ends <- v3, command <- v4, pc <- v5, closed <- v6

OF == INSTANCE OpenForked WITH
    Lines <- 2, Names <- {"a", "m"}, Files <- {"a"}, lines <- v1, name <- v2,
    have <- v3, request <- v4, answer <- v5, pc <- v6, shown <- v7

PM == INSTANCE PollMsg WITH
    version <- v1, received <- v2, hpc <- v3, m <- v4,
    fd <- v5, mutex <- v6, main <- v7, printed <- v8, spurious <- v9

SL == INSTANCE Sleep WITH
    version <- v1, pc <- v2, handler <- v3, blocked <- v4, timer <- v5,
    pending <- v6, sigint <- v7, woken <- v8, fate <- v9

SY == INSTANCE SystemCmd WITH
    pc <- v1, action <- v2, blocked <- v3, pending <- v4, handling <- v5,
    child <- v6, given <- v7, ended <- v8, status <- v9

SU == INSTANCE Suspend WITH
    MaxInt <- 2, version <- v1, pc <- v2, tpc <- v3, caught <- v4, blocked <- v5,
    pending <- v6, quitflag <- v7, lock <- v8, typed <- v9

TM == INSTANCE TtyModes WITH
    pc <- v1, wanted <- v2, mode <- v3, ttystate <- v4, caught <- v5, hpc <- v6,
    early <- v7

GE == INSTANCE Getenv WITH
    Threads <- EnvThreads, NULL <- "NULL", version <- v1, once <- v2,
    env_mutex <- v3, pc <- v4, name <- v5, envbuf <- v6, ret <- v7, shared <- v8

CO == INSTANCE Coproc WITH
    Lines <- CoLines, prog <- v1, pc <- v2, ends <- v3, fd1 <- v4, fd2 <- v5,
    buffer <- v6, typed <- v7, line <- v8, shown <- v9

Init ==
    \/ which = "refcount" /\ RC!Init
    \/ which = "semaph" /\ SE!Init /\ v8 = 0 /\ v9 = 0
    \/ which = "tellwait" /\ TW!Init
    \/ which = "jobqueue" /\ JQ!Init /\ v8 = 0 /\ v9 = 0
    \/ which = "barrier" /\ BA!Init /\ v8 = 0 /\ v9 = 0
    \/ which = "timeout" /\ TI!Init
    \/ which = "aiocopy" /\ AI!Init
    \/ which = "memstream" /\ MS!Init /\ v9 = 0
    \/ which = "dbopen" /\ DO!Init /\ v9 = 0
    \/ which = "pty" /\ PT!Init /\ v7 = 0 /\ v8 = 0 /\ v9 = 0
    \/ which = "daemon" /\ DA!Init /\ v8 = 0 /\ v9 = 0
    \/ which = "popen" /\ PO!Init /\ v7 = 0 /\ v8 = 0 /\ v9 = 0
    \/ which = "openforked" /\ OF!Init /\ v8 = 0 /\ v9 = 0
    \/ which = "pollmsg" /\ PM!Init
    \/ which = "sleep" /\ SL!Init
    \/ which = "system" /\ SY!Init
    \/ which = "suspend" /\ SU!Init
    \/ which = "ttymodes" /\ TM!Init /\ v8 = 0 /\ v9 = 0
    \/ which = "getenv" /\ GE!Init /\ v9 = 0
    \/ which = "coproc" /\ CO!Init

Next ==
    /\ UNCHANGED which
    /\ \/ which = "refcount" /\ RC!Next
       \/ which = "semaph" /\ SE!Next /\ UNCHANGED <<v8, v9>>
       \/ which = "tellwait" /\ TW!Next
       \/ which = "jobqueue" /\ JQ!Next /\ UNCHANGED <<v8, v9>>
       \/ which = "barrier" /\ BA!Next /\ UNCHANGED <<v8, v9>>
       \/ which = "timeout" /\ TI!Next
       \/ which = "aiocopy" /\ AI!Next
       \/ which = "memstream" /\ MS!Next /\ UNCHANGED <<v9>>
       \/ which = "dbopen" /\ DO!Next /\ UNCHANGED <<v9>>
       \/ which = "pty" /\ PT!Next /\ UNCHANGED <<v7, v8, v9>>
       \/ which = "daemon" /\ DA!Next /\ UNCHANGED <<v8, v9>>
       \/ which = "popen" /\ PO!Next /\ UNCHANGED <<v7, v8, v9>>
       \/ which = "openforked" /\ OF!Next /\ UNCHANGED <<v8, v9>>
       \/ which = "pollmsg" /\ PM!Next
       \/ which = "sleep" /\ SL!Next
       \/ which = "system" /\ SY!Next
       \/ which = "suspend" /\ SU!Next
       \/ which = "ttymodes" /\ TM!Next /\ UNCHANGED <<v8, v9>>
       \/ which = "getenv" /\ GE!Next /\ UNCHANGED v9
       \/ which = "coproc" /\ CO!Next

\* The fairness of each program: what it is in the middle of goes on; nobody has to
\* call, start or send anything.
Fairness ==
    /\ \A p \in TW!Procs :
          WF_vars(which = "tellwait" /\ TW!Step(p) /\ UNCHANGED which)
    /\ WF_vars(which = "barrier" /\ BA!Step /\ UNCHANGED <<which, v8, v9>>)
    /\ WF_vars(which = "timeout" /\ TI!Step /\ UNCHANGED which)
    /\ WF_vars(which = "aiocopy" /\ AI!Step /\ UNCHANGED which)
    /\ \A b \in AI!Buffers : WF_vars(which = "aiocopy" /\ AI!Complete(b) /\ UNCHANGED which)
    /\ WF_vars(which = "pty" /\ PT!Step /\ UNCHANGED <<which, v7, v8, v9>>)
    /\ \A s \in {"s1", "s2", "s3"} :
          WF_vars(which = "popen" /\ PO!Step(s) /\ UNCHANGED <<which, v7, v8, v9>>)
    /\ WF_vars(which = "openforked" /\ OF!ClientStep /\ UNCHANGED <<which, v8, v9>>)
    /\ WF_vars(which = "openforked" /\ OF!ServerStep /\ UNCHANGED <<which, v8, v9>>)
    /\ WF_vars(which = "pollmsg" /\ PM!Main /\ UNCHANGED which)
    /\ \A q \in PM!Queues : WF_vars(which = "pollmsg" /\ PM!Helper(q) /\ UNCHANGED which)
    /\ WF_vars(which = "sleep" /\ SL!Step /\ UNCHANGED which)
    /\ WF_vars(which = "sleep" /\ SL!Expire /\ UNCHANGED which)
    /\ WF_vars(which = "sleep" /\ SL!Deliver /\ UNCHANGED which)
    /\ WF_vars(which = "sleep" /\ SL!Finished /\ UNCHANGED which)
    /\ WF_vars(which = "suspend" /\ SU!Main /\ UNCHANGED which)
    /\ SF_vars(which = "suspend" /\ SU!Thread /\ UNCHANGED which)
    /\ WF_vars(which = "coproc" /\ CO!ParentStep /\ UNCHANGED which)
    /\ WF_vars(which = "coproc" /\ CO!ChildStep /\ UNCHANGED which)

Spec == Init /\ [][Next]_vars /\ Fairness
-----------------------------------------------------------------------------
(* The properties of the modules, each for the behaviours of its program.    *)

\* What a thread uses stays: an object is freed when nobody can reach it any more
\* (foo_rele), and what a call of getenv has copied is not overwritten (getenv).
InUseKept ==
    /\ which = "refcount" => RC!NoUseAfterFree
    /\ which = "getenv" => GE!ValueKept

\* A semaphore is not removed or initialised again under those who came in by
\* sem_create (sem_create, sem_close).
CreatorsKept == which = "semaph" => SE!CreatorsKept

\* Parent and child take turns (WAIT_PARENT, WAIT_CHILD).
TurnsAlternate == which = "tellwait" => TW!TurnsAlternate

\* What is queued comes out whole and in order: the jobs (job_insert, job_append,
\* job_remove), the messages (helper and main of pollmsg.c and pollmsg2.c), the
\* lines and the answers of a coprocess (main of pipe4.c).
QueueInOrder ==
    /\ which = "jobqueue" => JQ!QueueInOrder
    /\ which = "pollmsg" => PM!MessagesInOrder
    /\ which = "coproc" => CO!AnswersMatch

\* The merged numbers are the input in order (thr_fn, merge).
SortMerged == which = "barrier" => BA!SortMerged

\* The function is called once, and not before its time (timeout).
RetryOnTime == which = "timeout" => TI!RetryOnTime

\* Every block is translated and written at its place (main of rot13c2.c).
CopyWhole == which = "aiocopy" => AI!CopyWhole

\* The stream behaves as a file (fmemopen).
StreamIsFile == which = "memstream" => MS!StreamIsFile

\* The hash table is written once (db_open).
TableOnce == which = "dbopen" => DO!TableOnce

\* What was changed for a while is as it was: the terminal, when pty exits or t_raw
\* ends (tty_raw, tty_cbreak, tty_reset, tty_atexit), and the caller's actions and
\* signal mask when sleep and system return.  Not so the terminal when SIGTERM comes to
\* pty from outside before it has a handler (main.c:89, loop.c:39), and an alarm the
\* caller of sleep had (sleep.c:27).
CallerRestored ==
    /\ which = "pty" => PT!TtyRestored
    /\ which = "ttymodes" => TM!TerminalReset
    /\ which = "sleep" => SL!SleepRestores
    /\ which = "system" => SY!SystemKeeps

\* One daemon serves, and its ID is in the file (already_running).
OneDaemon == which = "daemon" => DA!OneDaemon

\* Nobody waits for the end of a pipe that another process still holds: pclose
\* returns, in whatever order streams are opened and closed (popen closes what the
\* child inherits), the forked open server ends with its client (csopen closes
\* the end it does not use), and so does the coprocess of pipe4.c, or it for it.
PipesClosed ==
    /\ \A s \in {"s1", "s2", "s3"} :
          (which = "popen" /\ PO!Waiting(s)) ~> (which = "popen" /\ PO!Closed(s))
    /\ (which = "openforked" /\ OF!Started) ~> (which = "openforked" /\ OF!Ended)
    /\ (which = "coproc" /\ CO!MustEnd) ~> (which = "coproc" /\ CO!Ended)

\* The programs that end by themselves do: the two of tellwait.c with the pipes, or
\* with signals when each waits once; the sort; the one with the timeout, whose
\* recursive mutex lets it call the function itself; the copy, whatever order its
\* operations are completed in; pty when the program on the terminal ends; sleep,
\* unless it is sleep1; the programs that wait for SIGQUIT when it is sent; and all
\* messages of the queues are printed.
ProgramsEnd ==
    /\ (which = "tellwait" /\ TW!MustEnd) ~> (which = "tellwait" /\ TW!Ended)
    /\ which = "barrier" ~> (which = "barrier" /\ BA!Ended)
    /\ which = "timeout" ~> (which = "timeout" /\ TI!Ended)
    /\ which = "aiocopy" ~> (which = "aiocopy" /\ AI!Ended)
    /\ (which = "pty" /\ PT!SlaveGone) ~> (which = "pty" /\ PT!Ended)
    /\ (which = "sleep" /\ SL!MustEnd) ~> (which = "sleep" /\ SL!Ended)
    /\ (which = "suspend" /\ SU!Quit) ~> (which = "suspend" /\ SU!Ended)
    /\ which = "pollmsg" ~> (which = "pollmsg" /\ PM!Ended)
=============================================================================
