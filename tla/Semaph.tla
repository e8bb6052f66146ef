--------------------------------- MODULE Semaph ---------------------------------
(***************************************************************************)
(* The System V semaphore library, apue.3e/lib/semaph.c: a set of three      *)
(* semaphores, sem[1] the value, sem[2] the counter of the processes that    *)
(* use it (it starts at BIGCOUNT and goes down) and sem[3] a lock.  (The     *)
(* code counts the members from 0.)                                         *)
(*                                                                         *)
(* A process creates or opens the semaphore, enters and leaves a critical    *)
(* section guarded by it and closes it; it may exit anywhere, and the kernel *)
(* then applies its adjust values (SEM_UNDO).                               *)
(***************************************************************************)
EXTENDS Integers, FiniteSets

CONSTANTS
    Procs,
    Openers,    \* the processes that call sem_open, the others call sem_create
    BIGCOUNT,
    InitVal,    \* the initial value
    MaxSets,    \* sets created during a behaviour
    MaxExits    \* processes that exit without sem_close

VARIABLES
    cur,        \* the ID of the set of the key, 0 if there is none
    made,       \* sets created so far
    sem,        \* the values of the current set
    undo,       \* undo[p]: the adjust values of p
    id,         \* id[p]: the ID p got from semget
    pc,
    exits

vars == <<cur, made, sem, undo, id, pc, exits>>

NoUndo == <<0, 0, 0>>

Init ==
    /\ cur = 0
    /\ made = 0
    /\ sem = <<0, 0, 0>>
    /\ undo = [p \in Procs |-> NoUndo]
    /\ id = [p \in Procs |-> 0]
    /\ pc = [p \in Procs |-> "out"]
    /\ exits = 0

Goto(p, label) == pc' = [pc EXCEPT ![p] = label]

\* err_sys and err_dump end the process, and its adjust values go with it.
Dies(p) ==
    /\ Goto(p, "dead")
    /\ undo' = [undo EXCEPT ![p] = NoUndo]

Gone(p) == cur # id[p]

\* What the kernel makes of the values when p ends.
Undone(p) == [k \in 1 .. 3 |-> sem[k] + undo[p][k]]

\* semop on members k with amounts d[k] and SEM_UNDO.
Semop(p, d) ==
    /\ sem' = [k \in 1 .. 3 |-> sem[k] + d[k]]
    /\ undo' = [undo EXCEPT ![p] = [k \in 1 .. 3 |-> @[k] - d[k]]]
-----------------------------------------------------------------------------
(* sem_create                                                               *)

\* semget with IPC_CREAT: a new set has three zeros.
CreateGet(p) ==
    /\ pc[p] = "out" /\ p \notin Openers
    /\ \/ /\ cur # 0
          /\ UNCHANGED <<cur, made, sem>>
       \/ /\ cur = 0 /\ made < MaxSets
          /\ made' = made + 1
          /\ cur' = made + 1
          /\ sem' = <<0, 0, 0>>
    /\ id' = [id EXCEPT ![p] = cur']
    /\ Goto(p, "lock")
    /\ UNCHANGED <<undo, exits>>

\* semop(op_lock): EINVAL, and back to semget, if the set is gone; otherwise the
\* lock, at once or after a sleep.
CreateLock(p) ==
    /\ pc[p] = "lock"
    /\ \/ Gone(p) /\ Goto(p, "out") /\ UNCHANGED <<sem, undo>>
       \/ ~Gone(p) /\ sem[3] = 0 /\ Semop(p, <<0, 0, 1>>) /\ Goto(p, "count")
       \/ ~Gone(p) /\ sem[3] # 0 /\ Goto(p, "asleep") /\ UNCHANGED <<sem, undo>>
    /\ UNCHANGED <<cur, made, id, exits>>

\* A process asleep in semop(op_lock) gets the lock, or EIDRM when the set is
\* removed: that is not the error looked for.
CreateWake(p) ==
    /\ pc[p] = "asleep"
    /\ \/ Gone(p) /\ Dies(p) /\ UNCHANGED sem
       \/ ~Gone(p) /\ sem[3] = 0 /\ Semop(p, <<0, 0, 1>>) /\ Goto(p, "count")
    /\ UNCHANGED <<cur, made, id, exits>>

\* GETVAL, and SETVAL of the value if the counter is 0; SETVAL clears the adjust
\* values of that member in every process.
CreateCount(p) ==
    /\ pc[p] = "count"
    /\ IF sem[2] = 0
         THEN /\ sem' = [sem EXCEPT ![1] = InitVal]
              /\ undo' = [q \in Procs |-> [undo[q] EXCEPT ![1] = 0]]
              /\ Goto(p, "setcount")
         ELSE Goto(p, "endcreate") /\ UNCHANGED <<sem, undo>>
    /\ UNCHANGED <<cur, made, id, exits>>

CreateSetCount(p) ==
    /\ pc[p] = "setcount"
    /\ sem' = [sem EXCEPT ![2] = BIGCOUNT]
    /\ undo' = [q \in Procs |-> [undo[q] EXCEPT ![2] = 0]]
    /\ Goto(p, "endcreate")
    /\ UNCHANGED <<cur, made, id, exits>>

\* semop(op_endcreate)
CreateEnd(p) ==
    /\ pc[p] = "endcreate"
    /\ Semop(p, <<0, -1, -1>>)
    /\ Goto(p, "in")
    /\ UNCHANGED <<cur, made, id, exits>>
-----------------------------------------------------------------------------
(* sem_open                                                                 *)

OpenGet(p) ==
    /\ pc[p] = "out" /\ p \in Openers
    /\ cur # 0
    /\ id' = [id EXCEPT ![p] = cur]
    /\ Goto(p, "open")
    /\ UNCHANGED <<cur, made, sem, undo, exits>>

\* semop(op_open), without the lock: it waits while the counter is 0, and fails
\* when the set is gone.
Open(p) ==
    /\ pc[p] = "open"
    /\ \/ Gone(p) /\ Dies(p) /\ UNCHANGED sem
       \/ ~Gone(p) /\ sem[2] > 0 /\ Semop(p, <<0, -1, 0>>) /\ Goto(p, "in")
    /\ UNCHANGED <<cur, made, id, exits>>
-----------------------------------------------------------------------------
(* sem_close and sem_rm                                                     *)

\* Mutant: op_close without its first member, the wait for the lock.
CloseUnlocked(p) == TRUE

CloseReady(p) == sem[3] = 0

\* semop(op_close): the lock and the counter in one operation.
CloseLock(p) ==
    /\ pc[p] = "in"
    /\ \/ Gone(p) /\ Dies(p) /\ UNCHANGED sem
       \/ ~Gone(p) /\ CloseReady(p) /\ Semop(p, <<0, 1, 1>>) /\ Goto(p, "close")
    /\ UNCHANGED <<cur, made, id, exits>>

\* Mutant: the counter is compared with the value it has when one user is left.
LastOffByOne == sem[2] >= BIGCOUNT - 1

Last == sem[2] = BIGCOUNT

\* GETVAL: the last process removes the set, the others unlock it.
CloseCount(p) ==
    /\ pc[p] = "close"
    /\ IF sem[2] > BIGCOUNT THEN Dies(p) /\ sem' = Undone(p)
       ELSE IF Last THEN Goto(p, "rm") /\ UNCHANGED <<sem, undo>>
       ELSE Semop(p, <<0, 0, -1>>) /\ Goto(p, "out")
    /\ UNCHANGED <<cur, made, id, exits>>

SemRm(p) ==
    /\ pc[p] = "rm"
    /\ cur' = 0
    /\ sem' = <<0, 0, 0>>
    /\ undo' = [undo EXCEPT ![p] = NoUndo]
    /\ Goto(p, "out")
    /\ UNCHANGED <<made, id, exits>>
-----------------------------------------------------------------------------
(* sem_op, and the end of a process                                         *)

\* sem_wait: a process enters its critical section.
SemWait(p) ==
    /\ pc[p] = "in"
    /\ \/ Gone(p) /\ Dies(p) /\ UNCHANGED sem
       \/ ~Gone(p) /\ sem[1] > 0 /\ Semop(p, <<-1, 0, 0>>) /\ Goto(p, "critical")
    /\ UNCHANGED <<cur, made, id, exits>>

\* sem_signal
SemSignal(p) ==
    /\ pc[p] = "critical"
    /\ \/ Gone(p) /\ Dies(p) /\ UNCHANGED sem
       \/ ~Gone(p) /\ Semop(p, <<1, 0, 0>>) /\ Goto(p, "in")
    /\ UNCHANGED <<cur, made, id, exits>>

\* The process exits: the kernel adds its adjust values, if the set is still there.
Exit(p) ==
    /\ exits < MaxExits
    /\ pc[p] \notin {"out", "dead"}
    /\ exits' = exits + 1
    /\ sem' = IF Gone(p) THEN sem ELSE Undone(p)
    /\ Dies(p)
    /\ UNCHANGED <<cur, made, id>>

Step(p) ==
    \/ CreateLock(p) \/ CreateWake(p) \/ CreateCount(p) \/ CreateSetCount(p)
    \/ CreateEnd(p) \/ Open(p) \/ CloseCount(p) \/ SemRm(p) \/ SemSignal(p)

Call(p) == CreateGet(p) \/ OpenGet(p) \/ CloseLock(p) \/ SemWait(p) \/ Exit(p)

Next == \E p \in Procs : Step(p) \/ Call(p)

Spec == Init /\ [][Next]_vars
-----------------------------------------------------------------------------
Users == { p \in Procs : pc[p] \in {"in", "critical"} }

\* The set is not removed and not initialised again under a process that came in
\* by sem_create, whoever exits without sem_close; the semaphore admits at most
\* InitVal of its users at a time, and the counter is right when it is not locked:
\* it tells how many processes have not closed (sem_create and sem_close under the
\* lock, SEM_UNDO for the processes that exit).
CreatorsKept ==
    /\ \A p \in Users \ Openers : ~Gone(p)
    /\ Cardinality({ p \in Procs : pc[p] = "critical" /\ ~Gone(p) }) <= InitVal
    /\ cur # 0 /\ sem[3] = 0 /\ sem[2] # 0 =>
          sem[2] = BIGCOUNT - Cardinality({ p \in Users : ~Gone(p) })
-----------------------------------------------------------------------------
(* The invariant from which CreatorsKept follows.                             *)

Locked(p) == pc[p] \in {"count", "setcount", "endcreate", "close", "rm"}
HereUsers == { p \in Users : ~Gone(p) }
HereCritical == { p \in Procs : pc[p] = "critical" /\ ~Gone(p) }

TypeOK ==
    /\ made \in Nat
    /\ cur \in 0 .. made
    /\ sem \in [1 .. 3 -> Int]
    /\ undo \in [Procs -> [1 .. 3 -> Int]]
    /\ id \in [Procs -> 0 .. made]
    /\ pc \in [Procs -> {"out", "lock", "asleep", "count", "setcount", "endcreate", "open",
                         "in", "critical", "close", "rm", "dead"}]
    /\ exits \in Nat

Took(p, value, user, lock) ==
    undo[p][1] = value /\ undo[p][2] = user /\ undo[p][3] = 0 - lock

\* The adjust values of a process are what its place has taken from the set, as long as
\* it is the current one; who has the lock or came in by sem_create is in that.
Adjusted(p) ==
    /\ pc[p] \notin {"out", "dead"} => id[p] # 0
    /\ pc[p] = "open" => p \in Openers
    /\ pc[p] \in {"out", "dead", "lock", "asleep", "open"} => Took(p, 0, 0, 0)
    /\ Locked(p) => ~Gone(p) /\ Took(p, 0, 0, 1)
    /\ pc[p] = "in" /\ ~Gone(p) => Took(p, 0, 1, 0)
    /\ pc[p] = "critical" /\ ~Gone(p) => Took(p, 1, 1, 0)
    /\ p \in Users \ Openers => ~Gone(p)

\* A set is blank, or its values follow from the number of its users.
Blank == sem[2] = 0 /\ HereUsers = {}
Ready ==
    /\ sem[2] = BIGCOUNT - Cardinality(HereUsers)
    /\ sem[1] = InitVal - Cardinality(HereCritical) /\ sem[1] >= 0

Counted ==
    /\ sem[3] = IF \E p \in Procs : Locked(p) THEN 1 ELSE 0
    /\ Blank \/ Ready
    /\ \A p \in Procs :
          /\ pc[p] = "setcount" => Blank /\ sem[1] = InitVal
          /\ pc[p] \in {"endcreate", "close", "rm"} => Ready
          /\ pc[p] = "rm" => HereUsers \subseteq Openers

SemInv ==
    /\ TypeOK
    /\ \A p \in Procs : Adjusted(p)
    /\ \A p, q \in Procs : Locked(p) /\ Locked(q) => p = q
    /\ cur # 0 => Counted
=============================================================================
