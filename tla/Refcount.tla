-------------------------------- MODULE Refcount --------------------------------
(***************************************************************************)
(* Objects with a reference count shared by threads: apue.3e/threads/       *)
(* mutex1.c (a lock per object), mutex2.c (a hash table with a lock of its   *)
(* own) and mutex3.c (one lock for the table and the counts).               *)
(*                                                                         *)
(* A thread that has a reference may take one for another thread            *)
(* (foo_hold) and gives its own up with foo_rele; in versions 2 and 3 any    *)
(* thread may look an object up.  What one lock guards and nobody waits in  *)
(* is one action.                                                           *)
(***************************************************************************)
EXTENDS Naturals, FiniteSets

CONSTANTS
    Threads,
    Objects,    \* the memory malloc takes objects from
    NULL

VARIABLES
    version,    \* 1, 2, 3: mutex1.c, mutex2.c, mutex3.c
    alive,      \* the objects that are allocated
    holders,    \* holders[o]: the threads with a reference to o
    count,      \* f_count
    flock,      \* f_lock: the thread that has it, or NULL
    fh,         \* the objects in the hash table
    hashlock,   \* the thread that has it, or NULL
    pc,         \* where a thread is
    arg         \* the object of its call

vars == <<version, alive, holders, count, flock, fh, hashlock, pc, arg>>

Init ==
    /\ version \in {1, 2, 3}
    /\ alive = {}
    /\ holders = [o \in Objects |-> {}]
    /\ count = [o \in Objects |-> 0]
    /\ flock = [o \in Objects |-> NULL]
    /\ fh = {}
    /\ hashlock = NULL
    /\ pc = [t \in Threads |-> "idle"]
    /\ arg = [t \in Threads |-> NULL]

TypeOK ==
    /\ version \in {1, 2, 3}
    /\ alive \subseteq Objects
    /\ holders \in [Objects -> SUBSET Threads]
    /\ count \in [Objects -> Nat]
    /\ flock \in [Objects -> Threads \cup {NULL}]
    /\ fh \subseteq Objects
    /\ hashlock \in Threads \cup {NULL}
    /\ pc \in [Threads -> {"idle", "link", "lock", "init", "hold", "relink",
                           "recheck", "free"}]
    /\ arg \in [Threads -> Objects \cup {NULL}]

Goto(t, label, o) ==
    /\ pc' = [pc EXCEPT ![t] = label]
    /\ arg' = [arg EXCEPT ![t] = o]

Idle(t) == pc[t] = "idle"
Return(t) == Goto(t, "idle", NULL)

\* The lock that guards the count of an object.
CountUnlocked(o) == IF version = 3 THEN hashlock = NULL ELSE flock[o] = NULL

Referenced(u, o) ==
    /\ holders' = [holders EXCEPT ![o] = @ \cup {u}]
    /\ count' = [count EXCEPT ![o] = @ + 1]

Released(t, o) ==
    /\ holders' = [holders EXCEPT ![o] = @ \ {t}]
    /\ count' = [count EXCEPT ![o] = @ - 1]
-----------------------------------------------------------------------------
\* foo_alloc: the new object has one reference; without a hash table that is all.
FooAlloc(t, o) ==
    /\ Idle(t)
    /\ o \notin alive
    /\ alive' = alive \cup {o}
    /\ holders' = [holders EXCEPT ![o] = {t}]
    /\ count' = [count EXCEPT ![o] = 1]
    /\ IF version = 1 THEN Return(t) ELSE Goto(t, "link", o)
    /\ UNCHANGED <<version, flock, fh, hashlock>>

\* foo_alloc: into the hash table, with hashlock.
AllocLink(t) ==
    /\ pc[t] = "link"
    /\ hashlock = NULL
    /\ hashlock' = t
    /\ fh' = fh \cup {arg[t]}
    /\ Goto(t, "lock", arg[t])
    /\ UNCHANGED <<version, alive, holders, count, flock>>

\* foo_alloc: the object's lock before hashlock is given up.
AllocLock(t) ==
    /\ pc[t] = "lock"
    /\ flock[arg[t]] = NULL
    /\ flock' = [flock EXCEPT ![arg[t]] = t]
    /\ hashlock' = NULL
    /\ Goto(t, "init", arg[t])
    /\ UNCHANGED <<version, alive, holders, count, fh>>

\* foo_alloc: the end of the initialization.
AllocInit(t) ==
    /\ pc[t] = "init"
    /\ flock' = [flock EXCEPT ![arg[t]] = NULL]
    /\ Return(t)
    /\ UNCHANGED <<version, alive, holders, count, fh, hashlock>>

\* foo_find in mutex2.c: foo_hold is called with hashlock held.
FindLocked(t, o) ==
    /\ version = 2 /\ Idle(t)
    /\ o \in fh /\ t \notin holders[o]
    /\ hashlock = NULL
    /\ hashlock' = t
    /\ Goto(t, "hold", o)
    /\ UNCHANGED <<version, alive, holders, count, flock, fh>>

FindHold(t) ==
    /\ pc[t] = "hold"
    /\ flock[arg[t]] = NULL
    /\ Referenced(t, arg[t])
    /\ hashlock' = NULL
    /\ Return(t)
    /\ UNCHANGED <<version, alive, flock, fh>>

\* foo_find in mutex3.c.
Find(t, o) ==
    /\ version = 3 /\ Idle(t)
    /\ o \in fh /\ t \notin holders[o]
    /\ hashlock = NULL
    /\ Referenced(t, o)
    /\ UNCHANGED <<version, alive, flock, fh, hashlock, pc, arg>>

\* foo_hold: t, which has a reference, takes one for u.  (A thread has at most one
\* reference to an object, so none is taken for a thread about to find it.)
FooHold(t, u, o) ==
    /\ Idle(t)
    /\ t \in holders[o] /\ u \notin holders[o] /\ arg[u] # o
    /\ CountUnlocked(o)
    /\ Referenced(u, o)
    /\ UNCHANGED <<version, alive, flock, fh, hashlock, pc, arg>>

\* foo_rele in mutex1.c and mutex3.c: the last reference takes the object out of
\* the table.
FooRele(t, o) ==
    /\ version # 2 /\ Idle(t)
    /\ t \in holders[o]
    /\ CountUnlocked(o)
    /\ Released(t, o)
    /\ IF count[o] = 1
         THEN fh' = fh \ {o} /\ Goto(t, "free", o)
         ELSE UNCHANGED <<fh, pc, arg>>
    /\ UNCHANGED <<version, alive, flock, hashlock>>

\* foo_rele in mutex2.c: hashlock comes before f_lock, so f_lock is given up
\* first if this may be the last reference.
FooReleLocked(t, o) ==
    /\ version = 2 /\ Idle(t)
    /\ t \in holders[o]
    /\ flock[o] = NULL
    /\ IF count[o] = 1
         THEN Goto(t, "relink", o) /\ UNCHANGED <<holders, count>>
         ELSE Released(t, o) /\ UNCHANGED <<pc, arg>>
    /\ UNCHANGED <<version, alive, flock, fh, hashlock>>

ReleLockTable(t) ==
    /\ pc[t] = "relink"
    /\ hashlock = NULL
    /\ hashlock' = t
    /\ Goto(t, "recheck", arg[t])
    /\ UNCHANGED <<version, alive, holders, count, flock, fh>>

\* Mutant: foo_rele does not recheck the count.
AlwaysLast(t) == TRUE

\* Another thread may have found the object in between.
LastReference(t) == count[arg[t]] = 1

ReleRecheck(t) ==
    /\ pc[t] = "recheck"
    /\ flock[arg[t]] = NULL
    /\ hashlock' = NULL
    /\ IF LastReference(t)
         THEN /\ fh' = fh \ {arg[t]}
              /\ Goto(t, "free", arg[t])
              /\ UNCHANGED <<holders, count>>
         ELSE /\ Released(t, arg[t])
              /\ Return(t)
              /\ UNCHANGED fh
    /\ UNCHANGED <<version, alive, flock>>

\* pthread_mutex_destroy and free.
Free(t) ==
    /\ pc[t] = "free"
    /\ alive' = alive \ {arg[t]}
    /\ holders' = [holders EXCEPT ![arg[t]] = {}]
    /\ count' = [count EXCEPT ![arg[t]] = 0]
    /\ Return(t)
    /\ UNCHANGED <<version, flock, fh, hashlock>>

Step(t) ==
    \/ AllocLink(t) \/ AllocLock(t) \/ AllocInit(t)
    \/ FindHold(t)
    \/ ReleLockTable(t) \/ ReleRecheck(t) \/ Free(t)

Call(t) ==
    \E o \in Objects :
        \/ FooAlloc(t, o)
        \/ FindLocked(t, o) \/ Find(t, o)
        \/ \E u \in Threads : FooHold(t, u, o)
        \/ FooRele(t, o) \/ FooReleLocked(t, o)

Next == \E t \in Threads : Step(t) \/ Call(t)

Spec == Init /\ [][Next]_vars
-----------------------------------------------------------------------------
\* An object is freed when nobody can reach it any more, and only then: the table
\* and the references name allocated objects, and when free is called no other
\* thread has a reference to the object, is in a call on it or can find it
\* (foo_rele, with foo_find and foo_hold running in the gap of mutex2.c:76).
NoUseAfterFree ==
    /\ fh \subseteq alive
    /\ \A o \in Objects : holders[o] # {} => o \in alive
    /\ \A t \in Threads : pc[t] = "free" =>
          /\ arg[t] \in alive \ fh
          /\ holders[arg[t]] \subseteq {t}
          /\ \A u \in Threads \ {t} : arg[u] # arg[t]
=============================================================================
