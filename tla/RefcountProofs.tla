----------------------------- MODULE RefcountProofs -----------------------------
(***************************************************************************)
(* Proofs about the reference counted objects, in all three versions, for   *)
(* any number of threads and objects.                                       *)
(***************************************************************************)
EXTENDS Refcount, FiniteSetTheorems, TLAPS

\* NULL is no thread and no object.
NullApart == NULL \notin Threads /\ NULL \notin Objects

\* The count is the number of references, those of a thread in foo_alloc and
\* foo_rele included; while a thread takes the object away it is as it left it.
Counted ==
    \A o \in Objects : IsFiniteSet(holders[o]) /\ count[o] = Cardinality(holders[o])

\* The table and the references name allocated objects.
Allocated ==
    /\ fh \subseteq alive
    /\ \A o \in Objects : holders[o] # {} => o \in alive

HasRef == {"link", "lock", "init", "relink", "recheck"}
HasTable == {"lock", "hold", "recheck"}

\* What a thread knows of the object of its call, and that it has hashlock where the
\* code does.
InCall ==
    \A t \in Threads :
        /\ pc[t] = "idle" => arg[t] = NULL
        /\ pc[t] # "idle" => arg[t] \in Objects
        /\ pc[t] \in HasRef => t \in holders[arg[t]]
        /\ pc[t] = "hold" => arg[t] \in fh /\ t \notin holders[arg[t]]
        /\ pc[t] \in HasTable => hashlock = t
        /\ pc[t] \in {"hold", "relink", "recheck"} => version = 2

\* Who is about to free an object is alone with it.
FreeAlone ==
    \A t \in Threads : pc[t] = "free" =>
        /\ arg[t] \in alive \ fh
        /\ holders[arg[t]] \subseteq {t}
        /\ \A u \in Threads \ {t} : arg[u] # arg[t]

RefInv == TypeOK /\ Counted /\ Allocated /\ InCall /\ FreeAlone

\* The only holder of an object whose count is 1.
LEMMA LastHolder ==
    ASSUME Counted, NEW o \in Objects, NEW t, t \in holders[o], count[o] = 1
    PROVE  holders[o] = {t}
<1>1. PICK x : holders[o] = {x}
  BY FS_Singleton DEF Counted
<1> QED BY <1>1

\* A reference more, or one less, keeps the count.
LEMMA CountTaken ==
    ASSUME TypeOK, Counted, NEW u \in Threads, NEW o \in Objects,
           u \notin holders[o], Referenced(u, o)
    PROVE  /\ Counted' /\ count' \in [Objects -> Nat]
           /\ holders' \in [Objects -> SUBSET Threads]
<1>1. /\ IsFiniteSet(holders[o] \cup {u})
      /\ Cardinality(holders[o] \cup {u}) = Cardinality(holders[o]) + 1
  BY FS_AddElement DEF Counted
<1>2. /\ holders' = [holders EXCEPT ![o] = @ \cup {u}]
      /\ count' = [count EXCEPT ![o] = @ + 1]
  BY DEF Referenced
<1> QED BY <1>1, <1>2 DEF Counted, TypeOK

LEMMA CountGiven ==
    ASSUME TypeOK, Counted, NEW t \in Threads, NEW o \in Objects,
           t \in holders[o], Released(t, o)
    PROVE  /\ Counted' /\ count' \in [Objects -> Nat]
           /\ holders' \in [Objects -> SUBSET Threads]
<1>1. /\ IsFiniteSet(holders[o] \ {t})
      /\ Cardinality(holders[o] \ {t}) = Cardinality(holders[o]) - 1
      /\ Cardinality(holders[o] \ {t}) \in Nat
  BY FS_RemoveElement, FS_CardinalityType DEF Counted
<1>2. /\ holders' = [holders EXCEPT ![o] = @ \ {t}]
      /\ count' = [count EXCEPT ![o] = @ - 1]
  BY DEF Released
<1>3. count[o] - 1 \in Nat
  BY <1>1 DEF Counted
<1> QED BY <1>1, <1>2, <1>3 DEF Counted, TypeOK

LEMMA RefInit ==
    ASSUME NullApart, Init
    PROVE  RefInv
<1>1. TypeOK
  BY DEF Init, TypeOK
<1>2. Counted
  BY FS_EmptySet DEF Init, Counted
<1>3. Allocated /\ InCall /\ FreeAlone
  BY DEF Init, Allocated, InCall, FreeAlone, HasRef, HasTable
<1> QED BY <1>1, <1>2, <1>3 DEF RefInv

\* foo_alloc takes an object nobody refers to.
LEMMA RefAlloc ==
    ASSUME NullApart, RefInv, NEW t \in Threads, NEW o \in Objects, FooAlloc(t, o)
    PROVE  RefInv'
<1> USE DEF RefInv, FooAlloc, Idle, Goto, Return
<1>1. holders[o] = {} /\ o \notin alive
  BY DEF Allocated
<1>2. /\ holders' = [holders EXCEPT ![o] = {t}]
      /\ count' = [count EXCEPT ![o] = 1]
      /\ alive' = alive \cup {o}
      /\ UNCHANGED <<version, flock, fh, hashlock>>
  OBVIOUS
<1>3. \/ /\ pc' = [pc EXCEPT ![t] = "idle"] /\ arg' = [arg EXCEPT ![t] = NULL]
      \/ /\ pc' = [pc EXCEPT ![t] = "link"] /\ arg' = [arg EXCEPT ![t] = o]
  OBVIOUS
<1>4. pc[t] = "idle"
  OBVIOUS
<1> HIDE DEF FooAlloc, Idle, Goto, Return
<1>5. TypeOK'
  BY <1>2, <1>3 DEF TypeOK
<1>6. Counted'
  <2>1. IsFiniteSet({t}) /\ Cardinality({t}) = 1
    BY FS_Singleton
  <2> QED BY <1>2, <2>1 DEF Counted, TypeOK
<1>7. Allocated'
  BY <1>2 DEF Allocated, TypeOK
<1>8. InCall'
  BY <1>1, <1>2, <1>3, <1>4 DEF InCall, TypeOK, HasRef, HasTable, NullApart
<1>9. FreeAlone'
  BY <1>1, <1>2, <1>3, <1>4 DEF FreeAlone, TypeOK, InCall, NullApart, Allocated
<1> QED BY <1>5, <1>6, <1>7, <1>8, <1>9

\* The rest of foo_alloc, and the locks of foo_find and foo_rele: neither references
\* nor counts change.
LEMMA RefLocks ==
    ASSUME NullApart, RefInv, NEW t \in Threads,
           \/ AllocLink(t) \/ AllocLock(t) \/ AllocInit(t) \/ ReleLockTable(t)
           \/ \E o \in Objects : FindLocked(t, o)
    PROVE  RefInv'
<1> USE DEF RefInv, Goto, Return
<1>1. CASE AllocLink(t)
  <2> USE <1>1 DEF AllocLink
  <2>1. TypeOK' /\ Counted'
    BY DEF TypeOK, Counted, InCall
  <2>2. Allocated'
    BY DEF Allocated, TypeOK, InCall, HasRef
  <2>3. InCall'
    BY DEF InCall, TypeOK, HasRef, HasTable, NullApart
  <2>4. FreeAlone'
    BY DEF FreeAlone, TypeOK
  <2> QED BY <2>1, <2>2, <2>3, <2>4
<1>2. CASE AllocLock(t)
  <2> USE <1>2 DEF AllocLock
  <2>1. TypeOK' /\ Counted' /\ Allocated'
    BY DEF TypeOK, Counted, InCall, Allocated
  <2>2. InCall'
    BY DEF InCall, TypeOK, HasRef, HasTable, NullApart
  <2>3. FreeAlone'
    BY DEF FreeAlone, TypeOK
  <2> QED BY <2>1, <2>2, <2>3
<1>3. CASE AllocInit(t)
  <2> USE <1>3 DEF AllocInit
  <2>1. TypeOK' /\ Counted' /\ Allocated'
    BY DEF TypeOK, Counted, InCall, Allocated
  <2>2. InCall'
    BY DEF InCall, TypeOK, HasRef, HasTable, NullApart
  <2>3. FreeAlone'
    BY DEF FreeAlone, TypeOK, NullApart, InCall
  <2> QED BY <2>1, <2>2, <2>3
<1>4. CASE ReleLockTable(t)
  <2> USE <1>4 DEF ReleLockTable
  <2>1. TypeOK' /\ Counted' /\ Allocated'
    BY DEF TypeOK, Counted, InCall, Allocated
  <2>2. InCall'
    BY DEF InCall, TypeOK, HasRef, HasTable, NullApart
  <2>3. FreeAlone'
    BY DEF FreeAlone, TypeOK
  <2> QED BY <2>1, <2>2, <2>3
<1>5. ASSUME NEW o \in Objects, FindLocked(t, o)
      PROVE  RefInv'
  <2> USE <1>5 DEF FindLocked, Idle
  <2>1. TypeOK' /\ Counted' /\ Allocated'
    BY DEF TypeOK, Counted, Allocated
  <2>2. InCall'
    BY DEF InCall, TypeOK, HasRef, HasTable, NullApart
  <2>3. FreeAlone'
    BY DEF FreeAlone, TypeOK, NullApart, InCall
  <2> QED BY <2>1, <2>2, <2>3
<1> QED BY <1>1, <1>2, <1>3, <1>4, <1>5

\* A reference is taken for a thread that has none: foo_find and foo_hold.
LEMMA RefTaken ==
    ASSUME NullApart, RefInv, NEW t \in Threads,
           \/ FindHold(t)
           \/ \E o \in Objects : Find(t, o) \/ \E u \in Threads : FooHold(t, u, o)
    PROVE  RefInv'
<1> USE DEF RefInv
<1>1. CASE FindHold(t)
  <2>1. /\ arg[t] \in Objects /\ arg[t] \in fh /\ t \notin holders[arg[t]]
        /\ pc[t] = "hold" /\ hashlock = t /\ Referenced(t, arg[t])
    BY <1>1 DEF FindHold, InCall, HasTable
  <2>2. Counted' /\ count' \in [Objects -> Nat] /\ holders' \in [Objects -> SUBSET Threads]
    BY <2>1, CountTaken
  <2>3. /\ holders' = [holders EXCEPT ![arg[t]] = @ \cup {t}]
        /\ pc' = [pc EXCEPT ![t] = "idle"] /\ arg' = [arg EXCEPT ![t] = NULL]
        /\ hashlock' = NULL /\ UNCHANGED <<version, alive, flock, fh>>
    BY <1>1 DEF FindHold, Referenced, Return, Goto
  <2>4. TypeOK'
    BY <2>2, <2>3 DEF TypeOK
  <2>5. Allocated'
    BY <2>1, <2>3 DEF Allocated, TypeOK
  <2>6. InCall'
    BY <2>1, <2>3 DEF InCall, TypeOK, HasRef, HasTable, NullApart
  <2>7. FreeAlone'
    BY <2>1, <2>3 DEF FreeAlone, TypeOK, NullApart, InCall
  <2> QED BY <2>2, <2>4, <2>5, <2>6, <2>7
<1>2. ASSUME NEW o \in Objects, Find(t, o)
      PROVE  RefInv'
  <2>1. /\ o \in fh /\ t \notin holders[o] /\ pc[t] = "idle" /\ Referenced(t, o)
        /\ version = 3
    BY <1>2 DEF Find, Idle
  <2>2. Counted' /\ count' \in [Objects -> Nat] /\ holders' \in [Objects -> SUBSET Threads]
    BY <2>1, CountTaken
  <2>3. /\ holders' = [holders EXCEPT ![o] = @ \cup {t}]
        /\ UNCHANGED <<version, alive, flock, fh, hashlock, pc, arg>>
    BY <1>2 DEF Find, Referenced
  <2>4. TypeOK'
    BY <2>2, <2>3 DEF TypeOK
  <2>5. Allocated'
    BY <2>1, <2>3 DEF Allocated, TypeOK
  <2>6. InCall'
    BY <2>1, <2>3 DEF InCall, TypeOK, HasRef, HasTable
  <2>7. FreeAlone'
    BY <2>1, <2>3 DEF FreeAlone, TypeOK
  <2> QED BY <2>2, <2>4, <2>5, <2>6, <2>7
<1>3. ASSUME NEW o \in Objects, NEW u \in Threads, FooHold(t, u, o)
      PROVE  RefInv'
  <2>1. /\ t \in holders[o] /\ u \notin holders[o] /\ arg[u] # o
        /\ pc[t] = "idle" /\ Referenced(u, o)
    BY <1>3 DEF FooHold, Idle
  <2>2. Counted' /\ count' \in [Objects -> Nat] /\ holders' \in [Objects -> SUBSET Threads]
    BY <2>1, CountTaken
  <2>3. /\ holders' = [holders EXCEPT ![o] = @ \cup {u}]
        /\ UNCHANGED <<version, alive, flock, fh, hashlock, pc, arg>>
    BY <1>3 DEF FooHold, Referenced
  <2>4. TypeOK'
    BY <2>2, <2>3 DEF TypeOK
  <2>5. Allocated'
    BY <2>1, <2>3 DEF Allocated, TypeOK
  <2>6. InCall'
    BY <2>1, <2>3 DEF InCall, TypeOK, HasRef, HasTable
  <2>7. FreeAlone'
    BY <2>1, <2>3 DEF FreeAlone, TypeOK, InCall, NullApart
  <2> QED BY <2>2, <2>4, <2>5, <2>6, <2>7
<1> QED BY <1>1, <1>2, <1>3

\* foo_rele of mutex1.c and mutex3.c.
LEMMA RefRele ==
    ASSUME NullApart, RefInv, NEW t \in Threads, NEW o \in Objects, FooRele(t, o)
    PROVE  RefInv'
<1> USE DEF RefInv
<1>1. /\ t \in holders[o] /\ pc[t] = "idle" /\ arg[t] = NULL /\ Released(t, o)
      /\ version # 2 /\ o \in alive
  BY DEF FooRele, Idle, InCall, Allocated
<1>2. Counted' /\ count' \in [Objects -> Nat] /\ holders' \in [Objects -> SUBSET Threads]
  BY <1>1, CountGiven
<1>3. /\ holders' = [holders EXCEPT ![o] = @ \ {t}]
      /\ UNCHANGED <<version, alive, flock, hashlock>>
  BY DEF FooRele, Released
<1>4. CASE count[o] = 1
  <2>1. holders[o] = {t}
    BY <1>1, <1>4, LastHolder
  <2>2. /\ fh' = fh \ {o}
        /\ pc' = [pc EXCEPT ![t] = "free"] /\ arg' = [arg EXCEPT ![t] = o]
    BY <1>4 DEF FooRele, Goto
  <2>3. TypeOK'
    BY <1>2, <1>3, <2>2 DEF TypeOK
  <2>4. Allocated'
    BY <1>3, <2>2 DEF Allocated, TypeOK
  <2>5. \A u \in Threads \ {t} : arg[u] # o
    <3> SUFFICES ASSUME NEW u \in Threads \ {t}, arg[u] = o PROVE FALSE
      OBVIOUS
    <3>1. pc[u] \in HasRef \cup {"free"}
      BY <1>1, NullApart DEF InCall, TypeOK, HasRef, NullApart
    <3>2. CASE pc[u] \in HasRef
      BY <2>1, <3>2 DEF InCall
    <3>3. CASE pc[u] = "free"
      BY <2>1, <3>3 DEF FreeAlone
    <3> QED BY <3>1, <3>2, <3>3
  <2>6. InCall'
    BY <1>1, <1>3, <2>2, <2>5 DEF InCall, TypeOK, HasRef, HasTable, NullApart
  <2>7. FreeAlone'
    BY <1>1, <1>3, <2>1, <2>2, <2>5 DEF FreeAlone, TypeOK
  <2> QED BY <1>2, <2>3, <2>4, <2>6, <2>7
<1>5. CASE count[o] # 1
  <2>1. UNCHANGED <<fh, pc, arg>>
    BY <1>5 DEF FooRele
  <2>2. TypeOK'
    BY <1>2, <1>3, <2>1 DEF TypeOK
  <2>3. Allocated' /\ FreeAlone'
    BY <1>3, <2>1 DEF Allocated, FreeAlone, TypeOK
  <2>4. InCall'
    BY <1>1, <1>3, <2>1 DEF InCall, TypeOK, HasRef, HasTable
  <2> QED BY <1>2, <2>2, <2>3, <2>4
<1> QED BY <1>4, <1>5

\* The first half of foo_rele of mutex2.c.
LEMMA RefReleLocked ==
    ASSUME NullApart, RefInv, NEW t \in Threads, NEW o \in Objects,
           FooReleLocked(t, o)
    PROVE  RefInv'
<1> USE DEF RefInv
<1>1. /\ t \in holders[o] /\ pc[t] = "idle" /\ version = 2 /\ o \in alive
      /\ UNCHANGED <<version, alive, flock, fh, hashlock>>
  BY DEF FooReleLocked, Idle, Allocated
<1>2. CASE count[o] = 1
  <2>1. /\ pc' = [pc EXCEPT ![t] = "relink"] /\ arg' = [arg EXCEPT ![t] = o]
        /\ UNCHANGED <<holders, count>>
    BY <1>2 DEF FooReleLocked, Goto
  <2>2. TypeOK' /\ Counted' /\ Allocated'
    BY <1>1, <2>1 DEF TypeOK, Counted, Allocated
  <2>3. InCall'
    BY <1>1, <2>1 DEF InCall, TypeOK, HasRef, HasTable
  <2>4. FreeAlone'
    BY <1>1, <2>1 DEF FreeAlone, TypeOK
  <2> QED BY <2>2, <2>3, <2>4
<1>3. CASE count[o] # 1
  <2>1. Released(t, o) /\ UNCHANGED <<pc, arg>>
    BY <1>3 DEF FooReleLocked
  <2>2. Counted' /\ count' \in [Objects -> Nat] /\ holders' \in [Objects -> SUBSET Threads]
    BY <1>1, <2>1, CountGiven
  <2>3. holders' = [holders EXCEPT ![o] = @ \ {t}]
    BY <2>1 DEF Released
  <2>4. TypeOK' /\ Allocated'
    BY <1>1, <2>1, <2>2, <2>3 DEF TypeOK, Allocated
  <2>5. InCall'
    BY <1>1, <2>1, <2>3 DEF InCall, TypeOK, HasRef, HasTable
  <2>6. FreeAlone'
    BY <1>1, <2>1, <2>3 DEF FreeAlone, TypeOK
  <2> QED BY <2>2, <2>4, <2>5, <2>6
<1> QED BY <1>2, <1>3

\* Its second half, with hashlock: the count is 1 still, or somebody has found the
\* object in between.
LEMMA RefRecheck ==
    ASSUME NullApart, RefInv, NEW t \in Threads, ReleRecheck(t)
    PROVE  RefInv'
<1> USE DEF RefInv
<1> DEFINE o == arg[t]
<1>1. /\ o \in Objects /\ t \in holders[o] /\ pc[t] = "recheck" /\ hashlock = t
      /\ version = 2 /\ o \in alive /\ hashlock' = NULL
      /\ UNCHANGED <<version, alive, flock>>
  BY DEF ReleRecheck, InCall, HasRef, HasTable, Allocated
<1>2. CASE LastReference(t)
  <2>1. /\ fh' = fh \ {o} /\ pc' = [pc EXCEPT ![t] = "free"]
        /\ arg' = [arg EXCEPT ![t] = o] /\ UNCHANGED <<holders, count>>
    BY <1>2 DEF ReleRecheck, Goto
  <2>2. holders[o] = {t}
    BY <1>1, <1>2, LastHolder DEF LastReference
  <2>3. TypeOK' /\ Counted' /\ Allocated'
    BY <1>1, <2>1 DEF TypeOK, Counted, Allocated
  <2>4. \A u \in Threads \ {t} : arg[u] # o
    <3> SUFFICES ASSUME NEW u \in Threads \ {t}, arg[u] = o PROVE FALSE
      OBVIOUS
    <3>1. pc[u] \in HasRef \cup {"hold", "free"}
      BY <1>1, NullApart DEF InCall, TypeOK, HasRef, NullApart
    <3>2. CASE pc[u] \in HasRef
      BY <2>2, <3>2 DEF InCall
    <3>3. CASE pc[u] = "hold"
      BY <1>1, <3>3 DEF InCall, HasTable
    <3>4. CASE pc[u] = "free"
      BY <2>2, <3>4 DEF FreeAlone
    <3> QED BY <3>1, <3>2, <3>3, <3>4
  <2>5. InCall'
    BY <1>1, <2>1, <2>4 DEF InCall, TypeOK, HasRef, HasTable, NullApart
  <2>6. FreeAlone'
    BY <1>1, <2>1, <2>2, <2>4 DEF FreeAlone, TypeOK, Allocated, InCall
  <2> QED BY <2>3, <2>5, <2>6
<1>3. CASE ~LastReference(t)
  <2>1. /\ Released(t, o) /\ UNCHANGED fh
        /\ pc' = [pc EXCEPT ![t] = "idle"] /\ arg' = [arg EXCEPT ![t] = NULL]
    BY <1>3 DEF ReleRecheck, Return, Goto
  <2>2. Counted' /\ count' \in [Objects -> Nat] /\ holders' \in [Objects -> SUBSET Threads]
    BY <1>1, <2>1, CountGiven
  <2>3. holders' = [holders EXCEPT ![o] = @ \ {t}]
    BY <2>1 DEF Released
  <2>4. TypeOK' /\ Allocated'
    BY <1>1, <2>1, <2>2, <2>3 DEF TypeOK, Allocated
  <2>5. InCall'
    BY <1>1, <2>1, <2>3 DEF InCall, TypeOK, HasRef, HasTable, NullApart
  <2>6. FreeAlone'
    BY <1>1, <2>1, <2>3 DEF FreeAlone, TypeOK, InCall, NullApart
  <2> QED BY <2>2, <2>4, <2>5, <2>6
<1> QED BY <1>2, <1>3

LEMMA RefFree ==
    ASSUME NullApart, RefInv, NEW t \in Threads, Free(t)
    PROVE  RefInv'
<1> USE DEF RefInv
<1>1. /\ pc[t] = "free" /\ arg[t] \in Objects /\ arg[t] \notin fh
      /\ \A u \in Threads \ {t} : arg[u] # arg[t]
  BY DEF Free, InCall, FreeAlone
<1>2. /\ alive' = alive \ {arg[t]}
      /\ holders' = [holders EXCEPT ![arg[t]] = {}]
      /\ count' = [count EXCEPT ![arg[t]] = 0]
      /\ pc' = [pc EXCEPT ![t] = "idle"] /\ arg' = [arg EXCEPT ![t] = NULL]
      /\ UNCHANGED <<version, flock, fh, hashlock>>
  BY DEF Free, Return, Goto
<1>3. TypeOK' /\ Allocated'
  BY <1>1, <1>2 DEF TypeOK, Allocated
<1>4. Counted'
  BY <1>2, FS_EmptySet DEF Counted, TypeOK
<1>5. InCall'
  BY <1>1, <1>2 DEF InCall, TypeOK, HasRef, HasTable, NullApart
<1>6. FreeAlone'
  BY <1>1, <1>2 DEF FreeAlone, TypeOK, InCall, NullApart
<1> QED BY <1>3, <1>4, <1>5, <1>6

LEMMA RefNext ==
    ASSUME NullApart, RefInv, [Next]_vars
    PROVE  RefInv'
<1>1. CASE UNCHANGED vars
  BY <1>1 DEF vars, RefInv, TypeOK, Counted, Allocated, InCall, FreeAlone
<1>2. ASSUME NEW t \in Threads, Step(t)
      PROVE  RefInv'
  BY <1>2, RefLocks, RefTaken, RefRecheck, RefFree DEF Step
<1>3. ASSUME NEW t \in Threads, Call(t)
      PROVE  RefInv'
  BY <1>3, RefAlloc, RefLocks, RefTaken, RefRele, RefReleLocked DEF Call
<1> QED BY <1>1, <1>2, <1>3 DEF Next

\* An object is freed when nobody can reach it any more, in all three versions and
\* however foo_find, foo_hold and foo_rele interleave (foo_rele).
THEOREM FreedUnreachable ==
    ASSUME NullApart
    PROVE  Spec => []NoUseAfterFree
<1>1. Init => RefInv
  BY RefInit
<1>2. RefInv /\ [Next]_vars => RefInv'
  BY RefNext
<1>3. RefInv => NoUseAfterFree
  BY DEF RefInv, NoUseAfterFree, Allocated, FreeAlone
<1> QED BY <1>1, <1>2, <1>3, PTL DEF Spec

\* f_count is the number of references in every state (foo_hold, foo_rele).
THEOREM CountIsHolders ==
    ASSUME NullApart
    PROVE  Spec => [](\A o \in Objects : count[o] = Cardinality(holders[o]))
<1>1. Init => RefInv
  BY RefInit
<1>2. RefInv /\ [Next]_vars => RefInv'
  BY RefNext
<1>3. RefInv => \A o \in Objects : count[o] = Cardinality(holders[o])
  BY DEF RefInv, Counted
<1> QED BY <1>1, <1>2, <1>3, PTL DEF Spec
=============================================================================
