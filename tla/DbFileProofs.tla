------------------------------- MODULE DbFileProofs -------------------------------
(***************************************************************************)
(* Proofs that the record locks of db.c keep its critical sections, and that *)
(* every pointer in the database files leads to a record that exists and no *)
(* two index records share a data record, for any number of processes,      *)
(* chains, keys and data, and whichever processes die.                      *)
(*                                                                         *)
(* The critical sections are stated with control points only, so they are   *)
(* not inductive: LockInv adds that a process inside one holds the lock for *)
(* it, and that the lock table itself is exclusive.  FileInv rests on it:   *)
(* what a process found out about the end of a file stays true until it has *)
(* written there.                                                           *)
(***************************************************************************)
EXTENDS DbSpec, SequenceTheorems, TLAPS


(***************************************************************************)
(* The lock table.                                                          *)
(***************************************************************************)
LockTables == SUBSET (Procs \X Regions \X {"R", "W"})

LEMMA AcquireExclusive ==
    ASSUME NEW L \in LockTables, NEW p \in Procs, NEW r \in Regions,
           NEW mode \in {"R", "W"},
           Exclusive(L), Grantable(L, p, r, mode)
    PROVE  /\ Acquire(L, p, r, mode) \in LockTables
           /\ Exclusive(Acquire(L, p, r, mode))
           /\ <<p, r, mode>> \in Acquire(L, p, r, mode)
           /\ \A l \in L : l[1] # p \/ l[2] # r => l \in Acquire(L, p, r, mode)
BY DEF LockTables, Exclusive, Grantable, Acquire, Conflict, Overlap

LEMMA ReleaseExclusive ==
    ASSUME NEW L \in LockTables, NEW p \in Procs, NEW r, Exclusive(L)
    PROVE  /\ Release(L, p, r) \in LockTables
           /\ Exclusive(Release(L, p, r))
           /\ \A l \in L : l[1] # p \/ l[2] # r => l \in Release(L, p, r)
BY DEF LockTables, Exclusive, Release, Conflict, Overlap

LEMMA ReleaseAllExclusive ==
    ASSUME NEW L \in LockTables, NEW p \in Procs, Exclusive(L)
    PROVE  /\ ReleaseAll(L, p) \in LockTables
           /\ Exclusive(ReleaseAll(L, p))
           /\ \A l \in L : l[1] # p => l \in ReleaseAll(L, p)
BY DEF LockTables, Exclusive, ReleaseAll, Conflict, Overlap

(***************************************************************************)
(* The inductive invariant.                                                 *)
(***************************************************************************)
StoreOnly == {"overwrite", "i_head", "r_head", "ff_lock", "ff_scan", "ff_take",
    "u_dat", "u_idx", "a_dat", "a_dat_write", "a_idx", "a_idx_write", "link"}
DeleteOrStore == {"d_lock", "d_idx", "d_free", "d_unlink"}

\* The control point of a process belongs to the call it is making.
Matched(p) ==
    /\ pc[p] \in InCall \cup Ended => req[p] \in Requests
    /\ pc[p] \in KeyedCall => Op(p) \in {"fetch", "delete", "store"}
    /\ pc[p] \in StoreOnly => Op(p) = "store"
    /\ pc[p] \in DeleteOrStore => Op(p) \in {"delete", "store"}

\* A process inside a critical section holds its lock.
Holds(p) ==
    /\ pc[p] \in KeyedCall \ {"find"} => <<p, Chain(p), ChainMode(p)>> \in locks
    /\ OnFreeList(p) => <<p, FREE_OFF, "W">> \in locks
    /\ ReadsFreeList(p) => <<p, FREE_OFF, "R">> \in locks
    /\ pc[p] = "a_dat_write" => <<p, DAT_ALL, "W">> \in locks
    /\ pc[p] = "a_idx_write" => <<p, IDX_END, "W">> \in locks

LockInv ==
    /\ pc \in [Procs -> {"idle"} \cup InCall \cup Ended]
    /\ req \in [Procs -> Requests \cup {None}]
    /\ locks \in LockTables
    /\ Exclusive(locks)
    /\ \A p \in Procs : Matched(p) /\ Holds(p)

(***************************************************************************)
(* Lemmas about one process.                                                *)
(***************************************************************************)
LEMMA ChainIsChain ==
    ASSUME NEW r \in Requests, r.op \in {"fetch", "delete", "store"}
    PROVE  Hash[r.key] \in Chains
BY DbAssumption

LEMMA RegionsDistinct ==
    /\ FREE_OFF \notin Chains
    /\ IDX_END \notin Heads /\ DAT_ALL \notin Heads /\ IDX_END # DAT_ALL
BY DbAssumption DEF IDX_END, DAT_ALL, Heads

\* What a process does leaves the others' control points and locks alone.
LEMMA OthersKeep ==
    ASSUME LockInv, NEW p \in Procs, NEW q \in Procs, q # p,
           pc'[q] = pc[q], req'[q] = req[q],
           \A l \in locks : l[1] # p => l \in locks'
    PROVE  (Matched(q) /\ Holds(q))'
BY DEF LockInv, Matched, Holds, Op, Chain, ChainMode, OnFreeList, ReadsFreeList

LEMMA CriticalSectionsHeld == LockInv => CriticalSections
<1> SUFFICES ASSUME LockInv, NEW p \in Procs, NEW q \in Procs, p # q
             PROVE  /\ \A c \in Chains : OnChain(p, c) /\ OnChain(q, c) =>
                          Op(p) = "fetch" /\ Op(q) = "fetch"
                    /\ OnFreeList(p) => ~OnFreeList(q) /\ ~ReadsFreeList(q)
                    /\ pc[p] = "a_dat_write" => pc[q] # "a_dat_write"
                    /\ pc[p] = "a_idx_write" => pc[q] # "a_idx_write"
    BY DEF CriticalSections
<1>1. ASSUME NEW c, NEW m \in {"R", "W"}, NEW n \in {"R", "W"},
             <<p, c, m>> \in locks, <<q, c, n>> \in locks
      PROVE  m = "R" /\ n = "R"
    BY <1>1 DEF LockInv, Exclusive, Conflict, Overlap
<1>2. Holds(p) /\ Holds(q)
    BY DEF LockInv
<1>3. ASSUME NEW c \in Chains, OnChain(p, c), OnChain(q, c)
      PROVE  Op(p) = "fetch" /\ Op(q) = "fetch"
    <2>1. <<p, c, ChainMode(p)>> \in locks /\ <<q, c, ChainMode(q)>> \in locks
        BY <1>2, <1>3 DEF Holds, OnChain
    <2>2. ChainMode(p) \in {"R", "W"} /\ ChainMode(q) \in {"R", "W"}
        BY DEF ChainMode
    <2>3. ChainMode(p) = "R" /\ ChainMode(q) = "R"
        BY <1>1, <2>1, <2>2
    <2> QED BY <2>3 DEF ChainMode
<1>4. OnFreeList(p) => ~OnFreeList(q) /\ ~ReadsFreeList(q)
    BY <1>1, <1>2 DEF Holds
<1>5. /\ pc[p] = "a_dat_write" => pc[q] # "a_dat_write"
      /\ pc[p] = "a_idx_write" => pc[q] # "a_idx_write"
    BY <1>1, <1>2 DEF Holds
<1> QED BY <1>3, <1>4, <1>5

(***************************************************************************)
(* Each step of a process keeps the invariant.                              *)
(***************************************************************************)
\* It is enough to look at the process that moves.
LEMMA OneMoves ==
    ASSUME LockInv, NEW p \in Procs,
           pc' \in [Procs -> {"idle"} \cup InCall \cup Ended],
           req' \in [Procs -> Requests \cup {None}],
           \A q \in Procs \ {p} : pc'[q] = pc[q] /\ req'[q] = req[q],
           locks' \in LockTables, Exclusive(locks'),
           \A l \in locks : l[1] # p => l \in locks',
           (Matched(p) /\ Holds(p))'
    PROVE  LockInv'
<1>1. \A q \in Procs : q # p => (Matched(q) /\ Holds(q))'
    BY OthersKeep DEF LockInv
<1> QED BY <1>1 DEF LockInv

\* A move to a control point, given the locks it needs.
FreeListPcs == {"d_idx", "d_free", "d_unlink", "ff_scan", "ff_take"}
ReadingPcs == {"n_idx", "n_dat", "n_unlock"}

LEMMA MoveTo ==
    ASSUME LockInv, NEW p \in Procs, NEW label \in InCall \cup Ended,
           pc[p] \in InCall,
           pc' = [pc EXCEPT ![p] = label], req' = req,
           locks' \in LockTables, Exclusive(locks'),
           \A l \in locks : l[1] # p => l \in locks',
           label \in KeyedCall => pc[p] \in KeyedCall,
           label \in StoreOnly => Op(p) = "store",
           label \in DeleteOrStore => Op(p) \in {"delete", "store"},
           label \in KeyedCall \ {"find"} =>
               <<p, Chain(p), ChainMode(p)>> \in locks',
           label \in FreeListPcs => <<p, FREE_OFF, "W">> \in locks',
           label \in ReadingPcs => <<p, FREE_OFF, "R">> \in locks',
           label = "a_dat_write" => <<p, DAT_ALL, "W">> \in locks',
           label = "a_idx_write" => <<p, IDX_END, "W">> \in locks'
    PROVE  LockInv'
<1>1. /\ pc' \in [Procs -> {"idle"} \cup InCall \cup Ended]
      /\ pc'[p] = label
      /\ \A q \in Procs \ {p} : pc'[q] = pc[q]
    BY DEF LockInv
<1>2. Op(p)' = Op(p) /\ Chain(p)' = Chain(p) /\ ChainMode(p)' = ChainMode(p)
    BY DEF Op, Chain, ChainMode
<1>3. Matched(p)'
    <2>1. Matched(p)
        BY DEF LockInv
    <2>2. pc[p] \in KeyedCall => Op(p) \in {"fetch", "delete", "store"}
        BY <2>1 DEF Matched
    <2>3. req[p] \in Requests
        BY <2>1 DEF Matched
    <2> QED BY <1>1, <1>2, <2>2, <2>3 DEF Matched
<1>4. Holds(p)'
    BY <1>1, <1>2 DEF Holds, OnFreeList, ReadsFreeList, FreeListPcs, ReadingPcs
<1> QED BY <1>1, <1>3, <1>4, OneMoves DEF LockInv

USE DEF KeyedCall, NextCall, InCall, Ended, FreeListPcs, ReadingPcs, StoreOnly,
        DeleteOrStore

\* A move of process p between two control points that need the same locks.
Within(p, label) ==
    /\ label \in InCall \ {"find", "n_lock", "a_dat_write", "a_idx_write"}
    /\ label \in KeyedCall => pc[p] \in KeyedCall \ {"find"}
    /\ label \in FreeListPcs => pc[p] \in FreeListPcs
    /\ label \in ReadingPcs => pc[p] \in ReadingPcs
    /\ label \in StoreOnly => Op(p) = "store"
    /\ label \in DeleteOrStore => Op(p) \in {"delete", "store"}

LEMMA MoveWithin ==
    ASSUME LockInv, NEW p \in Procs, NEW label, Within(p, label),
           pc' = [pc EXCEPT ![p] = label], req' = req, locks' = locks
    PROVE  LockInv'
<1>1. Holds(p) /\ locks \in LockTables /\ Exclusive(locks)
    BY DEF LockInv
<1>2. pc[p] \in InCall /\ label \in InCall
    BY DEF Within
<1>3. /\ label \in KeyedCall \ {"find"} =>
             <<p, Chain(p), ChainMode(p)>> \in locks
      /\ label \in FreeListPcs => <<p, FREE_OFF, "W">> \in locks
      /\ label \in ReadingPcs => <<p, FREE_OFF, "R">> \in locks
      /\ label \notin {"a_dat_write", "a_idx_write"}
    BY <1>1 DEF Within, Holds, OnFreeList, ReadsFreeList
<1>4. /\ label \in KeyedCall => pc[p] \in KeyedCall
      /\ label \in StoreOnly => Op(p) = "store"
      /\ label \in DeleteOrStore => Op(p) \in {"delete", "store"}
    BY DEF Within
<1>5. Exclusive(locks')
    BY <1>1
<1> HIDE DEF KeyedCall, NextCall, InCall, Ended, FreeListPcs, ReadingPcs,
        StoreOnly, DeleteOrStore
<1> QED BY <1>1, <1>2, <1>3, <1>4, <1>5, MoveTo

\* Steps that leave the lock table alone.
LEMMA KeepsLocks ==
    ASSUME LockInv, NEW p \in Procs,
           \/ FindNext(p) \/ Found(p) \/ NotFound(p) \/ ReadData(p)
           \/ Overwrite(p) \/ DeleteIndex(p) \/ DeleteFree(p)
           \/ ReadChainHead(p) \/ FreeNext(p) \/ FreeFound(p)
           \/ ReuseData(p) \/ ReuseIndex(p) \/ Link(p)
           \/ NextSkip(p) \/ NextFound(p) \/ NextEOF(p) \/ NextData(p)
    PROVE  LockInv'
<1> USE DEF Within, Goto
<1>0. Matched(p) /\ pc \in [Procs -> {"idle"} \cup InCall \cup Ended]
    BY DEF LockInv
<1>1. locks' = locks /\ req' = req
    BY DEF FindNext, Found, NotFound, ReadData, Overwrite, DeleteIndex,
           DeleteFree, ReadChainHead, FreeNext, FreeFound, ReuseData,
           ReuseIndex, Link, NextSkip, NextFound, NextEOF, NextData
<1>2. ASSUME FindNext(p)
      PROVE  \E label : pc' = [pc EXCEPT ![p] = label] /\ Within(p, label)
    BY <1>0, <1>2 DEF FindNext, Matched, IsStore
<1>3. ASSUME Found(p)
      PROVE  \E label : pc' = [pc EXCEPT ![p] = label] /\ Within(p, label)
    BY <1>0, <1>3 DEF Found, Matched, IsStore
<1>4. ASSUME NotFound(p)
      PROVE  \E label : pc' = [pc EXCEPT ![p] = label] /\ Within(p, label)
    BY <1>0, <1>4 DEF NotFound, Matched, IsStore
<1>5. ASSUME ReadData(p)
      PROVE  \E label : pc' = [pc EXCEPT ![p] = label] /\ Within(p, label)
    <2>1. pc' = [pc EXCEPT ![p] = "unlock"]
        BY <1>5 DEF ReadData
    <2>2. Within(p, "unlock")
        BY <1>0, <1>5 DEF ReadData, Matched
    <2> QED BY <2>1, <2>2
<1>6. ASSUME Overwrite(p)
      PROVE  \E label : pc' = [pc EXCEPT ![p] = label] /\ Within(p, label)
    BY <1>0, <1>6 DEF Overwrite, Matched, IsStore
<1>7. ASSUME DeleteIndex(p)
      PROVE  \E label : pc' = [pc EXCEPT ![p] = label] /\ Within(p, label)
    BY <1>0, <1>7 DEF DeleteIndex, Matched, IsStore
<1>8. ASSUME DeleteFree(p)
      PROVE  \E label : pc' = [pc EXCEPT ![p] = label] /\ Within(p, label)
    BY <1>0, <1>8 DEF DeleteFree, Matched, IsStore
<1>9. ASSUME ReadChainHead(p)
      PROVE  \E label : pc' = [pc EXCEPT ![p] = label] /\ Within(p, label)
    BY <1>0, <1>9 DEF ReadChainHead, Matched, IsStore
<1>10. ASSUME FreeNext(p)
      PROVE  \E label : pc' = [pc EXCEPT ![p] = label] /\ Within(p, label)
    BY <1>0, <1>10 DEF FreeNext, Matched, IsStore
<1>11. ASSUME FreeFound(p)
      PROVE  \E label : pc' = [pc EXCEPT ![p] = label] /\ Within(p, label)
    BY <1>0, <1>11 DEF FreeFound, Matched, IsStore
<1>12. ASSUME ReuseData(p)
      PROVE  \E label : pc' = [pc EXCEPT ![p] = label] /\ Within(p, label)
    BY <1>0, <1>12 DEF ReuseData, Matched, IsStore
<1>13. ASSUME ReuseIndex(p)
      PROVE  \E label : pc' = [pc EXCEPT ![p] = label] /\ Within(p, label)
    BY <1>0, <1>13 DEF ReuseIndex, Matched, IsStore
<1>14. ASSUME Link(p)
      PROVE  \E label : pc' = [pc EXCEPT ![p] = label] /\ Within(p, label)
    BY <1>0, <1>14 DEF Link, Matched, IsStore
<1>15. ASSUME NextSkip(p)
      PROVE  \E label : pc' = [pc EXCEPT ![p] = label] /\ Within(p, label)
    BY <1>0, <1>15 DEF NextSkip, Matched, IsStore
<1>16. ASSUME NextFound(p)
      PROVE  \E label : pc' = [pc EXCEPT ![p] = label] /\ Within(p, label)
    <2>1. pc' = [pc EXCEPT ![p] = "n_dat"]
        BY <1>16 DEF NextFound
    <2>2. Within(p, "n_dat")
        BY <1>0, <1>16 DEF NextFound, Matched
    <2> QED BY <2>1, <2>2
<1>17. ASSUME NextEOF(p)
      PROVE  \E label : pc' = [pc EXCEPT ![p] = label] /\ Within(p, label)
    <2>1. pc' = [pc EXCEPT ![p] = "n_unlock"]
        BY <1>17 DEF NextEOF
    <2>2. Within(p, "n_unlock")
        BY <1>0, <1>17 DEF NextEOF, Matched
    <2> QED BY <2>1, <2>2
<1>18. ASSUME NextData(p)
      PROVE  \E label : pc' = [pc EXCEPT ![p] = label] /\ Within(p, label)
    <2>1. pc' = [pc EXCEPT ![p] = "n_unlock"]
        BY <1>18 DEF NextData
    <2>2. Within(p, "n_unlock")
        BY <1>0, <1>18 DEF NextData, Matched
    <2> QED BY <2>1, <2>2
<1> QED BY <1>1, <1>2, <1>3, <1>4, <1>5, <1>6, <1>7, <1>8, <1>9, <1>10, <1>11, <1>12, <1>13, <1>14, <1>15, <1>16, <1>17, <1>18, MoveWithin

\* Steps that take a lock.
LEMMA TakeLock ==
    ASSUME LockInv, NEW p \in Procs, NEW r \in Regions, NEW mode \in {"R", "W"},
           Lock(p, r, mode)
    PROVE  /\ locks' \in LockTables /\ Exclusive(locks')
           /\ <<p, r, mode>> \in locks'
           /\ \A l \in locks : l[1] # p \/ l[2] # r => l \in locks'
BY AcquireExclusive DEF LockInv, Lock

LEMMA MyChain ==
    ASSUME LockInv, NEW p \in Procs, pc[p] \in KeyedCall
    PROVE  /\ Chain(p) \in Chains
           /\ Chain(p) \notin {FREE_OFF, IDX_END, DAT_ALL}
           /\ pc[p] # "find" => <<p, Chain(p), ChainMode(p)>> \in locks
<1>1. Matched(p) /\ Holds(p)
    BY DEF LockInv
<1>2. Chain(p) \in Chains
    BY <1>1, ChainIsChain DEF Matched, Op, Chain
<1> QED BY <1>1, <1>2, RegionsDistinct DEF Holds, Heads

LEMMA TakesLock ==
    ASSUME LockInv, NEW p \in Procs,
           \/ FindAndLock(p) \/ DeleteData(p) \/ FreeLock(p)
           \/ AppendSeekData(p) \/ AppendSeekIndex(p) \/ NextLock(p)
    PROVE  LockInv'
<1>1. Matched(p)
    BY DEF LockInv
<1>2. FREE_OFF \in Regions /\ IDX_END \in Regions /\ DAT_ALL \in Regions
      /\ Chains \subseteq Regions
    BY DEF Regions, Heads
<1>3. CASE FindAndLock(p)
    <2>1. /\ pc[p] = "find" /\ pc' = [pc EXCEPT ![p] = "scan"] /\ req' = req
          /\ Lock(p, Chain(p), ChainMode(p))
        BY <1>3 DEF FindAndLock, Goto
    <2>2. Chain(p) \in Regions /\ ChainMode(p) \in {"R", "W"}
        BY <1>2, <2>1, MyChain DEF ChainMode
    <2>3. /\ locks' \in LockTables /\ Exclusive(locks')
          /\ <<p, Chain(p), ChainMode(p)>> \in locks'
          /\ \A l \in locks : l[1] # p => l \in locks'
        BY <2>1, <2>2, TakeLock
    <2> QED BY <2>1, <2>3, MoveTo
<1>4. CASE DeleteData(p)
    <2>1. /\ pc[p] = "d_lock" /\ pc' = [pc EXCEPT ![p] = "d_idx"] /\ req' = req
          /\ Lock(p, FREE_OFF, "W")
        BY <1>4 DEF DeleteData, Goto
    <2>2. <<p, Chain(p), ChainMode(p)>> \in locks /\ Chain(p) # FREE_OFF
        BY <2>1, MyChain
    <2> QED BY <1>1, <1>2, <2>1, <2>2, TakeLock, MoveTo DEF Matched
<1>5. CASE FreeLock(p)
    <2>1. /\ pc[p] = "ff_lock" /\ pc' = [pc EXCEPT ![p] = "ff_scan"]
          /\ req' = req
          /\ Lock(p, FREE_OFF, "W")
        BY <1>5 DEF FreeLock, Goto
    <2>2. <<p, Chain(p), ChainMode(p)>> \in locks /\ Chain(p) # FREE_OFF
        BY <2>1, MyChain
    <2> QED BY <1>1, <1>2, <2>1, <2>2, TakeLock, MoveTo DEF Matched
<1>6. CASE AppendSeekData(p)
    <2>1. /\ pc[p] = "a_dat" /\ pc' = [pc EXCEPT ![p] = "a_dat_write"]
          /\ req' = req
          /\ Lock(p, DAT_ALL, "W")
        BY <1>6 DEF AppendSeekData, Goto
    <2>2. <<p, Chain(p), ChainMode(p)>> \in locks /\ Chain(p) # DAT_ALL
        BY <2>1, MyChain
    <2> QED BY <1>1, <1>2, <2>1, <2>2, TakeLock, MoveTo DEF Matched
<1>7. CASE AppendSeekIndex(p)
    <2>1. /\ pc[p] = "a_idx" /\ pc' = [pc EXCEPT ![p] = "a_idx_write"]
          /\ req' = req
          /\ Lock(p, IDX_END, "W")
        BY <1>7 DEF AppendSeekIndex, Goto
    <2>2. <<p, Chain(p), ChainMode(p)>> \in locks /\ Chain(p) # IDX_END
        BY <2>1, MyChain
    <2> QED BY <1>1, <1>2, <2>1, <2>2, TakeLock, MoveTo DEF Matched
<1>8. CASE NextLock(p)
    <2>1. /\ pc[p] = "n_lock" /\ pc' = [pc EXCEPT ![p] = "n_idx"]
          /\ req' = req
          /\ Lock(p, FREE_OFF, "R")
        BY <1>8 DEF NextLock, Goto
    <2> QED BY <1>2, <2>1, TakeLock, MoveTo
<1> QED BY <1>3, <1>4, <1>5, <1>6, <1>7, <1>8

\* Steps that give a lock back.
LEMMA GiveLock ==
    ASSUME LockInv, NEW p \in Procs, NEW r, Unlock(p, r)
    PROVE  /\ locks' \in LockTables /\ Exclusive(locks')
           /\ \A l \in locks : l[1] # p \/ l[2] # r => l \in locks'
BY ReleaseExclusive DEF LockInv, Unlock

LEMMA GivesLock ==
    ASSUME LockInv, NEW p \in Procs,
           \/ DeleteUnlink(p) \/ FreeTake(p) \/ FreeNone(p)
           \/ AppendData(p) \/ AppendIndex(p)
    PROVE  LockInv'
<1>1. Matched(p)
    BY DEF LockInv
<1>2. CASE DeleteUnlink(p)
    <2>1. PICK label \in {"unlock", "r_head"} :
              /\ pc[p] = "d_unlink" /\ pc' = [pc EXCEPT ![p] = label]
              /\ req' = req /\ Unlock(p, FREE_OFF)
              /\ label = "r_head" => Op(p) # "delete"
        BY <1>2 DEF DeleteUnlink, Goto
    <2>2. <<p, Chain(p), ChainMode(p)>> \in locks /\ Chain(p) # FREE_OFF
        BY <2>1, MyChain
    <2>3. <<p, Chain(p), ChainMode(p)>> \in locks'
        BY <2>1, <2>2, GiveLock
    <2> QED BY <1>1, <2>1, <2>3, GiveLock, MoveTo DEF Matched
<1>3. CASE FreeTake(p) \/ FreeNone(p)
    <2>1. PICK label \in {"u_dat", "a_dat"} :
              /\ pc[p] \in {"ff_take", "ff_scan"}
              /\ pc' = [pc EXCEPT ![p] = label]
              /\ req' = req /\ Unlock(p, FREE_OFF)
        BY <1>3 DEF FreeTake, FreeNone, Goto
    <2>2. <<p, Chain(p), ChainMode(p)>> \in locks /\ Chain(p) # FREE_OFF
        BY <2>1, MyChain
    <2>3. <<p, Chain(p), ChainMode(p)>> \in locks'
        BY <2>1, <2>2, GiveLock
    <2> QED BY <1>1, <2>1, <2>3, GiveLock, MoveTo DEF Matched
<1>4. CASE AppendData(p)
    <2>1. /\ pc[p] = "a_dat_write" /\ pc' = [pc EXCEPT ![p] = "a_idx"]
          /\ req' = req /\ Unlock(p, DAT_ALL)
        BY <1>4 DEF AppendData, Goto
    <2>2. <<p, Chain(p), ChainMode(p)>> \in locks /\ Chain(p) # DAT_ALL
        BY <2>1, MyChain
    <2> QED BY <1>1, <2>1, <2>2, GiveLock, MoveTo DEF Matched
<1>5. CASE AppendIndex(p)
    <2>1. /\ pc[p] = "a_idx_write" /\ pc' = [pc EXCEPT ![p] = "link"]
          /\ req' = req /\ Unlock(p, IDX_END)
        BY <1>5 DEF AppendIndex, Goto
    <2>2. <<p, Chain(p), ChainMode(p)>> \in locks /\ Chain(p) # IDX_END
        BY <2>1, MyChain
    <2> QED BY <1>1, <2>1, <2>2, GiveLock, MoveTo DEF Matched
<1> QED BY <1>2, <1>3, <1>4, <1>5

\* Steps that begin or end a call.
LEMMA BeginsOrEnds ==
    ASSUME LockInv, NEW p \in Procs,
           \/ Call(p) \/ Return(p) \/ NextReturn(p)
           \/ LinkQuit(p) \/ NextDump(p) \/ Kill(p)
    PROVE  LockInv'
<1>1. CASE Call(p)
    <2>1. PICK r \in Requests :
              /\ r.op # "rewind" /\ locks' = locks
              /\ req' = [req EXCEPT ![p] = r]
              /\ pc' = [pc EXCEPT ![p] =
                           IF r.op = "nextrec" THEN "n_lock" ELSE "find"]
        BY <1>1 DEF Call, Goto
    <2>2. r.op \in {"fetch", "delete", "store", "nextrec"}
        BY <2>1, DbAssumption
    <2>3. PICK label \in {"n_lock", "find"} :
              /\ pc' = [pc EXCEPT ![p] = label]
              /\ label = "find" => r.op \in {"fetch", "delete", "store"}
        BY <2>1, <2>2
    <2>4. /\ pc' \in [Procs -> {"idle"} \cup InCall \cup Ended]
          /\ req' \in [Procs -> Requests \cup {None}]
          /\ pc'[p] = label /\ req'[p] = r
          /\ \A q \in Procs \ {p} : pc'[q] = pc[q] /\ req'[q] = req[q]
        BY <2>1, <2>3 DEF LockInv
    <2>5. Matched(p)'
        BY <2>3, <2>4 DEF Matched, Op
    <2>6. Holds(p)'
        BY <2>4 DEF Holds, OnFreeList, ReadsFreeList
    <2>7. locks' \in LockTables /\ Exclusive(locks')
          /\ \A l \in locks : l[1] # p => l \in locks'
        BY <2>1 DEF LockInv
    <2> HIDE DEF KeyedCall, NextCall, InCall, Ended
    <2> QED BY <2>4, <2>5, <2>6, <2>7, OneMoves
<1>2. CASE Return(p) \/ NextReturn(p)
    <2>1. /\ pc' = [pc EXCEPT ![p] = "idle"]
          /\ req' = [req EXCEPT ![p] = None]
          /\ Unlock(p, Chain(p)) \/ Unlock(p, FREE_OFF)
        BY <1>2 DEF Return, NextReturn, Goto
    <2>2. /\ pc' \in [Procs -> {"idle"} \cup InCall \cup Ended]
          /\ req' \in [Procs -> Requests \cup {None}]
          /\ pc'[p] = "idle"
          /\ \A q \in Procs \ {p} : pc'[q] = pc[q] /\ req'[q] = req[q]
        BY <2>1 DEF LockInv
    <2>3. (Matched(p) /\ Holds(p))'
        BY <2>2 DEF Matched, Holds, OnFreeList, ReadsFreeList
    <2>4. locks' \in LockTables /\ Exclusive(locks')
          /\ \A l \in locks : l[1] # p => l \in locks'
        BY <2>1, GiveLock
    <2> HIDE DEF KeyedCall, NextCall, InCall, Ended
    <2> QED BY <2>2, <2>3, <2>4, OneMoves
<1>3. CASE LinkQuit(p) \/ NextDump(p) \/ Kill(p)
    <2>1. PICK label \in Ended :
              /\ pc[p] \in InCall /\ pc' = [pc EXCEPT ![p] = label]
              /\ req' = req /\ locks' = ReleaseAll(locks, p)
        BY <1>3, DbAssumption DEF LinkQuit, NextDump, Kill, End, Goto
    <2>2. locks' \in LockTables /\ Exclusive(locks')
          /\ \A l \in locks : l[1] # p => l \in locks'
        BY <2>1, ReleaseAllExclusive DEF LockInv
    <2> QED BY <2>1, <2>2, MoveTo
<1> QED BY <1>1, <1>2, <1>3

LEMMA LockInvStep == LockInv /\ [Next]_vars => LockInv'
<1> SUFFICES ASSUME LockInv, [Next]_vars
             PROVE  LockInv'
    OBVIOUS
<1>1. CASE UNCHANGED vars
    BY <1>1 DEF vars, LockInv, Matched, Holds, Op, Chain, ChainMode, OnFreeList,
       ReadsFreeList
<1>2. ASSUME NEW p \in Procs, Rewind(p)
      PROVE  LockInv'
    BY <1>2 DEF Rewind, LockInv, Matched, Holds, Op, Chain, ChainMode, OnFreeList,
       ReadsFreeList
<1>3. ASSUME NEW p \in Procs, Call(p) \/ Step(p) \/ Kill(p)
      PROVE  LockInv'
    BY <1>3, KeepsLocks, TakesLock, GivesLock, BeginsOrEnds DEF Step
<1> QED BY <1>1, <1>2, <1>3 DEF Next

LEMMA LockInvInit == Init => LockInv
BY DEF Init, LockInv, LockTables, Exclusive, Matched, Holds, OnFreeList,
       ReadsFreeList

\* The lock protocol of db.c is kept in every state of every behaviour.
THEOREM LocksHeld == Spec => []LockInv
BY LockInvInit, LockInvStep, PTL DEF Spec

\* The record locks keep the critical sections apart: db_fetch, db_store and
\* db_delete on a hash chain, _db_dodelete, _db_findfree and db_nextrec on the
\* free list, and _db_writedat and _db_writeidx at the ends of the files.
THEOREM CriticalSectionsKept == Spec => []CriticalSections
BY LocksHeld, CriticalSectionsHeld, PTL

-----------------------------------------------------------------------------
(***************************************************************************)
(* What a process knows of the files.                                       *)
(***************************************************************************)
\* Where a chain pointer may be.
LinkOK(loc) == loc \in Heads \/ loc \in DOMAIN idx

\* What a process knows about the records it is working on.
Handle(p) ==
    /\ pc[p] \in {"scan", "ff_scan"} =>
          db[p].off <= Len(idx) /\ LinkOK(db[p].ptroff)
    /\ pc[p] \in {"d_lock", "d_idx", "d_free", "d_unlink", "ff_take"} =>
          /\ db[p].off \in DOMAIN idx
          /\ LinkOK(db[p].ptroff)
          /\ db[p].ptrval <= Len(idx)
    /\ pc[p] \in {"f_dat", "overwrite", "d_lock", "n_dat", "a_idx", "a_idx_write"} =>
          db[p].datoff \in DOMAIN dat
    /\ pc[p] \in {"ff_lock", "ff_scan", "ff_take", "u_dat", "u_idx", "a_dat",
                  "a_dat_write", "a_idx", "a_idx_write"} =>
          db[p].next <= Len(idx)
    /\ pc[p] \in {"ff_take", "u_dat", "u_idx"} =>
          /\ db[p].off \in DOMAIN idx
          /\ db[p].datoff = idx[db[p].off].datoff
    /\ pc[p] = "a_dat_write" => db[p].datoff = Len(dat) + 1
    /\ pc[p] = "a_idx_write" => db[p].off = Len(idx) + 1
    /\ pc[p] = "link" => db[p].off \in DOMAIN idx

\* A data record just appended, that no index record names yet.
Appended(p) == pc[p] \in {"a_idx", "a_idx_write"}

Fresh(p) ==
    Appended(p) =>
        /\ \A i \in DOMAIN idx : idx[i].datoff # db[p].datoff
        /\ \A q \in Procs \ {p} : Appended(q) => db[q].datoff # db[p].datoff

FileTypes ==
    /\ table \in [Heads -> Nat]
    /\ idx \in Seq(IndexRecords)
    /\ dat \in Seq(Data \cup {Blank})
    /\ db \in [Procs -> DBs]

FileInv ==
    /\ FileTypes
    /\ NoDangling
    /\ DataNotShared
    /\ \A p \in Procs : Handle(p) /\ Fresh(p)

(***************************************************************************)
(* Sequences as files.                                                      *)
(***************************************************************************)
LEMMA WriteAtProperties ==
    ASSUME NEW S, NEW seq \in Seq(S), NEW e \in S, NEW i \in 1..(Len(seq) + 1)
    PROVE  /\ WriteAt(seq, i, e) \in Seq(S)
           /\ Len(WriteAt(seq, i, e)) =
                 IF i = Len(seq) + 1 THEN Len(seq) + 1 ELSE Len(seq)
           /\ WriteAt(seq, i, e)[i] = e
           /\ \A j \in 1..Len(seq) : j # i => WriteAt(seq, i, e)[j] = seq[j]
<1>1. CASE i = Len(seq) + 1
    BY <1>1, LenProperties DEF WriteAt
<1>2. CASE i \in 1..Len(seq)
    <2>1. WriteAt(seq, i, e) = [seq EXCEPT ![i] = e]
        BY <1>2, LenProperties DEF WriteAt
    <2> QED BY <1>2, <2>1, ExceptSeq
<1> QED BY <1>1, <1>2, LenProperties

\* WriteAt behind the last element appends.
LEMMA WriteAtEnd ==
    ASSUME NEW S, NEW seq \in Seq(S), NEW e \in S, NEW i, i = Len(seq) + 1
    PROVE  /\ WriteAt(seq, i, e) = Append(seq, e)
           /\ WriteAt(seq, i, e) \in Seq(S)
           /\ Len(WriteAt(seq, i, e)) = Len(seq) + 1
<1>1. Len(seq) \in Nat /\ i > Len(seq)
    BY LenProperties
<1>2. WriteAt(seq, i, e) = Append(seq, e)
    BY <1>1 DEF WriteAt
<1> QED BY <1>1, <1>2, AppendProperties

LEMMA SeqFacts ==
    ASSUME FileTypes
    PROVE  /\ Len(idx) \in Nat /\ DOMAIN idx = 1..Len(idx)
           /\ Len(dat) \in Nat /\ DOMAIN dat = 1..Len(dat)
           /\ \A i \in DOMAIN idx : idx[i] \in IndexRecords
           /\ \A i \in DOMAIN dat : dat[i] \in Data \cup {Blank}
BY LenProperties, ElementOfSeq DEF FileTypes

\* A chain pointer read anywhere is null or the number of a record.
LEMMA ReadPtrOK ==
    ASSUME FileTypes, NoDangling, NEW loc, LinkOK(loc)
    PROVE  ReadPtr(loc) \in 0..Len(idx)
<1>1. CASE loc \in Heads
    BY <1>1, SeqFacts DEF FileTypes, NoDangling, ReadPtr
<1>2. CASE loc \notin Heads
    BY <1>2, SeqFacts, SMTT(30) DEF FileTypes, NoDangling, ReadPtr, LinkOK, IndexRecords
<1> QED BY <1>1, <1>2

LEMMA SetPtr ==
    ASSUME NEW r \in IndexRecords, NEW v \in Nat
    PROVE  /\ [r EXCEPT !.ptr = v] \in IndexRecords
           /\ [r EXCEPT !.ptr = v].ptr = v
           /\ [r EXCEPT !.ptr = v].datoff = r.datoff
BY DEF IndexRecords

\* Writing a chain pointer keeps the files sound and the data offsets as they
\* were.
SameRecords ==
    /\ Len(idx') = Len(idx) /\ DOMAIN idx' = DOMAIN idx
    /\ Len(dat') = Len(dat) /\ DOMAIN dat' = DOMAIN dat
    /\ \A i \in DOMAIN idx : idx'[i].datoff = idx[i].datoff

FilesSound ==
    /\ table \in [Heads -> Nat]
    /\ idx \in Seq(IndexRecords)
    /\ dat \in Seq(Data \cup {Blank})
    /\ NoDangling
    /\ DataNotShared

LEMMA WritePtrOK ==
    ASSUME FileTypes, NoDangling, DataNotShared,
           NEW loc, LinkOK(loc), NEW v \in 0..Len(idx), WritePtr(loc, v)
    PROVE  FilesSound' /\ SameRecords
<1>1. CASE loc \in Heads
    <2>1. table' = [table EXCEPT ![loc] = v] /\ idx' = idx /\ dat' = dat
        BY <1>1 DEF WritePtr
    <2>2. v \in Nat /\ v <= Len(idx)
        BY SeqFacts
    <2>3. table' \in [Heads -> Nat]
        BY <2>1, <2>2 DEF FileTypes
    <2>4. \A h \in Heads : table'[h] = IF h = loc THEN v ELSE table[h]
        BY <2>1 DEF FileTypes
    <2>5. \A h \in Heads : table'[h] <= Len(idx)
        BY <2>2, <2>4 DEF NoDangling
    <2>6. NoDangling'
        BY <2>1, <2>5 DEF NoDangling
    <2>7. DataNotShared'
        BY <2>1 DEF DataNotShared
    <2>8. SameRecords
        BY <2>1 DEF SameRecords
    <2> QED BY <2>1, <2>3, <2>6, <2>7, <2>8 DEF FileTypes, FilesSound
<1>2. CASE loc \notin Heads
    <2>1. loc \in 1..Len(idx) /\ idx[loc] \in IndexRecords
        BY <1>2, SeqFacts DEF LinkOK
    <2> DEFINE rec == [idx[loc] EXCEPT !.ptr = v]
    <2>2. idx' = [idx EXCEPT ![loc] = rec] /\ table' = table /\ dat' = dat
        BY <1>2 DEF WritePtr
    <2>3. rec \in IndexRecords /\ rec.ptr = v /\ rec.datoff = idx[loc].datoff
        <3>1. v \in Nat
            BY SeqFacts
        <3> QED BY <2>1, <3>1, SetPtr
    <2> HIDE DEF rec
    <2>4. /\ idx' \in Seq(IndexRecords) /\ Len(idx') = Len(idx)
          /\ \A j \in 1..Len(idx) : idx'[j] = IF j = loc THEN rec ELSE idx[j]
        BY <2>1, <2>2, <2>3, ExceptSeq DEF FileTypes
    <2>5. DOMAIN idx' = DOMAIN idx /\ DOMAIN idx = 1..Len(idx)
        BY <2>4, SeqFacts, LenProperties
    <2>6. \A i \in DOMAIN idx : idx'[i].datoff = idx[i].datoff
        BY <2>3, <2>4, <2>5
    <2>7. \A i \in DOMAIN idx : idx'[i].ptr <= Len(idx)
        BY <2>3, <2>4, <2>5, SeqFacts DEF NoDangling
    <2> QED BY <2>2, <2>4, <2>5, <2>6, <2>7 DEF FileTypes, NoDangling,
            DataNotShared, FilesSound, SameRecords
<1> QED BY <1>1, <1>2

(***************************************************************************)
(* A step of one process: what has to be shown of it.                       *)
(***************************************************************************)
\* The files only grow, at the end a process has locked, and no index record
\* changes its data offset.
FilesGrow(p) ==
    /\ Len(idx) <= Len(idx') /\ Len(dat) <= Len(dat')
    /\ \A i \in DOMAIN idx : idx'[i].datoff = idx[i].datoff
    /\ Len(dat') # Len(dat) => pc[p] = "a_dat_write"
    /\ Len(idx') # Len(idx) =>
          /\ pc[p] = "a_idx_write"
          /\ Len(idx') = Len(idx) + 1
          /\ idx'[Len(idx) + 1].datoff = db[p].datoff

\* A data record is appended by this very step, or has been before.
AppendsOrHas(p) ==
    Appended(p)' =>
        /\ Len(idx') = Len(idx)
        /\ \/ Appended(p) /\ db'[p].datoff = db[p].datoff
           \/ db'[p].datoff = Len(dat) + 1

LEMMA FileStep ==
    ASSUME FileInv, LockInv, NEW p \in Procs,
           FilesSound', FilesGrow(p), AppendsOrHas(p),
           db' \in [Procs -> DBs],
           \A q \in Procs \ {p} : pc'[q] = pc[q] /\ db'[q] = db[q],
           Handle(p)'
    PROVE  FileInv'
<1>1. /\ Len(idx) \in Nat /\ DOMAIN idx = 1..Len(idx)
      /\ Len(dat) \in Nat /\ DOMAIN dat = 1..Len(dat)
    BY SeqFacts DEF FileInv
<1>2. /\ Len(idx') \in Nat /\ DOMAIN idx' = 1..Len(idx')
      /\ Len(dat') \in Nat /\ DOMAIN dat' = 1..Len(dat')
    BY LenProperties DEF FilesSound
<1>3. CriticalSections
    BY CriticalSectionsHeld
<1>4. ASSUME NEW q \in Procs \ {p}
      PROVE  Handle(q)'
    <2>1. pc[q] = "a_dat_write" => Len(dat') = Len(dat)
        <3>1. pc[p] = "a_dat_write" => pc[q] # "a_dat_write"
            BY <1>3 DEF CriticalSections
        <3> QED BY <3>1 DEF FilesGrow
    <2>2. pc[q] = "a_idx_write" => Len(idx') = Len(idx)
        <3>1. pc[p] = "a_idx_write" => pc[q] # "a_idx_write"
            BY <1>3 DEF CriticalSections
        <3> QED BY <3>1 DEF FilesGrow
    <2>3. DOMAIN idx \subseteq DOMAIN idx' /\ DOMAIN dat \subseteq DOMAIN dat'
        <3>1. \A i, m, n \in Nat : m <= n /\ i \in 1..m => i \in 1..n
            OBVIOUS
        <3>2. Len(idx) <= Len(idx') /\ Len(dat) <= Len(dat')
            BY DEF FilesGrow
        <3> QED BY <1>1, <1>2, <3>1, <3>2
    <2>4. Handle(q) /\ db[q] \in DBs
        BY DEF FileInv, FileTypes
    <2>5. pc'[q] = pc[q] /\ db'[q] = db[q]
        OBVIOUS
    <2>6. \A n \in Nat : n <= Len(idx) => n <= Len(idx')
        <3>1. Len(idx) <= Len(idx')
            BY DEF FilesGrow
        <3> QED BY <1>1, <1>2, <3>1
    <2>7. db[q].off \in Nat /\ db[q].ptrval \in Nat /\ db[q].next \in Nat
        BY <2>4 DEF DBs
    <2>8. \A i \in DOMAIN idx : idx'[i].datoff = idx[i].datoff
        BY DEF FilesGrow
    <2> QED BY <2>1, <2>2, <2>3, <2>4, <2>5, <2>6, <2>7, <2>8 DEF Handle, LinkOK
<1>5. \A i \in DOMAIN idx : idx[i].datoff \in 1..Len(dat)
    BY <1>1 DEF FileInv, NoDangling
<1>6. \A q \in Procs : Appended(q) => db[q].datoff \in 1..Len(dat)
    BY <1>1 DEF FileInv, Handle, Appended
<1>7. ASSUME NEW q \in Procs \ {p}, Appended(q)'
      PROVE  /\ \A i \in DOMAIN idx' : idx'[i].datoff # db'[q].datoff
             /\ \A r \in Procs \ {p, q} : Appended(r)' =>
                   db'[r].datoff # db'[q].datoff
             /\ Appended(p)' => db'[p].datoff # db'[q].datoff
    <2>1. Appended(q) /\ Fresh(q) /\ db'[q] = db[q]
        BY <1>7 DEF Appended, FileInv
    <2>2. ASSUME NEW i \in DOMAIN idx'
          PROVE  idx'[i].datoff # db[q].datoff
        <3>1. CASE i \in DOMAIN idx
            BY <2>1, <3>1 DEF Fresh, FilesGrow
        <3>2. CASE i \notin DOMAIN idx
            <4>1. Len(idx') # Len(idx)
                BY <1>1, <1>2, <3>2
            <4>2. i = Len(idx) + 1 /\ pc[p] = "a_idx_write"
                <5>1. Len(idx') = Len(idx) + 1 /\ pc[p] = "a_idx_write"
                    BY <4>1 DEF FilesGrow
                <5>2. i \in 1..Len(idx) + 1 /\ i \notin 1..Len(idx)
                    BY <1>1, <1>2, <3>2, <5>1
                <5> QED BY <1>1, <5>1, <5>2
            <4>3. idx'[i].datoff = db[p].datoff
                BY <4>1, <4>2 DEF FilesGrow
            <4> QED BY <2>1, <4>2, <4>3 DEF Fresh, Appended
        <3> QED BY <3>1, <3>2
    <2>3. Appended(p)' => db'[p].datoff # db[q].datoff
        <3>1. Appended(p) => db[p].datoff # db[q].datoff
            BY <2>1 DEF Fresh
        <3>2. db[q].datoff \in 1..Len(dat)
            BY <1>6, <2>1
        <3> QED BY <1>1, <3>1, <3>2 DEF AppendsOrHas
    <2>4. ASSUME NEW r \in Procs \ {p, q}, Appended(r)'
          PROVE  db'[r].datoff # db'[q].datoff
        BY <2>1, <2>4 DEF Fresh, Appended
    <2> QED BY <2>1, <2>2, <2>3, <2>4
<1>8. \A q \in Procs \ {p} : Fresh(q)'
    BY <1>7 DEF Fresh
<1>9. Fresh(p)'
    <2> SUFFICES ASSUME Appended(p)'
                 PROVE  /\ \A i \in DOMAIN idx' : idx'[i].datoff # db'[p].datoff
                        /\ \A q \in Procs \ {p} : Appended(q)' =>
                              db'[q].datoff # db'[p].datoff
        BY DEF Fresh
    <2>1. DOMAIN idx' = DOMAIN idx
        BY <1>1, <1>2 DEF AppendsOrHas
    <2>2. Appended(p) => Fresh(p) /\ \A i \in DOMAIN idx : idx[i].datoff # db[p].datoff
        BY DEF FileInv, Fresh
    <2>3. \A i \in DOMAIN idx : idx[i].datoff # db'[p].datoff
        BY <1>1, <1>5, <2>2 DEF AppendsOrHas
    <2> QED BY <1>7, <2>1, <2>3 DEF FilesGrow
<1> QED BY <1>4, <1>8, <1>9 DEF FileInv, FilesSound, FileTypes

(***************************************************************************)
(* Steps that only look at the files.                                       *)
(***************************************************************************)
LEMMA Looks ==
    ASSUME FileInv, LockInv, NEW p \in Procs,
           table' = table, idx' = idx, dat' = dat,
           db' \in [Procs -> DBs],
           \A q \in Procs \ {p} : pc'[q] = pc[q] /\ db'[q] = db[q],
           Appended(p)' => Appended(p) /\ db'[p].datoff = db[p].datoff,
           Handle(p)'
    PROVE  FileInv'
<1>1. FilesSound'
    BY DEF FilesSound, FileInv, FileTypes, NoDangling, DataNotShared
<1>2. FilesGrow(p)
    BY SeqFacts DEF FilesGrow, FileInv
<1>3. AppendsOrHas(p)
    BY DEF AppendsOrHas
<1> QED BY <1>1, <1>2, <1>3, FileStep

\* What is known of a process in the middle of a call.
LEMMA Knows ==
    ASSUME FileInv, LockInv, NEW p \in Procs
    PROVE  /\ FileTypes /\ NoDangling /\ DataNotShared
           /\ Handle(p) /\ Matched(p) /\ db[p] \in DBs
           /\ pc \in [Procs -> {"idle"} \cup InCall \cup Ended]
           /\ Len(idx) \in Nat /\ DOMAIN idx = 1..Len(idx)
           /\ Len(dat) \in Nat /\ DOMAIN dat = 1..Len(dat)
BY SeqFacts DEF FileInv, FileTypes, LockInv

(***************************************************************************)
(* Assignments to the DB structure of a process.                            *)
(***************************************************************************)
OnlyOf(p) == \A q \in Procs \ {p} : db'[q] = db[q]

LEMMA SetWalk ==
    ASSUME db \in [Procs -> DBs], NEW p \in Procs,
           NEW l \in Heads \cup Nat, NEW o \in Nat, NEW n \in Nat,
           db' = [db EXCEPT ![p].ptroff = l, ![p].off = o, ![p].pos = n]
    PROVE  /\ db' \in [Procs -> DBs] /\ OnlyOf(p)
           /\ db'[p].ptroff = l /\ db'[p].off = o
BY ZenonT(40) DEF DBs, OnlyOf

LEMMA SetFreeWalk ==
    ASSUME db \in [Procs -> DBs], NEW p \in Procs,
           NEW l \in Heads \cup Nat, NEW o \in Nat,
           db' = [db EXCEPT ![p].ptroff = l, ![p].off = o]
    PROVE  /\ db' \in [Procs -> DBs] /\ OnlyOf(p)
           /\ db'[p].ptroff = l /\ db'[p].off = o
           /\ db'[p].next = db[p].next
BY ZenonT(40) DEF DBs, OnlyOf

LEMMA SetRecord ==
    ASSUME db \in [Procs -> DBs], NEW p \in Procs,
           NEW d \in Nat, NEW v \in Nat, NEW n \in Nat,
           db' = [db EXCEPT ![p].datoff = d, ![p].ptrval = v, ![p].pos = n]
    PROVE  /\ db' \in [Procs -> DBs] /\ OnlyOf(p)
           /\ db'[p].datoff = d /\ db'[p].ptrval = v
           /\ db'[p].off = db[p].off /\ db'[p].ptroff = db[p].ptroff
BY ZenonT(40) DEF DBs, OnlyOf

LEMMA SetFreeRecord ==
    ASSUME db \in [Procs -> DBs], NEW p \in Procs,
           NEW d \in Nat, NEW v \in Nat,
           db' = [db EXCEPT ![p].datoff = d, ![p].ptrval = v]
    PROVE  /\ db' \in [Procs -> DBs] /\ OnlyOf(p)
           /\ db'[p].datoff = d /\ db'[p].ptrval = v
           /\ db'[p].off = db[p].off /\ db'[p].ptroff = db[p].ptroff
           /\ db'[p].next = db[p].next
BY DEF DBs, OnlyOf

LEMMA SetChainHead ==
    ASSUME db \in [Procs -> DBs], NEW p \in Procs, NEW n \in Nat,
           db' = [db EXCEPT ![p].next = n]
    PROVE  /\ db' \in [Procs -> DBs] /\ OnlyOf(p)
           /\ db'[p].next = n
BY DEF DBs, OnlyOf

LEMMA SetDatOff ==
    ASSUME db \in [Procs -> DBs], NEW p \in Procs, NEW n \in Nat,
           db' = [db EXCEPT ![p].datoff = n]
    PROVE  /\ db' \in [Procs -> DBs] /\ OnlyOf(p)
           /\ db'[p].datoff = n
           /\ db'[p].next = db[p].next
BY DEF DBs, OnlyOf

LEMMA SetOff ==
    ASSUME db \in [Procs -> DBs], NEW p \in Procs, NEW n \in Nat,
           db' = [db EXCEPT ![p].off = n]
    PROVE  /\ db' \in [Procs -> DBs] /\ OnlyOf(p)
           /\ db'[p].off = n
           /\ db'[p].datoff = db[p].datoff
           /\ db'[p].next = db[p].next
BY DEF DBs, OnlyOf

LEMMA SetPos ==
    ASSUME db \in [Procs -> DBs], NEW p \in Procs, NEW n \in Nat,
           db' = [db EXCEPT ![p].pos = n]
    PROVE  /\ db' \in [Procs -> DBs] /\ OnlyOf(p)
           /\ db'[p].pos = n
BY DEF DBs, OnlyOf

LEMMA SetNext ==
    ASSUME db \in [Procs -> DBs], NEW p \in Procs,
           NEW k \in Keys, NEW d \in Nat, NEW n \in Nat,
           db' = [db EXCEPT ![p].key = k, ![p].datoff = d, ![p].pos = n]
    PROVE  db' \in [Procs -> DBs] /\ OnlyOf(p) /\ db'[p].datoff = d
BY ZenonT(40) DEF DBs, OnlyOf

LEMMA ResetDB ==
    ASSUME db \in [Procs -> DBs], NEW p \in Procs,
           \/ db' = [db EXCEPT ![p] = [InitDB EXCEPT !.pos = db[p].pos]]
           \/ db' = [db EXCEPT ![p] = InitDB]
    PROVE  db' \in [Procs -> DBs] /\ OnlyOf(p)
<1>1. InitDB \in DBs
    BY DEF DBs, InitDB, Heads
<1>2. db[p].pos \in Nat
    BY DEF DBs
<1>3. [InitDB EXCEPT !.pos = db[p].pos] \in DBs
    BY <1>1, <1>2 DEF DBs
<1> QED BY <1>1, <1>3 DEF OnlyOf

(***************************************************************************)
(* The steps that only look, one by one.                                    *)
(***************************************************************************)
USE DEF KeyedCall, NextCall, InCall, Ended, StoreOnly, DeleteOrStore

LEMMA FindSteps ==
    ASSUME FileInv, LockInv, NEW p \in Procs,
           FindAndLock(p) \/ FindNext(p) \/ Found(p) \/ NotFound(p) \/ ReadData(p)
    PROVE  FileInv'
<1>0. /\ db \in [Procs -> DBs] /\ db[p] \in DBs
      /\ pc \in [Procs -> {"idle"} \cup InCall \cup Ended]
      /\ Handle(p) /\ Matched(p)
      /\ Len(idx) \in Nat /\ DOMAIN idx = 1..Len(idx)
    BY Knows DEF FileTypes
<1>1. table' = table /\ idx' = idx /\ dat' = dat
    BY DEF FindAndLock, FindNext, Found, NotFound, ReadData
<1>2. CASE FindAndLock(p)
    <2>1. pc[p] = "find" /\ pc' = [pc EXCEPT ![p] = "scan"]
        BY <1>2 DEF FindAndLock, Goto
    <2>2. Chain(p) \in Heads
        BY <2>1, MyChain DEF Heads
    <2>3. ReadPtr(Chain(p)) \in 0..Len(idx)
        BY <2>2, ReadPtrOK, Knows DEF LinkOK
    <2>4. db' = [db EXCEPT ![p].ptroff = Chain(p), ![p].off = ReadPtr(Chain(p)),
                           ![p].pos = 0]
        BY <1>2 DEF FindAndLock, PosAfterPtr, AstrayPos
    <2>5. /\ db' \in [Procs -> DBs] /\ OnlyOf(p)
          /\ db'[p].off = ReadPtr(Chain(p)) /\ db'[p].ptroff = Chain(p)
        <3>1. ReadPtr(Chain(p)) \in Nat /\ Chain(p) \in Heads \cup Nat
            BY <1>0, <2>2, <2>3
        <3> HIDE DEF KeyedCall, InCall
        <3> QED BY <1>0, <2>4, <3>1, SetWalk
    <2>6. pc'[p] = "scan" /\ \A q \in Procs \ {p} : pc'[q] = pc[q]
        BY <1>0, <2>1
    <2>7. Handle(p)'
        BY <1>0, <1>1, <2>2, <2>3, <2>5, <2>6 DEF Handle, LinkOK
    <2> QED BY <1>1, <2>5, <2>6, <2>7, Looks DEF Appended, OnlyOf
<1>3. CASE FindNext(p)
    <2> DEFINE i == db[p].off
    <2>1. /\ pc[p] = "scan" /\ pc' = pc /\ i # 0
          /\ db' = [db EXCEPT ![p].ptroff = i, ![p].off = idx[i].ptr,
                              ![p].pos = i + 1]
        BY <1>3 DEF FindNext, PosAfter
    <2>2. i \in DOMAIN idx
        BY <1>0, <2>1 DEF Handle, DBs
    <2>3. idx[i].ptr \in 0..Len(idx)
        BY <2>2, Knows, SeqFacts DEF NoDangling, IndexRecords
    <2>4. i \in Nat /\ i + 1 \in Nat /\ idx[i].ptr \in Nat
        BY <1>0, <2>2, <2>3
    <2> HIDE DEF i
    <2>5. /\ db' \in [Procs -> DBs] /\ OnlyOf(p)
          /\ db'[p].off = idx[i].ptr /\ db'[p].ptroff = i
        BY <1>0, <2>1, <2>4, SetWalk
    <2>6. Handle(p)'
        BY <1>0, <1>1, <2>1, <2>2, <2>3, <2>5 DEF Handle, LinkOK
    <2> QED BY <1>1, <2>1, <2>5, <2>6, Looks DEF Appended, OnlyOf
<1>4. CASE Found(p)
    <2> DEFINE i == db[p].off
    <2>1. PICK label \in {"f_dat", "d_lock", "unlock", "overwrite"} :
              /\ pc[p] = "scan" /\ i # 0
              /\ pc' = [pc EXCEPT ![p] = label]
              /\ db' = [db EXCEPT ![p].datoff = idx[i].datoff,
                                  ![p].ptrval = idx[i].ptr, ![p].pos = i + 1]
        BY <1>4 DEF Found, PosAfter, Goto
    <2>2. i \in DOMAIN idx
        BY <1>0, <2>1 DEF Handle, DBs
    <2>3. idx[i].ptr \in 0..Len(idx) /\ idx[i].datoff \in DOMAIN dat
        BY <2>2, Knows, SeqFacts DEF NoDangling, IndexRecords
    <2>4. i \in Nat /\ i + 1 \in Nat /\ idx[i].ptr \in Nat /\ idx[i].datoff \in Nat
        BY <1>0, <2>2, <2>3, Knows
    <2>5. /\ db' \in [Procs -> DBs] /\ OnlyOf(p)
          /\ db'[p].datoff = idx[i].datoff /\ db'[p].ptrval = idx[i].ptr
          /\ db'[p].off = i /\ db'[p].ptroff = db[p].ptroff
        BY <1>0, <2>1, <2>4, SetRecord
    <2>6. pc'[p] = label /\ \A q \in Procs \ {p} : pc'[q] = pc[q]
        BY <1>0, <2>1
    <2>7. LinkOK(db[p].ptroff)
        BY <1>0, <2>1 DEF Handle
    <2> HIDE DEF i
    <2>8. Handle(p)'
        BY <1>0, <1>1, <2>2, <2>3, <2>5, <2>6, <2>7 DEF Handle, LinkOK
    <2> QED BY <1>1, <2>5, <2>6, <2>8, Looks DEF Appended, OnlyOf
<1>5. CASE NotFound(p) \/ ReadData(p)
    <2>1. PICK label \in {"unlock", "i_head"} :
              pc' = [pc EXCEPT ![p] = label] /\ db' = db
        BY <1>5 DEF NotFound, ReadData, Goto
    <2>2. pc'[p] = label /\ \A q \in Procs \ {p} : pc'[q] = pc[q]
        BY <1>0, <2>1
    <2>3. Handle(p)' /\ ~Appended(p)'
        BY <2>2 DEF Handle, Appended
    <2> QED BY <1>0, <1>1, <2>1, <2>2, <2>3, Looks
<1> QED BY <1>2, <1>3, <1>4, <1>5

LEMMA FreeListSteps ==
    ASSUME FileInv, LockInv, NEW p \in Procs,
           \/ ReadChainHead(p) \/ FreeLock(p) \/ FreeNext(p)
           \/ FreeFound(p) \/ FreeNone(p)
    PROVE  FileInv'
<1>0. /\ db \in [Procs -> DBs] /\ db[p] \in DBs
      /\ pc \in [Procs -> {"idle"} \cup InCall \cup Ended]
      /\ Handle(p)
      /\ Len(idx) \in Nat /\ DOMAIN idx = 1..Len(idx)
    BY Knows DEF FileTypes
<1>1. table' = table /\ idx' = idx /\ dat' = dat
    BY DEF ReadChainHead, FreeLock, FreeNext, FreeFound, FreeNone
<1>2. \A h \in Heads : table[h] \in 0..Len(idx)
    BY <1>0, Knows DEF FileTypes, NoDangling
<1>3. CASE ReadChainHead(p)
    <2>1. PICK label \in {"ff_lock", "a_dat"} :
              /\ pc[p] \in {"i_head", "r_head"}
              /\ pc' = [pc EXCEPT ![p] = label]
              /\ db' = [db EXCEPT ![p].next = table[Chain(p)]]
        BY <1>3 DEF ReadChainHead, Goto
    <2>2. table[Chain(p)] \in 0..Len(idx)
        BY <1>2, <2>1, MyChain DEF Heads
    <2>3. db' \in [Procs -> DBs] /\ OnlyOf(p) /\ db'[p].next = table[Chain(p)]
        <3>1. table[Chain(p)] \in Nat
            BY <1>0, <2>2
        <3> QED BY <1>0, <2>1, <3>1, SetChainHead
    <2>4. pc'[p] = label /\ \A q \in Procs \ {p} : pc'[q] = pc[q]
        BY <1>0, <2>1
    <2>5. Handle(p)'
        BY <1>0, <1>1, <2>2, <2>3, <2>4 DEF Handle
    <2> QED BY <1>1, <2>3, <2>4, <2>5, Looks DEF Appended, OnlyOf
<1>4. CASE FreeLock(p)
    <2>1. /\ pc[p] = "ff_lock" /\ pc' = [pc EXCEPT ![p] = "ff_scan"]
          /\ db' = [db EXCEPT ![p].ptroff = FREE_OFF, ![p].off = table[FREE_OFF]]
        BY <1>4 DEF FreeLock, Goto
    <2>2. FREE_OFF \in Heads /\ table[FREE_OFF] \in 0..Len(idx)
        BY <1>2 DEF Heads
    <2>3. FREE_OFF \in Heads \cup Nat /\ table[FREE_OFF] \in Nat
        BY <1>0, <2>2
    <2>4. /\ db' \in [Procs -> DBs] /\ OnlyOf(p)
          /\ db'[p].ptroff = FREE_OFF /\ db'[p].off = table[FREE_OFF]
          /\ db'[p].next = db[p].next
        BY <1>0, <2>1, <2>3, SetFreeWalk
    <2>5. pc'[p] = "ff_scan" /\ \A q \in Procs \ {p} : pc'[q] = pc[q]
        BY <1>0, <2>1
    <2>6. Handle(p)'
        BY <1>0, <1>1, <2>1, <2>2, <2>4, <2>5 DEF Handle, LinkOK
    <2> QED BY <1>1, <2>4, <2>5, <2>6, Looks DEF Appended, OnlyOf
<1>5. CASE FreeNext(p)
    <2> DEFINE i == db[p].off
    <2>1. /\ pc[p] = "ff_scan" /\ pc' = pc /\ i # 0
          /\ db' = [db EXCEPT ![p].ptroff = i, ![p].off = idx[i].ptr]
        BY <1>5 DEF FreeNext
    <2>2. i \in DOMAIN idx
        BY <1>0, <2>1 DEF Handle, DBs
    <2>3. idx[i].ptr \in 0..Len(idx)
        BY <2>2, Knows, SeqFacts DEF NoDangling, IndexRecords
    <2>4. i \in Heads \cup Nat /\ idx[i].ptr \in Nat
        BY <1>0, <2>2, <2>3
    <2> HIDE DEF i
    <2>5. /\ db' \in [Procs -> DBs] /\ OnlyOf(p)
          /\ db'[p].ptroff = i /\ db'[p].off = idx[i].ptr
          /\ db'[p].next = db[p].next
        BY <1>0, <2>1, <2>4, SetFreeWalk
    <2>6. Handle(p)'
        BY <1>0, <1>1, <2>1, <2>2, <2>3, <2>5 DEF Handle, LinkOK
    <2> QED BY <1>1, <2>1, <2>5, <2>6, Looks DEF Appended, OnlyOf
<1>6. CASE FreeFound(p)
    <2> DEFINE i == db[p].off
    <2>1. /\ pc[p] = "ff_scan" /\ pc' = [pc EXCEPT ![p] = "ff_take"] /\ i # 0
          /\ db' = [db EXCEPT ![p].datoff = idx[i].datoff,
                              ![p].ptrval = idx[i].ptr]
        BY <1>6 DEF FreeFound, Goto
    <2>2. i \in DOMAIN idx
        BY <1>0, <2>1 DEF Handle, DBs
    <2>3. idx[i].ptr \in 0..Len(idx) /\ idx[i].datoff \in Nat
        BY <2>2, Knows, SeqFacts DEF NoDangling, IndexRecords
    <2>4. /\ db' \in [Procs -> DBs] /\ OnlyOf(p)
          /\ db'[p].datoff = idx[i].datoff /\ db'[p].ptrval = idx[i].ptr
          /\ db'[p].off = i /\ db'[p].ptroff = db[p].ptroff
          /\ db'[p].next = db[p].next
        <3>1. idx[i].ptr \in Nat
            BY <1>0, <2>3
        <3> QED BY <1>0, <2>1, <2>3, <3>1, SetFreeRecord
    <2>5. pc'[p] = "ff_take" /\ \A q \in Procs \ {p} : pc'[q] = pc[q]
        BY <1>0, <2>1
    <2>6. LinkOK(db[p].ptroff) /\ db[p].next <= Len(idx)
        BY <1>0, <2>1 DEF Handle
    <2> HIDE DEF i
    <2>7. Handle(p)'
        BY <1>0, <1>1, <2>2, <2>3, <2>4, <2>5, <2>6 DEF Handle, LinkOK
    <2> QED BY <1>1, <2>4, <2>5, <2>7, Looks DEF Appended, OnlyOf
<1>7. CASE FreeNone(p)
    <2>1. /\ pc[p] = "ff_scan" /\ pc' = [pc EXCEPT ![p] = "a_dat"] /\ db' = db
        BY <1>7 DEF FreeNone, Goto
    <2>2. pc'[p] = "a_dat" /\ \A q \in Procs \ {p} : pc'[q] = pc[q]
        BY <1>0, <2>1
    <2>3. Handle(p)'
        BY <1>0, <1>1, <2>1, <2>2 DEF Handle
    <2> QED BY <1>0, <1>1, <2>1, <2>2, <2>3, Looks DEF Appended
<1> QED BY <1>3, <1>4, <1>5, <1>6, <1>7

LEMMA SeekSteps ==
    ASSUME FileInv, LockInv, NEW p \in Procs,
           AppendSeekData(p) \/ AppendSeekIndex(p)
    PROVE  FileInv'
<1>0. /\ db \in [Procs -> DBs]
      /\ pc \in [Procs -> {"idle"} \cup InCall \cup Ended]
      /\ Handle(p)
      /\ Len(idx) + 1 \in Nat /\ Len(dat) + 1 \in Nat
    BY Knows DEF FileTypes
<1>1. table' = table /\ idx' = idx /\ dat' = dat
    BY DEF AppendSeekData, AppendSeekIndex
<1>2. CASE AppendSeekData(p)
    <2>1. /\ pc[p] = "a_dat" /\ pc' = [pc EXCEPT ![p] = "a_dat_write"]
          /\ db' = [db EXCEPT ![p].datoff = Len(dat) + 1]
        BY <1>2 DEF AppendSeekData, Goto
    <2>2. /\ db' \in [Procs -> DBs] /\ OnlyOf(p)
          /\ db'[p].datoff = Len(dat) + 1 /\ db'[p].next = db[p].next
        BY <1>0, <2>1, SetDatOff
    <2>3. pc'[p] = "a_dat_write" /\ \A q \in Procs \ {p} : pc'[q] = pc[q]
        BY <1>0, <2>1
    <2>4. Handle(p)'
        BY <1>0, <1>1, <2>1, <2>2, <2>3 DEF Handle
    <2> QED BY <1>1, <2>2, <2>3, <2>4, Looks DEF Appended, OnlyOf
<1>3. CASE AppendSeekIndex(p)
    <2>1. /\ pc[p] = "a_idx" /\ pc' = [pc EXCEPT ![p] = "a_idx_write"]
          /\ db' = [db EXCEPT ![p].off = Len(idx) + 1]
        BY <1>3 DEF AppendSeekIndex, Goto
    <2>2. /\ db' \in [Procs -> DBs] /\ OnlyOf(p)
          /\ db'[p].off = Len(idx) + 1
          /\ db'[p].datoff = db[p].datoff /\ db'[p].next = db[p].next
        BY <1>0, <2>1, SetOff
    <2>3. pc'[p] = "a_idx_write" /\ \A q \in Procs \ {p} : pc'[q] = pc[q]
        BY <1>0, <2>1
    <2>4. Handle(p)'
        BY <1>0, <1>1, <2>1, <2>2, <2>3 DEF Handle
    <2> QED BY <1>1, <2>1, <2>2, <2>3, <2>4, Looks DEF Appended, OnlyOf
<1> QED BY <1>2, <1>3

LEMMA NextrecSteps ==
    ASSUME FileInv, LockInv, NEW p \in Procs,
           \/ NextLock(p) \/ NextSkip(p) \/ NextFound(p) \/ NextEOF(p)
           \/ NextData(p)
    PROVE  FileInv'
<1>0. /\ db \in [Procs -> DBs] /\ db[p] \in DBs
      /\ pc \in [Procs -> {"idle"} \cup InCall \cup Ended]
      /\ Len(dat) \in Nat /\ DOMAIN dat = 1..Len(dat)
    BY Knows DEF FileTypes
<1>1. table' = table /\ idx' = idx /\ dat' = dat
    BY DEF NextLock, NextSkip, NextFound, NextEOF, NextData
<1>2. CASE NextLock(p) \/ NextEOF(p) \/ NextData(p)
    <2>1. PICK label \in {"n_idx", "n_unlock"} :
              pc' = [pc EXCEPT ![p] = label] /\ db' = db
        BY <1>2 DEF NextLock, NextEOF, NextData, Goto
    <2>2. pc'[p] = label /\ \A q \in Procs \ {p} : pc'[q] = pc[q]
        BY <1>0, <2>1
    <2>3. Handle(p)' /\ ~Appended(p)'
        BY <2>2 DEF Handle, Appended
    <2> QED BY <1>0, <1>1, <2>1, <2>2, <2>3, Looks
<1>3. CASE NextSkip(p)
    <2>1. /\ pc[p] = "n_idx" /\ pc' = pc
          /\ db' = [db EXCEPT ![p].pos = db[p].pos + 1]
        BY <1>0, <1>3 DEF NextSkip, PosAfter
    <2>2. db[p].pos + 1 \in Nat
        BY <1>0 DEF DBs
    <2>3. db' \in [Procs -> DBs] /\ OnlyOf(p)
        BY <1>0, <2>1, <2>2, SetPos
    <2>4. Handle(p)' /\ ~Appended(p)'
        BY <2>1 DEF Handle, Appended
    <2> QED BY <1>1, <2>1, <2>3, <2>4, Looks DEF OnlyOf
<1>4. CASE NextFound(p)
    <2> DEFINE i == db[p].pos
    <2>1. /\ pc[p] = "n_idx" /\ pc' = [pc EXCEPT ![p] = "n_dat"]
          /\ i \in DOMAIN idx /\ idx[i].key # Blank
          /\ db' = [db EXCEPT ![p].key = idx[i].key, ![p].datoff = idx[i].datoff,
                              ![p].pos = i + 1]
        BY <1>0, <1>4 DEF NextFound, PosAfter, Goto
    <2>2. idx[i].key \in Keys /\ idx[i].datoff \in DOMAIN dat /\ i + 1 \in Nat
        BY <1>0, <2>1, Knows, SeqFacts DEF NoDangling, IndexRecords, DBs
    <2>3. idx[i].datoff \in Nat
        BY <1>0, <2>2
    <2>4. db' \in [Procs -> DBs] /\ OnlyOf(p) /\ db'[p].datoff = idx[i].datoff
        <3>1. db' = [db EXCEPT ![p].key = idx[i].key, ![p].datoff = idx[i].datoff,
                               ![p].pos = i + 1]
            BY <2>1
        <3>2. idx[i].key \in Keys /\ idx[i].datoff \in Nat /\ i + 1 \in Nat
            BY <2>2, <2>3
        <3> HIDE DEF i
        <3> QED BY <1>0, <3>1, <3>2, SetNext
    <2> HIDE DEF i
    <2>5. pc'[p] = "n_dat" /\ \A q \in Procs \ {p} : pc'[q] = pc[q]
        BY <1>0, <2>1
    <2>6. Handle(p)' /\ ~Appended(p)'
        BY <1>1, <2>2, <2>4, <2>5 DEF Handle, Appended
    <2> QED BY <1>1, <2>4, <2>5, <2>6, Looks DEF OnlyOf
<1> QED BY <1>2, <1>3, <1>4

LEMMA CallSteps ==
    ASSUME FileInv, LockInv, NEW p \in Procs,
           \/ Call(p) \/ Rewind(p) \/ Return(p) \/ NextReturn(p)
           \/ LinkQuit(p) \/ NextDump(p) \/ Kill(p)
    PROVE  FileInv'
<1>0. /\ db \in [Procs -> DBs]
      /\ pc \in [Procs -> {"idle"} \cup InCall \cup Ended]
    BY Knows DEF FileTypes
<1>1. table' = table /\ idx' = idx /\ dat' = dat
    BY DEF Call, Rewind, Return, NextReturn, LinkQuit, NextDump, Kill, End, files
<1>2. db' \in [Procs -> DBs] /\ OnlyOf(p)
    <2>1. CASE Call(p)
        BY <1>0, <2>1 DEF Call, OnlyOf
    <2>2. CASE Rewind(p)
        <3>1. db' = [db EXCEPT ![p].pos = 1]
            BY <2>2 DEF Rewind
        <3> QED BY <1>0, <3>1, SetPos
    <2>3. CASE Return(p) \/ NextReturn(p)
        BY <1>0, <2>3, ResetDB DEF Return, NextReturn
    <2>4. CASE LinkQuit(p) \/ NextDump(p) \/ Kill(p)
        BY <1>0, <2>4, ResetDB DEF LinkQuit, NextDump, Kill, End
    <2> QED BY <2>1, <2>2, <2>3, <2>4
<1>3. PICK label \in {"idle", "find", "n_lock"} \cup Ended :
          \/ pc' = [pc EXCEPT ![p] = label]
          \/ pc' = pc /\ pc[p] = "idle"
    <2>1. CASE Call(p)
        <3>1. PICK r \in Requests : pc' = [pc EXCEPT ![p] =
                  IF r.op = "nextrec" THEN "n_lock" ELSE "find"]
            BY <2>1 DEF Call, Goto
        <3> QED BY <3>1
    <2>2. CASE Rewind(p)
        BY <2>2 DEF Rewind
    <2>3. CASE Return(p) \/ NextReturn(p)
        BY <2>3 DEF Return, NextReturn, Goto
    <2>4. CASE LinkQuit(p) \/ NextDump(p) \/ Kill(p)
        BY <2>4 DEF LinkQuit, NextDump, Kill, End, Goto
    <2> QED BY <2>1, <2>2, <2>3, <2>4
<1>4. /\ pc'[p] \in {"idle", "find", "n_lock"} \cup Ended
      /\ \A q \in Procs \ {p} : pc'[q] = pc[q]
    BY <1>0, <1>3
<1>5. Handle(p)' /\ ~Appended(p)'
    BY <1>4 DEF Handle, Appended
<1> QED BY <1>1, <1>2, <1>4, <1>5, Looks DEF OnlyOf

(***************************************************************************)
(* Steps that overwrite a record or a pointer in place.                     *)
(***************************************************************************)
LEMMA Overwrites ==
    ASSUME FileInv, LockInv, NEW p \in Procs,
           FilesSound', SameRecords,
           db' \in [Procs -> DBs], OnlyOf(p),
           \A q \in Procs \ {p} : pc'[q] = pc[q],
           ~Appended(p)', Handle(p)'
    PROVE  FileInv'
<1>1. FilesGrow(p)
    BY Knows DEF FilesGrow, SameRecords
<1>2. AppendsOrHas(p)
    BY DEF AppendsOrHas
<1> QED BY <1>1, <1>2, FileStep DEF OnlyOf

LEMMA PointerSteps ==
    ASSUME FileInv, LockInv, NEW p \in Procs,
           DeleteFree(p) \/ DeleteUnlink(p) \/ FreeTake(p) \/ Link(p)
    PROVE  FileInv'
<1>0. /\ db \in [Procs -> DBs] /\ db[p] \in DBs
      /\ pc \in [Procs -> {"idle"} \cup InCall \cup Ended]
      /\ Handle(p)
      /\ Len(idx) \in Nat /\ DOMAIN idx = 1..Len(idx)
    BY Knows DEF FileTypes
<1>1. FileTypes /\ NoDangling /\ DataNotShared
    BY Knows
<1>2. CASE DeleteFree(p)
    <2>1. /\ pc[p] = "d_free" /\ pc' = [pc EXCEPT ![p] = "d_unlink"]
          /\ WritePtr(FREE_OFF, db[p].off) /\ db' = db
        BY <1>2 DEF DeleteFree, Goto
    <2>2. LinkOK(FREE_OFF) /\ db[p].off \in 0..Len(idx)
        BY <1>0, <2>1 DEF Handle, LinkOK, Heads
    <2>3. FilesSound' /\ SameRecords
        BY <1>1, <2>1, <2>2, WritePtrOK
    <2>4. pc'[p] = "d_unlink" /\ \A q \in Procs \ {p} : pc'[q] = pc[q]
        BY <1>0, <2>1
    <2>5. Handle(p)' /\ ~Appended(p)'
        BY <1>0, <2>1, <2>3, <2>4 DEF Handle, LinkOK, SameRecords, Appended
    <2> QED BY <1>0, <2>1, <2>3, <2>4, <2>5, Overwrites DEF OnlyOf
<1>3. CASE DeleteUnlink(p)
    <2>1. PICK label \in {"unlock", "r_head"} :
              /\ pc[p] = "d_unlink" /\ pc' = [pc EXCEPT ![p] = label]
              /\ WritePtr(db[p].ptroff, db[p].ptrval)
              /\ db' = [db EXCEPT ![p].pos = 0]
        BY <1>3 DEF DeleteUnlink, Goto, PosAfterPtr, AstrayPos
    <2>2. LinkOK(db[p].ptroff) /\ db[p].ptrval \in 0..Len(idx)
        BY <1>0, <2>1 DEF Handle, DBs
    <2>3. FilesSound' /\ SameRecords
        BY <1>1, <2>1, <2>2, WritePtrOK
    <2>4. db' \in [Procs -> DBs] /\ OnlyOf(p)
        BY <1>0, <2>1, SetPos
    <2>5. pc'[p] = label /\ \A q \in Procs \ {p} : pc'[q] = pc[q]
        BY <1>0, <2>1
    <2>6. Handle(p)' /\ ~Appended(p)'
        BY <2>5 DEF Handle, Appended
    <2> QED BY <2>3, <2>4, <2>5, <2>6, Overwrites
<1>4. CASE FreeTake(p)
    <2>1. /\ pc[p] = "ff_take" /\ pc' = [pc EXCEPT ![p] = "u_dat"]
          /\ WritePtr(db[p].ptroff, db[p].ptrval) /\ db' = db
        BY <1>4 DEF FreeTake, Goto
    <2>2. LinkOK(db[p].ptroff) /\ db[p].ptrval \in 0..Len(idx)
        BY <1>0, <2>1 DEF Handle, DBs
    <2>3. FilesSound' /\ SameRecords
        BY <1>1, <2>1, <2>2, WritePtrOK
    <2>4. pc'[p] = "u_dat" /\ \A q \in Procs \ {p} : pc'[q] = pc[q]
        BY <1>0, <2>1
    <2>5. Handle(p)' /\ ~Appended(p)'
        BY <1>0, <2>1, <2>3, <2>4 DEF Handle, SameRecords, Appended
    <2> QED BY <1>0, <2>1, <2>3, <2>4, <2>5, Overwrites DEF OnlyOf
<1>5. CASE Link(p)
    <2>1. /\ pc[p] = "link" /\ pc' = [pc EXCEPT ![p] = "unlock"]
          /\ WritePtr(Chain(p), db[p].off)
          /\ db' = [db EXCEPT ![p].pos = 0]
        BY <1>5 DEF Link, Goto, PosAfterPtr, AstrayPos
    <2>2. LinkOK(Chain(p)) /\ db[p].off \in 0..Len(idx)
        <3>1. pc[p] \in KeyedCall
            BY <2>1 DEF KeyedCall
        <3>2. Chain(p) \in Chains
            BY <3>1, MyChain
        <3>3. db[p].off \in DOMAIN idx
            BY <1>0, <2>1 DEF Handle
        <3>4. db[p].off \in 0..Len(idx)
            BY <1>0, <3>3
        <3> QED BY <3>2, <3>4 DEF LinkOK, Heads
    <2>3. FilesSound' /\ SameRecords
        BY <1>1, <2>1, <2>2, WritePtrOK
    <2>4. db' \in [Procs -> DBs] /\ OnlyOf(p)
        BY <1>0, <2>1, SetPos
    <2>5. pc'[p] = "unlock" /\ \A q \in Procs \ {p} : pc'[q] = pc[q]
        BY <1>0, <2>1
    <2>6. Handle(p)' /\ ~Appended(p)'
        BY <2>5 DEF Handle, Appended
    <2> QED BY <2>3, <2>4, <2>5, <2>6, Overwrites
<1> QED BY <1>2, <1>3, <1>4, <1>5

\* What the request of a db_store holds.
LEMMA StoreRequest ==
    ASSUME LockInv, NEW p \in Procs, pc[p] \in StoreOnly
    PROVE  /\ req[p].key \in Keys /\ req[p].data \in Data
           /\ KeyLen[req[p].key] \in Nat /\ DatLen[req[p].data] \in Nat
<1>1. req[p] \in Requests /\ req[p].op = "store"
    BY DEF LockInv, Matched, Op
<1>2. req[p].key \in Keys /\ req[p].data \in Data
    BY <1>1, DbAssumption
<1> QED BY <1>2, DbAssumption

LEMMA WriteDatOK ==
    ASSUME FileTypes, NoDangling, DataNotShared,
           NEW d \in DOMAIN dat, NEW v \in Data \cup {Blank},
           dat' = [dat EXCEPT ![d] = v], table' = table, idx' = idx
    PROVE  FilesSound' /\ SameRecords
<1>1. d \in 1..Len(dat)
    BY SeqFacts
<1>2. dat' \in Seq(Data \cup {Blank}) /\ Len(dat') = Len(dat)
    BY <1>1, ExceptSeq DEF FileTypes
<1>3. DOMAIN dat' = DOMAIN dat
    BY <1>2, SeqFacts, LenProperties
<1> QED BY <1>2, <1>3 DEF FileTypes, NoDangling, DataNotShared, FilesSound,
        SameRecords

LEMMA WriteIdxOK ==
    ASSUME FileTypes, NoDangling, DataNotShared,
           NEW i \in DOMAIN idx, NEW rec \in IndexRecords,
           rec.ptr <= Len(idx), rec.datoff = idx[i].datoff,
           idx' = [idx EXCEPT ![i] = rec], table' = table, dat' = dat
    PROVE  FilesSound' /\ SameRecords
<1>1. i \in 1..Len(idx)
    BY SeqFacts
<1>2. /\ idx' \in Seq(IndexRecords) /\ Len(idx') = Len(idx)
      /\ \A j \in 1..Len(idx) : idx'[j] = IF j = i THEN rec ELSE idx[j]
    BY <1>1, ExceptSeq DEF FileTypes
<1>3. DOMAIN idx' = DOMAIN idx /\ DOMAIN idx = 1..Len(idx)
    BY <1>2, SeqFacts, LenProperties
<1>4. \A j \in DOMAIN idx : idx'[j].datoff = idx[j].datoff
    BY <1>2, <1>3
<1>5. \A j \in DOMAIN idx : idx'[j].ptr <= Len(idx)
    BY <1>2, <1>3 DEF NoDangling
<1> QED BY <1>2, <1>3, <1>4, <1>5 DEF FileTypes, NoDangling, DataNotShared,
        FilesSound, SameRecords

LEMMA RecordSteps ==
    ASSUME FileInv, LockInv, NEW p \in Procs,
           \/ Overwrite(p) \/ DeleteData(p) \/ ReuseData(p)
           \/ DeleteIndex(p) \/ ReuseIndex(p)
    PROVE  FileInv'
<1>0. /\ db \in [Procs -> DBs] /\ db[p] \in DBs
      /\ pc \in [Procs -> {"idle"} \cup InCall \cup Ended]
      /\ Handle(p)
      /\ Len(idx) \in Nat /\ DOMAIN idx = 1..Len(idx)
    BY Knows DEF FileTypes
<1>1. FileTypes /\ NoDangling /\ DataNotShared
    BY Knows
<1>2. db' = db
    BY DEF Overwrite, DeleteData, ReuseData, DeleteIndex, ReuseIndex
<1>3. CASE Overwrite(p)
    <2>1. /\ pc[p] = "overwrite" /\ pc' = [pc EXCEPT ![p] = "unlock"]
          /\ dat' = [dat EXCEPT ![db[p].datoff] = req[p].data]
          /\ table' = table /\ idx' = idx
        BY <1>3 DEF Overwrite, Goto
    <2>2. db[p].datoff \in DOMAIN dat /\ req[p].data \in Data \cup {Blank}
        BY <1>0, <2>1, StoreRequest DEF Handle
    <2>3. FilesSound' /\ SameRecords
        BY <1>1, <2>1, <2>2, WriteDatOK
    <2>4. pc'[p] = "unlock" /\ \A q \in Procs \ {p} : pc'[q] = pc[q]
        BY <1>0, <2>1
    <2>5. Handle(p)' /\ ~Appended(p)'
        BY <2>4 DEF Handle, Appended
    <2> QED BY <1>0, <1>2, <2>3, <2>4, <2>5, Overwrites DEF OnlyOf
<1>4. CASE DeleteData(p)
    <2>1. /\ pc[p] = "d_lock" /\ pc' = [pc EXCEPT ![p] = "d_idx"]
          /\ dat' = [dat EXCEPT ![db[p].datoff] = Blank]
          /\ table' = table /\ idx' = idx
        BY <1>4 DEF DeleteData, Goto
    <2>2. db[p].datoff \in DOMAIN dat
        BY <1>0, <2>1 DEF Handle
    <2>3. FilesSound' /\ SameRecords
        BY <1>1, <2>1, <2>2, WriteDatOK
    <2>4. pc'[p] = "d_idx" /\ \A q \in Procs \ {p} : pc'[q] = pc[q]
        BY <1>0, <2>1
    <2>5. Handle(p)' /\ ~Appended(p)'
        BY <1>0, <1>2, <2>1, <2>3, <2>4 DEF Handle, LinkOK, SameRecords, Appended
    <2> QED BY <1>0, <1>2, <2>3, <2>4, <2>5, Overwrites DEF OnlyOf
<1>5. CASE ReuseData(p)
    <2>1. /\ pc[p] = "u_dat" /\ pc' = [pc EXCEPT ![p] = "u_idx"]
          /\ dat' = [dat EXCEPT ![db[p].datoff] = req[p].data]
          /\ table' = table /\ idx' = idx
        BY <1>5 DEF ReuseData, Goto
    <2>2. db[p].datoff \in DOMAIN dat
        BY <1>0, <1>1, <2>1 DEF Handle, NoDangling
    <2>3. req[p].data \in Data \cup {Blank}
        BY <2>1, StoreRequest
    <2>4. FilesSound' /\ SameRecords
        BY <1>1, <2>1, <2>2, <2>3, WriteDatOK
    <2>5. pc'[p] = "u_idx" /\ \A q \in Procs \ {p} : pc'[q] = pc[q]
        BY <1>0, <2>1
    <2>6. Handle(p)' /\ ~Appended(p)'
        BY <1>0, <1>2, <2>1, <2>4, <2>5 DEF Handle, SameRecords, Appended
    <2> QED BY <1>0, <1>2, <2>4, <2>5, <2>6, Overwrites DEF OnlyOf
<1>6. CASE DeleteIndex(p)
    <2> DEFINE i == db[p].off
               rec == [idx[i] EXCEPT !.key = Blank, !.ptr = table[FREE_OFF]]
    <2>1. /\ pc[p] = "d_idx" /\ pc' = [pc EXCEPT ![p] = "d_free"]
          /\ table' = table /\ dat' = dat
          /\ idx' = [idx EXCEPT ![i].key = Blank, ![i].ptr = table[FREE_OFF]]
        BY <1>6 DEF DeleteIndex, Goto
    <2>2. i \in DOMAIN idx
        BY <1>0, <2>1 DEF Handle
    <2>3. table[FREE_OFF] \in Nat /\ table[FREE_OFF] <= Len(idx)
        BY <1>1 DEF FileTypes, NoDangling, Heads
    <2>4. idx[i] \in IndexRecords
        BY <1>1, <2>2, SeqFacts
    <2> HIDE DEF i
    <2>5. /\ rec \in IndexRecords /\ rec.ptr = table[FREE_OFF]
          /\ rec.datoff = idx[i].datoff
        BY <2>3, <2>4 DEF IndexRecords
    <2>6. idx' = [idx EXCEPT ![i] = rec]
        BY <2>1
    <2> HIDE DEF rec
    <2>7. FilesSound' /\ SameRecords
        BY <1>1, <2>1, <2>2, <2>3, <2>5, <2>6, WriteIdxOK
    <2>8. pc'[p] = "d_free" /\ \A q \in Procs \ {p} : pc'[q] = pc[q]
        BY <1>0, <2>1
    <2>9. Handle(p)' /\ ~Appended(p)'
        BY <1>0, <1>2, <2>1, <2>7, <2>8 DEF Handle, LinkOK, SameRecords, Appended
    <2> QED BY <1>0, <1>2, <2>7, <2>8, <2>9, Overwrites DEF OnlyOf
<1>7. CASE ReuseIndex(p)
    <2>1. /\ pc[p] = "u_idx" /\ pc' = [pc EXCEPT ![p] = "link"]
          /\ idx' = [idx EXCEPT ![db[p].off] = IndexRecord(p)]
          /\ table' = table /\ dat' = dat
        BY <1>7 DEF ReuseIndex, Goto
    <2>2. /\ db[p].off \in DOMAIN idx /\ db[p].next <= Len(idx)
          /\ db[p].datoff = idx[db[p].off].datoff
        BY <1>0, <2>1 DEF Handle
    <2>3. IndexRecord(p) \in IndexRecords
        BY <1>0, <2>1, StoreRequest DEF IndexRecord, IndexRecords, DBs
    <2>4. IndexRecord(p).ptr = db[p].next /\ IndexRecord(p).datoff = db[p].datoff
        BY DEF IndexRecord
    <2>5. FilesSound' /\ SameRecords
        BY <1>1, <2>1, <2>2, <2>3, <2>4, WriteIdxOK
    <2>6. pc'[p] = "link" /\ \A q \in Procs \ {p} : pc'[q] = pc[q]
        BY <1>0, <2>1
    <2>7. Handle(p)' /\ ~Appended(p)'
        BY <1>0, <1>2, <2>2, <2>5, <2>6 DEF Handle, SameRecords, Appended
    <2> QED BY <1>0, <1>2, <2>5, <2>6, <2>7, Overwrites DEF OnlyOf
<1> QED BY <1>3, <1>4, <1>5, <1>6, <1>7

(***************************************************************************)
(* Steps that append.                                                       *)
(***************************************************************************)
LEMMA AppendDataStep ==
    ASSUME FileInv, LockInv, NEW p \in Procs, AppendData(p)
    PROVE  FileInv'
<1>0. /\ db \in [Procs -> DBs]
      /\ pc \in [Procs -> {"idle"} \cup InCall \cup Ended]
      /\ Handle(p) /\ FileTypes /\ NoDangling /\ DataNotShared
      /\ Len(dat) \in Nat /\ DOMAIN dat = 1..Len(dat)
    BY Knows DEF FileTypes
<1>1. /\ pc[p] = "a_dat_write" /\ pc' = [pc EXCEPT ![p] = "a_idx"]
      /\ dat' = WriteAt(dat, db[p].datoff, req[p].data)
      /\ table' = table /\ idx' = idx /\ db' = db
    BY DEF AppendData, Goto
<1>2. db[p].datoff = Len(dat) + 1 /\ db[p].next <= Len(idx)
    BY <1>0, <1>1 DEF Handle
<1>3. req[p].data \in Data \cup {Blank}
    BY <1>1, StoreRequest
<1>4. dat' \in Seq(Data \cup {Blank}) /\ Len(dat') = Len(dat) + 1
    <2> DEFINE S == Data \cup {Blank}
               e == req[p].data
               i == db[p].datoff
    <2>1. dat \in Seq(S) /\ e \in S /\ i = Len(dat) + 1
        BY <1>0, <1>2, <1>3 DEF FileTypes
    <2>2. dat' = WriteAt(dat, i, e)
        BY <1>1
    <2> HIDE DEF S, e, i
    <2>3. dat' \in Seq(S) /\ Len(dat') = Len(dat) + 1
        BY <2>1, <2>2, WriteAtEnd
    <2> QED BY <2>3 DEF S
<1>5. DOMAIN dat' = 1..(Len(dat) + 1)
    BY <1>4, LenProperties
<1>6. FilesSound'
    <2>1. NoDangling'
        BY <1>0, <1>1, <1>5 DEF NoDangling
    <2>2. DataNotShared'
        BY <1>0, <1>1 DEF DataNotShared
    <2> QED BY <1>0, <1>1, <1>4, <2>1, <2>2 DEF FilesSound, FileTypes
<1>7. FilesGrow(p)
    <2>1. Len(idx) \in Nat
        BY Knows
    <2> QED BY <1>0, <1>1, <1>4, <2>1 DEF FilesGrow
<1>8. AppendsOrHas(p)
    BY <1>1, <1>2 DEF AppendsOrHas
<1>9. pc'[p] = "a_idx" /\ \A q \in Procs \ {p} : pc'[q] = pc[q]
    BY <1>0, <1>1
<1>10. Handle(p)'
    BY <1>0, <1>1, <1>2, <1>5, <1>9 DEF Handle
<1> QED BY <1>0, <1>1, <1>6, <1>7, <1>8, <1>9, <1>10, FileStep

LEMMA AppendIndexStep ==
    ASSUME FileInv, LockInv, NEW p \in Procs, AppendIndex(p)
    PROVE  FileInv'
<1>0. /\ db \in [Procs -> DBs] /\ db[p] \in DBs
      /\ pc \in [Procs -> {"idle"} \cup InCall \cup Ended]
      /\ Handle(p) /\ FileTypes /\ NoDangling /\ DataNotShared
      /\ Len(idx) \in Nat /\ DOMAIN idx = 1..Len(idx)
      /\ Len(dat) \in Nat
    BY Knows DEF FileTypes
<1> DEFINE rec == IndexRecord(p)
<1>1. /\ pc[p] = "a_idx_write" /\ pc' = [pc EXCEPT ![p] = "link"]
      /\ idx' = WriteAt(idx, db[p].off, rec)
      /\ table' = table /\ dat' = dat /\ db' = db
    BY DEF AppendIndex, Goto
<1>2. /\ db[p].off = Len(idx) + 1 /\ db[p].next <= Len(idx)
      /\ db[p].datoff \in DOMAIN dat
    BY <1>0, <1>1 DEF Handle
<1>3. rec \in IndexRecords /\ rec.ptr = db[p].next /\ rec.datoff = db[p].datoff
    BY <1>0, <1>1, StoreRequest DEF IndexRecord, IndexRecords, DBs
<1> HIDE DEF rec
<1>4. /\ idx' \in Seq(IndexRecords) /\ Len(idx') = Len(idx) + 1
      /\ idx'[Len(idx) + 1] = rec
      /\ \A j \in 1..Len(idx) : idx'[j] = idx[j]
    <2> DEFINE i == db[p].off
    <2>1. idx \in Seq(IndexRecords) /\ i = Len(idx) + 1
        BY <1>0, <1>2 DEF FileTypes
    <2>2. idx' = WriteAt(idx, i, rec)
        BY <1>1
    <2>3. rec \in IndexRecords
        BY <1>3
    <2> HIDE DEF i
    <2>4. WriteAt(idx, i, rec) = Append(idx, rec)
        BY <2>1, <2>3, WriteAtEnd
    <2>5. idx' = Append(idx, rec)
        BY <2>2, <2>4
    <2> QED BY <2>1, <2>3, <2>5, AppendProperties
<1>5. DOMAIN idx' = 1..(Len(idx) + 1)
    BY <1>4, LenProperties
<1>6. \A i \in DOMAIN idx' :
          \/ i \in DOMAIN idx /\ idx'[i] = idx[i]
          \/ i = Len(idx) + 1 /\ idx'[i] = rec
    BY <1>0, <1>4, <1>5
<1>7. \A i \in DOMAIN idx : idx[i].datoff # db[p].datoff
    BY <1>1 DEF FileInv, Fresh, Appended
<1>8. FilesSound'
    <2>1. NoDangling'
        <3>1. \A h \in Heads : table'[h] <= Len(idx')
            BY <1>0, <1>1, <1>4 DEF NoDangling, FileTypes
        <3>2. \A i \in DOMAIN idx' : idx'[i].ptr <= Len(idx')
            <4>1. \A i \in DOMAIN idx : idx[i].ptr \in Nat /\ idx[i].ptr <= Len(idx)
                BY <1>0, SeqFacts DEF NoDangling, IndexRecords
            <4>2. rec.ptr \in Nat /\ rec.ptr <= Len(idx)
                BY <1>0, <1>2, <1>3 DEF DBs
            <4> QED BY <1>0, <1>4, <1>6, <4>1, <4>2
        <3>3. \A i \in DOMAIN idx' : idx'[i].datoff \in DOMAIN dat'
            BY <1>0, <1>1, <1>2, <1>3, <1>6 DEF NoDangling
        <3> QED BY <3>1, <3>2, <3>3 DEF NoDangling
    <2>2. DataNotShared'
        BY <1>0, <1>3, <1>6, <1>7 DEF DataNotShared
    <2> QED BY <1>0, <1>1, <1>4, <2>1, <2>2 DEF FilesSound, FileTypes
<1>9. FilesGrow(p)
    <2>1. Len(idx) <= Len(idx') /\ Len(dat') = Len(dat)
        BY <1>0, <1>1, <1>4
    <2>2. \A i \in DOMAIN idx : idx'[i].datoff = idx[i].datoff
        BY <1>0, <1>4
    <2>3. idx'[Len(idx) + 1].datoff = db[p].datoff
        BY <1>3, <1>4
    <2> QED BY <1>0, <1>1, <1>4, <2>1, <2>2, <2>3 DEF FilesGrow
<1>10. pc'[p] = "link" /\ \A q \in Procs \ {p} : pc'[q] = pc[q]
    BY <1>0, <1>1
<1>11. AppendsOrHas(p)
    BY <1>10 DEF AppendsOrHas, Appended
<1>12. Handle(p)'
    BY <1>0, <1>1, <1>2, <1>5, <1>10 DEF Handle
<1> QED BY <1>0, <1>1, <1>8, <1>9, <1>10, <1>11, <1>12, FileStep

(***************************************************************************)
(* The theorems.                                                            *)
(***************************************************************************)
LEMMA FileInvInit == Init => FileInv
<1> SUFFICES ASSUME Init PROVE FileInv
    OBVIOUS
<1>1. FileTypes
    BY EmptySeq DEF Init, FileTypes, DBs, InitDB, Heads
<1>2. DOMAIN idx = {}
    BY DEF Init
<1>3. NoDangling /\ DataNotShared
    BY <1>2 DEF Init, NoDangling, DataNotShared
<1>4. \A p \in Procs : Handle(p) /\ Fresh(p)
    BY DEF Init, Handle, Fresh, Appended
<1> QED BY <1>1, <1>3, <1>4 DEF FileInv

LEMMA FileInvStep == LockInv /\ FileInv /\ [Next]_vars => FileInv'
<1> SUFFICES ASSUME LockInv, FileInv, [Next]_vars
             PROVE  FileInv'
    OBVIOUS
<1>1. CASE UNCHANGED vars
    BY <1>1 DEF vars, FileInv, FileTypes, NoDangling, DataNotShared, Handle,
       LinkOK, Fresh, Appended
<1>2. ASSUME NEW p \in Procs, Call(p) \/ Rewind(p) \/ Step(p) \/ Kill(p)
      PROVE  FileInv'
    BY <1>2, FindSteps, FreeListSteps, SeekSteps, NextrecSteps, CallSteps,
       PointerSteps, RecordSteps, AppendDataStep, AppendIndexStep DEF Step
<1> QED BY <1>1, <1>2 DEF Next

LEMMA FileInvAlways == Spec => []FileInv
BY LocksHeld, FileInvInit, FileInvStep, PTL DEF Spec

\* Every chain pointer and every data offset in the files leads to a record
\* that exists: _db_readidx and _db_readdat never read behind the end of a
\* file, whatever other processes do and whichever of them die.
THEOREM PointersLead == Spec => []NoDangling
<1>1. FileInv => NoDangling
    BY DEF FileInv
<1> QED BY <1>1, FileInvAlways, PTL

\* No two index records share a data record: the separate appends of
\* _db_writedat and _db_writeidx never mix up the records of two processes.
THEOREM DataApart == Spec => []DataNotShared
<1>1. FileInv => DataNotShared
    BY DEF FileInv
<1> QED BY <1>1, FileInvAlways, PTL

\* Type correctness of the database library.
THEOREM TypeCorrect == Spec => []TypeOK
<1>1. FileInv /\ LockInv => TypeOK
    BY DEF FileInv, FileTypes, LockInv, LockTables, Matched, TypeOK
<1> QED BY <1>1, FileInvAlways, LocksHeld, PTL
================================================================================
