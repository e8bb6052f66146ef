------------------------------ MODULE DbScanProofs ------------------------------
(***************************************************************************)
(* Proofs about sequential scans of the database (module DbScan), for any   *)
(* number of processes, chains, keys, data and calls.                       *)
(*                                                                          *)
(* A scan sees the records in the order of the file, so what it owes its    *)
(* caller can be read off the file offset: of the records that stayed where *)
(* they are, those in front of it have been returned (Passed), and none     *)
(* behind it has (Ahead).  The scan holds the lock of the free list for one *)
(* call only; between two calls every other process may change the files,   *)
(* so both are stated for the records that stayed, by their numbers.        *)
(***************************************************************************)
EXTENDS DbMapProofs, DbScan

\* A scan is a sequence of calls of the library.
LEMMA ScanStep == ASSUME [SNext]_svars PROVE [Next]_vars
BY DEF SNext, svars, StartScan, Next

LEMMA ScanCalls == SSpec => Spec
<1>1. SInit => Init
    BY DEF SInit
<1>2. [SNext]_svars => [Next]_vars
    BY ScanStep
<1> QED BY <1>1, <1>2, PTL DEF SSpec, Spec

\* The record of a key has that key.
LEMMA RecordOfKey ==
    ASSUME FileInv, Facts, NEW k \in Keys, RecordOf(k) # 0
    PROVE  /\ RecordOf(k) \in DOMAIN idx /\ idx[RecordOf(k)].key = k /\ k # Blank
           /\ RecordOf(k) \in 1..Len(idx) /\ Len(idx) \in Nat
           /\ Current(k, RecordOf(k))
<1> DEFINE S == {i \in ChainRecords(Hash[k]) : idx[i].key = k}
<1>1. RecordOf(k) = IF S = {} THEN 0 ELSE CHOOSE i \in S : TRUE
    BY DEF RecordOf
<1>2. \A i \in S : i \in DOMAIN idx /\ Current(k, i) /\ idx[i].key = k
    BY DbAssumption DEF Facts, ChainFacts, Current
<1>3. Len(idx) \in Nat /\ DOMAIN idx = 1..Len(idx)
    BY SeqFacts DEF FileInv
<1> HIDE DEF S
<1>4. RecordOf(k) \in S
    BY <1>1
<1> QED BY <1>2, <1>3, <1>4, DbAssumption

-----------------------------------------------------------------------------
(* What a step leaves of the histories of the scans.                        *)

\* The result of a call changes for the process that moves alone.
LEMMA ResultMoves ==
    ASSUME NEW p \in Procs, Call(p) \/ Rewind(p) \/ Step(p) \/ Kill(p)
    PROVE  ret' = ret \/ \E x : ret' = [ret EXCEPT ![p] = x]
<1>1. CASE Call(p) \/ Rewind(p) \/ Kill(p)
    BY <1>1 DEF Call, Rewind, Kill, End
<1>2. CASE FindAndLock(p) \/ FindNext(p) \/ Found(p) \/ NotFound(p) \/ ReadData(p)
           \/ Overwrite(p) \/ Return(p)
    BY <1>2 DEF FindAndLock, FindNext, Found, NotFound, ReadData, Overwrite, Return, Result
<1>3. CASE DeleteData(p) \/ DeleteIndex(p) \/ DeleteFree(p) \/ DeleteUnlink(p)
           \/ ReadChainHead(p)
    BY <1>3 DEF DeleteData, DeleteIndex, DeleteFree, DeleteUnlink, ReadChainHead, Result
<1>4. CASE FreeLock(p) \/ FreeNext(p) \/ FreeFound(p) \/ FreeTake(p) \/ FreeNone(p)
           \/ ReuseData(p) \/ ReuseIndex(p)
    BY <1>4 DEF FreeLock, FreeNext, FreeFound, FreeTake, FreeNone, ReuseData, ReuseIndex
<1>5. CASE AppendSeekData(p) \/ AppendData(p) \/ AppendSeekIndex(p) \/ AppendIndex(p)
           \/ Link(p) \/ LinkQuit(p)
    BY <1>5 DEF AppendSeekData, AppendData, AppendSeekIndex, AppendIndex, Link, LinkQuit,
       End, Result
<1>6. CASE NextLock(p) \/ NextSkip(p) \/ NextFound(p) \/ NextEOF(p) \/ NextData(p)
           \/ NextDump(p) \/ NextReturn(p)
    BY <1>6 DEF NextLock, NextSkip, NextFound, NextEOF, NextData, NextDump, NextReturn,
       End, Result
<1> QED BY <1>1, <1>2, <1>3, <1>4, <1>5, <1>6 DEF Step

\* As long as the chains keep their records, a key keeps its record.
LEMMA RecordStays ==
    ASSUME \A c \in Chains : ChainRecords(c)' = ChainRecords(c), idx' = idx, NEW k \in Keys
    PROVE  RecordOf(k)' = RecordOf(k)
<1> DEFINE R == ChainRecords(Hash[k])
           S == {i \in R : idx[i].key = k}
<1>1. R' = R
    BY DbAssumption
<1> HIDE DEF R
<1>2. S' = S
    BY <1>1
<1>3. RecordOf(k) = IF S = {} THEN 0 ELSE CHOOSE i \in S : TRUE
    BY DEF RecordOf, R
<1>4. RecordOf(k)' = IF S' = {} THEN 0 ELSE CHOOSE i \in S' : TRUE
    BY DEF RecordOf, R
<1> HIDE DEF S
<1> QED BY <1>2, <1>3, <1>4

\* The step of a process, as the scans record it.
Recorded ==
    /\ seen' = [p \in Procs |->
                   IF NextData(p) THEN seen[p] \cup {db[p].key} ELSE seen[p]]
    /\ still' = [p \in Procs |->
                    IF Call(p) /\ req'[p].op # "nextrec"
                      THEN {}
                      ELSE still[p] \cap Unmoved]

Remembers(q) ==
    /\ still'[q] \subseteq still[q]
    /\ \A k \in still'[q] : k \in Keys /\ RecordOf(k) # 0 /\ RecordOf(k)' = RecordOf(k)
    /\ seen'[q] = IF NextData(q) THEN seen[q] \cup {db[q].key} ELSE seen[q]
    /\ Call(q) /\ req'[q].op # "nextrec" => still'[q] = {}

LEMMA HistoryKept ==
    ASSUME Recorded, NEW q \in Procs
    PROVE  Remembers(q)
<1>1. still'[q] \subseteq still[q] \cap Unmoved
    BY DEF Recorded
<1>2. seen'[q] = IF NextData(q) THEN seen[q] \cup {db[q].key} ELSE seen[q]
    BY DEF Recorded
<1>3. Call(q) /\ req'[q].op # "nextrec" => still'[q] = {}
    BY DEF Recorded
<1> QED BY <1>1, <1>2, <1>3 DEF Remembers, Unmoved, Stored

\* Only the process that moves returns a record.
LEMMA OthersWait ==
    ASSUME NEW p \in Procs, StandStill(p), NEW q \in Procs \ {p},
           pc \in [Procs -> {"idle"} \cup InCall \cup Ended]
    PROVE  ~NextData(q)
<1>1. pc'[q] = pc[q]
    BY DEF StandStill
<1> QED BY <1>1 DEF NextData, Goto

-----------------------------------------------------------------------------
(* What has been passed.                                                    *)

\* Of the records that stayed, those in front of the file offset have been
\* returned, but for the one just read; a scan that ended has returned all.
Passed(p) ==
    /\ \A k \in still[p] :
          /\ k \in Keys /\ RecordOf(k) # 0
          /\ RecordOf(k) < db[p].pos =>
                k \in seen[p] \/ (pc[p] = "n_dat" /\ db[p].key = k)
    /\ pc[p] \in KeyedCall => still[p] = {}
    /\ pc[p] = "n_dat" => db[p].key \in Keys
    /\ pc[p] = "n_unlock" /\ ret[p] = None => still[p] \subseteq seen[p]
    /\ pc[p] \in {"idle", "n_lock", "n_idx", "n_dat"} \cup Ended => ret[p] = Unset

Histories ==
    /\ ret = [p \in Procs |-> ret[p]]
    /\ seen = [p \in Procs |-> seen[p]]
    /\ still = [p \in Procs |-> still[p]]

ScanInv == Histories /\ \A p \in Procs : Passed(p)

LEMMA ScanInvInit == SInit => ScanInv
BY DEF SInit, Init, ScanInv, Histories, Passed, KeyedCall

LEMMA StillPassed ==
    ASSUME NEW q, Passed(q), Remembers(q), ~NextData(q),
           pc'[q] = pc[q], db'[q] = db[q], ret'[q] = ret[q]
    PROVE  Passed(q)'
BY DEF Passed, Remembers

\* A call with a key has no scan; where it ends, nothing is left of its result.
LEMMA KeyedPassed ==
    ASSUME NEW p, Passed(p), Remembers(p),
           pc[p] \in KeyedCall, pc'[p] \in KeyedCall \cup {"idle"} \cup Ended,
           pc'[p] \notin KeyedCall => ret'[p] = Unset
    PROVE  Passed(p)'
<1>1. still'[p] = {}
    BY DEF Passed, Remembers
<1>2. pc'[p] \notin {"n_lock", "n_idx", "n_dat", "n_unlock"}
    BY DEF KeyedCall, Ended
<1>3. pc'[p] \in {"idle", "n_lock", "n_idx", "n_dat"} \cup Ended => ret'[p] = Unset
    BY <1>2 DEF KeyedCall, Ended
<1> QED BY <1>1, <1>2, <1>3 DEF Passed

LEMMA KeyedScan ==
    ASSUME LockInv, ret = [q \in Procs |-> ret[q]], NEW p \in Procs, Passed(p), Remembers(p),
           Step(p) \/ Kill(p), pc[p] \in KeyedCall
    PROVE  Passed(p)'
<1>0. pc \in [Procs -> {"idle"} \cup InCall \cup Ended]
    BY DEF LockInv
<1>1. CASE Return(p) \/ LinkQuit(p) \/ Kill(p)
    <2>1. pc'[p] \in {"idle"} \cup Ended /\ ret'[p] = Unset
        BY <1>0, <1>1 DEF Return, LinkQuit, Kill, End, Goto, Ended
    <2> QED BY <2>1, KeyedPassed
<1>2. CASE FindAndLock(p) \/ FindNext(p) \/ Found(p) \/ NotFound(p) \/ ReadData(p)
           \/ Overwrite(p)
    <2>1. pc'[p] \in KeyedCall
        BY <1>0, <1>2 DEF FindAndLock, FindNext, Found, NotFound, ReadData, Overwrite, Goto,
           KeyedCall
    <2> QED BY <2>1, KeyedPassed
<1>3. CASE DeleteData(p) \/ DeleteIndex(p) \/ DeleteFree(p) \/ DeleteUnlink(p)
           \/ ReadChainHead(p) \/ FreeLock(p) \/ FreeNext(p) \/ FreeFound(p)
    <2>1. pc'[p] \in KeyedCall
        BY <1>0, <1>3 DEF DeleteData, DeleteIndex, DeleteFree, DeleteUnlink, ReadChainHead,
           FreeLock, FreeNext, FreeFound, Goto, KeyedCall
    <2> QED BY <2>1, KeyedPassed
<1>4. CASE FreeTake(p) \/ FreeNone(p) \/ ReuseData(p) \/ ReuseIndex(p) \/ AppendSeekData(p)
           \/ AppendData(p) \/ AppendSeekIndex(p) \/ AppendIndex(p) \/ Link(p)
    <2>1. pc'[p] \in KeyedCall
        BY <1>0, <1>4 DEF FreeTake, FreeNone, ReuseData, ReuseIndex, AppendSeekData,
           AppendData, AppendSeekIndex, AppendIndex, Link, Goto, KeyedCall
    <2> QED BY <2>1, KeyedPassed
<1>5. CASE NextLock(p) \/ NextSkip(p) \/ NextFound(p) \/ NextEOF(p) \/ NextData(p)
           \/ NextDump(p) \/ NextReturn(p)
    BY <1>5 DEF NextLock, NextSkip, NextFound, NextEOF, NextData, NextDump, NextReturn,
       KeyedCall
<1> QED BY <1>1, <1>2, <1>3, <1>4, <1>5 DEF Step


LEMMA CallScan ==
    ASSUME LockInv, ret = [q \in Procs |-> ret[q]], NEW p \in Procs, Passed(p), Remembers(p),
           Call(p)
    PROVE  Passed(p)'
<1>1. /\ pc[p] = "idle" /\ ret' = ret /\ db' = db /\ ret[p] = Unset
      /\ seen'[p] = seen[p]
    BY DEF Call, Passed, Remembers, NextData
<1>2. PICK r \in Requests : /\ req' = [req EXCEPT ![p] = r]
                            /\ Goto(p, IF r.op = "nextrec" THEN "n_lock" ELSE "find")
    BY DEF Call
<1>3. pc'[p] = (IF r.op = "nextrec" THEN "n_lock" ELSE "find") /\ req'[p] = r
    BY <1>2 DEF LockInv, Goto
<1>4. CASE r.op = "nextrec"
    BY <1>1, <1>3, <1>4 DEF Passed, Remembers, KeyedCall
<1>5. CASE r.op # "nextrec"
    <2>1. still'[p] = {}
        BY <1>3, <1>5 DEF Remembers
    <2> QED BY <1>1, <1>3, <1>5, <2>1 DEF Passed, Ended
<1> QED BY <1>4, <1>5

\* A process that ends mid-scan would begin anew.
LEMMA EndScan ==
    ASSUME LockInv, FileInv, Facts, ret = [q \in Procs |-> ret[q]],
           NEW p \in Procs, Passed(p), Remembers(p), NextDump(p) \/ Kill(p)
    PROVE  Passed(p)'
<1>1. pc \in [Procs -> {"idle"} \cup InCall \cup Ended] /\ db \in [Procs -> DBs]
    BY DEF LockInv, FileInv, FileTypes
<1>2. pc'[p] \in Ended /\ ret'[p] = Unset /\ db'[p].pos = 1
    BY <1>1 DEF NextDump, Kill, End, Goto, Ended, InitDB
<1>3. \A k \in still'[p] : k \in Keys /\ RecordOf(k)' # 0 /\ ~(RecordOf(k)' < 1)
    <2> TAKE k \in still'[p]
    <2>1. k \in Keys /\ RecordOf(k) # 0 /\ RecordOf(k)' = RecordOf(k)
        BY DEF Remembers
    <2>2. RecordOf(k) \in 1..Len(idx) /\ Len(idx) \in Nat
        BY <2>1, RecordOfKey
    <2> QED BY <2>1, <2>2
<1>4. pc'[p] \notin KeyedCall \cup {"n_dat", "n_unlock"}
    BY <1>2 DEF KeyedCall, Ended
<1> QED BY <1>2, <1>3, <1>4 DEF Passed

\* The steps of db_nextrec: a record that has a key is not stepped over, one
\* that was read is returned, and none is behind the end of the file.
LEMMA NextScan ==
    ASSUME LockInv, FileInv, Facts, ret = [q \in Procs |-> ret[q]],
           NEW p \in Procs, Passed(p), Remembers(p),
           \/ NextLock(p) \/ NextSkip(p) \/ NextFound(p) \/ NextEOF(p) \/ NextData(p)
           \/ NextReturn(p)
    PROVE  Passed(p)'
<1>1. /\ pc \in [Procs -> {"idle"} \cup InCall \cup Ended] /\ db \in [Procs -> DBs]
      /\ db[p].pos \in Nat
    BY DEF LockInv, FileInv, FileTypes, DBs
<1>2. \A k \in still'[p] : /\ k \in still[p] /\ k \in Keys /\ k # Blank
                           /\ RecordOf(k) # 0 /\ RecordOf(k)' = RecordOf(k)
                           /\ RecordOf(k) \in 1..Len(idx) /\ Len(idx) \in Nat
                           /\ RecordOf(k) \in DOMAIN idx /\ idx[RecordOf(k)].key = k
    <2> TAKE k \in still'[p]
    <2>1. k \in still[p] /\ k \in Keys /\ RecordOf(k) # 0 /\ RecordOf(k)' = RecordOf(k)
        BY DEF Remembers
    <2> QED BY <2>1, RecordOfKey
<1>3. CASE NextLock(p)
    <2>1. pc[p] = "n_lock" /\ pc'[p] = "n_idx" /\ db' = db /\ ret' = ret /\ ~NextData(p)
        BY <1>1, <1>3 DEF NextLock, NextData, Goto
    <2> QED BY <2>1 DEF Passed, Remembers, KeyedCall
<1>4. CASE NextSkip(p)
    <2>1. /\ pc[p] = "n_idx" /\ pc'[p] = "n_idx" /\ ret' = ret /\ ~NextData(p)
          /\ idx[db[p].pos].key = Blank /\ db'[p].pos = db[p].pos + 1
        BY <1>1, <1>4 DEF NextSkip, NextData, PosAfter
    <2>2. \A k \in still'[p] : RecordOf(k)' < db'[p].pos => RecordOf(k) < db[p].pos
        BY <1>1, <1>2, <2>1
    <2>3. seen'[p] = seen[p]
        BY <2>1 DEF Remembers
    <2> QED BY <1>2, <2>1, <2>2, <2>3 DEF Passed, KeyedCall
<1>5. CASE NextFound(p)
    <2>1. /\ pc[p] = "n_idx" /\ pc'[p] = "n_dat" /\ ret' = ret /\ ~NextData(p)
          /\ db[p].pos \in DOMAIN idx /\ idx[db[p].pos].key # Blank
          /\ db'[p].pos = db[p].pos + 1 /\ db'[p].key = idx[db[p].pos].key
        BY <1>1, <1>5 DEF NextFound, NextData, PosAfter, Goto
    <2>2. \A k \in still'[p] : RecordOf(k)' < db'[p].pos =>
              RecordOf(k) < db[p].pos \/ k = db'[p].key
        BY <1>1, <1>2, <2>1
    <2>3. seen'[p] = seen[p]
        BY <2>1 DEF Remembers
    <2>4. db'[p].key \in Keys
        <3>1. idx[db[p].pos] \in IndexRecords
            BY <2>1, SeqFacts DEF FileInv
        <3> QED BY <2>1, <3>1 DEF IndexRecords
    <2> QED BY <1>2, <2>1, <2>2, <2>3, <2>4 DEF Passed, KeyedCall
<1>6. CASE NextEOF(p)
    <2>1. /\ pc[p] = "n_idx" /\ pc'[p] = "n_unlock" /\ db' = db /\ ~NextData(p)
          /\ db[p].pos > Len(idx)
        BY <1>1, <1>6 DEF NextEOF, NextData, Goto
    <2>2. \A k \in still'[p] : RecordOf(k) < db[p].pos
        BY <1>1, <1>2, <2>1
    <2>3. seen'[p] = seen[p]
        BY <2>1 DEF Remembers
    <2>4. still'[p] \subseteq seen'[p]
        BY <1>2, <2>1, <2>2, <2>3 DEF Passed
    <2> QED BY <1>2, <2>1, <2>4 DEF Passed, KeyedCall, Ended
<1>7. CASE NextData(p)
    <2>1. /\ pc[p] = "n_dat" /\ pc'[p] = "n_unlock" /\ db' = db
          /\ ret'[p] = <<db[p].key, dat[db[p].datoff]>>
        BY <1>1, <1>7 DEF NextData, Goto, Result
    <2>2. seen'[p] = seen[p] \cup {db[p].key}
        BY <1>7 DEF Remembers
    <2>3. \A k \in still'[p] : RecordOf(k)' < db'[p].pos => k \in seen'[p]
        BY <1>2, <2>1, <2>2 DEF Passed
    <2>4. ret'[p] # None
        <3>1. db[p].key \in Keys /\ db[p].datoff \in DOMAIN dat
            BY <2>1 DEF Passed, FileInv, Handle
        <3>2. dat[db[p].datoff] \in Data \cup {Blank}
            BY <3>1, SeqFacts DEF FileInv
        <3> QED BY <2>1, <3>1, <3>2, DbAssumption
    <2> QED BY <1>2, <2>1, <2>3, <2>4 DEF Passed, KeyedCall, Ended
<1>8. CASE NextReturn(p)
    <2>1. /\ pc[p] = "n_unlock" /\ pc'[p] = "idle" /\ ret'[p] = Unset /\ ~NextData(p)
          /\ db'[p].pos = db[p].pos
        BY <1>1, <1>8 DEF NextReturn, NextData, Goto, InitDB
    <2>2. seen'[p] = seen[p]
        BY <2>1 DEF Remembers
    <2> QED BY <1>2, <2>1, <2>2 DEF Passed, KeyedCall
<1> QED BY <1>3, <1>4, <1>5, <1>6, <1>7, <1>8

\* The whole invariant from its parts.
LEMMA ScanTogether ==
    ASSUME LockInv, ScanInv, NEW p \in Procs, StandStill(p),
           Call(p) \/ Step(p) \/ Kill(p), Recorded,
           Passed(p)'
    PROVE  ScanInv'
<1>1. Histories' /\ \A q \in Procs \ {p} : ret'[q] = ret[q]
    <2>1. ret' = [q \in Procs |-> ret'[q]] /\ \A q \in Procs \ {p} : ret'[q] = ret[q]
        BY ResultMoves DEF ScanInv, Histories
    <2>2. seen' = [q \in Procs |-> seen'[q]]
        BY DEF Recorded
    <2>3. still' = [q \in Procs |-> still'[q]]
        BY DEF Recorded
    <2> QED BY <2>1, <2>2, <2>3 DEF Histories
<1>2. \A q \in Procs \ {p} : Passed(q)'
    <2> TAKE q \in Procs \ {p}
    <2>1. pc'[q] = pc[q] /\ db'[q] = db[q] /\ ret'[q] = ret[q] /\ ~NextData(q)
        BY <1>1, OthersWait DEF StandStill, LockInv
    <2> QED BY <2>1, HistoryKept, StillPassed DEF ScanInv
<1> QED BY <1>1, <1>2 DEF ScanInv

LEMMA RewindScan ==
    ASSUME LockInv, LockInv', FileInv, FileInv', ListInv, Facts, ScanInv, NoKillDeleting,
           NEW p \in Procs, StartScan(p)
    PROVE  ScanInv'
<1>1. /\ Rewind(p) /\ pc' = pc /\ ret' = ret /\ idx' = idx /\ pc[p] = "idle"
      /\ seen' = [seen EXCEPT ![p] = {}] /\ still' = [still EXCEPT ![p] = Stored]
    BY DEF StartScan, Rewind
<1>2. \A k \in Keys : RecordOf(k)' = RecordOf(k)
    BY <1>1, ChainsStay, RecordStays
<1>3. \A q \in Procs \ {p} : Passed(q)'
    <2> TAKE q \in Procs \ {p}
    <2>1. db'[q] = db[q]
        BY <1>1 DEF Rewind, FileInv, FileTypes
    <2>2. seen'[q] = seen[q] /\ still'[q] = still[q]
        BY <1>1
    <2> QED BY <1>1, <1>2, <2>1, <2>2 DEF ScanInv, Passed
<1>4. Passed(p)'
    <2>1. db'[p].pos = 1
        BY <1>1 DEF Rewind, FileInv, FileTypes, DBs
    <2>2. still'[p] \subseteq Stored
        BY <1>1 DEF ScanInv, Histories
    <2>3. \A k \in Stored : /\ k \in Keys /\ RecordOf(k) # 0 /\ RecordOf(k)' = RecordOf(k)
                            /\ RecordOf(k) \in 1..Len(idx) /\ Len(idx) \in Nat
        BY <1>2, RecordOfKey DEF Stored
    <2>4. \A k \in still'[p] : k \in Keys /\ RecordOf(k)' # 0 /\ ~(RecordOf(k)' < 1)
        BY <2>2, <2>3
    <2> QED BY <1>1, <2>1, <2>4 DEF ScanInv, Passed, KeyedCall
<1>5. Histories'
    BY <1>1 DEF ScanInv, Histories
<1> QED BY <1>3, <1>4, <1>5 DEF ScanInv

LEMMA ScanInvStep ==
    ASSUME LockInv, LockInv', FileInv, FileInv', ListInv, Facts, NoKillDeleting
    PROVE  ScanInv /\ [SNext]_svars => ScanInv'
<1> SUFFICES ASSUME ScanInv, [SNext]_svars
             PROVE  ScanInv'
    OBVIOUS
<1>1. CASE UNCHANGED svars
    <2>1. \A k \in Keys : RecordOf(k)' = RecordOf(k)
        <3>1. \A c \in Chains : ChainRecords(c)' = ChainRecords(c)
            BY <1>1 DEF svars, vars, ChainRecords, Nth, ChainPtrs, ChainPtr, ReadPtr, Places,
               BeingDeleted, Deleting
        <3> QED BY <1>1, <3>1, RecordStays DEF svars, vars
    <2>2. Histories'
        BY <1>1 DEF svars, vars, ScanInv, Histories
    <2> QED BY <1>1, <2>1, <2>2 DEF svars, vars, ScanInv, Passed
<1>2. CASE \E p \in Procs : StartScan(p)
    BY <1>2, RewindScan
<1>3. ASSUME NEW p \in Procs, Call(p) \/ Step(p) \/ Kill(p), Recorded
      PROVE  ScanInv'
    <2>1. StandStill(p) /\ \A q \in Procs : Remembers(q)
        BY <1>3, OneAtATime, HistoryKept
    <2>2. ret = [q \in Procs |-> ret[q]] /\ Passed(p) /\ Remembers(p)
        BY <2>1 DEF ScanInv, Histories
    <2>3. Passed(p)'
        <3>1. CASE Call(p)
            BY <2>2, <3>1, CallScan
        <3>2. CASE NextDump(p) \/ Kill(p)
            BY <2>2, <3>2, EndScan
        <3>3. CASE \/ NextLock(p) \/ NextSkip(p) \/ NextFound(p) \/ NextEOF(p) \/ NextData(p)
                   \/ NextReturn(p)
            BY <2>2, <3>3, NextScan
        <3>4. CASE pc[p] \in KeyedCall /\ (Step(p) \/ Kill(p))
            BY <2>2, <3>4, KeyedScan
        <3>5. ASSUME Step(p), pc[p] \notin KeyedCall
              PROVE  \/ NextLock(p) \/ NextSkip(p) \/ NextFound(p) \/ NextEOF(p) \/ NextData(p)
                     \/ NextDump(p) \/ NextReturn(p)
            BY <3>5 DEF Step, KeyedCall, FindAndLock, FindNext, Found, NotFound, ReadData,
               Overwrite, Return, DeleteData, DeleteIndex, DeleteFree, DeleteUnlink,
               ReadChainHead, FreeLock, FreeNext, FreeFound, FreeTake, FreeNone, ReuseData,
               ReuseIndex, AppendSeekData, AppendData, AppendSeekIndex, AppendIndex, Link,
               LinkQuit
        <3> QED BY <1>3, <3>1, <3>2, <3>3, <3>4, <3>5
    <2> QED BY <1>3, <2>1, <2>3, ScanTogether
<1> QED BY <1>1, <1>2, <1>3 DEF SNext, Recorded

LEMMA ScanInvAlways == ASSUME NoKillDeleting PROVE SSpec => []ScanInv
<1>1. SInit => ScanInv
    BY ScanInvInit
<1>2. LockInv /\ LockInv' /\ FileInv /\ FileInv' /\ ListInv /\ ScanInv /\ [SNext]_svars
        => ScanInv'
    BY FactsHold, ScanInvStep
<1>3. Spec => []LockInv /\ []FileInv /\ []ListInv
    BY LocksHeld, FileInvAlways, ListInvAlways, PTL
<1> QED BY <1>1, <1>2, <1>3, ScanCalls, PTL DEF SSpec

\* A scan that reaches the end of the index file has returned every record
\* that existed when it began and was not deleted or moved since, whatever the
\* other processes store and delete meanwhile, for any number of processes,
\* chains, keys, data and calls (db_nextrec, db.c:829-869).
THEOREM NothingMissed == ASSUME NoKillDeleting PROVE SSpec => []ScanMissesNothing
<1>1. LockInv /\ ScanInv => ScanMissesNothing
    <2> SUFFICES ASSUME LockInv, ScanInv, NEW p \in Procs, Scanning(p), ret[p] = None
                 PROVE  still[p] \subseteq seen[p]
        BY DEF ScanMissesNothing
    <2>1. Unset # None
        BY DbAssumption
    <2>2. /\ pc[p] \in InCall \cup Ended /\ pc[p] \notin {"n_lock", "n_idx", "n_dat"} \cup Ended
          /\ pc[p] \in KeyedCall => Op(p) # "nextrec"
        BY <2>1 DEF LockInv, Matched, Scanning, ScanInv, Passed
    <2>3. pc[p] = "n_unlock"
        BY <2>2 DEF Scanning, InCall, NextCall
    <2> QED BY <2>3 DEF ScanInv, Passed
<1>2. SSpec => []LockInv /\ []ScanInv
    BY LocksHeld, ScanInvAlways, ScanCalls, PTL
<1> QED BY <1>1, <1>2, PTL

-----------------------------------------------------------------------------
(* What a scan reads is no deleted record's.                                *)

\* A call of db_nextrec comes to its end by reading a record, or the end.
LEMMA ComesToEnd ==
    ASSUME LockInv, NEW p \in Procs, Call(p) \/ Rewind(p) \/ Step(p) \/ Kill(p),
           pc'[p] = "n_unlock"
    PROVE  NextEOF(p) \/ NextData(p)
<1>0. pc \in [Procs -> {"idle"} \cup InCall \cup Ended]
    BY DEF LockInv
<1>1. ~Call(p) /\ ~Rewind(p) /\ ~Kill(p)
    BY <1>0 DEF Call, Rewind, Kill, End, Goto
<1>2. ~(FindAndLock(p) \/ FindNext(p) \/ Found(p) \/ NotFound(p) \/ ReadData(p)
        \/ Overwrite(p) \/ Return(p))
    BY <1>0 DEF FindAndLock, FindNext, Found, NotFound, ReadData, Overwrite, Return, Goto
<1>3. ~(DeleteData(p) \/ DeleteIndex(p) \/ DeleteFree(p) \/ DeleteUnlink(p)
        \/ ReadChainHead(p) \/ FreeLock(p) \/ FreeNext(p) \/ FreeFound(p))
    BY <1>0 DEF DeleteData, DeleteIndex, DeleteFree, DeleteUnlink, ReadChainHead,
       FreeLock, FreeNext, FreeFound, Goto
<1>4. ~(FreeTake(p) \/ FreeNone(p) \/ ReuseData(p) \/ ReuseIndex(p) \/ AppendSeekData(p)
        \/ AppendData(p) \/ AppendSeekIndex(p) \/ AppendIndex(p) \/ Link(p))
    BY <1>0 DEF FreeTake, FreeNone, ReuseData, ReuseIndex, AppendSeekData,
       AppendData, AppendSeekIndex, AppendIndex, Link, Goto
<1>5. ~(LinkQuit(p) \/ NextLock(p) \/ NextSkip(p) \/ NextFound(p) \/ NextDump(p)
        \/ NextReturn(p))
    BY <1>0 DEF LinkQuit, NextLock, NextSkip, NextFound, NextDump, NextReturn, End, Goto
<1> QED BY <1>1, <1>2, <1>3, <1>4, <1>5 DEF Step

Clean(p) == pc[p] = "n_unlock" /\ ret[p] # None => ret[p][2] # Blank
CleanInv == \A p \in Procs : Clean(p)

LEMMA CleanStep ==
    ASSUME LockInv, FileInv, Facts, MapInv
    PROVE  CleanInv /\ [SNext]_svars => CleanInv'
<1> SUFFICES ASSUME CleanInv, [SNext]_svars
             PROVE  CleanInv'
    OBVIOUS
<1>1. CASE UNCHANGED svars
    BY <1>1 DEF svars, vars, CleanInv, Clean
<1>2. ASSUME NEW p \in Procs, Call(p) \/ Rewind(p) \/ Step(p) \/ Kill(p)
      PROVE  CleanInv'
    <2>1. /\ StandStill(p) /\ RetKept(p)
          /\ pc \in [Procs -> {"idle"} \cup InCall \cup Ended] /\ ret = [q \in Procs |-> ret[q]]
        BY <1>2, OneAtATime, RetStays DEF LockInv, MapInv
    <2>2. \A q \in Procs \ {p} : Clean(q)'
        BY <2>1 DEF StandStill, RetKept, CleanInv, Clean
    <2>3. CASE pc'[p] # "n_unlock"
        BY <2>2, <2>3 DEF CleanInv, Clean
    <2>4. CASE NextEOF(p)
        <3>1. ret'[p] = None
            BY <2>1, <2>4 DEF NextEOF, Result
        <3> QED BY <2>2, <3>1 DEF CleanInv, Clean
    <2>5. CASE NextData(p)
        <3>1. pc[p] = "n_dat" /\ ret'[p] = <<db[p].key, dat[db[p].datoff]>>
            BY <2>1, <2>5 DEF NextData, Result
        <3>2. dat[db[p].datoff] # Blank
            BY <3>1, ScanReads, DbAssumption
        <3>3. ret'[p][2] # Blank
            BY <3>1, <3>2
        <3> QED BY <2>2, <3>3 DEF CleanInv, Clean
    <2> QED BY <1>2, <2>3, <2>4, <2>5, ComesToEnd
<1> QED BY <1>1, <1>2 DEF SNext, StartScan

\* What db_nextrec reads after it skipped the blank records is never the data
\* of a deleted record: the lock of the free list keeps _db_dodelete out
\* between its two reads (db.c:842-869).
THEOREM NoBlankRead == ASSUME NoKillInDelete PROVE SSpec => []ScanReadsNoBlank
<1>1. SInit => CleanInv
    BY DEF SInit, Init, CleanInv, Clean
<1>2. LockInv /\ FileInv /\ ListInv /\ MapInv /\ CleanInv /\ [SNext]_svars => CleanInv'
    BY FactsHold, CleanStep
<1>3. NoKillDeleting
    BY DEF NoKillInDelete, NoKillDeleting
<1>4. Spec => []LockInv /\ []FileInv /\ []ListInv /\ []MapInv
    BY <1>3, LocksHeld, FileInvAlways, ListInvAlways, MapInvAlways, PTL
<1>5. LockInv /\ MapInv /\ ScanInv /\ CleanInv => ScanReadsNoBlank
    <2> SUFFICES ASSUME LockInv, ScanInv, CleanInv, NEW p \in Procs, Scanning(p),
                        ret[p] \notin {Unset, None}
                 PROVE  ret[p][2] # Blank
        BY DEF ScanReadsNoBlank
    <2>1. /\ pc[p] \in InCall \cup Ended /\ pc[p] \notin {"n_lock", "n_idx", "n_dat"} \cup Ended
          /\ pc[p] \in KeyedCall => Op(p) # "nextrec"
        BY DEF LockInv, Matched, Scanning, ScanInv, Passed
    <2>2. pc[p] = "n_unlock"
        BY <2>1 DEF Scanning, InCall, NextCall
    <2> QED BY <2>2 DEF CleanInv, Clean
<1>6. SSpec => []ScanInv
    BY <1>3, ScanInvAlways
<1> QED BY <1>1, <1>2, <1>4, <1>5, <1>6, ScanCalls, PTL DEF SSpec

-----------------------------------------------------------------------------
(* No record is returned twice.                                             *)

NobodyEnded == \A q \in Procs : pc[q] \notin Ended

\* The records that were returned and stayed are behind the file offset, and
\* are not the one just read.
Ahead(p) ==
    \A k \in seen[p] \cap still[p] :
        RecordOf(k) < db[p].pos /\ (pc[p] = "n_dat" => PosAfter(RecordOf(k)) # db[p].pos)

AheadInv == NobodyEnded => \A p \in Procs : Ahead(p)

\* As long as nobody ended inside a call, the record a scan read is the one
\* its key leads to: nobody stores a key that is on its chain.
LEMMA ReadsRecordOfKey ==
    ASSUME LockInv, FileInv, Facts, MapInv, NobodyEnded, NEW p \in Procs, pc[p] = "n_dat",
           NEW k \in Keys, k = db[p].key, RecordOf(k) # 0
    PROVE  db[p].pos = PosAfter(RecordOf(k))
<1>1. PICK j \in DOMAIN idx : /\ idx[j].key = k /\ k # Blank
                              /\ db[p].pos = PosAfter(j)
    BY DEF MapInv, ReadsOn
<1>2. RecordOf(k) \in ChainRecords(Hash[k]) /\ idx[RecordOf(k)].key = k /\ Hash[k] \in Chains
    BY RecordOfKey, DbAssumption DEF Current
<1>3. CASE \E c \in Chains : j \in ChainRecords(c)
    <2>1. j \in ChainRecords(Hash[k])
        BY <1>1, <1>3 DEF Facts, ChainFacts
    <2>2. j = RecordOf(k)
        BY <1>1, <1>2, <2>1 DEF Facts, ChainFacts
    <2> QED BY <1>1, <2>2
<1>4. CASE ~ \E c \in Chains : j \in ChainRecords(c)
    <2>1. PICK q \in Procs : Stores(q, j)
        BY <1>1, <1>4 DEF MapInv, Owned
    <2>2. pc[q] = "link" /\ req[q].key = k
        BY <1>1, <2>1 DEF Stores, NobodyEnded
    <2>3. \A i \in ChainRecords(Hash[k]) : idx[i].key # k
        BY <2>2 DEF Facts, PlaceFacts, Missing, Chain
    <2> QED BY <1>2, <2>3
<1> QED BY <1>3, <1>4

\* Nobody comes back.
LEMMA NobodyEndedBefore ==
    ASSUME LockInv, NEW p \in Procs, StandStill(p), Call(p) \/ Rewind(p) \/ Step(p) \/ Kill(p),
           NobodyEnded'
    PROVE  NobodyEnded
<1>1. pc[p] \notin Ended
    BY DbAssumption DEF Call, Rewind, Kill, Step, InCall, NextCall, KeyedCall, Ended,
       FindAndLock, FindNext, Found, NotFound, ReadData,
       Overwrite, Return, DeleteData, DeleteIndex, DeleteFree, DeleteUnlink,
       ReadChainHead, FreeLock, FreeNext, FreeFound, FreeTake, FreeNone, ReuseData,
       ReuseIndex, AppendSeekData, AppendData, AppendSeekIndex, AppendIndex, Link,
       LinkQuit, NextLock, NextSkip, NextFound, NextEOF, NextData, NextDump, NextReturn
<1> QED BY <1>1 DEF NobodyEnded, StandStill

LEMMA StillAhead ==
    ASSUME NEW q, Ahead(q), Remembers(q), ~NextData(q), pc'[q] = pc[q], db'[q] = db[q]
    PROVE  Ahead(q)'
BY DEF Ahead, Remembers

\* The file offset of a scan.
LEMMA OffsetMoves ==
    ASSUME LockInv, FileInv, NEW p \in Procs, Call(p) \/ Step(p),
           ~LinkQuit(p), ~NextDump(p), pc[p] \notin KeyedCall
    PROVE  /\ db[p].pos \in Nat
           /\ \/ pc'[p] # "n_dat" /\ db'[p].pos \in {db[p].pos, db[p].pos + 1}
              \/ NextFound(p) /\ db'[p].pos = db[p].pos + 1
<1>0. /\ pc \in [Procs -> {"idle"} \cup InCall \cup Ended] /\ db \in [Procs -> DBs]
      /\ db[p].pos \in Nat
    BY DEF LockInv, FileInv, FileTypes, DBs
<1>1. CASE Call(p)
    BY <1>0, <1>1 DEF Call, Goto
<1>2. CASE NextLock(p) \/ NextEOF(p) \/ NextData(p)
    BY <1>0, <1>2 DEF NextLock, NextEOF, NextData, Goto
<1>3. CASE NextSkip(p)
    BY <1>0, <1>3 DEF NextSkip, PosAfter
<1>4. CASE NextFound(p)
    <2>1. db'[p].pos = db[p].pos + 1
        BY <1>0, <1>4 DEF NextFound, PosAfter
    <2> QED BY <1>0, <1>4, <2>1
<1>5. CASE NextReturn(p)
    BY <1>0, <1>5 DEF NextReturn, Goto, InitDB
<1>6. ~(FindAndLock(p) \/ FindNext(p) \/ Found(p) \/ NotFound(p) \/ ReadData(p)
        \/ Overwrite(p) \/ Return(p) \/ DeleteData(p) \/ DeleteIndex(p) \/ DeleteFree(p)
        \/ DeleteUnlink(p) \/ ReadChainHead(p) \/ FreeLock(p) \/ FreeNext(p) \/ FreeFound(p)
        \/ FreeTake(p) \/ FreeNone(p) \/ ReuseData(p) \/ ReuseIndex(p) \/ AppendSeekData(p)
        \/ AppendData(p) \/ AppendSeekIndex(p) \/ AppendIndex(p) \/ Link(p))
    BY DEF KeyedCall, FindAndLock, FindNext, Found, NotFound, ReadData,
       Overwrite, Return, DeleteData, DeleteIndex, DeleteFree, DeleteUnlink,
       ReadChainHead, FreeLock, FreeNext, FreeFound, FreeTake, FreeNone, ReuseData,
       ReuseIndex, AppendSeekData, AppendData, AppendSeekIndex, AppendIndex, Link
<1> QED BY <1>1, <1>2, <1>3, <1>4, <1>5, <1>6 DEF Step

LEMMA MoverAhead ==
    ASSUME LockInv, FileInv, Facts, MapInv, Histories, NEW p \in Procs,
           Passed(p), Passed(p)', Ahead(p), Remembers(p),
           Call(p) \/ Step(p) \/ Kill(p), NobodyEnded, NobodyEnded'
    PROVE  Ahead(p)'
<1>1. pc \in [Procs -> {"idle"} \cup InCall \cup Ended]
    BY DEF LockInv
<1>2. ~LinkQuit(p) /\ ~NextDump(p) /\ ~Kill(p)
    BY <1>1 DEF LinkQuit, NextDump, Kill, End, Goto, NobodyEnded, Ended
<1>3. CASE pc[p] \in KeyedCall
    <2>1. still'[p] = {}
        BY <1>3 DEF Passed, Remembers
    <2> QED BY <2>1 DEF Ahead
<1>4. CASE pc[p] \notin KeyedCall
    <2>1. /\ db[p].pos \in Nat
          /\ \/ pc'[p] # "n_dat" /\ db'[p].pos \in {db[p].pos, db[p].pos + 1}
             \/ NextFound(p) /\ db'[p].pos = db[p].pos + 1
        BY <1>2, <1>4, OffsetMoves
    <2>2. ASSUME NEW k \in seen'[p] \cap still'[p]
          PROVE  /\ RecordOf(k)' = RecordOf(k) /\ RecordOf(k) \in Nat
                 /\ RecordOf(k) < db[p].pos
        <3>1. /\ k \in still[p] /\ k \in Keys /\ RecordOf(k) # 0
              /\ RecordOf(k)' = RecordOf(k)
            BY DEF Remembers
        <3>2. RecordOf(k) \in Nat
            BY <3>1, RecordOfKey
        <3>3. CASE k \in seen[p]
            BY <3>1, <3>2, <3>3 DEF Ahead
        <3>4. CASE k \notin seen[p]
            <4>1. NextData(p) /\ k = db[p].key
                BY <3>4 DEF Remembers
            <4>2. db[p].pos = PosAfter(RecordOf(k))
                BY <3>1, <4>1, ReadsRecordOfKey DEF NextData
            <4> QED BY <3>1, <3>2, <4>2 DEF PosAfter
        <3> QED BY <3>3, <3>4
    <2>3. \A k \in seen'[p] \cap still'[p] :
              /\ RecordOf(k)' < db'[p].pos
              /\ pc'[p] = "n_dat" => RecordOf(k)' + 1 # db'[p].pos
        BY <2>1, <2>2
    <2> QED BY <2>3 DEF Ahead, PosAfter
<1> QED BY <1>3, <1>4

LEMMA AheadStep ==
    ASSUME LockInv, LockInv', FileInv, FileInv', ListInv, Facts, MapInv, ScanInv, ScanInv',
           NoKillDeleting
    PROVE  AheadInv /\ [SNext]_svars => AheadInv'
<1> SUFFICES ASSUME AheadInv, [SNext]_svars, NobodyEnded'
             PROVE  \A p \in Procs : Ahead(p)'
    BY DEF AheadInv
<1>1. CASE UNCHANGED svars
    <2>1. \A k \in Keys : RecordOf(k)' = RecordOf(k)
        <3>1. \A c \in Chains : ChainRecords(c)' = ChainRecords(c)
            BY <1>1 DEF svars, vars, ChainRecords, Nth, ChainPtrs, ChainPtr, ReadPtr, Places,
               BeingDeleted, Deleting
        <3> QED BY <1>1, <3>1, RecordStays DEF svars, vars
    <2>2. NobodyEnded /\ \A p \in Procs : Ahead(p) /\ still[p] \subseteq Keys
        BY <1>1 DEF svars, vars, AheadInv, NobodyEnded, ScanInv, Passed
    <2> QED BY <1>1, <2>1, <2>2 DEF svars, vars, Ahead
<1>2. ASSUME NEW p \in Procs, StartScan(p)
      PROVE  \A q \in Procs : Ahead(q)'
    <2>1. /\ Rewind(p) /\ pc' = pc /\ idx' = idx
          /\ seen' = [seen EXCEPT ![p] = {}] /\ still' = [still EXCEPT ![p] = Stored]
          /\ NobodyEnded
        BY <1>2 DEF StartScan, Rewind, NobodyEnded
    <2>2. \A k \in Keys : RecordOf(k)' = RecordOf(k)
        BY <2>1, ChainsStay, RecordStays
    <2>3. \A q \in Procs \ {p} : Ahead(q)'
        <3> TAKE q \in Procs \ {p}
        <3>1. db'[q] = db[q] /\ seen'[q] = seen[q] /\ still'[q] = still[q]
            BY <2>1 DEF Rewind, FileInv, FileTypes
        <3>2. Ahead(q) /\ still[q] \subseteq Keys
            BY <2>1 DEF AheadInv, ScanInv, Passed
        <3> QED BY <2>1, <2>2, <3>1, <3>2 DEF Ahead
    <2>4. seen'[p] = {}
        BY <2>1 DEF ScanInv, Histories
    <2> QED BY <2>3, <2>4 DEF Ahead
<1>3. ASSUME NEW p \in Procs, Call(p) \/ Step(p) \/ Kill(p), Recorded
      PROVE  \A q \in Procs : Ahead(q)'
    <2>1. StandStill(p) /\ \A q \in Procs : Remembers(q)
        BY <1>3, OneAtATime, HistoryKept
    <2>2. NobodyEnded /\ \A q \in Procs : Ahead(q)
        BY <1>3, <2>1, NobodyEndedBefore DEF AheadInv
    <2>3. \A q \in Procs \ {p} : Ahead(q)'
        <3> TAKE q \in Procs \ {p}
        <3>1. pc'[q] = pc[q] /\ db'[q] = db[q] /\ ~NextData(q)
            BY <2>1, OthersWait DEF StandStill, LockInv
        <3> QED BY <2>1, <2>2, <3>1, StillAhead
    <2>4. Passed(p) /\ Passed(p)' /\ Histories
        BY DEF ScanInv
    <2>5. Ahead(p)'
        BY <1>3, <2>1, <2>2, <2>4, MoverAhead
    <2> QED BY <2>3, <2>5
<1> QED BY <1>1, <1>2, <1>3 DEF SNext, Recorded

\* While nobody has ended inside a call, a scan returns a key twice only if its
\* record was moved, or deleted and stored again, between (db.c:829-869).
THEOREM NothingRepeated == ASSUME NoKillInDelete PROVE SSpec => ScanRepeatsNothing
<1>1. SInit => AheadInv
    BY DEF SInit, AheadInv, Ahead
<1>2. LockInv /\ FileInv /\ ListInv /\ MapInv => Facts
    BY FactsHold
<1>3. NoKillDeleting
    BY DEF NoKillInDelete, NoKillDeleting
<1>4. (LockInv /\ LockInv' /\ FileInv /\ FileInv' /\ ListInv /\ MapInv
         /\ ScanInv /\ ScanInv' /\ AheadInv /\ [SNext]_svars)
        => AheadInv'
    BY <1>2, <1>3, AheadStep
<1>5. Spec => []LockInv /\ []FileInv /\ []ListInv /\ []MapInv
    BY <1>3, LocksHeld, FileInvAlways, ListInvAlways, MapInvAlways, PTL
<1>6. SSpec => []ScanInv
    BY <1>3, ScanInvAlways
<1>7. LockInv /\ FileInv /\ ListInv /\ MapInv /\ ScanInv /\ AheadInv
        => \A p \in Procs :
               NextData(p) /\ db[p].key \in seen[p] \cap still[p] =>
                  \E q \in Procs : pc[q] \in Ended
    <2> SUFFICES ASSUME LockInv, FileInv, ListInv, MapInv, ScanInv, AheadInv, NEW p \in Procs,
                        NextData(p), db[p].key \in seen[p] \cap still[p], NobodyEnded
                 PROVE  FALSE
        BY DEF NobodyEnded
    <2>1. PICK k : k = db[p].key
        OBVIOUS
    <2>2. pc[p] = "n_dat" /\ k \in Keys /\ RecordOf(k) # 0
        BY <2>1 DEF NextData, ScanInv, Passed
    <2>3. db[p].pos = PosAfter(RecordOf(k))
        BY <1>2, <2>1, <2>2, ReadsRecordOfKey
    <2> QED BY <2>1, <2>2, <2>3 DEF AheadInv, Ahead
<1> QED BY <1>1, <1>4, <1>5, <1>6, <1>7, ScanCalls, PTL DEF SSpec, ScanRepeatsNothing
================================================================================
