------------------------------- MODULE DbMapProofs -------------------------------
(***************************************************************************)
(* Proof that the database library is one shared map: every db_fetch,       *)
(* db_store and db_delete of module Db takes effect at one instant of the   *)
(* abstract specification KVStore.                                          *)
(*                                                                          *)
(* The map is what the chains hold (Map), so the proof stands on the lists  *)
(* of DbListProofs.  MapInv adds what the files say of the data: that the   *)
(* record a call works on is the one with its key (Aimed), that a record    *)
(* about to be linked has the data of its call (Brings), that a record on a *)
(* chain has data (DataKept) and that a record with a key that is on no     *)
(* chain is that of a store which has not finished (Owned), which is what   *)
(* db_nextrec may return.                                                   *)
(*                                                                          *)
(* The assumption NoKillInDelete excludes the crashes that the library does *)
(* not survive: between the first write of _db_dodelete and its last        *)
(* (db.c:494-520) a record is on its chain and has no data any more.        *)
(***************************************************************************)
EXTENDS DbListProofs

NoKillInDelete == KillAt \cap {"d_idx", "d_free", "d_unlink"} = {}

\* The record a call found and works on: it is on the chain, and has the key;
\* deleting it begins with its data.
Aimed(p) ==
    /\ pc[p] \in {"f_dat", "overwrite", "d_lock", "d_idx"} =>
          /\ db[p].off \in ChainRecords(Chain(p))
          /\ idx[db[p].off].key = req[p].key
          /\ idx[db[p].off].datoff = db[p].datoff
    /\ pc[p] = "d_idx" => dat[db[p].datoff] = Blank

\* The record a store is about to link: blank until it is written, and then
\* with the data of the call.
Brings(p) ==
    /\ pc[p] \in {"u_dat", "u_idx"} => idx[db[p].off].key = Blank
    /\ pc[p] \in {"u_idx", "a_idx", "a_idx_write"} => dat[db[p].datoff] = req[p].data
    /\ pc[p] = "link" => dat[idx[db[p].off].datoff] = req[p].data

\* A scan between its two reads: the record it read is still there.
ReadsOn(p) ==
    pc[p] = "n_dat" =>
        \E j \in DOMAIN idx : /\ idx[j].key = db[p].key /\ idx[j].key # Blank
                              /\ idx[j].datoff = db[p].datoff
                              /\ db[p].pos = PosAfter(j)

\* What is known of the result at each place of a call.
Undecided == {"idle", "find", "scan", "f_dat", "overwrite", "d_lock", "i_head",
    "ff_lock", "ff_scan", "ff_take", "u_dat", "u_idx", "n_lock", "n_idx", "n_dat"} \cup Ended
Replacing == {"d_idx", "d_free", "d_unlink", "r_head"}
Appending == {"a_dat", "a_dat_write", "a_idx", "a_idx_write", "link"}
Results(p) ==
    /\ pc[p] \in Undecided => ret[p] = Unset
    /\ pc[p] \in Replacing => ret[p] = "ok"
    /\ pc[p] \in Appending => ret[p] \in {Unset, "ok"}
    /\ pc[p] \in {"unlock", "n_unlock"} => ret[p] # Unset
    /\ pc[p] \in NextCall => Op(p) = "nextrec"

\* A record on a chain has its data, unless it is being deleted.
DataKept ==
    \A c \in Chains : \A i \in ChainRecords(c) :
        idx[i].key # Blank /\ dat[idx[i].datoff] = Blank =>
            \E q \in Procs : pc[q] = "d_idx" /\ db[q].off = i

\* A record with a key is on a chain, or that of a store that is about to link
\* it or was killed before it could.
Stores(q, j) ==
    /\ pc[q] \in {"link"} \cup Ended
    /\ pc[q] = "link" => db[q].off = j
    /\ IsStore(q) /\ req[q].key = idx[j].key
    /\ req[q].data = dat[idx[j].datoff]
Owned ==
    \A j \in DOMAIN idx :
        idx[j].key # Blank =>
            \/ \E c \in Chains : j \in ChainRecords(c)
            \/ \E q \in Procs : Stores(q, j)

MapInv ==
    /\ ret = [p \in Procs |-> ret[p]]
    /\ \A p \in Procs : Aimed(p) /\ Brings(p) /\ ReadsOn(p) /\ Results(p)
    /\ DataKept
    /\ Owned
-----------------------------------------------------------------------------
(* The chains, by the records on them.                                      *)

ChainFacts ==
    /\ \A c \in Chains : \A i \in ChainRecords(c) :
          /\ i \in DOMAIN idx
          /\ idx[i].key # Blank => idx[i].key \in Keys /\ Hash[idx[i].key] = c
    /\ \A c \in Chains : \A i, j \in ChainRecords(c) : idx[i].key = idx[j].key => i = j
    /\ \A b, c \in Chains : b # c => \A i \in ChainRecords(b) : i \notin ChainRecords(c)

PlaceFacts(p) ==
    /\ pc[p] \in Missing => \A i \in ChainRecords(Chain(p)) : idx[i].key # req[p].key
    /\ pc[p] = "scan" =>
          IF db[p].off = 0
            THEN \A i \in ChainRecords(Chain(p)) : idx[i].key # req[p].key
            ELSE db[p].off \in ChainRecords(Chain(p))
    /\ pc[p] \in DeleteOrStore => db[p].off \in ChainRecords(Chain(p))
    /\ Deleting(p) => idx[db[p].off].key = Blank
    /\ pc[p] = "ff_take" => idx[db[p].off].key = Blank
    /\ pc[p] = "link" => idx[db[p].off].key = req[p].key
    /\ \A i \in InHand(p) :
          /\ i \in DOMAIN idx
          /\ \A c \in Chains : i \notin ChainRecords(c)
          /\ \A q \in Procs : q # p => i \notin InHand(q)

Facts == ChainFacts /\ \A p \in Procs : PlaceFacts(p)

Followed ==
    \A n, w : Lists(n, w) => \A c \in Chains : ChainRecords(c) = Listed(n, w, c)

LEMMA RecordsAre == FileInv => Followed
BY RecordsListed DEF Followed

LEMMA RecordsAreNext == ASSUME FileInv' PROVE Followed'
BY RecordsAre, PTL

LEMMA FactsHold == LockInv /\ FileInv /\ ListInv => Facts
<1> SUFFICES ASSUME LockInv, FileInv, ListInv
             PROVE  Facts
    OBVIOUS
<1>1. PICK n, w : Lists(n, w)
    BY DEF ListInv
<1>2. \A c \in Chains : ChainRecords(c) = Listed(n, w, c) /\ c \in Heads /\ c # FREE_OFF
    BY <1>1, RecordsAre, DbAssumption DEF Followed, Heads
<1>3. /\ Keyed(n, w) /\ FreeBlank(n, w) /\ Apart(n, w) /\ Hands(n, w)
      /\ \A h \in Heads : Listed(n, w, h) \subseteq DOMAIN idx
      /\ \A p \in Procs : Place(p, n, w)
    BY <1>1 DEF Lists
<1>4. \A i \in BeingDeleted : idx[i].key = Blank
    BY <1>3 DEF BeingDeleted, Place, Frees
<1>5. ChainFacts
    BY <1>2, <1>3, <1>4 DEF Keyed, Apart, ChainFacts
<1>6. ASSUME NEW p \in Procs
      PROVE  PlaceFacts(p)
    <2>1. pc[p] \in {"scan"} \cup Missing \cup DeleteOrStore => Chain(p) \in Chains
        BY MyChain DEF KeyedCall, Missing, DeleteOrStore
    <2>2. pc[p] \in Missing => \A i \in ChainRecords(Chain(p)) : idx[i].key # req[p].key
        BY <1>2, <1>3, <2>1 DEF Place, Inserts
    <2>3. pc[p] \in DeleteOrStore => db[p].off \in ChainRecords(Chain(p))
        BY <1>1, <1>2, DeletedListed
    <2>4. /\ Deleting(p) => idx[db[p].off].key = Blank
          /\ pc[p] = "link" => idx[db[p].off].key = req[p].key
        BY <1>3 DEF Place, Frees, Inserts
    <2>5. ASSUME pc[p] = "ff_take"
          PROVE  idx[db[p].off].key = Blank
        <3>1. PICK j \in 1..n[FREE_OFF] : StandsAt(p, n, w, FREE_OFF, j)
            BY <1>3, <2>5 DEF Place, FindsFree
        <3>2. db[p].off \in Listed(n, w, FREE_OFF)
            BY <3>1 DEF StandsAt, Listed, Members
        <3> QED BY <1>3, <3>2 DEF FreeBlank
    <2>6. ASSUME pc[p] = "scan"
          PROVE  IF db[p].off = 0
                   THEN \A i \in ChainRecords(Chain(p)) : idx[i].key # req[p].key
                   ELSE db[p].off \in ChainRecords(Chain(p))
        <3> DEFINE c == Chain(p)
        <3>1. PICK j \in 1..(n[c] + 1) :
                  /\ Stands(p, n, w, c, j)
                  /\ \A k \in 1..(j - 1) : idx[w[c][k]].key # req[p].key
            BY <1>3, <2>6 DEF Place, Scans
        <3>2. /\ n[c] \in Nat /\ c \in Chains
              /\ \A k \in 1..n[c] : w[c][k] \in Listed(n, w, c) /\ w[c][k] # 0
            BY <1>1, <1>2, <2>1, <2>6, ListFacts
        <3>3. CASE j \in 1..n[c]
            <4>1. db[p].off = w[c][j]
                BY <3>1, <3>2, <3>3 DEF Stands, After
            <4> QED BY <1>2, <3>2, <3>3, <4>1
        <3>4. CASE j = n[c] + 1
            <4>1. db[p].off = 0
                BY <3>1, <3>2, <3>4 DEF Stands, After
            <4>2. \A k \in 1..n[c] : idx[w[c][k]].key # req[p].key
                BY <3>1, <3>2, <3>4
            <4>3. \A i \in Listed(n, w, c) : idx[i].key # req[p].key
                BY <4>2 DEF Listed, Members
            <4> QED BY <1>2, <3>2, <4>1, <4>3
        <3> QED BY <3>1, <3>2, <3>3, <3>4
    <2>7. \A i \in InHand(p) :
              /\ i \in DOMAIN idx
              /\ \A c \in Chains : i \notin ChainRecords(c)
              /\ \A q \in Procs : q # p => i \notin InHand(q)
        BY <1>2, <1>3 DEF Hands
    <2> QED BY <2>2, <2>3, <2>4, <2>5, <2>6, <2>7 DEF PlaceFacts
<1> QED BY <1>5, <1>6 DEF Facts

LEMMA FactsHoldNext ==
    ASSUME LockInv', FileInv', ListInv'
    PROVE  Facts'
BY FactsHold, PTL

\* The lists after a step are the lists before it, but for one record.
LEMMA ChainsThen ==
    ASSUME FileInv, FileInv', NEW n, NEW w, NEW m, NEW v, Lists(n, w), Lists(m, v)',
           NEW c \in Chains
    PROVE  ChainRecords(c) = Listed(n, w, c) /\ ChainRecords(c)' = Listed(m, v, c)
<1>1. ChainRecords(c)' = Listed(m, v, c)
    BY RecordsAreNext DEF Followed, Listed
<1>2. ChainRecords(c) = Listed(n, w, c)
    BY RecordsAre DEF Followed
<1> QED BY <1>1, <1>2

LEMMA ChainsStay ==
    ASSUME LockInv, LockInv', FileInv, FileInv', ListInv, NoKillDeleting, NEW p \in Procs,
           \/ Call(p) \/ Rewind(p) \/ Kill(p)
           \/ Step(p) /\ ~DeleteUnlink(p) /\ ~Link(p)
    PROVE  \A c \in Chains : ChainRecords(c)' = ChainRecords(c)
<1>1. PICK n, w : Lists(n, w)
    BY DEF ListInv
<1>2. \E m, v : Lists(m, v)' /\ \A c \in Chains : Listed(m, v, c) = Listed(n, w, c)
    <2>1. CASE \/ Call(p) \/ Rewind(p) \/ ReadData(p) \/ Overwrite(p) \/ Return(p)
               \/ NextLock(p) \/ NextSkip(p) \/ NextFound(p) \/ NextEOF(p)
               \/ NextData(p) \/ NextDump(p) \/ NextReturn(p) \/ LinkQuit(p) \/ Kill(p)
        BY <1>1, <2>1, LeavesLists
    <2>2. CASE FindAndLock(p) \/ FindNext(p)
        BY <1>1, <2>2, SearchSteps
    <2>3. CASE Found(p) \/ NotFound(p) \/ DeleteData(p)
        BY <1>1, <2>3, FoundStep, NotFoundStep, DeleteDataStep
    <2>4. CASE \/ ReadChainHead(p) \/ ReuseData(p)
               \/ AppendSeekData(p) \/ AppendData(p) \/ AppendSeekIndex(p)
        BY <1>1, <2>4, PrepareSteps
    <2>5. CASE FreeLock(p) \/ FreeNext(p) \/ FreeFound(p) \/ FreeNone(p)
        BY <1>1, <2>5, FreeScanSteps
    <2>6. CASE DeleteIndex(p) \/ ReuseIndex(p) \/ AppendIndex(p)
        BY <1>1, <2>6, DeleteIndexStep, WriteRecordSteps
    <2>7. CASE DeleteFree(p)
        BY <1>1, <2>7, DeleteFreeStep
    <2>8. CASE FreeTake(p)
        BY <1>1, <2>8, FreeTakeStep
    <2> QED BY <2>1, <2>2, <2>3, <2>4, <2>5, <2>6, <2>7, <2>8 DEF Step
<1>3. PICK m, v : Lists(m, v)' /\ \A c \in Chains : Listed(m, v, c) = Listed(n, w, c)
    BY <1>2
<1> QED BY <1>1, <1>3, ChainsThen

LEMMA ChainShrinks ==
    ASSUME LockInv, LockInv', FileInv, FileInv', ListInv, NEW p \in Procs, DeleteUnlink(p)
    PROVE  /\ \A c \in Chains : c # Chain(p) => ChainRecords(c)' = ChainRecords(c)
           /\ ChainRecords(Chain(p))' = ChainRecords(Chain(p)) \ {db[p].off}
<1>1. PICK n, w : Lists(n, w)
    BY DEF ListInv
<1>2. PICK m, v : /\ Lists(m, v)'
                  /\ \A h \in Chains : h # Chain(p) => Listed(m, v, h) = Listed(n, w, h)
                  /\ Listed(m, v, Chain(p)) = Listed(n, w, Chain(p)) \ {db[p].off}
    BY <1>1, DeleteUnlinkStep
<1>3. Chain(p) \in Chains /\ Chain(p)' = Chain(p)
    BY MyChain DEF DeleteUnlink, KeyedCall, Chain
<1> DEFINE R(c) == ChainRecords(c)
<1>4. \A c \in Chains : R(c) = Listed(n, w, c) /\ R(c)' = Listed(m, v, c)
    BY <1>1, <1>2, ChainsThen
<1>5. R(Chain(p)) = Listed(n, w, Chain(p)) /\ R(Chain(p))' = Listed(m, v, Chain(p))
    <2>1. PICK d \in Chains : d = Chain(p)
        BY <1>3
    <2>2. ChainRecords(Chain(p))' = ChainRecords(d)'
        BY <1>3, <2>1 DEF ChainRecords
    <2> QED BY <1>4, <2>1, <2>2
<1> QED BY <1>2, <1>4, <1>5

LEMMA ChainGrows ==
    ASSUME LockInv, LockInv', FileInv, FileInv', ListInv, NEW p \in Procs, Link(p)
    PROVE  /\ \A c \in Chains : c # Chain(p) => ChainRecords(c)' = ChainRecords(c)
           /\ ChainRecords(Chain(p))' = {db[p].off} \cup ChainRecords(Chain(p))
<1>1. PICK n, w : Lists(n, w)
    BY DEF ListInv
<1>2. PICK m, v : /\ Lists(m, v)'
                  /\ \A h \in Chains : h # Chain(p) => Listed(m, v, h) = Listed(n, w, h)
                  /\ Listed(m, v, Chain(p)) = {db[p].off} \cup Listed(n, w, Chain(p))
    BY <1>1, LinkStep
<1>3. Chain(p) \in Chains /\ Chain(p)' = Chain(p)
    BY MyChain DEF Link, KeyedCall, Chain
<1> DEFINE R(c) == ChainRecords(c)
<1>4. \A c \in Chains : R(c) = Listed(n, w, c) /\ R(c)' = Listed(m, v, c)
    BY <1>1, <1>2, ChainsThen
<1>5. R(Chain(p)) = Listed(n, w, Chain(p)) /\ R(Chain(p))' = Listed(m, v, Chain(p))
    <2>1. PICK d \in Chains : d = Chain(p)
        BY <1>3
    <2>2. ChainRecords(Chain(p))' = ChainRecords(d)'
        BY <1>3, <2>1 DEF ChainRecords
    <2> QED BY <1>4, <2>1, <2>2
<1> QED BY <1>2, <1>4, <1>5

-----------------------------------------------------------------------------
(* What one process knows, while others move.                               *)

Aiming == {"f_dat", "overwrite", "d_lock", "d_idx"}

Informed(p) == Aimed(p) /\ Brings(p) /\ ReadsOn(p) /\ Results(p)

\* The step leaves alone what q relies on.
Untouched(q) ==
    /\ pc[q] \in Aiming => db[q].off \in ChainRecords(Chain(q))'
    /\ pc[q] \in Aiming \cup {"u_dat", "u_idx", "link"} =>
          /\ idx'[db[q].off].key = idx[db[q].off].key
          /\ idx'[db[q].off].datoff = idx[db[q].off].datoff
    /\ pc[q] \in {"d_idx", "u_idx", "a_idx", "a_idx_write"} =>
          dat'[db[q].datoff] = dat[db[q].datoff]
    /\ pc[q] = "link" => dat'[idx[db[q].off].datoff] = dat[idx[db[q].off].datoff]
    /\ pc[q] = "n_dat" =>
          \A j \in DOMAIN idx :
              idx[j].key # Blank => /\ j \in DOMAIN idx'
                                    /\ idx'[j].key = idx[j].key
                                    /\ idx'[j].datoff = idx[j].datoff

LEMMA StillInformed ==
    ASSUME NEW q \in Procs, Informed(q), Untouched(q),
           pc'[q] = pc[q], req'[q] = req[q], db'[q] = db[q], ret'[q] = ret[q]
    PROVE  Informed(q)'
<1>1. Chain(q)' = Chain(q) /\ Op(q)' = Op(q)
    BY DEF Chain, Op
<1>3. Aimed(q)'
    BY DEF Informed, Untouched, Aimed, Aiming
<1>4. Brings(q)'
    BY DEF Informed, Untouched, Brings
<1>5. ReadsOn(q)'
    BY DEF Informed, Untouched, ReadsOn
<1>6. Results(q)'
    BY <1>1 DEF Informed, Results
<1> QED BY <1>3, <1>4, <1>5, <1>6 DEF Informed

RetKept(p) == ret' = [q \in Procs |-> ret'[q]] /\ \A q \in Procs \ {p} : ret'[q] = ret[q]

\* The whole invariant from its parts.
LEMMA Together ==
    ASSUME MapInv, NEW p \in Procs, StandStill(p), RetKept(p),
           \A q \in Procs \ {p} : Untouched(q),
           Informed(p)', DataKept', Owned'
    PROVE  MapInv'
<1>1. \A q \in Procs \ {p} : Informed(q)'
    <2> TAKE q \in Procs \ {p}
    <2>1. Informed(q)
        BY DEF MapInv, Informed
    <2>2. pc'[q] = pc[q] /\ req'[q] = req[q] /\ db'[q] = db[q] /\ ret'[q] = ret[q]
        BY DEF StandStill, RetKept
    <2> QED BY <2>1, <2>2, StillInformed
<1>2. \A q \in Procs : Informed(q)'
    BY <1>1
<1> QED BY <1>2 DEF MapInv, Informed, RetKept

ContentSame ==
    /\ DOMAIN idx' = DOMAIN idx
    /\ \A i \in DOMAIN idx : idx'[i].key = idx[i].key /\ idx'[i].datoff = idx[i].datoff
    /\ dat' = dat

\* What changes no key and no data, and no chain but the one p has locked for
\* writing, leaves alone what the others rely on.
LEMMA ContentUntouched ==
    ASSUME LockInv, Facts, MapInv, NEW p \in Procs, StandStill(p), ContentSame,
           \A c \in Chains : ~UpdatesChain(p, c) => ChainRecords(c)' = ChainRecords(c),
           NEW q \in Procs \ {p}
    PROVE  Untouched(q)
<1>1. pc[q] \in Aiming => Chain(q) \in Chains /\ Chain(q)' = Chain(q)
    BY MyChain DEF Aiming, KeyedCall, StandStill, Chain
<1>2. ASSUME pc[q] \in Aiming
      PROVE  db[q].off \in ChainRecords(Chain(q))'
    <2>1. PICK c \in Chains : c = Chain(q)
        BY <1>1, <1>2
    <2>2. ~UpdatesChain(p, c)
        BY <1>2, <2>1, CriticalSectionsHeld
           DEF CriticalSections, UpdatesChain, OnChain, Aiming, KeyedCall
    <2>3. ChainRecords(Chain(q))' = ChainRecords(c)'
        BY <1>1, <1>2, <2>1 DEF ChainRecords
    <2>4. db[q].off \in ChainRecords(c)
        BY <1>2, <2>1 DEF MapInv, Aimed, Aiming
    <2> QED BY <2>2, <2>3, <2>4
<1>3. pc[q] \in Aiming \cup {"u_dat", "u_idx", "link"} => db[q].off \in DOMAIN idx
    <2>1. pc[q] \in Aiming => db[q].off \in DOMAIN idx
        BY <1>1 DEF MapInv, Aimed, Aiming, Facts, ChainFacts
    <2>2. pc[q] \in {"u_dat", "u_idx", "link"} => db[q].off \in DOMAIN idx
        BY DEF Facts, PlaceFacts, InHand
    <2> QED BY <2>1, <2>2
<1> QED BY <1>2, <1>3 DEF Untouched, ContentSame

\* A step that changes no key and no data, and no chain.
LEMMA QuietStep ==
    ASSUME LockInv, Facts, MapInv, NEW p \in Procs, StandStill(p), RetKept(p), ContentSame,
           \A c \in Chains : ChainRecords(c)' = ChainRecords(c),
           pc[p] \notin {"d_idx"} \cup Ended,
           pc[p] = "link" => pc'[p] \in Ended /\ req'[p] = req[p],
           Informed(p)'
    PROVE  MapInv'
<1>1. \A q \in Procs \ {p} : Untouched(q)
    BY ContentUntouched
<1>2. DataKept'
    <2> SUFFICES ASSUME NEW c \in Chains, NEW i \in ChainRecords(c),
                        idx'[i].key # Blank, dat'[idx'[i].datoff] = Blank
                 PROVE  \E q \in Procs : pc'[q] = "d_idx" /\ db'[q].off = i
        BY DEF DataKept
    <2>1. i \in DOMAIN idx
        BY DEF Facts, ChainFacts
    <2>2. idx[i].key # Blank /\ dat[idx[i].datoff] = Blank
        BY <2>1 DEF ContentSame
    <2>3. PICK q \in Procs : pc[q] = "d_idx" /\ db[q].off = i
        BY <2>2 DEF MapInv, DataKept
    <2> QED BY <2>3 DEF StandStill
<1>3. Owned'
    <2> SUFFICES ASSUME NEW j \in DOMAIN idx, idx[j].key # Blank,
                        \A c \in Chains : j \notin ChainRecords(c)
                 PROVE  \E q \in Procs : Stores(q, j)'
        BY DEF Owned, ContentSame
    <2>1. PICK q \in Procs : Stores(q, j)
        BY DEF MapInv, Owned
    <2>2. req'[q] = req[q] /\ pc'[q] \in {"link"} \cup Ended /\ (pc'[q] = "link" => db'[q].off = j)
        BY <2>1 DEF Stores, StandStill, Ended
    <2> QED BY <2>1, <2>2 DEF Stores, ContentSame, IsStore, Op
<1> QED BY <1>1, <1>2, <1>3, Together

\* Places at which a process knows nothing about records.
Unaimed == {"idle", "find", "scan", "unlock", "d_free", "d_unlink", "i_head", "r_head",
    "ff_lock", "ff_scan", "ff_take", "a_dat", "a_dat_write", "n_lock", "n_idx", "n_unlock"}
    \cup Ended

LEMMA JustResults ==
    ASSUME NEW p \in Procs, pc'[p] \in Unaimed, Results(p)'
    PROVE  Informed(p)'
BY DEF Informed, Aimed, Brings, ReadsOn, Unaimed, Ended

\* The searches.
LEMMA SearchInformed ==
    ASSUME LockInv, FileInv, Facts, MapInv, NEW p \in Procs,
           \/ Call(p) \/ Rewind(p) \/ FindAndLock(p) \/ FindNext(p) \/ NotFound(p)
           \/ ReadData(p) \/ Return(p)
    PROVE  RetKept(p) /\ Informed(p)'
<1>1. /\ pc \in [Procs -> {"idle"} \cup InCall \cup Ended]
      /\ req \in [Procs -> Requests \cup {None}]
      /\ ret = [q \in Procs |-> ret[q]]
      /\ Results(p)
    BY DEF LockInv, MapInv
<1> USE DEF Undecided, Replacing, Appending, Unaimed, Ended, NextCall
<1>2. CASE Call(p)
    <2>1. PICK r \in Requests :
              /\ pc[p] = "idle" /\ ret' = ret
              /\ req' = [req EXCEPT ![p] = r]
              /\ pc' = [pc EXCEPT ![p] = IF r.op = "nextrec" THEN "n_lock" ELSE "find"]
        BY <1>2 DEF Call, Goto
    <2>2. pc'[p] = (IF r.op = "nextrec" THEN "n_lock" ELSE "find") /\ req'[p] = r /\ ret'[p] = Unset
        BY <1>1, <2>1 DEF Results
    <2> QED BY <1>1, <2>1, <2>2, JustResults DEF RetKept, Results, Op
<1>3. CASE Rewind(p)
    <2>1. pc'[p] = "idle" /\ ret' = ret /\ ret'[p] = Unset
        BY <1>1, <1>3 DEF Rewind, Results
    <2> QED BY <1>1, <2>1, JustResults DEF RetKept, Results
<1>4. CASE FindAndLock(p) \/ FindNext(p)
    <2>1. pc'[p] = "scan" /\ ret' = ret /\ ret'[p] = Unset
        BY <1>1, <1>4 DEF FindAndLock, FindNext, Goto, Results
    <2> QED BY <1>1, <2>1, JustResults DEF RetKept, Results
<1>5. CASE NotFound(p)
    <2>1. PICK v : \/ pc' = [pc EXCEPT ![p] = "unlock"] /\ ret' = [ret EXCEPT ![p] = v] /\ v # Unset
                   \/ pc' = [pc EXCEPT ![p] = "i_head"] /\ ret' = ret /\ pc[p] = "scan"
        BY <1>5, DbAssumption DEF NotFound, Goto, Result
    <2>2. RetKept(p)
        BY <1>1, <2>1 DEF RetKept
    <2>3. \/ pc'[p] = "unlock" /\ ret'[p] # Unset
          \/ pc'[p] = "i_head" /\ ret'[p] = Unset
        BY <1>1, <2>1 DEF Results
    <2> QED BY <2>2, <2>3, JustResults DEF Results
<1>6. CASE ReadData(p)
    <2>1. dat[db[p].datoff] # Unset
        <3>1. db[p].datoff \in DOMAIN dat
            BY <1>6 DEF ReadData, FileInv, Handle
        <3>2. dat[db[p].datoff] \in Data \cup {Blank}
            BY <3>1, SeqFacts DEF FileInv
        <3> QED BY <3>2, DbAssumption
    <2>2. RetKept(p) /\ pc'[p] = "unlock" /\ ret'[p] # Unset
        BY <1>1, <1>6, <2>1 DEF ReadData, Result, Goto, RetKept
    <2> QED BY <2>2, JustResults DEF Results
<1>7. CASE Return(p)
    <2>1. RetKept(p) /\ pc'[p] = "idle" /\ ret'[p] = Unset
        BY <1>1, <1>7 DEF Return, Goto, RetKept
    <2> QED BY <2>1, JustResults DEF Results
<1> QED BY <1>2, <1>3, <1>4, <1>5, <1>6, <1>7

LEMMA FoundInformed ==
    ASSUME LockInv, FileInv, Facts, MapInv, NEW p \in Procs, Found(p),
           \A c \in Chains : ChainRecords(c)' = ChainRecords(c)
    PROVE  RetKept(p) /\ Informed(p)'
<1>1. /\ pc \in [Procs -> {"idle"} \cup InCall \cup Ended]
      /\ ret = [q \in Procs |-> ret[q]]
      /\ Results(p) /\ PlaceFacts(p)
    BY DEF LockInv, MapInv, Facts
<1> USE DEF Undecided, Replacing, Appending, Unaimed, Ended, NextCall
<1>2. PICK label \in {"f_dat", "d_lock", "unlock", "overwrite"} :
          /\ pc[p] = "scan" /\ db[p].off # 0
          /\ pc' = [pc EXCEPT ![p] = label]
          /\ IF label = "unlock" THEN ret' = [ret EXCEPT ![p] = "exists"] ELSE ret' = ret
          /\ idx[db[p].off].key = req[p].key
          /\ db' = [db EXCEPT ![p].datoff = idx[db[p].off].datoff,
                              ![p].ptrval = idx[db[p].off].ptr,
                              ![p].pos = db[p].off + 1]
          /\ idx' = idx /\ req' = req
    BY DEF Found, PosAfter, Goto, IsStore, Result
<1>3. RetKept(p) /\ pc'[p] = label /\ ret'[p] = IF label = "unlock" THEN "exists" ELSE Unset
    BY <1>1, <1>2 DEF Results, RetKept
<1>4. Results(p)'
    BY <1>2, <1>3, DbAssumption DEF Results
<1>5. Chain(p) \in Chains /\ Chain(p)' = Chain(p)
    BY <1>2, MyChain DEF KeyedCall, Chain
<1>6. db[p].off \in ChainRecords(Chain(p)) /\ db[p].off \in DOMAIN idx
    BY <1>1, <1>2, <1>5 DEF PlaceFacts, Facts, ChainFacts
<1>7. db'[p].off = db[p].off /\ db'[p].datoff = idx[db[p].off].datoff
    <2> DEFINE i == db[p].off
               d == idx[i].datoff
               v == idx[i].ptr
               e == i + 1
    <2>1. d \in Nat /\ v \in Nat /\ e \in Nat /\ db \in [Procs -> DBs]
        <3>1. idx[i] \in IndexRecords /\ i \in Nat /\ db \in [Procs -> DBs]
            BY <1>6, SeqFacts DEF FileInv, FileTypes, DBs
        <3> QED BY <3>1 DEF IndexRecords
    <2>2. db' = [db EXCEPT ![p].datoff = d, ![p].ptrval = v, ![p].pos = e]
        BY <1>2
    <2> HIDE DEF i, d, v, e
    <2>3. db'[p].off = db[p].off /\ db'[p].datoff = d
        BY <2>1, <2>2, SetRecord
    <2> QED BY <2>3 DEF i, d
<1>8. ChainRecords(Chain(p))' = ChainRecords(Chain(p))
    <2>1. PICK c \in Chains : c = Chain(p)
        BY <1>5
    <2> QED BY <1>5, <2>1 DEF ChainRecords
<1>9. Aimed(p)'
    BY <1>2, <1>5, <1>6, <1>7, <1>8 DEF Aimed
<1>10. Brings(p)' /\ ReadsOn(p)'
    BY <1>2, <1>3 DEF Brings, ReadsOn
<1> QED BY <1>3, <1>4, <1>9, <1>10 DEF Informed

\* db_store: the head of the chain, the free list, the ends of the files.
LEMMA PrepareInformed ==
    ASSUME LockInv, FileInv, Facts, MapInv, NEW p \in Procs,
           \/ ReadChainHead(p) \/ FreeLock(p) \/ FreeNext(p) \/ FreeFound(p)
           \/ FreeNone(p) \/ AppendSeekData(p) \/ AppendSeekIndex(p) \/ DeleteFree(p)
    PROVE  RetKept(p) /\ Informed(p)'
<1>1. /\ pc \in [Procs -> {"idle"} \cup InCall \cup Ended]
      /\ ret = [q \in Procs |-> ret[q]]
      /\ Results(p)
    BY DEF LockInv, MapInv
<1> USE DEF Undecided, Replacing, Appending, Unaimed, Ended, NextCall
<1>2. ret' = ret /\ ret'[p] = ret[p] /\ RetKept(p)
    BY <1>1 DEF ReadChainHead, FreeLock, FreeNext, FreeFound, FreeNone, AppendSeekData,
       AppendSeekIndex, DeleteFree, RetKept
<1>3. CASE ReadChainHead(p)
    <2>1. \/ pc[p] = "i_head" /\ pc'[p] = "ff_lock"
          \/ pc[p] = "r_head" /\ pc'[p] = "a_dat"
        BY <1>1, <1>3 DEF ReadChainHead, Goto
    <2> QED BY <1>1, <1>2, <2>1, JustResults DEF Results
<1>4. CASE FreeLock(p) \/ FreeNext(p) \/ FreeFound(p) \/ FreeNone(p)
    <2>1. pc[p] \in {"ff_lock", "ff_scan"} /\ pc'[p] \in {"ff_scan", "ff_take", "a_dat"}
        BY <1>1, <1>4 DEF FreeLock, FreeNext, FreeFound, FreeNone, Goto
    <2> QED BY <1>1, <1>2, <2>1, JustResults DEF Results
<1>5. CASE AppendSeekData(p)
    <2>1. pc[p] = "a_dat" /\ pc'[p] = "a_dat_write"
        BY <1>1, <1>5 DEF AppendSeekData, Goto
    <2> QED BY <1>1, <1>2, <2>1, JustResults DEF Results
<1>6. CASE AppendSeekIndex(p)
    <2>1. /\ pc[p] = "a_idx" /\ pc'[p] = "a_idx_write"
          /\ db' = [db EXCEPT ![p].off = Len(idx) + 1]
          /\ dat' = dat /\ req' = req
        BY <1>1, <1>6 DEF AppendSeekIndex, Goto
    <2>2. db'[p].datoff = db[p].datoff
        <3>1. Len(idx) + 1 \in Nat /\ db \in [Procs -> DBs]
            BY SeqFacts DEF FileInv, FileTypes
        <3> QED BY <2>1, <3>1, SetOff
    <2>3. Brings(p)
        BY DEF MapInv
    <2> QED BY <1>1, <1>2, <2>1, <2>2, <2>3
            DEF Informed, Aimed, Brings, ReadsOn, Results
<1>7. CASE DeleteFree(p)
    <2>1. pc[p] = "d_free" /\ pc'[p] = "d_unlink"
        BY <1>1, <1>7 DEF DeleteFree, Goto
    <2> QED BY <1>1, <1>2, <2>1, JustResults DEF Results
<1> QED BY <1>3, <1>4, <1>5, <1>6, <1>7

\* db_nextrec has read the data of a record that is current or being stored.
LEMMA ScanReads ==
    ASSUME LockInv, FileInv, Facts, MapInv, NEW p \in Procs, pc[p] = "n_dat"
    PROVE  /\ db[p].key \in Keys /\ dat[db[p].datoff] \in Data
           /\ \/ \E c \in Chains : \E j \in ChainRecords(c) :
                    idx[j].key = db[p].key /\ idx[j].datoff = db[p].datoff
              \/ \E q \in Procs, j \in DOMAIN idx :
                    Stores(q, j) /\ idx[j].key = db[p].key /\ idx[j].datoff = db[p].datoff
<1>1. PICK j \in DOMAIN idx : /\ idx[j].key = db[p].key /\ idx[j].key # Blank
                              /\ idx[j].datoff = db[p].datoff
    BY DEF MapInv, ReadsOn
<1>2. idx[j] \in IndexRecords /\ idx[j].datoff \in DOMAIN dat
    BY SeqFacts DEF FileInv, NoDangling
<1>3. dat[idx[j].datoff] \in Data \cup {Blank}
    BY <1>2, SeqFacts DEF FileInv
<1>4. db[p].key \in Keys
    BY <1>1, <1>2 DEF IndexRecords
<1>5. CASE \E c \in Chains : j \in ChainRecords(c)
    <2>1. dat[idx[j].datoff] # Blank
        <3> SUFFICES ASSUME dat[idx[j].datoff] = Blank
                     PROVE  FALSE
            OBVIOUS
        <3>1. PICK q \in Procs : pc[q] = "d_idx" /\ db[q].off = j
            BY <1>1, <1>5 DEF MapInv, DataKept
        <3> QED BY <3>1, CriticalSectionsHeld DEF CriticalSections, OnFreeList, ReadsFreeList
    <2> QED BY <1>1, <1>3, <1>4, <1>5, <2>1
<1>6. CASE ~ \E c \in Chains : j \in ChainRecords(c)
    <2>1. PICK q \in Procs : Stores(q, j)
        BY <1>1, <1>6 DEF MapInv, Owned
    <2>2. req[q] \in Requests /\ req[q].op = "store"
        BY <2>1 DEF Stores, IsStore, Op, LockInv, Matched
    <2>3. req[q].data \in Data
        BY <2>2, DbAssumption
    <2>4. dat[idx[j].datoff] \in Data
        BY <2>1, <2>3 DEF Stores
    <2> QED BY <1>1, <1>4, <2>1, <2>4
<1> QED BY <1>5, <1>6

LEMMA ScanInformed ==
    ASSUME LockInv, FileInv, Facts, MapInv, NEW p \in Procs,
           \/ NextLock(p) \/ NextSkip(p) \/ NextFound(p) \/ NextEOF(p) \/ NextData(p)
           \/ NextReturn(p)
    PROVE  RetKept(p) /\ Informed(p)'
<1>1. /\ pc \in [Procs -> {"idle"} \cup InCall \cup Ended]
      /\ ret = [q \in Procs |-> ret[q]]
      /\ Results(p)
    BY DEF LockInv, MapInv
<1> USE DEF Undecided, Replacing, Appending, Unaimed, Ended, NextCall
<1>2. CASE NextLock(p) \/ NextSkip(p)
    <2>1. /\ pc[p] \in {"n_lock", "n_idx"} /\ pc'[p] = "n_idx"
          /\ ret' = ret /\ req' = req
        BY <1>1, <1>2 DEF NextLock, NextSkip, Goto
    <2> QED BY <1>1, <2>1, JustResults DEF RetKept, Results, Op
<1>3. CASE NextFound(p)
    <2>1. /\ pc[p] = "n_idx" /\ pc'[p] = "n_dat"
          /\ ret' = ret /\ req' = req /\ idx' = idx
          /\ db[p].pos \in DOMAIN idx /\ idx[db[p].pos].key # Blank
          /\ db' = [db EXCEPT ![p].key = idx[db[p].pos].key,
                              ![p].datoff = idx[db[p].pos].datoff,
                              ![p].pos = db[p].pos + 1]
        BY <1>1, <1>3 DEF NextFound, Goto, PosAfter
    <2>2. /\ db'[p].key = idx[db[p].pos].key
          /\ db'[p].datoff = idx[db[p].pos].datoff
          /\ db'[p].pos = PosAfter(db[p].pos)
        <3>1. db \in [Procs -> DBs]
            BY DEF FileInv, FileTypes
        <3> QED BY <2>1, <3>1, ZenonT(60) DEF DBs, PosAfter
    <2>3. ReadsOn(p)'
        BY <2>1, <2>2 DEF ReadsOn
    <2> QED BY <1>1, <2>1, <2>3 DEF RetKept, Informed, Aimed, Brings, Results, Op
<1>4. CASE NextEOF(p)
    <2>1. /\ pc[p] = "n_idx" /\ pc'[p] = "n_unlock" /\ req' = req
          /\ ret' = [ret EXCEPT ![p] = None]
        BY <1>1, <1>4 DEF NextEOF, Goto, Result
    <2>2. RetKept(p) /\ ret'[p] # Unset
        BY <1>1, <2>1, DbAssumption DEF RetKept
    <2> QED BY <1>1, <2>1, <2>2, JustResults DEF Results, Op
<1>5. CASE NextData(p)
    <2>1. /\ pc[p] = "n_dat" /\ pc'[p] = "n_unlock" /\ req' = req
          /\ ret' = [ret EXCEPT ![p] = <<db[p].key, dat[db[p].datoff]>>]
        BY <1>1, <1>5 DEF NextData, Goto, Result
    <2>2. <<db[p].key, dat[db[p].datoff]>> \in Keys \X Data
        BY <2>1, ScanReads
    <2>3. RetKept(p) /\ ret'[p] # Unset
        BY <1>1, <2>1, <2>2, DbAssumption DEF RetKept
    <2> QED BY <1>1, <2>1, <2>3, JustResults DEF Results, Op
<1>6. CASE NextReturn(p)
    <2>1. RetKept(p) /\ pc'[p] = "idle" /\ ret'[p] = Unset
        BY <1>1, <1>6 DEF NextReturn, Goto, RetKept
    <2> QED BY <2>1, JustResults DEF Results
<1> QED BY <1>2, <1>3, <1>4, <1>5, <1>6

LEMMA EndInformed ==
    ASSUME LockInv, MapInv, NEW p \in Procs, LinkQuit(p) \/ NextDump(p) \/ Kill(p)
    PROVE  RetKept(p) /\ Informed(p)' /\ pc'[p] \in Ended /\ ret'[p] = Unset
<1>1. /\ pc \in [Procs -> {"idle"} \cup InCall \cup Ended]
      /\ ret = [q \in Procs |-> ret[q]]
    BY DEF LockInv, MapInv
<1>2. RetKept(p) /\ pc'[p] \in Ended /\ ret'[p] = Unset
    BY <1>1 DEF LinkQuit, NextDump, Kill, End, Goto, RetKept, Ended
<1> QED BY <1>2, JustResults
        DEF Results, Unaimed, Undecided, Replacing, Appending, NextCall, Ended

\* Writing a chain pointer changes no key and no data.
LEMMA PointerContent ==
    ASSUME LockInv, FileInv, NEW p \in Procs,
           DeleteFree(p) \/ DeleteUnlink(p) \/ FreeTake(p) \/ Link(p)
    PROVE  ContentSame
<1>1. CASE DeleteFree(p)
    BY <1>1 DEF DeleteFree, WritePtr, Heads, ContentSame
<1>2. CASE Link(p)
    <2>1. Chain(p) \in Heads
        BY <1>2, MyChain DEF Link, KeyedCall, Heads
    <2> QED BY <1>2, <2>1 DEF Link, WritePtr, ContentSame
<1>3. CASE DeleteUnlink(p) \/ FreeTake(p)
    <2>1. /\ pc[p] \in {"d_unlink", "ff_take"}
          /\ WritePtr(db[p].ptroff, db[p].ptrval)
        BY <1>3 DEF DeleteUnlink, FreeTake
    <2>2. /\ LinkOK(db[p].ptroff) /\ db[p].ptrval \in 0..Len(idx)
          /\ FileTypes /\ NoDangling /\ DataNotShared
        <3>1. Handle(p) /\ db[p] \in DBs /\ Len(idx) \in Nat
            BY Knows
        <3> QED BY <2>1, <3>1, Knows DEF Handle, DBs
    <2>3. db[p].ptroff \in Places
        BY <2>2 DEF LinkOK, Places
    <2>4. SameRecords
        BY <2>1, <2>2, WritePtrOK
    <2>5. \A i \in DOMAIN idx : idx'[i].key = idx[i].key
        BY <2>1, <2>3, WrittenPtr
    <2>6. dat' = dat
        BY <2>1 DEF WritePtr
    <2> QED BY <2>4, <2>5, <2>6 DEF SameRecords, ContentSame
<1> QED BY <1>1, <1>2, <1>3

LEMMA PointerInformed ==
    ASSUME LockInv, FileInv, Facts, MapInv, NEW p \in Procs,
           DeleteUnlink(p) \/ FreeTake(p) \/ Link(p)
    PROVE  RetKept(p) /\ Informed(p)'
<1>1. /\ pc \in [Procs -> {"idle"} \cup InCall \cup Ended]
      /\ ret = [q \in Procs |-> ret[q]]
      /\ Results(p)
    BY DEF LockInv, MapInv
<1> USE DEF Undecided, Replacing, Appending, Unaimed, Ended, NextCall
<1>2. CASE DeleteUnlink(p)
    <2>1. /\ pc[p] = "d_unlink" /\ pc'[p] \in {"unlock", "r_head"}
          /\ ret' = ret /\ ret'[p] = "ok" /\ RetKept(p)
        BY <1>1, <1>2 DEF DeleteUnlink, Goto, Results, RetKept
    <2> QED BY <1>1, <2>1, DbAssumption, JustResults DEF Results
<1>3. CASE Link(p)
    <2>1. pc'[p] = "unlock" /\ ret'[p] = "ok" /\ RetKept(p)
        BY <1>1, <1>3 DEF Link, Goto, Result, RetKept
    <2> QED BY <2>1, DbAssumption, JustResults DEF Results
<1>4. CASE FreeTake(p)
    <2>1. /\ pc[p] = "ff_take" /\ pc'[p] = "u_dat" /\ db' = db
          /\ ret' = ret /\ ret'[p] = Unset /\ RetKept(p)
        BY <1>1, <1>4 DEF FreeTake, Goto, Results, RetKept
    <2>2. idx'[db[p].off].key = Blank
        <3>1. db[p].off \in DOMAIN idx /\ idx[db[p].off].key = Blank
            BY <2>1 DEF Facts, PlaceFacts, FileInv, Handle
        <3> QED BY <1>4, <3>1, PointerContent DEF ContentSame
    <2> QED BY <2>1, <2>2 DEF Informed, Aimed, Brings, ReadsOn, Results
<1> QED BY <1>2, <1>3, <1>4

-----------------------------------------------------------------------------
(* Each step keeps the invariant.                                           *)

LEMMA QuietContent ==
    ASSUME LockInv, LockInv', FileInv, FileInv', ListInv, NoKillInDelete,
           NEW p \in Procs,
           \/ Call(p) \/ Rewind(p) \/ FindAndLock(p) \/ FindNext(p) \/ Found(p)
           \/ NotFound(p) \/ ReadData(p) \/ Return(p)
           \/ ReadChainHead(p) \/ FreeLock(p) \/ FreeNext(p) \/ FreeFound(p)
           \/ FreeNone(p) \/ FreeTake(p) \/ AppendSeekData(p) \/ AppendSeekIndex(p)
           \/ DeleteFree(p)
           \/ NextLock(p) \/ NextSkip(p) \/ NextFound(p) \/ NextEOF(p) \/ NextData(p)
           \/ NextReturn(p) \/ LinkQuit(p) \/ NextDump(p) \/ Kill(p)
    PROVE  /\ ContentSame
           /\ \A c \in Chains : ChainRecords(c)' = ChainRecords(c)
           /\ pc[p] \notin {"d_idx", "d_unlink"} \cup Ended
           /\ pc[p] = "link" => LinkQuit(p) \/ Kill(p)
<1>1. Call(p) \/ Rewind(p) \/ Kill(p) \/ Step(p)
    BY DEF Step
<1>3. ContentSame
    <2>1. CASE DeleteFree(p) \/ FreeTake(p)
        BY <2>1, PointerContent
    <2>2. CASE ~(DeleteFree(p) \/ FreeTake(p))
        <3>1. idx' = idx /\ dat' = dat
            BY <2>2 DEF Call, Rewind, FindAndLock, FindNext, Found, NotFound, ReadData, Return,
               ReadChainHead, FreeLock, FreeNext, FreeFound, FreeNone, AppendSeekData,
               AppendSeekIndex, NextLock, NextSkip, NextFound, NextEOF, NextData,
               NextReturn, LinkQuit, NextDump, Kill, End, files
        <3> QED BY <3>1 DEF ContentSame
    <2> QED BY <2>1, <2>2
<1>4. /\ pc[p] \notin {"d_idx", "d_unlink"} \cup Ended
      /\ pc[p] = "link" => LinkQuit(p) \/ Kill(p)
    <2>1. CASE Kill(p)
        BY <2>1, DbAssumption DEF NoKillInDelete, Kill, InCall, KeyedCall, NextCall, Ended
    <2>2. CASE ~Kill(p)
        BY <2>2 DEF Call, Rewind, FindAndLock, FindNext, Found, NotFound, ReadData, Return,
           ReadChainHead, FreeLock, FreeNext, FreeFound, FreeNone, FreeTake, AppendSeekData,
           AppendSeekIndex, DeleteFree, NextLock, NextSkip, NextFound, NextEOF, NextData,
           NextReturn, LinkQuit, NextDump, Ended
    <2> QED BY <2>1, <2>2
<1>5. \A c \in Chains : ChainRecords(c)' = ChainRecords(c)
    <2>1. ~DeleteUnlink(p)
        BY <1>4 DEF DeleteUnlink
    <2>2. pc \in [Procs -> {"idle"} \cup InCall \cup Ended]
        BY DEF LockInv
    <2>3. Link(p) => Kill(p)
        BY <1>4, <2>2 DEF Link, LinkQuit, End, Goto
    <2> QED BY <1>1, <2>1, <2>3, ChainsStay DEF NoKillInDelete, NoKillDeleting
<1> QED BY <1>3, <1>4, <1>5

LEMMA QuietMap ==
    ASSUME LockInv, LockInv', FileInv, FileInv', ListInv, Facts, MapInv, NoKillInDelete,
           NEW p \in Procs,
           \/ Call(p) \/ Rewind(p) \/ FindAndLock(p) \/ FindNext(p) \/ Found(p)
           \/ NotFound(p) \/ ReadData(p) \/ Return(p)
           \/ ReadChainHead(p) \/ FreeLock(p) \/ FreeNext(p) \/ FreeFound(p)
           \/ FreeNone(p) \/ FreeTake(p) \/ AppendSeekData(p) \/ AppendSeekIndex(p)
           \/ DeleteFree(p)
           \/ NextLock(p) \/ NextSkip(p) \/ NextFound(p) \/ NextEOF(p) \/ NextData(p)
           \/ NextReturn(p) \/ LinkQuit(p) \/ NextDump(p) \/ Kill(p)
    PROVE  MapInv'
<1>1. Call(p) \/ Rewind(p) \/ Kill(p) \/ Step(p)
    BY DEF Step
<1>2. StandStill(p)
    BY <1>1, OneAtATime
<1>3. /\ ContentSame
      /\ \A c \in Chains : ChainRecords(c)' = ChainRecords(c)
      /\ pc[p] \notin {"d_idx", "d_unlink"} \cup Ended
      /\ pc[p] = "link" => LinkQuit(p) \/ Kill(p)
    BY QuietContent
<1>6. RetKept(p) /\ Informed(p)'
    BY <1>3, SearchInformed, FoundInformed, PrepareInformed, ScanInformed, EndInformed,
       PointerInformed
<1>7. pc[p] = "link" => pc'[p] \in Ended /\ req'[p] = req[p]
    BY <1>3, EndInformed DEF LinkQuit, Kill, End
<1> QED BY <1>2, <1>3, <1>6, <1>7, QuietStep

LEMMA UnlinkMap ==
    ASSUME LockInv, LockInv', FileInv, FileInv', ListInv, Facts, MapInv,
           NEW p \in Procs, DeleteUnlink(p)
    PROVE  MapInv'
<1>1. StandStill(p) /\ ContentSame /\ RetKept(p) /\ Informed(p)'
    BY OneAtATime, PointerContent, PointerInformed DEF Step
<1>2. pc[p] = "d_unlink" /\ Op(p) # "fetch" /\ Chain(p) \in Chains
    BY MyChain DEF DeleteUnlink, KeyedCall, LockInv, Matched, DeleteOrStore
<1>3. \A c \in Chains : ChainRecords(c)' = IF c = Chain(p) THEN ChainRecords(c) \ {db[p].off}
                                                            ELSE ChainRecords(c)
    <2>1. PICK d \in Chains : d = Chain(p)
        BY <1>2
    <2>2. ChainRecords(Chain(p))' = ChainRecords(d)'
        <3>1. Chain(p)' = Chain(p)
            BY DEF DeleteUnlink, Chain
        <3> QED BY <2>1, <3>1 DEF ChainRecords
    <2> QED BY <2>1, <2>2, ChainShrinks
<1>4. \A q \in Procs \ {p} : Untouched(q)
    <2>1. \A c \in Chains : ~UpdatesChain(p, c) => c # Chain(p)
        BY <1>2 DEF UpdatesChain, OnChain, KeyedCall
    <2> QED BY <1>1, <1>3, <2>1, ContentUntouched
<1>5. DataKept'
    <2> SUFFICES ASSUME NEW c \in Chains, NEW i \in ChainRecords(c)',
                        idx'[i].key # Blank, dat'[idx'[i].datoff] = Blank
                 PROVE  \E q \in Procs : pc'[q] = "d_idx" /\ db'[q].off = i
        BY DEF DataKept
    <2>1. i \in ChainRecords(c)
        BY <1>3
    <2>2. idx[i].key # Blank /\ dat[idx[i].datoff] = Blank
        BY <1>1, <2>1 DEF ContentSame, Facts, ChainFacts
    <2>3. PICK q \in Procs : pc[q] = "d_idx" /\ db[q].off = i
        BY <2>1, <2>2 DEF MapInv, DataKept
    <2> QED BY <1>1, <1>2, <2>3 DEF StandStill
<1>6. Owned'
    <2> SUFFICES ASSUME NEW j \in DOMAIN idx, idx[j].key # Blank,
                        \A c \in Chains : j \notin ChainRecords(c)'
                 PROVE  \E q \in Procs : Stores(q, j)'
        BY <1>1 DEF Owned, ContentSame
    <2>1. \A c \in Chains : j \notin ChainRecords(c)
        BY <1>2, <1>3 DEF Facts, PlaceFacts, Deleting
    <2>2. PICK q \in Procs : Stores(q, j)
        BY <2>1 DEF MapInv, Owned
    <2>3. req'[q] = req[q] /\ pc'[q] = pc[q] /\ db'[q] = db[q]
        BY <1>1, <1>2, <2>2 DEF Stores, StandStill, Ended
    <2> QED BY <1>1, <2>2, <2>3 DEF Stores, ContentSame, IsStore, Op
<1> QED BY <1>1, <1>4, <1>5, <1>6, Together

LEMMA LinkMap ==
    ASSUME LockInv, LockInv', FileInv, FileInv', ListInv, Facts, MapInv,
           NEW p \in Procs, Link(p)
    PROVE  MapInv'
<1>1. StandStill(p) /\ ContentSame /\ RetKept(p) /\ Informed(p)'
    BY OneAtATime, PointerContent, PointerInformed DEF Step
<1>2. pc[p] = "link" /\ Op(p) # "fetch" /\ Chain(p) \in Chains
    BY MyChain DEF Link, KeyedCall, LockInv, Matched, StoreOnly
<1>3. \A c \in Chains : ChainRecords(c)' = IF c = Chain(p) THEN {db[p].off} \cup ChainRecords(c)
                                                            ELSE ChainRecords(c)
    <2>1. PICK d \in Chains : d = Chain(p)
        BY <1>2
    <2>2. ChainRecords(Chain(p))' = ChainRecords(d)'
        <3>1. Chain(p)' = Chain(p)
            BY DEF Link, Chain
        <3> QED BY <2>1, <3>1 DEF ChainRecords
    <2> QED BY <2>1, <2>2, ChainGrows
<1>4. \A q \in Procs \ {p} : Untouched(q)
    <2>1. \A c \in Chains : ~UpdatesChain(p, c) => c # Chain(p)
        BY <1>2 DEF UpdatesChain, OnChain, KeyedCall
    <2> QED BY <1>1, <1>3, <2>1, ContentUntouched
<1>5. DataKept'
    <2> SUFFICES ASSUME NEW c \in Chains, NEW i \in ChainRecords(c)',
                        idx'[i].key # Blank, dat'[idx'[i].datoff] = Blank
                 PROVE  \E q \in Procs : pc'[q] = "d_idx" /\ db'[q].off = i
        BY DEF DataKept
    <2>1. i \in ChainRecords(c) \/ i = db[p].off
        BY <1>3
    <2>2. /\ db[p].off \in DOMAIN idx
          /\ dat[idx[db[p].off].datoff] # Blank
        <3>1. dat[idx[db[p].off].datoff] = req[p].data /\ req[p].data \in Data
            BY <1>2, StoreRequest DEF MapInv, Brings, StoreOnly
        <3> QED BY <1>2, <3>1, DbAssumption DEF Facts, PlaceFacts, InHand
    <2>3. i \in ChainRecords(c) /\ idx[i].key # Blank /\ dat[idx[i].datoff] = Blank
        BY <1>1, <2>1, <2>2 DEF ContentSame, Facts, ChainFacts
    <2>4. PICK q \in Procs : pc[q] = "d_idx" /\ db[q].off = i
        BY <2>3 DEF MapInv, DataKept
    <2> QED BY <1>1, <1>2, <2>4 DEF StandStill
<1>6. Owned'
    <2> SUFFICES ASSUME NEW j \in DOMAIN idx, idx[j].key # Blank,
                        \A c \in Chains : j \notin ChainRecords(c)'
                 PROVE  \E q \in Procs : Stores(q, j)'
        BY <1>1 DEF Owned, ContentSame
    <2>1. j # db[p].off /\ \A c \in Chains : j \notin ChainRecords(c)
        BY <1>2, <1>3
    <2>2. PICK q \in Procs : Stores(q, j)
        BY <2>1 DEF MapInv, Owned
    <2>3. req'[q] = req[q] /\ pc'[q] = pc[q] /\ db'[q] = db[q]
        BY <1>1, <1>2, <2>1, <2>2 DEF Stores, StandStill, Ended
    <2> QED BY <1>1, <2>2, <2>3 DEF Stores, ContentSame, IsStore, Op
<1> QED BY <1>1, <1>4, <1>5, <1>6, Together

\* Writing one data record: no index record in another hand names it, and if
\* it is blanked, the record that names it is being deleted.
LEMMA DataStep ==
    ASSUME LockInv, FileInv, Facts, MapInv, NEW p \in Procs, StandStill(p), RetKept(p),
           idx' = idx, \A c \in Chains : ChainRecords(c)' = ChainRecords(c),
           pc[p] \notin {"d_idx", "link"} \cup Ended,
           NEW d, \A e \in DOMAIN dat : e # d => dat'[e] = dat[e],
           \A q \in Procs \ {p} :
               /\ \A i \in InHand(q) : idx[i].datoff # d
               /\ Appended(q) \/ pc[q] = "d_idx" => db[q].datoff # d,
           \A i \in DOMAIN idx : idx[i].datoff = d =>
               idx[i].key = Blank \/ \E c \in Chains : i \in ChainRecords(c),
           dat'[d] = Blank => \A i \in DOMAIN idx :
               idx[i].datoff = d => pc'[p] = "d_idx" /\ db'[p].off = i,
           Informed(p)'
    PROVE  MapInv'
<1>1. \A i \in DOMAIN idx : idx[i].datoff \in DOMAIN dat
    BY DEF FileInv, NoDangling
<1>2. ASSUME NEW q \in Procs \ {p}
      PROVE  Untouched(q)
    <2>1. ASSUME pc[q] \in Aiming
          PROVE  db[q].off \in ChainRecords(Chain(q))'
        <3>1. PICK c \in Chains : c = Chain(q)
            BY <2>1, MyChain DEF Aiming, KeyedCall
        <3>2. Chain(q)' = Chain(q)
            BY DEF StandStill, Chain
        <3>3. ChainRecords(Chain(q))' = ChainRecords(c)'
            BY <3>1, <3>2 DEF ChainRecords
        <3> QED BY <2>1, <3>1, <3>3 DEF MapInv, Aimed, Aiming
    <2>2. /\ pc[q] \in {"d_idx", "u_idx", "a_idx", "a_idx_write"} =>
                 db[q].datoff \in DOMAIN dat /\ db[q].datoff # d
          /\ pc[q] = "link" => idx[db[q].off].datoff \in DOMAIN dat /\ idx[db[q].off].datoff # d
        <3>1. pc[q] \in {"u_idx", "link"} =>
                  db[q].off \in DOMAIN idx /\ idx[db[q].off].datoff # d
            BY DEF Facts, PlaceFacts, InHand
        <3>2. Handle(q)
            BY DEF FileInv
        <3>3. pc[q] = "d_idx" => db[q].datoff \in DOMAIN dat
            BY <1>1, <3>2 DEF Handle, MapInv, Aimed
        <3> QED BY <1>1, <3>1, <3>2, <3>3 DEF Handle, Appended
    <2> QED BY <2>1, <2>2 DEF Untouched
<1>3. DataKept'
    <2> SUFFICES ASSUME NEW c \in Chains, NEW i \in ChainRecords(c),
                        idx[i].key # Blank, dat'[idx[i].datoff] = Blank
                 PROVE  \E q \in Procs : pc'[q] = "d_idx" /\ db'[q].off = i
        BY DEF DataKept
    <2>1. i \in DOMAIN idx
        BY DEF Facts, ChainFacts
    <2>2. CASE idx[i].datoff = d
        BY <2>1, <2>2
    <2>3. CASE idx[i].datoff # d
        <3>1. PICK q \in Procs : pc[q] = "d_idx" /\ db[q].off = i
            BY <1>1, <2>1, <2>3 DEF MapInv, DataKept
        <3> QED BY <3>1 DEF StandStill
    <2> QED BY <2>2, <2>3
<1>4. Owned'
    <2> SUFFICES ASSUME NEW j \in DOMAIN idx, idx[j].key # Blank,
                        \A c \in Chains : j \notin ChainRecords(c)
                 PROVE  \E q \in Procs : Stores(q, j)'
        BY DEF Owned
    <2>1. PICK q \in Procs : Stores(q, j)
        BY DEF MapInv, Owned
    <2>2. req'[q] = req[q] /\ pc'[q] = pc[q] /\ db'[q] = db[q]
        BY <2>1 DEF Stores, StandStill
    <2>3. dat'[idx[j].datoff] = dat[idx[j].datoff]
        BY <1>1
    <2> QED BY <2>1, <2>2, <2>3 DEF Stores, IsStore, Op
<1> QED BY <1>2, <1>3, <1>4, Together

\* The data record of an index record that no other process has in hand or is
\* deleting.
LEMMA NamedData ==
    ASSUME FileInv, Facts, MapInv, NEW p \in Procs, NEW i \in DOMAIN idx,
           \A q \in Procs \ {p} : i \notin InHand(q) /\ (pc[q] = "d_idx" => db[q].off # i)
    PROVE  /\ \A q \in Procs \ {p} :
                 /\ \A j \in InHand(q) : idx[j].datoff # idx[i].datoff
                 /\ Appended(q) \/ pc[q] = "d_idx" => db[q].datoff # idx[i].datoff
           /\ \A j \in DOMAIN idx : idx[j].datoff = idx[i].datoff => j = i
<1>1. \A j \in DOMAIN idx : idx[j].datoff = idx[i].datoff => j = i
    BY DEF FileInv, DataNotShared
<1>2. ASSUME NEW q \in Procs \ {p}
      PROVE  /\ \A j \in InHand(q) : idx[j].datoff # idx[i].datoff
             /\ Appended(q) \/ pc[q] = "d_idx" => db[q].datoff # idx[i].datoff
    <2>1. \A j \in InHand(q) : j \in DOMAIN idx
        BY DEF Facts, PlaceFacts
    <2>2. Fresh(q) /\ Handle(q)
        BY DEF FileInv
    <2>3. pc[q] = "d_idx" => db[q].off \in DOMAIN idx /\ idx[db[q].off].datoff = db[q].datoff
        BY <2>2 DEF Handle, MapInv, Aimed
    <2> QED BY <1>1, <2>1, <2>2, <2>3 DEF Fresh
<1> QED BY <1>1, <1>2

\* Writing over the data of a record on the chain of p.
LEMMA OnChainData ==
    ASSUME LockInv, FileInv, Facts, MapInv, NEW p \in Procs, pc[p] \in {"overwrite", "d_lock"}
    PROVE  /\ db[p].off \in DOMAIN idx /\ db[p].datoff = idx[db[p].off].datoff
           /\ db[p].datoff \in DOMAIN dat
           /\ \E c \in Chains : c = Chain(p) /\ db[p].off \in ChainRecords(c)
           /\ \A q \in Procs \ {p} :
                 db[p].off \notin InHand(q) /\ (pc[q] = "d_idx" => db[q].off # db[p].off)
<1>1. PICK c \in Chains : c = Chain(p) /\ db[p].off \in ChainRecords(c)
    BY MyChain DEF KeyedCall, MapInv, Aimed
<1>2. db[p].off \in DOMAIN idx /\ db[p].datoff = idx[db[p].off].datoff
    BY <1>1 DEF Facts, ChainFacts, MapInv, Aimed
<1>3. db[p].datoff \in DOMAIN dat
    BY DEF FileInv, Handle
<1>4. \A q \in Procs \ {p} : db[p].off \notin InHand(q)
    BY <1>1 DEF Facts, PlaceFacts
<1>5. ASSUME NEW q \in Procs \ {p}, pc[q] = "d_idx"
      PROVE  db[q].off # db[p].off
    <2>1. PICK b \in Chains : b = Chain(q) /\ db[q].off \in ChainRecords(b)
        BY <1>5, MyChain DEF KeyedCall, MapInv, Aimed
    <2>2. Op(p) # "fetch"
        BY DEF LockInv, Matched, StoreOnly, DeleteOrStore
    <2>3. b # c
        BY <1>1, <1>5, <2>1, <2>2, CriticalSectionsHeld DEF CriticalSections, OnChain, KeyedCall
    <2> QED BY <1>1, <2>1, <2>3 DEF Facts, ChainFacts
<1> QED BY <1>1, <1>2, <1>3, <1>4, <1>5

LEMMA DataMap ==
    ASSUME LockInv, LockInv', FileInv, FileInv', ListInv, Facts, MapInv, NoKillInDelete,
           NEW p \in Procs, Overwrite(p) \/ DeleteData(p) \/ ReuseData(p) \/ AppendData(p)
    PROVE  MapInv'
<1>1. StandStill(p)
    BY OneAtATime DEF Step
<1>2. \A c \in Chains : ChainRecords(c)' = ChainRecords(c)
    <2>1. Step(p) /\ ~DeleteUnlink(p) /\ ~Link(p)
        BY DEF Step, Overwrite, DeleteData, ReuseData, AppendData, DeleteUnlink, Link
    <2> QED BY <2>1, ChainsStay DEF NoKillInDelete, NoKillDeleting
<1>3. /\ pc \in [Procs -> {"idle"} \cup InCall \cup Ended]
      /\ ret = [q \in Procs |-> ret[q]]
      /\ Results(p) /\ FileTypes
      /\ DOMAIN dat = 1..Len(dat) /\ Len(dat) \in Nat
      /\ \A c \in Chains : \A i \in ChainRecords(c) : i \in DOMAIN idx
    BY Knows DEF LockInv, MapInv, Facts, ChainFacts
<1> USE DEF Undecided, Replacing, Appending, Unaimed, Ended, NextCall
<1>4. CASE Overwrite(p)
    <2> DEFINE d == db[p].datoff
    <2>1. /\ pc[p] = "overwrite" /\ pc'[p] = "unlock"
          /\ dat' = [dat EXCEPT ![d] = req[p].data]
          /\ idx' = idx /\ ret'[p] = "ok" /\ RetKept(p)
        BY <1>3, <1>4 DEF Overwrite, Goto, Result, RetKept
    <2>2. Informed(p)'
        BY <2>1, DbAssumption, JustResults DEF Results
    <2>3. /\ db[p].off \in DOMAIN idx /\ d = idx[db[p].off].datoff /\ d \in DOMAIN dat
          /\ \E c \in Chains : db[p].off \in ChainRecords(c)
          /\ \A q \in Procs \ {p} :
                db[p].off \notin InHand(q) /\ (pc[q] = "d_idx" => db[q].off # db[p].off)
        BY <2>1, OnChainData
    <2>4. /\ \A e \in DOMAIN dat : e # d => dat'[e] = dat[e]
          /\ dat'[d] # Blank
        <3>1. dat'[d] = req[p].data /\ req[p].data # Blank
            BY <2>1, <2>3, StoreRequest, DbAssumption DEF StoreOnly
        <3> QED BY <2>1, <2>3, <3>1
    <2>5. /\ \A q \in Procs \ {p} :
                 /\ \A i \in InHand(q) : idx[i].datoff # d
                 /\ Appended(q) \/ pc[q] = "d_idx" => db[q].datoff # d
          /\ \A i \in DOMAIN idx : idx[i].datoff = d => i = db[p].off
        BY <2>3, NamedData
    <2> HIDE DEF d
    <2> QED BY <1>1, <1>2, <2>1, <2>2, <2>3, <2>4, <2>5, DataStep
<1>5. CASE DeleteData(p)
    <2> DEFINE d == db[p].datoff
    <2>1. /\ pc[p] = "d_lock" /\ pc'[p] = "d_idx"
          /\ dat' = [dat EXCEPT ![d] = Blank]
          /\ idx' = idx /\ req' = req /\ db' = db /\ ret'[p] = "ok" /\ RetKept(p)
        BY <1>3, <1>5 DEF DeleteData, Goto, Result, RetKept
    <2>3. /\ db[p].off \in DOMAIN idx /\ d = idx[db[p].off].datoff /\ d \in DOMAIN dat
          /\ \E c \in Chains : c = Chain(p) /\ db[p].off \in ChainRecords(c)
          /\ \A q \in Procs \ {p} :
                db[p].off \notin InHand(q) /\ (pc[q] = "d_idx" => db[q].off # db[p].off)
        BY <2>1, OnChainData
    <2>2. Informed(p)'
        <3>1. PICK c \in Chains : c = Chain(p) /\ db[p].off \in ChainRecords(c)
            BY <2>3
        <3>2. Chain(p)' = Chain(p) /\ ChainRecords(Chain(p))' = ChainRecords(c)'
            BY <2>1, <3>1 DEF Chain, ChainRecords
        <3>3. db[p].off \in ChainRecords(Chain(p))'
            BY <1>2, <3>1, <3>2
        <3>4. Aimed(p)
            BY DEF MapInv
        <3>5. Aimed(p)'
            BY <2>1, <2>3, <3>3, <3>4 DEF Aimed
        <3> QED BY <2>1, <3>5, DbAssumption DEF Informed, Brings, ReadsOn, Results
    <2>4. \A e \in DOMAIN dat : e # d => dat'[e] = dat[e]
        BY <2>1, <2>3
    <2>5. /\ \A q \in Procs \ {p} :
                 /\ \A i \in InHand(q) : idx[i].datoff # d
                 /\ Appended(q) \/ pc[q] = "d_idx" => db[q].datoff # d
          /\ \A i \in DOMAIN idx : idx[i].datoff = d => i = db[p].off
        BY <2>3, NamedData
    <2> HIDE DEF d
    <2> QED BY <1>1, <1>2, <2>1, <2>2, <2>3, <2>4, <2>5, DataStep
<1>6. CASE ReuseData(p)
    <2> DEFINE d == db[p].datoff
    <2>1. /\ pc[p] = "u_dat" /\ pc'[p] = "u_idx"
          /\ dat' = [dat EXCEPT ![d] = req[p].data]
          /\ idx' = idx /\ req' = req /\ db' = db /\ ret' = ret /\ RetKept(p)
        BY <1>3, <1>6 DEF ReuseData, Goto, RetKept
    <2>2. /\ db[p].off \in DOMAIN idx /\ d = idx[db[p].off].datoff /\ d \in DOMAIN dat
          /\ idx[db[p].off].key = Blank
          /\ \A q \in Procs \ {p} :
                db[p].off \notin InHand(q) /\ (pc[q] = "d_idx" => db[q].off # db[p].off)
        <3>1. Handle(p) /\ NoDangling /\ Brings(p) /\ PlaceFacts(p)
            BY DEF FileInv, MapInv, Facts
        <3>2. db[p].off \in InHand(p)
            BY <2>1 DEF InHand
        <3>3. \A q \in Procs \ {p} : db[p].off \notin InHand(q)
            BY <3>1, <3>2 DEF PlaceFacts
        <3>4. ASSUME NEW q \in Procs \ {p}, pc[q] = "d_idx"
              PROVE  db[q].off # db[p].off
            <4>1. PICK b \in Chains : b = Chain(q) /\ db[q].off \in ChainRecords(b)
                BY <3>4, MyChain DEF KeyedCall, MapInv, Aimed
            <4> QED BY <3>1, <3>2, <4>1 DEF PlaceFacts
        <3> QED BY <2>1, <3>1, <3>3, <3>4 DEF Handle, NoDangling, Brings
    <2>3. /\ \A e \in DOMAIN dat : e # d => dat'[e] = dat[e]
          /\ dat'[d] = req[p].data /\ dat'[d] # Blank
        <3>1. dat'[d] = req[p].data /\ req[p].data # Blank
            BY <2>1, <2>2, StoreRequest, DbAssumption DEF StoreOnly
        <3> QED BY <2>1, <2>2, <3>1
    <2>4. Informed(p)'
        BY <1>3, <2>1, <2>2, <2>3 DEF Informed, Aimed, Brings, ReadsOn, Results
    <2>5. /\ \A q \in Procs \ {p} :
                 /\ \A i \in InHand(q) : idx[i].datoff # d
                 /\ Appended(q) \/ pc[q] = "d_idx" => db[q].datoff # d
          /\ \A i \in DOMAIN idx : idx[i].datoff = d => i = db[p].off
        BY <2>2, NamedData
    <2> HIDE DEF d
    <2> QED BY <1>1, <1>2, <2>1, <2>2, <2>3, <2>4, <2>5, DataStep
<1>7. CASE AppendData(p)
    <2> DEFINE d == db[p].datoff
    <2>1. /\ pc[p] = "a_dat_write" /\ pc'[p] = "a_idx"
          /\ dat' = WriteAt(dat, d, req[p].data)
          /\ idx' = idx /\ req' = req /\ db' = db /\ ret' = ret /\ RetKept(p)
        BY <1>3, <1>7 DEF AppendData, Goto, RetKept
    <2>2. d = Len(dat) + 1
        BY <2>1 DEF FileInv, Handle
    <2>3. /\ \A e \in DOMAIN dat : e # d => dat'[e] = dat[e]
          /\ dat'[d] = req[p].data /\ dat'[d] # Blank
        <3>1. req[p].data \in Data /\ req[p].data # Blank
            BY <2>1, StoreRequest, DbAssumption DEF StoreOnly
        <3>2. d \in 1..(Len(dat) + 1) /\ dat \in Seq(Data \cup {Blank})
            BY <1>3, <2>2 DEF FileTypes
        <3> HIDE DEF d
        <3>3. /\ dat'[d] = req[p].data
              /\ \A e \in 1..Len(dat) : e # d => dat'[e] = dat[e]
            <4> DEFINE v == req[p].data
                       S == Data \cup {Blank}
            <4>1. dat' = WriteAt(dat, d, v) /\ v \in S /\ dat \in Seq(S)
                BY <2>1, <3>1, <3>2
            <4> HIDE DEF v, S
            <4>2. /\ dat'[d] = v
                  /\ \A e \in 1..Len(dat) : e # d => dat'[e] = dat[e]
                BY <3>2, <4>1, WriteAtProperties
            <4> QED BY <4>2 DEF v
        <3> QED BY <1>3, <3>1, <3>3
    <2>4. Informed(p)'
        BY <1>3, <2>1, <2>3 DEF Informed, Aimed, Brings, ReadsOn, Results
    <2>5. d \notin DOMAIN dat /\ \A i \in DOMAIN idx : idx[i].datoff # d
        BY <1>3, <2>2 DEF FileInv, NoDangling
    <2>6. \A q \in Procs \ {p} :
              /\ \A i \in InHand(q) : idx[i].datoff # d
              /\ Appended(q) \/ pc[q] = "d_idx" => db[q].datoff # d
        BY <2>5 DEF Facts, PlaceFacts, FileInv, Handle, Appended, MapInv, Aimed
    <2> HIDE DEF d
    <2> QED BY <1>1, <1>2, <2>1, <2>3, <2>4, <2>5, <2>6, DataStep
<1> QED BY <1>4, <1>5, <1>6, <1>7

\* Writing one index record: one that is being deleted, or that of a store.
LEMMA IndexStep ==
    ASSUME LockInv, FileInv, Facts, MapInv, NEW p \in Procs, StandStill(p), RetKept(p),
           dat' = dat, \A c \in Chains : ChainRecords(c)' = ChainRecords(c),
           pc[p] \notin {"link"} \cup Ended,
           NEW i, DOMAIN idx \subseteq DOMAIN idx', DOMAIN idx' \subseteq DOMAIN idx \cup {i},
           \A j \in DOMAIN idx : j # i => idx'[j].key = idx[j].key /\ idx'[j].datoff = idx[j].datoff,
           idx'[i].key = Blank \/ \A c \in Chains : i \notin ChainRecords(c),
           pc[p] = "d_idx" => db[p].off = i /\ idx'[i].key = Blank,
           \A q \in Procs \ {p} :
               /\ pc[q] \in Aiming \cup {"u_dat", "u_idx", "link"} => db[q].off # i
               /\ pc[q] = "n_dat" => i \notin DOMAIN idx \/ idx[i].key = Blank,
           idx'[i].key # Blank => Stores(p, i)',
           Informed(p)'
    PROVE  MapInv'
<1>2. ASSUME NEW q \in Procs \ {p}
      PROVE  Untouched(q)
    <2>1. ASSUME pc[q] \in Aiming
          PROVE  db[q].off \in ChainRecords(Chain(q))' /\ db[q].off \in DOMAIN idx
        <3>1. PICK c \in Chains : c = Chain(q)
            BY <2>1, MyChain DEF Aiming, KeyedCall
        <3>2. Chain(q)' = Chain(q)
            BY DEF StandStill, Chain
        <3>3. ChainRecords(Chain(q))' = ChainRecords(c)'
            BY <3>1, <3>2 DEF ChainRecords
        <3> QED BY <2>1, <3>1, <3>3 DEF MapInv, Aimed, Aiming, Facts, ChainFacts
    <2>2. pc[q] \in {"u_dat", "u_idx", "link"} => db[q].off \in DOMAIN idx
        BY DEF Facts, PlaceFacts, InHand
    <2> QED BY <2>1, <2>2 DEF Untouched
<1>3. DataKept'
    <2> SUFFICES ASSUME NEW c \in Chains, NEW j \in ChainRecords(c),
                        idx'[j].key # Blank, dat[idx'[j].datoff] = Blank
                 PROVE  \E q \in Procs : pc'[q] = "d_idx" /\ db'[q].off = j
        BY DEF DataKept
    <2>1. j \in DOMAIN idx /\ j # i
        BY DEF Facts, ChainFacts
    <2>2. PICK q \in Procs : pc[q] = "d_idx" /\ db[q].off = j
        BY <2>1 DEF MapInv, DataKept
    <2> QED BY <2>1, <2>2 DEF StandStill
<1>4. Owned'
    <2> SUFFICES ASSUME NEW j \in DOMAIN idx', idx'[j].key # Blank,
                        \A c \in Chains : j \notin ChainRecords(c)
                 PROVE  \E q \in Procs : Stores(q, j)'
        BY DEF Owned
    <2>1. CASE j = i
        BY <2>1
    <2>2. CASE j # i
        <3>1. j \in DOMAIN idx /\ idx'[j].key = idx[j].key /\ idx'[j].datoff = idx[j].datoff
            BY <2>2
        <3>2. PICK q \in Procs : Stores(q, j)
            BY <3>1 DEF MapInv, Owned
        <3>3. req'[q] = req[q] /\ pc'[q] = pc[q] /\ db'[q] = db[q]
            BY <3>2 DEF Stores, StandStill
        <3> QED BY <3>1, <3>2, <3>3 DEF Stores, IsStore, Op
    <2> QED BY <2>1, <2>2
<1> QED BY <1>2, <1>3, <1>4, Together

LEMMA DeleteIndexMap ==
    ASSUME LockInv, LockInv', FileInv, FileInv', ListInv, Facts, MapInv, NoKillInDelete,
           NEW p \in Procs, DeleteIndex(p)
    PROVE  MapInv'
<1> DEFINE i == db[p].off
<1>1. StandStill(p)
    BY OneAtATime DEF Step
<1>2. \A c \in Chains : ChainRecords(c)' = ChainRecords(c)
    <2>1. Step(p) /\ ~DeleteUnlink(p) /\ ~Link(p)
        BY DEF Step, DeleteIndex, DeleteUnlink, Link
    <2> QED BY <2>1, ChainsStay DEF NoKillInDelete, NoKillDeleting
<1>3. /\ pc \in [Procs -> {"idle"} \cup InCall \cup Ended]
      /\ ret = [q \in Procs |-> ret[q]]
      /\ Results(p)
    BY DEF LockInv, MapInv
<1>4. /\ pc[p] = "d_idx" /\ pc'[p] = "d_free"
      /\ idx' = [idx EXCEPT ![i].key = Blank, ![i].ptr = table[FREE_OFF]]
      /\ dat' = dat /\ ret' = ret /\ req' = req
    BY <1>3 DEF DeleteIndex, Goto
<1>5. RetKept(p) /\ Informed(p)'
    <2>1. Results(p)'
        BY <1>3, <1>4 DEF Results, Undecided, Replacing, Appending, NextCall, Ended
    <2> QED BY <1>3, <1>4, <2>1, JustResults DEF RetKept, Unaimed
<1>6. PICK c \in Chains : c = Chain(p) /\ i \in ChainRecords(c)
    BY <1>4, MyChain DEF KeyedCall, MapInv, Aimed
<1>7. i \in DOMAIN idx
    BY <1>6 DEF Facts, ChainFacts
<1>8. /\ DOMAIN idx' = DOMAIN idx
      /\ \A j \in DOMAIN idx : j # i => idx'[j] = idx[j]
      /\ idx'[i].key = Blank
    <2>1. idx[i] \in IndexRecords
        BY <1>7, SeqFacts DEF FileInv
    <2> HIDE DEF i
    <2>2. DOMAIN idx' = DOMAIN idx /\ \A j \in DOMAIN idx : j # i => idx'[j] = idx[j]
        BY <1>4
    <2>3. idx'[i].key = Blank
        BY <1>4, <1>7, <2>1, ZenonT(60) DEF IndexRecords
    <2> QED BY <2>2, <2>3
<1>9. ASSUME NEW q \in Procs \ {p}
      PROVE  /\ pc[q] \in Aiming \cup {"u_dat", "u_idx", "link"} => db[q].off # i
             /\ pc[q] # "n_dat"
    <2>1. pc[q] # "n_dat"
        BY <1>4, CriticalSectionsHeld DEF CriticalSections, OnFreeList, ReadsFreeList
    <2>2. pc[q] \in {"u_dat", "u_idx", "link"} => db[q].off # i
        BY <1>6 DEF Facts, PlaceFacts, InHand
    <2>3. ASSUME pc[q] \in Aiming
          PROVE  db[q].off # i
        <3>1. PICK b \in Chains : b = Chain(q)
            BY <2>3, MyChain DEF Aiming, KeyedCall
        <3>2. Op(p) # "fetch"
            BY <1>4 DEF LockInv, Matched, DeleteOrStore
        <3>3. b # c
            BY <1>4, <1>6, <2>3, <3>1, <3>2, CriticalSectionsHeld
               DEF CriticalSections, OnChain, Aiming, KeyedCall
        <3>4. db[q].off \in ChainRecords(b)
            BY <2>3, <3>1 DEF MapInv, Aimed, Aiming
        <3> QED BY <1>6, <3>3, <3>4 DEF Facts, ChainFacts
    <2> QED BY <2>1, <2>2, <2>3
<1>10. pc[p] \notin {"link"} \cup Ended
    BY <1>4 DEF Ended
<1> HIDE DEF i
<1>11. pc[p] = "d_idx" => db[p].off = i /\ idx'[i].key = Blank
    BY <1>8 DEF i
<1>12. /\ DOMAIN idx \subseteq DOMAIN idx' /\ DOMAIN idx' \subseteq DOMAIN idx \cup {i}
       /\ \A j \in DOMAIN idx : j # i =>
             idx'[j].key = idx[j].key /\ idx'[j].datoff = idx[j].datoff
       /\ idx'[i].key = Blank
    BY <1>8
<1>13. \A q \in Procs \ {p} :
           /\ pc[q] \in Aiming \cup {"u_dat", "u_idx", "link"} => db[q].off # i
           /\ pc[q] = "n_dat" => i \notin DOMAIN idx \/ idx[i].key = Blank
    BY <1>9
<1>14. dat' = dat
    BY <1>4
<1> QED BY <1>1, <1>2, <1>5, <1>10, <1>11, <1>12, <1>13, <1>14, IndexStep

\* The record of a store, written where it was free or behind the last one.
LEMMA RecordPut ==
    ASSUME LockInv, FileInv, Facts, MapInv, NEW p \in Procs, ReuseIndex(p) \/ AppendIndex(p),
           NEW i, NEW rec, i = db[p].off, rec = IndexRecord(p)
    PROVE  /\ rec.key = req[p].key /\ rec.key # Blank /\ rec.datoff = db[p].datoff
           /\ DOMAIN idx \subseteq DOMAIN idx' /\ DOMAIN idx' \subseteq DOMAIN idx \cup {i}
           /\ \A j \in DOMAIN idx : j # i => idx'[j] = idx[j]
           /\ idx'[i] = rec /\ i \in DOMAIN idx'
           /\ i \in DOMAIN idx => i \in InHand(p) /\ idx[i].key = Blank
           /\ \A c \in Chains : i \notin ChainRecords(c)
<1>3. /\ Brings(p) /\ Handle(p) /\ FileTypes /\ idx \in Seq(IndexRecords)
      /\ Len(idx) \in Nat /\ DOMAIN idx = 1..Len(idx)
    BY Knows DEF MapInv, FileTypes
<1>4. /\ pc[p] \in {"u_idx", "a_idx_write"}
      /\ pc[p] = "u_idx" => idx' = [idx EXCEPT ![i] = rec]
      /\ pc[p] = "a_idx_write" => idx' = WriteAt(idx, i, rec)
    BY DEF ReuseIndex, AppendIndex
<1>5. /\ rec \in IndexRecords /\ rec.key = req[p].key /\ rec.key # Blank
      /\ rec.datoff = db[p].datoff
    <2>1. req[p].key \in Keys /\ KeyLen[req[p].key] \in Nat /\ DatLen[req[p].data] \in Nat
        BY <1>4, StoreRequest DEF StoreOnly
    <2>2. db[p] \in DBs
        BY Knows
    <2> QED BY <2>1, <2>2, DbAssumption DEF IndexRecord, IndexRecords, DBs
<1>6. /\ DOMAIN idx \subseteq DOMAIN idx' /\ DOMAIN idx' \subseteq DOMAIN idx \cup {i}
      /\ \A j \in DOMAIN idx : j # i => idx'[j] = idx[j]
      /\ idx'[i] = rec /\ i \in DOMAIN idx'
    <2>1. CASE pc[p] = "u_idx"
        <3>1. i \in DOMAIN idx /\ idx' = [idx EXCEPT ![i] = rec]
            BY <1>3, <1>4, <2>1 DEF Handle
        <3> QED BY <3>1
    <2>2. CASE pc[p] = "a_idx_write"
        <3>1. i = Len(idx) + 1 /\ i \in 1..(Len(idx) + 1) /\ idx' = WriteAt(idx, i, rec)
            BY <1>3, <1>4, <2>2 DEF Handle
        <3>2. /\ idx' \in Seq(IndexRecords) /\ Len(idx') = Len(idx) + 1
              /\ idx'[i] = rec
              /\ \A j \in 1..Len(idx) : j # i => idx'[j] = idx[j]
            <4>1. rec \in IndexRecords /\ idx \in Seq(IndexRecords)
                BY <1>3, <1>5
            <4>2. WriteAt(idx, i, rec) = Append(idx, rec)
                BY <3>1, <4>1, WriteAtEnd
            <4>3. idx' = Append(idx, rec)
                BY <3>1, <4>2
            <4> QED BY <3>1, <4>1, <4>3, AppendProperties
        <3>3. DOMAIN idx' = 1..(Len(idx) + 1)
            BY <3>2, LenProperties
        <3> QED BY <1>3, <3>1, <3>2, <3>3
    <2> QED BY <1>4, <2>1, <2>2
<1>7. i \in DOMAIN idx => i \in InHand(p) /\ idx[i].key = Blank
    <2>1. i \in DOMAIN idx => pc[p] = "u_idx"
        BY <1>3, <1>4 DEF Handle
    <2> QED BY <1>3, <2>1 DEF InHand, Brings
<1>8. \A c \in Chains : i \notin ChainRecords(c)
    BY <1>7 DEF Facts, ChainFacts, PlaceFacts
<1> QED BY <1>5, <1>6, <1>7, <1>8

LEMMA RecordMap ==
    ASSUME LockInv, LockInv', FileInv, FileInv', ListInv, Facts, MapInv, NoKillInDelete,
           NEW p \in Procs, ReuseIndex(p) \/ AppendIndex(p)
    PROVE  MapInv'
<1>0. PICK i, rec : i = db[p].off /\ rec = IndexRecord(p)
    OBVIOUS
<1>1. StandStill(p)
    BY OneAtATime DEF Step
<1>2. \A c \in Chains : ChainRecords(c)' = ChainRecords(c)
    <2>1. Step(p) /\ ~DeleteUnlink(p) /\ ~Link(p)
        BY DEF Step, ReuseIndex, AppendIndex, DeleteUnlink, Link
    <2> QED BY <2>1, ChainsStay DEF NoKillInDelete, NoKillDeleting
<1>3. /\ pc \in [Procs -> {"idle"} \cup InCall \cup Ended]
      /\ ret = [q \in Procs |-> ret[q]]
      /\ Results(p) /\ Brings(p)
    BY DEF LockInv, MapInv
<1>4. /\ pc[p] \in {"u_idx", "a_idx_write"} /\ pc'[p] = "link"
      /\ dat' = dat /\ ret' = ret /\ req' = req /\ db' = db
    BY <1>3 DEF ReuseIndex, AppendIndex, Goto
<1>5. rec.key = req[p].key /\ rec.key # Blank /\ rec.datoff = db[p].datoff
    BY <1>0, RecordPut
<1>6. /\ DOMAIN idx \subseteq DOMAIN idx' /\ DOMAIN idx' \subseteq DOMAIN idx \cup {i}
      /\ \A j \in DOMAIN idx : j # i => idx'[j] = idx[j]
      /\ idx'[i] = rec /\ i \in DOMAIN idx'
    BY <1>0, RecordPut
<1>7. i \in DOMAIN idx => i \in InHand(p) /\ idx[i].key = Blank
    BY <1>0, RecordPut
<1>8. \A c \in Chains : i \notin ChainRecords(c)
    BY <1>0, RecordPut
<1>9. dat[db[p].datoff] = req[p].data
    BY <1>3, <1>4 DEF Brings
<1>10. RetKept(p) /\ Informed(p)'
    <2>1. Results(p)'
        BY <1>3, <1>4 DEF Results, Undecided, Replacing, Appending, NextCall, Ended
    <2>2. Brings(p)'
        BY <1>0, <1>4, <1>5, <1>6, <1>9 DEF Brings
    <2> QED BY <1>3, <1>4, <2>1, <2>2 DEF RetKept, Informed, Aimed, ReadsOn
<1>11. Stores(p, i)'
    <2>1. Op(p)' = "store"
        BY <1>4 DEF LockInv, Matched, StoreOnly, Op
    <2> QED BY <1>0, <1>4, <1>5, <1>6, <1>9, <2>1 DEF Stores, IsStore
<1>12. \A q \in Procs \ {p} :
           /\ pc[q] \in Aiming \cup {"u_dat", "u_idx", "link"} => db[q].off # i
           /\ pc[q] = "n_dat" => i \notin DOMAIN idx \/ idx[i].key = Blank
    <2> TAKE q \in Procs \ {p}
    <2>1. pc[q] \in {"u_dat", "u_idx", "link"} => db[q].off # i
        BY <1>7 DEF Facts, PlaceFacts, InHand
    <2>2. ASSUME pc[q] \in Aiming
          PROVE  db[q].off # i
        <3>1. PICK b \in Chains : b = Chain(q)
            BY <2>2, MyChain DEF Aiming, KeyedCall
        <3>2. db[q].off \in ChainRecords(b)
            BY <2>2, <3>1 DEF MapInv, Aimed, Aiming
        <3> QED BY <1>8, <3>2
    <2> QED BY <1>7, <2>1, <2>2
<1>13. \A j \in DOMAIN idx : j # i =>
           idx'[j].key = idx[j].key /\ idx'[j].datoff = idx[j].datoff
    BY <1>6
<1>14. /\ pc[p] \notin {"link"} \cup Ended /\ dat' = dat
       /\ pc[p] = "d_idx" => db[p].off = i /\ idx'[i].key = Blank
    BY <1>4 DEF Ended
<1>15. /\ idx'[i].key # Blank => Stores(p, i)'
       /\ idx'[i].key = Blank \/ \A c \in Chains : i \notin ChainRecords(c)
       /\ DOMAIN idx \subseteq DOMAIN idx' /\ DOMAIN idx' \subseteq DOMAIN idx \cup {i}
    BY <1>6, <1>8, <1>11
<1> QED BY <1>1, <1>2, <1>10, <1>12, <1>13, <1>14, <1>15, IndexStep

LEMMA MapInvInit == LockInv /\ FileInv /\ Init => MapInv
<1> SUFFICES ASSUME LockInv, FileInv, Init
             PROVE  MapInv
    OBVIOUS
<1>1. /\ ret = [p \in Procs |-> Unset] /\ pc = [p \in Procs |-> "idle"]
      /\ DOMAIN idx = {} /\ Facts
    <2>1. Facts
        BY FactsHold, ListInvInit
    <2> QED BY <2>1 DEF Init
<1>2. \A p \in Procs : Aimed(p) /\ Brings(p) /\ ReadsOn(p)
    BY <1>1 DEF Aimed, Brings, ReadsOn
<1>3. \A p \in Procs : Results(p)
    BY <1>1 DEF Results, Undecided, Replacing, Appending, NextCall
<1>4. DataKept /\ Owned
    BY <1>1 DEF DataKept, Owned, Facts, ChainFacts
<1> QED BY <1>1, <1>2, <1>3, <1>4 DEF MapInv

LEMMA MapInvStep ==
    ASSUME LockInv, LockInv', FileInv, FileInv', ListInv, MapInv, NoKillInDelete, [Next]_vars,
           ListInv'
    PROVE  MapInv'
<1>1. Facts
    BY FactsHold
<1>2. CASE UNCHANGED vars
    <2>1. /\ table' = table /\ idx' = idx /\ dat' = dat /\ pc' = pc /\ req' = req
          /\ db' = db /\ ret' = ret
        BY <1>2 DEF vars
    <2>2. ChainPtrs' = ChainPtrs /\ \A q \in Procs : Chain(q)' = Chain(q) /\ Op(q)' = Op(q)
        BY <2>1 DEF ChainPtrs, Places, ChainPtr, BeingDeleted, Deleting, ReadPtr, Chain, Op
    <2>3. \A c : ChainRecords(c)' = ChainRecords(c)
        BY <2>1, <2>2 DEF ChainRecords, Nth
    <2>4. \A q \in Procs : Informed(q)'
        BY <2>1, <2>2, <2>3 DEF MapInv, Informed, Aimed, Brings, ReadsOn, Results
    <2>5. DataKept'
        BY <2>1, <2>3 DEF MapInv, DataKept
    <2>6. Owned'
        BY <2>1, <2>2, <2>3 DEF MapInv, Owned, Stores, IsStore
    <2> QED BY <2>1, <2>4, <2>5, <2>6 DEF MapInv, Informed
<1>3. ASSUME NEW p \in Procs, Call(p) \/ Rewind(p) \/ Step(p) \/ Kill(p)
      PROVE  MapInv'
    BY <1>1, <1>3, QuietMap, UnlinkMap, LinkMap, DataMap, DeleteIndexMap, RecordMap DEF Step
<1> QED BY <1>2, <1>3 DEF Next

LEMMA MapInvAlways == ASSUME NoKillInDelete PROVE Spec => []MapInv
<1>1. NoKillDeleting
    BY DEF NoKillInDelete, NoKillDeleting
<1>2. Spec => []ListInv
    BY <1>1, ListInvAlways
<1>3. Init /\ LockInv /\ FileInv => MapInv
    BY MapInvInit
<1>4. MapInv /\ LockInv /\ LockInv' /\ FileInv /\ FileInv' /\ ListInv /\ ListInv'
          /\ [Next]_vars => MapInv'
    BY MapInvStep
<1> QED BY <1>2, <1>3, <1>4, LocksHeld, FileInvAlways, PTL DEF Spec

-----------------------------------------------------------------------------
(* What the map holds.                                                      *)

NotMoving(k) == \A p \in Procs : ~Moving(p, k)

\* The record i is the current one of key k.
Current(k, i) == i \in ChainRecords(Hash[k]) /\ idx[i].key = k

DataOf(i) == IF dat[idx[i].datoff] = Blank THEN None ELSE dat[idx[i].datoff]

\* Key k holds d: as data on the move, in its record, or nowhere.
Entry(k, d) ==
    \/ \E p \in Procs : Moving(p, k) /\ d = req[p].data
    \/ NotMoving(k) /\ \E i : Current(k, i) /\ d = DataOf(i)
    \/ NotMoving(k) /\ (\A i : ~Current(k, i)) /\ d = None

MapKnown == \A k \in Keys : (\E d : Entry(k, d)) /\ \A d : Entry(k, d) => Map[k] = d

\* A process that moves a record is alone on its chain.
LEMMA MoverOnChain ==
    ASSUME LockInv, MapInv, NEW p \in Procs, NEW k \in Keys, Moving(p, k)
    PROVE  /\ pc[p] \in Replacing \cup Appending
           /\ req[p].key = k /\ OnChain(p, Hash[k]) /\ Op(p) = "store"
           /\ \A q \in Procs : q # p => ~OnChain(q, Hash[k]) /\ ~Moving(q, k)
<1>1. /\ pc[p] \in {"idle"} \cup InCall \cup Ended
      /\ ret[p] = "ok" /\ Op(p) = "store" /\ req[p].key = k /\ pc[p] \notin {"unlock"} \cup Ended
    BY DEF Moving, IsStore, LockInv
<1>2. Results(p)
    BY DEF MapInv
<1>3. pc[p] \in Replacing \cup Appending
    BY <1>1, <1>2, DbAssumption DEF Results, Undecided, Replacing, Appending, NextCall,
       InCall, KeyedCall
<1>4. OnChain(p, Hash[k])
    BY <1>1, <1>3 DEF OnChain, Chain, Replacing, Appending, KeyedCall
<1>5. ASSUME NEW q \in Procs, q # p
      PROVE  ~OnChain(q, Hash[k])
    <2>1. Hash[k] \in Chains
        BY DbAssumption
    <2> QED BY <1>1, <1>4, <1>5, <2>1, CriticalSectionsHeld DEF CriticalSections
<1>6. ASSUME NEW q \in Procs, q # p
      PROVE  ~Moving(q, k)
    <2> SUFFICES ASSUME Moving(q, k)
                 PROVE  FALSE
        OBVIOUS
    <2>1. /\ pc[q] \in {"idle"} \cup InCall \cup Ended
          /\ ret[q] = "ok" /\ Op(q) = "store" /\ req[q].key = k /\ pc[q] \notin {"unlock"} \cup Ended
        BY DEF Moving, IsStore, LockInv
    <2>2. Results(q)
        BY DEF MapInv
    <2>3. pc[q] \in Replacing \cup Appending
        BY <2>1, <2>2, DbAssumption DEF Results, Undecided, Replacing, Appending, NextCall,
           InCall, KeyedCall
    <2>4. OnChain(q, Hash[k])
        BY <2>1, <2>3 DEF OnChain, Chain, Replacing, Appending, KeyedCall
    <2> QED BY <1>5, <1>6, <2>4
<1> QED BY <1>1, <1>3, <1>4, <1>5, <1>6

LEMMA MapIs == LockInv /\ FileInv /\ Facts /\ MapInv => MapKnown
<1> SUFFICES ASSUME LockInv, FileInv, Facts, MapInv, NEW k \in Keys
             PROVE  (\E d : Entry(k, d)) /\ \A d : Entry(k, d) => Map[k] = d
    BY DEF MapKnown
<1>1. Hash[k] \in Chains
    BY DbAssumption
<1>2. /\ \A i \in ChainRecords(Hash[k]) : i \in DOMAIN idx /\ i # 0
      /\ \A i, j : Current(k, i) /\ Current(k, j) => i = j
    <2>1. \A i \in DOMAIN idx : i # 0
        BY SeqFacts DEF FileInv
    <2> QED BY <1>1, <2>1 DEF Facts, ChainFacts, Current
<1>3. CASE \E p \in Procs : Moving(p, k)
    <2>1. PICK p \in Procs : Moving(p, k)
        BY <1>3
    <2>2. \A q \in Procs : Moving(q, k) => q = p
        BY <2>1, MoverOnChain
    <2>3. (CHOOSE q \in Procs : Moving(q, k)) = p
        BY <2>1, <2>2
    <2>4. Map[k] = req[p].data
        BY <2>1, <2>3 DEF Map
    <2> QED BY <2>1, <2>2, <2>4 DEF Entry, NotMoving
<1>4. CASE NotMoving(k)
    <2>1. Map[k] = IF RecordOf(k) = 0 \/ dat[idx[RecordOf(k)].datoff] = Blank
                     THEN None ELSE dat[idx[RecordOf(k)].datoff]
        BY <1>4 DEF Map, NotMoving
    <2>2. CASE \A i : ~Current(k, i)
        <3>1. {i \in ChainRecords(Hash[k]) : idx[i].key = k} = {}
            BY <1>2, <2>2 DEF Current
        <3>2. RecordOf(k) = 0
            BY <3>1 DEF RecordOf
        <3> QED BY <1>4, <2>1, <2>2, <3>2 DEF Entry, NotMoving
    <2>3. ASSUME NEW i, Current(k, i)
          PROVE  (\E d : Entry(k, d)) /\ \A d : Entry(k, d) => Map[k] = d
        <3> DEFINE S == {j \in ChainRecords(Hash[k]) : idx[j].key = k}
        <3>1. i \in S /\ \A j \in S : j = i
            BY <1>2, <2>3 DEF Current
        <3>2. S # {} /\ (CHOOSE j \in S : TRUE) = i
            BY <3>1
        <3>3. RecordOf(k) = i /\ i # 0
            BY <1>2, <2>3, <3>2 DEF RecordOf, Current
        <3>4. Map[k] = DataOf(i)
            BY <2>1, <3>3 DEF DataOf
        <3> QED BY <1>2, <1>4, <2>3, <3>4 DEF Entry, NotMoving
    <2> QED BY <2>2, <2>3
<1> QED BY <1>3, <1>4 DEF NotMoving

LEMMA MapIsNext ==
    ASSUME LockInv', FileInv', Facts', MapInv'
    PROVE  MapKnown'
BY MapIs, PTL

-----------------------------------------------------------------------------
(* How a step changes the map and the calls.                                *)

\* The current record of k is the same record, with the same data.
SameEntry(k) ==
    \A i : /\ Current(k, i)' <=> Current(k, i)
           /\ Current(k, i) => DataOf(i)' = DataOf(i)

LEMMA KeyStays ==
    ASSUME MapKnown, MapKnown', NEW p \in Procs, StandStill(p), RetKept(p), NEW k \in Keys,
           Moving(p, k) \/ SameEntry(k),
           Moving(p, k)' <=> Moving(p, k), Moving(p, k) => req'[p] = req[p]
    PROVE  Map'[k] = Map[k]
<1>1. \A q \in Procs : Moving(q, k)' <=> Moving(q, k)
    BY DEF StandStill, RetKept, Moving, IsStore, Op
<1>2. \A q \in Procs : Moving(q, k) => req'[q] = req[q]
    BY DEF StandStill
<1>3. PICK d : Entry(k, d)
    BY DEF MapKnown
<1>4. Entry(k, d)'
    <2>1. CASE \E q \in Procs : Moving(q, k)
        BY <1>1, <1>2, <1>3, <2>1 DEF Entry, NotMoving
    <2>2. CASE NotMoving(k)
        <3>1. NotMoving(k)' /\ SameEntry(k)
            BY <1>1, <2>2 DEF NotMoving
        <3> QED BY <1>3, <2>2, <3>1 DEF Entry, NotMoving, SameEntry
    <2> QED BY <2>1, <2>2 DEF NotMoving
<1>5. Map'[k] = d
    BY <1>4 DEF MapKnown
<1> QED BY <1>3, <1>5 DEF MapKnown

LEMMA Functions ==
    /\ Map = [k \in Keys |-> Map[k]] /\ Calls = [q \in Procs |-> Calls[q]]
    /\ (Map = [k \in Keys |-> Map[k]])' /\ (Calls = [q \in Procs |-> Calls[q]])'
BY DEF Map, Calls

Pending(r) == [st |-> "pending", req |-> r]
Decided(r, v) == [st |-> "done", req |-> r, ret |-> v]
Dead(r) == [st |-> "dead", req |-> r]

\* What the caller of p sees.
LEMMA CallIs ==
    ASSUME NEW p \in Procs
    PROVE  Calls[p] = IF pc[p] = "idle" THEN [st |-> "idle"]
                      ELSE IF pc[p] \in Ended THEN Dead(req[p])
                      ELSE IF ret[p] = Unset THEN Pending(req[p])
                      ELSE Decided(req[p], ret[p])
BY DEF Calls, Pending, Decided, Dead

CallBecomes(p, c) == Calls' = [Calls EXCEPT ![p] = c]
MapBecomes(k, d) == Map' = [Map EXCEPT ![k] = d]

LEMMA OneCall ==
    ASSUME NEW p \in Procs, StandStill(p), RetKept(p)
    PROVE  CallBecomes(p, Calls'[p])
<1>1. \A q \in Procs \ {p} : Calls'[q] = Calls[q]
    BY DEF Calls, StandStill, RetKept
<1>2. Calls' = [q \in Procs |-> Calls'[q]] /\ Calls = [q \in Procs |-> Calls[q]]
    BY Functions
<1> QED BY <1>1, <1>2 DEF CallBecomes

LEMMA SameMap ==
    ASSUME \A k \in Keys : Map'[k] = Map[k]
    PROVE  Map' = Map
<1>1. Map' = [k \in Keys |-> Map'[k]] /\ Map = [k \in Keys |-> Map[k]]
    BY Functions
<1> QED BY <1>1

LEMMA OneKey ==
    ASSUME NEW j \in Keys, NEW d, Map'[j] = d, \A k \in Keys \ {j} : Map'[k] = Map[k]
    PROVE  MapBecomes(j, d)
<1>1. Map' = [k \in Keys |-> Map'[k]] /\ Map = [k \in Keys |-> Map[k]]
    BY Functions
<1> QED BY <1>1 DEF MapBecomes

\* The step of the abstract specification that decides a call.
LEMMA Decides ==
    ASSUME NEW p \in Procs, NEW r, NEW v, Calls[p] = Pending(r), CallBecomes(p, Decided(r, v))
    PROVE  KV!Done(p, v) /\ Calls[p].st = "pending" /\ Calls[p].req = r
BY DEF KV!Done, Pending, Decided, CallBecomes

LEMMA DecidesFetch ==
    ASSUME NEW p \in Procs, NEW r \in Requests, r.op = "fetch",
           Calls[p] = Pending(r), CallBecomes(p, Decided(r, Map[r.key])), Map' = Map
    PROVE  KV!Next
<1>1. KV!Done(p, Map[r.key]) /\ Calls[p].st = "pending" /\ Calls[p].req = r
    BY Decides
<1>2. KV!Fetch(p)
    BY <1>1 DEF KV!Fetch
<1> QED BY <1>2 DEF KV!Next

LEMMA DecidesDelete ==
    ASSUME NEW p \in Procs, NEW r \in Requests, r.op = "delete", Calls[p] = Pending(r),
           CallBecomes(p, Decided(r, IF Map[r.key] = None THEN "notfound" ELSE "ok")),
           MapBecomes(r.key, None)
    PROVE  KV!Next
<1>1. /\ KV!Done(p, IF Map[r.key] = None THEN "notfound" ELSE "ok")
      /\ Calls[p].st = "pending" /\ Calls[p].req = r
    BY Decides
<1>2. KV!Delete(p)
    BY <1>1 DEF KV!Delete, MapBecomes
<1> QED BY <1>2 DEF KV!Next

\* A store that writes its data, and one that is refused.
LEMMA DecidesStore ==
    ASSUME NEW p \in Procs, NEW r \in Requests, r.op = "store", Calls[p] = Pending(r),
           CallBecomes(p, Decided(r, "ok")), MapBecomes(r.key, r.data),
           r.flag = "INSERT" => Map[r.key] = None,
           r.flag = "REPLACE" => Map[r.key] # None
    PROVE  KV!Next
<1>1. KV!Done(p, "ok") /\ Calls[p].st = "pending" /\ Calls[p].req = r
    BY Decides
<1>2. KV!Store(p)
    BY <1>1 DEF KV!Store, MapBecomes
<1> QED BY <1>2 DEF KV!Next

LEMMA RefusesStore ==
    ASSUME NEW p \in Procs, NEW r \in Requests, r.op = "store", Calls[p] = Pending(r),
           NEW v, CallBecomes(p, Decided(r, v)), Map' = Map,
           \/ r.flag = "INSERT" /\ Map[r.key] # None /\ v = "exists"
           \/ r.flag = "REPLACE" /\ Map[r.key] = None /\ v = "notfound"
    PROVE  KV!Next
<1>1. KV!Done(p, v) /\ Calls[p].st = "pending" /\ Calls[p].req = r
    BY Decides
<1>2. KV!Store(p)
    BY <1>1 DEF KV!Store
<1> QED BY <1>2 DEF KV!Next

LEMMA DecidesScan ==
    ASSUME NEW p \in Procs, NEW r \in Requests, r.op = "nextrec", Calls[p] = Pending(r),
           NEW v, CallBecomes(p, Decided(r, v)), Map' = Map,
           \/ v = None
           \/ \E k \in Keys, d \in Data : KV!Visible(k, d) /\ v = <<k, d>>
    PROVE  KV!Next
<1>1. KV!Done(p, v) /\ Calls[p].st = "pending" /\ Calls[p].req = r
    BY Decides
<1>2. KV!Scan(p)
    BY <1>1 DEF KV!Scan
<1> QED BY <1>2 DEF KV!Next

-----------------------------------------------------------------------------
(* The records of the keys, step by step.                                   *)

Sound == LockInv /\ FileInv /\ ListInv /\ Facts /\ MapInv /\ MapKnown

LEMMA QuietEntries ==
    ASSUME Facts, ContentSame, \A c \in Chains : ChainRecords(c)' = ChainRecords(c),
           NEW k \in Keys
    PROVE  SameEntry(k)
<1>1. Hash[k] \in Chains
    BY DbAssumption
<1>2. \A i \in ChainRecords(Hash[k]) : i \in DOMAIN idx
    BY <1>1 DEF Facts, ChainFacts
<1>3. ChainRecords(Hash[k])' = ChainRecords(Hash[k])
    BY <1>1
<1> QED BY <1>2, <1>3 DEF SameEntry, Current, DataOf, ContentSame

\* Only the data of records with key j may change, and only those records may
\* lose or gain it.
LEMMA OtherEntries ==
    ASSUME Sound, Sound', NoKillInDelete, NEW p \in Procs,
           (Step(p) /\ ~DeleteUnlink(p) /\ ~Link(p)) \/ Kill(p),
           NEW k \in Keys,
           \A i \in ChainRecords(Hash[k]) :
               idx[i].key = k \/ idx'[i].key = k =>
                   /\ idx'[i].key = idx[i].key /\ idx'[i].datoff = idx[i].datoff
                   /\ dat'[idx[i].datoff] = dat[idx[i].datoff]
    PROVE  SameEntry(k)
<1>1. Hash[k] \in Chains
    BY DbAssumption
<1>2. \A c \in Chains : ChainRecords(c)' = ChainRecords(c)
    BY ChainsStay DEF Sound, NoKillInDelete, NoKillDeleting
<1>3. ChainRecords(Hash[k])' = ChainRecords(Hash[k])
    BY <1>1, <1>2
<1> QED BY <1>3 DEF SameEntry, Current, DataOf

LEMMA UnlinkEntries ==
    ASSUME Sound, Sound', NEW p \in Procs, DeleteUnlink(p), NEW k \in Keys
    PROVE  SameEntry(k)
<1>1. Hash[k] \in Chains /\ k # Blank
    BY DbAssumption
<1>2. ContentSame
    BY PointerContent DEF Sound
<1>3. idx[db[p].off].key = Blank
    BY DEF DeleteUnlink, Sound, Facts, PlaceFacts, Deleting
<1>4. \A c \in Chains : \/ ChainRecords(c)' = ChainRecords(c)
                        \/ ChainRecords(c)' = ChainRecords(c) \ {db[p].off}
    <2>1. PICK d \in Chains : d = Chain(p)
        BY MyChain DEF Sound, DeleteUnlink, KeyedCall
    <2>2. Chain(p)' = Chain(p)
        BY DEF DeleteUnlink, Chain
    <2>3. ChainRecords(Chain(p))' = ChainRecords(d)'
        BY <2>1, <2>2 DEF ChainRecords
    <2> QED BY <2>1, <2>3, ChainShrinks DEF Sound
<1>5. \A i \in ChainRecords(Hash[k]) : i \in DOMAIN idx
    BY <1>1 DEF Sound, Facts, ChainFacts
<1>6. \A i : idx[i].key = k => (i \in ChainRecords(Hash[k])' <=> i \in ChainRecords(Hash[k]))
    BY <1>1, <1>3, <1>4
<1>7. \A i : i \in ChainRecords(Hash[k])' => i \in ChainRecords(Hash[k])
    BY <1>1, <1>4
<1> QED BY <1>2, <1>5, <1>6, <1>7 DEF SameEntry, Current, DataOf, ContentSame

\* Link brings the record of one key onto its chain.
LEMMA LinkEntries ==
    ASSUME Sound, Sound', NEW p \in Procs, Link(p)
    PROVE  /\ \A k \in Keys \ {req[p].key} : SameEntry(k)
           /\ req[p].key \in Keys /\ Map'[req[p].key] = req[p].data
           /\ \A i : ~Current(req[p].key, i)
<1>1. pc[p] = "link" /\ req' = req /\ pc'[p] = "unlock"
    BY DEF Link, Goto, Sound, LockInv
<1>2. /\ ContentSame /\ StandStill(p) /\ RetKept(p)
    BY PointerContent, OneAtATime, PointerInformed DEF Sound, Step
<1>3. PICK c \in Chains : c = Chain(p)
    BY <1>1, MyChain DEF Sound, KeyedCall
<1>4. PICK j \in Keys, x \in Data : j = req[p].key /\ x = req[p].data
    BY <1>1, StoreRequest DEF Sound, StoreOnly
<1>5. c = Hash[j]
    BY <1>3, <1>4 DEF Chain
<1>6. \A b \in Chains : ChainRecords(b)' = IF b = c THEN {db[p].off} \cup ChainRecords(b)
                                                     ELSE ChainRecords(b)
    <2>1. ChainRecords(Chain(p))' = ChainRecords(c)'
        <3>1. Chain(p)' = c
            BY <1>1, <1>3 DEF Chain
        <3> QED BY <3>1 DEF ChainRecords
    <2> QED BY <1>3, <2>1, ChainGrows DEF Sound
<1>7. /\ db[p].off \in DOMAIN idx /\ idx[db[p].off].key = j
      /\ dat[idx[db[p].off].datoff] = x
      /\ \A i \in ChainRecords(c) : idx[i].key # j
    BY <1>1, <1>3, <1>4 DEF Sound, Facts, PlaceFacts, Missing, InHand, MapInv, Brings
<1>8. ASSUME NEW k \in Keys, k # j
      PROVE  SameEntry(k)
    <2>1. PICK b \in Chains : b = Hash[k]
        BY DbAssumption
    <2>2. \A i \in ChainRecords(b) : i \in DOMAIN idx
        BY DEF Sound, Facts, ChainFacts
    <2>3. \A i : i # db[p].off => (i \in ChainRecords(b)' <=> i \in ChainRecords(b))
        BY <1>6
    <2>4. \A i : i \in ChainRecords(b) => i \in ChainRecords(b)'
        BY <1>6
    <2>5. ASSUME NEW i
          PROVE  Current(k, i)' <=> Current(k, i)
        <3>1. CASE i = db[p].off
            BY <1>2, <1>7, <1>8, <3>1 DEF Current, ContentSame
        <3>2. CASE i # db[p].off
            BY <1>2, <2>1, <2>2, <2>3, <3>2 DEF Current, ContentSame
        <3> QED BY <3>1, <3>2
    <2>6. ASSUME NEW i, Current(k, i)
          PROVE  DataOf(i)' = DataOf(i)
        BY <1>2, <2>1, <2>2, <2>6 DEF Current, DataOf, ContentSame
    <2> QED BY <2>5, <2>6 DEF SameEntry
<1>9. \A i : ~Current(j, i)
    BY <1>5, <1>7 DEF Current
<1>10. Map'[j] = x
    <2>1. PICK i : i = db[p].off
        OBVIOUS
    <2>2. Current(j, i)' /\ DataOf(i)' = x
        <3>1. i \in ChainRecords(c)'
            BY <1>6, <2>1
        <3>2. x # Blank
            BY DbAssumption
        <3> QED BY <1>2, <1>5, <1>7, <2>1, <3>1, <3>2 DEF Current, DataOf, ContentSame
    <2>3. ASSUME NEW q \in Procs
          PROVE  ~Moving(q, j)'
        <3>1. CASE q = p
            BY <1>1, <3>1 DEF Moving
        <3>2. CASE q # p
            <4>1. OnChain(p, Hash[j])
                BY <1>1, <1>3, <1>5 DEF OnChain, KeyedCall
            <4>2. ~Moving(q, j)
                BY <3>2, <4>1, MoverOnChain DEF Sound
            <4> QED BY <1>2, <3>2, <4>2 DEF Moving, StandStill, RetKept, IsStore, Op
        <3> QED BY <3>1, <3>2
    <2>4. Entry(j, x)'
        BY <2>2, <2>3 DEF Entry, NotMoving
    <2> QED BY <2>4 DEF Sound, MapKnown
<1> QED BY <1>4, <1>8, <1>9, <1>10

\* Writing a record of another key, or one that is on no chain.
LEMMA WriteEntries ==
    ASSUME Sound, Sound', NoKillInDelete, NEW p \in Procs, NEW k \in Keys,
           \/ Overwrite(p) \/ DeleteData(p) \/ DeleteIndex(p)
           \/ ReuseData(p) \/ AppendData(p) \/ ReuseIndex(p) \/ AppendIndex(p),
           Overwrite(p) \/ DeleteData(p) \/ DeleteIndex(p) => k # req[p].key
    PROVE  SameEntry(k)
<1>1. PICK c \in Chains : c = Hash[k]
    BY DbAssumption
<1>2. /\ \A i \in ChainRecords(c) : i \in DOMAIN idx
      /\ \A i \in DOMAIN idx : idx[i].datoff \in DOMAIN dat
      /\ \A i, j \in DOMAIN idx : idx[i].datoff = idx[j].datoff => i = j
      /\ LockInv /\ FileInv /\ Facts /\ MapInv
    BY DEF Sound, Facts, ChainFacts, FileInv, NoDangling, DataNotShared
<1>3. Step(p) /\ ~DeleteUnlink(p) /\ ~Link(p)
    BY DEF Step, Overwrite, DeleteData, ReuseData, AppendData, DeleteIndex, ReuseIndex,
       AppendIndex, DeleteUnlink, Link
<1>4. SUFFICES ASSUME NEW i \in ChainRecords(c), idx[i].key = k \/ idx'[i].key = k
               PROVE  /\ idx'[i].key = idx[i].key /\ idx'[i].datoff = idx[i].datoff
                      /\ dat'[idx[i].datoff] = dat[idx[i].datoff]
    BY <1>1, <1>3, OtherEntries
<1>5. i \in DOMAIN idx /\ idx[i].datoff \in DOMAIN dat
    BY <1>2
<1>6. CASE Overwrite(p) \/ DeleteData(p)
    <2>1. /\ pc[p] \in {"overwrite", "d_lock"} /\ idx' = idx
          /\ \E x : dat' = [dat EXCEPT ![db[p].datoff] = x]
        BY <1>6 DEF Overwrite, DeleteData
    <2>2. /\ db[p].off \in DOMAIN idx /\ db[p].datoff = idx[db[p].off].datoff
          /\ idx[db[p].off].key = req[p].key
        BY <1>2, <2>1, OnChainData DEF MapInv, Aimed
    <2>3. i # db[p].off
        BY <1>4, <1>6, <2>1, <2>2
    <2>4. idx[i].datoff # db[p].datoff
        BY <1>2, <1>5, <2>2, <2>3
    <2> QED BY <1>5, <2>1, <2>4
<1>7. CASE ReuseData(p)
    <2>1. pc[p] = "u_dat" /\ idx' = idx /\ dat' = [dat EXCEPT ![db[p].datoff] = req[p].data]
        BY <1>7 DEF ReuseData
    <2>2. db[p].off \in DOMAIN idx /\ db[p].datoff = idx[db[p].off].datoff
        BY <1>2, <2>1 DEF FileInv, Handle
    <2>3. i # db[p].off
        BY <1>2, <2>1 DEF Facts, PlaceFacts, InHand
    <2> QED BY <1>2, <1>5, <2>1, <2>2, <2>3
<1>8. CASE AppendData(p)
    <2> DEFINE d == db[p].datoff
               v == req[p].data
               S == Data \cup {Blank}
    <2>1. /\ pc[p] = "a_dat_write" /\ idx' = idx /\ dat' = WriteAt(dat, d, v)
          /\ d = Len(dat) + 1 /\ dat \in Seq(S) /\ v \in S
          /\ Len(dat) \in Nat /\ DOMAIN dat = 1..Len(dat)
        BY <1>2, <1>8, SeqFacts, StoreRequest DEF AppendData, FileInv, FileTypes, Handle, StoreOnly
    <2> HIDE DEF d, v, S
    <2>2. d \in 1..(Len(dat) + 1)
        BY <2>1
    <2>3. \A e \in 1..Len(dat) : e # d => dat'[e] = dat[e]
        BY <2>1, <2>2, WriteAtProperties
    <2> QED BY <1>5, <2>1, <2>3
<1>9. CASE DeleteIndex(p)
    <2>1. PICK j : j = db[p].off
        OBVIOUS
    <2>2. /\ pc[p] = "d_idx" /\ dat' = dat
          /\ idx' = [idx EXCEPT ![j].key = Blank, ![j].ptr = table[FREE_OFF]]
        BY <1>9, <2>1 DEF DeleteIndex
    <2>3. idx[j].key = req[p].key /\ j \in DOMAIN idx /\ idx[j] \in IndexRecords
        <3>1. idx[j].key = req[p].key /\ j \in DOMAIN idx
            BY <1>2, <2>1, <2>2 DEF MapInv, Aimed, FileInv, Handle
        <3> QED BY <1>2, <3>1, SeqFacts DEF FileInv
    <2>4. idx'[j].key = Blank
        BY <2>2, <2>3, ZenonT(60) DEF IndexRecords
    <2>5. i # j
        BY <1>4, <1>9, <2>3, <2>4, DbAssumption
    <2>6. idx'[i] = idx[i]
        BY <1>5, <2>2, <2>5
    <2> QED BY <2>2, <2>6
<1>10. CASE ReuseIndex(p) \/ AppendIndex(p)
    <2>1. PICK j, rec : j = db[p].off /\ rec = IndexRecord(p)
        OBVIOUS
    <2>2. /\ \A l \in DOMAIN idx : l # j => idx'[l] = idx[l]
          /\ \A b \in Chains : j \notin ChainRecords(b)
        BY <1>2, <1>10, <2>1, RecordPut
    <2>3. dat' = dat
        BY <1>10 DEF ReuseIndex, AppendIndex
    <2> QED BY <1>5, <2>2, <2>3
<1> QED BY <1>6, <1>7, <1>8, <1>9, <1>10

-----------------------------------------------------------------------------
(* What the flag of a store has decided.                                    *)

LEMMA RetStays ==
    ASSUME MapInv, NEW p \in Procs, Call(p) \/ Rewind(p) \/ Step(p) \/ Kill(p)
    PROVE  RetKept(p)
<1>1. ret = [q \in Procs |-> ret[q]]
    BY DEF MapInv
<1>2. ret' = ret \/ \E x : ret' = [ret EXCEPT ![p] = x]
    <2>1. CASE Call(p) \/ Rewind(p) \/ Kill(p)
        BY <2>1 DEF Call, Rewind, Kill, End
    <2>2. CASE FindAndLock(p) \/ FindNext(p) \/ Found(p) \/ NotFound(p) \/ ReadData(p)
               \/ Overwrite(p) \/ Return(p)
        BY <2>2 DEF FindAndLock, FindNext, Found, NotFound, ReadData, Overwrite, Return, Result
    <2>3. CASE DeleteData(p) \/ DeleteIndex(p) \/ DeleteFree(p) \/ DeleteUnlink(p)
               \/ ReadChainHead(p)
        BY <2>3 DEF DeleteData, DeleteIndex, DeleteFree, DeleteUnlink, ReadChainHead, Result
    <2>4. CASE FreeLock(p) \/ FreeNext(p) \/ FreeFound(p) \/ FreeTake(p) \/ FreeNone(p)
               \/ ReuseData(p) \/ ReuseIndex(p)
        BY <2>4 DEF FreeLock, FreeNext, FreeFound, FreeTake, FreeNone, ReuseData, ReuseIndex
    <2>5. CASE AppendSeekData(p) \/ AppendData(p) \/ AppendSeekIndex(p) \/ AppendIndex(p)
               \/ Link(p) \/ LinkQuit(p)
        BY <2>5 DEF AppendSeekData, AppendData, AppendSeekIndex, AppendIndex, Link, LinkQuit,
           End, Result
    <2>6. CASE NextLock(p) \/ NextSkip(p) \/ NextFound(p) \/ NextEOF(p) \/ NextData(p)
               \/ NextDump(p) \/ NextReturn(p)
        BY <2>6 DEF NextLock, NextSkip, NextFound, NextEOF, NextData, NextDump, NextReturn,
           End, Result
    <2> QED BY <2>1, <2>2, <2>3, <2>4, <2>5, <2>6 DEF Step
<1> QED BY <1>1, <1>2 DEF RetKept

\* DB_INSERT changes no record, DB_REPLACE makes no new one, and only db_fetch
\* reads the data.
Flagged(p) ==
    /\ pc[p] = "f_dat" => Op(p) = "fetch"
    /\ pc[p] \in {"overwrite", "d_lock"} /\ Op(p) = "store" => req[p].flag # "INSERT"
    /\ pc[p] \in StoreOnly \ {"overwrite"} /\ ret[p] = Unset => req[p].flag # "REPLACE"

FlagInv == \A p \in Procs : Flagged(p)

LEMMA FlagStep ==
    ASSUME LockInv, FileInv, MapInv, FlagInv, [Next]_vars
    PROVE  FlagInv'
<1>1. CASE UNCHANGED vars
    BY <1>1 DEF vars, FlagInv, Flagged, Op
<1>2. ASSUME NEW p \in Procs, Call(p) \/ Rewind(p) \/ Step(p) \/ Kill(p)
      PROVE  FlagInv'
    <2>1. StandStill(p) /\ RetKept(p)
        BY <1>2, OneAtATime, RetStays
    <2>2. \A q \in Procs \ {p} : Flagged(q)'
        BY <2>1 DEF FlagInv, Flagged, StandStill, RetKept, Op
    <2>3. /\ pc \in [Procs -> {"idle"} \cup InCall \cup Ended]
          /\ req \in [Procs -> Requests \cup {None}]
          /\ ret = [q \in Procs |-> ret[q]]
          /\ Flagged(p) /\ Results(p)
        BY DEF LockInv, FlagInv, MapInv
    <2> USE DEF StoreOnly
    <2>4. CASE pc'[p] \notin {"f_dat", "overwrite", "d_lock"} \cup StoreOnly
        BY <2>2, <2>4 DEF FlagInv, Flagged
    <2>5. CASE Found(p)
        <3>1. /\ pc'[p] \in {"f_dat", "d_lock", "unlock", "overwrite"} /\ req' = req
              /\ Op(p) = "store" /\ pc'[p] \in {"d_lock", "overwrite"} => req[p].flag # "INSERT"
              /\ pc'[p] = "f_dat" => Op(p) = "fetch"
            BY <2>3, <2>5 DEF Found, Goto, IsStore, Result
        <3>2. Flagged(p)'
            BY <3>1 DEF Flagged, Op
        <3> QED BY <2>2, <3>2 DEF FlagInv
    <2>6. CASE NotFound(p)
        <3>1. /\ pc'[p] \in {"unlock", "i_head"} /\ req' = req
              /\ pc'[p] = "i_head" => req[p].flag # "REPLACE"
            BY <2>3, <2>6 DEF NotFound, Goto, IsStore, Result
        <3>2. Flagged(p)'
            BY <3>1 DEF Flagged, Op
        <3> QED BY <2>2, <3>2 DEF FlagInv
    <2>7. CASE DeleteUnlink(p)
        <3>1. pc'[p] \in {"unlock", "r_head"} /\ ret'[p] = "ok"
            BY <2>3, <2>7 DEF DeleteUnlink, Goto, Results, Replacing
        <3>2. Flagged(p)'
            BY <3>1, DbAssumption DEF Flagged
        <3> QED BY <2>2, <3>2 DEF FlagInv
    <2>8. CASE \/ ReadChainHead(p) \/ FreeLock(p) \/ FreeNext(p) \/ FreeFound(p)
               \/ FreeTake(p) \/ FreeNone(p) \/ ReuseData(p) \/ ReuseIndex(p)
               \/ AppendSeekData(p) \/ AppendData(p) \/ AppendSeekIndex(p) \/ AppendIndex(p)
        <3>1. /\ pc[p] \in StoreOnly \ {"overwrite"}
              /\ pc'[p] \in StoreOnly \ {"overwrite"}
              /\ ret' = ret /\ req' = req
            BY <2>3, <2>8 DEF ReadChainHead, FreeLock, FreeNext, FreeFound, FreeTake, FreeNone,
               ReuseData, ReuseIndex, AppendSeekData, AppendData, AppendSeekIndex, AppendIndex,
               Goto
        <3>2. Flagged(p)'
            BY <2>3, <3>1 DEF Flagged, Op
        <3> QED BY <2>2, <3>2 DEF FlagInv
    <2>9. CASE \/ Call(p) \/ Rewind(p) \/ Kill(p) \/ FindAndLock(p) \/ FindNext(p)
               \/ ReadData(p) \/ Overwrite(p) \/ Return(p) \/ DeleteData(p) \/ DeleteIndex(p)
               \/ DeleteFree(p) \/ Link(p) \/ LinkQuit(p)
               \/ NextLock(p) \/ NextSkip(p) \/ NextFound(p) \/ NextEOF(p) \/ NextData(p)
               \/ NextDump(p) \/ NextReturn(p)
        <3>1. pc'[p] \notin {"f_dat", "overwrite", "d_lock"} \cup StoreOnly
            BY <2>3, <2>9 DEF Call, Rewind, Kill, FindAndLock, FindNext, ReadData, Overwrite,
               Return, DeleteData, DeleteIndex, DeleteFree, Link, LinkQuit, NextLock, NextSkip,
               NextFound, NextEOF, NextData, NextDump, NextReturn, End, Goto
        <3> QED BY <2>4, <3>1
    <2> QED BY <1>2, <2>5, <2>6, <2>7, <2>8, <2>9 DEF Step
<1> QED BY <1>1, <1>2 DEF Next

LEMMA FlagInvAlways == ASSUME NoKillInDelete PROVE Spec => []FlagInv
<1>1. Init => FlagInv
    BY DEF Init, FlagInv, Flagged, StoreOnly
<1>2. LockInv /\ FileInv /\ MapInv /\ FlagInv /\ [Next]_vars => FlagInv'
    BY FlagStep
<1> QED BY <1>1, <1>2, LocksHeld, FileInvAlways, MapInvAlways, PTL DEF Spec

-----------------------------------------------------------------------------
(* Steps that no caller sees.                                               *)

LEMMA CallStays ==
    ASSUME NEW p \in Procs, StandStill(p), RetKept(p), ret'[p] = ret[p], req'[p] = req[p],
           pc[p] = "idle" <=> pc'[p] = "idle", pc[p] \notin Ended, pc'[p] \notin Ended
    PROVE  Calls' = Calls
<1>1. \A q \in Procs : Calls'[q] = Calls[q]
    BY DEF Calls, StandStill, RetKept
<1>2. Calls' = [q \in Procs |-> Calls'[q]] /\ Calls = [q \in Procs |-> Calls[q]]
    BY Functions
<1> QED BY <1>1, <1>2

LEMMA Silent ==
    ASSUME Sound, Sound', NEW p \in Procs, StandStill(p), RetKept(p),
           ret'[p] = ret[p], req'[p] = req[p],
           pc[p] = "idle" <=> pc'[p] = "idle", pc[p] \notin Ended, pc'[p] \notin Ended,
           IsStore(p) => pc[p] # "unlock" /\ pc'[p] # "unlock",
           \A k \in Keys : Moving(p, k) \/ SameEntry(k)
    PROVE  UNCHANGED KV!vars
<1>1. Calls' = Calls
    BY CallStays
<1>2. \A k \in Keys : Moving(p, k)' <=> Moving(p, k)
    BY DEF Moving, IsStore, Op
<1>3. \A k \in Keys : Map'[k] = Map[k]
    BY <1>2, KeyStays DEF Sound
<1>4. Map' = Map
    BY <1>3, SameMap
<1> QED BY <1>1, <1>4 DEF KV!vars

LEMMA SearchesSilently ==
    ASSUME Sound, Sound', NoKillInDelete, NEW p \in Procs,
           \/ Rewind(p) \/ FindAndLock(p) \/ FindNext(p)
           \/ (Found(p) \/ NotFound(p)) /\ pc'[p] # "unlock"
           \/ ReadChainHead(p) \/ FreeLock(p) \/ FreeNext(p) \/ FreeFound(p)
           \/ FreeNone(p) \/ FreeTake(p) \/ AppendSeekData(p) \/ AppendSeekIndex(p)
           \/ DeleteFree(p)
           \/ NextLock(p) \/ NextSkip(p) \/ NextFound(p)
    PROVE  UNCHANGED KV!vars
<1>1. StandStill(p) /\ RetKept(p)
    BY OneAtATime, RetStays DEF Sound, Step
<1>2. \A k \in Keys : SameEntry(k)
    BY QuietContent, QuietEntries DEF Sound
<1>3. pc \in [Procs -> {"idle"} \cup InCall \cup Ended]
    BY DEF Sound, LockInv
<1>4. ret'[p] = ret[p] /\ req'[p] = req[p]
    <2>1. CASE Found(p) /\ pc'[p] # "unlock"
        BY <1>3, <2>1 DEF Found, Goto, Result
    <2>2. CASE NotFound(p) /\ pc'[p] # "unlock"
        BY <1>3, <2>2 DEF NotFound, Goto, Result
    <2>3. CASE ~((Found(p) \/ NotFound(p)) /\ pc'[p] # "unlock")
        BY <2>3 DEF Rewind, FindAndLock, FindNext, ReadChainHead, FreeLock, FreeNext, FreeFound,
           FreeNone, FreeTake, AppendSeekData, AppendSeekIndex, DeleteFree, NextLock, NextSkip,
           NextFound
    <2> QED BY <2>1, <2>2, <2>3
<1>5. /\ pc[p] = "idle" <=> pc'[p] = "idle"
      /\ pc[p] \notin Ended /\ pc'[p] \notin Ended /\ pc[p] # "unlock" /\ pc'[p] # "unlock"
    <2>1. CASE Rewind(p)
        BY <1>3, <2>1 DEF Rewind, Ended
    <2>2. CASE (Found(p) \/ NotFound(p)) /\ pc'[p] # "unlock"
        BY <1>3, <2>2 DEF Found, NotFound, Goto, Ended
    <2>3. CASE FindAndLock(p) \/ FindNext(p) \/ ReadChainHead(p) \/ FreeLock(p) \/ FreeNext(p)
               \/ FreeFound(p) \/ FreeNone(p) \/ FreeTake(p)
        BY <1>3, <2>3 DEF FindAndLock, FindNext, ReadChainHead, FreeLock, FreeNext, FreeFound,
           FreeNone, FreeTake, Goto, Ended
    <2>4. CASE AppendSeekData(p) \/ AppendSeekIndex(p) \/ DeleteFree(p)
               \/ NextLock(p) \/ NextSkip(p) \/ NextFound(p)
        BY <1>3, <2>4 DEF AppendSeekData, AppendSeekIndex, DeleteFree, NextLock, NextSkip,
           NextFound, Goto, Ended
    <2> QED BY <2>1, <2>2, <2>3, <2>4
<1> QED BY <1>1, <1>2, <1>4, <1>5, Silent

LEMMA WritesSilently ==
    ASSUME Sound, Sound', NoKillInDelete, NEW p \in Procs,
           \/ ReuseData(p) \/ AppendData(p) \/ ReuseIndex(p) \/ AppendIndex(p)
           \/ DeleteUnlink(p)
    PROVE  UNCHANGED KV!vars
<1>1. StandStill(p) /\ RetKept(p)
    BY OneAtATime, RetStays DEF Sound, Step
<1>2. \A k \in Keys : SameEntry(k)
    <2>1. CASE DeleteUnlink(p)
        BY <2>1, UnlinkEntries
    <2>2. CASE ~DeleteUnlink(p)
        <3>1. ~Overwrite(p) /\ ~DeleteData(p) /\ ~DeleteIndex(p)
            BY <2>2 DEF ReuseData, AppendData, ReuseIndex, AppendIndex, Overwrite, DeleteData,
               DeleteIndex
        <3> QED BY <2>2, <3>1, WriteEntries
    <2> QED BY <2>1, <2>2
<1>3. pc \in [Procs -> {"idle"} \cup InCall \cup Ended]
    BY DEF Sound, LockInv
<1>4. ret'[p] = ret[p] /\ req'[p] = req[p]
    BY DEF ReuseData, AppendData, ReuseIndex, AppendIndex, DeleteUnlink
<1>5. /\ pc[p] # "idle" /\ pc'[p] # "idle"
      /\ pc[p] \notin Ended /\ pc'[p] \notin Ended
      /\ IsStore(p) => pc[p] # "unlock" /\ pc'[p] # "unlock"
    BY <1>3 DEF ReuseData, AppendData, ReuseIndex, AppendIndex, DeleteUnlink, Goto, Ended, IsStore
<1> QED BY <1>1, <1>2, <1>4, <1>5, Silent

-----------------------------------------------------------------------------
(* What a process on a chain knows of the map.                              *)

LEMMA KeyAlone ==
    ASSUME LockInv, MapInv, NEW p \in Procs, pc[p] \in KeyedCall \ {"find"}, NEW k, k = req[p].key,
           ret[p] # "ok" \/ Op(p) # "store"
    PROVE  /\ k \in Keys /\ Hash[k] \in Chains /\ Chain(p) = Hash[k]
           /\ NotMoving(k)
<1>1. req[p] \in Requests /\ Op(p) \in {"fetch", "delete", "store"}
    BY DEF LockInv, Matched, InCall
<1>2. k \in Keys
    BY <1>1, DbAssumption DEF Op
<1>3. Hash[k] \in Chains /\ OnChain(p, Hash[k]) /\ Chain(p) = Hash[k]
    BY <1>2, DbAssumption DEF OnChain, Chain
<1>4. ASSUME NEW q \in Procs, Moving(q, k)
      PROVE  FALSE
    <2>1. q # p
        BY <1>4 DEF Moving, IsStore
    <2> QED BY <1>2, <1>3, <1>4, <2>1, MoverOnChain
<1> QED BY <1>2, <1>3, <1>4 DEF NotMoving

\* The record found has the data of the map.
LEMMA KeyHeld ==
    ASSUME Sound, NEW p \in Procs, pc[p] \in {"scan", "f_dat", "overwrite", "d_lock"},
           NEW k, k = req[p].key, NEW i, i \in ChainRecords(Chain(p)), idx[i].key = k
    PROVE  /\ k \in Keys /\ NotMoving(k) /\ Current(k, i)
           /\ i \in DOMAIN idx /\ dat[idx[i].datoff] \in Data
           /\ Map[k] = dat[idx[i].datoff] /\ Map[k] # None
<1>1. LockInv /\ FileInv /\ Facts /\ MapInv /\ Results(p)
    BY DEF Sound, MapInv
<1>2. ret[p] # "ok"
    BY <1>1, DbAssumption DEF Results, Undecided
<1>3. k \in Keys /\ Hash[k] \in Chains /\ Chain(p) = Hash[k] /\ NotMoving(k)
    <2>1. pc[p] \in KeyedCall \ {"find"}
        BY DEF KeyedCall
    <2> QED BY <1>1, <1>2, <2>1, KeyAlone
<1>4. PICK c \in Chains : c = Hash[k] /\ i \in ChainRecords(c)
    BY <1>3
<1>5. i \in DOMAIN idx /\ idx[i].datoff \in DOMAIN dat
    BY <1>1, <1>4 DEF Facts, ChainFacts, FileInv, NoDangling
<1>6. dat[idx[i].datoff] \in Data \cup {Blank}
    BY <1>1, <1>5, SeqFacts DEF FileInv
<1>7. ASSUME dat[idx[i].datoff] = Blank
      PROVE  FALSE
    <2>1. idx[i].key # Blank
        BY <1>3, DbAssumption
    <2>2. PICK q \in Procs : pc[q] = "d_idx" /\ db[q].off = i
        BY <1>1, <1>4, <1>7, <2>1 DEF MapInv, DataKept
    <2>3. PICK b \in Chains : b = Chain(q) /\ i \in ChainRecords(b)
        BY <1>1, <2>2, MyChain DEF KeyedCall, MapInv, Aimed
    <2>4. b = c
        BY <1>1, <1>4, <2>3 DEF Facts, ChainFacts
    <2>5. OnChain(p, c) /\ OnChain(q, c) /\ Op(q) # "fetch" /\ p # q
        BY <1>1, <1>3, <1>4, <2>2, <2>3, <2>4
           DEF OnChain, KeyedCall, LockInv, Matched, DeleteOrStore
    <2> QED BY <1>1, <2>5, CriticalSectionsHeld DEF CriticalSections
<1>8. dat[idx[i].datoff] \in Data /\ dat[idx[i].datoff] # None
    BY <1>6, <1>7, DbAssumption
<1>9. Current(k, i) /\ DataOf(i) = dat[idx[i].datoff]
    BY <1>3, <1>7 DEF Current, DataOf
<1>10. Entry(k, dat[idx[i].datoff])
    BY <1>3, <1>9 DEF Entry
<1> QED BY <1>3, <1>5, <1>8, <1>9, <1>10 DEF Sound, MapKnown

\* A key no record has is in no map.
LEMMA KeyMissing ==
    ASSUME Sound, NEW p \in Procs, pc[p] \in KeyedCall \ {"find"}, NEW k, k = req[p].key,
           ret[p] # "ok" \/ Op(p) # "store",
           \A i \in ChainRecords(Chain(p)) : idx[i].key # k
    PROVE  k \in Keys /\ NotMoving(k) /\ (\A i : ~Current(k, i)) /\ Map[k] = None
<1>1. k \in Keys /\ Chain(p) = Hash[k] /\ NotMoving(k)
    BY KeyAlone DEF Sound
<1>2. \A i : ~Current(k, i)
    BY <1>1 DEF Current
<1>3. Entry(k, None)
    BY <1>1, <1>2 DEF Entry
<1> QED BY <1>1, <1>2, <1>3 DEF Sound, MapKnown

\* Deleting the index record of data that is blank already.
LEMMA BlankKey ==
    ASSUME Sound, Sound', NoKillInDelete, NEW p \in Procs, DeleteIndex(p), Op(p) = "delete",
           NEW k, k = req[p].key
    PROVE  k \in Keys /\ Map[k] = None /\ Map'[k] = None
<1>1. LockInv /\ FileInv /\ ListInv /\ Facts /\ MapInv /\ LockInv' /\ FileInv' /\ Aimed(p)
    BY DEF Sound, MapInv
<1>2. PICK i : i = db[p].off
    OBVIOUS
<1>3. /\ pc[p] = "d_idx" /\ ret' = ret /\ req' = req /\ dat' = dat
      /\ idx' = [idx EXCEPT ![i].key = Blank, ![i].ptr = table[FREE_OFF]]
    BY <1>2 DEF DeleteIndex
<1>4. k \in Keys /\ Hash[k] \in Chains /\ Chain(p) = Hash[k] /\ NotMoving(k)
    BY <1>1, <1>3, KeyAlone DEF KeyedCall
<1>5. PICK c \in Chains : c = Hash[k]
    BY <1>4
<1>6. /\ i \in ChainRecords(c) /\ idx[i].key = k /\ dat[idx[i].datoff] = Blank
      /\ i \in DOMAIN idx /\ k # Blank
    BY <1>1, <1>2, <1>3, <1>4, <1>5, DbAssumption DEF Aimed, Facts, ChainFacts
<1>7. Map[k] = None
    <2>1. Current(k, i) /\ DataOf(i) = None
        BY <1>5, <1>6 DEF Current, DataOf
    <2>2. Entry(k, None)
        BY <1>4, <2>1 DEF Entry
    <2> QED BY <1>4, <2>2 DEF Sound, MapKnown
<1>8. idx'[i].key = Blank /\ \A j \in DOMAIN idx : j # i => idx'[j] = idx[j]
    <2>1. idx[i] \in IndexRecords
        BY <1>1, <1>6, SeqFacts DEF FileInv
    <2>2. idx'[i].key = Blank
        BY <1>3, <1>6, <2>1, ZenonT(60) DEF IndexRecords
    <2> QED BY <1>3, <2>2
<1>9. ChainRecords(c)' = ChainRecords(c)
    <2>1. Step(p) /\ ~DeleteUnlink(p) /\ ~Link(p)
        BY <1>3 DEF Step, DeleteUnlink, Link
    <2> QED BY <1>1, <2>1, ChainsStay DEF NoKillInDelete, NoKillDeleting
<1>10. ASSUME NEW j, Current(k, j)'
       PROVE  FALSE
    <2>1. j \in ChainRecords(c) /\ idx'[j].key = k
        BY <1>5, <1>9, <1>10 DEF Current
    <2>2. j \in DOMAIN idx
        BY <1>1, <2>1 DEF Facts, ChainFacts
    <2>3. j # i
        BY <1>6, <1>8, <2>1
    <2>4. idx[j].key = k
        BY <1>8, <2>1, <2>2, <2>3
    <2> QED BY <1>1, <1>6, <2>1, <2>3, <2>4 DEF Facts, ChainFacts
<1>11. NotMoving(k)'
    <2>1. StandStill(p)
        BY <1>1, OneAtATime DEF Step
    <2>2. ASSUME NEW q \in Procs
          PROVE  ~Moving(q, k)'
        <3>1. CASE q = p
            BY <1>3, <3>1 DEF Moving, IsStore, Op
        <3>2. CASE q # p
            BY <1>3, <1>4, <2>1, <3>2 DEF NotMoving, Moving, IsStore, Op, StandStill
        <3> QED BY <3>1, <3>2
    <2> QED BY <2>2 DEF NotMoving
<1>12. Entry(k, None)'
    BY <1>10, <1>11 DEF Entry
<1> QED BY <1>4, <1>7, <1>12 DEF Sound, MapKnown

\* The index record of a deleted record is blanked after its data.
LEMMA BlanksSilently ==
    ASSUME Sound, Sound', NoKillInDelete, NEW p \in Procs, DeleteIndex(p)
    PROVE  UNCHANGED KV!vars
<1>1. StandStill(p) /\ RetKept(p)
    BY OneAtATime, RetStays DEF Sound, Step
<1>2. pc \in [Procs -> {"idle"} \cup InCall \cup Ended]
    BY DEF Sound, LockInv
<1>3. pc[p] = "d_idx" /\ pc'[p] = "d_free" /\ ret' = ret /\ req' = req
    BY <1>2 DEF DeleteIndex, Goto
<1>4. ret[p] = "ok" /\ Op(p) \in {"delete", "store"}
    BY <1>3 DEF Sound, MapInv, Results, Replacing, LockInv, Matched, DeleteOrStore
<1>5. CASE Op(p) = "store"
    <2>1. Moving(p, req[p].key)
        BY <1>3, <1>4, <1>5 DEF Moving, IsStore, Ended
    <2>2. \A k \in Keys : Moving(p, k) \/ SameEntry(k)
        BY <2>1, WriteEntries
    <2> QED BY <1>1, <1>3, <2>2, Silent DEF Ended
<1>6. CASE Op(p) = "delete"
    <2>1. \A k \in Keys : ~Moving(p, k) /\ ~Moving(p, k)'
        BY <1>3, <1>6 DEF Moving, IsStore, Op
    <2>2. ASSUME NEW k \in Keys
          PROVE  Map'[k] = Map[k]
        <3>1. CASE k = req[p].key
            BY <1>6, <3>1, BlankKey
        <3>2. CASE k # req[p].key
            <4>1. SameEntry(k)
                BY <3>2, WriteEntries
            <4> QED BY <1>1, <2>1, <4>1, KeyStays DEF Sound
        <3> QED BY <3>1, <3>2
    <2>3. Map' = Map
        BY <2>2, SameMap
    <2>4. Calls' = Calls
        BY <1>1, <1>3, CallStays DEF Ended
    <2> QED BY <2>3, <2>4 DEF KV!vars
<1> QED BY <1>4, <1>5, <1>6

-----------------------------------------------------------------------------
(* The steps that decide a call.                                            *)

LEMMA CallDecided ==
    ASSUME LockInv, NEW p \in Procs, StandStill(p), RetKept(p), pc[p] \in InCall,
           ret[p] = Unset, NEW v, ret'[p] = v, v # Unset, req'[p] = req[p],
           pc'[p] \in InCall
    PROVE  /\ Calls[p] = Pending(req[p]) /\ CallBecomes(p, Decided(req[p], v))
           /\ req[p] \in Requests
<1>1. "idle" \notin InCall /\ InCall \cap Ended = {}
    BY DEF InCall, KeyedCall, NextCall, Ended
<1>2. Calls[p] = Pending(req[p])
    BY <1>1 DEF Calls, Pending
<1>3. Calls'[p] = Decided(req[p], v)
    BY <1>1 DEF Calls, Decided
<1>4. CallBecomes(p, Calls'[p])
    BY OneCall
<1> QED BY <1>2, <1>3, <1>4 DEF CallBecomes, LockInv, Matched

LEMMA MapStays ==
    ASSUME Sound, Sound', NEW p \in Procs, StandStill(p), RetKept(p),
           \A k \in Keys : SameEntry(k), \A k \in Keys : ~Moving(p, k) /\ ~Moving(p, k)'
    PROVE  Map' = Map
<1>1. \A k \in Keys : Map'[k] = Map[k]
    BY KeyStays DEF Sound
<1> QED BY <1>1, SameMap

\* DB_INSERT of a key that is there.
LEMMA FoundDecides ==
    ASSUME Sound, Sound', NoKillInDelete, NEW p \in Procs, Found(p), pc'[p] = "unlock"
    PROVE  KV!Next
<1>1. StandStill(p) /\ RetKept(p) /\ (\A k \in Keys : SameEntry(k))
    BY OneAtATime, RetStays, QuietContent, QuietEntries DEF Sound, Step
<1>2. PICK r, k, i : r = req[p] /\ k = req[p].key /\ i = db[p].off
    OBVIOUS
<1>3. pc \in [Procs -> {"idle"} \cup InCall \cup Ended] /\ ret = [q \in Procs |-> ret[q]]
    BY DEF Sound, LockInv, MapInv
<1>4. /\ pc[p] = "scan" /\ i # 0 /\ idx[i].key = k /\ req' = req
      /\ Op(p) = "store" /\ r.flag = "INSERT" /\ ret'[p] = "exists"
    BY <1>2, <1>3 DEF Found, Goto, IsStore, Result
<1>5. ret[p] = Unset /\ Unset # "exists" /\ Unset # "ok"
    BY <1>4, DbAssumption DEF Sound, MapInv, Results, Undecided
<1>6. i \in ChainRecords(Chain(p))
    BY <1>2, <1>4 DEF Sound, Facts, PlaceFacts
<1>7. Map[k] # None
    BY <1>2, <1>4, <1>6, KeyHeld
<1>8. Map' = Map
    BY <1>1, <1>5, MapStays DEF Moving
<1>9. r \in Requests /\ Calls[p] = Pending(r) /\ CallBecomes(p, Decided(r, "exists"))
    BY <1>1, <1>2, <1>4, <1>5, CallDecided DEF Sound, InCall, KeyedCall
<1> QED BY <1>2, <1>4, <1>7, <1>8, <1>9, RefusesStore DEF Op

\* A key that is not there.
LEMMA NotFoundDecides ==
    ASSUME Sound, Sound', NoKillInDelete, NEW p \in Procs, NotFound(p), pc'[p] = "unlock"
    PROVE  KV!Next
<1>1. StandStill(p) /\ RetKept(p) /\ (\A k \in Keys : SameEntry(k))
    BY OneAtATime, RetStays, QuietContent, QuietEntries DEF Sound, Step
<1>2. PICK r, k : r = req[p] /\ k = req[p].key
    OBVIOUS
<1>3. pc \in [Procs -> {"idle"} \cup InCall \cup Ended] /\ ret = [q \in Procs |-> ret[q]]
    BY DEF Sound, LockInv, MapInv
<1>4. /\ pc[p] = "scan" /\ db[p].off = 0 /\ req' = req
      /\ \/ r.op = "fetch" /\ ret'[p] = None
         \/ r.op = "delete" /\ ret'[p] = "notfound"
         \/ r.op = "store" /\ r.flag = "REPLACE" /\ ret'[p] = "notfound"
    BY <1>2, <1>3 DEF NotFound, Goto, IsStore, Result, Op
<1>5. ret[p] = Unset /\ Unset # "notfound" /\ Unset # None /\ Unset # "ok"
    BY <1>4, DbAssumption DEF Sound, MapInv, Results, Undecided
<1>6. k \in Keys /\ Map[k] = None
    <2>1. \A i \in ChainRecords(Chain(p)) : idx[i].key # k
        BY <1>2, <1>4 DEF Sound, Facts, PlaceFacts
    <2>2. pc[p] \in KeyedCall \ {"find"}
        BY <1>4 DEF KeyedCall
    <2> QED BY <1>2, <1>5, <2>1, <2>2, KeyMissing
<1>7. Map' = Map
    BY <1>1, <1>5, MapStays DEF Moving
<1>8. /\ r \in Requests /\ Calls[p] = Pending(r)
      /\ CallBecomes(p, Decided(r, ret'[p]))
    <2>1. pc[p] \in InCall /\ pc'[p] \in InCall
        BY <1>4 DEF InCall, KeyedCall
    <2> QED BY <1>1, <1>2, <1>4, <1>5, <2>1, CallDecided DEF Sound
<1>9. CASE r.op = "fetch"
    BY <1>2, <1>4, <1>6, <1>7, <1>8, <1>9, DecidesFetch
<1>10. CASE r.op = "delete"
    <2>1. MapBecomes(r.key, None)
        BY <1>2, <1>6, <1>7, OneKey
    <2> QED BY <1>2, <1>4, <1>6, <1>8, <1>10, <2>1, DecidesDelete
<1>11. CASE r.op = "store"
    BY <1>2, <1>4, <1>6, <1>7, <1>8, <1>11, RefusesStore
<1> QED BY <1>4, <1>9, <1>10, <1>11

LEMMA ReadDecides ==
    ASSUME Sound, Sound', NoKillInDelete, FlagInv, NEW p \in Procs, ReadData(p)
    PROVE  KV!Next
<1>1. StandStill(p) /\ RetKept(p) /\ (\A k \in Keys : SameEntry(k))
    BY OneAtATime, RetStays, QuietContent, QuietEntries DEF Sound, Step
<1>2. PICK r, k, i : r = req[p] /\ k = req[p].key /\ i = db[p].off
    OBVIOUS
<1>3. pc \in [Procs -> {"idle"} \cup InCall \cup Ended] /\ ret = [q \in Procs |-> ret[q]]
    BY DEF Sound, LockInv, MapInv
<1>4. /\ pc[p] = "f_dat" /\ req' = req /\ pc'[p] = "unlock"
      /\ ret'[p] = dat[db[p].datoff]
    BY <1>3 DEF ReadData, Goto, Result
<1>5. ret[p] = Unset /\ Unset # "ok"
    BY <1>4, DbAssumption DEF Sound, MapInv, Results, Undecided
<1>6. Aimed(p)
    BY DEF Sound, MapInv
<1>7. Map[k] = dat[db[p].datoff] /\ dat[db[p].datoff] \in Data
    BY <1>2, <1>4, <1>6, KeyHeld DEF Aimed
<1>8. Map' = Map
    BY <1>1, <1>4, <1>5, MapStays DEF Moving
<1>9. r \in Requests /\ Calls[p] = Pending(r) /\ CallBecomes(p, Decided(r, Map[k]))
    <2>1. pc[p] \in InCall /\ pc'[p] \in InCall
        BY <1>4 DEF InCall, KeyedCall
    <2>2. Map[k] # Unset
        BY <1>7, DbAssumption
    <2> QED BY <1>1, <1>2, <1>4, <1>5, <1>7, <2>1, <2>2, CallDecided DEF Sound
<1>10. r.op = "fetch"
    BY <1>2, <1>4 DEF FlagInv, Flagged, Op
<1> QED BY <1>2, <1>8, <1>9, <1>10, DecidesFetch

LEMMA OtherKeysStay ==
    ASSUME Sound, Sound', NEW p \in Procs, StandStill(p), RetKept(p), req'[p] = req[p],
           NEW j, j = req[p].key, \A k \in Keys \ {j} : SameEntry(k)
    PROVE  \A k \in Keys \ {j} : Map'[k] = Map[k]
<1> TAKE k \in Keys \ {j}
<1>1. ~Moving(p, k) /\ ~Moving(p, k)'
    BY DEF Moving
<1> QED BY <1>1, KeyStays DEF Sound

LEMMA StillNotMoving ==
    ASSUME NEW p \in Procs, StandStill(p), RetKept(p), NEW k, NotMoving(k), ~Moving(p, k)'
    PROVE  NotMoving(k)'
<1> SUFFICES ASSUME NEW q \in Procs
             PROVE  ~Moving(q, k)'
    BY DEF NotMoving
<1>1. CASE q = p
    BY <1>1
<1>2. CASE q # p
    BY <1>2 DEF NotMoving, Moving, IsStore, Op, StandStill, RetKept
<1> QED BY <1>1, <1>2

\* The data of the record a call works on is overwritten.
LEMMA DataWritten ==
    ASSUME Sound, Sound', NoKillInDelete, NEW p \in Procs, Overwrite(p) \/ DeleteData(p),
           NEW k, k = req[p].key
    PROVE  /\ k \in Keys /\ Map[k] # None /\ NotMoving(k)
           /\ \A j \in Keys \ {k} : Map'[j] = Map[j]
           /\ NotMoving(k)' =>
                 Map'[k] = IF dat'[db[p].datoff] = Blank THEN None ELSE dat'[db[p].datoff]
<1>1. StandStill(p) /\ RetKept(p)
    BY OneAtATime, RetStays DEF Sound, Step
<1>2. PICK i : i = db[p].off
    OBVIOUS
<1>3. pc[p] \in {"overwrite", "d_lock"} /\ idx' = idx /\ req' = req
    BY DEF Overwrite, DeleteData
<1>4. i \in ChainRecords(Chain(p)) /\ idx[i].key = k /\ idx[i].datoff = db[p].datoff
    BY <1>2, <1>3 DEF Sound, MapInv, Aimed
<1>5. k \in Keys /\ Map[k] # None /\ NotMoving(k) /\ Current(k, i)
    BY <1>3, <1>4, KeyHeld
<1>6. \A j \in Keys \ {k} : SameEntry(j)
    BY WriteEntries
<1>7. \A j \in Keys \ {k} : Map'[j] = Map[j]
    BY <1>1, <1>3, <1>6, OtherKeysStay
<1>8. Current(k, i)'
    <2>1. PICK c \in Chains : c = Hash[k]
        BY <1>5, DbAssumption
    <2>2. Step(p) /\ ~DeleteUnlink(p) /\ ~Link(p)
        BY <1>3 DEF Step, DeleteUnlink, Link
    <2>3. ChainRecords(c)' = ChainRecords(c)
        BY <2>2, ChainsStay DEF Sound, NoKillInDelete, NoKillDeleting
    <2> QED BY <1>3, <1>5, <2>1, <2>3 DEF Current
<1>9. DataOf(i)' = IF dat'[db[p].datoff] = Blank THEN None ELSE dat'[db[p].datoff]
    BY <1>3, <1>4 DEF DataOf
<1>10. ASSUME NotMoving(k)'
       PROVE  Map'[k] = IF dat'[db[p].datoff] = Blank THEN None ELSE dat'[db[p].datoff]
    <2>1. PICK d : d = DataOf(i)'
        OBVIOUS
    <2>2. Entry(k, d)'
        BY <1>8, <1>10, <2>1 DEF Entry
    <2> QED BY <1>5, <1>9, <2>1, <2>2 DEF Sound, MapKnown
<1> QED BY <1>5, <1>7, <1>10

LEMMA OverwriteDecides ==
    ASSUME Sound, Sound', NoKillInDelete, FlagInv, NEW p \in Procs, Overwrite(p)
    PROVE  KV!Next
<1>1. StandStill(p) /\ RetKept(p)
    BY OneAtATime, RetStays DEF Sound, Step
<1>2. PICK r, k, x : r = req[p] /\ k = req[p].key /\ x = req[p].data
    OBVIOUS
<1>3. pc \in [Procs -> {"idle"} \cup InCall \cup Ended] /\ ret = [q \in Procs |-> ret[q]]
    BY DEF Sound, LockInv, MapInv
<1>4. /\ pc[p] = "overwrite" /\ req' = req /\ pc'[p] = "unlock" /\ ret'[p] = "ok"
      /\ dat' = [dat EXCEPT ![db[p].datoff] = x]
    BY <1>2, <1>3 DEF Overwrite, Goto, Result
<1>5. ret[p] = Unset /\ Unset # "ok"
    BY <1>4, DbAssumption DEF Sound, MapInv, Results, Undecided
<1>6. x \in Data /\ x # Blank /\ r.op = "store" /\ r.flag # "INSERT"
    <2>1. x \in Data /\ r.op = "store"
        BY <1>2, <1>4, StoreRequest DEF StoreOnly, Sound, LockInv, Matched, Op
    <2>2. r.flag # "INSERT"
        BY <1>2, <1>4, <2>1 DEF FlagInv, Flagged, Op
    <2> QED BY <2>1, <2>2, DbAssumption
<1>7. db[p].datoff \in DOMAIN dat
    BY <1>4 DEF Sound, FileInv, Handle
<1>8. /\ k \in Keys /\ Map[k] # None /\ NotMoving(k)
      /\ \A j \in Keys \ {k} : Map'[j] = Map[j]
      /\ NotMoving(k)' =>
            Map'[k] = IF dat'[db[p].datoff] = Blank THEN None ELSE dat'[db[p].datoff]
    BY <1>2, DataWritten
<1>9. NotMoving(k)'
    <2>1. ~Moving(p, k)'
        BY <1>4 DEF Moving
    <2> QED BY <1>1, <1>8, <2>1, StillNotMoving
<1>10. MapBecomes(k, x)
    <2>1. Map'[k] = x
        BY <1>4, <1>6, <1>7, <1>8, <1>9
    <2> QED BY <1>8, <2>1, OneKey
<1>11. r \in Requests /\ Calls[p] = Pending(r) /\ CallBecomes(p, Decided(r, "ok"))
    <2>1. pc[p] \in InCall /\ pc'[p] \in InCall
        BY <1>4 DEF InCall, KeyedCall
    <2> QED BY <1>1, <1>2, <1>4, <1>5, <2>1, CallDecided DEF Sound
<1> QED BY <1>2, <1>6, <1>8, <1>10, <1>11, DecidesStore

\* db_delete, and db_store of data of another size.
LEMMA DeleteDecides ==
    ASSUME Sound, Sound', NoKillInDelete, FlagInv, NEW p \in Procs, DeleteData(p)
    PROVE  KV!Next
<1>1. StandStill(p) /\ RetKept(p)
    BY OneAtATime, RetStays DEF Sound, Step
<1>2. PICK r, k, x : r = req[p] /\ k = req[p].key /\ x = req[p].data
    OBVIOUS
<1>3. pc \in [Procs -> {"idle"} \cup InCall \cup Ended] /\ ret = [q \in Procs |-> ret[q]]
    BY DEF Sound, LockInv, MapInv
<1>4. /\ pc[p] = "d_lock" /\ req' = req /\ pc'[p] = "d_idx" /\ ret'[p] = "ok"
      /\ dat' = [dat EXCEPT ![db[p].datoff] = Blank]
    BY <1>3 DEF DeleteData, Goto, Result
<1>5. ret[p] = Unset /\ Unset # "ok"
    BY <1>4, DbAssumption DEF Sound, MapInv, Results, Undecided
<1>6. r.op \in {"delete", "store"} /\ (r.op = "store" => r.flag # "INSERT")
    BY <1>2, <1>4 DEF Sound, LockInv, Matched, DeleteOrStore, FlagInv, Flagged, Op
<1>7. /\ k \in Keys /\ Map[k] # None /\ NotMoving(k)
      /\ \A j \in Keys \ {k} : Map'[j] = Map[j]
      /\ NotMoving(k)' =>
            Map'[k] = IF dat'[db[p].datoff] = Blank THEN None ELSE dat'[db[p].datoff]
    BY <1>2, DataWritten
<1>8. r \in Requests /\ Calls[p] = Pending(r) /\ CallBecomes(p, Decided(r, "ok"))
    <2>1. pc[p] \in InCall /\ pc'[p] \in InCall
        BY <1>4 DEF InCall, KeyedCall
    <2> QED BY <1>1, <1>2, <1>4, <1>5, <2>1, CallDecided DEF Sound
<1>9. CASE r.op = "delete"
    <2>1. ~Moving(p, k)'
        BY <1>2, <1>4, <1>9 DEF Moving, IsStore, Op
    <2>2. NotMoving(k)'
        BY <1>1, <1>7, <2>1, StillNotMoving
    <2>3. db[p].datoff \in DOMAIN dat
        BY <1>4 DEF Sound, FileInv, Handle
    <2>4. MapBecomes(k, None)
        <3>1. Map'[k] = None
            BY <1>4, <1>7, <2>2, <2>3
        <3> QED BY <1>7, <3>1, OneKey
    <2> QED BY <1>2, <1>7, <1>8, <1>9, <2>4, DecidesDelete
<1>10. CASE r.op = "store"
    <2>1. Moving(p, k)' /\ req'[p].data = x
        BY <1>2, <1>4, <1>10 DEF Moving, IsStore, Op, Ended
    <2>2. Entry(k, x)'
        BY <2>1 DEF Entry
    <2>3. Map'[k] = x
        BY <1>7, <2>2 DEF Sound, MapKnown
    <2>4. MapBecomes(k, x)
        BY <1>7, <2>3, OneKey
    <2> QED BY <1>2, <1>6, <1>7, <1>8, <1>10, <2>4, DecidesStore
<1> QED BY <1>6, <1>9, <1>10

\* The new record of a store is linked: the call is decided here, or has been
\* since the old record was deleted.
LEMMA LinkDecides ==
    ASSUME Sound, Sound', FlagInv, NEW p \in Procs, Link(p)
    PROVE  KV!Next \/ UNCHANGED KV!vars
<1>1. StandStill(p) /\ RetKept(p)
    BY OneAtATime, RetStays DEF Sound, Step
<1>2. PICK r, k, x : r = req[p] /\ k = req[p].key /\ x = req[p].data
    OBVIOUS
<1>3. pc \in [Procs -> {"idle"} \cup InCall \cup Ended] /\ ret = [q \in Procs |-> ret[q]]
    BY DEF Sound, LockInv, MapInv
<1>4. pc[p] = "link" /\ req' = req /\ pc'[p] = "unlock" /\ ret'[p] = "ok"
    BY <1>3 DEF Link, Goto, Result
<1>5. ret[p] \in {Unset, "ok"} /\ Unset # "ok" /\ r.op = "store" /\ r \in Requests
    BY <1>2, <1>4, DbAssumption
       DEF Sound, MapInv, Results, Appending, LockInv, Matched, StoreOnly, InCall, KeyedCall, Op
<1>6. /\ k \in Keys /\ Map'[k] = x
      /\ \A j \in Keys \ {k} : SameEntry(j)
    BY <1>2, LinkEntries
<1>7. \A j \in Keys \ {k} : Map'[j] = Map[j]
    BY <1>1, <1>2, <1>4, <1>6, OtherKeysStay
<1>8. CASE ret[p] = Unset
    <2>1. Map[k] = None
        <3>1. \A i \in ChainRecords(Chain(p)) : idx[i].key # k
            BY <1>2, <1>4 DEF Sound, Facts, PlaceFacts, Missing
        <3>2. pc[p] \in KeyedCall \ {"find"}
            BY <1>4 DEF KeyedCall
        <3> QED BY <1>2, <1>5, <1>8, <3>1, <3>2, KeyMissing
    <2>2. r.flag # "REPLACE"
        BY <1>2, <1>4, <1>8 DEF FlagInv, Flagged, StoreOnly
    <2>3. MapBecomes(k, x)
        BY <1>6, <1>7, OneKey
    <2>4. Calls[p] = Pending(r) /\ CallBecomes(p, Decided(r, "ok"))
        <3>1. pc[p] \in InCall /\ pc'[p] \in InCall
            BY <1>4 DEF InCall, KeyedCall
        <3> QED BY <1>1, <1>2, <1>4, <1>5, <1>8, <3>1, CallDecided DEF Sound
    <2> QED BY <1>2, <1>5, <2>1, <2>2, <2>3, <2>4, DecidesStore
<1>9. CASE ret[p] = "ok"
    <2>1. Moving(p, k)
        BY <1>2, <1>4, <1>5, <1>9 DEF Moving, IsStore, Op, Ended
    <2>2. Entry(k, x)
        BY <1>2, <2>1 DEF Entry
    <2>3. Map[k] = x
        BY <1>6, <2>2 DEF Sound, MapKnown
    <2>4. Map' = Map
        BY <1>6, <1>7, <2>3, SameMap
    <2>5. Calls' = Calls
        BY <1>1, <1>4, <1>9, CallStays DEF Ended
    <2> QED BY <2>4, <2>5 DEF KV!vars
<1> QED BY <1>5, <1>8, <1>9

\* What db_nextrec has read, its caller may see.
LEMMA ScanSees ==
    ASSUME Sound, NEW p \in Procs, pc[p] = "n_dat", NEW k, k = db[p].key,
           NEW d, d = dat[db[p].datoff]
    PROVE  k \in Keys /\ d \in Data /\ KV!Visible(k, d)
<1>1. LockInv /\ FileInv /\ Facts /\ MapInv
    BY DEF Sound
<1>2. k \in Keys /\ d \in Data /\ d # Blank
    BY <1>1, ScanReads, DbAssumption
<1>3. ASSUME NEW c \in Chains, NEW j \in ChainRecords(c),
             idx[j].key = k, idx[j].datoff = db[p].datoff
      PROVE  KV!Visible(k, d)
    <2>1. c = Hash[k]
        <3>1. idx[j].key # Blank
            BY <1>2, <1>3, DbAssumption
        <3> QED BY <1>1, <1>3, <3>1 DEF Facts, ChainFacts
    <2>2. ASSUME NEW q \in Procs, Moving(q, k)
          PROVE  FALSE
        <3>1. pc[q] \in Replacing \cup Appending /\ req[q].key = k
            BY <1>1, <1>2, <2>2, MoverOnChain
        <3>2. ~OnFreeList(q)
            <4>1. p # q
                BY <3>1 DEF Replacing, Appending
            <4> QED BY <1>1, <4>1, CriticalSectionsHeld DEF CriticalSections, ReadsFreeList
        <3>3. pc[q] \in Missing
            BY <3>1, <3>2 DEF Replacing, Appending, Missing, OnFreeList
        <3> QED BY <1>1, <1>3, <2>1, <3>1, <3>3 DEF Facts, PlaceFacts, Chain
    <2>3. NotMoving(k) /\ Current(k, j) /\ DataOf(j) = d
        BY <1>2, <1>3, <2>1, <2>2 DEF NotMoving, Current, DataOf
    <2>4. Map[k] = d
        BY <1>2, <2>3 DEF Entry, Sound, MapKnown
    <2> QED BY <2>4 DEF KV!Visible
<1>4. ASSUME NEW q \in Procs, NEW j \in DOMAIN idx, Stores(q, j),
             idx[j].key = k, idx[j].datoff = db[p].datoff
      PROVE  KV!Visible(k, d)
    <2>1. /\ pc[q] \in {"link"} \cup Ended /\ IsStore(q)
          /\ req[q].op = "store" /\ req[q].key = k /\ req[q].data = d
        BY <1>4 DEF Stores, IsStore, Op
    <2>2. CASE pc[q] \in Ended
        <3>1. Calls[q] = Dead(req[q])
            BY <2>2 DEF Calls, Ended, Dead
        <3> QED BY <2>1, <3>1 DEF KV!Visible, Dead
    <2>3. CASE pc[q] = "link" /\ ret[q] = Unset
        <3>1. Calls[q] = Pending(req[q])
            BY <2>3 DEF Calls, Ended, Pending
        <3> QED BY <2>1, <3>1 DEF KV!Visible, Pending
    <2>4. CASE pc[q] = "link" /\ ret[q] # Unset
        <3>1. ret[q] = "ok"
            BY <1>1, <2>4 DEF MapInv, Results, Appending
        <3>2. Moving(q, k)
            BY <2>1, <2>4, <3>1 DEF Moving, Ended
        <3>3. Map[k] = d
            BY <1>2, <2>1, <3>2 DEF Entry, Sound, MapKnown
        <3> QED BY <3>3 DEF KV!Visible
    <2> QED BY <2>1, <2>2, <2>3, <2>4
<1> QED BY <1>1, <1>2, <1>3, <1>4, ScanReads

LEMMA ScanDecides ==
    ASSUME Sound, Sound', NoKillInDelete, NEW p \in Procs, NextEOF(p) \/ NextData(p)
    PROVE  KV!Next
<1>1. StandStill(p) /\ RetKept(p) /\ (\A k \in Keys : SameEntry(k))
    BY OneAtATime, RetStays, QuietContent, QuietEntries DEF Sound, Step
<1>2. PICK r, v : r = req[p] /\ v = ret'[p]
    OBVIOUS
<1>3. pc \in [Procs -> {"idle"} \cup InCall \cup Ended] /\ ret = [q \in Procs |-> ret[q]]
    BY DEF Sound, LockInv, MapInv
<1>4. /\ pc[p] \in {"n_idx", "n_dat"} /\ pc'[p] = "n_unlock" /\ req' = req
      /\ \/ v = None
         \/ pc[p] = "n_dat" /\ v = <<db[p].key, dat[db[p].datoff]>>
    BY <1>2, <1>3 DEF NextEOF, NextData, Goto, Result
<1>5. ret[p] = Unset /\ Unset # "ok" /\ r.op = "nextrec"
    BY <1>2, <1>4, DbAssumption DEF Sound, MapInv, Results, Undecided, NextCall, Op
<1>6. v = None \/ \E k \in Keys, d \in Data : KV!Visible(k, d) /\ v = <<k, d>>
    <2>1. ASSUME pc[p] = "n_dat", v = <<db[p].key, dat[db[p].datoff]>>
          PROVE  \E k \in Keys, d \in Data : KV!Visible(k, d) /\ v = <<k, d>>
        <3>1. PICK k, d : k = db[p].key /\ d = dat[db[p].datoff]
            OBVIOUS
        <3>2. k \in Keys /\ d \in Data /\ KV!Visible(k, d)
            BY <2>1, <3>1, ScanSees
        <3> QED BY <2>1, <3>1, <3>2
    <2> QED BY <1>4, <2>1
<1>7. Unset # v
    BY <1>6, DbAssumption
<1>8. Map' = Map
    BY <1>1, <1>2, <1>4, <1>5, MapStays DEF Moving, IsStore, Op
<1>9. r \in Requests /\ Calls[p] = Pending(r) /\ CallBecomes(p, Decided(r, v))
    <2>1. pc[p] \in InCall /\ pc'[p] \in InCall
        BY <1>4 DEF InCall, NextCall
    <2> QED BY <1>1, <1>2, <1>4, <1>5, <1>7, <2>1, CallDecided DEF Sound
<1> QED BY <1>5, <1>6, <1>8, <1>9, DecidesScan

-----------------------------------------------------------------------------
(* The steps that begin and end a call.                                     *)

LEMMA Invokes ==
    ASSUME Sound, Sound', NoKillInDelete, NEW p \in Procs, Call(p)
    PROVE  KV!Next
<1>1. StandStill(p) /\ RetKept(p) /\ (\A k \in Keys : SameEntry(k))
    BY OneAtATime, RetStays, QuietContent, QuietEntries DEF Sound
<1>2. /\ pc \in [Procs -> {"idle"} \cup InCall \cup Ended]
      /\ req \in [Procs -> Requests \cup {None}]
    BY DEF Sound, LockInv
<1>3. PICK r \in Requests : /\ req' = [req EXCEPT ![p] = r]
                            /\ pc'[p] \in {"n_lock", "find"}
    BY <1>2 DEF Call, Goto
<1>4. pc[p] = "idle" /\ ret' = ret /\ req'[p] = r
    BY <1>2, <1>3 DEF Call
<1>5. ret[p] = Unset /\ Unset # "ok"
    BY <1>4, DbAssumption DEF Sound, MapInv, Results, Undecided
<1>6. Map' = Map
    BY <1>1, <1>4, <1>5, MapStays DEF Moving
<1>7. Calls[p].st = "idle" /\ CallBecomes(p, [st |-> "pending", req |-> r])
    <2>1. Calls[p].st = "idle"
        BY <1>4 DEF Calls
    <2>2. Calls'[p] = [st |-> "pending", req |-> r]
        BY <1>3, <1>4, <1>5 DEF Calls, Ended
    <2> QED BY <1>1, <2>1, <2>2, OneCall DEF CallBecomes
<1>8. KV!Invoke(p)
    BY <1>6, <1>7 DEF KV!Invoke, CallBecomes
<1> QED BY <1>8 DEF KV!Next

LEMMA Returns ==
    ASSUME Sound, Sound', NoKillInDelete, NEW p \in Procs, Return(p) \/ NextReturn(p)
    PROVE  KV!Next
<1>1. StandStill(p) /\ RetKept(p) /\ (\A k \in Keys : SameEntry(k))
    BY OneAtATime, RetStays, QuietContent, QuietEntries DEF Sound, Step
<1>2. /\ pc \in [Procs -> {"idle"} \cup InCall \cup Ended]
      /\ req \in [Procs -> Requests \cup {None}]
      /\ ret = [q \in Procs |-> ret[q]]
    BY DEF Sound, LockInv, MapInv
<1>3. pc[p] \in {"unlock", "n_unlock"} /\ pc'[p] = "idle" /\ ret'[p] = Unset
    BY <1>2 DEF Return, NextReturn, Goto
<1>4. ret[p] # Unset /\ (pc[p] = "n_unlock" => Op(p) = "nextrec") /\ Unset # "ok"
    BY <1>3, DbAssumption DEF Sound, MapInv, Results, NextCall
<1>5. \A k \in Keys : ~Moving(p, k) /\ ~Moving(p, k)'
    BY <1>3, <1>4 DEF Moving, IsStore
<1>6. Map' = Map
    BY <1>1, <1>5, MapStays
<1>7. Calls[p].st = "done" /\ CallBecomes(p, [st |-> "idle"])
    <2>1. Calls[p] = Decided(req[p], ret[p])
        BY <1>3, <1>4 DEF Calls, Ended, Decided
    <2>2. Calls'[p] = [st |-> "idle"]
        BY <1>3 DEF Calls
    <2> QED BY <1>1, <2>1, <2>2, OneCall DEF CallBecomes, Decided
<1>8. KV!Return(p)
    BY <1>6, <1>7 DEF KV!Return, KV!Idle, CallBecomes
<1> QED BY <1>8 DEF KV!Next

\* A process ends in the middle of a call: a record it was moving is gone.
LEMMA Dies ==
    ASSUME Sound, Sound', NoKillInDelete, NEW p \in Procs,
           Kill(p) \/ LinkQuit(p) \/ NextDump(p)
    PROVE  KV!Next
<1>1. StandStill(p) /\ RetKept(p) /\ (\A k \in Keys : SameEntry(k))
    BY OneAtATime, RetStays, QuietContent, QuietEntries DEF Sound, Step
<1>2. pc \in [Procs -> {"idle"} \cup InCall \cup Ended]
    BY DEF Sound, LockInv
<1>3. /\ pc[p] \in InCall /\ pc'[p] \in Ended /\ req' = req /\ idx' = idx
      /\ pc[p] \notin {"d_idx", "d_free", "d_unlink"}
    <2>1. pc[p] \in InCall /\ pc[p] \notin {"d_idx", "d_free", "d_unlink"}
        BY DbAssumption DEF NoKillInDelete, Kill, LinkQuit, NextDump, InCall, KeyedCall, NextCall
    <2>2. pc'[p] \in Ended /\ req' = req /\ idx' = idx
        BY <1>2 DEF Kill, LinkQuit, NextDump, End, Goto, Ended
    <2> QED BY <2>1, <2>2
<1>4. PICK r, k : r = req[p] /\ k = req[p].key
    OBVIOUS
<1>5. \A j \in Keys : ~Moving(p, j)'
    BY <1>3 DEF Moving
<1>6. /\ Calls[p].st \in {"pending", "done"} /\ Calls[p].req = r
      /\ CallBecomes(p, Dead(r))
    <2>1. "idle" \notin InCall /\ "idle" \notin Ended /\ InCall \cap Ended = {}
        BY DEF InCall, KeyedCall, NextCall, Ended
    <2>2. Calls[p] = Pending(r) \/ Calls[p] = Decided(r, ret[p])
        BY <1>3, <1>4, <2>1 DEF Calls, Pending, Decided
    <2>3. Calls'[p] = Dead(r)
        BY <1>3, <1>4, <2>1 DEF Calls, Dead
    <2> QED BY <1>1, <2>2, <2>3, OneCall DEF CallBecomes, Pending, Decided
<1>7. CASE \A j \in Keys : ~Moving(p, j)
    <2>1. Map' = Map
        BY <1>1, <1>5, <1>7, MapStays
    <2>2. KV!Die(p)
        BY <1>6, <2>1 DEF KV!Die, CallBecomes, Dead
    <2> QED BY <2>2 DEF KV!Next
<1>8. CASE \E j \in Keys : Moving(p, j)
    <2>1. k \in Keys /\ Moving(p, k) /\ r.op = "store"
        BY <1>4, <1>8 DEF Moving, IsStore, Op
    <2>2. PICK c \in Chains : c = Hash[k] /\ c = Chain(p)
        BY <1>4, <2>1, DbAssumption DEF Chain
    <2>3. pc[p] \in Missing
        <3>1. pc[p] \in Replacing \cup Appending
            BY <2>1, MoverOnChain DEF Sound
        <3> QED BY <1>3, <3>1 DEF Replacing, Appending, Missing
    <2>4. \A i \in ChainRecords(c) : idx[i].key # k
        BY <1>4, <2>2, <2>3 DEF Sound, Facts, PlaceFacts
    <2>5. \A i : ~Current(k, i)'
        BY <1>1, <2>1, <2>2, <2>4 DEF SameEntry, Current
    <2>6. NotMoving(k)'
        <3> SUFFICES ASSUME NEW q \in Procs
                     PROVE  ~Moving(q, k)'
            BY DEF NotMoving
        <3>1. CASE q = p
            BY <1>5, <2>1, <3>1
        <3>2. CASE q # p
            <4>1. ~Moving(q, k)
                BY <2>1, <3>2, MoverOnChain DEF Sound
            <4> QED BY <1>1, <3>2, <4>1 DEF Moving, IsStore, Op, StandStill, RetKept
        <3> QED BY <3>1, <3>2
    <2>7. Map'[k] = None
        BY <2>1, <2>5, <2>6 DEF Entry, Sound, MapKnown
    <2>8. \A j \in Keys \ {k} : Map'[j] = Map[j]
        BY <1>1, <1>3, <1>4, OtherKeysStay
    <2>9. MapBecomes(k, None)
        BY <2>1, <2>7, <2>8, OneKey
    <2>10. KV!Die(p)
        BY <1>4, <1>6, <2>1, <2>9 DEF KV!Die, CallBecomes, MapBecomes, Dead
    <2> QED BY <2>10 DEF KV!Next
<1> QED BY <1>7, <1>8

-----------------------------------------------------------------------------
(* Every step of the library is a step of the abstract map, or none.         *)

LEMMA StepImplements ==
    ASSUME Sound, Sound', NoKillInDelete, FlagInv, NEW p \in Procs,
           Call(p) \/ Rewind(p) \/ Step(p) \/ Kill(p)
    PROVE  KV!Next \/ UNCHANGED KV!vars
<1>1. CASE Call(p)
    BY <1>1, Invokes
<1>2. CASE Return(p) \/ NextReturn(p)
    BY <1>2, Returns
<1>3. CASE Kill(p) \/ LinkQuit(p) \/ NextDump(p)
    BY <1>3, Dies
<1>4. CASE (Found(p) \/ NotFound(p)) /\ pc'[p] = "unlock"
    BY <1>4, FoundDecides, NotFoundDecides
<1>5. CASE ReadData(p) \/ Overwrite(p) \/ DeleteData(p)
    BY <1>5, ReadDecides, OverwriteDecides, DeleteDecides
<1>6. CASE NextEOF(p) \/ NextData(p)
    BY <1>6, ScanDecides
<1>7. CASE Link(p)
    BY <1>7, LinkDecides
<1>8. CASE ReuseData(p) \/ AppendData(p) \/ ReuseIndex(p) \/ AppendIndex(p) \/ DeleteUnlink(p)
    BY <1>8, WritesSilently
<1>9. CASE DeleteIndex(p)
    BY <1>9, BlanksSilently
<1>10. CASE \/ Rewind(p) \/ FindAndLock(p) \/ FindNext(p)
            \/ (Found(p) \/ NotFound(p)) /\ pc'[p] # "unlock"
            \/ ReadChainHead(p) \/ FreeLock(p) \/ FreeNext(p) \/ FreeFound(p)
            \/ FreeNone(p) \/ FreeTake(p) \/ AppendSeekData(p) \/ AppendSeekIndex(p)
            \/ DeleteFree(p) \/ NextLock(p) \/ NextSkip(p) \/ NextFound(p)
    BY <1>10, SearchesSilently
<1> QED BY <1>1, <1>2, <1>3, <1>4, <1>5, <1>6, <1>7, <1>8, <1>9, <1>10 DEF Step

LEMMA StutterImplements == UNCHANGED vars => UNCHANGED KV!vars
<1> SUFFICES ASSUME UNCHANGED vars
             PROVE  UNCHANGED KV!vars
    OBVIOUS
<1>1. \A c \in Chains : ChainRecords(c)' = ChainRecords(c)
    BY DEF vars, ChainRecords, Nth, ChainPtrs, ChainPtr, ReadPtr, Places, BeingDeleted, Deleting
<1>2. ASSUME NEW k \in Keys
      PROVE  RecordOf(k)' = RecordOf(k)
    <2> DEFINE R == ChainRecords(Hash[k])
               S == {i \in R : idx[i].key = k}
    <2>1. R' = R
        BY <1>1, DbAssumption
    <2> HIDE DEF R
    <2>2. S' = S
        BY <2>1 DEF vars
    <2>3. RecordOf(k) = IF S = {} THEN 0 ELSE CHOOSE i \in S : TRUE
        BY DEF RecordOf, R
    <2>4. RecordOf(k)' = IF S' = {} THEN 0 ELSE CHOOSE i \in S' : TRUE
        BY DEF RecordOf, R
    <2> HIDE DEF S
    <2> QED BY <2>2, <2>3, <2>4
<1>3. \A p \in Procs, k \in Keys : Moving(p, k)' <=> Moving(p, k)
    BY DEF vars, Moving, IsStore, Op
<1>4. \A k \in Keys : Map'[k] = Map[k]
    BY <1>2, <1>3 DEF vars, Map
<1>5. Map' = Map
    BY <1>4, SameMap
<1>6. Calls' = Calls
    BY DEF vars, Calls
<1> QED BY <1>5, <1>6 DEF KV!vars

LEMMA InitImplements == Sound /\ Init => KV!Init
<1> SUFFICES ASSUME Sound, Init
             PROVE  KV!Init
    OBVIOUS
<1>1. /\ idx = <<>> /\ ret = [p \in Procs |-> Unset] /\ pc = [p \in Procs |-> "idle"]
      /\ Unset # "ok"
    BY DbAssumption DEF Init
<1>2. ASSUME NEW k \in Keys
      PROVE  Map[k] = None
    <2>1. NotMoving(k)
        BY <1>1 DEF NotMoving, Moving
    <2>2. \A i : ~Current(k, i)
        BY <1>1, DbAssumption DEF Current, Sound, Facts, ChainFacts
    <2> QED BY <2>1, <2>2 DEF Entry, Sound, MapKnown
<1>3. Map = [k \in Keys |-> None]
    BY <1>2, Functions
<1>4. Calls = [p \in Procs |-> [st |-> "idle"]]
    BY <1>1 DEF Calls
<1> QED BY <1>3, <1>4 DEF KV!Init, KV!Idle

\* Every db_fetch, db_store and db_delete takes effect at one instant between
\* its call and its return, and a scan returns what is current or being stored,
\* for any number of processes, chains, keys, data and calls (db.c:234-301,
\* 441-525 and 638-746), whatever the processes die of outside _db_dodelete.
THEOREM CallsAtomic == ASSUME NoKillInDelete PROVE Spec => Linearizable
<1>1. LockInv /\ FileInv /\ ListInv /\ MapInv => Sound
    BY FactsHold, MapIs DEF Sound
<1>2. Sound /\ Init => KV!Init
    BY InitImplements
<1>3. Sound /\ Sound' /\ FlagInv /\ [Next]_vars => [KV!Next]_(KV!vars)
    <2> SUFFICES ASSUME Sound, Sound', FlagInv, [Next]_vars
                 PROVE  KV!Next \/ UNCHANGED KV!vars
        OBVIOUS
    <2>1. CASE UNCHANGED vars
        BY <2>1, StutterImplements
    <2>2. CASE Next
        <3>1. PICK p \in Procs : Call(p) \/ Rewind(p) \/ Step(p) \/ Kill(p)
            BY <2>2 DEF Next
        <3> QED BY <3>1, StepImplements
    <2> QED BY <2>1, <2>2
<1>4. Spec => []LockInv /\ []FileInv /\ []ListInv /\ []MapInv /\ []FlagInv
    <2>1. NoKillDeleting
        BY DEF NoKillInDelete, NoKillDeleting
    <2> QED BY <2>1, LocksHeld, FileInvAlways, ListInvAlways, MapInvAlways, FlagInvAlways, PTL
<1> QED BY <1>1, <1>2, <1>3, <1>4, PTL DEF Spec, Linearizable, KV!Spec
================================================================================
