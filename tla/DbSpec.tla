--------------------------------- MODULE DbSpec ---------------------------------
(***************************************************************************)
(* The properties of the database library (module Db), and the map its      *)
(* files represent (module KVStore).                                        *)
(***************************************************************************)
EXTENDS Db

(***************************************************************************)
(* The lists in the index file.  A process between blanking a record and    *)
(* unlinking it has already overwritten the record's chain pointer with a   *)
(* free list pointer; until it unlinks the record, the chain runs on        *)
(* through the pointer it saved.                                            *)
(***************************************************************************)
Deleting(p) == pc[p] \in {"d_free", "d_unlink"}
BeingDeleted == {db[p].off : p \in {q \in Procs : Deleting(q)}}

ChainPtr(loc) ==
    IF loc \in BeingDeleted
      THEN db[CHOOSE p \in Procs : Deleting(p) /\ db[p].off = loc].ptrval
      ELSE ReadPtr(loc)

\* The pointers as functions of their place in the index file.
Places == Heads \cup DOMAIN idx
ChainPtrs == [loc \in Places |-> ChainPtr(loc)]
FreePtrs == [loc \in Places |-> ReadPtr(loc)]

\* The n-th record behind a head, following the pointers ptr; 0 at the end.
Nth(ptr, h) ==
    LET nth[n \in 0..Len(idx)] ==
          IF n = 0 THEN ptr[h]
          ELSE IF nth[n-1] = 0 THEN 0 ELSE ptr[nth[n-1]]
    IN nth

ChainRecords(c) ==
    LET nth == Nth(ChainPtrs, c) IN {nth[n] : n \in DOMAIN nth} \ {0}
FreeRecords ==
    LET nth == Nth(FreePtrs, FREE_OFF) IN {nth[n] : n \in DOMAIN nth} \ {0}

\* The record a lookup of key k would find, 0 if none.
RecordOf(k) ==
    LET S == {i \in ChainRecords(Hash[k]) : idx[i].key = k}
    IN IF S = {} THEN 0 ELSE CHOOSE i \in S : TRUE

\* Process p has deleted the record of k to store it again elsewhere.
Moving(p, k) ==
    /\ ret[p] = "ok"
    /\ IsStore(p) /\ req[p].key = k
    /\ pc[p] \notin {"unlock"} \cup Ended

\* The map the files represent.
Map ==
    [k \in Keys |->
        IF \E p \in Procs : Moving(p, k)
          THEN req[CHOOSE p \in Procs : Moving(p, k)].data
          ELSE IF RecordOf(k) = 0 \/ dat[idx[RecordOf(k)].datoff] = Blank
                 THEN None
                 ELSE dat[idx[RecordOf(k)].datoff]]

Calls ==
    [p \in Procs |->
        IF pc[p] = "idle" THEN [st |-> "idle"]
        ELSE IF pc[p] \in Ended THEN [st |-> "dead", req |-> req[p]]
        ELSE IF ret[p] = Unset THEN [st |-> "pending", req |-> req[p]]
        ELSE [st |-> "done", req |-> req[p], ret |-> ret[p]]]

KV == INSTANCE KVStore WITH kv <- Map, call <- Calls

\* Every db_fetch, db_store and db_delete is atomic and sees one shared map;
\* db_nextrec returns only records that are current or being stored; a
\* process that ends inside a call puts no key at risk but its own
\* (db.c:234-301, 441-525 and 638-746: the locking protocol and the write orders).
Linearizable == KV!Spec

\* No list runs in a circle (the loops at db.c:290-296 and 770-776 would never return).
ListsEnd ==
    /\ \A c \in Chains : Nth(ChainPtrs, c)[Len(idx)] = 0
    /\ Nth(FreePtrs, FREE_OFF)[Len(idx)] = 0

\* A hash chain holds records of its own keys only, each key once, and every
\* record on the free list is blank and on no chain, apart from the records
\* being deleted, which pass from the one to the other (db.c:464-525).
ListsDisjoint ==
    /\ \A c \in Chains : \A i \in ChainRecords(c) \ BeingDeleted :
          /\ idx[i].key \in Keys
          /\ Hash[idx[i].key] = c
          /\ \A j \in ChainRecords(c) \ BeingDeleted :
                idx[i].key = idx[j].key => i = j
    /\ \A i \in FreeRecords : idx[i].key = Blank
    /\ \A i \in FreeRecords \ BeingDeleted :
          \A c \in Chains : i \notin ChainRecords(c)

\* The record process p holds, taken off the free list or just appended.
InHand(p) == IF pc[p] \in {"u_dat", "u_idx", "link"} THEN {db[p].off} ELSE {}

\* Space is never lost while processes complete their calls: every index
\* record is on a chain, on the free list, or held by exactly one process
\* that is about to link it (db.c:753-805: a record taken off the free list
\* is in no list until db_store links it at db.c:697).
NoRecordLost ==
    /\ (\A p \in Procs : pc[p] \notin Ended) =>
          DOMAIN idx = (UNION {ChainRecords(c) : c \in Chains})
                       \cup FreeRecords \cup (UNION {InHand(p) : p \in Procs})
    /\ \A p, q \in Procs : p # q => InHand(p) \cap InHand(q) = {}

\* Two index records never name the same data record, although every store
\* first appends the data and then the index record ("we have to lock before
\* doing the lseek and write to make the two an atomic operation",
\* db.c:537-541 and 585-589).
DataNotShared ==
    \A i, j \in DOMAIN idx : idx[i].datoff = idx[j].datoff => i = j

\* Every pointer in the index file is null or names a record that exists, and
\* every data offset a data record that exists: a reader that follows one
\* never meets the end of a file (the err_dumps at db.c:330, 372 and 430).
NoDangling ==
    /\ \A h \in Heads : table[h] <= Len(idx)
    /\ \A i \in DOMAIN idx :
          /\ idx[i].ptr <= Len(idx)
          /\ idx[i].datoff \in DOMAIN dat

(***************************************************************************)
(* The critical sections the record locks are there for.                    *)
(***************************************************************************)
OnChain(p, c) == pc[p] \in KeyedCall \ {"find"} /\ Chain(p) = c
OnFreeList(p) == pc[p] \in {"d_idx", "d_free", "d_unlink", "ff_scan", "ff_take"}
ReadsFreeList(p) == pc[p] \in {"n_idx", "n_dat", "n_unlock"}

\* A process that stores or deletes is alone on its hash chain; one that
\* changes the free list is alone with it and no db_nextrec is reading; and
\* one process at a time appends to each file (db.c:273-283, 480-484,
\* 537-544, 585-593, 757-762 and 842-847).
CriticalSections ==
    \A p, q \in Procs : p # q =>
        /\ \A c \in Chains : OnChain(p, c) /\ OnChain(q, c) =>
              Op(p) = "fetch" /\ Op(q) = "fetch"
        /\ OnFreeList(p) => ~OnFreeList(q) /\ ~ReadsFreeList(q)
        /\ pc[p] = "a_dat_write" => pc[q] # "a_dat_write"
        /\ pc[p] = "a_idx_write" => pc[q] # "a_idx_write"

IndexRecords ==
    [ptr : Nat, key : Keys \cup {Blank}, klen : Nat, datoff : Nat, datlen : Nat]

DBs ==
    [off : Nat, ptroff : Heads \cup Nat, datoff : Nat, ptrval : Nat,
     next : Nat, key : Keys \cup {None}, pos : Nat]

TypeOK ==
    /\ table \in [Heads -> Nat]
    /\ idx \in Seq(IndexRecords)
    /\ dat \in Seq(Data \cup {Blank})
    /\ locks \subseteq Procs \X Regions \X {"R", "W"}
    /\ pc \in [Procs -> {"idle"} \cup InCall \cup Ended]
    /\ req \in [Procs -> Requests \cup {None}]
    /\ db \in [Procs -> DBs]
    /\ \A p \in Procs : pc[p] \in InCall \cup Ended => req[p] \in Requests

\* db_nextrec always finds the file offset in front of a record or at the end
\* of the file: db_rewind "must be called before this function is called the
\* first time" and is "automatically called by db_open" (db.c:808-810 and
\* 829-833), which is all the comments ask of the caller.
ScanNeverDumps == \A p \in Procs : pc[p] # "dumped"
================================================================================
