----------------------------------- MODULE Db -----------------------------------
(***************************************************************************)
(* The database library apue.3e/db/db.c, used by several processes at once. *)
(*                                                                         *)
(* A database is two files.  The index file starts with the free list       *)
(* pointer and a hash table of chain pointers, followed by index records;   *)
(* an index record holds the chain pointer to the next record, a key, and   *)
(* where its data lies.  The data file holds the data records.  Processes   *)
(* share nothing but these files and the record locks on the index and      *)
(* data file; each has one handle (DB struct) and makes one call at a time. *)
(*                                                                         *)
(* An action is one access to a shared file.  Taking a record lock is part  *)
(* of the access that follows it, releasing one part of the access before   *)
(* it: nothing else can happen to the locked region between the two.        *)
(* File offsets are record numbers: index and data records are numbered     *)
(* from 1 in file order and 0 is the null chain pointer.                    *)
(***************************************************************************)
EXTENDS Naturals, Sequences, FiniteSets, RecordLock

CONSTANTS
    Procs,      \* processes that have the database open
    Keys,       \* the keys they use
    Data,       \* the data they store
    Chains,     \* the hash chains, each named by its slot in the hash table
    Hash,       \* _db_hash: Hash[k] is the chain of key k
    KeyLen,     \* KeyLen[k] is the length of key k
    DatLen,     \* DatLen[d] is the length of data d
    Requests,   \* the calls the processes make
    PtrMax,     \* PTR_MAX: the last index record a chain pointer can name
    KillAt,     \* control points at which a process may be killed
    Blank,      \* a key or data overwritten with blanks
    None,       \* the NULL that db_fetch and db_nextrec return
    Unset,      \* no result yet
    FREE_OFF    \* where the free list pointer is: the front of the index file

\* The control points of a call: inside db_fetch, db_delete and db_store,
\* where a hash chain is locked from the second on, and inside db_nextrec.
KeyedCall == {"find", "scan", "f_dat", "overwrite", "unlock", "d_lock", "d_idx",
    "d_free", "d_unlink", "i_head", "r_head", "ff_lock", "ff_scan", "ff_take",
    "u_dat", "u_idx", "a_dat", "a_dat_write", "a_idx", "a_idx_write", "link"}
NextCall == {"n_lock", "n_idx", "n_dat", "n_unlock"}
InCall == KeyedCall \cup NextCall
Ended == {"quit", "dumped", "killed"}

ASSUME DbAssumption ==
    /\ Hash \in [Keys -> Chains]
    /\ KeyLen \in [Keys -> Nat]
    /\ DatLen \in [Data -> Nat]
    /\ PtrMax \in Nat
    /\ Blank \notin Keys \cup Data
    /\ None \notin Keys \cup Data \cup (Keys \X (Data \cup {Blank}))
    /\ Unset \notin Data \cup {None, Blank}
    /\ Unset \notin {"ok", "exists", "notfound"} \cup (Keys \X Data)
    /\ FREE_OFF \notin Chains
    /\ \A h \in Chains \cup {FREE_OFF} : h \notin Nat
    /\ {ALL, "idx_end", "dat_all"} \cap (Chains \cup {FREE_OFF}) = {}
    /\ Requests \subseteq
             [op : {"fetch", "delete"}, key : Keys]
        \cup [op : {"store"}, key : Keys, data : Data,
              flag : {"INSERT", "REPLACE", "STORE"}]
        \cup [op : {"nextrec", "rewind"}]
    /\ KillAt \subseteq InCall

\* The regions that are locked.  Chains and the free list are locked by the
\* first byte of their pointer; the other two cover what an append extends.
\* ("append the index" starts behind the hash table, so it meets no chain.)
IDX_END == "idx_end"
DAT_ALL == "dat_all"
Heads == Chains \cup {FREE_OFF}
Regions == Heads \cup {IDX_END, DAT_ALL}

VARIABLES
    table,  \* table[h]: the chain pointers at the front of the index file
    idx,    \* the index records behind them
    dat,    \* the data records
    locks,  \* the record locks held (one table: the regions are disjoint)
    pc,     \* pc[p]: what the call of process p does next
    req,    \* req[p]: the call process p is making
    db,     \* db[p]: the DB structure and the locals of the call
    ret     \* ret[p]: what the call will return, set by the access that
            \* decides it

files == <<table, idx, dat>>
vars == <<table, idx, dat, locks, pc, req, db, ret>>

(***************************************************************************)
(* Chain pointers live in the table or at the front of an index record.     *)
(***************************************************************************)
ReadPtr(loc) == IF loc \in Heads THEN table[loc] ELSE idx[loc].ptr

WritePtr(loc, v) ==
    IF loc \in Heads
      THEN /\ table' = [table EXCEPT ![loc] = v]
           /\ UNCHANGED <<idx, dat>>
      ELSE /\ idx' = [idx EXCEPT ![loc].ptr = v]
           /\ UNCHANGED <<table, dat>>

\* Where the file offset of idxfd is, for a following db_nextrec: in front of
\* index record i, or somewhere no record starts.
AstrayPos == 0
PosAfterPtr == AstrayPos        \* PTR_SZ bytes past a pointer field
PosAfter(i) == i + 1

\* The fields of the DB structure and the locals that outlive one access:
\*   off      idxoff, the index record    ptroff   the chain ptr to it
\*   datoff   its data record              ptrval   its chain ptr field
\*   next     db_store's ptrval
\*   key      the key db_nextrec read      pos      the file offset of idxfd
InitDB == [off |-> 0, ptroff |-> FREE_OFF, datoff |-> 0, ptrval |-> 0,
           next |-> 0, key |-> None, pos |-> 1]

Init ==
    /\ table = [h \in Heads |-> 0]
    /\ idx = <<>>
    /\ dat = <<>>
    /\ locks = {}
    /\ pc = [p \in Procs |-> "idle"]
    /\ req = [p \in Procs |-> None]
    /\ db = [p \in Procs |-> InitDB]
    /\ ret = [p \in Procs |-> Unset]

Goto(p, label) == pc' = [pc EXCEPT ![p] = label]
Lock(p, r, mode) ==
    /\ Grantable(locks, p, r, mode)
    /\ locks' = Acquire(locks, p, r, mode)
Unlock(p, r) == locks' = Release(locks, p, r)
Result(p, v) == ret' = [ret EXCEPT ![p] = v]

Op(p) == req[p].op
Chain(p) == Hash[req[p].key]
IsStore(p) == Op(p) = "store"

(***************************************************************************)
(* Starting a call, and db_rewind, which touches no shared state.           *)
(***************************************************************************)
Call(p) ==
    /\ pc[p] = "idle"
    /\ \E r \in Requests :
          /\ r.op # "rewind"
          /\ req' = [req EXCEPT ![p] = r]
          /\ Goto(p, IF r.op = "nextrec" THEN "n_lock" ELSE "find")
    /\ UNCHANGED <<table, idx, dat, locks, db, ret>>

Rewind(p) ==
    /\ pc[p] = "idle"
    /\ [op |-> "rewind"] \in Requests
    /\ db' = [db EXCEPT ![p].pos = 1]
    /\ UNCHANGED <<table, idx, dat, locks, pc, req, ret>>

(***************************************************************************)
(* _db_find_and_lock.                                                       *)
(***************************************************************************)
\* Mutant: every caller takes the read lock.
AlwaysReadLock(p) == "R"

ChainMode(p) == IF Op(p) = "fetch" THEN "R" ELSE "W"

\* Mutant: db_fetch reads without a lock.
FetchUnlocked(p) ==
    /\ pc[p] = "find"
    /\ IF Op(p) = "fetch" THEN UNCHANGED locks ELSE Lock(p, Chain(p), "W")
    /\ db' = [db EXCEPT ![p].ptroff = Chain(p),
                        ![p].off = ReadPtr(Chain(p)),
                        ![p].pos = PosAfterPtr]
    /\ Goto(p, "scan")
    /\ UNCHANGED <<table, idx, dat, req, ret>>

FindAndLock(p) ==
    /\ pc[p] = "find"
    /\ Lock(p, Chain(p), ChainMode(p))
    /\ db' = [db EXCEPT ![p].ptroff = Chain(p),
                        ![p].off = ReadPtr(Chain(p)),
                        ![p].pos = PosAfterPtr]
    /\ Goto(p, "scan")
    /\ UNCHANGED <<table, idx, dat, req, ret>>

\* _db_readidx of a record whose key differs: go on to the next one.
FindNext(p) ==
    /\ pc[p] = "scan"
    /\ db[p].off # 0
    /\ LET i == db[p].off
       IN /\ idx[i].key # req[p].key
          /\ db' = [db EXCEPT ![p].ptroff = i,
                              ![p].off = idx[i].ptr,
                              ![p].pos = PosAfter(i)]
    /\ UNCHANGED <<table, idx, dat, locks, pc, req, ret>>

\* _db_readidx of the record with the key, and what each caller does with it.
Found(p) ==
    /\ pc[p] = "scan"
    /\ db[p].off # 0
    /\ LET i == db[p].off
           same == DatLen[req[p].data] = idx[i].datlen
       IN /\ idx[i].key = req[p].key
          /\ db' = [db EXCEPT ![p].datoff = idx[i].datoff,
                              ![p].ptrval = idx[i].ptr,
                              ![p].pos = PosAfter(i)]
          /\ \/ Op(p) = "fetch"  /\ Goto(p, "f_dat")  /\ UNCHANGED ret
             \/ Op(p) = "delete" /\ Goto(p, "d_lock") /\ UNCHANGED ret
             \/ /\ IsStore(p)
                /\ req[p].flag = "INSERT"
                /\ Goto(p, "unlock")
                /\ Result(p, "exists")
             \/ /\ IsStore(p)
                /\ req[p].flag # "INSERT"
                /\ Goto(p, IF same THEN "overwrite" ELSE "d_lock")
                /\ UNCHANGED ret
    /\ UNCHANGED <<table, idx, dat, locks, req>>

\* The end of the chain: no such record.
NotFound(p) ==
    /\ pc[p] = "scan"
    /\ db[p].off = 0
    /\ \/ /\ Op(p) = "fetch"
          /\ Goto(p, "unlock")
          /\ Result(p, None)
       \/ /\ Op(p) = "delete" \/ (IsStore(p) /\ req[p].flag = "REPLACE")
          /\ Goto(p, "unlock")
          /\ Result(p, "notfound")
       \/ /\ IsStore(p) /\ req[p].flag # "REPLACE"
          /\ Goto(p, "i_head")
          /\ UNCHANGED ret
    /\ UNCHANGED <<table, idx, dat, locks, req, db>>

\* db_fetch: _db_readdat of the record found.
ReadData(p) ==
    /\ pc[p] = "f_dat"
    /\ Result(p, dat[db[p].datoff])
    /\ Goto(p, "unlock")
    /\ UNCHANGED <<table, idx, dat, locks, req, db>>

\* db_store: data of the same size replaces the data record in place.
Overwrite(p) ==
    /\ pc[p] = "overwrite"
    /\ dat' = [dat EXCEPT ![db[p].datoff] = req[p].data]
    /\ Result(p, "ok")
    /\ Goto(p, "unlock")
    /\ UNCHANGED <<table, idx, locks, req, db>>

\* The common exit: unlock the hash chain and return.  Every field but the
\* file offset is dead now, so it is reset.
Return(p) ==
    /\ pc[p] = "unlock"
    /\ Unlock(p, Chain(p))
    /\ Goto(p, "idle")
    /\ req' = [req EXCEPT ![p] = None]
    /\ ret' = [ret EXCEPT ![p] = Unset]
    /\ db' = [db EXCEPT ![p] = [InitDB EXCEPT !.pos = db[p].pos]]
    /\ UNCHANGED files

(***************************************************************************)
(* _db_dodelete.                                                            *)
(***************************************************************************)
\* Lock the free list, then blank the data record.
DeleteData(p) ==
    /\ pc[p] = "d_lock"
    /\ Lock(p, FREE_OFF, "W")
    /\ dat' = [dat EXCEPT ![db[p].datoff] = Blank]
    /\ Result(p, "ok")
    /\ Goto(p, "d_idx")
    /\ UNCHANGED <<table, idx, req, db>>

\* Mutant: the free list pointer is read after it has been overwritten.
DeleteIndexLate(p) ==
    /\ pc[p] = "d_idx"
    /\ idx' = [idx EXCEPT ![db[p].off].key = Blank, ![db[p].off].ptr = db[p].off]
    /\ Goto(p, "d_free")
    /\ UNCHANGED <<table, dat, locks, req, db, ret>>

\* Read the free list pointer and rewrite the index record with a blank key
\* and that pointer; its lengths and data offset do not change.
DeleteIndex(p) ==
    /\ pc[p] = "d_idx"
    /\ idx' = [idx EXCEPT ![db[p].off].key = Blank,
                          ![db[p].off].ptr = table[FREE_OFF]]
    /\ Goto(p, "d_free")
    /\ UNCHANGED <<table, dat, locks, req, db, ret>>

\* The deleted record becomes the head of the free list.
DeleteFree(p) ==
    /\ pc[p] = "d_free"
    /\ WritePtr(FREE_OFF, db[p].off)
    /\ Goto(p, "d_unlink")
    /\ UNCHANGED <<locks, req, db, ret>>

\* Unlink it from its hash chain and unlock the free list.
DeleteUnlink(p) ==
    /\ pc[p] = "d_unlink"
    /\ WritePtr(db[p].ptroff, db[p].ptrval)
    /\ Unlock(p, FREE_OFF)
    /\ db' = [db EXCEPT ![p].pos = PosAfterPtr]
    /\ Goto(p, IF Op(p) = "delete" THEN "unlock" ELSE "r_head")
    /\ UNCHANGED <<req, ret>>

(***************************************************************************)
(* db_store of a new record: _db_findfree, then reuse or append.            *)
(***************************************************************************)
\* Mutant: after a deletion the pointer is not read again.
ReadChainHeadOnce(p) ==
    /\ pc[p] \in {"i_head", "r_head"}
    /\ db' = [db EXCEPT ![p].next = IF pc[p] = "i_head" THEN table[Chain(p)] ELSE @]
    /\ Goto(p, IF pc[p] = "i_head" THEN "ff_lock" ELSE "a_dat")
    /\ UNCHANGED <<table, idx, dat, locks, req, ret>>

\* Read the pointer to the first record of the chain; after a deletion it is
\* read again and the new record is always appended.
ReadChainHead(p) ==
    /\ pc[p] \in {"i_head", "r_head"}
    /\ db' = [db EXCEPT ![p].next = table[Chain(p)]]
    /\ Goto(p, IF pc[p] = "i_head" THEN "ff_lock" ELSE "a_dat")
    /\ UNCHANGED <<table, idx, dat, locks, req, ret>>

\* Mutant: the free list is read without its lock.
FreeUnlocked(p) ==
    /\ pc[p] = "ff_lock"
    /\ db' = [db EXCEPT ![p].ptroff = FREE_OFF, ![p].off = table[FREE_OFF]]
    /\ Goto(p, "ff_scan")
    /\ UNCHANGED <<table, idx, dat, locks, req, ret>>

\* Lock the free list and read its first pointer.
FreeLock(p) ==
    /\ pc[p] = "ff_lock"
    /\ Lock(p, FREE_OFF, "W")
    /\ db' = [db EXCEPT ![p].ptroff = FREE_OFF, ![p].off = table[FREE_OFF]]
    /\ Goto(p, "ff_scan")
    /\ UNCHANGED <<table, idx, dat, req, ret>>

Fits(p, i) ==
    /\ idx[i].klen = KeyLen[req[p].key]
    /\ idx[i].datlen = DatLen[req[p].data]

FreeNext(p) ==
    /\ pc[p] = "ff_scan"
    /\ db[p].off # 0
    /\ ~Fits(p, db[p].off)
    /\ db' = [db EXCEPT ![p].ptroff = db[p].off, ![p].off = idx[db[p].off].ptr]
    /\ UNCHANGED <<table, idx, dat, locks, pc, req, ret>>

FreeFound(p) ==
    /\ pc[p] = "ff_scan"
    /\ db[p].off # 0
    /\ Fits(p, db[p].off)
    /\ db' = [db EXCEPT ![p].datoff = idx[db[p].off].datoff,
                        ![p].ptrval = idx[db[p].off].ptr]
    /\ Goto(p, "ff_take")
    /\ UNCHANGED <<table, idx, dat, locks, req, ret>>

\* Mutant: the record stays on the free list.
FreeKeep(p) ==
    /\ pc[p] = "ff_take"
    /\ Unlock(p, FREE_OFF)
    /\ Goto(p, "u_dat")
    /\ UNCHANGED <<table, idx, dat, req, db, ret>>

\* Take the record off the free list and unlock the list.
FreeTake(p) ==
    /\ pc[p] = "ff_take"
    /\ WritePtr(db[p].ptroff, db[p].ptrval)
    /\ Unlock(p, FREE_OFF)
    /\ Goto(p, "u_dat")
    /\ UNCHANGED <<req, db, ret>>

\* Mutant: nothing found, the free list stays locked.
FreeNoneLocked(p) ==
    /\ pc[p] = "ff_scan"
    /\ db[p].off = 0
    /\ Goto(p, "a_dat")
    /\ UNCHANGED <<table, idx, dat, locks, req, db, ret>>

FreeNone(p) ==
    /\ pc[p] = "ff_scan"
    /\ db[p].off = 0
    /\ Unlock(p, FREE_OFF)
    /\ Goto(p, "a_dat")
    /\ UNCHANGED <<table, idx, dat, req, db, ret>>

\* Reuse the free record: first its data, then its index record.
ReuseData(p) ==
    /\ pc[p] = "u_dat"
    /\ dat' = [dat EXCEPT ![db[p].datoff] = req[p].data]
    /\ Goto(p, "u_idx")
    /\ UNCHANGED <<table, idx, locks, req, db, ret>>

IndexRecord(p) ==
    [ptr |-> db[p].next, key |-> req[p].key, klen |-> KeyLen[req[p].key],
     datoff |-> db[p].datoff, datlen |-> DatLen[req[p].data]]

ReuseIndex(p) ==
    /\ pc[p] = "u_idx"
    /\ idx' = [idx EXCEPT ![db[p].off] = IndexRecord(p)]
    /\ Goto(p, "link")
    /\ UNCHANGED <<table, dat, locks, req, db, ret>>

\* Mutants: the end of the data file is found without the lock, or one record
\* too far.
AppendSeekUnlocked(p) ==
    /\ pc[p] = "a_dat"
    /\ db' = [db EXCEPT ![p].datoff = Len(dat) + 1]
    /\ Goto(p, "a_dat_write")
    /\ UNCHANGED <<table, idx, dat, locks, req, ret>>

AppendSeekTooFar(p) ==
    /\ pc[p] = "a_dat"
    /\ Lock(p, DAT_ALL, "W")
    /\ db' = [db EXCEPT ![p].datoff = Len(dat) + 2]
    /\ Goto(p, "a_dat_write")
    /\ UNCHANGED <<table, idx, dat, req, ret>>

\* _db_writedat and _db_writeidx with SEEK_END: lock the end of the file,
\* seek to it; then write the record there and unlock.
AppendSeekData(p) ==
    /\ pc[p] = "a_dat"
    /\ Lock(p, DAT_ALL, "W")
    /\ db' = [db EXCEPT ![p].datoff = Len(dat) + 1]
    /\ Goto(p, "a_dat_write")
    /\ UNCHANGED <<table, idx, dat, req, ret>>

WriteAt(seq, i, rec) ==
    IF i > Len(seq) THEN Append(seq, rec) ELSE [seq EXCEPT ![i] = rec]

AppendData(p) ==
    /\ pc[p] = "a_dat_write"
    /\ dat' = WriteAt(dat, db[p].datoff, req[p].data)
    /\ Unlock(p, DAT_ALL)
    /\ Goto(p, "a_idx")
    /\ UNCHANGED <<table, idx, req, db, ret>>

AppendSeekIndex(p) ==
    /\ pc[p] = "a_idx"
    /\ Lock(p, IDX_END, "W")
    /\ db' = [db EXCEPT ![p].off = Len(idx) + 1]
    /\ Goto(p, "a_idx_write")
    /\ UNCHANGED <<table, idx, dat, req, ret>>

AppendIndex(p) ==
    /\ pc[p] = "a_idx_write"
    /\ idx' = WriteAt(idx, db[p].off, IndexRecord(p))
    /\ Unlock(p, IDX_END)
    /\ Goto(p, "link")
    /\ UNCHANGED <<table, dat, req, db, ret>>

\* The new record goes to the front of its hash chain.
Link(p) ==
    /\ pc[p] = "link"
    /\ db[p].off <= PtrMax
    /\ WritePtr(Chain(p), db[p].off)
    /\ db' = [db EXCEPT ![p].pos = PosAfterPtr]
    /\ Result(p, "ok")
    /\ Goto(p, "unlock")
    /\ UNCHANGED <<locks, req>>

(***************************************************************************)
(* db_nextrec: read lock the free list, read on from the file offset.       *)
(***************************************************************************)
\* Mutant: db_nextrec reads without a lock.
NextUnlocked(p) ==
    /\ pc[p] = "n_lock"
    /\ Goto(p, "n_idx")
    /\ UNCHANGED <<table, idx, dat, locks, req, db, ret>>

NextLock(p) ==
    /\ pc[p] = "n_lock"
    /\ Lock(p, FREE_OFF, "R")
    /\ Goto(p, "n_idx")
    /\ UNCHANGED <<table, idx, dat, req, db, ret>>

\* Mutant: the record behind a blank one is stepped over as well.
NextSkipTwo(p) ==
    /\ pc[p] = "n_idx"
    /\ db[p].pos \in DOMAIN idx
    /\ idx[db[p].pos].key = Blank
    /\ db' = [db EXCEPT ![p].pos = PosAfter(@ + 1)]
    /\ UNCHANGED <<table, idx, dat, locks, pc, req, ret>>

\* Skip a record whose key is blank.
NextSkip(p) ==
    /\ pc[p] = "n_idx"
    /\ db[p].pos \in DOMAIN idx
    /\ idx[db[p].pos].key = Blank
    /\ db' = [db EXCEPT ![p].pos = PosAfter(@)]
    /\ UNCHANGED <<table, idx, dat, locks, pc, req, ret>>

\* Mutant: a blank record is not recognised.
NextFoundAny(p) ==
    /\ pc[p] = "n_idx"
    /\ db[p].pos \in DOMAIN idx
    /\ db' = [db EXCEPT ![p].key = idx[db[p].pos].key,
                        ![p].datoff = idx[db[p].pos].datoff,
                        ![p].pos = PosAfter(@)]
    /\ Goto(p, "n_dat")
    /\ UNCHANGED <<table, idx, dat, locks, req, ret>>

NextFound(p) ==
    /\ pc[p] = "n_idx"
    /\ db[p].pos \in DOMAIN idx
    /\ idx[db[p].pos].key # Blank
    /\ db' = [db EXCEPT ![p].key = idx[db[p].pos].key,
                        ![p].datoff = idx[db[p].pos].datoff,
                        ![p].pos = PosAfter(@)]
    /\ Goto(p, "n_dat")
    /\ UNCHANGED <<table, idx, dat, locks, req, ret>>

NextEOF(p) ==
    /\ pc[p] = "n_idx"
    /\ db[p].pos > Len(idx)
    /\ Result(p, None)
    /\ Goto(p, "n_unlock")
    /\ UNCHANGED <<table, idx, dat, locks, req, db>>

NextData(p) ==
    /\ pc[p] = "n_dat"
    /\ Result(p, <<db[p].key, dat[db[p].datoff]>>)
    /\ Goto(p, "n_unlock")
    /\ UNCHANGED <<table, idx, dat, locks, req, db>>

\* Mutant: the next db_nextrec starts at the first record again.
NextReturnRewound(p) ==
    /\ pc[p] = "n_unlock"
    /\ Unlock(p, FREE_OFF)
    /\ Goto(p, "idle")
    /\ req' = [req EXCEPT ![p] = None]
    /\ ret' = [ret EXCEPT ![p] = Unset]
    /\ db' = [db EXCEPT ![p] = InitDB]
    /\ UNCHANGED files

NextReturn(p) ==
    /\ pc[p] = "n_unlock"
    /\ Unlock(p, FREE_OFF)
    /\ Goto(p, "idle")
    /\ req' = [req EXCEPT ![p] = None]
    /\ ret' = [ret EXCEPT ![p] = Unset]
    /\ db' = [db EXCEPT ![p] = [InitDB EXCEPT !.pos = db[p].pos]]
    /\ UNCHANGED files

(***************************************************************************)
(* The ways a process ends inside a call.  The kernel drops its locks; the  *)
(* files stay as they are.                                                  *)
(***************************************************************************)
End(p, label) ==
    /\ Goto(p, label)
    /\ locks' = ReleaseAll(locks, p)
    /\ ret' = [ret EXCEPT ![p] = Unset]
    /\ db' = [db EXCEPT ![p] = InitDB]
    /\ UNCHANGED <<table, idx, dat, req>>

\* _db_writeptr refuses a pointer that has more than PTR_SZ digits: err_quit.
LinkQuit(p) ==
    /\ pc[p] = "link"
    /\ db[p].off > PtrMax
    /\ End(p, "quit")

\* _db_readidx in the middle of a record or of the hash table: err_dump.
NextDump(p) ==
    /\ pc[p] = "n_idx"
    /\ db[p].pos = AstrayPos
    /\ End(p, "dumped")

Kill(p) ==
    /\ pc[p] \in KillAt
    /\ End(p, "killed")

Step(p) ==
    \/ FindAndLock(p) \/ FindNext(p) \/ Found(p) \/ NotFound(p)
    \/ ReadData(p) \/ Overwrite(p) \/ Return(p)
    \/ DeleteData(p) \/ DeleteIndex(p) \/ DeleteFree(p) \/ DeleteUnlink(p)
    \/ ReadChainHead(p)
    \/ FreeLock(p) \/ FreeNext(p) \/ FreeFound(p) \/ FreeTake(p) \/ FreeNone(p)
    \/ ReuseData(p) \/ ReuseIndex(p)
    \/ AppendSeekData(p) \/ AppendData(p)
    \/ AppendSeekIndex(p) \/ AppendIndex(p)
    \/ Link(p) \/ LinkQuit(p)
    \/ NextLock(p) \/ NextSkip(p) \/ NextFound(p) \/ NextEOF(p) \/ NextData(p)
    \/ NextDump(p) \/ NextReturn(p)

Next == \E p \in Procs : Call(p) \/ Rewind(p) \/ Step(p) \/ Kill(p)

Spec == Init /\ [][Next]_vars
================================================================================
