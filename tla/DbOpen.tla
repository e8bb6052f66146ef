--------------------------------- MODULE DbOpen ---------------------------------
(***************************************************************************)
(* Opening and creating a database, db_open and db_close of apue.3e/db/db.c: *)
(* processes open, with O_CREAT and O_TRUNC or without, store a record of    *)
(* their own and close.  What db_store does is in Db; here it is one action  *)
(* that waits for the lock of db_open and needs a hash table.               *)
(***************************************************************************)
EXTENDS Naturals

CONSTANTS
    Procs,
    NULL

VARIABLES
    idx,        \* the index file: "none", "empty" or "table"
    recs,       \* the processes whose record is in the index file
    dat,        \* the data file: does it exist, and whose data are in it
    locker,     \* the process that locks the whole index file, or NULL
    oflag,      \* oflag[p]: a subset of O_CREAT and O_TRUNC
    pc,
    truncated,  \* history: a process has opened with O_CREAT and O_TRUNC
    overlap     \* history: and did so while another had the database open

vars == <<idx, recs, dat, locker, oflag, pc, truncated, overlap>>

Init ==
    /\ idx = "none"
    /\ recs = {}
    /\ dat = [exists |-> FALSE, of |-> {}]
    /\ locker = NULL
    /\ oflag = [p \in Procs |-> {}]
    /\ pc = [p \in Procs |-> "closed"]
    /\ truncated = FALSE
    /\ overlap = FALSE

Goto(p, label) == pc' = [pc EXCEPT ![p] = label]

\* To use a database, to make sure that it exists, to create it.
Flags == {{}, {"O_CREAT"}, {"O_CREAT", "O_TRUNC"}}

Creates(f) == {"O_CREAT", "O_TRUNC"} \subseteq f
Opened(p) == pc[p] \notin {"closed", "dead"}
-----------------------------------------------------------------------------
(* db_open                                                                  *)

\* open of the index file.
OpenIdx(p, f) ==
    /\ pc[p] = "closed"
    /\ oflag' = [oflag EXCEPT ![p] = f]
    /\ idx' = IF idx = "none" /\ "O_CREAT" \notin f THEN "none"
              ELSE IF idx = "none" \/ "O_TRUNC" \in f THEN "empty"
              ELSE idx
    /\ recs' = IF "O_TRUNC" \in f THEN {} ELSE recs
    /\ truncated' = (truncated \/ Creates(f))
    /\ overlap' = (overlap \/ (\E q \in Procs \ {p} :
                      Opened(q) /\ (Creates(f) \/ Creates(oflag[q]))))
    /\ Goto(p, IF idx' = "none" THEN "no index" ELSE "data")
    /\ UNCHANGED <<dat, locker>>

\* open of the data file; _db_free and NULL if one of the two failed.
OpenDat(p) ==
    /\ pc[p] \in {"no index", "data"}
    /\ dat' = IF ~dat.exists /\ "O_CREAT" \notin oflag[p] THEN dat
              ELSE [exists |-> TRUE,
                    of |-> IF "O_TRUNC" \in oflag[p] THEN {} ELSE dat.of]
    /\ Goto(p, IF pc[p] = "no index" \/ ~dat'.exists THEN "closed"
               ELSE IF Creates(oflag[p]) THEN "lock"
               ELSE "open")
    /\ UNCHANGED <<idx, recs, locker, oflag, truncated, overlap>>

\* Mutant: the index file is not locked.
NoLock(p) == UNCHANGED locker

WritewLock(p) == locker = NULL /\ locker' = p

LockIdx(p) ==
    /\ pc[p] = "lock"
    /\ WritewLock(p)
    /\ Goto(p, "stat")
    /\ UNCHANGED <<idx, recs, dat, oflag, truncated, overlap>>

\* fstat: is the size 0?
StatIdx(p) ==
    /\ pc[p] = "stat"
    /\ Goto(p, IF idx = "empty" THEN "init" ELSE "unlock")
    /\ UNCHANGED <<idx, recs, dat, locker, oflag, truncated, overlap>>

\* A hash table of empty chains, written over what is there.
InitIdx(p) ==
    /\ pc[p] = "init"
    /\ idx' = "table"
    /\ recs' = {}
    /\ Goto(p, "unlock")
    /\ UNCHANGED <<dat, locker, oflag, truncated, overlap>>

UnlockIdx(p) ==
    /\ pc[p] = "unlock"
    /\ locker' = NULL
    /\ Goto(p, "open")
    /\ UNCHANGED <<idx, recs, dat, oflag, truncated, overlap>>
-----------------------------------------------------------------------------
\* db_store of the process's record: without a hash table the read of the chain
\* pointer fails, err_dump.
Store(p) ==
    /\ pc[p] = "open"
    /\ locker = NULL
    /\ IF idx = "table"
         THEN /\ recs' = recs \cup {p}
              /\ dat' = [dat EXCEPT !.of = @ \cup {p}]
              /\ UNCHANGED pc
         ELSE Goto(p, "dead") /\ UNCHANGED <<recs, dat>>
    /\ UNCHANGED <<idx, locker, oflag, truncated, overlap>>

\* db_close
DbClose(p) ==
    /\ pc[p] = "open"
    /\ Goto(p, "closed")
    /\ UNCHANGED <<idx, recs, dat, locker, oflag, truncated, overlap>>

Step(p) ==
    \/ \E f \in Flags : OpenIdx(p, f)
    \/ OpenDat(p) \/ LockIdx(p) \/ StatIdx(p) \/ InitIdx(p) \/ UnlockIdx(p)
    \/ Store(p) \/ DbClose(p)

Next == \E p \in Procs : Step(p)

Spec == Init /\ [][Next]_vars
-----------------------------------------------------------------------------
\* A hash table is written only where there is nothing, however many processes
\* create the database at once; while there is none one of them is still to write
\* it, unless the file was made with O_CREAT alone; and a record of the index file
\* has its data, unless somebody opened with O_TRUNC while others had the database
\* open: the two files are emptied one after the other, before the lock (db_open,
\* db.c:117-163).
TableOnce ==
    /\ \A p \in Procs : pc[p] = "init" => idx = "empty"
    /\ idx = "empty" /\ truncated =>
          \E p \in Procs : Creates(oflag[p]) /\ pc[p] \in {"data", "lock", "stat", "init"}
    /\ ~overlap => recs \subseteq dat.of
-----------------------------------------------------------------------------
TypeOK ==
    /\ idx \in {"none", "empty", "table"}
    /\ recs \subseteq Procs
    /\ dat \in [exists : BOOLEAN, of : SUBSET Procs]
    /\ locker \in Procs \cup {NULL}
    /\ oflag \in [Procs -> Flags]
    /\ pc \in [Procs -> {"closed", "dead", "no index", "data", "lock", "stat", "init",
                         "unlock", "open"}]
    /\ truncated \in BOOLEAN
    /\ overlap \in BOOLEAN

\* What makes TableOnce inductive: who is behind the lock has it, an index file that
\* somebody has emptied exists, and without an overlap a process that creates the
\* database is alone with it, the records gone before the data.
Behind(p) ==
    /\ pc[p] \in {"stat", "init", "unlock"} => locker = p
    /\ pc[p] = "no index" => ~Creates(oflag[p])
    /\ pc[p] = "init" => idx = "empty"

Alone(p) ==
    Opened(p) /\ Creates(oflag[p]) =>
        /\ \A q \in Procs \ {p} : ~Opened(q)
        /\ pc[p] = "data" => recs = {}

\* p is to write the hash table, if nobody else does before.
Writes(p) == Creates(oflag[p]) /\ pc[p] \in {"data", "lock", "stat", "init"}

OpenInv ==
    /\ TypeOK
    /\ \A p \in Procs : Behind(p)
    /\ truncated => idx # "none" /\ (idx = "empty" => \E p \in Procs : Writes(p))
    /\ ~overlap => recs \subseteq dat.of /\ \A p \in Procs : Alone(p)
=============================================================================
