---------------------------------- MODULE DbScan ----------------------------------
(***************************************************************************)
(* Sequential scans of the database: db_rewind, then db_nextrec up to the   *)
(* end of the file, while other processes store and delete.  The history    *)
(* variables record what a scan returned and which records stayed where     *)
(* they are from its beginning on.                                          *)
(***************************************************************************)
EXTENDS DbSpec

VARIABLES
    seen,   \* seen[p]: the keys the current scan of process p returned
    still   \* still[p]: the keys whose records existed when that scan began
            \* and were neither deleted nor moved since

svars == <<vars, seen, still>>

Stored == {k \in Keys : RecordOf(k) # 0}

SInit ==
    /\ Init
    /\ seen = [p \in Procs |-> {}]
    /\ still = [p \in Procs |-> {}]

\* A scan starts at the first index record, by db_rewind or before the first
\* call; any call but db_nextrec moves the file offset and ends it.
StartScan(p) ==
    /\ Rewind(p)
    /\ seen' = [seen EXCEPT ![p] = {}]
    /\ still' = [still EXCEPT ![p] = Stored]

Unmoved == {k \in Stored : RecordOf(k)' = RecordOf(k)}

SNext ==
    \/ \E p \in Procs : StartScan(p)
    \/ /\ \E p \in Procs : Call(p) \/ Step(p) \/ Kill(p)
       /\ seen' = [p \in Procs |->
                      IF NextData(p) THEN seen[p] \cup {db[p].key} ELSE seen[p]]
       /\ still' = [p \in Procs |->
                       IF Call(p) /\ req'[p].op # "nextrec"
                         THEN {}
                         ELSE still[p] \cap Unmoved]

SSpec == SInit /\ [][SNext]_svars

(***************************************************************************)
(* Properties.                                                              *)
(***************************************************************************)
Scanning(p) == pc[p] # "idle" /\ Op(p) = "nextrec"

\* A scan that reaches the end of the index file has returned every record
\* that existed when it began and was not deleted or moved since
\* (db_nextrec, db.c:849-869: deleted records only are stepped over).
ScanMissesNothing ==
    \A p \in Procs :
        Scanning(p) /\ ret[p] = None => still[p] \subseteq seen[p]

\* No scan returns a key twice, unless its record was moved or deleted and
\* stored again in the meantime (db_nextrec, db.c:829-869).  This holds only
\* while no process has ended inside a call: db_store writes the index record
\* before it links it, and a record that was never linked is returned by
\* every scan although no chain leads to it.
ScanRepeatsNothing ==
    [][\A p \in Procs :
          NextData(p) /\ db[p].key \in seen[p] \cap still[p] =>
             \E q \in Procs : pc[q] \in Ended]_svars

\* What db_nextrec reads after it skipped the blank records is never itself
\* the data of a deleted record: the free list lock keeps _db_dodelete out
\* between the two reads ("so that we don't read a record in the middle of
\* its being deleted", db.c:842-847).
ScanReadsNoBlank ==
    \A p \in Procs :
        Scanning(p) /\ ret[p] \notin {Unset, None} => ret[p][2] # Blank
================================================================================
