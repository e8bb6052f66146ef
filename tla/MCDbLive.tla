--------------------------------- MODULE MCDbLive ---------------------------------
(* An instance of DbLive for TLC: two keys on one chain. *)
EXTENDS DbLive, TLC

CONSTANTS k1, k2, c1, d1, d2, p1, p2

HashAll1 == [k \in Keys |-> c1]
KeyLen1 == [k \in Keys |-> 1]
DatLen2 == [d \in Data |-> IF d = d1 THEN 1 ELSE 2]

LiveRequests ==
    [op : {"nextrec", "rewind"}] \cup [op : {"fetch", "delete"}, key : Keys]
        \cup [op : {"store"}, key : Keys, data : Data, flag : {"STORE"}]

\* Killed with and without locks, outside _db_dodelete.
KillOutsideDelete == {"scan", "ff_scan", "ff_take", "a_dat_write", "a_idx", "n_idx"}
================================================================================
