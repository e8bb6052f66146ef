--------------------------------- MODULE MCDbScan ---------------------------------
(* An instance of DbScan for TLC: a scan against updates to one chain. *)
EXTENDS DbScan, TLC

CONSTANTS k1, k2, c1, d1, d2, p1, p2

HashAll1 == [k \in Keys |-> c1]
KeyLen1 == [k \in Keys |-> 1]
DatLen2 == [d \in Data |-> IF d = d1 THEN 1 ELSE 2]

ScansAndUpdates ==
    [op : {"nextrec", "rewind"}] \cup [op : {"delete"}, key : Keys]
        \cup [op : {"store"}, key : Keys, data : Data, flag : {"STORE"}]

Symmetry == Permutations(Procs) \cup Permutations(Keys)
================================================================================
