---------------------------------- MODULE MCDb ----------------------------------
(* Instances of Db for TLC: two keys that share a hash chain, or do not. *)
EXTENDS DbSpec, TLC

CONSTANTS k1, k2, c1, c2, d1, d2, p1, p2

HashAll1 == [k \in Keys |-> c1]
HashApart == [k \in Keys |-> IF k = k1 THEN c1 ELSE c2]
KeyLen1 == [k \in Keys |-> 1]
DatLen1 == [d \in Data |-> 1]
DatLen2 == [d \in Data |-> IF d = d1 THEN 1 ELSE 2]

Deletes == [op : {"delete"}, key : Keys]
Fetches == [op : {"fetch"}, key : Keys]
Stores(flags) == [op : {"store"}, key : Keys, data : Data, flag : flags]
Scans == [op : {"nextrec", "rewind"}]

KeyedCalls == Fetches \cup Deletes \cup Stores({"INSERT", "REPLACE", "STORE"})
Updates == Deletes \cup Stores({"STORE"})
UpdatesAndScans == Updates \cup Scans
StoresAndScans == Scans \cup Stores({"STORE"})

\* A process is killed where it leaves work half done: holding locks, with a
\* record that no list leads to, or reading; not inside _db_dodelete.
HalfDone == {"ff_take", "u_idx", "a_idx", "link", "n_dat"}

\* Processes are interchangeable; keys too, while they all hash to one chain.
ProcSymmetry == Permutations(Procs)
Symmetry == Permutations(Procs) \cup Permutations(Keys)
================================================================================
