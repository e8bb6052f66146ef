------------------------------ MODULE RecordLock ------------------------------
(***************************************************************************)
(* The advisory record locks every component of the system shares: fcntl   *)
(* locks reached through lock_reg (lib/lockreg.c) and the macros read_lock, *)
(* readw_lock, write_lock, writew_lock and un_lock of include/apue.h.       *)
(*                                                                         *)
(* A lock table is a set of triples <<owner, region, mode>>.  Regions are   *)
(* the byte ranges a component locks; each module below uses ranges that    *)
(* are pairwise disjoint, apart from ALL, the whole file (l_len = 0 from    *)
(* offset 0), which overlaps every one of them.                             *)
(***************************************************************************)

ALL == "all"

Overlap(r, s) == r = s \/ ALL \in {r, s}

\* F_RDLCK is shared, F_WRLCK is exclusive; a process never conflicts with
\* the locks it holds itself.
Conflict(lock, p, r, mode) ==
    /\ lock[1] # p
    /\ Overlap(lock[2], r)
    /\ "W" \in {lock[3], mode}

Grantable(locks, p, r, mode) ==
    \A lock \in locks : ~Conflict(lock, p, r, mode)

\* A process that locks a region again replaces its own lock on it.
Acquire(locks, p, r, mode) ==
    {lock \in locks : ~(lock[1] = p /\ lock[2] = r)} \cup {<<p, r, mode>>}

Release(locks, p, r) ==
    {lock \in locks : ~(lock[1] = p /\ lock[2] = r)}

\* When a process ends, the kernel drops every record lock it owns.
ReleaseAll(locks, p) == {lock \in locks : lock[1] # p}

\* What a lock table must always satisfy: no two owners conflict.
Exclusive(locks) ==
    \A l, m \in locks : ~Conflict(l, m[1], m[2], m[3])
===============================================================================
