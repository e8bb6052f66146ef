-------------------------------- MODULE Barrier --------------------------------
(***************************************************************************)
(* The sort of apue.3e/threads/barrier.c: NTHR threads sort a part of the    *)
(* numbers each and meet the main thread at a barrier; the main thread       *)
(* merges the parts.  The library function heapsort is one step.            *)
(***************************************************************************)
EXTENDS Naturals, FiniteSets

CONSTANTS
    NTHR,
    TNUM,       \* numbers to sort per thread
    LONG_MAX    \* no number is as large

VARIABLES
    nums, snums,
    input,      \* history: the numbers before the sort
    arrived,    \* the threads that have come to the barrier, main is 0
    idx,        \* idx[k]: where the merge is in part k
    sidx,
    pc

vars == <<nums, snums, input, arrived, idx, sidx, pc>>

NUMNUM == NTHR * TNUM
Parts == 0 .. NTHR - 1
First(k) == k * TNUM
Part(k) == First(k) .. First(k) + TNUM - 1

Init ==
    /\ nums \in [0 .. NUMNUM - 1 -> 0 .. LONG_MAX - 1]
    /\ snums = [n \in 0 .. NUMNUM - 1 |-> 0]
    /\ input = nums
    /\ arrived = {}
    /\ idx = [k \in Parts |-> First(k)]
    /\ sidx = 0
    /\ pc = [t \in 0 .. NTHR |-> IF t = 0 THEN "barrier" ELSE "sort"]

Goto(t, label) == pc' = [pc EXCEPT ![t] = label]

Count(f, S, v) == Cardinality({ n \in S : f[n] = v })

SortedOn(f, S) == \A m, n \in S : m < n => f[m] <= f[n]
-----------------------------------------------------------------------------
\* thr_fn, thread t has part t - 1: heapsort puts the part in order in place.
Heapsort(t) ==
    /\ pc[t] = "sort"
    /\ LET S == Part(t - 1) IN
       \E part \in [S -> { nums[n] : n \in S }] :
          /\ SortedOn(part, S)
          /\ \A n \in S : Count(part, S, nums[n]) = Count(nums, S, nums[n])
          /\ nums' = [n \in DOMAIN nums |-> IF n \in S THEN part[n] ELSE nums[n]]
    /\ Goto(t, "barrier")
    /\ UNCHANGED <<snums, input, arrived, idx, sidx>>

\* Mutant: the barrier is initialised for NTHR threads.
AllButOne == Cardinality(arrived) >= NTHR

All == Cardinality(arrived) = NTHR + 1

\* pthread_barrier_wait: a thread arrives, and leaves when all have arrived.
Arrive(t) ==
    /\ pc[t] = "barrier"
    /\ arrived' = arrived \cup {t}
    /\ Goto(t, "wait")
    /\ UNCHANGED <<nums, snums, input, idx, sidx>>

Leave(t) ==
    /\ pc[t] = "wait"
    /\ All
    /\ Goto(t, IF t = 0 THEN "merge" ELSE "done")
    /\ UNCHANGED <<nums, snums, input, arrived, idx, sidx>>

\* The parts that are not used up, and the first of them with the least number.
Left == { k \in Parts : idx[k] < First(k + 1) }
IsLeast(k) ==
    /\ k \in Left
    /\ \A m \in Left : nums[idx[k]] <= nums[idx[m]]
    /\ \A m \in Left : m < k => nums[idx[k]] < nums[idx[m]]

\* merge, one round of its loop.
Merge ==
    /\ pc[0] = "merge"
    /\ IF sidx < NUMNUM
         THEN /\ \E k \in Parts :
                    /\ IsLeast(k)
                    /\ snums' = [snums EXCEPT ![sidx] = nums[idx[k]]]
                    /\ idx' = [idx EXCEPT ![k] = @ + 1]
              /\ sidx' = sidx + 1
              /\ UNCHANGED pc
         ELSE Goto(0, "done") /\ UNCHANGED <<snums, idx, sidx>>
    /\ UNCHANGED <<nums, input, arrived>>

Step == Merge \/ \E t \in 0 .. NTHR : Heapsort(t) \/ Arrive(t) \/ Leave(t)

Next == Step

Spec == Init /\ [][Next]_vars /\ WF_vars(Step)
-----------------------------------------------------------------------------
\* What the main thread prints is the input in ascending order, whatever thread
\* comes last to the barrier (thr_fn, pthread_barrier_init and merge).
SortMerged ==
    pc[0] = "done" =>
        /\ SortedOn(snums, DOMAIN snums)
        /\ \A n \in DOMAIN input :
              Count(snums, DOMAIN snums, input[n]) = Count(input, DOMAIN input, input[n])

Ended == pc[0] = "done"
-----------------------------------------------------------------------------
(* The invariant from which SortMerged follows.                             *)

Places == 0 .. NUMNUM - 1

TypeOK ==
    /\ nums \in [Places -> 0 .. LONG_MAX - 1]
    /\ snums \in [Places -> Nat]
    /\ input \in [Places -> 0 .. LONG_MAX - 1]
    /\ arrived \in SUBSET (0 .. NTHR)
    /\ idx \in [Parts -> Nat]
    /\ sidx \in 0 .. NUMNUM
    /\ pc \in [0 .. NTHR -> {"sort", "barrier", "wait", "merge", "done"}]

\* The places that have been merged, and those that have not.
Merged == { n \in Places : \E k \in Parts : First(k) <= n /\ n < idx[k] }
Unmerged == { n \in Places : \E k \in Parts : idx[k] <= n /\ n < First(k + 1) }

\* The main thread merges when all parts are sorted.
Parted ==
    /\ \A k \in Parts : First(k) <= idx[k] /\ idx[k] <= First(k + 1)
    /\ \A t \in arrived : pc[t] # "sort"
    /\ pc[0] # "sort"
    /\ pc[0] \in {"merge", "done"} => \A t \in 1 .. NTHR : pc[t] # "sort"
    /\ pc[0] \in {"barrier", "wait"} => sidx = 0 /\ \A k \in Parts : idx[k] = First(k)
    /\ pc[0] = "done" => sidx = NUMNUM
    /\ \A t \in 1 .. NTHR : pc[t] # "sort" => SortedOn(nums, Part(t - 1))

\* No number is lost, and what is merged is in order and not above the rest.
SortInv ==
    /\ TypeOK
    /\ Parted
    /\ \A v \in 0 .. LONG_MAX - 1 :
          /\ Count(nums, Places, v) = Count(input, Places, v)
          /\ Count(snums, 0 .. sidx - 1, v) = Count(nums, Merged, v)
    /\ Cardinality(Merged) = sidx
    /\ SortedOn(snums, 0 .. sidx - 1)
    /\ \A m \in 0 .. sidx - 1, n \in Unmerged : snums[m] <= nums[n]
=============================================================================
