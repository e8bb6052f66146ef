------------------------------ MODULE PrintQueue -------------------------------
(***************************************************************************)
(* What the queue of the print spooler promises while one daemon runs: jobs *)
(* are finished in the order in which they were added.                      *)
(***************************************************************************)
EXTENDS Sequences

CONSTANT Jobs

VARIABLE pending    \* the jobs that are not finished, first added first

Init == pending = <<>>

Submit(j) == pending' = Append(pending, j)

Finish ==
    /\ pending # <<>>
    /\ pending' = Tail(pending)

\* The daemon ends, and with it its queue.
Shutdown == pending' = <<>>

Next == (\E j \in Jobs : Submit(j)) \/ Finish \/ Shutdown

Spec == Init /\ [][Next]_pending
================================================================================
