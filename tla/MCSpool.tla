-------------------------------- MODULE MCSpool --------------------------------
(***************************************************************************)
(* Instances of the print spooler for TLC.                                  *)
(***************************************************************************)
EXTENDS SpoolSpec

CONSTANTS c1, c2

MCClients == {c1, c2}

\* Job ID 2 is longer than job ID 1, as 10 is longer than 9.
MCDigits == [i \in 0..MaxJob |-> IF i = 1 THEN 1 ELSE 2]
================================================================================
