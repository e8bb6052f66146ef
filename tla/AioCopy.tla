-------------------------------- MODULE AioCopy --------------------------------
(***************************************************************************)
(* The translation of a file with asynchronous I/O, apue.3e/advio/           *)
(* rot13c2.c: NBUF buffers, each read, translated and written again until    *)
(* the input is used up; the system completes the operations in any order.  *)
(* A block of the file is a value; BSZ is not looked into.                  *)
(***************************************************************************)
EXTENDS Naturals, FiniteSets

CONSTANTS
    NBUF,
    Blocks      \* the length of the input in blocks, the last may be short

VARIABLES
    op,         \* op[i]: UNUSED, READ_PENDING or WRITE_PENDING
    block,      \* the offset in the aiocb, in blocks
    data,       \* the block the buffer holds: <<"plain" or "rot13", block>>
    last,
    done,       \* done[i]: what aio_error and aio_return say: "busy", "done",
                \* "short" or "failed"
    off,        \* the offset of the next read, in blocks
    i,          \* the buffer that is looked at, NBUF at the end of a round
    pc,
    out         \* the output file, by blocks

vars == <<op, block, data, last, done, off, i, pc, out>>

Buffers == 0 .. NBUF - 1
Nothing == <<"nothing", 0>>

Init ==
    /\ op = [b \in Buffers |-> "UNUSED"]
    /\ block = [b \in Buffers |-> 0]
    /\ data = [b \in Buffers |-> Nothing]
    /\ last = [b \in Buffers |-> FALSE]
    /\ done = [b \in Buffers |-> "done"]
    /\ off = 0
    /\ i = 0
    /\ pc = "scan"
    /\ out = [n \in 0 .. Blocks - 1 |-> Nothing]

Scan == pc = "scan" /\ i < NBUF

\* numop counts the buffers that are not UNUSED.
numop == Cardinality({ b \in Buffers : op[b] # "UNUSED" })

Translate(d) == <<"rot13", d[2]>>
-----------------------------------------------------------------------------
\* The system completes a read or a write; only the last block of the input may be
\* read short without that being an error.
Complete(b) ==
    /\ op[b] # "UNUSED" /\ done[b] = "busy"
    /\ \E how \in {"done", "short", "failed"} :
          /\ done' = [done EXCEPT ![b] = how]
          /\ IF op[b] = "READ_PENDING"
               THEN data' = [data EXCEPT ![b] = <<"plain", block[b]>>] /\ UNCHANGED out
               ELSE /\ out' = IF how = "done" THEN [out EXCEPT ![block[b]] = data[b]]
                              ELSE out
                    /\ UNCHANGED data
    /\ UNCHANGED <<op, block, last, off, i, pc>>

\* case UNUSED: read the next block, if there is one.
StartRead ==
    /\ Scan /\ op[i] = "UNUSED"
    /\ IF off < Blocks
         THEN /\ op' = [op EXCEPT ![i] = "READ_PENDING"]
              /\ block' = [block EXCEPT ![i] = off]
              /\ off' = off + 1
              /\ last' = [last EXCEPT ![i] = @ \/ off + 1 >= Blocks]
              /\ done' = [done EXCEPT ![i] = "busy"]
         ELSE UNCHANGED <<op, block, off, last, done>>
    /\ i' = i + 1
    /\ UNCHANGED <<data, pc, out>>

\* EINPROGRESS: the next buffer.
InProgress ==
    /\ Scan /\ op[i] # "UNUSED" /\ done[i] = "busy"
    /\ i' = i + 1
    /\ UNCHANGED <<op, block, data, last, done, off, pc, out>>

\* case READ_PENDING, the read is complete: translate and write.
StartWrite ==
    /\ Scan /\ op[i] = "READ_PENDING" /\ done[i] # "busy"
    /\ IF done[i] = "failed" \/ (done[i] = "short" /\ ~last[i])
         THEN pc' = "err_quit" /\ UNCHANGED <<op, data, done, i>>
         ELSE /\ data' = [data EXCEPT ![i] = Translate(@)]
              /\ op' = [op EXCEPT ![i] = "WRITE_PENDING"]
              /\ done' = [done EXCEPT ![i] = "busy"]
              /\ i' = i + 1
              /\ UNCHANGED pc
    /\ UNCHANGED <<block, last, off, out>>

\* case WRITE_PENDING, the write is complete: the buffer is free.
EndWrite ==
    /\ Scan /\ op[i] = "WRITE_PENDING" /\ done[i] # "busy"
    /\ IF done[i] # "done"
         THEN pc' = "err_quit" /\ UNCHANGED <<op, i>>
         ELSE /\ op' = [op EXCEPT ![i] = "UNUSED"]
              /\ i' = i + 1
              /\ UNCHANGED pc
    /\ UNCHANGED <<block, data, last, done, off, out>>

\* Mutant: the program ends when everything has been read.
AllRead == off >= Blocks

AllWritten == numop = 0 /\ off >= Blocks

\* The end of a round: the end, another round, or aio_suspend until an operation
\* is complete.
EndOfRound ==
    /\ pc = "scan" /\ i = NBUF
    /\ pc' = IF AllWritten THEN "fsync" ELSE IF numop = 0 THEN "scan" ELSE "suspend"
    /\ i' = 0
    /\ UNCHANGED <<op, block, data, last, done, off, out>>

AioSuspend ==
    /\ pc = "suspend"
    /\ \E b \in Buffers : op[b] # "UNUSED" /\ done[b] # "busy"
    /\ pc' = "scan"
    /\ UNCHANGED <<op, block, data, last, done, off, i, out>>

\* aio_fsync, which is not waited for, and exit.
Fsync ==
    /\ pc = "fsync"
    /\ pc' = "exit"
    /\ UNCHANGED <<op, block, data, last, done, off, i, out>>

Step ==
    \/ StartRead \/ InProgress \/ StartWrite \/ EndWrite
    \/ EndOfRound \/ AioSuspend \/ Fsync

Next == Step \/ \E b \in Buffers : Complete(b)

Spec ==
    /\ Init /\ [][Next]_vars
    /\ WF_vars(Step) /\ \A b \in Buffers : WF_vars(Complete(b))
-----------------------------------------------------------------------------
\* When the program exits with success every block of the input has been written,
\* translated once, at its own place, in whatever order the operations were
\* completed and the buffers used again (the loop of main); until then no two
\* buffers are at the same block, and each block is either still to be read, in a
\* buffer or written.
CopyWhole ==
    /\ pc \in {"fsync", "exit"} =>
          \A n \in 0 .. Blocks - 1 : out[n] = <<"rot13", n>>
    /\ \A n \in 0 .. Blocks - 1 :
          /\ n >= off => out[n] = Nothing
          /\ LET users == { b \in Buffers : op[b] # "UNUSED" /\ block[b] = n } IN
             /\ Cardinality(users) <= 1
             /\ n < off /\ users = {} => out[n] = <<"rot13", n>>

Ended == pc \in {"exit", "err_quit"}
-----------------------------------------------------------------------------
(* The invariant from which CopyWhole follows.                              *)

Contents == {"nothing", "plain", "rot13"} \X Nat

TypeOK ==
    /\ op \in [Buffers -> {"UNUSED", "READ_PENDING", "WRITE_PENDING"}]
    /\ block \in [Buffers -> Nat]
    /\ data \in [Buffers -> Contents]
    /\ last \in [Buffers -> BOOLEAN]
    /\ done \in [Buffers -> {"busy", "done", "short", "failed"}]
    /\ off \in 0 .. Blocks
    /\ i \in 0 .. NBUF
    /\ pc \in {"scan", "suspend", "fsync", "exit", "err_quit"}
    /\ out \in [0 .. Blocks - 1 -> Contents]

\* What a buffer in use holds: its own block, which no other has.
Holds(b) ==
    /\ block[b] < off
    /\ op[b] = "READ_PENDING" /\ done[b] # "busy" => data[b] = <<"plain", block[b]>>
    /\ op[b] = "WRITE_PENDING" => data[b] = <<"rot13", block[b]>>
    /\ op[b] = "WRITE_PENDING" /\ done[b] = "done" => out[block[b]] = data[b]
    /\ \A c \in Buffers \ {b} : op[c] # "UNUSED" => block[c] # block[b]

\* A block is still to be read, in a buffer or written.
Somewhere(n) ==
    \/ n >= off /\ out[n] = Nothing
    \/ n < off /\ \E b \in Buffers : op[b] # "UNUSED" /\ block[b] = n
    \/ n < off /\ out[n] = <<"rot13", n>>

CopyInv ==
    /\ TypeOK
    /\ \A b \in Buffers : op[b] # "UNUSED" => Holds(b)
    /\ \A n \in 0 .. Blocks - 1 : Somewhere(n)
    /\ pc \in {"fsync", "exit"} => off = Blocks /\ \A b \in Buffers : op[b] = "UNUSED"
=============================================================================
