-------------------------------- MODULE PollMsg --------------------------------
(***************************************************************************)
(* Waiting for several System V message queues: a helper thread for each     *)
(* queue receives a message and wakes the main thread, which polls sockets.  *)
(* In ipc2/pollmsg.c of apue.3e the message itself goes through the socket;  *)
(* in exercises/pollmsg2.c only a byte does, and the message stays in a      *)
(* structure both threads use.  Messages are shorter than MAXMSZ.            *)
(***************************************************************************)
EXTENDS Naturals, Sequences, FiniteSetsExt

CONSTANTS
    NQ,         \* the queues
    Messages    \* how many messages are sent to each

VARIABLES
    version,    \* "pollmsg" or "pollmsg2"
    received,   \* received[q]: the number of messages taken from the queue
    hpc,        \* the helper of each queue
    m,          \* m[q]: the message of the helper, 0 for none
    fd,         \* fd[q]: what is in the socket
    mutex,      \* mutex[q]: "free", "helper"
    main,       \* the place of main and the sockets it has found ready
    printed,
    spurious    \* history: pthread_cond_wait has returned without a signal

vars == <<version, received, hpc, m, fd, mutex, main, printed, spurious>>

Queues == 1 .. NQ

Init ==
    /\ version \in {"pollmsg", "pollmsg2"}
    /\ received = [q \in Queues |-> 0]
    /\ hpc = [q \in Queues |-> "msgrcv"]
    /\ m = [q \in Queues |-> 0]
    /\ fd = [q \in Queues |-> <<>>]
    /\ mutex = [q \in Queues |-> "free"]
    /\ main = [at |-> "poll", ready |-> {}]
    /\ printed = [q \in Queues |-> <<>>]
    /\ spurious = FALSE

Goto(q, label) == hpc' = [hpc EXCEPT ![q] = label]
-----------------------------------------------------------------------------
(* helper                                                                   *)

\* A message that is not there yet is one not taken yet: msgrcv waits.
MsgRcv(q) ==
    /\ hpc[q] = "msgrcv" /\ received[q] < Messages
    /\ received' = [received EXCEPT ![q] = @ + 1]
    /\ m' = [m EXCEPT ![q] = received[q] + 1]
    /\ Goto(q, IF version = "pollmsg" THEN "write" ELSE "lock")
    /\ UNCHANGED <<version, fd, mutex, main, printed, spurious>>

Lock(q) ==
    /\ hpc[q] = "lock" /\ mutex[q] = "free"
    /\ mutex' = [mutex EXCEPT ![q] = "helper"]
    /\ Goto(q, "write")
    /\ UNCHANGED <<version, received, m, fd, main, printed, spurious>>

Write(q) ==
    /\ hpc[q] = "write"
    /\ fd' = [fd EXCEPT ![q] = Append(@, IF version = "pollmsg" THEN m[q] ELSE 0)]
    /\ IF version = "pollmsg"
         THEN m' = [m EXCEPT ![q] = 0] /\ Goto(q, "msgrcv")
         ELSE Goto(q, "cond_wait") /\ UNCHANGED m
    /\ UNCHANGED <<version, received, mutex, main, printed, spurious>>

\* pthread_cond_wait gives up the mutex and sleeps in one step.
CondWait(q) ==
    /\ hpc[q] = "cond_wait"
    /\ mutex' = [mutex EXCEPT ![q] = "free"]
    /\ Goto(q, "asleep")
    /\ UNCHANGED <<version, received, m, fd, main, printed, spurious>>

\* It may return without a signal, and nothing is tested when it does.
Spurious(q) ==
    /\ hpc[q] = "asleep"
    /\ spurious' = TRUE
    /\ Goto(q, "woken")
    /\ UNCHANGED <<version, received, m, fd, mutex, main, printed>>

\* With the mutex again, unlock; memset at the head of the loop.
Woken(q) ==
    /\ hpc[q] = "woken" /\ mutex[q] = "free"
    /\ m' = [m EXCEPT ![q] = 0]
    /\ Goto(q, "msgrcv")
    /\ UNCHANGED <<version, received, fd, mutex, main, printed, spurious>>

Helper(q) == MsgRcv(q) \/ Lock(q) \/ Write(q) \/ CondWait(q) \/ Woken(q)
-----------------------------------------------------------------------------
(* main                                                                     *)

Poll ==
    /\ main.at = "poll"
    /\ \E q \in Queues : fd[q] # <<>>
    /\ main' = [at |-> "read", ready |-> {q \in Queues : fd[q] # <<>>}]
    /\ UNCHANGED <<version, received, hpc, m, fd, mutex, printed, spurious>>

\* The queue the loop has come to, and what follows when it is done.
Current == Min(main.ready)
Advance ==
    main' = [at |-> IF main.ready = {Current} THEN "poll" ELSE "read",
             ready |-> main.ready \ {Current}]

Read ==
    /\ main.at = "read"
    /\ fd' = [fd EXCEPT ![Current] = Tail(@)]
    /\ IF version = "pollmsg"
         THEN /\ printed' = [printed EXCEPT ![Current] = Append(@, Head(fd[Current]))]
              /\ Advance
         ELSE main' = [main EXCEPT !.at = "printf"] /\ UNCHANGED printed
    /\ UNCHANGED <<version, received, hpc, m, mutex, spurious>>

\* The message is read where the helper has put it, without the mutex.
Printf ==
    /\ main.at = "printf"
    /\ printed' = [printed EXCEPT ![Current] = Append(@, m[Current])]
    /\ main' = [main EXCEPT !.at = "lock"]
    /\ UNCHANGED <<version, received, hpc, m, fd, mutex, spurious>>

\* Lock, pthread_cond_signal, unlock: only who is asleep is woken.
CondSignal ==
    /\ main.at = "lock" /\ mutex[Current] = "free"
    /\ hpc' = [hpc EXCEPT ![Current] = IF @ = "asleep" THEN "woken" ELSE @]
    /\ Advance
    /\ UNCHANGED <<version, received, m, fd, mutex, printed, spurious>>

Main == Poll \/ Read \/ Printf \/ CondSignal

Next == Main \/ \E q \in Queues : Helper(q) \/ Spurious(q)

Spec == Init /\ [][Next]_vars /\ WF_vars(Main) /\ \A q \in Queues : WF_vars(Helper(q))
-----------------------------------------------------------------------------
\* The messages of a queue are printed whole, each once and in order, although main
\* reads the structure without the mutex: the helper does not touch it until it is
\* signalled (helper, main).  pollmsg2.c owes that to pthread_cond_wait never
\* returning by itself.
MessagesInOrder ==
    version = "pollmsg" \/ ~spurious =>
        \A q \in Queues : \A k \in 1 .. Len(printed[q]) : printed[q][k] = k

\* Every message is printed, or something else in its place: no wake-up is lost.
Ended == \A q \in Queues : Len(printed[q]) = Messages
-----------------------------------------------------------------------------
(* The invariant from which MessagesInOrder follows, as long as              *)
(* pthread_cond_wait has not returned by itself.                            *)

TypeOK ==
    /\ received \in [Queues -> Nat]
    /\ hpc \in [Queues -> {"msgrcv", "lock", "write", "cond_wait", "asleep", "woken"}]
    /\ m \in [Queues -> Nat]
    /\ fd \in [Queues -> Seq(Nat)]
    /\ mutex \in [Queues -> {"free", "helper"}]
    /\ main \in [at : {"poll", "read", "printf", "lock"}, ready : SUBSET Queues]
    /\ printed \in [Queues -> Seq(Nat)]

Whole(q) == \A k \in 1 .. Len(printed[q]) : printed[q][k] = k

\* pollmsg.c: what is received and not printed is in the socket, or in the helper.
Piped(q) ==
    /\ hpc[q] \in {"msgrcv", "write"}
    /\ hpc[q] = "msgrcv" => received[q] = Len(printed[q]) + Len(fd[q])
    /\ hpc[q] = "write" => received[q] = Len(printed[q]) + Len(fd[q]) + 1 /\ m[q] = received[q]
    /\ \A k \in 1 .. Len(fd[q]) : fd[q][k] = Len(printed[q]) + k
    /\ q \in main.ready => fd[q] # <<>>

\* pollmsg2.c: main is at the message of q.
Served(q) == main.at \in {"printf", "lock"} /\ q = Current

\* The message stays where it is from its receipt until it is printed.
Handed(q) ==
    /\ mutex[q] = "helper" <=> hpc[q] \in {"write", "cond_wait"}
    /\ hpc[q] \in {"msgrcv", "woken"} =>
          fd[q] = <<>> /\ ~Served(q) /\ received[q] = Len(printed[q])
    /\ hpc[q] \in {"lock", "write"} =>
          /\ fd[q] = <<>> /\ ~Served(q)
          /\ received[q] = Len(printed[q]) + 1 /\ m[q] = received[q]
    /\ hpc[q] \in {"cond_wait", "asleep"} =>
          /\ fd[q] = IF Served(q) THEN <<>> ELSE <<0>>
          /\ IF Served(q) /\ main.at = "lock"
               THEN received[q] = Len(printed[q])
               ELSE received[q] = Len(printed[q]) + 1 /\ m[q] = received[q]
    /\ q \in main.ready => fd[q] # <<>> \/ Served(q)

PollInv ==
    version = "pollmsg" \/ ~spurious =>
        /\ TypeOK
        /\ main.ready = {} <=> main.at = "poll"
        /\ version = "pollmsg" => main.at \in {"poll", "read"}
        /\ \A q \in Queues : Whole(q) /\ IF version = "pollmsg" THEN Piped(q) ELSE Handed(q)
=============================================================================
