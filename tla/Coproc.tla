---------------------------------- MODULE Coproc ----------------------------------
(***************************************************************************)
(* A coprocess: apue.3e/ipc1/pipe4.c sends each line it reads to its child   *)
(* and prints the answer; the child is add2.c, which reads and writes, or    *)
(* add2stdio.c, whose output stays in a buffer until it exits, since it goes *)
(* to a pipe.                                                               *)
(***************************************************************************)
EXTENDS Integers, Sequences

CONSTANTS Lines     \* how many lines the user types

VARIABLES
    prog,       \* "add2" or "add2stdio"
    pc,         \* of parent and child
    ends,       \* the ends of the pipes fd1 and fd2 each process has open
    fd1,        \* the lines in the pipe to the child
    fd2,        \* the answers in the pipe to the parent
    buffer,     \* the answers in the child's output buffer
    typed,      \* the number of lines the parent has read
    line,       \* the line that add2 works on
    shown       \* the answers the parent has printed

vars == <<prog, pc, ends, fd1, fd2, buffer, typed, line, shown>>

Parent == "parent"
Child == "child"
Ends == {"fd1_read", "fd1_write", "fd2_read", "fd2_write"}
Open(e) == \E p \in {Parent, Child} : e \in ends[p]

\* Behind the pipes and the fork, before either has closed anything.
Init ==
    /\ prog \in {"add2", "add2stdio"}
    /\ pc = [p \in {Parent, Child} |-> "close"]
    /\ ends = [p \in {Parent, Child} |-> Ends]
    /\ fd1 = <<>>
    /\ fd2 = <<>>
    /\ buffer = <<>>
    /\ typed = 0
    /\ line = 0
    /\ shown = <<>>

Goto(p, label) == pc' = [pc EXCEPT ![p] = label]

\* exit: what is open is closed.
Exit(p) ==
    /\ Goto(p, "exit")
    /\ ends' = [ends EXCEPT ![p] = {}]
-----------------------------------------------------------------------------
(* The parent                                                               *)

ParentClose ==
    /\ pc[Parent] = "close"
    /\ ends' = [ends EXCEPT ![Parent] = @ \ {"fd1_read", "fd2_write"}]
    /\ Goto(Parent, "fgets")
    /\ UNCHANGED <<prog, fd1, fd2, buffer, typed, line, shown>>

Fgets ==
    /\ pc[Parent] = "fgets"
    /\ IF typed < Lines
         THEN typed' = typed + 1 /\ Goto(Parent, "write") /\ UNCHANGED ends
         ELSE Exit(Parent) /\ UNCHANGED typed
    /\ UNCHANGED <<prog, fd1, fd2, buffer, line, shown>>

\* Without a reader SIGPIPE, and sig_pipe exits.
WriteLine ==
    /\ pc[Parent] = "write"
    /\ IF Open("fd1_read")
         THEN fd1' = Append(fd1, typed) /\ Goto(Parent, "read") /\ UNCHANGED ends
         ELSE Exit(Parent) /\ UNCHANGED fd1
    /\ UNCHANGED <<prog, fd2, buffer, typed, line, shown>>

\* One read takes all that is there; 0 when the pipe has no writer left.
ReadAnswer ==
    /\ pc[Parent] = "read"
    /\ \/ /\ fd2 # <<>>
          /\ shown' = Append(shown, fd2)
          /\ fd2' = <<>>
          /\ Goto(Parent, "fgets")
          /\ UNCHANGED ends
       \/ /\ fd2 = <<>> /\ ~Open("fd2_write")
          /\ Exit(Parent)
          /\ UNCHANGED <<fd2, shown>>
    /\ UNCHANGED <<prog, fd1, buffer, typed, line>>
-----------------------------------------------------------------------------
(* The child                                                                *)

\* Mutant: the child keeps the end of its input that its parent writes to.
KeepEnds == ends' = [ends EXCEPT ![Child] = @ \ {"fd2_read"}]

CloseEnds == ends' = [ends EXCEPT ![Child] = @ \ {"fd1_write", "fd2_read"}]

\* The ends it does not use are closed, the others become its standard input and
\* output; execl.
ChildClose ==
    /\ pc[Child] = "close"
    /\ CloseEnds
    /\ Goto(Child, "read")
    /\ UNCHANGED <<prog, fd1, fd2, buffer, typed, line, shown>>

\* read, or fgets; at the end of the input exit, which writes what is in the buffer.
ReadLine ==
    /\ pc[Child] = "read"
    /\ \/ /\ fd1 # <<>>
          /\ line' = Head(fd1)
          /\ fd1' = Tail(fd1)
          /\ Goto(Child, "write")
          /\ UNCHANGED <<ends, fd2>>
       \/ /\ fd1 = <<>> /\ ~Open("fd1_write")
          /\ fd2' = IF Open("fd2_read") THEN fd2 \o buffer ELSE fd2
          /\ Exit(Child)
          /\ UNCHANGED <<fd1, line>>
    /\ UNCHANGED <<prog, buffer, typed, shown>>

\* write, and SIGPIPE without a reader; printf.
WriteAnswer ==
    /\ pc[Child] = "write"
    /\ IF prog = "add2stdio"
         THEN /\ buffer' = Append(buffer, line)
              /\ Goto(Child, "read")
              /\ UNCHANGED <<ends, fd2>>
       ELSE IF Open("fd2_read")
         THEN /\ fd2' = Append(fd2, line)
              /\ Goto(Child, "read")
              /\ UNCHANGED <<ends, buffer>>
         ELSE Exit(Child) /\ UNCHANGED <<fd2, buffer>>
    /\ UNCHANGED <<prog, fd1, typed, line, shown>>

\* The user ends the child.
Kill ==
    /\ pc[Child] \notin {"close", "exit"}
    /\ Exit(Child)
    /\ UNCHANGED <<prog, fd1, fd2, buffer, typed, line, shown>>

ParentStep == ParentClose \/ Fgets \/ WriteLine \/ ReadAnswer
ChildStep == ChildClose \/ ReadLine \/ WriteAnswer

Next == ParentStep \/ ChildStep \/ Kill

Spec == Init /\ [][Next]_vars /\ WF_vars(ParentStep) /\ WF_vars(ChildStep)
-----------------------------------------------------------------------------
\* What is printed for a line is the answer to it and no other (main of pipe4.c and
\* of add2.c).
AnswersMatch ==
    /\ \A k \in 1 .. Len(shown) : shown[k] = <<k>>
    /\ Len(shown) \in {typed, typed - 1}

\* Both end, also when the child is killed; with add2stdio only then: parent and child
\* wait for each other, the answer is in the child's buffer.
MustEnd == prog = "add2"
Ended == pc[Parent] = "exit" /\ pc[Child] = "exit"
-----------------------------------------------------------------------------
(* The invariant from which AnswersMatch follows.                           *)

TypeOK ==
    /\ pc \in [{Parent, Child} -> {"close", "fgets", "read", "write", "exit"}]
    /\ ends \in [{Parent, Child} -> SUBSET Ends]
    /\ fd1 \in Seq(Nat) /\ fd2 \in Seq(Nat) /\ buffer \in Seq(Nat)
    /\ typed \in Nat /\ line \in Nat
    /\ shown \in Seq(Seq(Nat))

\* The one line on its way is in a pipe, or with the child, which keeps it or loses it.
OnTheWay ==
    \/ fd1 = <<typed>> /\ fd2 = <<>> /\ pc[Child] # "write"
    \/ fd1 = <<>> /\ fd2 = <<>> /\ (pc[Child] = "write" => line = typed)
    \/ fd1 = <<>> /\ fd2 = <<typed>> /\ pc[Child] # "write"

AnswerInv ==
    /\ TypeOK
    /\ \A k \in 1 .. Len(shown) : shown[k] = <<k>>
    /\ pc[Parent] # "exit" => "fd1_write" \in ends[Parent]
    /\ pc[Parent] \in {"close", "fgets"} => typed = Len(shown)
    /\ pc[Parent] \in {"write", "read"} => typed = Len(shown) + 1
    /\ pc[Parent] \in {"close", "fgets", "write"} =>
          fd1 = <<>> /\ fd2 = <<>> /\ pc[Child] # "write"
    /\ pc[Parent] = "read" => OnTheWay
    /\ Len(shown) \in {typed, typed - 1}
=============================================================================
