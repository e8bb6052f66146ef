--------------------------------- MODULE Popen ---------------------------------
(***************************************************************************)
(* popen and pclose, apue.3e/lib/popen.c: a process opens pipes to commands  *)
(* it reads from or writes to, several at a time, and closes them in any     *)
(* order.  A command that is written to ends when its input ends, that is    *)
(* when no process has the writing end any more; the other commands end by   *)
(* themselves.                                                              *)
(***************************************************************************)
EXTENDS Naturals, FiniteSets

CONSTANTS
    Streams,    \* the streams popen can return
    NULL

VARIABLES
    type,       \* type[s]: "r", "w", or NULL if the stream was never opened
    childpid,   \* the streams with a child in childpid[]
    ends,       \* ends[s]: who has the parent's end of the pipe, "parent" and streams
                \* whose command inherited it
    command,    \* command[s]: "none", "child" (forked), "runs", "done"
    pc,         \* pc of the parent: "idle", or the stream it waits for in pclose
    closed      \* the streams pclose has returned for

vars == <<type, childpid, ends, command, pc, closed>>

Init ==
    /\ type = [s \in Streams |-> NULL]
    /\ childpid = {}
    /\ ends = [s \in Streams |-> {}]
    /\ command = [s \in Streams |-> "none"]
    /\ pc = NULL
    /\ closed = {}
-----------------------------------------------------------------------------
\* popen: the new command inherits the parent's ends of all streams but its own.
Popen(s, t) ==
    /\ pc = NULL /\ type[s] = NULL
    /\ type' = [type EXCEPT ![s] = t]
    /\ childpid' = childpid \cup {s}
    /\ ends' = [u \in Streams |-> IF u = s THEN {"parent"}
                                  ELSE IF "parent" \in ends[u] THEN ends[u] \cup {s}
                                  ELSE ends[u]]
    /\ command' = [command EXCEPT ![s] = "child"]
    /\ UNCHANGED <<pc, closed>>

\* Mutant: the child of popen keeps what it has inherited.
KeepInherited(s) == UNCHANGED ends

\* "close all descriptors in childpid[]"
CloseInherited(s) == ends' = [u \in Streams |-> ends[u] \ {s}]

\* The child of popen executes the command.
ChildExec(s) ==
    /\ command[s] = "child"
    /\ CloseInherited(s)
    /\ command' = [command EXCEPT ![s] = "runs"]
    /\ UNCHANGED <<type, childpid, pc, closed>>

CommandEnds(s) ==
    /\ command[s] = "runs"
    /\ type[s] = "r" \/ ends[s] = {}
    /\ command' = [command EXCEPT ![s] = "done"]
    /\ ends' = [u \in Streams |-> ends[u] \ {s}]
    /\ UNCHANGED <<type, childpid, pc, closed>>

\* pclose: fclose, and waitpid for the command.
Pclose(s) ==
    /\ pc = NULL /\ s \in childpid
    /\ childpid' = childpid \ {s}
    /\ ends' = [ends EXCEPT ![s] = @ \ {"parent"}]
    /\ pc' = s
    /\ UNCHANGED <<type, command, closed>>

Waitpid(s) ==
    /\ pc = s /\ command[s] = "done"
    /\ closed' = closed \cup {s}
    /\ pc' = NULL
    /\ UNCHANGED <<type, childpid, ends, command>>

Step(s) == ChildExec(s) \/ CommandEnds(s) \/ Waitpid(s)

Next == \E s \in Streams : Step(s) \/ Pclose(s) \/ \E t \in {"r", "w"} : Popen(s, t)

Spec == Init /\ [][Next]_vars /\ \A s \in Streams : WF_vars(Step(s))
-----------------------------------------------------------------------------
\* pclose returns (for every stream s, waiting for its command).
Waiting(s) == pc = s
Closed(s) == s \in closed
=============================================================================
