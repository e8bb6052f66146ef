-------------------------------- MODULE SystemCmd --------------------------------
(***************************************************************************)
(* system of apue.3e/signals/system.c, called by a program that has another  *)
(* child and a handler of SIGCHLD that waits for any child (signals/child.c), *)
(* at a terminal where the user types interrupt and quit characters.        *)
(***************************************************************************)
VARIABLES
    pc,
    action,     \* the action of the caller for SIGINT and SIGQUIT: "saved", "ignore"
    blocked,    \* SIGCHLD is blocked
    pending,    \* SIGCHLD is pending
    handling,   \* the handler of SIGCHLD runs
    child,      \* child[c], c the shell or the other child: "none", "forked",
                \* "runs", "exited", "signaled" or "gone"
    given,      \* the action of the shell's process for SIGINT and SIGQUIT
    ended,      \* history: how the shell has ended
    status      \* "unset", "error", "exited" or "signaled"

vars == <<pc, action, blocked, pending, handling, child, given, ended, status>>

Signals == {"SIGINT", "SIGQUIT"}
Zombie(c) == child[c] \in {"exited", "signaled"}

Init ==
    /\ pc = "ignore SIGINT"
    /\ action = [s \in Signals |-> "saved"]
    /\ blocked = FALSE
    /\ pending = FALSE
    /\ handling = FALSE
    /\ child = [shell |-> "none", other |-> "runs"]
    /\ given = [s \in Signals |-> "saved"]
    /\ ended = "unset"
    /\ status = "unset"

\* A handler that runs, or is to run, comes first.
At(label) == pc = label /\ ~handling /\ (~pending \/ blocked)
-----------------------------------------------------------------------------
Ignore(s, next) ==
    /\ At(IF s = "SIGINT" THEN "ignore SIGINT" ELSE "ignore SIGQUIT")
    /\ action' = [action EXCEPT ![s] = "ignore"]
    /\ pc' = next
    /\ UNCHANGED <<blocked, pending, handling, child, given, ended, status>>

\* Mutant: SIGCHLD is not blocked.
NoMask == UNCHANGED blocked

MaskChld == blocked' = TRUE

Mask ==
    /\ At("mask")
    /\ MaskChld
    /\ pc' = "fork"
    /\ UNCHANGED <<action, pending, handling, child, given, ended, status>>

\* fork, or status -1 where there are no more processes.
Fork ==
    /\ At("fork")
    /\ \/ /\ child' = [child EXCEPT !.shell = "forked"]
          /\ given' = action
          /\ pc' = "waitpid"
          /\ UNCHANGED status
       \/ /\ status' = "error"
          /\ pc' = "restore SIGINT"
          /\ UNCHANGED <<child, given>>
    /\ UNCHANGED <<action, blocked, pending, handling, ended>>

\* The child restores its actions and mask and executes the shell.
Exec ==
    /\ child.shell = "forked"
    /\ given' = [s \in Signals |-> "saved"]
    /\ child' = [child EXCEPT !.shell = "runs"]
    /\ UNCHANGED <<pc, action, blocked, pending, handling, ended, status>>

\* waitpid waits for the shell and no other; a handler that interrupts it does not
\* end the wait; ECHILD if somebody else has fetched the status.
Waitpid ==
    /\ At("waitpid")
    /\ Zombie("shell") \/ child.shell = "gone"
    /\ status' = IF Zombie("shell") THEN child.shell ELSE "error"
    /\ child' = [child EXCEPT !.shell = "gone"]
    /\ pc' = "restore SIGINT"
    /\ UNCHANGED <<action, blocked, pending, handling, given, ended>>

Restore(s, next) ==
    /\ At(IF s = "SIGINT" THEN "restore SIGINT" ELSE "restore SIGQUIT")
    /\ action' = [action EXCEPT ![s] = "saved"]
    /\ pc' = next
    /\ UNCHANGED <<blocked, pending, handling, child, given, ended, status>>

Unmask ==
    /\ At("unmask")
    /\ blocked' = FALSE
    /\ pc' = "returned"
    /\ UNCHANGED <<action, pending, handling, child, given, ended, status>>
-----------------------------------------------------------------------------
\* The interrupt or quit character: the signal goes to caller and shell.  It ends the
\* shell; it ends or is caught by a caller that does not ignore it.
Type(s) ==
    /\ child.shell = "runs" /\ given[s] = "saved"
    /\ child' = [child EXCEPT !.shell = "signaled"]
    /\ ended' = "signaled"
    /\ pending' = TRUE
    /\ pc' = IF action[s] = "saved" THEN "interrupted" ELSE pc
    /\ UNCHANGED <<action, blocked, handling, given, status>>

Exit(c) ==
    /\ child[c] = "runs"
    /\ child' = [child EXCEPT ![c] = "exited"]
    /\ ended' = IF c = "shell" THEN "exited" ELSE ended
    /\ pending' = TRUE
    /\ UNCHANGED <<pc, action, blocked, handling, given, status>>

\* sig_cld: wait returns a child that has ended, waits for one, or fails.
Handler ==
    /\ pending /\ ~blocked /\ ~handling
    /\ pending' = FALSE
    /\ handling' = TRUE
    /\ UNCHANGED <<pc, action, blocked, child, given, ended, status>>

HandlerWait ==
    /\ handling
    /\ \/ \E c \in DOMAIN child : Zombie(c) /\ child' = [child EXCEPT ![c] = "gone"]
       \/ (\A c \in DOMAIN child : child[c] \in {"none", "gone"}) /\ UNCHANGED child
    /\ handling' = FALSE
    /\ UNCHANGED <<pc, action, blocked, pending, given, ended, status>>

Step ==
    \/ Ignore("SIGINT", "ignore SIGQUIT") \/ Ignore("SIGQUIT", "mask")
    \/ Mask \/ Fork \/ Waitpid
    \/ Restore("SIGINT", "restore SIGQUIT") \/ Restore("SIGQUIT", "unmask") \/ Unmask

Next ==
    \/ Step \/ Exec \/ Handler \/ HandlerWait
    \/ \E s \in Signals : Type(s)
    \/ \E c \in DOMAIN child : Exit(c)

Spec == Init /\ [][Next]_vars
-----------------------------------------------------------------------------
\* system returns how the shell has ended, although the caller's handler waits for any
\* child; the shell gets the caller's actions for the two signals, and the caller
\* itself neither gets them while the shell runs nor finds them changed afterwards.
SystemKeeps ==
    /\ pc = "returned" =>
          /\ action = [s \in Signals |-> "saved"] /\ ~blocked
          /\ status # "error" => status = ended
          /\ status = "error" => ended = "unset"
    /\ pc # "interrupted"
-----------------------------------------------------------------------------
TypeOK ==
    /\ pc \in {"ignore SIGINT", "ignore SIGQUIT", "mask", "fork", "waitpid",
               "restore SIGINT", "restore SIGQUIT", "unmask", "returned"}
    /\ action \in [Signals -> {"saved", "ignore"}]
    /\ blocked \in BOOLEAN
    /\ pending \in BOOLEAN
    /\ handling \in BOOLEAN
    /\ child \in [shell : {"none", "forked", "runs", "exited", "signaled", "gone"},
                  other : {"runs", "exited", "signaled", "gone"}]
    /\ given \in [Signals -> {"saved", "ignore"}]
    /\ ended \in {"unset", "exited", "signaled"}
    /\ status \in {"unset", "error", "exited", "signaled"}

\* What makes SystemKeeps inductive: which signals system ignores and that it blocks
\* SIGCHLD where it is; the shell lives or is a zombie only in waitpid, when no
\* handler runs, and its end is remembered there and returned behind it.
SystemInv ==
    /\ TypeOK
    /\ action["SIGINT"] = "ignore" <=>
          pc \in {"ignore SIGQUIT", "mask", "fork", "waitpid", "restore SIGINT"}
    /\ action["SIGQUIT"] = "ignore" <=>
          pc \in {"mask", "fork", "waitpid", "restore SIGINT", "restore SIGQUIT"}
    /\ blocked <=> pc \notin {"ignore SIGINT", "ignore SIGQUIT", "mask", "returned"}
    /\ blocked => ~handling
    /\ pc \in {"ignore SIGINT", "ignore SIGQUIT", "mask", "fork"} => child.shell = "none"
    /\ pc = "waitpid" => child.shell \in {"forked", "runs", "exited", "signaled"}
    /\ pc \in {"restore SIGINT", "restore SIGQUIT", "unmask", "returned"} =>
          IF child.shell = "none" THEN status = "error"
          ELSE child.shell = "gone" /\ status = ended /\ ended # "unset"
    /\ child.shell \in {"none", "forked", "runs"} => ended = "unset"
    /\ Zombie("shell") => ended = child.shell
=============================================================================
