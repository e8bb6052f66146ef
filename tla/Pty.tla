---------------------------------- MODULE Pty ----------------------------------
(***************************************************************************)
(* The program pty, apue.3e/pty: it runs a program on a pseudo terminal      *)
(* (lib/ptyfork.c, lib/ptyopen.c), puts the user's terminal into raw mode    *)
(* and back (lib/ttymodes.c) and copies in two processes, the child from     *)
(* standard input to the master and the parent from the master to standard   *)
(* output (loop.c).  Standard input is the user's terminal, a file, or the   *)
(* other end of a driver's pipe (driver.c).                                 *)
(***************************************************************************)
EXTENDS Naturals

CONSTANTS
    MaxIn,      \* pieces that come from standard input
    MaxOut      \* pieces the program writes

VARIABLES
    opt,        \* how pty was called: interactive, driver, ignoreeof
    pc,         \* pc["parent"], pc["child"], pc["slave"]
    tty,        \* the user's terminal: its mode, and what ttymodes.c knows of it
    term,       \* SIGTERM to the parent: pending "no", from the "child" or from "outside";
                \* caught, which is sigcaught
    input,      \* pieces: left to read from standard input, in the child's buffer,
                \* written to the master and not yet read
    output      \* pieces: written by the program, read and in the parent's buffer,
                \* copied to standard output

vars == <<opt, pc, tty, term, input, output>>

Init ==
    /\ opt \in [interactive : BOOLEAN, driver : BOOLEAN, ignoreeof : BOOLEAN]
    /\ pc = [parent |-> "open", child |-> "none", slave |-> "none"]
    /\ tty = [mode |-> "cooked", state |-> "RESET", saved |-> FALSE, atexit |-> FALSE]
    /\ term = [pending |-> "no", caught |-> FALSE]
    /\ \E n \in 0 .. MaxIn : input = [left |-> n, buf |-> 0, master |-> 0]
    /\ output = [made |-> 0, buf |-> 0, copied |-> 0]

Raw == opt.interactive /\ ~opt.driver

Goto(p, label) == pc' = [pc EXCEPT ![p] = label]
-----------------------------------------------------------------------------
(* lib/ttymodes.c                                                           *)

\* tty_raw: the new mode is set and looked at again; what was set only in part is
\* taken back.
TtyRaw ==
    \/ tty' = [tty EXCEPT !.mode = "raw", !.state = "RAW", !.saved = TRUE]
    \/ UNCHANGED tty

\* tty_reset
TtyReset(t) == IF t.state = "RESET" THEN t
               ELSE [t EXCEPT !.mode = "cooked", !.state = "RESET"]

\* tty_atexit
TtyAtexit(t) == IF t.saved THEN TtyReset(t) ELSE t

\* Mutant: exit without the handler.
LeaveRaw == UNCHANGED tty

\* exit calls the handler, if it has been set up.
ExitHandler == tty' = IF tty.atexit THEN TtyAtexit(tty) ELSE tty

\* The parent calls exit, err_sys or err_quit.
Exit(label) ==
    /\ ExitHandler
    /\ Goto("parent", label)

\* The child of loop has inherited the handler and resets the same terminal.
ChildExit ==
    /\ tty' = [tty EXCEPT !.mode = IF tty.atexit THEN "cooked" ELSE @]
    /\ Goto("child", "done")
-----------------------------------------------------------------------------
(* main                                                                     *)

\* ptym_open: the master, or err_sys.
PtymOpen ==
    /\ pc["parent"] = "open"
    /\ \/ Goto("parent", "fork") /\ UNCHANGED tty
       \/ Exit("failed")
    /\ UNCHANGED <<opt, term, input, output>>

\* pty_fork: the process for the program, or err_sys.
PtyFork ==
    /\ pc["parent"] = "fork"
    /\ \/ pc' = [pc EXCEPT !["parent"] = IF Raw THEN "raw" ELSE "driver",
                            !["slave"] = "opens"]
          /\ UNCHANGED tty
       \/ Exit("failed")
    /\ UNCHANGED <<opt, term, input, output>>

\* The child of pty_fork: a session of its own, the slave as its terminal (ptys_open)
\* and as its standard files, and the program, or err_sys.
ExecSlave ==
    /\ pc["slave"] = "opens"
    /\ Goto("slave", "runs") \/ Goto("slave", "done")
    /\ UNCHANGED <<opt, tty, term, input, output>>

\* tty_raw of standard input, or err_sys.
SetRaw ==
    /\ pc["parent"] = "raw"
    /\ TtyRaw
    /\ Goto("parent", IF tty'.state = "RAW" THEN "atexit" ELSE "failed")
    /\ UNCHANGED <<opt, term, input, output>>

\* atexit, which has room for 32 handlers and does not fail for the first one.
SetAtexit ==
    /\ pc["parent"] = "atexit"
    /\ tty' = [tty EXCEPT !.atexit = TRUE]
    /\ Goto("parent", "driver")
    /\ UNCHANGED <<opt, term, input, output>>

\* do_driver: standard input and output are a pipe to the driver, or err_sys.
DoDriver ==
    /\ pc["parent"] = "driver"
    /\ \/ Goto("parent", "loop") /\ UNCHANGED tty
       \/ opt.driver /\ Exit("failed")
    /\ UNCHANGED <<opt, term, input, output>>

\* loop: fork the child, or err_sys.
LoopFork ==
    /\ pc["parent"] = "loop"
    /\ \/ pc' = [pc EXCEPT !["parent"] = "signal", !["child"] = "read"]
          /\ UNCHANGED tty
       \/ Exit("failed")
    /\ UNCHANGED <<opt, term, input, output>>
-----------------------------------------------------------------------------
(* The child of loop                                                        *)

\* read from standard input.  A terminal in raw mode has no end of file.
ChildRead ==
    /\ pc["child"] = "read"
    /\ \/ /\ input.left > 0
          /\ input' = [input EXCEPT !.left = @ - 1, !.buf = 1]
          /\ Goto("child", "write")
       \/ /\ input.left = 0 /\ ~Raw
          /\ Goto("child", "eof")
          /\ UNCHANGED input
    /\ UNCHANGED <<opt, tty, term, output>>

\* writen to the master, or err_sys when the program is gone.
ChildWrite ==
    /\ pc["child"] = "write"
    /\ \/ /\ input' = [input EXCEPT !.buf = 0, !.master = @ + 1]
          /\ Goto("child", "read")
          /\ UNCHANGED tty
       \/ pc["slave"] = "done" /\ ChildExit /\ UNCHANGED input
    /\ UNCHANGED <<opt, term, output>>

\* The end of standard input: SIGTERM for the parent unless -i was given, and exit.
ChildEof ==
    /\ pc["child"] = "eof"
    /\ term' = IF opt.ignoreeof \/ term.pending # "no" THEN term
               ELSE [term EXCEPT !.pending = "child"]
    /\ ChildExit
    /\ UNCHANGED <<opt, input, output>>
-----------------------------------------------------------------------------
(* The program on the slave                                                 *)

SlaveRead ==
    /\ pc["slave"] = "runs"
    /\ input.master > 0
    /\ input' = [input EXCEPT !.master = @ - 1]
    /\ UNCHANGED <<opt, pc, tty, term, output>>

SlaveWrite ==
    /\ pc["slave"] = "runs"
    /\ output.made < MaxOut
    /\ output' = [output EXCEPT !.made = @ + 1]
    /\ UNCHANGED <<opt, pc, tty, term, input>>

SlaveExit ==
    /\ pc["slave"] = "runs"
    /\ Goto("slave", "done")
    /\ UNCHANGED <<opt, tty, term, input, output>>
-----------------------------------------------------------------------------
(* SIGTERM                                                                  *)

\* Until signal_intr the parent has no handler.
Unready == {"open", "fork", "raw", "atexit", "driver", "loop", "signal"}
Ended == pc["parent"] \in {"done", "failed", "killed"}

\* Anybody sends SIGTERM, to the parent or to the child, which has no handler and calls
\* none on exit then.
Terminate ==
    /\ \/ /\ ~Ended /\ term.pending = "no"
          /\ term' = [term EXCEPT !.pending = "outside"]
          /\ UNCHANGED pc
       \/ /\ pc["child"] \in {"read", "write", "eof"}
          /\ Goto("child", "done")
          /\ UNCHANGED term
    /\ UNCHANGED <<opt, tty, input, output>>

\* SIGTERM before there is a handler ends the process, and no exit handler runs.
TermKills ==
    /\ term.pending # "no" /\ pc["parent"] \in Unready
    /\ Goto("parent", "killed")
    /\ UNCHANGED <<opt, tty, term, input, output>>

-----------------------------------------------------------------------------
(* The parent of loop                                                       *)

\* signal_intr
SetHandler ==
    /\ pc["parent"] = "signal"
    /\ Goto("parent", "read")
    /\ UNCHANGED <<opt, tty, term, input, output>>

\* sig_term, in a read or outside of one: only a read that waits is interrupted.
SigTerm ==
    /\ term.pending # "no"
    /\ pc["parent"] \in {"read", "reading", "write", "tell"}
    /\ term' = [pending |-> "no", caught |-> TRUE]
    /\ Goto("parent", IF pc["parent"] = "reading" THEN "tell" ELSE pc["parent"])
    /\ UNCHANGED <<opt, tty, input, output>>

\* read from the master
ParentRead ==
    /\ pc["parent"] = "read"
    /\ Goto("parent", "reading")
    /\ UNCHANGED <<opt, tty, term, input, output>>

\* The read returns output of the program, or the end of it when the program is gone.
ParentReads ==
    /\ pc["parent"] = "reading"
    /\ \/ /\ output.made > output.buf + output.copied
          /\ output' = [output EXCEPT !.buf = @ + 1]
          /\ Goto("parent", "write")
       \/ /\ output.made = output.buf + output.copied /\ pc["slave"] = "done"
          /\ Goto("parent", "tell")
          /\ UNCHANGED output
    /\ UNCHANGED <<opt, tty, term, input>>

\* writen to standard output, or err_sys.
ParentWrite ==
    /\ pc["parent"] = "write"
    /\ \/ /\ output' = [output EXCEPT !.buf = 0, !.copied = @ + output.buf]
          /\ Goto("parent", "read")
          /\ UNCHANGED tty
       \/ Exit("failed") /\ UNCHANGED output
    /\ UNCHANGED <<opt, term, input>>

\* The child is told with SIGTERM, unless one was caught, and pty exits.
ParentTell ==
    /\ pc["parent"] = "tell"
    /\ ExitHandler
    /\ pc' = [pc EXCEPT !["parent"] = "done",
                        !["child"] = IF term.caught THEN @ ELSE "done"]
    /\ UNCHANGED <<opt, term, input, output>>

Step ==
    \/ PtymOpen \/ PtyFork \/ SetRaw \/ SetAtexit \/ DoDriver \/ LoopFork
    \/ SetHandler
    \/ ParentRead \/ ParentReads \/ ParentWrite \/ ParentTell
ChildStep == ChildRead \/ ChildWrite \/ ChildEof
SlaveStep == ExecSlave \/ SlaveRead \/ SlaveWrite \/ SlaveExit

Next == Step \/ ChildStep \/ SlaveStep \/ Terminate \/ TermKills \/ SigTerm

Spec == Init /\ [][Next]_vars /\ WF_vars(Step) /\ WF_vars(ChildStep) /\ WF_vars(SlaveStep)
-----------------------------------------------------------------------------
\* When pty exits, at the end of the program, after an error or after a SIGTERM it has
\* caught, the user's terminal is in the mode it had (tty_raw, tty_atexit).  So it is
\* when SIGTERM ends pty before there is a handler, if its child has sent it, for a
\* terminal in raw mode has no end of file to send it for (loop); one from anybody else
\* between tty_raw and signal_intr (main.c:89, loop.c:39) leaves the terminal raw.  And
\* what the program has written is copied when pty ends by itself.
TtyRestored ==
    /\ pc["parent"] \in {"done", "failed"} => tty.mode = "cooked"
    /\ pc["parent"] = "killed" =>
          tty.mode = "cooked" \/ (Raw /\ term.pending = "outside")
    /\ pc["parent"] = "done" /\ ~term.caught =>
          output.copied = output.made /\ pc["child"] = "done"

\* When the program on the slave ends, pty does, and its child with it.
SlaveGone == pc["parent"] # "failed" /\ pc["slave"] = "done"
-----------------------------------------------------------------------------
TypeOK ==
    /\ opt \in [interactive : BOOLEAN, driver : BOOLEAN, ignoreeof : BOOLEAN]
    /\ pc \in [parent : {"open", "fork", "raw", "atexit", "driver", "loop", "signal",
                         "read", "reading", "write", "tell", "done", "failed", "killed"},
               child : {"none", "read", "write", "eof", "done"},
               slave : {"none", "opens", "runs", "done"}]
    /\ tty \in [mode : {"cooked", "raw"}, state : {"RESET", "RAW"}, saved : BOOLEAN,
                atexit : BOOLEAN]
    /\ term \in [pending : {"no", "child", "outside"}, caught : BOOLEAN]
    /\ input \in [left : Nat, buf : Nat, master : Nat]
    /\ output \in [made : Nat, buf : Nat, copied : Nat]

\* What makes TtyRestored inductive: the terminal is raw only where it was asked for
\* and ttymodes.c knows it, with the handler set up or about to be unless SIGTERM comes
\* first; the child does not send SIGTERM then; and the parent holds no output except
\* in between its two calls.
PtyInv ==
    /\ TypeOK
    /\ tty.state = "RAW" => Raw /\ tty.saved
    /\ tty.mode = "raw" =>
          /\ tty.state = "RAW"
          /\ pc["parent"] \in {"atexit", "killed"} \/ tty.atexit
    /\ pc["parent"] \in {"raw", "atexit"} => Raw
    /\ pc["child"] = "eof" \/ term.pending = "child" => ~Raw
    /\ pc["parent"] \in {"open", "fork", "raw", "atexit", "driver", "loop"} =>
          pc["child"] = "none"
    /\ pc["parent"] \in {"open", "fork", "raw"} => tty.state = "RESET"
    /\ pc["parent"] \notin {"write", "failed"} => output.buf = 0
    /\ pc["parent"] \in {"tell", "done"} /\ ~term.caught =>
          pc["slave"] = "done" /\ output.copied = output.made
    /\ TtyRestored
=============================================================================
