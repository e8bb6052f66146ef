--------------------------------- MODULE TtyModes ---------------------------------
(***************************************************************************)
(* The modes of a terminal, apue.3e/lib/ttymodes.c, under the program        *)
(* termios/t_raw.c: raw mode, then cbreak mode, and a handler that resets    *)
(* the terminal and exits when a signal comes.                              *)
(***************************************************************************)
VARIABLES
    pc,
    wanted,     \* the mode that tty_raw or tty_cbreak is to set
    mode,       \* of the terminal: "cooked", "raw", "cbreak" or "partial"
    ttystate,   \* "RESET", "RAW" or "CBREAK"
    caught,     \* the signals sig_catch is the handler of
    hpc,        \* sig_catch: "no", "reset" or "exit"
    early       \* history: a signal came while the terminal had another mode than
                \* ttystate says

vars == <<pc, wanted, mode, ttystate, caught, hpc, early>>

Signals == {"SIGINT", "SIGQUIT", "SIGTERM"}
State == [raw |-> "RAW", cbreak |-> "CBREAK"]

Init ==
    /\ pc = "SIGINT"
    /\ wanted = "raw"
    /\ mode = "cooked"
    /\ ttystate = "RESET"
    /\ caught = {}
    /\ hpc = "no"
    /\ early = FALSE

At(label) == pc = label /\ hpc = "no"
Exited == pc \in {"exit", "err_sys", "killed"}
-----------------------------------------------------------------------------
\* signal(s, sig_catch)
Signal(s, next) ==
    /\ At(s)
    /\ caught' = caught \cup {s}
    /\ pc' = next
    /\ UNCHANGED <<wanted, mode, ttystate, hpc, early>>

\* The head of tty_raw and tty_cbreak: refused unless RESET, or if the modes cannot
\* be read; then they are saved.
TtyMode ==
    /\ At("tty_mode")
    /\ \/ ttystate = "RESET" /\ pc' = "tcsetattr"
       \/ pc' = "err_sys"
    /\ UNCHANGED <<wanted, mode, ttystate, caught, hpc, early>>

\* tcsetattr may fail, and it succeeds if it makes any of the changes.
Tcsetattr ==
    /\ At("tcsetattr")
    /\ \/ /\ mode' \in {wanted, "partial"}
          /\ pc' = "tcgetattr"
       \/ /\ pc' = "err_sys"
          /\ UNCHANGED mode
    /\ UNCHANGED <<wanted, ttystate, caught, hpc, early>>

\* Have all changes been made?  If not, or if that cannot be known, the saved modes
\* are set again.
Tcgetattr ==
    /\ At("tcgetattr")
    /\ \/ /\ mode = wanted
          /\ pc' = "ttystate"
          /\ UNCHANGED mode
       \/ /\ mode' = "cooked"
          /\ pc' = "err_sys"
    /\ UNCHANGED <<wanted, ttystate, caught, hpc, early>>

SetState ==
    /\ At("ttystate")
    /\ ttystate' = State[wanted]
    /\ pc' = "read"
    /\ UNCHANGED <<wanted, mode, caught, hpc, early>>

\* Characters up to DELETE, in cbreak mode for ever, or the end of the terminal.
Read ==
    /\ At("read")
    /\ pc' \in {"read", "reset"} \cup (IF wanted = "raw" THEN {"delete"} ELSE {})
    /\ UNCHANGED <<wanted, mode, ttystate, caught, hpc, early>>

\* tty_reset, where setting the saved modes does not fail, and then the state; the loop may have ended by DELETE
\* or otherwise.
Reset ==
    /\ At("reset") \/ At("delete")
    /\ mode' = "cooked"
    /\ pc' = IF pc = "delete" THEN "reset state" ELSE "reset, exit"
    /\ UNCHANGED <<wanted, ttystate, caught, hpc, early>>

ResetState ==
    /\ At("reset state") \/ At("reset, exit")
    /\ ttystate' = "RESET"
    /\ wanted' = "cbreak"
    /\ pc' = IF pc = "reset state" THEN "tty_mode" ELSE "err_sys"
    /\ UNCHANGED <<mode, caught, hpc, early>>
-----------------------------------------------------------------------------
\* A signal: the terminal sends SIGINT and SIGQUIT unless in raw mode, anybody
\* SIGTERM at any time.  One that interrupts the handler would do the same again.
Arrive(s) ==
    /\ ~Exited /\ hpc = "no"
    /\ s = "SIGTERM" \/ mode # "raw"
    /\ IF s \in caught
         THEN hpc' = "reset" /\ UNCHANGED pc
         ELSE pc' = "killed" /\ UNCHANGED hpc
    /\ early' = (mode # "cooked" /\ ttystate = "RESET")
    /\ UNCHANGED <<wanted, mode, ttystate, caught>>

\* Mutant: the handler exits only.
NoReset == UNCHANGED <<mode, ttystate>>

\* tty_reset
TtyReset ==
    /\ mode' = IF ttystate = "RESET" THEN mode ELSE "cooked"
    /\ ttystate' = "RESET"

Catch ==
    /\ hpc = "reset"
    /\ TtyReset
    /\ hpc' = "no"
    /\ pc' = "exit"
    /\ UNCHANGED <<wanted, caught, early>>

Next ==
    \/ Signal("SIGINT", "SIGQUIT") \/ Signal("SIGQUIT", "SIGTERM")
    \/ Signal("SIGTERM", "tty_mode")
    \/ TtyMode \/ Tcsetattr \/ Tcgetattr \/ SetState \/ Read \/ Reset \/ ResetState
    \/ Catch
    \/ \E s \in Signals : Arrive(s)

Spec == Init /\ [][Next]_vars
-----------------------------------------------------------------------------
\* However t_raw ends, the terminal is in the mode it had, also when tcsetattr makes
\* only some of the changes; unless a signal comes between tcsetattr and the
\* assignment to ttystate, when tty_reset takes the terminal for reset
\* (ttymodes.c:109-137).
TerminalReset == Exited /\ ~early => mode = "cooked"
-----------------------------------------------------------------------------
TypeOK ==
    /\ pc \in Signals \cup {"tty_mode", "tcsetattr", "tcgetattr", "ttystate", "read",
                            "reset", "delete", "reset state", "reset, exit", "exit",
                            "err_sys", "killed"}
    /\ wanted \in {"raw", "cbreak"}
    /\ mode \in {"cooked", "raw", "cbreak", "partial"}
    /\ ttystate \in {"RESET", "RAW", "CBREAK"}
    /\ caught \in SUBSET Signals
    /\ hpc \in {"no", "reset"}
    /\ early \in BOOLEAN

\* What makes TerminalReset inductive: where the terminal may be in another mode than
\* it had, ttystate says so, except between tcsetattr and the assignment; and by then
\* all signals have their handler.
ModesInv ==
    /\ TypeOK
    /\ pc \in Signals \cup {"tty_mode", "tcsetattr", "reset state", "reset, exit",
                            "err_sys", "killed"} => mode = "cooked"
    /\ pc \in {"read", "reset", "delete"} => ttystate # "RESET"
    /\ pc = "SIGQUIT" => "SIGINT" \in caught
    /\ pc = "SIGTERM" => {"SIGINT", "SIGQUIT"} \subseteq caught
    /\ pc \notin Signals \cup {"exit", "killed"} => caught = Signals
    /\ hpc = "reset" /\ ~early => mode = "cooked" \/ ttystate # "RESET"
    /\ TerminalReset
=============================================================================
