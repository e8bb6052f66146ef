---------------------------------- MODULE Getenv ----------------------------------
(***************************************************************************)
(* getenv for threads, apue.3e/threadctl: with one static buffer             *)
(* (getenv1.c), with a buffer of the caller (getenv_r, getenv2.c), and with  *)
(* a buffer per thread (getenv3.c).  The environment does not change.       *)
(***************************************************************************)
CONSTANTS
    Threads,
    NULL

VARIABLES
    version,    \* "getenv1", "getenv2" or "getenv3"
    once,       \* pthread_once: "not", the thread that runs thread_init, or "done"
    env_mutex,  \* the thread that has it, or NULL
    pc,
    name,       \* name[t]: the variable a thread asks for
    envbuf,     \* envbuf[b]: what is in a buffer, NULL where there is none
    ret,        \* ret[t]: the result of a thread's call; "not found" is NULL from
                \* getenv1 and getenv3, and ENOENT from getenv_r
    shared      \* history, getenv1: a thread called while another was not done

vars == <<version, once, env_mutex, pc, name, envbuf, ret, shared>>

\* Two variables that are set, one of which is too long for any buffer, and one that is
\* not set.
Names == {"short", "long", "unset"}
Buffers == Threads \cup {"static"}
Buffer(t) == IF version = "getenv1" THEN "static" ELSE t

\* What a copy of n leaves in a buffer.  strncpy takes MAXSTRINGSZ-1 characters of a long
\* value and puts no zero behind them: the value is cut where the last byte of the buffer
\* is zero, as in a static one, and goes on behind it where malloc left something else.
Strncpy(n) ==
    IF n # "long" THEN {n}
    ELSE {"cut"} \cup (IF version = "getenv3" THEN {"unterminated"} ELSE {})

Init ==
    /\ version \in {"getenv1", "getenv2", "getenv3"}
    /\ once = IF version = "getenv1" THEN "done" ELSE "not"
    /\ env_mutex = NULL
    /\ pc = [t \in Threads |-> "idle"]
    /\ name = [t \in Threads |-> NULL]
    /\ envbuf = [b \in Buffers |->
                    IF version = "getenv3" THEN NULL ELSE "empty"]
    /\ ret = [t \in Threads |-> NULL]
    /\ shared = FALSE

Goto(t, label) == pc' = [pc EXCEPT ![t] = label]

\* A thread uses the value it was given until it calls again.
Using(t) == pc[t] = "idle" /\ ret[t] = "found"
-----------------------------------------------------------------------------
\* The call, and its pthread_once, which only the first thread does anything for.
Call(t) ==
    \E n \in Names :
        /\ pc[t] = "idle"
        /\ name' = [name EXCEPT ![t] = n]
        /\ ret' = [ret EXCEPT ![t] = NULL]
        /\ shared' = (shared \/ \E u \in Threads \ {t} : pc[u] # "idle" \/ Using(u))
        /\ Goto(t, IF version = "getenv1" THEN "search" ELSE "once")
        /\ UNCHANGED <<version, once, env_mutex, envbuf>>

OnceFirst(t) ==
    /\ pc[t] = "once" /\ once = "not"
    /\ once' = t
    /\ UNCHANGED <<version, env_mutex, pc, name, envbuf, ret, shared>>

\* The others wait until thread_init has run.
Once(t) ==
    /\ pc[t] = "once" /\ once \in {t, "done"}
    /\ once' = "done"
    /\ Goto(t, "lock")
    /\ UNCHANGED <<version, env_mutex, name, envbuf, ret, shared>>

Lock(t) ==
    /\ pc[t] = "lock" /\ env_mutex = NULL
    /\ env_mutex' = t
    /\ Goto(t, IF version = "getenv3" THEN "getspecific" ELSE "search")
    /\ UNCHANGED <<version, once, name, envbuf, ret, shared>>

\* getenv3: the first call of a thread allocates its buffer; without memory for it the
\* result is NULL, as for a variable that is not set.
GetSpecific(t) ==
    /\ pc[t] = "getspecific"
    /\ \/ /\ envbuf' = [envbuf EXCEPT ![t] = IF @ = NULL THEN "empty" ELSE @]
          /\ Goto(t, "search")
          /\ UNCHANGED ret
       \/ /\ envbuf[t] = NULL
          /\ ret' = [ret EXCEPT ![t] = "not found"]
          /\ Goto(t, "return")
          /\ UNCHANGED envbuf
    /\ UNCHANGED <<version, once, env_mutex, name, shared>>

\* The loop over environ: not found, no space (getenv2), or copy.
Search(t) ==
    /\ pc[t] = "search"
    /\ IF name[t] = "unset"
         THEN /\ ret' = [ret EXCEPT ![t] = "not found"]
              /\ Goto(t, "return")
       ELSE IF name[t] = "long" /\ version = "getenv2"
         THEN /\ ret' = [ret EXCEPT ![t] = "ENOSPC"]
              /\ Goto(t, "return")
         ELSE /\ Goto(t, "copy")
              /\ UNCHANGED ret
    /\ UNCHANGED <<version, once, env_mutex, name, envbuf, shared>>

\* strcpy or strncpy, which other threads can see half done.
Copy(t) ==
    /\ pc[t] = "copy"
    /\ envbuf' = [envbuf EXCEPT ![Buffer(t)] = "half"]
    /\ Goto(t, "copied")
    /\ UNCHANGED <<version, once, env_mutex, name, ret, shared>>

Copied(t) ==
    /\ pc[t] = "copied"
    /\ \E v \in Strncpy(name[t]) : envbuf' = [envbuf EXCEPT ![Buffer(t)] = v]
    /\ ret' = [ret EXCEPT ![t] = "found"]
    /\ Goto(t, "return")
    /\ UNCHANGED <<version, once, env_mutex, name, shared>>

Unlock(t) == env_mutex' = IF env_mutex = t THEN NULL ELSE env_mutex

\* Unlock and return; only a value is used further on.
Return(t) ==
    /\ pc[t] = "return"
    /\ Unlock(t)
    /\ name' = [name EXCEPT ![t] = IF ret[t] = "found" THEN @ ELSE NULL]
    /\ ret' = [ret EXCEPT ![t] = IF @ = "found" THEN @ ELSE NULL]
    /\ Goto(t, "idle")
    /\ UNCHANGED <<version, once, envbuf, shared>>

Step(t) ==
    \/ OnceFirst(t) \/ Once(t) \/ Lock(t) \/ GetSpecific(t) \/ Search(t)
    \/ Copy(t) \/ Copied(t) \/ Return(t)

Next == \E t \in Threads : Call(t) \/ Step(t)

Spec == Init /\ [][Next]_vars
-----------------------------------------------------------------------------
\* What a thread uses is what its own call copied, until it calls again: with getenv1
\* only if no other thread has called in the meantime, with the others always.  That is
\* the value of the variable it asked for, or of a long one the beginning (getenv1.c:19,
\* getenv3.c:41), which getenv_r refuses instead (getenv2.c:35).  A thread is told that a
\* variable is not set if it is not, or if it has no buffer yet and gets no memory for
\* one (getenv3.c:31-33).
ValueKept ==
    \A t \in Threads :
        /\ Using(t) /\ (~shared \/ version # "getenv1") =>
               \/ name[t] = "short" /\ envbuf[Buffer(t)] = "short"
               \/ /\ name[t] = "long" /\ version # "getenv2"
                  /\ \/ envbuf[Buffer(t)] = "cut"
                     \/ envbuf[Buffer(t)] = "unterminated" /\ version = "getenv3"
        /\ pc[t] = "return" /\ ret[t] = "not found" =>
               name[t] = "unset" \/ (version = "getenv3" /\ envbuf[t] = NULL)
-----------------------------------------------------------------------------
Active(t) == pc[t] # "idle" \/ Using(t)

TypeOK ==
    /\ version \in {"getenv1", "getenv2", "getenv3"}
    /\ pc \in [Threads -> {"idle", "once", "lock", "getspecific", "search", "copy",
                           "copied", "return"}]
    /\ name \in [Threads -> Names \cup {NULL}]
    /\ envbuf \in [Buffers -> {NULL, "empty", "half", "short", "cut", "unterminated"}]
    /\ ret \in [Threads -> {NULL, "found", "not found", "ENOSPC"}]
    /\ shared \in BOOLEAN

\* What makes ValueKept inductive: as long as the static buffer is not shared one
\* thread at most is active; a result is there from the end of the copy on, with the
\* copy in the buffer, and none during the call; only a variable that is set, and that
\* getenv_r does not refuse, is copied.
Result(t) ==
    /\ pc[t] = "getspecific" => version = "getenv3"
    /\ pc[t] # "idle" => name[t] \in Names
    /\ pc[t] \notin {"idle", "return"} => ret[t] = NULL
    /\ pc[t] \in {"copy", "copied"} \/ ret[t] = "found" =>
           name[t] = "short" \/ (name[t] = "long" /\ version # "getenv2")
    /\ ret[t] = "found" /\ (~shared \/ version # "getenv1") =>
           envbuf[Buffer(t)] \in Strncpy(name[t])
    /\ pc[t] = "return" /\ ret[t] = "not found" =>
           name[t] = "unset" \/ (version = "getenv3" /\ envbuf[t] = NULL)

GetenvInv ==
    /\ TypeOK
    /\ ~shared => \A t \in Threads : Active(t) => \A u \in Threads \ {t} : ~Active(u)
    /\ \A t \in Threads : Result(t)
=============================================================================
