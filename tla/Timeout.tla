-------------------------------- MODULE Timeout --------------------------------
(***************************************************************************)
(* A function called at a time to come, apue.3e/threadctl/timeout.c: under a *)
(* recursive mutex the main thread checks a condition and asks timeout() to  *)
(* have retry() called later, by a detached thread that sleeps until then;  *)
(* when that cannot be had, timeout() calls it at once.                     *)
(***************************************************************************)
EXTENDS Naturals

CONSTANTS
    SECTONSEC,  \* ticks of the clock in a second
    Delay,      \* seconds until the retry
    MaxClock

VARIABLES
    clock,      \* CLOCK_REALTIME in ticks
    when,       \* the time of the retry, in ticks
    condition,
    wake,       \* the tick the helper thread sleeps until
    to_wait,    \* how long it is to sleep
    owner, depth,   \* the recursive mutex
    pc,         \* of the main thread and of the helper
    ran         \* how often retry has been called

vars == <<clock, when, condition, wake, to_wait, owner, depth, pc, ran>>

Threads == {"main", "helper"}

Init ==
    /\ clock \in 0 .. SECTONSEC - 1
    /\ when = 0
    /\ condition \in BOOLEAN
    /\ wake = 0
    /\ to_wait = [tv_sec |-> 0, tv_nsec |-> 0]
    /\ owner = "none"
    /\ depth = 0
    /\ pc = [t \in Threads |-> IF t = "main" THEN "lock" ELSE "none"]
    /\ ran = 0

Goto(t, label) == pc' = [pc EXCEPT ![t] = label]

\* A struct timespec and its ticks.
Timespec(n) == [tv_sec |-> n \div SECTONSEC, tv_nsec |-> n % SECTONSEC]
Ticks(ts) == ts.tv_sec * SECTONSEC + ts.tv_nsec

\* Mutant: the mutex is not recursive, and a thread that has it waits for itself.
PlainLock(t) ==
    /\ owner = "none"
    /\ owner' = t
    /\ depth' = depth + 1

\* pthread_mutex_lock of a mutex of type PTHREAD_MUTEX_RECURSIVE.
Lock(t) ==
    /\ owner \in {"none", t}
    /\ owner' = t
    /\ depth' = depth + 1

\* pthread_mutex_unlock: the mutex is free when it was unlocked as often as locked.
Unlock(t) ==
    /\ depth' = depth - 1
    /\ owner' = IF depth = 1 THEN "none" ELSE t

Tick ==
    /\ clock < MaxClock
    /\ clock' = clock + 1
    /\ UNCHANGED <<when, condition, wake, to_wait, owner, depth, pc, ran>>
-----------------------------------------------------------------------------
\* main: lock the mutex, check the condition, calculate the time.
MainLock ==
    /\ pc["main"] = "lock"
    /\ Lock("main")
    /\ IF condition
         THEN when' = clock + Delay * SECTONSEC /\ Goto("main", "timeout")
         ELSE Goto("main", "unlock") /\ UNCHANGED when
    /\ UNCHANGED <<clock, condition, wake, to_wait, ran>>

\* The difference of two times, with the borrow between nanoseconds and seconds.
Difference(a, b) ==
    IF a.tv_nsec >= b.tv_nsec
      THEN [tv_sec |-> a.tv_sec - b.tv_sec, tv_nsec |-> a.tv_nsec - b.tv_nsec]
      ELSE [tv_sec |-> a.tv_sec - b.tv_sec - 1,
            tv_nsec |-> SECTONSEC - b.tv_nsec + a.tv_nsec]

\* Mutant: timeout does not return once it has made a thread.
FallThrough == "retry"

\* What is next for main once there is a thread.
Return == "unlock"

\* timeout: a thread if the time is still to come and there are memory and a thread
\* to be had.
TimeoutThread ==
    /\ pc["main"] = "timeout"
    /\ when > clock
    /\ to_wait' = Difference(Timespec(when), Timespec(clock))
    /\ pc' = [pc EXCEPT !["main"] = Return, !["helper"] = "sleep"]
    /\ UNCHANGED <<clock, when, condition, wake, owner, depth, ran>>

\* timeout: otherwise the function is called at once.
TimeoutNow ==
    /\ pc["main"] = "timeout"
    /\ Goto("main", "retry")
    /\ UNCHANGED <<clock, when, condition, wake, to_wait, owner, depth, ran>>

\* retry, in main with the mutex locked already or in the helper.
RetryLock(t) ==
    /\ pc[t] = "retry"
    /\ Lock(t)
    /\ ran' = ran + 1
    /\ Goto(t, "retrying")
    /\ UNCHANGED <<clock, when, condition, wake, to_wait>>

RetryUnlock(t) ==
    /\ pc[t] = "retrying"
    /\ Unlock(t)
    /\ Goto(t, IF t = "main" THEN "unlock" ELSE "done")
    /\ UNCHANGED <<clock, when, condition, wake, to_wait, ran>>

\* timeout_helper: clock_nanosleep.
HelperSleep ==
    /\ pc["helper"] = "sleep"
    /\ wake' = clock + Ticks(to_wait)
    /\ Goto("helper", "asleep")
    /\ UNCHANGED <<clock, when, condition, to_wait, owner, depth, ran>>

HelperWake ==
    /\ pc["helper"] = "asleep"
    /\ clock >= wake
    /\ Goto("helper", "retry")
    /\ UNCHANGED <<clock, when, condition, wake, to_wait, owner, depth, ran>>

MainUnlock ==
    /\ pc["main"] = "unlock"
    /\ Unlock("main")
    /\ Goto("main", "more")
    /\ UNCHANGED <<clock, when, condition, wake, to_wait, ran>>

\* main continues for a time nobody knows and exits, and the helper with it.
MainExit ==
    /\ pc["main"] = "more"
    /\ pc' = [t \in Threads |-> "done"]
    /\ UNCHANGED <<clock, when, condition, wake, to_wait, owner, depth, ran>>

Step ==
    \/ MainLock \/ TimeoutThread \/ TimeoutNow
    \/ \E t \in Threads : RetryLock(t) \/ RetryUnlock(t)
    \/ HelperSleep \/ HelperWake
    \/ MainUnlock \/ MainExit

Next == Step \/ Tick

Spec == Init /\ [][Next]_vars /\ WF_vars(Step)
-----------------------------------------------------------------------------
\* retry is called at most once, only when the condition was found, and by the
\* helper only at the time asked for or later, while the main thread is not
\* between its check and its unlock (timeout, timeout_helper and main).
RetryOnTime ==
    /\ ran <= 1
    /\ ran = 1 => condition
    /\ pc["helper"] \in {"asleep", "retry", "retrying"} => wake >= when
    /\ pc["helper"] = "retrying" =>
          clock >= when /\ pc["main"] \notin {"timeout", "retry", "retrying", "unlock"}

Ended == pc["main"] = "done"
-----------------------------------------------------------------------------
(* The invariant from which RetryOnTime follows.                            *)

TypeOK ==
    /\ clock \in Nat /\ when \in Nat /\ wake \in Nat
    /\ condition \in BOOLEAN
    /\ to_wait \in [tv_sec : Nat, tv_nsec : Nat]
    /\ owner \in Threads \cup {"none"}
    /\ depth \in 0 .. 2
    /\ pc \in [Threads -> {"lock", "timeout", "retry", "retrying", "unlock", "more",
                           "none", "sleep", "asleep", "done"}]
    /\ ran \in 0 .. 1

\* Who has the mutex, and how often.
Owned ==
    /\ pc["main"] \in {"timeout", "retry", "unlock"} => owner = "main" /\ depth = 1
    /\ pc["main"] = "retrying" => owner = "main" /\ depth = 2
    /\ pc["helper"] = "retrying" => owner = "helper" /\ depth = 1
    /\ pc["main"] \in {"lock", "more"} /\ pc["helper"] # "retrying" =>
          owner = "none" /\ depth = 0

\* Either main calls retry or the helper does, when the condition was found.
Called ==
    /\ pc["main"] \in {"lock", "timeout", "retry"} => ran = 0
    /\ pc["main"] \in {"lock", "timeout", "retry", "retrying"} => pc["helper"] = "none"
    /\ pc["main"] = "done" => pc["helper"] = "done"
    /\ pc["helper"] \in {"sleep", "asleep", "retry"} => ran = 0
    /\ \/ pc["main"] \in {"timeout", "retry"}
       \/ pc["helper"] \in {"sleep", "asleep", "retry"}
       \/ ran = 1
       => condition
    /\ pc["main"] \in {"lock", "timeout", "retry", "retrying", "unlock", "more", "done"}
    /\ pc["helper"] \in {"none", "sleep", "asleep", "retry", "retrying", "done"}

\* The helper sleeps until the time asked for.
OnTime ==
    /\ pc["helper"] = "sleep" => clock + Ticks(to_wait) >= when
    /\ pc["helper"] \in {"asleep", "retry", "retrying"} => wake >= when
    /\ pc["helper"] \in {"retry", "retrying"} => clock >= wake

TimeInv == TypeOK /\ Owned /\ Called /\ OnTime
=============================================================================
