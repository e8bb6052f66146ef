----------------------------- MODULE ProgramsProofs -----------------------------
(***************************************************************************)
(* Proofs about the small programs (module Programs): that a daemon is      *)
(* alone, the hash table of a database is written once, what a thread uses  *)
(* stays, the caller gets its terminal and its signals back, parent and     *)
(* child take turns, a semaphore lives as long as it is used, queues keep   *)
(* their order, a retry is made in time, a file is translated whole, the    *)
(* parts of a sort are merged, and a stream behaves as a file.              *)
(*                                                                          *)
(* The inductive invariants are defined in the modules of the programs      *)
(* (DaemonInv, OpenInv, GetenvInv, PtyInv, ModesInv, SleepInv, SystemInv,   *)
(* TurnsInv, SemInv, JobInv, PollInv, AnswerInv, TimeInv, CopyInv, SortInv, *)
(* StreamInv).  They stand there without the program that "which" names:    *)
(* each has a lemma for its Init and one for its Next, and the theorem      *)
(* joins them for the behaviours of Programs.                               *)
(***************************************************************************)
EXTENDS Programs, FiniteSetTheorems, SequenceTheorems, TLAPS

(***************************************************************************)
(* Daemons.                                                                 *)
(***************************************************************************)

LEMMA DaemonInit == DA!Init => DA!DaemonInv
BY DEF DA!Init, DA!DaemonInv, DA!TypeOK, DA!Steady, DA!Locked, DA!Named, DA!Serving

\* The end of a process takes its lock and nobody else's.
LEMMA DaemonEnds ==
    ASSUME DA!DaemonInv, NEW p \in Daemons, DA!Ends(p)
    PROVE  DA!DaemonInv'
<1>1. DA!TypeOK'
  BY DEF DA!DaemonInv, DA!TypeOK, DA!Ends, DA!Goto
<1>2. ASSUME NEW q \in Daemons PROVE DA!Steady(q)'
  BY DEF DA!DaemonInv, DA!TypeOK, DA!Ends, DA!Goto, DA!Locked, DA!Named, DA!Serving, DA!Steady
<1> QED BY <1>1, <1>2 DEF DA!DaemonInv

LEMMA DaemonStep ==
    ASSUME DA!DaemonInv, NEW p \in Daemons,
           DA!Daemonize(p) \/ DA!Step(p) \/ DA!Sighup(p), ~DA!Ends(p)
    PROVE  DA!DaemonInv'
<1> USE ProgramsAssumption DEF DA!Goto
<1>1. DA!TypeOK'
  BY DEF DA!DaemonInv, DA!TypeOK, DA!Daemonize, DA!Step, DA!Sighup, DA!Exit,
      DA!AlreadyRunning, DA!LockPidfile, DA!Lockfile, DA!Truncate, DA!WritePid,
      DA!SighupDefault, DA!BlockSignals, DA!SetHandlers, DA!TakeSighup, DA!Reread
<1>2. ASSUME NEW q \in Daemons PROVE DA!Steady(q)'
  <2> DA!Steady(p) /\ DA!Steady(q) /\ DA!TypeOK
    BY DEF DA!DaemonInv, DA!Steady
  <2> USE DEF DA!Steady, DA!TypeOK, DA!Locked, DA!Named, DA!Serving
  <2>1. CASE DA!Daemonize(p) \/ DA!LockPidfile(p) \/ DA!Truncate(p) \/ DA!WritePid(p)
    BY <2>1 DEF DA!Daemonize, DA!LockPidfile, DA!Lockfile, DA!Truncate, DA!WritePid
  <2>2. CASE DA!SighupDefault(p) \/ DA!BlockSignals(p) \/ DA!SetHandlers(p)
    BY <2>2 DEF DA!SighupDefault, DA!BlockSignals, DA!SetHandlers
  <2>3. CASE DA!TakeSighup(p) \/ DA!Reread(p)
    BY <2>3 DEF DA!TakeSighup, DA!Reread
  <2>4. CASE DA!Sighup(p)
    <3>1. /\ UNCHANGED <<v2, v3, v6, v7>>
          /\ v4' = [v4 EXCEPT ![p] = v3[p] # "ignored"]
          /\ v5' = [v5 EXCEPT ![p] = @ \/ v3[p] # "ignored"]
          /\ v3[p] # "default"
      BY <2>4 DEF DA!Sighup
    <3>2. CASE v3[p] = "ignored"
      <4>1. v4'[q] = (IF q = p THEN FALSE ELSE v4[q]) /\ v5'[q] = v5[q]
        BY <3>1, <3>2
      <4> QED BY <3>1, <3>2, <4>1
    <3>3. CASE v3[p] # "ignored"
      <4>1. q = p => v4'[q]
        BY <3>1, <3>3
      <4>2. q # p => v4'[q] = v4[q] /\ v5'[q] = v5[q]
        BY <3>1
      <4>3. v2[p] \in {"serve", "reread"}
        BY <3>1, <3>3
      <4> QED BY <3>1, <4>1, <4>2, <4>3
    <3> QED BY <3>2, <3>3
  <2> QED BY <2>1, <2>2, <2>3, <2>4 DEF DA!Step, DA!AlreadyRunning
<1> QED BY <1>1, <1>2 DEF DA!DaemonInv, DA!Steady

LEMMA DaemonNext == DA!DaemonInv /\ DA!Next => DA!DaemonInv'
BY DaemonEnds, DaemonStep DEF DA!Next, DA!Exit

DaemonHolds == which = "daemon" => DA!DaemonInv

\* For any number of processes that would be the daemon, at most one serves, and the
\* file names it (already_running, Sighup).
THEOREM OneDaemonServes == Spec => []OneDaemon
<1>1. Init => DaemonHolds
  BY DaemonInit DEF Init, DaemonHolds
<1>2. DaemonHolds /\ [Next]_vars => DaemonHolds'
  <2>1. CASE Next
    BY <2>1, DaemonNext DEF Next, DaemonHolds
  <2>2. CASE UNCHANGED vars
    BY <2>2 DEF vars, DaemonHolds, DA!DaemonInv, DA!TypeOK, DA!Steady, DA!Locked,
                DA!Named, DA!Serving
  <2> QED BY <2>1, <2>2
<1>3. DaemonHolds => OneDaemon
  BY ProgramsAssumption
  DEF DaemonHolds, OneDaemon, DA!OneDaemon, DA!DaemonInv, DA!TypeOK, DA!Steady,
      DA!Locked, DA!Named, DA!Serving
<1> QED BY <1>1, <1>2, <1>3, PTL DEF Spec

(***************************************************************************)
(* Opening a database.                                                      *)
(***************************************************************************)

LEMMA TruncCreates ==
    ASSUME NEW f \in DO!Flags
    PROVE  /\ DO!Creates(f) <=> "O_TRUNC" \in f
           /\ DO!Creates(f) => "O_CREAT" \in f
BY DEF DO!Flags, DO!Creates

LEMMA OpenInit == DO!Init => DO!OpenInv
<1> SUFFICES ASSUME DO!Init PROVE DO!OpenInv
  OBVIOUS
<1> USE DEF DO!Init
<1>1. DO!TypeOK
  BY DEF DO!TypeOK, DO!Flags
<1>2. ASSUME NEW p \in DbProcs PROVE DO!Behind(p) /\ DO!Alone(p)
  BY DEF DO!Behind, DO!Alone, DO!Opened
<1> QED BY <1>1, <1>2 DEF DO!OpenInv

\* db_open, the open of the index file: whoever opens with O_CREAT and O_TRUNC has the
\* table to write, and if it is not alone it is remembered.
LEMMA OpenIdxStep ==
    ASSUME DO!OpenInv, NEW p \in DbProcs, NEW f \in DO!Flags, DO!OpenIdx(p, f)
    PROVE  DO!OpenInv'
<1> USE TruncCreates DEF DO!OpenIdx, DO!Goto, DO!OpenInv, DO!TypeOK
<1>1. DO!TypeOK'
  OBVIOUS
<1>2. ASSUME NEW q \in DbProcs PROVE DO!Behind(q)'
  BY DEF DO!Behind
<1>3. v7' => v1' # "none" /\ (v1' = "empty" => \E q \in DbProcs : DO!Writes(q)')
  BY DEF DO!Writes
<1>4. ASSUME ~v8' PROVE v2' \subseteq v3'.of /\ \A q \in DbProcs : DO!Alone(q)'
  <2>1. ~v8 /\ \A q \in DbProcs \ {p} :
            ~(DO!Opened(q) /\ (DO!Creates(f) \/ DO!Creates(v5[q])))
    BY <1>4
  <2>2. DO!Alone(p)'
    BY <2>1 DEF DO!Alone, DO!Opened
  <2>3. ASSUME NEW q \in DbProcs \ {p} PROVE DO!Alone(q)'
    BY <2>1 DEF DO!Alone, DO!Opened
  <2> QED BY <2>1, <2>2, <2>3
<1> QED BY <1>1, <1>2, <1>3, <1>4

\* db_open, the open of the data file: what is in it goes when nobody else is there.
LEMMA OpenDatStep ==
    ASSUME DO!OpenInv, NEW p \in DbProcs, DO!OpenDat(p)
    PROVE  DO!OpenInv'
<1> USE TruncCreates DEF DO!OpenDat, DO!Goto, DO!OpenInv, DO!TypeOK
<1>1. DO!TypeOK'
  OBVIOUS
<1>2. ASSUME NEW q \in DbProcs PROVE DO!Behind(q)'
  BY DEF DO!Behind
<1>3. v7' => v1' # "none" /\ (v1' = "empty" => \E q \in DbProcs : DO!Writes(q)')
  <2>1. \A q \in DbProcs : DO!Writes(q) => DO!Writes(q)'
    BY DEF DO!Writes
  <2> QED BY <2>1
<1>4. ASSUME ~v8' PROVE v2' \subseteq v3'.of /\ \A q \in DbProcs : DO!Alone(q)'
  <2>1. v2' \subseteq v3'.of
    BY <1>4 DEF DO!Alone, DO!Opened, DO!Behind
  <2>2. /\ v5' = v5 /\ \A q \in DbProcs \ {p} : v6'[q] = v6[q]
        /\ \A q \in DbProcs : DO!Alone(q)
        /\ DO!Opened(p) /\ v6'[p] # "data"
    BY <1>4 DEF DO!Opened
  <2>3. DO!Alone(p)'
    BY <2>2 DEF DO!Alone, DO!Opened
  <2>4. ASSUME NEW q \in DbProcs \ {p} PROVE DO!Alone(q)'
    BY <2>2 DEF DO!Alone, DO!Opened
  <2> QED BY <2>1, <2>3, <2>4
<1> QED BY <1>1, <1>2, <1>3, <1>4

\* db_open, the rest under the lock.
LEMMA OpenTableStep ==
    ASSUME DO!OpenInv, NEW p \in DbProcs,
           DO!LockIdx(p) \/ DO!StatIdx(p) \/ DO!InitIdx(p) \/ DO!UnlockIdx(p)
    PROVE  DO!OpenInv'
<1> USE ProgramsAssumption
    DEF DO!LockIdx, DO!WritewLock, DO!StatIdx, DO!InitIdx, DO!UnlockIdx, DO!Goto,
        DO!OpenInv, DO!TypeOK
<1>1. DO!TypeOK'
  OBVIOUS
<1>2. ASSUME NEW q \in DbProcs PROVE DO!Behind(q)'
  BY DEF DO!Behind
<1>3. v7' => v1' # "none" /\ (v1' = "empty" => \E q \in DbProcs : DO!Writes(q)')
  <2>1. v1' = "empty" => v1 = "empty"
                        /\ \A q \in DbProcs : DO!Writes(q) => DO!Writes(q)'
    BY DEF DO!Writes
  <2> QED BY <2>1
<1>4. ASSUME ~v8' PROVE v2' \subseteq v3'.of /\ \A q \in DbProcs : DO!Alone(q)'
  <2>1. v2' \subseteq v3'.of
    BY <1>4
  <2>2. /\ v5' = v5 /\ \A q \in DbProcs \ {p} : v6'[q] = v6[q]
        /\ \A q \in DbProcs : DO!Alone(q)
        /\ DO!Opened(p) /\ v6'[p] # "data"
    BY <1>4 DEF DO!Opened
  <2>3. DO!Alone(p)'
    BY <2>2 DEF DO!Alone, DO!Opened
  <2>4. ASSUME NEW q \in DbProcs \ {p} PROVE DO!Alone(q)'
    BY <2>2 DEF DO!Alone, DO!Opened
  <2> QED BY <2>1, <2>3, <2>4
<1> QED BY <1>1, <1>2, <1>3, <1>4

\* db_store and db_close.
LEMMA OpenUseStep ==
    ASSUME DO!OpenInv, NEW p \in DbProcs, DO!Store(p) \/ DO!DbClose(p)
    PROVE  DO!OpenInv'
<1> USE DEF DO!Store, DO!DbClose, DO!Goto, DO!OpenInv, DO!TypeOK
<1>1. DO!TypeOK' /\ v3.of \subseteq v3'.of /\ (v2' # v2 => p \in v3'.of)
  <2>1. CASE v3' = [v3 EXCEPT !.of = v3.of \cup {p}]
    <3>1. v3'.exists = v3.exists /\ v3'.of = v3.of \cup {p}
      BY <2>1
    <3> QED BY <2>1, <3>1
  <2>2. CASE v3' = v3
    BY <2>2
  <2> QED BY <2>1, <2>2
<1>2. ASSUME NEW q \in DbProcs PROVE DO!Behind(q)'
  BY DEF DO!Behind
<1>3. v7' => v1' # "none" /\ (v1' = "empty" => \E q \in DbProcs : DO!Writes(q)')
  <2>1. \A q \in DbProcs : DO!Writes(q) => DO!Writes(q)'
    BY DEF DO!Writes
  <2> QED BY <2>1
<1>4. ASSUME ~v8' PROVE v2' \subseteq v3'.of /\ \A q \in DbProcs : DO!Alone(q)'
  <2>1. v2' \subseteq v3'.of
    BY <1>1, <1>4
  <2>2. /\ v5' = v5 /\ \A q \in DbProcs \ {p} : v6'[q] = v6[q]
        /\ \A q \in DbProcs : DO!Alone(q)
        /\ DO!Opened(p) /\ v6'[p] # "data"
    BY <1>4 DEF DO!Opened
  <2>3. DO!Alone(p)'
    BY <2>2 DEF DO!Alone, DO!Opened
  <2>4. ASSUME NEW q \in DbProcs \ {p} PROVE DO!Alone(q)'
    BY <2>2 DEF DO!Alone, DO!Opened
  <2> QED BY <2>1, <2>3, <2>4
<1> QED BY <1>1, <1>2, <1>3, <1>4

LEMMA OpenNext == DO!OpenInv /\ DO!Next => DO!OpenInv'
BY OpenIdxStep, OpenDatStep, OpenTableStep, OpenUseStep DEF DO!Next, DO!Step

OpenHolds == which = "dbopen" => DO!OpenInv

\* For any number of processes that open and create a database, the hash table is
\* written once (db_open).
THEOREM TableWrittenOnce == Spec => []TableOnce
<1>1. Init => OpenHolds
  BY OpenInit DEF Init, OpenHolds
<1>2. OpenHolds /\ [Next]_vars => OpenHolds'
  <2>1. CASE Next
    BY <2>1, OpenNext DEF Next, OpenHolds
  <2>2. CASE UNCHANGED vars
    BY <2>2 DEF vars, OpenHolds, DO!OpenInv, DO!TypeOK, DO!Behind, DO!Alone, DO!Opened,
                DO!Writes
  <2> QED BY <2>1, <2>2
<1>3. OpenHolds => TableOnce
  BY DEF OpenHolds, TableOnce, DO!TableOnce, DO!OpenInv, DO!Behind, DO!Writes
<1> QED BY <1>1, <1>2, <1>3, PTL DEF Spec

(***************************************************************************)
(* getenv.                                                                  *)
(***************************************************************************)

LEMMA GetenvInit == GE!Init => GE!GetenvInv
<1> SUFFICES ASSUME GE!Init PROVE GE!GetenvInv
  OBVIOUS
<1> USE DEF GE!Init
<1>1. GE!TypeOK
  BY DEF GE!TypeOK, GE!Buffers
<1>2. ASSUME NEW t \in EnvThreads PROVE GE!Result(t) /\ ~GE!Active(t)
  BY DEF GE!Result, GE!Active, GE!Using
<1> QED BY <1>1, <1>2 DEF GE!GetenvInv

\* Who calls while another thread is active, or still uses its value, shares the
\* static buffer.
LEMMA GetenvCall ==
    ASSUME GE!GetenvInv, NEW t \in EnvThreads, GE!Call(t)
    PROVE  GE!GetenvInv'
<1> USE DEF GE!GetenvInv
<1>1. /\ v4' = [v4 EXCEPT ![t] = IF v1 = "getenv1" THEN "search" ELSE "once"]
      /\ \E n \in GE!Names : v5' = [v5 EXCEPT ![t] = n]
      /\ v7' = [v7 EXCEPT ![t] = "NULL"]
      /\ v8' = (v8 \/ \E u \in EnvThreads \ {t} : v4[u] # "idle" \/ GE!Using(u))
      /\ v4[t] = "idle" /\ v1' = v1 /\ v6' = v6
  BY DEF GE!Call, GE!Goto
<1>2. GE!TypeOK'
  BY <1>1 DEF GE!TypeOK
<1>3. ASSUME NEW u \in EnvThreads \ {t}
      PROVE  /\ v4'[u] = v4[u] /\ v5'[u] = v5[u] /\ v7'[u] = v7[u]
             /\ v8 => v8'
             /\ GE!Active(u) => v8'
  BY <1>1 DEF GE!TypeOK, GE!Active
<1>4. ASSUME ~v8' PROVE \A u \in EnvThreads \ {t} : ~GE!Active(u)'
  BY <1>3, <1>4 DEF GE!Active, GE!Using
<1>5. ASSUME NEW u \in EnvThreads \ {t} PROVE GE!Result(u)'
  <2>1. GE!Result(u)
    OBVIOUS
  <2> QED BY <1>1, <1>3, <2>1 DEF GE!Result, GE!Buffer, GE!Strncpy
<1>6. /\ v7'[t] = "NULL" /\ v5'[t] \in GE!Names
      /\ v4'[t] \notin {"idle", "return", "getspecific", "copy", "copied"}
  BY <1>1 DEF GE!TypeOK
<1>7. GE!Result(t)'
  BY <1>6 DEF GE!Result
<1> QED BY <1>2, <1>4, <1>5, <1>7

\* A step of a call: nobody becomes active, and who writes into a buffer writes into
\* its own, or is the only one.
LEMMA GetenvOthers ==
    ASSUME GE!GetenvInv, NEW t \in EnvThreads, NEW u \in EnvThreads \ {t},
           GE!Active(t), GE!Result(u), v1' = v1, v8' = v8,
           v4'[u] = v4[u], v5'[u] = v5[u], v7'[u] = v7[u],
           \A b \in GE!Buffers \ {GE!Buffer(t)} : v6'[b] = v6[b]
    PROVE  GE!Result(u)'
<1>1. CASE GE!Buffer(u) # GE!Buffer(t)
  <2>1. v6'[GE!Buffer(u)] = v6[GE!Buffer(u)] /\ GE!Buffer(u)' = GE!Buffer(u)
    BY <1>1 DEF GE!Buffer, GE!Buffers
  <2>2. v1 = "getenv3" => GE!Buffer(u) = u
    BY DEF GE!Buffer
  <2>3. GE!Strncpy(v5[u])' = GE!Strncpy(v5[u])
    BY DEF GE!Strncpy
  <2> QED BY <2>1, <2>2, <2>3 DEF GE!Result
<1>2. CASE GE!Buffer(u) = GE!Buffer(t)
  <2>1. v1 = "getenv1"
    BY <1>2 DEF GE!Buffer
  <2>2. ~v8 => ~GE!Active(u)
    BY DEF GE!GetenvInv
  <2> QED BY <2>1, <2>2 DEF GE!Result, GE!Active, GE!Using
<1> QED BY <1>1, <1>2

LEMMA GetenvStep ==
    ASSUME GE!GetenvInv, NEW t \in EnvThreads, GE!Step(t)
    PROVE  GE!GetenvInv'
<1> USE DEF GE!Goto
<1>1. GE!TypeOK /\ GE!Result(t) /\ v4[t] # "idle" /\ GE!Buffer(t) \in GE!Buffers
      /\ v1' = v1 /\ v8' = v8
  BY DEF GE!GetenvInv, GE!Step, GE!OnceFirst, GE!Once, GE!Lock, GE!GetSpecific,
         GE!Search, GE!Copy, GE!Copied, GE!Return, GE!Buffers, GE!Buffer
<1>2. /\ GE!TypeOK' /\ GE!Result(t)'
      /\ \A u \in EnvThreads \ {t} :
            v4'[u] = v4[u] /\ v5'[u] = v5[u] /\ v7'[u] = v7[u]
      /\ \A b \in GE!Buffers \ {GE!Buffer(t)} : v6'[b] = v6[b]
  <2> USE <1>1 DEF GE!TypeOK, GE!Result
  <2>1. CASE GE!OnceFirst(t) \/ GE!Once(t) \/ GE!Lock(t)
    BY <2>1 DEF GE!OnceFirst, GE!Once, GE!Lock
  <2>2. CASE GE!GetSpecific(t)
    <3> t \in GE!Buffers /\ GE!Buffer(t) = t
      BY <2>2 DEF GE!GetSpecific, GE!Buffers, GE!Buffer
    <3> QED BY <2>2 DEF GE!GetSpecific
  <2>3. CASE GE!Search(t)
    BY <2>3 DEF GE!Search, GE!Names
  <2>4. CASE GE!Copy(t)
    BY <2>4 DEF GE!Copy
  <2>5. CASE GE!Copied(t)
    <3>1. PICK v \in GE!Strncpy(v5[t]) : v6' = [v6 EXCEPT ![GE!Buffer(t)] = v]
      BY <2>5 DEF GE!Copied
    <3>2. v \in {"short", "cut", "unterminated"}
      BY <2>5 DEF GE!Copied, GE!Strncpy
    <3>3. /\ v4[t] = "copied" /\ UNCHANGED <<v1, v2, v3, v5, v8>>
          /\ v4' = [v4 EXCEPT ![t] = "return"] /\ v7' = [v7 EXCEPT ![t] = "found"]
      BY <2>5 DEF GE!Copied
    <3>4. GE!TypeOK'
      BY <3>1, <3>2, <3>3
    <3>5. GE!Result(t)'
      <4>1. v6'[GE!Buffer(t)] = v /\ GE!Buffer(t)' = GE!Buffer(t)
        BY <3>1, <3>3 DEF GE!Buffer
      <4>2. GE!Strncpy(v5[t])' = GE!Strncpy(v5[t])
        BY <3>3 DEF GE!Strncpy
      <4>3. v4'[t] = "return" /\ v7'[t] = "found"
        BY <3>3
      <4> HIDE DEF GE!TypeOK
      <4> QED BY <3>1, <3>3, <4>1, <4>2, <4>3
    <3>6. /\ \A u \in EnvThreads \ {t} :
                v4'[u] = v4[u] /\ v5'[u] = v5[u] /\ v7'[u] = v7[u]
          /\ \A b \in GE!Buffers \ {GE!Buffer(t)} : v6'[b] = v6[b]
      BY <3>1, <3>3
    <3> QED BY <3>4, <3>5, <3>6
  <2>6. CASE GE!Return(t)
    <3>1. /\ v5' = [v5 EXCEPT ![t] = IF v7[t] = "found" THEN v5[t] ELSE "NULL"]
          /\ v7' = [v7 EXCEPT ![t] = IF v7[t] = "found" THEN v7[t] ELSE "NULL"]
          /\ v4' = [v4 EXCEPT ![t] = "idle"] /\ v6' = v6
      BY <2>6 DEF GE!Return
    <3>2. v4'[t] = "idle" /\ (v7'[t] = "found" => v7[t] = "found" /\ v5'[t] = v5[t])
      BY <3>1
    <3>3. GE!TypeOK'
      BY <3>1
    <3>4. GE!Result(t)'
      <4>1. v1' = v1 /\ v8' = v8 /\ v6' = v6 /\ GE!Buffer(t)' = GE!Buffer(t)
        BY <3>1, <1>1 DEF GE!Buffer
      <4>2. CASE v7'[t] = "found"
        <5>1. v7[t] = "found" /\ v5'[t] = v5[t]
          BY <3>2, <4>2
        <5>2. /\ v5[t] = "short" \/ (v5[t] = "long" /\ v1 # "getenv2")
              /\ ~v8 \/ v1 # "getenv1" => v6[GE!Buffer(t)] \in GE!Strncpy(v5[t])
          BY <1>1, <5>1
        <5>3. (v5[t] = "short" \/ (v5[t] = "long" /\ v1 # "getenv2"))'
          BY <4>1, <5>1, <5>2
        <5>4. (v6[GE!Buffer(t)] \in GE!Strncpy(v5[t]))' = (v6[GE!Buffer(t)] \in GE!Strncpy(v5[t]))
          BY <4>1, <5>1 DEF GE!Strncpy
        <5>5. (~v8)' <=> ~v8
          <6> HIDE <1>1 DEF GE!TypeOK
          <6> QED BY <4>1
        <5>6. (v1 # "getenv1")' <=> (v1 # "getenv1")
          BY <4>1
        <5> QED BY <3>2, <4>2, <5>2, <5>3, <5>4, <5>5, <5>6
      <4> QED BY <3>2, <4>2
    <3>5. \A u \in EnvThreads \ {t} :
             v4'[u] = v4[u] /\ v5'[u] = v5[u] /\ v7'[u] = v7[u]
      BY <3>1
    <3> QED BY <3>1, <3>3, <3>4, <3>5
  <2> QED BY <2>1, <2>2, <2>3, <2>4, <2>5, <2>6 DEF GE!Step
<1>3. ASSUME NEW u \in EnvThreads PROVE GE!Result(u)'
  BY <1>1, <1>2, GetenvOthers DEF GE!GetenvInv, GE!Active
<1>4. ASSUME NEW u \in EnvThreads PROVE GE!Active(u)' => GE!Active(u)
  BY <1>1, <1>2 DEF GE!Active, GE!Using
<1> QED BY <1>1, <1>2, <1>3, <1>4 DEF GE!GetenvInv

LEMMA GetenvNext == GE!GetenvInv /\ GE!Next => GE!GetenvInv'
BY GetenvCall, GetenvStep DEF GE!Next

(***************************************************************************)
(* Reference counted objects: what RefcountProofs says of them.              *)
(***************************************************************************)

RCP == INSTANCE RefcountProofs WITH
    Threads <- RefThreads, NULL <- "NULL", version <- v1, alive <- v2, holders <- v3,
    count <- v4, flock <- v5, fh <- v6, hashlock <- v7, pc <- v8, arg <- v9

LEMMA RefSame == RCP!Init = RC!Init /\ RCP!Next = RC!Next /\ RCP!NoUseAfterFree = RC!NoUseAfterFree
<1>1. RCP!Init = RC!Init
  BY DEF RCP!Init, RC!Init
<1>2. RCP!NoUseAfterFree = RC!NoUseAfterFree
  BY DEF RCP!NoUseAfterFree, RC!NoUseAfterFree
<1>3. RCP!Next = RC!Next
  BY DEF RCP!Next, RC!Next, RCP!Step, RC!Step, RCP!Call, RC!Call,
     RCP!AllocLink, RCP!AllocLock, RCP!AllocInit, RCP!FindHold, RCP!ReleLockTable,
     RCP!ReleRecheck, RCP!Free, RCP!FooAlloc, RCP!FindLocked, RCP!Find, RCP!FooHold,
     RCP!FooRele, RCP!FooReleLocked, RCP!Goto, RCP!Idle, RCP!Return, RCP!CountUnlocked,
     RCP!Referenced, RCP!Released, RCP!LastReference,
     RC!AllocLink, RC!AllocLock, RC!AllocInit, RC!FindHold, RC!ReleLockTable,
     RC!ReleRecheck, RC!Free, RC!FooAlloc, RC!FindLocked, RC!Find, RC!FooHold,
     RC!FooRele, RC!FooReleLocked, RC!Goto, RC!Idle, RC!Return, RC!CountUnlocked,
     RC!Referenced, RC!Released, RC!LastReference
<1> QED BY <1>1, <1>2, <1>3

InUseHolds ==
    /\ which = "refcount" => RCP!RefInv
    /\ which = "getenv" => GE!GetenvInv

\* For any number of threads and objects: what a thread has a reference to is not
\* freed (foo_rele), and what its call has copied is not overwritten (getenv).
THEOREM InUseIsKept == Spec => []InUseKept
<1> RCP!NullApart
  BY ProgramsAssumption DEF RCP!NullApart
<1>1. Init => InUseHolds
  BY GetenvInit, RCP!RefInit, RefSame DEF Init, InUseHolds
<1>2. InUseHolds /\ [Next]_vars => InUseHolds'
  <2>1. CASE Next
    BY <2>1, GetenvNext, RCP!RefNext, RefSame DEF Next, InUseHolds
  <2>2. CASE UNCHANGED vars
    <3>1. RCP!RefInv => RCP!RefInv'
      BY <2>2, RCP!RefNext DEF vars, RCP!vars
    <3>2. GE!GetenvInv => GE!GetenvInv'
      BY <2>2 DEF vars, GE!GetenvInv, GE!TypeOK, GE!Active, GE!Using, GE!Result,
                  GE!Buffer, GE!Strncpy
    <3> QED BY <2>2, <3>1, <3>2 DEF vars, InUseHolds
  <2> QED BY <2>1, <2>2
<1>3. InUseHolds => InUseKept
  <2>1. RCP!RefInv => RCP!NoUseAfterFree
    BY DEF RCP!RefInv, RCP!NoUseAfterFree, RCP!Allocated, RCP!FreeAlone
  <2>2. GE!GetenvInv => GE!ValueKept
    BY DEF GE!GetenvInv, GE!ValueKept, GE!Result, GE!Using, GE!Strncpy
  <2> QED BY <2>1, <2>2, RefSame DEF InUseHolds, InUseKept
<1> QED BY <1>1, <1>2, <1>3, PTL DEF Spec

(***************************************************************************)
(* pty.                                                                     *)
(***************************************************************************)

LEMMA PtyInit == PT!Init => PT!PtyInv
BY ProgramsAssumption DEF PT!Init, PT!PtyInv, PT!TypeOK, PT!Raw, PT!TtyRestored

\* exit of the parent: the terminal is reset if it may be in raw mode.
LEMMA PtyExit ==
    ASSUME PT!PtyInv, v2["parent"] \notin {"atexit", "killed"}, PT!ExitHandler
    PROVE  /\ v3' \in [mode : {"cooked", "raw"}, state : {"RESET", "RAW"},
                       saved : BOOLEAN, atexit : BOOLEAN]
           /\ v3'.mode = "cooked"
           /\ v3'.state = "RAW" => PT!Raw /\ v3'.saved
           /\ v3.state = "RESET" => v3'.state = "RESET"
BY DEF PT!PtyInv, PT!TypeOK, PT!ExitHandler, PT!TtyAtexit, PT!TtyReset

LEMMA PtyMain ==
    ASSUME PT!PtyInv, PT!PtymOpen \/ PT!PtyFork \/ PT!DoDriver \/ PT!LoopFork
    PROVE  PT!PtyInv'
<1> USE DEF PT!PtyInv, PT!TypeOK, PT!TtyRestored, PT!Goto, PT!Raw
<1>1. CASE PT!ExitHandler /\ v2' = [v2 EXCEPT !["parent"] = "failed"]
           /\ v2["parent"] \in {"open", "fork", "driver", "loop"}
           /\ UNCHANGED <<v1, v4, v5, v6>>
  BY <1>1, PtyExit
<1>2. CASE UNCHANGED <<v1, v3, v4, v5, v6>>
  <2>1. CASE v2["parent"] = "open" /\ v2' = [v2 EXCEPT !["parent"] = "fork"]
    BY <1>2, <2>1
  <2>2. CASE /\ v2["parent"] = "fork"
             /\ v2' = [v2 EXCEPT !["parent"] = IF PT!Raw THEN "raw" ELSE "driver",
                                 !["slave"] = "opens"]
    <3>1. /\ v2' \in [parent : {"raw", "driver"}, child : {v2["child"]},
                      slave : {"opens"}]
          /\ v2'["parent"] = "raw" => PT!Raw
      BY <2>2
    <3> QED BY <1>2, <2>2, <3>1
  <2>3. CASE v2["parent"] = "driver" /\ v2' = [v2 EXCEPT !["parent"] = "loop"]
    BY <1>2, <2>3
  <2>4. CASE /\ v2["parent"] = "loop"
             /\ v2' = [v2 EXCEPT !["parent"] = "signal", !["child"] = "read"]
    <3>1. v2' = [parent |-> "signal", child |-> "read", slave |-> v2["slave"]]
      BY <2>4
    <3>2. v2["child"] # "done"
      BY <2>4
    <3> QED BY <1>2, <2>4, <3>1, <3>2
  <2> QED BY <1>1, <1>2, <2>1, <2>2, <2>3, <2>4
       DEF PT!PtymOpen, PT!PtyFork, PT!DoDriver, PT!LoopFork, PT!Exit
<1> QED BY <1>1, <1>2 DEF PT!PtymOpen, PT!PtyFork, PT!DoDriver, PT!LoopFork, PT!Exit

LEMMA PtyRaw ==
    ASSUME PT!PtyInv, PT!SetRaw \/ PT!SetAtexit \/ PT!SetHandler
    PROVE  PT!PtyInv'
<1> USE DEF PT!PtyInv, PT!TypeOK, PT!TtyRestored, PT!Goto, PT!Raw
<1>1. CASE PT!SetRaw /\ v3' = [v3 EXCEPT !.mode = "raw", !.state = "RAW", !.saved = TRUE]
  <2>1. /\ v3'.mode = "raw" /\ v3'.state = "RAW" /\ v3'.saved
        /\ v3' \in [mode : {"cooked", "raw"}, state : {"RESET", "RAW"},
                    saved : BOOLEAN, atexit : BOOLEAN]
    BY <1>1
  <2>2. v2["parent"] = "raw" /\ v2' = [v2 EXCEPT !["parent"] = "atexit"]
        /\ UNCHANGED <<v1, v4, v5, v6>>
    BY <1>1, <2>1 DEF PT!SetRaw
  <2> QED BY <2>1, <2>2
<1>2. CASE PT!SetRaw /\ UNCHANGED v3
  BY <1>2 DEF PT!SetRaw
<1>3. CASE PT!SetAtexit
  BY <1>3 DEF PT!SetAtexit
<1>4. CASE PT!SetHandler
  BY <1>4 DEF PT!SetHandler
<1> QED BY <1>1, <1>2, <1>3, <1>4 DEF PT!SetRaw, PT!TtyRaw

LEMMA PtyParent ==
    ASSUME PT!PtyInv, PT!ParentRead \/ PT!ParentReads
    PROVE  PT!PtyInv'
BY DEF PT!PtyInv, PT!TypeOK, PT!TtyRestored, PT!Goto, PT!Raw, PT!ParentRead,
       PT!ParentReads

\* The terminal can be raw where SIGTERM ends pty only if that came from outside.
LEMMA PtyTerm ==
    ASSUME PT!PtyInv, PT!Terminate \/ PT!TermKills \/ PT!SigTerm
    PROVE  PT!PtyInv'
<1> USE DEF PT!PtyInv, PT!TypeOK, PT!TtyRestored, PT!Goto, PT!Raw, PT!Ended, PT!Unready
<1>1. CASE /\ v2["parent"] \notin {"done", "failed", "killed"}
           /\ v4' = [v4 EXCEPT !.pending = "outside"]
           /\ UNCHANGED <<v1, v2, v3, v5, v6>>
  <2>1. v4' = [pending |-> "outside", caught |-> v4.caught]
    BY <1>1
  <2> QED BY <1>1, <2>1
<1>2. CASE /\ v2["child"] \in {"read", "write", "eof"}
           /\ v2' = [v2 EXCEPT !["child"] = "done"]
           /\ UNCHANGED <<v1, v3, v4, v5, v6>>
  BY <1>2
<1>3. CASE PT!TermKills
  BY <1>3 DEF PT!TermKills
<1>4. CASE PT!SigTerm
  <2>1. v4' = [pending |-> "no", caught |-> TRUE]
    BY <1>4 DEF PT!SigTerm
  <2> QED BY <1>4, <2>1 DEF PT!SigTerm
<1> QED BY <1>1, <1>2, <1>3, <1>4 DEF PT!Terminate

LEMMA PtyWrite ==
    ASSUME PT!PtyInv, PT!ParentWrite \/ PT!ParentTell
    PROVE  PT!PtyInv'
<1> USE DEF PT!PtyInv, PT!TypeOK, PT!TtyRestored, PT!Goto, PT!Raw
<1>1. CASE /\ PT!ParentWrite /\ v2' = [v2 EXCEPT !["parent"] = "read"] /\ UNCHANGED v3
           /\ v6' = [v6 EXCEPT !.buf = 0, !.copied = v6.copied + v6.buf]
  <2>1. v6' = [made |-> v6.made, buf |-> 0, copied |-> v6.copied + v6.buf]
    BY <1>1
  <2>2. v2["parent"] = "write" /\ UNCHANGED <<v1, v3, v4, v5>>
    BY <1>1 DEF PT!ParentWrite
  <2> QED BY <1>1, <2>1, <2>2
<1>2. CASE PT!ParentWrite /\ PT!Exit("failed") /\ UNCHANGED v6
  BY <1>2, PtyExit DEF PT!ParentWrite, PT!Exit
<1>3. CASE PT!ParentTell
  BY <1>3, PtyExit DEF PT!ParentTell
<1>4. CASE PT!ParentWrite
  BY <1>1, <1>2, <1>4 DEF PT!ParentWrite
<1> QED BY <1>3, <1>4

LEMMA PtyChild ==
    ASSUME PT!PtyInv, PT!ChildStep
    PROVE  PT!PtyInv'
<1> USE DEF PT!PtyInv, PT!TypeOK, PT!TtyRestored, PT!Goto, PT!Raw
<1>1. CASE PT!ChildRead
  <2>1. v5' \in [left : Nat, buf : Nat, master : Nat]
    <3>1. CASE /\ v5.left > 0
               /\ v5' = [left |-> v5.left - 1, buf |-> 1, master |-> v5.master]
      BY <3>1
    <3> QED BY <1>1, <3>1 DEF PT!ChildRead
  <2>2. \/ v2' = [v2 EXCEPT !["child"] = "write"]
        \/ v2' = [v2 EXCEPT !["child"] = "eof"] /\ ~PT!Raw
    BY <1>1 DEF PT!ChildRead
  <2>3. v2["child"] = "read" /\ UNCHANGED <<v1, v3, v4, v6>>
    BY <1>1 DEF PT!ChildRead
  <2> QED BY <2>1, <2>2, <2>3
<1>2. CASE PT!ChildExit /\ v2["child"] \in {"write", "eof"}
           /\ UNCHANGED <<v1, v5, v6>>
           /\ (v4' = v4 \/ (v4' = [v4 EXCEPT !.pending = "child"] /\ v2["child"] = "eof"))
  <2>1. v3'.mode = "raw" =>
            v3'.state = "RAW" /\ (v2["parent"] \in {"atexit", "killed"} \/ v3'.atexit)
    BY <1>2 DEF PT!ChildExit
  <2>2. /\ v3' \in [mode : {"cooked", "raw"}, state : {"RESET", "RAW"},
                    saved : BOOLEAN, atexit : BOOLEAN]
        /\ v3'.state = v3.state /\ v3'.saved = v3.saved
        /\ v3.mode = "cooked" => v3'.mode = "cooked"
    BY <1>2 DEF PT!ChildExit
  <2>3. v2' = [v2 EXCEPT !["child"] = "done"]
    BY <1>2 DEF PT!ChildExit
  <2>4. /\ v4' \in [pending : {"no", "child", "outside"}, caught : BOOLEAN]
        /\ v4'.caught = v4.caught
        /\ v4' = v4 \/ (v4'.pending = "child" /\ ~PT!Raw)
    BY <1>2
  <2>5. v3.mode = "raw" => PT!Raw
    OBVIOUS
  <2> HIDE DEF PT!Raw
  <2>6. PT!Raw' = PT!Raw
    BY <1>2 DEF PT!Raw
  <2> QED BY <1>2, <2>1, <2>2, <2>3, <2>4, <2>5, <2>6
<1>3. CASE /\ v5' = [v5 EXCEPT !.buf = 0, !.master = v5.master + 1]
           /\ v2["child"] = "write" /\ v2' = [v2 EXCEPT !["child"] = "read"]
           /\ UNCHANGED <<v1, v3, v4, v6>>
  <2>1. v5' = [left |-> v5.left, buf |-> 0, master |-> v5.master + 1]
    BY <1>3
  <2> QED BY <1>3, <2>1
<1> QED BY <1>1, <1>2, <1>3 DEF PT!ChildStep, PT!ChildWrite, PT!ChildEof

LEMMA PtySlave ==
    ASSUME PT!PtyInv, PT!SlaveStep
    PROVE  PT!PtyInv'
BY DEF PT!PtyInv, PT!TypeOK, PT!TtyRestored, PT!Goto, PT!Raw, PT!SlaveStep,
       PT!ExecSlave, PT!SlaveRead, PT!SlaveWrite, PT!SlaveExit

LEMMA PtyNext == PT!PtyInv /\ PT!Next => PT!PtyInv'
BY PtyMain, PtyRaw, PtyParent, PtyTerm, PtyWrite, PtyChild, PtySlave
   DEF PT!Next, PT!Step

(***************************************************************************)
(* Terminal modes.                                                          *)
(***************************************************************************)

LEMMA ModesInit == TM!Init => TM!ModesInv
BY DEF TM!Init, TM!ModesInv, TM!TypeOK, TM!Signals, TM!TerminalReset, TM!Exited

LEMMA ModesNext == TM!ModesInv /\ TM!Next => TM!ModesInv'
<1> SUFFICES ASSUME TM!ModesInv, TM!Next PROVE TM!ModesInv'
  OBVIOUS
<1> USE DEF TM!ModesInv, TM!TypeOK, TM!TerminalReset, TM!Exited, TM!At, TM!Signals
<1>1. CASE TM!Signal("SIGINT", "SIGQUIT") \/ TM!Signal("SIGQUIT", "SIGTERM")
           \/ TM!Signal("SIGTERM", "tty_mode")
  BY <1>1 DEF TM!Signal
<1>2. CASE TM!TtyMode \/ TM!Tcsetattr \/ TM!Tcgetattr
  BY <1>2 DEF TM!TtyMode, TM!Tcsetattr, TM!Tcgetattr
<1>3. CASE TM!SetState
  <2>1. TM!State["raw"] = "RAW" /\ TM!State["cbreak"] = "CBREAK"
    BY DEF TM!State
  <2> QED BY <1>3, <2>1 DEF TM!SetState
<1>7. CASE TM!Read
  BY <1>7 DEF TM!Read
<1>4. CASE TM!Reset \/ TM!ResetState
  BY <1>4 DEF TM!Reset, TM!ResetState
<1>5. CASE \E s \in TM!Signals : TM!Arrive(s)
  BY <1>5 DEF TM!Arrive
<1>6. CASE TM!Catch
  BY <1>6 DEF TM!Catch, TM!TtyReset
<1> QED BY <1>1, <1>2, <1>3, <1>4, <1>5, <1>6, <1>7 DEF TM!Next

(***************************************************************************)
(* sleep.                                                                   *)
(***************************************************************************)

LEMMA SleepInit == SL!Init => SL!SleepInv
<1> SUFFICES ASSUME SL!Init PROVE SL!SleepInv
  OBVIOUS
<1>1. PICK c \in {"none", "set"} : v5 = [own |-> "off", caller |-> c]
  BY DEF SL!Init
<1>2. v5 \in [own : {"off", "set", "expired"},
              caller : {"none", "set", "expired", "canceled"}]
      /\ v5.own = "off"
  BY <1>1
<1> QED BY <1>2 DEF SL!Init, SL!SleepInv, SL!TypeOK, SL!SleepRestores

LEMMA SleepNext == SL!SleepInv /\ SL!Next => SL!SleepInv'
<1> SUFFICES ASSUME SL!SleepInv, SL!Next PROVE SL!SleepInv'
  OBVIOUS
<1> USE DEF SL!SleepInv, SL!TypeOK, SL!SleepRestores, SL!At
<1>1. CASE SL!Sigaction
  BY <1>1 DEF SL!Sigaction
<1>2. CASE SL!Block
  BY <1>2 DEF SL!Block
<1>3. CASE SL!Alarm
  BY <1>3 DEF SL!Alarm
<1>4. CASE SL!Suspend
  BY <1>4 DEF SL!Suspend
<1>5. CASE SL!Wake
  BY <1>5 DEF SL!Wake
<1>6. CASE SL!Cancel
  BY <1>6 DEF SL!Cancel
<1>7. CASE SL!Restore
  BY <1>7 DEF SL!Restore
<1>8. CASE SL!Unblock
  BY <1>8 DEF SL!Unblock, SL!SetMask
<1>9. CASE SL!Expire
  BY <1>9 DEF SL!Expire
<1>10. CASE SL!Deliver
  BY <1>10 DEF SL!Deliver
<1>11. CASE SL!Interrupt
  BY <1>11 DEF SL!Interrupt
<1>12. CASE SL!Finished
  BY <1>12 DEF SL!Finished
<1> QED BY <1>1, <1>2, <1>3, <1>4, <1>5, <1>6, <1>7, <1>8, <1>9, <1>10, <1>11, <1>12
  DEF SL!Next, SL!Step

(***************************************************************************)
(* system.                                                                  *)
(***************************************************************************)

LEMMA SystemInit == SY!Init => SY!SystemInv
<1> SUFFICES ASSUME SY!Init PROVE SY!SystemInv
  OBVIOUS
<1> USE DEF SY!Init
<1>1. SY!TypeOK
  BY DEF SY!TypeOK
<1> QED BY <1>1 DEF SY!SystemInv, SY!Signals, SY!Zombie

LEMMA SystemNext == SY!SystemInv /\ SY!Next => SY!SystemInv'
<1> SUFFICES ASSUME SY!SystemInv, SY!Next PROVE SY!SystemInv'
  OBVIOUS
<1> USE DEF SY!SystemInv, SY!TypeOK, SY!Zombie, SY!At, SY!Signals
<1>1. CASE SY!Ignore("SIGINT", "ignore SIGQUIT")
  BY <1>1 DEF SY!Ignore
<1>2. CASE SY!Ignore("SIGQUIT", "mask")
  BY <1>2 DEF SY!Ignore
<1>3. CASE SY!Mask
  BY <1>3 DEF SY!Mask, SY!MaskChld
<1>4. CASE SY!Fork
  BY <1>4 DEF SY!Fork
<1>5. CASE SY!Waitpid
  BY <1>5 DEF SY!Waitpid
<1>6. CASE SY!Restore("SIGINT", "restore SIGQUIT")
  BY <1>6 DEF SY!Restore
<1>7. CASE SY!Restore("SIGQUIT", "unmask")
  BY <1>7 DEF SY!Restore
<1>8. CASE SY!Unmask
  BY <1>8 DEF SY!Unmask
<1>9. CASE SY!Exec
  BY <1>9 DEF SY!Exec
<1>10. CASE SY!Handler
  BY <1>10 DEF SY!Handler
<1>11. CASE SY!HandlerWait
  BY <1>11 DEF SY!HandlerWait
<1>12. CASE \E s \in SY!Signals : SY!Type(s)
  <2>1. PICK s \in SY!Signals : SY!Type(s)
    BY <1>12
  <2>2. v1 = "waitpid" /\ v2[s] = "ignore"
    BY <2>1 DEF SY!Type
  <2> QED BY <2>1, <2>2 DEF SY!Type
<1>13. CASE \E c \in DOMAIN v6 : SY!Exit(c)
  <2>1. DOMAIN v6 = {"shell", "other"}
    OBVIOUS
  <2>2. CASE SY!Exit("shell")
    BY <2>2 DEF SY!Exit
  <2>3. CASE SY!Exit("other")
    BY <2>3 DEF SY!Exit
  <2> QED BY <1>13, <2>1, <2>2, <2>3
<1> QED BY <1>1, <1>2, <1>3, <1>4, <1>5, <1>6, <1>7, <1>8, <1>9, <1>10, <1>11, <1>12, <1>13
  DEF SY!Next, SY!Step

RestoredHolds ==
    /\ which = "pty" => PT!PtyInv
    /\ which = "ttymodes" => TM!ModesInv
    /\ which = "sleep" => SL!SleepInv
    /\ which = "system" => SY!SystemInv

\* When pty exits and t_raw ends the terminal is as it was (tty_atexit, sig_catch), and
\* so are the caller's actions and mask behind sleep and system, for any amount that pty
\* copies; when SIGTERM ends pty it is so unless that came from outside.
THEOREM CallerIsRestored == Spec => []CallerRestored
<1>1. Init => RestoredHolds
  BY PtyInit, ModesInit, SleepInit, SystemInit DEF Init, RestoredHolds
<1>2. RestoredHolds /\ [Next]_vars => RestoredHolds'
  <2>1. CASE Next
    BY <2>1, PtyNext, ModesNext, SleepNext, SystemNext DEF Next, RestoredHolds
  <2>2. CASE UNCHANGED vars
    <3>1. PT!PtyInv => PT!PtyInv'
      BY <2>2 DEF vars, PT!PtyInv, PT!TypeOK, PT!Raw, PT!TtyRestored
    <3>2. TM!ModesInv => TM!ModesInv'
      BY <2>2 DEF vars, TM!ModesInv, TM!TypeOK, TM!TerminalReset, TM!Exited
    <3>3. SL!SleepInv => SL!SleepInv'
      BY <2>2 DEF vars, SL!SleepInv, SL!TypeOK, SL!SleepRestores
    <3>4. SY!SystemInv => SY!SystemInv'
      <4>1. SY!SystemInv => SY!TypeOK'
        BY <2>2 DEF vars, SY!SystemInv, SY!TypeOK
      <4> QED BY <2>2, <4>1 DEF vars, SY!SystemInv, SY!Zombie
    <3> QED BY <2>2, <3>1, <3>2, <3>3, <3>4 DEF vars, RestoredHolds
  <2> QED BY <2>1, <2>2
<1>3. RestoredHolds => CallerRestored
  <2>1. PT!PtyInv => PT!TtyRestored
    BY DEF PT!PtyInv
  <2>2. TM!ModesInv => TM!TerminalReset
    BY DEF TM!ModesInv
  <2>3. SL!SleepInv => SL!SleepRestores
    BY DEF SL!SleepInv, SL!SleepRestores
  <2>4. SY!SystemInv => SY!SystemKeeps
    BY DEF SY!SystemInv, SY!TypeOK, SY!SystemKeeps, SY!Signals
  <2> QED BY <2>1, <2>2, <2>3, <2>4 DEF RestoredHolds, CallerRestored
<1> QED BY <1>1, <1>2, <1>3, PTL DEF Spec

(***************************************************************************)
(* Parent and child that take turns.                                        *)
(***************************************************************************)

LEMMA TwoProcs ==
    /\ TW!Procs = {"parent", "child"}
    /\ TW!Other("parent") = "child" /\ TW!Other("child") = "parent"
    /\ \A p \in TW!Procs :
          /\ TW!Other(p) # p /\ TW!Other(TW!Other(p)) = p
          /\ TW!Procs = {p, TW!Other(p)}
BY DEF TW!Procs, TW!Other

\* The values the steps are about.
Typed ==
    /\ v4["parent"] \in Nat /\ v4["child"] \in Nat /\ v5 \in Nat
    /\ v6["parent"] \in {0, 1} /\ v6["child"] \in {0, 1}
    /\ v7["parent"] \in BOOLEAN /\ v7["child"] \in BOOLEAN
    /\ NLOOPS \in Nat

\* p's turn in devzero.c is over; p exits in deadlock.c.
After(p, label) ==
    /\ v4'[p] = v4[p] + 2 /\ v4'[TW!Other(p)] = v4[TW!Other(p)]
    /\ v3'[p] = IF v4'[p] < (IF p = "parent" THEN NLOOPS ELSE NLOOPS + 1) THEN label
                ELSE "done"

Gone(p) == \A q \in TW!Procs : v9'[q] = IF v9[q] = p THEN "none" ELSE v9[q]

LEMMA TurnsInit == TW!Init => TW!TurnsInv
<1> SUFFICES ASSUME TW!Init PROVE TW!TurnsInv
  OBVIOUS
<1> USE TwoProcs, ProgramsAssumption DEF TW!Init
<1>1. TW!TypeOK
  BY DEF TW!TypeOK
<1>2. ASSUME NEW p \in TW!Procs PROVE TW!Flag(p) /\ (v1 = "deadlock" => TW!Locks(p))
  BY DEF TW!Flag, TW!Locks, TW!Notified
<1>3. v1 = "devzero" => TW!OneTurn
  BY DEF TW!OneTurn, TW!Waiting, TW!Notified, TW!HasTurn
<1> QED BY <1>1, <1>2, <1>3 DEF TW!TurnsInv

\* devzero.c: who has the turn hands it on.
LEMMA TurnsHandedOn ==
    ASSUME TW!TurnsInv, v1 = "devzero", NEW p \in TW!Procs, TW!Step(p)
    PROVE  TW!OneTurn' /\ TW!Flag(p)' /\ TW!Flag(TW!Other(p))'
<1> DEFINE o == TW!Other(p)
<1>a. /\ Typed /\ TW!TypeOK /\ o \in TW!Procs /\ o # p
      /\ v6[p] \in {0, 1} /\ v6[o] \in {0, 1}
  BY TwoProcs, ProgramsAssumption DEF TW!TurnsInv, TW!TypeOK, Typed
<1>b. TW!OneTurn /\ TW!Flag(p) /\ TW!Flag(o)
  BY <1>a DEF TW!TurnsInv
<1>1. CASE TW!Tell(p)
  <2>1. v3[p] = "tell" /\ v6'[p] = v6[p] /\ v6'[o] \in {1, v6[o] + 1}
    BY <1>1, <1>a DEF TW!TypeOK, TW!Goto, TW!Tell, TW!Turn
  <2>2. v3'[o] = v3[o]
    BY <1>1, <1>a DEF TW!TypeOK, TW!Goto, TW!Tell, TW!Turn
  <2>3. v7' = v7 /\ v5' = v5
    BY <1>1, <1>a DEF TW!TypeOK, TW!Goto, TW!Tell, TW!Turn
  <2>4. p = "parent" => v3'[p] = "wait" /\ v4' = v4
    BY <1>1, <1>a DEF TW!TypeOK, TW!Goto, TW!Tell, TW!Turn, TW!Procs
  <2>5. p = "child" => After(p, "wait")
    BY <1>1, <1>a DEF TW!TypeOK, TW!Goto, TW!Tell, TW!Turn, After, TW!Procs
  <2> QED BY <1>a, <1>b, <2>1, <2>2, <2>3, <2>4, <2>5, TwoProcs
      DEF Typed, TW!OneTurn, TW!Flag, TW!HasTurn,
             TW!Waiting, TW!Notified, After
<1>2. CASE TW!WaitPipe(p)
  <2>0. v6[p] > 0
    BY <1>2 DEF TW!WaitPipe
  <2>1. v3[p] = "wait"
    BY <1>2, <1>a, <2>0 DEF TW!TypeOK, TW!Goto, TW!WaitPipe, TW!Waited, TW!Turn
  <2>2. v3'[o] = v3[o]
    BY <1>2, <1>a, <2>0 DEF TW!TypeOK, TW!Goto, TW!WaitPipe, TW!Waited, TW!Turn
  <2>3. v6[p] = 1
    BY <1>a, <2>0
  <2>4. v6'[p] = v6[p] - 1 /\ v6'[o] = v6[o]
    BY <1>2, <1>a, <2>3 DEF TW!TypeOK, TW!Goto, TW!WaitPipe, TW!Waited, TW!Turn
  <2>5. v7' = v7 /\ v5' = v5
    BY <1>2, <1>a, <2>3 DEF TW!TypeOK, TW!Goto, TW!WaitPipe, TW!Waited, TW!Turn
  <2>6. p = "parent" => After(p, "update")
    BY <1>2, <1>a, <2>3 DEF TW!TypeOK, TW!Goto, TW!WaitPipe, TW!Waited, TW!Turn, After, TW!Procs
  <2>7. p = "child" => v3'[p] = "update" /\ v4' = v4
    BY <1>2, <1>a, <2>3 DEF TW!TypeOK, TW!Goto, TW!WaitPipe, TW!Waited, TW!Turn, TW!Procs
  <2> QED BY <1>a, <1>b, <2>1, <2>2, <2>3, <2>4, <2>5, <2>6, <2>7, TwoProcs
      DEF Typed, TW!OneTurn, TW!Flag, TW!HasTurn,
             TW!Waiting, TW!Notified, After
<1>3. CASE TW!TestFlag(p)
  <2>1. v3[p] = "wait" /\ v3'[p] = IF v7[p] THEN "clear" ELSE "tested"
    BY <1>3, <1>a DEF TW!TypeOK, TW!Goto, TW!TestFlag
  <2>2. v3'[o] = v3[o]
    BY <1>3, <1>a DEF TW!TypeOK, TW!Goto, TW!TestFlag
  <2>3. UNCHANGED <<v4, v5, v6, v7>>
    BY <1>3, <1>a DEF TW!TypeOK, TW!Goto, TW!TestFlag
  <2> QED BY <1>a, <1>b, <2>1, <2>2, <2>3, TwoProcs
      DEF Typed, TW!OneTurn, TW!Flag, TW!HasTurn,
             TW!Waiting, TW!Notified
<1>4. CASE TW!Sigsuspend(p)
  <2>1. v3[p] = "tested" /\ v3'[p] = "suspend"
    BY <1>4, <1>a DEF TW!TypeOK, TW!Goto, TW!Sigsuspend
  <2>2. v3'[o] = v3[o]
    BY <1>4, <1>a DEF TW!TypeOK, TW!Goto, TW!Sigsuspend
  <2>3. UNCHANGED <<v4, v5, v6, v7>>
    BY <1>4, <1>a DEF TW!TypeOK, TW!Goto, TW!Sigsuspend
  <2> QED BY <1>a, <1>b, <2>1, <2>2, <2>3, TwoProcs
      DEF Typed, TW!OneTurn, TW!Flag, TW!HasTurn,
             TW!Waiting, TW!Notified
<1>5. CASE TW!Caught(p)
  <2>0. v6[p] > 0
    BY <1>5 DEF TW!Caught
  <2>1. v6[p] = 1
    BY <1>a, <2>0
  <2>2. v3'[o] = v3[o]
    BY <1>5, <1>a, <2>1 DEF TW!TypeOK, TW!Goto, TW!Caught
  <2>3. v6'[p] = 0 /\ v6'[o] = v6[o]
    BY <1>5, <1>a, <2>1 DEF TW!TypeOK, TW!Goto, TW!Caught
  <2>4. v7'[p] /\ (v7'[o] <=> v7[o])
    BY <1>5, <1>a, <2>1 DEF TW!TypeOK, TW!Goto, TW!Caught
  <2>5. v3'[p] = IF v3[p] = "suspend" THEN "wait" ELSE v3[p]
    BY <1>5, <1>a, <2>1 DEF TW!TypeOK, TW!Goto, TW!Caught
  <2>6. UNCHANGED <<v4, v5>>
    BY <1>5, <1>a, <2>1 DEF TW!TypeOK, TW!Goto, TW!Caught
  <2> QED BY <1>a, <1>b, <2>1, <2>2, <2>3, <2>4, <2>5, <2>6, TwoProcs
      DEF Typed, TW!OneTurn, TW!Flag, TW!HasTurn,
             TW!Waiting, TW!Notified
<1>6. CASE TW!Clear(p)
  <2>1. v3[p] = "clear" /\ v3'[p] = "unmask" /\ ~v7'[p] /\ (v7'[o] <=> v7[o])
    BY <1>6, <1>a DEF TW!TypeOK, TW!Goto, TW!Clear, TW!ClearFlag
  <2>2. v3'[o] = v3[o]
    BY <1>6, <1>a DEF TW!TypeOK, TW!Goto, TW!Clear, TW!ClearFlag
  <2>3. UNCHANGED <<v4, v5, v6>>
    BY <1>6, <1>a DEF TW!TypeOK, TW!Goto, TW!Clear, TW!ClearFlag
  <2> QED BY <1>a, <1>b, <2>1, <2>2, <2>3, TwoProcs
      DEF Typed, TW!OneTurn, TW!Flag, TW!HasTurn,
             TW!Waiting, TW!Notified
<1>7. CASE TW!Unmask(p)
  <2>1. v3[p] = "unmask" /\ UNCHANGED <<v5, v6, v7>>
    BY <1>7, <1>a DEF TW!TypeOK, TW!Goto, TW!Unmask, TW!Waited, TW!Turn
  <2>2. v3'[o] = v3[o]
    BY <1>7, <1>a DEF TW!TypeOK, TW!Goto, TW!Unmask, TW!Waited, TW!Turn
  <2>3. p = "parent" => After(p, "update")
    BY <1>7, <1>a DEF TW!TypeOK, TW!Goto, TW!Unmask, TW!Waited, TW!Turn, After, TW!Procs
  <2>4. p = "child" => v3'[p] = "update" /\ v4' = v4
    BY <1>7, <1>a DEF TW!TypeOK, TW!Goto, TW!Unmask, TW!Waited, TW!Turn, TW!Procs
  <2> QED BY <1>a, <1>b, <2>1, <2>2, <2>3, <2>4, TwoProcs
      DEF Typed, TW!OneTurn, TW!Flag, TW!HasTurn,
             TW!Waiting, TW!Notified, After
<1>8. CASE TW!Update(p)
  <2>1. v3[p] = "update" /\ v5' = v5 + 1 /\ UNCHANGED <<v4, v6, v7>>
    BY <1>8, <1>a DEF TW!TypeOK, TW!Goto, TW!Update
  <2>2. v3'[o] = v3[o]
    BY <1>8, <1>a DEF TW!TypeOK, TW!Goto, TW!Update
  <2>3. v3'[p] = IF v5 = v4[p] THEN "tell" ELSE "err_quit"
    BY <1>8, <1>a DEF TW!TypeOK, TW!Goto, TW!Update
  <2> QED BY <1>a, <1>b, <2>1, <2>2, <2>3, TwoProcs
      DEF Typed, TW!OneTurn, TW!Flag, TW!HasTurn,
             TW!Waiting, TW!Notified
<1> QED BY <1>1, <1>2, <1>3, <1>4, <1>5, <1>6, <1>7, <1>8, <1>a, <1>b
  DEF TW!Step, TW!LockOwn, TW!LockOther, TW!Unblocked, TW!OneTurn

\* deadlock.c: both bytes are locked before anybody is told, and one process gets the
\* error.
LEMMA BothLockedStep ==
    ASSUME TW!TurnsInv, v1 = "deadlock", NEW p \in TW!Procs, TW!Step(p)
    PROVE  \A q \in TW!Procs : TW!Locks(q)' /\ TW!Flag(q)'
<1> DEFINE o == TW!Other(p)
<1>a. /\ Typed /\ TW!TypeOK /\ o \in TW!Procs /\ o # p
      /\ v6[p] \in {0, 1} /\ v6[o] \in {0, 1}
  BY TwoProcs, ProgramsAssumption DEF TW!TurnsInv, TW!TypeOK, Typed
<1>b. TW!Locks(p) /\ TW!Locks(o) /\ TW!Flag(p) /\ TW!Flag(o)
  BY <1>a DEF TW!TurnsInv
<1>1. CASE TW!Tell(p)
  <2>1. v3[p] = "tell" /\ v3'[p] = "wait"
    BY <1>1, <1>a DEF TW!TypeOK, TW!Goto, TW!Tell
  <2>2. v3'[o] = v3[o]
    BY <1>1, <1>a DEF TW!TypeOK, TW!Goto, TW!Tell
  <2>3. v6'[p] = v6[p] /\ v6'[o] \in {1, v6[o] + 1}
    BY <1>1, <1>a DEF TW!TypeOK, TW!Goto, TW!Tell
  <2>4. UNCHANGED <<v7, v9>>
    BY <1>1, <1>a DEF TW!TypeOK, TW!Goto, TW!Tell
  <2> QED BY <1>a, <1>b, <2>1, <2>2, <2>3, <2>4
      DEF Typed, TW!Locks, TW!Flag,
             TW!Notified, TW!Other, TW!Procs
<1>2. CASE TW!WaitPipe(p)
  <2>0. v6[p] > 0
    BY <1>2 DEF TW!WaitPipe
  <2>1. v3[p] = "wait" /\ v3'[p] = "lock_other"
    BY <1>2, <1>a, <2>0 DEF TW!TypeOK, TW!Goto, TW!WaitPipe, TW!Waited
  <2>2. v3'[o] = v3[o]
    BY <1>2, <1>a, <2>0 DEF TW!TypeOK, TW!Goto, TW!WaitPipe, TW!Waited
  <2>3. v6[p] = 1
    BY <1>a, <2>0
  <2>4. v6'[p] = v6[p] - 1 /\ v6'[o] = v6[o]
    BY <1>2, <1>a, <2>3 DEF TW!TypeOK, TW!Goto, TW!WaitPipe, TW!Waited
  <2>5. UNCHANGED <<v7, v9>>
    BY <1>2, <1>a, <2>3 DEF TW!TypeOK, TW!Goto, TW!WaitPipe, TW!Waited
  <2> QED BY <1>a, <1>b, <2>1, <2>2, <2>3, <2>4, <2>5
      DEF Typed, TW!Locks, TW!Flag,
             TW!Notified, TW!Other, TW!Procs
<1>3. CASE TW!TestFlag(p)
  <2>1. v3[p] = "wait" /\ v3'[p] = IF v7[p] THEN "clear" ELSE "tested"
    BY <1>3, <1>a DEF TW!TypeOK, TW!Goto, TW!TestFlag
  <2>2. v3'[o] = v3[o]
    BY <1>3, <1>a DEF TW!TypeOK, TW!Goto, TW!TestFlag
  <2>3. UNCHANGED <<v6, v7, v9>>
    BY <1>3, <1>a DEF TW!TypeOK, TW!Goto, TW!TestFlag
  <2> QED BY <1>a, <1>b, <2>1, <2>2, <2>3
      DEF Typed, TW!Locks, TW!Flag,
             TW!Notified, TW!Other, TW!Procs
<1>4. CASE TW!Sigsuspend(p)
  <2>1. v3[p] = "tested" /\ v3'[p] = "suspend"
    BY <1>4, <1>a DEF TW!TypeOK, TW!Goto, TW!Sigsuspend
  <2>2. v3'[o] = v3[o]
    BY <1>4, <1>a DEF TW!TypeOK, TW!Goto, TW!Sigsuspend
  <2>3. UNCHANGED <<v6, v7, v9>>
    BY <1>4, <1>a DEF TW!TypeOK, TW!Goto, TW!Sigsuspend
  <2> QED BY <1>a, <1>b, <2>1, <2>2, <2>3
      DEF Typed, TW!Locks, TW!Flag,
             TW!Notified, TW!Other, TW!Procs
<1>5. CASE TW!Caught(p)
  <2>0. v6[p] > 0
    BY <1>5 DEF TW!Caught
  <2>1. v6[p] = 1
    BY <1>a, <2>0
  <2>2. v3'[o] = v3[o]
    BY <1>5, <1>a, <2>1 DEF TW!TypeOK, TW!Goto, TW!Caught
  <2>3. v6'[p] = 0 /\ v6'[o] = v6[o]
    BY <1>5, <1>a, <2>1 DEF TW!TypeOK, TW!Goto, TW!Caught
  <2>4. v7'[p] /\ (v7'[o] <=> v7[o])
    BY <1>5, <1>a, <2>1 DEF TW!TypeOK, TW!Goto, TW!Caught
  <2>5. v3'[p] = IF v3[p] = "suspend" THEN "wait" ELSE v3[p]
    BY <1>5, <1>a, <2>1 DEF TW!TypeOK, TW!Goto, TW!Caught
  <2>6. UNCHANGED v9
    BY <1>5, <1>a, <2>1 DEF TW!TypeOK, TW!Goto, TW!Caught
  <2> QED BY <1>a, <1>b, <2>1, <2>2, <2>3, <2>4, <2>5, <2>6
      DEF Typed, TW!Locks, TW!Flag,
             TW!Notified, TW!Other, TW!Procs
<1>6. CASE TW!Clear(p)
  <2>1. v3[p] = "clear" /\ v3'[p] = "unmask" /\ ~v7'[p] /\ (v7'[o] <=> v7[o])
    BY <1>6, <1>a DEF TW!TypeOK, TW!Goto, TW!Clear, TW!ClearFlag
  <2>2. v3'[o] = v3[o]
    BY <1>6, <1>a DEF TW!TypeOK, TW!Goto, TW!Clear, TW!ClearFlag
  <2>3. UNCHANGED <<v6, v9>>
    BY <1>6, <1>a DEF TW!TypeOK, TW!Goto, TW!Clear, TW!ClearFlag
  <2> QED BY <1>a, <1>b, <2>1, <2>2, <2>3
      DEF Typed, TW!Locks, TW!Flag,
             TW!Notified, TW!Other, TW!Procs
<1>7. CASE TW!Unmask(p)
  <2>1. v3[p] = "unmask" /\ v3'[p] = "lock_other" /\ UNCHANGED <<v6, v7, v9>>
    BY <1>7, <1>a DEF TW!TypeOK, TW!Goto, TW!Unmask, TW!Waited
  <2>2. v3'[o] = v3[o]
    BY <1>7, <1>a DEF TW!TypeOK, TW!Goto, TW!Unmask, TW!Waited
  <2> QED BY <1>a, <1>b, <2>1, <2>2
      DEF Typed, TW!Locks, TW!Flag,
             TW!Notified, TW!Other, TW!Procs
<1>8. CASE TW!LockOwn(p)
  <2>1. v3[p] = "lock" /\ v3'[p] = "tell" /\ v9'[p] = p /\ v9'[o] = v9[o]
    BY <1>8, <1>a DEF TW!TypeOK, TW!Goto, TW!LockOwn
  <2>2. v3'[o] = v3[o]
    BY <1>8, <1>a DEF TW!TypeOK, TW!Goto, TW!LockOwn
  <2>3. UNCHANGED <<v6, v7>>
    BY <1>8, <1>a DEF TW!TypeOK, TW!Goto, TW!LockOwn
  <2> QED BY <1>a, <1>b, <2>1, <2>2, <2>3
      DEF Typed, TW!Locks, TW!Flag,
             TW!Notified, TW!Other, TW!Procs
<1>9. CASE TW!LockOther(p)
  <2>1. v3[p] = "lock_other" /\ UNCHANGED <<v6, v7>>
    BY <1>9, <1>a DEF TW!TypeOK, TW!Goto, TW!LockOther, TW!Exit
  <2>2. v3'[o] = v3[o]
    BY <1>9, <1>a DEF TW!TypeOK, TW!Goto, TW!LockOther, TW!Exit
  <2>3. \/ v9[o] = "none" /\ v3'[p] = "done" /\ Gone(p)
        \/ v9[o] # "none" /\ v3[o] # "blocked" /\ v3'[p] = "blocked" /\ v9' = v9
        \/ v9[o] # "none" /\ v3[o] = "blocked" /\ v3'[p] = "err_sys" /\ Gone(p)
    BY <1>9, <1>a DEF TW!TypeOK, TW!Goto, TW!LockOther, TW!Exit, Gone
  <2> QED BY <1>a, <1>b, <2>1, <2>2, <2>3
      DEF Typed, TW!Locks, TW!Flag,
             TW!Notified, TW!Other, TW!Procs, Gone
<1>10. CASE TW!Unblocked(p)
  <2>1. v3[p] = "blocked" /\ v9[o] = "none" /\ v3'[p] = "done" /\ Gone(p)
    BY <1>10, <1>a DEF TW!TypeOK, TW!Goto, TW!Unblocked, TW!Exit, Gone
  <2>2. v3'[o] = v3[o]
    BY <1>10, <1>a DEF TW!TypeOK, TW!Goto, TW!Unblocked, TW!Exit
  <2>3. UNCHANGED <<v6, v7>>
    BY <1>10, <1>a DEF TW!TypeOK, TW!Goto, TW!Unblocked, TW!Exit
  <2> QED BY <1>a, <1>b, <2>1, <2>2, <2>3
      DEF Typed, TW!Locks, TW!Flag,
             TW!Notified, TW!Other, TW!Procs, Gone
<1> QED BY <1>1, <1>2, <1>3, <1>4, <1>5, <1>6, <1>7, <1>8, <1>9, <1>10, <1>a, <1>b
  DEF TW!Step, TW!Update, TW!Locks

\* Nobody is told twice.
LEMMA ToldOnce ==
    ASSUME TW!TurnsInv, NEW p \in TW!Procs, v3[p] = "tell"
    PROVE  v6[TW!Other(p)] = 0
<1> DEFINE o == TW!Other(p)
<1>1. o \in TW!Procs /\ TW!Other(o) = p /\ v6[o] \in {0, 1} /\ v1 \in {"devzero", "deadlock"}
  BY TwoProcs DEF TW!TurnsInv, TW!TypeOK
<1>2. CASE v1 = "devzero"
  <2>1. TW!OneTurn
    BY <1>2 DEF TW!TurnsInv
  <2>2. TW!HasTurn(p)
    BY DEF TW!HasTurn
  <2>3. ~TW!HasTurn(o)
    BY <2>1, <2>2, TwoProcs DEF TW!OneTurn
  <2> QED BY <1>1, <2>3 DEF TW!HasTurn, TW!Notified
<1>3. CASE v1 = "deadlock"
  <2>1. TW!Locks(o)
    BY <1>1, <1>3 DEF TW!TurnsInv
  <2>2. ~TW!Notified(o)
    BY <1>1, <2>1 DEF TW!Locks
  <2> QED BY <1>1, <2>2 DEF TW!Notified
<1> QED BY <1>1, <1>2, <1>3

LEMMA TurnsTyped ==
    ASSUME TW!TurnsInv, NEW p \in TW!Procs, TW!Step(p)
    PROVE  TW!TypeOK' /\ v1' = v1
<1> DEFINE o == TW!Other(p)
<1>a. TW!TypeOK /\ o \in TW!Procs /\ NLOOPS \in Nat
  BY TwoProcs, ProgramsAssumption DEF TW!TurnsInv
<1> USE <1>a DEF TW!TypeOK, TW!Goto
<1>1. CASE TW!Tell(p)
  <2>1. v6[o] = 0
    BY <1>1, ToldOnce DEF TW!Tell
  <2>2. v6' \in [TW!Procs -> {0, 1}]
    BY <1>1, <2>1 DEF TW!Tell
  <2> QED BY <1>1, <2>2 DEF TW!Tell, TW!Turn
<1>2. CASE TW!WaitPipe(p)
  <2>1. v6[p] \in {0, 1} /\ v6[p] > 0
    BY <1>2 DEF TW!WaitPipe
  <2>2. v6[p] = 1
    BY <2>1
  <2>3. v6[p] - 1 = 0
    BY <2>2
  <2>4. v6' = [v6 EXCEPT ![p] = v6[p] - 1]
    BY <1>2 DEF TW!WaitPipe
  <2>5. v6' \in [TW!Procs -> {0, 1}]
    BY <2>3, <2>4
  <2> QED BY <1>2, <2>5 DEF TW!WaitPipe, TW!Waited, TW!Turn
<1>3. CASE TW!TestFlag(p)
  BY <1>3 DEF TW!TestFlag
<1>4. CASE TW!Sigsuspend(p)
  BY <1>4 DEF TW!Sigsuspend
<1>5. CASE TW!Caught(p)
  BY <1>5 DEF TW!Caught
<1>6. CASE TW!Clear(p)
  BY <1>6 DEF TW!Clear, TW!ClearFlag
<1>7. CASE TW!Unmask(p)
  BY <1>7 DEF TW!Unmask, TW!Waited, TW!Turn
<1>8. CASE TW!Update(p)
  BY <1>8 DEF TW!Update
<1>9. CASE TW!LockOwn(p)
  BY <1>9 DEF TW!LockOwn
<1>10. CASE TW!LockOther(p)
  BY <1>10 DEF TW!LockOther, TW!Exit
<1>11. CASE TW!Unblocked(p)
  BY <1>11 DEF TW!Unblocked, TW!Exit
<1> QED BY <1>1, <1>2, <1>3, <1>4, <1>5, <1>6, <1>7, <1>8, <1>9, <1>10, <1>11 DEF TW!Step

LEMMA TurnsNext == TW!TurnsInv /\ TW!Next => TW!TurnsInv'
<1> SUFFICES ASSUME TW!TurnsInv, NEW p \in TW!Procs, TW!Step(p) PROVE TW!TurnsInv'
  BY DEF TW!Next
<1>1. TW!TypeOK' /\ v1' = v1 /\ v1 \in {"devzero", "deadlock"}
  BY TurnsTyped DEF TW!TurnsInv, TW!TypeOK
<1>2. CASE v1 = "devzero"
  <2>1. TW!OneTurn' /\ TW!Flag(p)' /\ TW!Flag(TW!Other(p))'
    BY <1>2, TurnsHandedOn
  <2>2. \A q \in TW!Procs : TW!Flag(q)'
    BY <2>1, TwoProcs
  <2> QED BY <1>1, <1>2, <2>1, <2>2 DEF TW!TurnsInv
<1>3. CASE v1 = "deadlock"
  <2>1. \A q \in TW!Procs : TW!Locks(q)' /\ TW!Flag(q)'
    BY <1>3, BothLockedStep
  <2> QED BY <1>1, <1>3, <2>1 DEF TW!TurnsInv
<1> QED BY <1>1, <1>2, <1>3

LEMMA TurnsSafe == TW!TurnsInv => TW!TurnsAlternate
<1> SUFFICES ASSUME TW!TurnsInv PROVE TW!TurnsAlternate
  OBVIOUS
<1>1. v1 \in {"devzero", "deadlock"}
  BY DEF TW!TurnsInv, TW!TypeOK
<1>2. CASE v1 = "devzero"
  BY <1>2, TwoProcs, ProgramsAssumption
  DEF TW!TurnsInv, TW!OneTurn, TW!HasTurn, TW!Waiting, TW!Notified, TW!TypeOK,
      TW!TurnsAlternate
<1>3. CASE v1 = "deadlock"
  BY <1>3, TwoProcs DEF TW!TurnsInv, TW!Locks, TW!Notified, TW!TurnsAlternate
<1> QED BY <1>1, <1>2, <1>3

\* Parent and child take turns, and of the two in the circle one is refused
\* (WAIT_PARENT and WAIT_CHILD of devzero.c and deadlock.c), for any number of turns.
THEOREM TurnsAreAlternate == Spec => []TurnsAlternate
<1> DEFINE TurnsHold == which = "tellwait" => TW!TurnsInv
<1>1. Init => TurnsHold
  BY TurnsInit DEF Init
<1>2. TurnsHold /\ [Next]_vars => TurnsHold'
  <2>1. CASE Next
    BY <2>1, TurnsNext DEF Next
  <2>2. CASE UNCHANGED vars
    <3>1. /\ UNCHANGED <<which, v1, v2, v3, v4, v5, v6, v7, v8, v9>>
      BY <2>2 DEF vars
    <3> QED BY <3>1 DEF TW!TurnsInv, TW!TypeOK, TW!Flag, TW!OneTurn, TW!HasTurn, TW!Waiting,
                TW!Notified, TW!Locks, TW!Other, TW!Procs
  <2> QED BY <2>1, <2>2
<1>3. TurnsHold => TurnsAlternate
  BY TurnsSafe DEF TurnsAlternate
<1> QED BY <1>1, <1>2, <1>3, PTL DEF Spec

(***************************************************************************)
(* Numbers of elements.                                                     *)
(***************************************************************************)

\* A subset of a finite set, and one more or less.
LEMMA SubsetCards ==
    ASSUME NEW T, IsFiniteSet(T), NEW S \in SUBSET T
    PROVE  /\ IsFiniteSet(S) /\ Cardinality(S) \in Nat /\ Cardinality(S) <= Cardinality(T)
           /\ Cardinality(S) = 0 <=> S = {}
           /\ \A x \in T \ S : /\ Cardinality(S \cup {x}) = Cardinality(S) + 1
                               /\ Cardinality(S) < Cardinality(T)
           /\ \A x \in S : Cardinality(S \ {x}) = Cardinality(S) - 1
<1>1. IsFiniteSet(S) /\ Cardinality(S) <= Cardinality(T)
  BY FS_Subset
<1>2. Cardinality(S) \in Nat /\ Cardinality(T) \in Nat
  BY <1>1, FS_CardinalityType
<1>3. Cardinality(S) = 0 <=> S = {}
  BY <1>1, FS_EmptySet
<1>4. ASSUME NEW x \in T \ S
      PROVE  Cardinality(S \cup {x}) = Cardinality(S) + 1 /\ Cardinality(S) < Cardinality(T)
  <2>1. Cardinality(S \cup {x}) = Cardinality(S) + 1
    BY <1>1, FS_AddElement
  <2>2. S \cup {x} \in SUBSET T
    OBVIOUS
  <2>3. Cardinality(S \cup {x}) <= Cardinality(T)
    BY <2>2, FS_Subset
  <2> QED BY <2>1, <2>3, <1>2
<1>5. ASSUME NEW x \in S PROVE Cardinality(S \ {x}) = Cardinality(S) - 1
  BY <1>1, FS_RemoveElement
<1> QED BY <1>1, <1>2, <1>3, <1>4, <1>5

(***************************************************************************)
(* The semaphore library.                                                   *)
(***************************************************************************)

LEMMA SemCardinality == \A S : SE!Cardinality(S) = Cardinality(S)
BY DEF SE!Cardinality, Cardinality

LEMMA SemConstants ==
    /\ IsFiniteSet(SemProcs) /\ BIGCOUNT \in Nat /\ BIGCOUNT >= SE!Cardinality(SemProcs)
    /\ InitVal \in Nat /\ MaxSets \in Nat /\ MaxExits \in Nat
BY ProgramsAssumption, SemCardinality

LEMMA SemInit == SE!Init => SE!SemInv
<1> SUFFICES ASSUME SE!Init PROVE SE!SemInv
  OBVIOUS
<1>1. SE!TypeOK
  BY DEF SE!Init, SE!TypeOK, SE!NoUndo
<1>2. ASSUME NEW p \in SemProcs PROVE SE!Adjusted(p) /\ ~SE!Locked(p)
  <2>1. v6[p] = "out" /\ v4[p][1] = 0 /\ v4[p][2] = 0 /\ v4[p][3] = 0
    BY DEF SE!Init, SE!NoUndo
  <2> QED BY <2>1 DEF SE!Adjusted, SE!Took, SE!Locked, SE!Users
<1> QED BY <1>1, <1>2 DEF SE!SemInv, SE!Init

\* What an operation does to the values and to the adjust values.
LEMMA SemopMoves ==
    ASSUME SE!TypeOK, NEW p \in SemProcs, NEW a \in Int, NEW b \in Int, NEW c \in Int,
           SE!Semop(p, <<a, b, c>>)
    PROVE  /\ v3' \in [1 .. 3 -> Int] /\ v4' \in [SemProcs -> [1 .. 3 -> Int]]
           /\ v3'[1] = v3[1] + a /\ v3'[2] = v3[2] + b /\ v3'[3] = v3[3] + c
           /\ v4'[p][1] = v4[p][1] - a /\ v4'[p][2] = v4[p][2] - b
           /\ v4'[p][3] = v4[p][3] - c
           /\ \A q \in SemProcs \ {p} : v4'[q] = v4[q]
<1> USE DEF SE!TypeOK, SE!Semop
<1>1. \A k \in 1 .. 3 : <<a, b, c>>[k] \in Int
  OBVIOUS
<1>2. v3' \in [1 .. 3 -> Int]
  BY <1>1
<1>3. [k \in 1 .. 3 |-> v4[p][k] - <<a, b, c>>[k]] \in [1 .. 3 -> Int]
  BY <1>1
<1>4. v4'[p] = [k \in 1 .. 3 |-> v4[p][k] - <<a, b, c>>[k]]
  OBVIOUS
<1>5. v4' \in [SemProcs -> [1 .. 3 -> Int]]
  BY <1>3
<1>6. v3'[1] = v3[1] + a /\ v3'[2] = v3[2] + b /\ v3'[3] = v3[3] + c
  OBVIOUS
<1>7. /\ v4'[p][1] = v4[p][1] - a /\ v4'[p][2] = v4[p][2] - b
      /\ v4'[p][3] = v4[p][3] - c
  BY <1>4
<1> QED BY <1>2, <1>5, <1>6, <1>7

LEMMA SemType ==
    ASSUME SE!TypeOK, NEW p \in SemProcs, SE!Step(p) \/ SE!Call(p)
    PROVE  SE!TypeOK'
<1> USE SemConstants DEF SE!Goto
<1> DEFINE Zero == SE!NoUndo \in [1 .. 3 -> Int]
<1>1. Zero /\ <<0, 0, 0>> \in [1 .. 3 -> Int]
  BY DEF SE!NoUndo
<1>2. CASE SE!CreateGet(p) \/ SE!OpenGet(p)
  BY <1>2, <1>1 DEF SE!TypeOK, SE!CreateGet, SE!OpenGet
<1>3. CASE SE!CreateCount(p) \/ SE!CreateSetCount(p)
  <2>1. v3' \in [1 .. 3 -> Int] /\ v4' \in [SemProcs -> [1 .. 3 -> Int]]
    <3>1. CASE SE!CreateCount(p)
      BY <3>1 DEF SE!TypeOK, SE!CreateCount
    <3>2. CASE SE!CreateSetCount(p)
      BY <3>2 DEF SE!TypeOK, SE!CreateSetCount
    <3> QED BY <1>3, <3>1, <3>2
  <2>2. UNCHANGED <<v1, v2, v5, v7>>
        /\ v6' \in [SemProcs -> {"out", "lock", "asleep", "count", "setcount", "endcreate", "open",
                         "in", "critical", "close", "rm", "dead"}]
    BY <1>3 DEF SE!TypeOK, SE!CreateCount, SE!CreateSetCount
  <2> QED BY <2>1, <2>2 DEF SE!TypeOK
<1>4. CASE SE!Exit(p)
  <2>1. v3' \in [1 .. 3 -> Int]
    BY <1>4 DEF SE!TypeOK, SE!Exit, SE!Undone
  <2>2. v4' \in [SemProcs -> [1 .. 3 -> Int]]
    BY <1>4, <1>1 DEF SE!TypeOK, SE!Exit, SE!Dies
  <2> QED BY <1>4, <2>1, <2>2 DEF SE!TypeOK, SE!Exit, SE!Dies
<1>5. CASE SE!SemRm(p)
  BY <1>5, <1>1 DEF SE!TypeOK, SE!SemRm
<1>6. ASSUME SE!CreateLock(p) \/ SE!CreateWake(p) \/ SE!CreateEnd(p) \/ SE!Open(p) \/ SE!CloseLock(p)
               \/ SE!CloseCount(p) \/ SE!SemWait(p) \/ SE!SemSignal(p)
      PROVE  SE!TypeOK'
  <2>1. /\ UNCHANGED <<v1, v2, v5, v7>>
        /\ v6' \in [SemProcs -> {"out", "lock", "asleep", "count", "setcount", "endcreate", "open",
                         "in", "critical", "close", "rm", "dead"}]
    BY <1>6 DEF SE!TypeOK, SE!CreateLock, SE!CreateWake, SE!CreateEnd, SE!Open, SE!CloseLock, SE!CloseCount,
               SE!SemWait, SE!SemSignal, SE!Dies
  <2>2. ASSUME NEW a \in Int, NEW b \in Int, NEW c \in Int, SE!Semop(p, <<a, b, c>>)
        PROVE  v3' \in [1 .. 3 -> Int] /\ v4' \in [SemProcs -> [1 .. 3 -> Int]]
    BY <2>2, SemopMoves
  <2>3. SE!Dies(p) => v4' \in [SemProcs -> [1 .. 3 -> Int]]
    BY <1>1 DEF SE!TypeOK, SE!Dies
  <2>4. SE!Undone(p) \in [1 .. 3 -> Int]
    BY DEF SE!TypeOK, SE!Undone
  <2>5. v3' \in [1 .. 3 -> Int] /\ v4' \in [SemProcs -> [1 .. 3 -> Int]]
    BY <1>6, <2>2, <2>3, <2>4
    DEF SE!TypeOK, SE!CreateLock, SE!CreateWake, SE!CreateEnd, SE!Open, SE!CloseLock, SE!CloseCount,
        SE!SemWait, SE!SemSignal
  <2> QED BY <2>1, <2>5 DEF SE!TypeOK
<1> QED BY <1>2, <1>3, <1>4, <1>5, <1>6 DEF SE!Step, SE!Call

\* A step of p with the set as it is: who is in it is as before, but for p.
LEMMA SemMoves ==
    ASSUME SE!TypeOK, NEW p \in SemProcs, v1' = v1, v5' = v5,
           \A q \in SemProcs \ {p} : v6'[q] = v6[q]
    PROVE  /\ \A q \in SemProcs : SE!Gone(q)' <=> SE!Gone(q)
           /\ \A q \in SemProcs \ {p} : SE!Locked(q)' <=> SE!Locked(q)
           /\ \A q \in SemProcs \ {p} : q \in SE!Users' <=> q \in SE!Users
           /\ SE!HereUsers' = IF v6'[p] \in {"in", "critical"} /\ ~SE!Gone(p)
                             THEN SE!HereUsers \cup {p} ELSE SE!HereUsers \ {p}
           /\ SE!HereCritical' = IF v6'[p] = "critical" /\ ~SE!Gone(p)
                                THEN SE!HereCritical \cup {p} ELSE SE!HereCritical \ {p}
BY DEF SE!Gone, SE!Locked, SE!Users, SE!HereUsers, SE!HereCritical

\* The numbers of those in it.
LEMMA SemCards ==
    ASSUME NEW p \in SemProcs
    PROVE  /\ SE!Cardinality(SE!HereUsers) \in Nat /\ SE!Cardinality(SE!HereCritical) \in Nat
           /\ SE!Cardinality(SE!HereUsers) = 0 <=> SE!HereUsers = {}
           /\ SE!HereUsers = {} => SE!HereCritical = {} /\ SE!Cardinality(SE!HereCritical) = 0
           /\ p \in SE!HereUsers => /\ SE!HereUsers \cup {p} = SE!HereUsers
                                 /\ SE!Cardinality(SE!HereUsers \ {p}) = SE!Cardinality(SE!HereUsers) - 1
           /\ p \notin SE!HereUsers => /\ SE!HereUsers \ {p} = SE!HereUsers
                                    /\ SE!Cardinality(SE!HereUsers \cup {p}) =
                                          SE!Cardinality(SE!HereUsers) + 1
                                    /\ SE!Cardinality(SE!HereUsers) < BIGCOUNT
           /\ p \in SE!HereCritical => /\ SE!HereCritical \cup {p} = SE!HereCritical
                                    /\ SE!Cardinality(SE!HereCritical \ {p}) =
                                          SE!Cardinality(SE!HereCritical) - 1
           /\ p \notin SE!HereCritical =>
                 /\ SE!HereCritical \ {p} = SE!HereCritical
                 /\ SE!Cardinality(SE!HereCritical \cup {p}) = SE!Cardinality(SE!HereCritical) + 1
<1>1. SE!HereUsers \in SUBSET SemProcs /\ SE!HereCritical \in SUBSET SemProcs
  BY DEF SE!HereUsers, SE!HereCritical, SE!Users
<1>2. SE!HereCritical \subseteq SE!HereUsers
  BY DEF SE!HereUsers, SE!HereCritical, SE!Users
<1>3. IsFiniteSet(SemProcs) /\ SE!Cardinality(SemProcs) \in Nat
  BY SemConstants, SemCardinality, FS_CardinalityType
<1>4. /\ SE!Cardinality(SE!HereUsers) \in Nat
      /\ SE!Cardinality(SE!HereUsers) = 0 <=> SE!HereUsers = {}
      /\ \A x \in SemProcs \ SE!HereUsers :
            /\ SE!Cardinality(SE!HereUsers \cup {x}) = SE!Cardinality(SE!HereUsers) + 1
            /\ SE!Cardinality(SE!HereUsers) < SE!Cardinality(SemProcs)
      /\ \A x \in SE!HereUsers : SE!Cardinality(SE!HereUsers \ {x}) = SE!Cardinality(SE!HereUsers) - 1
  BY <1>1, <1>3, SubsetCards, SemCardinality
<1>5. /\ SE!Cardinality(SE!HereCritical) \in Nat
      /\ SE!Cardinality(SE!HereCritical) = 0 <=> SE!HereCritical = {}
      /\ \A x \in SemProcs \ SE!HereCritical :
            SE!Cardinality(SE!HereCritical \cup {x}) = SE!Cardinality(SE!HereCritical) + 1
      /\ \A x \in SE!HereCritical : SE!Cardinality(SE!HereCritical \ {x}) =
            SE!Cardinality(SE!HereCritical) - 1
  BY <1>1, <1>3, SubsetCards, SemCardinality
<1>6. ASSUME p \notin SE!HereUsers PROVE SE!Cardinality(SE!HereUsers) < BIGCOUNT
  <2>1. SE!Cardinality(SE!HereUsers) < SE!Cardinality(SemProcs)
    BY <1>4, <1>6
  <2>2. SE!Cardinality(SemProcs) <= BIGCOUNT /\ BIGCOUNT \in Nat
    BY SemConstants, <1>3
  <2> QED BY <2>1, <2>2, <1>3, <1>4
<1> QED BY <1>1, <1>2, <1>4, <1>5, <1>6

\* Who does not move keeps what it has.
LEMMA SemOthers ==
    ASSUME SE!SemInv, NEW p \in SemProcs, v1' = v1, v5' = v5,
           \A q \in SemProcs \ {p} : v6'[q] = v6[q] /\ v4'[q] = v4[q],
           NEW q \in SemProcs \ {p}
    PROVE  SE!Adjusted(q)'
<1>1. SE!Gone(q)' <=> SE!Gone(q)
  BY DEF SE!Gone
<1>2. SE!Locked(q)' <=> SE!Locked(q)
  BY DEF SE!Locked
<1>3. q \in SE!Users' <=> q \in SE!Users
  BY DEF SE!Users
<1>4. \A a, b, c : SE!Took(q, a, b, c)' <=> SE!Took(q, a, b, c)
  BY DEF SE!Took
<1> QED BY <1>1, <1>2, <1>3, <1>4 DEF SE!SemInv, SE!Adjusted

\* A set that somebody has the lock of, or uses, is there.
LEMMA SemThere ==
    ASSUME SE!SemInv, NEW p \in SemProcs
    PROVE  /\ v6[p] \notin {"out", "dead"} /\ ~SE!Gone(p) => v1 # 0
           /\ SE!Locked(p) => /\ v1 # 0 /\ SE!Counted /\ v3[3] = 1
                           /\ \A q \in SemProcs \ {p} : ~SE!Locked(q)
           /\ p \in SE!HereUsers => v1 # 0 /\ SE!Counted /\ SE!Ready
           /\ v1 # 0 /\ v3[3] = 0 => \A q \in SemProcs : ~SE!Locked(q)
<1>1. v6[p] \notin {"out", "dead"} /\ ~SE!Gone(p) => v1 # 0
  BY DEF SE!SemInv, SE!Adjusted, SE!Gone
<1>2. ASSUME SE!Locked(p)
      PROVE  v1 # 0 /\ SE!Counted /\ v3[3] = 1 /\ \A q \in SemProcs \ {p} : ~SE!Locked(q)
  <2>1. v1 # 0
    BY <1>2 DEF SE!SemInv, SE!Adjusted, SE!Gone, SE!Locked
  <2> QED BY <2>1, <1>2 DEF SE!SemInv, SE!Counted
<1>3. p \in SE!HereUsers => v1 # 0 /\ SE!Counted /\ SE!Ready
  BY <1>1 DEF SE!SemInv, SE!HereUsers, SE!Users, SE!Counted, SE!Blank
<1>4. v1 # 0 /\ v3[3] = 0 => \A q \in SemProcs : ~SE!Locked(q)
  BY DEF SE!SemInv, SE!Counted
<1> QED BY <1>1, <1>2, <1>3, <1>4

\* A step of p that leaves the set: what is to show of p itself.
LEMMA SemOnly ==
    ASSUME SE!SemInv, NEW p \in SemProcs, SE!TypeOK', v1' = v1, v5' = v5,
           \A q \in SemProcs \ {p} : v6'[q] = v6[q] /\ v4'[q] = v4[q],
           SE!Adjusted(p)', SE!Locked(p)' => SE!Locked(p) \/ (v1 # 0 /\ v3[3] = 0),
           v1 # 0 => SE!Counted'
    PROVE  SE!SemInv'
<1>1. \A q \in SemProcs \ {p} : SE!Locked(q)' <=> SE!Locked(q)
  BY DEF SE!Locked
<1>2. \A q \in SemProcs : SE!Adjusted(q)'
  BY SemOthers
<1>3. \A q, r \in SemProcs : SE!Locked(q)' /\ SE!Locked(r)' => q = r
  <2>1. SE!Locked(p)' => \A q \in SemProcs \ {p} : ~SE!Locked(q)
    BY SemThere
  <2> QED BY <1>1, <2>1 DEF SE!SemInv
<1> QED BY <1>2, <1>3 DEF SE!SemInv

\* A set without users stays blank, or one with its numbers right.
LEMMA SemCounts ==
    ASSUME SE!SemInv, NEW p \in SemProcs, SE!TypeOK', v1' = v1, v5' = v5, v1 # 0,
           \A q \in SemProcs \ {p} : v6'[q] = v6[q],
           v3'[3] = IF SE!Locked(p)' \/ \E q \in SemProcs \ {p} : SE!Locked(q) THEN 1 ELSE 0,
           \/ /\ SE!Blank => SE!Blank' /\ v3'[1] = v3[1]
              /\ SE!Ready => SE!Ready'
              /\ SE!HereUsers' \subseteq SE!HereUsers \cup SemOpeners
           \/ (SE!Blank' \/ SE!Ready') /\ \A q \in SemProcs \ {p} : ~SE!Locked(q),
           v6'[p] = "setcount" => SE!Blank' /\ v3'[1] = InitVal,
           v6'[p] \in {"endcreate", "close", "rm"} => SE!Ready',
           v6'[p] = "rm" => SE!HereUsers' \subseteq SemOpeners
    PROVE  SE!Counted'
<1>1. \A q \in SemProcs \ {p} : SE!Locked(q)' <=> SE!Locked(q)
  BY DEF SE!Locked
<1>2. v3'[3] = IF \E q \in SemProcs : SE!Locked(q)' THEN 1 ELSE 0
  BY <1>1
<1>3. SE!Counted
  BY DEF SE!SemInv
<1>5. ASSUME NEW q \in SemProcs \ {p}, SE!Locked(q)
      PROVE  /\ v6[q] = "setcount" => SE!Blank' /\ v3'[1] = InitVal
             /\ v6[q] \in {"endcreate", "close", "rm"} => SE!Ready'
             /\ v6[q] = "rm" => SE!HereUsers' \subseteq SemOpeners
  <2>1. /\ v6[q] = "setcount" => SE!Blank /\ v3[1] = InitVal
        /\ v6[q] \in {"endcreate", "close", "rm"} => SE!Ready
        /\ v6[q] = "rm" => SE!HereUsers \subseteq SemOpeners
    BY <1>3 DEF SE!Counted
  <2> QED BY <2>1, <1>5
<1>6. SE!Blank' \/ SE!Ready'
  BY <1>3 DEF SE!Counted
<1> QED BY <1>2, <1>5, <1>6 DEF SE!Counted, SE!Locked

\* Who is not in the set, before or after, does not change who is.
LEMMA SemSame ==
    ASSUME SE!SemInv, NEW p \in SemProcs, v1' = v1, v5' = v5,
           \A q \in SemProcs \ {p} : v6'[q] = v6[q],
           SE!Gone(p) \/ (v6[p] \notin {"in", "critical"} /\ v6'[p] \notin {"in", "critical"}),
           v3'[1] = v3[1], v3'[2] = v3[2]
    PROVE  SE!HereUsers' = SE!HereUsers /\ (SE!Blank' <=> SE!Blank) /\ (SE!Ready' <=> SE!Ready)
<1>1. SE!HereUsers' = SE!HereUsers /\ SE!HereCritical' = SE!HereCritical
  <2>1. p \notin SE!HereUsers /\ p \notin SE!HereCritical
    BY DEF SE!HereUsers, SE!HereCritical, SE!Users
  <2>2. SE!HereUsers' = SE!HereUsers \ {p} /\ SE!HereCritical' = SE!HereCritical \ {p}
    BY SemMoves DEF SE!SemInv
  <2> QED BY <2>1, <2>2
<1> QED BY <1>1 DEF SE!Blank, SE!Ready

\* The set is gone, or the process ends before it has anything of it.
LEMMA SemGoneStep ==
    ASSUME SE!SemInv, NEW p \in SemProcs, SE!TypeOK', v1' = v1, v5' = v5, v3' = v3,
           \A q \in SemProcs \ {p} : v6'[q] = v6[q] /\ v4'[q] = v4[q],
           v6'[p] \in {"out", "dead", "asleep"}, SE!Took(p, 0, 0, 0)',
           v6'[p] = "asleep" => v5[p] # 0,
           SE!Gone(p) \/ v6[p] \in {"lock", "asleep", "open"}
    PROVE  SE!SemInv'
<1>1. ~SE!Locked(p) /\ ~SE!Locked(p)'
  BY DEF SE!SemInv, SE!Adjusted, SE!Locked
<1>2. SE!Adjusted(p)'
  BY <1>1 DEF SE!Adjusted, SE!Users, SE!Locked
<1>3. SE!HereUsers' = SE!HereUsers /\ (SE!Blank' <=> SE!Blank) /\ (SE!Ready' <=> SE!Ready)
  BY SemSame
<1>4. ASSUME v1 # 0 PROVE SE!Counted'
  <2>1. v3[3] = IF \E q \in SemProcs \ {p} : SE!Locked(q) THEN 1 ELSE 0
    BY <1>1, <1>4 DEF SE!SemInv, SE!Counted
  <2> QED BY <1>1, <1>3, <1>4, <2>1, SemCounts
<1> QED BY <1>1, <1>2, <1>4, SemOnly

\* semop(op_lock)
LEMMA SemLockStep ==
    ASSUME SE!SemInv, NEW p \in SemProcs, SE!TypeOK', v1' = v1, v5' = v5, ~SE!Gone(p),
           v6[p] \in {"lock", "asleep"}, v3[3] = 0, SE!Semop(p, <<0, 0, 1>>), SE!Goto(p, "count")
    PROVE  SE!SemInv'
<1> SE!TypeOK /\ SE!Adjusted(p)
  BY DEF SE!SemInv
<1>1. /\ v3'[1] = v3[1] /\ v3'[2] = v3[2] /\ v3'[3] = 1
      /\ v4'[p][1] = v4[p][1] /\ v4'[p][2] = v4[p][2]
      /\ v4'[p][3] = v4[p][3] - 1
      /\ \A q \in SemProcs \ {p} : v4'[q] = v4[q]
  <2>1. v3[1] \in Int /\ v3[2] \in Int /\ v4[p][1] \in Int /\ v4[p][2] \in Int
    BY DEF SE!TypeOK
  <2> QED BY <2>1, SemopMoves
<1>2. v6'[p] = "count" /\ \A q \in SemProcs \ {p} : v6'[q] = v6[q]
  BY DEF SE!TypeOK, SE!Goto
<1>3. SE!Took(p, 0, 0, 1)'
  BY <1>1 DEF SE!Adjusted, SE!Took
<1>4. v1 # 0 /\ \A q \in SemProcs : ~SE!Locked(q)
  BY SemThere
<1>5. SE!Adjusted(p)' /\ SE!Locked(p)'
  BY <1>2, <1>3 DEF SE!Adjusted, SE!Locked, SE!Users, SE!Gone
<1>6. SE!HereUsers' = SE!HereUsers /\ (SE!Blank' <=> SE!Blank) /\ (SE!Ready' <=> SE!Ready)
  BY <1>1, <1>2, SemSame
<1>7. SE!Counted'
  BY <1>1, <1>2, <1>4, <1>5, <1>6, SemCounts DEF SE!SemInv, SE!Counted
<1> QED BY <1>1, <1>2, <1>4, <1>5, <1>7, SemOnly

\* The first to create the semaphore sets its value, then the counter.
LEMMA SemCountStep ==
    ASSUME SE!SemInv, NEW p \in SemProcs, SE!TypeOK', SE!CreateCount(p)
    PROVE  SE!SemInv'
<1> SE!TypeOK /\ SE!Adjusted(p) /\ SE!Locked(p) /\ p \notin SE!HereUsers
  BY DEF SE!SemInv, SE!CreateCount, SE!Locked, SE!HereUsers, SE!Users
<1>1. v1 # 0 /\ SE!Counted /\ v3[3] = 1 /\ \A q \in SemProcs \ {p} : ~SE!Locked(q)
  BY SemThere
<1>2. ~SE!Gone(p) /\ SE!Took(p, 0, 0, 1) /\ v5[p] # 0
  BY DEF SE!Adjusted, SE!Locked
<1>3. /\ v1' = v1 /\ v5' = v5 /\ v6[p] = "count"
      /\ v6'[p] \in {"setcount", "endcreate"} /\ \A q \in SemProcs \ {p} : v6'[q] = v6[q]
  BY DEF SE!CreateCount, SE!Goto, SE!TypeOK
<1>4. SE!Locked(p)' /\ ~SE!Gone(p)'
  BY <1>2, <1>3 DEF SE!Locked, SE!Gone
<1>5. CASE v3[2] = 0
  <2>1. /\ v3'[1] = InitVal /\ v3'[2] = v3[2] /\ v3'[3] = v3[3]
        /\ v4' = [q \in SemProcs |-> [v4[q] EXCEPT ![1] = 0]] /\ v6'[p] = "setcount"
    BY <1>5 DEF SE!CreateCount, SE!Goto, SE!TypeOK
  <2>2. ~SE!Ready
    <3>1. SE!Cardinality(SE!HereUsers) \in Nat /\ SE!Cardinality(SE!HereUsers) < BIGCOUNT
      BY SemCards
    <3>2. BIGCOUNT \in Nat
      BY SemConstants
    <3> QED BY <1>5, <3>1, <3>2 DEF SE!Ready
  <2>3. SE!Blank
    BY <1>1, <2>2 DEF SE!Counted
  <2>4. SE!HereUsers' = SE!HereUsers
    BY <1>3, SemMoves
  <2>5. SE!Blank'
    BY <2>1, <2>3, <2>4 DEF SE!Blank
  <2>6. ASSUME NEW q \in SemProcs
        PROVE  /\ v4'[q][1] = 0 /\ v4'[q][2] = v4[q][2] /\ v4'[q][3] = v4[q][3]
    BY <2>1 DEF SE!TypeOK
  <2>7. SE!Adjusted(p)'
    BY <1>2, <1>3, <2>1, <2>6 DEF SE!Adjusted, SE!Took, SE!Users, SE!Gone
  <2>8. ASSUME NEW q \in SemProcs \ {p} PROVE SE!Adjusted(q)'
    <3>1. SE!Adjusted(q) /\ ~SE!Locked(q) /\ (SE!Gone(q)' <=> SE!Gone(q))
      BY <1>1, <1>3 DEF SE!SemInv, SE!Gone
    <3>2. q \notin SE!HereUsers
      BY <2>3 DEF SE!Blank
    <3>3. SE!Took(q, 0, 0, 0) => SE!Took(q, 0, 0, 0)'
      BY <2>6 DEF SE!Took
    <3> QED BY <1>3, <3>1, <3>2, <3>3 DEF SE!Adjusted, SE!Users, SE!HereUsers, SE!Locked
  <2>9. SE!Counted'
    BY <1>1, <1>3, <1>4, <2>1, <2>5, SemCounts
  <2> QED BY <1>1, <1>3, <2>7, <2>8, <2>9 DEF SE!SemInv, SE!Locked
<1>6. CASE v3[2] # 0
  <2>1. UNCHANGED <<v3, v4>> /\ v6'[p] = "endcreate"
    BY <1>6 DEF SE!CreateCount, SE!Goto, SE!TypeOK
  <2>2. SE!Ready /\ SE!Ready'
    BY <1>1, <1>3, <1>6, <2>1, SemSame DEF SE!Counted, SE!Blank
  <2>3. SE!Adjusted(p)'
    BY <1>2, <1>3, <2>1 DEF SE!Adjusted, SE!Took, SE!Users, SE!Gone
  <2>4. SE!Counted'
    BY <1>1, <1>3, <1>4, <2>1, <2>2, SemCounts
  <2> QED BY <1>1, <1>3, <1>4, <2>1, <2>3, <2>4, SemOnly
<1> QED BY <1>5, <1>6

LEMMA SemSetCountStep ==
    ASSUME SE!SemInv, NEW p \in SemProcs, SE!TypeOK', SE!CreateSetCount(p)
    PROVE  SE!SemInv'
<1> SE!TypeOK /\ SE!Adjusted(p) /\ SE!Locked(p)
  BY DEF SE!SemInv, SE!CreateSetCount, SE!Locked
<1>1. v1 # 0 /\ SE!Counted /\ v3[3] = 1 /\ \A q \in SemProcs \ {p} : ~SE!Locked(q)
  BY SemThere
<1>2. ~SE!Gone(p) /\ SE!Took(p, 0, 0, 1) /\ v5[p] # 0
  BY DEF SE!Adjusted, SE!Locked
<1>3. /\ v1' = v1 /\ v5' = v5 /\ v6[p] = "setcount"
      /\ v6'[p] = "endcreate" /\ \A q \in SemProcs \ {p} : v6'[q] = v6[q]
  BY DEF SE!CreateSetCount, SE!Goto, SE!TypeOK
<1>4. SE!Locked(p)' /\ ~SE!Gone(p)'
  BY <1>2, <1>3 DEF SE!Locked, SE!Gone
<1>5. /\ v3'[1] = v3[1] /\ v3'[2] = BIGCOUNT /\ v3'[3] = v3[3]
      /\ v4' = [q \in SemProcs |-> [v4[q] EXCEPT ![2] = 0]]
  BY DEF SE!CreateSetCount, SE!TypeOK
<1>6. SE!Blank /\ v3[1] = InitVal
  BY <1>1, <1>3 DEF SE!Counted
<1>7. SE!HereUsers' = {} /\ SE!HereCritical' = {}
  <2>1. SE!HereUsers' = SE!HereUsers \ {p}
    BY <1>3, SemMoves
  <2>2. SE!HereCritical' \subseteq SE!HereUsers'
    BY DEF SE!HereUsers, SE!HereCritical, SE!Users
  <2> QED BY <2>1, <2>2, <1>6 DEF SE!Blank
<1>8. SE!Ready'
  <2>1. SE!Cardinality({}) = 0
    BY FS_EmptySet, SemCardinality
  <2> QED BY <1>5, <1>6, <1>7, <2>1, SemConstants DEF SE!Ready
<1>9. ASSUME NEW q \in SemProcs
      PROVE  v4'[q][1] = v4[q][1] /\ v4'[q][2] = 0 /\ v4'[q][3] = v4[q][3]
  BY <1>5 DEF SE!TypeOK
<1>10. SE!Adjusted(p)'
  BY <1>2, <1>3, <1>9 DEF SE!Adjusted, SE!Took, SE!Users, SE!Locked, SE!Gone
<1>11. ASSUME NEW q \in SemProcs \ {p} PROVE SE!Adjusted(q)'
  <2>1. SE!Adjusted(q) /\ ~SE!Locked(q) /\ (SE!Gone(q)' <=> SE!Gone(q))
    BY <1>1, <1>3 DEF SE!SemInv, SE!Gone
  <2>2. q \notin SE!HereUsers
    BY <1>6 DEF SE!Blank
  <2>3. SE!Took(q, 0, 0, 0) => SE!Took(q, 0, 0, 0)'
    BY <1>9 DEF SE!Took
  <2> QED BY <1>3, <2>1, <2>2, <2>3 DEF SE!Adjusted, SE!Users, SE!HereUsers, SE!Locked
<1>12. SE!Counted'
  BY <1>1, <1>3, <1>4, <1>5, <1>7, <1>8, SemCounts
<1> QED BY <1>1, <1>3, <1>10, <1>11, <1>12 DEF SE!SemInv, SE!Locked

\* sem_create and sem_open bring p in.
LEMMA SemInStep ==
    ASSUME SE!SemInv, NEW p \in SemProcs, SE!TypeOK', NEW lock \in {0, 1}, v1' = v1, v5' = v5,
           NEW b \in Int, NEW c \in Int, b = -1, c = 0 - lock,
           ~SE!Gone(p), SE!Semop(p, <<0, b, c>>), SE!Goto(p, "in"), SE!Took(p, 0, 0, lock),
           \/ v6[p] = "endcreate" /\ lock = 1
           \/ v6[p] = "open" /\ lock = 0 /\ v3[2] > 0
    PROVE  SE!SemInv'
<1> SE!TypeOK /\ SE!Adjusted(p)
  BY DEF SE!SemInv
<1>1. /\ v3'[1] = v3[1] /\ v3'[2] = v3[2] - 1 /\ v3'[3] = v3[3] - lock
      /\ v4'[p][1] = 0 /\ v4'[p][2] = 1 /\ v4'[p][3] = 0
      /\ \A q \in SemProcs \ {p} : v4'[q] = v4[q]
  <2>1. v3 \in [1 .. 3 -> Int]
    BY DEF SE!TypeOK
  <2>2. /\ v3'[1] = v3[1] + 0 /\ v3'[2] = v3[2] + b /\ v3'[3] = v3[3] + c
        /\ v4'[p][1] = v4[p][1] - 0 /\ v4'[p][2] = v4[p][2] - b
        /\ v4'[p][3] = v4[p][3] - c
        /\ \A q \in SemProcs \ {p} : v4'[q] = v4[q]
    BY SemopMoves
  <2> QED BY <2>1, <2>2 DEF SE!Took
<1>2. v6'[p] = "in" /\ \A q \in SemProcs \ {p} : v6'[q] = v6[q]
  BY DEF SE!TypeOK, SE!Goto
<1>3. v1 # 0 /\ SE!Counted /\ p \notin SE!HereUsers /\ p \notin SE!HereCritical
  <2>1. v1 # 0
    BY SemThere
  <2> QED BY <2>1 DEF SE!SemInv, SE!HereUsers, SE!HereCritical, SE!Users
<1>4. SE!Ready /\ (lock = 0 => p \in SemOpeners) /\ (SE!Locked(p) <=> lock = 1)
  <2>1. CASE lock = 1
    BY <2>1, <1>3 DEF SE!Counted, SE!Locked
  <2>2. CASE lock = 0
    BY <2>2, <1>3 DEF SE!Counted, SE!Locked, SE!Blank, SE!Adjusted
  <2> QED BY <2>1, <2>2
<1>5. SE!Adjusted(p)' /\ ~SE!Locked(p)'
  <2>1. SE!Took(p, 0, 1, 0)'
    BY <1>1 DEF SE!Took
  <2>2. v5[p] # 0 /\ ~SE!Gone(p)'
    BY DEF SE!Adjusted, SE!Gone
  <2> QED BY <1>2, <2>1, <2>2 DEF SE!Adjusted, SE!Locked
<1>6. SE!HereUsers' = SE!HereUsers \cup {p} /\ SE!HereCritical' = SE!HereCritical
  <2>1. SE!HereUsers' = SE!HereUsers \cup {p} /\ SE!HereCritical' = SE!HereCritical \ {p}
    BY <1>2, SemMoves
  <2> QED BY <2>1, <1>3
<1>7. SE!Ready'
  <2>1. /\ SE!Cardinality(SE!HereUsers') = SE!Cardinality(SE!HereUsers) + 1
        /\ SE!Cardinality(SE!HereUsers) \in Nat
    BY <1>3, <1>6, SemCards
  <2>2. SE!Cardinality(SE!HereCritical') = SE!Cardinality(SE!HereCritical)
    BY <1>6
  <2>3. BIGCOUNT \in Nat
    BY SemConstants
  <2> QED BY <1>1, <1>4, <2>1, <2>2, <2>3 DEF SE!Ready
<1>8. ~SE!Blank
  <2>1. SE!Cardinality(SE!HereUsers) \in Nat /\ SE!Cardinality(SE!HereUsers) < BIGCOUNT
    BY <1>3, SemCards
  <2>2. BIGCOUNT \in Nat
    BY SemConstants
  <2> QED BY <1>4, <2>1, <2>2 DEF SE!Blank, SE!Ready
<1>9. lock = 1 => v3[3] = 1 /\ \A q \in SemProcs \ {p} : ~SE!Locked(q)
  BY <1>4, SemThere
<1>10. SE!Counted'
  <2>1. v3'[3] = IF \E q \in SemProcs \ {p} : SE!Locked(q) THEN 1 ELSE 0
    <3>1. CASE lock = 1
      BY <3>1, <1>1, <1>9
    <3>2. CASE lock = 0
      BY <3>2, <1>1, <1>3, <1>4 DEF SE!Counted, SE!TypeOK
    <3> QED BY <3>1, <3>2
  <2>2. CASE lock = 1
    BY <2>1, <2>2, <1>2, <1>3, <1>5, <1>7, <1>9, SemCounts
  <2>3. CASE lock = 0
    BY <2>1, <2>3, <1>2, <1>3, <1>4, <1>5, <1>6, <1>7, <1>8, SemCounts
  <2> QED BY <2>2, <2>3
<1> QED BY <1>1, <1>2, <1>5, <1>10, SemOnly

\* A user of the set: its numbers are right.
LEMMA SemUser ==
    ASSUME SE!SemInv, NEW p \in SemProcs, v6[p] \in {"in", "critical"}, ~SE!Gone(p)
    PROVE  /\ v1 # 0 /\ SE!Counted /\ SE!Ready /\ ~SE!Blank /\ ~SE!Locked(p) /\ p \in SE!HereUsers
           /\ SE!Took(p, IF v6[p] = "critical" THEN 1 ELSE 0, 1, 0) /\ v5[p] # 0
           /\ v3[3] = IF \E q \in SemProcs \ {p} : SE!Locked(q) THEN 1 ELSE 0
<1>1. p \in SE!HereUsers /\ SE!Adjusted(p) /\ ~SE!Locked(p)
  BY DEF SE!SemInv, SE!HereUsers, SE!Users, SE!Locked
<1>2. v1 # 0 /\ SE!Counted /\ SE!Ready
  BY <1>1, SemThere
<1>3. ~SE!Blank
  BY <1>1 DEF SE!Blank
<1> QED BY <1>1, <1>2, <1>3 DEF SE!Adjusted, SE!Counted

\* sem_close: p leaves under the lock.
LEMMA SemCloseStep ==
    ASSUME SE!SemInv, NEW p \in SemProcs, SE!TypeOK', v1' = v1, v5' = v5, v6[p] = "in",
           ~SE!Gone(p), v3[3] = 0, SE!Semop(p, <<0, 1, 1>>), SE!Goto(p, "close")
    PROVE  SE!SemInv'
<1> SE!TypeOK
  BY DEF SE!SemInv
<1>1. /\ v1 # 0 /\ SE!Counted /\ SE!Ready /\ p \in SE!HereUsers /\ SE!Took(p, 0, 1, 0) /\ v5[p] # 0
  BY SemUser
<1>2. /\ v3'[1] = v3[1] /\ v3'[2] = v3[2] + 1 /\ v3'[3] = 1
      /\ SE!Took(p, 0, 0, 1)'
      /\ \A q \in SemProcs \ {p} : v4'[q] = v4[q]
  <2>1. v3[1] \in Int
    BY DEF SE!TypeOK
  <2> QED BY <1>1, <2>1, SemopMoves DEF SE!Took
<1>3. v6'[p] = "close" /\ \A q \in SemProcs \ {p} : v6'[q] = v6[q]
  BY DEF SE!TypeOK, SE!Goto
<1>4. \A q \in SemProcs : ~SE!Locked(q)
  BY <1>1, SemThere
<1>5. SE!Locked(p)' /\ SE!Adjusted(p)'
  BY <1>1, <1>2, <1>3 DEF SE!Locked, SE!Adjusted, SE!Users, SE!Gone
<1>6. SE!HereUsers' = SE!HereUsers \ {p} /\ SE!HereCritical' = SE!HereCritical
  <2>1. p \notin SE!HereCritical
    BY DEF SE!HereCritical
  <2>2. SE!HereUsers' = SE!HereUsers \ {p} /\ SE!HereCritical' = SE!HereCritical \ {p}
    BY <1>3, SemMoves
  <2> QED BY <2>1, <2>2
<1>7. SE!Ready'
  <2>1. /\ SE!Cardinality(SE!HereUsers') = SE!Cardinality(SE!HereUsers) - 1
        /\ SE!Cardinality(SE!HereUsers) \in Nat
    BY <1>1, <1>6, SemCards
  <2>2. SE!Cardinality(SE!HereCritical') = SE!Cardinality(SE!HereCritical)
    BY <1>6
  <2>3. BIGCOUNT \in Nat
    BY SemConstants
  <2> QED BY <1>1, <1>2, <2>1, <2>2, <2>3 DEF SE!Ready
<1>8. SE!Counted'
  BY <1>1, <1>2, <1>3, <1>4, <1>5, <1>7, SemCounts
<1> QED BY <1>1, <1>2, <1>3, <1>5, <1>8, SemOnly

\* sem_close: the last one removes the set, another one unlocks it.
LEMMA SemLastStep ==
    ASSUME SE!SemInv, NEW p \in SemProcs, SE!TypeOK', SE!CloseCount(p)
    PROVE  SE!SemInv'
<1> SE!TypeOK /\ SE!Adjusted(p) /\ SE!Locked(p)
  BY DEF SE!SemInv, SE!CloseCount, SE!Locked
<1>1. v1 # 0 /\ SE!Counted /\ v3[3] = 1 /\ \A q \in SemProcs \ {p} : ~SE!Locked(q)
  BY SemThere
<1>2. ~SE!Gone(p) /\ SE!Took(p, 0, 0, 1) /\ v5[p] # 0
  BY DEF SE!Adjusted, SE!Locked
<1>3. /\ v1' = v1 /\ v5' = v5 /\ v6[p] = "close" /\ \A q \in SemProcs \ {p} : v6'[q] = v6[q]
  BY DEF SE!CloseCount, SE!Goto, SE!Dies, SE!TypeOK
<1>4. SE!Ready /\ SE!Cardinality(SE!HereUsers) \in Nat /\ BIGCOUNT \in Nat
  BY <1>1, <1>3, SemCards, SemConstants DEF SE!Counted
<1>5. ~(v3[2] > BIGCOUNT)
  BY <1>4 DEF SE!Ready
<1>6. CASE SE!Last
  <2>1. UNCHANGED <<v3, v4>> /\ v6'[p] = "rm"
    BY <1>5, <1>6 DEF SE!CloseCount, SE!Goto, SE!TypeOK
  <2>2. SE!Ready' /\ SE!HereUsers' = SE!HereUsers
    BY <1>3, <1>4, <2>1, SemSame
  <2>3. SE!HereUsers' = {}
    <3>1. SE!Cardinality(SE!HereUsers) = 0
      BY <1>4, <1>6 DEF SE!Ready, SE!Last
    <3> QED BY <3>1, <2>2, SemCards
  <2>4. SE!Adjusted(p)' /\ SE!Locked(p)'
    BY <1>2, <1>3, <2>1 DEF SE!Adjusted, SE!Took, SE!Users, SE!Gone, SE!Locked
  <2>5. SE!Counted'
    BY <1>1, <1>3, <2>1, <2>2, <2>3, <2>4, SemCounts
  <2> QED BY <1>1, <1>3, <2>1, <2>4, <2>5, SemOnly
<1>7. CASE ~SE!Last
  <2> DEFINE c == -1
  <2>1. c \in Int /\ SE!Semop(p, <<0, 0, c>>) /\ v6'[p] = "out"
    BY <1>5, <1>7 DEF SE!CloseCount, SE!Goto, SE!TypeOK
  <2> HIDE DEF c
  <2>2. /\ v3'[1] = v3[1] + 0 /\ v3'[2] = v3[2] + 0 /\ v3'[3] = v3[3] + c
        /\ v4'[p][1] = v4[p][1] - 0 /\ v4'[p][2] = v4[p][2] - 0
        /\ v4'[p][3] = v4[p][3] - c
        /\ \A q \in SemProcs \ {p} : v4'[q] = v4[q]
    BY <2>1, SemopMoves
  <2>3. /\ v3'[1] = v3[1] /\ v3'[2] = v3[2] /\ v3'[3] = 0 /\ SE!Took(p, 0, 0, 0)'
    BY <1>1, <1>2, <2>2 DEF SE!TypeOK, SE!Took, c
  <2>4. SE!Ready' /\ SE!HereUsers' = SE!HereUsers
    BY <1>3, <1>4, <2>1, <2>3, SemSame
  <2>5. SE!Adjusted(p)' /\ ~SE!Locked(p)'
    BY <2>1, <2>3 DEF SE!Adjusted, SE!Users, SE!Locked
  <2>6. SE!Counted'
    BY <1>1, <1>3, <2>1, <2>3, <2>4, <2>5, SemCounts
  <2> QED BY <1>1, <1>3, <2>2, <2>5, <2>6, SemOnly
<1> QED BY <1>6, <1>7

\* sem_rm: nobody is left who came in by sem_create.
LEMMA SemRmStep ==
    ASSUME SE!SemInv, NEW p \in SemProcs, SE!TypeOK', SE!SemRm(p)
    PROVE  SE!SemInv'
<1> SE!TypeOK /\ SE!Adjusted(p) /\ SE!Locked(p)
  BY DEF SE!SemInv, SE!SemRm, SE!Locked
<1>1. v1 # 0 /\ SE!Counted /\ \A q \in SemProcs \ {p} : ~SE!Locked(q)
  BY SemThere
<1>2. /\ v1' = 0 /\ v5' = v5 /\ v6[p] = "rm" /\ v6'[p] = "out"
      /\ SE!Took(p, 0, 0, 0)'
      /\ \A q \in SemProcs \ {p} : v6'[q] = v6[q] /\ v4'[q] = v4[q]
  BY DEF SE!SemRm, SE!Goto, SE!TypeOK, SE!NoUndo, SE!Took
<1>3. SE!HereUsers \subseteq SemOpeners
  BY <1>1, <1>2 DEF SE!Counted
<1>4. SE!Adjusted(p)' /\ ~SE!Locked(p)'
  BY <1>2 DEF SE!Adjusted, SE!Users, SE!Locked
<1>5. ASSUME NEW q \in SemProcs \ {p} PROVE SE!Adjusted(q)' /\ ~SE!Locked(q)'
  <2>1. SE!Adjusted(q) /\ ~SE!Locked(q)
    BY <1>1 DEF SE!SemInv
  <2>2. ~SE!Locked(q)' /\ (q \in SE!Users' <=> q \in SE!Users)
    BY <1>2, <2>1 DEF SE!Locked, SE!Users
  <2>3. \A a, b, c : SE!Took(q, a, b, c)' <=> SE!Took(q, a, b, c)
    BY <1>2 DEF SE!Took
  <2>4. v6[q] \notin {"out", "dead"} => SE!Gone(q)'
    BY <1>2, <2>1 DEF SE!Adjusted, SE!Gone
  <2>5. q \notin SE!Users \ SemOpeners
    BY <1>3, <2>1 DEF SE!HereUsers, SE!Adjusted
  <2> QED BY <1>2, <2>1, <2>2, <2>3, <2>4, <2>5 DEF SE!Adjusted
<1> QED BY <1>2, <1>4, <1>5 DEF SE!SemInv

\* sem_wait and sem_signal
LEMMA SemOpStep ==
    ASSUME SE!SemInv, NEW p \in SemProcs, SE!TypeOK', v1' = v1, v5' = v5, ~SE!Gone(p),
           NEW a \in {-1, 1}, SE!Semop(p, <<a, 0, 0>>),
           \/ v6[p] = "in" /\ v3[1] > 0 /\ a = -1 /\ SE!Goto(p, "critical")
           \/ v6[p] = "critical" /\ a = 1 /\ SE!Goto(p, "in")
    PROVE  SE!SemInv'
<1> SE!TypeOK
  BY DEF SE!SemInv
<1>1. /\ v1 # 0 /\ SE!Counted /\ SE!Ready /\ ~SE!Blank /\ p \in SE!HereUsers /\ ~SE!Locked(p)
      /\ SE!Took(p, IF v6[p] = "critical" THEN 1 ELSE 0, 1, 0) /\ v5[p] # 0
      /\ v3[3] = IF \E q \in SemProcs \ {p} : SE!Locked(q) THEN 1 ELSE 0
  BY SemUser
<1>2. /\ v3'[1] = v3[1] + a /\ v3'[2] = v3[2] /\ v3'[3] = v3[3]
      /\ v4'[p][1] = v4[p][1] - a /\ v4'[p][2] = v4[p][2] /\ v4'[p][3] = v4[p][3]
      /\ \A q \in SemProcs \ {p} : v4'[q] = v4[q]
  <2>1. /\ v3'[1] = v3[1] + a /\ v3'[2] = v3[2] + 0 /\ v3'[3] = v3[3] + 0
        /\ v4'[p][1] = v4[p][1] - a /\ v4'[p][2] = v4[p][2] - 0
        /\ v4'[p][3] = v4[p][3] - 0
        /\ \A q \in SemProcs \ {p} : v4'[q] = v4[q]
    BY SemopMoves
  <2> QED BY <2>1 DEF SE!TypeOK
<1>3. /\ v6'[p] = IF a = 1 THEN "in" ELSE "critical"
      /\ \A q \in SemProcs \ {p} : v6'[q] = v6[q]
  BY DEF SE!TypeOK, SE!Goto
<1>4. (a = 1 => SE!Took(p, 0, 1, 0)') /\ (a = -1 => SE!Took(p, 1, 1, 0)')
  BY <1>1, <1>2 DEF SE!Took
<1>5. SE!Adjusted(p)' /\ ~SE!Locked(p)'
  <2>1. ~SE!Gone(p)'
    BY DEF SE!Gone
  <2> QED BY <1>1, <1>3, <1>4, <2>1 DEF SE!Adjusted, SE!Locked
<1>6. /\ SE!HereUsers' = SE!HereUsers
      /\ SE!HereCritical' = IF a = 1 THEN SE!HereCritical \ {p} ELSE SE!HereCritical \cup {p}
  <2>1. /\ SE!HereUsers' = SE!HereUsers \cup {p}
        /\ SE!HereCritical' = IF a = 1 THEN SE!HereCritical \ {p} ELSE SE!HereCritical \cup {p}
    BY <1>3, SemMoves
  <2> QED BY <2>1, <1>1
<1>7. SE!Ready'
  <2>1. p \in SE!HereCritical <=> a = 1
    BY DEF SE!HereCritical
  <2>2. SE!Cardinality(SE!HereCritical') = SE!Cardinality(SE!HereCritical) - a
        /\ SE!Cardinality(SE!HereCritical) \in Nat
    <3>1. CASE a = 1
      BY <1>6, <2>1, <3>1, SemCards
    <3>2. CASE a = -1
      <4>1. SE!HereCritical' = SE!HereCritical \cup {p} /\ p \notin SE!HereCritical
        BY <1>6, <2>1, <3>2
      <4>2. SE!Cardinality(SE!HereCritical') = SE!Cardinality(SE!HereCritical) + 1
            /\ SE!Cardinality(SE!HereCritical) \in Nat
        BY <4>1, SemCards
      <4> QED BY <3>2, <4>2
    <3> QED BY <3>1, <3>2
  <2>3. SE!Cardinality(SE!HereUsers') = SE!Cardinality(SE!HereUsers)
    BY <1>6
  <2>4. InitVal \in Nat
    BY SemConstants
  <2>5. v3[1] \in Int
    BY DEF SE!TypeOK
  <2> QED BY <1>1, <1>2, <2>2, <2>3, <2>4, <2>5 DEF SE!Ready
<1>8. SE!Counted'
  BY <1>1, <1>2, <1>3, <1>5, <1>6, <1>7, SemCounts
<1> QED BY <1>1, <1>2, <1>3, <1>5, <1>8, SemOnly

\* A process that exits gives back what it took from the set that is there.
LEMMA SemExitStep ==
    ASSUME SE!SemInv, NEW p \in SemProcs, SE!TypeOK', SE!Exit(p)
    PROVE  SE!SemInv'
<1> SE!TypeOK /\ SE!Adjusted(p)
  BY DEF SE!SemInv
<1>1. /\ v1' = v1 /\ v5' = v5 /\ v6[p] \notin {"out", "dead"} /\ v6'[p] = "dead"
      /\ SE!Took(p, 0, 0, 0)'
      /\ \A q \in SemProcs \ {p} : v6'[q] = v6[q] /\ v4'[q] = v4[q]
  BY DEF SE!Exit, SE!Dies, SE!Goto, SE!TypeOK, SE!NoUndo, SE!Took
<1>2. CASE SE!Gone(p) \/ v6[p] \in {"lock", "asleep", "open"}
  <2>1. v3' = v3
    <3>1. CASE SE!Gone(p)
      BY <3>1 DEF SE!Exit
    <3>2. CASE ~SE!Gone(p)
      <4>1. v3' = SE!Undone(p) /\ SE!Took(p, 0, 0, 0)
        BY <1>2, <3>2 DEF SE!Exit, SE!Adjusted
      <4> QED BY <4>1 DEF SE!Undone, SE!Took, SE!TypeOK
    <3> QED BY <3>1, <3>2
  <2> QED BY <1>1, <1>2, <2>1, SemGoneStep
<1>3. CASE ~SE!Gone(p) /\ v6[p] \notin {"lock", "asleep", "open"}
  <2>1. /\ v3'[1] = v3[1] + v4[p][1] /\ v3'[2] = v3[2] + v4[p][2]
        /\ v3'[3] = v3[3] + v4[p][3]
    BY <1>3 DEF SE!Exit, SE!Undone
  <2>2. SE!Adjusted(p)' /\ ~SE!Locked(p)'
    BY <1>1 DEF SE!Adjusted, SE!Locked, SE!Users
  <2>3. v1 # 0 /\ SE!Counted
    BY <1>1, <1>3, SemThere DEF SE!SemInv
  <2>4. CASE SE!Locked(p)
    <3>1. /\ v3'[1] = v3[1] /\ v3'[2] = v3[2] /\ v3'[3] = 0
          /\ \A q \in SemProcs \ {p} : ~SE!Locked(q)
      BY <2>1, <2>4, SemThere DEF SE!Adjusted, SE!Took, SE!TypeOK
    <3>2. (SE!Blank' <=> SE!Blank) /\ (SE!Ready' <=> SE!Ready)
      BY <1>1, <2>4, <3>1, SemSame DEF SE!Locked
    <3>3. SE!Counted'
      BY <1>1, <2>2, <2>3, <3>1, <3>2, SemCounts DEF SE!Counted
    <3> QED BY <1>1, <2>2, <3>3, SemOnly
  <2>5. CASE v6[p] \in {"in", "critical"}
    <3> DEFINE a == IF v6[p] = "critical" THEN 1 ELSE 0
    <3>1. /\ SE!Ready /\ ~SE!Blank /\ p \in SE!HereUsers /\ SE!Took(p, a, 1, 0)
          /\ v3[3] = IF \E q \in SemProcs \ {p} : SE!Locked(q) THEN 1 ELSE 0
      BY <1>3, <2>5, SemUser
    <3>2. v3'[1] = v3[1] + a /\ v3'[2] = v3[2] + 1 /\ v3'[3] = v3[3]
      BY <2>1, <3>1 DEF SE!Took, SE!TypeOK
    <3>3. SE!HereUsers' = SE!HereUsers \ {p} /\ SE!HereCritical' = SE!HereCritical \ {p}
      BY <1>1, SemMoves
    <3>4. SE!Ready'
      <4>1. SE!Cardinality(SE!HereUsers') = SE!Cardinality(SE!HereUsers) - 1
            /\ SE!Cardinality(SE!HereUsers) \in Nat /\ SE!Cardinality(SE!HereCritical) \in Nat
        BY <3>1, <3>3, SemCards
      <4>2. SE!Cardinality(SE!HereCritical') = SE!Cardinality(SE!HereCritical) - a
        <5>1. CASE v6[p] = "critical"
          <6>1. p \in SE!HereCritical
            BY <1>3, <5>1 DEF SE!HereCritical
          <6> QED BY <5>1, <6>1, <3>3, SemCards
        <5>2. CASE v6[p] # "critical"
          <6>1. p \notin SE!HereCritical
            BY <5>2 DEF SE!HereCritical
          <6>2. SE!HereCritical' = SE!HereCritical
            BY <6>1, <3>3
          <6> QED BY <5>2, <6>2, <4>1
        <5> QED BY <5>1, <5>2
      <4>3. InitVal \in Nat /\ BIGCOUNT \in Nat /\ v3[1] \in Int
        BY SemConstants DEF SE!TypeOK
      <4> QED BY <3>1, <3>2, <4>1, <4>2, <4>3 DEF SE!Ready
    <3>5. SE!Counted'
      BY <1>1, <2>2, <2>3, <3>1, <3>2, <3>3, <3>4, SemCounts
    <3> QED BY <1>1, <2>2, <3>5, SemOnly
  <2> QED BY <1>1, <1>3, <2>4, <2>5 DEF SE!Locked, SE!TypeOK
<1> QED BY <1>2, <1>3

\* semget: a new set has no users, whoever has the ID of an old one.
LEMMA SemGetStep ==
    ASSUME SE!SemInv, NEW p \in SemProcs, SE!TypeOK', SE!CreateGet(p) \/ SE!OpenGet(p)
    PROVE  SE!SemInv'
<1> SE!TypeOK /\ SE!Adjusted(p)
  BY DEF SE!SemInv
<1>1. /\ v6[p] = "out" /\ v6'[p] \in {"lock", "open"} /\ (v6'[p] = "open" => p \in SemOpeners)
      /\ v4' = v4 /\ v5'[p] = v1' /\ v1' # 0
      /\ \A q \in SemProcs \ {p} : v6'[q] = v6[q] /\ v5'[q] = v5[q]
  BY DEF SE!CreateGet, SE!OpenGet, SE!Goto, SE!TypeOK
<1>2. SE!Adjusted(p)' /\ ~SE!Locked(p)' /\ ~SE!Locked(p) /\ p \notin SE!HereUsers' /\ p \notin SE!HereUsers
  <2>1. SE!Took(p, 0, 0, 0)'
    BY <1>1 DEF SE!Took, SE!Adjusted
  <2> QED BY <1>1, <2>1 DEF SE!Adjusted, SE!Locked, SE!HereUsers, SE!Users
<1>3. \A q \in SemProcs \ {p} : SE!Locked(q)' <=> SE!Locked(q)
  BY <1>1 DEF SE!Locked
<1>4. CASE v1 # 0
  <2>1. v1' = v1 /\ v3' = v3
    BY <1>4 DEF SE!CreateGet, SE!OpenGet
  <2>2. \A q \in SemProcs \ {p} : (SE!Gone(q)' <=> SE!Gone(q)) /\ (q \in SE!Users' <=> q \in SE!Users)
    BY <1>1, <2>1 DEF SE!Gone, SE!Users
  <2>3. ASSUME NEW q \in SemProcs \ {p} PROVE SE!Adjusted(q)'
    <3>1. \A a, b, c : SE!Took(q, a, b, c)' <=> SE!Took(q, a, b, c)
      BY <1>1 DEF SE!Took
    <3> QED BY <1>1, <1>3, <2>2, <3>1 DEF SE!SemInv, SE!Adjusted
  <2>4. SE!HereUsers' = SE!HereUsers
    BY <1>2, <2>2 DEF SE!HereUsers, SE!Users
  <2>5. SE!HereCritical' = SE!HereCritical
    BY <1>1, <2>2 DEF SE!HereCritical
  <2>6. (SE!Blank' <=> SE!Blank) /\ (SE!Ready' <=> SE!Ready)
    BY <2>1, <2>4, <2>5 DEF SE!Blank, SE!Ready
  <2>7. SE!Counted
    BY <1>4 DEF SE!SemInv
  <2>8. (\E q \in SemProcs : SE!Locked(q)') <=> \E q \in SemProcs : SE!Locked(q)
    BY <1>2, <1>3
  <2>9. ASSUME NEW q \in SemProcs
        PROVE  /\ v6'[q] = "setcount" => SE!Blank' /\ v3'[1] = InitVal
               /\ v6'[q] \in {"endcreate", "close", "rm"} => SE!Ready'
               /\ v6'[q] = "rm" => SE!HereUsers' \subseteq SemOpeners
    BY <1>1, <2>1, <2>4, <2>6, <2>7 DEF SE!Counted
  <2>10. SE!Counted'
    BY <2>1, <2>6, <2>7, <2>8, <2>9 DEF SE!Counted
  <2> QED BY <1>2, <1>3, <2>3, <2>10 DEF SE!SemInv
<1>5. CASE v1 = 0
  <2>1. v1' = v2 + 1 /\ v2 \in Nat /\ v3'[1] = 0 /\ v3'[2] = 0 /\ v3'[3] = 0
    BY <1>5 DEF SE!CreateGet, SE!OpenGet, SE!TypeOK
  <2>2. ASSUME NEW q \in SemProcs \ {p}
        PROVE  /\ SE!Adjusted(q)' /\ ~SE!Locked(q)' /\ q \notin SE!HereUsers'
    <3>1. SE!Adjusted(q) /\ v5[q] \in 0 .. v2
      BY DEF SE!SemInv, SE!TypeOK
    <3>2. SE!Gone(q)'
      BY <1>1, <2>1, <3>1 DEF SE!Gone
    <3>3. v6[q] \notin {"out", "dead"} => SE!Gone(q)
      BY <1>5, <3>1 DEF SE!Gone, SE!Adjusted
    <3>4. ~SE!Locked(q) /\ q \notin SE!Users \ SemOpeners
      BY <3>1, <3>3 DEF SE!Adjusted, SE!Locked, SE!Users
    <3>5. \A a, b, c : SE!Took(q, a, b, c)' <=> SE!Took(q, a, b, c)
      BY <1>1 DEF SE!Took
    <3> QED BY <1>1, <1>3, <3>1, <3>2, <3>4, <3>5 DEF SE!Adjusted, SE!Users, SE!HereUsers
  <2>3. SE!Blank'
    <3>1. SE!HereUsers' = {}
      BY <1>2, <2>2 DEF SE!HereUsers, SE!Users
    <3> QED BY <2>1, <3>1 DEF SE!Blank
  <2>4. \A q \in SemProcs : ~SE!Locked(q)'
    BY <1>2, <2>2
  <2>5. SE!Counted'
    BY <2>1, <2>3, <2>4 DEF SE!Counted, SE!Locked
  <2> QED BY <1>2, <2>2, <2>4, <2>5 DEF SE!SemInv
<1> QED BY <1>4, <1>5

LEMMA SemNext == SE!SemInv /\ SE!Next => SE!SemInv'
<1> SUFFICES ASSUME SE!SemInv, NEW p \in SemProcs, SE!Step(p) \/ SE!Call(p) PROVE SE!SemInv'
  BY DEF SE!Next
<1> SE!TypeOK /\ SE!TypeOK' /\ SE!Adjusted(p)
  BY SemType DEF SE!SemInv
<1>1. CASE SE!CreateGet(p) \/ SE!OpenGet(p)
  BY <1>1, SemGetStep
<1>2. CASE SE!CreateCount(p) \/ SE!CreateSetCount(p)
  BY <1>2, SemCountStep, SemSetCountStep
<1>3. CASE SE!CloseCount(p) \/ SE!SemRm(p) \/ SE!Exit(p)
  BY <1>3, SemLastStep, SemRmStep, SemExitStep
<1>4. ASSUME SE!CreateLock(p) \/ SE!CreateWake(p) \/ SE!CreateEnd(p) \/ SE!Open(p) \/ SE!CloseLock(p)
             \/ SE!SemWait(p) \/ SE!SemSignal(p)
      PROVE  SE!SemInv'
  <2>1. v1' = v1 /\ v5' = v5
    BY <1>4 DEF SE!CreateLock, SE!CreateWake, SE!CreateEnd, SE!Open, SE!CloseLock, SE!SemWait, SE!SemSignal
  <2>2. ASSUME SE!Gone(p), SE!Dies(p), v3' = v3 PROVE SE!SemInv'
    <3>1. v6'[p] = "dead" /\ SE!Took(p, 0, 0, 0)'
          /\ \A q \in SemProcs \ {p} : v6'[q] = v6[q] /\ v4'[q] = v4[q]
      BY <2>2 DEF SE!Dies, SE!Goto, SE!TypeOK, SE!NoUndo, SE!Took
    <3> QED BY <2>1, <2>2, <3>1, SemGoneStep
  <2>3. CASE SE!CreateLock(p)
    <3>1. CASE ~SE!Gone(p) /\ v3[3] = 0
      BY <2>1, <2>3, <3>1, SemLockStep DEF SE!CreateLock
    <3>2. CASE SE!Gone(p) \/ v3[3] # 0
      <4>1. /\ UNCHANGED <<v3, v4>> /\ v6'[p] \in {"out", "asleep"}
            /\ v6[p] = "lock" /\ \A q \in SemProcs \ {p} : v6'[q] = v6[q]
        BY <2>3, <3>2 DEF SE!CreateLock, SE!Goto, SE!TypeOK
      <4>2. SE!Took(p, 0, 0, 0)' /\ v5[p] # 0
        BY <4>1 DEF SE!Adjusted, SE!Took
      <4> QED BY <2>1, <4>1, <4>2, SemGoneStep
    <3> QED BY <3>1, <3>2
  <2>4. CASE SE!CreateWake(p)
    BY <2>1, <2>2, <2>4, SemLockStep DEF SE!CreateWake
  <2>5. CASE SE!CreateEnd(p)
    <3> DEFINE b == -1
    <3>1. b \in Int /\ b = -1 /\ b = 0 - 1 /\ SE!Semop(p, <<0, b, b>>) /\ v6[p] = "endcreate"
          /\ SE!Goto(p, "in")
      BY <2>5 DEF SE!CreateEnd
    <3> HIDE DEF b
    <3>2. ~SE!Gone(p) /\ SE!Took(p, 0, 0, 1)
      BY <3>1 DEF SE!Adjusted, SE!Locked
    <3> QED BY <2>1, <3>1, <3>2, SemInStep
  <2>6. CASE SE!Open(p)
    <3>1. CASE SE!Gone(p)
      BY <2>2, <2>6, <3>1 DEF SE!Open
    <3>2. CASE ~SE!Gone(p)
      <4> DEFINE b == -1
      <4>1. b \in Int /\ b = -1 /\ SE!Semop(p, <<0, b, 0>>) /\ v6[p] = "open" /\ v3[2] > 0
            /\ SE!Goto(p, "in")
        BY <2>6, <3>2 DEF SE!Open
      <4> HIDE DEF b
      <4>2. SE!Took(p, 0, 0, 0)
        BY <4>1 DEF SE!Adjusted
      <4> QED BY <2>1, <3>2, <4>1, <4>2, SemInStep
    <3> QED BY <3>1, <3>2
  <2>7. CASE SE!CloseLock(p)
    BY <2>1, <2>2, <2>7, SemCloseStep DEF SE!CloseLock, SE!CloseReady
  <2>8. CASE SE!SemWait(p) \/ SE!SemSignal(p)
    <3>1. CASE SE!Gone(p)
      BY <2>2, <2>8, <3>1 DEF SE!SemWait, SE!SemSignal
    <3>2. CASE ~SE!Gone(p)
      <4> DEFINE b == -1
      <4>1. b \in {-1, 1} /\ b = -1 /\ 1 \in {-1, 1}
            /\ \/ /\ SE!Semop(p, <<b, 0, 0>>) /\ v6[p] = "in" /\ v3[1] > 0
                  /\ SE!Goto(p, "critical")
               \/ SE!Semop(p, <<1, 0, 0>>) /\ v6[p] = "critical" /\ SE!Goto(p, "in")
        BY <2>8, <3>2 DEF SE!SemWait, SE!SemSignal
      <4> HIDE DEF b
      <4> QED BY <2>1, <3>2, <4>1, SemOpStep
    <3> QED BY <3>1, <3>2
  <2> QED BY <1>4, <2>3, <2>4, <2>5, <2>6, <2>7, <2>8
<1> QED BY <1>1, <1>2, <1>3, <1>4 DEF SE!Step, SE!Call

LEMMA SemKept == SE!SemInv => SE!CreatorsKept
<1> SUFFICES ASSUME SE!SemInv PROVE SE!CreatorsKept
  OBVIOUS
<1>1. \A p \in SE!Users \ SemOpeners : ~SE!Gone(p)
  BY DEF SE!SemInv, SE!Adjusted, SE!Users
<1>2. SE!HereCritical \subseteq SE!HereUsers
  BY DEF SE!HereUsers, SE!HereCritical, SE!Users
<1>3. SE!Cardinality(SE!HereCritical) <= InitVal
  <2>1. CASE SE!HereCritical = {}
    BY <2>1, SemConstants, SemCardinality, FS_EmptySet
  <2>2. CASE SE!HereCritical # {}
    <3>1. PICK p \in SemProcs : p \in SE!HereUsers
      BY <1>2, <2>2 DEF SE!HereUsers, SE!Users
    <3>2. SE!Ready /\ SE!Cardinality(SE!HereCritical) \in Nat /\ InitVal \in Nat
      BY <3>1, SemThere, SemCards, SemConstants
    <3> QED BY <3>2 DEF SE!Ready
  <2> QED BY <2>1, <2>2
<1>4. v1 # 0 /\ v3[3] = 0 /\ v3[2] # 0 => v3[2] = BIGCOUNT - SE!Cardinality(SE!HereUsers)
  BY DEF SE!SemInv, SE!Counted, SE!Blank, SE!Ready
<1> QED BY <1>1, <1>3, <1>4 DEF SE!CreatorsKept, SE!HereCritical, SE!HereUsers

SemHolds == which = "semaph" => SE!SemInv

\* For any number of processes (at most BIGCOUNT) and any initial value, a semaphore is
\* not removed or initialised again under those who came in by sem_create, admits no
\* more than it may, and counts its users right (sem_create, sem_open, sem_close,
\* SEM_UNDO).
THEOREM SemaphoreKept == Spec => []CreatorsKept
<1>1. Init => SemHolds
  BY SemInit DEF Init, SemHolds
<1>2. SemHolds /\ [Next]_vars => SemHolds'
  <2>1. CASE Next
    BY <2>1, SemNext DEF Next, SemHolds
  <2>2. CASE UNCHANGED vars
    BY <2>2 DEF vars, SemHolds, SE!SemInv, SE!TypeOK, SE!Adjusted, SE!Took, SE!Locked,
                SE!Users, SE!Gone, SE!Counted, SE!Blank, SE!Ready, SE!HereUsers,
                SE!HereCritical
  <2> QED BY <2>1, <2>2
<1>3. SemHolds => CreatorsKept
  BY SemKept DEF SemHolds, CreatorsKept
<1> QED BY <1>1, <1>2, <1>3, PTL DEF Spec

(***************************************************************************)
(* Natural numbers, as far as N.                                            *)
(***************************************************************************)

\* What holds of 0, and of n + 1 when it does of n, holds as far as N: else the least
\* gap would map the numbers below it one to one to fewer numbers.
LEMMA SetInduction ==
    ASSUME NEW N \in Nat, NEW S, 0 \in S, \A n \in 0 .. N - 1 : n \in S => n + 1 \in S
    PROVE  0 .. N \subseteq S
<1>1. SUFFICES ASSUME NEW top \in 0 .. N, top \notin S
               PROVE  FALSE
  OBVIOUS
<1> DEFINE A == S \cap (0 .. top)
           B == A \ {0}
           f == [n \in A |-> n + 1]
<1>a. A \in SUBSET (0 .. top) /\ 0 \in A /\ top \notin A
  BY <1>1
<1>4. f \in [A -> B] /\ \A n \in A : f[n] = n + 1
  BY <1>1
<1>b. B = A \ {0}
  OBVIOUS
<1> HIDE DEF A, B, f
<1>2. IsFiniteSet(A)
  <2>1. IsFiniteSet(0 .. top)
    BY FS_Interval
  <2> QED BY <2>1, FS_Subset, <1>a
<1>3. IsFiniteSet(B) /\ Cardinality(B) = Cardinality(A) - 1 /\ Cardinality(A) \in Nat
  BY <1>2, FS_RemoveElement, FS_CardinalityType, <1>a, <1>b
<1>6. Cardinality(B) < Cardinality(A)
  BY <1>3
<1>5. \E x, y \in A : x # y /\ f[x] = f[y]
  BY <1>2, <1>3, <1>4, <1>6, FS_PigeonHole
<1> QED BY <1>5, <1>4, <1>a


\* A set of numbers that is not empty has a least one.

\* A set of numbers that is not empty has a least one.
LEMMA LeastNumber ==
    ASSUME NEW N \in Nat, NEW S \in SUBSET (0 .. N), S # {}
    PROVE  \E x \in S : \A y \in S : x <= y
<1> SUFFICES ASSUME \A x \in S : \E y \in S : ~(x <= y) PROVE FALSE
  OBVIOUS
<1> DEFINE T == {k \in 0 .. N : \A y \in S : k < y}
<1>1. 0 \in T
  <2>1. ASSUME NEW y \in S PROVE 0 < y
    <3>1. PICK z \in S : ~(y <= z)
      OBVIOUS
    <3> QED BY <3>1
  <2> QED BY <2>1
<1>2. ASSUME NEW k \in 0 .. N - 1, k \in T PROVE k + 1 \in T
  <2>1. ASSUME NEW y \in S PROVE k + 1 < y
    <3>1. k < y /\ y \in 0 .. N
      BY <1>2
    <3>2. PICK z \in S : ~(y <= z)
      OBVIOUS
    <3>3. k < z /\ z \in 0 .. N
      BY <1>2
    <3> QED BY <3>1, <3>2, <3>3
  <2> QED BY <2>1
<1> HIDE DEF T
<1>3. 0 .. N \subseteq T
  BY <1>1, <1>2, SetInduction
<1>4. PICK x \in S : TRUE
  OBVIOUS
<1> QED BY <1>3, <1>4 DEF T

(***************************************************************************)
(* A queue of jobs.                                                         *)
(***************************************************************************)

LEMMA JobConstants == JQ!Cardinality(QueueJobs) \in Nat /\ "NULL" \notin QueueJobs
<1>1. JQ!Cardinality(QueueJobs) = Cardinality(QueueJobs)
  BY DEF JQ!Cardinality, Cardinality
<1> QED BY <1>1, ProgramsAssumption, FS_CardinalityType

LEMMA JobInit == JQ!Init => JQ!JobInv
<1> SUFFICES ASSUME JQ!Init PROVE JQ!JobInv
  OBVIOUS
<1>1. JQ!TypeOK
  BY DEF JQ!Init, JQ!TypeOK
<1>2. Len(v7) = 0 /\ v7 = <<>>
  BY DEF JQ!Init
<1> QED BY <1>1, <1>2, JobConstants DEF JQ!Init, JQ!JobInv, JQ!Linked, JQ!TypeOK

\* Whether a job is queued, by its place.
LEMMA JobPlace ==
    ASSUME JQ!JobInv, NEW j, JQ!Queued(j)
    PROVE  JQ!Place(j) \in 1 .. Len(v7) /\ v7[JQ!Place(j)] = j /\ j \in QueueJobs
<1>1. JQ!Place(j) \in 1 .. Len(v7) /\ v7[JQ!Place(j)] = j
  BY DEF JQ!Queued, JQ!Place
<1> QED BY <1>1 DEF JQ!JobInv, JQ!TypeOK

LEMMA JobInsertStep ==
    ASSUME JQ!JobInv, NEW j \in QueueJobs, JQ!JobInsert(j)
    PROVE  JQ!JobInv'
<1> USE JobConstants
<1> DEFINE n == Len(v7)
<1>1. v7 \in Seq(QueueJobs) /\ n \in Nat
  BY DEF JQ!JobInv, JQ!TypeOK
<1>2. /\ v7' \in Seq(QueueJobs) /\ Len(v7') = n + 1 /\ v7'[1] = j /\ v7' # <<>>
      /\ \A k \in 2 .. n + 1 : k - 1 \in 1 .. n /\ v7'[k] = v7[k - 1]
  BY <1>1 DEF JQ!JobInsert
<1>3. \A k \in 1 .. n : v7[k] # j /\ v7[k] \in QueueJobs
  BY <1>1 DEF JQ!JobInsert, JQ!Queued
<1>4. v7 = <<>> <=> n = 0
  BY <1>1
<1>5. /\ v1' = j /\ v2' = IF n = 0 THEN j ELSE v2
      /\ v5' = v5 /\ v6' = v6
      /\ n # 0 => v1 = v7[1]
      /\ v3' = [v3 EXCEPT ![j] = v1]
      /\ v4' = IF n = 0 THEN [v4 EXCEPT ![j] = "NULL"]
                   ELSE [[v4 EXCEPT ![j] = "NULL"] EXCEPT ![v7[1]] = j]
  <2>1. /\ v1 = IF n = 0 THEN "NULL" ELSE v7[1]
        /\ v1 = "NULL" <=> n = 0
    BY <1>1, <1>3, <1>4 DEF JQ!JobInv, JQ!Linked
  <2> QED BY <2>1 DEF JQ!JobInsert, JQ!Set
<1>6. JQ!TypeOK'
  BY <1>2, <1>3, <1>5, <1>1 DEF JQ!JobInv, JQ!TypeOK
<1>7. /\ v3'[j] = (IF n = 0 THEN "NULL" ELSE v7[1]) /\ v4'[j] = "NULL"
      /\ \A k \in 1 .. n : /\ v3'[v7[k]] = v3[v7[k]]
                           /\ v4'[v7[k]] = IF k = 1 THEN j ELSE v4[v7[k]]
  <2>1. v3'[j] = (IF n = 0 THEN "NULL" ELSE v7[1]) /\ v4'[j] = "NULL"
    BY <1>1, <1>3, <1>4, <1>5 DEF JQ!JobInv, JQ!TypeOK, JQ!Linked
  <2>2. ASSUME NEW k \in 1 .. n
        PROVE  /\ v3'[v7[k]] = v3[v7[k]]
               /\ v4'[v7[k]] = IF k = 1 THEN j ELSE v4[v7[k]]
    BY <1>1, <1>3, <1>5 DEF JQ!JobInv, JQ!TypeOK
  <2> QED BY <2>1, <2>2
<1>8. JQ!Linked'
  <2>1. v1' = v7'[1] /\ v2' = v7'[n + 1]
    BY <1>1, <1>2, <1>4, <1>5 DEF JQ!JobInv, JQ!Linked
  <2>2. ASSUME NEW k \in 1 .. n + 1
        PROVE  /\ v3'[v7'[k]] = IF k = n + 1 THEN "NULL" ELSE v7'[k + 1]
               /\ v4'[v7'[k]] = IF k = 1 THEN "NULL" ELSE v7'[k - 1]
    <3>1. CASE k = 1
      BY <1>1, <1>2, <1>7, <3>1
    <3>2. CASE k # 1
      <4>1. k - 1 \in 1 .. n /\ v7'[k] = v7[k - 1]
        BY <1>1, <1>2, <3>2
      <4>2. k # n + 1 => v7'[k + 1] = v7[(k - 1) + 1]
        BY <1>1, <1>2, <3>2
      <4>3. k # 2 => v7'[k - 1] = v7[(k - 1) - 1]
        BY <1>1, <1>2, <3>2
      <4> QED BY <1>1, <1>2, <1>7, <3>2, <4>1, <4>2, <4>3 DEF JQ!JobInv, JQ!Linked
    <3> QED BY <3>1, <3>2
  <2> QED BY <1>2, <2>1, <2>2 DEF JQ!Linked
<1>9. \A k, m \in 1 .. Len(v7') : v7'[k] = v7'[m] => k = m
  <2>1. \A k \in 1 .. n + 1 : k = 1 \/ k \in 2 .. n + 1
    BY <1>1
  <2>2. \A k, m \in 2 .. n + 1 : v7'[k] = v7'[m] => k = m
    <3> TAKE k, m \in 2 .. n + 1
    <3>1. v7[k - 1] = v7[m - 1] => k - 1 = m - 1
      BY <1>2 DEF JQ!JobInv
    <3> QED BY <1>1, <1>2, <3>1
  <2>3. \A k \in 2 .. n + 1 : v7'[k] # j
    BY <1>2, <1>3
  <2> QED BY <1>2, <2>1, <2>2, <2>3
<1>10. \A i \in QueueJobs : JQ!Queued(i) => JQ!Queued(i)'
  <2>1. \A k \in 1 .. n : k + 1 \in 1 .. n + 1 /\ v7'[k + 1] = v7[k]
    BY <1>1, <1>2
  <2> QED BY <1>2, <2>1 DEF JQ!Queued
<1>11. \A t \in QueueThreads, i \in QueueJobs : v6'[t] = i => JQ!Queued(i)' /\ v5'[i] = t
  BY <1>5, <1>10 DEF JQ!JobInv
<1> QED BY <1>6, <1>8, <1>9, <1>11 DEF JQ!JobInv

LEMMA JobAppendStep ==
    ASSUME JQ!JobInv, NEW j \in QueueJobs, JQ!JobAppend(j)
    PROVE  JQ!JobInv'
<1> USE JobConstants
<1> DEFINE n == Len(v7)
<1>1. v7 \in Seq(QueueJobs) /\ n \in Nat
  BY DEF JQ!JobInv, JQ!TypeOK
<1>2. /\ v7' \in Seq(QueueJobs) /\ Len(v7') = n + 1 /\ v7'[n + 1] = j /\ v7' # <<>>
      /\ \A k \in 1 .. n : v7'[k] = v7[k]
  BY <1>1 DEF JQ!JobAppend
<1>3. \A k \in 1 .. n : v7[k] # j /\ v7[k] \in QueueJobs
  BY <1>1 DEF JQ!JobAppend, JQ!Queued
<1>4. v7 = <<>> <=> n = 0
  BY <1>1
<1>5. /\ v2' = j /\ v1' = IF n = 0 THEN j ELSE v1
      /\ v5' = v5 /\ v6' = v6
      /\ v4' = [v4 EXCEPT ![j] = v2]
      /\ v3' = IF n = 0 THEN [v3 EXCEPT ![j] = "NULL"]
                   ELSE [[v3 EXCEPT ![j] = "NULL"] EXCEPT ![v7[n]] = j]
      /\ v2 = IF n = 0 THEN "NULL" ELSE v7[n]
  <2>1. /\ v2 = IF n = 0 THEN "NULL" ELSE v7[n]
        /\ v2 = "NULL" <=> n = 0
    BY <1>1, <1>3, <1>4 DEF JQ!JobInv, JQ!Linked
  <2> QED BY <2>1 DEF JQ!JobAppend, JQ!Set
<1>6. JQ!TypeOK'
  BY <1>2, <1>3, <1>5, <1>1 DEF JQ!JobInv, JQ!TypeOK
<1>7. /\ v4'[j] = (IF n = 0 THEN "NULL" ELSE v7[n]) /\ v3'[j] = "NULL"
      /\ \A k \in 1 .. n : /\ v4'[v7[k]] = v4[v7[k]]
                           /\ v3'[v7[k]] = IF k = n THEN j ELSE v3[v7[k]]
  <2>1. v4'[j] = (IF n = 0 THEN "NULL" ELSE v7[n]) /\ v3'[j] = "NULL"
    BY <1>1, <1>3, <1>5 DEF JQ!JobInv, JQ!TypeOK
  <2>2. ASSUME NEW k \in 1 .. n
        PROVE  /\ v4'[v7[k]] = v4[v7[k]]
               /\ v3'[v7[k]] = IF k = n THEN j ELSE v3[v7[k]]
    BY <1>1, <1>3, <1>5 DEF JQ!JobInv, JQ!TypeOK
  <2> QED BY <2>1, <2>2
<1>8. JQ!Linked'
  <2>1. v1' = v7'[1] /\ v2' = v7'[n + 1]
    BY <1>1, <1>2, <1>4, <1>5 DEF JQ!JobInv, JQ!Linked
  <2>2. ASSUME NEW k \in 1 .. n + 1
        PROVE  /\ v3'[v7'[k]] = IF k = n + 1 THEN "NULL" ELSE v7'[k + 1]
               /\ v4'[v7'[k]] = IF k = 1 THEN "NULL" ELSE v7'[k - 1]
    <3>1. CASE k = n + 1
      BY <1>1, <1>2, <1>7, <3>1
    <3>2. CASE k # n + 1
      <4>1. k \in 1 .. n /\ v7'[k] = v7[k]
        BY <1>1, <1>2, <3>2
      <4>2. k # n => v7'[k + 1] = v7[k + 1]
        BY <1>1, <1>2, <3>2
      <4>3. k # 1 => v7'[k - 1] = v7[k - 1]
        BY <1>1, <1>2, <3>2
      <4> QED BY <1>1, <1>2, <1>7, <3>2, <4>1, <4>2, <4>3 DEF JQ!JobInv, JQ!Linked
    <3> QED BY <3>1, <3>2
  <2> QED BY <1>2, <2>1, <2>2 DEF JQ!Linked
<1>9. \A k, m \in 1 .. Len(v7') : v7'[k] = v7'[m] => k = m
  BY <1>1, <1>2, <1>3 DEF JQ!JobInv
<1>10. \A i \in QueueJobs : JQ!Queued(i) => JQ!Queued(i)'
  BY <1>1, <1>2 DEF JQ!Queued
<1>11. \A t \in QueueThreads, i \in QueueJobs : v6'[t] = i => JQ!Queued(i)' /\ v5'[i] = t
  BY <1>5, <1>10 DEF JQ!JobInv
<1> QED BY <1>6, <1>8, <1>9, <1>11 DEF JQ!JobInv

\* Followed from the head, the pointers give the jobs of the queue.
LEMMA JobNth ==
    ASSUME JQ!JobInv
    PROVE  \A k \in 0 .. JQ!Cardinality(QueueJobs) :
              JQ!Nth[k] = IF k < Len(v7) THEN v7[k + 1] ELSE "NULL"
<1> DEFINE n == Len(v7)
           N == JQ!Cardinality(QueueJobs)
           At(k) == IF k < n THEN v7[k + 1] ELSE "NULL"
           Eq(f) == f = [k \in 0 .. N |->
                            IF k = 0 THEN v1
                            ELSE IF f[k - 1] = "NULL" THEN "NULL" ELSE v3[f[k - 1]]]
           g == [k \in 0 .. N |-> At(k)]
<1>1. n \in Nat /\ N \in Nat /\ "NULL" \notin QueueJobs /\ v7 \in Seq(QueueJobs)
  BY JobConstants DEF JQ!JobInv, JQ!TypeOK
<1>2. At(0) = v1
  BY <1>1 DEF JQ!JobInv, JQ!Linked
<1>3. ASSUME NEW k \in 1 .. N
      PROVE  At(k) = IF At(k - 1) = "NULL" THEN "NULL" ELSE v3[At(k - 1)]
  <2>1. CASE k - 1 < n
    <3>1. k \in 1 .. n /\ At(k - 1) = v7[k] /\ v7[k] \in QueueJobs
      BY <1>1, <2>1
    <3>2. v3[v7[k]] = IF k = n THEN "NULL" ELSE v7[k + 1]
      BY <3>1 DEF JQ!JobInv, JQ!Linked
    <3> QED BY <1>1, <3>1, <3>2
  <2>2. CASE ~(k - 1 < n)
    BY <1>1, <2>2
  <2> QED BY <2>1, <2>2
<1> HIDE DEF At
<1>4. Eq(g)
  <2>1. ASSUME NEW k \in 0 .. N
        PROVE  g[k] = IF k = 0 THEN v1
                      ELSE IF g[k - 1] = "NULL" THEN "NULL" ELSE v3[g[k - 1]]
    <3>1. CASE k = 0
      BY <1>1, <1>2, <3>1
    <3>2. CASE k # 0
      <4>1. k \in 1 .. N /\ k - 1 \in 0 .. N
        BY <1>1, <3>2
      <4>2. g[k] = At(k) /\ g[k - 1] = At(k - 1)
        BY <4>1
      <4> QED BY <1>3, <3>2, <4>1, <4>2
    <3> QED BY <3>1, <3>2
  <2> QED BY <2>1
<1>5. ASSUME NEW f, Eq(f) PROVE f = g
  <2> DEFINE S == {k \in 0 .. N : f[k] = At(k)}
  <2>1. 0 \in S
    BY <1>1, <1>2, <1>5
  <2>2. ASSUME NEW k \in 0 .. N - 1, k \in S PROVE k + 1 \in S
    <3>1. k + 1 \in 1 .. N /\ (k + 1) - 1 = k /\ f[k] = At(k)
      BY <1>1, <2>2
    <3>2. f[k + 1] = IF f[k] = "NULL" THEN "NULL" ELSE v3[f[k]]
      BY <1>1, <1>5, <3>1
    <3>3. At(k + 1) = IF At(k) = "NULL" THEN "NULL" ELSE v3[At(k)]
      BY <1>3, <3>1
    <3> QED BY <1>1, <3>1, <3>2, <3>3
  <2> HIDE DEF S
  <2>3. 0 .. N \subseteq S
    BY <1>1, <2>1, <2>2, SetInduction
  <2>4. \A k \in 0 .. N : f[k] = At(k)
    BY <2>3 DEF S
  <2>5. f = [k \in 0 .. N |-> f[k]]
    BY <1>5
  <2> QED BY <2>4, <2>5
<1>6. JQ!Nth = CHOOSE f : Eq(f)
  BY DEF JQ!Nth
<1> HIDE DEF Eq, g
<1>7. JQ!Nth = g
  BY <1>4, <1>5, <1>6
<1> QED BY <1>7 DEF g, At

LEMMA JobFindStep ==
    ASSUME JQ!JobInv, NEW t \in QueueThreads, JQ!JobFind(t)
    PROVE  JQ!JobInv'
<1> USE JobConstants
<1>1. PICK k \in 0 .. JQ!Cardinality(QueueJobs) :
          /\ JQ!Nth[k] # "NULL" => v5[JQ!Nth[k]] = t
          /\ v6' = [v6 EXCEPT ![t] = JQ!Nth[k]]
  BY DEF JQ!JobFind
<1>2. UNCHANGED <<v1, v2, v3, v4, v5, v7>>
  BY DEF JQ!JobFind
<1>3. JQ!Nth[k] = IF k < Len(v7) THEN v7[k + 1] ELSE "NULL"
  BY JobNth
<1>4. JQ!Nth[k] # "NULL" => JQ!Queued(JQ!Nth[k]) /\ JQ!Nth[k] \in QueueJobs
  <2>1. ASSUME k < Len(v7) PROVE JQ!Queued(v7[k + 1]) /\ v7[k + 1] \in QueueJobs
    <3>1. k + 1 \in 1 .. Len(v7) /\ v7 \in Seq(QueueJobs)
      BY <2>1 DEF JQ!JobInv, JQ!TypeOK
    <3> QED BY <3>1 DEF JQ!Queued
  <2> QED BY <1>3, <2>1
<1>5. JQ!TypeOK'
  BY <1>1, <1>2, <1>4 DEF JQ!JobInv, JQ!TypeOK
<1>6. \A i \in QueueJobs : JQ!Queued(i)' <=> JQ!Queued(i)
  BY <1>2 DEF JQ!Queued
<1>7. ASSUME NEW u \in QueueThreads, NEW i \in QueueJobs, v6'[u] = i
      PROVE  JQ!Queued(i)' /\ v5'[i] = u
  <2>1. CASE u = t
    BY <1>1, <1>2, <1>4, <1>6, <1>7, <2>1 DEF JQ!JobInv, JQ!TypeOK
  <2>2. CASE u # t
    BY <1>1, <1>2, <1>6, <1>7, <2>2 DEF JQ!JobInv, JQ!TypeOK
  <2> QED BY <2>1, <2>2
<1>8. JQ!Linked'
  BY <1>2 DEF JQ!JobInv, JQ!Linked
<1> QED BY <1>2, <1>5, <1>7, <1>8 DEF JQ!JobInv

\* job_remove closes the gap: the one before and the one behind the job get its pointers,
\* or the head and the tail do.
LEMMA JobUnlinks ==
    ASSUME JQ!JobInv, NEW t \in QueueThreads, JQ!JobRemove(t), NEW j, j = v6[t],
           NEW p, p = JQ!Place(j), NEW n, n = Len(v7)
    PROVE  /\ j \in QueueJobs /\ JQ!Queued(j) /\ p \in 1 .. n /\ v7[p] = j /\ n \in Nat
           /\ v1' = IF p = 1 THEN v3[j] ELSE v1
           /\ v2' = IF p = n THEN v4[j] ELSE v2
           /\ v3' \in [QueueJobs -> QueueJobs \cup {"NULL"}] /\ v4' \in [QueueJobs -> QueueJobs \cup {"NULL"}]
           /\ \A k \in 1 .. n :
                 k # p =>
                    /\ v3'[v7[k]] = IF k = p - 1 THEN v3[j] ELSE v3[v7[k]]
                    /\ v4'[v7[k]] = IF k = p + 1 THEN v4[j] ELSE v4[v7[k]]
<1> USE JobConstants
<1>1. j \in QueueJobs /\ JQ!Queued(j)
  BY DEF JQ!JobRemove, JQ!JobInv, JQ!TypeOK
<1>2. p \in 1 .. n /\ v7[p] = j /\ n \in Nat /\ v7 \in Seq(QueueJobs)
  BY <1>1, JobPlace DEF JQ!JobInv, JQ!TypeOK
<1>3. v7 # <<>> /\ v1 = v7[1] /\ v2 = v7[n] /\ 1 \in 1 .. n /\ n \in 1 .. n
  BY <1>2 DEF JQ!JobInv, JQ!Linked
<1>4. (j = v1 <=> p = 1) /\ (j = v2 <=> p = n)
  BY <1>2, <1>3 DEF JQ!JobInv
<1>5. /\ v3[j] = IF p = n THEN "NULL" ELSE v7[p + 1]
      /\ v4[j] = IF p = 1 THEN "NULL" ELSE v7[p - 1]
  BY <1>2 DEF JQ!JobInv, JQ!Linked
<1>6. /\ p # n => p + 1 \in 1 .. n /\ v7[p + 1] \in QueueJobs
      /\ p # 1 => p - 1 \in 1 .. n /\ v7[p - 1] \in QueueJobs
  BY <1>2
<1>7. /\ v1' = IF p = 1 THEN v3[j] ELSE v1
      /\ v2' = IF p = n THEN v4[j] ELSE v2
      /\ v3' = IF p = 1 THEN v3 ELSE [v3 EXCEPT ![v7[p - 1]] = v3[j]]
      /\ v4' = IF p = n THEN v4 ELSE [v4 EXCEPT ![v7[p + 1]] = v4[j]]
  <2>1. CASE p = 1
    BY <1>4, <1>5, <2>1 DEF JQ!JobRemove, JQ!RemoveHead
  <2>2. CASE p # 1 /\ p = n
    BY <1>4, <1>5, <2>2 DEF JQ!JobRemove, JQ!RemoveTail
  <2>3. CASE p # 1 /\ p # n
    BY <1>4, <1>5, <2>3 DEF JQ!JobRemove, JQ!RemoveMiddle
  <2> QED BY <2>1, <2>2, <2>3
<1>8. v3[j] \in QueueJobs \cup {"NULL"} /\ v4[j] \in QueueJobs \cup {"NULL"}
      /\ v3 \in [QueueJobs -> QueueJobs \cup {"NULL"}] /\ v4 \in [QueueJobs -> QueueJobs \cup {"NULL"}]
  BY <1>1 DEF JQ!JobInv, JQ!TypeOK
<1>9. v3' \in [QueueJobs -> QueueJobs \cup {"NULL"}] /\ v4' \in [QueueJobs -> QueueJobs \cup {"NULL"}]
  BY <1>7, <1>8
<1>10. ASSUME NEW k \in 1 .. n, k # p
       PROVE  /\ v3'[v7[k]] = IF k = p - 1 THEN v3[j] ELSE v3[v7[k]]
              /\ v4'[v7[k]] = IF k = p + 1 THEN v4[j] ELSE v4[v7[k]]
  <2>1. v7[k] \in QueueJobs
    BY <1>2
  <2>2. v3'[v7[k]] = IF k = p - 1 THEN v3[j] ELSE v3[v7[k]]
    <3>1. CASE p = 1
      BY <1>2, <1>7, <3>1
    <3>2. CASE p # 1
      <4>1. v7[k] = v7[p - 1] <=> k = p - 1
        BY <1>2, <1>6, <3>2 DEF JQ!JobInv
      <4> QED BY <1>7, <1>8, <2>1, <3>2, <4>1
    <3> QED BY <3>1, <3>2
  <2>3. v4'[v7[k]] = IF k = p + 1 THEN v4[j] ELSE v4[v7[k]]
    <3>1. CASE p = n
      BY <1>2, <1>7, <3>1
    <3>2. CASE p # n
      <4>1. v7[k] = v7[p + 1] <=> k = p + 1
        BY <1>2, <1>6, <3>2 DEF JQ!JobInv
      <4> QED BY <1>7, <1>8, <2>1, <3>2, <4>1
    <3> QED BY <3>1, <3>2
  <2> QED BY <2>2, <2>3
<1> QED BY <1>1, <1>2, <1>7, <1>9, <1>10

LEMMA JobRemoveStep ==
    ASSUME JQ!JobInv, NEW t \in QueueThreads, JQ!JobRemove(t)
    PROVE  JQ!JobInv'
<1> USE JobConstants
<1> DEFINE j == v6[t]
           p == JQ!Place(j)
           n == Len(v7)
           Old(k) == IF k < p THEN k ELSE k + 1
<1>0. j = v6[t] /\ p = JQ!Place(j) /\ n = Len(v7)
  OBVIOUS
<1> HIDE DEF j, p, n
<1>1. /\ j \in QueueJobs /\ JQ!Queued(j) /\ p \in 1 .. n /\ v7[p] = j /\ n \in Nat
      /\ v1' = IF p = 1 THEN v3[j] ELSE v1
      /\ v2' = IF p = n THEN v4[j] ELSE v2
      /\ v3' \in [QueueJobs -> QueueJobs \cup {"NULL"}] /\ v4' \in [QueueJobs -> QueueJobs \cup {"NULL"}]
      /\ \A k \in 1 .. n :
            k # p =>
               /\ v3'[v7[k]] = IF k = p - 1 THEN v3[j] ELSE v3[v7[k]]
               /\ v4'[v7[k]] = IF k = p + 1 THEN v4[j] ELSE v4[v7[k]]
  BY <1>0, JobUnlinks
<1>2. /\ v6' = [v6 EXCEPT ![t] = "NULL"] /\ v5' = v5
      /\ v7' = SubSeq(v7, 1, p - 1) \o SubSeq(v7, p + 1, n)
  BY <1>0, <1>1 DEF JQ!JobRemove, JQ!Without
<1>3. /\ \A k \in 1 .. n : /\ v3[v7[k]] = IF k = n THEN "NULL" ELSE v7[k + 1]
                           /\ v4[v7[k]] = IF k = 1 THEN "NULL" ELSE v7[k - 1]
      /\ \A k \in 1 .. n : v7[k] = j => k = p
      /\ v7 \in Seq(QueueJobs)
      /\ v1 = v7[1] /\ v2 = v7[n]
  BY <1>0, <1>1 DEF JQ!JobInv, JQ!Linked, JQ!TypeOK
<1>4. /\ v7' \in Seq(QueueJobs) /\ Len(v7') = n - 1
      /\ \A k \in 1 .. n - 1 : v7'[k] = v7[Old(k)] /\ Old(k) \in (1 .. n) \ {p}
  <2> DEFINE a == SubSeq(v7, 1, p - 1)
             b == SubSeq(v7, p + 1, n)
  <2>1. /\ a \in Seq(QueueJobs) /\ Len(a) = p - 1 /\ \A k \in 1 .. p - 1 : a[k] = v7[k]
    <3>1. \A k \in 1 .. p - 1 : v7[k] \in QueueJobs
      BY <1>0, <1>1, <1>3
    <3>2. 1 \in Int /\ p - 1 \in Int
      BY <1>1
    <3> HIDE DEF a
    <3>3. /\ a \in Seq(QueueJobs) /\ Len(a) = (IF 1 <= p - 1 THEN (p - 1) - 1 + 1 ELSE 0)
          /\ \A k \in 1 .. (p - 1) - 1 + 1 : a[k] = v7[1 + k - 1]
      BY <3>1, <3>2, SubSeqProperties DEF a
    <3> QED BY <1>1, <3>3
  <2>2. /\ b \in Seq(QueueJobs) /\ Len(b) = n - p /\ \A k \in 1 .. n - p : b[k] = v7[p + k]
    <3>1. \A k \in p + 1 .. n : v7[k] \in QueueJobs
      BY <1>0, <1>1, <1>3
    <3>2. p + 1 \in Int /\ n \in Int
      BY <1>1
    <3> HIDE DEF b
    <3>3. /\ b \in Seq(QueueJobs) /\ Len(b) = (IF p + 1 <= n THEN n - (p + 1) + 1 ELSE 0)
          /\ \A k \in 1 .. n - (p + 1) + 1 : b[k] = v7[(p + 1) + k - 1]
      BY <3>1, <3>2, SubSeqProperties DEF b
    <3> QED BY <1>1, <3>3
  <2> HIDE DEF a, b
  <2>3. v7' = a \o b
    BY <1>2 DEF a, b
  <2>4. /\ v7' \in Seq(QueueJobs) /\ Len(v7') = n - 1
        /\ \A k \in 1 .. n - 1 : v7'[k] = IF k <= p - 1 THEN a[k] ELSE b[k - (p - 1)]
    <3>1. /\ a \o b \in Seq(QueueJobs) /\ Len(a \o b) = Len(a) + Len(b)
          /\ \A k \in 1 .. Len(a) + Len(b) :
                (a \o b)[k] = IF k <= Len(a) THEN a[k] ELSE b[k - Len(a)]
      BY <2>1, <2>2, ConcatProperties
    <3>2. Len(a) = p - 1 /\ Len(a) + Len(b) = n - 1
      BY <1>1, <2>1, <2>2
    <3> QED BY <2>3, <3>1, <3>2
  <2>5. ASSUME NEW k \in 1 .. n - 1
        PROVE  v7'[k] = v7[Old(k)] /\ Old(k) \in (1 .. n) \ {p}
    <3>1. CASE k < p
      BY <1>1, <2>1, <2>4, <3>1
    <3>2. CASE ~(k < p)
      <4>1. v7'[k] = b[k - (p - 1)] /\ k - (p - 1) \in 1 .. n - p
        BY <1>1, <2>4, <3>2
      <4>2. b[k - (p - 1)] = v7[p + (k - (p - 1))] /\ p + (k - (p - 1)) = k + 1
        BY <1>1, <2>2, <4>1
      <4> QED BY <1>1, <3>2, <4>1, <4>2
    <3> QED BY <3>1, <3>2
  <2> QED BY <2>4, <2>5
<1>5. JQ!TypeOK'
  <2>1. {v1', v2'} \subseteq QueueJobs \cup {"NULL"}
    BY <1>1 DEF JQ!JobInv, JQ!TypeOK
  <2> QED BY <1>1, <1>2, <1>4, <2>1 DEF JQ!JobInv, JQ!TypeOK
<1>6. ASSUME NEW k \in 1 .. n - 1
      PROVE  /\ v3'[v7'[k]] = IF k = n - 1 THEN "NULL" ELSE v7'[k + 1]
             /\ v4'[v7'[k]] = IF k = 1 THEN "NULL" ELSE v7'[k - 1]
  <2>1. v7'[k] = v7[Old(k)] /\ Old(k) \in (1 .. n) \ {p}
    BY <1>4
  <2>2. /\ v3'[v7[Old(k)]] = IF Old(k) = p - 1 THEN v3[j] ELSE v3[v7[Old(k)]]
        /\ v4'[v7[Old(k)]] = IF Old(k) = p + 1 THEN v4[j] ELSE v4[v7[Old(k)]]
    BY <1>1, <2>1
  <2>3. /\ v3[v7[Old(k)]] = IF Old(k) = n THEN "NULL" ELSE v7[Old(k) + 1]
        /\ v4[v7[Old(k)]] = IF Old(k) = 1 THEN "NULL" ELSE v7[Old(k) - 1]
    BY <1>3, <2>1
  <2>4. /\ v3[j] = IF p = n THEN "NULL" ELSE v7[p + 1]
        /\ v4[j] = IF p = 1 THEN "NULL" ELSE v7[p - 1]
    BY <1>1, <1>3
  <2>5. k # n - 1 => v7'[k + 1] = v7[Old(k + 1)]
    BY <1>1, <1>4
  <2>6. k # 1 => v7'[k - 1] = v7[Old(k - 1)]
    BY <1>1, <1>4
  <2>7. v3'[v7'[k]] = IF k = n - 1 THEN "NULL" ELSE v7'[k + 1]
    <3>1. CASE k = p - 1
      BY <1>1, <2>1, <2>2, <2>4, <2>5, <3>1
    <3>2. CASE k # p - 1
      BY <1>1, <2>1, <2>2, <2>3, <2>5, <3>2
    <3> QED BY <3>1, <3>2
  <2>8. v4'[v7'[k]] = IF k = 1 THEN "NULL" ELSE v7'[k - 1]
    <3>1. CASE k = p
      BY <1>1, <2>1, <2>2, <2>4, <2>6, <3>1
    <3>2. CASE k # p
      BY <1>1, <2>1, <2>2, <2>3, <2>6, <3>2
    <3> QED BY <3>1, <3>2
  <2> QED BY <2>7, <2>8
<1>7. /\ v1' = IF v7' = <<>> THEN "NULL" ELSE v7'[1]
      /\ v2' = IF v7' = <<>> THEN "NULL" ELSE v7'[Len(v7')]
  <2>1. v7' = <<>> <=> n = 1
    BY <1>1, <1>4
  <2>2. /\ v3[j] = IF p = n THEN "NULL" ELSE v7[p + 1]
        /\ v4[j] = IF p = 1 THEN "NULL" ELSE v7[p - 1]
    BY <1>1, <1>3
  <2>3. CASE n = 1
    BY <1>1, <2>1, <2>2, <2>3
  <2>4. CASE n # 1
    <3>1. v7'[1] = v7[Old(1)] /\ v7'[n - 1] = v7[Old(n - 1)]
      BY <1>1, <1>4, <2>4
    <3> QED BY <1>1, <1>3, <1>4, <2>1, <2>2, <2>4, <3>1
  <2> QED BY <2>3, <2>4
<1>8. JQ!Linked'
  BY <1>4, <1>6, <1>7 DEF JQ!Linked
<1>9. \A k, m \in 1 .. Len(v7') : v7'[k] = v7'[m] => k = m
  <2> TAKE k, m \in 1 .. Len(v7')
  <2>1. v7[Old(k)] = v7[Old(m)] => Old(k) = Old(m)
    BY <1>0, <1>1, <1>4 DEF JQ!JobInv
  <2> QED BY <1>1, <1>4, <2>1
<1>10. ASSUME NEW i \in QueueJobs, JQ!Queued(i), i # j PROVE JQ!Queued(i)'
  <2>1. PICK k \in 1 .. n : v7[k] = i
    BY <1>0, <1>10 DEF JQ!Queued
  <2>2. k # p
    BY <1>1, <1>10, <2>1
  <2>3. CASE k < p
    BY <1>1, <1>4, <2>1, <2>2, <2>3 DEF JQ!Queued
  <2>4. CASE k > p
    <3>1. k - 1 \in 1 .. n - 1 /\ Old(k - 1) = k
      BY <1>1, <2>4
    <3> QED BY <1>4, <2>1, <3>1 DEF JQ!Queued
  <2> QED BY <1>1, <2>2, <2>3, <2>4
<1>11. ASSUME NEW u \in QueueThreads, NEW i \in QueueJobs, v6'[u] = i
       PROVE  JQ!Queued(i)' /\ v5'[i] = u
  <2>1. u # t /\ v6[u] = i
    BY <1>0, <1>2, <1>11, JobConstants DEF JQ!JobInv, JQ!TypeOK
  <2>2. JQ!Queued(i) /\ v5[i] = u /\ v5[j] = t
    BY <1>0, <1>1, <2>1 DEF JQ!JobInv
  <2> QED BY <1>2, <1>10, <2>1, <2>2
<1> QED BY <1>5, <1>8, <1>9, <1>11 DEF JQ!JobInv

LEMMA JobNext == JQ!JobInv /\ JQ!Next => JQ!JobInv'
BY JobInsertStep, JobAppendStep, JobFindStep, JobRemoveStep DEF JQ!Next

LEMMA JobKept == JQ!JobInv => JQ!QueueInOrder
<1> SUFFICES ASSUME JQ!JobInv PROVE JQ!QueueInOrder
  OBVIOUS
<1> DEFINE n == Len(v7)
<1>1. v7 \in Seq(QueueJobs) /\ n \in Nat /\ (v7 = <<>> <=> n = 0)
  BY DEF JQ!JobInv, JQ!TypeOK
<1>2. \A k \in 1 .. n : /\ v3[v7[k]] = IF k = n THEN "NULL" ELSE v7[k + 1]
                        /\ v4[v7[k]] = IF k = 1 THEN "NULL" ELSE v7[k - 1]
  BY DEF JQ!JobInv, JQ!Linked
<1>3. n = 0 => v1 = "NULL" /\ v2 = "NULL"
  BY <1>1 DEF JQ!JobInv, JQ!Linked
<1>4. n > 0 => /\ v1 = v7[1] /\ v4[v7[1]] = "NULL"
               /\ v2 = v7[n] /\ v3[v7[n]] = "NULL"
  BY <1>1, <1>2 DEF JQ!JobInv, JQ!Linked
<1>5. \A k \in 1 .. n - 1 :
         v3[v7[k]] = v7[k + 1] /\ v4[v7[k + 1]] = v7[k]
  BY <1>1, <1>2
<1>6. \A t \in QueueThreads : v6[t] # "NULL" => JQ!Queued(v6[t])
  BY DEF JQ!JobInv, JQ!TypeOK
<1> QED BY <1>3, <1>4, <1>5, <1>6 DEF JQ!QueueInOrder


(***************************************************************************)
(* Messages from several queues.                                            *)
(***************************************************************************)

LEMMA PollConstants == NQ \in Nat
BY ProgramsAssumption

LEMMA PollInit == PM!Init => PM!PollInv
<1> SUFFICES ASSUME PM!Init PROVE PM!PollInv
  OBVIOUS
<1> USE DEF PM!Init
<1>1. PM!TypeOK
  BY DEF PM!TypeOK
<1>2. ASSUME NEW q \in PM!Queues PROVE PM!Whole(q) /\ PM!Piped(q) /\ PM!Handed(q)
  BY DEF PM!Whole, PM!Piped, PM!Handed, PM!Served
<1> QED BY <1>1, <1>2 DEF PM!PollInv

\* The queue the loop is at is one of those it has found ready.
LEMMA PollCurrent ==
    ASSUME PM!TypeOK, v7.ready # {}
    PROVE  PM!Current \in v7.ready /\ PM!Current \in PM!Queues
<1>1. v7.ready \in SUBSET (0 .. NQ) /\ v7.ready \subseteq PM!Queues
  BY PollConstants DEF PM!TypeOK, PM!Queues
<1>2. \E x \in v7.ready : \A y \in v7.ready : x <= y
  BY <1>1, LeastNumber, PollConstants
<1>3. PM!Current \in v7.ready
  BY <1>2 DEF PM!Current, PM!Min
<1> QED BY <1>1, <1>3

LEMMA PollHelperStep ==
    ASSUME PM!PollInv, v1 = "pollmsg" \/ ~v9, NEW p \in PM!Queues, PM!Helper(p)
    PROVE  PM!PollInv'
<1> PM!TypeOK /\ PM!Whole(p) /\ (v7.ready = {} <=> v7.at = "poll")
  BY DEF PM!PollInv
<1> USE DEF PM!Goto
<1>1. UNCHANGED <<v1, v7, v8, v9>> /\ (PM!Current' = PM!Current)
  BY DEF PM!Helper, PM!MsgRcv, PM!Lock, PM!Write, PM!CondWait, PM!Woken, PM!Current
<1>2. /\ \A q \in PM!Queues \ {p} : /\ v3'[q] = v3[q] /\ v2'[q] = v2[q]
                                 /\ v4'[q] = v4[q] /\ v5'[q] = v5[q] /\ v6'[q] = v6[q]
      /\ PM!TypeOK'
  <2>1. v5[p] \in Seq(Nat) /\ v4[p] \in Nat
    BY DEF PM!TypeOK
  <2>2. Append(v5[p], v4[p]) \in Seq(Nat) /\ Append(v5[p], 0) \in Seq(Nat)
    BY <2>1
  <2>3. CASE PM!MsgRcv(p) \/ PM!Lock(p) \/ PM!CondWait(p) \/ PM!Woken(p)
    <3>1. CASE PM!MsgRcv(p)
      <4>1. /\ v2' = [v2 EXCEPT ![p] = v2[p] + 1]
            /\ v4' = [v4 EXCEPT ![p] = v2[p] + 1]
            /\ \E x \in {"write", "lock"} : v3' = [v3 EXCEPT ![p] = x]
            /\ UNCHANGED <<v5, v6>>
        BY <3>1 DEF PM!MsgRcv
      <4> QED BY <1>1, <4>1 DEF PM!TypeOK
    <3>2. CASE PM!Lock(p) \/ PM!CondWait(p)
      BY <3>2 DEF PM!Lock, PM!CondWait, PM!TypeOK
    <3>3. CASE PM!Woken(p)
      BY <3>3 DEF PM!Woken, PM!TypeOK
    <3> QED BY <2>3, <3>1, <3>2, <3>3
  <2>4. CASE PM!Write(p)
    <3>1. /\ \E f \in {Append(v5[p], v4[p]), Append(v5[p], 0)} : v5' = [v5 EXCEPT ![p] = f]
          /\ v4' = [v4 EXCEPT ![p] = 0] \/ v4' = v4
          /\ \E x \in {"msgrcv", "cond_wait"} : v3' = [v3 EXCEPT ![p] = x]
          /\ UNCHANGED <<v2, v6>>
      BY <2>4 DEF PM!Write
    <3>2. v5' \in [PM!Queues -> Seq(Nat)]
      <4>1. PICK f \in Seq(Nat) : v5' = [v5 EXCEPT ![p] = f]
        BY <2>2, <3>1
      <4> QED BY <4>1 DEF PM!TypeOK
    <3>3. v3' \in [PM!Queues -> {"msgrcv", "lock", "write", "cond_wait", "asleep", "woken"}]
      BY <3>1 DEF PM!TypeOK
    <3>4. \A q \in PM!Queues \ {p} : /\ v3'[q] = v3[q] /\ v2'[q] = v2[q]
                                 /\ v4'[q] = v4[q] /\ v5'[q] = v5[q] /\ v6'[q] = v6[q]
      BY <3>1 DEF PM!TypeOK
    <3>5. v2' \in [PM!Queues -> Nat] /\ v6' \in [PM!Queues -> {"free", "helper"}]
      BY <3>1 DEF PM!TypeOK
    <3>6. v4' \in [PM!Queues -> Nat]
      <4>1. v4 \in [PM!Queues -> Nat] /\ [v4 EXCEPT ![p] = 0] \in [PM!Queues -> Nat]
        BY DEF PM!TypeOK
      <4> QED BY <3>1, <4>1
    <3> QED BY <1>1, <3>2, <3>3, <3>4, <3>5, <3>6 DEF PM!TypeOK
  <2> QED BY <2>3, <2>4 DEF PM!Helper
<1>3. ASSUME NEW q \in PM!Queues PROVE PM!Whole(q)'
  BY <1>1 DEF PM!PollInv, PM!Whole
<1>4. CASE v1 = "pollmsg"
  <2>1. PM!Piped(p)
    BY <1>4 DEF PM!PollInv
  <2>2. PM!Piped(p)'
    <3>1. CASE PM!MsgRcv(p)
      BY <1>1, <1>4, <2>1, <3>1 DEF PM!MsgRcv, PM!Piped, PM!TypeOK
    <3>2. CASE PM!Write(p)
      <4>1. /\ v5'[p] = Append(v5[p], v4[p]) /\ v3'[p] = "msgrcv" /\ v2' = v2
            /\ v3[p] = "write"
        BY <1>4, <3>2 DEF PM!Write, PM!TypeOK
      <4>2. v5[p] \in Seq(Nat) /\ v4[p] \in Nat /\ v8[p] \in Seq(Nat)
        BY DEF PM!TypeOK
      <4> DEFINE a == Len(v8[p])
                 b == Len(v5[p])
                 c == Len(v5'[p])
      <4>a. PICK t : t = v5'[p]
        OBVIOUS
      <4>b. t = Append(v5[p], v4[p])
        BY <4>1, <4>a
      <4>c. /\ Len(t) = Len(v5[p]) + 1 /\ t # <<>>
            /\ \A k \in 1 .. Len(v5[p]) : t[k] = v5[p][k]
            /\ t[Len(v5[p]) + 1] = v4[p]
        BY <4>2, <4>b, AppendProperties
      <4>d. a \in Nat /\ b \in Nat
        BY <4>2, LenProperties
      <4>3. /\ c = b + 1 /\ v5'[p] # <<>>
            /\ \A k \in 1 .. b : v5'[p][k] = v5[p][k]
            /\ v5'[p][b + 1] = v4[p] /\ a \in Nat /\ b \in Nat
        BY <4>a, <4>c, <4>d
      <4>4. /\ v4[p] = a + b + 1 /\ v2[p] = a + b + 1
            /\ \A k \in 1 .. b : v5[p][k] = a + k
        BY <2>1, <4>1 DEF PM!Piped
      <4> HIDE DEF a, b, c
      <4>5. \A k \in 1 .. c : v5'[p][k] = a + k
        <5> TAKE k \in 1 .. c
        <5>1. CASE k = b + 1
          BY <4>3, <4>4, <5>1
        <5>2. CASE k # b + 1
          BY <4>3, <4>4, <5>2
        <5> QED BY <5>1, <5>2
      <4>6. v2[p] = a + c
        BY <4>3, <4>4
      <4> USE DEF a, b, c
      <4>7. v2'[p] = v2[p] /\ v8'[p] = v8[p]
        BY <1>1, <4>1
      <4> QED BY <1>1, <4>1, <4>7, <4>3, <4>5, <4>6 DEF PM!Piped
    <3> QED BY <2>1, <3>1, <3>2 DEF PM!Helper, PM!Lock, PM!CondWait, PM!Woken, PM!Piped
  <2>3. ASSUME NEW q \in PM!Queues \ {p} PROVE PM!Piped(q)'
    <3>1. PM!Piped(q)
      BY <1>4 DEF PM!PollInv
    <3> QED BY <1>1, <1>2, <3>1 DEF PM!Piped
  <2> QED BY <1>1, <1>2, <1>3, <1>4, <2>2, <2>3 DEF PM!PollInv
<1>5. CASE v1 # "pollmsg"
  <2>1. PM!Handed(p) /\ (\A q \in PM!Queues : PM!Served(q)' <=> PM!Served(q))
    BY <1>1, <1>5 DEF PM!PollInv, PM!Served
  <2>2. PM!Handed(p)'
    <3>1. CASE PM!MsgRcv(p) \/ PM!Lock(p) \/ PM!CondWait(p) \/ PM!Woken(p)
      BY <1>1, <1>5, <2>1, <3>1 DEF PM!MsgRcv, PM!Lock, PM!CondWait, PM!Woken, PM!Handed, PM!TypeOK
    <3>2. CASE PM!Write(p)
      <4>1. /\ v5'[p] = Append(v5[p], 0) /\ v3'[p] = "cond_wait" /\ v3[p] = "write"
            /\ UNCHANGED <<v2, v4, v6>>
        BY <1>5, <3>2 DEF PM!Write, PM!TypeOK
      <4>2. v5'[p] = <<0>>
        <5>1. v5[p] = <<>>
          BY <2>1, <4>1 DEF PM!Handed
        <5>2. Append(<<>>, 0) = <<0>>
          OBVIOUS
        <5> QED BY <4>1, <5>1, <5>2
      <4> QED BY <1>1, <2>1, <4>1, <4>2 DEF PM!Handed
    <3> QED BY <3>1, <3>2 DEF PM!Helper
  <2>3. ASSUME NEW q \in PM!Queues \ {p} PROVE PM!Handed(q)'
    BY <1>1, <1>2, <1>5, <2>1 DEF PM!PollInv, PM!Handed
  <2> QED BY <1>1, <1>2, <1>3, <1>5, <2>2, <2>3 DEF PM!PollInv
<1> QED BY <1>4, <1>5

LEMMA PollPollStep ==
    ASSUME PM!PollInv, v1 = "pollmsg" \/ ~v9, PM!Poll
    PROVE  PM!PollInv'
<1> PM!TypeOK /\ v7.ready = {}
  BY DEF PM!PollInv, PM!Poll
<1>1. /\ UNCHANGED <<v1, v2, v3, v4, v5, v6, v8, v9>>
      /\ v7'.at = "read" /\ v7'.ready = {q \in PM!Queues : v5[q] # <<>>} /\ v7'.ready # {}
      /\ v7' \in [at : {"poll", "read", "printf", "lock"}, ready : SUBSET PM!Queues]
      /\ v7.at = "poll"
  BY DEF PM!Poll
<1>2. PM!TypeOK'
  BY <1>1 DEF PM!TypeOK
<1>3. ASSUME NEW q \in PM!Queues
      PROVE  PM!Whole(q)' /\ IF v1 = "pollmsg" THEN PM!Piped(q)' ELSE PM!Handed(q)'
  <2>1. ~PM!Served(q) /\ ~PM!Served(q)' /\ (q \in v7'.ready => v5[q] # <<>>)
    BY <1>1 DEF PM!Served
  <2>2. PM!Whole(q) /\ IF v1 = "pollmsg" THEN PM!Piped(q) ELSE PM!Handed(q)
    BY DEF PM!PollInv
  <2>3. PM!Whole(q)'
    BY <1>1, <2>2 DEF PM!Whole
  <2>4. CASE v1 = "pollmsg"
    BY <1>1, <2>1, <2>2, <2>3, <2>4 DEF PM!Piped
  <2>5. CASE v1 # "pollmsg"
    BY <1>1, <2>1, <2>2, <2>3, <2>5 DEF PM!Handed
  <2> QED BY <2>4, <2>5
<1> QED BY <1>1, <1>2, <1>3 DEF PM!PollInv

\* What is appended to the numbers up to n is n + 1.
LEMMA PollPrints ==
    ASSUME NEW s \in Seq(Nat), \A k \in 1 .. Len(s) : s[k] = k, NEW x, x = Len(s) + 1
    PROVE  /\ Append(s, x) \in Seq(Nat) /\ Len(Append(s, x)) = Len(s) + 1 /\ Len(s) \in Nat
           /\ \A k \in 1 .. Len(Append(s, x)) : Append(s, x)[k] = k
<1> DEFINE n == Len(s)
           t == Append(s, x)
<1>1. n \in Nat
  BY LenProperties
<1>2. x \in Nat
  BY <1>1
<1>3. t \in Seq(Nat) /\ Len(t) = n + 1 /\ (\A k \in 1 .. n : t[k] = s[k]) /\ t[n + 1] = x
  BY <1>2, AppendProperties
<1> HIDE DEF t
<1>4. ASSUME NEW k \in 1 .. Len(t) PROVE t[k] = k
  <2>1. k \in 1 .. n \/ k = n + 1
    BY <1>1, <1>3
  <2> QED BY <1>3, <2>1
<1> QED BY <1>1, <1>3, <1>4 DEF t

LEMMA PollReadStep ==
    ASSUME PM!PollInv, v1 = "pollmsg", PM!Read
    PROVE  PM!PollInv'
<1>1. PM!TypeOK /\ v7.ready # {} /\ v7.at = "read"
  BY DEF PM!PollInv, PM!Read
<1>2. PICK p \in PM!Queues : p = PM!Current /\ p \in v7.ready
  BY <1>1, PollCurrent
<1>3. PM!Piped(p) /\ PM!Whole(p)
  BY <1>2 DEF PM!PollInv
<1> DEFINE n == Len(v8[p])
           x == Head(v5[p])
<1>4. /\ v5' = [v5 EXCEPT ![p] = Tail(v5[p])]
      /\ v8' = [v8 EXCEPT ![p] = Append(v8[p], x)]
      /\ UNCHANGED <<v1, v2, v3, v4, v6, v9>>
      /\ v7'.ready = v7.ready \ {p}
      /\ v7'.at = IF v7.ready = {p} THEN "poll" ELSE "read"
      /\ v7' \in [at : {"poll", "read", "printf", "lock"}, ready : SUBSET PM!Queues]
  BY <1>1, <1>2 DEF PM!Read, PM!Advance, PM!TypeOK
<1>5. v5[p] \in Seq(Nat) /\ v5[p] # <<>> /\ v8[p] \in Seq(Nat) /\ n \in Nat
  BY <1>1, <1>2, <1>3, LenProperties DEF PM!TypeOK, PM!Piped
<1> DEFINE b == Len(v5[p])
           c == Len(Tail(v5[p]))
           e == Len(Append(v8[p], x))
<1>6. /\ x = v5[p][1] /\ Tail(v5[p]) \in Seq(Nat) /\ c = b - 1 /\ b \in Nat /\ 1 \in 1 .. b
      /\ \A k \in 1 .. c : Tail(v5[p])[k] = v5[p][k + 1]
  <2>1. b \in Nat /\ b # 0
    BY <1>5, LenProperties
  <2>2. x = v5[p][1]
    BY <1>5
  <2> QED BY <1>5, <2>1, <2>2, HeadTailProperties
<1>7. /\ x = n + 1 /\ \A k \in 1 .. b : v5[p][k] = n + k
      /\ v3[p] \in {"msgrcv", "write"}
      /\ v3[p] = "msgrcv" => v2[p] = n + b
      /\ v3[p] = "write" => v2[p] = n + b + 1 /\ v4[p] = v2[p]
  BY <1>3, <1>6 DEF PM!Piped
<1>8. /\ Append(v8[p], x) \in Seq(Nat) /\ e = n + 1
      /\ \A k \in 1 .. e : Append(v8[p], x)[k] = k
  BY <1>3, <1>5, <1>7, PollPrints DEF PM!Whole
<1>9. v5'[p] = Tail(v5[p]) /\ v8'[p] = Append(v8[p], x)
      /\ \A q \in PM!Queues \ {p} : v5'[q] = v5[q] /\ v8'[q] = v8[q]
  BY <1>1, <1>2, <1>4 DEF PM!TypeOK
<1>10. PM!TypeOK'
  <2>1. v5' \in [PM!Queues -> Seq(Nat)]
    <3>1. PICK f \in Seq(Nat) : v5' = [v5 EXCEPT ![p] = f]
      BY <1>4, <1>6
    <3> QED BY <1>1, <3>1 DEF PM!TypeOK
  <2>2. v8' \in [PM!Queues -> Seq(Nat)]
    <3>1. PICK f \in Seq(Nat) : v8' = [v8 EXCEPT ![p] = f]
      BY <1>4, <1>8
    <3> QED BY <1>1, <3>1 DEF PM!TypeOK
  <2> QED BY <1>1, <1>4, <2>1, <2>2 DEF PM!TypeOK
<1>11. PM!Whole(p)' /\ PM!Piped(p)'
  <2>1. Len(v8'[p]) = e /\ Len(v5'[p]) = c
    BY <1>9
  <2>2. /\ \A k \in 1 .. c : v5'[p][k] = e + k
        /\ v3'[p] \in {"msgrcv", "write"}
        /\ v3'[p] = "msgrcv" => v2'[p] = e + c
        /\ v3'[p] = "write" => v2'[p] = e + c + 1 /\ v4'[p] = v2'[p]
    <3>0. UNCHANGED <<v3, v2, v4>> /\ v5'[p] = Tail(v5[p])
      BY <1>4, <1>9
    <3> HIDE DEF n, b, c, e
    <3>1. ASSUME NEW k \in 1 .. c PROVE v5'[p][k] = e + k
      <4>1. k + 1 \in 1 .. b /\ v5'[p][k] = v5[p][k + 1]
        <5>1. Tail(v5[p])[k] = v5[p][k + 1]
          BY <1>6
        <5>2. k + 1 \in 1 .. b
          BY <1>6
        <5> QED BY <3>0, <5>1, <5>2
      <4>2. v5[p][k + 1] = n + (k + 1)
        BY <1>7, <4>1
      <4> QED BY <1>5, <1>8, <4>1, <4>2
    <3>2. n + b = e + c
      BY <1>5, <1>6, <1>8
    <3> QED BY <1>7, <3>0, <3>1, <3>2
  <2>3. PM!Whole(p)'
    BY <1>8, <1>9 DEF PM!Whole
  <2>4. p \notin v7'.ready
    BY <1>4
  <2> QED BY <2>1, <2>2, <2>3, <2>4 DEF PM!Piped, PM!Whole
<1>12. ASSUME NEW q \in PM!Queues \ {p} PROVE PM!Whole(q)' /\ PM!Piped(q)'
  <2>1. PM!Whole(q) /\ PM!Piped(q)
    BY DEF PM!PollInv
  <2>2. q \in v7'.ready => q \in v7.ready
    BY <1>4
  <2> QED BY <1>4, <1>9, <2>1, <2>2 DEF PM!Whole, PM!Piped
<1>13. (v7'.ready = {} <=> v7'.at = "poll") /\ v7'.at \in {"poll", "read"}
  BY <1>2, <1>4
<1> QED BY <1>4, <1>10, <1>11, <1>12, <1>13 DEF PM!PollInv

\* pollmsg2.c: the byte is taken, the message printed, the helper told.
LEMMA PollServeStep ==
    ASSUME PM!PollInv, v1 # "pollmsg", ~v9, PM!Read \/ PM!Printf \/ PM!CondSignal
    PROVE  PM!PollInv'
<1>1. PM!TypeOK /\ v7.ready # {} /\ v7.at \in {"read", "printf", "lock"}
  BY DEF PM!PollInv, PM!Read, PM!Printf, PM!CondSignal
<1>2. PICK p \in PM!Queues : p = PM!Current /\ p \in v7.ready
  BY <1>1, PollCurrent
<1>3. PM!Handed(p) /\ PM!Whole(p)
  BY <1>2 DEF PM!PollInv
<1>4. \A q \in PM!Queues : PM!Served(q) <=> v7.at \in {"printf", "lock"} /\ q = p
  BY <1>2 DEF PM!Served
<1>5. CASE PM!Read
  <2> USE <1>5
  <2>1. /\ v7.at = "read" /\ v5' = [v5 EXCEPT ![p] = Tail(v5[p])]
        /\ v7' = [v7 EXCEPT !.at = "printf"]
        /\ UNCHANGED <<v1, v2, v3, v4, v6, v8, v9>>
    BY <1>2 DEF PM!Read
  <2>2. v7'.at = "printf" /\ v7'.ready = v7.ready /\ PM!Current' = PM!Current
        /\ v7' \in [at : {"poll", "read", "printf", "lock"}, ready : SUBSET PM!Queues]
    BY <1>1, <2>1 DEF PM!TypeOK, PM!Current
  <2>3. v3[p] \in {"cond_wait", "asleep"} /\ v5[p] = <<0>>
    BY <1>1, <1>2, <1>3, <1>4, <2>1 DEF PM!Handed, PM!TypeOK
  <2>4. \A q \in PM!Queues : PM!Served(q)' <=> q = p
    BY <1>2, <2>2 DEF PM!Served
  <2>5. v5'[p] = <<>> /\ \A q \in PM!Queues \ {p} : v5'[q] = v5[q]
    <3>1. Tail(<<0>>) = <<>>
      OBVIOUS
    <3> QED BY <1>1, <1>2, <2>1, <2>3, <3>1 DEF PM!TypeOK
  <2>6. PM!TypeOK'
    <3>1. \A q \in PM!Queues : v5'[q] \in Seq(Nat)
      <4>1. <<>> \in Seq(Nat)
        OBVIOUS
      <4>2. \A q \in PM!Queues : v5[q] \in Seq(Nat)
        BY <1>1 DEF PM!TypeOK
      <4> QED BY <2>5, <4>1, <4>2
    <3>2. v5' = [q \in PM!Queues |-> v5'[q]]
      BY <1>1, <2>1 DEF PM!TypeOK
    <3> HIDE <1>5
    <3>3. v5' \in [PM!Queues -> Seq(Nat)]
      BY <3>1, <3>2
    <3> QED BY <1>1, <2>1, <2>2, <3>3 DEF PM!TypeOK
  <2>7. PM!Whole(p)' /\ PM!Handed(p)'
    BY <1>1, <1>3, <1>4, <2>1, <2>2, <2>3, <2>4, <2>5 DEF PM!Whole, PM!Handed
  <2>8. ASSUME NEW q \in PM!Queues \ {p} PROVE PM!Whole(q)' /\ PM!Handed(q)'
    <3>1. PM!Whole(q) /\ PM!Handed(q) /\ ~PM!Served(q)
      BY <1>4, <2>1 DEF PM!PollInv
    <3> QED BY <2>1, <2>2, <2>4, <2>5, <3>1 DEF PM!Whole, PM!Handed
  <2> QED BY <1>1, <2>1, <2>2, <2>6, <2>7, <2>8 DEF PM!PollInv
<1>6. CASE PM!Printf
  <2> USE <1>6
  <2>1. /\ v7.at = "printf" /\ v8' = [v8 EXCEPT ![p] = Append(v8[p], v4[p])]
        /\ v7' = [v7 EXCEPT !.at = "lock"]
        /\ UNCHANGED <<v1, v2, v3, v4, v5, v6, v9>>
    BY <1>2 DEF PM!Printf
  <2>2. v7'.at = "lock" /\ v7'.ready = v7.ready /\ PM!Current' = PM!Current
        /\ v7' \in [at : {"poll", "read", "printf", "lock"}, ready : SUBSET PM!Queues]
    BY <1>1, <2>1 DEF PM!TypeOK, PM!Current
  <2>3. /\ v3[p] \in {"cond_wait", "asleep"} /\ v5[p] = <<>>
        /\ v2[p] = Len(v8[p]) + 1 /\ v4[p] = v2[p]
    BY <1>1, <1>2, <1>3, <1>4, <2>1 DEF PM!Handed, PM!TypeOK
  <2>4. \A q \in PM!Queues : PM!Served(q)' <=> q = p
    BY <1>2, <2>2 DEF PM!Served
  <2>5. v8'[p] = Append(v8[p], v4[p]) /\ \A q \in PM!Queues \ {p} : v8'[q] = v8[q]
    BY <1>1, <1>2, <2>1 DEF PM!TypeOK
  <2>6. v8[p] \in Seq(Nat) /\ v4[p] = Len(v8[p]) + 1
    BY <1>1, <1>2, <2>3 DEF PM!TypeOK
  <2>7. /\ v8'[p] \in Seq(Nat) /\ Len(v8'[p]) = Len(v8[p]) + 1
        /\ \A k \in 1 .. Len(v8'[p]) : v8'[p][k] = k
    BY <1>3, <2>5, <2>6, PollPrints DEF PM!Whole
  <2>8. PM!TypeOK'
    <3>1. PICK f \in Seq(Nat) : v8' = [v8 EXCEPT ![p] = f]
      BY <2>1, <2>5, <2>7
    <3>2. v8' \in [PM!Queues -> Seq(Nat)]
      BY <1>1, <3>1 DEF PM!TypeOK
    <3> QED BY <1>1, <2>1, <2>2, <3>2 DEF PM!TypeOK
  <2>9. PM!Whole(p)' /\ PM!Handed(p)'
    BY <1>3, <1>4, <2>1, <2>2, <2>3, <2>4, <2>7 DEF PM!Whole, PM!Handed
  <2>10. ASSUME NEW q \in PM!Queues \ {p} PROVE PM!Whole(q)' /\ PM!Handed(q)'
    <3>1. PM!Whole(q) /\ PM!Handed(q) /\ ~PM!Served(q)
      BY <1>4, <2>1 DEF PM!PollInv
    <3> QED BY <2>1, <2>2, <2>4, <2>5, <3>1 DEF PM!Whole, PM!Handed
  <2> QED BY <1>1, <2>1, <2>2, <2>8, <2>9, <2>10 DEF PM!PollInv
<1>7. CASE PM!CondSignal
  <2>1. /\ v7.at = "lock" /\ v6[p] = "free"
        /\ v3' = [v3 EXCEPT ![p] = IF v3[p] = "asleep" THEN "woken" ELSE v3[p]]
        /\ v7'.ready = v7.ready \ {p}
        /\ v7'.at = IF v7.ready = {p} THEN "poll" ELSE "read"
        /\ v7' \in [at : {"poll", "read", "printf", "lock"}, ready : SUBSET PM!Queues]
        /\ UNCHANGED <<v1, v2, v4, v5, v6, v8, v9>>
    BY <1>1, <1>2, <1>7 DEF PM!CondSignal, PM!Advance, PM!TypeOK
  <2>2. /\ v3[p] = "asleep" /\ v5[p] = <<>> /\ v2[p] = Len(v8[p])
    BY <1>1, <1>2, <1>3, <1>4, <2>1 DEF PM!Handed, PM!TypeOK
  <2>3. \A q \in PM!Queues : ~PM!Served(q)'
    BY <2>1 DEF PM!Served
  <2>4. v3'[p] = "woken" /\ \A q \in PM!Queues \ {p} : v3'[q] = v3[q]
    BY <1>1, <1>2, <2>1, <2>2 DEF PM!TypeOK
  <2>5. PM!TypeOK'
    BY <1>1, <2>1 DEF PM!TypeOK
  <2>6. PM!Whole(p)' /\ PM!Handed(p)'
    BY <1>3, <2>1, <2>2, <2>3, <2>4 DEF PM!Whole, PM!Handed
  <2>7. ASSUME NEW q \in PM!Queues \ {p} PROVE PM!Whole(q)' /\ PM!Handed(q)'
    <3>1. PM!Whole(q) /\ PM!Handed(q) /\ ~PM!Served(q)
      BY <1>4, <2>1 DEF PM!PollInv
    <3> QED BY <2>1, <2>3, <2>4, <3>1 DEF PM!Whole, PM!Handed
  <2>8. (v7'.ready = {}) <=> (v7'.at = "poll")
    BY <1>2, <2>1
  <2> QED BY <2>1, <2>5, <2>6, <2>7, <2>8 DEF PM!PollInv
<1> QED BY <1>5, <1>6, <1>7

LEMMA PollNext == PM!PollInv /\ PM!Next => PM!PollInv'
<1> SUFFICES ASSUME PM!PollInv, PM!Next PROVE PM!PollInv'
  OBVIOUS
<1>1. CASE v1 # "pollmsg" /\ v9
  <2>1. v1' = v1 /\ v9'
    BY <1>1 DEF PM!Next, PM!Main, PM!Poll, PM!Read, PM!Printf, PM!CondSignal, PM!Helper,
                PM!Spurious, PM!MsgRcv, PM!Lock,
            PM!Write, PM!CondWait, PM!Woken
  <2> QED BY <1>1, <2>1 DEF PM!PollInv
<1>2. CASE v1 = "pollmsg" \/ ~v9
  <2>1. CASE PM!Poll \/ \E q \in PM!Queues : PM!Helper(q)
    BY <1>2, <2>1, PollPollStep, PollHelperStep
  <2>2. CASE PM!Read \/ PM!Printf \/ PM!CondSignal
    <3>1. CASE v1 = "pollmsg"
      <4>1. PM!Read
        BY <1>2, <2>2, <3>1 DEF PM!PollInv, PM!Printf, PM!CondSignal
      <4> QED BY <3>1, <4>1, PollReadStep
    <3>2. CASE v1 # "pollmsg"
      BY <1>2, <2>2, <3>2, PollServeStep
    <3> QED BY <3>1, <3>2
  <2>3. ASSUME NEW q \in PM!Queues, PM!Spurious(q) PROVE PM!PollInv'
    <3>1. v1 # "pollmsg"
      BY <1>2, <2>3 DEF PM!PollInv, PM!Piped, PM!Spurious
    <3> QED BY <2>3, <3>1 DEF PM!PollInv, PM!Spurious
  <2> QED BY <2>1, <2>2, <2>3 DEF PM!Next, PM!Main
<1> QED BY <1>1, <1>2

LEMMA PollKept == PM!PollInv => PM!MessagesInOrder
BY DEF PM!PollInv, PM!Whole, PM!MessagesInOrder


(***************************************************************************)
(* A coprocess.                                                             *)
(***************************************************************************)

LEMMA CoInit == CO!Init => CO!AnswerInv
<1> SUFFICES ASSUME CO!Init PROVE CO!AnswerInv
  OBVIOUS
<1> USE DEF CO!Init
<1>1. CO!TypeOK
  BY DEF CO!TypeOK, CO!Ends, CO!Parent, CO!Child
<1>2. v2[CO!Parent] = "close" /\ v2[CO!Child] = "close" /\ "fd1_write" \in v3[CO!Parent]
  BY DEF CO!Ends, CO!Parent, CO!Child
<1>3. Len(v9) = 0
  OBVIOUS
<1> QED BY <1>1, <1>2, <1>3 DEF CO!AnswerInv

LEMMA CoType ==
    ASSUME CO!TypeOK, CO!Next
    PROVE  CO!TypeOK'
<1> USE DEF CO!Goto, CO!Exit, CO!Parent, CO!Child
<1> v4 \in Seq(Nat) /\ v5 \in Seq(Nat) /\ v6 \in Seq(Nat) /\ v7 \in Nat /\ v8 \in Nat
    /\ v9 \in Seq(Seq(Nat))
  BY DEF CO!TypeOK
<1>1. <<>> \in Seq(Nat)
  OBVIOUS
<1>2. /\ Append(v4, v7) \in Seq(Nat) /\ Append(v5, v8) \in Seq(Nat)
      /\ Append(v6, v8) \in Seq(Nat)
  OBVIOUS
<1>3. Append(v9, v5) \in Seq(Seq(Nat))
  BY AppendProperties
<1>4. v4 # <<>> => Head(v4) \in Nat /\ Tail(v4) \in Seq(Nat)
  BY HeadTailProperties
<1>5. v5 \o v6 \in Seq(Nat)
  OBVIOUS
<1>6. /\ v2' \in [{CO!Parent, CO!Child} -> {"close", "fgets", "read", "write", "exit"}]
      /\ v3' \in [{CO!Parent, CO!Child} -> SUBSET CO!Ends]
  <2>1. CASE CO!ParentClose \/ CO!Fgets \/ CO!WriteLine
    BY <2>1 DEF CO!ParentClose, CO!Fgets, CO!WriteLine, CO!TypeOK
  <2>2. CASE CO!ReadAnswer \/ CO!ChildClose \/ CO!ReadLine
    BY <2>2 DEF CO!ReadAnswer, CO!ChildClose, CO!CloseEnds, CO!ReadLine, CO!TypeOK
  <2>3. CASE CO!WriteAnswer \/ CO!Kill
    BY <2>3 DEF CO!WriteAnswer, CO!Kill, CO!TypeOK
  <2> QED BY <2>1, <2>2, <2>3 DEF CO!Next, CO!ParentStep, CO!ChildStep
<1>7. /\ v4' \in Seq(Nat) /\ v5' \in Seq(Nat) /\ v6' \in Seq(Nat)
      /\ v7' \in Nat /\ v8' \in Nat /\ v9' \in Seq(Seq(Nat))
  <2>1. CASE CO!ParentClose \/ CO!Fgets \/ CO!WriteLine
    <3>1. /\ v4' \in {v4, Append(v4, v7)} /\ v7' \in {v7, v7 + 1}
          /\ UNCHANGED <<v5, v6, v8, v9>>
      BY <2>1 DEF CO!ParentClose, CO!Fgets, CO!WriteLine
    <3>2. v4' \in Seq(Nat)
      BY <1>2, <3>1
    <3>3. v7' \in Nat
      BY <3>1
    <3>4. v9' \in Seq(Seq(Nat))
      BY <3>1
    <3> QED BY <3>1, <3>2, <3>3, <3>4
  <2>2. CASE CO!ReadAnswer \/ CO!ChildClose
    BY <1>1, <1>3, <2>2 DEF CO!ReadAnswer, CO!ChildClose
  <2>3. CASE CO!ReadLine
    BY <1>4, <1>5, <2>3 DEF CO!ReadLine
  <2>4. CASE CO!WriteAnswer \/ CO!Kill
    BY <1>2, <2>4 DEF CO!WriteAnswer, CO!Kill
  <2> QED BY <2>1, <2>2, <2>3, <2>4 DEF CO!Next, CO!ParentStep, CO!ChildStep
<1> QED BY <1>6, <1>7 DEF CO!TypeOK

LEMMA CoParent ==
    ASSUME CO!AnswerInv, CO!ParentStep, CO!TypeOK'
    PROVE  CO!AnswerInv'
<1> CO!TypeOK
  BY DEF CO!AnswerInv
<1> Len(v9) \in Nat /\ v7 \in Nat
  BY LenProperties DEF CO!TypeOK
<1> USE DEF CO!Goto, CO!Exit, CO!AnswerInv
<1>1. CASE CO!ParentClose
  <2>1. /\ v2'[CO!Parent] = "fgets" /\ v2'[CO!Child] = v2[CO!Child] /\ "fd1_write" \in v3'[CO!Parent]
        /\ v2[CO!Parent] = "close"
    BY <1>1 DEF CO!ParentClose, CO!TypeOK, CO!Parent, CO!Child
  <2> QED BY <1>1, <2>1 DEF CO!ParentClose
<1>2. CASE CO!Fgets
  <2>1. /\ v2[CO!Parent] = "fgets" /\ v2'[CO!Parent] \in {"write", "exit"} /\ v2'[CO!Child] = v2[CO!Child]
        /\ v2'[CO!Parent] = "write" => v3' = v3 /\ v7' = v7 + 1
        /\ v2'[CO!Parent] = "exit" => v7' = v7
        /\ UNCHANGED <<v4, v5, v9>>
    BY <1>2 DEF CO!Fgets, CO!TypeOK, CO!Parent, CO!Child
  <2> QED BY <2>1
<1>3. CASE CO!WriteLine
  <2>1. /\ v2[CO!Parent] = "write" /\ v2'[CO!Parent] \in {"read", "exit"} /\ v2'[CO!Child] = v2[CO!Child]
        /\ v2'[CO!Parent] = "read" => v3' = v3 /\ v4' = Append(v4, v7)
        /\ UNCHANGED <<v5, v9, v7, v8>>
    BY <1>3 DEF CO!WriteLine, CO!TypeOK, CO!Parent, CO!Child
  <2>2. Append(<<>>, v7) = <<v7>>
    OBVIOUS
  <2>3. v2'[CO!Parent] = "read" => CO!OnTheWay'
    BY <2>1, <2>2 DEF CO!OnTheWay
  <2> QED BY <2>1, <2>3
<1>4. CASE CO!ReadAnswer
  <2>1. /\ v2[CO!Parent] = "read" /\ v2'[CO!Parent] \in {"fgets", "exit"} /\ v2'[CO!Child] = v2[CO!Child]
        /\ v2'[CO!Parent] = "fgets" =>
              v3' = v3 /\ v5 # <<>> /\ v5' = <<>> /\ v9' = Append(v9, v5)
        /\ v2'[CO!Parent] = "exit" => v9' = v9
        /\ UNCHANGED <<v4, v7, v8>>
    BY <1>4 DEF CO!ReadAnswer, CO!TypeOK, CO!Parent, CO!Child
  <2>2. CASE v2'[CO!Parent] = "exit"
    BY <2>1, <2>2
  <2>3. CASE v2'[CO!Parent] = "fgets"
    <3>1. v5 = <<v7>> /\ v4 = <<>> /\ v2[CO!Child] # "write" /\ v7 = Len(v9) + 1
      BY <2>1, <2>3 DEF CO!OnTheWay
    <3> DEFINE n == Len(v9)
               s == Append(v9, v5)
    <3>2. /\ Len(s) = n + 1 /\ (\A k \in 1 .. n : s[k] = v9[k]) /\ s[n + 1] = v5
      BY AppendProperties DEF CO!TypeOK
    <3> HIDE DEF s
    <3>3. ASSUME NEW k \in 1 .. Len(s) PROVE s[k] = <<k>>
      BY <3>1, <3>2
    <3>4. v9' = s
      BY <2>1, <2>3 DEF s
    <3> QED BY <2>1, <2>3, <3>1, <3>2, <3>3, <3>4
  <2> QED BY <2>1, <2>2, <2>3
<1> QED BY <1>1, <1>2, <1>3, <1>4 DEF CO!ParentStep

LEMMA CoChild ==
    ASSUME CO!AnswerInv, CO!ChildStep \/ CO!Kill, CO!TypeOK'
    PROVE  CO!AnswerInv'
<1> CO!TypeOK
  BY DEF CO!AnswerInv
<1> USE DEF CO!Goto, CO!Exit
<1>1. /\ UNCHANGED <<v7, v9>> /\ v2'[CO!Parent] = v2[CO!Parent] /\ v3'[CO!Parent] = v3[CO!Parent]
  BY DEF CO!ChildStep, CO!ChildClose, CO!CloseEnds, CO!ReadLine, CO!WriteAnswer, CO!Kill,
         CO!TypeOK, CO!Parent, CO!Child
<1>2. CASE CO!ChildClose \/ CO!Kill
  <2>1. v2'[CO!Child] \in {"read", "exit"} /\ UNCHANGED <<v4, v5, v8>>
    BY <1>2 DEF CO!ChildClose, CO!Kill, CO!TypeOK, CO!Parent, CO!Child
  <2> QED BY <1>1, <2>1 DEF CO!AnswerInv, CO!OnTheWay
<1>3. CASE CO!ReadLine
  <2>1. CASE v4 = <<>>
    <3>1. ~("fd1_write" \in v3[CO!Parent])
      BY <1>3, <2>1 DEF CO!ReadLine, CO!Open
    <3> QED BY <1>1, <3>1 DEF CO!AnswerInv
  <2>2. CASE v4 # <<>>
    <3>1. /\ v8' = Head(v4) /\ v4' = Tail(v4) /\ v5' = v5
          /\ v2[CO!Child] = "read" /\ v2'[CO!Child] = "write"
      BY <1>3, <2>2 DEF CO!ReadLine, CO!TypeOK, CO!Parent, CO!Child
    <3>2. Head(<<v7>>) = v7 /\ Tail(<<v7>>) = <<>>
      OBVIOUS
    <3>3. v2[CO!Parent] = "read" => CO!OnTheWay'
      BY <1>1, <2>2, <3>1, <3>2 DEF CO!AnswerInv, CO!OnTheWay
    <3>4. v2[CO!Parent] \in {"read", "exit"}
      BY <2>2 DEF CO!AnswerInv, CO!TypeOK, CO!Parent
    <3> QED BY <1>1, <3>3, <3>4 DEF CO!AnswerInv
  <2> QED BY <2>1, <2>2
<1>4. CASE CO!WriteAnswer
  <2>1. /\ v5' \in {v5, Append(v5, v8)} /\ UNCHANGED <<v4, v8>>
        /\ v2[CO!Child] = "write" /\ v2'[CO!Child] \in {"read", "exit"}
    BY <1>4 DEF CO!WriteAnswer, CO!TypeOK, CO!Parent, CO!Child
  <2>2. Append(<<>>, v7) = <<v7>>
    OBVIOUS
  <2>3. v2[CO!Parent] = "read" => CO!OnTheWay'
    BY <1>1, <2>1, <2>2 DEF CO!AnswerInv, CO!OnTheWay
  <2>4. v2[CO!Parent] \in {"read", "exit"}
    BY <2>1 DEF CO!AnswerInv, CO!TypeOK, CO!Parent
  <2> QED BY <1>1, <2>3, <2>4 DEF CO!AnswerInv
<1> QED BY <1>2, <1>3, <1>4 DEF CO!ChildStep

LEMMA CoNext == CO!AnswerInv /\ CO!Next => CO!AnswerInv'
BY CoType, CoParent, CoChild DEF CO!Next, CO!AnswerInv

LEMMA CoKept == CO!AnswerInv => CO!AnswersMatch
BY DEF CO!AnswerInv, CO!AnswersMatch


JobHolds == which = "jobqueue" => JQ!JobInv
PollHolds == which = "pollmsg" => PM!PollInv
AnswerHolds == which = "coproc" => CO!AnswerInv

\* For any number of jobs, queues, messages and lines, what is queued comes out whole
\* and in order (job_insert, job_append, job_find, job_remove; helper and main of
\* pollmsg.c and pollmsg2.c; main of pipe4.c and of add2.c).
THEOREM QueuesInOrder == Spec => []QueueInOrder
<1>1. Init => JobHolds /\ PollHolds /\ AnswerHolds
  BY JobInit, PollInit, CoInit DEF Init, JobHolds, PollHolds, AnswerHolds
<1>2. JobHolds /\ [Next]_vars => JobHolds'
  <2>1. CASE Next
    BY <2>1, JobNext DEF Next, JobHolds
  <2>2. CASE UNCHANGED vars
    BY <2>2 DEF vars, JobHolds, JQ!JobInv, JQ!TypeOK, JQ!Linked, JQ!Queued
  <2> QED BY <2>1, <2>2
<1>3. PollHolds /\ [Next]_vars => PollHolds'
  <2>1. CASE Next
    BY <2>1, PollNext DEF Next, PollHolds
  <2>2. CASE UNCHANGED vars
    BY <2>2 DEF vars, PollHolds, PM!PollInv, PM!TypeOK, PM!Whole, PM!Piped, PM!Handed,
                PM!Served, PM!Current
  <2> QED BY <2>1, <2>2
<1>4. AnswerHolds /\ [Next]_vars => AnswerHolds'
  <2>1. CASE Next
    BY <2>1, CoNext DEF Next, AnswerHolds
  <2>2. CASE UNCHANGED vars
    BY <2>2 DEF vars, AnswerHolds, CO!AnswerInv, CO!TypeOK, CO!OnTheWay
  <2> QED BY <2>1, <2>2
<1>5. JobHolds /\ PollHolds /\ AnswerHolds => QueueInOrder
  BY JobKept, PollKept, CoKept DEF JobHolds, PollHolds, AnswerHolds, QueueInOrder
<1> QED BY <1>1, <1>2, <1>3, <1>4, <1>5, PTL DEF Spec

(***************************************************************************)
(* A call at a time to come.                                                *)
(***************************************************************************)

LEMMA TimeConstants == SECTONSEC \in Nat /\ SECTONSEC > 0 /\ Delay \in Nat
BY ProgramsAssumption

\* A time is its seconds and its nanoseconds.
LEMMA TimeSplit ==
    ASSUME NEW n \in Nat
    PROVE  /\ TI!Timespec(n).tv_sec \in Nat /\ TI!Timespec(n).tv_nsec \in 0 .. SECTONSEC - 1
           /\ TI!Ticks(TI!Timespec(n)) = n
<1>1. n \div SECTONSEC \in Nat /\ n % SECTONSEC \in 0 .. SECTONSEC - 1
  BY TimeConstants
<1>2. (n \div SECTONSEC) * SECTONSEC + (n % SECTONSEC) = n
  BY TimeConstants
<1> QED BY <1>1, <1>2 DEF TI!Timespec, TI!Ticks

\* The later time has no fewer seconds, and more if it has fewer nanoseconds.
LEMMA TimeSeconds ==
    ASSUME NEW S \in Nat, S > 0, NEW p \in Nat, NEW q \in Nat,
           NEW x \in 0 .. S - 1, NEW y \in 0 .. S - 1, p * S + x > q * S + y
    PROVE  p >= q /\ (x < y => p > q)
<1>1. p * S \in Nat /\ q * S \in Nat
  OBVIOUS
<1>2. ASSUME p < q PROVE FALSE
  <2>1. PICK d \in Nat : q = p + 1 + d
    <3> DEFINE e == q - p - 1
    <3>1. e \in Nat /\ q = p + 1 + e
      BY <1>2
    <3> HIDE DEF e
    <3> QED BY <3>1
  <2>2. q * S = p * S + S + d * S /\ d * S \in Nat
    BY <2>1
  <2> QED BY <1>1, <2>2
<1>3. p = q => p * S = q * S
  OBVIOUS
<1> QED BY <1>1, <1>2, <1>3

\* The borrow loses nothing.
LEMMA TimeDifference ==
    ASSUME NEW n \in Nat, NEW m \in Nat, n > m
    PROVE  /\ TI!Difference(TI!Timespec(n), TI!Timespec(m)) \in [tv_sec : Nat, tv_nsec : Nat]
           /\ m + TI!Ticks(TI!Difference(TI!Timespec(n), TI!Timespec(m))) = n
<1>1. PICK p \in Nat, x \in 0 .. SECTONSEC - 1 :
          TI!Timespec(n).tv_sec = p /\ TI!Timespec(n).tv_nsec = x /\ p * SECTONSEC + x = n
  BY TimeSplit DEF TI!Ticks
<1>2. PICK q \in Nat, y \in 0 .. SECTONSEC - 1 :
          TI!Timespec(m).tv_sec = q /\ TI!Timespec(m).tv_nsec = y /\ q * SECTONSEC + y = m
  BY TimeSplit DEF TI!Ticks
<1>3. SECTONSEC \in Nat /\ SECTONSEC > 0
  BY TimeConstants
<1>4. TI!Difference(TI!Timespec(n), TI!Timespec(m)) =
          IF x >= y THEN [tv_sec |-> p - q, tv_nsec |-> x - y]
                    ELSE [tv_sec |-> p - q - 1, tv_nsec |-> SECTONSEC - y + x]
  BY <1>1, <1>2 DEF TI!Difference
<1>5. p >= q /\ (x < y => p > q)
  BY <1>1, <1>2, <1>3, TimeSeconds
<1>6. p * SECTONSEC \in Nat /\ q * SECTONSEC \in Nat
  BY <1>3
<1>7. CASE x >= y
  <2>1. (p - q) * SECTONSEC = p * SECTONSEC - q * SECTONSEC
    BY <1>3
  <2>2. p - q \in Nat /\ x - y \in Nat
    BY <1>3, <1>5, <1>7
  <2>3. TI!Ticks(TI!Difference(TI!Timespec(n), TI!Timespec(m))) = (p - q) * SECTONSEC + (x - y)
    BY <1>4, <1>7 DEF TI!Ticks
  <2> QED BY <1>1, <1>2, <1>4, <1>6, <1>7, <2>1, <2>2, <2>3
<1>8. CASE ~(x >= y)
  <2>1. (p - q - 1) * SECTONSEC = p * SECTONSEC - q * SECTONSEC - SECTONSEC
    BY <1>3
  <2>2. p - q - 1 \in Nat /\ SECTONSEC - y + x \in Nat
    BY <1>3, <1>5, <1>8
  <2>3. TI!Ticks(TI!Difference(TI!Timespec(n), TI!Timespec(m)))
            = (p - q - 1) * SECTONSEC + (SECTONSEC - y + x)
    BY <1>4, <1>8 DEF TI!Ticks
  <2> QED BY <1>1, <1>2, <1>3, <1>4, <1>6, <1>8, <2>1, <2>2, <2>3
<1> QED BY <1>7, <1>8

LEMMA TimeInit == TI!Init => TI!TimeInv
<1> SUFFICES ASSUME TI!Init PROVE TI!TimeInv
  OBVIOUS
<1>1. v8["main"] = "lock" /\ v8["helper"] = "none"
  BY DEF TI!Init, TI!Threads
<1>2. TI!TypeOK
  BY TimeConstants DEF TI!Init, TI!TypeOK, TI!Threads
<1> QED BY <1>1, <1>2 DEF TI!Init, TI!TimeInv, TI!Owned, TI!Called, TI!OnTime

LEMMA TimeTicks ==
    ASSUME TI!TypeOK
    PROVE  TI!Ticks(v5) \in Nat
<1>1. v5.tv_sec \in Nat /\ v5.tv_nsec \in Nat
  BY DEF TI!TypeOK
<1>2. v5.tv_sec * SECTONSEC \in Nat
  BY <1>1, TimeConstants
<1> QED BY <1>1, <1>2 DEF TI!Ticks

\* What main does.
LEMMA TimeMain ==
    ASSUME TI!TimeInv, TI!MainLock \/ TI!TimeoutThread \/ TI!TimeoutNow \/ TI!MainUnlock \/ TI!MainExit
    PROVE  TI!TimeInv'
<1> USE DEF TI!Goto, TI!Lock, TI!Unlock, TI!Return
<1>1. TI!TypeOK
  BY DEF TI!TimeInv
<1>2. CASE TI!MainLock
  <2>1. v2' \in Nat
    BY <1>1, <1>2, TimeConstants DEF TI!MainLock, TI!TypeOK
  <2>2. /\ v8["main"] = "lock" /\ v8["helper"] = "none" /\ v8'["helper"] = "none"
        /\ v8'["main"] \in {"timeout", "unlock"}
        /\ v8'["main"] = "timeout" => v3
        /\ v6' = "main" /\ v7' = 1
        /\ UNCHANGED <<v1, v3, v4, v5, v9>>
    BY <1>1, <1>2 DEF TI!MainLock, TI!TypeOK, TI!Threads, TI!TimeInv, TI!Called, TI!Owned
  <2>3. TI!TypeOK'
    BY <1>1, <1>2, <2>1, <2>2 DEF TI!MainLock, TI!TypeOK, TI!Threads
  <2> QED BY <2>2, <2>3 DEF TI!TimeInv, TI!Owned, TI!Called, TI!OnTime
<1>3. CASE TI!TimeoutThread
  <2>1. /\ v8["main"] = "timeout" /\ v8["helper"] = "none" /\ v8'["helper"] = "sleep"
        /\ v8'["main"] = "unlock" /\ v2 > v1
        /\ v5' = TI!Difference(TI!Timespec(v2), TI!Timespec(v1))
        /\ UNCHANGED <<v1, v2, v3, v4, v6, v7, v9>>
    BY <1>1, <1>3 DEF TI!TimeoutThread, TI!TypeOK, TI!Threads, TI!TimeInv, TI!Called
  <2>2. v5' \in [tv_sec : Nat, tv_nsec : Nat] /\ v1 + TI!Ticks(v5') = v2
    BY <1>1, <2>1, TimeDifference DEF TI!TypeOK
  <2>3. TI!TypeOK'
    BY <1>1, <1>3, <2>1, <2>2 DEF TI!TimeoutThread, TI!TypeOK, TI!Threads
  <2>4. TI!OnTime'
    BY <1>1, <2>1, <2>2 DEF TI!OnTime, TI!TypeOK, TI!Ticks
  <2> QED BY <2>1, <2>3, <2>4 DEF TI!TimeInv, TI!Owned, TI!Called
<1>4. CASE TI!TimeoutNow
  <2>1. /\ v8["main"] = "timeout" /\ v8'["main"] = "retry" /\ v8'["helper"] = v8["helper"]
        /\ UNCHANGED <<v1, v2, v3, v4, v5, v6, v7, v9>>
    BY <1>1, <1>4 DEF TI!TimeoutNow, TI!TypeOK, TI!Threads
  <2>2. TI!TypeOK'
    BY <1>1, <1>4 DEF TI!TimeoutNow, TI!TypeOK, TI!Threads
  <2> QED BY <2>1, <2>2 DEF TI!TimeInv, TI!Owned, TI!Called, TI!OnTime, TI!Ticks
<1>5. CASE TI!MainUnlock
  <2>1. /\ v8["main"] = "unlock" /\ v8'["main"] = "more" /\ v8'["helper"] = v8["helper"]
        /\ v6 = "main" /\ v7 = 1 /\ v6' = "none" /\ v7' = 0
        /\ UNCHANGED <<v1, v2, v3, v4, v5, v9>>
    BY <1>1, <1>5 DEF TI!MainUnlock, TI!TypeOK, TI!Threads, TI!TimeInv, TI!Owned
  <2>2. TI!TypeOK'
    BY <1>1, <1>5, <2>1 DEF TI!MainUnlock, TI!TypeOK, TI!Threads
  <2> QED BY <2>1, <2>2 DEF TI!TimeInv, TI!Owned, TI!Called, TI!OnTime, TI!Ticks
<1>6. CASE TI!MainExit
  <2>1. /\ v8["main"] = "more" /\ v8'["main"] = "done" /\ v8'["helper"] = "done"
        /\ UNCHANGED <<v1, v2, v3, v4, v5, v6, v7, v9>>
    BY <1>1, <1>6 DEF TI!MainExit, TI!TypeOK, TI!Threads
  <2>2. TI!TypeOK'
    BY <1>1, <1>6 DEF TI!MainExit, TI!TypeOK, TI!Threads
  <2> QED BY <2>1, <2>2 DEF TI!TimeInv, TI!Owned, TI!Called, TI!OnTime, TI!Ticks
<1> QED BY <1>2, <1>3, <1>4, <1>5, <1>6

\* The function itself, in main or in the helper.
LEMMA TimeRetry ==
    ASSUME TI!TimeInv, NEW t \in TI!Threads, TI!RetryLock(t) \/ TI!RetryUnlock(t)
    PROVE  TI!TimeInv'
<1> USE DEF TI!Goto, TI!Lock, TI!Unlock
<1>1. TI!TypeOK /\ UNCHANGED <<v1, v2, v3, v4, v5>>
      /\ \A u \in TI!Threads \ {t} : v8'[u] = v8[u]
  BY DEF TI!TimeInv, TI!RetryLock, TI!RetryUnlock, TI!TypeOK
<1>2. CASE TI!RetryLock(t)
  <2>1. /\ v8[t] = "retry" /\ v8'[t] = "retrying" /\ v6 \in {"none", t} /\ v6' = t
        /\ v7' = v7 + 1 /\ v9' = v9 + 1 /\ v9 = 0
    BY <1>1, <1>2 DEF TI!RetryLock, TI!TypeOK, TI!TimeInv, TI!Called, TI!Threads
  <2>2. CASE t = "main"
    <3>1. v8["helper"] = "none" /\ v8'["helper"] = "none" /\ v7 = 1
      BY <1>1, <2>1, <2>2 DEF TI!TimeInv, TI!Called, TI!Owned, TI!Threads
    <3>2. TI!TypeOK'
      BY <1>1, <1>2, <2>1, <3>1 DEF TI!RetryLock, TI!TypeOK
    <3> QED BY <1>1, <2>1, <2>2, <3>1, <3>2 DEF TI!TimeInv, TI!Owned, TI!Called, TI!OnTime, TI!Ticks
  <2>3. CASE t = "helper"
    <3>1. v8["main"] \in {"unlock", "more", "done"} /\ v8'["main"] = v8["main"]
      BY <1>1, <2>1, <2>3 DEF TI!TimeInv, TI!Called, TI!Threads
    <3>2. v8["main"] # "unlock"
      BY <2>1, <2>3 DEF TI!TimeInv, TI!Owned
    <3>3. v8["main"] # "done"
      BY <2>1, <2>3 DEF TI!TimeInv, TI!Called
    <3>4. v7 = 0
      BY <2>1, <2>3, <3>1, <3>2, <3>3 DEF TI!TimeInv, TI!Owned
    <3>5. TI!TypeOK'
      BY <1>1, <1>2, <2>1, <3>4 DEF TI!RetryLock, TI!TypeOK
    <3> QED BY <1>1, <2>1, <2>3, <3>1, <3>2, <3>4, <3>5
            DEF TI!TimeInv, TI!Owned, TI!Called, TI!OnTime, TI!Ticks
  <2> QED BY <2>2, <2>3 DEF TI!Threads
<1>3. CASE TI!RetryUnlock(t)
  <2>1. /\ v8[t] = "retrying" /\ v8'[t] = IF t = "main" THEN "unlock" ELSE "done"
        /\ v7' = v7 - 1 /\ v6' = (IF v7 = 1 THEN "none" ELSE t) /\ v9' = v9
    BY <1>1, <1>3 DEF TI!RetryUnlock, TI!TypeOK
  <2>2. CASE t = "main"
    <3>1. v8["helper"] = "none" /\ v8'["helper"] = "none" /\ v7 = 2
      BY <1>1, <2>1, <2>2 DEF TI!TimeInv, TI!Called, TI!Owned, TI!Threads
    <3>2. TI!TypeOK'
      BY <1>1, <1>3, <2>1, <3>1 DEF TI!RetryUnlock, TI!TypeOK
    <3> QED BY <1>1, <2>1, <2>2, <3>1, <3>2 DEF TI!TimeInv, TI!Owned, TI!Called, TI!OnTime, TI!Ticks
  <2>3. CASE t = "helper"
    <3>1. v8["main"] \in {"unlock", "more", "done"} /\ v8'["main"] = v8["main"]
      BY <1>1, <2>1, <2>3 DEF TI!TimeInv, TI!Called, TI!Threads
    <3>2. v8["main"] # "unlock" /\ v7 = 1 /\ v6 = "helper"
      BY <2>1, <2>3 DEF TI!TimeInv, TI!Owned
    <3>3. TI!TypeOK'
      BY <1>1, <1>3, <2>1, <3>2 DEF TI!RetryUnlock, TI!TypeOK
    <3> QED BY <1>1, <2>1, <2>3, <3>1, <3>2, <3>3
            DEF TI!TimeInv, TI!Owned, TI!Called, TI!OnTime, TI!Ticks
  <2> QED BY <2>2, <2>3 DEF TI!Threads
<1> QED BY <1>2, <1>3

\* The helper sleeps, and time goes on.
LEMMA TimePasses ==
    ASSUME TI!TimeInv, TI!HelperSleep \/ TI!HelperWake \/ TI!Tick
    PROVE  TI!TimeInv'
<1> USE DEF TI!Goto
<1>1. TI!TypeOK /\ UNCHANGED <<v2, v3, v5, v6, v7, v9>>
      /\ TI!Ticks(v5) \in Nat /\ TI!Ticks(v5') = TI!Ticks(v5)
  <2>1. TI!TypeOK /\ UNCHANGED <<v2, v3, v5, v6, v7, v9>>
    BY DEF TI!TimeInv, TI!HelperSleep, TI!HelperWake, TI!Tick
  <2> QED BY <2>1, TimeTicks
<1>2. CASE TI!HelperSleep
  <2>1. /\ v8["helper"] = "sleep" /\ v8'["helper"] = "asleep" /\ v8'["main"] = v8["main"]
        /\ v4' = v1 + TI!Ticks(v5) /\ v1' = v1
    BY <1>1, <1>2 DEF TI!HelperSleep, TI!TypeOK, TI!Threads
  <2>2. TI!TypeOK'
    BY <1>1, <1>2, <2>1 DEF TI!HelperSleep, TI!TypeOK
  <2> QED BY <1>1, <2>1, <2>2 DEF TI!TimeInv, TI!Owned, TI!Called, TI!OnTime
<1>3. CASE TI!HelperWake
  <2>1. /\ v8["helper"] = "asleep" /\ v8'["helper"] = "retry" /\ v8'["main"] = v8["main"]
        /\ v4' = v4 /\ v1' = v1 /\ v1 >= v4
    BY <1>1, <1>3 DEF TI!HelperWake, TI!TypeOK, TI!Threads
  <2>2. TI!TypeOK'
    BY <1>1, <1>3, <2>1 DEF TI!HelperWake, TI!TypeOK
  <2> QED BY <1>1, <2>1, <2>2 DEF TI!TimeInv, TI!Owned, TI!Called, TI!OnTime
<1>4. CASE TI!Tick
  <2>1. v1' = v1 + 1 /\ UNCHANGED <<v4, v8>> /\ v1 \in Nat /\ v2 \in Nat
        /\ v4 \in Nat
    BY <1>1, <1>4 DEF TI!Tick, TI!TypeOK
  <2>2. TI!TypeOK'
    BY <1>1, <2>1 DEF TI!TypeOK
  <2>3. TI!OnTime'
    BY <1>1, <2>1 DEF TI!TimeInv, TI!OnTime
  <2> QED BY <1>1, <2>1, <2>2, <2>3 DEF TI!TimeInv, TI!Owned, TI!Called
<1> QED BY <1>2, <1>3, <1>4

LEMMA TimeNext == TI!TimeInv /\ TI!Next => TI!TimeInv'
BY TimeMain, TimeRetry, TimePasses DEF TI!Next, TI!Step

LEMMA TimeKept == TI!TimeInv => TI!RetryOnTime
<1> SUFFICES ASSUME TI!TimeInv PROVE TI!RetryOnTime
  OBVIOUS
<1>1. v1 \in Nat /\ v2 \in Nat /\ v4 \in Nat /\ v9 \in 0 .. 1
  BY DEF TI!TimeInv, TI!TypeOK
<1> QED BY <1>1 DEF TI!TimeInv, TI!Owned, TI!Called, TI!OnTime, TI!RetryOnTime


TimeHolds == which = "timeout" => TI!TimeInv

\* For any number of ticks in a second and any delay, the function is called at most
\* once, not before its time, and not while main is between its check and its unlock
\* (timeout, timeout_helper, main).
THEOREM CalledOnTime == Spec => []RetryOnTime
<1>1. Init => TimeHolds
  BY TimeInit DEF Init, TimeHolds
<1>2. TimeHolds /\ [Next]_vars => TimeHolds'
  <2>1. CASE Next
    BY <2>1, TimeNext DEF Next, TimeHolds
  <2>2. CASE UNCHANGED vars
    BY <2>2 DEF vars, TimeHolds, TI!TimeInv, TI!TypeOK, TI!Owned,
                TI!Called, TI!OnTime, TI!Ticks
  <2> QED BY <2>1, <2>2
<1>3. TimeHolds => RetryOnTime
  BY TimeKept DEF TimeHolds, RetryOnTime
<1> QED BY <1>1, <1>2, <1>3, PTL DEF Spec

(***************************************************************************)
(* A copy by asynchronous I/O.                                              *)
(***************************************************************************)

LEMMA CopyConstants == NBUF \in Nat /\ CopyBlocks \in Nat
BY ProgramsAssumption

LEMMA CopyCards ==
    \A S \in SUBSET AI!Buffers :
        /\ AI!Cardinality(S) = 0 => S = {}
        /\ (\A b, c \in S : b = c) => AI!Cardinality(S) <= 1
<1> SUFFICES ASSUME NEW S \in SUBSET AI!Buffers
             PROVE  /\ Cardinality(S) = 0 => S = {}
                    /\ (\A b, c \in S : b = c) => Cardinality(S) <= 1
  BY DEF AI!Cardinality, Cardinality
<1>1. IsFiniteSet(S)
  <2>1. NBUF - 1 \in Int
    BY CopyConstants
  <2>2. IsFiniteSet(0 .. NBUF - 1)
    BY <2>1, FS_Interval
  <2> QED BY <2>2, FS_Subset DEF AI!Buffers
<1>2. Cardinality(S) = 0 <=> S = {}
  BY <1>1, FS_EmptySet
<1>3. ASSUME \A b, c \in S : b = c, S # {} PROVE Cardinality(S) <= 1
  <2>1. PICK b \in S : TRUE
    BY <1>3
  <2>2. S = {b}
    BY <1>3, <2>1
  <2> QED BY <2>2, FS_Singleton
<1> QED BY <1>2, <1>3

LEMMA CopyInit == AI!Init => AI!CopyInv
<1> SUFFICES ASSUME AI!Init PROVE AI!CopyInv
  OBVIOUS
<1>1. AI!TypeOK
  BY CopyConstants DEF AI!Init, AI!TypeOK, AI!Contents, AI!Nothing, AI!Buffers
<1> QED BY <1>1 DEF AI!Init, AI!CopyInv, AI!Somewhere

\* The system completes an operation.
LEMMA CopyCompletes ==
    ASSUME AI!CopyInv, NEW b \in AI!Buffers, AI!Complete(b)
    PROVE  AI!CopyInv'
<1>1. PICK how \in {"done", "short", "failed"} :
          /\ v5' = [v5 EXCEPT ![b] = how]
          /\ IF v1[b] = "READ_PENDING"
               THEN v3' = [v3 EXCEPT ![b] = <<"plain", v2[b]>>] /\ UNCHANGED v9
               ELSE /\ v9' = IF how = "done" THEN [v9 EXCEPT ![v2[b]] = v3[b]]
                              ELSE v9
                    /\ UNCHANGED v3
  BY DEF AI!Complete
<1>2. v1[b] # "UNUSED" /\ v5[b] = "busy" /\ UNCHANGED <<v1, v2, v4, v6, v7, v8>>
  BY DEF AI!Complete
<1>3. AI!TypeOK /\ v6 \in 0 .. CopyBlocks /\ v1[b] \in {"READ_PENDING", "WRITE_PENDING"}
      /\ v2[b] \in 0 .. v6 - 1 /\ v2[b] \in 0 .. CopyBlocks - 1
  BY <1>2, CopyConstants DEF AI!CopyInv, AI!TypeOK, AI!Holds
<1>4. AI!TypeOK'
  <2>1. v5' \in [AI!Buffers -> {"busy", "done", "short", "failed"}]
    BY <1>1, <1>3 DEF AI!TypeOK
  <2>2. <<"plain", v2[b]>> \in AI!Contents /\ v3[b] \in AI!Contents
    BY <1>3 DEF AI!TypeOK, AI!Contents
  <2>3. v3' \in [AI!Buffers -> AI!Contents] /\ v9' \in [0 .. CopyBlocks - 1 -> AI!Contents]
    BY <1>1, <1>3, <2>2 DEF AI!TypeOK
  <2> QED BY <1>2, <1>3, <2>1, <2>3 DEF AI!TypeOK
<1>5. \A c \in AI!Buffers \ {b} : v5'[c] = v5[c] /\ v3'[c] = v3[c]
  BY <1>1, <1>3 DEF AI!TypeOK
<1>6. v5'[b] = how
  BY <1>1, <1>3 DEF AI!TypeOK
<1>7. \A n \in 0 .. CopyBlocks - 1 : v9'[n] # v9[n] =>
          n = v2[b] /\ v1[b] = "WRITE_PENDING" /\ v9'[n] = v3[b]
  BY <1>1, <1>3 DEF AI!TypeOK
<1>8. ASSUME NEW c \in AI!Buffers, v1'[c] # "UNUSED" PROVE AI!Holds(c)'
  <2>1. AI!Holds(c) /\ AI!Holds(b) /\ v2[c] \in 0 .. CopyBlocks - 1
    BY <1>2, <1>3, <1>8, CopyConstants DEF AI!CopyInv, AI!Holds, AI!TypeOK
  <2>2. CASE c # b
    <3>1. v2[c] # v2[b]
      BY <1>2, <1>8, <2>1, <2>2 DEF AI!Holds
    <3>2. v9'[v2[c]] = v9[v2[c]]
      BY <1>7, <2>1, <3>1
    <3> QED BY <1>2, <1>5, <2>1, <2>2, <3>2 DEF AI!Holds
  <2>3. CASE c = b /\ v1[b] = "READ_PENDING"
    <3>1. v3'[b] = <<"plain", v2[b]>>
      BY <1>1, <1>3, <2>3 DEF AI!TypeOK
    <3> QED BY <1>2, <2>1, <2>3, <3>1 DEF AI!Holds
  <2>4. CASE c = b /\ v1[b] = "WRITE_PENDING"
    <3>1. v3' = v3 /\ (how = "done" => v9'[v2[b]] = v3[b])
      BY <1>1, <1>3, <2>4 DEF AI!TypeOK
    <3> QED BY <1>2, <1>6, <2>1, <2>4, <3>1 DEF AI!Holds
  <2> QED BY <1>3, <2>2, <2>3, <2>4
<1>9. ASSUME NEW n \in 0 .. CopyBlocks - 1 PROVE AI!Somewhere(n)'
  <2>1. AI!Somewhere(n)
    BY DEF AI!CopyInv
  <2>2. CASE v9'[n] = v9[n]
    BY <1>2, <2>1, <2>2 DEF AI!Somewhere
  <2>3. CASE v9'[n] # v9[n]
    BY <1>2, <1>3, <1>7, <2>3 DEF AI!Somewhere
  <2> QED BY <2>2, <2>3
<1> QED BY <1>2, <1>4, <1>8, <1>9 DEF AI!CopyInv

\* A buffer that is not in use takes the next block.
LEMMA CopyReads == AI!CopyInv /\ AI!StartRead => AI!CopyInv'
<1> SUFFICES ASSUME AI!CopyInv, AI!StartRead PROVE AI!CopyInv'
  OBVIOUS
<1>1. /\ AI!TypeOK /\ v7 \in AI!Buffers /\ v1[v7] = "UNUSED" /\ v7' = v7 + 1 /\ v8 = "scan"
      /\ v7' \in 0 .. NBUF /\ UNCHANGED <<v3, v8, v9>> /\ v6 \in 0 .. CopyBlocks
  BY CopyConstants DEF AI!CopyInv, AI!StartRead, AI!Scan, AI!TypeOK, AI!Buffers
<1>2. CASE v6 < CopyBlocks
  <2>1. /\ v1' = [v1 EXCEPT ![v7] = "READ_PENDING"]
        /\ v2' = [v2 EXCEPT ![v7] = v6]
        /\ v6' = v6 + 1
        /\ v4' = [v4 EXCEPT ![v7] = v4[v7] \/ v6 + 1 >= CopyBlocks]
        /\ v5' = [v5 EXCEPT ![v7] = "busy"]
    BY <1>2 DEF AI!StartRead
  <2>2. AI!TypeOK'
    <3>1. v6' \in 0 .. CopyBlocks /\ v6 \in Nat
      BY <1>1, <1>2, <2>1, CopyConstants
    <3>2. /\ v1' \in [AI!Buffers -> {"UNUSED", "READ_PENDING", "WRITE_PENDING"}]
          /\ v2' \in [AI!Buffers -> Nat]
          /\ v5' \in [AI!Buffers -> {"busy", "done", "short", "failed"}]
      BY <1>1, <2>1, <3>1 DEF AI!TypeOK
    <3>3. v4' \in [AI!Buffers -> BOOLEAN]
      BY <1>1, <2>1 DEF AI!TypeOK
    <3> QED BY <1>1, <3>1, <3>2, <3>3 DEF AI!TypeOK
  <2>3. /\ \A c \in AI!Buffers \ {v7} : v1'[c] = v1[c] /\ v2'[c] = v2[c] /\ v5'[c] = v5[c]
        /\ v1'[v7] = "READ_PENDING" /\ v2'[v7] = v6 /\ v5'[v7] = "busy"
    BY <1>1, <2>1 DEF AI!TypeOK
  <2>4. ASSUME NEW c \in AI!Buffers, v1'[c] # "UNUSED" PROVE AI!Holds(c)'
    <3>1. CASE c = v7
      <4>1. \A d \in AI!Buffers \ {v7} : v1[d] # "UNUSED" => v2[d] < v6 /\ v2[d] \in Nat
        BY DEF AI!CopyInv, AI!Holds, AI!TypeOK
      <4>2. \A d \in AI!Buffers \ {v7} : v1'[d] # "UNUSED" => v2'[d] # v2'[v7]
        BY <1>1, <2>3, <4>1
      <4> QED BY <1>1, <2>1, <2>3, <3>1, <4>2 DEF AI!Holds
    <3>2. CASE c # v7
      <4>1. AI!Holds(c) /\ v1[c] # "UNUSED" /\ v2[c] \in Nat
        BY <2>3, <2>4, <3>2 DEF AI!CopyInv, AI!TypeOK
      <4>2. v2[c] # v6
        BY <1>1, <4>1 DEF AI!Holds
      <4> QED BY <1>1, <2>1, <2>3, <3>2, <4>1, <4>2 DEF AI!Holds
    <3> QED BY <3>1, <3>2
  <2>5. ASSUME NEW n \in 0 .. CopyBlocks - 1 PROVE AI!Somewhere(n)'
    <3>1. AI!Somewhere(n)
      BY DEF AI!CopyInv
    <3>2. CASE n = v6
      BY <1>1, <2>1, <2>3, <3>2 DEF AI!Somewhere
    <3>3. CASE n # v6 /\ \E b \in AI!Buffers : v1[b] # "UNUSED" /\ v2[b] = n
      <4>1. PICK b \in AI!Buffers : v1[b] # "UNUSED" /\ v2[b] = n
        BY <3>3
      <4>2. b # v7 /\ v2[b] < v6
        BY <1>1, <4>1 DEF AI!CopyInv, AI!Holds
      <4>3. v1'[b] # "UNUSED" /\ v2'[b] = n /\ n < v6'
        BY <1>1, <2>1, <2>3, <4>1, <4>2
      <4> QED BY <4>3 DEF AI!Somewhere
    <3>4. CASE n # v6 /\ ~\E b \in AI!Buffers : v1[b] # "UNUSED" /\ v2[b] = n
      BY <1>1, <2>1, <3>1, <3>4 DEF AI!Somewhere
    <3> QED BY <3>2, <3>3, <3>4
  <2> QED BY <1>1, <2>2, <2>4, <2>5 DEF AI!CopyInv
<1>3. CASE ~(v6 < CopyBlocks)
  <2>1. UNCHANGED <<v1, v2, v6, v4, v5>>
    BY <1>3 DEF AI!StartRead
  <2> QED BY <1>1, <2>1 DEF AI!CopyInv, AI!TypeOK, AI!Holds, AI!Somewhere
<1> QED BY <1>2, <1>3

\* What is read is translated and written at its place.
LEMMA CopyWrites == AI!CopyInv /\ AI!StartWrite => AI!CopyInv'
<1> SUFFICES ASSUME AI!CopyInv, AI!StartWrite PROVE AI!CopyInv'
  OBVIOUS
<1>1. /\ AI!TypeOK /\ v7 \in AI!Buffers /\ v1[v7] = "READ_PENDING" /\ v5[v7] # "busy" /\ v8 = "scan"
      /\ UNCHANGED <<v2, v4, v6, v9>> /\ v6 \in 0 .. CopyBlocks
  BY CopyConstants DEF AI!CopyInv, AI!StartWrite, AI!Scan, AI!TypeOK, AI!Buffers
<1>2. CASE v5[v7] = "failed" \/ (v5[v7] = "short" /\ ~v4[v7])
  <2>1. v8' = "err_quit" /\ UNCHANGED <<v1, v3, v5, v7>>
    BY <1>2 DEF AI!StartWrite
  <2> QED BY <1>1, <2>1 DEF AI!CopyInv, AI!TypeOK, AI!Holds, AI!Somewhere
<1>3. CASE ~(v5[v7] = "failed" \/ (v5[v7] = "short" /\ ~v4[v7]))
  <2>1. /\ v3' = [v3 EXCEPT ![v7] = AI!Translate(v3[v7])]
        /\ v1' = [v1 EXCEPT ![v7] = "WRITE_PENDING"]
        /\ v5' = [v5 EXCEPT ![v7] = "busy"]
        /\ v7' = v7 + 1 /\ UNCHANGED v8
    BY <1>3 DEF AI!StartWrite
  <2>2. AI!Holds(v7) /\ v3[v7] = <<"plain", v2[v7]>> /\ AI!Translate(v3[v7]) = <<"rot13", v2[v7]>>
        /\ v2[v7] \in Nat
    BY <1>1 DEF AI!CopyInv, AI!Holds, AI!Translate, AI!TypeOK
  <2>3. AI!TypeOK'
    <3>1. AI!Translate(v3[v7]) \in AI!Contents
      BY <2>2 DEF AI!Contents
    <3>2. v7' \in 0 .. NBUF
      BY <1>1, <2>1, CopyConstants DEF AI!Buffers
    <3> QED BY <1>1, <2>1, <3>1, <3>2 DEF AI!TypeOK
  <2>4. /\ \A c \in AI!Buffers \ {v7} : v1'[c] = v1[c] /\ v3'[c] = v3[c] /\ v5'[c] = v5[c]
        /\ v1'[v7] = "WRITE_PENDING" /\ v3'[v7] = <<"rot13", v2[v7]>> /\ v5'[v7] = "busy"
    BY <1>1, <2>1, <2>2 DEF AI!TypeOK
  <2>5. \A c \in AI!Buffers : v1'[c] # "UNUSED" <=> v1[c] # "UNUSED"
    BY <1>1, <2>4
  <2>6. ASSUME NEW c \in AI!Buffers, v1'[c] # "UNUSED" PROVE AI!Holds(c)'
    <3>1. AI!Holds(c)
      BY <2>5, <2>6 DEF AI!CopyInv
    <3>2. CASE c = v7
      BY <1>1, <2>4, <2>5, <3>1, <3>2 DEF AI!Holds
    <3>3. CASE c # v7
      BY <1>1, <2>4, <2>5, <3>1, <3>3 DEF AI!Holds
    <3> QED BY <3>2, <3>3
  <2>7. ASSUME NEW n \in 0 .. CopyBlocks - 1 PROVE AI!Somewhere(n)'
    BY <1>1, <2>5 DEF AI!CopyInv, AI!Somewhere
  <2> QED BY <1>1, <2>1, <2>3, <2>6, <2>7 DEF AI!CopyInv
<1> QED BY <1>2, <1>3

\* What is written leaves its buffer.
LEMMA CopyFrees == AI!CopyInv /\ AI!EndWrite => AI!CopyInv'
<1> SUFFICES ASSUME AI!CopyInv, AI!EndWrite PROVE AI!CopyInv'
  OBVIOUS
<1>1. /\ AI!TypeOK /\ v7 \in AI!Buffers /\ v1[v7] = "WRITE_PENDING" /\ v8 = "scan"
      /\ UNCHANGED <<v2, v3, v4, v5, v6, v9>> /\ v6 \in 0 .. CopyBlocks
  BY CopyConstants DEF AI!CopyInv, AI!EndWrite, AI!Scan, AI!TypeOK, AI!Buffers
<1>2. CASE v5[v7] # "done"
  <2>1. v8' = "err_quit" /\ UNCHANGED <<v1, v7>>
    BY <1>2 DEF AI!EndWrite
  <2> QED BY <1>1, <2>1 DEF AI!CopyInv, AI!TypeOK, AI!Holds, AI!Somewhere
<1>3. CASE v5[v7] = "done"
  <2>1. v1' = [v1 EXCEPT ![v7] = "UNUSED"] /\ v7' = v7 + 1 /\ UNCHANGED v8
    BY <1>3 DEF AI!EndWrite
  <2>2. AI!TypeOK'
    <3>1. v7' \in 0 .. NBUF
      BY <1>1, <2>1, CopyConstants DEF AI!Buffers
    <3> QED BY <1>1, <2>1, <3>1 DEF AI!TypeOK
  <2>3. (\A c \in AI!Buffers \ {v7} : v1'[c] = v1[c]) /\ v1'[v7] = "UNUSED"
    BY <1>1, <2>1 DEF AI!TypeOK
  <2>4. ASSUME NEW c \in AI!Buffers, v1'[c] # "UNUSED" PROVE AI!Holds(c)'
    <3>1. AI!Holds(c) /\ c # v7 /\ v1'[c] = v1[c]
      BY <2>3, <2>4 DEF AI!CopyInv
    <3> QED BY <1>1, <2>3, <3>1 DEF AI!Holds
  <2>5. v9[v2[v7]] = <<"rot13", v2[v7]>>
    BY <1>1, <1>3 DEF AI!CopyInv, AI!Holds
  <2>6. ASSUME NEW n \in 0 .. CopyBlocks - 1 PROVE AI!Somewhere(n)'
    <3>1. AI!Somewhere(n)
      BY DEF AI!CopyInv
    <3>2. CASE n = v2[v7]
      BY <1>1, <2>5, <3>2 DEF AI!Somewhere, AI!CopyInv, AI!Holds
    <3>3. CASE n # v2[v7]
      BY <1>1, <2>3, <3>1, <3>3 DEF AI!Somewhere
    <3> QED BY <3>2, <3>3
  <2> QED BY <1>1, <2>1, <2>2, <2>4, <2>6 DEF AI!CopyInv
<1> QED BY <1>2, <1>3

LEMMA CopyGoesOn ==
    ASSUME AI!CopyInv, AI!InProgress \/ AI!EndOfRound \/ AI!AioSuspend \/ AI!Fsync
    PROVE  AI!CopyInv'
<1>1. AI!TypeOK /\ v6 \in 0 .. CopyBlocks /\ UNCHANGED <<v1, v2, v3, v4, v5, v6, v9>>
  BY DEF AI!CopyInv, AI!TypeOK, AI!InProgress, AI!EndOfRound, AI!AioSuspend, AI!Fsync
<1>2. v7' \in 0 .. NBUF
  BY CopyConstants DEF AI!CopyInv, AI!TypeOK, AI!InProgress, AI!EndOfRound, AI!AioSuspend,
                       AI!Fsync, AI!Scan, AI!Buffers
<1>3. v8' \in {"scan", "suspend", "fsync", "exit", "err_quit"}
  BY DEF AI!CopyInv, AI!TypeOK, AI!InProgress, AI!EndOfRound, AI!AioSuspend, AI!Fsync
<1>4. AI!TypeOK'
  BY <1>1, <1>2, <1>3 DEF AI!TypeOK
<1>5. v8' \in {"fsync", "exit"} => v6 = CopyBlocks /\ \A b \in AI!Buffers : v1[b] = "UNUSED"
  <2>1. CASE AI!EndOfRound
    <3>1. v8' = "fsync" => AI!numop = 0 /\ v6 >= CopyBlocks
      BY <2>1 DEF AI!EndOfRound, AI!AllWritten
    <3>2. v8' # "exit"
      BY <2>1 DEF AI!EndOfRound
    <3>3. AI!numop = 0 => \A b \in AI!Buffers : v1[b] = "UNUSED"
      BY CopyCards DEF AI!numop
    <3> QED BY <1>1, <3>1, <3>2, <3>3, CopyConstants
  <2>2. CASE ~AI!EndOfRound
    BY <2>2 DEF AI!InProgress, AI!AioSuspend, AI!Fsync, AI!CopyInv, AI!Scan
  <2> QED BY <2>1, <2>2
<1>6. ASSUME NEW b \in AI!Buffers, v1'[b] # "UNUSED" PROVE AI!Holds(b)'
  BY <1>1, <1>6 DEF AI!CopyInv, AI!Holds
<1> QED BY <1>1, <1>4, <1>5, <1>6 DEF AI!CopyInv, AI!Somewhere

LEMMA CopyNext == AI!CopyInv /\ AI!Next => AI!CopyInv'
BY CopyCompletes, CopyReads, CopyWrites, CopyFrees, CopyGoesOn DEF AI!Next, AI!Step

LEMMA CopyKept == AI!CopyInv => AI!CopyWhole
<1> SUFFICES ASSUME AI!CopyInv PROVE AI!CopyWhole
  OBVIOUS
<1>1. v6 \in 0 .. CopyBlocks /\ \A n \in 0 .. CopyBlocks - 1 : AI!Somewhere(n)
  BY DEF AI!CopyInv, AI!TypeOK
<1>2. v8 \in {"fsync", "exit"} => \A n \in 0 .. CopyBlocks - 1 : v9[n] = <<"rot13", n>>
  BY <1>1 DEF AI!CopyInv, AI!Somewhere
<1>3. ASSUME NEW n \in 0 .. CopyBlocks - 1
      PROVE  /\ n >= v6 => v9[n] = AI!Nothing
             /\ LET users == { b \in AI!Buffers : v1[b] # "UNUSED" /\ v2[b] = n } IN
                /\ AI!Cardinality(users) <= 1
                /\ n < v6 /\ users = {} => v9[n] = <<"rot13", n>>
  <2> DEFINE users == { b \in AI!Buffers : v1[b] # "UNUSED" /\ v2[b] = n }
  <2>1. \A b, c \in users : b = c
    BY DEF AI!CopyInv, AI!Holds
  <2>2. AI!Cardinality(users) <= 1
    BY <2>1, CopyCards
  <2>3. n >= v6 => v9[n] = AI!Nothing
    BY <1>1 DEF AI!Somewhere
  <2>4. n < v6 /\ users = {} => v9[n] = <<"rot13", n>>
    BY <1>1 DEF AI!Somewhere
  <2> QED BY <2>2, <2>3, <2>4
<1> QED BY <1>2, <1>3 DEF AI!CopyWhole


CopyHolds == which = "aiocopy" => AI!CopyInv

\* For any number of buffers and any length of the input, every block is translated
\* once and written at its place, in whatever order the system completes the
\* operations (main of rot13c2.c).
THEOREM CopiedWhole == Spec => []CopyWhole
<1>1. Init => CopyHolds
  BY CopyInit DEF Init, CopyHolds
<1>2. CopyHolds /\ [Next]_vars => CopyHolds'
  <2>1. CASE Next
    BY <2>1, CopyNext DEF Next, CopyHolds
  <2>2. CASE UNCHANGED vars
    BY <2>2 DEF vars, CopyHolds, AI!CopyInv, AI!TypeOK, AI!Holds, AI!Somewhere
  <2> QED BY <2>1, <2>2
<1>3. CopyHolds => CopyWhole
  BY CopyKept DEF CopyHolds, CopyWhole
<1> QED BY <1>1, <1>2, <1>3, PTL DEF Spec

(***************************************************************************)
(* A sort by several threads.                                               *)
(***************************************************************************)

LEMMA SortConstants == NTHR \in Nat /\ TNUM \in Nat /\ LONG_MAX \in Nat
BY ProgramsAssumption

LEMMA SortCardinality == \A S : BA!Cardinality(S) = Cardinality(S)
BY DEF BA!Cardinality, Cardinality

LEMMA SortSubset ==
    ASSUME NEW T, IsFiniteSet(T), NEW S, S \subseteq T
    PROVE  /\ IsFiniteSet(S) /\ BA!Cardinality(S) \in Nat
           /\ BA!Cardinality(S) = BA!Cardinality(T) => S = T
BY SortCardinality, FS_Subset, FS_CardinalityType

LEMMA SortAdd ==
    ASSUME NEW S, IsFiniteSet(S), NEW x, x \notin S
    PROVE  BA!Cardinality(S \cup {x}) = BA!Cardinality(S) + 1
BY SortCardinality, FS_AddElement

LEMMA SortUnion ==
    ASSUME NEW S, NEW T, IsFiniteSet(S), IsFiniteSet(T), S \cap T = {}
    PROVE  BA!Cardinality(S \cup T) = BA!Cardinality(S) + BA!Cardinality(T)
<1>1. BA!Cardinality(S \cup T) = BA!Cardinality(S) + BA!Cardinality(T) - BA!Cardinality(S \cap T)
  BY SortCardinality, FS_Union
<1>2. BA!Cardinality(S) \in Nat /\ BA!Cardinality(T) \in Nat
  BY SortCardinality, FS_CardinalityType
<1>3. BA!Cardinality(S \cap T) = 0
  BY SortCardinality, FS_EmptySet
<1> QED BY <1>1, <1>2, <1>3

LEMMA SortEmpty == IsFiniteSet({}) /\ BA!Cardinality({}) = 0
BY SortCardinality, FS_EmptySet

LEMMA SortInterval ==
    ASSUME NEW n \in Nat
    PROVE  /\ IsFiniteSet(0 .. n - 1) /\ BA!Cardinality(0 .. n - 1) = n
           /\ BA!Cardinality(0 .. n) = n + 1 /\ IsFiniteSet(0 .. n)
<1>1. IsFiniteSet(0 .. n - 1) /\ BA!Cardinality(0 .. n - 1) = n
  BY SortCardinality, FS_Interval
<1>2. IsFiniteSet(0 .. n) /\ BA!Cardinality(0 .. n) = n + 1
  BY SortCardinality, FS_Interval
<1> QED BY <1>1, <1>2

\* The parts lie one behind the other.
LEMMA SortParts ==
    /\ BA!NUMNUM \in Nat
    /\ \A k \in BA!Parts : /\ BA!First(k) \in Nat /\ BA!First(k + 1) = BA!First(k) + TNUM
                        /\ BA!First(k + 1) \in Nat /\ BA!First(k + 1) <= BA!NUMNUM
                        /\ BA!Part(k) = BA!First(k) .. BA!First(k + 1) - 1
                        /\ BA!Part(k) \subseteq BA!Places
    /\ \A k, m \in BA!Parts : k < m => BA!First(k + 1) <= BA!First(m)
<1> USE SortConstants
<1>1. \A a \in Nat : a * TNUM \in Nat
  OBVIOUS
<1>2. \A a, b \in Nat : (a + b) * TNUM = a * TNUM + b * TNUM
  OBVIOUS
<1>3. \A a, b \in Nat : a <= b => a * TNUM <= b * TNUM
  <2> SUFFICES ASSUME NEW a \in Nat, NEW b \in Nat, a <= b PROVE a * TNUM <= b * TNUM
    OBVIOUS
  <2>1. b - a \in Nat /\ b = a + (b - a)
    OBVIOUS
  <2>2. b * TNUM = a * TNUM + (b - a) * TNUM
    BY <2>1, <1>2
  <2> QED BY <1>1, <2>1, <2>2
<1>4. 1 * TNUM = TNUM
  OBVIOUS
<1>5. ASSUME NEW k \in BA!Parts
      PROVE  /\ BA!First(k) \in Nat /\ BA!First(k + 1) = BA!First(k) + TNUM
             /\ BA!First(k + 1) \in Nat /\ BA!First(k + 1) <= BA!NUMNUM
  <2>1. k \in Nat /\ k + 1 \in Nat /\ k + 1 <= NTHR
    BY DEF BA!Parts
  <2>2. (k + 1) * TNUM = k * TNUM + TNUM
    BY <1>2, <1>4, <2>1
  <2>3. (k + 1) * TNUM <= NTHR * TNUM
    BY <1>3, <2>1
  <2> QED BY <1>1, <2>1, <2>2, <2>3 DEF BA!First, BA!NUMNUM
<1>6. BA!NUMNUM \in Nat
  BY <1>1 DEF BA!NUMNUM
<1>7. ASSUME NEW k \in BA!Parts
      PROVE  BA!Part(k) = BA!First(k) .. BA!First(k + 1) - 1 /\ BA!Part(k) \subseteq BA!Places
  BY <1>5, <1>6 DEF BA!Part, BA!Places
<1>8. ASSUME NEW k \in BA!Parts, NEW m \in BA!Parts, k < m PROVE BA!First(k + 1) <= BA!First(m)
  <2>1. k + 1 \in Nat /\ m \in Nat /\ k + 1 <= m
    BY <1>8 DEF BA!Parts
  <2> QED BY <1>3, <2>1 DEF BA!First
<1> QED BY <1>5, <1>6, <1>7, <1>8

\* How often a number occurs.
LEMMA SortNone ==
    ASSUME NEW f, NEW v, NEW S, \A x \in S : f[x] # v
    PROVE  BA!Count(f, S, v) = 0
<1>1. { n \in S : f[n] = v } = {}
  OBVIOUS
<1> QED BY <1>1, SortEmpty DEF BA!Count

LEMMA SortSame ==
    ASSUME NEW f, NEW g, NEW v, NEW S, \A x \in S : f[x] = g[x]
    PROVE  BA!Count(f, S, v) = BA!Count(g, S, v)
<1>1. { n \in S : f[n] = v } = { n \in S : g[n] = v }
  OBVIOUS
<1> QED BY <1>1 DEF BA!Count

LEMMA SortCount ==
    ASSUME NEW f, NEW v, NEW S, IsFiniteSet(S)
    PROVE  BA!Count(f, S, v) \in Nat /\ IsFiniteSet({ n \in S : f[n] = v })
<1>1. { n \in S : f[n] = v } \subseteq S
  OBVIOUS
<1> QED BY <1>1, SortSubset DEF BA!Count

LEMMA SortJoin ==
    ASSUME NEW f, NEW v, NEW S, NEW T, IsFiniteSet(S), IsFiniteSet(T), S \cap T = {}
    PROVE  BA!Count(f, S \cup T, v) = BA!Count(f, S, v) + BA!Count(f, T, v)
<1> DEFINE A == { n \in S : f[n] = v }
           B == { n \in T : f[n] = v }
<1>1. { n \in S \cup T : f[n] = v } = A \cup B /\ A \cap B = {}
  OBVIOUS
<1>2. IsFiniteSet(A) /\ IsFiniteSet(B)
  BY SortCount
<1> HIDE DEF A, B
<1>3. BA!Cardinality(A \cup B) = BA!Cardinality(A) + BA!Cardinality(B)
  BY <1>1, <1>2, SortUnion
<1> QED BY <1>1, <1>3 DEF BA!Count, A, B

LEMMA SortMore ==
    ASSUME NEW f, NEW v, NEW S, IsFiniteSet(S), NEW x, x \notin S
    PROVE  BA!Count(f, S \cup {x}, v) = BA!Count(f, S, v) + (IF f[x] = v THEN 1 ELSE 0)
<1> DEFINE A == { n \in S : f[n] = v }
           B == { n \in S \cup {x} : f[n] = v }
<1>1. IsFiniteSet(A) /\ x \notin A
  BY SortCount
<1>2. BA!Cardinality(A) \in Nat
  BY SortCount DEF BA!Count
<1>3. B = IF f[x] = v THEN A \cup {x} ELSE A
  OBVIOUS
<1> HIDE DEF A, B
<1>4. BA!Cardinality(A \cup {x}) = BA!Cardinality(A) + 1
  BY <1>1, SortAdd
<1>5. BA!Cardinality(B) = BA!Cardinality(A) + (IF f[x] = v THEN 1 ELSE 0)
  <2>1. CASE f[x] = v
    BY <1>3, <1>4, <2>1
  <2>2. CASE f[x] # v
    BY <1>2, <1>3, <2>2
  <2> QED BY <2>1, <2>2
<1> QED BY <1>5 DEF BA!Count, A, B

LEMMA SortFinite == IsFiniteSet(BA!Places) /\ BA!Cardinality(BA!Places) = BA!NUMNUM
BY SortParts, SortInterval DEF BA!Places

LEMMA SortNothing ==
    ASSUME BA!Parted, BA!TypeOK, v7[0] \in {"barrier", "wait"}
    PROVE  BA!Merged = {} /\ v6 = 0 /\ 0 .. v6 - 1 = {}
<1>1. v6 = 0 /\ \A k \in BA!Parts : v5[k] = BA!First(k)
  BY DEF BA!Parted
<1>2. \A k \in BA!Parts, n \in BA!Places : ~(BA!First(k) <= n /\ n < v5[k])
  BY <1>1, SortParts DEF BA!Places
<1> QED BY <1>1, <1>2 DEF BA!Merged

LEMMA SortInit == BA!Init => BA!SortInv
<1> SUFFICES ASSUME BA!Init PROVE BA!SortInv
  OBVIOUS
<1>1. BA!TypeOK
  <2>1. v5 \in [BA!Parts -> Nat]
    BY SortParts DEF BA!Init
  <2>2. v7 \in [0 .. NTHR -> {"sort", "barrier", "wait", "merge", "done"}]
    BY DEF BA!Init
  <2>3. v1 \in [BA!Places -> 0 .. LONG_MAX - 1] /\ v2 \in [BA!Places -> Nat]
    BY DEF BA!Init, BA!Places
  <2> QED BY <2>1, <2>2, <2>3, SortParts DEF BA!Init, BA!TypeOK
<1>2. BA!Parted
  <2>1. v7[0] = "barrier" /\ \A t \in 1 .. NTHR : v7[t] = "sort"
    BY SortConstants DEF BA!Init
  <2>2. \A k \in BA!Parts : v5[k] = BA!First(k)
    BY DEF BA!Init
  <2>3. \A k \in BA!Parts : BA!First(k) <= v5[k] /\ v5[k] <= BA!First(k + 1)
    BY <2>2, SortParts, SortConstants
  <2> QED BY <2>1, <2>2, <2>3 DEF BA!Init, BA!Parted
<1>3. BA!Merged = {} /\ v6 = 0 /\ 0 .. v6 - 1 = {}
  <2>1. v7[0] = "barrier"
    BY SortConstants DEF BA!Init
  <2> QED BY <1>1, <1>2, <2>1, SortNothing
<1>4. BA!Cardinality(BA!Merged) = 0
  BY <1>3, SortEmpty
<1>5. \A v : BA!Count(v2, {}, v) = 0 /\ BA!Count(v1, {}, v) = 0
  BY SortNone
<1>6. BA!SortedOn(v2, {})
  BY DEF BA!SortedOn
<1>7. v1 = v3
  BY DEF BA!Init
<1> QED BY <1>1, <1>2, <1>3, <1>4, <1>5, <1>6, <1>7 DEF BA!SortInv

\* A thread sorts its part, and no other.
LEMMA SortHeapsort ==
    ASSUME BA!SortInv, NEW t \in 0 .. NTHR, BA!Heapsort(t)
    PROVE  BA!SortInv'
<1>1. BA!TypeOK /\ BA!Parted /\ v7[t] = "sort"
  BY DEF BA!SortInv, BA!Heapsort
<1>2. t \in 1 .. NTHR /\ t - 1 \in BA!Parts /\ v7[0] \in {"barrier", "wait"}
  BY <1>1, SortConstants DEF BA!Parted, BA!TypeOK, BA!Parts
<1> DEFINE S == BA!Part(t - 1)
<1>3. S \subseteq BA!Places /\ IsFiniteSet(S) /\ IsFiniteSet(BA!Places \ S) /\ IsFiniteSet(BA!Places)
  <2>1. S \subseteq BA!Places
    BY <1>2, SortParts
  <2> QED BY <2>1, SortFinite, FS_Subset
<1>4. PICK part \in [S -> { v1[n] : n \in S }] :
          /\ BA!SortedOn(part, S)
          /\ \A n \in S : BA!Count(part, S, v1[n]) = BA!Count(v1, S, v1[n])
          /\ v1' = [n \in DOMAIN v1 |-> IF n \in S THEN part[n] ELSE v1[n]]
  BY DEF BA!Heapsort
<1>5. v7' = [v7 EXCEPT ![t] = "barrier"] /\ UNCHANGED <<v2, v3, v4, v5, v6>>
  BY DEF BA!Heapsort, BA!Goto
<1> HIDE DEF S
<1>6. DOMAIN v1 = BA!Places /\ v1 \in [BA!Places -> 0 .. LONG_MAX - 1]
  BY <1>1 DEF BA!TypeOK
<1>7. v1' \in [BA!Places -> 0 .. LONG_MAX - 1]
  BY <1>3, <1>4, <1>6
<1>8. (\A n \in S : v1'[n] = part[n]) /\ \A n \in BA!Places \ S : v1'[n] = v1[n]
  BY <1>3, <1>4, <1>6
<1>9. BA!TypeOK'
  BY <1>1, <1>5, <1>7 DEF BA!TypeOK
<1>10. v7'[t] = "barrier" /\ \A u \in 0 .. NTHR : u # t => v7'[u] = v7[u]
  BY <1>1, <1>5 DEF BA!TypeOK
<1>11. ASSUME NEW u \in 1 .. NTHR, v7'[u] # "sort" PROVE BA!SortedOn(v1', BA!Part(u - 1))
  <2>1. CASE u = t
    <3>1. BA!SortedOn(v1', S)
      BY <1>4, <1>8 DEF BA!SortedOn
    <3> QED BY <2>1, <3>1 DEF S
  <2>2. CASE u # t
    <3>1. BA!SortedOn(v1, BA!Part(u - 1)) /\ u - 1 \in BA!Parts
      BY <1>1, <1>10, <1>11, <2>2, SortConstants DEF BA!Parted, BA!Parts
    <3>2. BA!Part(u - 1) \subseteq BA!Places \ S
      <4>1. (u - 1 < t - 1 /\ BA!First(u - 1 + 1) <= BA!First(t - 1))
            \/ (t - 1 < u - 1 /\ BA!First(t - 1 + 1) <= BA!First(u - 1))
        BY <1>2, <2>2, <3>1, SortParts
      <4>2. BA!Part(u - 1) = BA!First(u - 1) .. BA!First(u - 1 + 1) - 1 /\ BA!Part(u - 1) \subseteq BA!Places
            /\ S = BA!First(t - 1) .. BA!First(t - 1 + 1) - 1
        BY <1>2, <3>1, SortParts DEF S
      <4>3. /\ BA!First(u - 1) \in Nat /\ BA!First(u - 1 + 1) \in Nat
            /\ BA!First(t - 1) \in Nat /\ BA!First(t - 1 + 1) \in Nat
        BY <1>2, <3>1, SortParts
      <4> HIDE DEF S
      <4> QED BY <4>1, <4>2, <4>3
    <3> QED BY <1>8, <3>1, <3>2 DEF BA!SortedOn
  <2> QED BY <2>1, <2>2
<1>12. BA!Parted'
  <2>1. \A u \in 1 .. NTHR : v7'[u] # "sort" => BA!SortedOn(v1', BA!Part(u - 1))
    BY <1>11
  <2>2. \A u \in v4' : v7'[u] # "sort"
    BY <1>1, <1>5, <1>10 DEF BA!Parted, BA!TypeOK
  <2>3. v7'[0] = v7[0]
    BY <1>2, <1>10, SortConstants
  <2> QED BY <1>1, <1>2, <1>5, <2>1, <2>2, <2>3 DEF BA!Parted
<1>13. BA!Merged = {} /\ v6 = 0 /\ 0 .. v6 - 1 = {} /\ BA!Merged' = {}
  <2>1. BA!Merged' = BA!Merged
    BY <1>5 DEF BA!Merged
  <2> QED BY <1>1, <1>2, <2>1, SortNothing
<1>14. ASSUME NEW v \in 0 .. LONG_MAX - 1 PROVE BA!Count(v1', BA!Places, v) = BA!Count(v3', BA!Places, v)
  <2>1. BA!Places = S \cup (BA!Places \ S) /\ S \cap (BA!Places \ S) = {}
    BY <1>3
  <2>2. BA!Count(v1', S, v) = BA!Count(v1, S, v)
    <3>1. BA!Count(v1', S, v) = BA!Count(part, S, v)
      BY <1>8, SortSame
    <3>2. CASE \E n \in S : v1[n] = v
      BY <1>4, <3>1, <3>2
    <3>3. CASE ~\E n \in S : v1[n] = v
      <4>1. \A n \in S : part[n] # v /\ v1[n] # v
        BY <1>4, <3>3
      <4>2. BA!Count(part, S, v) = 0
        BY <4>1, SortNone
      <4>3. BA!Count(v1, S, v) = 0
        BY <4>1, SortNone
      <4> QED BY <3>1, <4>2, <4>3
    <3> QED BY <3>2, <3>3
  <2>3. BA!Count(v1', BA!Places \ S, v) = BA!Count(v1, BA!Places \ S, v)
    BY <1>8, SortSame
  <2>4. BA!Count(v1', BA!Places, v) = BA!Count(v1', S, v) + BA!Count(v1', BA!Places \ S, v)
    <3>1. BA!Count(v1', S \cup (BA!Places \ S), v)
              = BA!Count(v1', S, v) + BA!Count(v1', BA!Places \ S, v)
      BY <1>3, <2>1, SortJoin
    <3> QED BY <2>1, <3>1
  <2>5. BA!Count(v1, BA!Places, v) = BA!Count(v1, S, v) + BA!Count(v1, BA!Places \ S, v)
    <3>1. BA!Count(v1, S \cup (BA!Places \ S), v)
              = BA!Count(v1, S, v) + BA!Count(v1, BA!Places \ S, v)
      BY <1>3, <2>1, SortJoin
    <3> QED BY <2>1, <3>1
  <2>6. BA!Count(v1, BA!Places, v) = BA!Count(v3, BA!Places, v)
    BY DEF BA!SortInv
  <2> QED BY <1>5, <2>2, <2>3, <2>4, <2>5, <2>6
<1>15. \A v : BA!Count(v2', {}, v) = 0 /\ BA!Count(v1', {}, v) = 0
  BY SortNone
<1>16. BA!Cardinality(BA!Merged') = v6' /\ BA!SortedOn(v2', 0 .. v6' - 1)
       /\ \A m \in 0 .. v6' - 1, n \in BA!Unmerged' : v2'[m] <= v1'[n]
  <2>1. BA!Cardinality(BA!Merged) = v6
    BY DEF BA!SortInv
  <2> QED BY <1>5, <1>13, <2>1 DEF BA!SortedOn
<1> QED BY <1>5, <1>9, <1>12, <1>13, <1>14, <1>15, <1>16 DEF BA!SortInv

\* The barrier opens when all have come, and then all parts are sorted.
LEMMA SortBarrier ==
    ASSUME BA!SortInv, NEW t \in 0 .. NTHR, BA!Arrive(t) \/ BA!Leave(t)
    PROVE  BA!SortInv'
<1>1. BA!TypeOK /\ BA!Parted /\ UNCHANGED <<v1, v2, v3, v5, v6>>
  BY DEF BA!SortInv, BA!Arrive, BA!Leave
<1>2. BA!Merged' = BA!Merged /\ BA!Unmerged' = BA!Unmerged
  BY <1>1 DEF BA!Merged, BA!Unmerged
<1>3. v7[t] \in {"barrier", "wait"}
      /\ \A u \in 0 .. NTHR : u # t => v7'[u] = v7[u]
  BY <1>1 DEF BA!Arrive, BA!Leave, BA!Goto, BA!TypeOK
<1>4. CASE BA!Arrive(t)
  <2>1. v7'[t] = "wait" /\ v4' = v4 \cup {t}
    BY <1>1, <1>4 DEF BA!Arrive, BA!Goto, BA!TypeOK
  <2>2. BA!TypeOK'
    BY <1>1, <1>4 DEF BA!Arrive, BA!Goto, BA!TypeOK
  <2>3. BA!Parted'
    BY <1>1, <1>2, <1>3, <2>1, SortConstants DEF BA!Parted, BA!TypeOK
  <2> QED BY <1>1, <1>2, <2>2, <2>3 DEF BA!SortInv
<1>5. CASE BA!Leave(t)
  <2>1. /\ v4' = v4 /\ BA!Cardinality(v4) = NTHR + 1
        /\ v7'[t] = IF t = 0 THEN "merge" ELSE "done"
    BY <1>1, <1>5 DEF BA!Leave, BA!All, BA!Goto, BA!TypeOK
  <2>2. BA!TypeOK'
    BY <1>1, <1>5 DEF BA!Leave, BA!Goto, BA!TypeOK
  <2>3. v4 = 0 .. NTHR
    <3>1. v4 \subseteq 0 .. NTHR /\ IsFiniteSet(0 .. NTHR) /\ BA!Cardinality(0 .. NTHR) = NTHR + 1
      BY <1>1, SortInterval, SortConstants DEF BA!TypeOK
    <3> QED BY <2>1, <3>1, SortSubset
  <2>4. \A u \in 0 .. NTHR : v7[u] # "sort"
    BY <1>1, <2>3 DEF BA!Parted
  <2>5. BA!Parted'
    BY <1>1, <1>3, <2>1, <2>4, SortConstants DEF BA!Parted, BA!TypeOK
  <2> QED BY <1>1, <1>2, <2>2, <2>5 DEF BA!SortInv
<1> QED BY <1>4, <1>5

\* The least of what is left is next.
LEMMA SortTakes ==
    ASSUME BA!SortInv, BA!Merge, v6 < BA!NUMNUM
    PROVE  BA!SortInv'
<1>1. BA!TypeOK /\ BA!Parted /\ v7[0] = "merge" /\ UNCHANGED <<v1, v3, v4, v7>>
      /\ v6' = v6 + 1
  BY DEF BA!SortInv, BA!Merge
<1>2. PICK k \in BA!Parts : /\ BA!IsLeast(k)
                         /\ v2' = [v2 EXCEPT ![v6] = v1[v5[k]]]
                         /\ v5' = [v5 EXCEPT ![k] = v5[k] + 1]
  BY DEF BA!Merge
<1> DEFINE p == v5[k]
<1>3. /\ BA!First(k) <= p /\ p < BA!First(k + 1) /\ p \in Nat /\ p \in BA!Places
      /\ BA!First(k) \in Nat /\ BA!First(k + 1) \in Nat
  BY <1>1, <1>2, SortParts DEF BA!IsLeast, BA!Left, BA!Parted, BA!TypeOK, BA!Places
<1>4. v6 \in BA!Places /\ v6 \in Nat /\ BA!NUMNUM \in Nat
  BY <1>1, SortParts DEF BA!TypeOK, BA!Places
<1>5. v5'[k] = p + 1 /\ \A m \in BA!Parts : m # k => v5'[m] = v5[m]
  BY <1>1, <1>2 DEF BA!TypeOK
<1>6. v2'[v6] = v1[p] /\ \A n \in BA!Places : n # v6 => v2'[n] = v2[n]
  BY <1>1, <1>2, <1>4 DEF BA!TypeOK
<1>7. v1[p] \in Nat /\ \A n \in BA!Places : v1[n] \in Nat /\ v2[n] \in Nat
  BY <1>1, <1>3, SortConstants DEF BA!TypeOK
<1>b. \A m \in BA!Parts : /\ BA!First(m) \in Nat /\ BA!First(m + 1) \in Nat /\ v5[m] \in Nat
                       /\ BA!First(m) <= v5[m] /\ v5[m] <= BA!First(m + 1)
  BY <1>1, SortParts DEF BA!Parted, BA!TypeOK
<1>8. BA!TypeOK'
  <2>1. v5' \in [BA!Parts -> Nat]
    BY <1>1, <1>2, <1>3 DEF BA!TypeOK
  <2>2. v2' \in [BA!Places -> Nat]
    BY <1>1, <1>2, <1>7 DEF BA!TypeOK
  <2>3. v6' \in 0 .. BA!NUMNUM
    BY <1>1, <1>4
  <2> QED BY <1>1, <2>1, <2>2, <2>3 DEF BA!TypeOK
<1>9. BA!Parted'
  <2>1. \A m \in BA!Parts : BA!First(m) <= v5'[m] /\ v5'[m] <= BA!First(m + 1)
    BY <1>3, <1>5, <1>b
  <2> QED BY <1>1, <2>1 DEF BA!Parted
<1>10. \A m \in BA!Parts : m # k => ~(BA!First(m) <= p /\ p < BA!First(m + 1))
  <2> SUFFICES ASSUME NEW m \in BA!Parts, m # k PROVE ~(BA!First(m) <= p /\ p < BA!First(m + 1))
    OBVIOUS
  <2>1. (m < k /\ BA!First(m + 1) <= BA!First(k)) \/ (k < m /\ BA!First(k + 1) <= BA!First(m))
    BY SortParts DEF BA!Parts
  <2> QED BY <1>3, <1>b, <2>1
<1>11. p \notin BA!Merged /\ BA!Merged' = BA!Merged \cup {p} /\ BA!Unmerged' \subseteq BA!Unmerged
       /\ p \in BA!Unmerged
  <2> HIDE DEF p
  <2>1. p \notin BA!Merged
    BY <1>3, <1>10, <1>b DEF BA!Merged, p
  <2>2. ASSUME NEW n \in BA!Places
        PROVE  n \in BA!Merged' <=> n \in BA!Merged \cup {p}
    <3>1. n \in Nat
      BY DEF BA!Places
    <3>2. \A m \in BA!Parts : m # k => ((BA!First(m) <= n /\ n < v5'[m]) <=> (BA!First(m) <= n /\ n < v5[m]))
      BY <1>5
    <3>3. (BA!First(k) <= n /\ n < v5'[k]) <=> ((BA!First(k) <= n /\ n < v5[k]) \/ n = p)
      BY <1>3, <1>5, <3>1 DEF p
    <3> QED BY <3>2, <3>3 DEF BA!Merged
  <2>3. BA!Merged' \subseteq BA!Places /\ BA!Merged \cup {p} \subseteq BA!Places
    BY <1>3 DEF BA!Merged
  <2>4. BA!Unmerged' \subseteq BA!Unmerged
    <3> SUFFICES ASSUME NEW n \in BA!Places, NEW m \in BA!Parts, v5'[m] <= n, n < BA!First(m + 1)
                 PROVE  v5[m] <= n
      BY DEF BA!Unmerged
    <3> QED BY <1>5, <1>3, <1>b DEF BA!Places, p
  <2>5. p \in BA!Unmerged
    BY <1>3 DEF BA!Unmerged, p
  <2> QED BY <2>1, <2>2, <2>3, <2>4, <2>5
<1>12. \A n \in BA!Unmerged : v1[p] <= v1[n]
  <2> SUFFICES ASSUME NEW n \in BA!Places, NEW m \in BA!Parts, v5[m] <= n, n < BA!First(m + 1)
               PROVE  v1[p] <= v1[n]
    BY DEF BA!Unmerged
  <2>1. n \in Nat /\ m \in BA!Left
    BY <1>b DEF BA!Left, BA!Places
  <2>2. v1[p] <= v1[v5[m]]
    BY <1>2, <2>1 DEF BA!IsLeast
  <2>3. v5[m] \in BA!Part(m) /\ n \in BA!Part(m) /\ BA!Part(m) \subseteq BA!Places
    BY <1>b, <2>1, SortParts
  <2>4. BA!SortedOn(v1, BA!Part(m))
    <3>1. PICK t \in 1 .. NTHR : t - 1 = m
      <4> DEFINE next == m + 1
      <4>1. next \in 1 .. NTHR /\ next - 1 = m
        BY SortConstants DEF BA!Parts
      <4> HIDE DEF next
      <4> QED BY <4>1
    <3>2. v7[t] # "sort"
      BY <1>1 DEF BA!Parted
    <3>3. BA!SortedOn(v1, BA!Part(t - 1))
      BY <1>1, <3>2 DEF BA!Parted
    <3> QED BY <3>1, <3>3
  <2>5. v1[v5[m]] <= v1[n]
    BY <2>1, <2>3, <2>4, <1>7, <1>b DEF BA!SortedOn
  <2>6. v1[v5[m]] \in Nat /\ v1[n] \in Nat
    BY <1>7, <2>3
  <2> QED BY <1>7, <2>2, <2>5, <2>6
<1> HIDE DEF p
<1>13. IsFiniteSet(BA!Merged) /\ BA!Cardinality(BA!Merged') = v6'
  <2>1. IsFiniteSet(BA!Merged)
    BY SortFinite, FS_Subset DEF BA!Merged
  <2>2. BA!Cardinality(BA!Merged \cup {p}) = BA!Cardinality(BA!Merged) + 1
    BY <1>11, <2>1, SortAdd
  <2> QED BY <1>1, <1>11, <2>1, <2>2 DEF BA!SortInv
<1>14. 0 .. v6' - 1 = (0 .. v6 - 1) \cup {v6} /\ v6 \notin 0 .. v6 - 1
       /\ IsFiniteSet(0 .. v6 - 1) /\ 0 .. v6 - 1 \subseteq BA!Places
  <2>1. 0 .. v6' - 1 = (0 .. v6 - 1) \cup {v6} /\ v6 \notin 0 .. v6 - 1
    BY <1>1, <1>4
  <2>2. 0 .. v6 - 1 \subseteq BA!Places
    BY <1>4 DEF BA!Places
  <2> QED BY <1>4, <2>1, <2>2, SortInterval
<1>15. ASSUME NEW v \in 0 .. LONG_MAX - 1
       PROVE  BA!Count(v2', 0 .. v6' - 1, v) = BA!Count(v1', BA!Merged', v)
  <2>1. BA!Count(v2, 0 .. v6 - 1, v) = BA!Count(v1, BA!Merged, v)
    BY DEF BA!SortInv
  <2>2. BA!Count(v2', 0 .. v6 - 1, v) = BA!Count(v2, 0 .. v6 - 1, v)
    <3>1. \A n \in 0 .. v6 - 1 : v2'[n] = v2[n]
      BY <1>6, <1>14
    <3>2. { n \in 0 .. v6 - 1 : v2'[n] = v } = { n \in 0 .. v6 - 1 : v2[n] = v }
      BY <3>1
    <3> QED BY <3>2 DEF BA!Count
  <2>3. BA!Count(v2', 0 .. v6' - 1, v)
            = BA!Count(v2', 0 .. v6 - 1, v) + (IF v2'[v6] = v THEN 1 ELSE 0)
    <3>1. BA!Count(v2', (0 .. v6 - 1) \cup {v6}, v)
              = BA!Count(v2', 0 .. v6 - 1, v) + (IF v2'[v6] = v THEN 1 ELSE 0)
      BY <1>14, SortMore
    <3> QED BY <1>14, <3>1
  <2>4. BA!Count(v1, BA!Merged \cup {p}, v) = BA!Count(v1, BA!Merged, v) + (IF v1[p] = v THEN 1 ELSE 0)
    BY <1>11, <1>13, SortMore
  <2> QED BY <1>1, <1>6, <1>11, <2>1, <2>2, <2>3, <2>4
<1>16. BA!SortedOn(v2', 0 .. v6' - 1)
  <2> SUFFICES ASSUME NEW a \in 0 .. v6' - 1, NEW b \in 0 .. v6' - 1, a < b
               PROVE  v2'[a] <= v2'[b]
    BY DEF BA!SortedOn
  <2>1. a \in 0 .. v6 - 1 /\ v2'[a] = v2[a]
    BY <1>4, <1>6, <1>14
  <2>2. CASE b = v6
    BY <1>6, <1>11, <2>1, <2>2 DEF BA!SortInv
  <2>3. CASE b # v6
    <3>1. b \in 0 .. v6 - 1 /\ v2'[b] = v2[b]
      BY <1>4, <1>6, <1>14, <2>3
    <3> QED BY <2>1, <3>1 DEF BA!SortInv, BA!SortedOn
  <2> QED BY <2>2, <2>3
<1>17. ASSUME NEW a \in 0 .. v6' - 1, NEW n \in BA!Unmerged' PROVE v2'[a] <= v1'[n]
  <2>1. n \in BA!Unmerged
    BY <1>11
  <2>2. CASE a = v6
    BY <1>1, <1>6, <1>12, <2>1, <2>2
  <2>3. CASE a # v6
    <3>1. a \in 0 .. v6 - 1 /\ v2'[a] = v2[a]
      BY <1>4, <1>6, <1>14, <2>3
    <3> QED BY <1>1, <2>1, <3>1 DEF BA!SortInv
  <2> QED BY <2>2, <2>3
<1>18. \A v \in 0 .. LONG_MAX - 1 : BA!Count(v1', BA!Places, v) = BA!Count(v3', BA!Places, v)
  BY <1>1 DEF BA!SortInv
<1> QED BY <1>8, <1>9, <1>13, <1>15, <1>16, <1>17, <1>18 DEF BA!SortInv

LEMMA SortNext == BA!SortInv /\ BA!Next => BA!SortInv'
<1> SUFFICES ASSUME BA!SortInv, BA!Next PROVE BA!SortInv'
  OBVIOUS
<1>1. CASE BA!Merge /\ ~(v6 < BA!NUMNUM)
  <2>1. UNCHANGED <<v1, v3, v4, v2, v5, v6>> /\ v7' = [v7 EXCEPT ![0] = "done"]
        /\ v7[0] = "merge"
    BY <1>1 DEF BA!Merge, BA!Goto
  <2>2. BA!TypeOK /\ BA!Parted /\ v6 = BA!NUMNUM
    BY <1>1, SortParts DEF BA!SortInv, BA!TypeOK
  <2>3. v7'[0] = "done" /\ \A u \in 0 .. NTHR : u # 0 => v7'[u] = v7[u]
    BY <2>1, <2>2, SortConstants DEF BA!TypeOK
  <2>4. BA!TypeOK'
    BY <2>1, <2>2 DEF BA!TypeOK
  <2>5. BA!Parted'
    BY <2>1, <2>2, <2>3, SortConstants DEF BA!Parted, BA!TypeOK
  <2>6. BA!Merged' = BA!Merged /\ BA!Unmerged' = BA!Unmerged
    BY <2>1 DEF BA!Merged, BA!Unmerged
  <2> QED BY <2>1, <2>4, <2>5, <2>6 DEF BA!SortInv
<1> QED BY <1>1, SortTakes, SortHeapsort, SortBarrier DEF BA!Next, BA!Step

LEMMA SortKept == BA!SortInv => BA!SortMerged
<1> SUFFICES ASSUME BA!SortInv, v7[0] = "done" PROVE BA!SortMerged
  BY DEF BA!SortMerged
<1>1. BA!TypeOK /\ v6 = BA!NUMNUM /\ BA!Cardinality(BA!Merged) = BA!NUMNUM
  BY DEF BA!SortInv, BA!Parted
<1>2. BA!Merged = BA!Places
  <2>1. BA!Merged \subseteq BA!Places
    BY DEF BA!Merged
  <2> QED BY <1>1, <2>1, SortSubset, SortFinite
<1>3. DOMAIN v2 = BA!Places /\ DOMAIN v3 = BA!Places /\ 0 .. v6 - 1 = BA!Places
      /\ \A n \in BA!Places : v3[n] \in 0 .. LONG_MAX - 1
  BY <1>1 DEF BA!TypeOK, BA!Places
<1> QED BY <1>2, <1>3 DEF BA!SortInv, BA!SortMerged


SortHolds == which = "barrier" => BA!SortInv

\* For any number of threads and of numbers, what the main thread prints is the input
\* in order: no number is lost or taken twice, and every part is sorted before the
\* merge begins (thr_fn, pthread_barrier_wait, merge).
THEOREM MergedInOrder == Spec => []SortMerged
<1>1. Init => SortHolds
  BY SortInit DEF Init, SortHolds
<1>2. SortHolds /\ [Next]_vars => SortHolds'
  <2>1. CASE Next
    BY <2>1, SortNext DEF Next, SortHolds
  <2>2. CASE UNCHANGED vars
    <3>1. BA!Merged' = BA!Merged /\ BA!Unmerged' = BA!Unmerged
      BY <2>2 DEF vars, BA!Merged, BA!Unmerged
    <3>2. BA!TypeOK => BA!TypeOK'
      BY <2>2 DEF vars, BA!TypeOK
    <3>3. BA!Parted => BA!Parted'
      BY <2>2 DEF vars, BA!Parted
    <3> QED BY <2>2, <3>1, <3>2, <3>3 DEF vars, SortHolds, BA!SortInv
  <2> QED BY <2>1, <2>2
<1>3. SortHolds => SortMerged
  BY SortKept DEF SortHolds, SortMerged
<1> QED BY <1>1, <1>2, <1>3, PTL DEF Spec

(***************************************************************************)
(* A stream on memory.                                                      *)
(***************************************************************************)

LEMMA StreamConstants == MemSize \in Nat /\ MemSize > 0
BY ProgramsAssumption

LEMMA StreamFindEnd ==
    ASSUME NEW b \in MS!Buffer
    PROVE  MS!FindEnd(b) \in 0 .. MemSize /\ (MS!FindEnd(b) = MemSize \/ b[MS!FindEnd(b)] = 0)
<1> DEFINE S == { n \in 0 .. MemSize : n = MemSize \/ b[n] = 0 }
<1>1. MemSize \in S /\ S \in SUBSET (0 .. MemSize)
  BY StreamConstants
<1>2. PICK x \in S : \A y \in S : x <= y
  BY <1>1, LeastNumber, StreamConstants
<1>3. \A m \in 0 .. x - 1 : b[m] # 0
  <2> SUFFICES ASSUME NEW m \in 0 .. x - 1, b[m] = 0 PROVE FALSE
    OBVIOUS
  <2>1. m \in S
    BY <1>2, StreamConstants
  <2> QED BY <1>2, <2>1
<1>4. \E n \in 0 .. MemSize : (n = MemSize \/ b[n] = 0) /\ \A m \in 0 .. n - 1 : b[m] # 0
  BY <1>2, <1>3
<1> QED BY <1>4 DEF MS!FindEnd

LEMMA StreamPiece ==
    ASSUME NEW b \in MS!Buffer, NEW at \in Nat, NEW n \in Nat, at + n <= MemSize
    PROVE  /\ MS!Piece(b, at, n) \in Seq(MS!Content) /\ Len(MS!Piece(b, at, n)) = n
           /\ \A k \in 1 .. n : MS!Piece(b, at, n)[k] = b[at + k - 1]
<1>1. \A k \in 1 .. n : b[at + k - 1] \in MS!Content
  BY StreamConstants DEF MS!Buffer, MS!Content
<1> QED BY <1>1 DEF MS!Piece

LEMMA StreamInit == MS!Init => MS!StreamInv
BY DEF MS!Init, MS!StreamInv

\* A stream is opened.
LEMMA StreamOpens ==
    ASSUME MS!StreamInv, NEW f \in MS!TypeToFlags, NEW own \in BOOLEAN, MS!Fmemopen(f, own)
    PROVE  MS!StreamInv'
<1>1. v2 \in MS!Buffer /\ v2' \in MS!Buffer /\ MS!FindEnd(v2) \in 0 .. MemSize
  BY StreamFindEnd DEF MS!StreamInv, MS!Fmemopen
<1>2. v3' \in 0 .. MemSize /\ v4' \in 0 .. v3'
  BY <1>1, StreamConstants DEF MS!Fmemopen
<1>a. PICK z \in Nat : v3' = z /\ z <= MemSize
  BY <1>2, StreamConstants
<1>3. v6' = MS!Piece(v2', 0, z) /\ v7' = [at |-> 0, what |-> <<>>] /\ v8' = FALSE
  BY <1>a DEF MS!Fmemopen, MS!NoRead
<1>4. /\ v6' \in Seq(MS!Content) /\ Len(v6') = z
      /\ \A k \in 1 .. z : v6'[k] = v2'[k - 1]
  <2>1. 0 + z <= MemSize /\ \A k \in 1 .. z : 0 + k - 1 = k - 1
    BY <1>a, StreamConstants
  <2>2. /\ MS!Piece(v2', 0, z) \in Seq(MS!Content) /\ Len(MS!Piece(v2', 0, z)) = z
        /\ \A k \in 1 .. z : MS!Piece(v2', 0, z)[k] = v2'[0 + k - 1]
    BY <1>1, <2>1, StreamPiece
  <2> QED BY <1>3, <2>1, <2>2
<1>5. v5' \in {f, f \cup {"MYBUF"}}
  BY DEF MS!Fmemopen
<1>b. ("READ" \in v5' <=> "READ" \in f) /\ ("WRITE" \in v5' <=> "WRITE" \in f)
      /\ ("APPEND" \in v5' <=> "APPEND" \in f)
  BY <1>5
<1>c. "READ" \in v5' /\ v5' \cap {"APPEND", "WRITE"} # {} => "WRITE" \in v5'
  <2>1. "READ" \in f /\ f \cap {"APPEND", "WRITE"} # {} => "WRITE" \in f
    BY DEF MS!TypeToFlags
  <2> QED BY <1>b, <2>1
<1>d. "APPEND" \in f => (own /\ v3' = 0) \/ (~own /\ v3' = MS!FindEnd(v2) /\ v2' = v2)
  BY DEF MS!Fmemopen
<1>e. "APPEND" \notin f => (v3' = 0 \/ v3' = MemSize)
  BY DEF MS!Fmemopen
<1>6. MS!FindEnd(v2) = MemSize \/ v2[MS!FindEnd(v2)] = 0
  BY StreamFindEnd DEF MS!StreamInv
<1>7. MS!Faithful'
  <2>1. \A n \in 0 .. z - 1 : n + 1 \in 1 .. z /\ (n + 1) - 1 = n
    OBVIOUS
  <2>2. \A n \in 0 .. z - 1 : v2'[n] = v6'[n + 1]
    BY <1>4, <2>1
  <2> QED BY <1>a, <2>2 DEF MS!Faithful
<1>8. MS!Terminated'
  <2>1. v3' = MemSize \/ v2'[v3'] = 0 \/ v3' = 0
    <3>1. CASE "APPEND" \in f
      BY <1>6, <1>d, <3>1
    <3>2. CASE "APPEND" \notin f
      BY <1>e, <3>2
    <3> QED BY <3>1, <3>2
  <2> QED BY <1>3, <2>1 DEF MS!Terminated
<1>9. MS!Returned'
  <2>1. v7'.at = 0 /\ v7'.what = <<>> /\ Len(<<>>) = 0
    BY <1>3
  <2>2. SubSeq(v6', 1, 0) = <<>>
    BY <1>4
  <2> QED BY <2>1, <2>2 DEF MS!Returned
<1> QED BY <1>1, <1>2, <1>a, <1>c, <1>4, <1>7, <1>8, <1>9 DEF MS!StreamInv

\* What is read is in the file.
LEMMA StreamReads ==
    ASSUME MS!StreamInv, NEW len \in Nat, MS!MstreamRead(len)
    PROVE  MS!StreamInv'
<1>1. /\ v1 /\ "READ" \in v5 /\ UNCHANGED <<v1, v2, v3, v5, v6, v8>>
      /\ v3 \in 0 .. MemSize /\ v4 \in 0 .. v3 /\ v2 \in MS!Buffer
      /\ v6 \in Seq(MS!Content) /\ Len(v6) = v3
      /\ \A n \in 0 .. v3 - 1 : v2[n] = v6[n + 1]
  BY DEF MS!MstreamRead, MS!StreamInv, MS!Faithful
<1> DEFINE nr == IF v4 >= v3 THEN 0 ELSE MS!Least(len, v3 - v4)
<1>2. nr \in Nat /\ v4 + nr <= v3
  BY <1>1, StreamConstants DEF MS!Least
<1>3. v7' = [at |-> v4, what |-> MS!Piece(v2, v4, nr)] /\ v4' = v4 + nr
  BY DEF MS!MstreamRead
<1> HIDE DEF nr
<1>4. v4' \in 0 .. v3 /\ v4 \in Nat /\ v3 \in Nat /\ v4 + nr <= MemSize
  BY <1>1, <1>2, <1>3, StreamConstants
<1>5. /\ MS!Piece(v2, v4, nr) \in Seq(MS!Content) /\ Len(MS!Piece(v2, v4, nr)) = nr
      /\ \A k \in 1 .. nr : MS!Piece(v2, v4, nr)[k] = v2[v4 + k - 1]
  BY <1>1, <1>2, <1>4, StreamPiece
<1>6. SubSeq(v6, v4 + 1, v4 + nr) = MS!Piece(v2, v4, nr)
  <2>1. /\ SubSeq(v6, v4 + 1, v4 + nr) \in Seq(MS!Content)
        /\ Len(SubSeq(v6, v4 + 1, v4 + nr)) = nr
        /\ \A k \in 1 .. nr : SubSeq(v6, v4 + 1, v4 + nr)[k] = v6[v4 + k]
    BY <1>1, <1>2, <1>4, SubSeqProperties
  <2>2. ASSUME NEW k \in 1 .. nr
        PROVE  SubSeq(v6, v4 + 1, v4 + nr)[k] = MS!Piece(v2, v4, nr)[k]
    <3>1. v4 + k - 1 \in 0 .. v3 - 1 /\ v4 + k - 1 + 1 = v4 + k
      BY <1>2, <1>4
    <3>2. v2[v4 + k - 1] = v6[v4 + k - 1 + 1]
      BY <1>1, <3>1
    <3> QED BY <1>5, <2>1, <3>1, <3>2
  <2> QED BY <1>5, <2>1, <2>2, SeqEqual
<1>7. MS!Returned'
  <2>1. v7'.at = v4 /\ v7'.what = MS!Piece(v2, v4, nr)
    BY <1>3
  <2> QED BY <1>1, <1>4, <1>5, <1>6, <2>1 DEF MS!Returned
<1>8. MS!Faithful' /\ MS!Terminated'
  BY <1>1 DEF MS!StreamInv, MS!Faithful, MS!Terminated, MS!ReadWrite, MS!WriteOnly
<1> QED BY <1>1, <1>4, <1>7, <1>8 DEF MS!StreamInv

\* What is written goes to the same place of the buffer and of the file.
LEMMA StreamWrites ==
    ASSUME MS!StreamInv, NEW s \in Seq(Chars), Len(s) > 0, MS!MstreamWrite(s)
    PROVE  MS!StreamInv'
<1>1. /\ v1 /\ v5 \cap {"APPEND", "WRITE"} # {} /\ UNCHANGED <<v1, v5>>
      /\ v3 \in 0 .. MemSize /\ v4 \in 0 .. v3 /\ v2 \in MS!Buffer
      /\ v6 \in Seq(MS!Content) /\ Len(v6) = v3
      /\ Len(s) \in Nat /\ v3 \in Nat /\ v4 \in Nat /\ v8' = TRUE /\ v7' = MS!NoRead
      /\ "READ" \in v5 => MS!ReadWrite
  BY StreamConstants DEF MS!MstreamWrite, MS!StreamInv, MS!ReadWrite
<1> DEFINE off == MS!WriteOffset
           nw == MS!Least(Len(s), MemSize - off)
           pos == off + nw
           copied == [n \in 0 .. MemSize - 1 |->
                         IF n \in off .. pos - 1 THEN s[n - off + 1] ELSE v2[n]]
           part == SubSeq(s, 1, nw)
<1>2. off \in 0 .. v3 /\ nw \in Nat /\ pos \in 0 .. MemSize /\ nw <= Len(s) /\ off \in Nat
      /\ pos \in Nat /\ v3 <= MemSize /\ off <= v3
  <2>1. off \in {v3, v4}
    BY DEF MS!WriteOffset
  <2>2. off \in 0 .. v3 /\ off \in Nat /\ off <= v3 /\ v3 <= MemSize
    BY <1>1, <2>1, StreamConstants
  <2> HIDE DEF off
  <2>3. nw = IF Len(s) < MemSize - off THEN Len(s) ELSE MemSize - off
    BY DEF MS!Least
  <2> HIDE DEF nw
  <2>4. nw \in Nat /\ nw <= Len(s) /\ off + nw <= MemSize
    BY <1>1, <2>2, <2>3, StreamConstants
  <2> QED BY <2>2, <2>4, StreamConstants
<1>3. /\ v2' = MS!Terminate(copied, pos) /\ v4' = pos
      /\ v3' = IF pos > v3 THEN pos ELSE v3
  BY DEF MS!MstreamWrite
<1>4. v6' = SubSeq(v6, 1, off) \o part \o SubSeq(v6, off + Len(part) + 1, Len(v6))
  BY <1>1 DEF MS!MstreamWrite, MS!WriteOffset, MS!Overwrite
<1>a. PICK z \in Nat : v3' = z /\ z <= MemSize /\ z = IF pos > v3 THEN pos ELSE v3
  BY <1>1, <1>2, <1>3
<1>5. \A n \in 0 .. MemSize - 1 : copied[n] = IF n \in off .. pos - 1 THEN s[n - off + 1] ELSE v2[n]
  OBVIOUS
<1>6. copied \in MS!Buffer
  <2>1. \A n \in off .. pos - 1 : n - off + 1 \in 1 .. Len(s)
    BY <1>1, <1>2
  <2>2. \A n \in off .. pos - 1 : s[n - off + 1] \in Chars
    BY <2>1
  <2> QED BY <1>1, <2>2 DEF MS!Buffer
<1>7. nw = 0 => off = MemSize
  BY <1>1, <1>2, StreamConstants DEF MS!Least
<1> HIDE DEF off, nw, copied
<1>8. /\ part \in Seq(MS!Content) /\ Len(part) = nw
      /\ \A k \in 1 .. nw : part[k] = s[k]
  <2>1. part \in Seq(Chars) /\ Len(part) = nw /\ \A k \in 1 .. nw : part[k] = s[k]
    BY <1>1, <1>2, SubSeqProperties
  <2>2. Chars \subseteq MS!Content
    BY DEF MS!Content
  <2> HIDE DEF part
  <2> QED BY <2>1, <2>2, SeqMonotonic
<1> HIDE DEF part
<1>9. /\ v6' \in Seq(MS!Content) /\ Len(v6') = z
      /\ \A k \in 1 .. z : v6'[k] = IF k \in off + 1 .. pos THEN s[k - off] ELSE v6[k]
  <2> DEFINE u == SubSeq(v6, 1, off)
             w == SubSeq(v6, off + Len(part) + 1, Len(v6))
             uv == u \o part
  <2>1. u \in Seq(MS!Content) /\ Len(u) = off /\ \A k \in 1 .. off : u[k] = v6[k]
    BY <1>1, <1>2, SubSeqProperties
  <2>2. /\ w \in Seq(MS!Content)
        /\ Len(w) = IF pos < v3 THEN v3 - pos ELSE 0
        /\ \A k \in 1 .. Len(w) : w[k] = v6[pos + k]
    <3> DEFINE from == pos + 1
    <3>1. off + Len(part) + 1 = from /\ from \in Int /\ Len(v6) \in Int
          /\ \A k \in from .. Len(v6) : v6[k] \in MS!Content
      BY <1>1, <1>2, <1>8
    <3>2. w = SubSeq(v6, from, Len(v6))
      BY <3>1
    <3> HIDE DEF w, from
    <3>3. /\ w \in Seq(MS!Content)
          /\ Len(w) = IF from <= v3 THEN v3 - from + 1 ELSE 0
          /\ \A k \in 1 .. v3 - from + 1 : w[k] = v6[from + k - 1]
      BY <1>1, <3>1, <3>2, SubSeqProperties
    <3>4. PICK l \in Nat : Len(w) = l
      BY <3>3, LenProperties
    <3>5. from = pos + 1
      BY DEF from
    <3>6. l = IF pos < v3 THEN v3 - pos ELSE 0
      BY <1>1, <1>2, <3>3, <3>4, <3>5
    <3>7. ASSUME NEW k \in 1 .. l PROVE w[k] = v6[pos + k]
      <4>1. k \in 1 .. v3 - from + 1 /\ from + k - 1 = pos + k
        BY <1>1, <1>2, <3>5, <3>6
      <4> QED BY <3>3, <4>1
    <3> QED BY <3>3, <3>4, <3>6, <3>7
  <2>3. v6' = uv \o w
    BY <1>4
  <2> HIDE DEF u, w
  <2>4. /\ uv \in Seq(MS!Content) /\ Len(uv) = pos
        /\ \A k \in 1 .. pos : uv[k] = IF k <= off THEN u[k] ELSE part[k - off]
    BY <1>2, <1>8, <2>1, ConcatProperties
  <2> HIDE DEF uv
  <2>5. /\ v6' \in Seq(MS!Content) /\ Len(v6') = pos + Len(w)
        /\ \A k \in 1 .. pos + Len(w) : v6'[k] = IF k <= pos THEN uv[k] ELSE w[k - pos]
    <3>1. /\ uv \o w \in Seq(MS!Content) /\ Len(uv \o w) = pos + Len(w)
          /\ \A k \in 1 .. Len(uv) + Len(w) :
                (uv \o w)[k] = IF k <= Len(uv) THEN uv[k] ELSE w[k - Len(uv)]
      BY <2>2, <2>4, ConcatProperties
    <3> QED BY <2>3, <2>4, <3>1
  <2>6. Len(v6') = z /\ z = pos + Len(w)
    <3>1. PICK l \in Nat : Len(w) = l
      BY <2>2, LenProperties
    <3>2. z = pos + l
      BY <1>1, <1>2, <1>a, <2>2, <3>1
    <3> QED BY <2>5, <3>1, <3>2
  <2>7. ASSUME NEW k \in 1 .. z
        PROVE  v6'[k] = IF k \in off + 1 .. pos THEN s[k - off] ELSE v6[k]
    <3>1. CASE k <= off
      BY <1>2, <2>1, <2>4, <2>5, <2>6, <3>1
    <3>2. CASE k \in off + 1 .. pos
      <4>1. k - off \in 1 .. nw /\ k \in 1 .. pos
        BY <1>2, <3>2
      <4> QED BY <1>2, <1>8, <2>4, <2>5, <2>6, <3>2, <4>1
    <3>3. CASE k > pos
      <4>1. k - pos \in 1 .. Len(w) /\ pos + (k - pos) = k
        <5>1. PICK l \in Nat : Len(w) = l
          BY <2>2, LenProperties
        <5>2. z = pos + l
          BY <2>6, <5>1
        <5> QED BY <1>2, <3>3, <5>1, <5>2
      <4>2. w[k - pos] = v6[k]
        BY <2>2, <4>1
      <4>3. v6'[k] = w[k - pos] /\ k \notin off + 1 .. pos
        BY <1>2, <2>5, <2>6, <3>3
      <4> QED BY <4>2, <4>3
    <3> QED BY <1>2, <3>1, <3>2, <3>3
  <2> QED BY <2>5, <2>6, <2>7
<1>10. v3' \in 0 .. MemSize /\ v4' \in 0 .. v3'
  BY <1>1, <1>2, <1>3
<1> DEFINE grown == pos > v3
           zeros == { n \in 0 .. MemSize - 1 :
                         \/ grown /\ MS!ReadWrite /\ n = pos
                         \/ MS!WriteOnly /\ n = MS!Least(pos, MemSize - 1) }
<1>11. v2' = [n \in 0 .. MemSize - 1 |-> IF n \in zeros THEN 0 ELSE copied[n]]
  BY <1>3 DEF MS!Terminate
<1>12. v2' \in MS!Buffer
  BY <1>6, <1>11 DEF MS!Buffer
<1> HIDE DEF pos
<1>13. pos = off + nw
  BY DEF pos
<1>14. ASSUME NEW n \in 0 .. z - 1
       PROVE  v6'[n + 1] = IF n \in off .. pos - 1 THEN s[n - off + 1] ELSE v6[n + 1]
  <2>1. n + 1 \in 1 .. z /\ n + 1 - off = n - off + 1
        /\ (n + 1 \in off + 1 .. pos <=> n \in off .. pos - 1)
    BY <1>2, <1>13, <1>14
  <2> DEFINE k == n + 1
  <2>2. k \in 1 .. z /\ k - off = n - off + 1 /\ (k \in off + 1 .. pos <=> n \in off .. pos - 1)
    BY <1>2, <1>13, <1>14, <2>1
  <2> HIDE DEF k
  <2>3. v6'[k] = IF k \in off + 1 .. pos THEN s[k - off] ELSE v6[k]
    BY <1>9, <2>2
  <2>4. v6'[k] = IF n \in off .. pos - 1 THEN s[n - off + 1] ELSE v6[k]
    BY <2>2, <2>3
  <2> QED BY <2>4 DEF k
<1>15. \A n \in 0 .. z - 1 : n \in 0 .. MemSize - 1 /\ (n \in 0 .. v3 - 1 \/ n \in off .. pos - 1)
  BY <1>1, <1>2, <1>a, <1>13, StreamConstants
<1>16. MS!Faithful'
  <2>1. ASSUME "READ" \in v5', NEW n \in 0 .. z - 1 PROVE v2'[n] = v6'[n + 1]
    <3>1. n \notin zeros
      BY <1>1, <1>2, <1>a, <1>15, <2>1 DEF MS!WriteOnly
    <3>2. n \notin off .. pos - 1 => v2[n] = v6[n + 1]
      BY <1>1, <1>15, <2>1 DEF MS!StreamInv, MS!Faithful
    <3> QED BY <1>5, <1>11, <1>14, <1>15, <3>1, <3>2
  <2>2. ASSUME MS!WriteOnly, NEW n \in 0 .. z - 1 PROVE v2'[n] \in {v6'[n + 1], 0}
    <3>1. n \notin off .. pos - 1 => v2[n] \in {v6[n + 1], 0}
      BY <1>1, <1>15, <2>2 DEF MS!StreamInv, MS!Faithful
    <3> QED BY <1>5, <1>11, <1>14, <1>15, <3>1
  <2>3. MS!WriteOnly' = MS!WriteOnly
    BY <1>1 DEF MS!WriteOnly
  <2> QED BY <1>a, <2>1, <2>2, <2>3 DEF MS!Faithful
<1>17. MS!Terminated'
  <2>1. ASSUME MS!ReadWrite PROVE v3' = MemSize \/ v2'[v3'] = 0
    <3>1. CASE grown
      <4>1. v3' = pos /\ pos <= MemSize
        BY <1>2, <1>3, <3>1, StreamConstants
      <4>2. pos # MemSize => pos \in 0 .. MemSize - 1 /\ pos \in zeros
        BY <1>2, <2>1, <3>1, <4>1, StreamConstants
      <4>3. pos # MemSize => v2'[pos] = 0
        BY <1>11, <4>2
      <4> QED BY <4>1, <4>3
    <3>2. CASE ~grown
      <4>1. v3' = v3 /\ pos <= v3
        BY <1>1, <1>2, <1>3, <3>2
      <4>2. v3 = MemSize \/ v2[v3] = 0
        <5>1. v3 = 0 => MemSize = 0
          BY <1>1, <1>2, <1>7, <1>13, <4>1
        <5> QED BY <1>1, <2>1, <5>1, StreamConstants DEF MS!StreamInv, MS!Terminated
      <4>3. v3 \notin off .. pos - 1
        BY <1>1, <1>2, <4>1
      <4>4. v3 # MemSize => v3 \in 0 .. MemSize - 1
        BY <1>1, <1>2, StreamConstants
      <4>5. v3 # MemSize => v2'[v3] = 0
        BY <1>5, <1>11, <4>2, <4>3, <4>4
      <4> QED BY <4>1, <4>5
    <3> QED BY <3>1, <3>2
  <2>2. ASSUME MS!WriteOnly PROVE \E n \in 0 .. MemSize - 1 : v2'[n] = 0
    <3>1. MS!Least(pos, MemSize - 1) \in 0 .. MemSize - 1
      BY <1>2, StreamConstants DEF MS!Least
    <3>2. MS!Least(pos, MemSize - 1) \in zeros
      BY <2>2, <3>1
    <3> QED BY <1>11, <3>1, <3>2
  <2>3. MS!WriteOnly' = MS!WriteOnly /\ MS!ReadWrite' = MS!ReadWrite
    BY <1>1 DEF MS!WriteOnly, MS!ReadWrite
  <2> QED BY <2>1, <2>2, <2>3 DEF MS!Terminated
<1>18. MS!Returned'
  <2>1. v7'.at = 0 /\ v7'.what = <<>> /\ Len(<<>>) = 0
    BY <1>1 DEF MS!NoRead
  <2>2. SubSeq(v6', 1, 0) = <<>>
    BY <1>9
  <2> QED BY <2>1, <2>2 DEF MS!Returned
<1> QED BY <1>1, <1>a, <1>9, <1>10, <1>12, <1>16, <1>17, <1>18 DEF MS!StreamInv, MS!ReadWrite

LEMMA StreamSeeks ==
    ASSUME MS!StreamInv, NEW base \in Int, NEW pos \in Int, MS!MstreamSeek(base, pos)
    PROVE  MS!StreamInv'
<1>1. /\ v1 /\ UNCHANGED <<v1, v2, v3, v5, v6, v8>> /\ v7' = MS!NoRead
      /\ v4' \in 0 .. v3 /\ v6 \in Seq(MS!Content)
  BY DEF MS!MstreamSeek, MS!StreamInv
<1>2. MS!Returned'
  <2>1. v7'.at = 0 /\ v7'.what = <<>> /\ Len(<<>>) = 0
    BY <1>1 DEF MS!NoRead
  <2>2. SubSeq(v6', 1, 0) = <<>>
    BY <1>1
  <2> QED BY <2>1, <2>2 DEF MS!Returned
<1> QED BY <1>1, <1>2 DEF MS!StreamInv, MS!Faithful, MS!Terminated, MS!ReadWrite, MS!WriteOnly

LEMMA StreamNext == MS!StreamInv /\ MS!Next => MS!StreamInv'
<1> SUFFICES ASSUME MS!StreamInv, MS!Next PROVE MS!StreamInv'
  OBVIOUS
<1>1. CASE \E f \in MS!TypeToFlags, own \in BOOLEAN : MS!Fmemopen(f, own)
  BY <1>1, StreamOpens
<1>2. CASE \E len \in 1 .. MemSize : MS!MstreamRead(len)
  <2>1. PICK len \in 1 .. MemSize : MS!MstreamRead(len)
    BY <1>2
  <2>2. len \in Nat
    BY StreamConstants
  <2> QED BY <2>1, <2>2, StreamReads
<1>3. CASE \E len \in 1 .. 2 : \E s \in [1 .. len -> Chars] : MS!MstreamWrite(s)
  <2>1. PICK len \in 1 .. 2 : \E s \in [1 .. len -> Chars] : MS!MstreamWrite(s)
    BY <1>3
  <2>2. PICK s \in [1 .. len -> Chars] : MS!MstreamWrite(s)
    BY <2>1
  <2>3. s \in Seq(Chars) /\ Len(s) = len /\ Len(s) > 0
    BY SeqDef
  <2> QED BY <2>2, <2>3, StreamWrites
<1>4. CASE \E base \in {0, v4, v3}, pos \in -1 .. 1 : MS!MstreamSeek(base, pos)
  <2>1. PICK base \in {0, v4, v3}, pos \in -1 .. 1 : MS!MstreamSeek(base, pos)
    BY <1>4
  <2>2. base \in Int /\ pos \in Int
    BY <2>1 DEF MS!StreamInv, MS!MstreamSeek
  <2> QED BY <2>1, <2>2, StreamSeeks
<1>5. CASE MS!MstreamClose
  BY <1>5 DEF MS!MstreamClose, MS!StreamInv
<1> QED BY <1>1, <1>2, <1>3, <1>4, <1>5 DEF MS!Next

LEMMA StreamKept == MS!StreamInv => MS!StreamIsFile
<1> SUFFICES ASSUME MS!StreamInv, v1 PROVE MS!StreamIsFile
  BY DEF MS!StreamIsFile
<1>1. /\ v3 \in 0 .. MemSize /\ v3 \in Nat /\ v4 \in 0 .. v3 /\ v2 \in MS!Buffer
      /\ v6 \in Seq(MS!Content) /\ Len(v6) = v3
      /\ MS!Faithful /\ MS!Terminated /\ MS!Returned
  BY StreamConstants DEF MS!StreamInv
<1>2. "READ" \in v5 => MS!Piece(v2, 0, v3) = v6
  <2> SUFFICES ASSUME "READ" \in v5 PROVE MS!Piece(v2, 0, v3) = v6
    OBVIOUS
  <2>1. /\ MS!Piece(v2, 0, v3) \in Seq(MS!Content) /\ Len(MS!Piece(v2, 0, v3)) = v3
        /\ \A k \in 1 .. v3 : MS!Piece(v2, 0, v3)[k] = v2[k - 1]
    BY <1>1, StreamPiece, StreamConstants
  <2>2. ASSUME NEW k \in 1 .. v3 PROVE v2[k - 1] = v6[k]
    <3>1. k - 1 \in 0 .. v3 - 1 /\ k - 1 + 1 = k
      BY <1>1
    <3> QED BY <1>1, <3>1 DEF MS!Faithful
  <2> QED BY <1>1, <2>1, <2>2, SeqEqual
<1>3. v8 /\ MS!ReadWrite => v3 = MemSize \/ v2[v3] = 0
  BY <1>1 DEF MS!Terminated
<1> QED BY <1>1, <1>2, <1>3, StreamConstants DEF MS!StreamIsFile, MS!Faithful, MS!Terminated, MS!Returned


StreamHolds == which = "memstream" => MS!StreamInv

\* For any size of the buffer and any characters, the stream behaves as a file: what is
\* read is what was written there last, and a zero follows what has been written (the
\* functions of fmemopen.c, in any order).
THEOREM StreamKeepsFile == Spec => []StreamIsFile
<1>1. Init => StreamHolds
  BY StreamInit DEF Init, StreamHolds
<1>2. StreamHolds /\ [Next]_vars => StreamHolds'
  <2>1. CASE Next
    BY <2>1, StreamNext DEF Next, StreamHolds
  <2>2. CASE UNCHANGED vars
    BY <2>2 DEF vars, StreamHolds, MS!StreamInv, MS!Faithful, MS!Terminated, MS!Returned,
                MS!ReadWrite, MS!WriteOnly
  <2> QED BY <2>1, <2>2
<1>3. StreamHolds => StreamIsFile
  BY StreamKept DEF StreamHolds, StreamIsFile
<1> QED BY <1>1, <1>2, <1>3, PTL DEF Spec
=============================================================================
