------------------------------ MODULE SpoolProofs ------------------------------
(***************************************************************************)
(* Proofs about the print spooler, for any number of commands, job IDs,     *)
(* ends of the daemon, failures and edits of the configuration.             *)
(***************************************************************************)
EXTENDS SpoolInv, FiniteSetTheorems, TLAPS

\* Where a client thread has a job ID, and the printer thread a job.
HasId == {"creat", "recv", "reqcreat", "reqwrite", "reply", "add", "signal"}
HasJob == {"save", "conf", "reload", "open", "send", "status", "unlink_data",
           "unlink_req", "defer", "hung"}

InHand ==
    /\ \A c \in Clients : tpc[c] \in HasId => jobid[c] \in JobIds
    /\ job \in Jobs <=> ppc \in HasJob
    /\ ppc \in {"send", "status"} => paper \in Files

TypeInv == TypeOK /\ InHand

USE DEF vars, disk, main, threads, printer, config, outside, history, bounds

\* The constants' types, and the step of a counter.
LEMMA Constants ==
    /\ Blocks \in Nat
    /\ MaxJob \in Nat /\ 1 <= MaxJob
    /\ MaxCrash \in Nat
    /\ MaxFault \in Nat
    /\ MaxConf \in Nat
    /\ NoFile \notin Clients /\ Empty \notin Clients /\ NoFile # Empty
  BY SpoolAssumption

LEMMA FaultCounts ==
    ASSUME TypeOK, Fault
    PROVE  faults' \in 0..MaxFault /\ crashes' = crashes
  BY Constants DEF Fault, TypeOK

LEMMA TypeInit == Init => TypeInv
<1> SUFFICES ASSUME Init PROVE TypeInv
  OBVIOUS
<1>1. 1 \in JobIds
  BY Constants DEF JobIds
<1>2. queue \in Seq(Jobs)
  BY DEF Init
<1>3. TypeOK
  <2>1. /\ data \in [JobIds -> Files \cup {NoFile}]
        /\ reqs \in [JobIds -> Clients \cup {NoFile, Empty}]
    BY DEF Init
  <2>2. /\ conf \in 0..MaxConf /\ loaded \in 0..MaxConf
        /\ crashes \in 0..MaxCrash /\ faults \in 0..MaxFault
    BY Constants DEF Init
  <2>3. /\ jobid \in [Clients -> JobIds]
        /\ stored \in [Clients -> 0..Blocks]
        /\ sent \in [Clients -> 0..Blocks]
        /\ prints \in [Clients -> Nat]
    BY Constants DEF Init, JobIds
  <2>4. /\ up = "down" /\ ppc = "pick" /\ todo \subseteq JobIds
        /\ jobno \in [n : JobIds, len : Nat] /\ nextjob \in JobIds
        /\ hup \in BOOLEAN /\ reread \in BOOLEAN /\ clash \subseteq JobIds
        /\ job \in Jobs \cup {NoJob} /\ paper \in Files \cup {NoFile}
    BY <1>1 DEF Init, NoPaper
  <2>5. /\ tpc = [c \in Clients |-> "none"]
        /\ reply = [c \in Clients |-> "none"]
        /\ removed = {} /\ skipped = {}
    BY DEF Init
  <2> QED BY <1>2, <2>1, <2>2, <2>3, <2>4, <2>5 DEF TypeOK
<1>4. InHand
  BY NoJobAssumption DEF Init, InHand, HasId, HasJob
<1> QED BY <1>3, <1>4 DEF TypeInv

LEMMA TypeCommand ==
    ASSUME TypeInv, NEW c \in Clients, Command(c)
    PROVE  TypeInv'
<1>1. CASE Connect(c)
  BY <1>1 DEF TypeInv, TypeOK, InHand, HasId, HasJob, Connect, ThreadGoto
<1>2. CASE Send(c)
  <2>1. sent' \in [Clients -> 0..Blocks]
    BY <1>2, Constants DEF TypeInv, TypeOK, Send
  <2> QED BY <1>2, <2>1 DEF TypeInv, TypeOK, InHand, HasId, HasJob, Send
<1> QED BY <1>1, <1>2 DEF Command

LEMMA TypeThread ==
    ASSUME TypeInv, NEW c \in Clients, Thread(c)
    PROVE  TypeInv'
<1> USE DEF TypeInv, TypeOK, InHand, HasId, HasJob, ThreadGoto
<1>1. CASE HeaderTimeout(c)
  BY <1>1 DEF HeaderTimeout, Reject
<1>2. CASE NewJob(c)
  <2>1. nextjob' \in JobIds
    BY <1>2, Constants DEF NewJob, JobIds
  <2>2. clash' \subseteq JobIds
    BY <1>2 DEF NewJob
  <2> QED BY <1>2, <2>1, <2>2, ZenonT(40) DEF NewJob
<1>3. CASE CreateData(c)
  <2>1. [doc |-> c, n |-> 0] \in Files
    BY Constants DEF Files
  <2>2. data' \in [JobIds -> Files \cup {NoFile}]
    <3>1. [data EXCEPT ![jobid[c]] = [doc |-> c, n |-> 0]] \in
            [JobIds -> Files \cup {NoFile}]
      BY <2>1
    <3> QED BY <1>3, <3>1 DEF CreateData
  <2>3. faults' \in 0..MaxFault /\ crashes' = crashes
    BY <1>3, FaultCounts DEF CreateData
  <2>4. /\ reply' \in [Clients -> {"none", "accepted", "rejected"}]
        /\ tpc' = [tpc EXCEPT ![c] = "recv"] \/ tpc' = [tpc EXCEPT ![c] = "gone"]
    BY <1>3 DEF CreateData, Reject
  <2>5. TypeOK'
    <3>1. tpc' \in [Clients -> {"none", "header", "creat", "recv", "reqcreat",
                          "reqwrite", "reply", "add", "signal", "gone"}]
      BY <2>4
    <3>2. UNCHANGED <<jobno, up, todo, nextjob, queue, jobid, ppc, job, paper,
                   conf, loaded, hup, reread, sent, prints, history, stored, reqs>>
      BY <1>3 DEF CreateData
    <3> QED BY <2>2, <2>3, <2>4, <3>1, <3>2
  <2>6. InHand'
    BY <1>3, <2>4 DEF CreateData
  <2> QED BY <2>5, <2>6
<1>4. CASE Receive(c)
  <2>1. stored[c] + 1 \in 0..Blocks
    BY <1>4, Constants DEF Receive
  <2>2. ASSUME NEW i \in JobIds, data[i] # NoFile
        PROVE  [data EXCEPT ![i].n = stored[c] + 1] \in
                 [JobIds -> Files \cup {NoFile}]
    <3>1. data[i] \in Files
      BY <2>2
    <3>2. [data[i] EXCEPT !.n = stored[c] + 1] \in Files
      BY <2>1, <3>1 DEF Files
    <3> QED BY <3>2
  <2>3. jobid[c] \in JobIds
    BY <1>4 DEF Receive
  <2>4. data' \in [JobIds -> Files \cup {NoFile}]
    BY <1>4, <2>2, <2>3, ZenonT(40) DEF Receive
  <2>5. stored' \in [Clients -> 0..Blocks]
    BY <1>4, <2>1 DEF Receive
  <2>6. faults' \in 0..MaxFault /\ crashes' = crashes
    BY <1>4, FaultCounts DEF Receive
  <2>7. /\ reply' \in [Clients -> {"none", "accepted", "rejected"}]
        /\ tpc' = tpc \/ tpc' = [tpc EXCEPT ![c] = "gone"]
    BY <1>4 DEF Receive, Reject
  <2>8. TypeOK'
    <3>1. tpc' \in [Clients -> {"none", "header", "creat", "recv", "reqcreat",
                          "reqwrite", "reply", "add", "signal", "gone"}]
      BY <2>7
    <3>2. UNCHANGED <<jobno, up, todo, nextjob, queue, jobid, ppc, job, paper,
                   conf, loaded, hup, reread, sent, prints, history, reqs>>
      BY <1>4 DEF Receive
    <3> QED BY <2>4, <2>5, <2>6, <2>7, <3>1, <3>2
  <2>9. InHand'
    BY <1>4, <2>7 DEF Receive
  <2> QED BY <2>8, <2>9
<1>5. CASE ReceiveEnd(c)
  BY <1>5 DEF ReceiveEnd
<1>6. CASE CreateReq(c)
  <2>1. /\ data' \in [JobIds -> Files \cup {NoFile}]
        /\ reqs' \in [JobIds -> Clients \cup {NoFile, Empty}]
    BY <1>6 DEF CreateReq
  <2>2. faults' \in 0..MaxFault /\ crashes' = crashes
    BY <1>6, FaultCounts DEF CreateReq
  <2>3. /\ reply' \in [Clients -> {"none", "accepted", "rejected"}]
        /\ \/ tpc' = [tpc EXCEPT ![c] = "reqwrite"]
           \/ tpc' = [tpc EXCEPT ![c] = "gone"]
    BY <1>6 DEF CreateReq, Reject
  <2>4. TypeOK'
    <3>1. tpc' \in [Clients -> {"none", "header", "creat", "recv", "reqcreat",
                          "reqwrite", "reply", "add", "signal", "gone"}]
      BY <2>3
    <3>2. UNCHANGED <<jobno, up, todo, nextjob, queue, jobid, ppc, job, paper,
                   conf, loaded, hup, reread, sent, prints, history, stored>>
      BY <1>6 DEF CreateReq
    <3> QED BY <2>1, <2>2, <2>3, <3>1, <3>2
  <2>5. InHand'
    BY <1>6, <2>3 DEF CreateReq
  <2> QED BY <2>4, <2>5
<1>7. CASE WriteReq(c)
  <2>1. data' \in [JobIds -> Files \cup {NoFile}]
    <3>1. data' = data \/ data' = [data EXCEPT ![jobid[c]] = NoFile]
      BY <1>7 DEF WriteReq
    <3> QED BY <3>1
  <2>2. reqs' \in [JobIds -> Clients \cup {NoFile, Empty}]
    <3>1. CASE reqs' = reqs
      BY <3>1
    <3>2. CASE reqs' = [reqs EXCEPT ![jobid[c]] = c]
      BY <3>2
    <3>3. CASE reqs' = [reqs EXCEPT ![jobid[c]] = NoFile]
      BY <3>3
    <3> QED BY <1>7, <3>1, <3>2, <3>3 DEF WriteReq
  <2>3. faults' \in 0..MaxFault /\ crashes' = crashes
    BY <1>7, FaultCounts DEF WriteReq
  <2>4. /\ reply' \in [Clients -> {"none", "accepted", "rejected"}]
        /\ \/ tpc' = [tpc EXCEPT ![c] = "reply"]
           \/ tpc' = [tpc EXCEPT ![c] = "gone"]
    BY <1>7 DEF WriteReq, Reject
  <2>5. TypeOK'
    <3>1. tpc' \in [Clients -> {"none", "header", "creat", "recv", "reqcreat",
                          "reqwrite", "reply", "add", "signal", "gone"}]
      BY <2>4
    <3>2. UNCHANGED <<jobno, up, todo, nextjob, queue, jobid, ppc, job, paper,
                   conf, loaded, hup, reread, sent, prints, history, stored>>
      BY <1>7 DEF WriteReq
    <3> QED BY <2>1, <2>2, <2>3, <2>4, <3>1, <3>2
  <2>6. InHand'
    BY <1>7, <2>4 DEF WriteReq
  <2> QED BY <2>5, <2>6
<1>8. CASE Accept(c)
  BY <1>8 DEF Accept
<1>9. CASE AddJob(c)
  <2>1. [id |-> jobid[c], doc |-> c] \in Jobs
    BY <1>9 DEF AddJob, Jobs
  <2> QED BY <1>9, <2>1 DEF AddJob
<1>10. CASE SignalJob(c)
  BY <1>10 DEF SignalJob, SignalJobwait
<1> QED BY <1>1, <1>2, <1>3, <1>4, <1>5, <1>6, <1>7, <1>8, <1>9, <1>10
        DEF Thread

LEMMA TypeMain ==
    ASSUME TypeInv, Main
    PROVE  TypeInv'
<1> USE DEF TypeInv, TypeOK, InHand, HasId, HasJob
<1>1. CASE Start
  <2>1. nextjob' \in JobIds
    BY <1>1 DEF Start
  <2>2. todo' \subseteq JobIds
    BY <1>1 DEF Start
  <2> QED BY <1>1, <2>1, <2>2 DEF Start
<1>2. CASE BuildJob
  <2>1. PICK i \in todo :
          /\ reqs[i] \in Clients
          /\ todo' = todo \ {i}
          /\ queue' = Append(queue, [id |-> i, doc |-> reqs[i]])
    BY <1>2 DEF BuildJob
  <2>2. [id |-> i, doc |-> reqs[i]] \in Jobs
    BY <2>1 DEF Jobs
  <2>3. queue' \in Seq(Jobs)
    <3>1. ASSUME NEW j \in Jobs PROVE Append(queue, j) \in Seq(Jobs)
      OBVIOUS
    <3> QED BY <2>1, <2>2, <3>1
  <2> QED BY <1>2, <2>1, <2>3 DEF BuildJob
<1>3. CASE BuildRemove
  <2>1. PICK i \in todo :
          /\ todo' = todo \ {i}
          /\ reqs' = [reqs EXCEPT ![i] = NoFile]
          /\ data' = [data EXCEPT ![i] = NoFile]
          /\ removed' = removed \cup ({reqs[i]} \cap Clients)
    BY <1>3 DEF BuildRemove
  <2>2. faults' \in 0..MaxFault /\ crashes' = crashes
    BY <1>3, FaultCounts DEF BuildRemove
  <2> QED BY <1>3, <2>1, <2>2 DEF BuildRemove
<1>4. CASE BuildSkip
  <2>1. todo' \subseteq todo /\ skipped' \subseteq Clients
    BY <1>4 DEF BuildSkip
  <2>2. faults' \in 0..MaxFault /\ crashes' = crashes
    BY <1>4, FaultCounts DEF BuildSkip
  <2> QED BY <1>4, <2>1, <2>2 DEF BuildSkip
<1>5. CASE BuildSignal
  BY <1>5 DEF BuildSignal, SignalJobwait
<1>6. CASE BuildDone
  BY <1>6 DEF BuildDone
<1> QED BY <1>1, <1>2, <1>3, <1>4, <1>5, <1>6 DEF Main

LEMMA TypePrinter ==
    ASSUME TypeInv, Printer \/ PrinterFail
    PROVE  TypeInv'
<1> USE NoJobAssumption DEF TypeInv, TypeOK, InHand, HasId, HasJob, PrinterGoto
<1>1. CASE PickJob
  <2>1. queue # <<>> => Head(queue) \in Jobs /\ Tail(queue) \in Seq(Jobs)
    OBVIOUS
  <2> QED BY <1>1, <2>1 DEF PickJob
<1>2. CASE SaveJobno
  <2>1. jobno' \in [n : JobIds, len : Nat]
    BY <1>2, SpoolAssumption DEF SaveJobno, JobIds
  <2> QED BY <1>2, <2>1 DEF SaveJobno
<1>3. CASE CheckConf
  BY <1>3 DEF CheckConf
<1>4. CASE Reload
  BY <1>4 DEF Reload
<1>5. CASE OpenData
  <2>1. job.id \in JobIds
    BY <1>5 DEF OpenData, Jobs
  <2>2. CASE ppc' = "send"
    <3>1. data[job.id] # NoFile /\ paper' = data[job.id] /\ UNCHANGED <<job, skipped, bounds>>
      BY <1>5, <2>2 DEF OpenData
    <3> QED BY <1>5, <2>1, <2>2, <3>1 DEF OpenData
  <2>3. CASE ppc' = "pick"
    <3>1. paper' = NoFile /\ job' = NoJob
      BY <1>5, <2>3 DEF OpenData, NoPaper
    <3>2. job.doc \in Clients /\ skipped' \subseteq Clients
      BY <1>5 DEF OpenData, Jobs
    <3>3. faults' \in 0..MaxFault /\ crashes' = crashes
      BY <1>5, FaultCounts DEF OpenData
    <3> QED BY <1>5, <2>3, <3>1, <3>2, <3>3 DEF OpenData
  <2> QED BY <1>5, <2>2, <2>3 DEF OpenData
<1>6. CASE SendFile
  <2>1. job.id \in JobIds
    BY <1>6 DEF SendFile, Jobs
  <2> QED BY <1>6, <2>1 DEF SendFile
<1>7. CASE Printed
  <2>1. paper.doc \in Clients
    BY <1>7 DEF Printed, Files
  <2> QED BY <1>7, <2>1, SMTT(30) DEF Printed, Printout
<1>8. CASE UnlinkData
  BY <1>8 DEF UnlinkData
<1>9. CASE UnlinkReq
  BY <1>9 DEF UnlinkReq, NoPaper
<1>10. CASE Defer
  <2>1. <<job>> \o queue \in Seq(Jobs)
    BY <1>10 DEF Defer
  <2> QED BY <1>10, <2>1 DEF Defer, NoPaper
<1>11. CASE PrinterFail
  <2>1. ppc = "status" => paper.doc \in Clients
    BY DEF Files
  <2>2. prints' \in [Clients -> Nat]
    <3>1. CASE Printout /\ ppc = "status"
      BY <2>1, <3>1 DEF Printout
    <3> QED BY <1>11, <3>1 DEF PrinterFail
  <2>3. faults' \in 0..MaxFault /\ crashes' = crashes
    BY <1>11, FaultCounts DEF PrinterFail
  <2> QED BY <1>11, <2>2, <2>3 DEF PrinterFail
<1> QED BY <1>1, <1>2, <1>3, <1>4, <1>5, <1>6, <1>7, <1>8, <1>9, <1>10, <1>11
        DEF Printer

LEMMA TypeSignals ==
    ASSUME TypeInv, EditConf \/ HandleHup \/ Crash
    PROVE  TypeInv'
<1> USE DEF TypeInv, TypeOK, InHand, HasId, HasJob
<1>1. CASE EditConf
  BY <1>1, Constants DEF EditConf, Running
<1>2. CASE HandleHup
  BY <1>2, ZenonT(40) DEF HandleHup
<1>3. CASE Crash
  <2>1. crashes' \in 0..MaxCrash
    BY <1>3, Constants DEF Crash
  <2>2. nextjob' \in JobIds
    BY <1>3, Constants DEF Crash, JobIds
  <2>3. queue' \in Seq(Jobs)
    BY <1>3 DEF Crash
  <2>4. /\ tpc' \in [Clients -> {"none", "gone"}]
        /\ job' = NoJob /\ paper' = NoFile /\ ppc' = "pick"
    BY <1>3 DEF Crash, PrinterGoto, NoPaper
  <2> QED BY <1>3, <2>1, <2>2, <2>3, <2>4, NoJobAssumption DEF Crash
<1> QED BY <1>1, <1>2, <1>3

LEMMA TypeStep == TypeInv /\ [Next]_vars => TypeInv'
<1> SUFFICES ASSUME TypeInv, [Next]_vars PROVE TypeInv'
  OBVIOUS
<1>1. CASE UNCHANGED vars
  BY <1>1 DEF TypeInv, TypeOK, InHand
<1>2. CASE Next
  BY <1>2, TypeCommand, TypeThread, TypeMain, TypePrinter, TypeSignals DEF Next
<1> QED BY <1>1, <1>2

LEMMA TypeAlways == Spec => []TypeInv
  BY TypeInit, TypeStep, PTL DEF Spec

\* The types of everything the commands, the daemon's threads and the disk
\* hold (printd.c:26-70), with a job in hand exactly where printer_thread has
\* one.
THEOREM SpoolTypes == Spec => []TypeOK
<1>1. TypeInv => TypeOK
  BY DEF TypeInv
<1> QED BY <1>1, TypeAlways, PTL

(***************************************************************************)
(* The reload of the configuration.                                         *)
(***************************************************************************)
LEMMA ReloadStep == TypeInv /\ ReloadNotLost /\ [Next]_vars => ReloadNotLost'
<1> SUFFICES ASSUME TypeInv, ReloadNotLost, [Next]_vars PROVE ReloadNotLost'
  OBVIOUS
<1> USE DEF ReloadNotLost, Running
<1>1. CASE UNCHANGED vars
  BY <1>1
<1>2. ASSUME NEW c \in Clients, Command(c) PROVE ReloadNotLost'
  BY <1>2 DEF Command, Connect, Send
<1>3. ASSUME NEW c \in Clients, Thread(c) PROVE ReloadNotLost'
  BY <1>3
  DEF Thread, HeaderTimeout, NewJob, CreateData, Receive, ReceiveEnd, CreateReq,
      WriteReq, Accept, AddJob, SignalJob, SignalJobwait
<1>4. CASE Main
  BY <1>4 DEF Main, Start, BuildJob, BuildRemove, BuildSkip, BuildSignal, BuildDone, SignalJobwait
<1>5. CASE Printer
  BY <1>5
  DEF Printer, PickJob, SaveJobno, CheckConf, Reload, OpenData, SendFile,
      Printed, UnlinkData, UnlinkReq, Defer, PrinterGoto
<1>6. CASE PrinterFail
  BY <1>6 DEF PrinterFail, PrinterGoto
<1>7. CASE EditConf \/ HandleHup \/ Crash
  BY <1>7 DEF EditConf, HandleHup, Crash
<1> QED BY <1>1, <1>2, <1>3, <1>4, <1>5, <1>6, <1>7 DEF Next

\* A SIGHUP is never lost, whatever signal_thread and printer_thread interleave
\* (printd.c:617-619, 701-711).
THEOREM ReloadKept == Spec => []ReloadNotLost
<1>1. Init => ReloadNotLost
  BY DEF Init, ReloadNotLost, Running
<1> QED BY <1>1, ReloadStep, TypeAlways, PTL DEF Spec

(***************************************************************************)
(* The list of jobs implements the queue.                                   *)
(***************************************************************************)
LEMMA PrinterQueues ==
    ASSUME TypeInv, Printer \/ PrinterFail
    PROVE  PQ!Finish \/ Pending' = Pending
<1> USE NoJobAssumption DEF TypeInv, TypeOK, InHand, HasJob, PrinterGoto, Pending
<1>1. CASE PickJob
  <2>1. CASE queue = <<>>
    BY <1>1, <2>1 DEF PickJob
  <2>2. CASE queue # <<>>
    <3>1. job = NoJob /\ job' = Head(queue) /\ queue' = Tail(queue)
      BY <1>1, <2>2 DEF PickJob
    <3>2. Head(queue) \in Jobs /\ <<Head(queue)>> \o Tail(queue) = queue
      BY <2>2
    <3> QED BY <3>1, <3>2
  <2> QED BY <2>1, <2>2
<1>2. CASE SaveJobno \/ CheckConf \/ Reload \/ SendFile \/ Printed \/ UnlinkData
           \/ PrinterFail
  BY <1>2
  DEF SaveJobno, CheckConf, Reload, SendFile, Printed, UnlinkData, PrinterFail
<1>3. ASSUME job \in Jobs, job' = NoJob, queue' = queue
      PROVE  PQ!Finish
  <2>1. <<job>> \o queue # <<>> /\ Tail(<<job>> \o queue) = queue
    BY <1>3
  <2> QED BY <1>3, <2>1 DEF PQ!Finish
<1>4. CASE OpenData
  BY <1>3, <1>4 DEF OpenData
<1>5. CASE UnlinkReq
  BY <1>3, <1>5 DEF UnlinkReq
<1>6. CASE Defer
  BY <1>6 DEF Defer
<1> QED BY <1>1, <1>2, <1>4, <1>5, <1>6 DEF Printer

LEMMA Submits ==
    ASSUME TypeInv, NEW j \in Jobs, queue' = Append(queue, j), job' = job
    PROVE  \E k \in Jobs : PQ!Submit(k)
<1>1. CASE job = NoJob
  BY <1>1 DEF PQ!Submit
<1>2. CASE job # NoJob
  <2>1. job \in Jobs /\ queue \in Seq(Jobs)
    BY <1>2 DEF TypeInv, TypeOK
  <2>2. <<job>> \o Append(queue, j) = Append(<<job>> \o queue, j)
    BY <2>1
  <2> QED BY <1>2, <2>2 DEF PQ!Submit
<1> QED BY <1>1, <1>2

LEMMA QueueStep == TypeInv /\ [Next]_vars => [PQ!Next]_Pending
<1> SUFFICES ASSUME TypeInv, [Next]_vars PROVE PQ!Next \/ Pending' = Pending
  OBVIOUS
<1> USE DEF Pending
<1>1. CASE UNCHANGED vars
  BY <1>1
<1>2. ASSUME NEW c \in Clients, Command(c) PROVE Pending' = Pending
  BY <1>2 DEF Command, Connect, Send
<1>3. ASSUME NEW c \in Clients, Thread(c) PROVE PQ!Next \/ Pending' = Pending
  <2>1. CASE AddJob(c)
    <3>1. [id |-> jobid[c], doc |-> c] \in Jobs
      BY <2>1 DEF AddJob, TypeInv, InHand, HasId, Jobs
    <3>2. job' = job /\ queue' = Append(queue, [id |-> jobid[c], doc |-> c])
      BY <2>1 DEF AddJob
    <3> QED BY <3>1, <3>2, Submits DEF PQ!Next
  <2>2. CASE ~AddJob(c)
    BY <1>3, <2>2
    DEF Thread, HeaderTimeout, NewJob, CreateData, Receive, ReceiveEnd,
        CreateReq, WriteReq, Accept, SignalJob
  <2> QED BY <2>1, <2>2
<1>4. CASE Main
  <2>1. CASE BuildJob
    <3>1. PICK i \in todo :
            /\ reqs[i] \in Clients
            /\ queue' = Append(queue, [id |-> i, doc |-> reqs[i]])
      BY <2>1 DEF BuildJob
    <3>2. job' = job
      BY <2>1 DEF BuildJob
    <3>3. [id |-> i, doc |-> reqs[i]] \in Jobs
      BY <3>1 DEF TypeInv, TypeOK, Jobs
    <3> QED BY <3>1, <3>2, <3>3, Submits DEF PQ!Next
  <2>2. CASE ~BuildJob
    BY <1>4, <2>2 DEF Main, Start, BuildRemove, BuildSkip, BuildSignal, BuildDone
  <2> QED BY <2>1, <2>2
<1>5. CASE Printer \/ PrinterFail
  BY <1>5, PrinterQueues DEF PQ!Next
<1>6. CASE EditConf \/ HandleHup
  BY <1>6 DEF EditConf, HandleHup
<1>7. CASE Crash
  BY <1>7 DEF Crash, PQ!Next, PQ!Shutdown
<1> QED BY <1>1, <1>2, <1>3, <1>4, <1>5, <1>6, <1>7 DEF Next

\* The list of jobs with the one in hand implements the first-in first-out
\* queue: add_job, remove_job at the head and replace_job (printd.c:275-331)
\* finish jobs in the order in which they were added.
THEOREM FifoKept == Spec => FifoQueue
<1>1. Init => PQ!Init
  BY DEF Init, PQ!Init
<1> QED BY <1>1, QueueStep, TypeAlways, PTL DEF Spec, FifoQueue, PQ!Spec, Pending

-----------------------------------------------------------------------------
(***************************************************************************)
(* The print spooler loses no accepted job and prints what it received: the *)
(* invariant SpoolInv is kept by every step, for any number of commands,    *)
(* job IDs, ends of the daemon and failures.                                *)
(*                                                                         *)
(* Each lemma takes one action; its steps are the parts of the invariant.   *)
(***************************************************************************)
USE DEF Filing, Stored, Unqueued, Early, Whole, HasId, HasJob, Running,
        ThreadGoto, PrinterGoto, NoPaper,
        vars, disk, main, threads, printer, config, outside, history, bounds

LEMMA PendingJobs ==
    ASSUME TypeInv
    PROVE  /\ Pending \in Seq(Jobs)
           /\ \A m \in 1..Len(Pending) :
                 Pending[m].id \in JobIds /\ Pending[m].doc \in Clients
<1>1. Pending \in Seq(Jobs)
  <2>1. CASE job = NoJob
    BY <2>1 DEF Pending, TypeInv, TypeOK
  <2>2. CASE job # NoJob
    <3>1. job \in Jobs /\ queue \in Seq(Jobs)
      BY <2>2 DEF TypeInv, TypeOK
    <3> QED BY <2>2, <3>1 DEF Pending
  <2> QED BY <2>1, <2>2
<1>2. \A m \in 1..Len(Pending) : Pending[m] \in Jobs
  BY <1>1
<1> QED BY <1>1, <1>2 DEF Jobs

\* What QueueApart says of the job in hand.
LEMMA HandApart ==
    ASSUME TypeInv, SpoolInv, job # NoJob, job.id \notin clash
    PROVE  /\ job.id \in JobIds /\ job.doc \in Clients
           /\ reqs[job.id] = job.doc
           /\ jobid[job.doc] = job.id
           /\ tpc[job.doc] \in Stored
           /\ \A c \in Clients : tpc[c] \in Unqueued => jobid[c] # job.id
           /\ Whole(job.id, job.doc) \/ (prints[job.doc] > 0 /\ data[job.id] = NoFile)
<1>1. job \in Jobs /\ queue \in Seq(Jobs)
  BY DEF TypeInv, TypeOK
<1>2. 1 \in 1..Len(Pending) /\ Pending[1] = job
  BY <1>1 DEF Pending
<1>3. job.id \in JobIds /\ job.doc \in Clients
  BY <1>1 DEF Jobs
<1>4. /\ reqs[job.id] = job.doc
      /\ \A c \in Clients : tpc[c] \in Unqueued => jobid[c] # job.id
  BY <1>2 DEF SpoolInv, QueueApart
<1>5. jobid[job.doc] = job.id /\ tpc[job.doc] \in Stored
  BY <1>3, <1>4 DEF SpoolInv, ReqOwner
<1>6. Whole(job.id, job.doc) \/ (prints[job.doc] > 0 /\ data[job.id] = NoFile)
  <2>1. job.id \in JobIds \ clash /\ reqs[job.id] \in Clients
    BY <1>3, <1>4
  <2> QED BY <1>4, <2>1 DEF SpoolInv, ReqWhole
<1> QED BY <1>3, <1>4, <1>5, <1>6

\* The queue stays, and nothing is done to a request or an ID in it.
LEMMA QueueStays ==
    ASSUME QueueApart, Pending' = Pending, clash \subseteq clash', todo' \subseteq todo,
           \A m \in 1..Len(Pending) : Pending[m].id \notin clash' =>
               reqs'[Pending[m].id] = reqs[Pending[m].id],
           \A m \in 1..Len(Pending), c \in Clients :
               tpc'[c] \in Unqueued /\ Pending[m].id \notin clash' =>
                   jobid'[c] # Pending[m].id \/ (tpc[c] \in Unqueued /\ jobid'[c] = jobid[c])
    PROVE  QueueApart'
  BY DEF QueueApart

\* The job in hand leaves the queue, and at most its own request is removed.
LEMMA QueueShrinks ==
    ASSUME TypeInv, QueueApart, job # NoJob, Pending' = queue,
           clash' = clash, todo' = todo, tpc' = tpc, jobid' = jobid,
           \A i \in JobIds \ {job.id} : reqs'[i] = reqs[i]
    PROVE  QueueApart'
<1>1. job \in Jobs /\ queue \in Seq(Jobs)
  BY DEF TypeInv, TypeOK
<1>2. /\ Len(Pending) = Len(queue) + 1
      /\ Pending[1] = job
      /\ \A m \in 1..Len(queue) : Pending[m + 1] = queue[m]
  BY <1>1 DEF Pending
<1>3. ASSUME NEW m \in 1..Len(queue), queue[m].id \notin clash
      PROVE  /\ reqs'[queue[m].id] = queue[m].doc
             /\ \A n \in 1..Len(queue) \ {m} : queue[n].id # queue[m].id
             /\ \A c \in Clients : tpc[c] \in Unqueued => jobid[c] # queue[m].id
             /\ queue[m].id \notin todo
  <2>1. m + 1 \in 1..Len(Pending) /\ Pending[m + 1] = queue[m] /\ m + 1 # 1
    BY <1>1, <1>2
  <2>2. /\ reqs[queue[m].id] = queue[m].doc
        /\ \A n \in 1..Len(Pending) \ {m + 1} : Pending[n].id # queue[m].id
        /\ \A c \in Clients : tpc[c] \in Unqueued => jobid[c] # queue[m].id
        /\ queue[m].id \notin todo
    BY <1>3, <2>1 DEF QueueApart
  <2>3. queue[m].id # job.id
    BY <1>1, <1>2, <2>1, <2>2
  <2>4. queue[m].id \in JobIds
    <3>1. queue[m] \in Jobs
      BY <1>1
    <3> QED BY <3>1 DEF Jobs
  <2>5. ASSUME NEW n \in 1..Len(queue) \ {m} PROVE queue[n].id # queue[m].id
    <3>1. n + 1 \in 1..Len(Pending) \ {m + 1} /\ Pending[n + 1] = queue[n]
      BY <1>1, <1>2
    <3> QED BY <2>2, <3>1
  <2> QED BY <2>2, <2>3, <2>4, <2>5
<1> QED BY <1>3 DEF QueueApart

\* A job that is in nobody else's way joins the queue.
LEMMA QueueGrows ==
    ASSUME TypeInv, QueueApart, NEW j \in Jobs, queue' = Append(queue, j), job' = job,
           clash' = clash, reqs' = reqs, jobid' = jobid, todo' \subseteq todo,
           \A c \in Clients : tpc'[c] \in Unqueued => tpc[c] \in Unqueued,
           j.id \notin clash =>
               /\ reqs[j.id] = j.doc
               /\ \A m \in 1..Len(Pending) : Pending[m].id \notin clash =>
                      Pending[m].id # j.id
               /\ \A c \in Clients : tpc'[c] \in Unqueued => jobid[c] # j.id
               /\ j.id \notin todo'
    PROVE  QueueApart'
<1>1. queue \in Seq(Jobs) /\ job \in Jobs \cup {NoJob}
  BY DEF TypeInv, TypeOK
<1>2. Pending' = Append(Pending, j)
  BY <1>1 DEF Pending
<1>3. /\ Len(Pending') = Len(Pending) + 1
      /\ Pending'[Len(Pending) + 1] = j
      /\ \A m \in 1..Len(Pending) : Pending'[m] = Pending[m]
  BY <1>2, PendingJobs
<1>4. Len(Pending) \in Nat
  BY PendingJobs
<1>5. ASSUME NEW m \in 1..Len(Pending), Pending[m].id \notin clash
      PROVE  /\ reqs[Pending[m].id] = Pending[m].doc
             /\ \A n \in 1..Len(Pending') \ {m} : Pending'[n].id # Pending[m].id
             /\ \A c \in Clients : tpc'[c] \in Unqueued => jobid[c] # Pending[m].id
             /\ Pending[m].id \notin todo'
  <2>1. /\ reqs[Pending[m].id] = Pending[m].doc
        /\ \A n \in 1..Len(Pending) \ {m} : Pending[n].id # Pending[m].id
        /\ \A c \in Clients : tpc[c] \in Unqueued => jobid[c] # Pending[m].id
        /\ Pending[m].id \notin todo
    BY <1>5 DEF QueueApart
  <2>2. j.id # Pending[m].id
    BY <1>5
  <2>3. ASSUME NEW n \in 1..Len(Pending') \ {m} PROVE Pending'[n].id # Pending[m].id
    <3>1. CASE n \in 1..Len(Pending)
      BY <1>3, <2>1, <3>1
    <3>2. CASE n = Len(Pending) + 1
      BY <1>3, <2>2, <3>2
    <3> QED BY <1>3, <1>4, <3>1, <3>2
  <2> QED BY <2>1, <2>3
<1>6. ASSUME j.id \notin clash
      PROVE  \A n \in 1..Len(Pending') \ {Len(Pending) + 1} : Pending'[n].id # j.id
  <2>1. ASSUME NEW n \in 1..Len(Pending) PROVE Pending[n].id # j.id
    BY <1>6
  <2> QED BY <1>3, <1>4, <2>1
<1>7. ASSUME NEW m \in 1..Len(Pending'), Pending'[m].id \notin clash'
      PROVE  /\ reqs'[Pending'[m].id] = Pending'[m].doc
             /\ \A n \in 1..Len(Pending') \ {m} : Pending'[n].id # Pending'[m].id
             /\ \A c \in Clients : tpc'[c] \in Unqueued => jobid'[c] # Pending'[m].id
             /\ Pending'[m].id \notin todo'
  <2>1. CASE m \in 1..Len(Pending)
    BY <1>3, <1>5, <1>7, <2>1
  <2>2. CASE m = Len(Pending) + 1
    BY <1>3, <1>6, <1>7, <2>2
  <2> QED BY <1>3, <1>4, <2>1, <2>2
<1> QED BY <1>7 DEF QueueApart

\* main accepts a connection.
LEMMA ConnectKeeps ==
    ASSUME TypeInv, SpoolInv, NEW c \in Clients, Connect(c)
    PROVE  SpoolInv'
<1>p. Pending' = Pending
  BY DEF Connect, Pending
<1>1. /\ ReqOwner' /\ ReqWhole' /\ FilingApart' /\ FilingWhole'
      /\ NoneWhileDown' /\ EmptyWhileDown' /\ HandWhole' /\ AcceptedStored'
  BY DEF Connect, SpoolInv, ReqOwner, ReqWhole, FilingApart, FilingWhole,
     NoneWhileDown, EmptyWhileDown, HandWhole, AcceptedStored
<1>2. QueueApart'
  BY <1>p, QueueStays DEF Connect, SpoolInv
<1> QED
  BY <1>1, <1>2 DEF SpoolInv

\* No header comes.
LEMMA HeaderTimeoutKeeps ==
    ASSUME TypeInv, SpoolInv, NEW c \in Clients, HeaderTimeout(c)
    PROVE  SpoolInv'
<1>p. Pending' = Pending
  BY DEF HeaderTimeout, Reject, Pending
<1>1. /\ ReqOwner' /\ ReqWhole' /\ FilingApart' /\ NoneWhileDown'
      /\ EmptyWhileDown' /\ HandWhole' /\ AcceptedStored'
  BY DEF HeaderTimeout, Reject, SpoolInv, ReqOwner, ReqWhole, FilingApart,
     NoneWhileDown, EmptyWhileDown, HandWhole, AcceptedStored
<1>2. FilingWhole'
  BY DEF HeaderTimeout, Reject, SpoolInv, FilingWhole, TypeInv, TypeOK
<1>3. QueueApart'
  BY <1>p, QueueStays DEF HeaderTimeout, Reject, SpoolInv
<1> QED
  BY <1>1, <1>2, <1>3 DEF SpoolInv

\* The thread gets its job ID, and clash takes notice.
LEMMA NewJobKeeps ==
    ASSUME TypeInv, SpoolInv, NEW c \in Clients, NewJob(c)
    PROVE  SpoolInv'
<1>p. Pending' = Pending
  BY DEF NewJob, InUse, Pending
<1>1. /\ ReqWhole' /\ FilingWhole' /\ NoneWhileDown' /\ EmptyWhileDown'
      /\ HandWhole'
  BY DEF NewJob, InUse, SpoolInv, ReqWhole, FilingWhole, NoneWhileDown,
     EmptyWhileDown, HandWhole
<1>2. ReqOwner'
  <2>1. \A i \in JobIds : reqs[i] # c
    BY DEF NewJob, SpoolInv, ReqOwner
  <2> QED BY <2>1 DEF NewJob, TypeInv, TypeOK, SpoolInv, ReqOwner
<1>3. FilingApart'
  BY DEF NewJob, InUse, SpoolInv, FilingApart, TypeInv, TypeOK
<1>4. QueueApart'
  <2>1. \A m \in 1..Len(Pending) : Pending[m].id \notin clash =>
            reqs[Pending[m].id] \in Clients
    BY PendingJobs DEF SpoolInv, QueueApart
  <2> QED BY <1>p, <2>1, QueueStays DEF NewJob, InUse, SpoolInv, TypeInv, TypeOK
<1>5. AcceptedStored'
  <2>1. reply[c] = "none"
    BY DEF NewJob, SpoolInv, FilingWhole
  <2> QED BY <2>1 DEF NewJob, TypeInv, TypeOK, SpoolInv, AcceptedStored
<1> QED
  BY <1>1, <1>2, <1>3, <1>4, <1>5 DEF SpoolInv

\* The data file is created, or that fails.
LEMMA CreateDataKeeps ==
    ASSUME TypeInv, SpoolInv, NEW c \in Clients, CreateData(c)
    PROVE  SpoolInv'
<1>p. Pending' = Pending
  BY DEF CreateData, Reject, Pending
<1>1. NoneWhileDown' /\ EmptyWhileDown' /\ HandWhole'
  BY DEF CreateData, Reject, SpoolInv, NoneWhileDown, EmptyWhileDown, HandWhole
<1>2. ReqOwner'
  <2>1. \A i \in JobIds : reqs[i] # c
    BY DEF CreateData, SpoolInv, ReqOwner
  <2> QED
    BY <2>1 DEF CreateData, Reject, TypeInv, TypeOK, SpoolInv, ReqOwner
<1>3. ReqWhole'
  <2>1. jobid[c] \in JobIds
    BY DEF CreateData, TypeInv, InHand
  <2>2. jobid[c] \notin clash => reqs[jobid[c]] \notin Clients
    BY DEF CreateData, SpoolInv, FilingApart
  <2> QED
    BY <2>1, <2>2 DEF CreateData, TypeInv, TypeOK, SpoolInv, ReqWhole
<1>4. FilingApart'
  BY DEF CreateData, Reject, SpoolInv, FilingApart, TypeInv, TypeOK
<1>5. FilingWhole'
  <2>1. jobid[c] \in JobIds
    BY DEF CreateData, TypeInv, InHand
  <2>2. stored[c] = 0 /\ reply[c] = "none"
    BY DEF CreateData, SpoolInv, FilingWhole
  <2>3. \A d \in Clients \ {c} : tpc[d] \in Filing /\ jobid[d] \notin clash =>
            jobid[d] # jobid[c]
    BY DEF CreateData, SpoolInv, FilingApart
  <2>4. /\ \A i \in JobIds \ {jobid[c]} : data'[i] = data[i]
        /\ \A d \in Clients \ {c} : tpc'[d] = tpc[d] /\ reply'[d] = reply[d]
        /\ \A d \in Clients : tpc[d] \in Filing => jobid[d] \in JobIds
        /\ UNCHANGED <<reqs, clash, jobid, stored>>
    BY <2>1 DEF CreateData, Reject, TypeInv, TypeOK, InHand
  <2>5. /\ tpc'[c] \in {"recv", "gone"}
        /\ tpc'[c] = "recv" => reply'[c] = "none" /\ data'[jobid[c]] = [doc |-> c, n |-> 0]
    BY <2>1, <2>2 DEF CreateData, Reject, TypeInv, TypeOK
  <2> QED BY <2>2, <2>3, <2>4, <2>5 DEF SpoolInv, FilingWhole
<1>6. QueueApart'
  BY <1>p, QueueStays DEF CreateData, Reject, SpoolInv, TypeInv, TypeOK
<1>7. AcceptedStored'
  BY DEF CreateData, Reject, SpoolInv, AcceptedStored, TypeInv, TypeOK
<1> QED
  BY <1>1, <1>2, <1>3, <1>4, <1>5, <1>6, <1>7 DEF SpoolInv

\* A block is written, or the file is removed.
LEMMA ReceiveKeeps ==
    ASSUME TypeInv, SpoolInv, NEW c \in Clients, Receive(c)
    PROVE  SpoolInv'
<1>p. Pending' = Pending
  BY DEF Receive, Reject, Pending
<1>1. NoneWhileDown' /\ EmptyWhileDown'
  BY DEF Receive, Reject, SpoolInv, NoneWhileDown, EmptyWhileDown
<1>2. ReqOwner'
  BY DEF Receive, Reject, SpoolInv, ReqOwner, TypeInv, TypeOK
<1>3. ReqWhole'
  <2>1. jobid[c] \in JobIds
    BY DEF Receive, TypeInv, InHand
  <2>2. jobid[c] \notin clash => reqs[jobid[c]] \notin Clients
    BY DEF Receive, SpoolInv, FilingApart
  <2>3. \A i \in JobIds : reqs[i] # c
    BY DEF Receive, SpoolInv, ReqOwner
  <2>4. /\ \A i \in JobIds \ {jobid[c]} : data'[i] = data[i]
        /\ \A d \in Clients \ {c} : stored'[d] = stored[d]
        /\ reqs' = reqs /\ clash' = clash /\ prints' = prints
    BY <2>1 DEF Receive, TypeInv, TypeOK
  <2> QED BY <2>2, <2>3, <2>4 DEF SpoolInv, ReqWhole
<1>4. FilingApart'
  <2>1. UNCHANGED <<reqs, jobid, clash>>
    BY DEF Receive
  <2>2. \A d \in Clients : tpc'[d] \in Filing => tpc[d] \in Filing
    BY DEF Receive, Reject, TypeInv, TypeOK
  <2> QED BY <2>1, <2>2 DEF SpoolInv, FilingApart
<1>5. FilingWhole'
  <2>1. jobid[c] \in JobIds
    BY DEF Receive, TypeInv, InHand
  <2>2. jobid[c] \notin clash => data[jobid[c]] = [doc |-> c, n |-> stored[c]]
    BY DEF Receive, SpoolInv, FilingWhole
  <2>3. \A d \in Clients \ {c} : tpc[d] \in Filing /\ jobid[d] \notin clash =>
            jobid[d] # jobid[c]
    BY DEF Receive, SpoolInv, FilingApart
  <2>4. /\ \A i \in JobIds \ {jobid[c]} : data'[i] = data[i]
        /\ \A d \in Clients \ {c} : /\ stored'[d] = stored[d]
                                    /\ tpc'[d] = tpc[d] /\ reply'[d] = reply[d]
        /\ \A d \in Clients : tpc[d] \in Filing => jobid[d] \in JobIds
        /\ UNCHANGED <<reqs, clash, jobid>>
    BY <2>1 DEF Receive, Reject, TypeInv, TypeOK, InHand
  <2>5. /\ tpc'[c] \in {"recv", "gone"}
        /\ tpc'[c] = "recv" => reply'[c] = "none" /\ stored'[c] = stored[c] + 1
    BY DEF Receive, Reject, TypeInv, TypeOK, SpoolInv, FilingWhole
  <2>6. jobid[c] \notin clash /\ tpc'[c] = "recv" =>
            data'[jobid[c]] = [doc |-> c, n |-> stored[c] + 1]
    BY <2>1, <2>2, NoJobAssumption, Constants
    DEF Receive, Reject, TypeInv, TypeOK, Files
  <2> QED BY <2>3, <2>4, <2>5, <2>6 DEF SpoolInv, FilingWhole
<1>6. QueueApart'
  BY <1>p, QueueStays DEF Receive, Reject, SpoolInv, TypeInv, TypeOK
<1>7. HandWhole'
  <2>1. job # NoJob /\ job.id \notin clash => job.doc \in Clients \ {c}
    BY HandApart DEF Receive
  <2>2. \A d \in Clients \ {c} : stored'[d] = stored[d]
    BY DEF Receive, TypeInv, TypeOK
  <2> QED BY <2>1, <2>2 DEF Receive, SpoolInv, HandWhole
<1>8. AcceptedStored'
  BY DEF Receive, Reject, SpoolInv, AcceptedStored, TypeInv, TypeOK
<1> QED
  BY <1>1, <1>2, <1>3, <1>4, <1>5, <1>6, <1>7, <1>8 DEF SpoolInv

\* The document ends.
LEMMA ReceiveEndKeeps ==
    ASSUME TypeInv, SpoolInv, NEW c \in Clients, ReceiveEnd(c)
    PROVE  SpoolInv'
<1>p. Pending' = Pending
  BY DEF ReceiveEnd, Pending
<1>1. /\ ReqOwner' /\ ReqWhole' /\ FilingApart' /\ FilingWhole'
      /\ NoneWhileDown' /\ EmptyWhileDown' /\ HandWhole' /\ AcceptedStored'
  BY DEF ReceiveEnd, SpoolInv, ReqOwner, ReqWhole, FilingApart, FilingWhole,
     NoneWhileDown, EmptyWhileDown, HandWhole, AcceptedStored
<1>2. QueueApart'
  BY <1>p, QueueStays DEF ReceiveEnd, SpoolInv
<1> QED
  BY <1>1, <1>2 DEF SpoolInv

\* The request file is created, or that fails.
LEMMA CreateReqKeeps ==
    ASSUME TypeInv, SpoolInv, NEW c \in Clients, CreateReq(c)
    PROVE  SpoolInv'
<1>p. Pending' = Pending
  BY DEF CreateReq, Reject, Pending
<1>1. NoneWhileDown' /\ EmptyWhileDown' /\ HandWhole'
  BY DEF CreateReq, Reject, SpoolInv, NoneWhileDown, EmptyWhileDown, HandWhole
<1>2. ReqOwner'
  <2>1. jobid[c] \in JobIds
    BY DEF CreateReq, TypeInv, InHand
  <2>2. jobid[c] \notin clash => reqs[jobid[c]] \notin Clients
    BY DEF CreateReq, SpoolInv, FilingApart
  <2>3. \A i \in JobIds : reqs[i] # c
    BY DEF CreateReq, SpoolInv, ReqOwner
  <2>4. \A i \in JobIds : reqs'[i] \in Clients =>
            reqs'[i] = reqs[i] \/ (i = jobid[c] /\ reqs'[i] = c /\ tpc'[c] = "reply")
    <3>1. \A i \in JobIds \ {jobid[c]} : reqs'[i] = reqs[i]
      BY <2>1 DEF CreateReq, TypeInv, TypeOK
    <3>2. reqs'[jobid[c]] \in Clients =>
              \/ reqs'[jobid[c]] = reqs[jobid[c]]
              \/ reqs'[jobid[c]] = c /\ tpc'[c] = "reply"
      BY <2>1, SpoolAssumption, ZenonT(40) DEF CreateReq, TypeInv, TypeOK
    <3> QED BY <3>1, <3>2
  <2>5. jobid' = jobid /\ \A d \in Clients \ {c} : tpc'[d] = tpc[d]
    BY DEF CreateReq, Reject, TypeInv, TypeOK
  <2> QED BY <2>3, <2>4, <2>5 DEF SpoolInv, ReqOwner
<1>3. ReqWhole'
  <2>1. jobid[c] \in JobIds
    BY DEF CreateReq, TypeInv, InHand
  <2>2. jobid[c] \notin clash => reqs[jobid[c]] \notin Clients
    BY DEF CreateReq, SpoolInv, FilingApart
  <2>3. jobid[c] \notin clash => Whole(jobid[c], c)
    BY DEF CreateReq, SpoolInv, FilingWhole
  <2>4. \A i \in JobIds \ {jobid[c]} : reqs'[i] = reqs[i] /\ data'[i] = data[i]
    BY <2>1 DEF CreateReq, TypeInv, TypeOK
  <2>5. reqs'[jobid[c]] \in Clients /\ jobid[c] \notin clash =>
            reqs'[jobid[c]] = c /\ data' = data
    BY <2>1, <2>2, SpoolAssumption, ZenonT(40) DEF CreateReq, TypeInv, TypeOK
  <2>6. UNCHANGED <<clash, stored, prints>>
    BY DEF CreateReq
  <2> QED BY <2>1, <2>3, <2>4, <2>5, <2>6 DEF SpoolInv, ReqWhole
<1>4. FilingApart'
  <2>1. jobid[c] \in JobIds
    BY DEF CreateReq, TypeInv, InHand
  <2>2. jobid[c] \notin clash => reqs[jobid[c]] \notin Clients
    BY DEF CreateReq, SpoolInv, FilingApart
  <2>3. \A d \in Clients \ {c} : tpc'[d] = tpc[d]
    BY DEF CreateReq, Reject, TypeInv, TypeOK
  <2>4. tpc'[c] \in {"reqwrite", "reply", "gone"}
    BY DEF CreateReq, Reject, TypeInv, TypeOK
  <2>5. \A i \in JobIds \ {jobid[c]} : reqs'[i] = reqs[i]
    BY <2>1 DEF CreateReq, TypeInv, TypeOK
  <2>6. tpc'[c] = "reqwrite" => reqs'[jobid[c]] \notin Clients
    BY <2>1, SpoolAssumption DEF CreateReq, Reject, TypeInv, TypeOK
  <2>7. clash' = clash /\ jobid' = jobid
    BY DEF CreateReq
  <2>8. \A d \in Clients : tpc[d] \in Filing => jobid[d] \in JobIds
    BY DEF TypeInv, InHand
  <2>9. tpc[c] \in Filing
    BY DEF CreateReq
  <2> QED BY <2>3, <2>4, <2>5, <2>6, <2>7, <2>8, <2>9 DEF SpoolInv, FilingApart
<1>5. FilingWhole'
  <2>1. jobid[c] \in JobIds
    BY DEF CreateReq, TypeInv, InHand
  <2>2. jobid[c] \notin clash => reqs[jobid[c]] \notin Clients
    BY DEF CreateReq, SpoolInv, FilingApart
  <2>3. \A d \in Clients \ {c} : /\ tpc'[d] = tpc[d] /\ reply'[d] = reply[d]
                                 /\ tpc[d] \in Filing \cup {"reply", "add"} =>
                                        jobid[d] \in JobIds
    BY DEF CreateReq, Reject, TypeInv, TypeOK, InHand
  <2>4. \A d \in Clients \ {c} : tpc[d] \in Unqueued /\ jobid[d] \notin clash =>
            jobid[d] # jobid[c]
    <3>1. \A d \in Clients \ {c} : tpc[d] \in Filing /\ jobid[d] \notin clash =>
              jobid[d] # jobid[c]
      BY DEF CreateReq, SpoolInv, FilingApart
    <3>2. \A d \in Clients : tpc[d] \in {"reply", "add"} /\ jobid[d] \notin clash =>
              jobid[d] # jobid[c]
      BY <2>2 DEF SpoolInv, FilingWhole
    <3> QED BY <3>1, <3>2
  <2>5. \A i \in JobIds \ {jobid[c]} : reqs'[i] = reqs[i] /\ data'[i] = data[i]
    BY <2>1 DEF CreateReq, TypeInv, TypeOK
  <2>6. /\ tpc'[c] \in {"reqwrite", "reply"} =>
               /\ data' = data /\ reply'[c] = "none"
               /\ jobid[c] \notin clash => Whole(jobid[c], c)
        /\ tpc'[c] = "reqwrite" => reqs'[jobid[c]] = Empty
        /\ tpc'[c] = "reply" /\ jobid[c] \notin clash => reqs'[jobid[c]] = c
        /\ tpc'[c] \in {"reqwrite", "reply", "gone"}
    BY <2>1, ZenonT(40) DEF CreateReq, Reject, TypeInv, TypeOK, SpoolInv,
       FilingWhole
  <2>7. clash' = clash /\ jobid' = jobid /\ stored' = stored
    BY DEF CreateReq
  <2> QED BY <2>3, <2>4, <2>5, <2>6, <2>7 DEF SpoolInv, FilingWhole
<1>6. QueueApart'
  <2>1. \A m \in 1..Len(Pending) : Pending[m].id \notin clash =>
            Pending[m].id # jobid[c]
    BY DEF CreateReq, SpoolInv, QueueApart
  <2>2. \A m \in 1..Len(Pending) : Pending[m].id \in JobIds
    BY PendingJobs
  <2>3. \A i \in JobIds \ {jobid[c]} : reqs'[i] = reqs[i]
    BY DEF CreateReq, TypeInv, TypeOK
  <2> QED BY <1>p, <2>1, <2>2, <2>3, QueueStays DEF CreateReq, Reject, TypeInv, TypeOK, SpoolInv
<1>7. AcceptedStored'
  <2>1. jobid[c] \in JobIds
    BY DEF CreateReq, TypeInv, InHand
  <2>2. jobid[c] \notin clash => reqs[jobid[c]] \notin Clients
    BY DEF CreateReq, SpoolInv, FilingApart
  <2>3. \A x \in Clients : reply'[x] = "accepted" => reply[x] = "accepted" /\ x # c
    BY ZenonT(40) DEF CreateReq, Reject, TypeInv, TypeOK, SpoolInv, FilingWhole
  <2>4. \A i \in JobIds \ {jobid[c]} : reqs'[i] = reqs[i]
    BY <2>1 DEF CreateReq, TypeInv, TypeOK
  <2>5. \A x \in Clients : reply[x] = "accepted" /\ jobid[x] \notin clash /\ jobid[x] = jobid[c]
            => prints[x] > 0 \/ x \in removed
    BY <2>2 DEF SpoolInv, AcceptedStored
  <2>6. UNCHANGED <<clash, removed, jobid, prints>>
    BY DEF CreateReq
  <2> QED BY <2>3, <2>4, <2>5, <2>6 DEF SpoolInv, AcceptedStored, TypeInv, TypeOK
<1> QED
  BY <1>1, <1>2, <1>3, <1>4, <1>5, <1>6, <1>7 DEF SpoolInv

\* The request is written, or that fails.
LEMMA WriteReqKeeps ==
    ASSUME TypeInv, SpoolInv, NEW c \in Clients, WriteReq(c)
    PROVE  SpoolInv'
<1>p. Pending' = Pending
  BY DEF WriteReq, Reject, Pending
<1>1. NoneWhileDown' /\ EmptyWhileDown' /\ HandWhole'
  BY DEF WriteReq, Reject, SpoolInv, NoneWhileDown, EmptyWhileDown, HandWhole
<1>2. ReqOwner'
  <2>1. jobid[c] \in JobIds
    BY DEF WriteReq, TypeInv, InHand
  <2>2. jobid[c] \notin clash => reqs[jobid[c]] \notin Clients
    BY DEF WriteReq, SpoolInv, FilingApart
  <2>3. \A i \in JobIds : reqs[i] # c
    BY DEF WriteReq, SpoolInv, ReqOwner
  <2>4. \A i \in JobIds : reqs'[i] \in Clients =>
            reqs'[i] = reqs[i] \/ (i = jobid[c] /\ reqs'[i] = c /\ tpc'[c] = "reply")
    <3>1. \A i \in JobIds \ {jobid[c]} : reqs'[i] = reqs[i]
      BY <2>1 DEF WriteReq, TypeInv, TypeOK
    <3>2. reqs'[jobid[c]] \in Clients =>
              \/ reqs'[jobid[c]] = reqs[jobid[c]]
              \/ reqs'[jobid[c]] = c /\ tpc'[c] = "reply"
      BY <2>1, SpoolAssumption, ZenonT(40) DEF WriteReq, TypeInv, TypeOK
    <3> QED BY <3>1, <3>2
  <2>5. jobid' = jobid /\ \A d \in Clients \ {c} : tpc'[d] = tpc[d]
    BY DEF WriteReq, Reject, TypeInv, TypeOK
  <2> QED BY <2>3, <2>4, <2>5 DEF SpoolInv, ReqOwner
<1>3. ReqWhole'
  <2>1. jobid[c] \in JobIds
    BY DEF WriteReq, TypeInv, InHand
  <2>2. jobid[c] \notin clash => reqs[jobid[c]] \notin Clients
    BY DEF WriteReq, SpoolInv, FilingApart
  <2>3. jobid[c] \notin clash => Whole(jobid[c], c)
    BY DEF WriteReq, SpoolInv, FilingWhole
  <2>4. \A i \in JobIds \ {jobid[c]} : reqs'[i] = reqs[i] /\ data'[i] = data[i]
    BY <2>1 DEF WriteReq, TypeInv, TypeOK
  <2>5. reqs'[jobid[c]] \in Clients /\ jobid[c] \notin clash =>
            reqs'[jobid[c]] = c /\ data' = data
    BY <2>1, <2>2, SpoolAssumption, ZenonT(40) DEF WriteReq, TypeInv, TypeOK
  <2>6. UNCHANGED <<clash, stored, prints>>
    BY DEF WriteReq
  <2> QED BY <2>1, <2>3, <2>4, <2>5, <2>6 DEF SpoolInv, ReqWhole
<1>4. FilingApart'
  <2>1. jobid[c] \in JobIds
    BY DEF WriteReq, TypeInv, InHand
  <2>2. jobid[c] \notin clash => reqs[jobid[c]] \notin Clients
    BY DEF WriteReq, SpoolInv, FilingApart
  <2>3. \A d \in Clients \ {c} : tpc'[d] = tpc[d]
    BY DEF WriteReq, Reject, TypeInv, TypeOK
  <2>4. tpc'[c] \in {"reqwrite", "reply", "gone"}
    BY DEF WriteReq, Reject, TypeInv, TypeOK
  <2>5. \A i \in JobIds \ {jobid[c]} : reqs'[i] = reqs[i]
    BY <2>1 DEF WriteReq, TypeInv, TypeOK
  <2>6. tpc'[c] = "reqwrite" => reqs'[jobid[c]] \notin Clients
    BY <2>1, SpoolAssumption DEF WriteReq, Reject, TypeInv, TypeOK
  <2>7. clash' = clash /\ jobid' = jobid
    BY DEF WriteReq
  <2>8. \A d \in Clients : tpc[d] \in Filing => jobid[d] \in JobIds
    BY DEF TypeInv, InHand
  <2>9. tpc[c] \in Filing
    BY DEF WriteReq
  <2> QED BY <2>3, <2>4, <2>5, <2>6, <2>7, <2>8, <2>9 DEF SpoolInv, FilingApart
<1>5. FilingWhole'
  <2>1. jobid[c] \in JobIds
    BY DEF WriteReq, TypeInv, InHand
  <2>2. jobid[c] \notin clash => reqs[jobid[c]] \notin Clients
    BY DEF WriteReq, SpoolInv, FilingApart
  <2>3. \A d \in Clients \ {c} : /\ tpc'[d] = tpc[d] /\ reply'[d] = reply[d]
                                 /\ tpc[d] \in Filing \cup {"reply", "add"} =>
                                        jobid[d] \in JobIds
    BY DEF WriteReq, Reject, TypeInv, TypeOK, InHand
  <2>4. \A d \in Clients \ {c} : tpc[d] \in Unqueued /\ jobid[d] \notin clash =>
            jobid[d] # jobid[c]
    <3>1. \A d \in Clients \ {c} : tpc[d] \in Filing /\ jobid[d] \notin clash =>
              jobid[d] # jobid[c]
      BY DEF WriteReq, SpoolInv, FilingApart
    <3>2. \A d \in Clients : tpc[d] \in {"reply", "add"} /\ jobid[d] \notin clash =>
              jobid[d] # jobid[c]
      BY <2>2 DEF SpoolInv, FilingWhole
    <3> QED BY <3>1, <3>2
  <2>5. \A i \in JobIds \ {jobid[c]} : reqs'[i] = reqs[i] /\ data'[i] = data[i]
    BY <2>1 DEF WriteReq, TypeInv, TypeOK
  <2>6. /\ tpc'[c] \in {"reqwrite", "reply"} =>
               /\ data' = data /\ reply'[c] = "none"
               /\ jobid[c] \notin clash => Whole(jobid[c], c)
        /\ tpc'[c] = "reqwrite" => reqs'[jobid[c]] = Empty
        /\ tpc'[c] = "reply" /\ jobid[c] \notin clash => reqs'[jobid[c]] = c
        /\ tpc'[c] \in {"reqwrite", "reply", "gone"}
    BY <2>1, ZenonT(40) DEF WriteReq, Reject, TypeInv, TypeOK, SpoolInv,
       FilingWhole
  <2>7. clash' = clash /\ jobid' = jobid /\ stored' = stored
    BY DEF WriteReq
  <2> QED BY <2>3, <2>4, <2>5, <2>6, <2>7 DEF SpoolInv, FilingWhole
<1>6. QueueApart'
  <2>1. \A m \in 1..Len(Pending) : Pending[m].id \notin clash =>
            Pending[m].id # jobid[c]
    BY DEF WriteReq, SpoolInv, QueueApart
  <2>2. \A m \in 1..Len(Pending) : Pending[m].id \in JobIds
    BY PendingJobs
  <2>3. \A i \in JobIds \ {jobid[c]} : reqs'[i] = reqs[i]
    BY DEF WriteReq, TypeInv, TypeOK
  <2> QED BY <1>p, <2>1, <2>2, <2>3, QueueStays DEF WriteReq, Reject, TypeInv, TypeOK, SpoolInv
<1>7. AcceptedStored'
  <2>1. jobid[c] \in JobIds
    BY DEF WriteReq, TypeInv, InHand
  <2>2. jobid[c] \notin clash => reqs[jobid[c]] \notin Clients
    BY DEF WriteReq, SpoolInv, FilingApart
  <2>3. \A x \in Clients : reply'[x] = "accepted" => reply[x] = "accepted" /\ x # c
    BY ZenonT(40) DEF WriteReq, Reject, TypeInv, TypeOK, SpoolInv, FilingWhole
  <2>4. \A i \in JobIds \ {jobid[c]} : reqs'[i] = reqs[i]
    BY <2>1 DEF WriteReq, TypeInv, TypeOK
  <2>5. \A x \in Clients : reply[x] = "accepted" /\ jobid[x] \notin clash /\ jobid[x] = jobid[c]
            => prints[x] > 0 \/ x \in removed
    BY <2>2 DEF SpoolInv, AcceptedStored
  <2>6. UNCHANGED <<clash, removed, jobid, prints>>
    BY DEF WriteReq
  <2> QED BY <2>3, <2>4, <2>5, <2>6 DEF SpoolInv, AcceptedStored, TypeInv, TypeOK
<1> QED
  BY <1>1, <1>2, <1>3, <1>4, <1>5, <1>6, <1>7 DEF SpoolInv

\* The command is told its job ID.
LEMMA AcceptKeeps ==
    ASSUME TypeInv, SpoolInv, NEW c \in Clients, Accept(c)
    PROVE  SpoolInv'
<1>p. Pending' = Pending
  BY DEF Accept, Pending
<1>1. /\ ReqOwner' /\ ReqWhole' /\ FilingApart' /\ NoneWhileDown'
      /\ EmptyWhileDown' /\ HandWhole'
  BY DEF Accept, SpoolInv, ReqOwner, ReqWhole, FilingApart, NoneWhileDown,
     EmptyWhileDown, HandWhole
<1>2. FilingWhole'
  BY DEF Accept, SpoolInv, FilingWhole, TypeInv, TypeOK
<1>3. QueueApart'
  BY <1>p, QueueStays DEF Accept, SpoolInv
<1>4. AcceptedStored'
  <2>1. jobid[c] \notin clash => reqs[jobid[c]] = c
    BY DEF Accept, SpoolInv, FilingWhole
  <2> QED BY <2>1 DEF Accept, TypeInv, TypeOK, SpoolInv, AcceptedStored
<1> QED
  BY <1>1, <1>2, <1>3, <1>4 DEF SpoolInv

\* The job joins the queue.
LEMMA AddJobKeeps ==
    ASSUME TypeInv, SpoolInv, NEW c \in Clients, AddJob(c)
    PROVE  SpoolInv'
<1>1. /\ ReqOwner' /\ ReqWhole' /\ FilingApart' /\ FilingWhole'
      /\ NoneWhileDown' /\ HandWhole' /\ AcceptedStored'
  BY DEF AddJob, SpoolInv, ReqOwner, ReqWhole, FilingApart, FilingWhole,
     NoneWhileDown, HandWhole, AcceptedStored
<1>2. EmptyWhileDown'
  BY DEF AddJob, SpoolInv, NoneWhileDown, EmptyWhileDown
<1>3. QueueApart'
  <2> DEFINE j == [id |-> jobid[c], doc |-> c]
  <2>1. j \in Jobs /\ j.id = jobid[c] /\ j.doc = c
    BY DEF AddJob, TypeInv, InHand, Jobs
  <2>2. jobid[c] \notin clash => reqs[jobid[c]] = c
    BY DEF AddJob, SpoolInv, FilingWhole
  <2>3. \A m \in 1..Len(Pending) : Pending[m].id \notin clash => Pending[m].id # jobid[c]
    BY DEF AddJob, SpoolInv, QueueApart
  <2>4. jobid[c] \notin clash =>
            \A d \in Clients \ {c} : tpc[d] \in Unqueued => jobid[d] # jobid[c]
    <3>1. jobid[c] \notin clash => \A d \in Clients : tpc[d] \in Filing =>
              jobid[d] # jobid[c]
      BY <2>2 DEF SpoolInv, FilingApart
    <3>2. jobid[c] \notin clash => \A d \in Clients \ {c} :
              tpc[d] \in {"reply", "add"} => jobid[d] # jobid[c]
      BY <2>2 DEF SpoolInv, FilingWhole
    <3> QED BY <3>1, <3>2
  <2>5. todo = {}
    BY DEF AddJob, SpoolInv, NoneWhileDown, EmptyWhileDown
  <2>6. \A d \in Clients : tpc'[d] \in Unqueued => tpc[d] \in Unqueued /\ d # c
    BY DEF AddJob, TypeInv, TypeOK
  <2>7. QueueApart
    BY DEF SpoolInv
  <2> HIDE DEF j
  <2> QED
    BY <2>1, <2>2, <2>3, <2>4, <2>5, <2>6, <2>7, QueueGrows DEF AddJob, j
<1> QED
  BY <1>1, <1>2, <1>3 DEF SpoolInv

\* The thread wakes the printer thread and ends.
LEMMA SignalJobKeeps ==
    ASSUME TypeInv, SpoolInv, NEW c \in Clients, SignalJob(c)
    PROVE  SpoolInv'
<1>p. Pending' = Pending
  BY DEF SignalJob, SignalJobwait, Pending
<1>1. /\ ReqOwner' /\ ReqWhole' /\ FilingApart' /\ FilingWhole'
      /\ NoneWhileDown' /\ EmptyWhileDown' /\ HandWhole' /\ AcceptedStored'
  BY DEF SignalJob, SignalJobwait, SpoolInv, ReqOwner, ReqWhole, FilingApart,
     FilingWhole, NoneWhileDown, EmptyWhileDown, HandWhole, AcceptedStored
<1>2. QueueApart'
  BY <1>p, QueueStays DEF SignalJob, SignalJobwait, SpoolInv
<1> QED
  BY <1>1, <1>2 DEF SpoolInv

\* A daemon starts.
LEMMA StartKeeps ==
    ASSUME TypeInv, SpoolInv, Start
    PROVE  SpoolInv'
<1>p. Pending' = Pending
  BY DEF Start, Pending
<1>1. /\ ReqOwner' /\ ReqWhole' /\ FilingApart' /\ FilingWhole'
      /\ NoneWhileDown' /\ EmptyWhileDown' /\ HandWhole' /\ AcceptedStored'
  BY DEF Start, SpoolInv, ReqOwner, ReqWhole, FilingApart, FilingWhole,
     NoneWhileDown, EmptyWhileDown, HandWhole, AcceptedStored
<1>2. QueueApart'
  <2>1. queue = <<>> /\ job = NoJob /\ queue' = queue /\ job' = job
    BY DEF Start, SpoolInv, EmptyWhileDown
  <2> QED BY <2>1 DEF QueueApart, Pending
<1> QED
  BY <1>1, <1>2 DEF SpoolInv

\* A request on disk becomes a job.
LEMMA BuildJobKeeps ==
    ASSUME TypeInv, SpoolInv, BuildJob
    PROVE  SpoolInv'
<1>1. /\ ReqOwner' /\ ReqWhole' /\ FilingApart' /\ FilingWhole'
      /\ NoneWhileDown' /\ EmptyWhileDown' /\ HandWhole' /\ AcceptedStored'
  BY DEF BuildJob, SpoolInv, ReqOwner, ReqWhole, FilingApart, FilingWhole,
     NoneWhileDown, EmptyWhileDown, HandWhole, AcceptedStored
<1>2. QueueApart'
  <2>1. PICK i \in todo :
          /\ reqs[i] \in Clients
          /\ todo' = todo \ {i}
          /\ queue' = Append(queue, [id |-> i, doc |-> reqs[i]])
    BY DEF BuildJob
  <2>2. UNCHANGED <<job, clash, jobid, tpc, reqs>>
    BY DEF BuildJob
  <2>3. i \in JobIds /\ QueueApart /\ \A c \in Clients : tpc[c] \notin Unqueued
    BY DEF BuildJob, TypeInv, TypeOK, SpoolInv, NoneWhileDown
  <2>4. \A m \in 1..Len(Pending) : Pending[m].id \notin clash => Pending[m].id # i
    BY <2>3 DEF QueueApart
  <2> DEFINE j == [id |-> i, doc |-> reqs[i]]
  <2>5. j \in Jobs /\ j.id = i /\ j.doc = reqs[i] /\ queue' = Append(queue, j)
    BY <2>1, <2>3 DEF Jobs
  <2> HIDE DEF j
  <2> QED BY <2>1, <2>2, <2>3, <2>4, <2>5, QueueGrows
<1> QED
  BY <1>1, <1>2 DEF SpoolInv

\* A request is removed with its document.
LEMMA BuildRemoveKeeps ==
    ASSUME TypeInv, SpoolInv, BuildRemove
    PROVE  SpoolInv'
<1>1. PICK i \in todo :
        /\ todo' = todo \ {i}
        /\ reqs' = [reqs EXCEPT ![i] = NoFile]
        /\ data' = [data EXCEPT ![i] = NoFile]
        /\ removed' = removed \cup ({reqs[i]} \cap Clients)
  BY DEF BuildRemove
<1>2. /\ i \in JobIds
      /\ reqs'[i] = NoFile /\ NoFile \notin Clients
      /\ \A k \in JobIds \ {i} : reqs'[k] = reqs[k] /\ data'[k] = data[k]
      /\ \A k \in JobIds : reqs'[k] \in Clients => k # i
  BY <1>1, Constants DEF TypeInv, TypeOK
<1>3. UNCHANGED <<up, jobid, tpc, stored, reply, prints, clash, queue, ppc, job, paper>>
  BY DEF BuildRemove
<1>4. \A c \in Clients : tpc[c] \in {"none", "gone"}
  BY DEF BuildRemove, SpoolInv, NoneWhileDown
<1>5. /\ ReqOwner' /\ ReqWhole' /\ FilingApart' /\ FilingWhole'
  BY <1>2, <1>3, <1>4 DEF SpoolInv, ReqOwner, ReqWhole, FilingApart, FilingWhole
<1>6. NoneWhileDown' /\ EmptyWhileDown' /\ HandWhole'
  BY <1>1, <1>3 DEF BuildRemove, SpoolInv, NoneWhileDown, EmptyWhileDown, HandWhole
<1>7. QueueApart'
  <2>1. \A m \in 1..Len(Pending) : Pending[m].id \notin clash => Pending[m].id # i
    BY DEF SpoolInv, QueueApart
  <2>2. Pending' = Pending
    BY <1>3 DEF Pending
  <2> QED BY <1>1, <1>2, <1>3, <2>1, <2>2, PendingJobs, QueueStays DEF SpoolInv
<1>8. AcceptedStored'
  <2>1. \A c \in Clients : c \in removed \/ reqs[i] = c => c \in removed'
    BY <1>1
  <2> QED BY <1>2, <1>3, <2>1 DEF SpoolInv, AcceptedStored, TypeInv, TypeOK
<1> QED
  BY <1>5, <1>6, <1>7, <1>8 DEF SpoolInv

\* Requests are passed over: those are not removed.
LEMMA BuildSkipKeeps ==
    ASSUME TypeInv, SpoolInv, BuildSkip
    PROVE  SpoolInv'
<1>1. todo' \subseteq todo
  BY DEF BuildSkip
<1>2. UNCHANGED <<up, reqs, data, jobid, tpc, stored, reply, prints, clash, removed,
                  queue, ppc, job, paper>>
  BY DEF BuildSkip
<1>3. /\ ReqOwner' /\ ReqWhole' /\ FilingApart' /\ FilingWhole'
      /\ NoneWhileDown' /\ HandWhole' /\ AcceptedStored'
  BY <1>2 DEF SpoolInv, ReqOwner, ReqWhole, FilingApart, FilingWhole,
     NoneWhileDown, HandWhole, AcceptedStored
<1>4. EmptyWhileDown'
  BY <1>1, <1>2 DEF SpoolInv, EmptyWhileDown
<1>5. QueueApart'
  <2>1. Pending' = Pending
    BY <1>2 DEF Pending
  <2> QED BY <1>1, <1>2, <2>1, QueueStays DEF SpoolInv
<1> QED
  BY <1>3, <1>4, <1>5 DEF SpoolInv

\* It wakes the printer thread.
LEMMA BuildSignalKeeps ==
    ASSUME TypeInv, SpoolInv, BuildSignal
    PROVE  SpoolInv'
<1>p. Pending' = Pending
  BY DEF BuildSignal, SignalJobwait, Pending
<1>1. /\ ReqOwner' /\ ReqWhole' /\ FilingApart' /\ FilingWhole'
      /\ NoneWhileDown' /\ EmptyWhileDown' /\ HandWhole' /\ AcceptedStored'
  BY DEF BuildSignal, SignalJobwait, SpoolInv, ReqOwner, ReqWhole, FilingApart,
     FilingWhole, NoneWhileDown, EmptyWhileDown, HandWhole, AcceptedStored
<1>2. QueueApart'
  BY <1>p, QueueStays DEF BuildSignal, SignalJobwait, SpoolInv
<1> QED
  BY <1>1, <1>2 DEF SpoolInv

\* It accepts connections.
LEMMA BuildDoneKeeps ==
    ASSUME TypeInv, SpoolInv, BuildDone
    PROVE  SpoolInv'
<1>p. Pending' = Pending
  BY DEF BuildDone, Pending
<1>1. /\ ReqOwner' /\ ReqWhole' /\ FilingApart' /\ FilingWhole'
      /\ NoneWhileDown' /\ EmptyWhileDown' /\ HandWhole' /\ AcceptedStored'
  BY DEF BuildDone, SpoolInv, ReqOwner, ReqWhole, FilingApart, FilingWhole,
     NoneWhileDown, EmptyWhileDown, HandWhole, AcceptedStored
<1>2. QueueApart'
  BY <1>p, QueueStays DEF BuildDone, SpoolInv
<1> QED
  BY <1>1, <1>2 DEF SpoolInv

\* The printer thread takes a job, or waits.
LEMMA PickJobKeeps ==
    ASSUME TypeInv, SpoolInv, PickJob
    PROVE  SpoolInv'
<1>p. Pending' = Pending
  <2>1. CASE queue = <<>>
    BY <2>1 DEF PickJob, Pending
  <2>2. CASE queue # <<>>
    <3>1. queue \in Seq(Jobs) /\ job = NoJob
      BY DEF PickJob, TypeInv, TypeOK, InHand
    <3>2. <<Head(queue)>> \o Tail(queue) = queue /\ Head(queue) \in Jobs
      BY <2>2, <3>1
    <3> QED BY <2>2, <3>1, <3>2, NoJobAssumption DEF PickJob, Pending
  <2> QED BY <2>1, <2>2
<1>1. /\ ReqOwner' /\ ReqWhole' /\ FilingApart' /\ FilingWhole'
      /\ NoneWhileDown' /\ EmptyWhileDown' /\ HandWhole' /\ AcceptedStored'
  BY DEF PickJob, SpoolInv, ReqOwner, ReqWhole, FilingApart, FilingWhole,
     NoneWhileDown, EmptyWhileDown, HandWhole, AcceptedStored
<1>2. QueueApart'
  BY <1>p, QueueStays DEF PickJob, SpoolInv
<1> QED
  BY <1>1, <1>2 DEF SpoolInv

\* It opens the document, or cancels the job.
LEMMA OpenDataKeeps ==
    ASSUME TypeInv, SpoolInv, OpenData
    PROVE  SpoolInv'
<1>1. /\ ReqOwner' /\ ReqWhole' /\ FilingApart' /\ FilingWhole'
      /\ NoneWhileDown' /\ EmptyWhileDown' /\ AcceptedStored'
  BY DEF OpenData, SpoolInv, ReqOwner, ReqWhole, FilingApart, FilingWhole,
     NoneWhileDown, EmptyWhileDown, AcceptedStored
<1>2. QueueApart'
  <2>1. job # NoJob /\ QueueApart
    BY NoJobAssumption DEF OpenData, TypeInv, TypeOK, InHand, SpoolInv
  <2>2. CASE job' = job
    <3>1. Pending' = Pending
      BY <2>2 DEF OpenData, Pending
    <3> QED BY <2>1, <3>1, QueueStays DEF OpenData
  <2>3. CASE job' = NoJob
    <3>1. Pending' = queue
      BY <2>3 DEF OpenData, Pending
    <3> QED BY <2>1, <3>1, QueueShrinks DEF OpenData
  <2> QED BY <2>2, <2>3 DEF OpenData
<1>3. HandWhole'
  BY HandApart DEF OpenData, HandWhole
<1> QED
  BY <1>1, <1>2, <1>3 DEF SpoolInv

\* It sends the document.
LEMMA SendFileKeeps ==
    ASSUME TypeInv, SpoolInv, SendFile
    PROVE  SpoolInv'
<1>p. Pending' = Pending
  BY DEF SendFile, Pending
<1>1. /\ ReqOwner' /\ ReqWhole' /\ FilingApart' /\ FilingWhole'
      /\ NoneWhileDown' /\ EmptyWhileDown' /\ AcceptedStored'
  BY DEF SendFile, SpoolInv, ReqOwner, ReqWhole, FilingApart, FilingWhole,
     NoneWhileDown, EmptyWhileDown, AcceptedStored
<1>2. QueueApart'
  BY <1>p, QueueStays DEF SendFile, SpoolInv
<1>3. HandWhole'
  BY HandApart DEF SendFile, SpoolInv, HandWhole
<1> QED
  BY <1>1, <1>2, <1>3 DEF SpoolInv

\* The document is printed.
LEMMA PrintedKeeps ==
    ASSUME TypeInv, SpoolInv, Printed
    PROVE  SpoolInv'
<1>p. Pending' = Pending
  BY DEF Printed, Printout, Pending
<1>1. /\ ReqOwner' /\ FilingApart' /\ FilingWhole' /\ NoneWhileDown'
      /\ EmptyWhileDown'
  BY DEF Printed, Printout, SpoolInv, ReqOwner, FilingApart, FilingWhole,
     NoneWhileDown, EmptyWhileDown
<1>2. ReqWhole'
  <2>1. paper \in Files
    BY DEF Printed, TypeInv, InHand
  <2>2. \A d \in Clients : {prints[d], prints'[d]} \subseteq Nat /\ prints'[d] >= prints[d]
    BY <2>1 DEF Printed, Printout, TypeInv, TypeOK, Files
  <2>3. \A d \in Clients : prints[d] > 0 => prints'[d] > 0
    BY <2>2
  <2>4. UNCHANGED <<reqs, data, stored, clash, removed, jobid, reply>>
    BY DEF Printed
  <2> QED BY <2>3, <2>4 DEF SpoolInv, ReqWhole
<1>3. QueueApart'
  BY <1>p, QueueStays DEF Printed, Printout, SpoolInv
<1>4. HandWhole'
  <2>1. job # NoJob /\ job.id \notin clash => paper.doc = job.doc /\ job.doc \in Clients
    BY HandApart DEF Printed, SpoolInv, HandWhole
  <2>2. job # NoJob /\ job.id \notin clash => prints'[job.doc] > 0
    BY <2>1 DEF Printed, Printout, TypeInv, TypeOK
  <2> QED BY <2>2 DEF Printed, HandWhole
<1>5. AcceptedStored'
  <2>1. paper \in Files
    BY DEF Printed, TypeInv, InHand
  <2>2. \A d \in Clients : {prints[d], prints'[d]} \subseteq Nat /\ prints'[d] >= prints[d]
    BY <2>1 DEF Printed, Printout, TypeInv, TypeOK, Files
  <2>3. \A d \in Clients : prints[d] > 0 => prints'[d] > 0
    BY <2>2
  <2>4. UNCHANGED <<reqs, data, stored, clash, removed, jobid, reply>>
    BY DEF Printed
  <2> QED BY <2>3, <2>4 DEF SpoolInv, AcceptedStored
<1> QED
  BY <1>1, <1>2, <1>3, <1>4, <1>5 DEF SpoolInv

\* The printer fails, perhaps after it has printed.
LEMMA PrinterFailKeeps ==
    ASSUME TypeInv, SpoolInv, PrinterFail
    PROVE  SpoolInv'
<1>p. Pending' = Pending
  BY DEF PrinterFail, Pending
<1>1. /\ ReqOwner' /\ FilingApart' /\ FilingWhole' /\ NoneWhileDown'
      /\ EmptyWhileDown' /\ HandWhole'
  BY DEF PrinterFail, SpoolInv, ReqOwner, FilingApart, FilingWhole,
     NoneWhileDown, EmptyWhileDown, HandWhole
<1>2. ReqWhole'
  <2>1. ppc = "status" => paper \in Files
    BY DEF TypeInv, InHand
  <2>2. CASE prints' = prints
    BY <2>2 DEF PrinterFail, TypeInv, TypeOK, SpoolInv, ReqWhole
  <2>3. CASE ppc = "status" /\ Printout
    <3>1. \A d \in Clients : {prints[d], prints'[d]} \subseteq Nat /\ prints'[d] >= prints[d]
      BY <2>1, <2>3 DEF Printout, TypeInv, TypeOK, Files
    <3>2. \A d \in Clients : prints[d] > 0 => prints'[d] > 0
      BY <3>1
    <3>3. UNCHANGED <<reqs, data, stored, clash, removed, jobid, reply>>
      BY DEF PrinterFail
    <3> QED BY <3>2, <3>3 DEF SpoolInv, ReqWhole
  <2> QED BY <2>2, <2>3 DEF PrinterFail
<1>3. QueueApart'
  BY <1>p, QueueStays DEF PrinterFail, SpoolInv
<1>4. AcceptedStored'
  <2>1. ppc = "status" => paper \in Files
    BY DEF TypeInv, InHand
  <2>2. CASE prints' = prints
    BY <2>2 DEF PrinterFail, TypeInv, TypeOK, SpoolInv, AcceptedStored
  <2>3. CASE ppc = "status" /\ Printout
    <3>1. \A d \in Clients : {prints[d], prints'[d]} \subseteq Nat /\ prints'[d] >= prints[d]
      BY <2>1, <2>3 DEF Printout, TypeInv, TypeOK, Files
    <3>2. \A d \in Clients : prints[d] > 0 => prints'[d] > 0
      BY <3>1
    <3>3. UNCHANGED <<reqs, data, stored, clash, removed, jobid, reply>>
      BY DEF PrinterFail
    <3> QED BY <3>2, <3>3 DEF SpoolInv, AcceptedStored
  <2> QED BY <2>2, <2>3 DEF PrinterFail
<1> QED
  BY <1>1, <1>2, <1>3, <1>4 DEF SpoolInv

\* The printed document is removed.
LEMMA UnlinkDataKeeps ==
    ASSUME TypeInv, SpoolInv, UnlinkData
    PROVE  SpoolInv'
<1>p. Pending' = Pending
  BY DEF UnlinkData, Pending
<1>1. /\ ReqOwner' /\ FilingApart' /\ NoneWhileDown' /\ EmptyWhileDown'
      /\ HandWhole' /\ AcceptedStored'
  BY DEF UnlinkData, SpoolInv, ReqOwner, FilingApart, NoneWhileDown,
     EmptyWhileDown, HandWhole, AcceptedStored
<1>2. ReqWhole'
  <2>1. job # NoJob /\ (job.id \notin clash => prints[job.doc] > 0)
    BY NoJobAssumption DEF UnlinkData, TypeInv, InHand, SpoolInv, HandWhole
  <2>2. job.id \in JobIds /\ (job.id \notin clash => reqs[job.id] = job.doc)
    BY <2>1, HandApart DEF TypeInv, TypeOK, Jobs
  <2>3. /\ data'[job.id] = NoFile
        /\ \A i \in JobIds \ {job.id} : data'[i] = data[i]
    BY <2>2 DEF UnlinkData, TypeInv, TypeOK
  <2> QED BY <2>1, <2>2, <2>3 DEF UnlinkData, SpoolInv, ReqWhole
<1>3. FilingWhole'
  <2>1. job # NoJob
    BY NoJobAssumption DEF UnlinkData, TypeInv, InHand
  <2>2. \A c \in Clients : tpc[c] \in Filing /\ jobid[c] \notin clash =>
            jobid[c] # job.id /\ jobid[c] \in JobIds
    BY <2>1, HandApart DEF TypeInv, InHand
  <2>3. \A i \in JobIds \ {job.id} : data'[i] = data[i]
    BY DEF UnlinkData, TypeInv, TypeOK
  <2> QED BY <2>2, <2>3 DEF UnlinkData, SpoolInv, FilingWhole
<1>4. QueueApart'
  BY <1>p, QueueStays DEF UnlinkData, SpoolInv
<1> QED
  BY <1>1, <1>2, <1>3, <1>4 DEF SpoolInv

\* Its request is removed, and the job is done.
LEMMA UnlinkReqKeeps ==
    ASSUME TypeInv, SpoolInv, UnlinkReq
    PROVE  SpoolInv'
<1>1. NoneWhileDown' /\ EmptyWhileDown' /\ HandWhole'
  BY DEF UnlinkReq, SpoolInv, NoneWhileDown, EmptyWhileDown, HandWhole
<1>2. ReqOwner'
  BY SpoolAssumption DEF UnlinkReq, TypeInv, TypeOK, SpoolInv, ReqOwner
<1>3. ReqWhole'
  BY SpoolAssumption DEF UnlinkReq, SpoolInv, ReqWhole, TypeInv, TypeOK
<1>4. FilingApart'
  BY SpoolAssumption DEF UnlinkReq, SpoolInv, FilingApart, TypeInv, TypeOK
<1>5. FilingWhole'
  <2>1. job # NoJob
    BY NoJobAssumption DEF UnlinkReq, TypeInv, InHand
  <2>2. \A c \in Clients : tpc[c] \in Unqueued /\ jobid[c] \notin clash =>
            jobid[c] # job.id /\ jobid[c] \in JobIds
    BY <2>1, HandApart DEF TypeInv, InHand
  <2>3. \A i \in JobIds \ {job.id} : reqs'[i] = reqs[i]
    BY DEF UnlinkReq, TypeInv, TypeOK
  <2> QED BY <2>2, <2>3 DEF UnlinkReq, SpoolInv, FilingWhole
<1>6. QueueApart'
  <2>1. job # NoJob /\ QueueApart
    BY NoJobAssumption DEF UnlinkReq, TypeInv, InHand, SpoolInv
  <2>2. Pending' = queue
    BY DEF UnlinkReq, Pending
  <2>3. \A i \in JobIds \ {job.id} : reqs'[i] = reqs[i]
    BY DEF UnlinkReq, TypeInv, TypeOK
  <2> QED BY <2>1, <2>2, <2>3, QueueShrinks DEF UnlinkReq
<1>7. AcceptedStored'
  <2>1. job # NoJob /\ (job.id \notin clash => prints[job.doc] > 0)
    BY NoJobAssumption DEF UnlinkReq, TypeInv, InHand, SpoolInv, HandWhole
  <2>2. job.id \notin clash => reqs[job.id] = job.doc
    BY <2>1, HandApart
  <2>3. \A i \in JobIds \ {job.id} : reqs'[i] = reqs[i]
    BY DEF UnlinkReq, TypeInv, TypeOK
  <2> QED BY <2>1, <2>2, <2>3 DEF UnlinkReq, SpoolInv, AcceptedStored
<1> QED
  BY <1>1, <1>2, <1>3, <1>4, <1>5, <1>6, <1>7 DEF SpoolInv

\* The job goes back to the head of the list.
LEMMA DeferKeeps ==
    ASSUME TypeInv, SpoolInv, Defer
    PROVE  SpoolInv'
<1>p. Pending' = Pending
  BY NoJobAssumption DEF Defer, Pending, TypeInv, TypeOK, InHand
<1>1. /\ ReqOwner' /\ ReqWhole' /\ FilingApart' /\ FilingWhole'
      /\ NoneWhileDown' /\ HandWhole' /\ AcceptedStored'
  BY DEF Defer, SpoolInv, ReqOwner, ReqWhole, FilingApart, FilingWhole,
     NoneWhileDown, HandWhole, AcceptedStored
<1>2. EmptyWhileDown'
  <2>1. job # NoJob
    BY NoJobAssumption DEF Defer, TypeInv, InHand
  <2> QED BY <2>1 DEF Defer, SpoolInv, EmptyWhileDown
<1>3. QueueApart'
  BY <1>p, QueueStays DEF Defer, SpoolInv
<1> QED
  BY <1>1, <1>2, <1>3 DEF SpoolInv

\* The daemon ends.
LEMMA CrashKeeps ==
    ASSUME TypeInv, SpoolInv, Crash
    PROVE  SpoolInv'
<1>1. /\ ReqOwner' /\ ReqWhole' /\ FilingApart' /\ FilingWhole'
      /\ NoneWhileDown' /\ EmptyWhileDown' /\ HandWhole' /\ AcceptedStored'
  BY DEF Crash, SpoolInv, ReqOwner, ReqWhole, FilingApart, FilingWhole,
     NoneWhileDown, EmptyWhileDown, HandWhole, AcceptedStored
<1>2. QueueApart'
  <2>1. queue' = <<>> /\ job' = NoJob
    BY DEF Crash
  <2> QED BY <2>1 DEF QueueApart, Pending
<1> QED
  BY <1>1, <1>2 DEF SpoolInv

\* Nothing the invariant speaks of changes, but for where the printer thread is.
LEMMA OthersKeep ==
    ASSUME TypeInv, SpoolInv,
           \/ \E c \in Clients : Send(c)
           \/ SaveJobno \/ CheckConf \/ Reload \/ EditConf \/ HandleHup
           \/ UNCHANGED vars
    PROVE  SpoolInv'
<1>1. /\ UNCHANGED <<reqs, data, jobid, tpc, stored, prints, clash, reply, up, todo,
                     removed, queue, job>>
      /\ (ppc' = ppc /\ paper' = paper) \/ ppc' \in {"conf", "reload", "open"}
  BY DEF Send, SaveJobno, CheckConf, Reload, EditConf, HandleHup
<1>2. HandWhole'
  BY <1>1 DEF SpoolInv, HandWhole
<1>3. Pending' = Pending
  BY <1>1 DEF Pending
<1>4. QueueApart'
  BY <1>1, <1>3, QueueStays DEF SpoolInv
<1> QED
  BY <1>1, <1>2, <1>4
  DEF SpoolInv, ReqOwner, ReqWhole, FilingApart, FilingWhole, NoneWhileDown,
      EmptyWhileDown, AcceptedStored

LEMMA SpoolInvInit == Init => SpoolInv
<1> SUFFICES ASSUME Init PROVE SpoolInv
  OBVIOUS
<1>1. \A i \in JobIds : reqs[i] = NoFile
  BY DEF Init
<1>2. Pending = <<>>
  BY DEF Init, Pending
<1>3. QueueApart /\ HandWhole
  BY <1>2 DEF Init, QueueApart, HandWhole
<1>4. ReqOwner /\ ReqWhole
  BY <1>1, SpoolAssumption DEF ReqOwner, ReqWhole
<1>5. FilingApart /\ FilingWhole
  BY DEF Init, FilingApart, FilingWhole
<1>6. NoneWhileDown /\ EmptyWhileDown /\ AcceptedStored
  BY DEF Init, NoneWhileDown, EmptyWhileDown, AcceptedStored
<1> QED BY <1>3, <1>4, <1>5, <1>6 DEF SpoolInv

LEMMA SpoolInvStep == TypeInv /\ SpoolInv /\ [Next]_vars => SpoolInv'
<1> SUFFICES ASSUME TypeInv, SpoolInv, [Next]_vars PROVE SpoolInv'
  OBVIOUS
<1>1. ASSUME NEW c \in Clients, Command(c) PROVE SpoolInv'
  BY <1>1, ConnectKeeps, OthersKeep DEF Command
<1>2. ASSUME NEW c \in Clients, Thread(c) PROVE SpoolInv'
  BY <1>2, HeaderTimeoutKeeps, NewJobKeeps, CreateDataKeeps, ReceiveKeeps,
     ReceiveEndKeeps, CreateReqKeeps, WriteReqKeeps, AcceptKeeps, AddJobKeeps,
     SignalJobKeeps
  DEF Thread
<1>3. CASE Main
  BY <1>3, StartKeeps, BuildJobKeeps, BuildRemoveKeeps, BuildSkipKeeps,
     BuildSignalKeeps, BuildDoneKeeps
  DEF Main
<1>4. CASE Printer
  BY <1>4, PickJobKeeps, OthersKeep, OpenDataKeeps, SendFileKeeps, PrintedKeeps,
     UnlinkDataKeeps, UnlinkReqKeeps, DeferKeeps
  DEF Printer
<1>5. CASE PrinterFail \/ Crash
  BY <1>5, PrinterFailKeeps, CrashKeeps
<1>6. CASE EditConf \/ HandleHup \/ UNCHANGED vars
  BY <1>6, OthersKeep
<1> QED BY <1>1, <1>2, <1>3, <1>4, <1>5, <1>6 DEF Next

LEMMA SpoolInvAlways == Spec => [](TypeInv /\ SpoolInv)
  BY TypeInit, TypeStep, SpoolInvInit, SpoolInvStep, PTL DEF Spec

\* The daemon loses no accepted job but by a failed read: its request and all
\* that was received of its document stay on disk until it is printed, through
\* any number of ends of the daemon and of failures, unless its ID is given to
\* another job (printd.c:425-520, 825-831), or a daemon that starts cannot read
\* the request and removes both (printd.c:365-378).
THEOREM AcceptedAlwaysKept == Spec => []AcceptedKept
<1>1. TypeInv /\ SpoolInv => AcceptedKept
  <2> SUFFICES ASSUME TypeInv, SpoolInv, NEW c \in Clients,
                      reply[c] = "accepted", prints[c] = 0, jobid[c] \notin clash,
                      c \notin removed
               PROVE  reqs[jobid[c]] = c /\ Whole(jobid[c], c)
    BY DEF AcceptedKept, TypeInv, TypeOK
  <2>1. reqs[jobid[c]] = c
    BY DEF SpoolInv, AcceptedStored, TypeInv, TypeOK
  <2>2. jobid[c] \in JobIds
    BY DEF TypeInv, TypeOK
  <2> QED BY <2>1, <2>2 DEF SpoolInv, ReqWhole, TypeInv, TypeOK
<1> QED BY <1>1, SpoolInvAlways, PTL

\* What is sent to the printer is the document of the job in hand, with all
\* that was received of it (printd.c:808-816).
THEOREM AlwaysPrintsWhole == Spec => []PrintsWhole
<1>1. TypeInv /\ SpoolInv => PrintsWhole
  BY HandApart, NoJobAssumption DEF PrintsWhole, SpoolInv, HandWhole, TypeInv,
     InHand
<1> QED BY <1>1, SpoolInvAlways, PTL

-----------------------------------------------------------------------------
(***************************************************************************)
(* A document comes out of the printer once, and once more at most for each *)
(* failure and each end of the daemon: the invariant PrintInv.              *)
(***************************************************************************)
Owners == DataOwner /\ PaperOwner /\ PrintedLater

\* A thread that has created its document keeps its job ID, and nobody puts a
\* document under another name.
LEMMA OwnersStay ==
    ASSUME TypeInv, Owners, prints' = prints,
           \A c \in Clients : tpc'[c] \in Early => tpc[c] \in Early,
           \A c \in Clients : tpc[c] \notin Early => jobid'[c] = jobid[c],
           \A i \in JobIds : data'[i] # NoFile =>
               data[i] # NoFile /\ data'[i].doc = data[i].doc,
           Open' => /\ job' = job
                    /\ paper' \in Files
                    /\ jobid'[paper'.doc] = job.id /\ tpc'[paper'.doc] \notin Early
    PROVE  Owners'
<1>1. \A i \in JobIds : data[i] # NoFile => data[i].doc \in Clients
  BY DEF TypeInv, TypeOK, Files
<1>2. DataOwner'
  BY <1>1 DEF Owners, DataOwner
<1>3. PaperOwner'
  BY DEF PaperOwner
<1>4. PrintedLater'
  BY DEF Owners, PrintedLater
<1> QED BY <1>2, <1>3, <1>4 DEF Owners

\* What the printer thread has open stays as it is.
LEMMA PaperStays ==
    ASSUME TypeInv, Owners, UNCHANGED paper, UNCHANGED job, Open' => Open,
           \A c \in Clients : tpc'[c] \in Early => tpc[c] \in Early,
           \A c \in Clients : tpc[c] \notin Early => jobid'[c] = jobid[c]
    PROVE  Open' => /\ job' = job
                    /\ paper' \in Files
                    /\ jobid'[paper'.doc] = job.id /\ tpc'[paper'.doc] \notin Early
<1>1. Open => paper \in Files /\ paper.doc \in Clients
  BY DEF TypeInv, InHand, Open, Files
<1> QED BY <1>1 DEF Owners, PaperOwner

LEMMA OwnersThread ==
    ASSUME TypeInv, Owners, NEW c \in Clients, Command(c) \/ Thread(c)
    PROVE  Owners'
<1> USE DEF TypeInv, TypeOK
<1>1. CASE CreateData(c)
  <2>1. /\ UNCHANGED <<jobid, paper, job, ppc, prints>>
        /\ \A d \in Clients : tpc'[d] \in Early => tpc[d] \in Early
    BY <1>1 DEF CreateData, Reject
  <2>2. Open' => /\ job' = job
                 /\ paper' \in Files
                 /\ jobid'[paper'.doc] = job.id /\ tpc'[paper'.doc] \notin Early
    BY <2>1, PaperStays DEF Open
  <2>3. CASE data' = data
    BY <2>1, <2>2, <2>3, OwnersStay
  <2>4. CASE data' = [data EXCEPT ![jobid[c]] = [doc |-> c, n |-> 0]] /\ tpc'[c] = "recv"
    <3>1. DataOwner'
      <4> SUFFICES ASSUME NEW i \in JobIds, data'[i] # NoFile
                   PROVE  jobid'[data'[i].doc] = i /\ tpc'[data'[i].doc] \notin Early
        BY DEF DataOwner
      <4>1. CASE i = jobid[c]
        <5>1. data'[i].doc = c
          BY <2>4, <4>1
        <5> QED BY <2>1, <2>4, <4>1, <5>1
      <4>2. CASE i # jobid[c]
        <5>1. data'[i] = data[i] /\ data[i].doc \in Clients
          BY <2>4, <4>2 DEF Files
        <5> QED BY <2>1, <5>1 DEF Owners, DataOwner
      <4> QED BY <4>1, <4>2
    <3>2. PaperOwner' /\ PrintedLater'
      BY <2>1, <2>2 DEF Owners, PaperOwner, PrintedLater
    <3> QED BY <3>1, <3>2 DEF Owners
  <2> QED BY <1>1, <2>3, <2>4 DEF CreateData
<1>2. CASE Receive(c)
  <2>1. /\ UNCHANGED <<jobid, paper, job, ppc, prints>>
        /\ \A d \in Clients : tpc'[d] \in Early => tpc[d] \in Early
    BY <1>2 DEF Receive, Reject
  <2>2. \A i \in JobIds : data'[i] # NoFile => data[i] # NoFile /\ data'[i].doc = data[i].doc
    <3>1. ASSUME NEW i \in JobIds, data'[i] # NoFile, data'[i] # data[i]
          PROVE  data[i] # NoFile /\ data'[i].doc = data[i].doc
      <4>1. /\ data[jobid[c]] # NoFile
            /\ data' = [data EXCEPT ![jobid[c]].n = stored[c] + 1]
        BY <1>2, <3>1 DEF Receive
      <4>2. i = jobid[c] /\ data[i] \in Files
        BY <3>1, <4>1
      <4>3. data'[i] = [data[i] EXCEPT !.n = stored[c] + 1]
        BY <4>1, <4>2
      <4> QED BY <4>1, <4>2, <4>3 DEF Files
    <3> QED BY <3>1
  <2> QED BY <2>1, <2>2, PaperStays, OwnersStay DEF Open
<1>3. CASE Connect(c) \/ Send(c) \/ HeaderTimeout(c) \/ ReceiveEnd(c) \/ CreateReq(c)
           \/ WriteReq(c) \/ Accept(c) \/ AddJob(c) \/ NewJob(c)
  <2>1. UNCHANGED <<paper, job, ppc, prints>>
    BY <1>3 DEF Connect, Send, HeaderTimeout, ReceiveEnd, CreateReq, WriteReq, Accept,
                AddJob, NewJob
  <2>2. \A d \in Clients : tpc'[d] \in Early => tpc[d] \in Early
    BY <1>3 DEF Connect, Send, HeaderTimeout, ReceiveEnd, CreateReq, WriteReq, Accept,
                AddJob, NewJob, Reject
  <2>3. \A d \in Clients : tpc[d] \notin Early => jobid'[d] = jobid[d]
    BY <1>3 DEF Connect, Send, HeaderTimeout, ReceiveEnd, CreateReq, WriteReq, Accept,
                AddJob, NewJob
  <2>4. \A i \in JobIds : data'[i] # NoFile => data'[i] = data[i]
    BY <1>3 DEF Connect, Send, HeaderTimeout, ReceiveEnd, CreateReq, WriteReq, Accept,
                AddJob, NewJob
  <2> QED BY <2>1, <2>2, <2>3, <2>4, PaperStays, OwnersStay DEF Open
<1>4. CASE SignalJob(c)
  <2>1. /\ UNCHANGED <<paper, job, prints, jobid, data>>
        /\ Open' => Open
        /\ \A d \in Clients : tpc'[d] \in Early => tpc[d] \in Early
    BY <1>4 DEF SignalJob, SignalJobwait, Open
  <2> QED BY <2>1, PaperStays, OwnersStay
<1> QED BY <1>1, <1>2, <1>3, <1>4 DEF Command, Thread

LEMMA OwnersPrinter ==
    ASSUME TypeInv, Owners, Printer \/ PrinterFail
    PROVE  Owners'
<1> USE DEF TypeInv, TypeOK
<1>1. CASE OpenData \/ SendFile
  <2>1. UNCHANGED <<prints, tpc, jobid, data>>
    BY <1>1 DEF OpenData, SendFile
  <2>2. job \in Jobs /\ job.id \in JobIds
    BY <1>1 DEF OpenData, SendFile, InHand, Jobs
  <2>3. Open' => job' = job /\ paper' \in Files
    BY <1>1, <2>2 DEF OpenData, SendFile, Open, InHand
  <2>4. Open' => \/ paper' = data[job.id] /\ data[job.id] # NoFile
                 \/ paper' = paper /\ Open
    BY <1>1, <2>2 DEF OpenData, SendFile, Open
  <2>5. Open' => jobid[paper'.doc] = job.id /\ tpc[paper'.doc] \notin Early
    BY <2>2, <2>4 DEF Owners, DataOwner, PaperOwner
  <2> QED BY <2>1, <2>3, <2>5, OwnersStay
<1>2. CASE Printed \/ PrinterFail
  <2>1. UNCHANGED <<tpc, jobid, data, job>> /\ ~Open'
    BY <1>2 DEF Printed, PrinterFail, Open
  <2>2. \A d \in Clients : tpc[d] \in Early => prints'[d] = prints[d]
    <3>1. CASE prints' = prints
      BY <3>1
    <3>2. CASE ppc = "status" /\ Printout
      <4>1. paper \in Files /\ tpc[paper.doc] \notin Early
        BY <3>2 DEF InHand, Owners, PaperOwner, Open
      <4> QED BY <3>2, <4>1 DEF Printout
    <3> QED BY <1>2, <3>1, <3>2 DEF Printed, PrinterFail
  <2> QED BY <2>1, <2>2 DEF Owners, DataOwner, PaperOwner, PrintedLater
<1>3. CASE PickJob \/ SaveJobno \/ CheckConf \/ Reload \/ UnlinkReq \/ Defer
  <2>1. UNCHANGED <<prints, tpc, jobid, data>> /\ ~Open'
    BY <1>3 DEF PickJob, SaveJobno, CheckConf, Reload, UnlinkReq, Defer, Open
  <2> QED BY <2>1, OwnersStay
<1>4. CASE UnlinkData
  <2>1. UNCHANGED <<prints, tpc, jobid>> /\ ~Open'
    BY <1>4 DEF UnlinkData, Open
  <2>2. \A i \in JobIds : data'[i] # NoFile => data'[i] = data[i]
    BY <1>4 DEF UnlinkData
  <2> QED BY <2>1, <2>2, OwnersStay
<1> QED BY <1>1, <1>2, <1>3, <1>4 DEF Printer

LEMMA OwnersMain ==
    ASSUME TypeInv, Owners, Main \/ EditConf \/ HandleHup \/ Crash \/ UNCHANGED vars
    PROVE  Owners'
<1>1. /\ UNCHANGED <<prints, jobid>>
      /\ \A d \in Clients : tpc'[d] \in Early => tpc[d] \in Early
  BY DEF Main, Start, BuildJob, BuildRemove, BuildSkip, BuildSignal, BuildDone, EditConf, HandleHup, Crash,
         TypeInv, TypeOK
<1>2. \A i \in JobIds : data'[i] # NoFile => data'[i] = data[i]
  BY DEF Main, Start, BuildJob, BuildRemove, BuildSkip, BuildSignal, BuildDone, EditConf, HandleHup, Crash,
         TypeInv, TypeOK
<1>3. \/ ~Open'
      \/ UNCHANGED <<paper, job>> /\ (Open' => Open)
  BY DEF Main, Start, BuildJob, BuildRemove, BuildSkip, BuildSignal, BuildDone, EditConf, HandleHup, Crash,
         SignalJobwait, Open
<1> QED BY <1>1, <1>2, <1>3, PaperStays, OwnersStay

LEMMA OwnersStep == TypeInv /\ Owners /\ [Next]_vars => Owners'
  BY OwnersThread, OwnersPrinter, OwnersMain DEF Next

LEMMA OwedElements ==
    ASSUME TypeInv
    PROVE  /\ \A c \in Clients : \A k \in 2 .. prints[c] : <<c, k>> \in FurtherCopies
           /\ \A x \in FurtherCopies : \E c \in Clients : \E k \in 2 .. prints[c] :
                 x = <<c, k>>
  BY DEF FurtherCopies

LEMMA Budget ==
    ASSUME TypeInv
    PROVE  crashes \in Nat /\ faults \in Nat
  BY Constants DEF TypeInv, TypeOK

LEMMA AddOne ==
    ASSUME NEW T, IsFiniteSet(T), NEW x
    PROVE  /\ IsFiniteSet(T \cup {x})
           /\ Cardinality(T \cup {x}) \in Nat /\ Cardinality(T) \in Nat
           /\ Cardinality(T \cup {x}) <= Cardinality(T) + 1
<1>1. Cardinality(T) \in Nat
  BY FS_CardinalityType
<1> QED BY <1>1, FS_AddElement

\* Nothing is printed, and no document that was printed is left that was not
\* left before.
LEMMA OwedStays ==
    ASSUME prints' = prints, \A d \in Clients : prints[d] > 0 /\ Left(d)' => Left(d)
    PROVE  Owed' \subseteq Owed
<1>1. FurtherCopies' = FurtherCopies
  BY DEF FurtherCopies
<1>2. {d \in Clients : prints[d] > 0 /\ Left(d)}'
        \subseteq {d \in Clients : prints[d] > 0 /\ Left(d)}
  OBVIOUS
<1> QED BY <1>1, <1>2 DEF Owed

\* One document is left that was not left before.
LEMMA OwedOneMore ==
    ASSUME prints' = prints, NEW c,
           \A d \in Clients : prints[d] > 0 /\ Left(d)' => Left(d) \/ d = c
    PROVE  Owed' \subseteq Owed \cup {<<c, 1>>}
<1>1. FurtherCopies' = FurtherCopies
  BY DEF FurtherCopies
<1>2. {d \in Clients : prints[d] > 0 /\ Left(d)}'
        \subseteq {d \in Clients : prints[d] > 0 /\ Left(d)} \cup {c}
  OBVIOUS
<1> QED BY <1>1, <1>2 DEF Owed

LEMMA AccountedStays ==
    ASSUME TypeInv, TypeInv', Accounted, Owed' \subseteq Owed,
           faults <= faults', crashes <= crashes'
    PROVE  Accounted'
<1> DEFINE new == Owed'
<1>1. IsFiniteSet(new) /\ Cardinality(new) <= Cardinality(Owed)
  BY FS_Subset DEF Accounted
<1>2. Cardinality(new) \in Nat /\ Cardinality(Owed) \in Nat
  BY <1>1, FS_CardinalityType DEF Accounted
<1>3. PICK f \in Nat, e \in Nat : f = faults' /\ e = crashes'
  BY Constants DEF TypeInv, TypeOK
<1>4. faults + crashes <= f + e
  BY <1>3, Budget
<1> HIDE DEF new
<1>5. Cardinality(new) <= f + e
  BY <1>1, <1>2, <1>4, Budget DEF Accounted
<1> QED BY <1>1, <1>3, <1>5 DEF Accounted, new

\* A failure or an end of the daemon pays for one more.
LEMMA AccountedPaid ==
    ASSUME TypeInv, TypeInv', Accounted, NEW x, Owed' \subseteq Owed \cup {x},
           \/ faults' = faults + 1 /\ crashes' = crashes
           \/ crashes' = crashes + 1 /\ faults' = faults
    PROVE  Accounted'
<1> DEFINE new == Owed'
<1>1. /\ IsFiniteSet(Owed \cup {x})
      /\ Cardinality(Owed \cup {x}) <= Cardinality(Owed) + 1
  BY AddOne DEF Accounted
<1>2. IsFiniteSet(new) /\ Cardinality(new) <= Cardinality(Owed \cup {x})
  BY <1>1, FS_Subset
<1>3. /\ Cardinality(new) \in Nat /\ Cardinality(Owed) \in Nat
      /\ Cardinality(Owed \cup {x}) \in Nat
  BY <1>1, <1>2, FS_CardinalityType DEF Accounted
<1>4. faults' + crashes' = faults + crashes + 1
  BY Budget
<1> HIDE DEF new
<1>5. Cardinality(new) <= faults' + crashes'
  BY <1>1, <1>2, <1>3, <1>4, Budget DEF Accounted
<1> QED BY <1>2, <1>5 DEF Accounted, new

\* A document that could come out again has done so, and cannot any more.
LEMMA AccountedMoved ==
    ASSUME TypeInv, TypeInv', Accounted, UNCHANGED bounds, NEW x, NEW y \in Owed,
           Owed' \subseteq (Owed \ {y}) \cup {x}
    PROVE  Accounted'
<1> DEFINE new == Owed'
           rest == Owed \ {y}
<1>1. IsFiniteSet(rest) /\ Cardinality(rest) = Cardinality(Owed) - 1
  BY FS_RemoveElement DEF Accounted
<1>2. Cardinality(Owed) \in Nat
  BY FS_CardinalityType DEF Accounted
<1> HIDE DEF rest
<1>3. /\ IsFiniteSet(rest \cup {x})
      /\ Cardinality(rest \cup {x}) \in Nat /\ Cardinality(rest) \in Nat
      /\ Cardinality(rest \cup {x}) <= Cardinality(rest) + 1
  BY <1>1, AddOne
<1>4. new \subseteq rest \cup {x}
  BY DEF rest
<1> HIDE DEF new
<1>5. /\ IsFiniteSet(new) /\ Cardinality(new) \in Nat
      /\ Cardinality(new) <= Cardinality(rest \cup {x})
  BY <1>3, <1>4, FS_Subset, FS_CardinalityType
<1>6. faults' + crashes' = faults + crashes
  OBVIOUS
<1>7. Cardinality(new) <= faults' + crashes'
  BY <1>1, <1>2, <1>3, <1>4, <1>5, <1>6, Budget DEF Accounted
<1> QED BY <1>5, <1>7 DEF Accounted, new

\* A document comes out: one further copy, unless it is the first one.
LEMMA PrintoutOwes ==
    ASSUME TypeInv, Open, Printout, NEW c, paper.doc = c,
           \A d \in Clients \ {c} : Left(d)' => Left(d)
    PROVE  /\ c \in Clients
           /\ prints'[c] = prints[c] + 1
           /\ prints[c] > 0 => <<c, 1>> \in Owed
           /\ \A x \in Owed' : \/ x \in Owed /\ x # <<c, 1>>
                               \/ x = <<c, 1>> /\ Left(c)'
                               \/ x = <<c, prints[c] + 1>> /\ prints[c] > 0
<1>1. c \in Clients /\ prints[c] \in Nat
  BY DEF TypeInv, InHand, TypeOK, Open, Files
<1>2. prints' = [prints EXCEPT ![c] = prints[c] + 1]
  BY DEF Printout
<1>3. prints'[c] = prints[c] + 1 /\ \A d \in Clients \ {c} : prints'[d] = prints[d]
  BY <1>1, <1>2 DEF TypeInv, TypeOK
<1>4. prints[c] > 0 => <<c, 1>> \in Owed
  BY <1>1 DEF Owed, Left
<1>5. ASSUME NEW x \in Owed'
      PROVE  \/ x \in Owed /\ x # <<c, 1>>
             \/ x = <<c, 1>> /\ Left(c)'
             \/ x = <<c, prints[c] + 1>> /\ prints[c] > 0
  <2>1. CASE x \in FurtherCopies'
    <3>p. PICK d \in Clients : \E k \in 2 .. prints'[d] : x = <<d, k>>
      BY <2>1 DEF FurtherCopies
    <3>1. PICK k \in 2 .. prints'[d] : x = <<d, k>>
      BY <3>p
    <3>2. CASE d # c
      BY <1>3, <3>1, <3>2, OwedElements DEF Owed
    <3>3. CASE d = c
      <4>1. k \in 2 .. prints[c] \/ (k = prints[c] + 1 /\ prints[c] > 0)
        BY <1>1, <1>3, <3>1, <3>3
      <4>2. CASE k \in 2 .. prints[c]
        BY <1>1, <3>1, <3>3, <4>2, OwedElements DEF Owed
      <4> QED BY <3>1, <3>3, <4>1, <4>2
    <3> QED BY <3>2, <3>3
  <2>2. CASE x \notin FurtherCopies'
    <3>1. PICK d \in Clients : x = <<d, 1>> /\ prints'[d] > 0 /\ Left(d)'
      BY <2>2 DEF Owed
    <3>2. CASE d # c
      BY <1>3, <3>1, <3>2 DEF Owed
    <3> QED BY <3>1, <3>2
  <2> QED BY <2>1, <2>2
<1> QED BY <1>1, <1>3, <1>4, <1>5

\* Client threads: a document that was printed is not created again.
LEMMA OwedThread ==
    ASSUME TypeInv, Owners, NEW c \in Clients, Command(c) \/ Thread(c)
    PROVE  Owed' \subseteq Owed
<1> USE DEF TypeInv, TypeOK
<1>1. /\ UNCHANGED <<prints, paper, job>>
      /\ ppc' = ppc \/ (ppc = "wait" /\ ppc' = "pick")
  BY DEF Command, Thread, Connect, Send, HeaderTimeout, NewJob, CreateData, Receive,
         ReceiveEnd, CreateReq, WriteReq, Accept, AddJob, SignalJob, SignalJobwait
<1>2. \A d \in Clients : prints[d] > 0 => jobid'[d] = jobid[d]
  <2>1. CASE NewJob(c)
    <3>1. prints[c] = 0
      BY <2>1 DEF NewJob, Owners, PrintedLater
    <3> QED BY <2>1, <3>1 DEF NewJob
  <2>2. CASE ~NewJob(c)
    BY <2>2
    DEF Command, Thread, Connect, Send, HeaderTimeout, CreateData, Receive,
        ReceiveEnd, CreateReq, WriteReq, Accept, AddJob, SignalJob
  <2> QED BY <2>1, <2>2
<1>3. ASSUME NEW d \in Clients, NEW i \in JobIds, prints[d] > 0,
             data'[i] # NoFile, data'[i].doc = d
      PROVE  data[i] # NoFile /\ data[i].doc = d
  <2>1. CASE CreateData(c)
    <3>1. c # d
      BY <1>3, <2>1 DEF CreateData, Owners, PrintedLater
    <3>2. data' = data \/ data' = [data EXCEPT ![jobid[c]] = [doc |-> c, n |-> 0]]
      BY <2>1 DEF CreateData
    <3>3. CASE data' # data
      <4>1. i # jobid[c]
        BY <1>3, <3>1, <3>2, <3>3
      <4> QED BY <1>3, <3>2, <3>3, <4>1
    <3> QED BY <1>3, <3>3
  <2>2. CASE Receive(c)
    <3>1. \/ data'[i] = data[i]
          \/ data[i] # NoFile /\ data[i].doc = c /\ i = jobid[c]
             /\ data' = [data EXCEPT ![i].n = stored[c] + 1]
      BY <1>3, <2>2 DEF Receive
    <3>2. CASE data'[i] # data[i]
      <4>1. data[i] \in Files /\ data'[i] = [data[i] EXCEPT !.n = stored[c] + 1]
        BY <3>1, <3>2
      <4> QED BY <1>3, <3>1, <3>2, <4>1 DEF Files
    <3> QED BY <1>3, <3>2
  <2>3. CASE ~CreateData(c) /\ ~Receive(c)
    BY <1>3, <2>3
    DEF Command, Thread, Connect, Send, HeaderTimeout, NewJob, ReceiveEnd, CreateReq,
        WriteReq, Accept, AddJob, SignalJob
  <2> QED BY <2>1, <2>2, <2>3
<1>4. \A d \in Clients : prints[d] > 0 /\ Left(d)' => Left(d)
  BY <1>1, <1>2, <1>3 DEF Left, Open
<1> QED BY <1>1, <1>4, OwedStays

\* The printer thread, but for the answer of the printer: it opens what is on
\* disk, and removes what was printed.
LEMMA OwedPrinter ==
    ASSUME TypeInv, Owners, Printer, ~Printed
    PROVE  Owed' \subseteq Owed
<1> USE DEF TypeInv, TypeOK
<1>1. UNCHANGED <<prints, jobid>>
  BY DEF Printer, PickJob, SaveJobno, CheckConf, Reload, OpenData, SendFile, UnlinkData,
         UnlinkReq, Defer
<1>2. ASSUME NEW d \in Clients, Left(d)' PROVE Left(d)
  <2>1. CASE PickJob \/ SaveJobno \/ CheckConf \/ Reload \/ UnlinkReq \/ Defer
    <3>1. ~Open' /\ data' = data /\ ppc # "unlink_data"
      BY <2>1 DEF PickJob, SaveJobno, CheckConf, Reload, UnlinkReq, Defer, Open
    <3> QED BY <1>1, <1>2, <3>1 DEF Left
  <2>2. CASE OpenData \/ SendFile
    <3>1. /\ data' = data /\ ppc # "unlink_data"
          /\ job \in Jobs /\ job.id \in JobIds
      BY <2>2 DEF OpenData, SendFile, InHand, Jobs
    <3>2. Open' => \/ paper' = data[job.id] /\ data[job.id] # NoFile
                   \/ paper' = paper /\ Open
      BY <2>2, <3>1 DEF OpenData, SendFile, Open
    <3>3. CASE Open' /\ paper'.doc = d
      BY <3>1, <3>2, <3>3 DEF Left, Owners, DataOwner
    <3> QED BY <1>1, <1>2, <3>1, <3>3 DEF Left
  <2>3. CASE UnlinkData
    <3>1. ~Open' /\ data' = [data EXCEPT ![job.id] = NoFile]
      BY <2>3 DEF UnlinkData, Open
    <3> QED BY <1>1, <1>2, <3>1 DEF Left
  <2> QED BY <2>1, <2>2, <2>3 DEF Printer
<1> QED BY <1>1, <1>2, OwedStays

\* The start of the daemon, and signals: documents are at most removed.
LEMMA OwedMain ==
    ASSUME TypeInv, Main \/ EditConf \/ HandleHup \/ UNCHANGED vars
    PROVE  Owed' \subseteq Owed
<1>1. /\ UNCHANGED <<prints, jobid, paper, job>>
      /\ ppc' = ppc \/ (ppc = "wait" /\ ppc' = "pick")
  BY DEF Main, Start, BuildJob, BuildRemove, BuildSkip, BuildSignal, BuildDone, EditConf, HandleHup, SignalJobwait
<1>2. \A i \in JobIds : data'[i] # NoFile => data'[i] = data[i]
  BY DEF Main, Start, BuildJob, BuildRemove, BuildSkip, BuildSignal, BuildDone, EditConf, HandleHup,
         TypeInv, TypeOK
<1>3. \A d \in Clients : prints[d] > 0 /\ Left(d)' => Left(d)
  BY <1>1, <1>2 DEF Left, Open
<1> QED BY <1>1, <1>3, OwedStays

\* What is printed and found to be printed is about to be removed.
LEMMA PrintedPays ==
    ASSUME TypeInv, TypeInv', Owners, Accounted, Printed
    PROVE  Accounted'
<1>1. PICK c : c = paper.doc
  OBVIOUS
<1>2. Open /\ Printout /\ ppc' = "unlink_data" /\ UNCHANGED <<paper, job, jobid, data, bounds>>
  BY DEF Printed, Open
<1>3. \A d \in Clients \ {c} : Left(d)' => Left(d)
  BY <1>2 DEF Left, Open
<1>4. jobid[c] = job.id
  BY <1>1, <1>2 DEF Owners, PaperOwner
<1>5. ~Left(c)'
  BY <1>2, <1>4 DEF Left, Open
<1>6. /\ prints[c] > 0 => <<c, 1>> \in Owed
      /\ \A x \in Owed' : \/ x \in Owed /\ x # <<c, 1>>
                          \/ x = <<c, prints[c] + 1>> /\ prints[c] > 0
  BY <1>1, <1>2, <1>3, <1>5, PrintoutOwes
<1>7. CASE prints[c] > 0
  BY <1>2, <1>6, <1>7, AccountedMoved
<1>8. CASE ~(prints[c] > 0)
  <2>1. Owed' \subseteq Owed
    BY <1>6, <1>8
  <2> QED BY <1>2, <2>1, AccountedStays, Budget
<1> QED BY <1>7, <1>8

\* An answer that is lost pays for one more copy: of a document that came out
\* before, or later.
LEMMA FailurePays ==
    ASSUME TypeInv, TypeInv', Owners, Accounted, PrinterFail
    PROVE  Accounted'
<1>1. /\ ppc' \in {"defer", "hung"} /\ UNCHANGED <<paper, job, jobid, data>>
      /\ faults' = faults + 1 /\ crashes' = crashes
      /\ ppc # "unlink_data"
  BY DEF PrinterFail, Fault
<1>2. \A d \in Clients : Left(d)' => Left(d)
  BY <1>1 DEF Left, Open
<1>3. CASE prints' = prints
  <2>1. Owed' \subseteq Owed
    BY <1>2, <1>3, OwedStays
  <2> QED BY <1>1, <2>1, AccountedPaid
<1>4. CASE ppc = "status" /\ Printout
  <2>1. PICK c : c = paper.doc
    OBVIOUS
  <2>2. /\ c \in Clients
        /\ prints[c] > 0 => <<c, 1>> \in Owed
        /\ \A x \in Owed' : \/ x \in Owed
                            \/ x = <<c, 1>>
                            \/ x = <<c, prints[c] + 1>> /\ prints[c] > 0
    BY <1>2, <1>4, <2>1, PrintoutOwes DEF Open
  <2>3. \E y : Owed' \subseteq Owed \cup {y}
    <3>1. CASE prints[c] > 0
      <4>1. Owed' \subseteq Owed \cup {<<c, prints[c] + 1>>}
        BY <2>2, <3>1
      <4> QED BY <4>1
    <3>2. CASE ~(prints[c] > 0)
      <4>1. Owed' \subseteq Owed \cup {<<c, 1>>}
        BY <2>2, <3>2
      <4> QED BY <4>1
    <3> QED BY <3>1, <3>2
  <2> QED BY <1>1, <2>3, AccountedPaid
<1> QED BY <1>3, <1>4 DEF PrinterFail

\* A daemon that ends between the answer and the unlink leaves one document.
LEMMA CrashPays ==
    ASSUME TypeInv, TypeInv', Owners, Accounted, Crash
    PROVE  Accounted'
<1>1. /\ ppc' = "pick" /\ UNCHANGED <<prints, jobid, data>>
      /\ crashes' = crashes + 1 /\ faults' = faults
  BY DEF Crash
<1>2. PICK c : c = data[job.id].doc
  OBVIOUS
<1>3. \A d \in Clients : prints[d] > 0 /\ Left(d)' => Left(d) \/ d = c
  BY <1>1, <1>2 DEF Left, Open
<1>4. Owed' \subseteq Owed \cup {<<c, 1>>}
  BY <1>1, <1>3, OwedOneMore
<1> QED BY <1>1, <1>4, AccountedPaid

LEMMA AccountedStep ==
    TypeInv /\ TypeInv' /\ Owners /\ Accounted /\ [Next]_vars => Accounted'
<1> SUFFICES ASSUME TypeInv, TypeInv', Owners, Accounted, [Next]_vars
             PROVE  Accounted'
  OBVIOUS
<1>1. ASSUME NEW c \in Clients, Command(c) \/ Thread(c) PROVE Accounted'
  <2>1. faults <= faults' /\ crashes <= crashes'
    BY <1>1, Budget
    DEF Command, Thread, Connect, Send, HeaderTimeout, NewJob, CreateData, Receive,
        ReceiveEnd, CreateReq, WriteReq, Accept, AddJob, SignalJob, Fault
  <2> QED BY <1>1, <2>1, OwedThread, AccountedStays
<1>2. CASE Printer /\ ~Printed
  <2>1. faults <= faults' /\ crashes <= crashes'
    BY <1>2, Budget
    DEF Printer, PickJob, SaveJobno, CheckConf, Reload, OpenData, SendFile, UnlinkData,
        UnlinkReq, Defer, Fault
  <2> QED BY <1>2, <2>1, OwedPrinter, AccountedStays
<1>3. CASE Main \/ EditConf \/ HandleHup \/ UNCHANGED vars
  <2>1. UNCHANGED bounds \/ Fault
    BY <1>3
    DEF Main, Start, BuildJob, BuildRemove, BuildSkip, BuildSignal, BuildDone,
        EditConf, HandleHup
  <2>2. faults <= faults' /\ crashes <= crashes'
    BY <2>1, Budget DEF Fault
  <2> QED BY <1>3, <2>2, OwedMain, AccountedStays
<1> QED BY <1>1, <1>2, <1>3, PrintedPays, FailurePays, CrashPays DEF Next

LEMMA PrintInvInit == Init => PrintInv
<1> SUFFICES ASSUME Init PROVE PrintInv
  OBVIOUS
<1>1. \A c \in Clients : prints[c] = 0
  BY DEF Init
<1>2. Owed = {}
  BY <1>1 DEF Owed, FurtherCopies
<1>3. Accounted
  BY <1>2, FS_EmptySet DEF Accounted, Init
<1>4. Owners
  BY DEF Init, Owners, DataOwner, PaperOwner, PrintedLater, Open
<1> QED BY <1>3, <1>4 DEF PrintInv, Owners

LEMMA PrintInvStep == TypeInv /\ PrintInv /\ [Next]_vars => PrintInv'
  BY TypeStep, OwnersStep, AccountedStep DEF PrintInv, Owners

LEMMA PrintInvAlways == Spec => [](TypeInv /\ PrintInv)
  BY TypeInit, TypeStep, PrintInvInit, PrintInvStep, PTL DEF Spec

\* A document comes out of the printer once, but for one further copy for each
\* answer that is lost and each daemon that ends before the unlink of the
\* document (printd.c:825-831), even if jobs share their ID.
THEOREM PrintedOnceAlways == Spec => []PrintedOnce
<1>1. TypeInv /\ PrintInv => PrintedOnce
  <2> SUFFICES ASSUME TypeInv, PrintInv PROVE PrintedOnce
    OBVIOUS
  <2>1. FurtherCopies \subseteq Owed /\ IsFiniteSet(Owed)
    BY DEF Owed, PrintInv, Accounted
  <2>2. IsFiniteSet(FurtherCopies) /\ Cardinality(FurtherCopies) <= Cardinality(Owed)
    BY <2>1, FS_Subset
  <2>3. Cardinality(FurtherCopies) \in Nat /\ Cardinality(Owed) \in Nat
    BY <2>1, <2>2, FS_CardinalityType
  <2> QED BY <2>2, <2>3, Budget DEF PrintedOnce, PrintInv, Accounted
<1> QED BY <1>1, PrintInvAlways, PTL
================================================================================
