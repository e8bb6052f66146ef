--------------------------------- MODULE Spool ---------------------------------
(***************************************************************************)
(* The print spooler apue.3e/printer: the command print (print.c), the      *)
(* daemon printd (printd.c) and its spool directory.                        *)
(*                                                                         *)
(* A print command sends a request header and a document to the daemon.  A  *)
(* client thread of the daemon stores the document under data/<job ID> and  *)
(* the request under reqs/<job ID>, answers the command and puts the job in *)
(* the queue.  The printer thread takes jobs from the head of the queue,    *)
(* sends them to the printer and removes the two files.  The daemon may die *)
(* at any time (SIGTERM ends it the same way); the next one reads reqs/.    *)
(*                                                                         *)
(* An action is one access to what the threads share, or to the disk.  What *)
(* one mutex region does is one action.  A command is named by the document *)
(* it sends, and stands for the fields of its request; a document is a      *)
(* number of blocks, the pieces in which it is read from the connection.    *)
(***************************************************************************)
EXTENDS Naturals, Sequences

CONSTANTS
    Clients,        \* the print commands, each with its document
    Blocks,         \* the length of a document
    MaxJob,         \* the largest job ID: INT32_MAX
    Digits,         \* Digits[i]: how many characters job ID i is written with
    MaxCrash,       \* how often the daemon ends
    MaxFault,       \* how often a system call or the printer fails
    MaxConf,        \* how often the configuration is edited
    NoFile,         \* what is under a name that does not exist
    Empty,          \* a request file that is created but not written
    NoJob           \* the printer thread has no job in hand

ASSUME SpoolAssumption ==
    /\ Blocks \in Nat
    /\ MaxJob \in Nat \ {0}
    /\ Digits \in [0..MaxJob -> Nat \ {0}]
    /\ {MaxCrash, MaxFault, MaxConf} \subseteq Nat
    /\ NoFile # Empty /\ {NoFile, Empty} \cap Clients = {}

\* 0 stands for the numbers that are not positive.
JobIds == 0..MaxJob
Files == [doc : Clients, n : 0..Blocks]
Jobs == [id : JobIds, doc : Clients]
ASSUME NoJobAssumption == NoJob \notin Jobs /\ NoFile \notin Files

VARIABLES
    \* the disk
    data,       \* data[i]: the document in data/i
    reqs,       \* reqs[i]: the request in reqs/i
    jobno,      \* the job ID file: its length, and the job number it is read
                \* as, which is 1 as long as it is empty
    \* the daemon
    up,         \* its main thread: "down", "build", "bsignal" or "up"
    todo,       \* directory entries build_qonstart has not read yet
    nextjob,
    queue,      \* the list from jobhead to jobtail
    tpc,        \* tpc[c]: the thread that serves command c
    jobid,      \* jobid[c]: the job ID that thread has
    stored,     \* stored[c]: how many blocks it has written
    ppc,        \* the printer thread, "hung" in printer_status for ever
    job,        \* jp, the job it has in hand
    paper,      \* the document it has opened and sends
    \* the configuration
    conf,       \* the version of /etc/printer.conf
    loaded,     \* the version printer and printer_name are from
    hup,        \* SIGHUP is pending
    reread,
    \* the commands, and the printer
    sent,       \* sent[c]: how many blocks it has sent
    reply,      \* reply[c]: the daemon's response to it
    prints,     \* prints[c]: how often the document came out of the printer
    \* bookkeeping
    clash,      \* job IDs that were given to a second job while a first one
                \* had them: stored, or being stored
    removed,    \* whose job a daemon removed since it could not read it
    skipped,    \* whose job this daemon has not got in its list, or not any
                \* more, since it could not open it: its files stay
    crashes,
    faults

disk == <<data, reqs, jobno>>
main == <<up, todo>>
threads == <<tpc, jobid, stored>>
printer == <<ppc, job, paper>>
config == <<conf, loaded, hup, reread>>
outside == <<sent, reply, prints>>
history == <<clash, removed, skipped>>
bounds == <<crashes, faults>>
vars == <<disk, main, nextjob, queue, threads, printer, config, outside,
          history, bounds>>

NoPaper == NoFile

Init ==
    /\ data = [i \in JobIds |-> NoFile]
    /\ reqs = [i \in JobIds |-> NoFile]
    /\ jobno = [n |-> 1, len |-> 0]
    /\ up = "down"
    /\ todo = {}
    /\ nextjob = 1
    /\ queue = <<>>
    /\ tpc = [c \in Clients |-> "none"]
    /\ jobid = [c \in Clients |-> 0]
    /\ stored = [c \in Clients |-> 0]
    /\ ppc = "pick"
    /\ job = NoJob
    /\ paper = NoPaper
    /\ conf = 0
    /\ loaded = 0
    /\ hup = FALSE
    /\ reread = FALSE
    /\ sent = [c \in Clients |-> 0]
    /\ reply = [c \in Clients |-> "none"]
    /\ prints = [c \in Clients |-> 0]
    /\ clash = {}
    /\ removed = {}
    /\ skipped = {}
    /\ crashes = 0
    /\ faults = 0

Fault == faults < MaxFault /\ faults' = faults + 1 /\ UNCHANGED crashes
ThreadGoto(c, label) == tpc' = [tpc EXCEPT ![c] = label]
PrinterGoto(label) == ppc' = label

\* pthread_cond_signal(&jobwait)
SignalJobwait == ppc' = IF ppc = "wait" THEN "pick" ELSE ppc

(***************************************************************************)
(* The print command.  It ends when it has read the response, or when its   *)
(* connection is closed, and shares nothing else with the daemon.           *)
(***************************************************************************)
\* Connect to the daemon, whose main thread accepts and starts a thread.
Connect(c) ==
    /\ tpc[c] = "none"
    /\ up = "up"
    /\ ThreadGoto(c, "header")
    /\ UNCHANGED <<disk, main, nextjob, queue, jobid, stored, printer, config,
                   outside, history, bounds>>

Send(c) ==
    /\ tpc[c] \notin {"none", "gone"}
    /\ sent[c] < Blocks
    /\ sent' = [sent EXCEPT ![c] = @ + 1]
    /\ UNCHANGED <<disk, main, nextjob, queue, threads, printer, config,
                   reply, prints, history, bounds>>

(***************************************************************************)
(* client_thread.                                                           *)
(***************************************************************************)
\* Answer with an error code and end the thread.
Reject(c) ==
    /\ reply' = [reply EXCEPT ![c] = "rejected"]
    /\ ThreadGoto(c, "gone")

\* The header does not come within 10 seconds.
HeaderTimeout(c) ==
    /\ tpc[c] = "header"
    /\ Reject(c)
    /\ UNCHANGED <<disk, main, nextjob, queue, jobid, stored, printer, config,
                   sent, prints, history, bounds>>

\* A job has ID i: its request is on disk, or its thread is storing it.
Filing == {"creat", "recv", "reqcreat", "reqwrite"}
InUse(i) ==
    \/ reqs[i] \in Clients
    \/ \E d \in Clients : tpc[d] \in Filing /\ jobid[d] = i

\* Mutants: the counter is read and not advanced; it does not wrap around.
NewJobSame(c) ==
    /\ tpc[c] = "header"
    /\ jobid' = [jobid EXCEPT ![c] = nextjob]
    /\ ThreadGoto(c, "creat")
    /\ UNCHANGED <<disk, main, nextjob, queue, stored, printer, config, outside,
                   history, bounds>>

NewJobNoWrap(c) ==
    /\ tpc[c] = "header"
    /\ jobid' = [jobid EXCEPT ![c] = nextjob]
    /\ nextjob' = nextjob + 1
    /\ ThreadGoto(c, "creat")
    /\ UNCHANGED <<disk, main, queue, stored, printer, config, outside, history,
                   bounds>>

\* The header is there: get_newjobno.
NewJob(c) ==
    /\ tpc[c] = "header"
    /\ jobid' = [jobid EXCEPT ![c] = nextjob]
    /\ nextjob' = IF nextjob = MaxJob THEN 1 ELSE nextjob + 1
    /\ clash' = IF InUse(nextjob) THEN clash \cup {nextjob} ELSE clash
    /\ ThreadGoto(c, "creat")
    /\ UNCHANGED <<disk, main, queue, stored, printer, config, outside, removed,
                   skipped, bounds>>

CreateData(c) ==
    /\ tpc[c] = "creat"
    /\ \/ /\ data' = [data EXCEPT ![jobid[c]] = [doc |-> c, n |-> 0]]
          /\ ThreadGoto(c, "recv")
          /\ UNCHANGED <<reply, bounds>>
       \/ Fault /\ Reject(c) /\ UNCHANGED data
    /\ UNCHANGED <<reqs, jobno, main, nextjob, queue, jobid, stored, printer,
                   config, sent, prints, history>>

\* Write what has come; the file may have lost its name meanwhile.  If the
\* write fails the file is removed.
Receive(c) ==
    /\ tpc[c] = "recv"
    /\ stored[c] < sent[c]
    /\ LET i == jobid[c]
           mine == data[i] # NoFile /\ data[i].doc = c
       IN \/ /\ stored' = [stored EXCEPT ![c] = @ + 1]
             /\ data' = IF mine THEN [data EXCEPT ![i].n = stored[c] + 1] ELSE data
             /\ UNCHANGED <<tpc, reply, bounds>>
          \/ /\ Fault
             /\ Reject(c)
             /\ data' = [data EXCEPT ![i] = NoFile]
             /\ UNCHANGED stored
    /\ UNCHANGED <<reqs, jobno, main, nextjob, queue, jobid, printer, config,
                   sent, prints, history>>

\* Nothing more comes for 20 seconds, or the command has ended: taken for the
\* end of the document.
ReceiveEnd(c) ==
    /\ tpc[c] = "recv"
    /\ stored[c] = sent[c]
    /\ ThreadGoto(c, "reqcreat")
    /\ UNCHANGED <<disk, main, nextjob, queue, jobid, stored, printer, config,
                   outside, history, bounds>>

CreateReq(c) ==
    /\ tpc[c] = "reqcreat"
    /\ \/ /\ reqs' = [reqs EXCEPT ![jobid[c]] = Empty]
          /\ ThreadGoto(c, "reqwrite")
          /\ UNCHANGED <<data, reply, bounds>>
       \/ /\ Fault
          /\ Reject(c)
          /\ data' = [data EXCEPT ![jobid[c]] = NoFile]
          /\ UNCHANGED reqs
    /\ UNCHANGED <<jobno, main, nextjob, queue, jobid, stored, printer, config,
                   sent, prints, history>>

WriteReq(c) ==
    /\ tpc[c] = "reqwrite"
    /\ LET i == jobid[c]
       IN \/ /\ reqs' = IF reqs[i] = Empty THEN [reqs EXCEPT ![i] = c] ELSE reqs
             /\ ThreadGoto(c, "reply")
             /\ UNCHANGED <<data, reply, bounds>>
          \/ /\ Fault
             /\ Reject(c)
             /\ reqs' = [reqs EXCEPT ![i] = NoFile]
             /\ data' = [data EXCEPT ![i] = NoFile]
    /\ UNCHANGED <<jobno, main, nextjob, queue, jobid, stored, printer, config,
                   sent, prints, history>>

Accept(c) ==
    /\ tpc[c] = "reply"
    /\ reply' = [reply EXCEPT ![c] = "accepted"]
    /\ ThreadGoto(c, "add")
    /\ UNCHANGED <<disk, main, nextjob, queue, jobid, stored, printer, config,
                   sent, prints, history, bounds>>

\* add_job: append under joblock, then signal the printer thread.
AddJob(c) ==
    /\ tpc[c] = "add"
    /\ queue' = Append(queue, [id |-> jobid[c], doc |-> c])
    /\ ThreadGoto(c, "signal")
    /\ UNCHANGED <<disk, main, nextjob, jobid, stored, printer, config, outside,
                   history, bounds>>

\* Mutant: nobody is woken.
SignalNobody(c) ==
    /\ tpc[c] = "signal"
    /\ ThreadGoto(c, "gone")
    /\ UNCHANGED <<disk, main, nextjob, queue, jobid, stored, printer, config,
                   outside, history, bounds>>

SignalJob(c) ==
    /\ tpc[c] = "signal"
    /\ SignalJobwait
    /\ ThreadGoto(c, "gone")
    /\ UNCHANGED <<disk, main, nextjob, queue, jobid, stored, job, paper, config,
                   outside, history, bounds>>

(***************************************************************************)
(* The start of the daemon: main, init_request, init_printer and            *)
(* build_qonstart, with the printer thread already running.                 *)
(***************************************************************************)
Start ==
    /\ up = "down"
    /\ up' = "build"
    /\ todo' = {i \in JobIds : reqs[i] # NoFile}
    /\ nextjob' = jobno.n
    /\ loaded' = conf
    /\ skipped' = {}
    /\ UNCHANGED <<disk, queue, threads, printer, conf, hup, reread, outside,
                   clash, removed, bounds>>

\* One directory entry, in any order.  A whole request becomes a job.
BuildJob ==
    /\ up = "build"
    /\ \E i \in todo :
          /\ reqs[i] \in Clients
          /\ todo' = todo \ {i}
          /\ queue' = Append(queue, [id |-> i, doc |-> reqs[i]])
    /\ up' = "bsignal"
    /\ UNCHANGED <<disk, nextjob, threads, printer, config, outside, history,
                   bounds>>

\* A request that was not written, or whose read fails, is removed with its
\* document.
BuildRemove ==
    /\ up = "build"
    /\ \E i \in todo :
          /\ (reqs[i] = Empty /\ UNCHANGED bounds) \/ Fault
          /\ todo' = todo \ {i}
          /\ reqs' = [reqs EXCEPT ![i] = NoFile]
          /\ data' = [data EXCEPT ![i] = NoFile]
          /\ removed' = removed \cup ({reqs[i]} \cap Clients)
    /\ UNCHANGED <<jobno, up, nextjob, queue, threads, printer, config, outside,
                   clash, skipped>>

\* A request that cannot be opened is passed over, and so are all those that
\* are left when the directory cannot be opened or read on.
BuildSkip ==
    /\ up = "build"
    /\ \E ids \in {{i} : i \in todo} \cup {todo} :
          /\ ids # {}
          /\ Fault
          /\ todo' = todo \ ids
          /\ skipped' = skipped \cup ({reqs[i] : i \in ids} \cap Clients)
    /\ UNCHANGED <<disk, up, nextjob, queue, threads, printer, config, outside,
                   clash, removed>>

BuildSignal ==
    /\ up = "bsignal"
    /\ up' = "build"
    /\ SignalJobwait
    /\ UNCHANGED <<disk, todo, nextjob, queue, threads, job, paper, config,
                   outside, history, bounds>>

BuildDone ==
    /\ up = "build"
    /\ todo = {}
    /\ up' = "up"
    /\ UNCHANGED <<disk, todo, nextjob, queue, threads, printer, config, outside,
                   history, bounds>>

(***************************************************************************)
(* printer_thread.                                                          *)
(***************************************************************************)
Running == up # "down"

\* Wait for a job and remove it from the head of the list (remove_job).
PickJob ==
    /\ Running
    /\ ppc = "pick"
    /\ \/ queue = <<>> /\ PrinterGoto("wait") /\ UNCHANGED <<queue, job>>
       \/ /\ queue # <<>>
          /\ job' = Head(queue)
          /\ queue' = Tail(queue)
          /\ PrinterGoto("save")
    /\ UNCHANGED <<disk, main, nextjob, threads, paper, config, outside, history,
                   bounds>>

\* update_jobno: the number is written over what the file has, and the file not
\* made shorter.  A longer number leaves its last digits behind a shorter one:
\* together any number, which need not even fit into an int32_t.
SaveJobno ==
    /\ ppc = "save"
    /\ IF Digits[nextjob] >= jobno.len
       THEN jobno' = [n |-> nextjob, len |-> Digits[nextjob]]
       ELSE \E i \in JobIds : jobno' = [jobno EXCEPT !.n = i]
    /\ PrinterGoto("conf")
    /\ UNCHANGED <<data, reqs, main, nextjob, queue, threads, job, paper, config,
                   outside, history, bounds>>

\* Mutant: the flag is cleared without a look at the file.
CheckConfDrop ==
    /\ ppc = "conf"
    /\ reread' = FALSE
    /\ PrinterGoto("open")
    /\ UNCHANGED <<disk, main, nextjob, queue, threads, job, paper, conf, loaded,
                   hup, outside, history, bounds>>

CheckConf ==
    /\ ppc = "conf"
    /\ PrinterGoto(IF reread THEN "reload" ELSE "open")
    /\ reread' = FALSE
    /\ UNCHANGED <<disk, main, nextjob, queue, threads, job, paper, conf, loaded,
                   hup, outside, history, bounds>>

\* init_printer; without a printer in the file the daemon exits (Crash).
Reload ==
    /\ ppc = "reload"
    /\ loaded' = conf
    /\ PrinterGoto("open")
    /\ UNCHANGED <<disk, main, nextjob, queue, threads, job, paper, conf, hup,
                   reread, outside, history, bounds>>

\* Open the document.  When it is not there, or when open or fstat fails, the
\* job is canceled, in that its memory is freed.
OpenData ==
    /\ ppc = "open"
    /\ \/ /\ data[job.id] # NoFile
          /\ paper' = data[job.id]
          /\ PrinterGoto("send")
          /\ UNCHANGED <<job, skipped, bounds>>
       \/ /\ \/ data[job.id] = NoFile /\ UNCHANGED <<skipped, bounds>>
             \/ Fault /\ skipped' = skipped \cup {job.doc}
          /\ paper' = NoPaper
          /\ PrinterGoto("pick")
          /\ job' = NoJob
    /\ UNCHANGED <<disk, main, nextjob, queue, threads, config, outside, clash,
                   removed>>

\* Connect and send the headers and the file; a file whose name is gone is
\* read to its end all the same.
SendFile ==
    /\ ppc = "send"
    /\ paper' = IF data[job.id] = NoFile THEN paper ELSE data[job.id]
    /\ PrinterGoto("status")
    /\ UNCHANGED <<disk, main, nextjob, queue, threads, job, config, outside,
                   history, bounds>>

Printout == prints' = [prints EXCEPT ![paper.doc] = @ + 1]

\* Mutant: a good answer is taken for a bad one.
PrintedDefer ==
    /\ ppc = "status"
    /\ Printout
    /\ PrinterGoto("defer")
    /\ UNCHANGED <<disk, main, nextjob, queue, threads, job, paper, config,
                   sent, reply, history, bounds>>

\* The printer prints, and printer_status finds that it did.
Printed ==
    /\ ppc = "status"
    /\ Printout
    /\ PrinterGoto("unlink_data")
    /\ UNCHANGED <<disk, main, nextjob, queue, threads, job, paper, config,
                   sent, reply, history, bounds>>

\* Mutant: the answer of the printer is not looked at.
PrinterFailUnlink ==
    /\ ppc \in {"send", "status"}
    /\ Fault
    /\ UNCHANGED prints
    /\ PrinterGoto("unlink_data")
    /\ UNCHANGED <<disk, main, nextjob, queue, threads, job, paper, config,
                   sent, reply, history>>

\* The printer cannot be reached, or gives an error, or its answer is lost or
\* late; in the latter case it may have printed.  Over an answer that comes in
\* pieces printer_status may go round for ever.
PrinterFail ==
    /\ ppc \in {"send", "status"}
    /\ Fault
    /\ UNCHANGED prints \/ (ppc = "status" /\ Printout)
    /\ PrinterGoto("defer") \/ (ppc = "status" /\ PrinterGoto("hung"))
    /\ UNCHANGED <<disk, main, nextjob, queue, threads, job, paper, config,
                   sent, reply, history>>

UnlinkData ==
    /\ ppc = "unlink_data"
    /\ data' = [data EXCEPT ![job.id] = NoFile]
    /\ PrinterGoto("unlink_req")
    /\ UNCHANGED <<reqs, jobno, main, nextjob, queue, threads, job, paper, config,
                   outside, history, bounds>>

UnlinkReq ==
    /\ ppc = "unlink_req"
    /\ reqs' = [reqs EXCEPT ![job.id] = NoFile]
    /\ job' = NoJob
    /\ paper' = NoPaper
    /\ PrinterGoto("pick")
    /\ UNCHANGED <<data, jobno, main, nextjob, queue, threads, config, outside,
                   history, bounds>>

\* Mutant: the job goes to the end of the list.
DeferLast ==
    /\ ppc = "defer"
    /\ queue' = Append(queue, job)
    /\ job' = NoJob
    /\ paper' = NoPaper
    /\ PrinterGoto("pick")
    /\ UNCHANGED <<disk, main, nextjob, threads, config, outside, history, bounds>>

\* replace_job: back to the head of the list, then sleep for a minute.
Defer ==
    /\ ppc = "defer"
    /\ queue' = <<job>> \o queue
    /\ job' = NoJob
    /\ paper' = NoPaper
    /\ PrinterGoto("pick")
    /\ UNCHANGED <<disk, main, nextjob, threads, config, outside, history, bounds>>

(***************************************************************************)
(* Signals, and the end of the daemon.                                      *)
(***************************************************************************)
\* The administrator edits the configuration and sends SIGHUP.
EditConf ==
    /\ conf < MaxConf
    /\ conf' = conf + 1
    /\ hup' = Running
    /\ UNCHANGED <<disk, main, nextjob, queue, threads, printer, loaded, reread,
                   outside, history, bounds>>

\* signal_thread
HandleHup ==
    /\ hup
    /\ hup' = FALSE
    /\ reread' = TRUE
    /\ UNCHANGED <<disk, main, nextjob, queue, threads, printer, conf, loaded,
                   outside, history, bounds>>

\* SIGTERM, exit in init_printer or log_sys, or a crash: only the disk is left.
Crash ==
    /\ Running
    /\ crashes < MaxCrash
    /\ crashes' = crashes + 1
    /\ up' = "down"
    /\ todo' = {}
    /\ nextjob' = 1
    /\ queue' = <<>>
    /\ tpc' = [c \in Clients |-> IF tpc[c] = "none" THEN "none" ELSE "gone"]
    /\ PrinterGoto("pick")
    /\ job' = NoJob
    /\ paper' = NoPaper
    /\ hup' = FALSE
    /\ reread' = FALSE
    /\ UNCHANGED <<disk, jobid, stored, conf, loaded, outside, history, faults>>

Command(c) == Connect(c) \/ Send(c)
Thread(c) ==
    \/ HeaderTimeout(c) \/ NewJob(c) \/ CreateData(c) \/ Receive(c)
    \/ ReceiveEnd(c) \/ CreateReq(c) \/ WriteReq(c) \/ Accept(c) \/ AddJob(c)
    \/ SignalJob(c)
Main ==
    \/ Start \/ BuildJob \/ BuildRemove \/ BuildSkip \/ BuildSignal \/ BuildDone
Printer ==
    \/ PickJob \/ SaveJobno \/ CheckConf \/ Reload \/ OpenData \/ SendFile
    \/ Printed \/ UnlinkData \/ UnlinkReq \/ Defer

Next ==
    \/ \E c \in Clients : Command(c) \/ Thread(c)
    \/ Main
    \/ Printer \/ PrinterFail
    \/ EditConf \/ HandleHup
    \/ Crash

\* The scheduler runs every thread of a daemon that is up, and a daemon that
\* has ended is started again (by init or the administrator).  Once a document
\* is sent the call for the answer returns, as Printed or PrinterFail, or goes
\* on for ever, as "hung", which only the end of the daemon changes.
Spec ==
    /\ Init
    /\ [][Next]_vars
    /\ WF_vars(Main)
    /\ WF_vars(Printer)
    /\ \A c \in Clients : WF_vars(Thread(c))
================================================================================
