------------------------------- MODULE SpoolSpec -------------------------------
(***************************************************************************)
(* What the print spooler is for.                                           *)
(***************************************************************************)
EXTENDS Spool, FiniteSets

TypeOK ==
    /\ data \in [JobIds -> Files \cup {NoFile}]
    /\ reqs \in [JobIds -> Clients \cup {NoFile, Empty}]
    /\ jobno \in [n : JobIds, len : Nat]
    /\ up \in {"down", "build", "bsignal", "up"}
    /\ todo \subseteq JobIds
    /\ nextjob \in JobIds
    /\ queue \in Seq(Jobs)
    /\ tpc \in [Clients -> {"none", "header", "creat", "recv", "reqcreat",
                            "reqwrite", "reply", "add", "signal", "gone"}]
    /\ jobid \in [Clients -> JobIds]
    /\ stored \in [Clients -> 0..Blocks]
    /\ ppc \in {"pick", "wait", "save", "conf", "reload", "open", "send",
                "status", "hung", "unlink_data", "unlink_req", "defer"}
    /\ job \in Jobs \cup {NoJob}
    /\ paper \in Files \cup {NoFile}
    /\ conf \in 0..MaxConf /\ loaded \in 0..MaxConf
    /\ hup \in BOOLEAN /\ reread \in BOOLEAN
    /\ sent \in [Clients -> 0..Blocks]
    /\ reply \in [Clients -> {"none", "accepted", "rejected"}]
    /\ prints \in [Clients -> Nat]
    /\ clash \subseteq JobIds
    /\ removed \subseteq Clients /\ skipped \subseteq Clients
    /\ crashes \in 0..MaxCrash /\ faults \in 0..MaxFault

\* A job that was answered with its job ID (printd.c:511-514) is kept: until it
\* is printed its request and all that was received of its document are in the
\* spool directory, across every end of the daemon.  Two things lose it: its job
\* ID is given to another job, or a daemon that starts fails to read its request
\* and removes both files (printd.c:365-378).
AcceptedKept ==
    \A c \in Clients : reply[c] = "accepted" =>
        LET i == jobid[c]
        IN \/ prints[c] > 0
           \/ i \in clash
           \/ c \in removed
           \/ reqs[i] = c /\ data[i] = [doc |-> c, n |-> stored[c]]

\* What is sent to the printer (printd.c:808-816) is the document of the job in
\* hand, with everything its client thread received of it, although the thread
\* and the printer thread share the file by name only.
PrintsWhole ==
    ppc = "status" /\ job.id \notin clash =>
        /\ paper = [doc |-> job.doc, n |-> stored[job.doc]]
        /\ tpc[job.doc] \notin {"header", "creat", "recv"}

\* A document comes out of the printer once; every further copy is accounted
\* for by an answer that was lost or a daemon that ended before the unlink of
\* the document (printd.c:825-831).
FurtherCopies == UNION {{c} \X (2 .. prints[c]) : c \in Clients}
PrintedOnce == Cardinality(FurtherCopies) <= faults + crashes

\* A new printer is never forgotten: from the SIGHUP on, the daemon is still
\* to handle the signal, to look at reread or to read the file, or it uses the
\* current file (printd.c:617-619 against 701-711).
ReloadNotLost == Running => hup \/ reread \/ ppc = "reload" \/ loaded = conf

\* The list of jobs, with the job in hand in front, is a first-in first-out
\* queue: remove_job, a deferred job put back by replace_job and add_job by
\* several threads keep the order.
PQ == INSTANCE PrintQueue WITH
    pending <- IF job = NoJob THEN queue ELSE <<job>> \o queue
FifoQueue == PQ!Spec

\* A job that was accepted is printed in the end, whichever daemon does it: the
\* printer thread is never left asleep in pthread_cond_wait with a job in the
\* list (printd.c:688-692).  What may keep it from that is its job ID given to
\* another job, or for good: a daemon removed it after a failed read
\* (printd.c:365-378), the last daemon could not open its request or document
\* (printd.c:349-350, 363-364, 717-729), or printer_status goes round for ever
\* (printd.c:968-981).
JobsPrinted ==
    \A c \in Clients :
        reply[c] = "accepted" ~>
            \/ prints[c] > 0
            \/ jobid[c] \in clash
            \/ [](c \in removed \cup skipped \/ ppc = "hung")

\* Violated: the job ID file has the next job number (printd.c:234), so that no
\* daemon gives a job the ID of one that is still in the spool directory.
IdsNotReused == clash = {}
================================================================================
