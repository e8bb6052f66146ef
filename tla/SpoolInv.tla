------------------------------- MODULE SpoolInv --------------------------------
(***************************************************************************)
(* Why the print spooler loses no job: an inductive invariant.              *)
(*                                                                         *)
(* Job IDs tie a job's two files, its client thread and its entry in the    *)
(* queue together.  Unless an ID is given twice (clash), a thread that is   *)
(* storing a job, a job in the queue and a request on disk never share one  *)
(* with another job, so nobody creates, writes or removes what is not his.  *)
(***************************************************************************)
EXTENDS SpoolSpec

Pending == IF job = NoJob THEN queue ELSE <<job>> \o queue

\* Everything that came of the document of c is in data/i.
Whole(i, c) == data[i] = [doc |-> c, n |-> stored[c]]

\* A client thread by how far it is: its document and request are not yet
\* stored, are stored, or its job is in the queue, too.
Early == {"none", "header", "creat"}
Stored == {"reply", "add", "signal", "gone"}
Unqueued == Filing \cup {"reply", "add"}

\* A request on disk is that of the job with the ID it is under.
ReqOwner ==
    \A i \in JobIds : reqs[i] \in Clients =>
        jobid[reqs[i]] = i /\ tpc[reqs[i]] \in Stored

\* Its document is there as well, until the job is printed.
ReqWhole ==
    \A i \in JobIds \ clash : reqs[i] \in Clients =>
        \/ Whole(i, reqs[i])
        \/ prints[reqs[i]] > 0 /\ data[i] = NoFile

\* A thread that is storing a job shares its ID neither with a request on disk
\* nor with another such thread.
FilingApart ==
    \A c \in Clients : tpc[c] \in Filing /\ jobid[c] \notin clash =>
        /\ reqs[jobid[c]] \notin Clients
        /\ \A d \in Clients \ {c} : tpc[d] \in Filing => jobid[d] # jobid[c]

\* What it has stored so far is on disk.
FilingWhole ==
    \A c \in Clients :
        /\ tpc[c] \in Early => stored[c] = 0
        /\ tpc[c] \in Early \cup Filing \cup {"reply"} => reply[c] = "none"
        /\ jobid[c] \notin clash =>
              /\ tpc[c] \in Filing \ {"creat"} => Whole(jobid[c], c)
              /\ tpc[c] = "reqwrite" => reqs[jobid[c]] = Empty
              /\ tpc[c] \in {"reply", "add"} => reqs[jobid[c]] = c

\* The client threads live only in a daemon that accepts connections.
NoneWhileDown == up # "up" => \A c \in Clients : tpc[c] \in {"none", "gone"}

\* Without a daemon there is no queue, and requests are read from the disk
\* only while it starts.
EmptyWhileDown ==
    /\ ~Running => queue = <<>> /\ job = NoJob
    /\ up \in {"down", "up"} => todo = {}

\* A job in the queue has its request on disk, an ID of its own, and no thread
\* that still stores it; build_qonstart is yet to read other requests.
QueueApart ==
    \A m \in 1..Len(Pending) : Pending[m].id \notin clash =>
        /\ reqs[Pending[m].id] = Pending[m].doc
        /\ \A n \in 1..Len(Pending) \ {m} : Pending[n].id # Pending[m].id
        /\ \A c \in Clients : tpc[c] \in Unqueued => jobid[c] # Pending[m].id
        /\ Pending[m].id \notin todo

\* What the printer thread knows of the job in hand.
HandWhole ==
    job # NoJob /\ job.id \notin clash =>
        /\ ppc \in {"send", "status"} => paper = [doc |-> job.doc, n |-> stored[job.doc]]
        /\ ppc \in {"unlink_data", "unlink_req"} => prints[job.doc] > 0

\* An accepted job is on disk until it is printed, or removed after a read of
\* its request that failed.
AcceptedStored ==
    \A c \in Clients : reply[c] = "accepted" /\ jobid[c] \notin clash =>
        prints[c] > 0 \/ c \in removed \/ reqs[jobid[c]] = c

SpoolInv ==
    /\ ReqOwner /\ ReqWhole
    /\ FilingApart /\ FilingWhole
    /\ NoneWhileDown /\ EmptyWhileDown
    /\ QueueApart /\ HandWhole
    /\ AcceptedStored

(***************************************************************************)
(* Why a document comes out once: a second inductive invariant, which needs *)
(* nothing of the first.                                                    *)
(*                                                                         *)
(* A document is created once and under one name, and what is printed was   *)
(* read from there.  So it can come out again only as long as that file, or *)
(* the copy the printer thread has open, is left after it was printed; and  *)
(* it is left only by a failure or an end of the daemon.  This holds with   *)
(* every clash of job IDs.                                                  *)
(***************************************************************************)
Open == ppc \in {"send", "status"}

\* A document is stored under the job ID of its thread, which has created it.
DataOwner ==
    \A i \in JobIds : data[i] # NoFile =>
        jobid[data[i].doc] = i /\ tpc[data[i].doc] \notin Early
PaperOwner ==
    Open => jobid[paper.doc] = job.id /\ tpc[paper.doc] \notin Early

\* Nothing is printed before it is created.
PrintedLater == \A c \in Clients : tpc[c] \in Early => prints[c] = 0

\* The document is on disk, and not about to be removed, or open.
Left(c) ==
    \/ Open /\ paper.doc = c
    \/ /\ ~(ppc = "unlink_data" /\ job.id = jobid[c])
       /\ jobid[c] \in JobIds /\ data[jobid[c]] # NoFile /\ data[jobid[c]].doc = c

\* The further copies that came out, and the documents that can come out again.
Owed ==
    FurtherCopies \cup {<<c, 1>> : c \in {d \in Clients : prints[d] > 0 /\ Left(d)}}

Accounted == IsFiniteSet(Owed) /\ Cardinality(Owed) <= faults + crashes

PrintInv == DataOwner /\ PaperOwner /\ PrintedLater /\ Accounted
================================================================================
