-------------------------------- MODULE JobQueue --------------------------------
(***************************************************************************)
(* The queue of jobs of apue.3e/threads/rwlock.c: a doubly linked list       *)
(* under a reader-writer lock.  Any thread inserts jobs at the head or       *)
(* appends them at the tail; a thread looks its own job up, with the lock    *)
(* for reading, and takes it out later, with the lock for writing.          *)
(* What one hold of the lock does is one action.                            *)
(***************************************************************************)
EXTENDS Naturals, Sequences, FiniteSets

CONSTANTS
    Threads,
    Jobs,
    NULL

VARIABLES
    q_head, q_tail,
    j_next, j_prev,     \* pointers of each job; a job that is not queued has old ones
    j_id,               \* the thread that handles the job
    jp,                 \* jp[t]: the job t has found, or NULL
    queue               \* history: the jobs in the order of the calls

vars == <<q_head, q_tail, j_next, j_prev, j_id, jp, queue>>

\* queue_init
Init ==
    /\ q_head = NULL
    /\ q_tail = NULL
    /\ j_next = [j \in Jobs |-> NULL]
    /\ j_prev = [j \in Jobs |-> NULL]
    /\ j_id \in [Jobs -> Threads]
    /\ jp = [t \in Threads |-> NULL]
    /\ queue = <<>>

Queued(j) == \E k \in 1 .. Len(queue) : queue[k] = j

\* A pointer field of the object p points to; nothing happens through NULL.
Set(f, p, value) == IF p = NULL THEN f ELSE [f EXCEPT ![p] = value]
-----------------------------------------------------------------------------
\* job_insert
JobInsert(j) ==
    /\ ~Queued(j)
    /\ j_next' = [j_next EXCEPT ![j] = q_head]
    /\ j_prev' = Set([j_prev EXCEPT ![j] = NULL], q_head, j)
    /\ q_tail' = IF q_head = NULL THEN j ELSE q_tail
    /\ q_head' = j
    /\ queue' = <<j>> \o queue
    /\ UNCHANGED <<j_id, jp>>

\* job_append
JobAppend(j) ==
    /\ ~Queued(j)
    /\ j_prev' = [j_prev EXCEPT ![j] = q_tail]
    /\ j_next' = Set([j_next EXCEPT ![j] = NULL], q_tail, j)
    /\ q_head' = IF q_tail = NULL THEN j ELSE q_head
    /\ q_tail' = j
    /\ queue' = Append(queue, j)
    /\ UNCHANGED <<j_id, jp>>

\* The k-th job from the head, NULL behind the last.
Nth[k \in 0 .. Cardinality(Jobs)] ==
    IF k = 0 THEN q_head
    ELSE IF Nth[k - 1] = NULL THEN NULL ELSE j_next[Nth[k - 1]]

\* job_find: the first job of t, from the head.
JobFind(t) ==
    /\ jp[t] = NULL
    /\ \E k \in 0 .. Cardinality(Jobs) :
          /\ Nth[k] # NULL => j_id[Nth[k]] = t
          /\ \A m \in 0 .. k - 1 : Nth[m] # NULL /\ j_id[Nth[m]] # t
          /\ jp' = [jp EXCEPT ![t] = Nth[k]]
    /\ UNCHANGED <<q_head, q_tail, j_next, j_prev, j_id, queue>>

\* Mutant: the first job is taken out without a look at the tail.
RemoveHeadOnly(j) ==
    /\ q_head' = j_next[j]
    /\ j_prev' = Set(j_prev, j_next[j], j_prev[j])
    /\ UNCHANGED <<q_tail, j_next>>

RemoveHead(j) ==
    /\ q_head' = j_next[j]
    /\ IF q_tail = j
         THEN q_tail' = NULL /\ UNCHANGED j_prev
         ELSE j_prev' = [j_prev EXCEPT ![j_next[j]] = j_prev[j]] /\ UNCHANGED q_tail
    /\ UNCHANGED j_next

RemoveTail(j) ==
    /\ q_tail' = j_prev[j]
    /\ j_next' = [j_next EXCEPT ![j_prev[j]] = j_next[j]]
    /\ UNCHANGED <<q_head, j_prev>>

RemoveMiddle(j) ==
    /\ j_next' = [j_next EXCEPT ![j_prev[j]] = j_next[j]]
    /\ j_prev' = [j_prev EXCEPT ![j_next[j]] = j_prev[j]]
    /\ UNCHANGED <<q_head, q_tail>>

Place(j) == CHOOSE k \in 1 .. Len(queue) : queue[k] = j
Without(j) ==
    IF Queued(j)
      THEN SubSeq(queue, 1, Place(j) - 1) \o SubSeq(queue, Place(j) + 1, Len(queue))
      ELSE queue

\* job_remove, of the job the thread has found.
JobRemove(t) ==
    LET j == jp[t] IN
    /\ j # NULL
    /\ IF j = q_head THEN RemoveHead(j)
       ELSE IF j = q_tail THEN RemoveTail(j)
       ELSE RemoveMiddle(j)
    /\ jp' = [jp EXCEPT ![t] = NULL]
    /\ queue' = Without(j)
    /\ UNCHANGED j_id

Next ==
    \/ \E j \in Jobs : JobInsert(j) \/ JobAppend(j)
    \/ \E t \in Threads : JobFind(t) \/ JobRemove(t)

Spec == Init /\ [][Next]_vars
-----------------------------------------------------------------------------
\* Followed from either end the pointers give the jobs in the order in which they
\* were inserted and appended, and a job a thread has found is still queued when
\* the thread takes it out, though the lock was given up in between (job_find and
\* job_remove).
QueueInOrder ==
    LET n == Len(queue) IN
    /\ n = 0 => q_head = NULL /\ q_tail = NULL
    /\ n > 0 => /\ q_head = queue[1] /\ j_prev[queue[1]] = NULL
                /\ q_tail = queue[n] /\ j_next[queue[n]] = NULL
    /\ \A k \in 1 .. n - 1 :
          j_next[queue[k]] = queue[k + 1] /\ j_prev[queue[k + 1]] = queue[k]
    /\ \A t \in Threads : jp[t] # NULL => Queued(jp[t])
-----------------------------------------------------------------------------
(* The invariant from which QueueInOrder follows.                           *)

TypeOK ==
    /\ {q_head, q_tail} \subseteq Jobs \cup {NULL}
    /\ j_next \in [Jobs -> Jobs \cup {NULL}]
    /\ j_prev \in [Jobs -> Jobs \cup {NULL}]
    /\ j_id \in [Jobs -> Threads]
    /\ jp \in [Threads -> Jobs \cup {NULL}]
    /\ queue \in Seq(Jobs)

Linked ==
    /\ q_head = IF queue = <<>> THEN NULL ELSE queue[1]
    /\ q_tail = IF queue = <<>> THEN NULL ELSE queue[Len(queue)]
    /\ \A k \in 1 .. Len(queue) :
          /\ j_next[queue[k]] = IF k = Len(queue) THEN NULL ELSE queue[k + 1]
          /\ j_prev[queue[k]] = IF k = 1 THEN NULL ELSE queue[k - 1]

JobInv ==
    /\ TypeOK
    /\ Linked
    /\ \A k, m \in 1 .. Len(queue) : queue[k] = queue[m] => k = m
    /\ \A t \in Threads, j \in Jobs : jp[t] = j => Queued(j) /\ j_id[j] = t
=============================================================================
