---------------------------- MODULE OpenServerProofs ----------------------------
(***************************************************************************)
(* Proofs about the open server, for any number of clients, names and       *)
(* requests and for both loops.                                             *)
(*                                                                         *)
(* The arrays agree with the connections at every step of a loop, not only  *)
(* where it waits, so the invariant OpenInv follows the loop: which entry   *)
(* belongs to which connection, in which order the entries are, and what is *)
(* between a client and the server at each place of both.                   *)
(***************************************************************************)
EXTENDS OpenServer, SequenceTheorems, FiniteSetTheorems, TLAPS

Pieces == [part : {"head", "tail", "whole"}, name : Names]
Replies == [kind : {"text", "error", "fd"}, file : Names \cup {NONE}]
Users == Procs \cup {ROOT, NONE}
Fds == listenfd + 1 .. Cardinality(Procs) + 2
Pasts == [upsets : Nat, long : SUBSET Procs, left : BOOLEAN]
Whole(name) == [part |-> "whole", name |-> name]

ServerTypes ==
    /\ loop \in {"poll", "select"}
    /\ srv \in {"start", "wait", "accept", "scan", "ended"}
    /\ DOMAIN conn \subseteq Fds
    /\ \A fd \in DOMAIN conn : conn[fd] \in Procs
    /\ client \in Seq([fd : Nat, uid : Users])
    /\ pollfd \in Seq([fd : Nat, revents : SUBSET {"POLLIN", "POLLHUP"}])
    /\ maxi \in Nat
    /\ i \in Nat

ClientTypes ==
    /\ backlog \in Seq(Procs)
    /\ path \in [Procs -> {"none", "fresh", "stale"}]
    /\ pc \in [Procs -> {"idle", "bind", "connect", "write", "recv", "cat", "ended"}]
    /\ want \in [Procs -> Names \cup {NONE}]
    /\ \A p \in Procs : pc[p] \notin {"idle", "ended"} => want[p] \in Names
    /\ toServer \in [Procs -> Seq(Pieces)]
    /\ toClient \in [Procs -> Seq(Replies)]
    /\ DOMAIN outcome = Procs
    /\ past \in Pasts

Types == ServerTypes /\ ClientTypes

\* Every client has one connection at most, waiting or accepted.
OneConnection ==
    /\ \A e, f \in DOMAIN conn : conn[e] = conn[f] => e = f
    /\ \A j, k \in DOMAIN backlog : backlog[j] = backlog[k] => j = k
    /\ \A k \in DOMAIN backlog : ~Accepted(backlog[k])
    /\ \A p \in Procs : pc[p] \in {"bind", "connect"} =>
          ~Accepted(p) /\ \A k \in DOMAIN backlog : backlog[k] # p
    /\ srv = "accept" => backlog # << >>

\* The table client[]: every connection has one entry, with its client's user ID,
\* and the other entries are free, but for that of listenfd.
EntryKept(k) ==
    \/ client[k].fd = FREE
    \/ client[k].fd = listenfd /\ k = 1 /\ loop = "poll"
    \/ client[k].fd \in DOMAIN conn /\ client[k].uid = conn[client[k].fd]

TableKept ==
    /\ \A k \in 1 .. Len(client) : EntryKept(k)
    /\ \A fd \in DOMAIN conn : \E k \in 1 .. Len(client) : client[k].fd = fd
    /\ \A j, k \in 1 .. Len(client) :
          client[j].fd = client[k].fd /\ client[k].fd # FREE => j = k
    /\ srv = "start" => client = << >> /\ DOMAIN conn = {} /\ maxi = 0
    /\ srv \notin {"start", "ended"} /\ loop = "poll" => client # << >> /\ client[1].fd = listenfd
    /\ maxi <= Len(client)
    /\ loop = "select" => \A k \in 1 .. Len(client) : client[k].fd # FREE => k <= maxi

\* The array pollfd[]: listenfd, then every connection once.
ArrayKept ==
    /\ pollfd[1].fd = listenfd
    /\ Len(pollfd) = Cardinality(DOMAIN conn) + 1
    /\ \A k \in 2 .. Len(pollfd) : pollfd[k].fd \in DOMAIN conn
    /\ \A fd \in DOMAIN conn : \E k \in 2 .. Len(pollfd) : pollfd[k].fd = fd
    /\ \A j, k \in 2 .. Len(pollfd) : pollfd[j].fd = pollfd[k].fd => j = k

\* Both arrays hold the descriptors in one order, as long as no client has left.
SameOrder ==
    /\ Len(pollfd) <= Len(client)
    /\ \A k \in 1 .. Len(pollfd) : client[k].fd = pollfd[k].fd
    /\ \A k \in 1 .. Len(client) : k > Len(pollfd) => client[k].fd = FREE

PollKept ==
    loop = "poll" =>
        /\ srv = "start" => pollfd = << >>
        /\ pollfd = << >> => DOMAIN conn = {}
        /\ srv \notin {"start", "ended"} => pollfd # << >>
        /\ pollfd # << >> => ArrayKept
        /\ ~past.left => SameOrder

\* In a pass over the clients, the entry looked at is that of a connection.
Scanning ==
    srv = "scan" =>
        /\ loop = "poll" => i \in 2 .. Len(pollfd)
        /\ loop = "select" => /\ rset \subseteq DOMAIN conn
                              /\ i \in 1 .. Len(client) /\ client[i].fd \in rset

\* Requests and answers of a client that never sent a name too long.
Paired(p) ==
    /\ pc[p] \in {"idle", "bind", "connect", "write", "cat"} =>
          toClient[p] = << >> /\ (srv # "ended" => toServer[p] = << >>)
    /\ pc[p] = "recv" =>
          \/ toClient[p] = << >> /\ (srv # "ended" => toServer[p] = <<Whole(want[p])>>)
          \/ /\ toServer[p] = << >>
             /\ \/ toClient[p] = Answer(Whole(want[p]))
                \/ toClient[p] = Tail(SendErr) /\ ~Granted(Whole(want[p]))
    /\ pc[p] \in {"bind", "connect", "write", "recv", "cat"} => want[p] \in Names \ Long
    /\ pc[p] = "cat" => outcome[p] = want[p]
    /\ outcome[p] = "error" => want[p] \in Missing

\* What an upset is needed for: a client that leaves before it has its answer, a
\* stale socket name, and the end of a server that listened.
Quiet ==
    /\ srv = "start" => \A p \in Procs : pc[p] # "recv"
    /\ past.long # {} => past.upsets > 0
    /\ (\E p \in Procs : path[p] = "stale") => past.upsets > 0
    /\ past.upsets = 0 /\ srv # "ended" =>
          \A p \in Procs : pc[p] = "ended" => toServer[p] = << >> /\ toClient[p] = << >>
    /\ ServerStays

OpenInv ==
    /\ Types /\ OneConnection /\ TableKept /\ PollKept /\ Scanning
    /\ \A p \in Procs \ past.long : Paired(p)
    /\ Quiet
-----------------------------------------------------------------------------
(* What the operators on sets, tables and arrays return.                    *)

\* Induction on the naturals below a bound, from the pigeonhole principle.
LEMMA SetInduction ==
    ASSUME NEW N \in Nat, NEW S, 0 \in S, \A n \in 0 .. N - 1 : n \in S => n + 1 \in S
    PROVE  0 .. N \subseteq S
<1>1. SUFFICES ASSUME NEW m \in 0 .. N, m \notin S
               PROVE  FALSE
  OBVIOUS
<1> DEFINE A == S \cap (0 .. m)
           B == A \ {0}
           f == [n \in A |-> n + 1]
<1>a. A \in SUBSET (0 .. m) /\ 0 \in A /\ m \notin A
  BY <1>1
<1>4. f \in [A -> B] /\ \A n \in A : f[n] = n + 1
  BY <1>1
<1>b. B = A \ {0}
  OBVIOUS
<1> HIDE DEF A, B, f
<1>2. IsFiniteSet(A)
  <2>1. IsFiniteSet(0 .. m)
    BY FS_Interval
  <2> QED BY <2>1, FS_Subset, <1>a
<1>3. IsFiniteSet(B) /\ Cardinality(B) = Cardinality(A) - 1 /\ Cardinality(A) \in Nat
  BY <1>2, FS_RemoveElement, FS_CardinalityType, <1>a, <1>b
<1>6. Cardinality(B) < Cardinality(A)
  BY <1>3
<1>5. \E x, y \in A : x # y /\ f[x] = f[y]
  BY <1>2, <1>3, <1>4, <1>6, FS_PigeonHole
<1> QED BY <1>5, <1>4, <1>a

\* A set of naturals with an element has a least one.
LEMMA MinOf ==
    ASSUME NEW S \in SUBSET Nat, NEW s \in S
    PROVE  Min(S) \in S /\ \A x \in S : Min(S) <= x
<1> DEFINE T == { n \in Nat : \A x \in S : n <= x }
<1>1. SUFFICES ASSUME ~ \E n \in S : \A x \in S : n <= x
               PROVE  FALSE
  BY DEF Min
<1>2. 0 \in T /\ s + 1 \notin T
  OBVIOUS
<1>3. ASSUME NEW n \in T
      PROVE  n + 1 \in T
  BY <1>1
<1> HIDE DEF T
<1>4. 0 .. s + 1 \subseteq T
  BY <1>2, <1>3, SetInduction
<1> QED BY <1>2, <1>4

\* Two naturals have a greatest one.
LEMMA MaxOfTwo ==
    ASSUME NEW a \in Nat, NEW b \in Nat
    PROVE  Max({a, b}) \in {a, b} /\ a <= Max({a, b}) /\ b <= Max({a, b})
<1>1. \E x \in {a, b} : \A y \in {a, b} : x >= y
  OBVIOUS
<1> QED BY <1>1 DEF Max

Tables == Seq([fd : Nat, uid : Users])

\* t is the table with an entry for fd at m, its first available entry.
AddedAt(table, fd, uid, t, m) ==
    /\ t \in Tables /\ Len(table) <= Len(t)
    /\ m \in 1 .. Len(t) /\ t[m] = Entry(fd, uid)
    /\ m <= Len(table) => table[m].fd = FREE
    /\ \A k \in 1 .. Len(t) : k # m =>
          t[k] = IF k <= Len(table) THEN table[k] ELSE Entry(FREE, NONE)
    /\ \A k \in 1 .. m - 1 : k <= Len(table) /\ table[k].fd # FREE

\* client_alloc appends NALLOC available entries.
LEMMA GrownTable ==
    ASSUME NEW table \in Tables
    PROVE  /\ Grown(table) \in Tables
           /\ Len(Grown(table)) = Len(table) + NALLOC
           /\ \A k \in 1 .. Len(table) : Grown(table)[k] = table[k]
           /\ \A k \in Len(table) + 1 .. Len(table) + NALLOC :
                 Grown(table)[k] = Entry(FREE, NONE)
<1> DEFINE new == [k \in 1 .. NALLOC |-> Entry(FREE, NONE)]
<1>1. NALLOC \in Nat
  BY OpenServerAssumption
<1>2. new \in Tables /\ Len(new) = NALLOC /\ \A k \in 1 .. NALLOC : new[k] = Entry(FREE, NONE)
  BY <1>1 DEF Tables, Entry, FREE, Users
<1>3. Grown(table) = table \o new
  BY DEF Grown
<1> HIDE DEF new
<1>4. /\ table \o new \in Tables /\ Len(table \o new) = Len(table) + NALLOC
      /\ \A k \in 1 .. Len(table) + NALLOC :
            (table \o new)[k] = IF k <= Len(table) THEN table[k] ELSE new[k - Len(table)]
  BY <1>2, ConcatProperties DEF Tables
<1>5. Len(table) \in Nat
  BY DEF Tables
<1>6. ASSUME NEW k \in Len(table) + 1 .. Len(table) + NALLOC
      PROVE  (table \o new)[k] = Entry(FREE, NONE)
  <2>1. k - Len(table) \in 1 .. NALLOC /\ ~(k <= Len(table)) /\ k \in 1 .. Len(table) + NALLOC
    BY <1>1, <1>5
  <2> QED BY <2>1, <1>2, <1>4
<1>7. \A k \in 1 .. Len(table) : k \in 1 .. Len(table) + NALLOC /\ k <= Len(table)
  BY <1>1, <1>5
<1> QED BY <1>3, <1>4, <1>6, <1>7

\* client_add takes the first available entry, of the table as it is or grown.
LEMMA Added ==
    ASSUME NEW table \in Tables, NEW fd \in Nat, NEW uid \in Users
    PROVE  \E m \in Nat : AddedAt(table, fd, uid, ClientAdd(table, fd, uid), m)
<1> DEFINE t == IF Available(table) = {} THEN Grown(table) ELSE table
           m == Min(Available(t))
           r == [t EXCEPT ![m] = Entry(fd, uid)]
<1>1. /\ t \in Tables /\ Len(table) <= Len(t)
      /\ \A k \in 1 .. Len(t) : t[k] = IF k <= Len(table) THEN table[k] ELSE Entry(FREE, NONE)
      /\ \E k \in 1 .. Len(t) : t[k].fd = FREE
  <2>1. CASE Available(table) = {}
    <3>1. NALLOC \in Nat \ {0}
      BY OpenServerAssumption
    <3>2. Len(table) \in Nat /\ Len(table) + 1 \in Len(table) + 1 .. Len(table) + NALLOC
      BY <3>1 DEF Tables
    <3>3. Grown(table)[Len(table) + 1].fd = FREE
      BY <3>2, GrownTable DEF Entry
    <3>4. t = Grown(table)
      BY <2>1
    <3> HIDE DEF t
    <3>5. ASSUME NEW k \in 1 .. Len(t)
          PROVE  t[k] = IF k <= Len(table) THEN table[k] ELSE Entry(FREE, NONE)
      <4>1. k \in 1 .. Len(table) \/ k \in Len(table) + 1 .. Len(table) + NALLOC
        BY <3>1, <3>2, <3>4, GrownTable
      <4>2. k \in 1 .. Len(table) <=> k <= Len(table)
        BY <3>2
      <4>3. k \in Len(table) + 1 .. Len(table) + NALLOC => ~(k <= Len(table))
        BY <3>2
      <4> QED BY <4>1, <4>2, <4>3, <3>4, GrownTable
    <3>6. Len(table) + 1 \in 1 .. Len(t)
      BY <3>1, <3>2, <3>4, GrownTable
    <3> QED BY <3>1, <3>2, <3>3, <3>4, <3>5, <3>6, GrownTable
  <2>2. CASE Available(table) # {}
    BY <2>2 DEF Available, Tables
  <2> QED BY <2>1, <2>2
<1> HIDE DEF t
<1>2. Available(t) \in SUBSET Nat /\ Available(t) # {} /\ DOMAIN t = 1 .. Len(t)
  BY <1>1 DEF Available, Tables
<1>3. m \in Available(t) /\ \A k \in Available(t) : m <= k
  BY <1>2, MinOf
<1> HIDE DEF m
<1>4. m \in 1 .. Len(t) /\ t[m].fd = FREE /\ \A k \in 1 .. Len(t) : t[k].fd = FREE => m <= k
  BY <1>2, <1>3 DEF Available
<1>5. r \in Tables /\ Len(r) = Len(t) /\ r[m] = Entry(fd, uid)
      /\ \A k \in 1 .. Len(t) : k # m => r[k] = t[k]
  BY <1>1, <1>4 DEF Tables, Entry
<1>6. ClientAdd(table, fd, uid) = r
  BY DEF ClientAdd, t, m
<1> HIDE DEF r
<1>7. ASSUME NEW k \in 1 .. m - 1
      PROVE  k <= Len(table) /\ table[k].fd # FREE
  <2>1. k \in 1 .. Len(t) /\ ~(m <= k)
    BY <1>1, <1>4 DEF Tables
  <2>2. t[k].fd # FREE
    BY <2>1, <1>4
  <2> QED BY <1>1, <2>1, <2>2 DEF Entry
<1>8. m <= Len(table) => table[m].fd = FREE
  BY <1>1, <1>4
<1>9. m \in Nat
  BY <1>1, <1>4 DEF Tables
<1>10. AddedAt(table, fd, uid, r, m)
  BY <1>1, <1>4, <1>5, <1>7, <1>8 DEF AddedAt
<1> QED BY <1>6, <1>9, <1>10

\* t is the table with the descriptor of entry m reset.
DeletedAt(table, fd, t, m) ==
    /\ t \in Tables /\ Len(t) = Len(table)
    /\ m \in 1 .. Len(table) /\ table[m].fd = fd /\ t[m].fd = FREE
    /\ \A k \in 1 .. Len(table) : k # m => t[k] = table[k]

\* client_del resets an entry of the descriptor.
LEMMA Deleted ==
    ASSUME NEW table \in Tables, NEW fd, Known(table, fd)
    PROVE  \E m \in Nat : DeletedAt(table, fd, ClientDel(table, fd), m)
<1> DEFINE S == { k \in DOMAIN table : table[k].fd = fd }
           m == Min(S)
           r == [table EXCEPT ![m].fd = FREE]
<1>1. S \in SUBSET Nat /\ S # {} /\ DOMAIN table = 1 .. Len(table)
  BY DEF Known, Tables
<1>2. m \in S
  <2> HIDE DEF S
  <2> QED BY <1>1, MinOf
<1>3. ClientDel(table, fd) = r
  BY DEF ClientDel
<1> HIDE DEF m
<1>4. r \in Tables /\ Len(r) = Len(table) /\ r[m].fd = FREE
      /\ \A k \in 1 .. Len(table) : k # m => r[k] = table[k]
  <2>1. m \in 1 .. Len(table)
    BY <1>1, <1>2
  <2>2. table[m] \in [fd : Nat, uid : Users]
    <3>1. table \in Seq([fd : Nat, uid : Users])
      BY DEF Tables
    <3> QED BY <2>1, <3>1, ElementOfSeq
  <2>3. [table[m] EXCEPT !.fd = FREE] \in [fd : Nat, uid : Users]
        /\ [table[m] EXCEPT !.fd = FREE].fd = FREE
    BY <2>2 DEF FREE
  <2>4. r = [table EXCEPT ![m] = [table[m] EXCEPT !.fd = FREE]]
    OBVIOUS
  <2> QED BY <2>1, <2>3, <2>4 DEF Tables
<1> QED BY <1>1, <1>2, <1>3, <1>4 DEF DeletedAt

\* Packed drops the last element and lets it take the place of the k-th.
LEMMA PackedArray ==
    ASSUME NEW T, NEW s \in Seq(T), NEW k \in 1 .. Len(s)
    PROVE  /\ Packed(s, k) \in Seq(T) /\ Len(Packed(s, k)) = Len(s) - 1
           /\ \A j \in 1 .. Len(s) - 1 :
                 Packed(s, k)[j] = IF j = k THEN s[Len(s)] ELSE s[j]
<1> DEFINE r == [s EXCEPT ![k] = Last(s)]
<1>1. r \in Seq(T) /\ Len(r) = Len(s) /\ \A j \in 1 .. Len(s) : r[j] = IF j = k THEN s[Len(s)] ELSE s[j]
  BY DEF Last
<1>2. Packed(s, k) = SubSeq(r, 1, Len(s) - 1)
  BY DEF Packed
<1> HIDE DEF r
<1> QED BY <1>1, <1>2, SubSeqProperties
-----------------------------------------------------------------------------
(* What the server's steps do to the table, the array and the connections.  *)

\* There is a descriptor left for the connection the server accepts.
LEMMA FreeDescriptor ==
    ASSUME Types, OneConnection, srv = "accept"
    PROVE  /\ FreeFd \in Fds \ DOMAIN conn
           /\ Head(backlog) \in Procs /\ ~Accepted(Head(backlog))
           /\ IsFiniteSet(DOMAIN conn)
<1>1. IsFiniteSet(Procs) /\ Cardinality(Procs) \in Nat
  BY OpenServerAssumption, FS_CardinalityType
<1>2. IsFiniteSet(Fds) /\ Cardinality(Fds) = Cardinality(Procs) + 1
  <2>1. listenfd + 1 \in Int /\ Cardinality(Procs) + 2 \in Int
    BY <1>1 DEF listenfd
  <2> DEFINE lo == listenfd + 1
             hi == Cardinality(Procs) + 2
  <2>2. lo \in Int /\ hi \in Int /\ Fds = lo .. hi
    BY <2>1 DEF Fds
  <2>3. lo = 2 /\ hi = Cardinality(Procs) + 2
    BY DEF listenfd
  <2> HIDE DEF lo, hi
  <2>4. IsFiniteSet(lo .. hi) /\ Cardinality(lo .. hi) = IF lo > hi THEN 0 ELSE hi - lo + 1
    BY <2>2, FS_Interval
  <2> QED BY <1>1, <2>2, <2>3, <2>4
<1>3. IsFiniteSet(DOMAIN conn)
  BY <1>2, FS_Subset DEF Types, ServerTypes
<1>4. backlog \in Seq(Procs) /\ backlog # << >> /\ 1 \in DOMAIN backlog
      /\ Head(backlog) = backlog[1] /\ Head(backlog) \in Procs
  BY DEF Types, ClientTypes, OneConnection
<1>5. Fds # DOMAIN conn
  <2>1. SUFFICES ASSUME Fds = DOMAIN conn
                 PROVE  FALSE
    OBVIOUS
  <2> DEFINE c == [fd \in Fds |-> conn[fd]]
  <2>2. c \in [Fds -> Procs]
    BY <2>1 DEF Types, ServerTypes
  <2>3. \A fd \in Fds : c[fd] = conn[fd]
    OBVIOUS
  <2> HIDE DEF c
  <2>4. \E e, f \in Fds : e # f /\ c[e] = c[f]
    <3>1. Cardinality(Procs) < Cardinality(Fds)
      BY <1>1, <1>2
    <3> QED BY <1>1, <1>2, <2>2, <3>1, FS_PigeonHole
  <2> QED BY <2>1, <2>3, <2>4 DEF OneConnection
<1>6. Fds \ DOMAIN conn \in SUBSET Nat /\ Fds \ DOMAIN conn # {}
  <2>1. Fds \in SUBSET Nat
    BY <1>1 DEF Fds, listenfd
  <2> QED BY <2>1, <1>5 DEF Types, ServerTypes
<1>7. FreeFd \in Fds \ DOMAIN conn
  <2>1. FreeFd = Min(Fds \ DOMAIN conn)
    BY DEF FreeFd, Fds
  <2> DEFINE S == Fds \ DOMAIN conn
  <2> HIDE DEF S
  <2>2. S \in SUBSET Nat /\ S # {}
    BY <1>6 DEF S
  <2>3. Min(S) \in S
    BY <2>2, MinOf
  <2> QED BY <2>1, <2>3 DEF S
<1> QED BY <1>3, <1>4, <1>7 DEF OneConnection

\* The connection of client p gets descriptor fd and entry m of client[].
Accepts(p, fd, m) ==
    /\ p \in Procs /\ ~Accepted(p) /\ p = backlog[1] /\ backlog # << >>
    /\ fd \in Fds /\ fd \notin DOMAIN conn
    /\ backlog' = Tail(backlog)
    /\ DOMAIN conn' = DOMAIN conn \cup {fd}
    /\ \A f \in DOMAIN conn' : conn'[f] = IF f = fd THEN p ELSE conn[f]
    /\ AddedAt(client, fd, p, client', m) /\ m \in Nat
    /\ loop = "poll" =>
          /\ pollfd' = Append(pollfd, [fd |-> fd, revents |-> {}])
          /\ Resume(ReadyPoll(pollfd'))
          /\ maxi' = maxi
    /\ loop # "poll" =>
          /\ maxi' = Max({maxi, m})
          /\ srv' = "wait"
          /\ UNCHANGED <<pollfd, i>>

LEMMA AcceptStep ==
    ASSUME Types, OneConnection, TableKept, Accept
    PROVE  \E p, fd, m : Accepts(p, fd, m)
<1>1. srv = "accept"
  BY DEF Accept
<1>2. PICK fd : fd = FreeFd
  OBVIOUS
<1>3. PICK p : p = Head(backlog)
  OBVIOUS
<1>4. fd \in Fds /\ fd \notin DOMAIN conn /\ p \in Procs /\ ~Accepted(p)
  BY <1>1, <1>2, <1>3, FreeDescriptor
<1>5. client \in Tables /\ fd \in Nat /\ p \in Users /\ fd # FREE /\ fd # listenfd
  <2>1. Cardinality(Procs) \in Nat
    BY OpenServerAssumption, FS_CardinalityType
  <2> QED BY <1>4, <2>1 DEF Types, ServerTypes, Tables, Users, Fds, FREE, listenfd
<1>6. PICK m \in Nat : AddedAt(client, fd, p, ClientAdd(client, fd, p), m)
  BY <1>5, Added
<1>7. PICK t : t = ClientAdd(client, fd, p)
  OBVIOUS
<1>8. AddedAt(client, fd, p, t, m)
  BY <1>6, <1>7
<1>9. (CHOOSE e \in DOMAIN t : t[e].fd = fd) = m
  <2>1. DOMAIN t = 1 .. Len(t) /\ m \in DOMAIN t /\ t[m].fd = fd
    BY <1>8 DEF AddedAt, Tables, Entry
  <2>2. ASSUME NEW e \in DOMAIN t, t[e].fd = fd, e # m
        PROVE  FALSE
    <3>1. CASE e <= Len(client)
      <4>1. e \in DOMAIN client /\ client[e].fd = fd
        BY <1>5, <1>8, <2>1, <2>2, <3>1 DEF AddedAt, Tables
      <4>2. e \in 1 .. Len(client)
        BY <4>1, <1>5 DEF Tables
      <4> QED BY <4>1, <4>2, <1>4, <1>5 DEF TableKept, EntryKept
    <3>2. CASE ~(e <= Len(client))
      BY <1>5, <1>8, <2>1, <2>2, <3>2 DEF AddedAt, Entry
    <3> QED BY <3>1, <3>2
  <2> QED BY <2>1, <2>2
<1>10. /\ backlog' = Tail(backlog)
       /\ conn' = [f \in DOMAIN conn \cup {fd} |-> IF f = fd THEN p ELSE conn[f]]
       /\ client' = t
  BY <1>2, <1>3, <1>7 DEF Accept
<1>11. /\ loop = "poll" =>
              /\ pollfd' = Append(pollfd, [fd |-> fd, revents |-> {}])
              /\ Resume(ReadyPoll(pollfd'))
              /\ maxi' = maxi
       /\ loop # "poll" =>
              /\ maxi' = Max({maxi, m})
              /\ srv' = "wait"
              /\ UNCHANGED <<pollfd, i>>
  BY <1>2, <1>3, <1>7, <1>9 DEF Accept
<1>12. backlog # << >> /\ p = backlog[1]
  BY <1>1, <1>3 DEF OneConnection, Types, ClientTypes
<1> QED BY <1>4, <1>6, <1>8, <1>10, <1>11, <1>12 DEF Accepts

\* The connection with descriptor fd leaves, and entry m of client[] is free.
Closes(fd, m) ==
    /\ fd \in DOMAIN conn
    /\ DOMAIN conn' = DOMAIN conn \ {fd}
    /\ \A f \in DOMAIN conn' : conn'[f] = conn[f]
    /\ DeletedAt(client, fd, client', m) /\ m \in Nat

LEMMA CloseStep ==
    ASSUME Types, TableKept, NEW fd \in DOMAIN conn,
           conn' = Without(fd), client' = ClientDel(client, fd)
    PROVE  Known(client, fd) /\ \E m : Closes(fd, m)
<1>1. Known(client, fd) /\ client \in Tables
  BY DEF TableKept, Known, Types, ServerTypes, Tables
<1>2. PICK m \in Nat : DeletedAt(client, fd, client', m)
  BY <1>1, Deleted
<1> QED BY <1>1, <1>2 DEF Closes, Without

\* A pass over the clients goes on at one of those with something to do.
LEMMA ResumeAt ==
    ASSUME NEW next \in SUBSET Nat, Resume(next)
    PROVE  srv' \in {"wait", "scan"} /\ i' \in Nat /\ (srv' = "scan" => i' \in next)
<1>1. CASE next = {}
  BY <1>1 DEF Resume
<1>2. CASE next # {}
  <2>1. Min(next) \in next
    BY <1>2, MinOf
  <2> QED BY <1>2, <2>1 DEF Resume
<1> QED BY <1>1, <1>2
-----------------------------------------------------------------------------
(* The types.                                                               *)

Array == Seq([fd : Nat, revents : SUBSET {"POLLIN", "POLLHUP"}])

LEMMA ReadySets ==
    /\ \A array \in Array : ReadyPoll(array) \in SUBSET (2 .. Len(array))
                           /\ ReadyPoll(array) \in SUBSET Nat
    /\ \A t, r : ReadySelect(t, r) \in SUBSET (1 .. maxi)
    /\ maxi \in Nat => \A t, r : ReadySelect(t, r) \in SUBSET Nat
BY DEF ReadyPoll, ReadySelect, Array

\* A client's step leaves what the server keeps alone.
LEMMA ClientsApart ==
    ASSUME NEW p \in Procs, ClientStep(p) \/ User(p)
    PROVE  UNCHANGED <<loop, srv, conn, client, pollfd, rset, maxi, i>>
<1>1. CASE ClientStep(p)
  BY <1>1 DEF ClientStep, Bind, Connect, ConnectFails, Write, Recv, RecvClosed, Cat, serverVars
<1>2. CASE User(p)
  BY <1>2 DEF User, Ask, End, Restart, Kill, Stale, serverVars
<1> QED BY <1>1, <1>2

LEMMA ServerTypesNext ==
    ASSUME Types, OneConnection, TableKept, PollKept, Scanning, [Next]_vars
    PROVE  ServerTypes'
<1>1. CASE UNCHANGED <<loop, srv, conn, client, pollfd, maxi, i>>
  BY <1>1 DEF Types, ServerTypes
<1>2. CASE ServListen
  <2>1. client \in Tables /\ listenfd \in Nat /\ ROOT \in Users
    BY DEF Types, ServerTypes, Tables, listenfd, Users
  <2>2. ClientAdd(client, listenfd, ROOT) \in Tables
    BY <2>1, Added DEF AddedAt
  <2>3. <<[fd |-> listenfd, revents |-> {}]>> \in Array
    BY DEF Array, listenfd
  <2>4. client' \in Tables /\ pollfd' \in Array
    BY <1>2, <2>1, <2>2, <2>3 DEF ServListen, Types, ServerTypes, Array
  <2> QED BY <1>2, <2>4 DEF ServListen, Types, ServerTypes, Tables, Array
<1>3. CASE ServListenFails
  BY <1>3 DEF ServListenFails, Types, ServerTypes
<1>4. CASE Poll
  <2>1. pollfd' \in Array
    <3>1. \A fd : Events(fd) \in SUBSET {"POLLIN", "POLLHUP"}
      BY DEF Events
    <3>2. pollfd \in Array /\ pollfd' = [k \in 1 .. Len(pollfd) |->
                     [pollfd[k] EXCEPT !.revents = Events(pollfd[k].fd)]]
      BY <1>4 DEF Poll, Types, ServerTypes, Array
    <3>3. ASSUME NEW k \in 1 .. Len(pollfd)
          PROVE  [pollfd[k] EXCEPT !.revents = Events(pollfd[k].fd)]
                   \in [fd : Nat, revents : SUBSET {"POLLIN", "POLLHUP"}]
      <4>1. pollfd[k] \in [fd : Nat, revents : SUBSET {"POLLIN", "POLLHUP"}]
        BY <3>2, ElementOfSeq DEF Array
      <4> QED BY <3>1, <4>1
    <3> QED BY <3>2, <3>3 DEF Array
  <2>2. ReadyPoll(pollfd)' \in SUBSET Nat
    BY <2>1, ReadySets DEF ReadyPoll
  <2>3. srv' \in {"wait", "scan", "accept"} /\ i' \in Nat
    <3>1. CASE backlog = << >>
      BY <1>4, <2>2, <3>1, ResumeAt DEF Poll, ReadyPoll
    <3>2. CASE backlog # << >>
      BY <1>4, <3>2 DEF Poll, Types, ServerTypes
    <3> QED BY <3>1, <3>2
  <2> QED BY <1>4, <2>1, <2>3 DEF Poll, Types, ServerTypes, Array
<1>5. CASE Select
  <2>1. srv' \in {"wait", "scan", "accept"} /\ i' \in Nat
    <3>1. CASE backlog = << >>
      <4>1. ReadySelect(client, rset') \in SUBSET Nat /\ Resume(ReadySelect(client, rset'))
        BY <1>5, <3>1, ReadySets DEF Select, Types, ServerTypes
      <4> QED BY <4>1, ResumeAt
    <3>2. CASE backlog # << >>
      BY <1>5, <3>2 DEF Select, Types, ServerTypes
    <3> QED BY <3>1, <3>2
  <2> QED BY <1>5, <2>1 DEF Select, Types, ServerTypes
<1>6. CASE Accept
  <2>1. PICK p, fd, m : Accepts(p, fd, m)
    BY <1>6, AcceptStep
  <2>2. DOMAIN conn' \subseteq Fds /\ \A f \in DOMAIN conn' : conn'[f] \in Procs
    BY <2>1 DEF Accepts, Types, ServerTypes
  <2>3. client' \in Tables /\ m \in Nat
    BY <2>1 DEF Accepts, AddedAt
  <2>4. fd \in Nat
    <3>1. Cardinality(Procs) \in Nat
      BY OpenServerAssumption, FS_CardinalityType
    <3> QED BY <3>1, <2>1 DEF Accepts, Fds, listenfd
  <2>5. CASE loop = "poll"
    <3>1. pollfd' \in Array
      <4>1. pollfd \in Array /\ [fd |-> fd, revents |-> {}] \in [fd : Nat, revents : SUBSET {"POLLIN", "POLLHUP"}]
        BY <2>4 DEF Array, Types, ServerTypes
      <4>2. Append(pollfd, [fd |-> fd, revents |-> {}]) \in Array
        BY <4>1, AppendProperties DEF Array
      <4> QED BY <2>1, <2>5, <4>2 DEF Accepts
    <3>2. ReadyPoll(pollfd') \in SUBSET Nat
      BY <3>1, ReadySets
    <3>3. srv' \in {"wait", "scan"} /\ i' \in Nat
      BY <2>1, <2>5, <3>2, ResumeAt DEF Accepts
    <3> QED BY <1>6, <2>1, <2>2, <2>3, <2>5, <3>1, <3>3
            DEF Accept, Accepts, Types, ServerTypes, Tables, Array
  <2>6. CASE loop # "poll"
    <3>1. maxi' \in Nat
      BY <2>1, <2>3, <2>6, MaxOfTwo DEF Accepts, Types, ServerTypes
    <3> QED BY <1>6, <2>1, <2>2, <2>3, <2>6, <3>1
            DEF Accept, Accepts, Types, ServerTypes, Tables
  <2> QED BY <2>5, <2>6
<1>7. CASE AcceptStale
  BY <1>7 DEF AcceptStale, Types, ServerTypes
<1>8. CASE HungUp
  <2>1. i \in 2 .. Len(pollfd) /\ pollfd \in Array
    BY <1>8 DEF HungUp, Scanning, Types, ServerTypes, Array
  <2>2. pollfd[i].fd \in DOMAIN conn
    BY <1>8, <2>1 DEF HungUp, PollKept, ArrayKept
  <2>3. PICK fd \in DOMAIN conn : fd = pollfd[i].fd
    BY <2>2
  <2>4. CASE Known(client, fd)
    <3>1. /\ client' = ClientDel(client, fd)
          /\ conn' = Without(fd)
          /\ pollfd' = Packed(pollfd, i)
          /\ Resume(ReadyPoll(pollfd'))
      BY <1>8, <2>3, <2>4 DEF HungUp
    <3>2. PICK m : Closes(fd, m)
      BY <3>1, CloseStep
    <3>3. pollfd' \in Array
      BY <2>1, <3>1, PackedArray DEF Array
    <3>4. srv' \in {"wait", "scan"} /\ i' \in Nat
      BY <3>1, <3>3, ReadySets, ResumeAt
    <3> QED BY <1>8, <3>2, <3>3, <3>4
            DEF HungUp, Closes, DeletedAt, Types, ServerTypes, Tables, Array
  <2>5. CASE ~Known(client, fd)
    BY <1>8, <2>3, <2>5 DEF HungUp, Types, ServerTypes
  <2> QED BY <2>4, <2>5
<1>9. CASE RequestPoll
  <2>1. pollfd \in Array /\ i \in 2 .. Len(pollfd)
    BY <1>9 DEF RequestPoll, RequestInPoll, Scanning, Types, ServerTypes, Array
  <2>2. [pollfd EXCEPT ![i].revents = {}] \in Array
    <3>1. i \in DOMAIN pollfd /\ pollfd[i] \in [fd : Nat, revents : SUBSET {"POLLIN", "POLLHUP"}]
      <4>1. i \in 1 .. Len(pollfd) /\ pollfd \in Seq([fd : Nat, revents : SUBSET {"POLLIN", "POLLHUP"}])
        BY <2>1 DEF Array
      <4>2. i \in DOMAIN pollfd
        BY <4>1
      <4>3. pollfd[i] \in [fd : Nat, revents : SUBSET {"POLLIN", "POLLHUP"}]
        BY <4>1, ElementOfSeq
      <4> QED BY <4>2, <4>3
    <3>2. [pollfd[i] EXCEPT !.revents = {}] \in [fd : Nat, revents : SUBSET {"POLLIN", "POLLHUP"}]
      BY <3>1
    <3>3. [pollfd EXCEPT ![i].revents = {}] = [pollfd EXCEPT ![i] = [pollfd[i] EXCEPT !.revents = {}]]
      OBVIOUS
    <3> QED BY <2>1, <3>1, <3>2, <3>3 DEF Array
  <2>3. CASE Hung(pollfd[i].fd)
    BY <1>9, <2>3 DEF RequestPoll, Types, ServerTypes
  <2>4. CASE ~Hung(pollfd[i].fd)
    <3>1. pollfd' \in Array /\ Resume(ReadyPoll(pollfd'))
      BY <1>9, <2>2, <2>4 DEF RequestPoll
    <3>2. srv' \in {"wait", "scan"} /\ i' \in Nat
      BY <3>1, ReadySets, ResumeAt
    <3> QED BY <1>9, <3>1, <3>2 DEF RequestPoll, Types, ServerTypes, Array
  <2> QED BY <2>3, <2>4
<1>10. CASE Closed
  <2>1. PICK fd \in DOMAIN conn : fd = client[i].fd
    BY <1>10 DEF Closed, Scanning
  <2>2. PICK m : Closes(fd, m)
    BY <1>10, <2>1, CloseStep DEF Closed
  <2>3. ReadySelect(client', rset') \in SUBSET Nat /\ Resume(ReadySelect(client', rset'))
    BY <1>10, ReadySets DEF Closed, Types, ServerTypes
  <2>4. srv' \in {"wait", "scan"} /\ i' \in Nat
    BY <2>3, ResumeAt
  <2> QED BY <1>10, <2>2, <2>4 DEF Closed, Closes, DeletedAt, Types, ServerTypes, Tables
<1>11. CASE RequestSelect
  <2>1. CASE Hung(client[i].fd)
    BY <1>11, <2>1 DEF RequestSelect, Types, ServerTypes
  <2>2. CASE ~Hung(client[i].fd)
    <3>1. ReadySelect(client, rset') \in SUBSET Nat /\ Resume(ReadySelect(client, rset'))
      BY <1>11, <2>2, ReadySets DEF RequestSelect, Types, ServerTypes
    <3>2. srv' \in {"wait", "scan"} /\ i' \in Nat
      BY <3>1, ResumeAt
    <3> QED BY <1>11, <3>2 DEF RequestSelect, Types, ServerTypes
  <2> QED BY <2>1, <2>2
<1>12. CASE ReadFails
  BY <1>12 DEF ReadFails, Types, ServerTypes
<1>13. CASE \E p \in Procs : ClientStep(p) \/ User(p)
  BY <1>1, <1>13, ClientsApart
<1> QED BY <1>1, <1>2, <1>3, <1>4, <1>5, <1>6, <1>7, <1>8, <1>9, <1>10, <1>11, <1>12, <1>13
        DEF Next, Server, vars, serverVars
LEMMA Replied ==
    ASSUME NEW piece \in Pieces
    PROVE  Answer(piece) \in Seq(Replies)
<1>1. SendErr \in Seq(Replies)
  BY DEF SendErr, Replies
<1>2. CASE Granted(piece)
  <2>1. piece.name \in Names
    BY DEF Pieces
  <2> QED BY <1>2, <2>1 DEF Answer, SendFd, Replies
<1> QED BY <1>1, <1>2 DEF Answer

\* handle_request moves pieces out of the request's queue and its answer into the
\* other one.
LEMMA Handled ==
    ASSUME ClientTypes, NEW fd, NEW p \in Procs, conn[fd] = p, toServer[p] # << >>,
           HandleRequest(fd)
    PROVE  /\ toServer' \in [Procs -> Seq(Pieces)] /\ toClient' \in [Procs -> Seq(Replies)]
           /\ \A q \in Procs \ {p} : toServer'[q] = toServer[q] /\ toClient'[q] = toClient[q]
           /\ toServer'[p] = SubSeq(toServer[p], ReadLength(toServer[p]) + 1, Len(toServer[p]))
           /\ toClient'[p] = toClient[p] \o Answer(Head(toServer[p]))
<1> DEFINE q == toServer[p]
           rest == SubSeq(q, ReadLength(q) + 1, Len(q))
           more == toClient[p] \o Answer(Head(q))
<1>1. q \in Seq(Pieces) /\ q # << >> /\ toClient[p] \in Seq(Replies)
  BY DEF ClientTypes
<1>2. toServer' = [toServer EXCEPT ![p] = rest] /\ toClient' = [toClient EXCEPT ![p] = more]
  BY DEF HandleRequest
<1> HIDE DEF q
<1>3. Head(q) \in Pieces /\ Len(q) \in Nat
  BY <1>1
<1>4. rest \in Seq(Pieces)
  <2>1. ReadLength(q) \in Nat \ {0}
    BY <1>1, <1>3 DEF ReadLength
  <2>2. \A k \in ReadLength(q) + 1 .. Len(q) : q[k] \in Pieces
    BY <1>1, <1>3, <2>1
  <2> QED BY <1>3, <2>1, <2>2, SubSeqProperties
<1>5. more \in Seq(Replies)
  BY <1>1, <1>3, Replied, ConcatProperties
<1> HIDE DEF rest, more
<1>6. /\ toServer' \in [Procs -> Seq(Pieces)] /\ toClient' \in [Procs -> Seq(Replies)]
      /\ \A r \in Procs \ {p} : toServer'[r] = toServer[r] /\ toClient'[r] = toClient[r]
      /\ toServer'[p] = rest /\ toClient'[p] = more
  BY <1>2, <1>4, <1>5 DEF ClientTypes
<1> QED BY <1>6 DEF rest, more, q

\* The client whose request the server handles.
LEMMA Requester ==
    ASSUME Types, PollKept, Scanning, RequestPoll \/ RequestSelect
    PROVE  \E fd \in DOMAIN conn, p \in Procs :
              /\ conn[fd] = p /\ toServer[p] # << >> /\ HandleRequest(fd)
              /\ Hung(fd) => srv' = "ended"
              /\ Hung(fd) <=> pc[p] = "ended"
<1>1. CASE RequestPoll
  <2>1. i \in 2 .. Len(pollfd) /\ pollfd # << >>
    BY <1>1 DEF RequestPoll, RequestInPoll, Scanning, Types, ServerTypes
  <2>2. pollfd[i].fd \in DOMAIN conn
    BY <1>1, <2>1 DEF RequestPoll, RequestInPoll, PollKept, ArrayKept
  <2> QED BY <1>1, <2>2 DEF RequestPoll, RequestInPoll, Types, ServerTypes, Hung
<1>2. CASE RequestSelect
  <2>1. client[i].fd \in DOMAIN conn
    BY <1>2 DEF RequestSelect, RequestInSelect, Scanning
  <2> QED BY <1>2, <2>1 DEF RequestSelect, RequestInSelect, Types, ServerTypes, Hung
<1> QED BY <1>1, <1>2

\* How what has happened is updated.
PastIs(h, u, l, b) == h \in Pasts /\ h.upsets = u /\ h.long = l /\ h.left = b

LEMMA PastField ==
    ASSUME NEW h \in Pasts
    PROVE  /\ PastIs([h EXCEPT !.left = TRUE], h.upsets, h.long, TRUE)
           /\ \A u \in Nat : PastIs([h EXCEPT !.upsets = u], u, h.long, h.left)
           /\ \A l \in SUBSET Procs : PastIs([h EXCEPT !.long = l], h.upsets, l, h.left)
<1>1. PastIs([h EXCEPT !.left = TRUE], h.upsets, h.long, TRUE)
  BY DEF Pasts, PastIs
<1>2. ASSUME NEW u \in Nat
      PROVE  PastIs([h EXCEPT !.upsets = u], u, h.long, h.left)
  BY DEF Pasts, PastIs
<1>3. ASSUME NEW l \in SUBSET Procs
      PROVE  PastIs([h EXCEPT !.long = l], h.upsets, l, h.left)
  BY DEF Pasts, PastIs
<1> QED BY <1>1, <1>2, <1>3

LEMMA PastUpdated ==
    ASSUME past \in Pasts
    PROVE  /\ past' = [past EXCEPT !.left = TRUE] =>
                 PastIs(past', past.upsets, past.long, TRUE)
           /\ past' = [past EXCEPT !.upsets = @ + 1] =>
                 PastIs(past', past.upsets + 1, past.long, past.left)
           /\ \A p \in Procs : past' = [past EXCEPT !.upsets = @ + 1, !.long = @ \cup {p}] =>
                 PastIs(past', past.upsets + 1, past.long \cup {p}, past.left)
           /\ past.upsets \in Nat /\ past.long \subseteq Procs
<1>1. past.upsets \in Nat /\ past.upsets + 1 \in Nat /\ past.long \subseteq Procs
  BY DEF Pasts
<1>2. ASSUME NEW p \in Procs
      PROVE  PastIs([past EXCEPT !.upsets = @ + 1, !.long = @ \cup {p}],
                    past.upsets + 1, past.long \cup {p}, past.left)
  <2> DEFINE g == [past EXCEPT !.upsets = @ + 1]
             l == past.long \cup {p}
  <2>1. PastIs(g, past.upsets + 1, past.long, past.left)
    BY <1>1, PastField
  <2>2. l \in SUBSET Procs
    BY <1>1
  <2> HIDE DEF g, l
  <2>3. PastIs([g EXCEPT !.long = l], g.upsets, l, g.left)
    BY <2>1, <2>2, PastField DEF PastIs
  <2>4. PastIs([g EXCEPT !.long = l], past.upsets + 1, l, past.left)
    BY <2>1, <2>3 DEF PastIs
  <2> QED BY <2>4 DEF g, l
<1> QED BY <1>1, <1>2, PastField

\* What the clients' types say of one field, for an update at one client.
LEMMA ClientTypesNext ==
    ASSUME Types, OneConnection, TableKept, PollKept, Scanning, [Next]_vars
    PROVE  ClientTypes'
<1>1. CASE UNCHANGED <<backlog, path, pc, want, toServer, toClient, outcome, past>>
  BY <1>1 DEF Types, ClientTypes
<1>2. CASE ServListen \/ ServListenFails \/ Poll \/ Select \/ AcceptStale \/ Closed \/ ReadFails
  BY <1>1, <1>2 DEF ServListen, ServListenFails, Poll, Select, AcceptStale, Closed, ReadFails, clientVars
<1>3. CASE Accept
  <2>1. PICK p, fd, m : Accepts(p, fd, m)
    BY <1>3, AcceptStep
  <2>2. backlog' \in Seq(Procs)
    BY <2>1, HeadTailProperties DEF Accepts, Types, ClientTypes
  <2> QED BY <1>3, <2>2 DEF Accept, Types, ClientTypes
<1>4. CASE HungUp
  BY <1>4, PastUpdated DEF PastIs, HungUp, Types, ClientTypes, clientVars
<1>5. CASE RequestPoll \/ RequestSelect
  <2>1. toServer' \in [Procs -> Seq(Pieces)] /\ toClient' \in [Procs -> Seq(Replies)]
    BY <1>5, Requester, Handled DEF Types
  <2> QED BY <1>5, <2>1 DEF RequestPoll, RequestSelect, Types, ClientTypes, clientVars
<1>6. ASSUME NEW p \in Procs, ClientStep(p)
      PROVE  ClientTypes'
  <2>1. CASE Bind(p)
    BY <2>1 DEF Bind, Goto, Types, ClientTypes
  <2>2. CASE Connect(p)
    <3>1. backlog' \in Seq(Procs)
      BY <2>2, AppendProperties DEF Connect, Types, ClientTypes
    <3> QED BY <2>2, <3>1 DEF Connect, Goto, Types, ClientTypes
  <2>3. CASE ConnectFails(p)
    BY <2>3 DEF ConnectFails, Goto, Types, ClientTypes
  <2>4. CASE Write(p)
    <3>1. CASE Listening
      <4>1. CASE want[p] \in Names
        <5>1. Request(want[p]) \in Seq(Pieces)
          <6>1. /\ [part |-> "head", name |-> want[p]] \in Pieces
                /\ [part |-> "tail", name |-> want[p]] \in Pieces
                /\ [part |-> "whole", name |-> want[p]] \in Pieces
            BY <4>1 DEF Pieces
          <6> QED BY <6>1 DEF Request
        <5>2. toServer[p] \o Request(want[p]) \in Seq(Pieces)
          BY <5>1, ConcatProperties DEF Types, ClientTypes
        <5> QED BY <2>4, <3>1, <5>2 DEF Write, Goto, Types, ClientTypes
      <4> QED BY <4>1, <2>4 DEF Write, Types, ClientTypes
    <3>2. CASE ~Listening
      BY <2>4, <3>2 DEF Write, Leave, Goto, Types, ClientTypes
    <3> QED BY <3>1, <3>2
  <2>5. CASE Recv(p)
    <3>1. PICK k \in 1 .. Len(toClient[p]) :
             /\ toClient' = [toClient EXCEPT ![p] = SubSeq(@, k + 1, Len(@))]
             /\ \/ Leave(p)
                \/ UNCHANGED <<pc, want, outcome>>
                \/ \E x : /\ outcome' = [outcome EXCEPT ![p] = x]
                          /\ Goto(p, "idle") \/ Goto(p, "cat")
                          /\ UNCHANGED want
      BY <2>5 DEF Recv
    <3>2. toClient[p] \in Seq(Replies) /\ Len(toClient[p]) \in Nat
      BY DEF Types, ClientTypes
    <3>3. SubSeq(toClient[p], k + 1, Len(toClient[p])) \in Seq(Replies)
      BY <3>2, SubSeqProperties
    <3>4. toClient' \in [Procs -> Seq(Replies)]
      BY <3>1, <3>3 DEF Types, ClientTypes
    <3> QED BY <2>5, <3>1, <3>4 DEF Recv, Leave, Goto, Types, ClientTypes
  <2>6. CASE RecvClosed(p)
    BY <2>6 DEF RecvClosed, Goto, Types, ClientTypes
  <2>7. CASE Cat(p)
    BY <2>7 DEF Cat, Goto, Types, ClientTypes
  <2> QED BY <1>6, <2>1, <2>2, <2>3, <2>4, <2>5, <2>6, <2>7 DEF ClientStep
<1>7. ASSUME NEW p \in Procs, User(p)
      PROVE  ClientTypes'
  <2>1. CASE Ask(p)
    <3>1. past' \in Pasts
      <4>1. past \in Pasts
        BY DEF Types, ClientTypes
      <4>2. \/ past' = past
            \/ past' = [past EXCEPT !.upsets = @ + 1, !.long = @ \cup {p}]
        BY <2>1 DEF Ask
      <4> QED BY <4>1, <4>2, PastUpdated DEF PastIs
    <3> QED BY <2>1, <3>1 DEF Ask, Goto, Types, ClientTypes
  <2>2. CASE End(p)
    BY <2>2 DEF End, Leave, Goto, Types, ClientTypes
  <2>3. CASE Restart(p)
    BY <2>3 DEF Restart, Goto, Types, ClientTypes
  <2>4. CASE Kill(p)
    BY <2>4, PastUpdated DEF PastIs, Kill, Leave, Goto, Types, ClientTypes
  <2>5. CASE Stale(p)
    BY <2>5, PastUpdated DEF PastIs, Stale, Types, ClientTypes
  <2> QED BY <1>7, <2>1, <2>2, <2>3, <2>4, <2>5 DEF User
<1> QED BY <1>1, <1>2, <1>3, <1>4, <1>5, <1>6, <1>7 DEF Next, Server, vars, clientVars
-----------------------------------------------------------------------------
(* Connections and the table of clients.                                    *)

LEMMA OneConnectionNext ==
    ASSUME Types, OneConnection, TableKept, PollKept, Scanning, [Next]_vars
    PROVE  OneConnection'
<1>1. CASE /\ UNCHANGED <<conn, backlog, pc>>
           /\ srv' = "accept" => srv = "accept" \/ backlog # << >>
  BY <1>1 DEF OneConnection, Accepted
<1>2. CASE ServListen \/ ServListenFails \/ Poll \/ Select \/ AcceptStale
           \/ RequestPoll \/ RequestSelect \/ ReadFails
  <2>1. UNCHANGED <<conn, backlog, pc>>
    BY <1>2 DEF ServListen, ServListenFails, Poll, Select, AcceptStale,
                RequestPoll, RequestSelect, ReadFails, clientVars
  <2>2. srv' = "accept" => backlog # << >>
    BY <1>2 DEF ServListen, ServListenFails, Poll, Select, AcceptStale,
                RequestPoll, RequestSelect, ReadFails, Resume
  <2> QED BY <1>1, <2>1, <2>2
<1>3. CASE Accept
  <2>1. PICK p, fd, m : Accepts(p, fd, m)
    BY <1>3, AcceptStep
  <2>2. backlog \in Seq(Procs) /\ backlog # << >> /\ Len(backlog) \in Nat
    BY <2>1 DEF Accepts, Types, ClientTypes
  <2>3. /\ DOMAIN backlog' = 1 .. Len(backlog) - 1
        /\ \A k \in DOMAIN backlog' : k + 1 \in DOMAIN backlog /\ backlog'[k] = backlog[k + 1]
    <3>1. backlog' = Tail(backlog)
      BY <2>1 DEF Accepts
    <3>2. backlog' \in Seq(Procs) /\ Len(backlog') = Len(backlog) - 1
          /\ \A k \in 1 .. Len(backlog') : backlog'[k] = backlog[k + 1]
      BY <2>2, <3>1, HeadTailProperties
    <3> QED BY <2>2, <3>2
  <2>4. \A e, f \in DOMAIN conn' : conn'[e] = conn'[f] => e = f
    BY <2>1 DEF Accepts, Accepted, OneConnection
  <2>5. \A q : Accepted(q)' => Accepted(q) \/ q = p
    BY <2>1 DEF Accepts, Accepted
  <2>6. \A j, k \in DOMAIN backlog' : backlog'[j] = backlog'[k] => j = k
    BY <2>2, <2>3 DEF OneConnection
  <2>7. \A k \in DOMAIN backlog' : ~Accepted(backlog[k])'
    <3>1. ASSUME NEW k \in DOMAIN backlog'
          PROVE  backlog'[k] # p /\ ~Accepted(backlog'[k])
      <4>1. 1 \in DOMAIN backlog /\ k + 1 \in DOMAIN backlog /\ k + 1 # 1
        BY <2>2, <2>3
      <4> QED BY <4>1, <2>1, <2>3 DEF Accepts, OneConnection
    <3> QED BY <3>1, <2>5 DEF Accepted
  <2>8. ASSUME NEW q \in Procs, pc'[q] \in {"bind", "connect"}
        PROVE  ~Accepted(q)' /\ \A k \in DOMAIN backlog' : backlog'[k] # q
    <3>1. pc[q] \in {"bind", "connect"}
      BY <1>3, <2>8 DEF Accept
    <3>2. 1 \in DOMAIN backlog /\ backlog[1] # q
      BY <2>2, <3>1 DEF OneConnection
    <3> QED BY <2>1, <2>3, <2>5, <3>1, <3>2 DEF Accepts, OneConnection
  <2>9. srv' # "accept"
    BY <2>1 DEF Accepts, Resume
  <2> QED BY <2>4, <2>6, <2>7, <2>8, <2>9 DEF OneConnection, Accepted
<1>4. CASE HungUp \/ Closed
  <2>1. UNCHANGED <<backlog, pc>> /\ srv' # "accept"
    BY <1>4 DEF HungUp, Closed, clientVars, Resume
  <2>2. UNCHANGED conn \/ \E fd : conn' = Without(fd)
    BY <1>4 DEF HungUp, Closed
  <2>3. DOMAIN conn' \subseteq DOMAIN conn /\ \A fd \in DOMAIN conn' : conn'[fd] = conn[fd]
    BY <2>2 DEF Without
  <2> QED BY <2>1, <2>3 DEF OneConnection, Accepted
<1>5. ASSUME NEW p \in Procs, ClientStep(p) \/ User(p)
      PROVE  OneConnection'
  <2>1. UNCHANGED <<conn, srv>>
    BY <1>5, ClientsApart
  <2>2. CASE Connect(p)
    <3>1. backlog \in Seq(Procs) /\ backlog' = Append(backlog, p) /\ Len(backlog) \in Nat
      BY <2>2 DEF Connect, Types, ClientTypes
    <3>2. /\ DOMAIN backlog = 1 .. Len(backlog)
          /\ DOMAIN backlog' = 1 .. Len(backlog) + 1 /\ backlog'[Len(backlog) + 1] = p
          /\ \A k \in 1 .. Len(backlog) : backlog'[k] = backlog[k]
          /\ backlog' # << >>
      BY <3>1, AppendProperties
    <3>3. ~Accepted(p) /\ \A k \in DOMAIN backlog : backlog[k] # p
      BY <2>2 DEF Connect, OneConnection
    <3>4. \A k \in DOMAIN backlog' : k \in DOMAIN backlog \/ k = Len(backlog) + 1
      BY <3>1, <3>2
    <3>5. \A j, k \in DOMAIN backlog' : backlog'[j] = backlog'[k] => j = k
      BY <3>2, <3>3, <3>4 DEF OneConnection
    <3>6. \A k \in DOMAIN backlog' : ~Accepted(backlog'[k])
      BY <3>2, <3>3, <3>4 DEF OneConnection
    <3>7. \A q \in Procs : pc'[q] \in {"bind", "connect"} => q # p /\ pc[q] \in {"bind", "connect"}
      BY <2>2 DEF Connect, Goto, Types, ClientTypes
    <3>8. \A q \in Procs : pc'[q] \in {"bind", "connect"} =>
              ~Accepted(q) /\ \A k \in DOMAIN backlog' : backlog'[k] # q
      BY <3>2, <3>4, <3>7 DEF OneConnection
    <3> QED BY <2>1, <3>2, <3>5, <3>6, <3>8 DEF OneConnection, Accepted
  <2>3. CASE ~Connect(p)
    <3>1. UNCHANGED backlog
      BY <1>5, <2>3 DEF ClientStep, Bind, ConnectFails, Write, Recv, RecvClosed, Cat,
                        User, Ask, End, Restart, Kill, Stale
    <3>2. ASSUME NEW q \in Procs, pc'[q] \in {"bind", "connect"}
          PROVE  \/ pc[q] \in {"bind", "connect"}
                 \/ q \notin Range(backlog) /\ ~Accepted(q)
      <4>1. pc \in [Procs -> {"idle", "bind", "connect", "write", "recv", "cat", "ended"}]
        BY DEF Types, ClientTypes
      <4>2. CASE ~Ask(p)
        BY <1>5, <2>3, <3>2, <4>1, <4>2
           DEF ClientStep, Bind, ConnectFails, Write, Recv, RecvClosed, Cat, Leave,
               Goto, User, End, Restart, Kill, Stale
      <4>3. CASE Ask(p)
        BY <3>2, <4>1, <4>3 DEF Ask, Goto
      <4> QED BY <4>2, <4>3
    <3>3. ASSUME NEW q \in Procs, pc'[q] \in {"bind", "connect"}
          PROVE  ~Accepted(q) /\ \A k \in DOMAIN backlog : backlog[k] # q
      BY <3>2, <3>3 DEF OneConnection, Range
    <3> QED BY <2>1, <3>1, <3>3 DEF OneConnection, Accepted
  <2> QED BY <2>2, <2>3
<1> QED BY <1>1, <1>2, <1>3, <1>4, <1>5 DEF Next, Server, vars, serverVars, clientVars

LEMMA TableAdded ==
    ASSUME Types, OneConnection, TableKept, Accept, NEW p, NEW fd, NEW m, Accepts(p, fd, m)
    PROVE  TableKept'
<1>1. client \in Tables /\ client' \in Tables /\ Len(client) \in Nat /\ Len(client') \in Nat
      /\ Len(client) <= Len(client') /\ m \in 1 .. Len(client')
  BY DEF Accepts, AddedAt, Types, ServerTypes, Tables
<1>2. fd # FREE /\ fd # listenfd /\ fd \notin DOMAIN conn /\ loop' = loop
  <2>1. Cardinality(Procs) \in Nat
    BY OpenServerAssumption, FS_CardinalityType
  <2> QED BY <2>1 DEF Accepts, Accept, Fds, FREE, listenfd
<1>3. client'[m] = Entry(fd, p) /\ client'[m].fd = fd /\ client'[m].uid = p
  BY DEF Accepts, AddedAt, Entry
<1>4. ASSUME NEW k \in 1 .. Len(client'), k # m
      PROVE  \/ k \in 1 .. Len(client) /\ client'[k] = client[k]
             \/ ~(k \in 1 .. Len(client)) /\ client'[k].fd = FREE
  BY <1>1, <1>4 DEF Accepts, AddedAt, Entry
<1>5. \A k \in 1 .. Len(client) : k # m => k \in 1 .. Len(client') /\ client'[k] = client[k]
  BY <1>1 DEF Accepts, AddedAt
<1>6. m \in 1 .. Len(client) => client[m].fd = FREE
  BY <1>1 DEF Accepts, AddedAt
<1>7. DOMAIN conn' = DOMAIN conn \cup {fd} /\ conn'[fd] = p
      /\ \A f \in DOMAIN conn : conn'[f] = conn[f]
  BY <1>2 DEF Accepts
<1>8. \A k \in 1 .. Len(client) : client[k].fd # fd
  BY <1>2 DEF TableKept, EntryKept
<1>9. \A k \in 1 .. Len(client') : EntryKept(k)'
  BY <1>2, <1>3, <1>4, <1>7 DEF TableKept, EntryKept
<1>10. \A f \in DOMAIN conn' : \E k \in 1 .. Len(client') : client'[k].fd = f
  <2>1. ASSUME NEW f \in DOMAIN conn
        PROVE  \E k \in 1 .. Len(client') : client'[k].fd = f
    <3>1. PICK k \in 1 .. Len(client) : client[k].fd = f
      BY DEF TableKept
    <3>2. f # FREE
      <4>1. Cardinality(Procs) \in Nat
        BY OpenServerAssumption, FS_CardinalityType
      <4> QED BY <4>1 DEF Types, ServerTypes, Fds, FREE, listenfd
    <3> QED BY <3>1, <3>2, <1>5, <1>6
  <2> QED BY <1>1, <1>3, <1>7, <2>1
<1>11. \A j, k \in 1 .. Len(client') :
          client'[j].fd = client'[k].fd /\ client'[k].fd # FREE => j = k
  BY <1>2, <1>3, <1>4, <1>8 DEF TableKept
<1>12. srv' # "start" /\ srv = "accept"
  BY DEF Accepts, Resume, Accept
<1>13. loop' = "poll" => client' # << >> /\ client'[1].fd = listenfd
  <2>1. loop = "poll" => client # << >> /\ client[1].fd = listenfd
    BY <1>12 DEF TableKept
  <2>2. listenfd # FREE
    BY DEF listenfd, FREE
  <2>3. client # << >> => 1 \in 1 .. Len(client)
    BY <1>1 DEF Tables
  <2>4. loop = "poll" => client'[1] = client[1] /\ Len(client') # 0
    BY <1>1, <1>5, <1>6, <2>1, <2>2, <2>3
  <2> QED BY <1>2, <2>1, <2>4
<1>14. loop' = "select" =>
          \A k \in 1 .. Len(client') : client'[k].fd # FREE => k <= maxi'
  <2>1. CASE loop = "select"
    <3>1. maxi' = Max({maxi, m}) /\ maxi \in Nat /\ m \in Nat
      BY <2>1 DEF Accepts, Types, ServerTypes
    <3>2. maxi' \in Nat /\ maxi <= maxi' /\ m <= maxi'
      BY <3>1, MaxOfTwo
    <3>3. \A k \in 1 .. Len(client) : client[k].fd # FREE => k <= maxi
      BY <2>1 DEF TableKept
    <3>4. ASSUME NEW k \in 1 .. Len(client'), client'[k].fd # FREE
          PROVE  k <= maxi'
      <4>1. k = m \/ (k \in 1 .. Len(client) /\ k <= maxi)
        BY <1>4, <3>3, <3>4
      <4> QED BY <3>1, <3>2, <4>1
    <3> QED BY <3>4
  <2> QED BY <1>2, <2>1
<1>15. maxi' <= Len(client')
  <2>1. maxi <= Len(client) /\ maxi \in Nat
    BY DEF TableKept, Types, ServerTypes
  <2>2. CASE loop = "poll"
    BY <1>1, <2>1, <2>2 DEF Accepts
  <2>3. CASE loop # "poll"
    <3>1. maxi' \in {maxi, m}
      BY <1>1, <2>1, <2>3, MaxOfTwo DEF Accepts
    <3> QED BY <1>1, <2>1, <3>1
  <2> QED BY <2>2, <2>3
<1> QED BY <1>9, <1>10, <1>11, <1>12, <1>13, <1>14, <1>15 DEF TableKept

LEMMA TableDeleted ==
    ASSUME Types, TableKept, UNCHANGED <<loop, maxi>>, NEW fd, NEW m, Closes(fd, m),
           srv \notin {"start", "ended"}, srv' \notin {"start", "ended"}
    PROVE  TableKept'
<1>1. client \in Tables /\ client' \in Tables /\ Len(client) \in Nat /\ Len(client') = Len(client)
      /\ m \in 1 .. Len(client) /\ client[m].fd = fd /\ client'[m].fd = FREE
      /\ \A k \in 1 .. Len(client) : k # m => client'[k] = client[k]
  BY DEF Closes, DeletedAt, Types, ServerTypes, Tables
<1>2. fd \in DOMAIN conn /\ DOMAIN conn' = DOMAIN conn \ {fd} /\ \A f \in DOMAIN conn' : conn'[f] = conn[f]
  BY DEF Closes
<1>3. fd # FREE /\ fd # listenfd
  <2>1. Cardinality(Procs) \in Nat
    BY OpenServerAssumption, FS_CardinalityType
  <2> QED BY <1>2, <2>1 DEF Types, ServerTypes, Fds, FREE, listenfd
<1>4. \A k \in 1 .. Len(client) : k # m => client[k].fd # fd
  BY <1>1, <1>3 DEF TableKept
<1>5. \A k \in 1 .. Len(client') : EntryKept(k)'
  BY <1>1, <1>2, <1>4 DEF TableKept, EntryKept
<1>6. \A f \in DOMAIN conn' : \E k \in 1 .. Len(client') : client'[k].fd = f
  <2>1. ASSUME NEW f \in DOMAIN conn'
        PROVE  \E k \in 1 .. Len(client') : client'[k].fd = f
    <3>1. PICK k \in 1 .. Len(client) : client[k].fd = f
      BY <1>2 DEF TableKept
    <3> QED BY <3>1, <1>1, <1>2
  <2> QED BY <2>1
<1>7. \A j, k \in 1 .. Len(client') :
          client'[j].fd = client'[k].fd /\ client'[k].fd # FREE => j = k
  BY <1>1 DEF TableKept
<1>8. loop' = "poll" => client' # << >> /\ client'[1].fd = listenfd
  <2>1. loop = "poll" => client # << >> /\ client[1].fd = listenfd
    BY DEF TableKept
  <2>2. client # << >> => 1 \in 1 .. Len(client)
    BY <1>1 DEF Tables
  <2> QED BY <1>1, <1>3, <2>1, <2>2
<1>9. maxi' <= Len(client')
      /\ (loop' = "select" => \A k \in 1 .. Len(client') : client'[k].fd # FREE => k <= maxi')
  BY <1>1 DEF TableKept
<1> QED BY <1>5, <1>6, <1>7, <1>8, <1>9 DEF TableKept
\* The server looks at a connection in every pass.
LEMMA Scanned ==
    ASSUME Types, PollKept, Scanning, srv = "scan"
    PROVE  /\ loop = "poll" => i \in 2 .. Len(pollfd) /\ pollfd[i].fd \in DOMAIN conn
           /\ loop = "select" => i \in 1 .. Len(client) /\ client[i].fd \in DOMAIN conn
BY DEF Types, ServerTypes, PollKept, ArrayKept, Scanning

LEMMA TableKeptNext ==
    ASSUME Types, OneConnection, TableKept, PollKept, Scanning, [Next]_vars
    PROVE  TableKept'
<1>1. CASE /\ UNCHANGED <<loop, conn, client, maxi>>
           /\ srv' = "start" => srv = "start"
           /\ srv' \notin {"start", "ended"} => srv \notin {"start", "ended"}
  BY <1>1 DEF TableKept, EntryKept
<1>2. CASE ServListen
  <2>1. /\ srv = "start" /\ client = << >> /\ DOMAIN conn = {} /\ maxi = 0
        /\ srv' = "wait" /\ UNCHANGED <<loop, conn, maxi>>
    BY <1>2 DEF ServListen, TableKept
  <2>2. CASE loop = "poll"
    <3>1. client \in Tables /\ listenfd \in Nat /\ ROOT \in Users /\ Len(client) = 0
      BY <2>1 DEF Tables, listenfd, Users
    <3>2. PICK m \in Nat : AddedAt(client, listenfd, ROOT, client', m)
      BY <1>2, <2>2, <3>1, Added DEF ServListen
    <3>3. client' \in Tables /\ m \in 1 .. Len(client') /\ Len(client') \in Nat
          /\ client'[m].fd = listenfd
          /\ \A k \in 1 .. Len(client') : k # m => client'[k].fd = FREE
      BY <3>1, <3>2 DEF AddedAt, Entry, Tables
    <3>4. m = 1
      <4>1. ~(1 \in 1 .. m - 1)
        BY <3>1, <3>2, <3>3 DEF AddedAt
      <4> QED BY <3>1, <3>2, <3>3, <4>1
    <3>5. client' # << >>
      BY <3>3
    <3> QED BY <2>1, <2>2, <3>3, <3>4, <3>5 DEF TableKept, EntryKept
  <2>3. CASE loop # "poll"
    BY <1>2, <2>1, <2>3 DEF ServListen, TableKept, EntryKept
  <2> QED BY <2>2, <2>3
<1>3. CASE ServListenFails \/ Poll \/ Select \/ AcceptStale \/ RequestPoll \/ RequestSelect \/ ReadFails
  BY <1>1, <1>3 DEF ServListenFails, Poll, Select, AcceptStale, RequestPoll, RequestSelect,
                    ReadFails, Resume, RequestInPoll, RequestInSelect
<1>4. CASE Accept
  BY <1>4, AcceptStep, TableAdded
<1>5. CASE HungUp
  <2>1. PICK fd \in DOMAIN conn : fd = pollfd[i].fd
    BY <1>5, Scanned DEF HungUp
  <2>2. Known(client, fd)
    BY DEF TableKept, Known, Types, ServerTypes
  <2>3. PICK m : Closes(fd, m)
    BY <1>5, <2>1, <2>2, CloseStep DEF HungUp
  <2> QED BY <1>5, <2>1, <2>2, <2>3, TableDeleted DEF HungUp, Resume
<1>6. CASE Closed
  <2>1. PICK fd \in DOMAIN conn : fd = client[i].fd
    BY <1>6, Scanned DEF Closed
  <2>2. PICK m : Closes(fd, m)
    BY <1>6, <2>1, CloseStep DEF Closed
  <2> QED BY <1>6, <2>1, <2>2, TableDeleted DEF Closed, Resume
<1>7. CASE \E p \in Procs : ClientStep(p) \/ User(p)
  BY <1>1, <1>7, ClientsApart
<1> QED BY <1>1, <1>2, <1>3, <1>4, <1>5, <1>6, <1>7 DEF Next, Server, vars, serverVars

\* New events leave the order of the array alone.
LEMMA ArrayRenewed ==
    ASSUME Types, PollKept, UNCHANGED <<loop, conn, client, past>>,
           pollfd' \in Array, Len(pollfd') = Len(pollfd),
           \A k \in 1 .. Len(pollfd) : pollfd'[k].fd = pollfd[k].fd,
           srv \notin {"start", "ended"}, srv' # "start"
    PROVE  PollKept'
<1>1. pollfd \in Array /\ Len(pollfd) \in Nat
  BY DEF Types, ServerTypes, Array
<1>2. SUFFICES ASSUME loop = "poll" PROVE PollKept'
  BY DEF PollKept
<1>3. pollfd # << >> /\ ArrayKept /\ (~past.left => SameOrder)
  BY <1>2 DEF PollKept
<1>4. pollfd' # << >> /\ 1 \in 1 .. Len(pollfd)
  BY <1>1, <1>3 DEF Array
<1>5. \A k \in 2 .. Len(pollfd) : pollfd'[k].fd = pollfd[k].fd
  BY <1>1
<1>6. ArrayKept'
  BY <1>3, <1>4, <1>5 DEF ArrayKept
<1>7. ~past'.left => SameOrder'
  BY <1>3 DEF SameOrder
<1> QED BY <1>4, <1>6, <1>7 DEF PollKept

LEMMA ArrayAdded ==
    ASSUME Types, OneConnection, TableKept, PollKept, Accept, loop = "poll",
           NEW p, NEW fd, NEW m, Accepts(p, fd, m)
    PROVE  PollKept'
<1> DEFINE n == Len(pollfd)
<1>1. pollfd \in Array /\ n \in Nat /\ pollfd # << >> /\ n >= 1
  BY DEF Types, ServerTypes, Array, PollKept, Accept
<1>2. ArrayKept /\ (~past.left => SameOrder) /\ UNCHANGED <<loop, past>> /\ srv' # "start"
  BY <1>1 DEF PollKept, Accept, Accepts, Resume
<1>3. fd \in Nat /\ fd # FREE /\ fd # listenfd /\ fd \notin DOMAIN conn
  <2>1. Cardinality(Procs) \in Nat
    BY OpenServerAssumption, FS_CardinalityType
  <2> QED BY <2>1 DEF Accepts, Fds, FREE, listenfd
<1>4. pollfd' = Append(pollfd, [fd |-> fd, revents |-> {}])
  BY DEF Accepts
<1>5. /\ pollfd' \in Array /\ Len(pollfd') = n + 1 /\ pollfd' # << >>
      /\ \A k \in 1 .. n : pollfd'[k] = pollfd[k]
      /\ pollfd'[n + 1].fd = fd
  <2>1. [fd |-> fd, revents |-> {}] \in [fd : Nat, revents : SUBSET {"POLLIN", "POLLHUP"}]
    BY <1>3
  <2> QED BY <1>1, <1>4, <2>1, AppendProperties DEF Array
<1>6. DOMAIN conn' = DOMAIN conn \cup {fd}
  BY DEF Accepts
<1>7. Cardinality(DOMAIN conn') = Cardinality(DOMAIN conn) + 1 /\ Cardinality(DOMAIN conn) \in Nat
  <2>1. IsFiniteSet(DOMAIN conn)
    BY FreeDescriptor DEF Accept
  <2> QED BY <1>3, <1>6, <2>1, FS_AddElement, FS_CardinalityType
<1>8. ArrayKept'
  <2>1. pollfd'[1].fd = listenfd
    BY <1>1, <1>2, <1>5 DEF ArrayKept
  <2>2. Len(pollfd') = Cardinality(DOMAIN conn') + 1
    BY <1>1, <1>2, <1>5, <1>7 DEF ArrayKept
  <2>3. ASSUME NEW k \in 2 .. Len(pollfd')
        PROVE  \/ k = n + 1
               \/ k \in 2 .. n /\ pollfd'[k] = pollfd[k] /\ pollfd[k].fd \in DOMAIN conn
    BY <1>1, <1>2, <1>5 DEF ArrayKept
  <2>4. \A k \in 2 .. Len(pollfd') : pollfd'[k].fd \in DOMAIN conn'
    BY <1>5, <1>6, <2>3
  <2>5. ASSUME NEW f \in DOMAIN conn'
        PROVE  \E k \in 2 .. Len(pollfd') : pollfd'[k].fd = f
    <3>1. CASE f = fd
      BY <1>1, <1>5, <3>1
    <3>2. CASE f # fd
      <4>1. PICK k \in 2 .. n : pollfd[k].fd = f
        BY <1>2, <1>6, <3>2 DEF ArrayKept
      <4> QED BY <4>1, <1>1, <1>5
    <3> QED BY <3>1, <3>2
  <2>6. \A j, k \in 2 .. Len(pollfd') : pollfd'[j].fd = pollfd'[k].fd => j = k
    BY <1>2, <1>3, <1>5, <2>3 DEF ArrayKept
  <2> QED BY <2>1, <2>2, <2>4, <2>5, <2>6 DEF ArrayKept
<1>9. ASSUME ~past.left
      PROVE  SameOrder'
  <2>1. SameOrder
    BY <1>2, <1>9
  <2>2. client \in Tables /\ client' \in Tables /\ Len(client) \in Nat /\ Len(client') \in Nat
        /\ Len(client) <= Len(client') /\ m \in 1 .. Len(client') /\ client'[m].fd = fd
    BY DEF Accepts, AddedAt, Entry, Types, ServerTypes, Tables
  <2>3. ASSUME NEW k \in 1 .. n
        PROVE  k <= Len(client) /\ client[k].fd = pollfd[k].fd /\ client[k].fd # FREE
    <3>1. k = 1 \/ k \in 2 .. n
      BY <1>1
    <3>2. pollfd[k].fd # FREE
      <4>1. Cardinality(Procs) \in Nat
        BY OpenServerAssumption, FS_CardinalityType
      <4> QED BY <3>1, <4>1, <1>2 DEF ArrayKept, Types, ServerTypes, Fds, FREE, listenfd
    <3> QED BY <1>1, <2>1, <2>2, <3>2 DEF SameOrder
  <2>4. m = n + 1
    <3>1. ~(m \in 1 .. n)
      BY <2>2, <2>3 DEF Accepts, AddedAt
    <3>2. ~(n + 1 \in 1 .. m - 1)
      <4>1. SUFFICES ASSUME n + 1 \in 1 .. m - 1 PROVE FALSE
        OBVIOUS
      <4>2. n + 1 <= Len(client) /\ client[n + 1].fd # FREE
        BY <4>1 DEF Accepts, AddedAt
      <4> QED BY <1>1, <2>1, <2>2, <4>2 DEF SameOrder
    <3> QED BY <1>1, <2>2, <3>1, <3>2
  <2>5. ASSUME NEW k \in 1 .. n
        PROVE  client'[k].fd = pollfd'[k].fd
    <3>1. k \in 1 .. Len(client') /\ k # m /\ k <= Len(client)
      BY <1>1, <2>2, <2>3, <2>4
    <3>2. client'[k] = client[k]
      BY <3>1 DEF Accepts, AddedAt
    <3> QED BY <3>2, <2>3, <1>5
  <2>6. ASSUME NEW k \in 1 .. Len(client'), k > n + 1
        PROVE  client'[k].fd = FREE
    <3>1. k # m /\ k > n
      BY <1>1, <2>4, <2>6
    <3>2. CASE k <= Len(client)
      <4>1. client'[k] = client[k] /\ k \in 1 .. Len(client)
        BY <2>2, <3>1, <3>2 DEF Accepts, AddedAt
      <4> QED BY <3>1, <4>1, <2>1 DEF SameOrder
    <3>3. CASE ~(k <= Len(client))
      BY <3>1, <3>3 DEF Accepts, AddedAt, Entry
    <3> QED BY <3>2, <3>3
  <2>7. \A k \in 1 .. n + 1 : k \in 1 .. n \/ k = n + 1
    BY <1>1
  <2> QED BY <1>1, <1>5, <2>2, <2>4, <2>5, <2>6, <2>7 DEF SameOrder
<1> QED BY <1>2, <1>5, <1>8, <1>9 DEF PollKept

LEMMA ArrayPacked ==
    ASSUME Types, PollKept, loop = "poll", UNCHANGED loop, past'.left = TRUE,
           srv = "scan", srv' # "start", i \in 2 .. Len(pollfd),
           pollfd' = Packed(pollfd, i), NEW m, Closes(pollfd[i].fd, m)
    PROVE  PollKept'
<1> DEFINE n == Len(pollfd)
<1>1. pollfd \in Array /\ n \in Nat /\ pollfd # << >> /\ ArrayKept /\ n >= 2 /\ i \in 1 .. n /\ i \in Nat
  BY DEF Types, ServerTypes, Array, PollKept
<1>2. /\ pollfd' \in Array /\ Len(pollfd') = n - 1
      /\ \A k \in 1 .. n - 1 : pollfd'[k] = IF k = i THEN pollfd[n] ELSE pollfd[k]
  BY <1>1, PackedArray DEF Array
<1>3. PICK fd : fd = pollfd[i].fd
  OBVIOUS
<1>4. fd \in DOMAIN conn /\ DOMAIN conn' = DOMAIN conn \ {fd}
  BY <1>3 DEF Closes
<1>5. Cardinality(DOMAIN conn') = Cardinality(DOMAIN conn) - 1 /\ Cardinality(DOMAIN conn) \in Nat
  <2>1. IsFiniteSet(DOMAIN conn)
    <3>1. IsFiniteSet(Fds)
      <4>1. Cardinality(Procs) \in Nat
        BY OpenServerAssumption, FS_CardinalityType
      <4>2. listenfd + 1 \in Int /\ Cardinality(Procs) + 2 \in Int
        BY <4>1 DEF listenfd
      <4> QED BY <4>2, FS_Interval DEF Fds
    <3> QED BY <3>1, FS_Subset DEF Types, ServerTypes
  <2> QED BY <1>4, <2>1, FS_RemoveElement, FS_CardinalityType
<1>6. pollfd' # << >>
  BY <1>1, <1>2
<1>7. ASSUME NEW k \in 2 .. n - 1
      PROVE  \E j \in 2 .. n : j # i /\ pollfd'[k] = pollfd[j] /\ j = IF k = i THEN n ELSE k
  <2>1. k \in 1 .. n - 1 /\ k \in 2 .. n /\ n \in 2 .. n /\ n # k
    BY <1>1
  <2>2. CASE k = i
    BY <1>2, <2>1, <2>2
  <2>3. CASE k # i
    BY <1>2, <2>1, <2>3
  <2> QED BY <2>2, <2>3
<1>8. ASSUME NEW j \in 2 .. n, j # i
      PROVE  pollfd[j].fd \in DOMAIN conn /\ pollfd[j].fd # fd
  BY <1>1, <1>3, <1>8 DEF ArrayKept
<1>9. ArrayKept'
  <2>1. pollfd'[1].fd = listenfd
    <3>1. 1 \in 1 .. n - 1 /\ i # 1
      BY <1>1
    <3> QED BY <1>1, <1>2, <3>1 DEF ArrayKept
  <2>2. Len(pollfd') = Cardinality(DOMAIN conn') + 1
    BY <1>1, <1>2, <1>5 DEF ArrayKept
  <2>3. \A k \in 2 .. Len(pollfd') : pollfd'[k].fd \in DOMAIN conn'
    BY <1>2, <1>4, <1>7, <1>8
  <2>4. ASSUME NEW f \in DOMAIN conn'
        PROVE  \E k \in 2 .. Len(pollfd') : pollfd'[k].fd = f
    <3>1. PICK k \in 2 .. n : pollfd[k].fd = f
      BY <1>1, <1>4 DEF ArrayKept
    <3>2. k # i
      BY <3>1, <1>3, <1>4
    <3>3. CASE k = n
      <4>1. i \in 2 .. n - 1 /\ i \in 1 .. n - 1
        BY <1>1, <3>2, <3>3
      <4> QED BY <1>2, <3>1, <3>3, <4>1
    <3>4. CASE k # n
      <4>1. k \in 2 .. n - 1 /\ k \in 1 .. n - 1
        BY <1>1, <3>1, <3>4
      <4> QED BY <1>2, <3>1, <3>2, <4>1
    <3> QED BY <3>3, <3>4
  <2>5. ASSUME NEW j \in 2 .. n - 1, NEW k \in 2 .. n - 1, pollfd'[j].fd = pollfd'[k].fd
        PROVE  j = k
    <3>1. PICK a \in 2 .. n : a # i /\ pollfd'[j] = pollfd[a] /\ a = IF j = i THEN n ELSE j
      BY <1>7
    <3>2. PICK b \in 2 .. n : b # i /\ pollfd'[k] = pollfd[b] /\ b = IF k = i THEN n ELSE k
      BY <1>7
    <3>3. a = b
      BY <3>1, <3>2, <2>5, <1>1 DEF ArrayKept
    <3> QED BY <3>1, <3>2, <3>3, <1>1
  <2> QED BY <1>2, <2>1, <2>2, <2>3, <2>4, <2>5 DEF ArrayKept
<1> QED BY <1>6, <1>9 DEF PollKept
LEMMA PollKeptNext ==
    ASSUME Types, OneConnection, TableKept, PollKept, Scanning, [Next]_vars, ServerTypes'
    PROVE  PollKept'
<1>1. CASE /\ UNCHANGED <<loop, conn, client, pollfd>> /\ past'.left = past.left
           /\ srv' = "start" => srv = "start"
           /\ srv' \notin {"start", "ended"} => srv \notin {"start", "ended"}
  BY <1>1 DEF PollKept, ArrayKept, SameOrder
<1>2. CASE loop # "poll" /\ UNCHANGED loop
  BY <1>2 DEF PollKept
<1>3. CASE ServListen
  <2>1. CASE loop = "poll"
    <3>1. /\ srv = "start" /\ client = << >> /\ DOMAIN conn = {} /\ srv' = "wait"
          /\ UNCHANGED <<loop, conn, past>> /\ client' = ClientAdd(client, listenfd, ROOT)
          /\ pollfd' = <<[fd |-> listenfd, revents |-> {}]>>
      BY <1>3, <2>1 DEF ServListen, TableKept
    <3>2. client \in Tables /\ listenfd \in Nat /\ ROOT \in Users /\ Len(client) = 0
      BY <3>1 DEF Tables, listenfd, Users
    <3>3. PICK m \in Nat : AddedAt(client, listenfd, ROOT, client', m)
      BY <3>1, <3>2, Added
    <3>4. client' \in Tables /\ m \in 1 .. Len(client') /\ Len(client') \in Nat
          /\ client'[m].fd = listenfd
          /\ \A k \in 1 .. Len(client') : k # m => client'[k].fd = FREE
      BY <3>2, <3>3 DEF AddedAt, Entry, Tables
    <3>5. m = 1
      <4>1. ~(1 \in 1 .. m - 1)
        BY <3>2, <3>3, <3>4 DEF AddedAt
      <4> QED BY <3>2, <3>3, <3>4, <4>1
    <3>6. pollfd' # << >> /\ Len(pollfd') = 1 /\ pollfd'[1].fd = listenfd
      BY <3>1
    <3>7. Cardinality(DOMAIN conn') = 0
      BY <3>1, FS_EmptySet
    <3>8. 2 .. 1 = {}
      OBVIOUS
    <3>9. ArrayKept'
      BY <3>1, <3>6, <3>7, <3>8 DEF ArrayKept
    <3>10. SameOrder'
      <4>1. \A k \in 1 .. 1 : k = 1
        OBVIOUS
      <4>2. \A k \in 1 .. Len(client') : k > 1 => k # m
        BY <3>5
      <4> QED BY <3>4, <3>5, <3>6, <4>1, <4>2 DEF SameOrder
    <3> QED BY <3>1, <3>6, <3>9, <3>10 DEF PollKept
  <2> QED BY <1>2, <1>3, <2>1 DEF ServListen
<1>4. CASE ServListenFails \/ Select \/ AcceptStale \/ RequestSelect \/ ReadFails
  <2>1. UNCHANGED <<loop, conn, client, pollfd, past>> /\ srv' # "start"
        /\ (srv' \notin {"start", "ended"} => srv \notin {"start", "ended"})
    BY <1>4 DEF ServListenFails, Select, AcceptStale, RequestSelect, RequestInSelect, ReadFails, Resume
  <2> QED BY <1>1, <2>1
<1>5. CASE Poll
  <2>1. pollfd \in Array /\ pollfd' \in Array
    BY DEF Types, ServerTypes, Array
  <2>2. pollfd' = [k \in DOMAIN pollfd |-> [pollfd[k] EXCEPT !.revents = Events(pollfd[k].fd)]]
    BY <1>5 DEF Poll
  <2>3. DOMAIN pollfd = 1 .. Len(pollfd) /\ Len(pollfd) \in Nat /\ Len(pollfd') = Len(pollfd)
    BY <2>1, <2>2 DEF Array
  <2>4. ASSUME NEW k \in 1 .. Len(pollfd)
        PROVE  pollfd'[k].fd = pollfd[k].fd
    <3>1. pollfd[k] \in [fd : Nat, revents : SUBSET {"POLLIN", "POLLHUP"}]
      BY <2>1, ElementOfSeq DEF Array
    <3>2. pollfd'[k] = [pollfd[k] EXCEPT !.revents = Events(pollfd[k].fd)]
      BY <2>2, <2>3
    <3> QED BY <3>1, <3>2
  <2> QED BY <1>5, <2>1, <2>3, <2>4, ArrayRenewed DEF Poll, Resume
<1>6. CASE Accept
  <2>1. PICK p, fd, m : Accepts(p, fd, m)
    BY <1>6, AcceptStep
  <2> QED BY <1>2, <1>6, <2>1, ArrayAdded DEF Accept
<1>7. CASE HungUp
  <2>1. i \in 2 .. Len(pollfd) /\ pollfd[i].fd \in DOMAIN conn
    BY <1>7, Scanned DEF HungUp
  <2>2. Known(client, pollfd[i].fd)
    <3>1. PICK k \in 1 .. Len(client) : client[k].fd = pollfd[i].fd
      BY <2>1 DEF TableKept
    <3>2. k \in DOMAIN client
      BY DEF Types, ServerTypes
    <3> QED BY <3>1, <3>2 DEF Known
  <2>3. PICK m : Closes(pollfd[i].fd, m)
    BY <1>7, <2>1, <2>2, CloseStep DEF HungUp
  <2>4. past'.left = TRUE
    BY <1>7, PastUpdated DEF HungUp, Types, ClientTypes, PastIs
  <2>5. /\ loop = "poll" /\ UNCHANGED loop /\ srv = "scan" /\ srv' # "start"
        /\ pollfd' = Packed(pollfd, i)
    BY <1>7, <2>2 DEF HungUp, Resume
  <2> QED BY <2>1, <2>3, <2>4, <2>5, ArrayPacked
<1>8. CASE RequestPoll
  <2>1. i \in 2 .. Len(pollfd) /\ pollfd \in Array /\ pollfd' \in Array
    BY <1>8, Scanned DEF RequestPoll, RequestInPoll, Types, ServerTypes, Array
  <2>2. pollfd' = pollfd \/ pollfd' = [pollfd EXCEPT ![i].revents = {}]
    BY <1>8 DEF RequestPoll
  <2>3. DOMAIN pollfd' = DOMAIN pollfd /\ Len(pollfd') = Len(pollfd)
    BY <2>1, <2>2 DEF Array
  <2>4. ASSUME NEW k \in 1 .. Len(pollfd)
        PROVE  pollfd'[k].fd = pollfd[k].fd
    <3>1. pollfd[k] \in [fd : Nat, revents : SUBSET {"POLLIN", "POLLHUP"}] /\ k \in DOMAIN pollfd
      <4>1. pollfd[k] \in [fd : Nat, revents : SUBSET {"POLLIN", "POLLHUP"}]
        BY <2>1, ElementOfSeq DEF Array
      <4>2. k \in DOMAIN pollfd
        BY <2>1 DEF Array
      <4> QED BY <4>1, <4>2
    <3>2. pollfd'[k] = pollfd[k] \/ pollfd'[k] = [pollfd[k] EXCEPT !.revents = {}]
      BY <2>2, <3>1
    <3> QED BY <3>1, <3>2
  <2> QED BY <1>8, <2>1, <2>3, <2>4, ArrayRenewed DEF RequestPoll, RequestInPoll, Resume
<1>9. CASE Closed
  BY <1>2, <1>9 DEF Closed
<1>10. ASSUME NEW p \in Procs, ClientStep(p) \/ User(p)
       PROVE  PollKept'
  <2>1. past'.left = past.left
    <3>1. past \in Pasts
      BY DEF Types, ClientTypes
    <3>2. \/ UNCHANGED past
          \/ past' = [past EXCEPT !.upsets = @ + 1]
          \/ past' = [past EXCEPT !.upsets = @ + 1, !.long = @ \cup {p}]
      BY <1>10 DEF ClientStep, Bind, Connect, ConnectFails, Write, Recv, RecvClosed, Cat,
                   User, Ask, End, Restart, Kill, Stale
    <3> QED BY <3>1, <3>2, PastUpdated DEF PastIs
  <2> QED BY <1>1, <1>10, <2>1, ClientsApart
<1> QED BY <1>1, <1>3, <1>4, <1>5, <1>6, <1>7, <1>8, <1>9, <1>10 DEF Next, Server, vars, serverVars

LEMMA ScanningNext ==
    ASSUME Types, OneConnection, TableKept, PollKept, Scanning, [Next]_vars, ServerTypes', TableKept'
    PROVE  Scanning'
<1>1. CASE UNCHANGED <<loop, srv, conn, client, pollfd, rset, i>>
  BY <1>1 DEF Scanning
<1>2. CASE srv' # "scan"
  BY <1>2 DEF Scanning
<1>3. CASE loop = "poll" /\ UNCHANGED loop /\ Resume(ReadyPoll(pollfd'))
  <2>1. pollfd' \in Array
    BY DEF ServerTypes, Array
  <2> QED BY <1>3, <2>1, ReadySets, ResumeAt DEF Scanning
<1>4. ASSUME loop = "select", UNCHANGED <<loop, maxi>>, Resume(ReadySelect(client', rset')),
             rset' \subseteq DOMAIN conn'
      PROVE  Scanning'
  <2>1. maxi \in Nat /\ maxi <= Len(client') /\ client' \in Tables
    BY <1>4 DEF TableKept, Types, ServerTypes, Tables
  <2>2. ReadySelect(client', rset') \in SUBSET Nat
    BY <2>1, ReadySets
  <2>3. srv' = "scan" => i' \in ReadySelect(client', rset')
    BY <1>4, <2>2, ResumeAt
  <2>4. srv' = "scan" => i' \in 1 .. Len(client') /\ client'[i'].fd \in rset'
    BY <2>1, <2>3 DEF ReadySelect, Tables
  <2> QED BY <1>4, <2>4 DEF Scanning
<1>5. CASE ServListen \/ ServListenFails \/ AcceptStale \/ ReadFails
  BY <1>2, <1>5 DEF ServListen, ServListenFails, AcceptStale, ReadFails
<1>6. CASE Poll \/ Accept \/ HungUp \/ RequestPoll
  <2>1. CASE loop = "poll"
    BY <1>2, <1>3, <1>6, <2>1 DEF Poll, Accept, HungUp, RequestPoll
  <2>2. CASE loop # "poll"
    BY <1>2, <1>6, <2>2 DEF Poll, Accept, HungUp, RequestPoll, RequestInPoll
  <2> QED BY <2>1, <2>2
<1>7. CASE Select
  <2>1. CASE backlog = << >>
    BY <1>4, <1>7, <2>1 DEF Select
  <2>2. CASE backlog # << >>
    BY <1>2, <1>7, <2>2 DEF Select
  <2> QED BY <2>1, <2>2
<1>8. CASE Closed
  <2>1. rset \subseteq DOMAIN conn
    BY <1>8 DEF Closed, Scanning
  <2> QED BY <1>4, <1>8, <2>1 DEF Closed, Without
<1>9. CASE RequestSelect
  <2>1. CASE Hung(client[i].fd)
    BY <1>2, <1>9, <2>1 DEF RequestSelect
  <2>2. CASE ~Hung(client[i].fd)
    <3>1. rset \subseteq DOMAIN conn
      BY <1>9 DEF RequestSelect, RequestInSelect, Scanning
    <3> QED BY <1>4, <1>9, <2>2, <3>1 DEF RequestSelect, RequestInSelect
  <2> QED BY <2>1, <2>2
<1>10. CASE \E p \in Procs : ClientStep(p) \/ User(p)
  BY <1>1, <1>10, ClientsApart
<1> QED BY <1>1, <1>5, <1>6, <1>7, <1>8, <1>9, <1>10 DEF Next, Server, vars, serverVars
-----------------------------------------------------------------------------
(* Requests and answers.                                                    *)

\* The clients that never sent a name too long.
Good == Procs \ past.long

\* handle_request on a whole request of such a client.
LEMMA HandledWhole ==
    ASSUME ClientTypes, NEW fd, NEW p \in Procs, conn[fd] = p, HandleRequest(fd),
           NEW name \in Names, toServer[p] = <<Whole(name)>>, toClient[p] = << >>
    PROVE  toServer'[p] = << >> /\ toClient'[p] = Answer(Whole(name))
<1>1. /\ toServer'[p] = SubSeq(toServer[p], ReadLength(toServer[p]) + 1, Len(toServer[p]))
      /\ toClient'[p] = toClient[p] \o Answer(Head(toServer[p]))
  <2>1. toServer[p] # << >>
    OBVIOUS
  <2> QED BY <2>1, Handled
<1>2. Len(toServer[p]) = 1 /\ Head(toServer[p]) = Whole(name) /\ ReadLength(toServer[p]) = 1
  BY DEF ReadLength, Whole
<1>3. SubSeq(toServer[p], 2, 1) = << >>
  BY SubSeqEmpty
<1>4. << >> \o Answer(Whole(name)) = Answer(Whole(name))
  <2>1. Whole(name) \in Pieces
    BY DEF Whole, Pieces
  <2> QED BY <2>1, Replied, ConcatEmptySeq
<1> QED BY <1>1, <1>2, <1>3, <1>4

\* The answers a request that fits in the buffer can get.
LEMMA WholeAnswer ==
    ASSUME NEW name \in Names \ Long
    PROVE  /\ Granted(Whole(name)) => Answer(Whole(name)) = <<[kind |-> "fd", file |-> name]>>
           /\ ~Granted(Whole(name)) => Answer(Whole(name)) = SendErr /\ name \in Missing
<1>1. Granted(Whole(name)) <=> name \in Files
  <2>1. Whole(name).part = "whole" /\ Whole(name).name = name
    BY DEF Whole
  <2>2. BufArgs(Whole(name)) = <<"open", name, "oflag">>
    BY <2>1 DEF BufArgs
  <2>3. CliArgs(<<"open", name, "oflag">>)
    BY DEF CliArgs
  <2> QED BY <2>1, <2>2, <2>3 DEF Granted, NullTerminated
<1>2. Whole(name).name = name
  BY DEF Whole
<1> QED BY <1>1, <1>2 DEF Answer, SendFd, Names

\* What recv_fd makes of the answer to a request that fits in the buffer.
LEMMA ReceivedWhole ==
    ASSUME Types, NEW p \in Procs, Paired(p), Recv(p)
    PROVE  /\ toClient' \in [Procs -> Seq(Replies)]
           /\ UNCHANGED want
           /\ \/ /\ UNCHANGED <<pc, outcome>>
                 /\ toClient'[p] = Tail(SendErr) /\ ~Granted(Whole(want[p]))
              \/ /\ toClient'[p] = << >>
                 /\ \/ Goto(p, "idle") /\ outcome' = [outcome EXCEPT ![p] = "error"]
                       /\ want[p] \in Missing
                    \/ Goto(p, "cat") /\ outcome' = [outcome EXCEPT ![p] = want[p]]
<1> DEFINE q == toClient[p]
           text == [kind |-> "text", file |-> NONE]
           err == [kind |-> "error", file |-> NONE]
           desc == [kind |-> "fd", file |-> want[p]]
<1>1. pc[p] = "recv" /\ want[p] \in Names \ Long /\ q \in Seq(Replies)
  BY DEF Recv, Paired, Types, ClientTypes
<1>2. q # << >>
  BY DEF Recv
<1>3. SendErr = <<text, err>> /\ Tail(SendErr) = <<err>>
  BY DEF SendErr
<1>4. \/ q = <<desc>>
      \/ q \in {<<text, err>>, <<err>>} /\ ~Granted(Whole(want[p])) /\ want[p] \in Missing
  BY <1>1, <1>2, <1>3, WholeAnswer DEF Paired
<1>5. PICK k \in 1 .. Len(q) :
        LET taken == SubSeq(q, 1, k)
            early == { taken[m].kind : m \in 1 .. k - 1 }
        IN
        /\ toClient' = [toClient EXCEPT ![p] = SubSeq(q, k + 1, Len(q))]
        /\ \/ /\ "error" \in early
              /\ Leave(p)
           \/ /\ taken[k].kind = "text"
              /\ UNCHANGED <<pc, want, outcome>>
           \/ /\ taken[k].kind = "error"
              /\ outcome' = [outcome EXCEPT ![p] = "error"]
              /\ Goto(p, "idle") /\ UNCHANGED want
           \/ /\ taken[k].kind = "fd"
              /\ outcome' = [outcome EXCEPT ![p] = taken[k].file]
              /\ Goto(p, "cat") /\ UNCHANGED want
  BY DEF Recv
<1> DEFINE taken == SubSeq(q, 1, k)
           early == { taken[m].kind : m \in 1 .. k - 1 }
           rest == SubSeq(q, k + 1, Len(q))
<1> HIDE DEF q
<1>6. Len(q) \in Nat /\ k \in Nat /\ taken[k] = q[k]
      /\ \A m \in 1 .. k - 1 : taken[m] = q[m]
  <2>1. Len(q) \in Nat /\ k \in Nat
    BY <1>1
  <2>2. \A m \in 1 .. k : q[m] \in Replies
    BY <1>1, <2>1
  <2>3. \A m \in 1 .. k : taken[m] = q[m]
    BY <2>1, <2>2, SubSeqProperties
  <2>4. k \in 1 .. k /\ \A m \in 1 .. k - 1 : m \in 1 .. k
    BY <2>1
  <2> QED BY <2>1, <2>3, <2>4
<1>7. toClient' = [toClient EXCEPT ![p] = rest]
  BY <1>5
<1>8. rest \in Seq(Replies) /\ Len(rest) = Len(q) - k
      /\ (k = Len(q) => rest = << >>)
      /\ \A m \in 1 .. Len(q) - k : rest[m] = q[k + m]
  <2>1. \A m \in k + 1 .. Len(q) : q[m] \in Replies
    BY <1>1, <1>6
  <2>2. k + 1 \in Int /\ Len(q) \in Int /\ Len(q) - (k + 1) + 1 = Len(q) - k
        /\ \A m \in 1 .. Len(q) - k : (k + 1) + m - 1 = k + m
    BY <1>6
  <2>3. rest \in Seq(Replies) /\ Len(rest) = Len(q) - k
    <3>1. rest \in Seq(Replies)
          /\ Len(rest) = IF k + 1 <= Len(q) THEN Len(q) - (k + 1) + 1 ELSE 0
      BY <2>1, <2>2, SubSeqProperties
    <3>2. k <= Len(q)
      OBVIOUS
    <3> HIDE DEF rest
    <3> QED BY <1>6, <3>1, <3>2
  <2>4. \A m \in 1 .. Len(q) - k : rest[m] = q[k + m]
    BY <2>1, <2>2, SubSeqProperties
  <2> QED BY <2>3, <2>4, <1>6
<1>9. toClient' \in [Procs -> Seq(Replies)] /\ toClient'[p] = rest
  BY <1>7, <1>8 DEF Types, ClientTypes
<1>10. \/ /\ "error" \in early
          /\ Leave(p)
      \/ /\ taken[k].kind = "text"
         /\ UNCHANGED <<pc, want, outcome>>
      \/ /\ taken[k].kind = "error"
         /\ outcome' = [outcome EXCEPT ![p] = "error"]
         /\ Goto(p, "idle") /\ UNCHANGED want
      \/ /\ taken[k].kind = "fd"
         /\ outcome' = [outcome EXCEPT ![p] = taken[k].file]
         /\ Goto(p, "cat") /\ UNCHANGED want
  BY <1>5
<1>11. "error" \in early => \E m \in 1 .. k - 1 : q[m].kind = "error"
  BY <1>6
<1> HIDE DEF taken, early, rest
<1>12. CASE q = <<desc>>
  <2>1. Len(q) = 1 /\ q[1] = desc /\ k = 1 /\ 1 .. k - 1 = {}
    BY <1>12
  <2> QED BY <1>6, <1>8, <1>9, <1>10, <1>11, <2>1
<1>13. CASE q = <<err>>
  <2>1. Len(q) = 1 /\ q[1] = err /\ k = 1 /\ 1 .. k - 1 = {} /\ q # <<desc>>
    BY <1>13
  <2> QED BY <1>4, <1>6, <1>8, <1>9, <1>10, <1>11, <2>1
<1>14. CASE q = <<text, err>>
  <2>1. Len(q) = 2 /\ q[1] = text /\ q[2] = err /\ q # <<desc>>
    BY <1>14
  <2>2. \A m \in 1 .. k - 1 : m = 1
    BY <2>1
  <2>3. ~("error" \in early)
    BY <1>11, <2>1, <2>2
  <2>4. CASE k = 1
    <3>1. rest = <<err>>
      <4>1. Len(rest) = 1 /\ rest[1] = err /\ rest \in Seq(Replies)
        BY <1>8, <2>1, <2>4
      <4>2. <<err>> \in Seq(Replies) /\ Len(<<err>>) = 1 /\ <<err>>[1] = err
        BY <4>1
      <4> QED BY <4>1, <4>2, SeqEqual
    <3> QED BY <1>3, <1>4, <1>6, <1>9, <1>10, <2>1, <2>3, <2>4, <3>1
  <2>5. CASE k = 2
    BY <1>4, <1>6, <1>8, <1>9, <1>10, <2>1, <2>3, <2>5
  <2> QED BY <2>1, <2>4, <2>5
<1> QED BY <1>4, <1>12, <1>13, <1>14
\* A step of one client leaves the others alone.
LEMMA OthersKept ==
    ASSUME Types, NEW p \in Procs, ClientStep(p) \/ User(p), NEW q \in Procs, q # p
    PROVE  /\ pc'[q] = pc[q] /\ want'[q] = want[q] /\ outcome'[q] = outcome[q]
           /\ toServer'[q] = toServer[q] /\ toClient'[q] = toClient[q]
<1>1. CASE Bind(p) \/ Connect(p) \/ ConnectFails(p)
  BY <1>1 DEF Bind, Connect, ConnectFails, Goto, Types, ClientTypes
<1>2. CASE Write(p)
  BY <1>2 DEF Write, Leave, Goto, Types, ClientTypes
<1>3. CASE Recv(p)
  BY <1>3 DEF Recv, Leave, Goto, Types, ClientTypes
<1>4. CASE RecvClosed(p) \/ Cat(p)
  BY <1>4 DEF RecvClosed, Cat, Goto, Types, ClientTypes
<1>5. CASE Ask(p)
  BY <1>5 DEF Ask, Goto, Types, ClientTypes
<1>6. CASE End(p) \/ Restart(p) \/ Kill(p) \/ Stale(p)
  BY <1>6 DEF End, Restart, Kill, Stale, Leave, Goto, Types, ClientTypes
<1> QED BY <1>1, <1>2, <1>3, <1>4, <1>5, <1>6 DEF ClientStep, User

\* What a client's step adds to what has happened.
LEMMA Upsets ==
    ASSUME Types, NEW p \in Procs, ClientStep(p) \/ User(p)
    PROVE  /\ past.long \subseteq past'.long /\ past.upsets <= past'.upsets
           /\ past.upsets \in Nat /\ past'.upsets \in Nat
           /\ UNCHANGED past \/ past'.upsets > 0
           /\ Ask(p) => want'[p] \in Names /\ (want'[p] \in Long => p \in past'.long)
<1>1. past \in Pasts
  BY DEF Types, ClientTypes
<1>2. \/ UNCHANGED past
      \/ past' = [past EXCEPT !.upsets = @ + 1]
      \/ past' = [past EXCEPT !.upsets = @ + 1, !.long = @ \cup {p}]
  BY DEF ClientStep, Bind, Connect, ConnectFails, Write, Recv, RecvClosed, Cat,
         User, Ask, End, Restart, Kill, Stale
<1>3. ASSUME Ask(p)
      PROVE  /\ want'[p] \in Names
             /\ want'[p] \in Long => past' = [past EXCEPT !.upsets = @ + 1, !.long = @ \cup {p}]
  BY <1>3 DEF Ask, Types, ClientTypes
<1>4. past.upsets \in Nat /\ past.long \subseteq Procs
  BY <1>1 DEF Pasts
<1>5. /\ past.long \subseteq past'.long /\ past.upsets <= past'.upsets
      /\ past'.upsets \in Nat
      /\ UNCHANGED past \/ past'.upsets > 0
  <2>1. CASE UNCHANGED past
    BY <1>4, <2>1
  <2>2. CASE ~UNCHANGED past
    <3>1. past'.upsets = past.upsets + 1 /\ past.long \subseteq past'.long
      BY <1>1, <1>2, <2>2, PastUpdated DEF PastIs
    <3> QED BY <1>4, <3>1
  <2> QED BY <2>1, <2>2
<1>6. past' = [past EXCEPT !.upsets = @ + 1, !.long = @ \cup {p}] => p \in past'.long
  BY <1>1, PastUpdated DEF PastIs
<1> QED BY <1>3, <1>4, <1>5, <1>6

LEMMA ServerLeavesClients ==
    ASSUME Types, Server
    PROVE  /\ UNCHANGED <<pc, want, outcome>> /\ srv # "ended"
           /\ past'.long = past.long /\ past'.upsets = past.upsets
           /\ RequestPoll \/ RequestSelect \/ UNCHANGED <<toServer, toClient>>
<1>1. past \in Pasts
  BY DEF Types, ClientTypes
<1>2. UNCHANGED past \/ past' = [past EXCEPT !.left = TRUE]
  BY DEF Server, ServListen, ServListenFails, Poll, Select, Accept, AcceptStale, HungUp,
         RequestPoll, Closed, RequestSelect, ReadFails
<1>3. past'.long = past.long /\ past'.upsets = past.upsets
  BY <1>1, <1>2, PastUpdated DEF PastIs
<1> QED BY <1>3 DEF Server, ServListen, ServListenFails, Poll, Select, Accept, AcceptStale, HungUp,
         RequestPoll, RequestInPoll, Closed, RequestSelect, RequestInSelect, ReadFails, clientVars

LEMMA PairedNext ==
    ASSUME Types, PollKept, Scanning, Quiet, \A p \in Good : Paired(p), [Next]_vars
    PROVE  (\A p \in Good : Paired(p))'
<1>1. SUFFICES ASSUME NEW q \in Procs, q \notin past'.long
               PROVE  Paired(q)'
  BY DEF Good
<1>2. ASSUME q \in Good, srv' = "ended" \/ srv # "ended",
             pc'[q] = pc[q], want'[q] = want[q], outcome'[q] = outcome[q],
             toServer'[q] = toServer[q], toClient'[q] = toClient[q]
      PROVE  Paired(q)'
  BY <1>2 DEF Paired
<1>3. CASE UNCHANGED vars
  <2>1. Paired(q)
    BY <1>1, <1>3 DEF Good, vars
  <2> QED BY <1>3, <2>1 DEF vars, clientVars, serverVars, Paired
<1>4. CASE Server
  <2>1. /\ UNCHANGED <<pc, want, outcome>> /\ srv # "ended" /\ q \in Good
        /\ RequestPoll \/ RequestSelect \/ UNCHANGED <<toServer, toClient>>
    BY <1>1, <1>4, ServerLeavesClients DEF Good
  <2>2. CASE UNCHANGED <<toServer, toClient>>
    BY <1>2, <2>1, <2>2
  <2>3. CASE RequestPoll \/ RequestSelect
    <3>1. PICK fd \in DOMAIN conn, p \in Procs :
              conn[fd] = p /\ toServer[p] # << >> /\ HandleRequest(fd)
      BY <2>3, Requester
    <3>2. CASE q # p
      BY <1>2, <2>1, <3>1, <3>2, Handled DEF Types
    <3>3. CASE q = p
      <4>1. CASE pc[p] = "ended"
        BY <2>1, <3>3, <4>1 DEF Paired
      <4>2. CASE pc[p] # "ended"
        <5>1. /\ pc[p] = "recv" /\ toClient[p] = << >> /\ toServer[p] = <<Whole(want[p])>>
              /\ want[p] \in Names
          BY <2>1, <3>1, <3>3, <4>2 DEF Paired, Types, ClientTypes
        <5>2. toServer'[p] = << >> /\ toClient'[p] = Answer(Whole(want[p]))
          BY <3>1, <5>1, HandledWhole DEF Types
        <5> QED BY <2>1, <3>3, <5>1, <5>2 DEF Paired
      <4> QED BY <4>1, <4>2
    <3> QED BY <3>2, <3>3
  <2> QED BY <2>1, <2>2, <2>3
<1>5. ASSUME NEW p \in Procs, ClientStep(p) \/ User(p)
      PROVE  Paired(q)'
  <2>1. UNCHANGED srv /\ q \in Good
    BY <1>1, <1>5, ClientsApart, Upsets DEF Good
  <2>2. CASE q # p
    BY <1>2, <1>5, <2>1, <2>2, OthersKept
  <2>3. SUFFICES ASSUME q = p
                 PROVE  Paired(p)'
    BY <2>2
  <2>4. Paired(p) /\ p \notin past'.long
    BY <1>1, <2>1, <2>3
  <2>5. CASE Bind(p) \/ Connect(p)
    BY <2>1, <2>4, <2>5 DEF Paired, Bind, Connect, Goto, Types, ClientTypes
  <2>6. CASE ConnectFails(p)
    BY <2>1, <2>4, <2>6 DEF Paired, ConnectFails, Goto, Types, ClientTypes
  <2>7. CASE Write(p)
    <3>1. CASE Listening
      <4>1. srv # "ended" /\ toServer[p] = << >> /\ toClient[p] = << >> /\ want[p] \in Names \ Long
        BY <2>4, <2>7, <3>1 DEF Paired, Write, Listening
      <4>2. Request(want[p]) = <<Whole(want[p])>>
        BY <4>1 DEF Request, Whole
      <4>3. << >> \o <<Whole(want[p])>> = <<Whole(want[p])>>
        <5>1. <<Whole(want[p])>> \in Seq(Pieces)
          BY <4>1 DEF Whole, Pieces
        <5> QED BY <5>1, ConcatEmptySeq
      <4>4. toServer'[p] = <<Whole(want[p])>> /\ pc'[p] = "recv"
        BY <2>7, <3>1, <4>1, <4>2, <4>3 DEF Write, Goto, Types, ClientTypes
      <4> QED BY <2>4, <2>7, <3>1, <4>1, <4>4 DEF Paired, Write
    <3>2. CASE ~Listening
      <4>1. pc'[p] = "ended" /\ outcome'[p] = NONE /\ NONE # "error"
        BY <2>7, <3>2, OpenServerAssumption DEF Write, Leave, Goto, Types, ClientTypes
      <4> QED BY <4>1 DEF Paired
    <3> QED BY <3>1, <3>2
  <2>8. CASE Recv(p)
    <3>1. /\ UNCHANGED want
          /\ \/ /\ UNCHANGED <<pc, outcome>>
                /\ toClient'[p] = Tail(SendErr) /\ ~Granted(Whole(want[p]))
             \/ /\ toClient'[p] = << >>
                /\ \/ Goto(p, "idle") /\ outcome' = [outcome EXCEPT ![p] = "error"]
                      /\ want[p] \in Missing
                   \/ Goto(p, "cat") /\ outcome' = [outcome EXCEPT ![p] = want[p]]
      BY <2>4, <2>8, ReceivedWhole
    <3>2. /\ pc[p] = "recv" /\ toClient[p] # << >> /\ UNCHANGED toServer
          /\ toServer[p] = << >> /\ want[p] \in Names \ Long /\ want[p] # "error"
      <4>1. pc[p] = "recv" /\ toClient[p] # << >> /\ UNCHANGED toServer
        BY <2>8 DEF Recv
      <4> QED BY <2>4, <4>1, OpenServerAssumption DEF Paired
    <3>3. CASE UNCHANGED <<pc, outcome>> /\ toClient'[p] = Tail(SendErr) /\ ~Granted(Whole(want[p]))
      BY <2>4, <3>1, <3>2, <3>3 DEF Paired
    <3>4. CASE toClient'[p] = << >> /\ Goto(p, "idle") /\ outcome' = [outcome EXCEPT ![p] = "error"]
                 /\ want[p] \in Missing
      <4>1. pc'[p] = "idle" /\ outcome'[p] = "error"
        BY <3>4 DEF Goto, Types, ClientTypes
      <4> QED BY <3>1, <3>2, <3>4, <4>1 DEF Paired
    <3>5. CASE toClient'[p] = << >> /\ Goto(p, "cat") /\ outcome' = [outcome EXCEPT ![p] = want[p]]
      <4>1. pc'[p] = "cat" /\ outcome'[p] = want[p]
        BY <3>5 DEF Goto, Types, ClientTypes
      <4> QED BY <3>1, <3>2, <3>5, <4>1 DEF Paired
    <3> QED BY <3>1, <3>3, <3>4, <3>5
  <2>9. CASE RecvClosed(p)
    <3>1. srv # "start"
      BY <2>9 DEF RecvClosed, Quiet
    <3>2. srv = "ended"
      BY <2>9, <3>1 DEF RecvClosed, Listening
    <3> QED BY <2>1, <2>4, <2>9, <3>2 DEF Paired, RecvClosed, Goto, Types, ClientTypes
  <2>10. CASE Cat(p)
    <3>1. outcome'[p] # "error" /\ pc'[p] = "idle"
      BY <2>10, OpenServerAssumption DEF Cat, Goto, Types, ClientTypes
    <3> QED BY <2>1, <2>4, <2>10, <3>1 DEF Paired, Cat
  <2>11. CASE Ask(p)
    <3>1. outcome'[p] # "error" /\ pc'[p] \in {"write", "bind"}
      BY <2>11, OpenServerAssumption DEF Ask, Goto, Types, ClientTypes
    <3>2. want'[p] \in Names \ Long
      <4>1. want'[p] \in Names /\ (want'[p] \in Long => p \in past'.long)
        BY <1>5, <2>11, Upsets
      <4> QED BY <2>4, <4>1
    <3> QED BY <2>1, <2>4, <2>11, <3>1, <3>2 DEF Paired, Ask
  <2>12. CASE End(p) \/ Kill(p)
    <3>1. outcome'[p] # "error" /\ pc'[p] = "ended"
      BY <2>12, OpenServerAssumption DEF End, Kill, Leave, Goto, Types, ClientTypes
    <3> QED BY <3>1 DEF Paired
  <2>13. CASE Restart(p)
    <3>1. pc'[p] = "idle" /\ toServer'[p] = << >> /\ toClient'[p] = << >>
      BY <2>13 DEF Restart, Goto, Types, ClientTypes
    <3> QED BY <2>1, <2>4, <2>13, <3>1 DEF Paired, Restart
  <2>14. CASE Stale(p)
    BY <2>1, <2>4, <2>14 DEF Paired, Stale
  <2> QED BY <1>5, <2>5, <2>6, <2>7, <2>8, <2>9, <2>10, <2>11, <2>12, <2>13, <2>14
          DEF ClientStep, User
<1> QED BY <1>3, <1>4, <1>5 DEF Next
LEMMA QuietNext ==
    ASSUME Types, OneConnection, TableKept, PollKept, Scanning, Quiet,
           \A p \in Good : Paired(p), [Next]_vars
    PROVE  Quiet'
<1>1. past.upsets \in Nat
  BY DEF Types, ClientTypes, Pasts
<1>2. past.upsets = 0 => Good = Procs
  BY <1>1 DEF Quiet, Good
<1>3. CASE UNCHANGED vars
  BY <1>3 DEF Quiet, ServerStays, vars, serverVars, clientVars
<1>4. CASE Server
  <2>1. /\ UNCHANGED <<pc, want, outcome>> /\ srv # "ended"
        /\ past'.long = past.long /\ past'.upsets = past.upsets
        /\ RequestPoll \/ RequestSelect \/ UNCHANGED <<toServer, toClient>>
    BY <1>4, ServerLeavesClients
  <2>2. srv' # "start"
    BY <1>4 DEF Server, ServListen, ServListenFails, Poll, Select, Accept, AcceptStale, HungUp,
         RequestPoll, RequestInPoll, Closed, RequestSelect, RequestInSelect, ReadFails, Resume
  <2>3. (\E p \in Procs : path'[p] = "stale") => past.upsets > 0
    <3>1. CASE Accept
      BY <3>1 DEF Accept, Quiet, Types, ClientTypes
    <3>2. CASE ~Accept
      <4>1. UNCHANGED path
        BY <1>4, <3>2 DEF Server, ServListen, ServListenFails, Poll, Select, AcceptStale, HungUp,
             RequestPoll, Closed, RequestSelect, ReadFails, clientVars
      <4> QED BY <4>1 DEF Quiet
    <3> QED BY <3>1, <3>2
  <2>4. ASSUME past.upsets = 0, NEW p \in Procs, pc[p] = "ended"
        PROVE  toServer[p] = << >> /\ toClient[p] = << >>
    BY <2>1, <2>4 DEF Quiet
  <2>5. ASSUME past.upsets = 0, NEW p \in Procs, pc[p] = "ended"
        PROVE  toServer'[p] = << >> /\ toClient'[p] = << >>
    <3>1. CASE UNCHANGED <<toServer, toClient>>
      BY <2>4, <2>5, <3>1
    <3>2. CASE RequestPoll \/ RequestSelect
      <4>1. PICK fd \in DOMAIN conn, q \in Procs :
                conn[fd] = q /\ toServer[q] # << >> /\ HandleRequest(fd)
        BY <3>2, Requester
      <4>2. p # q
        BY <2>4, <2>5, <4>1
      <4> QED BY <2>4, <2>5, <4>1, <4>2, Handled DEF Types
    <3> QED BY <2>1, <3>1, <3>2
  <2>6. ASSUME srv' = "ended", past.upsets = 0
        PROVE  client' = << >>
    <3>1. CASE ServListenFails
      BY <3>1 DEF ServListenFails, TableKept
    <3>2. CASE AcceptStale
      <4>1. Head(backlog) \in Procs
        BY <3>2 DEF AcceptStale, OneConnection, Types, ClientTypes
      <4> QED BY <1>1, <2>6, <3>2, <4>1 DEF AcceptStale, Quiet
    <3>3. CASE HungUp
      <4>1. pollfd[i].fd \in DOMAIN conn
        BY <3>3, Scanned DEF HungUp
      <4>2. Known(client, pollfd[i].fd)
        <5>1. PICK k \in 1 .. Len(client) : client[k].fd = pollfd[i].fd
          BY <4>1 DEF TableKept
        <5>2. k \in DOMAIN client
          BY DEF Types, ServerTypes
        <5> QED BY <5>1, <5>2 DEF Known
      <4> QED BY <2>6, <3>3, <4>2 DEF HungUp, Resume
    <3>4. CASE RequestPoll \/ RequestSelect
      <4>1. CASE RequestPoll
        <5>1. pollfd[i].fd \in DOMAIN conn
          BY <4>1, Scanned DEF RequestPoll, RequestInPoll
        <5>2. Hung(pollfd[i].fd) /\ toServer[conn[pollfd[i].fd]] # << >>
          BY <2>6, <4>1 DEF RequestPoll, RequestInPoll, Resume
        <5> QED BY <2>4, <2>6, <5>1, <5>2 DEF Hung, Types, ServerTypes
      <4>2. CASE RequestSelect
        <5>1. client[i].fd \in DOMAIN conn
          BY <4>2, Scanned DEF RequestSelect, RequestInSelect
        <5>2. Hung(client[i].fd) /\ toServer[conn[client[i].fd]] # << >>
          BY <2>6, <4>2 DEF RequestSelect, RequestInSelect, Resume
        <5> QED BY <2>4, <2>6, <5>1, <5>2 DEF Hung, Types, ServerTypes
      <4> QED BY <3>4, <4>1, <4>2
    <3>5. CASE ReadFails
      <4>1. PICK fd : fd = IF loop = "poll" THEN pollfd[i].fd ELSE client[i].fd
        OBVIOUS
      <4>2. Hung(fd) /\ toClient[conn[fd]] # << >>
        BY <3>5, <4>1 DEF ReadFails
      <4>3. fd \in DOMAIN conn
        BY <3>5, <4>1, Scanned DEF ReadFails, Types, ServerTypes
      <4> QED BY <2>4, <2>6, <4>2, <4>3 DEF Hung, Types, ServerTypes
    <3> QED BY <1>4, <2>6, <3>1, <3>2, <3>3, <3>4, <3>5
            DEF Server, ServListen, Poll, Select, Accept, Closed, Resume
  <2>7. past'.upsets > 0 <=> ~(past.upsets = 0)
    BY <1>1, <2>1
  <2>8. ServerStays'
    BY <2>6, <2>7 DEF ServerStays
  <2>9. past'.long # {} => past'.upsets > 0
    BY <2>1 DEF Quiet
  <2> QED BY <2>1, <2>2, <2>3, <2>5, <2>8, <2>9 DEF Quiet
<1>5. ASSUME NEW p \in Procs, ClientStep(p) \/ User(p)
      PROVE  Quiet'
  <2>1. UNCHANGED <<srv, client>>
    BY <1>5, ClientsApart
  <2>2. /\ past.long \subseteq past'.long /\ past.upsets <= past'.upsets
        /\ past.upsets \in Nat /\ past'.upsets \in Nat
        /\ UNCHANGED past \/ past'.upsets > 0
    BY <1>5, Upsets
  <2>3. srv = "start" => \A q \in Procs : pc'[q] # "recv"
    <3>1. SUFFICES ASSUME srv = "start", pc'[p] = "recv"
                   PROVE  FALSE
      BY <1>5, OthersKept DEF Quiet
    <3>2. pc[p] # "recv" /\ ~Listening
      BY <3>1 DEF Quiet, Listening
    <3> QED BY <1>5, <3>1, <3>2
            DEF ClientStep, Bind, Connect, ConnectFails, Write, Recv, RecvClosed, Cat,
                User, Ask, End, Restart, Kill, Stale, Leave, Goto, Types, ClientTypes
  <2>4. CASE past'.upsets > 0
    <3>1. ~(past'.upsets = 0)
      BY <2>2, <2>4
    <3> QED BY <2>1, <2>3, <2>4, <3>1 DEF Quiet, ServerStays
  <2>5. CASE UNCHANGED past /\ past.upsets = 0
    <3>1. Paired(p) /\ past.long = {}
      BY <1>1, <1>2, <2>5 DEF Quiet, Good
    <3>2. ASSUME NEW q \in Procs, path'[q] = "stale"
          PROVE  FALSE
      <4>1. \A r \in Procs : path[r] # "stale"
        BY <1>1, <2>5 DEF Quiet
      <4>2. ~Stale(p)
        <5>1. Stale(p) => past'.upsets = past.upsets + 1
          BY PastUpdated DEF Stale, PastIs, Types, ClientTypes
        <5> QED BY <2>5, <5>1
      <4> QED BY <1>5, <3>2, <4>1, <4>2
              DEF ClientStep, Bind, Connect, ConnectFails, Write, Recv, RecvClosed, Cat,
                  User, Ask, End, Restart, Kill, Types, ClientTypes
    <3>3. ASSUME srv # "ended", NEW q \in Procs, pc'[q] = "ended"
          PROVE  toServer'[q] = << >> /\ toClient'[q] = << >>
      <4>1. pc[q] = "ended" => toServer[q] = << >> /\ toClient[q] = << >>
        BY <2>5, <3>3 DEF Quiet
      <4>2. CASE q # p
        BY <1>5, <3>3, <4>1, <4>2, OthersKept
      <4>3. CASE q = p
        <5>1. CASE End(p)
          BY <3>1, <3>3, <4>3, <5>1 DEF End, Paired
        <5>2. CASE Write(p)
          <6>1. ~Listening
            BY <3>3, <4>3, <5>2 DEF Write, Goto, Types, ClientTypes
          <6> QED BY <3>1, <3>3, <4>3, <5>2, <6>1 DEF Write, Paired
        <5>3. CASE Recv(p)
          <6>1. \/ UNCHANGED pc \/ Goto(p, "idle") \/ Goto(p, "cat")
            BY <3>1, <5>3, ReceivedWhole
          <6> QED BY <3>3, <4>3, <5>3, <6>1 DEF Recv, Goto, Types, ClientTypes
        <5>4. CASE Kill(p)
          <6>1. past'.upsets = past.upsets + 1
            BY <5>4, PastUpdated DEF Kill, PastIs, Types, ClientTypes
          <6> QED BY <2>5, <6>1
        <5>5. CASE Stale(p)
          BY <3>3, <4>1, <4>3, <5>5 DEF Stale
        <5>6. CASE Bind(p) \/ Connect(p) \/ ConnectFails(p) \/ RecvClosed(p) \/ Cat(p) \/ Ask(p) \/ Restart(p)
          BY <3>3, <4>3, <5>6 DEF Bind, Connect, ConnectFails, RecvClosed, Cat, Ask, Restart,
                              Goto, Types, ClientTypes
        <5> QED BY <1>5, <5>1, <5>2, <5>3, <5>4, <5>5, <5>6 DEF ClientStep, User
      <4> QED BY <4>2, <4>3
    <3>4. ServerStays'
      BY <2>1, <2>5 DEF Quiet, ServerStays
    <3> QED BY <2>1, <2>3, <2>5, <3>1, <3>2, <3>3, <3>4 DEF Quiet
  <2> QED BY <2>2, <2>4, <2>5
<1> QED BY <1>3, <1>4, <1>5 DEF Next
-----------------------------------------------------------------------------
(* The invariant and the theorems.                                          *)

LEMMA OpenInvInit ==
    ASSUME Init
    PROVE  OpenInv
<1>1. Types
  BY DEF Init, Types, ServerTypes, ClientTypes, Pasts
<1>2. OneConnection /\ TableKept /\ PollKept /\ Scanning
  BY DEF Init, OneConnection, TableKept, PollKept, Scanning, SameOrder, Accepted
<1>3. \A p \in Procs \ past.long : Paired(p)
  BY OpenServerAssumption DEF Init, Paired
<1>4. Quiet
  BY DEF Init, Quiet, ServerStays
<1> QED BY <1>1, <1>2, <1>3, <1>4 DEF OpenInv

LEMMA OpenInvNext ==
    ASSUME OpenInv, [Next]_vars
    PROVE  OpenInv'
<1>1. Types /\ OneConnection /\ TableKept /\ PollKept /\ Scanning /\ Quiet
      /\ \A p \in Good : Paired(p)
  BY DEF OpenInv, Good
<1>2. ServerTypes' /\ ClientTypes'
  BY <1>1, ServerTypesNext, ClientTypesNext
<1>3. OneConnection' /\ TableKept'
  BY <1>1, OneConnectionNext, TableKeptNext
<1>4. PollKept' /\ Scanning'
  BY <1>1, <1>2, <1>3, PollKeptNext, ScanningNext
<1>5. (\A p \in Good : Paired(p))' /\ Quiet'
  BY <1>1, PairedNext, QuietNext
<1> QED BY <1>2, <1>3, <1>4, <1>5 DEF OpenInv, Types, Good

\* The invariant holds of the open server with any number of clients.
THEOREM OpenInvHolds == Spec => []OpenInv
<1>1. Init => OpenInv
  BY OpenInvInit
<1>2. OpenInv /\ [Next]_vars => OpenInv'
  BY OpenInvNext
<1> QED BY <1>1, <1>2, PTL DEF Spec

LEMMA InvTracks ==
    ASSUME OpenInv
    PROVE  ConnectionsTracked
<1>1. SUFFICES ASSUME srv = "wait"
               PROVE  ConnectionsTracked
  BY DEF ConnectionsTracked
<1> DEFINE inTable == { k \in DOMAIN client : client[k].fd \notin {FREE, listenfd} }
<1>2. Types /\ TableKept /\ PollKept
  BY DEF OpenInv
<1>3. DOMAIN client = 1 .. Len(client) /\ Len(client) \in Nat /\ Len(pollfd) \in Nat
  BY <1>2 DEF Types, ServerTypes
<1>4. \A fd \in DOMAIN conn : fd \notin {FREE, listenfd}
  <2>1. Cardinality(Procs) \in Nat
    BY OpenServerAssumption, FS_CardinalityType
  <2> QED BY <1>2, <2>1 DEF Types, ServerTypes, Fds, FREE, listenfd
<1>5. \A k \in inTable : client[k].fd \in DOMAIN conn /\ client[k].uid = conn[client[k].fd]
  BY <1>2, <1>3 DEF TableKept, EntryKept
<1>6. ASSUME NEW fd \in DOMAIN conn
      PROVE  Cardinality({ k \in inTable : client[k].fd = fd }) = 1
  <2>1. PICK k \in 1 .. Len(client) : client[k].fd = fd
    BY <1>2 DEF TableKept
  <2>2. { j \in inTable : client[j].fd = fd } = {k}
    BY <1>2, <1>3, <1>4, <2>1 DEF TableKept
  <2> QED BY <2>2, FS_Singleton
<1>7. loop = "select" => \A k \in inTable : k <= maxi
  BY <1>2, <1>3 DEF TableKept
<1>8. loop = "poll" =>
        /\ Len(pollfd) = Cardinality(DOMAIN conn) + 1
        /\ { pollfd[k].fd : k \in 2 .. Len(pollfd) } = DOMAIN conn
  <2>1. loop = "poll" => ArrayKept
    BY <1>1, <1>2 DEF PollKept
  <2>2. ArrayKept => { pollfd[k].fd : k \in 2 .. Len(pollfd) } = DOMAIN conn
    <3>1. SUFFICES ASSUME ArrayKept, NEW fd
                   PROVE  fd \in { pollfd[k].fd : k \in 2 .. Len(pollfd) } <=> fd \in DOMAIN conn
      OBVIOUS
    <3>2. ASSUME NEW k \in 2 .. Len(pollfd)
          PROVE  pollfd[k].fd \in DOMAIN conn
      BY <3>1 DEF ArrayKept
    <3>3. fd \in DOMAIN conn => \E k \in 2 .. Len(pollfd) : pollfd[k].fd = fd
      BY <3>1 DEF ArrayKept
    <3> QED BY <3>2, <3>3
  <2> QED BY <2>1, <2>2 DEF ArrayKept
<1> QED BY <1>5, <1>6, <1>7, <1>8 DEF ConnectionsTracked

\* The arrays agree with the connections at every wait, in both loops, for any
\* number of clients and any NALLOC (client_add, client_del, the packing of
\* pollfd, maxi).
THEOREM ArraysAgree == Spec => []ConnectionsTracked
BY OpenInvHolds, InvTracks, PTL

LEMMA InvUid ==
    ASSUME OpenInv
    PROVE  UidIsSenders
<1>1. Types /\ TableKept /\ PollKept /\ Scanning
  BY DEF OpenInv
<1>2. \A fd \in DOMAIN conn : fd \notin {FREE, listenfd}
  <2>1. Cardinality(Procs) \in Nat
    BY OpenServerAssumption, FS_CardinalityType
  <2> QED BY <1>1, <2>1 DEF Types, ServerTypes, Fds, FREE, listenfd
<1>3. ASSUME RequestInSelect
      PROVE  UidOf(i) = conn[client[i].fd]
  <2>1. i \in 1 .. Len(client) /\ client[i].fd \in DOMAIN conn
    BY <1>1, <1>3, Scanned DEF RequestInSelect
  <2> QED BY <1>1, <1>2, <2>1 DEF TableKept, EntryKept, UidOf
<1>4. ASSUME RequestInPoll, ~past.left
      PROVE  UidOf(i) = conn[pollfd[i].fd]
  <2>1. i \in 2 .. Len(pollfd) /\ pollfd[i].fd \in DOMAIN conn
    BY <1>1, <1>4, Scanned DEF RequestInPoll
  <2>2. i \in 1 .. Len(client) /\ client[i].fd = pollfd[i].fd
    <3>1. SameOrder
      BY <1>1, <1>4 DEF RequestInPoll, PollKept
    <3>2. Len(pollfd) \in Nat /\ Len(client) \in Nat
      BY <1>1 DEF Types, ServerTypes
    <3> QED BY <2>1, <3>1, <3>2 DEF SameOrder
  <2> QED BY <1>1, <1>2, <2>1, <2>2 DEF TableKept, EntryKept, UidOf
<1> QED BY <1>3, <1>4 DEF UidIsSenders

\* A request is handled under its sender's user ID, over poll until a client has
\* left, over select always (loop.poll.c:92, loop.select.c:85).
THEOREM SendersUid == Spec => []UidIsSenders
BY OpenInvHolds, InvUid, PTL

LEMMA InvAnswers ==
    ASSUME OpenInv
    PROVE  AnswerForRequest /\ ServerStays
BY DEF OpenInv, Paired, AnswerForRequest, Quiet

\* An answer is the answer to the last request of its client, if the client never
\* sent a name too long (csopen, handle_request and recv_fd).
THEOREM AnswersPaired == Spec => []AnswerForRequest
BY OpenInvHolds, InvAnswers, PTL

\* The server ends only if it could not listen or after an upset (log_sys and
\* log_quit of opend, and SIGPIPE).
THEOREM ServerStaysUp == Spec => []ServerStays
BY OpenInvHolds, InvAnswers, PTL
=============================================================================
