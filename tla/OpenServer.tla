------------------------------ MODULE OpenServer ------------------------------
(***************************************************************************)
(* The open server (apue.3e/ipc2/opend) and its clients (apue.3e/ipc2/open) *)
(* with the connections and the passing of descriptors between them          *)
(* (cliconn.c, servlisten.c, servaccept.c, sendfd.c, senderr.c, recvfd.c and *)
(* bufargs.c of apue.3e/lib).                                               *)
(*                                                                         *)
(* A client reads names from its standard input, sends each one to the      *)
(* server and gets a descriptor or a refusal back.  The server is built with*)
(* one of two loops, over poll or over select.  Every client is a user of   *)
(* its own.  A name longer than Long allows fills the server's buffer: its  *)
(* request takes two reads.                                                 *)
(***************************************************************************)
EXTENDS Naturals, Sequences, FiniteSets, SequencesExt, FiniteSetsExt

CONSTANTS
    Procs,      \* the client processes
    Files,      \* names that can be opened
    Missing,    \* names that cannot be opened
    Long,       \* names whose request does not fit in MAXLINE bytes
    NONE,       \* no name, no user
    NALLOC,     \* entries client_alloc adds to client[]
    MaxAsk,     \* lines on the standard input of a client
    MaxUpsets   \* clients killed, socket names that get older than STALE seconds
                \* and clients that send a name too long, together

ROOT == "root"              \* the user of the entry of listenfd
Names == Files \cup Missing \cup Long
FREE == 0                   \* stands for -1: no descriptor
listenfd == 1

\* There are finitely many clients, client_alloc adds something, and an outcome
\* that is no file is told from one.
ASSUME OpenServerAssumption ==
    /\ IsFiniteSet(Procs)
    /\ NALLOC \in Nat \ {0}
    /\ NONE # "error"
    /\ {NONE, "error", "no server"} \cap Names = {}

VARIABLES
    loop,       \* the loop the server is built with
    srv,        \* where the server is
    conn,       \* conn[fd]: the client at the other end of the server's fd
    client,     \* the table client[]
    pollfd,     \* the array pollfd[0 .. numfd-1]
    rset,       \* the descriptors select reported
    maxi,       \* the last entry of client[] the loop over select looks at
    i,          \* the entry the loop looks at, counted from 1
    backlog,    \* connections not yet accepted
    path,       \* path[p]: the socket name p binds
    pc,         \* where a client is
    want,       \* the name in the client's last request
    asked,      \* lines the client has read
    toServer,   \* bytes on their way to the server, in pieces
    toClient,   \* answers on their way to the client
    outcome,    \* what csopen returned: the file of a descriptor, "error"
    past        \* what has happened: how many upsets, which clients sent a name too
                \* long, whether the server has closed a connection

serverVars == <<srv, conn, client, pollfd, rset, maxi, i>>
clientVars == <<path, pc, want, asked, outcome>>
vars == <<loop, serverVars, backlog, clientVars, toServer, toClient, past>>

Entry(fd, uid) == [fd |-> fd, uid |-> uid]

Init ==
    /\ loop \in {"poll", "select"}
    /\ srv = "start"
    /\ conn = << >>
    /\ client = << >>
    /\ pollfd = << >>
    /\ rset = {}
    /\ maxi = 0
    /\ i = 0
    /\ backlog = << >>
    /\ path = [p \in Procs |-> "none"]
    /\ pc = [p \in Procs |-> "idle"]
    /\ want = [p \in Procs |-> NONE]
    /\ asked = [p \in Procs |-> 0]
    /\ toServer = [p \in Procs |-> << >>]
    /\ toClient = [p \in Procs |-> << >>]
    /\ outcome = [p \in Procs |-> NONE]
    /\ past = [upsets |-> 0, long |-> {}, left |-> FALSE]

Goto(p, label) == pc' = [pc EXCEPT ![p] = label]

\* The client is gone, and what it knew with it.
Leave(p) ==
    /\ Goto(p, "ended")
    /\ want' = [want EXCEPT ![p] = NONE]
    /\ outcome' = [outcome EXCEPT ![p] = NONE]

Listening == srv \notin {"start", "ended"}
Accepted(p) == \E fd \in DOMAIN conn : conn[fd] = p
Hung(fd) == pc[conn[fd]] = "ended"          \* the other end is closed
Readable(fd) == toServer[conn[fd]] # << >> \/ Hung(fd)
-----------------------------------------------------------------------------
(* The table of clients.                                                    *)

\* client_alloc: NALLOC more entries, all available.
Grown(table) == table \o [k \in 1 .. NALLOC |-> Entry(FREE, NONE)]

Available(table) == { k \in DOMAIN table : table[k].fd = FREE }

\* client_add takes the first available entry and grows the table if there is
\* none.
ClientAdd(table, fd, uid) ==
    LET t == IF Available(table) = {} THEN Grown(table) ELSE table
    IN [t EXCEPT ![Min(Available(t))] = Entry(fd, uid)]

\* Mutant: the last entry in use is given up.
ClientDelLast(table, fd) ==
    [table EXCEPT ![Max({ k \in DOMAIN table : table[k].fd # FREE })].fd = FREE]

\* client_del: only the descriptor is reset, the user ID stays.
ClientDel(table, fd) ==
    [table EXCEPT ![Min({ k \in DOMAIN table : table[k].fd = fd })].fd = FREE]

\* client_del ends the server if no entry has the descriptor.
Known(table, fd) == \E k \in DOMAIN table : table[k].fd = fd
-----------------------------------------------------------------------------
(* Requests and answers.                                                    *)

\* The bytes of a request as the server's reads cut them: a long one fills
\* the buffer and leaves the rest for the next read.
Request(name) ==
    IF name \in Long
      THEN <<[part |-> "head", name |-> name], [part |-> "tail", name |-> name]>>
      ELSE <<[part |-> "whole", name |-> name]>>

\* One read takes a full buffer or all there is.
ReadLength(q) == IF Head(q).part = "head" THEN 1 ELSE Len(q)

\* send_err: the message, then a null and a status other than 0.
SendErr == <<[kind |-> "text", file |-> NONE], [kind |-> "error", file |-> NONE]>>

\* send_fd: a null, a 0 and the descriptor.
SendFd(name) == <<[kind |-> "fd", file |-> name]>>

NullTerminated(piece) == piece.part # "head"

\* buf_args: the words of the first string in the buffer.
BufArgs(piece) ==
    IF piece.part = "tail" THEN <<"rest of a name", "oflag">>
    ELSE <<"open", piece.name, "oflag">>

\* cli_args: three words, the first of them CL_OPEN.
CliArgs(argv) == Len(argv) = 3 /\ argv[1] = "open"

\* The checks of handle_request in their order; the last one is open itself.
Granted(piece) ==
    NullTerminated(piece) /\ CliArgs(BufArgs(piece)) /\ piece.name \in Files

\* Mutant: handle_request goes on after send_err.
AnswerNoReturn(piece) ==
    (IF Granted(piece) THEN << >> ELSE SendErr) \o SendFd(piece.name)

\* handle_request on a buffer with the first of the pieces read: a head does not
\* end in a null, and the words of a tail are not a request.  strtok stops at the
\* first null, so the pieces after the first one are dropped.
Answer(piece) == IF Granted(piece) THEN SendFd(piece.name) ELSE SendErr

\* The server reads what came over fd and answers.  If the client has closed its
\* end, the answer raises SIGPIPE, which nothing in the server catches.
HandleRequest(fd) ==
    LET p == conn[fd] IN
    /\ toServer' = [toServer EXCEPT ![p] = SubSeq(@, ReadLength(@) + 1, Len(@))]
    /\ toClient' = [toClient EXCEPT ![p] = @ \o Answer(Head(toServer[p]))]
-----------------------------------------------------------------------------
(* The server.                                                              *)

FreeFd == Min((listenfd + 1 .. Cardinality(Procs) + 2) \ DOMAIN conn)
Without(fd) == [f \in DOMAIN conn \ {fd} |-> conn[f]]

\* loop: serv_listen, and in the loop over poll the first entries of both
\* arrays are those of listenfd.
ServListen ==
    /\ srv = "start"
    /\ srv' = "wait"
    /\ IF loop = "poll"
         THEN /\ client' = ClientAdd(client, listenfd, ROOT)
              /\ pollfd' = <<[fd |-> listenfd, revents |-> {}]>>
         ELSE UNCHANGED <<client, pollfd>>
    /\ UNCHANGED <<loop, conn, rset, maxi, i, backlog, clientVars,
                   toServer, toClient, past>>

\* serv_listen fails: log_sys ends the server.
ServListenFails ==
    /\ srv = "start"
    /\ srv' = "ended"
    /\ UNCHANGED <<loop, conn, client, pollfd, rset, maxi, i, backlog,
                   clientVars, toServer, toClient, past>>

Events(fd) ==
    IF fd = listenfd
      THEN IF backlog = << >> THEN {} ELSE {"POLLIN"}
      ELSE (IF Readable(fd) THEN {"POLLIN"} ELSE {})
             \cup (IF Hung(fd) THEN {"POLLHUP"} ELSE {})

\* The rest of the pass over the array: the next entry with something to do.  What
\* was reported for an entry is dropped when the entry has been served.
Resume(next) ==
    IF next = {} THEN srv' = "wait" /\ i' = 0
    ELSE srv' = "scan" /\ i' = Min(next)

ReadyPoll(array) == { k \in 2 .. Len(array) : array[k].revents # {} }

\* Mutant: maxi is taken for the number of entries.
ReadySelectShort(table, reported) == { k \in 1 .. maxi - 1 : table[k].fd \in reported }

ReadySelect(table, reported) == { k \in 1 .. maxi : table[k].fd \in reported }

SomethingReady == backlog # << >> \/ \E fd \in DOMAIN conn : Readable(fd)

Poll ==
    /\ loop = "poll" /\ srv = "wait"
    /\ SomethingReady
    /\ pollfd' = [k \in DOMAIN pollfd |->
                     [pollfd[k] EXCEPT !.revents = Events(pollfd[k].fd)]]
    /\ IF backlog = << >> THEN Resume(ReadyPoll(pollfd'))
       ELSE srv' = "accept" /\ UNCHANGED i
    /\ UNCHANGED <<loop, conn, client, rset, maxi, backlog, clientVars,
                   toServer, toClient, past>>

Select ==
    /\ loop = "select" /\ srv = "wait"
    /\ SomethingReady
    /\ IF backlog = << >>
         THEN /\ rset' = { fd \in DOMAIN conn : Readable(fd) }
              /\ Resume(ReadySelect(client, rset'))
         ELSE srv' = "accept" /\ UNCHANGED <<rset, i>>
    /\ UNCHANGED <<loop, conn, client, pollfd, maxi, backlog,
                   clientVars, toServer, toClient, past>>

\* serv_accept and what both loops do with the new connection.  The socket name
\* gives the user ID and is then removed; the loop over select waits again
\* before it looks at its clients.
Accept ==
    LET p == Head(backlog)
        t == ClientAdd(client, FreeFd, p)
        k == CHOOSE e \in DOMAIN t : t[e].fd = FreeFd
    IN
    /\ srv = "accept"
    /\ path[p] = "fresh"
    /\ path' = [path EXCEPT ![p] = "none"]
    /\ backlog' = Tail(backlog)
    /\ conn' = [f \in DOMAIN conn \cup {FreeFd} |-> IF f = FreeFd THEN p ELSE conn[f]]
    /\ client' = t
    /\ IF loop = "poll"
         THEN /\ pollfd' = Append(pollfd, [fd |-> FreeFd, revents |-> {}])
              /\ Resume(ReadyPoll(pollfd'))
              /\ UNCHANGED maxi
         ELSE /\ maxi' = Max({maxi, k})
              /\ srv' = "wait"
              /\ UNCHANGED <<pollfd, i>>
    /\ UNCHANGED <<loop, rset, pc, want, asked, outcome, toServer,
                   toClient, past>>

\* serv_accept finds the name too old and refuses: log_sys ends the server.
AcceptStale ==
    /\ srv = "accept"
    /\ path[Head(backlog)] = "stale"
    /\ srv' = "ended"
    /\ UNCHANGED <<loop, conn, client, pollfd, rset, maxi, i, backlog, clientVars,
                   toServer, toClient, past>>

\* The last entry takes the place of the closed one.
Packed(s, k) == SubSeq([s EXCEPT ![k] = Last(s)], 1, Len(s) - 1)

\* POLLHUP, or a read that returns 0: the connection is closed; the entry moved
\* here is looked at next.
HungUp ==
    LET fd == pollfd[i].fd IN
    /\ loop = "poll" /\ srv = "scan"
    /\ \/ "POLLHUP" \in pollfd[i].revents
       \/ pollfd[i].revents = {"POLLIN"} /\ toServer[conn[fd]] = << >>
    /\ IF Known(client, fd)
         THEN /\ client' = ClientDel(client, fd)
              /\ conn' = Without(fd)
              /\ pollfd' = Packed(pollfd, i)
              /\ Resume(ReadyPoll(pollfd'))
         ELSE /\ srv' = "ended"
              /\ UNCHANGED <<client, conn, pollfd, i>>
    /\ past' = [past EXCEPT !.left = TRUE]
    /\ UNCHANGED <<loop, rset, maxi, backlog, clientVars, toServer, toClient>>

\* Mutant: the user ID of the entry before.
UidBefore(k) == client[Max({1, k - 1})].uid

\* The user ID handle_request is given: that of entry k of client[], in both loops.
UidOf(k) == client[k].uid

RequestInPoll ==
    /\ loop = "poll" /\ srv = "scan"
    /\ pollfd[i].revents = {"POLLIN"}
    /\ toServer[conn[pollfd[i].fd]] # << >>

RequestPoll ==
    LET fd == pollfd[i].fd IN
    /\ RequestInPoll
    /\ HandleRequest(fd)
    /\ IF Hung(fd)
         THEN srv' = "ended" /\ UNCHANGED <<i, pollfd>>
         ELSE /\ pollfd' = [pollfd EXCEPT ![i].revents = {}]
              /\ Resume(ReadyPoll(pollfd'))
    /\ UNCHANGED <<loop, conn, client, rset, maxi, backlog, clientVars, past>>

\* A read that returns 0: the connection is closed.
Closed ==
    LET fd == client[i].fd IN
    /\ loop = "select" /\ srv = "scan"
    /\ toServer[conn[fd]] = << >>
    /\ client' = ClientDel(client, fd)
    /\ conn' = Without(fd)
    /\ rset' = rset \ {fd}
    /\ Resume(ReadySelect(client', rset'))
    /\ UNCHANGED <<loop, pollfd, maxi, backlog, clientVars, toServer, toClient,
                   past>>

RequestInSelect ==
    /\ loop = "select" /\ srv = "scan"
    /\ toServer[conn[client[i].fd]] # << >>

RequestSelect ==
    LET fd == client[i].fd IN
    /\ RequestInSelect
    /\ HandleRequest(fd)
    /\ IF Hung(fd)
         THEN srv' = "ended" /\ UNCHANGED <<i, rset>>
         ELSE rset' = rset \ {fd} /\ Resume(ReadySelect(client, rset'))
    /\ UNCHANGED <<loop, conn, client, pollfd, maxi, backlog, clientVars, past>>

\* A client that closes its end with an answer unread can make the read fail with
\* ECONNRESET: log_sys ends the server.
ReadFails ==
    LET fd == IF loop = "poll" THEN pollfd[i].fd ELSE client[i].fd IN
    /\ srv = "scan"
    /\ loop = "poll" => pollfd[i].revents = {"POLLIN"}
    /\ Hung(fd) /\ toServer[conn[fd]] = << >> /\ toClient[conn[fd]] # << >>
    /\ srv' = "ended"
    /\ UNCHANGED <<loop, conn, client, pollfd, rset, maxi, i, backlog,
                   clientVars, toServer, toClient, past>>

Server ==
    \/ ServListen \/ ServListenFails
    \/ Poll \/ Select
    \/ Accept \/ AcceptStale
    \/ HungUp \/ RequestPoll
    \/ Closed \/ RequestSelect
    \/ ReadFails
-----------------------------------------------------------------------------
(* The clients.                                                             *)

\* main reads a name; csopen connects with the first one (csfd is static).
Ask(p) ==
    /\ pc[p] = "idle"
    /\ asked[p] < MaxAsk
    /\ \E name \in Names :
          /\ name \in Long => past.upsets < MaxUpsets
          /\ want' = [want EXCEPT ![p] = name]
          /\ past' = IF name \in Long THEN [past EXCEPT !.upsets = @ + 1, !.long = @ \cup {p}] ELSE past
    /\ asked' = [asked EXCEPT ![p] = @ + 1]
    /\ outcome' = [outcome EXCEPT ![p] = NONE]
    /\ Goto(p, IF p \in Range(backlog) \/ Accepted(p) THEN "write" ELSE "bind")
    /\ UNCHANGED <<loop, serverVars, backlog, path, toServer, toClient>>

\* cli_conn: a name of its own for the socket, readable by its user only.
Bind(p) ==
    /\ pc[p] = "bind"
    /\ path' = [path EXCEPT ![p] = "fresh"]
    /\ Goto(p, "connect")
    /\ UNCHANGED <<loop, serverVars, backlog, want, asked, outcome, toServer,
                   toClient, past>>

\* cli_conn: the connection waits to be accepted, the client goes on at once.
Connect(p) ==
    /\ pc[p] = "connect"
    /\ Listening
    /\ backlog' = Append(backlog, p)
    /\ Goto(p, "write")
    /\ UNCHANGED <<loop, serverVars, path, want, asked, outcome, toServer,
                   toClient, past>>

\* cli_conn fails: the name is removed, csfd stays negative and the next name
\* tries again.
ConnectFails(p) ==
    /\ pc[p] = "connect"
    /\ ~Listening
    /\ path' = [path EXCEPT ![p] = "none"]
    /\ outcome' = [outcome EXCEPT ![p] = "no server"]
    /\ Goto(p, "idle")
    /\ UNCHANGED <<loop, serverVars, backlog, want, asked, toServer, toClient,
                   past>>

\* csopen: the writev; SIGPIPE ends the client if the server is gone.
Write(p) ==
    /\ pc[p] = "write"
    /\ IF Listening
         THEN /\ toServer' = [toServer EXCEPT ![p] = @ \o Request(want[p])]
              /\ Goto(p, "recv")
              /\ UNCHANGED <<want, outcome>>
         ELSE Leave(p) /\ UNCHANGED toServer
    /\ UNCHANGED <<loop, serverVars, backlog, path, asked, toClient, past>>

\* recv_fd: one recvmsg takes the first k of the pieces sent; it does not read
\* past a descriptor.  Text goes to the standard error; the last two bytes with
\* the status are the end of the answer, and a status anywhere else is a "message
\* format error", which ends the client.
Recv(p) ==
    /\ pc[p] = "recv"
    /\ \E k \in 1 .. Len(toClient[p]) :
          LET taken == SubSeq(toClient[p], 1, k)
              early == { taken[m].kind : m \in 1 .. k - 1 }
          IN
          /\ "fd" \notin early
          /\ toClient' = [toClient EXCEPT ![p] = SubSeq(@, k + 1, Len(@))]
          /\ \/ /\ "error" \in early
                /\ Leave(p)
             \/ /\ "error" \notin early /\ taken[k].kind = "text"
                /\ UNCHANGED <<pc, want, outcome>>
             \/ /\ "error" \notin early /\ taken[k].kind = "error"
                /\ outcome' = [outcome EXCEPT ![p] = "error"]
                /\ Goto(p, "idle") /\ UNCHANGED want
             \/ /\ "error" \notin early /\ taken[k].kind = "fd"
                /\ outcome' = [outcome EXCEPT ![p] = taken[k].file]
                /\ Goto(p, "cat") /\ UNCHANGED want
    /\ UNCHANGED <<loop, serverVars, backlog, path, asked, toServer, past>>

\* recv_fd: "connection closed by server".
RecvClosed(p) ==
    /\ pc[p] = "recv"
    /\ ~Listening /\ toClient[p] = << >>
    /\ outcome' = [outcome EXCEPT ![p] = "no server"]
    /\ Goto(p, "idle")
    /\ UNCHANGED <<loop, serverVars, backlog, path, want, asked, toServer,
                   toClient, past>>

\* main copies the file to its standard output and closes the descriptor.
Cat(p) ==
    /\ pc[p] = "cat"
    /\ outcome' = [outcome EXCEPT ![p] = NONE]
    /\ Goto(p, "idle")
    /\ UNCHANGED <<loop, serverVars, backlog, path, want, asked, toServer, toClient,
                   past>>

\* The end of the standard input: exit closes the connection.
End(p) ==
    /\ pc[p] = "idle"
    /\ Leave(p)
    /\ UNCHANGED <<loop, serverVars, backlog, path, asked, toServer, toClient,
                   past>>

\* The user runs the client again; the process before is gone from the server.
Restart(p) ==
    /\ pc[p] = "ended" /\ asked[p] < MaxAsk
    /\ p \notin Range(backlog) /\ ~Accepted(p)
    /\ Goto(p, "idle")
    /\ path' = [path EXCEPT ![p] = "none"]
    /\ toServer' = [toServer EXCEPT ![p] = << >>]
    /\ toClient' = [toClient EXCEPT ![p] = << >>]
    /\ UNCHANGED <<loop, serverVars, backlog, want, asked, outcome, past>>

\* A signal ends the client anywhere.
Kill(p) ==
    /\ past.upsets < MaxUpsets
    /\ pc[p] # "ended"
    /\ past' = [past EXCEPT !.upsets = @ + 1]
    /\ Leave(p)
    /\ UNCHANGED <<loop, serverVars, backlog, path, asked, toServer, toClient>>

\* STALE seconds pass between bind and accept.
Stale(p) ==
    /\ past.upsets < MaxUpsets
    /\ path[p] = "fresh"
    /\ past' = [past EXCEPT !.upsets = @ + 1]
    /\ path' = [path EXCEPT ![p] = "stale"]
    /\ UNCHANGED <<loop, serverVars, backlog, pc, want, asked, outcome, toServer,
                   toClient>>

ClientStep(p) ==
    \/ Bind(p) \/ Connect(p) \/ ConnectFails(p)
    \/ Write(p) \/ Recv(p) \/ RecvClosed(p) \/ Cat(p)

User(p) == Ask(p) \/ End(p) \/ Restart(p) \/ Kill(p) \/ Stale(p)

Next == Server \/ \E p \in Procs : ClientStep(p) \/ User(p)

\* The server and the clients run; nothing makes a user type a name, nor a
\* fault happen.
Spec ==
    /\ Init /\ [][Next]_vars
    /\ WF_vars(Server)
    /\ \A p \in Procs : WF_vars(ClientStep(p))
-----------------------------------------------------------------------------
(* Properties.                                                              *)

\* The arrays agree with the connections of the server at every wait: every
\* connection has one entry in client[] with its client's user ID and is waited
\* for once (pollfd[] from its second entry on, or client[] up to maxi), and no
\* other descriptor is in either array (client_add, client_del, the packing in
\* loop.poll.c, maxi in loop.select.c).
ConnectionsTracked ==
    srv = "wait" =>
        LET inTable == { k \in DOMAIN client : client[k].fd \notin {FREE, listenfd} }
        IN
        /\ \A k \in inTable :
              /\ client[k].fd \in DOMAIN conn
              /\ client[k].uid = conn[client[k].fd]
        /\ \A fd \in DOMAIN conn : Cardinality({ k \in inTable : client[k].fd = fd }) = 1
        /\ loop = "select" => \A k \in inTable : k <= maxi
        /\ loop = "poll" =>
              /\ Len(pollfd) = Cardinality(DOMAIN conn) + 1
              /\ { pollfd[k].fd : k \in 2 .. Len(pollfd) } = DOMAIN conn

\* The answer a client gets is the answer to its last request: a descriptor is of
\* the file named, and a refusal is for a name that cannot be opened.  csopen and
\* recv_fd pair answers with requests by their order alone, and the server takes
\* one read for one request, so this is promised only to a client that has never
\* sent a request longer than the server's buffer: such a request gets two
\* answers, and from then on every answer is that of the request before.
AnswerForRequest ==
    \A p \in Procs \ past.long :
        /\ pc[p] = "cat" => outcome[p] = want[p]
        /\ outcome[p] = "error" => want[p] \in Missing

\* The user ID a request is handled under is its sender's.  The loop over poll
\* promises it only until a client has left: from then on client[] and pollfd[]
\* are indexed differently (loop.poll.c:92).
UidIsSenders ==
    /\ RequestInSelect => UidOf(i) = conn[client[i].fd]
    /\ RequestInPoll /\ ~past.left
         => UidOf(i) = conn[pollfd[i].fd]

\* Clients that come, ask and leave never end the server: it ends only if it
\* could not listen, a client was killed, a socket name was stale, or a client
\* left an answer to a name too long unread (no other request and no orderly exit
\* leads to log_quit, log_sys or SIGPIPE).
ServerStays == srv = "ended" => client = << >> \/ past.upsets > 0

\* A client that has sent a request is not left waiting: it gets an answer, or
\* the news that the server is gone.
RequestsEnd == \A p \in Procs : pc[p] = "recv" ~> pc[p] # "recv"
=============================================================================
