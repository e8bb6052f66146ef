------------------------------- MODULE OpenForked -------------------------------
(***************************************************************************)
(* The open server a client starts itself, apue.3e/ipc2/open.fe and          *)
(* opend.fe: at its first call csopen makes a stream pipe and forks, and the *)
(* child becomes the server at the other end.  The server ends when nobody   *)
(* has the client's end any more.  How a request is answered is in           *)
(* OpenServer, where the two programs have the same functions.              *)
(***************************************************************************)
EXTENDS Naturals, Sequences

CONSTANTS
    Lines,      \* lines of the client's standard input
    Names,
    Files       \* the names of files that can be opened

VARIABLES
    lines,      \* lines read so far
    name,       \* the name the client asks for
    have,       \* have[e]: the processes with end e of the pipe open
    request,    \* requests in the pipe
    answer,     \* answers in the pipe
    pc,         \* pc["client"], pc["server"]
    shown       \* history: the names whose files were shown, and the errors

vars == <<lines, name, have, request, answer, pc, shown>>

Init ==
    /\ lines = 0
    /\ name \in Names
    /\ have = [e \in {0, 1} |-> {}]
    /\ request = <<>>
    /\ answer = <<>>
    /\ pc = [client |-> "line", server |-> "none"]
    /\ shown = <<>>

Goto(p, label) == pc' = [pc EXCEPT ![p] = label]

\* The end of a process closes its ends.
Exit(p) ==
    /\ Goto(p, "exit")
    /\ have' = [e \in {0, 1} |-> have[e] \ {p}]
-----------------------------------------------------------------------------
\* main of the client: the next line, or the end of standard input.
NextLine ==
    /\ pc["client"] = "line"
    /\ IF lines < Lines
         THEN /\ lines' = lines + 1
              /\ name' \in Names
              /\ Goto("client", IF have[0] = {} THEN "start" ELSE "ask")
              /\ UNCHANGED have
         ELSE Exit("client") /\ UNCHANGED <<lines, name>>
    /\ UNCHANGED <<request, answer, shown>>

\* csopen, the first time: fd_pipe and fork.  When the fork fails the pipe stays,
\* with both its ends.
Fork ==
    /\ pc["client"] = "start"
    /\ \/ /\ have' = [e \in {0, 1} |-> {"client", "server"}]
          /\ pc' = [client |-> "close", server |-> "close"]
       \/ /\ have' = [e \in {0, 1} |-> {"client"}]
          /\ Goto("client", "line")
    /\ UNCHANGED <<lines, name, request, answer, shown>>

\* csopen: each process closes the end of the other.
ClientCloses ==
    /\ pc["client"] = "close"
    /\ have' = [have EXCEPT ![1] = @ \ {"client"}]
    /\ Goto("client", "ask")
    /\ UNCHANGED <<lines, name, request, answer, shown>>

ServerCloses ==
    /\ pc["server"] = "close"
    /\ have' = [have EXCEPT ![0] = @ \ {"server"}]
    /\ Goto("server", "read")
    /\ UNCHANGED <<lines, name, request, answer, shown>>

\* csopen: the request.
Ask ==
    /\ pc["client"] = "ask"
    /\ request' = Append(request, name)
    /\ Goto("client", "recv")
    /\ UNCHANGED <<lines, name, have, answer, shown>>

\* main and handle_request of the server.
Serve ==
    /\ pc["server"] = "read" /\ request # <<>>
    /\ answer' = Append(answer, IF Head(request) \in Files THEN Head(request) ELSE "error")
    /\ request' = Tail(request)
    /\ UNCHANGED <<lines, name, have, pc, shown>>

\* The client has closed the stream pipe.
ServerExit ==
    /\ pc["server"] = "read" /\ request = <<>> /\ have[0] = {}
    /\ Exit("server")
    /\ UNCHANGED <<lines, name, request, answer, shown>>

\* recv_fd, and the copy of the file to standard output.
Recv ==
    /\ pc["client"] = "recv" /\ answer # <<>>
    /\ answer' = Tail(answer)
    /\ shown' = Append(shown, <<name, Head(answer)>>)
    /\ Goto("client", "line")
    /\ UNCHANGED <<lines, name, have, request>>

ClientStep == NextLine \/ Fork \/ ClientCloses \/ Ask \/ Recv
ServerStep == ServerCloses \/ Serve \/ ServerExit

Next == ClientStep \/ ServerStep

Spec == Init /\ [][Next]_vars /\ WF_vars(ClientStep) /\ WF_vars(ServerStep)
-----------------------------------------------------------------------------
\* Client and server both end, if there is a server: after a fork that failed the
\* client waits for an answer nobody gives (csopen, open.c:22-25).
Started == pc["server"] # "none"
Ended == pc["client"] = "exit" /\ pc["server"] = "exit"
=============================================================================
