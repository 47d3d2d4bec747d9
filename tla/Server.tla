------------------------------- MODULE Server -------------------------------
(***************************************************************************)
(* The web server (abs_server.c): route() before, then server_run(), which *)
(* serves one connection at a time: accept, one recv, server_handle, two   *)
(* sends, close.  Clients connect, write their request piece by piece and  *)
(* may close at any time.                                                  *)
(*                                                                         *)
(* A request is its method, its path (a sequence of parts) and the rest;   *)
(* recv returns what has arrived by then.  A send to a client that is gone *)
(* may end the process (SIGPIPE).                                          *)
(***************************************************************************)
EXTENDS Integers, SequencesExt

CONSTANTS Clients, Paths, Handlers,
    Backlog,      \* SERVER_BACKLOG
    PathMax,      \* parts of a path that sscanf's %511s takes
    None, Null

VARIABLES
    routes,       \* path -> handler
    up,           \* socket_fd is a listening socket
    pc,           \* "setup", "accept", "recv", "header", "content", "close", "dead"
    cur, answer,  \* the connection being served and its answer
    queue,        \* connections the kernel holds for accept()
    conn,         \* client -> what it wrote, whether it hung up, what it got
    open,         \* connections the process holds
    oom           \* history: an allocation has failed

vars == <<routes, up, pc, cur, answer, queue, conn, open, oom>>

Visits == [Clients -> {[path |-> p, written |-> 0, seen |-> 0, closed |-> FALSE, got |-> <<>>] : p \in Paths}]
SomeClients == CHOOSE c \in Visits : TRUE

Init ==
    /\ routes = [p \in Paths |-> None] /\ up \in BOOLEAN
    /\ pc = "setup" /\ cur = None /\ answer = None
    /\ queue = <<>> /\ open = {}
    /\ conn \in Visits /\ oom = FALSE

Request(c) == <<"GET">> \o conn[c].path \o <<"HTTP">>
Arrived(c) == SubSeq(Request(c), 1, conn[c].written)

\* dset replaces the handler of a path that has a node; without memory its place
\* is taken by the error object or the NULL of make_func.  A new node may be
\* lost, or have no key: then strcmp fails for every path of its bucket.
Route(path, h) ==
    /\ pc = "setup"
    /\ \/ /\ routes[path] # "trap"
          /\ \E func \in {h, "error", Null} :
                routes' = [routes EXCEPT ![path] = func] /\ oom' = (oom \/ func # h)
          /\ UNCHANGED pc
       \/ /\ routes[path] = None
          /\ \E bucket \in SUBSET Paths : path \in bucket /\
                routes' \in {routes, [p \in Paths |-> IF p \in bucket THEN "trap" ELSE routes[p]]}
          /\ oom' = TRUE /\ UNCHANGED pc
       \/ routes[path] = "trap" /\ pc' = "dead" /\ UNCHANGED <<routes, oom>>
    /\ UNCHANGED <<up, cur, answer, queue, conn, open>>

Run == pc = "setup" /\ pc' = "accept" /\ UNCHANGED <<routes, up, cur, answer, queue, conn, open, oom>>

----------------------------------------------------------------------------
(* Clients, as long as there is a process                                  *)

Connect(c) ==
    /\ up /\ pc # "dead" /\ Len(queue) < Backlog
    /\ conn[c].written = 0 /\ ~conn[c].closed /\ conn[c].got = <<>>
    /\ c \notin Range(queue) \cup open
    /\ queue' = Append(queue, c)
    /\ UNCHANGED <<routes, up, pc, cur, answer, conn, open, oom>>

\* What arrives after the one recv() is read by nobody, and left out here.
Write(c) ==
    /\ c \in Range(queue) \cup open /\ ~conn[c].closed /\ pc # "dead"
    /\ c = cur => pc = "recv"
    /\ \E n \in conn[c].written + 1..Len(Request(c)) : conn' = [conn EXCEPT ![c].written = n]
    /\ UNCHANGED <<routes, up, pc, cur, answer, queue, open, oom>>

Hangup(c) ==
    /\ c \in Range(queue) \cup open /\ ~conn[c].closed /\ pc # "dead"
    /\ conn' = [conn EXCEPT ![c].closed = TRUE]
    /\ UNCHANGED <<routes, up, pc, cur, answer, queue, open, oom>>

\* What a connected client is assumed to do in the end: write something or go.
Speak(c) == conn[c].written = 0 /\ (Write(c) \/ Hangup(c))

----------------------------------------------------------------------------
(* server_run                                                              *)

\* Without a listening socket accept() fails for ever: the loop spins.
Accept ==
    /\ pc = "accept" /\ up /\ queue # <<>>
    /\ cur' = Head(queue) /\ queue' = Tail(queue)
    /\ open' = open \cup {Head(queue)}
    /\ pc' = "recv"
    /\ UNCHANGED <<routes, up, answer, conn, oom>>

\* sscanf(request_line, "%15s %511s", method, path)
PathOf(line) ==
    LET space == SelectInSeq(line, LAMBDA t : t = "HTTP")
        last == IF space = 0 THEN Len(line) ELSE space - 1
    IN SubSeq(line, 2, IF last > PathMax + 1 THEN PathMax + 1 ELSE last)

\* dget's answer: None for a path without a node.
\* Bug: a path is compared only as far as its first part.
Handler_bug(path) == IF path # <<>> /\ <<path[1]>> \in Paths THEN routes[<<path[1]>>] ELSE None
Handler(path) == IF path \in Paths THEN routes[path] ELSE None

\* server_handle and to_str: the text that the handler answers, no text without
\* memory for it, None for the NULL of a 404 or of a handler without memory;
\* Null if dget's answer was NULL, be it a None without memory.
Wanted(handler) == IF handler \in Handlers THEN handler ELSE None
Handle(handler) ==
    IF handler \in Handlers THEN {handler, "", None}
    ELSE IF handler = None THEN {None, Null}
    ELSE IF handler = "error" THEN {None} ELSE {Null}

\* recv() returns when something has arrived or the client has hung up.
\* Bug: a client that hangs up without a word is waited for.
Readable_bug(c) == Arrived(c) # <<>>
Readable(c) == Arrived(c) # <<>> \/ conn[c].closed

\* Bug: nothing is said to the client of an unknown path.
Stage_bug(result) == IF result = None THEN "close" ELSE "header"
Stage(result) == "header"

Recv ==
    /\ pc = "recv" /\ Readable(cur)
    /\ conn' = [conn EXCEPT ![cur].seen = conn[cur].written]
    /\ LET handler == Handler(PathOf(Arrived(cur)))
       IN \E result \in Handle(handler) :
             /\ oom' = (oom \/ result # Wanted(handler))
             /\ \/ result # Null /\ answer' = result /\ pc' = Stage(result)
                \/ result = Null /\ pc' = "dead" /\ UNCHANGED answer
    /\ UNCHANGED <<routes, up, cur, queue, open>>

Pieces(result) == IF result = None THEN <<"404", "NotFound">> ELSE <<"200", result>>

\* send() of what is left to say; its result is ignored.
Send(piece, next) ==
    /\ \/ /\ pc' = next
          /\ conn' = IF conn[cur].closed THEN conn ELSE [conn EXCEPT ![cur].got = Append(@, piece)]
       \/ conn[cur].closed /\ pc' = "dead" /\ UNCHANGED conn
    /\ UNCHANGED <<routes, up, cur, answer, queue, open, oom>>

SendHeader == pc = "header" /\ Send(Pieces(answer)[1], "content")
SendContent == pc = "content" /\ Send(Pieces(answer)[2], "close")

\* Bug: only answered connections are closed.
Closed_bug == IF answer = None THEN open ELSE open \ {cur}
Closed == open \ {cur}

CloseClient ==
    /\ pc = "close"
    /\ open' = Closed
    /\ pc' = "accept" /\ cur' = None /\ answer' = None
    /\ UNCHANGED <<routes, up, queue, conn, oom>>

ServerStep == Accept \/ Recv \/ SendHeader \/ SendContent \/ CloseClient

Next ==
    \/ \E p \in Paths, h \in Handlers : Route(p, h)
    \/ Run \/ ServerStep
    \/ \E c \in Clients : Connect(c) \/ Write(c) \/ Hangup(c)

----------------------------------------------------------------------------
(* Properties                                                              *)

\* A client whose whole request line had arrived when recv() ran is answered
\* by the handler of its path, or by a 404 if there is none, and once memory
\* has been out perhaps with an empty text or a 404 instead; it never gets a
\* part of another client's answer, nor the status of one with the text of
\* another.
AnswersItsRequest == \A c \in Clients :
    conn[c].seen = Len(Request(c)) /\ Len(conn[c].path) <= PathMax =>
        \E result \in {Wanted(routes[conn[c].path])} \cup (IF oom THEN {"", None} ELSE {}) :
            IsPrefix(conn[c].got, Pieces(result))

\* server_run holds one connection at a time: each is closed before the next
\* is accepted, whatever its answer was and whether its client stayed.
OneConnection == open = IF cur = None THEN {} ELSE {cur}

\* Only a client that hangs up while it is served ends the process (SIGPIPE),
\* or an allocation that has failed: no request does, known path or not.
EndsForAReason == pc = "dead" => oom \/ (cur # None /\ conn[cur].closed)

\* Every client in the backlog is answered in the end, or has hung up itself,
\* or the process is gone: provided that clients write or hang up once they
\* are connected (one that does neither holds up everyone: recv has no timeout).
ClientsServed == \A c \in Clients :
    (up /\ pc # "setup" /\ c \in Range(queue)) ~> (Len(conn[c].got) = 2 \/ conn[c].closed \/ pc = "dead")
=============================================================================
