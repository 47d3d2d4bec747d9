------------------------------ MODULE Network ------------------------------
(***************************************************************************)
(* The two programs abscom has for a listening socket: server_run of       *)
(* abs_server.c, and a loop of the user's own that upgrades a connection   *)
(* with ws_accept and then exchanges frames (the use that the head of      *)
(* abs_ws.c describes).  A process runs one of them.                       *)
(***************************************************************************)
EXTENDS Integers, Sequences

CONSTANTS
    TopBit, Short, Long, Xored, Messages, Masks, MaskLen, MaxFrame, Keys, KeyMax, MaxSent,
    Clients, Paths, Handlers, Backlog, PathMax, None, Null

VARIABLES
    program,
    phase, request, key, wire, got, closed, sent, received, torn, whole, cut,
    routes, up, pc, cur, answer, queue, conn, open, oom

Ws == INSTANCE WebSocket
Http == INSTANCE Server

\* The three forms of the length field cover all lengths; unmasking undoes
\* masking; a key is text within a line, and so is a path within a request
\* line.  NULL (None) is no client, and none of what takes its place a handler.
ASSUME NetworkAssumption ==
    /\ TopBit \in Nat /\ TopBit > 3
    /\ Short \in Nat /\ Long \in Nat /\ 0 < Short /\ Short < Long
    /\ Xored \in [Ws!Byte -> [Ws!Byte -> Ws!Byte]]
    /\ \A a, b \in Ws!Byte : Xored[Xored[a][b]][b] = a
    /\ \A msg \in Messages : msg \in Seq(Ws!Byte) /\ Len(msg) < Ws!Power[Long]
    /\ MaskLen \in Nat \ {0} /\ Masks \subseteq [1..MaskLen -> Ws!Byte]
    /\ MaxFrame \in Nat /\ KeyMax \in Nat /\ MaxSent \in Nat /\ PathMax \in Nat
    /\ \A k \in Keys : k \in Seq(STRING) /\ \A i \in 1..Len(k) : k[i] # "CRLF"
    /\ \A p \in Paths : p \in Seq(STRING) /\ \A i \in 1..Len(p) : p[i] # "HTTP"
    /\ None \notin Clients /\ {Null, "error", "trap"} \cap (Handlers \cup {None}) = {}

wsVars == <<phase, request, key, wire, got, closed, sent, received, torn, whole, cut>>
httpVars == <<routes, up, pc, cur, answer, queue, conn, open, oom>>
vars == <<program, wsVars, httpVars>>

\* The idle program's clients are fixed, to keep the instance small.
Init ==
    /\ program \in {"http", "ws"}
    /\ Ws!Init /\ Http!Init
    /\ program = "http" => key = CHOOSE k \in Keys : TRUE
    /\ program = "ws" => ~up /\ conn = Http!SomeClients

WsNext == program = "ws" /\ Ws!Next /\ UNCHANGED <<program, httpVars>>
HttpNext == program = "http" /\ Http!Next /\ UNCHANGED <<program, wsVars>>
Next == WsNext \/ HttpNext

\* The reading program runs its loop; connected clients do not stay
\* silent for ever (the code has no timeout that would make up for it).
Fairness ==
    /\ WF_vars(program = "ws" /\ Ws!Receive /\ UNCHANGED <<program, httpVars>>)
    /\ WF_vars(program = "http" /\ Http!ServerStep /\ UNCHANGED <<program, wsVars>>)
    /\ \A c \in Clients : WF_vars(program = "http" /\ Http!Speak(c) /\ UNCHANGED <<program, wsVars>>)

Spec == Init /\ [][Next]_vars /\ Fairness

\* abs_ws.c refuses no handshake that arrives whole, unless memory or the send
\* fails it; ws_recv answers the messages that were sent before any damage in
\* order, up to their first NUL, and stands at the start of a frame between two
\* of them, however the stream splits the frames.
FramesAreKept ==
    /\ program \in {"http", "ws"}
    /\ Ws!TypeOK /\ Ws!RefusesOnlyCut /\ Ws!ReceivedInOrder /\ Ws!StreamIsAligned

\* The properties of the modules that Network composes, stated there.
EverythingArrives == Ws!EverythingArrives
ServesOneByOne == Http!AnswersItsRequest /\ Http!OneConnection /\ Http!EndsForAReason
ClientsServed == Http!ClientsServed
=============================================================================
