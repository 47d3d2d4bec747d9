----------------------------- MODULE WebSocket -----------------------------
(***************************************************************************)
(* One direction of a web socket (abs_ws.c): the upgrade handshake, then   *)
(* frames over a byte stream that splits reads and may cut writes.  Frames *)
(* come from ws_send or from a peer that masks them; ws_recv reads them    *)
(* piece by piece with ws_read_full.                                       *)
(*                                                                         *)
(* A byte is a number below B, its top bit the mask flag of the second     *)
(* header byte.  The code has TopBit = 0x80, Short = 2, Long = 8 and so    *)
(* the lengths 125 (Inline), 126 and 127; the instance scales these down.  *)
(* The kernel's buffers are wire; sent and received are history, torn says *)
(* that bytes of a frame or of the handshake were lost or misread, whole   *)
(* how many of the messages sent come before that damage.                  *)
(***************************************************************************)
EXTENDS Integers, SequencesExt

CONSTANTS
    TopBit, Short, Long, \* mask flag, bytes of the two longer length fields
    Xored,               \* two bytes -> their exclusive or
    Messages,            \* sequences of bytes
    Masks,               \* mask keys, sequences of MaskLen (four) bytes
    MaskLen, MaxFrame,   \* WS_MAX_FRAME
    Keys, KeyMax,        \* keys of the handshake, sizeof(key) - 1
    MaxSent              \* bound: frames sent

B == 2 * TopBit
Byte == 0..B - 1
Inline == TopBit - 3
Text == TopBit + 1      \* FIN and the text opcode

VARIABLES
    phase,      \* "request", "open", "refused", "failed"
    request,    \* what of its request the client has sent
    key,        \* the key in it
    wire,       \* bytes on their way
    got,        \* bytes of the frame that ws_recv is reading
    closed,     \* the sender has closed its end
    sent, received, torn, whole, cut

vars == <<phase, request, key, wire, got, closed, sent, received, torn, whole, cut>>
handshake == <<phase, request, key, cut>>

Init ==
    /\ phase = "request" /\ request = <<>> /\ key \in Keys
    /\ wire = <<>> /\ got = <<>> /\ closed = FALSE
    /\ sent = <<>> /\ received = <<>> /\ torn = FALSE /\ whole = 0 /\ cut = FALSE

----------------------------------------------------------------------------
(* Handshake: a request is the header's name, the key, the end of its line *)

Request == <<"GET", "Key:">> \o key \o <<"CRLF">>

ClientWrites ==
    /\ phase = "request" /\ Len(request) < Len(Request)
    /\ \E n \in Len(request) + 1..Len(Request) : request' = SubSeq(Request, 1, n)
    /\ UNCHANGED <<phase, key, wire, got, closed, sent, received, torn, whole, cut>>

\* Bug: the key is taken up to the end of the request.
KeyIn_bug(req) == SubSeq(req, SelectInSeq(req, LAMBDA t : t = "Key:") + 1, Len(req))

\* The key ends at the end of its line, of the buffer or of key[].
KeyIn(req) ==
    LET from == SelectInSeq(req, LAMBDA t : t = "Key:") + 1
        end == SelectInSubSeq(req, from, Len(req), LAMBDA t : t = "CRLF")
        last == IF end = 0 THEN Len(req) ELSE end - 1
    IN SubSeq(req, from, IF last - from + 1 > KeyMax THEN from + KeyMax - 1 ELSE last)

\* ws_accept(fd, what one recv returned); the client compares the answer with
\* its own key's.  ws_accept fails if there is no memory for the answer or if
\* it cannot be sent.  Of a request that was cut, the rest stays in the stream.
WsAccept ==
    /\ phase = "request" /\ request # <<>>
    /\ \/ phase' = IF Contains(request, "Key:") /\ KeyIn(request) = key THEN "open" ELSE "refused"
       \/ phase' = "failed" /\ Contains(request, "Key:")
    /\ cut' = (request # Request)
    /\ UNCHANGED <<request, key, got, closed, sent, received, whole>>
    /\ IF phase' = "open" /\ cut'
       THEN \E byte \in {0, Text} : wire' = [i \in 1..Len(Request) - Len(request) |-> byte] /\ torn' = TRUE
       ELSE UNCHANGED <<wire, torn>>

----------------------------------------------------------------------------
(* Frames                                                                  *)

\* Shifting by k bytes is division by Power[k].
Power[k \in 0..Long] == IF k = 0 THEN 1 ELSE B * Power[k - 1]

\* Bug: the higher bytes are not cut off.
BigEndian_bug(n, k) == [i \in 1..k |-> n \div Power[k - i]]
BigEndian(n, k) == [i \in 1..k |-> (n \div Power[k - i]) % B]

\* The number that the first i bytes are, for each i.
Values(bytes) ==
    LET value[i \in 0..Len(bytes)] == IF i = 0 THEN 0 ELSE value[i - 1] * B + bytes[i]
    IN value
Number(bytes) == Values(bytes)[Len(bytes)]

LengthField(n) == IF n <= Inline THEN <<n>>
                  ELSE IF n <= Power[Short] - 1 THEN <<Inline + 1>> \o BigEndian(n, Short)
                  ELSE <<Inline + 2>> \o BigEndian(n, Long)

HeaderSize(n) == IF n <= Inline THEN 2 ELSE IF n <= Power[Short] - 1 THEN 2 + Short ELSE 2 + Long

\* ws_encode_frame(out, cap, msg): <<>> for the 0 it returns without room.
EncodeFrame(cap, msg) ==
    IF cap < HeaderSize(Len(msg)) + Len(msg) THEN <<>>
    ELSE <<Text>> \o LengthField(Len(msg)) \o msg

\* Bug: only the first byte of the mask is used.
Unmask_bug(data, mask) == [i \in DOMAIN data |-> Xored[data[i]][mask[1]]]
Unmask(data, mask) == [i \in DOMAIN data |-> Xored[data[i]][mask[((i - 1) % MaskLen) + 1]]]

\* A frame of the peer: masked, here with opcode 0, which ws_recv ignores.
PeerFrame(msg, mask) ==
    LET field == LengthField(Len(msg))
    IN <<0, field[1] + TopBit>> \o Tail(field) \o mask
          \o [i \in DOMAIN msg |-> Xored[msg[i]][mask[((i - 1) % MaskLen) + 1]]]

\* The fields of a header p whose bytes are there.
Marker(p) == p[2] % TopBit
\* Bug: the short form is taken for the long one.
ExtraLen_bug(p) == IF Marker(p) > Inline THEN Long ELSE 0
ExtraLen(p) == CASE Marker(p) = Inline + 1 -> Short [] Marker(p) = Inline + 2 -> Long [] OTHER -> 0
\* Bug: every frame is taken to be masked.
MaskAt_bug(p) == MaskLen
MaskAt(p) == IF p[2] >= TopBit THEN MaskLen ELSE 0
PayloadLen(p) == IF ExtraLen(p) = 0 THEN Marker(p) ELSE Number(SubSeq(p, 3, 2 + ExtraLen(p)))
HeaderLen(p) == 2 + ExtraLen(p) + MaskAt(p)
Payload(p) ==
    LET data == SubSeq(p, HeaderLen(p) + 1, HeaderLen(p) + PayloadLen(p))
    IN IF MaskAt(p) = 0 THEN data ELSE Unmask(data, SubSeq(p, 3 + ExtraLen(p), HeaderLen(p)))

Refused == <<-1>>

\* ws_decode_frame(buf, buf_len, out, out_cap).
DecodeFrame(p, cap) ==
    IF \/ Len(p) < 2 \/ Len(p) < 2 + ExtraLen(p) \/ Len(p) < HeaderLen(p)
       \/ PayloadLen(p) > cap \/ Len(p) < HeaderLen(p) + PayloadLen(p)
    THEN Refused ELSE Payload(p)

----------------------------------------------------------------------------
\* A write that is cut leaves nothing, or all but the last byte.
Write(frame, msg) ==
    /\ phase = "open" /\ ~closed /\ Len(sent) < MaxSent
    /\ \E n \in {0, Len(frame) - 1, Len(frame)} :
          /\ wire' = wire \o SubSeq(frame, 1, n)
          /\ torn' = (torn \/ n < Len(frame))
    /\ whole' = IF torn' THEN whole ELSE whole + 1
    /\ sent' = Append(sent, msg)
    /\ UNCHANGED <<handshake, got, closed, received>>

\* ws_send gives send() the whole frame and does not look at what was taken;
\* without memory for the frame it sends nothing.
WsSend(msg) == ~Contains(msg, 0) /\ Write(EncodeFrame(Len(msg) + HeaderSize(Len(msg)), msg), msg)
\* A peer's stack repeats cut writes, so all of its frame arrives.
PeerSend(msg, mask) ==
    /\ Write(PeerFrame(msg, mask), msg)
    /\ Len(wire') = Len(wire) + Len(PeerFrame(msg, mask))
Close == closed' = TRUE /\ phase = "open" /\ UNCHANGED <<handshake, wire, got, sent, received, torn, whole>>

\* ws_read_full reads up to the end of the part it was asked for; recv gives it
\* one byte, all there is, or all it asked for.
Goal(p) ==
    IF Len(p) < 2 THEN 2
    ELSE IF Len(p) < 2 + ExtraLen(p) THEN 2 + ExtraLen(p)
    ELSE IF Len(p) < HeaderLen(p) THEN HeaderLen(p) ELSE HeaderLen(p) + PayloadLen(p)
HeaderRead == Len(got) >= 2 /\ Len(got) >= 2 + ExtraLen(got) /\ Len(got) >= HeaderLen(got)
TooLarge == HeaderRead /\ PayloadLen(got) > MaxFrame

Read ==
    /\ phase = "open" /\ ~TooLarge
    /\ \E n \in {1, Len(wire), Goal(got) - Len(got)} \cap 1..Len(wire) :
          /\ Len(got) + n <= Goal(got)
          /\ got' = got \o SubSeq(wire, 1, n)
          /\ wire' = SubSeq(wire, n + 1, Len(wire))
    /\ UNCHANGED <<handshake, closed, sent, received, torn, whole>>

\* The text ends at the first NUL of the data.
CString(data) ==
    LET nul == SelectInSeq(data, LAMBDA byte : byte = 0)
    IN IF nul = 0 THEN data ELSE SubSeq(data, 1, nul - 1)

\* Without memory for the text the answer is NULL, and the message is lost.
Lost == <<-2>>
Deliver ==
    /\ HeaderRead /\ ~TooLarge /\ Len(got) = HeaderLen(got) + PayloadLen(got)
    /\ \E text \in {CString(Payload(got)), Lost} : received' = Append(received, text)
    /\ got' = <<>>
    /\ UNCHANGED <<handshake, wire, closed, sent, torn, whole>>

\* A frame over the limit, or one malloc has no room for, is answered with an
\* error; its payload stays in the stream.
DropFrame ==
    /\ HeaderRead /\ Len(got) = HeaderLen(got)
    /\ got' = <<>> /\ torn' = TRUE
    /\ whole' = IF Len(received) < whole THEN Len(received) ELSE whole
    /\ received' = Append(received, Refused)
    /\ UNCHANGED <<handshake, wire, closed, sent>>

\* recv() returned 0: ws_recv answers None, and so will the next one.
EndOfStream ==
    /\ phase = "open" /\ closed /\ wire = <<>> /\ got # <<>> /\ Len(got) < Goal(got) /\ ~TooLarge
    /\ got' = <<>>
    /\ UNCHANGED <<handshake, wire, closed, sent, received, torn, whole>>

Receive == Read \/ Deliver \/ EndOfStream \/ (TooLarge /\ DropFrame)

Next ==
    \/ ClientWrites \/ WsAccept \/ Close
    \/ \E msg \in Messages : WsSend(msg) \/ \E mask \in Masks : PeerSend(msg, mask)
    \/ Receive \/ DropFrame

----------------------------------------------------------------------------
(* Properties                                                              *)

TypeOK ==
    /\ phase \in {"request", "open", "refused", "failed"}
    /\ wire \in Seq(Byte) /\ got \in Seq(Byte)
    /\ Len(sent) <= MaxSent /\ whole \in 0..Len(sent)

\* A well-formed client finds its upgrade refused, or answered for another key
\* than its own, only when the one recv() of the request had cut it or when the
\* key is longer than key[] (where ws_accept fails for want of memory or for a
\* send that did not work, the phase is "failed").
RefusesOnlyCut == phase = "refused" => cut \/ Len(key) > KeyMax

\* ws_recv answers the messages in the order they were sent, each up to its
\* first NUL or, without memory for it, as NULL, however the stream splits
\* them: all of them until a write was cut or a frame refused, and those sent
\* before that even then.
ReceivedInOrder ==
    /\ ~torn => Len(received) <= Len(sent)
    /\ \A i \in DOMAIN received : i <= whole => received[i] \in {CString(sent[i]), Lost}

\* Between two frames ws_recv stands at the start of the next one, as long as
\* a message comes before the damage, if there is any: what is left in the
\* stream begins with a whole frame, which ws_decode_frame reads as ws_recv
\* will, and of which it refuses every shorter part.
StreamIsAligned ==
    got = <<>> /\ Len(received) < whole =>
        LET msg == sent[Len(received) + 1]
        IN Len(msg) <= MaxFrame => \E size \in 1..Len(wire) :
             /\ \A n \in 0..size - 1 : DecodeFrame(SubSeq(wire, 1, n), MaxFrame) = Refused
             /\ \A n \in size..Len(wire) : DecodeFrame(SubSeq(wire, 1, n), MaxFrame) = msg
             /\ ~torn => (Len(wire) = size <=> Len(sent) = Len(received) + 1)

\* What was sent before any damage is received, or is lost to a NULL answer:
\* every such message is answered in the end, unless ws_recv refuses it or one
\* before it (under fairness of the reading side alone).
EverythingArrives == \A n \in 1..MaxSent : (whole >= n) ~> (Len(received) >= n \/ whole < n)
=============================================================================
