------------------------------- MODULE WsFrame -------------------------------
(***************************************************************************)
(* WebSocket frames (lib/ws.c) between two endpoints that both use the     *)
(* library: a plugin of the server and a ws_client_t.  Each endpoint is    *)
(* one thread that sends, and reads what comes.                            *)
(*                                                                         *)
(* The header of a frame is modelled byte by byte; its payload is a run of *)
(* so many bytes of a message.  A masked run is unmasked right when each   *)
(* byte meets the byte of the key it was masked with.                      *)
(***************************************************************************)
EXTENDS Integers, Sequences

CONSTANTS
    Chunk,          \* the buffer of ws_send_file
    Lengths,        \* lengths of texts, binaries and pings
    FileSizes,      \* sizes of files
    Pieces,         \* the len that callers give ws_read_data; -1: all
    Shorts,         \* what has come when the time is up for antd_recv
    MaxShorts,      \* bound: times it is up for the payload of a frame
    MaxPieces,      \* bound: pieces of one size that a frame is read in
    MaxMsgs         \* bound: messages sent, answers not counted

Smaller(m, n) == IF m < n THEN m ELSE n

\* Two bytes hold what is below 2^16.  The lengths are those of an int.
TwoBytes == 256 * 256
FourBytes(b1, b2, b3, b4) == ((b1 * 256 + b2) * 256 + b3) * 256 + b4
MaxLength == FourBytes(127, 255, 255, 255)

ASSUME WsAssumption ==
    /\ Chunk \in Nat \ {0} /\ {MaxMsgs, MaxPieces, MaxShorts} \subseteq Nat
    /\ Lengths \cup FileSizes \subseteq 0 .. MaxLength
    /\ Pieces \subseteq {-1} \cup (Nat \ {0})
    /\ Shorts \subseteq Nat \ {0}

Ends == {"server", "client"}
Other(e) == CHOOSE f \in Ends : f # e

\* The mask argument the callers give: a client masks, a server does not.
RoleMask(e) == IF e = "client" THEN 1 ELSE 0

Cont == 0   Text == 1   Bin == 2   CloseOp == 8   Ping == 9   Pong == 10

NoHeader == [plen |-> -1]
NoPart == [m |-> 0]
NoFile == [m |-> 0]

VARIABLES
    chan,           \* end -> what is on its way to it
    header,         \* end -> the header its reader works on, or NoHeader
    reads,          \* end -> "yes", or why it stopped: "closed", "silent", "failed"
    sent,           \* the messages: from, opcode, size, what it answers
    part,           \* end -> the message its caller is putting together
    got,            \* end -> the messages its caller has
    file,           \* end -> what ws_send_file has sent of its file, or NoFile
    missed          \* the pings that ws_pong could not read, so never answered

vars == <<chan, header, reads, sent, part, got, file, missed>>
readVars == <<header, reads, part, got>>

Init ==
    /\ chan = [e \in Ends |-> <<>>]
    /\ header = [e \in Ends |-> NoHeader]
    /\ reads = [e \in Ends |-> "yes"]
    /\ sent = <<>>
    /\ part = [e \in Ends |-> NoPart]
    /\ got = [e \in Ends |-> <<>>]
    /\ file = [e \in Ends |-> NoFile]
    /\ missed = {}

-----------------------------------------------------------------------------
(***************************************************************************)
(* Frames: bytes and payload runs.  The first byte of a frame carries the  *)
(* frame it stands for, for the properties only.                           *)
(***************************************************************************)
Byte(b) == [kind |-> "byte", b |-> b]
First(b, f) == [kind |-> "first", b |-> b, frame |-> f]
\* n bytes of message m from offset at of the message, off of the frame; only
\* the first good of them are the message's own.
Run(f, good) == [kind |-> "run", m |-> f.m, at |-> f.at, off |-> 0, n |-> f.n,
                 masked |-> f.mask, good |-> good]

Frame(m, op, fin, mask, at, n) ==
    [m |-> m, op |-> op, fin |-> fin, mask |-> mask, at |-> at, n |-> n]

Shift8(n) == n \div 256

\* Mutant: 126 is sent as if it fitted in seven bits.
LengthBytesShort(mask, n) ==
    IF n <= 126 THEN <<mask * 128 + n>>
    ELSE IF n < TwoBytes THEN <<mask * 128 + 126, Shift8(n), n % 256>>
    ELSE <<mask * 128 + 127, 0, 0, 0, 0, Shift8(Shift8(Shift8(n))),
           Shift8(Shift8(n)) % 256, Shift8(n) % 256, n % 256>>
\* The mask bit and the payload length in 7, 16 or 64 bits.
LengthBytes(mask, n) ==
    IF n <= 125 THEN <<mask * 128 + n>>
    ELSE IF n < TwoBytes THEN <<mask * 128 + 126, Shift8(n), n % 256>>
    ELSE <<mask * 128 + 127, 0, 0, 0, 0, Shift8(Shift8(Shift8(n))),
           Shift8(Shift8(n)) % 256, Shift8(n) % 256, n % 256>>

\* The four bytes of ws_gen_mask_key: which ones does not matter.
MaskKey == <<11, 22, 33, 44>>

\* ws_send_frame: the header, the key of a masked frame, the payload.
Encode(f, good) ==
    LET tail == LengthBytes(f.mask, f.n) \o (IF f.mask = 1 THEN MaskKey ELSE <<>>)
    IN  <<First(f.fin * 128 + f.op, f)>>
            \o [i \in 1 .. Len(tail) |-> Byte(tail[i])]
            \o (IF f.n = 0 THEN <<>> ELSE <<Run(f, good)>>)

\* What the second byte tells of the header: more length bytes, a key.
Ext(c) == LET len == c[2].b % 128
          IN  IF len <= 125 THEN 0 ELSE IF len = 126 THEN 2 ELSE 8
HeaderSize(c) == 2 + Ext(c) + 4 * (c[2].b \div 128)

\* Whether the front of a channel is a header at all.
Decodable(c) ==
    /\ Len(c) >= 2 /\ c[1].kind = "first" /\ c[2].kind = "byte"
    /\ c[1].b % 128 < 16                   \* the RSV bits are 0
    /\ Len(c) >= HeaderSize(c)
    /\ \A i \in 2 .. HeaderSize(c) : c[i].kind = "byte"

\* ws_read_header up to its switch; of a 64-bit length it looks at the last
\* four bytes.
Decode(c) ==
    [fin |-> c[1].b \div 128, opcode |-> c[1].b % 16, mask |-> c[2].b \div 128,
     plen |-> CASE Ext(c) = 0 -> c[2].b % 128
                [] Ext(c) = 2 -> c[3].b * 256 + c[4].b
                [] OTHER -> FourBytes(c[7].b, c[8].b, c[9].b, c[10].b),
     frame |-> c[1].frame, shorts |-> 0]

-----------------------------------------------------------------------------
(***************************************************************************)
(* Sending.                                                                *)
(***************************************************************************)
\* answers: the message it answers, or 0; cut: the time was up for that one.
Message(e, op, size, answers, cut) ==
    [from |-> e, op |-> op, size |-> size, answers |-> answers, cut |-> cut]

\* The thread of an end is not in ws_send_file: it can send, or read.
Idle(e) == file[e] = NoFile

MaySend(e) ==
    /\ Idle(e)
    /\ Len(SelectSeq(sent, LAMBDA msg : msg.answers = 0)) < MaxMsgs

\* One message in one frame.
SendOne(e, op, n, mask) ==
    /\ MaySend(e)
    /\ sent' = Append(sent, Message(e, op, n, 0, FALSE))
    /\ chan' = [chan EXCEPT ![Other(e)] =
            @ \o Encode(Frame(Len(sent) + 1, op, 1, mask, 0, n), n)]

\* ws_send_text, ws_send_binary, ws_ping.
Send(e) ==
    /\ \E op \in {Text, Bin, Ping}, n \in Lengths : SendOne(e, op, n, RoleMask(e))
    /\ UNCHANGED <<readVars, file, missed>>

\* ws_send_close; ws_send_file sends one when it cannot open the file.
SendClose(e) ==
    /\ SendOne(e, CloseOp, 2, RoleMask(e))
    /\ UNCHANGED <<readVars, file, missed>>

\* ws_send_file up to its loop.
OpenFile(e) ==
    /\ MaySend(e)
    /\ \E size \in FileSizes :
        /\ sent' = Append(sent, Message(e, Bin, size, 0, FALSE))
        /\ file' = [file EXCEPT ![e] = [m |-> Len(sent) + 1, at |-> 0, size |-> size]]
    /\ UNCHANGED <<chan, readVars, missed>>

\* Mutant: the end shows after a full buffer.
AtEndEarly(n) == n <= Chunk
\* feof shows only after a read that did not fill the buffer.
AtEnd(n) == n < Chunk

\* One turn of its loop: a buffer of the file, or what is left of it, in a frame.
SendFragment(e) ==
    /\ ~Idle(e)
    /\ LET f == file[e]
           n == Smaller(Chunk, f.size - f.at)
           fin == IF AtEnd(n) THEN 1 ELSE 0
           op == IF f.at = 0 THEN Bin ELSE Cont
       IN  /\ chan' = [chan EXCEPT ![Other(e)] =
                    @ \o Encode(Frame(f.m, op, fin, RoleMask(e), f.at, n), n)]
           /\ file' = [file EXCEPT ![e] =
                    IF fin = 1 THEN NoFile ELSE [f EXCEPT !.at = @ + n]]
    /\ UNCHANGED <<sent, readVars, missed>>

-----------------------------------------------------------------------------
(***************************************************************************)
(* Reading.                                                                *)
(***************************************************************************)

\* What is left of a run after k bytes.
Cut(run, k) ==
    IF k >= run.n THEN <<>>
    ELSE <<[run EXCEPT !.at = @ + k, !.off = @ + k, !.n = @ - k,
                       !.good = IF @ > k THEN @ - k ELSE 0]>>
\* antd_recv takes k bytes off the front of a channel.
Drop(c, k) == IF k = 0 THEN c ELSE Cut(c[1], k) \o Tail(c)

\* Mutant: the answer is masked as the frame was.
AnswerMaskSame(h) == h.mask
\* The mask of what is sent in answer to a frame.
AnswerMask(h) == IF h.mask = 1 THEN 0 ELSE 1

\* Mutant: the length of the pong is taken after the ping was read.
PongLengthLate(h, k) == h.plen - k
PongLength(h, k) == h.plen

\* What antd_recv gives of n bytes of the payload of h: all of them, or fewer
\* that have come when the time is up.
Received(h, n) ==
    {n} \cup {k \in Shorts : k < n /\ h.shorts < MaxShorts}

Left(h, k) == h.plen - k

\* The header after k of n bytes that were asked.
After(h, n, k) ==
    [h EXCEPT !.plen = Left(h, k), !.shorts = IF k < n THEN @ + 1 ELSE @]

\* An answer, after k bytes of the payload of h were read: n bytes, good of
\* them those of the frame h.
Answer(e, h, op, n, good, k, c) ==
    /\ sent' = Append(sent, Message(e, op, n, h.frame.m, good < n))
    /\ chan' = [chan EXCEPT
            ![e] = Drop(c, k),
            ![Other(e)] =
                @ \o Encode(Frame(Len(sent) + 1, op, 1, AnswerMask(h), 0, n), good)]

\* ws_pong: it reads the ping, or k bytes of it, and sends as many bytes as the
\* ping has back.
PongSent(e, h, c) ==
    \E k \in Received(h, h.plen) :
        LET n == PongLength(h, k)
        IN  /\ Answer(e, h, Pong, n, Smaller(k, n), k, c)
            /\ header' = [header EXCEPT ![e] = After(h, h.plen, k)]
            /\ UNCHANGED missed

\* ws_pong, when nothing of the ping has come: it sends nothing, and
\* ws_read_header returns the header all the same.
PongMissed(e, h, c) ==
    /\ h.plen > 0
    /\ missed' = missed \cup {h.frame.m}
    /\ chan' = [chan EXCEPT ![e] = c]
    /\ header' = [header EXCEPT ![e] = h]
    /\ UNCHANGED sent

\* ws_read_header, where all of the header has come.
ReadHeader(e) ==
    /\ Idle(e) /\ reads[e] = "yes" /\ header[e] = NoHeader
    /\ Decodable(chan[e])
    /\ LET h == Decode(chan[e])
           c == SubSeq(chan[e], HeaderSize(chan[e]) + 1, Len(chan[e]))
       IN  CASE h.opcode = CloseOp ->
                    /\ Answer(e, h, CloseOp, 2, 2, 0, c)
                    /\ header' = [header EXCEPT ![e] = h]
                    /\ UNCHANGED missed
             [] h.opcode = Ping -> PongSent(e, h, c) \/ PongMissed(e, h, c)
             [] OTHER -> /\ header' = [header EXCEPT ![e] = h]
                         /\ chan' = [chan EXCEPT ![e] = c]
                         /\ UNCHANGED <<sent, missed>>
    /\ UNCHANGED <<reads, part, got, file>>

\* No header: antd_recv gave up on a silent peer, or the bytes are none.  The
\* caller gets NULL and gives up.
ReadNoHeader(e) ==
    /\ Idle(e) /\ reads[e] = "yes" /\ header[e] = NoHeader
    /\ reads' = [reads EXCEPT ![e] =
            IF chan[e] = <<>> \/ Decodable(chan[e]) THEN "silent" ELSE "failed"]
    /\ UNCHANGED <<chan, header, sent, part, got, file, missed>>

\* The piece that k bytes make: byte i is unmasked with byte i % 4 of the key.
Intact(run, k) ==
    /\ run.masked = 0 \/ run.off % 4 = 0
    /\ run.good >= Smaller(k, run.n)

\* A piece came short inside the key: what is left does not begin with byte 0.
Slips(run, n, k) == k < n /\ run.masked = 1 /\ (run.off + k) % 4 # 0

\* What the caller has of the message after k more bytes, n of which it asked:
\* it starts one with a text, binary, close or pong and goes on with one with a
\* continuation.
Joined(e, h, n, k) ==
    LET old == IF h.opcode = Cont \/ part[e] # NoPart THEN part[e]
               ELSE [m |-> h.frame.m, n |-> 0, whole |-> TRUE, slip |-> FALSE]
        run == chan[e][1]
    IN  IF k = 0 THEN old
        ELSE [old EXCEPT !.n = @ + k,
                         !.whole = /\ @ /\ Intact(run, k)
                                   /\ run.m = old.m /\ run.at = old.n,
                         !.slip = @ \/ Slips(run, n, k)]

\* ws_read_data, and the end of the frame when nothing is left of it.
ReadData(e) ==
    /\ Idle(e) /\ reads[e] = "yes" /\ header[e] # NoHeader
    /\ header[e].opcode # Ping
    /\ \E len \in Pieces :
        LET h == header[e]
            n == IF len = -1 \/ len > h.plen THEN h.plen ELSE len
        IN  \E k \in Received(h, n) :
            LET left == Left(h, k)
                now == Joined(e, h, n, k)
            IN  /\ len # -1 => h.plen <= MaxPieces * len
                /\ k > 0 => chan[e] # <<>> /\ chan[e][1].kind = "run"
                /\ chan' = [chan EXCEPT ![e] = Drop(@, k)]
                /\ IF left > 0
                   THEN /\ header' = [header EXCEPT ![e] = After(h, n, k)]
                        /\ part' = [part EXCEPT ![e] = now]
                        /\ UNCHANGED <<reads, got>>
                   ELSE /\ header' = [header EXCEPT ![e] = NoHeader]
                        /\ IF h.fin = 1
                           THEN /\ got' = [got EXCEPT ![e] = Append(@, now)]
                                /\ part' = [part EXCEPT ![e] = NoPart]
                           ELSE /\ part' = [part EXCEPT ![e] = now]
                                /\ UNCHANGED got
                        /\ reads' = IF h.opcode = CloseOp
                                    THEN [reads EXCEPT ![e] = "closed"] ELSE reads
    /\ UNCHANGED <<sent, file, missed>>

\* A ping that was looked at: the caller reads what ws_pong has left, if any.
ReadPingRest(e) ==
    /\ Idle(e) /\ reads[e] = "yes" /\ header[e] # NoHeader
    /\ header[e].opcode = Ping
    /\ \E k \in Received(header[e], header[e].plen) :
        /\ chan' = [chan EXCEPT ![e] = Drop(@, k)]
        /\ header' = [header EXCEPT ![e] =
                IF Left(header[e], k) > 0
                THEN After(header[e], header[e].plen, k) ELSE NoHeader]
    /\ UNCHANGED <<reads, sent, part, got, file, missed>>

\* ws_read_data gives -1 when nothing has come: the caller gives up.
ReadNoData(e) ==
    /\ Idle(e) /\ reads[e] = "yes" /\ header[e] # NoHeader
    /\ header[e].plen > 0
    /\ reads' = [reads EXCEPT ![e] = "silent"]
    /\ UNCHANGED <<chan, header, sent, part, got, file, missed>>

Read(e) == ReadHeader(e) \/ ReadData(e) \/ ReadPingRest(e)

Next ==
    \E e \in Ends :
        \/ Send(e) \/ SendClose(e) \/ OpenFile(e) \/ SendFragment(e)
        \/ Read(e) \/ ReadNoHeader(e) \/ ReadNoData(e)

\* Both callers go on reading what there is, and a file that is being sent is
\* sent to its end.
Spec ==
    /\ Init /\ [][Next]_vars
    /\ \A e \in Ends : WF_vars(Read(e)) /\ WF_vars(SendFragment(e))

-----------------------------------------------------------------------------
(***************************************************************************)
(* Properties.                                                             *)
(***************************************************************************)

\* Reader and sender stay in step: whatever the lengths, a header is read as it
\* was sent, what is left of a frame is what is on its way of it, and after a
\* frame the next thing is a header.
InSync ==
    \A e \in Ends :
        LET h == header[e]
            c == chan[e]
        IN  /\ reads[e] # "failed"
            /\ IF h = NoHeader THEN c # <<>> => c[1].kind = "first"
               ELSE /\ <<h.fin, h.opcode, h.mask>> =
                            <<h.frame.fin, h.frame.op, h.frame.mask>>
                    /\ h.plen >= 0
                    /\ IF h.plen = 0 THEN c # <<>> => c[1].kind = "first"
                       ELSE c # <<>> /\ c[1].kind = "run" /\ c[1].n = h.plen
                                /\ c[1].m = h.frame.m

\* The frames of a client are masked and those of a server are not, also the
\* pongs and closes that the library sends by itself.
MaskByRole ==
    \A e \in Ends : \A i \in 1 .. Len(chan[e]) :
        chan[e][i].kind = "first" => chan[e][i].frame.mask = RoleMask(Other(e))

\* What a caller puts together of the frames and pieces it reads is what was
\* sent: a file in fragments, a payload of any length, a pong.  All of it has
\* come, in order, also where pieces came short; only where one came short
\* inside the key of a masked frame the bytes after it may be wrong, and those
\* of a pong that the other end could not read the ping for.
MessagesWhole ==
    \A e \in Ends : \A i \in 1 .. Len(got[e]) :
        LET r == got[e][i]
        IN  /\ r.m # 0 /\ sent[r.m].from = Other(e)
            /\ r.n = sent[r.m].size
            /\ r.whole \/ r.slip \/ sent[r.m].cut
            /\ i > 1 => r.m > got[e][i - 1].m

Pinged(m) == m <= Len(sent) /\ sent[m].op = Ping
Echoed(m) ==
    /\ Pinged(m)
    /\ \E e \in Ends : \E i \in 1 .. Len(got[e]) :
           LET a == sent[got[e][i].m]
           IN  /\ e = sent[m].from /\ a.from = Other(e)
               /\ a.op = Pong /\ a.answers = m /\ a.size = sent[m].size

\* A ping is answered by a pong of its length, also when the time was up while
\* the ping was read, and the answer is read.  It is not only where nothing of
\* the ping has come in time, or an end has stopped.
PingAnswered ==
    \A m \in 1 .. MaxMsgs :
        Pinged(m) ~> \/ Echoed(m) \/ m \in missed
                     \/ \E e \in Ends : reads[e] # "yes"

=============================================================================
