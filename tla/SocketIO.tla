------------------------------ MODULE SocketIO ------------------------------
(***************************************************************************)
(* The transfers of lib/handle.c on one client: antd_send, antd_recv,      *)
(* antd_recv_upto and what is built of them (__b, __t, __f, read_buf,      *)
(* antd_send_header, antd_close), with the two loops of the decoder and of *)
(* resolve_request that read a body.                                       *)
(*                                                                         *)
(* A byte is its position in the stream it belongs to: the n-th byte the   *)
(* peer sends is n, and so is the n-th byte the handlers produce.  One     *)
(* system call is one step; it takes any part of what it is offered, would *)
(* block, or fails.                                                        *)
(***************************************************************************)
EXTENDS Integers, Sequences

CONSTANTS
    Buff,           \* BUFFLEN: the most one system call is offered
    Newlines,       \* the positions of the line ends in the incoming stream
    ReadLens,       \* the lengths that callers read
    SendLens,       \* the lengths that handlers send in one call
    HeaderLines,    \* lines of a response header
    MaxBytes        \* bound: bytes the peer sends and the handlers produce

ASSUME SocketAssumption ==
    /\ {Buff, HeaderLines} \subseteq Nat \ {0}
    /\ ReadLens \cup SendLens \subseteq Nat \ {0}
    /\ MaxBytes \in Nat
    /\ Newlines \subseteq 1 .. MaxBytes

VARIABLES
    ssl,            \* the connection is encrypted
    peer,           \* "open", "shut" (sends no more) or "reset"
    arrived, taken, \* bytes the peer sent, bytes read of them
    idle,           \* last_io is more than MAX_IO_WAIT_TIME ago
    errno,          \* "again" (EAGAIN, EWOULDBLOCK) or "other"
    pc, op,         \* where the call is, and which call
    want, rdone,    \* antd_recv: bytes asked for, bytes read
    len, dst,       \* the reading call: bytes asked for, the buffer
    todo,           \* the __b calls to do: bytes left; dep: only after a success
    pos,            \* bytes the handlers have produced
    chunk, written, \* antd_send: its data and how much is written
    pend,           \* SSL_write would block: the data it must be given again
    res,            \* what the transfer returned
    zon, zfrom,     \* zstream: compression is on, for the bytes after zfrom
    zbuf, zfull,    \* what deflate holds; it has filled the output buffer
    second,         \* a header was sent while a zstream was on (history)
    dropped,        \* the bytes that a replaced zstream still held (history)
    wire,           \* what has been sent: <<position, compressed>>
    lost            \* why transfers gave up before their end

envVars == <<ssl, peer, arrived>>
readVars == <<taken, want, rdone, len, dst>>
writeVars == <<todo, pos, chunk, written, pend, zon, zfrom, zbuf, zfull,
               second, dropped, wire, lost>>
vars == <<envVars, idle, errno, pc, op, res, readVars, writeVars>>

Init ==
    /\ ssl \in BOOLEAN
    /\ peer = "open" /\ arrived = 0 /\ taken = 0
    /\ idle = FALSE /\ errno = "other"
    /\ pc = "free" /\ op = "none" /\ res = 0
    /\ want = 0 /\ rdone = 0 /\ len = 0 /\ dst = <<>>
    /\ todo = <<>> /\ pos = 0 /\ chunk = <<>> /\ written = 0 /\ pend = <<>>
    /\ zon = FALSE /\ zfrom = 0 /\ zbuf = <<>> /\ zfull = FALSE
    /\ second = FALSE /\ dropped = {} /\ wire = <<>> /\ lost = {}

Smaller(m, n) == IF m < n THEN m ELSE n

-----------------------------------------------------------------------------
(***************************************************************************)
(* The peer and the clock.                                                 *)
(***************************************************************************)
\* What it sends, or that it sends no more, shows only in a call that reads.
Peer ==
    /\ \/ /\ peer = "open" /\ pc = "read" /\ arrived + pos < MaxBytes
          /\ arrived' = arrived + 1 /\ UNCHANGED peer
       \/ peer = "open" /\ pc = "read" /\ peer' = "shut" /\ UNCHANGED arrived
       \/ peer # "reset" /\ peer' = "reset" /\ UNCHANGED arrived
    /\ UNCHANGED <<ssl, idle, errno, pc, op, res, readVars, writeVars>>

Tick ==
    /\ idle' = TRUE
    /\ UNCHANGED <<envVars, errno, pc, op, res, readVars, writeVars>>

-----------------------------------------------------------------------------
(***************************************************************************)
(* The calls that read.  Between two calls errno is whatever it is.        *)
(***************************************************************************)
ReadOps == {"recv", "upto", "line", "post", "discard"}

\* resolve_request asks for its buffer of 2 * BUFFLEN, clipped to the whole body
\* and not to its rest.
DiscardWant(n) == Smaller(2 * Buff, n)

\* The first transfer of a call asks for:
FirstWant(o, n) ==
    CASE o = "line" -> 1                  \* read_buf: byte after byte
      [] o = "post" -> Smaller(Buff, n)   \* post_data_decode
      [] o = "discard" -> DiscardWant(n)
      [] OTHER -> n

\* read_buf keeps one byte of its buffer for the terminating zero.
BeginRead ==
    /\ pc = "free"
    /\ op' \in ReadOps
    /\ len' \in ReadLens /\ (op' = "line" => len' >= 2)
    /\ arrived + pos + len' <= MaxBytes
    /\ want' = FirstWant(op', len')
    /\ rdone' = 0 /\ dst' = <<>>
    /\ errno' \in {"again", "other"}
    /\ pc' = "read"
    /\ UNCHANGED <<envVars, idle, res, taken, writeVars>>

\* Mutant: each system call is given the start of the buffer.
ReadAtStart == Len(dst) - rdone
\* Where the next bytes go: ptr + read, buf[i].
ReadAt == Len(dst)

\* antd_recv reads until it has it all, antd_recv_upto is one system call.
Upto == op \in {"upto", "post"}

\* What one system call is offered.
Offer == IF Upto THEN want ELSE Smaller(Buff, want - rdone)

\* recv or SSL_read gives some bytes.
ReadSome ==
    /\ pc = "read"
    /\ \E c \in 1 .. Smaller(Offer, arrived - taken) :
        /\ dst' = SubSeq(dst, 1, ReadAt) \o [i \in 1 .. c |-> taken + i]
        /\ taken' = taken + c
        /\ rdone' = rdone + c
    /\ idle' = FALSE
    /\ IF Upto \/ rdone' = want
       THEN res' = rdone' /\ pc' = "got"
       ELSE UNCHANGED <<res, pc>>
    /\ UNCHANGED <<envVars, errno, op, want, len, writeVars>>

\* Nothing is read any more: what was read, or else the system call's value.
ReadStop(r) ==
    /\ res' = IF rdone = 0 THEN r ELSE rdone
    /\ pc' = "got"

ReadWait == UNCHANGED <<res, pc>>

\* It would block: tried again, without a pause, until the time is up.
\* SSL waits in poll for half a second before.
Block ==
    IF Upto THEN res' = 0 /\ pc' = "got"
    ELSE IF idle THEN ReadStop(-1) ELSE ReadWait

ReadBlocks ==
    /\ pc = "read" /\ taken = arrived /\ peer = "open"
    /\ errno' = "again"
    /\ Block
    /\ UNCHANGED <<envVars, idle, op, readVars, writeVars>>

\* Mutant: the end of the stream is tested with errno alone.
EofErrno == IF ~ssl /\ errno = "again" THEN ReadWait ELSE ReadStop(0)
\* The end of the stream.  recv returns 0 and leaves errno: when an earlier
\* call left EAGAIN in it antd_recv goes on until the time is up.
Eof ==
    IF Upto THEN res' = -1 /\ pc' = "got"
    ELSE IF ~ssl /\ ~idle /\ errno = "again" THEN ReadWait ELSE ReadStop(0)

ReadEof ==
    /\ pc = "read" /\ taken = arrived /\ peer = "shut"
    /\ Eof
    /\ UNCHANGED <<envVars, idle, errno, op, readVars, writeVars>>

ReadFails ==
    /\ pc = "read" /\ peer = "reset"
    /\ errno' = "other"
    /\ IF Upto THEN res' = -1 /\ pc' = "got" ELSE ReadStop(-1)
    /\ UNCHANGED <<envVars, idle, op, readVars, writeVars>>

\* The next transfer of the same call, or the end of the call.
Again(n) == want' = n /\ pc' = "read" /\ UNCHANGED <<errno, op, len, dst>>
Return ==
    /\ pc' = "free" /\ op' = "none" /\ errno' = "other"
    /\ want' = 0 /\ len' = 0 /\ dst' = <<>>

\* Mutant: a line ends with the buffer only.
LineEndsFull == Len(dst) = len - 1
\* read_buf: the line is complete, or the buffer is full.
LineEnds == dst[Len(dst)] \in Newlines \/ Len(dst) >= len - 1

\* The transfer has returned res.
Got ==
    /\ pc = "got"
    /\ rdone' = 0 /\ res' = 0
    /\ CASE op \in {"recv", "upto"} -> Return
         [] op = "line" -> IF res <= 0 \/ LineEnds THEN Return ELSE Again(1)
         [] op = "post" ->
                \* usleep, and again unless the time is up
                IF res < 0 \/ (res = 0 /\ idle) \/ Len(dst) = len
                THEN Return
                ELSE Again(Smaller(Buff, len - Len(dst)))
         [] op = "discard" ->
                IF res <= 0 \/ Len(dst) >= len THEN Return ELSE Again(DiscardWant(len))
    /\ UNCHANGED <<envVars, idle, taken, writeVars>>

ReadStep == BeginRead \/ ReadSome \/ ReadBlocks \/ ReadEof \/ ReadFails \/ Got

-----------------------------------------------------------------------------
(***************************************************************************)
(* The calls that write.  A call is a sequence of __b calls: one for a     *)
(* body; the line and its CRLF for __t; the lines of a header and an empty *)
(* one for antd_send_header.  antd_send itself is one without chunks.      *)
(***************************************************************************)
Part(n, dep) == [n |-> n, dep |-> dep]
Text(n) == <<Part(n, FALSE), Part(1, TRUE)>>

\* The lines, each with its CRLF, and the last CRLF.
Header == [i \in 1 .. 2 * HeaderLines + 1 |-> Part(1, i % 2 = 0)]

\* The parts have so many bytes in all.
BeginWrite(o, parts, bytes) ==
    /\ pc = "free"
    /\ arrived + pos + bytes <= MaxBytes
    /\ op' = o
    /\ todo' = parts
    /\ pc' = "part"
    /\ UNCHANGED <<envVars, idle, errno, res, readVars, pos, chunk, written, pend,
                   zfull, wire, lost>>

\* __b, __f, __t and antd_send.
BeginData ==
    /\ \/ \E o \in {"body", "file", "send"}, n \in SendLens :
            BeginWrite(o, <<Part(n, FALSE)>>, n)
       \/ BeginWrite("text", Text(1), 2)
    /\ UNCHANGED <<zon, zfrom, zbuf, second, dropped>>

\* A new zstream takes the place of the one there may be: what deflate held in
\* that one is gone.  deflateInit may fail; then there is none.
NewStream ==
    /\ zon' \in BOOLEAN
    /\ zfrom' = IF zon' THEN pos + Len(Header) ELSE zfrom
    /\ zbuf' = <<>>
    /\ dropped' = dropped \cup {zbuf[i][1] : i \in 1 .. Len(zbuf)}

\* antd_send_header starts the compression when the peer accepts it and the
\* content type is one to compress; the header itself is sent without.
BeginHeader ==
    /\ BeginWrite("header", Header, Len(Header))
    /\ \/ UNCHANGED <<zon, zfrom, zbuf, dropped>>
       \/ NewStream
    /\ second' = (second \/ zon)

Compress == zon /\ op # "header"

ChunkLen == IF op = "send" THEN todo[1].n ELSE Smaller(Buff, todo[1].n)

\* antd_send is called for the next chunk.
NextChunk ==
    /\ pc = "part" /\ todo # <<>>
    /\ LET data == [i \in 1 .. ChunkLen |-> <<pos + i, Compress>>]
       IN  IF Compress
           THEN /\ zbuf' = zbuf \o data
                /\ pc' = "deflate"
                /\ UNCHANGED chunk
           ELSE /\ chunk' = data
                /\ pc' = "raw"
                /\ UNCHANGED zbuf
    /\ written' = 0
    /\ pos' = pos + ChunkLen
    /\ UNCHANGED <<envVars, idle, errno, op, res, readVars, todo, pend, 
                   zon, zfrom, zfull, second, dropped, wire, lost>>

PartsDone ==
    /\ pc = "part" /\ todo = <<>>
    /\ pc' = "free" /\ op' = "none"
    /\ UNCHANGED <<envVars, idle, errno, res, readVars, todo, pos, chunk, written,
                   pend, zon, zfrom, zbuf, zfull, second, dropped, wire, lost>>

\* deflate gives what it likes, at the end all it has.  What does not fit in
\* the output buffer comes in another round.
Deflate ==
    /\ pc = "deflate"
    /\ \E e \in 0 .. Smaller(Buff, Len(zbuf)) :
        /\ (op = "close" /\ e < Buff) => e = Len(zbuf)
        /\ chunk' = SubSeq(zbuf, 1, e)
        /\ zbuf' = SubSeq(zbuf, e + 1, Len(zbuf))
        /\ zfull' = (e = Buff)
    /\ written' = 0
    /\ pc' = "raw"
    /\ UNCHANGED <<envVars, idle, errno, op, res, readVars, todo, pos, pend,
                   zon, zfrom, second, dropped, wire, lost>>

-----------------------------------------------------------------------------
(***************************************************************************)
(* antd_send on the chunk.  SSL_write takes all of what it is offered or   *)
(* nothing; after it would block it wants the same data in the same place, *)
(* and when it gets other data in the same place (the buffer of __f, the   *)
(* output buffer of deflate) it sends the old data instead (external).     *)
(***************************************************************************)
Sending == pc = "raw" /\ written < Len(chunk)

\* Mutant: the rest is sent from the start of the data again.
SegmentFromStart == SubSeq(chunk, 1, Smaller(Buff, Len(chunk) - written))
Segment == SubSeq(chunk, written + 1, written + Smaller(Buff, Len(chunk) - written))

SamePlace == op = "file" \/ op = "close" \/ Compress
Retry == pend = <<>> \/ pend = Segment
OldInstead == ~Retry /\ SamePlace /\ Len(pend) <= Len(Segment)

SendSome ==
    /\ Sending /\ peer # "reset"
    /\ \/ \E c \in 1 .. Len(Segment) :
            /\ ssl => (Retry /\ c = Len(Segment))
            /\ wire' = wire \o SubSeq(Segment, 1, c)
            /\ written' = written + c
       \/ /\ ssl /\ OldInstead
          /\ wire' = wire \o pend
          /\ written' = written + Len(pend)
    /\ pend' = <<>>
    /\ idle' = FALSE
    /\ UNCHANGED <<envVars, errno, pc, op, res, readVars, todo, pos, chunk, 
                   zon, zfrom, zbuf, zfull, second, dropped, lost>>

SendStop(why, r) ==
    /\ res' = IF written = 0 THEN r ELSE written
    /\ lost' = lost \cup {why}
    /\ pc' = "sent"

\* Mutant: a send that would block is given up at once.
SendBlockedAtOnce == SendStop(IF idle THEN "timeout" ELSE "error", -1)
\* Tried again until nothing has moved for MAX_IO_WAIT_TIME.
SendBlocked == IF idle THEN SendStop("timeout", -1) ELSE UNCHANGED <<res, lost, pc>>

SendBlocks ==
    /\ Sending /\ peer # "reset"
    /\ ssl => (Retry \/ OldInstead)
    /\ pend' = IF ssl /\ pend = <<>> THEN Segment ELSE pend
    /\ SendBlocked
    /\ UNCHANGED <<envVars, idle, errno, op, readVars, todo, pos, chunk, written, 
                   zon, zfrom, zbuf, zfull, second, dropped, wire>>

SendFails ==
    /\ Sending
    /\ peer = "reset" \/ (ssl /\ ~Retry /\ ~OldInstead)
    /\ \E r \in (IF ssl THEN {-1, 0} ELSE {-1}) : SendStop("error", r)
    /\ UNCHANGED <<envVars, idle, errno, op, readVars, todo, pos, chunk, written, pend,
                   zon, zfrom, zbuf, zfull, second, dropped, wire>>

\* The chunk counts as sent unless antd_send returned -1: __b goes on with
\* the next one after a part of it too.
ChunkDone ==
    /\ todo' = IF todo[1].n = ChunkLen THEN Tail(todo)
               ELSE [todo EXCEPT ![1].n = @ - ChunkLen]
    /\ UNCHANGED pos

\* __b returns 0: __t then leaves the CRLF out, antd_send_header goes on with the
\* next line all the same.
PartFails ==
    LET skip == IF Len(todo) > 1 /\ todo[2].dep THEN 1 ELSE 0
    IN  /\ todo' = SubSeq(todo, 2 + skip, Len(todo))
        /\ pos' = pos + todo[1].n - ChunkLen + skip

\* antd_send returns.  What it returns for a round of deflate is not used.
Sent ==
    /\ pc = "sent" \/ (pc = "raw" /\ written = Len(chunk))
    /\ IF op = "close" \/ Compress
       THEN IF zfull THEN pc' = "deflate" /\ UNCHANGED <<todo, pos>>
            ELSE IF op = "close" THEN pc' = "closed" /\ UNCHANGED <<todo, pos>>
            ELSE pc' = "part" /\ ChunkDone
       ELSE /\ pc' = "part"
            /\ IF pc = "sent" /\ res = -1 THEN PartFails ELSE ChunkDone
    /\ res' = 0 /\ chunk' = <<>> /\ written' = 0 /\ zfull' = FALSE
    /\ UNCHANGED <<envVars, idle, errno, op, readVars, pend, zon, zfrom, zbuf, second,
                   dropped, wire, lost>>

Trailer == <<0, TRUE>>

\* Mutant: what deflate holds is dropped.
CloseDrops ==
    /\ pc = "free" /\ pc' = "closed"
    /\ UNCHANGED <<envVars, idle, errno, op, res, readVars, writeVars>>
\* antd_close ends a compressed stream (Z_FINISH) before the socket is closed.
Close ==
    /\ pc = "free"
    /\ op' = "close"
    /\ IF zon THEN zbuf' = Append(zbuf, Trailer) /\ pc' = "deflate"
       ELSE UNCHANGED zbuf /\ pc' = "closed"
    /\ UNCHANGED <<envVars, idle, errno, res, readVars, todo, pos, chunk, written,
                   pend, zon, zfrom, zfull, second, dropped, wire, lost>>

WriteStep ==
    \/ BeginData \/ BeginHeader \/ NextChunk \/ PartsDone \/ Deflate
    \/ SendSome \/ SendBlocks \/ SendFails \/ Sent \/ Close

Next == Peer \/ Tick \/ ReadStep \/ WriteStep

Spec == Init /\ [][Next]_vars

\* The thread runs and time passes; the peer may do nothing for ever.
FairSpec ==
    /\ Spec
    /\ WF_vars(pc # "free" /\ (ReadStep \/ WriteStep))
    /\ WF_vars(Tick)

-----------------------------------------------------------------------------
(***************************************************************************)
(* Properties.                                                             *)
(***************************************************************************)

\* The most a reading call may have in its buffer, or have read of a body that
\* is discarded: there the last block is asked for whole.
Allowed == IF op = "discard" THEN len + DiscardWant(len) - 1 ELSE len

\* However the bytes arrive in pieces, a call that reads has put the next bytes
\* of the stream in its buffer, each once and in order, and never goes past what
\* it asked for; only the body that is discarded is read further, by less than
\* one block of 2 * BUFFLEN (antd_recv, antd_recv_upto, read_buf,
\* post_data_decode, resolve_request).
ReadInOrder ==
    /\ \A i \in 1 .. Len(dst) - 1 : dst[i + 1] = dst[i] + 1
    /\ op \in ReadOps /\ dst # <<>> => dst[Len(dst)] = taken
    /\ rdone <= want
    /\ op # "none" => Len(dst) <= Allowed

OnWire == {wire[i][1] : i \in 1 .. Len(wire)}
Unsent == SubSeq(chunk, written + 1, Len(chunk))

\* A byte that goes out as it is may pass one that deflate holds, when the
\* header of a second response is sent on a compressed client.
Passes(b, c) == second /\ ~b[2] /\ c[2]

\* Nothing is sent twice, and what is sent is in the order it was produced, but
\* for the header of a second response that passes what deflate holds of the
\* first; as long as no transfer gave up nothing is missing but what a replaced
\* zstream held, and that is never sent; and with one response on the client
\* exactly the bytes after the header that announced it are compressed
\* (antd_send, antd_send_header).
StreamIntact ==
    LET all == wire \o (IF pc = "raw" THEN Unsent ELSE <<>>) \o zbuf
        data == {i \in DOMAIN all : all[i] # Trailer}
        There(n) == \E i \in data : all[i][1] = n
    IN  /\ \A i, j \in data : i < j =>
                \/ all[i][1] < all[j][1]
                \/ all[i][1] > all[j][1] /\ Passes(all[i], all[j])
        /\ \A n \in dropped : ~There(n)
        /\ lost = {} => \A n \in 1 .. pos : There(n) \/ n \in dropped
        /\ ~second => \A i \in data : all[i][2] = (zon /\ all[i][1] > zfrom)

\* On a client with one response a byte is missing before one that was sent only
\* when the time was up for the first: a peer that is gone never gets a response
\* with a hole.
HoleNeedsTimeout ==
    (\E m \in OnWire, n \in 1 .. pos : n < m /\ n \notin OnWire)
        => ("timeout" \in lost \/ second)

\* antd_close leaves nothing behind: unless a transfer gave up all has been sent
\* but what a replaced zstream held, and a compressed stream has its end.
CloseFlushes ==
    (pc = "closed" /\ lost = {}) =>
        /\ zbuf = <<>>
        /\ zon => wire # <<>> /\ wire[Len(wire)] = Trailer
        /\ \A n \in 1 .. pos : n \in OnWire <=> n \notin dropped

\* Nothing is given up without a cause: a transfer stops short only because the
\* peer has ended it, the time is up or SSL_write was given other data after a
\* time-out (antd_send, antd_recv); and read_buf gives one line, a full buffer,
\* or what there was when the peer or the time ended it, which the decoder
\* cannot tell from a line.
StopsWithCause ==
    [][ /\ (lost' # lost \/ (pc = "read" /\ pc' = "got" /\ res' < want /\ ~Upto))
            => (idle \/ peer # "open" \/ (ssl /\ "timeout" \in lost))
        /\ (op = "line" /\ pc' = "free") =>
            /\ \A i \in 1 .. Len(dst) - 1 : dst[i] \notin Newlines
            /\ \/ Len(dst) = len - 1
               \/ dst # <<>> /\ dst[Len(dst)] \in Newlines
               \/ peer # "open" \/ idle ]_vars

\* Every call returns, whatever the peer does: a transfer that does not advance
\* is given up after MAX_IO_WAIT_TIME.
CallReturns == (pc \notin {"free", "closed"}) ~> (pc \in {"free", "closed"})

=============================================================================
