---------------------------- MODULE WsFrameProofs ----------------------------
(***************************************************************************)
(* Proofs about WebSocket frames: a reader never loses its place in the    *)
(* stream of bytes, frames are masked by the role of their sender, and     *)
(* messages arrive as they were sent, for any lengths, files and buffer,   *)
(* and any number of messages in flight.                                   *)
(***************************************************************************)
EXTENDS WsFrame, SequenceTheorems, TLAPS

-----------------------------------------------------------------------------
(***************************************************************************)
(* Types.                                                                  *)
(***************************************************************************)
Opcodes == {Cont, Text, Bin, CloseOp, Ping, Pong}

Frames == [m : Nat, op : Opcodes, fin : {0, 1}, mask : {0, 1}, at : Nat,
           n : 0 .. MaxLength]
Items ==
    [kind : {"byte"}, b : 0 .. 255]
    \cup [kind : {"first"}, b : 0 .. 255, frame : Frames]
    \cup [kind : {"run"}, m : Nat, at : Nat, off : Nat, n : Nat, masked : {0, 1},
          good : Nat]
Headers == [fin : {0, 1}, opcode : Opcodes, mask : {0, 1}, plen : Nat, frame : Frames,
            shorts : Nat]
Parts == [m : Nat \ {0}, n : Nat, whole : BOOLEAN, slip : BOOLEAN]
Files == [m : Nat \ {0}, at : Nat, size : 0 .. MaxLength]
Messages == [from : Ends, op : Opcodes, size : 0 .. MaxLength, answers : Nat,
             cut : BOOLEAN]

TypeOK ==
    /\ chan \in [Ends -> Seq(Items)]
    /\ header \in [Ends -> Headers \cup {NoHeader}]
    /\ reads \in [Ends -> {"yes", "closed", "silent", "failed"}]
    /\ sent \in Seq(Messages)
    /\ part \in [Ends -> Parts \cup {NoPart}]
    /\ got \in [Ends -> Seq(Parts)]
    /\ file \in [Ends -> Files \cup {NoFile}]
    /\ missed \subseteq Nat

-----------------------------------------------------------------------------
(***************************************************************************)
(* The invariant: what a channel holds, frame by frame.                    *)
(***************************************************************************)
ExtLength(n) == IF n <= 125 THEN 0 ELSE IF n < TwoBytes THEN 2 ELSE 8
LengthCode(n) == IF n <= 125 THEN n ELSE IF n < TwoBytes THEN 126 ELSE 127
HeaderLength(f) == 2 + ExtLength(f.n) + 4 * f.mask
\* Items on the channel.
Size(f) == HeaderLength(f) + (IF f.n = 0 THEN 0 ELSE 1)

\* The header of f is at i: its bytes decode to it.
HeaderAt(c, i, f) ==
    /\ i + HeaderLength(f) - 1 <= Len(c)
    /\ c[i].kind = "first" /\ c[i].frame = f
    /\ c[i].b = f.fin * 128 + f.op
    /\ \A j \in (i + 1) .. (i + HeaderLength(f) - 1) : c[j].kind = "byte"
    /\ c[i + 1].b = f.mask * 128 + LengthCode(f.n)
    /\ ExtLength(f.n) = 2 => c[i + 2].b * 256 + c[i + 3].b = f.n
    /\ ExtLength(f.n) = 8 =>
           FourBytes(c[i + 6].b, c[i + 7].b, c[i + 8].b, c[i + 9].b) = f.n

\* The payload of f, but for its first off bytes, is at i.
RunAt(c, i, f, off, s) ==
    /\ i <= Len(c) /\ c[i].kind = "run"
    /\ c[i].m = f.m /\ c[i].masked = f.mask
    /\ c[i].off = off /\ c[i].at = f.at + off /\ c[i].n = f.n - off
    /\ c[i].good >= c[i].n \/ s[f.m].cut

\* Frame g may come when the last one was of message m, brought it to at bytes
\* and was final or not.
Goes(m, at, fin, g) ==
    IF fin = 0 THEN g.m = m /\ g.at = at /\ g.op = Cont
    ELSE g.m > m /\ g.at = 0 /\ g.op # Cont
\* The stream may end there, the sender being at fl in its file.
Stops(m, at, fin, fl) ==
    IF fin = 0 THEN fl # NoFile /\ fl.m = m /\ fl.at = at /\ at > 0
    ELSE fl # NoFile => fl.m > m /\ fl.at = 0

NextIs(c, i, fl, m, at, fin) ==
    \/ i \in 1 .. Len(c) /\ c[i].kind = "first" /\ Goes(m, at, fin, c[i].frame)
    \/ i = Len(c) + 1 /\ Stops(m, at, fin, fl)

\* The front of c is what left bytes there are left of f, and what follows f.
Inside(c, f, left, fl, s) ==
    IF left = 0 THEN NextIs(c, 1, fl, f.m, f.at + f.n, f.fin)
    ELSE /\ RunAt(c, 1, f, f.n - left, s)
         /\ NextIs(c, 2, fl, f.m, f.at + f.n, f.fin)

\* f is a frame to e of one of the messages.
FrameOk(e, f, s) ==
    /\ f.m \in 1 .. Len(s) /\ s[f.m].from = Other(e)
    /\ f.mask = RoleMask(Other(e))
    /\ f.at + f.n <= s[f.m].size
    /\ f.fin = 1 => f.at + f.n = s[f.m].size
    /\ f.fin = 0 => f.op \in {Bin, Cont} /\ f.n > 0

FrameAt(e, c, i, fl, s) ==
    LET f == c[i].frame
    IN  /\ FrameOk(e, f, s)
        /\ HeaderAt(c, i, f)
        /\ f.n > 0 => RunAt(c, i + HeaderLength(f), f, 0, s)
        /\ NextIs(c, i + Size(f), fl, f.m, f.at + f.n, f.fin)

ChannelOk(e, c, fl, s) ==
    \A i \in 1 .. Len(c) : c[i].kind = "first" => FrameAt(e, c, i, fl, s)

\* An end that is in ws_send_file sends one of its own messages.
FileOk(e, fl, s) ==
    fl # NoFile =>
        /\ fl.m <= Len(s) /\ s[fl.m].from = e /\ s[fl.m].size = fl.size
        /\ fl.at <= fl.size

\* The caller's pieces fit the key, which is used from its start for each.
WholeKeyPieces == \A len \in Pieces : len = -1 \/ len % 4 = 0

\* What is left of f, left bytes, begins with byte 0 of the key, if there is one.
AtKey(f, left) == left = 0 \/ f.mask = 0 \/ (f.n - left) % 4 = 0

LastGot(g) == IF g = <<>> THEN 0 ELSE g[Len(g)].m

\* Where the reader is: between two frames, or with h.plen bytes left of one.
ReaderOk(e, h, p, g, c, fl, s) ==
    /\ LastGot(g) <= Len(s)
    /\ p # NoPart =>
           /\ p.m > LastGot(g) /\ p.m <= Len(s)
           /\ WholeKeyPieces => p.whole \/ p.slip \/ s[p.m].cut
    /\ IF h = NoHeader
       THEN IF p = NoPart THEN NextIs(c, 1, fl, LastGot(g), 0, 1)
            ELSE NextIs(c, 1, fl, p.m, p.n, 0)
       ELSE LET f == h.frame IN
            /\ FrameOk(e, f, s) /\ f.m > LastGot(g)
            /\ h.fin = f.fin /\ h.opcode = f.op /\ h.mask = f.mask /\ h.plen <= f.n
            /\ Inside(c, f, h.plen, fl, s)
            /\ h.opcode # Ping =>
                   /\ p = NoPart =>
                          h.opcode # Cont /\ f.at = 0 /\ h.plen = f.n
                   /\ p # NoPart =>
                          /\ p.m = f.m /\ p.n = f.at + f.n - h.plen
                          /\ WholeKeyPieces => AtKey(f, h.plen) \/ p.slip
            /\ h.opcode = Ping => p = NoPart

\* An end: what is on its way to it and where it is with reading that.
EndOk(e, h, p, g, c, fl, s) ==
    /\ h \in Headers \cup {NoHeader} /\ p \in Parts \cup {NoPart} /\ g \in Seq(Parts)
    /\ c \in Seq(Items)
    /\ ChannelOk(e, c, fl, s)
    /\ ReaderOk(e, h, p, g, c, fl, s)

EndInv(e) ==
    /\ EndOk(e, header[e], part[e], got[e], chan[e], file[Other(e)], sent)
    /\ FileOk(e, file[e], sent)
    /\ reads[e] # "failed"

WsInv == TypeOK /\ \A e \in Ends : EndInv(e)

\* What has been put together so far.
GotRight(e, g, i, s) ==
    LET r == g[i]
    IN  /\ r.m \in 1 .. Len(s) /\ s[r.m].from = Other(e)
        /\ r.n = s[r.m].size
        /\ WholeKeyPieces => r.whole \/ r.slip \/ s[r.m].cut
        /\ i > 1 => r.m > g[i - 1].m
GotInv == \A e \in Ends : \A i \in 1 .. Len(got[e]) : GotRight(e, got[e], i, sent)

-----------------------------------------------------------------------------
(***************************************************************************)
(* Ends.                                                                   *)
(***************************************************************************)
\* There are two ends, and each is the other's other.
LEMMA TwoEnds ==
    /\ Other("server") = "client" /\ Other("client") = "server"
    /\ \A e \in Ends : Other(e) \in Ends /\ Other(e) # e /\ Other(Other(e)) = e
    /\ \A e \in Ends : RoleMask(e) \in {0, 1} /\ RoleMask(Other(e)) = 1 - RoleMask(e)
<1>1. Other("server") = "client"
  BY DEF Other, Ends
<1>2. Other("client") = "server"
  BY DEF Other, Ends
<1> QED
  BY <1>1, <1>2 DEF Ends, RoleMask

-----------------------------------------------------------------------------
(***************************************************************************)
(* A frame as it is sent.                                                  *)
(***************************************************************************)
\* A length is its last byte and what is left when that is shifted out.
LEMMA Shifted ==
    ASSUME NEW n \in Nat
    PROVE  /\ Shift8(n) \in Nat /\ Shift8(n) * 256 + (n % 256) = n
           /\ n % 256 \in 0 .. 255
BY SMT DEF Shift8

\* What is shifted out of a number of some bytes leaves a byte less.
LEMMA ShiftedBelow ==
    ASSUME NEW n \in Nat, NEW a \in Nat, n <= a * 256 + 255
    PROVE  Shift8(n) <= a
BY Shifted, SMT

\* The length bytes hold the mask bit and the length, each a byte.
LEMMA LengthBytesRight ==
    ASSUME NEW mask \in {0, 1}, NEW n \in 0 .. MaxLength
    PROVE  LET t == LengthBytes(mask, n)
           IN  /\ t \in Seq(0 .. 255)
               /\ Len(t) = 1 + ExtLength(n)
               /\ t[1] = mask * 128 + LengthCode(n)
               /\ ExtLength(n) = 2 => t[2] * 256 + t[3] = n
               /\ ExtLength(n) = 8 => FourBytes(t[6], t[7], t[8], t[9]) = n
<1> n \in Nat /\ TwoBytes \in Nat /\ TwoBytes > 125
  BY SMT DEF TwoBytes
<1>1. CASE n <= 125
  BY <1>1, SMT DEF LengthBytes, ExtLength, LengthCode
<1>2. CASE n > 125 /\ n < TwoBytes
  <2>0. n \in Nat
    OBVIOUS
  <2>s. /\ Shift8(n) \in Nat /\ Shift8(n) * 256 + (n % 256) = n
        /\ n % 256 \in 0 .. 255
    BY ONLY <2>0, Shifted, Zenon
  <2> DEFINE b1 == Shift8(n)
             b2 == n % 256
  <2>1. b1 \in Nat /\ b1 * 256 + b2 = n /\ b2 \in 0 .. 255
    BY <2>s
  <2>2. LengthBytes(mask, n) = <<mask * 128 + 126, b1, b2>>
    BY <1>2, SMT DEF LengthBytes
  <2>3. ExtLength(n) = 2 /\ LengthCode(n) = 126
    BY <1>2, SMT DEF ExtLength, LengthCode
  <2> HIDE DEF b1, b2
  <2>4. b1 \in 0 .. 255
    BY <1>2, <2>1, SMT DEF TwoBytes
  <2> QED
    BY <2>1, <2>2, <2>3, <2>4, SMT
<1>3. CASE n >= TwoBytes
  <2> DEFINE b3 == Shift8(n)
             b2 == Shift8(b3)
             b1 == Shift8(b2)
  <2>1. /\ b3 \in Nat /\ b3 * 256 + (n % 256) = n
        /\ b2 \in Nat /\ b2 * 256 + (b3 % 256) = b3
        /\ b1 \in Nat /\ b1 * 256 + (b2 % 256) = b2
        /\ n % 256 \in 0 .. 255 /\ b3 % 256 \in 0 .. 255 /\ b2 % 256 \in 0 .. 255
    <3>0. n \in Nat
      OBVIOUS
    <3>1. /\ b3 \in Nat /\ b3 * 256 + (n % 256) = n /\ n % 256 \in 0 .. 255
      BY ONLY <3>0, Shifted, Zenon
    <3> HIDE DEF b3
    <3>2. /\ b2 \in Nat /\ b2 * 256 + (b3 % 256) = b3 /\ b3 % 256 \in 0 .. 255
      BY ONLY <3>1, Shifted, Zenon
    <3> HIDE DEF b2
    <3>3. /\ b1 \in Nat /\ b1 * 256 + (b2 % 256) = b2 /\ b2 % 256 \in 0 .. 255
      BY ONLY <3>2, Shifted, Zenon
    <3> QED
      BY <3>1, <3>2, <3>3
  <2>2. LengthBytes(mask, n) = <<mask * 128 + 127, 0, 0, 0, 0, b1, b2 % 256, b3 % 256, n % 256>>
    BY <1>3, SMT DEF LengthBytes
  <2>3. ExtLength(n) = 8 /\ LengthCode(n) = 127
    BY <1>3, SMT DEF ExtLength, LengthCode
  <2> HIDE DEF b1, b2, b3
  <2>4. b1 \in 0 .. 255
    <3>1. n <= ((127 * 256 + 255) * 256 + 255) * 256 + 255
      <4>1. MaxLength = ((127 * 256 + 255) * 256 + 255) * 256 + 255
        BY DEF MaxLength, FourBytes
      <4>2. n <= MaxLength
        OBVIOUS
      <4> QED
        BY <4>1, <4>2
    <3>2. b3 <= (127 * 256 + 255) * 256 + 255
      BY <3>1, ShiftedBelow DEF b3
    <3>3. b2 <= 127 * 256 + 255
      BY <2>1, <3>2, ShiftedBelow DEF b2
    <3> QED
      BY <2>1, <3>3, ShiftedBelow DEF b1
  <2>5. FourBytes(b1, b2 % 256, b3 % 256, n % 256) = n
    BY <2>1, SMT DEF FourBytes
  <2> QED
    BY <2>1, <2>2, <2>3, <2>4, <2>5, SMT
<1> QED
  BY <1>1, <1>2, <1>3, SMT

\* e is a, of length one, then b, then d.
Spliced(a, b, d, e) ==
    /\ e \in Seq(Items) /\ Len(e) = 1 + Len(b) + Len(d)
    /\ e[1] = a[1]
    /\ \A i \in 2 .. 1 + Len(b) : e[i] = b[i - 1]
    /\ Len(d) > 0 => e[2 + Len(b)] = d[1]

\* What three sequences hold that are put together, the first of length one.
LEMMA ThreeParts ==
    ASSUME NEW a \in Seq(Items), NEW b \in Seq(Items), NEW d \in Seq(Items), NEW e,
           Len(a) = 1, e = (a \o b) \o d
    PROVE  Spliced(a, b, d, e)
<1>2. PICK ab \in Seq(Items) : ab = a \o b
  BY ConcatProperties
<1>3. PICK c \in Seq(Items) : c = ab \o d
  BY ConcatProperties
<1>4. Len(ab) = 1 + Len(b) /\ ab[1] = a[1] /\ \A i \in 2 .. 1 + Len(b) : ab[i] = b[i - 1]
  <2>1. /\ Len(a \o b) = Len(a) + Len(b)
        /\ \A i \in 1 .. Len(a) + Len(b) : (a \o b)[i] =
               IF i <= Len(a) THEN a[i] ELSE b[i - Len(a)]
    BY ConcatProperties
  <2>2. Len(b) \in Nat
    OBVIOUS
  <2> QED
    BY <1>2, <2>1, <2>2, SMT
<1>5. Len(c) = Len(ab) + Len(d) /\ \A i \in 1 .. Len(ab) : c[i] = ab[i]
  BY <1>3, SMT
<1>6. Len(d) > 0 => c[Len(ab) + 1] = d[1]
  BY <1>3, SMT
<1>7. Len(b) \in Nat /\ Len(d) \in Nat
  OBVIOUS
<1>8. \A i \in 2 .. 1 + Len(b) : c[i] = b[i - 1]
  BY <1>4, <1>5, <1>7, SMT
<1>9. c = e
  BY <1>2, <1>3
<1> QED
  BY <1>4, <1>5, <1>6, <1>7, <1>8, <1>9, SMT DEF Spliced

\* A byte, and a first byte, are told apart.
LEMMA Kinds ==
    /\ \A b : Byte(b).kind = "byte" /\ Byte(b).b = b
    /\ \A b, f : First(b, f).kind = "first" /\ First(b, f).b = b /\ First(b, f).frame = f
    /\ \A f, good : Run(f, good).kind = "run"
    /\ \A b \in 0 .. 255 : Byte(b) \in Items
    /\ \A b \in 0 .. 255, f \in Frames : First(b, f) \in Items
    /\ \A f \in Frames, good \in Nat : Run(f, good) \in Items
<1>1. \A f \in Frames : f.m \in Nat /\ f.n \in Nat /\ f.mask \in {0, 1} /\ f.at \in Nat
  BY DEF Frames
<1> QED
  BY <1>1 DEF Byte, First, Run, Items

\* The bytes of a header after the first, made of its length and its key.
LEMMA TailRight ==
    ASSUME NEW t \in Seq(0 .. 255), NEW key \in Seq(0 .. 255)
    PROVE  LET tail == t \o key
               bytes == [i \in 1 .. Len(tail) |-> Byte(tail[i])]
           IN  /\ bytes \in Seq(Items) /\ Len(bytes) = Len(t) + Len(key)
               /\ \A i \in 1 .. Len(bytes) : bytes[i].kind = "byte"
               /\ \A i \in 1 .. Len(t) : bytes[i] = Byte(t[i])
<1>1. PICK tail \in Seq(0 .. 255) : tail = t \o key
  BY ConcatProperties
<1>2. Len(tail) = Len(t) + Len(key) /\ \A i \in 1 .. Len(t) : tail[i] = t[i]
  BY <1>1, SMT
<1>3. ASSUME NEW i \in 1 .. Len(tail) PROVE Byte(tail[i]) \in Items
  <2>1. tail[i] \in 0 .. 255
    BY ElementOfSeq
  <2> QED
    BY <2>1, Kinds
<1> DEFINE bytes == [i \in 1 .. Len(tail) |-> Byte(tail[i])]
<1>4. bytes \in Seq(Items)
  <2>1. bytes \in [1 .. Len(tail) -> Items]
    BY <1>3
  <2>2. Len(tail) \in Nat
    BY LenProperties
  <2> QED
    BY <2>1, <2>2, SeqDef
<1>5. Len(bytes) = Len(tail) /\ \A i \in 1 .. Len(tail) : bytes[i] = Byte(tail[i])
  <2>1. Len(tail) \in Nat
    BY LenProperties
  <2> QED
    BY <2>1
<1> HIDE DEF bytes
<1>6. \A i \in 1 .. Len(tail) : bytes[i].kind = "byte"
  <2> TAKE i \in 1 .. Len(tail)
  <2>1. bytes[i] = Byte(tail[i])
    BY <1>5
  <2> QED
    BY <2>1, Kinds
<1>7. Len(t) \in Nat /\ Len(key) \in Nat
  OBVIOUS
<1>8. \A i \in 1 .. Len(t) : bytes[i] = Byte(t[i])
  BY <1>2, <1>5, <1>7, SMT
<1> QED
  BY <1>1, <1>2, <1>4, <1>5, <1>6, <1>8 DEF bytes

\* A frame as it is sent: a header that decodes to it, then its payload.
LEMMA EncodeRight ==
    ASSUME NEW f \in Frames, NEW good \in Nat
    PROVE  LET c == Encode(f, good)
           IN  /\ c \in Seq(Items) /\ Len(c) = Size(f)
               /\ HeaderAt(c, 1, f)
               /\ f.n > 0 => c[HeaderLength(f) + 1] = Run(f, good)
               /\ \A i \in 2 .. Len(c) : c[i].kind # "first"
<1>1. PICK mask \in {0, 1}, fin \in {0, 1}, op \in 0 .. 15, n \in 0 .. MaxLength :
        f.mask = mask /\ f.fin = fin /\ f.op = op /\ f.n = n
  BY DEF Frames, Opcodes, Cont, Text, Bin, CloseOp, Ping, Pong
<1>2. PICK t \in Seq(0 .. 255) :
        /\ t = LengthBytes(mask, n) /\ Len(t) = 1 + ExtLength(n)
        /\ t[1] = mask * 128 + LengthCode(n)
        /\ ExtLength(n) = 2 => t[2] * 256 + t[3] = n
        /\ ExtLength(n) = 8 => FourBytes(t[6], t[7], t[8], t[9]) = n
  BY LengthBytesRight
<1>3. PICK ext \in {0, 2, 8} : ext = ExtLength(n)
  BY DEF ExtLength
<1> DEFINE K == IF mask = 1 THEN MaskKey ELSE <<>>
<1>4. K \in Seq(0 .. 255) /\ Len(K) = 4 * mask
  <2>1. CASE mask = 1
    <3>1. K = <<11, 22, 33, 44>>
      BY <2>1 DEF MaskKey
    <3> HIDE DEF K
    <3> QED
      BY <2>1, <3>1
  <2>2. CASE mask = 0
    <3>1. K = <<>>
      BY <2>2
    <3> HIDE DEF K
    <3> QED
      BY <2>2, <3>1
  <2> QED
    BY <2>1, <2>2
<1>5. PICK bytes \in Seq(Items) :
        /\ bytes = [i \in 1 .. Len(t \o K) |-> Byte((t \o K)[i])]
        /\ Len(bytes) = Len(t) + Len(K)
        /\ \A i \in 1 .. Len(bytes) : bytes[i].kind = "byte"
        /\ \A i \in 1 .. Len(t) : bytes[i] = Byte(t[i])
  <2> HIDE DEF K
  <2> QED
    BY <1>4, TailRight
<1> DEFINE R == IF n = 0 THEN <<>> ELSE <<Run(f, good)>>
<1>y. PICK y \in Items : y = Run(f, good) /\ y.kind = "run"
  <2>1. Run(f, good) \in Items
    BY Kinds, Zenon
  <2>2. Run(f, good).kind = "run"
    BY DEF Run
  <2> QED
    BY <2>1, <2>2, Zenon
<1>6. R \in Seq(Items) /\ Len(R) = (IF n = 0 THEN 0 ELSE 1) /\ (n > 0 => R[1] = y)
  <2>2. R = IF n = 0 THEN <<>> ELSE <<y>>
    BY <1>y
  <2> HIDE DEF R
  <2>3. CASE n = 0
    BY <2>2, <2>3
  <2>4. CASE n # 0
    BY <2>2, <2>4
  <2> QED
    BY <2>3, <2>4
<1>7. PICK x \in Items :
        /\ x = First(fin * 128 + op, f)
        /\ x.kind = "first" /\ x.b = fin * 128 + op /\ x.frame = f
  <2>1. PICK b \in 0 .. 255 : b = fin * 128 + op
    OBVIOUS
  <2>2. First(b, f) \in Items
    BY Kinds
  <2> QED
    BY <2>1, <2>2 DEF First
<1> DEFINE a == <<x>>
           c == (a \o bytes) \o R
<1>8. /\ c \in Seq(Items)
      /\ Len(c) = 1 + Len(bytes) + Len(R)
      /\ c[1] = x
      /\ \A i \in 2 .. 1 + Len(bytes) : c[i] = bytes[i - 1]
      /\ Len(R) > 0 => c[2 + Len(bytes)] = R[1]
  <2>1. a \in Seq(Items) /\ Len(a) = 1 /\ a[1] = x
    OBVIOUS
  <2>2. c = (a \o bytes) \o R
    OBVIOUS
  <2> HIDE DEF a, c, R
  <2>3. R \in Seq(Items) /\ bytes \in Seq(Items)
    BY <1>6
  <2>4. Spliced(a, bytes, R, c)
    BY <2>1, <2>2, <2>3, ThreeParts
  <2> QED
    BY <2>1, <2>4 DEF Spliced
<1>9. Encode(f, good) = c
  BY <1>1, <1>2, <1>5, <1>7 DEF Encode
<1> HIDE DEF K, R, a, c
<1>10. PICK L \in Nat : L = HeaderLength(f) /\ L = 2 + ext + 4 * mask /\ Len(bytes) = L - 1
  <2>1. HeaderLength(f) = 2 + ext + 4 * mask
    BY <1>1, <1>3 DEF HeaderLength
  <2>2. Len(t) = 1 + ext
    BY <1>2, <1>3
  <2> QED
    BY <1>4, <1>5, <2>1, <2>2
<1>11. Len(c) = Size(f) /\ Len(c) = L + (IF n = 0 THEN 0 ELSE 1)
  <2>1. Size(f) = L + (IF n = 0 THEN 0 ELSE 1)
    BY <1>1, <1>10 DEF Size
  <2> QED
    BY <1>6, <1>8, <1>10, <2>1
<1>12. \A j \in 2 .. L : c[j].kind = "byte"
  <2> TAKE j \in 2 .. L
  <2>1. j - 1 \in 1 .. Len(bytes) /\ c[j] = bytes[j - 1]
    BY <1>8, <1>10
  <2> QED
    BY <1>5, <2>1
<1>13. \A j \in 1 .. 1 + ext : c[j + 1].b = t[j]
  <2> TAKE j \in 1 .. 1 + ext
  <2>0. PICK l \in Nat : l = Len(bytes) /\ l = 1 + ext + 4 * mask /\ l >= 1 + ext
    BY <1>10
  <2>t. Len(t) = 1 + ext
    BY <1>2, <1>3
  <2>j. j + 1 \in 2 .. 1 + l /\ (j + 1) - 1 = j
    BY <2>0
  <2>1. j + 1 \in 2 .. 1 + Len(bytes) /\ (j + 1) - 1 = j /\ j \in 1 .. Len(t)
    BY <2>0, <2>t, <2>j
  <2>2. c[j + 1] = Byte(t[j])
    BY <1>5, <1>8, <2>1
  <2> QED
    BY <2>2, Kinds
<1>14. HeaderAt(c, 1, f)
  <2>1. c[2].b = mask * 128 + LengthCode(n)
    BY <1>2, <1>13
  <2>2. ext = 2 => c[3].b * 256 + c[4].b = n
    BY <1>2, <1>3, <1>13
  <2>3. ext = 8 => FourBytes(c[7].b, c[8].b, c[9].b, c[10].b) = n
    <3> HAVE ext = 8
    <3>1. c[7].b = t[6] /\ c[8].b = t[7] /\ c[9].b = t[8] /\ c[10].b = t[9]
      BY <1>13
    <3> QED
      BY <1>2, <1>3, <3>1
  <2>4. c[1].kind = "first" /\ c[1].frame = f /\ c[1].b = f.fin * 128 + f.op
    BY <1>1, <1>7, <1>8
  <2>5. L <= Len(c)
    BY <1>6, <1>8, <1>10
  <2>6. ExtLength(f.n) = ext /\ f.n = n /\ f.mask = mask
    BY <1>1, <1>3
  <2> QED
    BY <1>10, <1>12, <2>1, <2>2, <2>3, <2>4, <2>5, <2>6 DEF HeaderAt
<1>15. n > 0 => c[L + 1] = y
  <2>1. 2 + Len(bytes) = L + 1
    BY <1>10
  <2> QED
    BY <1>6, <1>8, <2>1
<1>16. \A i \in 2 .. Len(c) : c[i].kind # "first"
  <2> TAKE i \in 2 .. Len(c)
  <2>1. CASE i <= L
    BY <1>10, <1>12, <2>1
  <2>2. CASE i > L
    <3>1. n > 0 /\ i = L + 1
      BY <1>10, <1>11, <2>2
    <3> QED
      BY <1>15, <1>y, <3>1
  <2> QED
    BY <1>10, <2>1, <2>2
<1> QED
  BY <1>1, <1>y, <1>8, <1>9, <1>10, <1>11, <1>14, <1>15, <1>16

\* A byte is taken apart into its first bit and the others.
LEMMA SplitByte ==
    ASSUME NEW bit \in {0, 1}, NEW v \in 0 .. 127
    PROVE  /\ (bit * 128 + v) % 128 = v
           /\ (bit * 128 + v) \div 128 = bit
           /\ v < 16 => (bit * 128 + v) % 16 = v
BY SMT

\* A header reads as it was sent.
LEMMA DecodeRight ==
    ASSUME NEW c, NEW f \in Frames, HeaderAt(c, 1, f), Len(c) \in Nat
    PROVE  /\ Decodable(c) /\ HeaderSize(c) = HeaderLength(f)
           /\ HeaderLength(f) \in 1 .. Len(c)
           /\ Decode(c) = [fin |-> f.fin, opcode |-> f.op, mask |-> f.mask,
                           plen |-> f.n, frame |-> f, shorts |-> 0]
<1>1. PICK mask \in {0, 1}, fin \in {0, 1}, op \in 0 .. 15, n \in Nat :
        f.mask = mask /\ f.fin = fin /\ f.op = op /\ f.n = n
  BY DEF Frames, Opcodes, Cont, Text, Bin, CloseOp, Ping, Pong
<1>2. PICK code \in 0 .. 127 : code = LengthCode(n)
  BY SMT DEF LengthCode
<1>3. PICK ext \in {0, 2, 8} :
        /\ ext = ExtLength(n)
        /\ ext = (IF code <= 125 THEN 0 ELSE IF code = 126 THEN 2 ELSE 8)
        /\ ext = 0 => code = n
  BY <1>2, SMT DEF ExtLength, LengthCode
<1>4. PICK L \in Nat : L = HeaderLength(f) /\ L = 2 + ext + 4 * mask
  BY <1>1, <1>3 DEF HeaderLength
<1>5. /\ L <= Len(c)
      /\ c[1].kind = "first" /\ c[1].frame = f /\ c[1].b = fin * 128 + op
      /\ \A j \in 2 .. L : c[j].kind = "byte"
      /\ c[2].b = mask * 128 + code
      /\ ext = 2 => c[3].b * 256 + c[4].b = n
      /\ ext = 8 => FourBytes(c[7].b, c[8].b, c[9].b, c[10].b) = n
  BY <1>1, <1>2, <1>3, <1>4 DEF HeaderAt
<1>6. /\ c[1].b % 128 = op /\ c[1].b \div 128 = fin /\ c[1].b % 16 = op
      /\ c[2].b % 128 = code /\ c[2].b \div 128 = mask
  BY <1>5, SplitByte
<1>7. Ext(c) = ext
  BY <1>3, <1>6 DEF Ext
<1>8. HeaderSize(c) = L
  BY <1>4, <1>6, <1>7 DEF HeaderSize
<1>9. Decodable(c)
  BY <1>4, <1>5, <1>6, <1>8 DEF Decodable
<1>10. Decode(c) = [fin |-> fin, opcode |-> op, mask |-> mask, plen |-> n, frame |-> f,
                    shorts |-> 0]
  BY <1>3, <1>5, <1>6, <1>7 DEF Decode
<1> QED
  BY <1>1, <1>4, <1>5, <1>8, <1>9, <1>10

-----------------------------------------------------------------------------
(***************************************************************************)
(* Channels: what stands in one stands in another that holds the same.     *)
(***************************************************************************)
\* n items from k on of c2 are those from i on of c.
Same(c, i, c2, k, n) == \A j \in 0 .. n - 1 : c2[k + j] = c[i + j]

\* A frame has at least two bytes.
LEMMA Sizes ==
    ASSUME NEW f \in Frames
    PROVE  /\ HeaderLength(f) \in Nat /\ HeaderLength(f) >= 2 + ExtLength(f.n)
           /\ Size(f) \in Nat /\ Size(f) >= HeaderLength(f)
           /\ f.n = 0 => Size(f) = HeaderLength(f)
           /\ f.n > 0 => Size(f) = HeaderLength(f) + 1
           /\ ExtLength(f.n) \in {0, 2, 8}
<1>1. PICK mask \in {0, 1}, n \in Nat : f.mask = mask /\ f.n = n
  BY DEF Frames
<1>2. PICK ext \in {0, 2, 8} : ext = ExtLength(n)
  BY DEF ExtLength
<1>3. HeaderLength(f) = 2 + ext + 4 * mask
  BY <1>1, <1>2 DEF HeaderLength
<1>4. Size(f) = HeaderLength(f) + (IF n = 0 THEN 0 ELSE 1)
  BY <1>1 DEF Size
<1> QED
  BY <1>1, <1>2, <1>3, <1>4

\* A header that is found again is the header of the same frame.
LEMMA HeaderMoves ==
    ASSUME NEW f \in Frames, NEW c, NEW c2, NEW i \in Nat, NEW k \in Nat,
           Len(c) \in Nat, Len(c2) \in Nat,
           HeaderAt(c, i, f), k + HeaderLength(f) - 1 <= Len(c2),
           Same(c, i, c2, k, HeaderLength(f))
    PROVE  HeaderAt(c2, k, f)
<1>1. PICK L \in Nat, ext \in {0, 2, 8} :
        L = HeaderLength(f) /\ ext = ExtLength(f.n) /\ L >= 2 + ext
  BY Sizes
<1>2. \A j \in 0 .. L - 1 : c2[k + j] = c[i + j]
  BY <1>1 DEF Same
<1>3. /\ c[i].kind = "first" /\ c[i].frame = f /\ c[i].b = f.fin * 128 + f.op
      /\ \A j \in (i + 1) .. (i + L - 1) : c[j].kind = "byte"
      /\ c[i + 1].b = f.mask * 128 + LengthCode(f.n)
      /\ ext = 2 => c[i + 2].b * 256 + c[i + 3].b = f.n
      /\ ext = 8 => FourBytes(c[i + 6].b, c[i + 7].b, c[i + 8].b, c[i + 9].b) = f.n
  BY <1>1 DEF HeaderAt
<1>4. c2[k] = c[i] /\ c2[k + 1] = c[i + 1]
  <2>1. c2[k + 0] = c[i + 0] /\ c2[k + 1] = c[i + 1]
    BY <1>1, <1>2
  <2>2. k + 0 = k /\ i + 0 = i
    OBVIOUS
  <2> QED
    BY <2>1, <2>2
<1>5. ext = 2 => c2[k + 2] = c[i + 2] /\ c2[k + 3] = c[i + 3]
  <2> HAVE ext = 2
  <2>1. 2 \in 0 .. L - 1 /\ 3 \in 0 .. L - 1
    BY <1>1
  <2> QED
    BY <1>2, <2>1
<1>6. ext = 8 => /\ c2[k + 6] = c[i + 6] /\ c2[k + 7] = c[i + 7]
                 /\ c2[k + 8] = c[i + 8] /\ c2[k + 9] = c[i + 9]
  <2> HAVE ext = 8
  <2>1. 6 \in 0 .. L - 1 /\ 7 \in 0 .. L - 1 /\ 8 \in 0 .. L - 1 /\ 9 \in 0 .. L - 1
    BY <1>1
  <2> QED
    BY <1>2, <2>1
<1>7. ASSUME NEW j \in (k + 1) .. (k + L - 1) PROVE c2[j].kind = "byte"
  <2>1. j - k \in 0 .. L - 1 /\ k + (j - k) = j /\ i + (j - k) \in (i + 1) .. (i + L - 1)
    BY <1>1
  <2>2. c2[k + (j - k)] = c[i + (j - k)]
    BY <1>2, <2>1
  <2> QED
    BY <1>3, <2>1, <2>2
<1> QED
  BY <1>1, <1>3, <1>4, <1>5, <1>6, <1>7 DEF HeaderAt

\* A frame that is found again, with all that follows it, is as good as before.
LEMMA FrameMoves ==
    ASSUME NEW e, NEW fl, NEW s, NEW c, NEW c2, NEW i \in Nat \ {0}, NEW k \in Nat \ {0},
           Len(c) \in Nat, Len(c2) \in Nat, i <= Len(c), Len(c) - i = Len(c2) - k,
           Same(c, i, c2, k, Len(c) - i + 1),
           c[i].frame \in Frames, FrameAt(e, c, i, fl, s)
    PROVE  c2[k] = c[i] /\ FrameAt(e, c2, k, fl, s)
<1>1. PICK f \in Frames : f = c[i].frame
  OBVIOUS
<1>2. PICK L \in Nat, S \in Nat :
        /\ L = HeaderLength(f) /\ S = Size(f) /\ L >= 2
        /\ S >= L /\ (f.n > 0 => S = L + 1) /\ f.n \in Nat
  <2>1. f.n \in Nat
    BY DEF Frames
  <2> QED
    BY <2>1, Sizes
<1>3. /\ FrameOk(e, f, s) /\ HeaderAt(c, i, f)
      /\ f.n > 0 => RunAt(c, i + L, f, 0, s)
      /\ NextIs(c, i + S, fl, f.m, f.at + f.n, f.fin)
  BY <1>1, <1>2 DEF FrameAt
<1>4. ASSUME NEW j \in 0 .. Len(c) - i PROVE c2[k + j] = c[i + j]
  <2>1. j \in 0 .. (Len(c) - i + 1) - 1
    OBVIOUS
  <2> QED
    BY <2>1 DEF Same
<1>5. i + L - 1 <= Len(c)
  BY <1>2, <1>3 DEF HeaderAt
<1>6. c2[k] = c[i]
  <2>1. 0 \in 0 .. Len(c) - i /\ k + 0 = k /\ i + 0 = i
    OBVIOUS
  <2>2. c2[k + 0] = c[i + 0]
    BY <1>4, <2>1
  <2> QED
    BY <2>1, <2>2
<1>7. HeaderAt(c2, k, f)
  <2>1. k + L - 1 <= Len(c2)
    BY <1>2, <1>5
  <2>2. Same(c, i, c2, k, L)
    <3>1. ASSUME NEW j \in 0 .. L - 1 PROVE c2[k + j] = c[i + j]
      <4>1. j \in 0 .. Len(c) - i
        BY <1>2, <1>5
      <4> QED
        BY <1>4, <4>1
    <3> QED
      BY <3>1 DEF Same
  <2> QED
    BY <1>2, <1>3, <2>1, <2>2, HeaderMoves
<1>8. f.n > 0 => RunAt(c2, k + L, f, 0, s)
  <2> HAVE f.n > 0
  <2>1. RunAt(c, i + L, f, 0, s) /\ i + L <= Len(c)
    BY <1>3 DEF RunAt
  <2>2. L \in 0 .. Len(c) - i /\ k + L <= Len(c2)
    BY <1>2, <2>1
  <2>3. c2[k + L] = c[i + L]
    BY <1>4, <2>2
  <2> QED
    BY <2>1, <2>2, <2>3 DEF RunAt
<1>9. NextIs(c2, k + S, fl, f.m, f.at + f.n, f.fin)
  <2>1. CASE i + S = Len(c) + 1 /\ Stops(f.m, f.at + f.n, f.fin, fl)
    <3>0. i \in Nat /\ k \in Nat /\ S \in Nat /\ i + S = Len(c) + 1
      BY <2>1
    <3>1. k + S = Len(c2) + 1
      BY <3>0
    <3> QED
      BY <2>1, <3>1, Zenon DEF NextIs
  <2>2. CASE /\ i + S \in 1 .. Len(c) /\ c[i + S].kind = "first"
             /\ Goes(f.m, f.at + f.n, f.fin, c[i + S].frame)
    <3>0. i + S <= Len(c)
      BY <2>2
    <3>1. S \in 0 .. Len(c) - i /\ k + S \in 1 .. Len(c2)
      BY <3>0
    <3>2. c2[k + S] = c[i + S]
      BY <1>4, <3>1
    <3> QED
      BY <2>2, <3>1, <3>2 DEF NextIs
  <2> QED
    BY <1>3, <2>1, <2>2 DEF NextIs
<1> QED
  BY <1>1, <1>2, <1>3, <1>6, <1>7, <1>8, <1>9 DEF FrameAt

\* Messages are only added.
Grown(s, s2) ==
    /\ Len(s) \in Nat /\ Len(s2) \in Nat /\ Len(s) <= Len(s2)
    /\ \A m \in 1 .. Len(s) : s2[m] = s[m]

\* Frame f may come wherever a stream may end, the sender being at fl.
Fits(f, fl, s) ==
    \A m \in 0 .. Len(s), at \in Nat, fin \in {0, 1} :
        Stops(m, at, fin, fl) => Goes(m, at, fin, f)

\* c2 is c and frame f.
Extended(c, c2, f) ==
    /\ Len(c) \in Nat /\ Len(c2) = Len(c) + Size(f)
    /\ \A j \in 1 .. Len(c) : c2[j] = c[j]
    /\ HeaderAt(c2, Len(c) + 1, f)
    /\ \A j \in Len(c) + 2 .. Len(c2) : c2[j].kind # "first"

\* c2 holds what c does and perhaps more, and what may come next in c may in c2.
Later(c, c2, fl, fl2, s) ==
    /\ Len(c) \in Nat /\ Len(c2) \in Nat /\ Len(c) <= Len(c2)
    /\ \A j \in 1 .. Len(c) : c2[j] = c[j]
    /\ \A i \in Nat \ {0}, m \in 0 .. Len(s), at \in Nat, fin \in {0, 1} :
           NextIs(c, i, fl, m, at, fin) => NextIs(c2, i, fl2, m, at, fin)

\* What may come next may come next also when a frame was added.
LEMMA NextExtended ==
    ASSUME NEW c, NEW c2, NEW f \in Frames, NEW fl, NEW fl2, NEW s, NEW i \in Nat \ {0},
           NEW m \in 0 .. Len(s), NEW at \in Nat, NEW fin \in {0, 1},
           Extended(c, c2, f), Fits(f, fl, s), NextIs(c, i, fl, m, at, fin)
    PROVE  NextIs(c2, i, fl2, m, at, fin)
<1>1. Len(c) \in Nat /\ Len(c2) \in Nat /\ Len(c2) >= Len(c) + 2
  BY Sizes DEF Extended
<1>2. CASE i \in 1 .. Len(c) /\ c[i].kind = "first" /\ Goes(m, at, fin, c[i].frame)
  <2>1. c2[i] = c[i] /\ i \in 1 .. Len(c2)
    BY <1>1, <1>2 DEF Extended
  <2> QED
    BY <1>2, <2>1 DEF NextIs
<1>3. CASE i = Len(c) + 1 /\ Stops(m, at, fin, fl)
  <2>1. Goes(m, at, fin, f)
    BY <1>3 DEF Fits
  <2>2. c2[i].kind = "first" /\ c2[i].frame = f /\ i \in 1 .. Len(c2)
    BY <1>1, <1>3 DEF Extended, HeaderAt
  <2> QED
    BY <2>1, <2>2 DEF NextIs
<1> QED
  BY <1>2, <1>3 DEF NextIs

\* A channel with one more frame is a later one; so is one when a file is opened.
LEMMA ExtendedIsLater ==
    ASSUME NEW c, NEW c2, NEW f \in Frames, NEW fl, NEW fl2, NEW s,
           Extended(c, c2, f), Fits(f, fl, s)
    PROVE  Later(c, c2, fl, fl2, s)
<1>1. Len(c) \in Nat /\ Len(c2) \in Nat /\ Len(c2) >= Len(c)
  BY Sizes DEF Extended
<1>2. \A j \in 1 .. Len(c) : c2[j] = c[j]
  BY DEF Extended
<1>3. ASSUME NEW i \in Nat \ {0}, NEW m \in 0 .. Len(s), NEW at \in Nat,
             NEW fin \in {0, 1}, NextIs(c, i, fl, m, at, fin)
      PROVE  NextIs(c2, i, fl2, m, at, fin)
  BY <1>3, NextExtended
<1> QED
  BY <1>1, <1>2, <1>3 DEF Later

LEMMA SameIsLater ==
    ASSUME NEW c, NEW fl, NEW fl2, NEW s, Len(c) \in Nat,
           \A m \in 0 .. Len(s), at \in Nat, fin \in {0, 1} :
               Stops(m, at, fin, fl) => Stops(m, at, fin, fl2)
    PROVE  Later(c, c, fl, fl2, s)
BY DEF Later, NextIs

\* A payload stays what it was.
LEMMA RunLater ==
    ASSUME NEW c, NEW c2, NEW fl, NEW fl2, NEW g, NEW s, NEW s2, NEW i \in Nat \ {0},
           NEW off, Later(c, c2, fl, fl2, s), Grown(s, s2), g.m \in 1 .. Len(s), RunAt(c, i, g, off, s)
    PROVE  RunAt(c2, i, g, off, s2)
<1>1. Len(c) \in Nat /\ Len(c2) \in Nat /\ Len(c2) >= Len(c)
  BY DEF Later
<1>2. i \in 1 .. Len(c) /\ i <= Len(c2)
  BY <1>1 DEF RunAt
<1>3. c2[i] = c[i]
  BY <1>2 DEF Later
<1>4. s2[g.m] = s[g.m]
  BY DEF Grown
<1> QED
  BY <1>2, <1>3, <1>4 DEF RunAt

\* So do the messages that frames are of.
LEMMA FrameOkGrown ==
    ASSUME NEW e, NEW f, NEW s, NEW s2, Grown(s, s2), FrameOk(e, f, s)
    PROVE  FrameOk(e, f, s2) /\ s2[f.m] = s[f.m]
<1>1. f.m \in 1 .. Len(s) /\ f.m \in 1 .. Len(s2)
  BY DEF FrameOk, Grown
<1>2. s2[f.m] = s[f.m]
  BY <1>1 DEF Grown
<1> QED
  BY <1>1, <1>2 DEF FrameOk

\* A frame stays as good as it was.
LEMMA FrameLater ==
    ASSUME NEW e, NEW c, NEW c2, NEW fl, NEW fl2, NEW s, NEW s2,
           NEW i \in 1 .. Len(c), Later(c, c2, fl, fl2, s), Grown(s, s2),
           c[i].frame \in Frames, FrameAt(e, c, i, fl, s)
    PROVE  FrameAt(e, c2, i, fl2, s2)
<1>1. Len(c) \in Nat /\ Len(c2) \in Nat /\ Len(c2) >= Len(c) /\ i \in Nat \ {0}
  BY DEF Later
<1>2. PICK g \in Frames : g = c[i].frame /\ g = c2[i].frame
  BY DEF Later
<1>3. PICK L \in Nat, S \in Nat : L = HeaderLength(g) /\ S = Size(g)
  BY Sizes
<1>4. /\ FrameOk(e, g, s) /\ HeaderAt(c, i, g)
      /\ g.n > 0 => RunAt(c, i + L, g, 0, s)
      /\ NextIs(c, i + S, fl, g.m, g.at + g.n, g.fin)
  BY <1>2, <1>3 DEF FrameAt
<1>5. g.m \in 1 .. Len(s) /\ g.m \in 0 .. Len(s)
  BY <1>4 DEF FrameOk, Grown
<1>6. g.at + g.n \in Nat /\ g.fin \in {0, 1}
  BY DEF Frames
<1>7. HeaderAt(c2, i, g)
  <2>1. i + L - 1 <= Len(c) /\ i + L - 1 <= Len(c2)
    BY <1>1, <1>3, <1>4 DEF HeaderAt
  <2>2. Same(c, i, c2, i, L)
    <3>1. ASSUME NEW j \in 0 .. L - 1 PROVE c2[i + j] = c[i + j]
      <4>1. i + j \in 1 .. Len(c)
        BY <1>1, <1>3, <2>1
      <4> QED
        BY <4>1 DEF Later
    <3> QED
      BY <3>1 DEF Same
  <2> QED
    BY <1>1, <1>3, <1>4, <2>1, <2>2, HeaderMoves
<1>8. g.n > 0 => RunAt(c2, i + L, g, 0, s2)
  <2>1. i + L \in Nat \ {0}
    BY <1>1
  <2> QED
    BY <1>4, <1>5, <2>1, RunLater
<1>9. NextIs(c2, i + S, fl2, g.m, g.at + g.n, g.fin)
  <2>1. i + S \in Nat \ {0}
    BY <1>1
  <2> QED
    BY <1>4, <1>5, <1>6, <2>1 DEF Later
<1>10. FrameOk(e, g, s2)
  BY <1>4, FrameOkGrown
<1> QED
  BY <1>2, <1>3, <1>7, <1>8, <1>9, <1>10 DEF FrameAt

\* The frame that was added.
LEMMA NewFrame ==
    ASSUME NEW e, NEW c, NEW c2, NEW f \in Frames, NEW good \in Nat, NEW fl2, NEW s2,
           Extended(c, c2, f), FrameOk(e, f, s2),
           f.n > 0 => c2[Len(c) + 1 + HeaderLength(f)] = Run(f, good),
           good >= f.n \/ s2[f.m].cut,
           Stops(f.m, f.at + f.n, f.fin, fl2)
    PROVE  FrameAt(e, c2, Len(c) + 1, fl2, s2)
<1>1. PICK L \in Nat, S \in Nat :
        L = HeaderLength(f) /\ S = Size(f) /\ (f.n > 0 => S = L + 1)
  BY Sizes
<1>2. Len(c) \in Nat /\ Len(c2) = Len(c) + S
  BY <1>1 DEF Extended
<1>3. HeaderAt(c2, Len(c) + 1, f) /\ c2[Len(c) + 1].frame = f
  BY DEF Extended, HeaderAt
<1>4. f.n > 0 => RunAt(c2, Len(c) + 1 + L, f, 0, s2)
  <2> HAVE f.n > 0
  <2>1. c2[Len(c) + 1 + L] = Run(f, good) /\ Len(c) + 1 + L <= Len(c2)
    BY <1>1, <1>2
  <2>2. f.n \in Nat /\ f.at \in Nat
    BY DEF Frames
  <2>3. /\ Run(f, good).kind = "run" /\ Run(f, good).m = f.m
        /\ Run(f, good).masked = f.mask /\ Run(f, good).off = 0
        /\ Run(f, good).at = f.at + 0 /\ Run(f, good).n = f.n - 0
        /\ Run(f, good).n = f.n /\ Run(f, good).good = good
    BY <2>2 DEF Run
  <2> QED
    BY <2>1, <2>3 DEF RunAt
<1>5. NextIs(c2, Len(c) + 1 + S, fl2, f.m, f.at + f.n, f.fin)
  BY <1>2 DEF NextIs
<1> QED
  BY <1>1, <1>3, <1>4, <1>5 DEF FrameAt

\* The reader does not see what is added behind.
LEMMA ReaderLater ==
    ASSUME NEW e, NEW h \in Headers \cup {NoHeader}, NEW p \in Parts \cup {NoPart},
           NEW g \in Seq(Parts), NEW c, NEW c2, NEW fl, NEW fl2, NEW s, NEW s2,
           ReaderOk(e, h, p, g, c, fl, s), Later(c, c2, fl, fl2, s), Grown(s, s2)
    PROVE  ReaderOk(e, h, p, g, c2, fl2, s2)
<1>0. /\ 1 \in Nat \ {0} /\ 2 \in Nat \ {0} /\ 0 \in Nat
      /\ 0 \in {0, 1} /\ 1 \in {0, 1}
  OBVIOUS
<1>n. ASSUME NEW i \in Nat \ {0}, NEW m \in 0 .. Len(s), NEW at \in Nat,
             NEW fin \in {0, 1}, NextIs(c, i, fl, m, at, fin)
      PROVE  NextIs(c2, i, fl2, m, at, fin)
  BY <1>n DEF Later
<1>1. LastGot(g) \in 0 .. Len(s) /\ LastGot(g) <= Len(s2)
  <2>1. LastGot(g) \in Nat
    <3>1. CASE g = <<>>
      BY <3>1 DEF LastGot
    <3>2. CASE g # <<>>
      <4>1. Len(g) \in 1 .. Len(g)
        BY <3>2, EmptySeq
      <4>2. g[Len(g)] \in Parts
        BY <4>1, ElementOfSeq
      <4> QED
        BY <3>2, <4>2 DEF LastGot, Parts
    <3> QED
      BY <3>1, <3>2
  <2> QED
    BY <2>1 DEF ReaderOk, Grown
<1>2. p # NoPart => /\ p \in Parts /\ p.m \in 1 .. Len(s) /\ p.n \in Nat
                    /\ s2[p.m] = s[p.m] /\ p.m <= Len(s2)
  BY DEF ReaderOk, Parts, Grown
<1>3. CASE h = NoHeader
  <2>1. CASE p = NoPart
    <3>1. NextIs(c, 1, fl, LastGot(g), 0, 1)
      BY <1>3, <2>1 DEF ReaderOk
    <3>2. NextIs(c2, 1, fl2, LastGot(g), 0, 1)
      BY <1>1, <3>1, <1>0, <1>n
    <3> QED
      BY <1>1, <1>3, <2>1, <3>2 DEF ReaderOk
  <2>2. CASE p # NoPart
    <3>1. NextIs(c, 1, fl, p.m, p.n, 0)
      BY <1>3, <2>2 DEF ReaderOk
    <3>2. p.m \in 0 .. Len(s)
      BY <1>2, <2>2 DEF Grown
    <3>3. NextIs(c2, 1, fl2, p.m, p.n, 0)
      BY <1>2, <2>2, <3>1, <3>2, <1>0, <1>n
    <3> QED
      BY <1>1, <1>2, <1>3, <2>2, <3>3 DEF ReaderOk
  <2> QED
    BY <2>1, <2>2
<1>4. CASE h # NoHeader
  <2>1. PICK x \in Frames : x = h.frame
    BY <1>4 DEF Headers
  <2>2. FrameOk(e, x, s) /\ FrameOk(e, x, s2) /\ s2[x.m] = s[x.m]
    <3>1. FrameOk(e, x, s)
      BY <1>4, <2>1 DEF ReaderOk
    <3> QED
      BY <3>1, FrameOkGrown
  <2>3. x.m \in 1 .. Len(s) /\ x.m \in 0 .. Len(s) /\ x.at + x.n \in Nat /\ x.fin \in {0, 1}
    BY <2>2 DEF FrameOk, Frames, Grown
  <2> DEFINE m == x.m
             at == x.at + x.n
             fin == x.fin
  <2>6. m \in 0 .. Len(s) /\ at \in Nat /\ fin \in {0, 1}
    BY <2>3
  <2>4. CASE h.plen = 0
    <3>1. NextIs(c, 1, fl, m, at, fin)
      BY <1>4, <2>1, <2>4 DEF ReaderOk, Inside
    <3>2. NextIs(c2, 1, fl2, m, at, fin)
      <4> HIDE DEF m, at, fin
      <4> QED
        BY <2>6, <3>1, <1>0, <1>n
    <3> QED
      BY <1>1, <1>2, <1>4, <2>1, <2>2, <2>4, <3>2 DEF ReaderOk, Inside
  <2>5. CASE h.plen # 0
    <3>1. NextIs(c, 2, fl, x.m, x.at + x.n, x.fin) /\ RunAt(c, 1, x, x.n - h.plen, s)
      BY <1>4, <2>1, <2>5 DEF ReaderOk, Inside
    <3>2. NextIs(c2, 2, fl2, x.m, x.at + x.n, x.fin)
      BY <2>3, <3>1, <1>0, <1>n
    <3>3. RunAt(c2, 1, x, x.n - h.plen, s2)
      BY <2>3, <3>1, <1>0, RunLater
    <3> QED
      BY <1>1, <1>2, <1>4, <2>1, <2>2, <2>5, <3>2, <3>3 DEF ReaderOk, Inside
  <2> QED
    BY <2>4, <2>5
<1> QED
  BY <1>3, <1>4

\* What e sees while nothing comes.
LEMMA EndLater ==
    ASSUME NEW e, NEW h, NEW p, NEW g, NEW c, NEW fl, NEW fl2, NEW s, NEW s2,
           EndOk(e, h, p, g, c, fl, s), Grown(s, s2),
           \A m \in 0 .. Len(s), at \in Nat, fin \in {0, 1} :
               Stops(m, at, fin, fl) => Stops(m, at, fin, fl2)
    PROVE  EndOk(e, h, p, g, c, fl2, s2)
<1>1. Len(c) \in Nat /\ c \in Seq(Items)
  BY DEF EndOk
<1>2. Later(c, c, fl, fl2, s)
  BY <1>1, SameIsLater
<1>3. ChannelOk(e, c, fl2, s2)
  <2>1. ASSUME NEW i \in 1 .. Len(c), c[i].kind = "first"
        PROVE  FrameAt(e, c, i, fl2, s2)
    <3>1. FrameAt(e, c, i, fl, s)
      BY <2>1 DEF EndOk, ChannelOk
    <3>2. c[i] \in Items
      BY <1>1
    <3>3. c[i].frame \in Frames
      BY <2>1, <3>2 DEF Items
    <3> QED
      BY <1>2, <3>1, <3>3, FrameLater
  <2> QED
    BY <2>1 DEF ChannelOk
<1>4. ReaderOk(e, h, p, g, c, fl2, s2)
  BY <1>2, ReaderLater DEF EndOk
<1> QED
  BY <1>3, <1>4 DEF EndOk

\* A channel with one more frame.
LEMMA AppendFrame ==
    ASSUME NEW c \in Seq(Items), NEW f \in Frames, NEW good \in Nat, NEW c2,
           c2 = c \o Encode(f, good)
    PROVE  /\ c2 \in Seq(Items) /\ Extended(c, c2, f)
           /\ f.n > 0 => c2[Len(c) + 1 + HeaderLength(f)] = Run(f, good)
<1>1. PICK d \in Seq(Items) :
        /\ d = Encode(f, good) /\ Len(d) = Size(f) /\ HeaderAt(d, 1, f)
        /\ f.n > 0 => d[HeaderLength(f) + 1] = Run(f, good)
        /\ \A i \in 2 .. Len(d) : d[i].kind # "first"
  BY EncodeRight
<1>2. PICK L \in Nat, S \in Nat :
        L = HeaderLength(f) /\ S = Size(f) /\ S >= L /\ L >= 2 /\ (f.n > 0 => S = L + 1)
  BY Sizes
<1>3. PICK n \in Nat : n = Len(c)
  OBVIOUS
<1>4. /\ c2 \in Seq(Items) /\ Len(c2) = n + S
      /\ \A i \in 1 .. n + S : c2[i] = IF i <= n THEN c[i] ELSE d[i - n]
  <2>1. /\ c \o d \in Seq(Items) /\ Len(c \o d) = Len(c) + Len(d)
        /\ \A i \in 1 .. Len(c) + Len(d) : (c \o d)[i] =
               IF i <= Len(c) THEN c[i] ELSE d[i - Len(c)]
    BY ConcatProperties
  <2>2. c2 = c \o d
    BY <1>1
  <2> QED
    BY <1>1, <1>2, <1>3, <2>1, <2>2
<1>5. ASSUME NEW j \in 1 .. S PROVE c2[n + j] = d[j]
  <2>1. n + j \in 1 .. n + S /\ ~(n + j <= n) /\ (n + j) - n = j
    BY <1>2
  <2> QED
    BY <1>4, <2>1
<1>6. HeaderAt(c2, n + 1, f)
  <2>1. Same(d, 1, c2, n + 1, L)
    <3>1. ASSUME NEW j \in 0 .. L - 1 PROVE c2[(n + 1) + j] = d[1 + j]
      <4>1. 1 + j \in 1 .. S /\ n + (1 + j) = (n + 1) + j
        BY <1>2
      <4>2. c2[n + (1 + j)] = d[1 + j]
        BY <1>5, <4>1
      <4> QED
        BY <4>1, <4>2
    <3> QED
      BY <3>1 DEF Same
  <2>2. n + 1 \in Nat /\ 1 \in Nat /\ Len(c2) \in Nat /\ Len(d) \in Nat
        /\ (n + 1) + L - 1 <= Len(c2)
    BY <1>1, <1>2, <1>4
  <2> QED
    BY <1>1, <1>2, <2>1, <2>2, HeaderMoves
<1>7. \A j \in n + 2 .. Len(c2) : c2[j].kind # "first"
  <2> TAKE j \in n + 2 .. Len(c2)
  <2>1. j - n \in 1 .. S /\ j - n \in 2 .. Len(d) /\ n + (j - n) = j
    BY <1>1, <1>2, <1>4
  <2>2. c2[n + (j - n)] = d[j - n]
    BY <1>5, <2>1
  <2> QED
    BY <1>1, <2>1, <2>2
<1>8. \A j \in 1 .. n : c2[j] = c[j]
  BY <1>2, <1>4
<1>9. f.n > 0 => c2[n + 1 + L] = Run(f, good)
  <2> HAVE f.n > 0
  <2>1. L + 1 \in 1 .. S /\ n + (L + 1) = n + 1 + L
    BY <1>2
  <2>2. c2[n + (L + 1)] = d[L + 1]
    BY <1>5, <2>1
  <2> QED
    BY <1>1, <1>2, <2>1, <2>2
<1> QED
  BY <1>2, <1>3, <1>4, <1>6, <1>7, <1>8, <1>9 DEF Extended

\* A good frame that fits is sent to e.
Comes(e, c, c2, f, fl, fl2, s, s2) ==
    /\ f \in Frames /\ Grown(s, s2) /\ Fits(f, fl, s) /\ FrameOk(e, f, s2)
    /\ Stops(f.m, f.at + f.n, f.fin, fl2)
    /\ \E good \in Nat : c2 = c \o Encode(f, good) /\ (good >= f.n \/ s2[f.m].cut)

\* What e sees then.
LEMMA EndExtended ==
    ASSUME NEW e, NEW h, NEW p, NEW g, NEW c, NEW c2, NEW fl, NEW fl2, NEW s, NEW s2,
           NEW f, EndOk(e, h, p, g, c, fl, s), Comes(e, c, c2, f, fl, fl2, s, s2)
    PROVE  EndOk(e, h, p, g, c2, fl2, s2)
<1>0. /\ f \in Frames /\ Grown(s, s2) /\ Fits(f, fl, s) /\ FrameOk(e, f, s2)
      /\ Stops(f.m, f.at + f.n, f.fin, fl2)
  BY DEF Comes
<1>c. PICK good \in Nat : c2 = c \o Encode(f, good) /\ (good >= f.n \/ s2[f.m].cut)
  BY DEF Comes
<1>1. /\ c \in Seq(Items) /\ c2 \in Seq(Items) /\ Extended(c, c2, f)
      /\ f.n > 0 => c2[Len(c) + 1 + HeaderLength(f)] = Run(f, good)
  BY <1>0, <1>c, AppendFrame DEF EndOk
<1>2. Later(c, c2, fl, fl2, s)
  BY <1>0, <1>1, ExtendedIsLater
<1>3. ChannelOk(e, c2, fl2, s2)
  <2> SUFFICES ASSUME NEW i \in 1 .. Len(c2), c2[i].kind = "first"
               PROVE  FrameAt(e, c2, i, fl2, s2)
    BY DEF ChannelOk
  <2>1. Len(c) \in Nat /\ Len(c2) \in Nat
    BY <1>1
  <2>2. CASE i <= Len(c)
    <3>1. i \in 1 .. Len(c) /\ c2[i] = c[i]
      BY <1>1, <2>1, <2>2 DEF Extended
    <3>2. FrameAt(e, c, i, fl, s)
      BY <3>1 DEF EndOk, ChannelOk
    <3>3. c[i].frame \in Frames
      <4>1. c[i] \in Items /\ c[i].kind = "first"
        BY <1>1, <3>1
      <4> QED
        BY <4>1 DEF Items
    <3> QED
      BY <1>0, <1>2, <3>1, <3>2, <3>3, FrameLater
  <2>3. CASE i > Len(c)
    <3>1. i = Len(c) + 1
      BY <1>1, <2>1, <2>3 DEF Extended
    <3> QED
      BY <1>0, <1>c, <1>1, <3>1, NewFrame
  <2> QED
    BY <2>1, <2>2, <2>3
<1>4. ReaderOk(e, h, p, g, c2, fl2, s2)
  BY <1>0, <1>2, ReaderLater DEF EndOk
<1> QED
  BY <1>1, <1>3, <1>4 DEF EndOk

-----------------------------------------------------------------------------
(***************************************************************************)
(* Reading from the front of a channel.                                    *)
(***************************************************************************)
\* c2 is c without its first d items, but for items before lo, which are in no
\* place where a frame begins.
Rest(c, c2, d, lo) ==
    /\ c2 \in Seq(Items) /\ Len(c) \in Nat /\ d \in Nat /\ lo \in Nat \ {0}
    /\ Len(c) = Len(c2) + d
    /\ \A j \in lo .. Len(c2) : c2[j] = c[j + d]
    /\ \A j \in 1 .. Len(c2) : j < lo => c2[j].kind # "first"

\* The frames that are left stand as they stood.
LEMMA ChannelRest ==
    ASSUME NEW e, NEW c \in Seq(Items), NEW c2, NEW d, NEW lo, NEW fl, NEW s,
           ChannelOk(e, c, fl, s), Rest(c, c2, d, lo)
    PROVE  ChannelOk(e, c2, fl, s)
<1> SUFFICES ASSUME NEW i \in 1 .. Len(c2), c2[i].kind = "first"
             PROVE  FrameAt(e, c2, i, fl, s)
  BY DEF ChannelOk
<1>1. /\ Len(c) \in Nat /\ d \in Nat /\ lo \in Nat \ {0} /\ Len(c2) \in Nat
      /\ Len(c) = Len(c2) + d
  BY DEF Rest
<1>2. i \in lo .. Len(c2)
  BY <1>1 DEF Rest
<1>3. PICK k \in 1 .. Len(c) : k = i + d
  BY <1>1
<1>4. c2[i] = c[k]
  BY <1>2, <1>3 DEF Rest
<1>5. FrameAt(e, c, k, fl, s)
  BY <1>4 DEF ChannelOk
<1>6. c[k].frame \in Frames
  <2>1. c[k] \in Items /\ c[k].kind = "first"
    BY <1>4
  <2> QED
    BY <2>1 DEF Items
<1>7. Same(c, k, c2, i, Len(c) - k + 1)
  <2>1. ASSUME NEW j \in 0 .. Len(c) - k + 1 - 1 PROVE c2[i + j] = c[k + j]
    <3>1. i + j \in lo .. Len(c2) /\ (i + j) + d = k + j
      BY <1>1, <1>2, <1>3
    <3>2. c2[i + j] = c[(i + j) + d]
      BY <3>1 DEF Rest
    <3> QED
      BY <3>1, <3>2
  <2> QED
    BY <2>1 DEF Same
<1>8. i \in Nat \ {0} /\ k \in Nat \ {0} /\ k <= Len(c) /\ Len(c) - k = Len(c2) - i
  BY <1>1, <1>3
<1> QED
  BY <1>1, <1>5, <1>6, <1>7, <1>8, FrameMoves

\* What may come next is what might come before, further on.
LEMMA NextRest ==
    ASSUME NEW c, NEW c2, NEW d, NEW lo, NEW i \in Nat, NEW j,
           Rest(c, c2, d, lo), i >= lo, j = i + d
    PROVE  \A fl, m, at, fin : NextIs(c, j, fl, m, at, fin) => NextIs(c2, i, fl, m, at, fin)
<1> SUFFICES ASSUME NEW fl, NEW m, NEW at, NEW fin, NextIs(c, j, fl, m, at, fin)
             PROVE  NextIs(c2, i, fl, m, at, fin)
  OBVIOUS
<1>1. /\ Len(c) \in Nat /\ d \in Nat /\ lo \in Nat \ {0} /\ Len(c2) \in Nat
      /\ Len(c) = Len(c2) + d
  BY DEF Rest
<1>2. CASE i + d = Len(c) + 1 /\ Stops(m, at, fin, fl)
  BY <1>1, <1>2 DEF NextIs
<1>3. CASE i + d \in 1 .. Len(c) /\ c[i + d].kind = "first" /\ Goes(m, at, fin, c[i + d].frame)
  <2>1. i \in lo .. Len(c2) /\ i \in 1 .. Len(c2)
    BY <1>1, <1>3
  <2>2. c2[i] = c[i + d]
    BY <2>1 DEF Rest
  <2> QED
    BY <1>3, <2>1, <2>2 DEF NextIs
<1> QED
  BY <1>2, <1>3 DEF NextIs

\* The same for the first item and for the second.
LEMMA FirstRest ==
    ASSUME NEW c, NEW c2, NEW d, NEW fl, NEW m, NEW at, NEW fin, NEW j,
           Rest(c, c2, d, 1), j = 1 + d, NextIs(c, j, fl, m, at, fin)
    PROVE  NextIs(c2, 1, fl, m, at, fin)
<1>1. PICK i \in Nat, lo \in Nat : i = 1 /\ lo = 1 /\ i >= lo /\ j = i + d /\ Rest(c, c2, d, lo)
  OBVIOUS
<1>2. \A fl2, m2, at2, fin2 : NextIs(c, j, fl2, m2, at2, fin2) => NextIs(c2, i, fl2, m2, at2, fin2)
  BY <1>1, NextRest
<1> QED
  BY <1>1, <1>2

LEMMA SecondRest ==
    ASSUME NEW c, NEW c2, NEW d, NEW lo, NEW fl, NEW m, NEW at, NEW fin, NEW j,
           Rest(c, c2, d, lo), lo = 1 \/ lo = 2, j = 2 + d, NextIs(c, j, fl, m, at, fin)
    PROVE  NextIs(c2, 2, fl, m, at, fin)
<1>1. PICK i \in Nat : i = 2 /\ i >= lo /\ j = i + d
  OBVIOUS
<1>2. \A fl2, m2, at2, fin2 : NextIs(c, j, fl2, m2, at2, fin2) => NextIs(c2, i, fl2, m2, at2, fin2)
  BY <1>1, NextRest
<1> QED
  BY <1>1, <1>2

\* A header is read: its payload is next.
LEMMA HeaderTaken ==
    ASSUME NEW e, NEW c \in Seq(Items), NEW fl, NEW s, NEW f,
           ChannelOk(e, c, fl, s), c # <<>>, c[1].kind = "first", f = c[1].frame
    PROVE  /\ f \in Frames /\ FrameOk(e, f, s) /\ HeaderAt(c, 1, f)
           /\ LET c2 == SubSeq(c, HeaderLength(f) + 1, Len(c))
              IN  /\ c2 \in Seq(Items)
                  /\ ChannelOk(e, c2, fl, s)
                  /\ Inside(c2, f, f.n, fl, s)
<1>1. PICK n \in Nat : n = Len(c) /\ n >= 1
  BY EmptySeq
<1>2. f \in Frames
  <2>1. c[1] \in Items
    BY <1>1
  <2> QED
    BY <2>1 DEF Items
<1>3. FrameAt(e, c, 1, fl, s)
  BY <1>1 DEF ChannelOk
<1>4. PICK L \in Nat, S \in Nat :
        /\ L = HeaderLength(f) /\ S = Size(f) /\ L >= 2 /\ S >= L
        /\ f.n = 0 => S = L
        /\ f.n > 0 => S = L + 1
  BY <1>2, Sizes
<1>5. /\ FrameOk(e, f, s) /\ HeaderAt(c, 1, f)
      /\ f.n > 0 => RunAt(c, 1 + L, f, 0, s)
      /\ NextIs(c, 1 + S, fl, f.m, f.at + f.n, f.fin)
  BY <1>3, <1>4 DEF FrameAt
<1>6. L <= n
  BY <1>1, <1>4, <1>5 DEF HeaderAt
<1> DEFINE c2 == SubSeq(c, L + 1, n)
<1>7. /\ c2 \in Seq(Items) /\ Len(c2) = n - L
      /\ \A j \in 1 .. n - L : c2[j] = c[j + L]
  <2>1. \A i \in L + 1 .. n : c[i] \in Items
    BY <1>1
  <2>2. /\ c2 \in Seq(Items)
        /\ Len(c2) = IF L + 1 <= n THEN n - (L + 1) + 1 ELSE 0
        /\ \A i \in 1 .. n - (L + 1) + 1 : c2[i] = c[(L + 1) + i - 1]
    BY <2>1, SubSeqProperties
  <2> HIDE DEF c2
  <2>3. Len(c2) = n - L
    BY <1>6, <2>2
  <2>4. ASSUME NEW j \in 1 .. n - L PROVE c2[j] = c[j + L]
    <3>1. j \in 1 .. n - (L + 1) + 1 /\ (L + 1) + j - 1 = j + L
      BY <1>6
    <3> QED
      BY <2>2, <3>1
  <2> QED
    BY <2>2, <2>3, <2>4
<1> HIDE DEF c2
<1>8. Rest(c, c2, L, 1)
  BY <1>1, <1>6, <1>7 DEF Rest
<1>9. ChannelOk(e, c2, fl, s)
  BY <1>8, ChannelRest
<1>10. Inside(c2, f, f.n, fl, s)
  <2>1. f.n \in Nat
    BY <1>2 DEF Frames
  <2>2. CASE f.n = 0
    <3>1. NextIs(c, 1 + L, fl, f.m, f.at + f.n, f.fin)
      BY <1>4, <1>5, <2>2
    <3>2. NextIs(c2, 1, fl, f.m, f.at + f.n, f.fin)
      BY <1>8, <3>1, FirstRest
    <3> QED
      BY <2>2, <3>2 DEF Inside
  <2>3. CASE f.n > 0
    <3>1. RunAt(c2, 1, f, 0, s)
      <4>1. RunAt(c, 1 + L, f, 0, s) /\ 1 + L <= n
        BY <1>1, <1>5, <2>3 DEF RunAt
      <4>2. c2[1] = c[1 + L] /\ 1 <= Len(c2)
        BY <1>7, <4>1
      <4> QED
        BY <4>1, <4>2 DEF RunAt
    <3>2. NextIs(c2, 2, fl, f.m, f.at + f.n, f.fin)
      <4>1. 1 + S = 2 + L
        BY <1>4, <2>3
      <4>2. PICK j \in Nat : j = 2 + L /\ NextIs(c, j, fl, f.m, f.at + f.n, f.fin)
        BY <1>5, <4>1
      <4> QED
        BY <1>8, <4>2, SecondRest
    <3> QED
      BY <2>1, <2>3, <3>1, <3>2 DEF Inside
  <2> QED
    BY <2>1, <2>2, <2>3
<1> QED
  BY <1>1, <1>2, <1>4, <1>5, <1>7, <1>9, <1>10 DEF c2

\* Some of what is left of a frame is read.
LEMMA DropRight ==
    ASSUME NEW e, NEW c \in Seq(Items), NEW fl, NEW s, NEW f \in Frames, NEW left \in Nat,
           left <= f.n, NEW k \in 0 .. left,
           ChannelOk(e, c, fl, s), Inside(c, f, left, fl, s)
    PROVE  LET c2 == Drop(c, k)
           IN  /\ c2 \in Seq(Items)
               /\ ChannelOk(e, c2, fl, s)
               /\ Inside(c2, f, left - k, fl, s)
<1> DEFINE c2 == Drop(c, k)
<1>1. CASE k = 0
  <2>1. c2 = c /\ left - k = left
    BY <1>1 DEF Drop
  <2> QED
    BY <2>1
<1>2. CASE k > 0
  <2>1. RunAt(c, 1, f, f.n - left, s) /\ NextIs(c, 2, fl, f.m, f.at + f.n, f.fin)
    BY <1>2 DEF Inside
  <2>2. c # <<>> /\ 1 \in 1 .. Len(c) /\ Len(c) \in Nat
    BY <2>1 DEF RunAt
  <2>3. c[1] \in Items /\ c[1].kind = "run" /\ c[1].n = left
    <3>1. f.n \in Nat /\ c[1].n = f.n - (f.n - left)
      BY <2>1 DEF Frames, RunAt
    <3> QED
      BY <2>1, <2>2, <3>1 DEF RunAt
  <2>4. PICK t \in Seq(Items) :
          t = Tail(c) /\ Len(t) = Len(c) - 1 /\ \A i \in 1 .. Len(t) : t[i] = c[i + 1]
    BY <2>2, HeadTailProperties
  <2>5. CASE k = left
    <3>1. Cut(c[1], k) = <<>>
      BY <2>3, <2>5 DEF Cut
    <3>2. c2 = t
      <4>1. c2 = <<>> \o t
        <5>1. k # 0
          BY <1>2
        <5>2. Drop(c, k) = Cut(c[1], k) \o Tail(c)
          BY <5>1, Zenon DEF Drop
        <5> QED
          BY <2>4, <3>1, <5>2, Zenon
      <4>2. <<>> \o t = t
        BY ConcatEmptySeq
      <4> QED
        BY <4>1, <4>2
    <3>3. Rest(c, c2, 1, 1)
      BY <2>2, <2>4, <3>2 DEF Rest
    <3> HIDE DEF c2
    <3>4. NextIs(c2, 1, fl, f.m, f.at + f.n, f.fin)
      <4>1. PICK j \in Nat : j = 1 + 1 /\ NextIs(c, j, fl, f.m, f.at + f.n, f.fin)
        BY <2>1
      <4> QED
        BY <3>3, <4>1, FirstRest
    <3>5. left - k = 0
      BY <2>5
    <3>6. ChannelOk(e, c2, fl, s)
      BY <3>3, ChannelRest
    <3>7. Inside(c2, f, left - k, fl, s)
      BY <3>4, <3>5 DEF Inside
    <3> QED
      BY <2>4, <3>2, <3>6, <3>7 DEF c2
  <2>6. CASE k < left
    <3> DEFINE cut == [c[1] EXCEPT !.at = @ + k, !.off = @ + k, !.n = @ - k,
                                   !.good = IF @ > k THEN @ - k ELSE 0]
    <3>1. /\ cut \in Items /\ cut.kind = "run"
          /\ cut.m = c[1].m /\ cut.masked = c[1].masked
          /\ cut.at = c[1].at + k /\ cut.off = c[1].off + k /\ cut.n = c[1].n - k
          /\ cut.good = IF c[1].good > k THEN c[1].good - k ELSE 0
          /\ c[1].good \in Nat /\ c[1].n \in Nat
      <4>1. PICK gd \in Nat : gd = IF c[1].good > k THEN c[1].good - k ELSE 0
        BY <2>3 DEF Items
      <4>2. cut = [c[1] EXCEPT !.at = @ + k, !.off = @ + k, !.n = @ - k, !.good = gd]
        BY <4>1
      <4> HIDE DEF cut
      <4>3. c[1].n - k \in Nat
        BY <2>3, <2>6
      <4>4. c[1] \in [kind : {"run"}, m : Nat, at : Nat, off : Nat, n : Nat,
                     masked : {0, 1}, good : Nat]
        BY <2>3 DEF Items
      <4>10. PICK x : x = c[1]
        OBVIOUS
      <4>11. x.at \in Nat /\ x.off \in Nat /\ k \in Nat /\ x.n - k \in Nat
        BY <4>3, <4>4, <4>10
      <4>5. PICK at \in Nat, off \in Nat, len \in Nat :
              at = x.at + k /\ off = x.off + k /\ len = x.n - k
        <5>1. x.at + k \in Nat /\ x.off + k \in Nat
          BY <4>11
        <5> QED
          BY <4>11, <5>1, Zenon
      <4>7. /\ x \in [kind : {"run"}, m : Nat, at : Nat, off : Nat, n : Nat,
                       masked : {0, 1}, good : Nat]
            /\ cut = [x EXCEPT !.at = at, !.off = off, !.n = len, !.good = gd]
        BY <4>2, <4>4, <4>5, <4>10
      <4>8. cut = [kind |-> "run", m |-> x.m, at |-> at, off |-> off, n |-> len,
                   masked |-> x.masked, good |-> gd]
        BY <4>7
      <4>9. cut \in [kind : {"run"}, m : Nat, at : Nat, off : Nat, n : Nat,
                     masked : {0, 1}, good : Nat]
        BY <4>7, <4>8
      <4>6. /\ cut.m = c[1].m /\ cut.masked = c[1].masked /\ cut.kind = c[1].kind
            /\ cut.at = c[1].at + k /\ cut.off = c[1].off + k /\ cut.n = c[1].n - k
            /\ cut.good = gd
        BY <4>2, <4>4
      <4> QED
        BY <2>3, <4>1, <4>4, <4>6, <4>9 DEF Items
    <3>2. Cut(c[1], k) = <<cut>>
      BY <2>3, <2>6 DEF Cut
    <3>3. c2 = <<cut>> \o t
      BY <1>2, <2>4, <3>2 DEF Drop
    <3> HIDE DEF c2, cut
    <3>4. /\ c2 \in Seq(Items) /\ Len(c2) = Len(c) /\ c2[1] = cut
          /\ \A i \in 2 .. Len(c2) : c2[i] = c[i]
      <4> DEFINE a == <<cut>>
      <4>1. a \in Seq(Items) /\ Len(a) = 1 /\ a[1] = cut
        BY <3>1
      <4>2. c2 = a \o t
        BY <3>3
      <4> HIDE DEF a
      <4>3. /\ a \o t \in Seq(Items) /\ Len(a \o t) = Len(a) + Len(t)
            /\ \A i \in 1 .. Len(a) + Len(t) : (a \o t)[i] =
                   IF i <= Len(a) THEN a[i] ELSE t[i - Len(a)]
        BY <4>1, ConcatProperties
      <4>4. ASSUME NEW i \in 2 .. Len(c) PROVE c2[i] = c[i]
        <5>1. i \in 1 .. Len(a) + Len(t) /\ ~(i <= Len(a)) /\ i - Len(a) \in 1 .. Len(t)
              /\ (i - Len(a)) + 1 = i
          BY <2>2, <2>4, <4>1
        <5>2. c2[i] = t[i - Len(a)]
          BY <4>2, <4>3, <5>1
        <5>3. t[i - Len(a)] = c[(i - Len(a)) + 1]
          BY <2>4, <5>1
        <5> QED
          BY <5>1, <5>2, <5>3
      <4>5. Len(c2) = Len(c)
        BY <2>2, <2>4, <4>1, <4>2, <4>3
      <4>6. c2[1] = cut
        BY <2>2, <2>4, <4>1, <4>2, <4>3
      <4> QED
        BY <4>2, <4>3, <4>4, <4>5, <4>6
    <3>5. Rest(c, c2, 0, 2)
      <4>1. \A j \in 2 .. Len(c2) : c2[j] = c[j + 0]
        BY <3>4
      <4>2. \A j \in 1 .. Len(c2) : j < 2 => c2[j].kind # "first"
        BY <3>1, <3>4
      <4> QED
        BY <2>2, <3>4, <4>1, <4>2 DEF Rest
    <3>6. NextIs(c2, 2, fl, f.m, f.at + f.n, f.fin)
      <4>1. PICK j \in Nat : j = 2 + 0 /\ NextIs(c, j, fl, f.m, f.at + f.n, f.fin)
        BY <2>1
      <4> QED
        BY <3>5, <4>1, SecondRest
    <3>7. RunAt(c2, 1, f, f.n - (left - k), s)
      <4>1. /\ c[1].m = f.m /\ c[1].masked = f.mask /\ c[1].off = f.n - left
            /\ c[1].at = f.at + (f.n - left)
            /\ c[1].good >= c[1].n \/ s[f.m].cut
        BY <2>1 DEF RunAt
      <4>2. f.n \in Nat /\ f.at \in Nat
        BY DEF Frames
      <4>3. /\ cut.off = f.n - (left - k) /\ cut.at = f.at + (f.n - (left - k))
            /\ cut.n = f.n - (f.n - (left - k))
        BY <2>3, <3>1, <4>1, <4>2
      <4>4. c[1].good >= c[1].n => cut.good >= cut.n
        BY <2>3, <2>6, <3>1
      <4> QED
        BY <2>2, <3>1, <3>4, <4>1, <4>3, <4>4 DEF RunAt
    <3>8. left - k # 0
      BY <2>6
    <3>9. ChannelOk(e, c2, fl, s)
      BY <3>5, ChannelRest
    <3>10. Inside(c2, f, left - k, fl, s)
      BY <3>6, <3>7, <3>8 DEF Inside
    <3> QED
      BY <3>4, <3>9, <3>10 DEF c2
  <2> QED
    BY <2>5, <2>6
<1> QED
  BY <1>1, <1>2

-----------------------------------------------------------------------------
(***************************************************************************)
(* Sending keeps the invariant.                                            *)
(***************************************************************************)
\* A message is added at the end.
LEMMA MessageAdded ==
    ASSUME NEW s \in Seq(Messages), NEW msg \in Messages, NEW s2, s2 = Append(s, msg)
    PROVE  /\ s2 \in Seq(Messages) /\ Grown(s, s2)
           /\ Len(s) \in Nat /\ Len(s2) = Len(s) + 1 /\ s2[Len(s) + 1] = msg
<1>1. /\ s2 \in Seq(Messages) /\ Len(s2) = Len(s) + 1 /\ s2[Len(s) + 1] = msg
      /\ \A i \in 1 .. Len(s) : s2[i] = s[i] /\ Len(s) \in Nat
  BY AppendProperties
<1>2. Len(s) \in Nat
  OBVIOUS
<1> QED
  BY <1>1, <1>2 DEF Grown

\* A file that is being sent is the same when messages were added.
LEMMA FileGrown ==
    ASSUME NEW e, NEW fl \in Files \cup {NoFile}, NEW s, NEW s2,
           Grown(s, s2), FileOk(e, fl, s)
    PROVE  FileOk(e, fl, s2)
<1> SUFFICES ASSUME fl # NoFile
             PROVE  FileOk(e, fl, s2)
  BY DEF FileOk
<1>1. /\ fl.m <= Len(s) /\ s[fl.m].from = e /\ s[fl.m].size = fl.size /\ fl.at <= fl.size
      /\ fl.m \in Nat \ {0}
  BY DEF FileOk, Files
<1>2. fl.m \in 1 .. Len(s) /\ fl.m <= Len(s2)
  BY <1>1 DEF Grown
<1>3. s2[fl.m] = s[fl.m]
  BY <1>2 DEF Grown
<1> QED
  BY <1>1, <1>2, <1>3 DEF FileOk

\* Zero and two are lengths.
LEMMA Two == 0 \in 0 .. MaxLength /\ 2 \in 0 .. MaxLength /\ MaxLength \in Nat
<1>1. MaxLength = ((127 * 256 + 255) * 256 + 255) * 256 + 255
  BY DEF MaxLength, FourBytes
<1>2. PICK a \in Nat : a = 127 * 256 + 255
  OBVIOUS
<1>3. PICK b \in Nat : b = a * 256 + 255
  BY <1>2
<1>4. PICK c \in Nat : c = b * 256 + 255
  BY <1>3
<1>5. MaxLength = c
  BY <1>1, <1>2, <1>3, <1>4
<1>6. c >= 2
  BY <1>2, <1>3, <1>4
<1> QED
  BY <1>5, <1>6

\* End e sends a message in one frame: one of its own, or an answer.
Posted(e, c, c2, s, s2, msg) ==
    /\ s \in Seq(Messages) /\ msg \in Messages /\ s2 = Append(s, msg)
    /\ msg.from = e /\ msg.op # Cont
    /\ \E good \in Nat :
        /\ c2 = c \o Encode(Frame(Len(s) + 1, msg.op, 1, RoleMask(e), 0, msg.size), good)
        /\ good >= msg.size \/ msg.cut

\* What the other end sees then.
LEMMA NewMessage ==
    ASSUME NEW e \in Ends, NEW h, NEW p, NEW g, NEW c, NEW c2,
           NEW s, NEW s2, NEW msg, Posted(e, c, c2, s, s2, msg),
           EndOk(Other(e), h, p, g, c, NoFile, s)
    PROVE  EndOk(Other(e), h, p, g, c2, NoFile, s2)
<1>s. s \in Seq(Messages) /\ msg \in Messages /\ s2 = Append(s, msg)
  BY DEF Posted
<1>p. msg.from = e /\ msg.op # Cont
  BY DEF Posted
<1>f. PICK f : f = Frame(Len(s) + 1, msg.op, 1, RoleMask(e), 0, msg.size)
  OBVIOUS
<1>g. PICK good \in Nat :
        c2 = c \o Encode(f, good) /\ (good >= msg.size \/ msg.cut)
  BY <1>f DEF Posted
<1>1. /\ Grown(s, s2) /\ Len(s) \in Nat /\ Len(s2) = Len(s) + 1
      /\ s2[Len(s) + 1] = msg
  BY <1>s, MessageAdded
<1>2. /\ f.m = Len(s) + 1 /\ f.op = msg.op /\ f.fin = 1 /\ f.mask = RoleMask(e)
      /\ f.at = 0 /\ f.n = msg.size
  BY <1>f DEF Frame
<1>3. /\ msg.op \in Opcodes /\ msg.size \in 0 .. MaxLength /\ msg.size \in Nat
  BY <1>s, Two DEF Messages
<1>4. f \in Frames
  BY <1>f, <1>1, <1>3, TwoEnds DEF Frame, Frames
<1>5. Fits(f, NoFile, s)
  <2> SUFFICES ASSUME NEW m \in 0 .. Len(s), NEW at \in Nat, NEW fin \in {0, 1},
                      Stops(m, at, fin, NoFile)
               PROVE  Goes(m, at, fin, f)
    BY DEF Fits
  <2>1. fin = 1
    BY DEF Stops
  <2> QED
    BY <1>p, <1>1, <1>2, <2>1 DEF Goes
<1>6. FrameOk(Other(e), f, s2)
  BY <1>p, <1>1, <1>2, <1>3, TwoEnds DEF FrameOk
<1>7. Stops(f.m, f.at + f.n, f.fin, NoFile)
  BY <1>2 DEF Stops
<1>8. good >= f.n \/ s2[f.m].cut
  BY <1>g, <1>1, <1>2
<1>9. Comes(Other(e), c, c2, f, NoFile, NoFile, s, s2)
  BY <1>g, <1>1, <1>4, <1>5, <1>6, <1>7, <1>8 DEF Comes
<1> QED
  BY <1>9, EndExtended

\* One message in one frame.
LEMMA SendOneKeeps ==
    ASSUME WsInv, NEW e \in Ends, NEW op \in Opcodes \ {Cont}, NEW n \in 0 .. MaxLength,
           SendOne(e, op, n, RoleMask(e)), UNCHANGED <<readVars, file, missed>>
    PROVE  WsInv' /\ Grown(sent, sent')
<1>1. PICK msg \in Messages : msg = Message(e, op, n, 0, FALSE)
  BY DEF Message, Messages
<1>2. /\ sent \in Seq(Messages) /\ sent' = Append(sent, msg)
      /\ msg.from = e /\ msg.op = op /\ msg.size = n
  BY <1>1 DEF SendOne, Message, WsInv, TypeOK
<1>3. PICK o \in Ends : o = Other(e) /\ o # e /\ Other(o) = e
  BY TwoEnds
<1>4. file[e] = NoFile
  BY DEF SendOne, MaySend, Idle
<1>5. PICK f : f = Frame(Len(sent) + 1, op, 1, RoleMask(e), 0, n)
  OBVIOUS
<1>6. /\ chan \in [Ends -> Seq(Items)]
      /\ chan' = [chan EXCEPT ![o] = @ \o Encode(f, n)]
  BY <1>3, <1>5 DEF SendOne, WsInv, TypeOK
<1>7. /\ Grown(sent, sent') /\ sent' \in Seq(Messages)
  BY <1>2, MessageAdded
<1>8. UNCHANGED <<header, part, got, reads, file, missed>>
  BY DEF readVars
<1>9. EndInv(e)'
  <2>1. EndInv(e)
    BY DEF WsInv
  <2>2. chan'[e] = chan[e]
    BY <1>3, <1>6
  <2>3. EndOk(e, header[e], part[e], got[e], chan[e], file[o], sent')
    BY <1>3, <1>7, <2>1, EndLater DEF EndInv
  <2>4. FileOk(e, file[e], sent')
    BY <1>7, <2>1, FileGrown DEF EndInv, WsInv, TypeOK
  <2> QED
    BY <1>3, <1>8, <2>1, <2>2, <2>3, <2>4 DEF EndInv
<1>10. EndInv(o)'
  <2>1. EndInv(o)
    BY DEF WsInv
  <2>2. chan'[o] = chan[o] \o Encode(f, n)
    BY <1>6
  <2>3. EndOk(o, header[o], part[o], got[o], chan'[o], NoFile, sent')
    <3>1. EndOk(Other(e), header[o], part[o], got[o], chan[o], NoFile, sent)
      BY <1>3, <1>4, <2>1 DEF EndInv
    <3>2. n \in Nat /\ n >= msg.size
      BY <1>2, Two
    <3>3. Posted(e, chan[o], chan'[o], sent, sent', msg)
      BY <1>2, <1>5, <2>2, <3>2 DEF Posted
    <3> QED
      BY <1>3, <3>1, <3>3, NewMessage
  <2>4. FileOk(o, file[o], sent')
    BY <1>7, <2>1, FileGrown DEF EndInv, WsInv, TypeOK
  <2> QED
    BY <1>3, <1>4, <1>8, <2>1, <2>3, <2>4 DEF EndInv
<1>11. TypeOK'
  <2>1. chan' \in [Ends -> Seq(Items)]
    <3>1. chan'[o] \in Seq(Items)
      BY <1>10 DEF EndInv, EndOk
    <3> QED
      BY <1>6, <3>1
  <2> QED
    BY <1>7, <1>8, <2>1 DEF WsInv, TypeOK
<1>12. \A x \in Ends : x = e \/ x = o
  BY <1>3, TwoEnds DEF Ends
<1> QED
  BY <1>7, <1>9, <1>10, <1>11, <1>12 DEF WsInv

\* A file is opened: its message is there, and no frame of it yet.
LEMMA OpenFileKeeps ==
    ASSUME WsAssumption, WsInv, NEW e \in Ends, OpenFile(e)
    PROVE  WsInv' /\ Grown(sent, sent')
<1>1. PICK size \in FileSizes :
        /\ sent' = Append(sent, Message(e, Bin, size, 0, FALSE))
        /\ file' = [file EXCEPT ![e] = [m |-> Len(sent) + 1, at |-> 0, size |-> size]]
  BY DEF OpenFile
<1>2. UNCHANGED <<chan, header, reads, part, got, missed>> /\ file[e] = NoFile
  BY DEF OpenFile, readVars, MaySend, Idle
<1>3. size \in 0 .. MaxLength
  BY DEF WsAssumption
<1>4. PICK msg \in Messages : msg = Message(e, Bin, size, 0, FALSE)
  <2>1. Bin \in Opcodes
    BY DEF Opcodes
  <2> QED
    BY <1>3, <2>1 DEF Message, Messages
<1>5. /\ sent \in Seq(Messages) /\ sent' = Append(sent, msg)
      /\ msg.from = e /\ msg.size = size
  BY <1>1, <1>4 DEF Message, WsInv, TypeOK
<1>6. /\ Grown(sent, sent') /\ sent' \in Seq(Messages)
      /\ Len(sent) \in Nat /\ Len(sent') = Len(sent) + 1
      /\ sent'[Len(sent) + 1] = msg
  BY <1>5, MessageAdded
<1>7. PICK fl \in Files : fl = [m |-> Len(sent) + 1, at |-> 0, size |-> size]
  <2>1. PICK m \in Nat \ {0} : m = Len(sent) + 1
    BY <1>6
  <2>2. [m |-> m, at |-> 0, size |-> size] \in Files
    BY <1>3 DEF Files
  <2> QED
    BY <2>1, <2>2
<1>8. PICK o \in Ends : o = Other(e) /\ o # e /\ Other(o) = e
  BY TwoEnds
<1>9. /\ file \in [Ends -> Files \cup {NoFile}]
      /\ file' = [file EXCEPT ![e] = fl]
  BY <1>1, <1>7 DEF WsInv, TypeOK
<1>10. file'[e] = fl /\ file'[o] = file[o] /\ file' \in [Ends -> Files \cup {NoFile}]
  BY <1>8, <1>9
<1>11. EndInv(e)'
  <2>1. EndInv(e)
    BY DEF WsInv
  <2>2. EndOk(e, header[e], part[e], got[e], chan[e], file[o], sent')
    BY <1>6, <1>8, <2>1, EndLater DEF EndInv
  <2>3. FileOk(e, fl, sent')
    BY <1>3, <1>5, <1>6, <1>7 DEF FileOk
  <2> QED
    BY <1>2, <1>8, <1>10, <2>1, <2>2, <2>3 DEF EndInv
<1>12. EndInv(o)'
  <2>1. EndInv(o)
    BY DEF WsInv
  <2>2. ASSUME NEW m \in 0 .. Len(sent), NEW at \in Nat, NEW fin \in {0, 1},
               Stops(m, at, fin, NoFile)
        PROVE  Stops(m, at, fin, fl)
    <3>1. fin = 1 /\ fl.m > m /\ fl.at = 0
      BY <1>6, <1>7, <2>2 DEF Stops
    <3> QED
      BY <3>1 DEF Stops
  <2>3. EndOk(o, header[o], part[o], got[o], chan[o], fl, sent')
    <3>1. EndOk(o, header[o], part[o], got[o], chan[o], NoFile, sent)
      BY <1>2, <1>8, <2>1 DEF EndInv
    <3> QED
      BY <1>6, <2>2, <3>1, EndLater
  <2>4. FileOk(o, file[o], sent')
    BY <1>6, <1>9, <2>1, FileGrown DEF EndInv
  <2> QED
    BY <1>2, <1>8, <1>10, <2>1, <2>3, <2>4 DEF EndInv
<1>13. TypeOK'
  BY <1>2, <1>6, <1>10 DEF WsInv, TypeOK
<1>14. \A x \in Ends : x = e \/ x = o
  BY <1>8, TwoEnds DEF Ends
<1> QED
  BY <1>6, <1>11, <1>12, <1>13, <1>14 DEF WsInv

\* A fragment of a file follows the one before, and the file is further on.
LEMMA SendFragmentKeeps ==
    ASSUME WsAssumption, WsInv, NEW e \in Ends, SendFragment(e)
    PROVE  WsInv' /\ sent' = sent /\ got' = got
<1>1. PICK fl \in Files : fl = file[e] /\ fl # NoFile
  BY DEF SendFragment, Idle, WsInv, TypeOK
<1>2. PICK n, fin, op, f :
        /\ n = Smaller(Chunk, fl.size - fl.at)
        /\ fin = (IF AtEnd(n) THEN 1 ELSE 0)
        /\ op = (IF fl.at = 0 THEN Bin ELSE Cont)
        /\ f = Frame(fl.m, op, fin, RoleMask(e), fl.at, n)
  OBVIOUS
<1>3. PICK o \in Ends : o = Other(e) /\ o # e /\ Other(o) = e
  BY TwoEnds
<1>4. /\ chan' = [chan EXCEPT ![o] = @ \o Encode(f, n)]
      /\ file' = [file EXCEPT ![e] = IF fin = 1 THEN NoFile ELSE [fl EXCEPT !.at = @ + n]]
      /\ UNCHANGED <<sent, header, reads, part, got, missed>>
  BY <1>1, <1>2, <1>3 DEF SendFragment, readVars
<1>5. /\ EndInv(e) /\ EndInv(o) /\ TypeOK
      /\ chan \in [Ends -> Seq(Items)] /\ file \in [Ends -> Files \cup {NoFile}]
      /\ sent \in Seq(Messages) /\ Len(sent) \in Nat
  BY DEF WsInv, TypeOK
<1>6. /\ fl.m \in 1 .. Len(sent) /\ sent[fl.m].from = e /\ sent[fl.m].size = fl.size
      /\ fl.at \in Nat /\ fl.size \in 0 .. MaxLength /\ fl.size \in Nat /\ fl.at <= fl.size
  BY <1>1, <1>5, Two DEF EndInv, FileOk, Files
<1>7. /\ n \in 0 .. MaxLength /\ n \in Nat /\ fin \in {0, 1} /\ fl.at + n <= fl.size
      /\ fin = 1 => fl.at + n = fl.size
      /\ fin = 0 => n > 0
  <2>1. Chunk \in Nat /\ Chunk > 0 /\ MaxLength \in Nat
    BY Two DEF WsAssumption
  <2>2. n = (IF Chunk < fl.size - fl.at THEN Chunk ELSE fl.size - fl.at)
    BY <1>2 DEF Smaller
  <2>3. fin = (IF n < Chunk THEN 1 ELSE 0)
    BY <1>2 DEF AtEnd
  <2> QED
    BY <1>6, <2>1, <2>2, <2>3
<1>8. /\ f.m = fl.m /\ f.op = op /\ f.fin = fin /\ f.mask = RoleMask(e)
      /\ f.at = fl.at /\ f.n = n /\ op \in {Bin, Cont}
  BY <1>2 DEF Frame
<1>9. f \in Frames
  <2>1. RoleMask(e) \in {0, 1} /\ op \in Opcodes
    BY <1>8, TwoEnds DEF Opcodes
  <2> QED
    BY <1>2, <1>6, <1>7, <2>1 DEF Frame, Frames
<1>10. PICK fl2 \in Files \cup {NoFile} :
        /\ file' = [file EXCEPT ![e] = fl2]
        /\ Stops(f.m, f.at + f.n, f.fin, fl2)
        /\ FileOk(e, fl2, sent)
  <2>1. CASE fin = 1
    <3>1. Stops(f.m, f.at + f.n, f.fin, NoFile)
      BY <1>8, <2>1 DEF Stops
    <3>2. FileOk(e, NoFile, sent)
      BY DEF FileOk
    <3> QED
      BY <1>4, <2>1, <3>1, <3>2
  <2>2. CASE fin = 0
    <3>1. PICK at \in Nat : at = fl.at + n /\ at > 0
      BY <1>6, <1>7, <2>2
    <3>2. PICK x \in Files : x = [fl EXCEPT !.at = at]
      BY <1>1 DEF Files
    <3>3. x.m = fl.m /\ x.at = at /\ x.size = fl.size /\ x # NoFile
      BY <1>6, <3>2 DEF Files, NoFile
    <3>4. file' = [file EXCEPT ![e] = x]
      BY <1>4, <2>2, <3>1, <3>2
    <3>5. Stops(f.m, f.at + f.n, f.fin, x)
      BY <1>8, <2>2, <3>1, <3>3 DEF Stops
    <3>6. FileOk(e, x, sent)
      BY <1>6, <1>7, <3>1, <3>3 DEF FileOk
    <3> QED
      BY <3>4, <3>5, <3>6
  <2> QED
    BY <1>7, <2>1, <2>2
<1>11. Grown(sent, sent)
  BY <1>5 DEF Grown
<1>12. file'[e] = fl2 /\ file'[o] = file[o] /\ file' \in [Ends -> Files \cup {NoFile}]
  BY <1>3, <1>5, <1>10
<1>13. EndInv(e)'
  <2>1. chan'[e] = chan[e]
    BY <1>3, <1>4, <1>5
  <2> QED
    BY <1>3, <1>4, <1>5, <1>10, <1>12, <2>1 DEF EndInv
<1>14. EndInv(o)'
  <2>1. Fits(f, fl, sent)
    <3> SUFFICES ASSUME NEW m \in 0 .. Len(sent), NEW at \in Nat, NEW x \in {0, 1},
                        Stops(m, at, x, fl)
                 PROVE  Goes(m, at, x, f)
      BY DEF Fits
    <3>1. CASE x = 0
      <4>1. fl.m = m /\ fl.at = at /\ at > 0
        BY <3>1 DEF Stops
      <4>2. f.m = m /\ f.at = at /\ f.op = Cont
        BY <1>2, <1>8, <4>1
      <4> QED
        BY <3>1, <4>2 DEF Goes
    <3>2. CASE x = 1
      <4>1. fl.m > m /\ fl.at = 0
        BY <1>1, <3>2 DEF Stops
      <4>2. f.m > m /\ f.at = 0 /\ f.op = Bin /\ Bin # Cont
        BY <1>2, <1>8, <4>1 DEF Bin, Cont
      <4> QED
        BY <3>2, <4>2 DEF Goes
    <3> QED
      BY <3>1, <3>2
  <2>2. FrameOk(o, f, sent)
    BY <1>3, <1>6, <1>7, <1>8 DEF FrameOk
  <2>3. chan'[o] = chan[o] \o Encode(f, n)
    BY <1>4, <1>5
  <2>4. Comes(o, chan[o], chan'[o], f, fl, fl2, sent, sent)
    <3>1. n \in Nat /\ n >= f.n
      BY <1>7, <1>8
    <3> QED
      BY <1>9, <1>10, <1>11, <2>1, <2>2, <2>3, <3>1 DEF Comes
  <2>5. EndOk(o, header[o], part[o], got[o], chan[o], fl, sent)
    BY <1>1, <1>3, <1>5 DEF EndInv
  <2>6. EndOk(o, header[o], part[o], got[o], chan'[o], fl2, sent)
    BY <2>4, <2>5, EndExtended
  <2> QED
    BY <1>3, <1>4, <1>5, <1>12, <2>6 DEF EndInv
<1>15. TypeOK'
  <2>1. chan'[o] \in Seq(Items)
    BY <1>14 DEF EndInv, EndOk
  <2>2. chan' \in [Ends -> Seq(Items)]
    BY <1>4, <1>5, <2>1
  <2> QED
    BY <1>4, <1>5, <1>12, <2>2 DEF TypeOK
<1>16. \A x \in Ends : x = e \/ x = o
  BY <1>3, TwoEnds DEF Ends
<1> QED
  BY <1>4, <1>13, <1>14, <1>15, <1>16 DEF WsInv

-----------------------------------------------------------------------------
(***************************************************************************)
(* Reading keeps the invariant.                                            *)
(***************************************************************************)
\* The last message that was put together, if any.
LEMMA LastGotType ==
    ASSUME NEW g \in Seq(Parts)
    PROVE  LastGot(g) \in Nat
<1>1. CASE g = <<>>
  BY <1>1 DEF LastGot
<1>2. CASE g # <<>>
  <2>1. Len(g) \in 1 .. Len(g)
    BY <1>2, EmptySeq
  <2>2. g[Len(g)] \in Parts
    BY <2>1, ElementOfSeq
  <2> QED
    BY <1>2, <2>2 DEF LastGot, Parts
<1> QED
  BY <1>1, <1>2

\* Headers, parts and files are told from none.
LEMMA None ==
    /\ \A h \in Headers : h # NoHeader
    /\ \A p \in Parts : p # NoPart
    /\ \A fl \in Files : fl # NoFile
<1>1. ASSUME NEW h \in Headers PROVE h # NoHeader
  <2>1. h.plen \in Nat
    BY DEF Headers
  <2>2. NoHeader.plen = -1
    BY DEF NoHeader
  <2> QED
    BY <2>1, <2>2
<1>2. ASSUME NEW p \in Parts PROVE p # NoPart
  <2>1. p.m \in Nat \ {0} /\ NoPart.m = 0
    BY DEF Parts, NoPart
  <2> QED
    BY <2>1
<1>3. ASSUME NEW fl \in Files PROVE fl # NoFile
  <2>1. fl.m \in Nat \ {0} /\ NoFile.m = 0
    BY DEF Files, NoFile
  <2> QED
    BY <2>1
<1> QED
  BY <1>1, <1>2, <1>3

\* The end between two frames reads a header.
LEMMA HeaderRead ==
    ASSUME NEW e, NEW p, NEW g, NEW c, NEW fl, NEW s, NEW c2,
           EndOk(e, NoHeader, p, g, c, fl, s), c # <<>>,
           c2 = SubSeq(c, HeaderSize(c) + 1, Len(c))
    PROVE  /\ Decodable(c) /\ Decode(c) \in Headers
           /\ EndOk(e, Decode(c), p, g, c2, fl, s)
<1>1. /\ c \in Seq(Items) /\ Len(c) \in Nat /\ Len(c) >= 1
      /\ p \in Parts \cup {NoPart} /\ g \in Seq(Parts)
      /\ ChannelOk(e, c, fl, s) /\ ReaderOk(e, NoHeader, p, g, c, fl, s)
  BY EmptySeq DEF EndOk
<1>2. PICK m \in Nat, at \in Nat, fin \in {0, 1} :
        /\ NextIs(c, 1, fl, m, at, fin)
        /\ p = NoPart => m = LastGot(g) /\ at = 0 /\ fin = 1
        /\ p # NoPart => m = p.m /\ at = p.n /\ fin = 0
  <2>1. CASE p = NoPart
    <3>1. NextIs(c, 1, fl, LastGot(g), 0, 1)
      BY <1>1, <2>1 DEF ReaderOk
    <3>2. LastGot(g) \in Nat /\ 0 \in Nat /\ 1 \in {0, 1}
      BY <1>1, LastGotType
    <3> QED
      BY <2>1, <3>1, <3>2, Zenon
  <2>2. CASE p # NoPart
    <3>1. NextIs(c, 1, fl, p.m, p.n, 0)
      BY <1>1, <2>2 DEF ReaderOk
    <3>2. p.m \in Nat /\ p.n \in Nat /\ 0 \in {0, 1}
      BY <1>1, <2>2 DEF Parts
    <3> QED
      BY <2>2, <3>1, <3>2, Zenon
  <2> QED
    BY <2>1, <2>2
<1>3. c[1].kind = "first" /\ Goes(m, at, fin, c[1].frame)
  BY <1>1, <1>2 DEF NextIs
<1>4. PICK f \in Frames :
        /\ f = c[1].frame /\ FrameOk(e, f, s) /\ HeaderAt(c, 1, f)
        /\ SubSeq(c, HeaderLength(f) + 1, Len(c)) \in Seq(Items)
        /\ ChannelOk(e, SubSeq(c, HeaderLength(f) + 1, Len(c)), fl, s)
        /\ Inside(SubSeq(c, HeaderLength(f) + 1, Len(c)), f, f.n, fl, s)
  BY <1>1, <1>3, HeaderTaken
<1>5. /\ Decodable(c) /\ HeaderSize(c) = HeaderLength(f)
      /\ Decode(c) = [fin |-> f.fin, opcode |-> f.op, mask |-> f.mask,
                      plen |-> f.n, frame |-> f, shorts |-> 0]
  BY <1>1, <1>4, DecodeRight
<1>6. c2 \in Seq(Items) /\ ChannelOk(e, c2, fl, s) /\ Inside(c2, f, f.n, fl, s)
  BY <1>4, <1>5
<1>7. PICK h : h = Decode(c)
  OBVIOUS
<1>8. h \in Headers /\ h # NoHeader
  <2>1. f.fin \in {0, 1} /\ f.op \in Opcodes /\ f.mask \in {0, 1} /\ f.n \in Nat
    BY Two DEF Frames
  <2>2. h \in Headers
    BY <1>5, <1>7, <2>1 DEF Headers
  <2> QED
    BY <2>2, None
<1>9. /\ h.frame = f /\ h.fin = f.fin /\ h.opcode = f.op /\ h.mask = f.mask
      /\ h.plen = f.n
  BY <1>5, <1>7
<1>10. Goes(m, at, fin, f) /\ f.n \in Nat /\ f.at \in Nat
  BY <1>3, <1>4, Two DEF Frames
<1>11. ReaderOk(e, h, p, g, c2, fl, s)
  <2>1. /\ LastGot(g) <= Len(s)
        /\ p # NoPart =>
               /\ p.m > LastGot(g) /\ p.m <= Len(s)
               /\ WholeKeyPieces => p.whole \/ p.slip \/ s[p.m].cut
    BY <1>1, Zenon DEF ReaderOk
  <2>2. f.m > LastGot(g)
    <3>1. CASE p = NoPart
      BY <1>2, <1>10, <3>1 DEF Goes
    <3>2. CASE p # NoPart
      BY <1>2, <1>10, <2>1, <3>2 DEF Goes
    <3> QED
      BY <3>1, <3>2
  <2>3. p = NoPart => h.opcode # Cont /\ f.at = 0 /\ h.plen = f.n
    BY <1>2, <1>9, <1>10 DEF Goes
  <2>4. p # NoPart => /\ p.m = f.m /\ p.n = f.at + f.n - h.plen
                      /\ AtKey(f, h.plen) /\ h.opcode = Cont
    <3> HAVE p # NoPart
    <3>1. f.m = p.m /\ f.at = p.n /\ f.op = Cont
      BY <1>2, <1>10 DEF Goes
    <3>2. f.at = f.at + f.n - h.plen /\ f.n - h.plen = 0 /\ 0 % 4 = 0
      BY <1>9, <1>10
    <3> QED
      BY <1>9, <3>1, <3>2 DEF AtKey
  <2>5. h.opcode = Ping => p = NoPart
    BY <2>4 DEF Ping, Cont
  <2>6. h.plen <= f.n /\ Inside(c2, f, h.plen, fl, s)
    BY <1>6, <1>9, <1>10
  <2> QED
    BY <1>4, <1>8, <1>9, <2>1, <2>2, <2>3, <2>4, <2>5, <2>6 DEF ReaderOk
<1> QED
  BY <1>1, <1>5, <1>6, <1>7, <1>8, <1>11 DEF EndOk

\* h2 is the header h after k bytes.
Onward(h, h2, k) ==
    /\ h2 \in Headers /\ h2.frame = h.frame /\ h2.fin = h.fin
    /\ h2.opcode = h.opcode /\ h2.mask = h.mask /\ h2.plen = h.plen - k

\* antd_recv gives no more than was asked.
LEMMA ReceivedRight ==
    ASSUME WsAssumption, NEW h, NEW n \in Nat, NEW k \in Received(h, n)
    PROVE  k \in Nat /\ k <= n
<1>1. CASE k = n
  BY <1>1
<1>2. CASE k # n
  <2>1. k \in Shorts /\ k < n
    BY <1>2 DEF Received
  <2> QED
    BY <2>1 DEF WsAssumption
<1> QED
  BY <1>1, <1>2

\* The header as it is kept is one of that frame, with less to come.
LEMMA AfterOnward ==
    ASSUME NEW h \in Headers, NEW n \in Nat, NEW k \in Nat, k <= h.plen
    PROVE  Onward(h, After(h, n, k), k)
<1>1. PICK left \in Nat : left = h.plen - k
  BY DEF Headers
<1>2. PICK x \in Nat : x = (IF k < n THEN h.shorts + 1 ELSE h.shorts)
  BY DEF Headers
<1>3. After(h, n, k) = [h EXCEPT !.plen = left, !.shorts = x]
  BY <1>1, <1>2 DEF After, Left
<1>4. PICK h2 : h2 = [h EXCEPT !.plen = left, !.shorts = x]
  OBVIOUS
<1>5. h2 = [fin |-> h.fin, opcode |-> h.opcode, mask |-> h.mask, plen |-> left,
            frame |-> h.frame, shorts |-> x]
  BY <1>4 DEF Headers
<1>6. h2 \in Headers
  BY <1>5 DEF Headers
<1> QED
  BY <1>1, <1>3, <1>4, <1>5, <1>6 DEF Onward

\* Part of a ping is read, or nothing.
LEMMA PingRead ==
    ASSUME NEW e, NEW h \in Headers, NEW h2, NEW p, NEW g, NEW c, NEW c2, NEW fl, NEW s,
           NEW k \in Nat, k <= h.plen, h.opcode = Ping \/ k = 0,
           Onward(h, h2, k), c2 = Drop(c, k),
           EndOk(e, h, p, g, c, fl, s)
    PROVE  EndOk(e, h2, p, g, c2, fl, s)
<1>0. h # NoHeader /\ h2 # NoHeader /\ h2 \in Headers
  BY None DEF Onward
<1>1. CASE k = 0
  <2>1. /\ h2.plen = h.plen /\ h2.frame = h.frame /\ h2.fin = h.fin
        /\ h2.opcode = h.opcode /\ h2.mask = h.mask
    BY <1>1 DEF Onward, Headers
  <2>2. c2 = c
    BY <1>1 DEF Drop
  <2>3. ReaderOk(e, h2, p, g, c, fl, s)
    <3>1. ReaderOk(e, h, p, g, c, fl, s)
      BY DEF EndOk
    <3> QED
      BY <1>0, <2>1, <3>1, Zenon DEF ReaderOk
  <2> QED
    BY <1>0, <2>2, <2>3 DEF EndOk
<1>2. CASE k # 0
  <2>1. PICK left \in Nat : left = h.plen - k
    BY DEF Headers
  <2>3. /\ h2.frame = h.frame /\ h2.fin = h.fin
        /\ h2.opcode = h.opcode /\ h2.mask = h.mask /\ h2.plen = left
    BY <2>1 DEF Onward
  <2>4. PICK f \in Frames : f = h.frame
    BY DEF Headers
  <2>5. /\ ReaderOk(e, h, p, g, c, fl, s) /\ c \in Seq(Items) /\ ChannelOk(e, c, fl, s)
        /\ h # NoHeader /\ h.opcode = Ping
    BY <1>2, None DEF EndOk
  <2>6. /\ FrameOk(e, f, s) /\ f.m > LastGot(g)
        /\ h.fin = f.fin /\ h.opcode = f.op /\ h.mask = f.mask /\ h.plen <= f.n
        /\ Inside(c, f, h.plen, fl, s) /\ p = NoPart /\ LastGot(g) <= Len(s)
    BY <2>4, <2>5 DEF ReaderOk
  <2>7. PICK pl \in Nat : pl = h.plen /\ k \in 0 .. pl /\ left = pl - k /\ pl <= f.n
                          /\ Inside(c, f, pl, fl, s)
    BY <2>1, <2>6 DEF Headers
  <2>8. c2 \in Seq(Items) /\ ChannelOk(e, c2, fl, s) /\ Inside(c2, f, left, fl, s)
    BY <2>5, <2>7, DropRight
  <2>9. left <= f.n
    BY <2>1, <2>7, Two DEF Frames
  <2>10. ReaderOk(e, h2, p, g, c2, fl, s)
    BY <1>0, <2>3, <2>4, <2>5, <2>6, <2>8, <2>9 DEF ReaderOk
  <2> QED
    BY <1>0, <2>8, <2>10 DEF EndOk
<1> QED
  BY <1>1, <1>2

\* An answer to a frame whose header was read.
LEMMA AnswerKeeps ==
    ASSUME WsInv, NEW e \in Ends, NEW h \in Headers, NEW c,
           NEW op \in {CloseOp, Pong}, NEW n \in 0 .. MaxLength, NEW good \in Nat,
           NEW k \in Nat, k <= h.plen, h.opcode = Ping \/ k = 0,
           NEW h2, Onward(h, h2, k), header' = [header EXCEPT ![e] = h2],
           Idle(e), EndOk(e, h, part[e], got[e], c, file[Other(e)], sent),
           Answer(e, h, op, n, good, k, c), UNCHANGED <<reads, part, got, file, missed>>
    PROVE  WsInv' /\ Grown(sent, sent')
<1>1. PICK o \in Ends : o = Other(e) /\ o # e /\ Other(o) = e
  BY TwoEnds
<1>2. PICK f : f = h.frame /\ f \in Frames /\ FrameOk(e, f, sent) /\ h.mask = f.mask
  <2>1. ReaderOk(e, h, part[e], got[e], c, file[Other(e)], sent) /\ h # NoHeader
    BY None DEF EndOk
  <2> QED
    BY <2>1 DEF ReaderOk, Headers
<1>3. PICK msg \in Messages : msg = Message(e, op, n, f.m, good < n)
  <2>1. op \in Opcodes /\ f.m \in Nat
    BY <1>2 DEF Opcodes, Frames
  <2>2. (good < n) \in BOOLEAN
    OBVIOUS
  <2>3. PICK cut \in BOOLEAN : cut = (good < n)
    BY <2>2
  <2>4. Message(e, op, n, f.m, cut) \in Messages
    BY <2>1 DEF Message, Messages
  <2> QED
    BY <2>3, <2>4
<1>4. /\ sent \in Seq(Messages) /\ sent' = Append(sent, msg)
      /\ msg.from = e /\ msg.op = op /\ msg.size = n /\ msg.cut = (good < n)
  BY <1>2, <1>3 DEF Answer, Message, WsInv, TypeOK
<1>5. AnswerMask(h) = RoleMask(e)
  <2>1. h.mask = RoleMask(Other(e))
    BY <1>2 DEF FrameOk
  <2> QED
    BY <2>1, TwoEnds DEF AnswerMask
<1>6. PICK new : new = Frame(Len(sent) + 1, op, 1, RoleMask(e), 0, n)
  OBVIOUS
<1>7. PICK c2 : c2 = Drop(c, k)
  OBVIOUS
<1>9. /\ chan \in [Ends -> Seq(Items)] /\ header \in [Ends -> Headers \cup {NoHeader}]
      /\ chan' = [chan EXCEPT ![e] = c2, ![o] = @ \o Encode(new, good)]
      /\ header' = [header EXCEPT ![e] = h2]
  BY <1>1, <1>5, <1>6, <1>7 DEF Answer, WsInv, TypeOK
<1>10. /\ chan'[e] = c2 /\ chan'[o] = chan[o] \o Encode(new, good)
       /\ header'[e] = h2 /\ header'[o] = header[o]
  BY <1>1, <1>9
<1>11. Grown(sent, sent') /\ sent' \in Seq(Messages)
  BY <1>4, MessageAdded
<1>12. EndInv(e) /\ EndInv(o) /\ file[e] = NoFile /\ file[e] \in Files \cup {NoFile}
       /\ file[o] \in Files \cup {NoFile}
  BY DEF WsInv, Idle, TypeOK
<1>13. EndInv(e)'
  <2>1. EndOk(e, h, part[e], got[e], c, file[o], sent)
    BY <1>1
  <2>2. EndOk(e, h2, part[e], got[e], c2, file[o], sent)
    BY <1>7, <2>1, PingRead
  <2>3. EndOk(e, h2, part[e], got[e], c2, file[o], sent')
    BY <1>11, <2>2, EndLater
  <2>4. FileOk(e, file[e], sent')
    BY <1>11, <1>12, FileGrown DEF EndInv
  <2> QED
    BY <1>1, <1>10, <1>12, <2>3, <2>4 DEF EndInv
<1>14. EndInv(o)'
  <2>1. EndOk(Other(e), header[o], part[o], got[o], chan[o], NoFile, sent)
    BY <1>1, <1>12 DEF EndInv
  <2>2. good >= msg.size \/ msg.cut
    <3>1. good >= n \/ good < n
      BY Two
    <3> QED
      BY <1>4, <3>1, Zenon
  <2>3. msg.op # Cont
    BY <1>4 DEF CloseOp, Pong, Cont
  <2>4. Posted(e, chan[o], chan'[o], sent, sent', msg)
    BY <1>4, <1>6, <1>10, <2>2, <2>3 DEF Posted
  <2>5. EndOk(o, header[o], part[o], got[o], chan'[o], NoFile, sent')
    BY <1>1, <2>1, <2>4, NewMessage
  <2>6. FileOk(o, file[o], sent')
    BY <1>11, <1>12, FileGrown DEF EndInv
  <2> QED
    BY <1>1, <1>10, <1>12, <2>5, <2>6 DEF EndInv
<1>15. TypeOK'
  <2>1. chan'[o] \in Seq(Items) /\ c2 \in Seq(Items) /\ h2 \in Headers \cup {NoHeader}
    BY <1>10, <1>13, <1>14 DEF EndInv, EndOk
  <2>2. chan' \in [Ends -> Seq(Items)]
    <3>1. chan' = [chan EXCEPT ![e] = c2, ![o] = chan'[o]]
      BY <1>1, <1>9, <1>10
    <3> QED
      BY <1>9, <2>1, <3>1
  <2>3. header' \in [Ends -> Headers \cup {NoHeader}]
    BY <1>9, <2>1
  <2> QED
    BY <1>11, <2>2, <2>3 DEF WsInv, TypeOK
<1>16. \A x \in Ends : x = e \/ x = o
  BY <1>1, TwoEnds DEF Ends
<1> QED
  BY <1>11, <1>13, <1>14, <1>15, <1>16 DEF WsInv

\* One end goes on with what it reads; nothing is sent.
LEMMA ReaderKeeps ==
    ASSUME WsInv, NEW e \in Ends, NEW h, NEW p, NEW g, NEW c, NEW r,
           EndOk(e, h, p, g, c, file[Other(e)], sent),
           chan' = [chan EXCEPT ![e] = c], header' = [header EXCEPT ![e] = h],
           part' = [part EXCEPT ![e] = p], got' = [got EXCEPT ![e] = g],
           reads' = [reads EXCEPT ![e] = r], r \in {"yes", "closed", "silent"},
           UNCHANGED <<sent, file>>, missed' \subseteq Nat
    PROVE  WsInv'
<1>1. PICK o \in Ends : o = Other(e) /\ o # e /\ Other(o) = e
  BY TwoEnds
<1>2. /\ TypeOK /\ EndInv(e) /\ EndInv(o)
      /\ h \in Headers \cup {NoHeader} /\ p \in Parts \cup {NoPart} /\ g \in Seq(Parts)
      /\ c \in Seq(Items)
  BY DEF WsInv, EndOk
<1>3. /\ chan'[e] = c /\ header'[e] = h /\ part'[e] = p /\ got'[e] = g /\ reads'[e] = r
      /\ chan'[o] = chan[o] /\ header'[o] = header[o] /\ part'[o] = part[o]
      /\ got'[o] = got[o] /\ reads'[o] = reads[o]
  BY <1>1, <1>2 DEF TypeOK
<1>4. TypeOK'
  BY <1>2 DEF TypeOK
<1>5. EndInv(e)'
  BY <1>1, <1>2, <1>3 DEF EndInv
<1>6. EndInv(o)'
  BY <1>1, <1>2, <1>3 DEF EndInv
<1>7. \A x \in Ends : x = e \/ x = o
  BY <1>1, TwoEnds DEF Ends
<1> QED
  BY <1>4, <1>5, <1>6, <1>7 DEF WsInv

\* A header is read, and answered when it is that of a close or a ping.
LEMMA ReadHeaderKeeps ==
    ASSUME WsAssumption, WsInv, NEW e \in Ends, ReadHeader(e)
    PROVE  WsInv' /\ got' = got /\ Grown(sent, sent')
<1>1. /\ Idle(e) /\ reads[e] = "yes" /\ header[e] = NoHeader /\ Decodable(chan[e])
      /\ UNCHANGED <<reads, part, got, file>>
      /\ file[e] = NoFile
  BY DEF ReadHeader, Idle
<1>2. PICK h, c :
        /\ h = Decode(chan[e])
        /\ c = SubSeq(chan[e], HeaderSize(chan[e]) + 1, Len(chan[e]))
  OBVIOUS
<1>3. EndInv(e) /\ TypeOK /\ sent \in Seq(Messages)
  BY DEF WsInv, TypeOK
<1>4. h \in Headers /\ EndOk(e, h, part[e], got[e], c, file[Other(e)], sent)
  <2>1. EndOk(e, NoHeader, part[e], got[e], chan[e], file[Other(e)], sent)
    BY <1>1, <1>3 DEF EndInv
  <2>2. chan[e] # <<>>
    BY <1>1 DEF Decodable
  <2> QED
    BY <1>2, <2>1, <2>2, HeaderRead
<1>5. h.plen \in Nat /\ h.plen \in 0 .. MaxLength
  <2>1. ReaderOk(e, h, part[e], got[e], c, file[Other(e)], sent) /\ h # NoHeader
    BY <1>4, None DEF EndOk
  <2>2. PICK f \in Frames : f = h.frame /\ h.plen <= f.n
    BY <1>4, <2>1 DEF ReaderOk, Headers
  <2>3. f.n \in 0 .. MaxLength /\ h.plen \in Nat
    BY <1>4 DEF Frames, Headers
  <2> QED
    BY <2>2, <2>3, Two
<1>k. h.frame.m \in Nat
  BY <1>4 DEF Headers, Frames
<1>6. CASE h.opcode = CloseOp
  <2>1. /\ Answer(e, h, CloseOp, 2, 2, 0, c) /\ header' = [header EXCEPT ![e] = h]
        /\ missed' = missed
    BY <1>2, <1>6 DEF ReadHeader, Ping, CloseOp
  <2>2. PICK op \in {CloseOp, Pong}, n \in 0 .. MaxLength, good \in Nat, k \in Nat :
          op = CloseOp /\ n = 2 /\ good = 2 /\ k = 0
    BY Two
  <2>3. k <= h.plen
    BY <1>5, <2>2
  <2>4. Onward(h, h, k)
    BY <1>4, <1>5, <2>2 DEF Onward
  <2> QED
    BY <1>1, <1>4, <2>1, <2>2, <2>3, <2>4, AnswerKeeps
<1>7. CASE h.opcode = Ping
  <2>0. PongSent(e, h, c) \/ PongMissed(e, h, c)
    BY <1>2, <1>7 DEF ReadHeader, Ping, CloseOp
  <2>5. CASE PongSent(e, h, c)
    <3>1. PICK k \in Received(h, h.plen) :
            /\ Answer(e, h, Pong, PongLength(h, k), Smaller(k, PongLength(h, k)), k, c)
            /\ header' = [header EXCEPT ![e] = After(h, h.plen, k)]
            /\ missed' = missed
      BY <2>5 DEF PongSent
    <3>2. k \in Nat /\ k <= h.plen
      BY <1>5, <3>1, WsAssumption, ReceivedRight
    <3>3. PICK op \in {CloseOp, Pong}, n \in 0 .. MaxLength, good \in Nat :
            op = Pong /\ n = PongLength(h, k) /\ good = Smaller(k, n) /\ n = h.plen
      BY <1>5, <3>2 DEF PongLength, Smaller
    <3>4. PICK h2 : h2 = After(h, h.plen, k) /\ Onward(h, h2, k)
      BY <1>4, <1>5, <3>2, AfterOnward
    <3>5. /\ Answer(e, h, op, n, good, k, c) /\ header' = [header EXCEPT ![e] = h2]
          /\ UNCHANGED <<reads, part, got, file, missed>> /\ Idle(e)
          /\ h.opcode = Ping \/ k = 0
      BY <1>1, <1>7, <3>1, <3>3, <3>4
    <3>6. WsInv' /\ Grown(sent, sent')
      BY <1>4, <3>2, <3>4, <3>5, AnswerKeeps
    <3> QED
      BY <1>1, <3>6
  <2>6. CASE PongMissed(e, h, c)
    <3>1. /\ header' = [header EXCEPT ![e] = h] /\ chan' = [chan EXCEPT ![e] = c]
          /\ sent' = sent /\ missed' = missed \cup {h.frame.m}
      BY <2>6 DEF PongMissed
    <3>2. /\ part' = [part EXCEPT ![e] = part[e]] /\ got' = [got EXCEPT ![e] = got[e]]
          /\ reads' = [reads EXCEPT ![e] = "yes"] /\ file' = file /\ got' = got
          /\ missed' \subseteq Nat
      BY <1>1, <1>3, <1>k, <3>1 DEF TypeOK
    <3>3. WsInv'
      BY <1>4, <3>1, <3>2, ReaderKeeps
    <3> QED
      BY <1>3, <3>1, <3>2, <3>3 DEF Grown
  <2> QED
    BY <2>0, <2>5, <2>6
<1>8. CASE h.opcode # CloseOp /\ h.opcode # Ping
  <2>1. /\ header' = [header EXCEPT ![e] = h] /\ chan' = [chan EXCEPT ![e] = c]
        /\ sent' = sent /\ missed' = missed
    BY <1>2, <1>8 DEF ReadHeader
  <2>2. /\ part' = [part EXCEPT ![e] = part[e]] /\ got' = [got EXCEPT ![e] = got[e]]
        /\ reads' = [reads EXCEPT ![e] = "yes"] /\ file' = file /\ got' = got
        /\ missed' \subseteq Nat
    BY <1>1, <1>3, <2>1 DEF TypeOK
  <2>3. WsInv'
    BY <1>4, <2>1, <2>2, ReaderKeeps
  <2> QED
    BY <1>3, <2>1, <2>2, <2>3 DEF Grown
<1> QED
  BY <1>6, <1>7, <1>8

\* A reader gives up, and its place is as it was: what it finds is a header, if
\* anything.
LEMMA ReadNoHeaderKeeps ==
    ASSUME WsInv, NEW e \in Ends, ReadNoHeader(e) \/ ReadNoData(e)
    PROVE  WsInv' /\ UNCHANGED <<sent, got>>
<1>2. EndInv(e) /\ TypeOK
  BY DEF WsInv
<1>4. ASSUME ReadNoHeader(e), chan[e] # <<>> PROVE Decodable(chan[e])
  <2>1. PICK c2 : c2 = SubSeq(chan[e], HeaderSize(chan[e]) + 1, Len(chan[e]))
    OBVIOUS
  <2>2. header[e] = NoHeader
    BY <1>4 DEF ReadNoHeader
  <2>3. EndOk(e, NoHeader, part[e], got[e], chan[e], file[Other(e)], sent)
    BY <1>2, <2>2 DEF EndInv
  <2> QED
    BY <1>4, <2>1, <2>3, HeaderRead
<1>1. /\ reads' = [reads EXCEPT ![e] = "silent"]
      /\ UNCHANGED <<chan, header, sent, part, got, file, missed>>
  BY <1>4 DEF ReadNoHeader, ReadNoData
<1>5. /\ chan' = [chan EXCEPT ![e] = chan[e]] /\ header' = [header EXCEPT ![e] = header[e]]
      /\ part' = [part EXCEPT ![e] = part[e]] /\ got' = [got EXCEPT ![e] = got[e]]
      /\ sent' = sent /\ file' = file /\ missed' \subseteq Nat
  BY <1>1, <1>2 DEF TypeOK
<1>6. PICK r \in {"yes", "closed", "silent"} : r = "silent"
  OBVIOUS
<1>7. PICK h, c, p, g :
        /\ h = header[e] /\ c = chan[e] /\ p = part[e] /\ g = got[e]
  OBVIOUS
<1>8. /\ EndOk(e, h, p, g, c, file[Other(e)], sent)
      /\ chan' = [chan EXCEPT ![e] = c] /\ header' = [header EXCEPT ![e] = h]
      /\ part' = [part EXCEPT ![e] = p] /\ got' = [got EXCEPT ![e] = g]
      /\ reads' = [reads EXCEPT ![e] = r] /\ sent' = sent /\ file' = file
      /\ missed' \subseteq Nat
  BY <1>1, <1>2, <1>5, <1>6, <1>7 DEF EndInv
<1>9. WsInv'
  BY <1>8, ReaderKeeps
<1> QED
  BY <1>1, <1>9

\* The rest of a ping is read: a header comes next.
LEMMA PingGone ==
    ASSUME NEW e, NEW h \in Headers, NEW p, NEW g, NEW c, NEW c2,
           NEW fl \in Files \cup {NoFile}, NEW s,
           h.opcode = Ping, c2 = Drop(c, h.plen), EndOk(e, h, p, g, c, fl, s)
    PROVE  EndOk(e, NoHeader, p, g, c2, fl, s)
<1>6. PICK f \in Frames : f = h.frame
  BY DEF Headers
<1>7. /\ FrameOk(e, f, s) /\ f.m > LastGot(g) /\ f.fin = h.fin /\ f.op = Ping
      /\ h.plen <= f.n /\ Inside(c, f, h.plen, fl, s) /\ p = NoPart
      /\ LastGot(g) <= Len(s)
      /\ c \in Seq(Items) /\ ChannelOk(e, c, fl, s) /\ g \in Seq(Parts)
  BY <1>6, None DEF EndOk, ReaderOk
<1>8. PICK k \in Nat : k = h.plen
  BY DEF Headers
<1>9. c2 \in Seq(Items) /\ ChannelOk(e, c2, fl, s) /\ Inside(c2, f, 0, fl, s)
  <2>1. k \in 0 .. k /\ k - k = 0 /\ k <= f.n /\ Inside(c, f, k, fl, s)
    BY <1>7, <1>8
  <2>2. PICK left \in Nat : left = k - k /\ left = 0
    BY <2>1
  <2>3. /\ c2 \in Seq(Items) /\ ChannelOk(e, c2, fl, s)
        /\ Inside(c2, f, k - k, fl, s)
    BY <1>7, <1>8, <2>1, DropRight
  <2> QED
    BY <2>2, <2>3
<1>10. NextIs(c2, 1, fl, LastGot(g), 0, 1)
  <2>1. NextIs(c2, 1, fl, f.m, f.at + f.n, f.fin)
    BY <1>9 DEF Inside
  <2>2. f.fin = 1
    <3>1. f.fin = 0 => f.op \in {Bin, Cont}
      BY <1>7 DEF FrameOk
    <3> QED
      BY <1>7, <3>1 DEF Frames, Ping, Bin, Cont
  <2>3. PICK m, last, at : /\ m = f.m /\ last = LastGot(g) /\ at = f.at + f.n
                           /\ m \in Nat /\ last \in Nat /\ m > last
                           /\ NextIs(c2, 1, fl, m, at, 1)
    BY <1>7, <2>1, <2>2, LastGotType DEF Frames
  <2>4. CASE /\ 1 \in 1 .. Len(c2) /\ c2[1].kind = "first"
             /\ Goes(m, at, 1, c2[1].frame)
    <3>1. c2[1].frame \in Frames
      <4>1. c2[1] \in Items
        BY <1>9, <2>4
      <4> QED
        BY <2>4, <4>1 DEF Items
    <3>2. Goes(last, 0, 1, c2[1].frame)
      BY <2>3, <2>4, <3>1 DEF Goes, Frames
    <3> QED
      BY <2>3, <2>4, <3>2 DEF NextIs
  <2>5. CASE 1 = Len(c2) + 1 /\ Stops(m, at, 1, fl)
    <3>1. fl \in Files \cup {NoFile}
      OBVIOUS
    <3>2. Stops(last, 0, 1, fl)
      BY <2>3, <2>5, <3>1 DEF Stops, Files
    <3> QED
      BY <2>3, <2>5, <3>2 DEF NextIs
  <2> QED
    BY <2>3, <2>4, <2>5 DEF NextIs
<1> QED
  BY <1>7, <1>9, <1>10 DEF EndOk, ReaderOk

\* What ws_pong has left of a ping is read, or some of it.
LEMMA ReadPingRestKeeps ==
    ASSUME WsAssumption, WsInv, NEW e \in Ends, ReadPingRest(e)
    PROVE  WsInv' /\ UNCHANGED <<sent, got>>
<1>1. /\ reads[e] = "yes" /\ header[e] # NoHeader /\ header[e].opcode = Ping
      /\ UNCHANGED <<reads, sent, part, got, file, missed>>
  BY DEF ReadPingRest
<1>2. EndInv(e) /\ TypeOK
  BY DEF WsInv
<1>3. PICK h \in Headers : h = header[e]
  BY <1>1, <1>2 DEF TypeOK
<1>4. PICK plen \in Nat : plen = h.plen
  BY DEF Headers
<1>5. PICK k \in Received(h, plen) :
        /\ chan' = [chan EXCEPT ![e] = Drop(@, k)]
        /\ header' = [header EXCEPT ![e] =
                IF Left(h, k) > 0 THEN After(h, plen, k) ELSE NoHeader]
  BY <1>3, <1>4 DEF ReadPingRest
<1>6. k \in Nat /\ k <= plen
  BY WsAssumption, ReceivedRight
<1>7. PICK c, c2, p, g, fl, h2 :
        /\ c = chan[e] /\ c2 = Drop(c, k) /\ p = part[e] /\ g = got[e]
        /\ fl = file[Other(e)] /\ fl \in Files \cup {NoFile}
        /\ h2 = IF k < plen THEN After(h, plen, k) ELSE NoHeader
  BY <1>2, TwoEnds DEF TypeOK
<1>8. EndOk(e, h, p, g, c, fl, sent)
  BY <1>2, <1>3, <1>7 DEF EndInv
<1>9. EndOk(e, h2, p, g, c2, fl, sent)
  <2>1. CASE k < plen
    <3>1. Onward(h, h2, k)
      BY <1>4, <1>6, <1>7, <2>1, AfterOnward
    <3> QED
      BY <1>1, <1>3, <1>4, <1>6, <1>7, <1>8, <3>1, PingRead
  <2>2. CASE k = plen
    <3>1. h2 = NoHeader /\ c2 = Drop(c, h.plen) /\ h.opcode = Ping
      BY <1>1, <1>3, <1>4, <1>6, <1>7, <2>2
    <3> QED
      BY <1>7, <1>8, <3>1, PingGone
  <2> QED
    BY <1>6, <2>1, <2>2
<1>10. /\ chan' = [chan EXCEPT ![e] = c2]
       /\ part' = [part EXCEPT ![e] = p] /\ got' = [got EXCEPT ![e] = g]
       /\ reads' = [reads EXCEPT ![e] = "yes"] /\ sent' = sent /\ file' = file
       /\ missed' \subseteq Nat
  BY <1>1, <1>2, <1>5, <1>7 DEF TypeOK
<1>11. header' = [header EXCEPT ![e] = h2]
  <2>1. Left(h, k) > 0 <=> k < plen
    BY <1>4, <1>6 DEF Left
  <2> QED
    BY <1>5, <1>7, <2>1
<1>12. PICK r \in {"yes", "closed", "silent"} : r = "yes"
  OBVIOUS
<1>13. /\ EndOk(e, h2, p, g, c2, file[Other(e)], sent)
       /\ reads' = [reads EXCEPT ![e] = r]
  BY <1>7, <1>9, <1>10, <1>12
<1>14. WsInv'
  BY <1>10, <1>11, <1>13, ReaderKeeps
<1> QED
  BY <1>1, <1>14

\* Some of the payload of f is read, k of n bytes that were asked: what the
\* caller has then is what was sent, if it was so before, or a piece came short
\* inside the key; and what is left begins with the key, or one did.
LEMMA JoinedRight ==
    ASSUME WsInv, NEW e \in Ends, NEW h \in Headers, h = header[e], h.opcode # Ping,
           NEW asked \in Nat, NEW k \in Nat, k <= asked, k <= h.plen,
           NEW now, now = Joined(e, h, asked, k),
           NEW f \in Frames, f = h.frame
    PROVE  /\ now \in Parts /\ now.m = f.m /\ now.n = f.at + f.n - (h.plen - k)
           /\ WholeKeyPieces => now.whole \/ now.slip \/ sent[f.m].cut
           /\ WholeKeyPieces /\ (asked = h.plen \/ asked % 4 = 0) =>
                  AtKey(f, h.plen - k) \/ now.slip
<1>1. PICK p, c, g, fl :
        /\ p = part[e] /\ c = chan[e] /\ g = got[e] /\ fl = file[Other(e)]
        /\ EndOk(e, h, p, g, c, fl, sent)
  BY DEF WsInv, EndInv
<1>2. PICK n \in Nat, at \in Nat, plen \in Nat :
        n = f.n /\ at = f.at /\ plen = h.plen /\ k <= plen
  BY Two DEF Frames, Headers
<1>3. /\ FrameOk(e, f, sent) /\ h.opcode = f.op /\ plen <= n
      /\ Inside(c, f, plen, fl, sent) /\ p \in Parts \cup {NoPart}
      /\ c \in Seq(Items)
      /\ p # NoPart => (WholeKeyPieces => p.whole \/ p.slip \/ sent[p.m].cut)
      /\ p = NoPart => h.opcode # Cont /\ at = 0 /\ plen = n
      /\ p # NoPart => /\ p.m = f.m /\ p.n = at + n - plen
                       /\ WholeKeyPieces => AtKey(f, plen) \/ p.slip
  BY <1>1, <1>2, None DEF EndOk, ReaderOk
<1>4. f.m \in Nat \ {0} /\ f.mask \in {0, 1}
  BY <1>3 DEF FrameOk, Frames
<1>5. PICK old \in Parts :
        /\ old = (IF h.opcode = Cont \/ p # NoPart THEN p
                  ELSE [m |-> h.frame.m, n |-> 0, whole |-> TRUE, slip |-> FALSE])
        /\ old.m = f.m /\ old.n = at + n - plen
        /\ WholeKeyPieces => old.whole \/ old.slip \/ sent[f.m].cut
        /\ WholeKeyPieces => AtKey(f, plen) \/ old.slip
  <2>1. CASE p # NoPart
    <3>1. p \in Parts
      BY <1>3, <2>1
    <3> QED
      BY <1>3, <2>1, <3>1
  <2>2. CASE p = NoPart
    <3>1. PICK x \in Parts : x = [m |-> f.m, n |-> 0, whole |-> TRUE, slip |-> FALSE]
      <4>1. [m |-> f.m, n |-> 0, whole |-> TRUE, slip |-> FALSE] \in Parts
        BY <1>4 DEF Parts
      <4> QED
        BY <4>1
    <3>2. x.m = f.m /\ x.n = 0 /\ x.whole
      BY <3>1
    <3>3. n - plen = 0 /\ at + n - plen = 0
      BY <1>2, <1>3, <2>2
    <3>4. PICK off \in Nat : off = n - plen /\ off = 0
      BY <3>3
    <3>5. (n - plen) % 4 = 0
      BY <3>4
    <3>6. AtKey(f, plen)
      BY <1>2, <3>5 DEF AtKey
    <3> QED
      BY <1>3, <2>2, <3>1, <3>2, <3>3, <3>6
  <2> QED
    BY <2>1, <2>2
<1>6. CASE k = 0
  <2>1. now = old
    BY <1>1, <1>5, <1>6 DEF Joined
  <2>2. f.at + f.n - (h.plen - k) = at + n - plen /\ h.plen - k = plen
    BY <1>2, <1>6
  <2> QED
    BY <1>5, <2>1, <2>2
<1>7. CASE k > 0
  <2>1. PICK run : run = c[1] /\ RunAt(c, 1, f, n - plen, sent)
    <3>1. plen # 0
      BY <1>2, <1>7
    <3>2. RunAt(c, 1, f, f.n - plen, sent)
      BY <1>3, <3>1 DEF Inside
    <3> QED
      BY <1>2, <3>2
  <2>2. /\ run.m = f.m /\ run.masked = f.mask /\ run.off = n - plen
        /\ run.at = at + (n - plen) /\ run.n = n - (n - plen)
        /\ run.good >= run.n \/ sent[f.m].cut
    BY <1>2, <2>1 DEF RunAt
  <2>3. run.n = plen /\ run.at = old.n
    BY <1>2, <1>3, <1>5, <2>2
  <2>4. WholeKeyPieces => Intact(run, k) \/ old.slip \/ sent[f.m].cut
    <3> SUFFICES ASSUME WholeKeyPieces, run.good >= run.n, ~old.slip
                 PROVE  Intact(run, k)
      BY <2>2
    <3>1. run.masked = 0 \/ run.off % 4 = 0
      BY <1>2, <1>5, <1>7, <2>2 DEF AtKey
    <3>2. Smaller(k, run.n) = k \/ Smaller(k, run.n) = run.n
      BY DEF Smaller
    <3>3. run \in Items /\ run.kind = "run"
      BY <1>3, <2>1 DEF RunAt
    <3>4. run.good \in Nat
      BY <3>3 DEF Items
    <3>5. run.good >= Smaller(k, run.n)
      BY <1>2, <2>3, <3>2, <3>4
    <3> QED
      BY <3>1, <3>5 DEF Intact
  <2>5. PICK w \in BOOLEAN :
          /\ w <=> old.whole /\ Intact(run, k) /\ run.m = old.m /\ run.at = old.n
          /\ w = (old.whole /\ Intact(run, k) /\ run.m = old.m /\ run.at = old.n)
    OBVIOUS
  <2>s. PICK slip \in BOOLEAN :
          /\ slip <=> (old.slip \/ Slips(run, asked, k))
          /\ slip = (old.slip \/ Slips(run, asked, k))
    OBVIOUS
  <2>6. PICK sum \in Nat : sum = old.n + k
    BY <1>5 DEF Parts
  <2>7. now = [old EXCEPT !.n = @ + k,
                          !.whole = @ /\ Intact(run, k) /\ run.m = old.m /\ run.at = old.n,
                          !.slip = @ \/ Slips(run, asked, k)]
    <3>1. k # 0
      BY <1>7
    <3>2. /\ old = (IF h.opcode = Cont \/ part[e] # NoPart THEN part[e]
                    ELSE [m |-> h.frame.m, n |-> 0, whole |-> TRUE, slip |-> FALSE])
          /\ run = chan[e][1]
      BY <1>1, <1>5, <2>1
    <3> QED
      BY <3>1, <3>2, Zenon DEF Joined
  <2>8. now = [old EXCEPT !.n = sum, !.whole = w, !.slip = slip]
    BY <2>5, <2>6, <2>7, <2>s
  <2>9. now = [m |-> old.m, n |-> sum, whole |-> w, slip |-> slip]
    BY <2>8 DEF Parts
  <2>10. /\ now \in Parts /\ now.m = old.m /\ now.n = sum /\ now.whole = w
         /\ now.slip = slip
    BY <2>9 DEF Parts
  <2>11. sum = f.at + f.n - (h.plen - k)
    <3>1. sum = at + n - (plen - k)
      <4>1. PICK x \in Nat : x = old.n
        BY <1>5 DEF Parts
      <4>2. x = at + n - plen /\ sum = x + k
        BY <1>5, <2>6, <4>1
      <4> QED
        BY <1>2, <4>2
    <3> QED
      BY <1>2, <3>1
  <2>12. WholeKeyPieces => w \/ slip \/ sent[f.m].cut
    BY <1>5, <2>2, <2>3, <2>4, <2>5, <2>s
  <2>13. ASSUME WholeKeyPieces, asked = h.plen \/ asked % 4 = 0, ~slip
         PROVE  AtKey(f, h.plen - k)
    <3>0. ~old.slip /\ ~Slips(run, asked, k)
      BY <2>13, <2>s, Zenon
    <3>a. AtKey(f, plen)
      BY <1>5, <2>13, <3>0, Zenon
    <3>1. f.mask # 0 => (n - plen) % 4 = 0
      BY <1>2, <1>7, <3>a DEF AtKey
    <3>2. ~Slips(run, asked, k)
      BY <3>0
    <3>b. PICK off \in Nat : off = n - plen /\ run.off = off
      <4>1. n - plen \in Nat
        BY <1>3
      <4> QED
        BY <2>2, <4>1
    <3>c. PICK left \in Nat : left = plen - k
      BY <1>2
    <3>3. /\ off = n - plen /\ run.off = off /\ left = plen - k
          /\ n - left = off + k
      BY <3>b, <3>c
    <3>4. CASE k < asked
      BY <1>2, <1>4, <2>2, <3>2, <3>3, <3>4 DEF Slips, AtKey
    <3>5. CASE k = asked /\ asked = h.plen
      <4>1. left = 0
        BY <1>2, <3>3, <3>5
      <4> QED
        BY <1>2, <3>3, <4>1 DEF AtKey
    <3>6. CASE k = asked /\ asked % 4 = 0 /\ f.mask # 0
      <4>1. off % 4 = 0 /\ k % 4 = 0
        BY <3>1, <3>3, <3>6
      <4>2. (off + k) % 4 = 0
        BY <4>1
      <4> QED
        BY <1>2, <3>3, <4>2 DEF AtKey
    <3>7. CASE f.mask = 0
      BY <3>7 DEF AtKey
    <3> QED
      BY <2>13, <3>4, <3>5, <3>6, <3>7
  <2> QED
    BY <1>5, <2>10, <2>11, <2>12, <2>13
<1> QED
  BY <1>6, <1>7

\* What was put together stays so when messages are added.
LEMMA GotGrown ==
    ASSUME TypeOK, GotInv, Grown(sent, sent'), got' = got
    PROVE  GotInv'
<1> SUFFICES ASSUME NEW e \in Ends, NEW i \in 1 .. Len(got'[e])
             PROVE  GotRight(e, got'[e], i, sent')
  BY Zenon DEF GotInv
<1>1. GotRight(e, got[e], i, sent)
  BY Zenon DEF GotInv
<1>2. PICK g, m : g = got[e] /\ m = g[i].m
  OBVIOUS
<1>3. m \in 1 .. Len(sent)
  BY <1>1, <1>2 DEF GotRight
<1>4. sent'[m] = sent[m] /\ m \in 1 .. Len(sent')
  BY <1>3 DEF Grown
<1>5. GotRight(e, g, i, sent')
  BY <1>1, <1>2, <1>4 DEF GotRight
<1> QED
  BY <1>2, <1>5

\* The payload of a frame is read: in step with what is left of it, and what is
\* put together is what was sent.
LEMMA ReadDataKeeps ==
    ASSUME WsAssumption, WsInv, GotInv, NEW e \in Ends, ReadData(e)
    PROVE  WsInv' /\ GotInv'
<1>1. /\ reads[e] = "yes" /\ header[e] # NoHeader /\ header[e].opcode # Ping
      /\ UNCHANGED <<sent, file, missed>>
  BY DEF ReadData
<1>2. EndInv(e) /\ TypeOK
  BY DEF WsInv
<1>3. PICK h \in Headers : h = header[e]
  BY <1>1, <1>2 DEF TypeOK
<1>p. PICK len \in Pieces :
      LET n == IF len = -1 \/ len > h.plen THEN h.plen ELSE len IN
        \E k \in Received(h, n) :
            LET left == Left(h, k)
                now == Joined(e, h, n, k)
            IN  /\ chan' = [chan EXCEPT ![e] = Drop(@, k)]
                /\ IF left > 0
                   THEN /\ header' = [header EXCEPT ![e] = After(h, n, k)]
                        /\ part' = [part EXCEPT ![e] = now]
                        /\ UNCHANGED <<reads, got>>
                   ELSE /\ header' = [header EXCEPT ![e] = NoHeader]
                        /\ IF h.fin = 1
                           THEN /\ got' = [got EXCEPT ![e] = Append(@, now)]
                                /\ part' = [part EXCEPT ![e] = NoPart]
                           ELSE /\ part' = [part EXCEPT ![e] = now]
                                /\ UNCHANGED got
                        /\ reads' = IF h.opcode = CloseOp
                                    THEN [reads EXCEPT ![e] = "closed"] ELSE reads
  BY <1>3, ZenonT(60) DEF ReadData
<1>4. PICK asked :
        /\ asked = (IF len = -1 \/ len > h.plen THEN h.plen ELSE len)
        /\ \E k \in Received(h, asked) :
            LET left == Left(h, k)
                now == Joined(e, h, asked, k)
            IN  /\ chan' = [chan EXCEPT ![e] = Drop(@, k)]
                /\ IF left > 0
                   THEN /\ header' = [header EXCEPT ![e] = After(h, asked, k)]
                        /\ part' = [part EXCEPT ![e] = now]
                        /\ UNCHANGED <<reads, got>>
                   ELSE /\ header' = [header EXCEPT ![e] = NoHeader]
                        /\ IF h.fin = 1
                           THEN /\ got' = [got EXCEPT ![e] = Append(@, now)]
                                /\ part' = [part EXCEPT ![e] = NoPart]
                           ELSE /\ part' = [part EXCEPT ![e] = now]
                                /\ UNCHANGED got
                        /\ reads' = IF h.opcode = CloseOp
                                    THEN [reads EXCEPT ![e] = "closed"] ELSE reads
  BY <1>p
<1>q. PICK k \in Received(h, asked) :
            LET left == Left(h, k)
                now == Joined(e, h, asked, k)
            IN  /\ chan' = [chan EXCEPT ![e] = Drop(@, k)]
                /\ IF left > 0
                   THEN /\ header' = [header EXCEPT ![e] = After(h, asked, k)]
                        /\ part' = [part EXCEPT ![e] = now]
                        /\ UNCHANGED <<reads, got>>
                   ELSE /\ header' = [header EXCEPT ![e] = NoHeader]
                        /\ IF h.fin = 1
                           THEN /\ got' = [got EXCEPT ![e] = Append(@, now)]
                                /\ part' = [part EXCEPT ![e] = NoPart]
                           ELSE /\ part' = [part EXCEPT ![e] = now]
                                /\ UNCHANGED got
                        /\ reads' = IF h.opcode = CloseOp
                                    THEN [reads EXCEPT ![e] = "closed"] ELSE reads
  BY <1>4
<1>5. PICK left, now, c2, h2 :
        /\ left = h.plen - k
        /\ now = Joined(e, h, asked, k)
        /\ c2 = Drop(chan[e], k)
        /\ h2 = After(h, asked, k)
  OBVIOUS
<1>6. /\ chan' = [chan EXCEPT ![e] = c2]
      /\ left > 0 => /\ header' = [header EXCEPT ![e] = h2]
                     /\ part' = [part EXCEPT ![e] = now]
                     /\ UNCHANGED <<reads, got>>
      /\ ~(left > 0) =>
            /\ header' = [header EXCEPT ![e] = NoHeader]
            /\ h.fin = 1 => /\ got' = [got EXCEPT ![e] = Append(@, now)]
                            /\ part' = [part EXCEPT ![e] = NoPart]
            /\ h.fin # 1 => /\ part' = [part EXCEPT ![e] = now]
                            /\ UNCHANGED got
            /\ reads' = IF h.opcode = CloseOp
                        THEN [reads EXCEPT ![e] = "closed"] ELSE reads
  BY <1>5, <1>q, Zenon DEF Left
<1>7. PICK p, c, g, fl :
        /\ p = part[e] /\ c = chan[e] /\ g = got[e] /\ fl = file[Other(e)]
        /\ EndOk(e, h, p, g, c, fl, sent)
  BY <1>2, <1>3 DEF EndInv
<1>8. PICK f \in Frames : f = h.frame
  BY DEF Headers
<1>9. PICK n \in Nat, at \in Nat, plen \in Nat : n = f.n /\ at = f.at /\ plen = h.plen
  BY Two DEF Frames, Headers
<1>10. /\ FrameOk(e, f, sent) /\ f.m > LastGot(g) /\ LastGot(g) <= Len(sent)
       /\ h.fin = f.fin /\ h.opcode = f.op /\ h.mask = f.mask /\ plen <= n
       /\ Inside(c, f, plen, fl, sent) /\ ChannelOk(e, c, fl, sent)
       /\ c \in Seq(Items) /\ g \in Seq(Parts) /\ p \in Parts \cup {NoPart}
       /\ p = NoPart => plen = n
  BY <1>1, <1>3, <1>7, <1>8, <1>9, None DEF EndOk, ReaderOk
<1>11. /\ asked \in Nat /\ k \in Nat /\ k <= asked /\ k <= plen
       /\ left \in Nat /\ left = plen - k
       /\ WholeKeyPieces => (asked = plen \/ asked % 4 = 0)
  <2>1. len \in {-1} \cup (Nat \ {0}) /\ Shorts \subseteq Nat
    BY <1>4 DEF WsAssumption
  <2>2. asked \in Nat /\ asked <= plen /\ (asked = plen \/ (asked = len /\ len # -1))
    BY <1>4, <1>9, <2>1
  <2>3. k \in Nat /\ k <= asked
    BY <1>5, <2>2, WsAssumption, ReceivedRight
  <2>4. WholeKeyPieces => asked = plen \/ asked % 4 = 0
    BY <1>4, <2>2 DEF WholeKeyPieces
  <2> QED
    BY <1>5, <1>9, <2>2, <2>3, <2>4
<1>12. /\ now \in Parts /\ now.m = f.m /\ now.n = f.at + f.n - (h.plen - k)
       /\ WholeKeyPieces => now.whole \/ now.slip \/ sent[f.m].cut
       /\ WholeKeyPieces => AtKey(f, h.plen - k) \/ now.slip
  <2>1. /\ now \in Parts /\ now.m = f.m /\ now.n = f.at + f.n - (h.plen - k)
        /\ WholeKeyPieces => now.whole \/ now.slip \/ sent[f.m].cut
        /\ WholeKeyPieces /\ (asked = h.plen \/ asked % 4 = 0) =>
               AtKey(f, h.plen - k) \/ now.slip
    BY <1>1, <1>3, <1>5, <1>8, <1>9, <1>11, JoinedRight
  <2> QED
    BY <1>9, <1>11, <2>1
<1>13. now.n = at + n - left
  BY <1>9, <1>11, <1>12
<1>14. c2 \in Seq(Items) /\ ChannelOk(e, c2, fl, sent) /\ Inside(c2, f, left, fl, sent)
  <2>1. /\ k \in 0 .. plen /\ plen <= f.n /\ c2 = Drop(c, k)
    BY <1>5, <1>7, <1>9, <1>10, <1>11
  <2>2. /\ c2 \in Seq(Items) /\ ChannelOk(e, c2, fl, sent)
        /\ Inside(c2, f, plen - k, fl, sent)
    BY <1>10, <2>1, DropRight
  <2> QED
    BY <1>11, <2>2
<1>15. f.m \in 1 .. Len(sent) /\ Len(sent) \in Nat /\ now # NoPart
  BY <1>2, <1>10, <1>12, None DEF FrameOk, TypeOK
<1>16. CASE left > 0
  <2>3. h2 \in Headers
    BY <1>5, <1>9, <1>11, AfterOnward DEF Onward
  <2>4. h2 # NoHeader
    BY <2>3, None
  <2>5. /\ h2.frame = f /\ h2.fin = f.fin /\ h2.opcode = f.op /\ h2.mask = f.mask
        /\ h2.plen = left /\ h2.opcode # Ping
    <3>1. Onward(h, h2, k)
      BY <1>5, <1>9, <1>11, AfterOnward
    <3> QED
      BY <1>1, <1>3, <1>5, <1>8, <1>10, <3>1 DEF Onward
  <2>6. WholeKeyPieces => AtKey(f, h2.plen) \/ now.slip
    BY <1>5, <1>12, <2>5
  <2>7. left <= n /\ now.n = f.at + f.n - h2.plen /\ now.m > LastGot(g)
        /\ now.m <= Len(sent)
    <3>1. left <= n
      BY <1>9, <1>10, <1>11
    <3>2. now.n = f.at + f.n - left /\ h2.plen = left
      BY <1>9, <1>10, <1>11, <1>12, <2>5
    <3>3. now.m > LastGot(g) /\ now.m <= Len(sent)
      BY <1>10, <1>12, <1>15
    <3> QED
      BY <3>1, <3>2, <3>3
  <2>8. ReaderOk(e, h2, now, g, c2, fl, sent)
    BY <1>9, <1>10, <1>12, <1>14, <1>15, <2>4, <2>5, <2>6, <2>7 DEF ReaderOk
  <2>9. EndOk(e, h2, now, g, c2, fl, sent)
    BY <1>10, <1>12, <1>14, <2>3, <2>8 DEF EndOk
  <2>10. PICK r \in {"yes", "closed", "silent"} : r = "yes"
    OBVIOUS
  <2>11. /\ EndOk(e, h2, now, g, c2, file[Other(e)], sent)
         /\ chan' = [chan EXCEPT ![e] = c2] /\ header' = [header EXCEPT ![e] = h2]
         /\ part' = [part EXCEPT ![e] = now] /\ got' = [got EXCEPT ![e] = g]
         /\ reads' = [reads EXCEPT ![e] = r] /\ sent' = sent /\ file' = file
         /\ missed' \subseteq Nat
    BY <1>1, <1>2, <1>6, <1>7, <1>16, <2>9, <2>10 DEF TypeOK
  <2>12. WsInv'
    BY <2>11, ReaderKeeps
  <2>13. got' = got /\ Grown(sent, sent')
    BY <1>1, <1>6, <1>15, <1>16 DEF Grown
  <2> QED
    BY <1>2, <2>12, <2>13, GotGrown
<1>17. CASE ~(left > 0)
  <2>1. left = 0 /\ NextIs(c2, 1, fl, f.m, f.at + f.n, f.fin)
    BY <1>11, <1>14, <1>17 DEF Inside
  <2>2. PICK r \in {"yes", "closed", "silent"} : reads' = [reads EXCEPT ![e] = r]
    <3>1. CASE h.opcode = CloseOp
      <4>1. reads' = [reads EXCEPT ![e] = "closed"]
        BY <1>6, <1>17, <3>1
      <4> QED
        BY <4>1
    <3>2. CASE h.opcode # CloseOp
      <4>1. reads' = [reads EXCEPT ![e] = "yes"]
        BY <1>1, <1>2, <1>6, <1>17, <3>2 DEF TypeOK
      <4> QED
        BY <4>1
    <3> QED
      BY <3>1, <3>2
  <2>3. PICK none : none = NoHeader
    OBVIOUS
  <2>4. CASE h.fin = 1
    <3>1. PICK g2 \in Seq(Parts) : /\ g2 = Append(g, now) /\ Len(g2) = Len(g) + 1
                                   /\ g2[Len(g) + 1] = now
                                   /\ \A i \in 1 .. Len(g) : g2[i] = g[i]
      <4>1. PICK x \in Seq(Parts), y \in Parts : x = g /\ y = now
        BY <1>10, <1>12
      <4>2. /\ Append(x, y) \in Seq(Parts) /\ Len(Append(x, y)) = Len(x) + 1
            /\ Append(x, y)[Len(x) + 1] = y
            /\ \A i \in 1 .. Len(x) : Append(x, y)[i] = x[i]
        BY <4>1, AppendProperties
      <4> QED
        BY <4>1, <4>2
    <3>2. LastGot(g2) = f.m
      <4>1. g2 # <<>> /\ g2[Len(g2)] = now
        BY <1>10, <3>1
      <4> QED
        BY <1>12, <4>1 DEF LastGot
    <3>3. NextIs(c2, 1, fl, f.m, 0, 1)
      BY <1>10, <2>1, <2>4 DEF NextIs, Goes, Stops
    <3>4. EndOk(e, none, NoPart, g2, c2, fl, sent)
      <4>1. ReaderOk(e, none, NoPart, g2, c2, fl, sent)
        BY <1>15, <2>3, <3>2, <3>3 DEF ReaderOk
      <4> QED
        BY <1>14, <2>3, <3>1, <4>1 DEF EndOk
    <3>5. PICK p2 : p2 = NoPart
      OBVIOUS
    <3>6. /\ EndOk(e, none, p2, g2, c2, file[Other(e)], sent)
          /\ chan' = [chan EXCEPT ![e] = c2] /\ header' = [header EXCEPT ![e] = none]
          /\ part' = [part EXCEPT ![e] = p2] /\ got' = [got EXCEPT ![e] = g2]
          /\ reads' = [reads EXCEPT ![e] = r] /\ sent' = sent /\ file' = file
          /\ missed' \subseteq Nat
      BY <1>1, <1>2, <1>6, <1>7, <1>17, <2>2, <2>3, <2>4, <3>1, <3>4, <3>5 DEF TypeOK
    <3>7. WsInv'
      BY <3>6, ReaderKeeps
    <3>8. GotInv'
      <4> SUFFICES ASSUME NEW x \in Ends, NEW i \in 1 .. Len(got'[x])
                   PROVE  GotRight(x, got'[x], i, sent)
        <5>1. sent' = sent
          BY <1>1
        <5> QED
          BY <5>1, Zenon DEF GotInv
      <4>1. CASE x # e
        <5>1. got'[x] = got[x]
          BY <1>2, <3>6, <4>1 DEF TypeOK
        <5> QED
          BY <5>1, Zenon DEF GotInv
      <4>2. CASE x = e /\ i \in 1 .. Len(g)
        <5>1. got'[x] = g2 /\ g = got[x]
          BY <1>2, <1>7, <3>6, <4>2 DEF TypeOK
        <5>2. g2[i] = g[i]
          BY <3>1, <4>2
        <5>3. i > 1 => g2[i - 1] = g[i - 1]
          <6> HAVE i > 1
          <6>1. i - 1 \in 1 .. Len(g)
            BY <4>2, <1>10
          <6> QED
            BY <3>1, <6>1
        <5>4. GotRight(x, g, i, sent)
          BY <4>2, <5>1, Zenon DEF GotInv
        <5>5. GotRight(x, g2, i, sent)
          BY <5>2, <5>3, <5>4, Zenon DEF GotRight
        <5> QED
          BY <5>1, <5>5
      <4>3. CASE x = e /\ i = Len(g) + 1
        <5>1. got'[x] = g2
          BY <1>2, <3>6, <4>3 DEF TypeOK
        <5>2. PICK y : y = now /\ y = g2[i]
          BY <3>1, <4>3, <5>1
        <5>3. sent[f.m].from = Other(e) /\ f.at + f.n = sent[f.m].size
          BY <1>10, <2>4 DEF FrameOk
        <5>4. y.n = sent[f.m].size
          BY <1>9, <1>13, <2>1, <5>2, <5>3
        <5>5. i > 1 => y.m > g2[i - 1].m
          <6> HAVE i > 1
          <6>0. Len(g) \in Nat /\ Len(g) > 0 /\ i = Len(g) + 1
            BY <1>10, <4>3
          <6>1. PICK j \in 1 .. Len(g) : j = i - 1 /\ j = Len(g) /\ g # <<>>
            BY <6>0
          <6>2. g2[j] = g[Len(g)] /\ LastGot(g) = g[Len(g)].m
            BY <3>1, <6>1 DEF LastGot
          <6> QED
            BY <1>10, <1>12, <5>2, <6>1, <6>2
        <5>6. /\ y.m \in 1 .. Len(sent) /\ sent[y.m].from = Other(x)
              /\ y.n = sent[y.m].size
              /\ WholeKeyPieces => y.whole \/ y.slip \/ sent[y.m].cut
          BY <1>12, <1>15, <4>3, <5>2, <5>3, <5>4
        <5>7. GotRight(x, g2, i, sent)
          BY <5>2, <5>5, <5>6, Zenon DEF GotRight
        <5> QED
          BY <5>1, <5>7
      <4>4. x # e \/ i \in 1 .. Len(g) \/ i = Len(g) + 1
        <5> SUFFICES ASSUME x = e PROVE i \in 1 .. Len(g) \/ i = Len(g) + 1
          OBVIOUS
        <5>1. got'[x] = g2
          BY <1>2, <3>6 DEF TypeOK
        <5> QED
          BY <1>10, <3>1, <5>1
      <4> QED
        BY <4>1, <4>2, <4>3, <4>4
    <3> QED
      BY <3>7, <3>8
  <2>5. CASE h.fin # 1
    <3>1. f.fin = 0
      BY <1>10, <2>5 DEF Frames
    <3>2. NextIs(c2, 1, fl, now.m, now.n, 0)
      <4>1. now.n = f.at + f.n
        BY <1>9, <1>13, <2>1
      <4> QED
        BY <1>12, <2>1, <3>1, <4>1
    <3>3. EndOk(e, none, now, g, c2, fl, sent)
      <4>1. now.m > LastGot(g) /\ now.m <= Len(sent)
        BY <1>10, <1>12, <1>15
      <4>2. ReaderOk(e, none, now, g, c2, fl, sent)
        BY <1>10, <1>12, <1>15, <2>3, <3>2, <4>1 DEF ReaderOk
      <4> QED
        BY <1>10, <1>12, <1>14, <2>3, <4>2 DEF EndOk
    <3>4. /\ EndOk(e, none, now, g, c2, file[Other(e)], sent)
          /\ chan' = [chan EXCEPT ![e] = c2] /\ header' = [header EXCEPT ![e] = none]
          /\ part' = [part EXCEPT ![e] = now] /\ got' = [got EXCEPT ![e] = g]
          /\ reads' = [reads EXCEPT ![e] = r] /\ sent' = sent /\ file' = file
          /\ got' = got /\ missed' \subseteq Nat
      BY <1>1, <1>2, <1>6, <1>7, <1>17, <2>2, <2>3, <2>5, <3>3 DEF TypeOK
    <3>5. WsInv'
      <4>1. /\ EndOk(e, none, now, g, c2, file[Other(e)], sent)
            /\ chan' = [chan EXCEPT ![e] = c2] /\ header' = [header EXCEPT ![e] = none]
            /\ part' = [part EXCEPT ![e] = now] /\ got' = [got EXCEPT ![e] = g]
            /\ reads' = [reads EXCEPT ![e] = r] /\ sent' = sent /\ file' = file
            /\ missed' \subseteq Nat
        BY <3>4
      <4> QED
        BY <4>1, ReaderKeeps
    <3>6. Grown(sent, sent')
      BY <1>1, <1>15 DEF Grown
    <3> QED
      BY <1>2, <3>4, <3>5, <3>6, GotGrown
  <2> QED
    BY <2>4, <2>5
<1> QED
  BY <1>16, <1>17

-----------------------------------------------------------------------------
(***************************************************************************)
(* The theorems.                                                           *)
(***************************************************************************)
\* At the start nothing is on its way.
LEMMA Starts == Init => WsInv /\ GotInv
<1> SUFFICES ASSUME Init PROVE WsInv /\ GotInv
  OBVIOUS
<1>1. ASSUME NEW e \in Ends
      PROVE  /\ chan[e] = <<>> /\ header[e] = NoHeader /\ part[e] = NoPart
             /\ got[e] = <<>> /\ file[e] = NoFile /\ reads[e] = "yes"
  BY <1>1 DEF Init
<1>2. TypeOK
  BY DEF Init, TypeOK
<1>3. ASSUME NEW e \in Ends PROVE EndInv(e)
  <2>1. PICK c \in Seq(Items) : c = <<>> /\ Len(c) = 0
    <3>1. <<>> \in Seq(Items) /\ Len(<<>>) = 0
      OBVIOUS
    <3> QED
      BY <3>1, Zenon
  <2>2. file[Other(e)] = NoFile
    BY <1>1, TwoEnds
  <2>3. NextIs(c, 1, NoFile, 0, 0, 1)
    BY <2>1 DEF NextIs, Stops
  <2>4. LastGot(<<>>) = 0 /\ sent = <<>> /\ Len(sent) = 0
    BY DEF LastGot, Init
  <2>5. ReaderOk(e, NoHeader, NoPart, <<>>, c, NoFile, sent)
    BY <2>3, <2>4 DEF ReaderOk
  <2>6. ChannelOk(e, c, NoFile, sent)
    BY <2>1 DEF ChannelOk
  <2>7. EndOk(e, NoHeader, NoPart, <<>>, c, NoFile, sent)
    BY <2>5, <2>6 DEF EndOk
  <2>8. FileOk(e, NoFile, sent)
    BY DEF FileOk
  <2> QED
    BY <1>1, <2>1, <2>2, <2>7, <2>8 DEF EndInv
<1>4. GotInv
  <2>1. \A e \in Ends : Len(got[e]) = 0
    BY <1>1
  <2> QED
    BY <2>1 DEF GotInv
<1> QED
  BY <1>2, <1>3, <1>4 DEF WsInv

\* Every step keeps the invariant.
LEMMA Keeps == WsInv /\ GotInv /\ [Next]_vars => WsInv' /\ GotInv'
<1> SUFFICES ASSUME WsInv, GotInv, [Next]_vars PROVE WsInv' /\ GotInv'
  OBVIOUS
<1>1. CASE UNCHANGED vars
  <2>1. UNCHANGED <<chan, header, reads, sent, part, got, file, missed>>
    BY <1>1 DEF vars
  <2>2. WsInv'
    BY <2>1 DEF WsInv, TypeOK, EndInv
  <2>3. GotInv'
    BY <2>1 DEF GotInv
  <2> QED
    BY <2>2, <2>3
<1>2. CASE Next
  <2>t. TypeOK /\ sent \in Seq(Messages)
    BY DEF WsInv, TypeOK
  <2>s. Grown(sent, sent)
    BY <2>t DEF Grown
  <2>1. PICK e \in Ends :
          \/ Send(e) \/ SendClose(e) \/ OpenFile(e) \/ SendFragment(e)
          \/ Read(e) \/ ReadNoHeader(e) \/ ReadNoData(e)
    BY <1>2 DEF Next
  <2>2. CASE Send(e)
    <3>1. PICK op \in {Text, Bin, Ping}, n \in Lengths : SendOne(e, op, n, RoleMask(e))
      BY <2>2 DEF Send
    <3>2. UNCHANGED <<readVars, file, missed>> /\ got' = got
      BY <2>2 DEF Send, readVars
    <3>3. op \in Opcodes \ {Cont}
      BY DEF Opcodes, Cont, Text, Bin, CloseOp, Ping, Pong
    <3>4. n \in 0 .. MaxLength
      BY WsAssumption DEF WsAssumption
    <3>5. WsInv' /\ Grown(sent, sent')
      BY <3>1, <3>2, <3>3, <3>4, SendOneKeeps
    <3> QED
      BY <2>t, <3>2, <3>5, GotGrown
  <2>3. CASE SendClose(e)
    <3>1. PICK op \in Opcodes \ {Cont}, n \in 0 .. MaxLength : SendOne(e, op, n, RoleMask(e))
      <4>1. CloseOp \in Opcodes \ {Cont}
        BY DEF Opcodes, Cont, Text, Bin, CloseOp, Ping, Pong
      <4> QED
        BY <2>3, <4>1, Two DEF SendClose
    <3>2. UNCHANGED <<readVars, file, missed>> /\ got' = got
      BY <2>3 DEF SendClose, readVars
    <3>3. WsInv' /\ Grown(sent, sent')
      BY <3>1, <3>2, SendOneKeeps
    <3> QED
      BY <2>t, <3>2, <3>3, GotGrown
  <2>4. CASE OpenFile(e)
    <3>1. got' = got
      BY <2>4 DEF OpenFile, readVars
    <3>2. WsInv' /\ Grown(sent, sent')
      BY <2>4, WsAssumption, OpenFileKeeps
    <3> QED
      BY <2>t, <3>1, <3>2, GotGrown
  <2>5. CASE SendFragment(e)
    <3>1. WsInv' /\ sent' = sent /\ got' = got
      BY <2>5, WsAssumption, SendFragmentKeeps
    <3> QED
      BY <2>t, <2>s, <3>1, GotGrown
  <2>6. CASE ReadHeader(e)
    <3>1. WsInv' /\ got' = got /\ Grown(sent, sent')
      BY <2>6, WsAssumption, ReadHeaderKeeps
    <3> QED
      BY <2>t, <3>1, GotGrown
  <2>7. CASE ReadData(e)
    BY <2>7, WsAssumption, ReadDataKeeps
  <2>8. CASE ReadPingRest(e)
    <3>1. WsInv' /\ sent' = sent /\ got' = got
      BY <2>8, WsAssumption, ReadPingRestKeeps
    <3> QED
      BY <2>t, <2>s, <3>1, GotGrown
  <2>9. CASE ReadNoHeader(e) \/ ReadNoData(e)
    <3>1. WsInv' /\ sent' = sent /\ got' = got
      BY <2>9, ReadNoHeaderKeeps
    <3> QED
      BY <2>t, <2>s, <3>1, GotGrown
  <2> QED
    BY <2>1, <2>2, <2>3, <2>4, <2>5, <2>6, <2>7, <2>8, <2>9 DEF Read
<1> QED
  BY <1>1, <1>2

\* The invariant of the channels, the readers and what they put together: it
\* ties ws_send_frame and ws_send_file to ws_read_header and ws_read_data.
THEOREM FramesInvariant == Spec => [](WsInv /\ GotInv)
<1>1. Init => WsInv /\ GotInv
  BY Starts
<1>2. (WsInv /\ GotInv) /\ [Next]_vars => (WsInv /\ GotInv)'
  BY Keeps
<1> QED
  BY <1>1, <1>2, PTL DEF Spec

\* Whatever the lengths, a header is read as it was sent, what is left of a
\* frame is what is on its way of it, and no reader ever finds something else
\* where a header should be.
THEOREM ReadersInSync == Spec => []InSync
<1>1. WsInv => InSync
  <2> SUFFICES ASSUME WsInv, NEW e \in Ends, NEW h, NEW c, h = header[e], c = chan[e]
               PROVE  /\ reads[e] # "failed"
                      /\ IF h = NoHeader THEN c # <<>> => c[1].kind = "first"
                         ELSE /\ <<h.fin, h.opcode, h.mask>> =
                                      <<h.frame.fin, h.frame.op, h.frame.mask>>
                              /\ h.plen >= 0
                              /\ IF h.plen = 0 THEN c # <<>> => c[1].kind = "first"
                                 ELSE c # <<>> /\ c[1].kind = "run" /\ c[1].n = h.plen
                                          /\ c[1].m = h.frame.m
    BY DEF InSync
  <2>1. PICK p, g, fl : /\ EndOk(e, h, p, g, c, fl, sent) /\ reads[e] # "failed"
    BY DEF WsInv, EndInv
  <2>2. /\ ReaderOk(e, h, p, g, c, fl, sent) /\ c \in Seq(Items)
        /\ h \in Headers \cup {NoHeader}
    BY <2>1 DEF EndOk
  <2>3. ASSUME c # <<>>, NEW m, NEW at, NEW fin, NextIs(c, 1, fl, m, at, fin)
        PROVE  c[1].kind = "first"
    <3>1. Len(c) \in Nat /\ Len(c) # 0
      BY <2>2, <2>3, EmptySeq
    <3> QED
      BY <2>3, <3>1 DEF NextIs
  <2>4. CASE h = NoHeader
    <3>1. \E m, at, fin : NextIs(c, 1, fl, m, at, fin)
      <4>1. NextIs(c, 1, fl, LastGot(g), 0, 1) \/ NextIs(c, 1, fl, p.m, p.n, 0)
        BY <2>2, <2>4, Zenon DEF ReaderOk
      <4> QED
        BY <4>1, Zenon
    <3> QED
      BY <2>1, <2>3, <2>4, <3>1, Zenon
  <2>5. CASE h # NoHeader
    <3>1. PICK f \in Frames :
            /\ f = h.frame /\ h \in Headers
            /\ h.fin = f.fin /\ h.opcode = f.op /\ h.mask = f.mask
            /\ Inside(c, f, h.plen, fl, sent)
      BY <2>2, <2>5 DEF ReaderOk, Headers
    <3>2. h.plen \in Nat /\ f.n \in Nat /\ f.at \in Nat
      BY <3>1, Two DEF Headers, Frames
    <3>3. CASE h.plen = 0
      <4>1. NextIs(c, 1, fl, f.m, f.at + f.n, f.fin)
        BY <3>1, <3>3 DEF Inside
      <4>2. c # <<>> => c[1].kind = "first"
        BY <2>3, <4>1
      <4> QED
        BY <2>1, <2>5, <3>1, <3>2, <3>3, <4>2
    <3>4. CASE h.plen # 0
      <4>1. RunAt(c, 1, f, f.n - h.plen, sent)
        BY <3>1, <3>4 DEF Inside
      <4>2. c[1].kind = "run" /\ c[1].m = f.m /\ c[1].n = h.plen /\ c # <<>>
        BY <2>2, <3>2, <4>1 DEF RunAt
      <4> QED
        BY <2>1, <2>5, <3>1, <3>2, <3>4, <4>2
    <3> QED
      BY <3>3, <3>4
  <2> QED
    BY <2>4, <2>5
<1> QED
  BY <1>1, FramesInvariant, PTL

\* What a client sends is masked and what a server sends is not, also the pongs
\* and closes that ws_read_header sends by itself.
THEOREM MaskedByRole == Spec => []MaskByRole
<1>1. WsInv => MaskByRole
  <2> SUFFICES ASSUME WsInv, NEW e \in Ends, NEW i \in 1 .. Len(chan[e]),
                      chan[e][i].kind = "first"
               PROVE  chan[e][i].frame.mask = RoleMask(Other(e))
    BY DEF MaskByRole
  <2>1. ChannelOk(e, chan[e], file[Other(e)], sent)
    BY DEF WsInv, EndInv, EndOk
  <2>2. FrameAt(e, chan[e], i, file[Other(e)], sent)
    BY <2>1 DEF ChannelOk
  <2> QED
    BY <2>2 DEF FrameAt, FrameOk
<1> QED
  BY <1>1, FramesInvariant, PTL

\* What a caller puts together has the length of what was sent and comes in the
\* order it was sent: messages of any length, files in fragments, pongs, read in
\* pieces of any size that come short or not.  When the pieces that are asked
\* hold whole keys, the bytes are right too, unless a piece came short inside
\* the key, or the ping of a pong did.
THEOREM MessagesArriveWhole ==
    ASSUME WholeKeyPieces
    PROVE  Spec => []MessagesWhole
<1>1. GotInv => MessagesWhole
  <2> SUFFICES ASSUME GotInv, NEW e \in Ends, NEW i \in 1 .. Len(got[e]), NEW r,
                      r = got[e][i]
               PROVE  /\ r.m # 0 /\ sent[r.m].from = Other(e)
                      /\ r.n = sent[r.m].size
                      /\ r.whole \/ r.slip \/ sent[r.m].cut
                      /\ i > 1 => r.m > got[e][i - 1].m
    BY Zenon DEF MessagesWhole
  <2>1. /\ r.m \in 1 .. Len(sent) /\ sent[r.m].from = Other(e)
        /\ r.n = sent[r.m].size
        /\ WholeKeyPieces => r.whole \/ r.slip \/ sent[r.m].cut
        /\ i > 1 => r.m > got[e][i - 1].m
    <3>1. GotRight(e, got[e], i, sent)
      BY Zenon DEF GotInv
    <3> QED
      BY <3>1, Zenon DEF GotRight
  <2>2. r.m # 0
    BY <2>1
  <2> QED
    BY <2>1, <2>2
<1> QED
  BY <1>1, FramesInvariant, PTL

=============================================================================
