----------------------------- MODULE SocketProofs -----------------------------
(***************************************************************************)
(* Theorems about the transfers, for any size of the buffers, any stream   *)
(* and any header.                                                         *)
(***************************************************************************)
EXTENDS SocketIO, SequenceTheorems, TLAPS

-----------------------------------------------------------------------------
(***************************************************************************)
(* The inductive invariant: types, the reading calls, the writing calls.   *)
(***************************************************************************)
WriteOps == {"body", "file", "send", "text", "header"}
PartType == [n : Nat, dep : BOOLEAN]
Byte == Nat \X BOOLEAN

CallTypes ==
    /\ ssl \in BOOLEAN /\ idle \in BOOLEAN
    /\ peer \in {"open", "shut", "reset"} /\ arrived \in Nat
    /\ pc \in {"free", "read", "got", "part", "deflate", "raw", "sent", "closed"}
    /\ op \in {"none", "close"} \cup ReadOps \cup WriteOps
    /\ res \in Int

ReadTypes ==
    /\ taken \in Nat /\ want \in Nat /\ rdone \in Nat /\ len \in Nat
    /\ dst \in Seq(Nat)

WriteTypes ==
    /\ pos \in Nat /\ written \in Nat /\ zfrom \in Nat
    /\ todo \in Seq(PartType)
    /\ chunk \in Seq(Byte) /\ pend \in Seq(Byte)
    /\ zbuf \in Seq(Byte) /\ wire \in Seq(Byte)
    /\ zon \in BOOLEAN /\ second \in BOOLEAN /\ zfull \in BOOLEAN
    /\ lost \subseteq {"timeout", "error"}

SockTypes == CallTypes /\ ReadTypes /\ WriteTypes

\* Which calls are where.
Places ==
    /\ pc \in {"read", "got"} <=> op \in ReadOps
    /\ pc = "free" => op = "none"
    /\ pc = "part" => op \in WriteOps
    /\ pc \in {"deflate", "raw", "sent"} => op \in WriteOps \cup {"close"}
    /\ pc = "closed" => op = "close"

\* The most a reading call may put in its buffer: read_buf keeps one byte.
Room == CASE op = "discard" -> len + DiscardWant(len) - 1
          [] op = "line" -> len - 1
          [] OTHER -> len

Reading ==
    /\ \A i \in 1 .. Len(dst) - 1 : dst[i + 1] = dst[i] + 1
    /\ op \in ReadOps /\ dst # <<>> => dst[Len(dst)] = taken
    /\ op \notin ReadOps => dst = <<>> /\ want = 0 /\ rdone = 0 /\ len = 0
    /\ op = "line" => len >= 2
    /\ rdone <= want /\ rdone <= Len(dst)
    /\ pc = "read" => Len(dst) - rdone + want <= Room
    /\ pc = "read" /\ Upto => rdone = 0
    /\ Len(dst) <= Room

\* A line is read byte after byte, up to its end.
ALine ==
    /\ op = "line" => want = 1
    /\ op = "line" => \A i \in 1 .. Len(dst) - 1 : dst[i] \notin Newlines
    /\ op = "line" /\ pc = "read" =>
            rdone = 0 /\ (dst # <<>> => dst[Len(dst)] \notin Newlines)
    /\ op = "line" /\ pc = "got" =>
            IF res <= 0 THEN peer # "open" \/ idle ELSE dst # <<>>

ReadInv == Places /\ Reading /\ ALine

\* b comes before c in the stream, or passes it as a byte that is not compressed;
\* the trailer of a compressed one has no place.
Before(b, c) ==
    \/ b = Trailer \/ c = Trailer \/ b[1] < c[1]
    \/ b[1] > c[1] /\ ~b[2] /\ c[2]
AllBefore(s, t) == \A i \in 1 .. Len(s), j \in 1 .. Len(t) : Before(s[i], t[j])
InOrder(s) == \A i, j \in 1 .. Len(s) : i < j => Before(s[i], s[j])

\* Bytes that were produced, the first p, and not dropped; and with one response
\* marked as compressed or not as the stream k says: whether there is one, after
\* which byte it begins, whether it is of a second response, what was dropped.
Stream == <<zon, zfrom, second, dropped>>
Made(b, p, k) ==
    b # Trailer => /\ b[1] \in 1 .. p /\ b[1] \notin k[4]
                   /\ k[3] \/ b[2] = (k[1] /\ b[1] > k[2])
Produced(s, p, k) == \A i \in 1 .. Len(s) : Made(s[i], p, k)
AllProduced ==
    \A s \in {wire, chunk, zbuf, pend} : Produced(s, pos, Stream)

\* What deflate holds follows the chunk, which follows what was sent; the data
\* SSL_write waits for is the segment, or older than the chunk.
Ordered ==
    /\ InOrder(wire) /\ InOrder(chunk) /\ InOrder(zbuf) /\ InOrder(pend)
    /\ \A i \in 1 .. Len(wire), j \in written + 1 .. Len(chunk) :
            Before(wire[i], chunk[j])
    /\ AllBefore(wire, zbuf) /\ AllBefore(chunk, zbuf)
    /\ AllBefore(wire, pend) /\ AllBefore(pend, zbuf)
    /\ pc = "raw" => pend = Segment \/ AllBefore(pend, chunk)

\* What remains of a header, and where compression begins.
Left == Len(todo) - (IF pc \in {"raw", "sent"} THEN 1 ELSE 0)
Zipping ==
    /\ ~zon => zbuf = <<>>
    /\ \A i \in 1 .. Len(zbuf) : zbuf[i][2] = TRUE
    /\ op = "header" => \A i \in 1 .. Len(todo) : todo[i].n = 1
    /\ op = "header" /\ ~second => zbuf = <<>>
    /\ zon /\ op = "header" /\ ~second => zfrom = pos + Left
    /\ zon /\ op # "header" /\ ~second => zfrom <= pos
    /\ op = "close" /\ pc \in {"raw", "sent"} /\ ~zfull => zbuf = <<>>
    /\ op = "close" => zon \/ pc = "closed"
    /\ pc = "deflate" => op = "close" \/ Compress
    /\ pc = "closed" /\ zon => zbuf = <<>>
    /\ ~second => dropped = {}
    /\ \A n \in dropped : n \in 0 .. pos

\* The transfer under way.
Sizes ==
    /\ written <= Len(chunk)
    /\ pc \notin {"raw", "sent"} => chunk = <<>>
    /\ pc \in {"deflate", "raw", "sent"} /\ op # "close" => todo # <<>>
    /\ pc \in {"free", "read", "got"} => todo = <<>>
    /\ pc = "sent" => lost # {}

\* Nothing is missing while nothing was given up but what was dropped: a byte is
\* on the wire, in the rest of the chunk, or deflate holds it.
Has(s, n) == \E i \in 1 .. Len(s) : s[i][1] = n
Rest(n) == \E j \in written + 1 .. Len(chunk) : chunk[j][1] = n
Covered == \A n \in 1 .. pos : Has(wire, n) \/ Rest(n) \/ Has(zbuf, n) \/ n \in dropped

\* Once antd_close has put the trailer to a compressed stream it is the last byte.
Last(s) == s[Len(s)]
Ended ==
    op = "close" /\ zon =>
        IF zbuf # <<>> THEN Last(zbuf) = Trailer
        ELSE IF written < Len(chunk) THEN Last(chunk) = Trailer
        ELSE wire # <<>> /\ Last(wire) = Trailer

Whole == lost = {} => Covered /\ Ended

\* Without a time-out a transfer fails only when the peer is gone, and
\* SSL_write gets again what it waits for.
Causes ==
    "timeout" \notin lost =>
        /\ lost # {} => peer = "reset"
        /\ pend # <<>> => (pc = "raw" /\ pend = Segment) \/ peer = "reset"

WriteInv ==
    /\ AllProduced /\ Ordered /\ Zipping /\ Sizes /\ Whole /\ Causes

SockInv == SockTypes /\ ReadInv /\ WriteInv /\ HoleNeedsTimeout

-----------------------------------------------------------------------------
(***************************************************************************)
(* Lemmas about sequences.                                                 *)
(***************************************************************************)

\* A sequence given element by element.
LEMMA Listed ==
    ASSUME NEW S, NEW n \in Nat, NEW s, s \in [1 .. n -> S]
    PROVE  s \in Seq(S) /\ Len(s) = n
<1>1. s \in Seq(S)
  BY SeqDef
<1>2. Len(s) \in Nat /\ DOMAIN s = 1 .. Len(s) /\ DOMAIN s = 1 .. n
  BY <1>1, LenProperties
<1> QED
  BY <1>1, <1>2

\* A piece of a sequence, from one index to another.
LEMMA Piece ==
    ASSUME NEW S, NEW s \in Seq(S), NEW m \in 1 .. Len(s) + 1, NEW n \in 0 .. Len(s),
           m <= n + 1, NEW t, t = SubSeq(s, m, n)
    PROVE  /\ t \in Seq(S)
           /\ Len(t) = n - m + 1
           /\ \A i \in 1 .. Len(t) : t[i] = s[m + i - 1]
<1>1. Len(s) \in Nat
  BY LenProperties
<1>2. \A i \in m .. n : s[i] \in S
  BY <1>1, ElementOfSeq
<1>3. /\ t \in Seq(S)
      /\ Len(t) = IF m <= n THEN n - m + 1 ELSE 0
      /\ \A i \in 1 .. n - m + 1 : t[i] = s[m + i - 1]
  BY <1>1, <1>2, SubSeqProperties
<1>4. Len(t) = n - m + 1
  BY <1>1, <1>3
<1> QED
  BY <1>3, <1>4

\* Its elements are those of the sequence after the m-th.
PieceOf(t, s, m) == \A i \in 1 .. Len(t) : m + i \in 1 .. Len(s) /\ t[i] = s[m + i]

\* A piece from the m-th on is what follows m - 1 elements.
LEMMA PieceElements ==
    ASSUME NEW S, NEW s \in Seq(S), NEW m \in 1 .. Len(s) + 1, NEW n \in 0 .. Len(s),
           m <= n + 1, NEW t, t = SubSeq(s, m, n)
    PROVE  PieceOf(t, s, m - 1)
<1>1. Len(s) \in Nat
  BY LenProperties
<1>2. /\ t \in Seq(S) /\ Len(t) = n - m + 1
      /\ \A i \in 1 .. Len(t) : t[i] = s[m + i - 1]
  BY Piece
<1>3. \A i \in 1 .. Len(t) : m - 1 + i \in 1 .. Len(s) /\ m + i - 1 = m - 1 + i
  BY <1>1, <1>2
<1> QED
  BY <1>1, <1>2, <1>3 DEF PieceOf

\* One sequence after another.
LEMMA Joined ==
    ASSUME NEW S, NEW s \in Seq(S), NEW t \in Seq(S), NEW u, u = s \o t
    PROVE  /\ u \in Seq(S)
           /\ Len(u) = Len(s) + Len(t)
           /\ \A i \in 1 .. Len(s) : u[i] = s[i]
           /\ \A i \in 1 .. Len(t) : u[Len(s) + i] = t[i]
<1>1. Len(s) \in Nat /\ Len(t) \in Nat
  BY LenProperties
<1>2. /\ u \in Seq(S)
      /\ Len(u) = Len(s) + Len(t)
      /\ \A i \in 1 .. Len(s) + Len(t) :
            u[i] = IF i <= Len(s) THEN s[i] ELSE t[i - Len(s)]
  BY ConcatProperties
<1>3. \A i \in 1 .. Len(s) : u[i] = s[i]
  BY <1>1, <1>2
<1>4. \A i \in 1 .. Len(t) : u[Len(s) + i] = t[i]
  BY <1>1, <1>2
<1> QED
  BY <1>2, <1>3, <1>4

\* An element of it is one of the first or one of the second.
FromEither(u, s, t) ==
    \A i \in 1 .. Len(u) :
        \/ i \in 1 .. Len(s) /\ u[i] = s[i]
        \/ \E j \in 1 .. Len(t) : i = Len(s) + j /\ u[i] = t[j]

\* The elements of a joined sequence come from one of the two.
LEMMA JoinedElements ==
    ASSUME NEW S, NEW s \in Seq(S), NEW t \in Seq(S), NEW u, u = s \o t
    PROVE  FromEither(u, s, t)
<1>1. Len(s) \in Nat /\ Len(t) \in Nat
  BY LenProperties
<1>2. /\ Len(u) = Len(s) + Len(t)
      /\ \A i \in 1 .. Len(s) : u[i] = s[i]
      /\ \A i \in 1 .. Len(t) : u[Len(s) + i] = t[i]
  BY Joined
<1>3. ASSUME NEW i \in 1 .. Len(u), i > Len(s)
      PROVE  \E j \in 1 .. Len(t) : i = Len(s) + j /\ u[i] = t[j]
  <2>1. i - Len(s) \in 1 .. Len(t) /\ i = Len(s) + (i - Len(s))
    BY <1>1, <1>2, <1>3
  <2>2. u[Len(s) + (i - Len(s))] = t[i - Len(s)]
    BY <2>1, <1>2
  <2> QED
    BY <2>1, <2>2
<1> QED
  BY <1>1, <1>2, <1>3 DEF FromEither

-----------------------------------------------------------------------------
(***************************************************************************)
(* The reading calls leave the writing ones alone, and the other way.      *)
(***************************************************************************)
ReadPlaces == {"free", "read", "got"}

\* What touches no variable of the writing calls keeps their part of the invariant.
LEMMA WritingUntouched ==
    ASSUME WriteInv, UNCHANGED writeVars,
           peer = "reset" => peer' = "reset",
           \/ pc' = pc /\ op' = op
           \/ /\ pc \in ReadPlaces /\ pc' \in ReadPlaces
              /\ op \in ReadOps \cup {"none"} /\ op' \in ReadOps \cup {"none"}
    PROVE  WriteInv'
<1>1. /\ wire' = wire /\ chunk' = chunk /\ zbuf' = zbuf /\ pend' = pend
      /\ todo' = todo /\ pos' = pos /\ written' = written /\ lost' = lost
      /\ zon' = zon /\ zfrom' = zfrom /\ zfull' = zfull
      /\ second' = second /\ dropped' = dropped
  BY DEF writeVars
<1>2. AllProduced'
  BY <1>1 DEF WriteInv, AllProduced, Stream
<1>3. Segment' = Segment
  BY <1>1 DEF Segment, Smaller
<1>4. Ordered'
  BY <1>1, <1>3 DEF WriteInv, Ordered, InOrder, AllBefore, Before, ReadPlaces
<1>5. Zipping'
  BY <1>1 DEF WriteInv, Zipping, Left, Compress, ReadPlaces, ReadOps
<1>6. Sizes'
  BY <1>1 DEF WriteInv, Sizes, ReadPlaces, ReadOps
<1>7. Whole'
  BY <1>1 DEF WriteInv, Whole, Covered, Has, Rest, Ended, ReadPlaces, ReadOps
<1>8. Causes'
  BY <1>1, <1>3 DEF WriteInv, Causes, ReadPlaces
<1> QED
  BY <1>2, <1>4, <1>5, <1>6, <1>7, <1>8 DEF WriteInv

\* What touches no variable of the reading calls keeps theirs.
LEMMA ReadingUntouched ==
    ASSUME Reading, ALine, UNCHANGED readVars, op \notin ReadOps, op' \notin ReadOps,
           pc' \notin {"read", "got"}
    PROVE  Reading' /\ ALine'
<1>1. /\ taken' = taken /\ want' = want /\ rdone' = rdone /\ len' = len /\ dst' = dst
      /\ op' # "line" /\ op # "line" /\ op # "discard" /\ op' # "discard"
  BY DEF readVars, ReadOps
<1>2. Room' = Room
  BY <1>1 DEF Room, DiscardWant
<1>3. Reading'
  BY <1>1, <1>2 DEF Reading
<1>4. ALine'
  BY <1>1 DEF ALine
<1> QED
  BY <1>3, <1>4

\* A byte that misses before one that was sent misses still.
LEMMA HolesKept ==
    ASSUME SockTypes, HoleNeedsTimeout, AllProduced, wire' = wire,
           second => second', pos' \in Nat, lost \subseteq lost'
    PROVE  HoleNeedsTimeout'
<1>1. OnWire' = OnWire
  BY DEF OnWire
<1>2. ASSUME NEW m \in OnWire, NEW n \in 1 .. pos', n < m, n \notin OnWire
      PROVE  n \in 1 .. pos
  <2>1. PICK i \in 1 .. Len(wire) : m = wire[i][1]
    BY DEF OnWire
  <2>2. wire[i] # Trailer
    <3>1. Trailer[1] = 0
      BY DEF Trailer
    <3>2. n \in Int /\ n > 0
      OBVIOUS
    <3>3. m # 0
      BY <3>2, <1>2
    <3> QED
      BY <2>1, <3>1, <3>3
  <2>3. m \in 1 .. pos
    BY <2>1, <2>2 DEF AllProduced, Produced, Made
  <2> QED
    BY <2>3, <1>2 DEF SockTypes, WriteTypes
<1> QED
  BY <1>1, <1>2 DEF HoleNeedsTimeout

\* The types, for the steps that leave the variables alone.
LEMMA ReadTypesUntouched ==
    ASSUME ReadTypes, UNCHANGED readVars
    PROVE  ReadTypes'
  BY DEF ReadTypes, readVars

\* The same for the writing calls.
LEMMA WriteTypesUntouched ==
    ASSUME WriteTypes, UNCHANGED writeVars
    PROVE  WriteTypes'
  BY DEF WriteTypes, writeVars

-----------------------------------------------------------------------------
(***************************************************************************)
(* The reading calls.                                                      *)
(***************************************************************************)
\* A call that reads starts with an empty buffer.
LEMMA BeginReadKeeps ==
    ASSUME SockTypes, ReadInv, BeginRead
    PROVE  CallTypes' /\ ReadTypes' /\ ReadInv'
<1> USE SocketAssumption
<1>1. /\ pc = "free" /\ pc' = "read" /\ op' \in ReadOps
      /\ len' \in Nat /\ len' >= 1 /\ (op' = "line" => len' >= 2)
      /\ rdone' = 0 /\ dst' = <<>> /\ taken' = taken /\ idle' = idle /\ res' = res
      /\ UNCHANGED envVars /\ want' = FirstWant(op', len')
  BY DEF BeginRead, ReadOps
<1>2. Len(dst') = 0 /\ dst' \in Seq(Nat)
  BY <1>1
<1>3. /\ want' \in Nat /\ want' <= len' /\ (op' = "line" => want' = 1)
      /\ op' = "discard" => want' = DiscardWant(len') /\ want' \in Nat
  BY <1>1 DEF FirstWant, DiscardWant, Smaller
<1>4. CallTypes' /\ ReadTypes'
  BY <1>1, <1>2, <1>3 DEF SockTypes, CallTypes, ReadTypes, envVars
<1>5. Places'
  BY <1>1 DEF Places, ReadOps, WriteOps
<1>6. Room' \in Int /\ want' <= Room' /\ 0 <= Room'
  BY <1>1, <1>3 DEF Room
<1>7. Reading'
  BY <1>1, <1>2, <1>3, <1>6 DEF Reading, Upto
<1>8. ALine'
  BY <1>1, <1>2, <1>3 DEF ALine
<1> QED
  BY <1>4, <1>5, <1>7, <1>8 DEF ReadInv

\* What recv gives follows what is in the buffer.
LEMMA ReadSomeKeeps ==
    ASSUME SockTypes, ReadInv, ReadSome
    PROVE  CallTypes' /\ ReadTypes' /\ ReadInv'
<1> USE SocketAssumption
<1>1. /\ pc = "read" /\ op \in ReadOps /\ op' = op /\ want' = want /\ len' = len
      /\ idle' = FALSE /\ UNCHANGED envVars /\ UNCHANGED writeVars
      /\ IF Upto \/ rdone' = want
         THEN res' = rdone' /\ pc' = "got" ELSE res' = res /\ pc' = pc
  BY DEF ReadSome, ReadInv, Places
<1>2. /\ taken \in Nat /\ want \in Nat /\ rdone \in Nat /\ len \in Nat
      /\ dst \in Seq(Nat) /\ Len(dst) \in Nat /\ arrived \in Nat /\ res \in Int
  BY LenProperties DEF SockTypes, ReadTypes, CallTypes
<1>3. PICK c \in 1 .. Smaller(Offer, arrived - taken) :
        /\ dst' = SubSeq(dst, 1, ReadAt) \o [i \in 1 .. c |-> taken + i]
        /\ taken' = taken + c /\ rdone' = rdone + c
  BY DEF ReadSome
<1>4. c \in Nat /\ c >= 1 /\ rdone + c <= want
  <2>1. Buff \in Nat
    OBVIOUS
  <2>2. Upto => rdone = 0
    BY <1>1 DEF ReadInv, Reading
  <2>3. Offer \in Int /\ Offer <= want - rdone
    BY <2>1, <2>2, <1>2 DEF Offer, Smaller
  <2>4. Smaller(Offer, arrived - taken) \in Int
        /\ Smaller(Offer, arrived - taken) <= Offer
    BY <2>3, <1>2 DEF Smaller
  <2> QED
    BY <2>3, <2>4, <1>2
<1>5. PICK new : new = [i \in 1 .. c |-> taken + i]
  OBVIOUS
<1>6. new \in Seq(Nat) /\ Len(new) = c /\ \A i \in 1 .. c : new[i] = taken + i
  <2>1. new \in [1 .. c -> Nat]
    BY <1>2, <1>4, <1>5
  <2> QED
    BY <2>1, <1>4, <1>5, Listed
<1>7. dst' = dst \o new
  <2>1. SubSeq(dst, 1, ReadAt) = dst
    BY <1>2, SubSeqFull DEF ReadAt
  <2> QED
    BY <2>1, <1>3, <1>5
<1>8. /\ dst' \in Seq(Nat) /\ Len(dst') = Len(dst) + c
      /\ \A i \in 1 .. Len(dst) : dst'[i] = dst[i]
      /\ \A i \in 1 .. c : dst'[Len(dst) + i] = taken + i
  <2> HIDE <1>5
  <2>0. dst \in Seq(Nat) /\ new \in Seq(Nat)
    BY <1>2, <1>6
  <2>1. PICK u : u = dst'
    OBVIOUS
  <2>2. u = dst \o new
    BY <2>1, <1>7
  <2>3. /\ u \in Seq(Nat)
        /\ Len(u) = Len(dst) + Len(new)
        /\ \A i \in 1 .. Len(dst) : u[i] = dst[i]
        /\ \A i \in 1 .. Len(new) : u[Len(dst) + i] = new[i]
    BY <2>0, <2>2, Joined
  <2> QED
    BY <2>1, <2>3, <1>6
<1>9. CallTypes' /\ ReadTypes'
  <2>1. taken' \in Nat /\ rdone' \in Nat
    BY <1>2, <1>3, <1>4
  <2>2. ReadTypes'
    BY <2>1, <1>1, <1>2, <1>8 DEF ReadTypes
  <2>3. res' \in Int /\ pc' \in {"read", "got"}
    BY <2>1, <1>1, <1>2
  <2> QED
    BY <2>2, <2>3, <1>1 DEF SockTypes, CallTypes, envVars
<1>10. Places'
  BY <1>1 DEF Places, ReadOps, WriteOps, ReadInv
<1>11. Room' = Room /\ Room \in Int
  BY <1>1, <1>2 DEF Room, DiscardWant, Smaller
<1>12. Reading'
  <2>0. Len(dst') \in Nat /\ Len(dst') = Len(dst) + c /\ Len(dst) \in Nat
    BY <1>2, <1>4, <1>8
  <2>1. \A i \in 1 .. Len(dst') - 1 : dst'[i + 1] = dst'[i] + 1
    <3> TAKE i \in 1 .. Len(dst') - 1
    <3>1. CASE i < Len(dst)
      <4>0. i \in Nat /\ i >= 1 /\ Len(dst) \in Nat
        BY <2>0
      <4>1. i \in 1 .. Len(dst) - 1 /\ i \in 1 .. Len(dst) /\ i + 1 \in 1 .. Len(dst)
        BY <3>1, <4>0
      <4>2. dst[i + 1] = dst[i] + 1
        BY <4>1 DEF ReadInv, Reading
      <4> QED
        BY <4>1, <4>2, <1>8
    <3>2. CASE i = Len(dst)
      <4>1. dst # <<>> /\ dst[Len(dst)] = taken
        BY <3>2, <1>1, <1>2 DEF ReadInv, Reading
      <4>2. dst'[i + 1] = taken + 1
        BY <3>2, <1>4, <1>8
      <4>3. dst'[i] = taken
        BY <3>2, <4>1, <1>8
      <4> QED
        BY <4>2, <4>3
    <3>3. CASE i > Len(dst)
      <4>1. PICK k : k = i - Len(dst)
        OBVIOUS
      <4>2. k \in 1 .. c /\ k + 1 \in 1 .. c /\ i = Len(dst) + k
            /\ i + 1 = Len(dst) + (k + 1)
        BY <4>1, <3>3, <1>2, <1>4, <1>8
      <4>3. dst'[i] = taken + k /\ dst'[i + 1] = taken + (k + 1)
        BY <4>2, <1>8
      <4> QED
        BY <4>2, <4>3, <1>2
    <3> QED
      BY <3>1, <3>2, <3>3, <1>2, <1>8
  <2>2. dst'[Len(dst')] = taken'
    <3>1. c \in 1 .. c
      BY <1>4
    <3>2. dst'[Len(dst) + c] = taken + c
      BY <3>1, <1>8
    <3> QED
      BY <3>2, <2>0, <1>3
  <2>3. op' \in ReadOps
    BY <1>1
  <2>4. rdone' <= want' /\ rdone' <= Len(dst')
    BY <1>1, <1>2, <1>3, <1>4, <1>8 DEF ReadInv, Reading
  <2>5. Len(dst') - rdone' + want' <= Room'
    BY <1>1, <1>2, <1>3, <1>4, <1>8, <1>11 DEF ReadInv, Reading
  <2>6. Len(dst') <= Room'
    BY <2>4, <2>5, <1>1, <1>2, <1>3, <1>4, <1>8, <1>11
  <2>7. ~(pc' = "read" /\ Upto')
    BY <1>1 DEF Upto
  <2>8. op' = "line" => len' >= 2
    BY <1>1 DEF ReadInv, Reading
  <2> QED
    BY <2>1, <2>2, <2>3, <2>4, <2>5, <2>6, <2>7, <2>8 DEF Reading
<1>13. ALine'
  <2> SUFFICES ASSUME op = "line" PROVE ALine'
    BY <1>1 DEF ALine
  <2>1. want = 1 /\ rdone = 0 /\ c = 1
    BY <1>1, <1>2, <1>4 DEF ReadInv, ALine
  <2>2. pc' = "got" /\ res' = 1
    BY <2>1, <1>1, <1>3
  <2>3. Len(dst') = Len(dst) + 1 /\ \A i \in 1 .. Len(dst) : dst'[i] = dst[i]
    BY <2>1, <1>8
  <2>4. \A i \in 1 .. Len(dst) : dst[i] \notin Newlines
    BY <1>1, <1>2 DEF ReadInv, ALine
  <2>5. \A i \in 1 .. Len(dst') - 1 : dst'[i] \notin Newlines
    BY <2>3, <2>4, <1>2
  <2>6. dst' # <<>>
    BY <2>3, <1>2
  <2> QED
    BY <2>1, <2>2, <2>5, <2>6, <1>1 DEF ALine
<1> QED
  BY <1>9, <1>10, <1>12, <1>13 DEF ReadInv

\* A call that waits, or ends without another byte.
LEMMA ReadWaitsKeeps ==
    ASSUME SockTypes, ReadInv, ReadBlocks \/ ReadEof \/ ReadFails
    PROVE  CallTypes' /\ ReadTypes' /\ ReadInv'
<1>1. /\ pc = "read" /\ op \in ReadOps /\ op' = op /\ idle' = idle
      /\ UNCHANGED envVars /\ UNCHANGED readVars
  BY DEF ReadBlocks, ReadEof, ReadFails, ReadInv, Places
<1>2. want' = want /\ len' = len /\ rdone' = rdone /\ dst' = dst /\ taken' = taken
      /\ peer' = peer
  BY <1>1 DEF readVars, envVars
<1>3. /\ rdone \in Nat /\ res \in Int /\ Len(dst) \in Nat
  BY LenProperties DEF SockTypes, ReadTypes, CallTypes
<1>4. \/ pc' = pc /\ res' = res
      \/ /\ pc' = "got" /\ res' \in Int
         /\ ~Upto => res' <= 0 \/ res' = rdone
         /\ ~Upto => peer # "open" \/ idle
  BY <1>3 DEF ReadBlocks, ReadEof, ReadFails, Block, Eof, ReadStop, ReadWait
<1>5. CallTypes'
  BY <1>1, <1>4 DEF SockTypes, CallTypes, envVars
<1>6. ReadTypes'
  BY <1>1, ReadTypesUntouched DEF SockTypes
<1>7. Places'
  BY <1>1, <1>4 DEF ReadInv, Places, ReadOps, WriteOps
<1>8. Room' = Room /\ Upto' = Upto
  BY <1>1, <1>2 DEF Room, DiscardWant, Upto
<1>9. Reading'
  BY <1>1, <1>2, <1>4, <1>8 DEF ReadInv, Reading
<1>10. ALine'
  <2>1. op = "line" => ~Upto /\ rdone = 0
    BY <1>1 DEF ReadInv, ALine, Upto
  <2>2. op = "line" /\ pc' = "got" => res' <= 0 /\ (peer # "open" \/ idle)
    BY <2>1, <1>1, <1>3, <1>4
  <2>3. CASE pc' = "got"
    BY <2>2, <2>3, <1>1, <1>2 DEF ReadInv, ALine
  <2>4. CASE pc' = pc
    BY <2>4, <1>1, <1>2 DEF ReadInv, ALine
  <2> QED
    BY <2>3, <2>4, <1>4
<1> QED
  BY <1>5, <1>6, <1>7, <1>9, <1>10 DEF ReadInv

\* The next transfer of a call has room for what it asks for.
LEMMA GotKeeps ==
    ASSUME SockTypes, ReadInv, Got
    PROVE  CallTypes' /\ ReadTypes' /\ ReadInv'
<1> USE SocketAssumption
<1>1. /\ pc = "got" /\ op \in ReadOps /\ rdone' = 0 /\ res' = 0 /\ idle' = idle
      /\ taken' = taken /\ UNCHANGED envVars
  BY DEF Got, ReadInv, Places
<1>2. /\ rdone \in Nat /\ Len(dst) \in Nat /\ Buff \in Nat /\ Buff > 0 /\ len \in Nat
      /\ want \in Nat /\ taken \in Nat /\ dst \in Seq(Nat)
  BY LenProperties DEF SockTypes, ReadTypes
<1>3. CASE Return
  <2>1. pc' = "free" /\ op' = "none" /\ want' = 0 /\ len' = 0 /\ dst' = <<>>
    BY <1>3 DEF Return
  <2>2. CallTypes' /\ ReadTypes'
    BY <2>1, <1>1, <1>2 DEF SockTypes, CallTypes, ReadTypes, envVars
  <2>3. ReadInv'
    BY <2>1, <1>1 DEF ReadInv, Places, Reading, ALine, Room, ReadOps, WriteOps, Upto
  <2> QED
    BY <2>2, <2>3
<1>4. ASSUME NEW n \in Nat, Again(n), n <= Room - Len(dst),
             op = "line" => n = 1 /\ dst # <<>> /\ dst[Len(dst)] \notin Newlines
      PROVE  CallTypes' /\ ReadTypes' /\ ReadInv'
  <2>1. pc' = "read" /\ op' = op /\ want' = n /\ len' = len /\ dst' = dst
    BY <1>4 DEF Again
  <2>2. CallTypes' /\ ReadTypes'
    BY <2>1, <1>1, <1>2 DEF SockTypes, CallTypes, ReadTypes, envVars
  <2>3. Places'
    BY <2>1, <1>1 DEF Places, ReadOps, WriteOps
  <2>4. Room' = Room /\ Room \in Int
    BY <2>1, <1>2 DEF Room, DiscardWant, Smaller
  <2>5. Reading'
    BY <2>1, <2>4, <1>1, <1>2, <1>4 DEF ReadInv, Reading
  <2>6. ALine'
    BY <2>1, <1>1, <1>4 DEF ReadInv, ALine
  <2> QED
    BY <2>2, <2>3, <2>5, <2>6 DEF ReadInv
<1>5. Len(dst) <= Room
  BY DEF ReadInv, Reading
<1>6. CASE op \in {"recv", "upto"}
  BY <1>3, <1>6 DEF Got
<1>7. CASE op = "line"
  <2>1. Return \/ (res > 0 /\ ~LineEnds /\ Again(1))
    BY <1>7 DEF Got, SockTypes, CallTypes
  <2>2. ASSUME res > 0, ~LineEnds, Again(1)
        PROVE  CallTypes' /\ ReadTypes' /\ ReadInv'
    <3>1. dst # <<>>
      BY <2>2, <1>1, <1>7 DEF ReadInv, ALine, SockTypes, CallTypes
    <3>2. dst[Len(dst)] \notin Newlines /\ Len(dst) < len - 1
      BY <2>2, <1>2 DEF LineEnds
    <3>3. Room = len - 1
      BY <1>7 DEF Room
    <3> QED
      BY <3>1, <3>2, <3>3, <2>2, <1>2, <1>4
  <2> QED
    BY <2>1, <2>2, <1>3
<1>8. CASE op = "post"
  <2>1. Return \/ Again(Smaller(Buff, len - Len(dst)))
    BY <1>8 DEF Got
  <2>2. Room = len
    BY <1>8 DEF Room
  <2>3. Smaller(Buff, len - Len(dst)) \in Nat
        /\ Smaller(Buff, len - Len(dst)) <= Room - Len(dst)
    BY <2>2, <1>2, <1>5 DEF Smaller
  <2> QED
    BY <2>1, <2>3, <1>3, <1>4, <1>8
<1>9. CASE op = "discard"
  <2>1. Return \/ (Len(dst) < len /\ Again(DiscardWant(len)))
    BY <1>9, <1>2 DEF Got
  <2>2. Room = len + DiscardWant(len) - 1
    BY <1>9 DEF Room
  <2>3. ASSUME Len(dst) < len, Again(DiscardWant(len))
        PROVE  CallTypes' /\ ReadTypes' /\ ReadInv'
    <3>1. DiscardWant(len) \in Nat
      BY <1>2 DEF DiscardWant, Smaller
    <3>2. DiscardWant(len) <= Room - Len(dst)
      BY <3>1, <2>2, <2>3, <1>2
    <3> QED
      BY <3>1, <3>2, <2>3, <1>4, <1>9
  <2> QED
    BY <2>1, <2>3, <1>3
<1> QED
  BY <1>1, <1>6, <1>7, <1>8, <1>9 DEF ReadOps

\* No step of a reading call breaks the invariant.
LEMMA ReadsKeep ==
    ASSUME SockInv, ReadStep
    PROVE  SockInv'
<1>1. CallTypes' /\ ReadTypes' /\ ReadInv'
  BY BeginReadKeeps, ReadSomeKeeps, ReadWaitsKeeps, GotKeeps DEF ReadStep, SockInv
<1>2. UNCHANGED writeVars /\ peer' = peer
  BY DEF ReadStep, BeginRead, ReadSome, ReadBlocks, ReadEof, ReadFails, Got, envVars
<1>3. /\ pc \in ReadPlaces /\ pc' \in ReadPlaces
      /\ op \in ReadOps \cup {"none"} /\ op' \in ReadOps \cup {"none"}
  <2>1. CASE BeginRead
    BY <2>1 DEF BeginRead, ReadPlaces, SockInv, ReadInv, Places
  <2>2. CASE ReadSome \/ ReadBlocks \/ ReadEof \/ ReadFails
    BY <2>2 DEF ReadSome, ReadBlocks, ReadEof, ReadFails, Block, Eof, ReadStop,
                ReadWait, ReadPlaces, SockInv, ReadInv, Places
  <2>3. CASE Got
    BY <2>3 DEF Got, Return, Again, ReadPlaces, ReadOps, SockInv, ReadInv, Places
  <2> QED
    BY <2>1, <2>2, <2>3 DEF ReadStep
<1>4. WriteInv'
  BY <1>2, <1>3, WritingUntouched DEF SockInv
<1>5. WriteTypes'
  BY <1>2, WriteTypesUntouched DEF SockInv, SockTypes
<1>6. HoleNeedsTimeout'
  <2>1. wire' = wire /\ pos' \in Nat /\ lost \subseteq lost' /\ second' = second
    BY <1>2, <1>5 DEF writeVars, WriteTypes
  <2> QED
    BY <2>1, HolesKept DEF SockInv, WriteInv
<1> QED
  BY <1>1, <1>4, <1>5, <1>6 DEF SockInv, SockTypes

\* The peer, the clock, and nothing at all.
LEMMA OthersKeep ==
    ASSUME SockInv, Peer \/ Tick \/ UNCHANGED vars
    PROVE  SockInv'
<1>1. /\ UNCHANGED readVars /\ UNCHANGED writeVars
      /\ pc' = pc /\ op' = op /\ res' = res
      /\ idle' = idle \/ idle' = TRUE
      /\ ssl' = ssl
      /\ arrived' = arrived \/ arrived' = arrived + 1
      /\ peer' = peer \/ (peer = "open" /\ peer' = "shut") \/ peer' = "reset"
  BY DEF Peer, Tick, vars, envVars
<1>2. CallTypes' /\ ReadTypes' /\ WriteTypes'
  <2>1. CallTypes'
    <3>1. CallTypes
      BY DEF SockInv, SockTypes
    <3>2. ssl' \in BOOLEAN /\ idle' \in BOOLEAN
      BY <3>1, <1>1, Zenon DEF CallTypes
    <3>3. peer' \in {"open", "shut", "reset"} /\ arrived' \in Nat
      BY <3>1, <1>1 DEF CallTypes
    <3> QED
      BY <3>1, <3>2, <3>3, <1>1 DEF CallTypes
  <2> QED
    BY <2>1, <1>1, ReadTypesUntouched, WriteTypesUntouched DEF SockInv, SockTypes
<1>3. ReadInv'
  <2>1. want' = want /\ len' = len /\ rdone' = rdone /\ dst' = dst /\ taken' = taken
    BY <1>1 DEF readVars
  <2>2. Places'
    BY <1>1 DEF SockInv, ReadInv, Places
  <2>3. Reading'
    BY <2>1, <1>1 DEF SockInv, ReadInv, Reading, Room, DiscardWant, Upto
  <2>4. ALine'
    BY <2>1, <1>1 DEF SockInv, ReadInv, ALine
  <2> QED
    BY <2>2, <2>3, <2>4 DEF ReadInv
<1>4. WriteInv' /\ HoleNeedsTimeout'
  <2>1. WriteInv'
    BY <1>1, WritingUntouched DEF SockInv
  <2>2. wire' = wire /\ pos' = pos /\ lost' = lost /\ second' = second
    BY <1>1 DEF writeVars
  <2>3. HoleNeedsTimeout'
    BY <2>2 DEF SockInv, HoleNeedsTimeout, OnWire
  <2> QED
    BY <2>1, <2>3
<1> QED
  BY <1>2, <1>3, <1>4 DEF SockInv, SockTypes

-----------------------------------------------------------------------------
(***************************************************************************)
(* A call that writes begins, one of its chunks does, and it ends.         *)
(***************************************************************************)
\* The parts of __b.
LEMMA OnePart ==
    ASSUME NEW n \in Nat
    PROVE  <<Part(n, FALSE)>> \in Seq(PartType)
  BY DEF Part, PartType

\* A sequence of two.
LEMMA TwoOf ==
    ASSUME NEW S, NEW a \in S, NEW b \in S
    PROVE  <<a, b>> \in Seq(S)
  OBVIOUS

\* The parts of __t.
LEMMA TextParts == Text(1) \in Seq(PartType)
<1>1. Part(1, FALSE) \in PartType /\ Part(1, TRUE) \in PartType
  BY DEF Part, PartType
<1> QED
  BY <1>1, TwoOf DEF Text

\* The parts of antd_send_header.
LEMMA HeaderParts ==
    /\ Header \in Seq(PartType) /\ Len(Header) = 2 * HeaderLines + 1
    /\ \A i \in 1 .. Len(Header) : Header[i].n = 1
<1>1. 2 * HeaderLines + 1 \in Nat
  BY SocketAssumption
<1>2. \A i \in 1 .. 2 * HeaderLines + 1 :
        Part(1, i % 2 = 0) \in PartType /\ Part(1, i % 2 = 0).n = 1
  BY DEF Part, PartType
<1>3. Header \in [1 .. 2 * HeaderLines + 1 -> PartType]
  BY <1>2 DEF Header
<1>4. Header \in Seq(PartType) /\ Len(Header) = 2 * HeaderLines + 1
  BY <1>1, <1>3, Listed
<1> QED
  BY <1>2, <1>4 DEF Header

\* Nothing precedes and follows everything.
LEMMA NothingBefore ==
    ASSUME NEW s, Len(s) = 0
    PROVE  /\ InOrder(s) /\ \A p, k : Produced(s, p, k)
           /\ \A x : AllBefore(x, s) /\ AllBefore(s, x)
  BY DEF InOrder, AllBefore, Produced

\* A call that writes starts: compression begins after all that there is, and what
\* a replaced zstream held is dropped.
LEMMA BeginsKeep ==
    ASSUME SockInv, BeginData \/ BeginHeader
    PROVE  WriteTypes' /\ WriteInv' /\ HoleNeedsTimeout'
<1>1. /\ pc = "free" /\ pc' = "part" /\ op = "none" /\ op' \in WriteOps
      /\ pos' = pos /\ chunk' = chunk /\ written' = written /\ pend' = pend
      /\ zfull' = zfull /\ wire' = wire
      /\ lost' = lost /\ peer' = peer
  BY DEF BeginData, BeginHeader, BeginWrite, WriteOps, SockInv, ReadInv, Places, envVars
<1>2. \/ /\ op' # "header" /\ second' = second
         /\ zon' = zon /\ zfrom' = zfrom /\ zbuf' = zbuf /\ dropped' = dropped
      \/ /\ op' = "header" /\ todo' = Header /\ second' = (second \/ zon)
         /\ \/ zon' = zon /\ zfrom' = zfrom /\ zbuf' = zbuf /\ dropped' = dropped
            \/ NewStream
  BY DEF BeginData, BeginHeader, BeginWrite
<1>3. todo' \in Seq(PartType)
  <2>1. ASSUME NEW o, NEW n \in SendLens, BeginWrite(o, <<Part(n, FALSE)>>, n)
        PROVE  todo' \in Seq(PartType)
    <3>1. n \in Nat
      BY SocketAssumption
    <3> QED
      BY <2>1, <3>1, OnePart DEF BeginWrite
  <2>2. CASE BeginWrite("text", Text(1), 2)
    BY <2>2, TextParts DEF BeginWrite
  <2>3. CASE BeginHeader
    BY <2>3, HeaderParts DEF BeginHeader, BeginWrite
  <2> QED
    BY <2>1, <2>2, <2>3 DEF BeginData
<1>4. WriteTypes
  BY DEF SockInv, SockTypes
<1>5. Len(Header) \in Nat /\ Len(zbuf) \in Nat /\ pos \in Nat /\ zfrom \in Nat
  BY <1>4, HeaderParts, SocketAssumption, LenProperties DEF WriteTypes
<1>6. zon' \in BOOLEAN /\ second' \in BOOLEAN /\ zfrom' \in Nat /\ zbuf' \in Seq(Byte)
  <2>1. zon' \in BOOLEAN /\ second' \in BOOLEAN
    BY <1>2, <1>4, Zenon DEF WriteTypes, NewStream
  <2>2. zfrom' \in Nat
    BY <1>2, <1>5 DEF NewStream
  <2>3. zbuf' \in Seq(Byte)
    BY <1>2, <1>4, EmptySeq DEF WriteTypes, NewStream
  <2> QED
    BY <2>1, <2>2, <2>3
<1>7. WriteTypes'
  BY <1>1, <1>3, <1>4, <1>6 DEF WriteTypes
<1>8. /\ \A x \in {wire, pend, zbuf} : Produced(x, pos, Stream)
      /\ AllBefore(wire, zbuf) /\ AllBefore(pend, zbuf)
      /\ ~zon => zbuf = <<>> /\ Len(zbuf) = 0
      /\ ~second => dropped = {}
      /\ \A n \in dropped : n \in 0 .. pos
      /\ chunk = <<>> /\ Len(chunk) = 0
  BY <1>1, <1>4 DEF SockInv, WriteInv, AllProduced, Ordered, Zipping, Sizes, WriteTypes
\* Nothing of what deflate holds has been sent.
<1>9. ASSUME NewStream, NEW x, AllBefore(x, zbuf), Produced(x, pos, Stream),
             NEW i \in 1 .. Len(x), x[i] # Trailer
      PROVE  x[i][1] \in 1 .. pos /\ x[i][1] \notin dropped'
  <2>1. x[i][1] \in 1 .. pos /\ x[i][1] \notin dropped
    BY <1>9 DEF Produced, Made, Stream
  <2>2. ASSUME NEW j \in 1 .. Len(zbuf) PROVE x[i][1] # zbuf[j][1]
    <3>1. Before(x[i], zbuf[j])
      BY <1>9 DEF AllBefore
    <3>2. CASE zbuf[j] = Trailer
      <4>1. zbuf[j][1] = 0
        BY <3>2 DEF Trailer
      <4> QED
        BY <4>1, <2>1, <1>5
    <3>3. CASE zbuf[j] # Trailer
      <4>1. Made(zbuf[j], pos, Stream)
        BY <1>8 DEF Produced
      <4>2. zbuf[j][1] \in 1 .. pos
        BY <4>1, <3>3 DEF Made
      <4> QED
        BY <4>2, <3>1, <3>3, <2>1, <1>5, <1>9 DEF Before
    <3> QED
      BY <3>2, <3>3
  <2>3. dropped' = dropped \cup {zbuf[j][1] : j \in 1 .. Len(zbuf)}
    BY <1>9 DEF NewStream
  <2> QED
    BY <2>1, <2>2, <2>3
<1>10. ASSUME NEW x, Produced(x, pos, Stream), NewStream => AllBefore(x, zbuf)
       PROVE  Produced(x, pos', Stream')
  <2> SUFFICES ASSUME NEW i \in 1 .. Len(x), x[i] # Trailer
               PROVE  /\ x[i][1] \in 1 .. pos /\ x[i][1] \notin dropped'
                      /\ second' \/ x[i][2] = (zon' /\ x[i][1] > zfrom')
    BY <1>1 DEF Produced, Made, Stream
  <2>1. /\ x[i][1] \in 1 .. pos /\ x[i][1] \notin dropped
        /\ second \/ x[i][2] = (zon /\ x[i][1] > zfrom)
    BY <1>10 DEF Produced, Made, Stream
  <2>2. second => second'
    BY <1>2
  <2>3. CASE zon' = zon /\ zfrom' = zfrom /\ dropped' = dropped
    BY <2>1, <2>2, <2>3
  <2>4. CASE NewStream
    <3>1. x[i][1] \notin dropped'
      BY <1>9, <1>10, <2>4
    <3>2. CASE op' = "header" /\ zon
      <4>1. second'
        BY <3>2, <1>2
      <4> QED
        BY <4>1, <3>1, <2>1
    <3>3. CASE ~zon
      <4>1. second \/ x[i][2] = FALSE
        BY <2>1, <3>3
      <4>2. zon' => ~(x[i][1] > zfrom')
        BY <2>1, <2>4, <1>5 DEF NewStream
      <4> QED
        BY <4>1, <4>2, <3>1, <2>1, <2>2
    <3>4. CASE op' # "header"
      BY <2>1, <3>4, <1>2
    <3> QED
      BY <3>2, <3>3, <3>4
  <2> QED
    BY <2>3, <2>4, <1>2
<1>11. zbuf' = <<>> \/ (zbuf' = zbuf /\ dropped' = dropped)
  BY <1>2 DEF NewStream
<1>12. AllProduced'
  <2>1. Produced(wire, pos', Stream') /\ Produced(pend, pos', Stream')
    BY <1>8, <1>10
  <2>2. Produced(<<>>, pos', Stream')
    BY NothingBefore, EmptySeq
  <2>3. Produced(zbuf', pos', Stream')
    <3>1. CASE NewStream
      <4>1. zbuf' = <<>>
        BY <3>1 DEF NewStream
      <4> QED
        BY <4>1, <2>2
    <3>2. CASE ~NewStream
      <4>1. Produced(zbuf, pos', Stream') /\ zbuf' = zbuf
        BY <3>2, <1>2, <1>8, <1>10
      <4> QED
        BY <4>1
    <3> QED
      BY <3>1, <3>2
  <2> QED
    BY <2>1, <2>2, <2>3, <1>1, <1>8 DEF AllProduced
<1>13. Ordered'
  <2>1. CASE zbuf' = zbuf
    BY <1>1, <2>1, SMTT(30) DEF SockInv, WriteInv, Ordered, InOrder, AllBefore, Before
  <2>2. CASE zbuf' = <<>>
    <3>1. InOrder(zbuf') /\ \A x : AllBefore(x, zbuf')
      BY <2>2, NothingBefore, EmptySeq
    <3> QED
      BY <1>1, <3>1 DEF SockInv, WriteInv, Ordered
  <2> QED
    BY <2>1, <2>2, <1>11
<1>14. Left' = Len(todo')
  BY <1>1, <1>3, LenProperties DEF Left
<1>15. Zipping'
  <2>1. ~zon' => zbuf' = <<>>
    BY <1>2, <1>8 DEF NewStream
  <2>2. \A i \in 1 .. Len(zbuf') : zbuf'[i][2] = TRUE
    BY <1>11, EmptySeq DEF SockInv, WriteInv, Zipping
  <2>3. /\ op' = "header" => \A i \in 1 .. Len(todo') : todo'[i].n = 1
        /\ op' = "header" /\ ~second' => zbuf' = <<>>
    BY <1>2, <1>8, HeaderParts DEF NewStream
  <2>4. zon' /\ op' = "header" /\ ~second' => zfrom' = pos' + Left'
    BY <1>1, <1>2, <1>14 DEF NewStream
  <2>5. zon' /\ op' # "header" /\ ~second' => zfrom' <= pos'
    BY <1>1, <1>2 DEF SockInv, WriteInv, Zipping
  <2>6. (~second' => dropped' = {}) /\ \A n \in dropped' : n \in 0 .. pos'
    <3>1. CASE dropped' = dropped
      BY <3>1, <1>1, <1>2, <1>8
    <3>2. CASE NewStream
      <4>1. dropped' = dropped \cup {zbuf[j][1] : j \in 1 .. Len(zbuf)}
        BY <3>2 DEF NewStream
      <4>2. ASSUME NEW j \in 1 .. Len(zbuf) PROVE zbuf[j][1] \in 0 .. pos
        <5>1. CASE zbuf[j] = Trailer
          BY <5>1, <1>5 DEF Trailer
        <5>2. CASE zbuf[j] # Trailer
          <6>1. Made(zbuf[j], pos, Stream)
            BY <1>8 DEF Produced
          <6> QED
            BY <6>1, <5>2, <1>5 DEF Made
        <5> QED
          BY <5>1, <5>2
      <4>3. dropped' = dropped \/ second'
        <5>1. CASE op' = "header" /\ zon
          BY <5>1, <1>2
        <5>2. CASE ~zon
          BY <5>2, <4>1, <1>8
        <5>3. CASE op' # "header"
          BY <5>3, <1>2
        <5> QED
          BY <5>1, <5>2, <5>3
      <4> QED
        BY <4>1, <4>2, <4>3, <1>1, <1>2, <1>8
    <3> QED
      BY <3>1, <3>2, <1>2
  <2> QED
    BY <2>1, <2>2, <2>3, <2>4, <2>5, <2>6, <1>1 DEF Zipping, WriteOps
<1>16. Sizes'
  BY <1>1, <1>4 DEF SockInv, WriteInv, Sizes
<1>17. Whole'
  <2> SUFFICES ASSUME lost = {} PROVE Covered' /\ Ended'
    BY <1>1 DEF Whole
  <2>1. ASSUME NEW n \in 1 .. pos
        PROVE  Has(wire, n) \/ Has(zbuf', n) \/ n \in dropped'
    <3>1. Has(wire, n) \/ Has(zbuf, n) \/ n \in dropped
      <4>1. \A j \in written + 1 .. Len(chunk) : FALSE
        BY <1>4, <1>8 DEF WriteTypes
      <4> QED
        BY <4>1 DEF SockInv, WriteInv, Whole, Covered, Rest
    <3>2. CASE zbuf' = zbuf /\ dropped' = dropped
      BY <3>1, <3>2
    <3>3. CASE NewStream
      BY <3>1, <3>3 DEF NewStream, Has
    <3> QED
      BY <3>2, <3>3, <1>2
  <2>2. Covered'
    BY <2>1, <1>1 DEF Covered, Has
  <2>3. Ended'
    BY <1>1 DEF Ended, WriteOps
  <2> QED
    BY <2>2, <2>3
<1>18. Causes'
  BY <1>1 DEF SockInv, WriteInv, Causes
<1>19. HoleNeedsTimeout'
  BY <1>1, <1>2 DEF SockInv, HoleNeedsTimeout, OnWire
<1> QED
  BY <1>7, <1>12, <1>13, <1>15, <1>16, <1>17, <1>18, <1>19 DEF WriteInv

\* It ends: a header that began the compression is complete.
LEMMA PartsDoneKeeps ==
    ASSUME SockInv, PartsDone
    PROVE  WriteTypes' /\ WriteInv' /\ HoleNeedsTimeout'
<1>1. /\ pc = "part" /\ pc' = "free" /\ op' = "none" /\ op \in WriteOps /\ todo = <<>>
      /\ todo' = todo
      /\ pos' = pos /\ chunk' = chunk /\ written' = written /\ pend' = pend
      /\ zbuf' = zbuf /\ zfull' = zfull /\ wire' = wire
      /\ lost' = lost /\ peer' = peer /\ zon' = zon /\ zfrom' = zfrom
      /\ second' = second /\ dropped' = dropped
  BY DEF PartsDone, SockInv, ReadInv, Places, envVars
<1>2. WriteTypes'
  BY <1>1 DEF SockInv, SockTypes, WriteTypes
<1>3. AllProduced'
  BY <1>1 DEF SockInv, WriteInv, AllProduced, Stream
<1>4. Ordered'
  BY <1>1 DEF SockInv, WriteInv, Ordered, InOrder, AllBefore, Before
<1>5. Zipping'
  <2>1. Left = 0 /\ pos \in Nat
    BY <1>1 DEF Left, SockInv, SockTypes, WriteTypes
  <2> QED
    BY <2>1, <1>1 DEF SockInv, WriteInv, Zipping
<1>6. Sizes' /\ Whole'
  BY <1>1 DEF SockInv, WriteInv, Sizes, Whole, Covered, Has, Rest, Ended, WriteOps
<1>7. Causes'
  BY <1>1 DEF SockInv, WriteInv, Causes
<1>8. HoleNeedsTimeout'
  BY <1>1 DEF SockInv, HoleNeedsTimeout, OnWire
<1> QED
  BY <1>2, <1>3, <1>4, <1>5, <1>6, <1>7, <1>8 DEF WriteInv

-----------------------------------------------------------------------------
(***************************************************************************)
(* Lemmas about the order of the bytes.                                    *)
(***************************************************************************)
\* Joining two sequences of which one precedes the other keeps the order.
LEMMA JoinedOrder ==
    ASSUME NEW s \in Seq(Byte), NEW t \in Seq(Byte), NEW u, u = s \o t
    PROVE  /\ InOrder(s) /\ InOrder(t) /\ AllBefore(s, t) => InOrder(u)
           /\ \A x : AllBefore(x, s) /\ AllBefore(x, t) => AllBefore(x, u)
           /\ \A x : AllBefore(s, x) /\ AllBefore(t, x) => AllBefore(u, x)
           /\ \A p, k : Produced(s, p, k) /\ Produced(t, p, k)
                            => Produced(u, p, k)
<1>1. /\ u \in Seq(Byte) /\ Len(u) = Len(s) + Len(t)
      /\ \A i \in 1 .. Len(u) :
            \/ i \in 1 .. Len(s) /\ u[i] = s[i]
            \/ \E j \in 1 .. Len(t) : i = Len(s) + j /\ u[i] = t[j]
  <2>1. s \in Seq(Byte) /\ t \in Seq(Byte) /\ u = s \o t
    OBVIOUS
  <2>2. FromEither(u, s, t)
    BY <2>1, JoinedElements
  <2>3. u \in Seq(Byte) /\ Len(u) = Len(s) + Len(t)
    BY <2>1, Joined
  <2> QED
    BY <2>2, <2>3 DEF FromEither
<1>2. Len(s) \in Nat /\ Len(t) \in Nat
  BY LenProperties
<1>3. ASSUME InOrder(s), InOrder(t), AllBefore(s, t)
      PROVE  InOrder(u)
  <2> SUFFICES ASSUME NEW i \in 1 .. Len(u), NEW j \in 1 .. Len(u), i < j
               PROVE  Before(u[i], u[j])
    BY DEF InOrder
  <2>1. CASE i \in 1 .. Len(s) /\ u[i] = s[i] /\ j \in 1 .. Len(s) /\ u[j] = s[j]
    BY <2>1, <1>3 DEF InOrder
  <2>2. ASSUME i \in 1 .. Len(s), u[i] = s[i], NEW l \in 1 .. Len(t), u[j] = t[l]
        PROVE  Before(u[i], u[j])
    BY <2>2, <1>3 DEF AllBefore
  <2>3. ASSUME NEW m \in 1 .. Len(t), NEW l \in 1 .. Len(t),
               i = Len(s) + m, j = Len(s) + l, u[i] = t[m], u[j] = t[l]
        PROVE  Before(u[i], u[j])
    <3>1. m < l
      BY <2>3, <1>2
    <3> QED
      BY <2>3, <3>1, <1>3 DEF InOrder
  <2>4. ~(i \notin 1 .. Len(s) /\ j \in 1 .. Len(s))
    BY <1>1, <1>2
  <2>5. CASE i \in 1 .. Len(s) /\ u[i] = s[i]
    BY <2>1, <2>2, <2>5, <1>1
  <2>6. ASSUME NEW m \in 1 .. Len(t), i = Len(s) + m, u[i] = t[m]
        PROVE  Before(u[i], u[j])
    <3>1. i \notin 1 .. Len(s)
      BY <2>6, <1>2
    <3>2. PICK l \in 1 .. Len(t) : j = Len(s) + l /\ u[j] = t[l]
      BY <3>1, <2>4, <1>1
    <3> QED
      BY <3>2, <2>3, <2>6
  <2> QED
    BY <1>1, <2>5, <2>6
<1>4. ASSUME NEW x, AllBefore(x, s), AllBefore(x, t) PROVE AllBefore(x, u)
  BY <1>1, <1>4 DEF AllBefore
<1>5. ASSUME NEW x, AllBefore(s, x), AllBefore(t, x) PROVE AllBefore(u, x)
  BY <1>1, <1>5 DEF AllBefore
<1>6. ASSUME NEW p, NEW k, Produced(s, p, k), Produced(t, p, k)
      PROVE  Produced(u, p, k)
  BY <1>1, <1>6 DEF Produced
<1> QED
  BY <1>3, <1>4, <1>5, <1>6

\* Each of the four facts of JoinedOrder on its own: a sequence joined of two
\* ordered ones, the first of which is before the second, is ordered ...
LEMMA JoinedInOrder ==
    ASSUME NEW s \in Seq(Byte), NEW t \in Seq(Byte), NEW u, u = s \o t,
           InOrder(s), InOrder(t), AllBefore(s, t)
    PROVE  InOrder(u)
BY JoinedOrder

\* ... what is before both is before the joined sequence ...
LEMMA JoinedAfter ==
    ASSUME NEW s \in Seq(Byte), NEW t \in Seq(Byte), NEW u, u = s \o t,
           NEW x, AllBefore(x, s), AllBefore(x, t)
    PROVE  AllBefore(x, u)
BY JoinedOrder

\* ... what is after both is after it ...
LEMMA JoinedBefore ==
    ASSUME NEW s \in Seq(Byte), NEW t \in Seq(Byte), NEW u, u = s \o t,
           NEW x, AllBefore(s, x), AllBefore(t, x)
    PROVE  AllBefore(u, x)
BY JoinedOrder

\* ... and what holds of the bytes of both holds of its bytes.
LEMMA JoinedProduced ==
    ASSUME NEW s \in Seq(Byte), NEW t \in Seq(Byte), NEW u, u = s \o t,
           NEW p, NEW k, Produced(s, p, k), Produced(t, p, k)
    PROVE  Produced(u, p, k)
BY JoinedOrder

\* It has the bytes of both.
LEMMA JoinedHas ==
    ASSUME NEW s \in Seq(Byte), NEW t \in Seq(Byte), NEW u, u = s \o t, NEW n
    PROVE  Has(u, n) <=> Has(s, n) \/ Has(t, n)
<1>1. s \in Seq(Byte) /\ t \in Seq(Byte) /\ u = s \o t
  OBVIOUS
<1>2. FromEither(u, s, t)
  BY <1>1, JoinedElements
<1>3. /\ Len(u) = Len(s) + Len(t)
      /\ \A i \in 1 .. Len(s) : u[i] = s[i]
      /\ \A i \in 1 .. Len(t) : u[Len(s) + i] = t[i]
  BY <1>1, Joined
<1>4. Len(s) \in Nat /\ Len(t) \in Nat
  BY LenProperties
<1>5. Has(u, n) => Has(s, n) \/ Has(t, n)
  BY <1>2 DEF Has, FromEither
<1>6. ASSUME Has(s, n) PROVE Has(u, n)
  <2>1. PICK i \in 1 .. Len(s) : s[i][1] = n
    BY <1>6 DEF Has
  <2>2. i \in 1 .. Len(u) /\ u[i] = s[i]
    BY <1>3, <1>4
  <2> QED
    BY <2>1, <2>2 DEF Has
<1>7. ASSUME Has(t, n) PROVE Has(u, n)
  <2>1. PICK i \in 1 .. Len(t) : t[i][1] = n
    BY <1>7 DEF Has
  <2>2. Len(s) + i \in 1 .. Len(u) /\ u[Len(s) + i] = t[i]
    BY <1>3, <1>4
  <2> QED
    BY <2>1, <2>2 DEF Has
<1> QED
  BY <1>5, <1>6, <1>7

\* A piece of a sequence is in the order of the sequence.
LEMMA PieceOrder ==
    ASSUME NEW s, NEW t, NEW m \in Nat, PieceOf(t, s, m)
    PROVE  /\ InOrder(s) => InOrder(t)
           /\ \A x : AllBefore(x, s) => AllBefore(x, t)
           /\ \A x : AllBefore(s, x) => AllBefore(t, x)
           /\ \A p, k : Produced(s, p, k) => Produced(t, p, k)
<1>1. ASSUME InOrder(s) PROVE InOrder(t)
  <2> SUFFICES ASSUME NEW i \in 1 .. Len(t), NEW j \in 1 .. Len(t), i < j
               PROVE  Before(t[i], t[j])
    BY DEF InOrder
  <2>1. m + i < m + j
    OBVIOUS
  <2> QED
    BY <2>1, <1>1 DEF InOrder, PieceOf
<1>2. ASSUME NEW x, AllBefore(x, s) PROVE AllBefore(x, t)
  BY <1>2 DEF AllBefore, PieceOf
<1>3. ASSUME NEW x, AllBefore(s, x) PROVE AllBefore(t, x)
  BY <1>3 DEF AllBefore, PieceOf
<1>4. ASSUME NEW p, NEW k, Produced(s, p, k) PROVE Produced(t, p, k)
  BY <1>4 DEF Produced, PieceOf
<1> QED
  BY <1>1, <1>2, <1>3, <1>4

\* What was produced stays produced.
LEMMA ProducedStays ==
    ASSUME NEW p \in Nat, NEW q \in Nat, p <= q, NEW k, NEW s,
           Produced(s, p, k)
    PROVE  Produced(s, q, k)
  BY DEF Produced, Made

\* The bytes of the next chunk follow all that there are.
LEMMA NextChunkKeeps ==
    ASSUME SockInv, NextChunk
    PROVE  WriteTypes' /\ WriteInv' /\ HoleNeedsTimeout'
<1> USE SocketAssumption
<1>1. /\ pc = "part" /\ pc' \in {"deflate", "raw"} /\ op' = op /\ op \in WriteOps
      /\ todo # <<>> /\ todo' = todo
      /\ written' = 0 /\ pend' = pend /\ zfull' = zfull /\ wire' = wire
      /\ lost' = lost /\ peer' = peer /\ zon' = zon /\ zfrom' = zfrom
      /\ second' = second /\ dropped' = dropped
      /\ pos' = pos + ChunkLen
  BY DEF NextChunk, SockInv, ReadInv, Places, envVars
<1>2. /\ pos \in Nat /\ zfrom \in Nat /\ todo \in Seq(PartType) /\ zon \in BOOLEAN
      /\ chunk \in Seq(Byte) /\ pend \in Seq(Byte)
      /\ zbuf \in Seq(Byte) /\ wire \in Seq(Byte) /\ written \in Nat
      /\ zfull \in BOOLEAN /\ second \in BOOLEAN /\ lost \subseteq {"timeout", "error"}
  BY DEF SockInv, SockTypes, WriteTypes
<1>3. todo[1].n \in Nat /\ Len(todo) \in Nat /\ Len(todo) > 0
  <2>1. Len(todo) \in Nat /\ Len(todo) # 0
    BY <1>1, <1>2, LenProperties, EmptySeq
  <2>2. 1 \in 1 .. Len(todo)
    BY <2>1
  <2>3. todo[1] \in PartType
    BY <1>2, <2>2, ElementOfSeq
  <2> QED
    BY <2>1, <2>3 DEF PartType
<1>4. /\ ChunkLen \in Nat
      /\ op = "header" => ChunkLen = 1 /\ todo[1].n = 1
  <2>1. op = "header" => todo[1].n = 1
    BY <1>3 DEF SockInv, WriteInv, Zipping
  <2> QED
    BY <2>1, <1>3 DEF ChunkLen, Smaller
<1>5. PICK k : k = ChunkLen
  OBVIOUS
<1>6. PICK data : data = [i \in 1 .. k |-> <<pos + i, Compress>>]
  OBVIOUS
<1>7. IF Compress THEN zbuf' = zbuf \o data /\ pc' = "deflate" /\ chunk' = chunk
                  ELSE chunk' = data /\ pc' = "raw" /\ zbuf' = zbuf
  BY <1>5, <1>6 DEF NextChunk
<1>8. /\ data \in Seq(Byte) /\ Len(data) = k
      /\ \A i \in 1 .. k : data[i] = <<pos + i, Compress>>
  <2>1. Compress \in BOOLEAN
    BY <1>2 DEF Compress
  <2>2. data \in [1 .. k -> Byte]
    BY <2>1, <1>2, <1>4, <1>5, <1>6 DEF Byte
  <2>3. k \in Nat
    BY <1>4, <1>5
  <2> QED
    BY <2>2, <2>3, <1>6, Listed
<1>9. chunk = <<>> /\ Len(chunk) = 0 /\ written = 0
  BY <1>1, <1>2 DEF SockInv, WriteInv, Sizes
<1>10. pos' \in Nat /\ pos <= pos' /\ k \in Nat /\ pos' = pos + k
  BY <1>1, <1>2, <1>4, <1>5
<1>11. Left = Len(todo) /\ Left' = Len(todo) - (IF pc' = "raw" THEN 1 ELSE 0)
  BY <1>1, <1>3 DEF Left
\* A new byte follows all that there are.
<1>12. ASSUME NEW i \in 1 .. Len(data)
       PROVE  /\ data[i] # Trailer /\ data[i][1] = pos + i
              /\ data[i][2] = Compress
              /\ second \/ Compress = (zon /\ pos + i > zfrom)
  <2>1. data[i] = <<pos + i, Compress>> /\ i \in Nat /\ i >= 1
    BY <1>8, <1>10
  <2>2. data[i][1] = pos + i /\ data[i][2] = Compress
    BY <2>1
  <2>3. data[i] # Trailer
    <3>1. Trailer[1] = 0
      BY DEF Trailer
    <3>2. pos + i # 0
      BY <2>1, <1>2
    <3> QED
      BY <2>2, <3>1, <3>2
  <2>4. CASE zon /\ op = "header" /\ ~second
    <3>1. zfrom = pos + Len(todo) /\ i = 1
      BY <2>4, <1>4, <1>5, <1>8, <1>11 DEF SockInv, WriteInv, Zipping
    <3>2. ~(pos + i > zfrom)
      BY <3>1, <1>2, <1>3
    <3> QED
      BY <2>2, <2>3, <2>4, <3>2 DEF Compress
  <2>5. CASE zon /\ op # "header" /\ ~second
    <3>1. zfrom <= pos
      BY <2>5 DEF SockInv, WriteInv, Zipping
    <3>2. pos + i > zfrom
      BY <3>1, <2>1, <1>2
    <3> QED
      BY <2>2, <2>3, <2>5, <3>2 DEF Compress
  <2>6. CASE ~zon
    BY <2>2, <2>3, <2>6 DEF Compress
  <2>7. CASE second
    BY <2>2, <2>3, <2>7
  <2> QED
    BY <2>4, <2>5, <2>6, <2>7
<1>13. ASSUME NEW s, Produced(s, pos, Stream)
       PROVE  AllBefore(s, data)
  <2> SUFFICES ASSUME NEW i \in 1 .. Len(s), NEW j \in 1 .. Len(data)
               PROVE  Before(s[i], data[j])
    BY DEF AllBefore
  <2>1. Made(s[i], pos, Stream)
    BY <1>13 DEF Produced
  <2>2. data[j][1] = pos + j
    BY <1>12
  <2>3. Len(data) \in Nat
    BY <1>8, <1>10
  <2>4. CASE s[i] = Trailer
    BY <2>4 DEF Before
  <2>5. CASE s[i] # Trailer
    <3>1. s[i][1] \in 1 .. pos
      BY <2>1, <2>5 DEF Made
    <3>2. j \in Nat /\ j >= 1
      BY <2>3
    <3>3. s[i][1] < data[j][1]
      BY <3>1, <3>2, <2>2, <1>2, SMTT(30)
    <3> QED
      BY <3>3 DEF Before
  <2> QED
    BY <2>4, <2>5
<1>14. InOrder(data)
  <2>1. \A i, j \in 1 .. Len(data) : i < j => data[i][1] < data[j][1]
    BY <1>2, <1>8, <1>10, <1>12
  <2> QED
    BY <2>1 DEF InOrder, Before
<1>15. Produced(data, pos', Stream)
  <2> SUFFICES ASSUME NEW i \in 1 .. Len(data) PROVE Made(data[i], pos', Stream)
    BY DEF Produced
  <2>1. pos + i \in 1 .. pos' /\ pos + i \notin 0 .. pos
    BY <1>2, <1>8, <1>10
  <2>2. pos + i \notin dropped
    BY <2>1 DEF SockInv, WriteInv, Zipping
  <2> QED
    BY <2>1, <2>2, <1>12 DEF Made, Stream
<1>16. PICK zn, cn : zn = zbuf' /\ cn = chunk'
  OBVIOUS
<1>17. /\ InOrder(wire) /\ InOrder(zbuf) /\ InOrder(pend)
       /\ AllBefore(wire, zbuf) /\ AllBefore(wire, pend) /\ AllBefore(pend, zbuf)
       /\ Produced(wire, pos, Stream) /\ Produced(zbuf, pos, Stream)
       /\ Produced(pend, pos, Stream)
  BY DEF SockInv, WriteInv, Ordered, AllProduced
<1>18. /\ Produced(wire, pos', Stream) /\ Produced(zbuf, pos', Stream)
       /\ Produced(pend, pos', Stream)
  BY <1>2, <1>10, <1>17, ProducedStays
<1>19. /\ Len(wire) \in Nat /\ Len(zbuf) \in Nat /\ Len(pend) \in Nat /\ Len(data) \in Nat
  BY <1>2, <1>8, LenProperties
\* What is new comes last, wherever it goes.
<1>20. /\ zn \in Seq(Byte) /\ cn \in Seq(Byte)
       /\ InOrder(zn) /\ InOrder(cn) /\ AllBefore(wire, zn) /\ AllBefore(pend, zn)
       /\ AllBefore(wire, cn) /\ AllBefore(pend, cn) /\ AllBefore(cn, zn)
       /\ Produced(zn, pos', Stream) /\ Produced(cn, pos', Stream)
       /\ Len(cn) \in Nat /\ Len(zn) \in Nat
  <2>1. CASE Compress
    <3>1. zn = zbuf \o data /\ cn = <<>> /\ Len(cn) = 0
      BY <2>1, <1>7, <1>9, <1>16
    <3>2. zn \in Seq(Byte) /\ Len(zn) = Len(zbuf) + Len(data)
      <4>1. zbuf \in Seq(Byte) /\ data \in Seq(Byte) /\ zn = zbuf \o data
        BY <3>1, <1>2, <1>8
      <4> QED
        BY <4>1, Joined
    <3>3. AllBefore(wire, data) /\ AllBefore(pend, data) /\ AllBefore(zbuf, data)
      BY <1>13, <1>17
    <3>4. /\ InOrder(zn) /\ AllBefore(wire, zn) /\ AllBefore(pend, zn)
          /\ Produced(zn, pos', Stream)
      <4>1. zbuf \in Seq(Byte) /\ data \in Seq(Byte) /\ zn = zbuf \o data
        BY <3>1, <1>2, <1>8
      <4>2. InOrder(zn)
        BY <4>1, <3>3, <1>14, <1>17, JoinedInOrder
      <4>3. AllBefore(wire, zn)
        BY <4>1, <3>3, <1>17, JoinedAfter
      <4>4. AllBefore(pend, zn)
        BY <4>1, <3>3, <1>17, JoinedAfter
      <4>5. Produced(zn, pos', Stream)
        BY <4>1, <1>15, <1>18, JoinedProduced
      <4> QED
        BY <4>2, <4>3, <4>4, <4>5
    <3>5. /\ InOrder(cn) /\ Produced(cn, pos', Stream)
          /\ AllBefore(wire, cn) /\ AllBefore(pend, cn) /\ AllBefore(cn, zn)
      BY <3>1, NothingBefore
    <3> QED
      BY <3>1, <3>2, <3>4, <3>5, <1>8, <1>19
  <2>2. CASE ~Compress
    <3>1. zn = zbuf /\ cn = data
      BY <2>2, <1>7, <1>16
    <3>2. AllBefore(wire, data) /\ AllBefore(pend, data)
      BY <1>13, <1>17
    \* What is not compressed passes what deflate holds.
    <3>3. AllBefore(data, zbuf)
      <4> SUFFICES ASSUME NEW i \in 1 .. Len(data), NEW j \in 1 .. Len(zbuf)
                   PROVE  Before(data[i], zbuf[j])
        BY DEF AllBefore
      <4>1. data[i][1] = pos + i /\ ~data[i][2]
        BY <2>2, <1>12
      <4>2. zbuf[j][2] = TRUE
        BY DEF SockInv, WriteInv, Zipping
      <4>3. CASE zbuf[j] # Trailer
        <5>1. Made(zbuf[j], pos, Stream)
          BY <1>17 DEF Produced
        <5>2. zbuf[j][1] \in 1 .. pos
          BY <5>1, <4>3 DEF Made
        <5>3. i \in Nat /\ i >= 1
          BY <1>19
        <5>4. data[i][1] > zbuf[j][1]
          BY <5>2, <5>3, <4>1, <1>2
        <5> QED
          BY <5>4, <4>1, <4>2 DEF Before
      <4> QED
        BY <4>3 DEF Before
    <3> QED
      BY <3>1, <3>2, <3>3, <1>2, <1>8, <1>14, <1>15, <1>17, <1>18, <1>19
  <2> QED
    BY <2>1, <2>2
<1>21. WriteTypes'
  BY <1>1, <1>2, <1>10, <1>16, <1>20 DEF WriteTypes
<1>22. AllProduced'
  <2>1. Stream' = Stream
    BY <1>1 DEF Stream
  <2> QED
    BY <2>1, <1>1, <1>16, <1>18, <1>20 DEF AllProduced
<1>23. Ordered'
  <2>1. ASSUME NEW i \in 1 .. Len(wire), NEW j \in written' + 1 .. Len(cn)
        PROVE  Before(wire[i], cn[j])
    BY <1>1, <1>20 DEF AllBefore
  <2> QED
    BY <2>1, <1>1, <1>16, <1>17, <1>20 DEF Ordered
<1>24. Zipping'
  <2>1. ~zon' => zbuf' = <<>>
    BY <1>1, <1>7 DEF Compress, SockInv, WriteInv, Zipping
  <2>2. /\ op' = "header" /\ ~second' => zbuf' = <<>>
        /\ op' = "header" => \A i \in 1 .. Len(todo') : todo'[i].n = 1
    BY <1>1, <1>7 DEF Compress, SockInv, WriteInv, Zipping
  <2>3. zon' /\ op' = "header" /\ ~second' => zfrom' = pos' + Left'
    <3> SUFFICES ASSUME zon, op = "header", ~second PROVE zfrom = pos' + Left'
      BY <1>1
    <3>1. pc' = "raw" /\ zfrom = pos + Len(todo)
      BY <1>7, <1>11 DEF Compress, SockInv, WriteInv, Zipping
    <3> QED
      BY <3>1, <1>2, <1>3, <1>4, <1>5, <1>10, <1>11
  <2>4. zon' /\ op' # "header" /\ ~second' => zfrom' <= pos'
    BY <1>1, <1>2, <1>10 DEF SockInv, WriteInv, Zipping
  <2>5. pc' = "deflate" => Compress'
    BY <1>1, <1>7 DEF Compress
  <2>6. \A i \in 1 .. Len(zn) : zn[i][2] = TRUE
    <3>1. \A i \in 1 .. Len(zbuf) : zbuf[i][2] = TRUE
      BY DEF SockInv, WriteInv, Zipping
    <3>2. CASE Compress
      <4>1. zbuf \in Seq(Byte) /\ data \in Seq(Byte) /\ zn = zbuf \o data
        BY <3>2, <1>2, <1>7, <1>8, <1>16
      <4>2. FromEither(zn, zbuf, data)
        BY <4>1, JoinedElements
      <4>3. \A i \in 1 .. Len(data) : data[i][2] = TRUE
        BY <3>2, <1>12
      <4> QED
        BY <4>2, <4>3, <3>1 DEF FromEither
    <3>3. CASE ~Compress
      BY <3>1, <3>3, <1>7, <1>16
    <3> QED
      BY <3>2, <3>3
  <2>7. /\ ~second' => dropped' = {}
        /\ \A n \in dropped' : n \in 0 .. pos'
    <3>1. /\ ~second => dropped = {}
          /\ \A n \in dropped : n \in 0 .. pos
      BY DEF SockInv, WriteInv, Zipping
    <3> QED
      BY <3>1, <1>1, <1>2, <1>10
  <2> QED
    BY <2>1, <2>2, <2>3, <2>4, <2>5, <2>6, <2>7, <1>1, <1>16 DEF Zipping, WriteOps
<1>25. Sizes'
  BY <1>1, <1>7, <1>9, <1>16, <1>20 DEF Sizes
<1>26. Whole'
  <2> SUFFICES ASSUME lost = {} PROVE Covered' /\ Ended'
    BY <1>1 DEF Whole
  <2>1. ASSUME NEW n \in 1 .. pos
        PROVE  Has(wire, n) \/ Has(zbuf, n) \/ n \in dropped
    BY <1>9 DEF SockInv, WriteInv, Whole, Covered, Rest
  <2>2. ASSUME NEW n \in 1 .. pos', n > pos
        PROVE  Has(data, n)
    <3>1. PICK i : i = n - pos
      OBVIOUS
    <3>2. i \in 1 .. Len(data) /\ pos + i = n
      BY <3>1, <2>2, <1>2, <1>8, <1>10
    <3>3. data[i][1] = n
      BY <3>2, <1>12
    <3> QED
      BY <3>2, <3>3 DEF Has
  <2>3. ASSUME NEW n PROVE Has(zbuf, n) => Has(zn, n)
    <3>1. CASE Compress
      <4>1. zbuf \in Seq(Byte) /\ data \in Seq(Byte) /\ zn = zbuf \o data
        BY <3>1, <1>2, <1>7, <1>8, <1>16
      <4> QED
        BY <4>1, JoinedHas
    <3>2. CASE ~Compress
      BY <3>2, <1>7, <1>16
    <3> QED
      BY <3>1, <3>2
  <2>4. ASSUME NEW n PROVE Has(data, n) => Has(zn, n) \/ Rest(n)'
    <3>1. CASE Compress
      <4>1. zbuf \in Seq(Byte) /\ data \in Seq(Byte) /\ zn = zbuf \o data
        BY <3>1, <1>2, <1>7, <1>8, <1>16
      <4> QED
        BY <4>1, JoinedHas
    <3>2. CASE ~Compress
      <4>1. chunk' = data /\ written' = 0
        BY <3>2, <1>1, <1>7
      <4>2. \A i \in 1 .. Len(data) : i \in 0 + 1 .. Len(data)
        BY <1>19
      <4> QED
        BY <4>1, <4>2 DEF Has, Rest
    <3> QED
      BY <3>1, <3>2
  <2>5. \A n \in 1 .. pos' : n \in 1 .. pos \/ n > pos
    BY <1>2, <1>10
  <2>6. \A n \in 1 .. pos' : Has(wire, n) \/ Rest(n)' \/ Has(zn, n) \/ n \in dropped
    BY <2>1, <2>2, <2>3, <2>4, <2>5
  <2>7. Covered'
    BY <2>6, <1>1, <1>16 DEF Covered
  <2>8. Ended'
    BY <1>1 DEF Ended, WriteOps
  <2> QED
    BY <2>7, <2>8
<1>27. Causes'
  BY <1>1 DEF SockInv, WriteInv, Causes
<1>28. HoleNeedsTimeout'
  BY <1>1, <1>10, HolesKept DEF SockInv, WriteInv
<1> QED
  BY <1>21, <1>22, <1>23, <1>24, <1>25, <1>26, <1>27, <1>28 DEF WriteInv

-----------------------------------------------------------------------------
(***************************************************************************)
(* Compression, and the end of it.                                         *)
(***************************************************************************)
\* A round of deflate cuts what it holds in two.
LEMMA DeflateKeeps ==
    ASSUME SockInv, Deflate
    PROVE  WriteTypes' /\ WriteInv' /\ HoleNeedsTimeout'
<1>1. /\ pc = "deflate" /\ pc' = "raw" /\ op' = op /\ op \in WriteOps \cup {"close"}
      /\ todo' = todo
      /\ written' = 0 /\ pend' = pend /\ wire' = wire /\ pos' = pos
      /\ lost' = lost /\ peer' = peer /\ zon' = zon /\ zfrom' = zfrom
      /\ second' = second /\ dropped' = dropped
  BY DEF Deflate, SockInv, ReadInv, Places, envVars
<1>2. /\ pos \in Nat /\ zfrom \in Nat /\ todo \in Seq(PartType) /\ zon \in BOOLEAN
      /\ chunk \in Seq(Byte) /\ pend \in Seq(Byte)
      /\ zbuf \in Seq(Byte) /\ wire \in Seq(Byte) /\ written \in Nat
      /\ zfull \in BOOLEAN /\ second \in BOOLEAN /\ lost \subseteq {"timeout", "error"}
  BY DEF SockInv, SockTypes, WriteTypes
<1>3. Len(zbuf) \in Nat /\ Len(wire) \in Nat
  BY <1>2, LenProperties
<1>4. PICK e \in 0 .. Smaller(Buff, Len(zbuf)) :
        /\ (op = "close" /\ e < Buff) => e = Len(zbuf)
        /\ chunk' = SubSeq(zbuf, 1, e)
        /\ zbuf' = SubSeq(zbuf, e + 1, Len(zbuf))
        /\ zfull' = (e = Buff)
  BY DEF Deflate
<1>5. e \in Nat /\ e <= Len(zbuf) /\ e <= Buff /\ Buff \in Nat
  BY <1>3, SocketAssumption DEF Smaller
<1>6. PICK cn, zn : cn = chunk' /\ zn = zbuf'
  OBVIOUS
<1>7. cn = SubSeq(zbuf, 1, e) /\ zn = SubSeq(zbuf, e + 1, Len(zbuf))
  BY <1>4, <1>6
<1>8. PICK m : m = e + 1
  OBVIOUS
<1>9. cn \in Seq(Byte) /\ Len(cn) = e /\ PieceOf(cn, zbuf, 0)
  <2>1. /\ zbuf \in Seq(Byte) /\ 1 \in 1 .. Len(zbuf) + 1 /\ e \in 0 .. Len(zbuf)
        /\ 1 <= e + 1 /\ cn = SubSeq(zbuf, 1, e)
    BY <1>2, <1>3, <1>5, <1>7
  <2>2. cn \in Seq(Byte) /\ Len(cn) = e - 1 + 1
    BY <2>1, Piece
  <2>3. PieceOf(cn, zbuf, 1 - 1)
    BY <2>1, PieceElements
  <2> QED
    BY <2>2, <2>3, <1>5
<1>10. zn \in Seq(Byte) /\ Len(zn) = Len(zbuf) - e /\ PieceOf(zn, zbuf, e)
  <2>1. /\ zbuf \in Seq(Byte) /\ m \in 1 .. Len(zbuf) + 1
        /\ Len(zbuf) \in 0 .. Len(zbuf) /\ m <= Len(zbuf) + 1
        /\ zn = SubSeq(zbuf, m, Len(zbuf))
    BY <1>2, <1>3, <1>5, <1>7, <1>8
  <2>2. zn \in Seq(Byte) /\ Len(zn) = Len(zbuf) - m + 1
    BY <2>1, Piece
  <2>3. PieceOf(zn, zbuf, m - 1)
    BY <2>1, PieceElements
  <2>4. m - 1 = e /\ Len(zbuf) - m + 1 = Len(zbuf) - e
    BY <1>3, <1>5, <1>8
  <2> QED
    BY <2>2, <2>3, <2>4
<1>11. /\ InOrder(wire) /\ InOrder(zbuf) /\ InOrder(pend)
       /\ AllBefore(wire, zbuf) /\ AllBefore(wire, pend) /\ AllBefore(pend, zbuf)
       /\ Produced(wire, pos, Stream) /\ Produced(zbuf, pos, Stream)
       /\ Produced(pend, pos, Stream)
  BY DEF SockInv, WriteInv, Ordered, AllProduced
<1>12. /\ InOrder(cn) /\ AllBefore(wire, cn) /\ AllBefore(pend, cn)
       /\ Produced(cn, pos, Stream)
  BY <1>9, <1>11, PieceOrder
<1>13. /\ InOrder(zn) /\ AllBefore(wire, zn) /\ AllBefore(pend, zn)
       /\ Produced(zn, pos, Stream)
  BY <1>5, <1>10, <1>11, PieceOrder
<1>14. AllBefore(cn, zn)
  <2> SUFFICES ASSUME NEW i \in 1 .. Len(cn), NEW j \in 1 .. Len(zn)
               PROVE  Before(cn[i], zn[j])
    BY DEF AllBefore
  <2>0. cn[i] = zbuf[0 + i] /\ 0 + i = i /\ zn[j] = zbuf[e + j]
    BY <1>9, <1>10 DEF PieceOf
  <2>1. i \in 1 .. Len(zbuf) /\ e + j \in 1 .. Len(zbuf) /\ i < e + j
    BY <1>3, <1>5, <1>9, <1>10
  <2> QED
    BY <2>0, <2>1, <1>11 DEF InOrder
<1>15. WriteTypes'
  <2>1. zfull' \in BOOLEAN
    BY <1>4
  <2> QED
    BY <2>1, <1>1, <1>2, <1>6, <1>9, <1>10 DEF WriteTypes
<1>16. AllProduced'
  <2>1. Stream' = Stream
    BY <1>1 DEF Stream
  <2> QED
    BY <2>1, <1>1, <1>6, <1>11, <1>12, <1>13 DEF AllProduced
<1>17. Ordered'
  <2>1. ASSUME NEW i \in 1 .. Len(wire), NEW j \in written' + 1 .. Len(cn)
        PROVE  Before(wire[i], cn[j])
    BY <1>1, <1>5, <1>9, <1>12 DEF AllBefore
  <2> QED
    BY <2>1, <1>1, <1>6, <1>11, <1>12, <1>13, <1>14 DEF Ordered
<1>18. op = "close" \/ (zon /\ op # "header" /\ todo # <<>>)
  BY <1>1 DEF SockInv, WriteInv, Zipping, Sizes, Compress
<1>19. zon
  BY <1>1, <1>18 DEF SockInv, WriteInv, Zipping
<1>20. Zipping'
  <2>1. ~second => zfrom <= pos
    BY <1>18, <1>19 DEF SockInv, WriteInv, Zipping
  <2>2. op = "close" /\ ~zfull' => zbuf' = <<>>
    <3> SUFFICES ASSUME op = "close", e # Buff PROVE zn = <<>>
      BY <1>4, <1>6
    <3>1. e = Len(zbuf)
      BY <1>4, <1>5
    <3>2. Len(zn) = 0
      BY <3>1, <1>3, <1>10
    <3> QED
      BY <3>2, <1>10, EmptySeq
  <2>3. \A i \in 1 .. Len(zn) : zn[i][2] = TRUE
    BY <1>10 DEF PieceOf, SockInv, WriteInv, Zipping
  <2>4. /\ ~second => dropped = {}
        /\ \A n \in dropped : n \in 0 .. pos
    BY DEF SockInv, WriteInv, Zipping
  <2> QED
    BY <2>1, <2>2, <2>3, <2>4, <1>1, <1>6, <1>18, <1>19 DEF Zipping, WriteOps
<1>21. Sizes'
  BY <1>1, <1>5, <1>6, <1>9, <1>18 DEF Sizes
<1>22. Whole'
  <2> SUFFICES ASSUME lost = {} PROVE Covered' /\ Ended'
    BY <1>1 DEF Whole
  <2>1. chunk = <<>> /\ Len(chunk) = 0 /\ written = 0
    BY <1>1, <1>2 DEF SockInv, WriteInv, Sizes
  <2>2. ASSUME NEW n, Has(zbuf, n) PROVE Rest(n)' \/ Has(zn, n)
    <3>1. PICK i \in 1 .. Len(zbuf) : zbuf[i][1] = n
      BY <2>2 DEF Has
    <3>2. CASE i <= e
      <4>1. i \in 1 .. Len(cn) /\ i \in 0 + 1 .. Len(cn) /\ 0 + i = i
        BY <3>2, <1>3, <1>9
      <4>2. cn[i] = zbuf[i]
        BY <4>1, <1>9 DEF PieceOf
      <4> QED
        BY <3>1, <4>1, <4>2, <1>1, <1>6 DEF Rest
    <3>3. CASE i > e
      <4>1. PICK j : j = i - e
        OBVIOUS
      <4>2. j \in 1 .. Len(zn) /\ e + j = i
        BY <3>3, <4>1, <1>3, <1>5, <1>10
      <4>3. zn[j] = zbuf[i]
        BY <4>2, <1>10 DEF PieceOf
      <4> QED
        BY <3>1, <4>2, <4>3 DEF Has
    <3> QED
      BY <3>2, <3>3, <1>3, <1>5
  <2>3. \A n \in 1 .. pos : Has(wire, n) \/ Has(zbuf, n) \/ n \in dropped
    BY <2>1 DEF SockInv, WriteInv, Whole, Covered, Rest
  <2>4. Covered'
    <3>1. \A n \in 1 .. pos : Has(wire, n) \/ Rest(n)' \/ Has(zn, n) \/ n \in dropped
      BY <2>2, <2>3
    <3> QED
      BY <3>1, <1>1, <1>6 DEF Covered
  <2>5. ASSUME op = "close"
        PROVE  IF zbuf # <<>> THEN Last(zbuf) = Trailer
               ELSE wire # <<>> /\ Last(wire) = Trailer
    BY <2>1, <2>5, <1>19 DEF SockInv, WriteInv, Whole, Ended
  <2>6. ASSUME op = "close"
        PROVE  IF zn # <<>> THEN Last(zn) = Trailer
               ELSE IF 0 < Len(cn) THEN Last(cn) = Trailer
               ELSE wire # <<>> /\ Last(wire) = Trailer
    <3>1. CASE zn # <<>>
      <4>1. Len(zn) \in 1 .. Len(zn) /\ e + Len(zn) = Len(zbuf) /\ zbuf # <<>>
        <5>1. Len(zn) \in Nat /\ Len(zn) # 0
          BY <3>1, <1>10, LenProperties, EmptySeq
        <5>2. Len(zbuf) # 0
          BY <5>1, <1>3, <1>5, <1>10
        <5> QED
          BY <5>1, <5>2, <1>3, <1>5, <1>10, EmptySeq
      <4>2. zn[Len(zn)] = zbuf[Len(zbuf)]
        BY <4>1, <1>10 DEF PieceOf
      <4> QED
        BY <3>1, <4>1, <4>2, <2>5, <2>6 DEF Last
    <3>2. CASE zn = <<>> /\ 0 < Len(cn)
      <4>1. Len(zn) = 0
        BY <3>2
      <4>2. Len(cn) = Len(zbuf) /\ 0 + Len(cn) = Len(cn) /\ Len(cn) \in 1 .. Len(cn)
            /\ zbuf # <<>>
        BY <3>2, <4>1, <1>3, <1>5, <1>9, <1>10, EmptySeq
      <4>3. cn[Len(cn)] = zbuf[0 + Len(cn)]
        BY <4>2, <1>9 DEF PieceOf
      <4> QED
        BY <3>2, <4>2, <4>3, <2>5, <2>6 DEF Last
    <3>3. CASE zn = <<>> /\ ~(0 < Len(cn))
      <4>1. Len(zn) = 0
        BY <3>3
      <4>2. Len(zbuf) = 0
        BY <3>3, <4>1, <1>3, <1>5, <1>9, <1>10
      <4>3. zbuf = <<>>
        BY <4>2, <1>2, EmptySeq
      <4> QED
        BY <3>3, <4>3, <2>5, <2>6
    <3> QED
      BY <3>1, <3>2, <3>3
  <2>7. Ended'
    BY <2>6, <1>1, <1>6 DEF Ended, Last
  <2> QED
    BY <2>4, <2>7
<1>23. Causes'
  BY <1>1 DEF SockInv, WriteInv, Causes
<1>24. HoleNeedsTimeout'
  BY <1>1 DEF SockInv, HoleNeedsTimeout, OnWire
<1> QED
  BY <1>15, <1>16, <1>17, <1>20, <1>21, <1>22, <1>23, <1>24 DEF WriteInv

\* antd_close puts the trailer at the end.
LEMMA CloseKeeps ==
    ASSUME SockInv, Close
    PROVE  WriteTypes' /\ WriteInv' /\ HoleNeedsTimeout'
<1>1. /\ pc = "free" /\ op = "none" /\ op' = "close"
      /\ todo' = todo /\ chunk' = chunk /\ zfull' = zfull
      /\ written' = written /\ pend' = pend /\ wire' = wire /\ pos' = pos
      /\ lost' = lost /\ peer' = peer /\ zon' = zon /\ zfrom' = zfrom
      /\ second' = second /\ dropped' = dropped
      /\ IF zon THEN zbuf' = Append(zbuf, Trailer) /\ pc' = "deflate"
                ELSE zbuf' = zbuf /\ pc' = "closed"
  BY DEF Close, SockInv, ReadInv, Places, envVars
<1>2. WriteTypes
  BY DEF SockInv, SockTypes
<1>3. /\ pos \in Nat /\ zbuf \in Seq(Byte) /\ wire \in Seq(Byte)
      /\ Len(zbuf) \in Nat /\ Len(wire) \in Nat /\ Trailer \in Byte
  BY <1>2, LenProperties DEF WriteTypes, Trailer, Byte
<1>4. chunk = <<>> /\ Len(chunk) = 0 /\ written = 0
  BY <1>1, <1>2 DEF SockInv, WriteInv, Sizes, WriteTypes
<1>5. PICK zn : zn = zbuf'
  OBVIOUS
\* The trailer is the last.
<1>6. /\ zn \in Seq(Byte)
      /\ zon => /\ Len(zn) = Len(zbuf) + 1
                /\ zn[Len(zbuf) + 1] = Trailer
                /\ \A i \in 1 .. Len(zbuf) : zn[i] = zbuf[i]
      /\ ~zon => zn = zbuf
  <2>1. CASE zon
    <3>1. zn = Append(zbuf, Trailer)
      BY <2>1, <1>1, <1>5
    <3> QED
      BY <2>1, <3>1, <1>3, AppendProperties
  <2> QED
    BY <2>1, <1>1, <1>3, <1>5
<1>7. \A i \in 1 .. Len(zn) : zn[i] = Trailer \/ (i \in 1 .. Len(zbuf) /\ zn[i] = zbuf[i])
  BY <1>3, <1>6
<1>8. WriteTypes'
  BY <1>1, <1>2, <1>5, <1>6 DEF WriteTypes
<1>9. /\ InOrder(zbuf) /\ AllBefore(wire, zbuf) /\ AllBefore(pend, zbuf)
      /\ Produced(zbuf, pos, Stream)
  BY DEF SockInv, WriteInv, Ordered, AllProduced
<1>10. /\ InOrder(zn) /\ AllBefore(wire, zn) /\ AllBefore(pend, zn)
       /\ Produced(zn, pos, Stream)
  <2>1. InOrder(zn)
    BY <1>7, <1>9 DEF InOrder, Before
  <2>2. AllBefore(wire, zn) /\ AllBefore(pend, zn)
    BY <1>7, <1>9 DEF AllBefore, Before
  <2>3. Produced(zn, pos, Stream)
    BY <1>7, <1>9 DEF Produced, Made
  <2> QED
    BY <2>1, <2>2, <2>3
<1>11. AllProduced'
  BY <1>1, <1>5, <1>10 DEF SockInv, WriteInv, AllProduced, Stream
<1>12. Ordered'
  <2>1. AllBefore(chunk, zn)
    BY <1>4 DEF AllBefore
  <2>2. pc' # "raw"
    BY <1>1
  <2> QED
    BY <2>1, <2>2, <1>1, <1>5, <1>10 DEF SockInv, WriteInv, Ordered
<1>13. Zipping'
  <2>1. \A i \in 1 .. Len(zn) : zn[i][2] = TRUE
    <3>1. Trailer[2] = TRUE
      BY DEF Trailer
    <3>2. \A i \in 1 .. Len(zbuf) : zbuf[i][2] = TRUE
      BY DEF SockInv, WriteInv, Zipping
    <3> QED
      BY <3>1, <3>2, <1>7
  <2>2. ~zon => zn = <<>>
    BY <1>6 DEF SockInv, WriteInv, Zipping
  <2> QED
    BY <2>1, <2>2, <1>1, <1>5 DEF SockInv, WriteInv, Zipping
<1>14. Sizes'
  BY <1>1, <1>4 DEF SockInv, WriteInv, Sizes
<1>15. Whole'
  <2> SUFFICES ASSUME lost = {} PROVE Covered' /\ Ended'
    BY <1>1 DEF Whole
  <2>1. \A n \in 1 .. pos : Has(wire, n) \/ Has(zbuf, n) \/ n \in dropped
    BY <1>4 DEF SockInv, WriteInv, Whole, Covered, Rest
  <2>2. ASSUME NEW n, Has(zbuf, n) PROVE Has(zn, n)
    <3>1. PICK i \in 1 .. Len(zbuf) : zbuf[i][1] = n
      BY <2>2 DEF Has
    <3>2. i \in 1 .. Len(zn) /\ zn[i] = zbuf[i]
      BY <1>3, <1>6
    <3> QED
      BY <3>1, <3>2 DEF Has
  <2>3. Covered'
    BY <2>1, <2>2, <1>1, <1>5 DEF Covered, Has
  <2>4. zon => zn # <<>> /\ Last(zn) = Trailer
    <3> SUFFICES ASSUME zon PROVE zn # <<>> /\ Last(zn) = Trailer
      OBVIOUS
    <3>1. Len(zn) # 0 /\ zn[Len(zn)] = Trailer
      BY <1>3, <1>6
    <3> QED
      BY <3>1, <1>6, EmptySeq DEF Last
  <2>5. Ended'
    BY <2>4, <1>1, <1>5 DEF Ended, Last
  <2> QED
    BY <2>3, <2>5
<1>16. Causes'
  BY <1>1 DEF SockInv, WriteInv, Causes
<1>17. HoleNeedsTimeout'
  BY <1>1 DEF SockInv, HoleNeedsTimeout, OnWire
<1> QED
  BY <1>8, <1>11, <1>12, <1>13, <1>14, <1>15, <1>16, <1>17 DEF WriteInv

-----------------------------------------------------------------------------
(***************************************************************************)
(* antd_send.                                                              *)
(***************************************************************************)
\* What antd_send offers is the next of the chunk.
LEMMA SegmentIsNext ==
    ASSUME SockInv, NEW s, s = Segment
    PROVE  /\ s \in Seq(Byte) /\ PieceOf(s, chunk, written)
           /\ Len(s) \in Nat /\ written + Len(s) <= Len(chunk)
           /\ Len(s) = 0 <=> written = Len(chunk)
<1>1. /\ chunk \in Seq(Byte) /\ Len(chunk) \in Nat /\ written \in Nat
      /\ written <= Len(chunk) /\ Buff \in Nat /\ Buff > 0
  BY SocketAssumption, LenProperties DEF SockInv, SockTypes, WriteTypes, WriteInv, Sizes
<1>2. PICK m, n : m = written + 1 /\ n = written + Smaller(Buff, Len(chunk) - written)
  OBVIOUS
<1>3. /\ m \in 1 .. Len(chunk) + 1 /\ n \in 0 .. Len(chunk) /\ m <= n + 1
      /\ n = written <=> written = Len(chunk)
  BY <1>1, <1>2 DEF Smaller
<1>4. s = SubSeq(chunk, m, n)
  BY <1>2 DEF Segment
<1>5. s \in Seq(Byte) /\ Len(s) = n - m + 1
  BY <1>1, <1>3, <1>4, Piece
<1>6. PieceOf(s, chunk, m - 1)
  BY <1>1, <1>3, <1>4, PieceElements
<1>7. m - 1 = written /\ n - m + 1 = n - written /\ n \in Nat
  BY <1>1, <1>2, <1>3
<1>8. Len(s) = n - written /\ n >= written /\ n <= Len(chunk)
  BY <1>1, <1>2, <1>3, <1>5, <1>7
<1> QED
  BY <1>1, <1>3, <1>5, <1>6, <1>7, <1>8

\* What is sent next: a part of the segment, or the old data SSL_write waits for.
LEMMA SentNext ==
    ASSUME SockInv, SendSome
    PROVE  \E add \in Seq(Byte) :
                /\ wire' = wire \o add
                /\ written' = written + Len(add) /\ written + Len(add) <= Len(chunk)
                /\ InOrder(add) /\ AllBefore(wire, add) /\ AllBefore(add, zbuf)
                /\ Produced(add, pos, Stream)
                /\ \A i \in 1 .. Len(add), j \in written + Len(add) + 1 .. Len(chunk) :
                        Before(add[i], chunk[j])
                /\ lost = {} => PieceOf(add, chunk, written)
<1>1. /\ chunk \in Seq(Byte) /\ Len(chunk) \in Nat /\ written \in Nat
      /\ pend \in Seq(Byte) /\ Len(pend) \in Nat
  BY LenProperties DEF SockInv, SockTypes, WriteTypes
<1>2. PICK s : s = Segment
  OBVIOUS
<1>3. /\ s \in Seq(Byte) /\ PieceOf(s, chunk, written)
      /\ Len(s) \in Nat /\ written + Len(s) <= Len(chunk)
  BY <1>2, SegmentIsNext
<1>4. /\ InOrder(chunk) /\ AllBefore(chunk, zbuf) /\ Produced(chunk, pos, Stream)
      /\ \A i \in 1 .. Len(wire), j \in written + 1 .. Len(chunk) :
                Before(wire[i], chunk[j])
  BY DEF SockInv, WriteInv, Ordered, AllProduced
<1>5. CASE \E c \in 1 .. Len(s) :
                wire' = wire \o SubSeq(s, 1, c) /\ written' = written + c
  <2>1. PICK c \in 1 .. Len(s) : wire' = wire \o SubSeq(s, 1, c) /\ written' = written + c
    BY <1>5
  <2>2. PICK add : add = SubSeq(s, 1, c)
    OBVIOUS
  <2>3. /\ s \in Seq(Byte) /\ 1 \in 1 .. Len(s) + 1 /\ c \in 0 .. Len(s) /\ 1 <= c + 1
        /\ add = SubSeq(s, 1, c)
    BY <1>3, <2>2
  <2>4. add \in Seq(Byte) /\ Len(add) = c - 1 + 1
    BY <2>3, Piece
  <2>5. PieceOf(add, s, 1 - 1)
    BY <2>3, PieceElements
  <2>6. Len(add) = c /\ c \in Nat /\ 1 - 1 = 0
    BY <2>4, <1>3
  <2>7. PieceOf(add, chunk, written)
    <3> SUFFICES ASSUME NEW i \in 1 .. Len(add)
                 PROVE  written + i \in 1 .. Len(chunk) /\ add[i] = chunk[written + i]
      BY DEF PieceOf
    <3>1. 0 + i \in 1 .. Len(s) /\ add[i] = s[0 + i] /\ 0 + i = i
      BY <2>5, <2>6 DEF PieceOf
    <3> QED
      BY <3>1, <1>3 DEF PieceOf
  <2>8. InOrder(add) /\ AllBefore(add, zbuf) /\ Produced(add, pos, Stream)
    BY <2>7, <1>1, <1>4, PieceOrder
  <2>9. AllBefore(wire, add)
    <3>1. \A j \in 1 .. Len(add) : written + j \in written + 1 .. Len(chunk)
                                   /\ add[j] = chunk[written + j]
      BY <2>7, <1>1 DEF PieceOf
    <3> QED
      BY <3>1, <1>4 DEF AllBefore
  <2>10. ASSUME NEW i \in 1 .. Len(add), NEW j \in written + Len(add) + 1 .. Len(chunk)
         PROVE  Before(add[i], chunk[j])
    <3>1. /\ written + i \in 1 .. Len(chunk) /\ j \in 1 .. Len(chunk) /\ written + i < j
          /\ add[i] = chunk[written + i]
      BY <2>6, <2>7, <1>1 DEF PieceOf
    <3> QED
      BY <3>1, <1>4 DEF InOrder
  <2>11. written + Len(add) <= Len(chunk)
    BY <2>6, <1>1, <1>3
  <2> QED
    BY <2>1, <2>2, <2>4, <2>6, <2>7, <2>8, <2>9, <2>10, <2>11
<1>6. CASE /\ ssl /\ OldInstead
           /\ wire' = wire \o pend /\ written' = written + Len(pend)
  <2>1. pend # Segment /\ pend # <<>> /\ Len(pend) <= Len(s)
    BY <1>2, <1>6 DEF OldInstead, Retry
  <2>2. pc = "raw" /\ peer # "reset"
    BY DEF SendSome, Sending
  <2>3. /\ InOrder(pend) /\ AllBefore(wire, pend) /\ AllBefore(pend, zbuf)
        /\ Produced(pend, pos, Stream) /\ AllBefore(pend, chunk)
    BY <2>1, <2>2 DEF SockInv, WriteInv, Ordered, AllProduced
  <2>4. lost # {}
    BY <2>1, <2>2 DEF SockInv, WriteInv, Causes
  <2>5. written + Len(pend) <= Len(chunk)
    BY <2>1, <1>1, <1>3
  <2>6. \A i \in 1 .. Len(pend), j \in written + Len(pend) + 1 .. Len(chunk) :
            Before(pend[i], chunk[j])
    BY <2>3, <1>1 DEF AllBefore
  <2> QED
    BY <2>3, <2>4, <2>5, <2>6, <1>1, <1>6
<1> QED
  BY <1>2, <1>5, <1>6 DEF SendSome

\* With one response nothing passes: the place in the stream says what is compressed.
LEMMA NoPassing ==
    ASSUME NEW b, NEW c, ~second, Before(b, c), b # Trailer, c # Trailer,
           Made(b, pos, Stream), Made(c, pos, Stream), pos \in Nat, zfrom \in Nat
    PROVE  b[1] < c[1]
<1>1. /\ b[1] \in 1 .. pos /\ c[1] \in 1 .. pos
      /\ b[2] = (zon /\ b[1] > zfrom) /\ c[2] = (zon /\ c[1] > zfrom)
  BY DEF Made, Stream
<1>2. CASE b[1] > c[1] /\ ~b[2] /\ c[2]
  <2>1. zon /\ c[1] > zfrom
    BY <1>1, <1>2
  <2>2. b[1] > zfrom
    BY <2>1, <1>1, <1>2
  <2> QED
    BY <2>1, <2>2, <1>1, <1>2
<1> QED
  BY <1>2 DEF Before

\* A system call sends something.
LEMMA SendSomeKeeps ==
    ASSUME SockInv, SendSome
    PROVE  WriteTypes' /\ WriteInv' /\ HoleNeedsTimeout'
<1>1. /\ pc = "raw" /\ pc' = "raw" /\ op' = op /\ peer # "reset"
      /\ todo' = todo /\ pend' = <<>> /\ zfull' = zfull
      /\ chunk' = chunk /\ zbuf' = zbuf /\ pos' = pos
      /\ lost' = lost /\ peer' = peer /\ zon' = zon /\ zfrom' = zfrom
      /\ second' = second /\ dropped' = dropped
  BY DEF SendSome, Sending, envVars
<1>2. /\ pos \in Nat /\ zfrom \in Nat /\ todo \in Seq(PartType) /\ zon \in BOOLEAN
      /\ chunk \in Seq(Byte) /\ pend \in Seq(Byte)
      /\ zbuf \in Seq(Byte) /\ wire \in Seq(Byte) /\ written \in Nat
      /\ zfull \in BOOLEAN /\ second \in BOOLEAN /\ lost \subseteq {"timeout", "error"}
  BY DEF SockInv, SockTypes, WriteTypes
<1>3. Len(zbuf) \in Nat /\ Len(wire) \in Nat /\ Len(chunk) \in Nat
  BY <1>2, LenProperties
<1>4. PICK add \in Seq(Byte) :
        /\ wire' = wire \o add
        /\ written' = written + Len(add) /\ written + Len(add) <= Len(chunk)
        /\ InOrder(add) /\ AllBefore(wire, add) /\ AllBefore(add, zbuf)
        /\ Produced(add, pos, Stream)
        /\ \A i \in 1 .. Len(add), j \in written + Len(add) + 1 .. Len(chunk) :
                Before(add[i], chunk[j])
        /\ lost = {} => PieceOf(add, chunk, written)
  BY SentNext
<1>5. PICK wn : wn = wire'
  OBVIOUS
<1>6. wn = wire \o add /\ wire \in Seq(Byte) /\ add \in Seq(Byte)
  BY <1>2, <1>4, <1>5
<1>7. /\ wn \in Seq(Byte) /\ Len(wn) = Len(wire) + Len(add)
      /\ Len(add) \in Nat
  BY <1>6, Joined, LenProperties
<1>8. FromEither(wn, wire, add)
  BY <1>6, JoinedElements
<1>9. /\ InOrder(wire) /\ AllBefore(wire, zbuf) /\ Produced(wire, pos, Stream)
      /\ InOrder(chunk) /\ InOrder(zbuf) /\ AllBefore(chunk, zbuf)
      /\ Produced(chunk, pos, Stream) /\ Produced(zbuf, pos, Stream)
  BY DEF SockInv, WriteInv, Ordered, AllProduced
<1>10. InOrder(wn) /\ AllBefore(wn, zbuf) /\ Produced(wn, pos, Stream)
  <2>1. /\ InOrder(add) /\ AllBefore(wire, add) /\ AllBefore(add, zbuf)
        /\ Produced(add, pos, Stream)
    BY <1>4
  <2>2. InOrder(wn)
    BY <2>1, <1>6, <1>9, JoinedInOrder
  <2>3. AllBefore(wn, zbuf)
    BY <2>1, <1>6, <1>9, JoinedBefore
  <2>4. Produced(wn, pos, Stream)
    BY <2>1, <1>6, <1>9, JoinedProduced
  <2> QED
    BY <2>2, <2>3, <2>4
<1>11. written' \in Nat /\ written' <= Len(chunk) /\ written' = written + Len(add)
  BY <1>2, <1>4, <1>7
<1>12. WriteTypes'
  BY <1>1, <1>2, <1>5, <1>7, <1>11 DEF WriteTypes
<1>13. /\ Len(<<>>) = 0 /\ InOrder(<<>>) /\ Produced(<<>>, pos, Stream)
       /\ \A x : AllBefore(x, <<>>) /\ AllBefore(<<>>, x)
  BY NothingBefore
<1>14. AllProduced'
  <2>1. Stream' = Stream
    BY <1>1 DEF Stream
  <2> QED
    BY <2>1, <1>1, <1>5, <1>9, <1>10, <1>13 DEF AllProduced
<1>15. Ordered'
  <2>1. ASSUME NEW i \in 1 .. Len(wn), NEW j \in written' + 1 .. Len(chunk)
        PROVE  Before(wn[i], chunk[j])
    <3>1. j \in written + 1 .. Len(chunk) /\ j \in written + Len(add) + 1 .. Len(chunk)
      BY <1>2, <1>3, <1>7, <1>11
    <3>2. CASE i \in 1 .. Len(wire) /\ wn[i] = wire[i]
      BY <3>1, <3>2 DEF SockInv, WriteInv, Ordered
    <3>3. ASSUME NEW l \in 1 .. Len(add), wn[i] = add[l]
          PROVE  Before(wn[i], chunk[j])
      BY <3>1, <3>3, <1>4
    <3> QED
      BY <3>2, <3>3, <1>8 DEF FromEither
  <2> QED
    BY <2>1, <1>1, <1>5, <1>9, <1>10, <1>13 DEF Ordered
<1>16. Zipping'
  <2>1. Left' = Left /\ Compress' = Compress
    BY <1>1 DEF Left, Compress
  <2> QED
    BY <2>1, <1>1 DEF SockInv, WriteInv, Zipping
<1>17. Sizes'
  BY <1>1, <1>11 DEF SockInv, WriteInv, Sizes
<1>18. ASSUME NEW n PROVE Has(wn, n) <=> Has(wire, n) \/ Has(add, n)
  BY <1>6, JoinedHas
<1>19. Whole'
  <2> SUFFICES ASSUME lost = {} PROVE Covered' /\ Ended'
    BY <1>1 DEF Whole
  <2>1. PieceOf(add, chunk, written)
    BY <1>4
  <2>2. ASSUME NEW n, Rest(n) PROVE Rest(n)' \/ Has(add, n)
    <3>1. PICK j \in written + 1 .. Len(chunk) : chunk[j][1] = n
      BY <2>2 DEF Rest
    <3>2. CASE j > written'
      <4>1. j \in written' + 1 .. Len(chunk)
        BY <3>2, <1>2, <1>3, <1>11
      <4> QED
        BY <3>1, <4>1, <1>1 DEF Rest
    <3>3. CASE j <= written'
      <4>1. PICK l : l = j - written
        OBVIOUS
      <4>2. l \in 1 .. Len(add) /\ written + l = j
        BY <3>3, <4>1, <1>2, <1>3, <1>7, <1>11
      <4>3. add[l] = chunk[j]
        BY <4>2, <2>1 DEF PieceOf
      <4> QED
        BY <3>1, <4>2, <4>3 DEF Has
    <3> QED
      BY <3>2, <3>3, <1>2, <1>3, <1>11
  <2>3. ASSUME NEW n \in 1 .. pos
        PROVE  Has(wn, n) \/ Rest(n)' \/ Has(zbuf, n) \/ n \in dropped
    <3>1. Has(wire, n) \/ Rest(n) \/ Has(zbuf, n) \/ n \in dropped
      BY DEF SockInv, WriteInv, Whole, Covered
    <3> QED
      BY <3>1, <2>2, <1>18
  <2>4. Covered'
    BY <2>3, <1>1, <1>5 DEF Covered
  <2>5. ASSUME op = "close", zon, zbuf = <<>>
        PROVE  IF written' < Len(chunk) THEN Last(chunk) = Trailer
               ELSE wn # <<>> /\ Last(wn) = Trailer
    <3>1. written < Len(chunk)
      BY DEF SendSome, Sending
    <3>2. Last(chunk) = Trailer
      BY <3>1, <2>5 DEF SockInv, WriteInv, Whole, Ended
    <3>3. CASE ~(written' < Len(chunk))
      <4>1. Len(add) \in 1 .. Len(add) /\ written + Len(add) = Len(chunk)
        BY <3>1, <3>3, <1>2, <1>3, <1>7, <1>11
      <4>2. add[Len(add)] = chunk[Len(chunk)]
        BY <4>1, <2>1 DEF PieceOf
      <4>3. wn[Len(wire) + Len(add)] = add[Len(add)]
        BY <4>1, <1>6, Joined
      <4>4. Len(wn) # 0
        BY <4>1, <1>3, <1>7
      <4>5. wn # <<>>
        BY <4>4, <1>7, EmptySeq
      <4> QED
        BY <3>2, <3>3, <4>2, <4>3, <4>5, <1>7 DEF Last
    <3> QED
      BY <3>2, <3>3
  <2>6. ASSUME op = "close", zon, zbuf # <<>> PROVE Last(zbuf) = Trailer
    BY <2>6 DEF SockInv, WriteInv, Whole, Ended
  <2>7. Ended'
    BY <2>5, <2>6, <1>1, <1>5 DEF Ended, Last
  <2> QED
    BY <2>4, <2>7
<1>20. Causes'
  BY <1>1 DEF SockInv, WriteInv, Causes
\* While nothing is lost there is no hole; what is lost without a time-out is
\* lost to a peer that is gone.
<1>21. HoleNeedsTimeout'
  <2> SUFFICES ASSUME "timeout" \notin lost, ~second,
                      NEW i \in 1 .. Len(wn), NEW n \in 1 .. pos, n < wn[i][1]
               PROVE  Has(wn, n)
    <3>1. HoleNeedsTimeout' <=>
            \/ "timeout" \in lost \/ second
            \/ \A m \in OnWire', n \in 1 .. pos : n < m => n \in OnWire'
      BY <1>1 DEF HoleNeedsTimeout
    <3>2. OnWire' = {wn[i][1] : i \in 1 .. Len(wn)}
      BY <1>5 DEF OnWire
    <3> QED
      BY <3>1, <3>2 DEF Has
  <2>1. lost = {} /\ dropped = {}
    BY <1>1 DEF SockInv, WriteInv, Causes, Zipping
  <2>2. Has(wn, n) \/ Rest(n)' \/ Has(zbuf, n)
    <3>1. Covered'
      BY <2>1, <1>1, <1>19 DEF Whole
    <3> QED
      BY <3>1, <2>1, <1>1, <1>5 DEF Covered
  <2>3. wn[i] # Trailer /\ Made(wn[i], pos, Stream)
    <3>1. Trailer[1] = 0
      BY DEF Trailer
    <3>2. n \in Int /\ n > 0
      BY <1>2
    <3>3. wn[i][1] # 0
      BY <3>2
    <3>4. Made(wn[i], pos, Stream)
      BY <1>10 DEF Produced
    <3> QED
      BY <3>1, <3>3, <3>4
  <2>4. ASSUME NEW c, Before(wn[i], c), Made(c, pos, Stream), c[1] = n
        PROVE  FALSE
    <3>1. c # Trailer
      <4>1. Trailer[1] = 0
        BY DEF Trailer
      <4> QED
        BY <4>1, <2>4, <1>2
    <3>2. wn[i][1] < c[1]
      BY <3>1, <2>3, <2>4, <1>2, NoPassing
    <3>3. wn[i][1] \in 1 .. pos
      BY <2>3 DEF Made
    <3> QED
      BY <3>2, <3>3, <2>4, <1>2
  <2>5. ~Has(zbuf, n)
    <3> SUFFICES ASSUME NEW j \in 1 .. Len(zbuf), zbuf[j][1] = n PROVE FALSE
      BY DEF Has
    <3>1. Before(wn[i], zbuf[j]) /\ Made(zbuf[j], pos, Stream)
      BY <1>9, <1>10 DEF AllBefore, Produced
    <3> QED
      BY <3>1, <2>4
  <2>6. ~Rest(n)'
    <3> SUFFICES ASSUME NEW j \in written' + 1 .. Len(chunk), chunk[j][1] = n PROVE FALSE
      BY <1>1 DEF Rest
    <3>1. Before(wn[i], chunk[j])
      BY <1>1, <1>5, <1>15 DEF Ordered
    <3>2. j \in 1 .. Len(chunk)
      BY <1>3, <1>11
    <3>3. Made(chunk[j], pos, Stream)
      BY <3>2, <1>9 DEF Produced
    <3> QED
      BY <3>1, <3>3, <2>4
  <2> QED
    BY <2>2, <2>5, <2>6
<1> QED
  BY <1>12, <1>14, <1>15, <1>16, <1>17, <1>19, <1>20, <1>21 DEF WriteInv

\* It would block, or fails: nothing is sent.
LEMMA SendWaitsKeeps ==
    ASSUME SockInv, SendBlocks \/ SendFails
    PROVE  WriteTypes' /\ WriteInv' /\ HoleNeedsTimeout'
<1>1. /\ pc = "raw" /\ pc' \in {"raw", "sent"} /\ op' = op /\ op \in WriteOps \cup {"close"}
      /\ todo' = todo /\ zfull' = zfull /\ wire' = wire
      /\ chunk' = chunk /\ zbuf' = zbuf /\ pos' = pos /\ written' = written
      /\ peer' = peer /\ zon' = zon /\ zfrom' = zfrom
      /\ second' = second /\ dropped' = dropped
  BY DEF SendBlocks, SendFails, SendBlocked, SendStop, Sending, SockInv, ReadInv,
         Places, envVars
<1>2. \/ pend' = pend
      \/ pend = <<>> /\ pend' = Segment /\ peer # "reset"
  BY DEF SendBlocks, SendFails
<1>3. \/ lost' = lost /\ pc' = "raw"
      \/ lost' = lost \cup {"timeout"} /\ pc' = "sent"
      \/ /\ lost' = lost \cup {"error"} /\ pc' = "sent" /\ pend' = pend
         /\ peer = "reset" \/ ~Retry
  BY <1>1 DEF SendBlocks, SendFails, SendBlocked, SendStop
<1>4. WriteTypes
  BY DEF SockInv, SockTypes
<1>5. PICK s : s = Segment
  OBVIOUS
<1>6. s \in Seq(Byte) /\ PieceOf(s, chunk, written)
  BY <1>5, SegmentIsNext
<1>7. Segment' = Segment
  BY <1>1 DEF Segment
<1>8. WriteTypes'
  <2>1. pend' \in Seq(Byte)
    BY <1>2, <1>4, <1>5, <1>6 DEF WriteTypes
  <2>2. lost' \subseteq {"timeout", "error"}
    BY <1>3, <1>4 DEF WriteTypes
  <2> QED
    BY <2>1, <2>2, <1>1, <1>4 DEF WriteTypes
<1>9. /\ InOrder(chunk) /\ AllBefore(chunk, zbuf) /\ Produced(chunk, pos, Stream)
      /\ \A i \in 1 .. Len(wire), j \in written + 1 .. Len(chunk) :
                Before(wire[i], chunk[j])
  BY DEF SockInv, WriteInv, Ordered, AllProduced
<1>10. written \in Nat /\ chunk \in Seq(Byte) /\ Len(chunk) \in Nat
  BY <1>4, LenProperties DEF WriteTypes
<1>11. /\ InOrder(s) /\ AllBefore(s, zbuf) /\ Produced(s, pos, Stream)
  BY <1>6, <1>9, <1>10, PieceOrder
<1>12. AllBefore(wire, s)
  <2>1. \A j \in 1 .. Len(s) : written + j \in written + 1 .. Len(chunk)
                               /\ s[j] = chunk[written + j]
    BY <1>6, <1>10 DEF PieceOf
  <2> QED
    BY <2>1, <1>9 DEF AllBefore
<1>13. PICK pn : pn = pend'
  OBVIOUS
<1>14. /\ InOrder(pn) /\ AllBefore(pn, zbuf) /\ Produced(pn, pos, Stream)
       /\ AllBefore(wire, pn) /\ (pn = Segment \/ AllBefore(pn, chunk))
  <2>1. CASE pn = pend
    BY <2>1, <1>1 DEF SockInv, WriteInv, Ordered, AllProduced
  <2>2. CASE pn = s
    BY <2>2, <1>5, <1>11, <1>12
  <2> QED
    BY <2>1, <2>2, <1>2, <1>5, <1>13
<1>15. AllProduced'
  <2>1. Stream' = Stream
    BY <1>1 DEF Stream
  <2> QED
    BY <2>1, <1>1, <1>13, <1>14 DEF SockInv, WriteInv, AllProduced
<1>16. Ordered'
  BY <1>1, <1>7, <1>13, <1>14 DEF SockInv, WriteInv, Ordered
<1>17. Zipping'
  <2>1. Left' = Left /\ Compress' = Compress
    BY <1>1 DEF Left, Compress
  <2> QED
    BY <2>1, <1>1 DEF SockInv, WriteInv, Zipping
<1>18. Sizes'
  BY <1>1, <1>3 DEF SockInv, WriteInv, Sizes
<1>19. lost \subseteq lost' /\ (lost' # lost => lost' # {})
  BY <1>3
<1>20. Whole'
  <2>1. CASE lost' = lost
    BY <2>1, <1>1 DEF SockInv, WriteInv, Whole, Covered, Has, Rest, Ended
  <2>2. CASE lost' # lost
    BY <2>2, <1>19 DEF Whole
  <2> QED
    BY <2>1, <2>2
<1>21. Causes'
  <2> SUFFICES ASSUME "timeout" \notin lost'
               PROVE  /\ lost' # {} => peer = "reset"
                      /\ pend' # <<>> => (pc' = "raw" /\ pend' = Segment) \/ peer = "reset"
    BY <1>1, <1>7 DEF Causes
  <2>1. /\ lost # {} => peer = "reset"
        /\ pend # <<>> => pend = Segment \/ peer = "reset"
    BY <1>19 DEF SockInv, WriteInv, Causes
  <2>2. CASE lost' = lost /\ pc' = "raw"
    BY <2>1, <2>2, <1>2
  <2>3. CASE /\ lost' = lost \cup {"error"} /\ pc' = "sent" /\ pend' = pend
             /\ peer = "reset" \/ ~Retry
    <3>1. peer = "reset"
      BY <2>1, <2>3 DEF Retry
    <3> QED
      BY <3>1
  <2> QED
    BY <2>2, <2>3, <1>3
<1>22. HoleNeedsTimeout'
  BY <1>1, <1>4, <1>19, HolesKept DEF SockInv, WriteInv, WriteTypes
<1> QED
  BY <1>8, <1>15, <1>16, <1>17, <1>18, <1>20, <1>21, <1>22 DEF WriteInv

\* antd_send returns: the parts that follow, and the bytes left out.
LEMMA PartsGoOn ==
    ASSUME SockInv, ChunkDone \/ PartFails, pc \in {"raw", "sent"}, op # "close"
    PROVE  /\ todo' \in Seq(PartType) /\ pos' \in Nat /\ pos <= pos'
           /\ op = "header" =>
                /\ pos' + Len(todo') = pos + Left
                /\ \A i \in 1 .. Len(todo') : todo'[i].n = 1
           /\ ChunkDone => pos' = pos
<1> USE SocketAssumption
<1>1. /\ todo \in Seq(PartType) /\ Len(todo) \in Nat /\ pos \in Nat /\ todo # <<>>
      /\ Left = Len(todo) - 1
  BY LenProperties DEF SockInv, SockTypes, WriteTypes, WriteInv, Sizes, Left
<1>2. Len(todo) > 0
  BY <1>1, EmptySeq
<1>3. todo[1] \in PartType
  BY <1>1, <1>2, ElementOfSeq
<1>4. todo[1].n \in Nat /\ ChunkLen \in Nat /\ ChunkLen <= todo[1].n
  BY <1>3 DEF PartType, ChunkLen, Smaller
<1>5. op = "header" => /\ \A i \in 1 .. Len(todo) : todo[i].n = 1
                       /\ todo[1].n = 1 /\ ChunkLen = 1
  <2>1. op = "header" => \A i \in 1 .. Len(todo) : todo[i].n = 1
    BY DEF SockInv, WriteInv, Zipping
  <2>2. op = "header" => todo[1].n = 1
    BY <2>1, <1>1, <1>2
  <2> QED
    BY <2>1, <2>2 DEF ChunkLen, Smaller
<1>6. CASE ChunkDone
  <2>1. pos' = pos
    BY <1>6 DEF ChunkDone
  <2>2. CASE todo[1].n = ChunkLen
    <3>1. PICK t : t = todo'
      OBVIOUS
    <3>2. t = Tail(todo)
      BY <3>1, <2>2, <1>6 DEF ChunkDone
    <3>3. /\ t \in Seq(PartType) /\ Len(t) = Len(todo) - 1
          /\ \A i \in 1 .. Len(t) : t[i] = todo[i + 1] /\ i + 1 \in 1 .. Len(todo)
      BY <3>2, <1>1, <1>2, HeadTailProperties
    <3>4. op = "header" => \A i \in 1 .. Len(t) : t[i].n = 1
      BY <3>3, <1>5
    <3> QED
      BY <3>1, <3>3, <3>4, <2>1, <1>1
  <2>3. CASE todo[1].n # ChunkLen
    <3>1. todo' = [todo EXCEPT ![1].n = @ - ChunkLen] /\ op # "header"
      BY <2>3, <1>5, <1>6 DEF ChunkDone
    <3>2. [todo[1] EXCEPT !.n = @ - ChunkLen] \in PartType
      BY <1>3, <1>4 DEF PartType
    <3>3. todo' = [todo EXCEPT ![1] = [todo[1] EXCEPT !.n = @ - ChunkLen]]
      BY <3>1
    <3>4. todo' \in Seq(PartType)
      BY <3>2, <3>3, <1>1, <1>2, ExceptSeq
    <3> QED
      BY <3>1, <3>4, <2>1, <1>1
  <2> QED
    BY <2>2, <2>3, <1>6
<1>7. CASE PartFails
  <2>1. PICK skip : skip = IF Len(todo) > 1 /\ todo[2].dep THEN 1 ELSE 0
    OBVIOUS
  <2>2. todo' = SubSeq(todo, 2 + skip, Len(todo))
        /\ pos' = pos + todo[1].n - ChunkLen + skip
    BY <2>1, <1>7 DEF PartFails
  <2>3. skip \in 0 .. 1 /\ 2 + skip <= Len(todo) + 1
    BY <2>1, <1>1, <1>2
  <2>4. PICK m, t : m = 2 + skip /\ t = todo'
    OBVIOUS
  <2>5. /\ m \in 1 .. Len(todo) + 1 /\ Len(todo) \in 0 .. Len(todo)
        /\ m <= Len(todo) + 1 /\ t = SubSeq(todo, m, Len(todo))
    BY <2>2, <2>3, <2>4, <1>1
  <2>6. t \in Seq(PartType) /\ Len(t) = Len(todo) - m + 1
    BY <2>5, <1>1, Piece
  <2>7. PieceOf(t, todo, m - 1)
    BY <2>5, <1>1, PieceElements
  <2>8. pos' \in Nat /\ pos <= pos'
    <3>1. PICK n, l : n = todo[1].n /\ l = ChunkLen
      OBVIOUS
    <3>2. n \in Nat /\ l \in Nat /\ l <= n /\ pos \in Nat /\ skip \in Nat
      BY <3>1, <2>3, <1>1, <1>4
    <3>3. pos' = pos + n - l + skip
      BY <3>1, <2>2
    <3> QED
      BY <3>2, <3>3
  <2>9. op = "header" => pos' + Len(t) = pos + Left
    <3> SUFFICES ASSUME op = "header" PROVE pos' + Len(t) = pos + Left
      OBVIOUS
    <3>1. todo[1].n = 1 /\ ChunkLen = 1
      BY <1>5
    <3>2. pos' = pos + skip
      BY <3>1, <2>2, <2>3, <1>1
    <3>3. Len(t) = Len(todo) - 1 - skip
      BY <2>3, <2>4, <2>6, <1>1
    <3> QED
      BY <3>2, <3>3, <2>3, <1>1
  <2>10. op = "header" => \A i \in 1 .. Len(t) : t[i].n = 1
    BY <2>7, <1>5 DEF PieceOf
  <2>11. CASE ChunkDone
    BY <1>6, <2>11
  <2> QED
    BY <2>4, <2>6, <2>8, <2>9, <2>10, <2>11
<1> QED
  BY <1>6, <1>7

\* antd_send returns.
LEMMA SentKeeps ==
    ASSUME SockInv, Sent
    PROVE  WriteTypes' /\ WriteInv' /\ HoleNeedsTimeout'
<1>1. /\ pc = "sent" \/ (pc = "raw" /\ written = Len(chunk))
      /\ op' = op /\ op \in WriteOps \cup {"close"}
      /\ chunk' = <<>> /\ written' = 0 /\ zfull' = FALSE
      /\ pend' = pend /\ zbuf' = zbuf /\ wire' = wire
      /\ lost' = lost /\ peer' = peer /\ zon' = zon /\ zfrom' = zfrom
      /\ second' = second /\ dropped' = dropped
  BY DEF Sent, SockInv, ReadInv, Places, envVars
<1>2. /\ pos \in Nat /\ zfrom \in Nat /\ todo \in Seq(PartType) /\ zon \in BOOLEAN
      /\ chunk \in Seq(Byte) /\ pend \in Seq(Byte)
      /\ zbuf \in Seq(Byte) /\ wire \in Seq(Byte) /\ written \in Nat
      /\ zfull \in BOOLEAN /\ second \in BOOLEAN /\ lost \subseteq {"timeout", "error"}
  BY DEF SockInv, SockTypes, WriteTypes
<1>3. \/ /\ pc' = "deflate" /\ (op = "close" \/ Compress)
         /\ todo' = todo /\ pos' = pos
      \/ /\ pc' = "closed" /\ op = "close" /\ ~zfull
         /\ todo' = todo /\ pos' = pos
      \/ /\ pc' = "part" /\ op # "close" /\ ChunkDone
      \/ /\ pc' = "part" /\ op # "close" /\ PartFails /\ pc = "sent"
  BY DEF Sent
<1>4. /\ todo' \in Seq(PartType) /\ pos' \in Nat /\ pos <= pos'
      /\ op = "header" => /\ pc' = "part" /\ pos' + Len(todo') = pos + Left
                          /\ \A i \in 1 .. Len(todo') : todo'[i].n = 1
      /\ pos' = pos \/ pc = "sent"
  <2>1. CASE pc' = "part"
    BY <2>1, <1>1, <1>3, PartsGoOn
  <2>2. CASE pc' # "part"
    BY <2>2, <1>2, <1>3 DEF Compress
  <2> QED
    BY <2>1, <2>2
<1>5. second' \in BOOLEAN /\ zon' \in BOOLEAN
  BY <1>1, Zenon DEF SockInv, SockTypes, WriteTypes
<1>6. WriteTypes'
  <2>1. chunk' \in Seq(Byte) /\ written' \in Nat /\ zfull' \in BOOLEAN
    <3>1. chunk' = <<>> /\ written' = 0
      BY <1>1
    <3>2. zfull' \in BOOLEAN
      BY <1>1
    <3> QED
      BY <3>1, <3>2, EmptySeq
  <2>2. /\ pend' \in Seq(Byte) /\ zbuf' \in Seq(Byte) /\ wire' \in Seq(Byte)
        /\ lost' \subseteq {"timeout", "error"} /\ zon' \in BOOLEAN /\ zfrom' \in Nat
    BY <1>1, <1>2
  <2>3. todo' \in Seq(PartType) /\ pos' \in Nat
    BY <1>4
  <2> QED
    BY <2>1, <2>2, <2>3, <1>5 DEF WriteTypes
<1>7. AllProduced'
  <2>1. \A s \in {wire, zbuf, pend} : Produced(s, pos', Stream)
    BY <1>2, <1>4, ProducedStays DEF SockInv, WriteInv, AllProduced
  <2>2. Produced(<<>>, pos', Stream)
    BY NothingBefore, EmptySeq
  <2>3. Stream' = Stream
    BY <1>1 DEF Stream
  <2> QED
    BY <2>1, <2>2, <2>3, <1>1 DEF AllProduced
<1>8. pc' \notin {"raw", "sent"}
  BY <1>3
<1>9. Ordered'
  <2>1. InOrder(<<>>) /\ AllBefore(<<>>, zbuf) /\ Len(<<>>) = 0
    BY NothingBefore
  <2>2. \A j \in 0 + 1 .. 0 : FALSE
    OBVIOUS
  <2> QED
    BY <2>1, <2>2, <1>1, <1>8 DEF SockInv, WriteInv, Ordered
<1>10. Zipping'
  <2>1. Left' = Len(todo')
    BY <1>4, <1>8, LenProperties DEF Left
  <2>2. zon /\ op = "header" /\ ~second => zfrom = pos' + Left'
    BY <2>1, <1>1, <1>4 DEF SockInv, WriteInv, Zipping
  <2>3. zon /\ op # "header" /\ ~second => zfrom <= pos'
    BY <1>1, <1>2, <1>4 DEF SockInv, WriteInv, Zipping
  <2>4. pc' = "deflate" => op' = "close" \/ Compress'
    BY <1>1, <1>3 DEF Compress
  <2>5. pc' = "closed" /\ zon => zbuf = <<>>
    BY <1>1, <1>3 DEF SockInv, WriteInv, Zipping
  <2>6. op = "close" => zon
    BY <1>1 DEF SockInv, WriteInv, Zipping
  <2>7. /\ ~second => dropped = {}
        /\ \A n \in dropped : n \in 0 .. pos'
    <3>1. /\ ~second => dropped = {}
          /\ \A n \in dropped : n \in 0 .. pos
      BY DEF SockInv, WriteInv, Zipping
    <3> QED
      BY <3>1, <1>2, <1>4
  <2>8. /\ ~zon => zbuf = <<>>
        /\ \A i \in 1 .. Len(zbuf) : zbuf[i][2] = TRUE
        /\ op = "header" /\ ~second => zbuf = <<>>
        /\ op = "header" => \A i \in 1 .. Len(todo') : todo'[i].n = 1
    BY <1>4 DEF SockInv, WriteInv, Zipping
  <2> QED
    BY <2>2, <2>3, <2>4, <2>5, <2>6, <2>7, <2>8, <1>1, <1>8 DEF Zipping
<1>11. Sizes'
  <2>1. pc' = "deflate" /\ op # "close" => todo' # <<>>
    BY <1>1, <1>3 DEF SockInv, WriteInv, Sizes
  <2>2. pc' \in {"deflate", "closed", "part"}
    BY <1>3
  <2> QED
    BY <2>1, <2>2, <1>1 DEF Sizes
\* After a chunk that was given up, something is lost.
<1>12. Whole'
  <2> SUFFICES ASSUME lost = {} PROVE Covered' /\ Ended'
    BY <1>1 DEF Whole
  <2>1. pc = "raw" /\ written = Len(chunk) /\ pos' = pos
    BY <1>1, <1>4 DEF SockInv, WriteInv, Sizes
  <2>2. \A j \in written + 1 .. Len(chunk) : FALSE
    BY <2>1, <1>2, LenProperties
  <2>3. \A n \in 1 .. pos : Has(wire, n) \/ Has(zbuf, n) \/ n \in dropped
    BY <2>2 DEF SockInv, WriteInv, Whole, Covered, Rest
  <2>4. Covered'
    BY <2>1, <2>3, <1>1 DEF Covered, Has
  <2>5. ~(written < Len(chunk)) /\ ~(0 < Len(chunk'))
    BY <2>1, <1>1, <1>2, LenProperties
  <2>6. Ended'
    BY <2>5, <1>1 DEF SockInv, WriteInv, Whole, Ended, Last
  <2> QED
    BY <2>4, <2>6
\* A chunk that is sent leaves no segment to wait for.
<1>13. Causes'
  <2> SUFFICES ASSUME "timeout" \notin lost
               PROVE  (lost # {} => peer = "reset") /\ (pend # <<>> => peer = "reset")
    BY <1>1 DEF Causes
  <2>1. /\ lost # {} => peer = "reset"
        /\ pend # <<>> => (pc = "raw" /\ pend = Segment) \/ peer = "reset"
    BY DEF SockInv, WriteInv, Causes
  <2>2. CASE pc = "sent"
    BY <2>1, <2>2 DEF SockInv, WriteInv, Sizes
  <2>3. CASE pc = "raw" /\ written = Len(chunk)
    <3>1. PICK s : s = Segment
      OBVIOUS
    <3>2. s \in Seq(Byte) /\ Len(s) = 0
      BY <3>1, <2>3, SegmentIsNext
    <3>3. s = <<>>
      BY <3>2, EmptySeq
    <3> QED
      BY <3>1, <3>3, <2>1
  <2> QED
    BY <2>2, <2>3, <1>1
<1>14. HoleNeedsTimeout'
  BY <1>1, <1>4, HolesKept DEF SockInv, WriteInv
<1> QED
  BY <1>6, <1>7, <1>9, <1>10, <1>11, <1>12, <1>13, <1>14 DEF WriteInv

\* The writing calls keep the part of the reading ones.
LEMMA WritesReadSide ==
    ASSUME SockInv, WriteStep
    PROVE  CallTypes' /\ ReadTypes' /\ ReadInv'
<1>1. UNCHANGED readVars /\ UNCHANGED envVars /\ (idle' = idle \/ idle' = FALSE)
  BY DEF WriteStep, BeginData, BeginHeader, BeginWrite, NextChunk, PartsDone, Deflate,
         SendSome, SendBlocks, SendFails, Sent, Close
<1>2. Places /\ op \notin ReadOps /\ pc \notin {"read", "got"}
  <2>1. pc \notin {"read", "got"}
    BY DEF WriteStep, BeginData, BeginHeader, BeginWrite, NextChunk, PartsDone, Deflate,
           SendSome, SendBlocks, SendFails, Sent, Close, Sending
  <2> QED
    BY <2>1 DEF SockInv, ReadInv, Places
<1>3. Places' /\ op' \notin ReadOps /\ pc' \notin {"read", "got"}
      /\ op' \in {"none", "close"} \cup WriteOps
      /\ pc' \in {"free", "part", "deflate", "raw", "sent", "closed"}
  <2>1. CASE BeginData \/ BeginHeader
    <3>1. op' \in WriteOps /\ pc' = "part"
      BY <2>1 DEF BeginData, BeginHeader, BeginWrite, WriteOps
    <3> QED
      BY <3>1 DEF Places, ReadOps, WriteOps
  <2>2. CASE PartsDone \/ Close
    BY <2>2 DEF PartsDone, Close, Places, ReadOps, WriteOps
  <2>3. CASE NextChunk \/ Deflate \/ SendSome \/ SendBlocks \/ SendFails
    <3>1. op' = op /\ pc \in {"part", "deflate", "raw"}
          /\ pc' \in {"deflate", "raw", "sent"}
      BY <2>3 DEF NextChunk, Deflate, SendSome, SendBlocks, SendFails, SendBlocked,
                  SendStop, Sending
    <3> QED
      BY <3>1, <1>2 DEF Places, ReadOps, WriteOps
  <2>4. CASE Sent
    <3>1. /\ op' = op /\ pc \in {"raw", "sent"}
          /\ pc' \in {"deflate", "closed", "part"}
          /\ pc' = "closed" => op = "close"
          /\ pc' = "part" => op # "close"
      BY <2>4 DEF Sent
    <3> QED
      BY <3>1, <1>2 DEF Places, ReadOps, WriteOps
  <2> QED
    BY <2>1, <2>2, <2>3, <2>4 DEF WriteStep
<1>4. res' \in Int
  <2>1. written \in Nat /\ res \in Int
    BY DEF SockInv, SockTypes, WriteTypes, CallTypes
  <2>2. ASSUME NEW why, NEW r \in {-1, 0}, SendStop(why, r) PROVE res' \in Int
    BY <2>1, <2>2 DEF SendStop
  <2>3. CASE SendBlocks
    BY <2>1, <2>2, <2>3 DEF SendBlocks, SendBlocked
  <2>4. CASE SendFails
    BY <2>2, <2>4 DEF SendFails
  <2>5. CASE Sent
    BY <2>5 DEF Sent
  <2>6. CASE ~(SendBlocks \/ SendFails \/ Sent)
    <3>1. res' = res
      BY <2>6 DEF WriteStep, BeginData, BeginHeader, BeginWrite, NextChunk, PartsDone,
                  Deflate, SendSome, Close
    <3> QED
      BY <3>1, <2>1
  <2> QED
    BY <2>3, <2>4, <2>5, <2>6
<1>5. CallTypes'
  <2>1. CallTypes
    BY DEF SockInv, SockTypes
  <2>2. idle' \in BOOLEAN
    BY <1>1, <2>1, Zenon DEF CallTypes
  <2> QED
    BY <2>1, <2>2, <1>1, <1>3, <1>4 DEF CallTypes, envVars
<1>6. ReadTypes'
  BY <1>1, ReadTypesUntouched DEF SockInv, SockTypes
<1>7. Reading' /\ ALine'
  BY <1>1, <1>2, <1>3, ReadingUntouched DEF SockInv, ReadInv
<1> QED
  BY <1>3, <1>5, <1>6, <1>7 DEF ReadInv

\* No step of a writing call breaks the invariant.
LEMMA WritesKeep ==
    ASSUME SockInv, WriteStep
    PROVE  SockInv'
<1>1. WriteTypes' /\ WriteInv' /\ HoleNeedsTimeout'
  BY BeginsKeep, NextChunkKeeps, PartsDoneKeeps, DeflateKeeps, SendSomeKeeps,
     SendWaitsKeeps, SentKeeps, CloseKeeps DEF WriteStep
<1> QED
  BY <1>1, WritesReadSide DEF SockInv, SockTypes

\* No step at all breaks it.
LEMMA NextKeeps ==
    ASSUME SockInv, [Next]_vars
    PROVE  SockInv'
  BY ReadsKeep, WritesKeep, OthersKeep DEF Next

\* It holds at the start.
LEMMA InitIsSound ==
    ASSUME Init
    PROVE  SockInv
<1> USE DEF Init
<1>1. <<>> \in Seq(Byte) /\ <<>> \in Seq(Nat) /\ <<>> \in Seq(PartType) /\ Len(<<>>) = 0
  BY EmptySeq
<1>2. CallTypes
  <2>1. ssl \in BOOLEAN /\ idle \in BOOLEAN
    BY Zenon
  <2>2. op \in {"none", "close"} \cup ReadOps \cup WriteOps
    OBVIOUS
  <2>3. pc = "free" /\ peer = "open" /\ arrived = 0 /\ res = 0
    OBVIOUS
  <2> QED
    BY <2>1, <2>2, <2>3 DEF CallTypes
<1>3. ReadTypes
  BY <1>1 DEF ReadTypes
<1>4. WriteTypes
  BY <1>1 DEF WriteTypes
<1>5. Places
  BY DEF Places, ReadOps, WriteOps
<1>6. Reading /\ ALine
  BY <1>1 DEF Reading, ALine, Room, Upto, ReadOps
<1>7. AllProduced /\ Ordered
  BY <1>1, NothingBefore DEF AllProduced, Ordered
<1>8. Zipping /\ Sizes
  BY <1>1 DEF Zipping, Sizes
<1>9. Whole
  BY <1>1 DEF Whole, Covered, Ended
<1>10. Causes
  BY DEF Causes
<1>11. HoleNeedsTimeout
  BY DEF HoleNeedsTimeout
<1> QED
  BY <1>2, <1>3, <1>4, <1>5, <1>6, <1>7, <1>8, <1>9, <1>10, <1>11
     DEF SockInv, SockTypes, ReadInv, WriteInv

-----------------------------------------------------------------------------
(***************************************************************************)
(* Theorems.                                                               *)
(***************************************************************************)

\* In every state the calls are of the right types, the buffer of a reading call
\* and the bytes of a writing one are where they belong (antd_recv, antd_send, __b).
THEOREM TransfersAreSound == Spec => []SockInv
<1>1. Init => SockInv
  BY InitIsSound
<1>2. SockInv /\ [Next]_vars => SockInv'
  BY NextKeeps
<1> QED
  BY <1>1, <1>2, PTL DEF Spec

\* However recv cuts the stream, a reading call has the next bytes in its buffer,
\* each once and in order, and stays within what it asked for.
THEOREM BytesAreReadInOrder == Spec => []ReadInOrder
<1>1. SockInv => ReadInOrder
  <2> SUFFICES ASSUME SockInv PROVE ReadInOrder
    OBVIOUS
  <2>1. /\ len \in Nat /\ Buff \in Nat /\ Len(dst) \in Nat
    BY SocketAssumption, LenProperties DEF SockInv, SockTypes, ReadTypes
  <2>2. op # "none" => Len(dst) <= Allowed
    BY <2>1 DEF SockInv, ReadInv, Reading, Room, Allowed, DiscardWant, Smaller
  <2> QED
    BY <2>2 DEF SockInv, ReadInv, Reading, ReadInOrder
<1> QED
  BY <1>1, TransfersAreSound, PTL

\* antd_send, __b and the compressor send a byte once, after those produced before
\* it unless it is of a second response and passes what deflate holds; they leave
\* none out unless a transfer gave up or a zstream was replaced; and with one
\* response a byte is compressed when the header announced it.
THEOREM StreamStaysIntact == Spec => []StreamIntact
<1>1. SockInv => StreamIntact
  <2> SUFFICES ASSUME SockInv PROVE StreamIntact
    OBVIOUS
  <2>1. /\ pos \in Nat /\ zfrom \in Nat /\ zon \in BOOLEAN
        /\ chunk \in Seq(Byte) /\ zbuf \in Seq(Byte) /\ wire \in Seq(Byte)
        /\ written \in Nat /\ written <= Len(chunk)
        /\ Len(zbuf) \in Nat /\ Len(wire) \in Nat /\ Len(chunk) \in Nat
    BY LenProperties DEF SockInv, SockTypes, WriteTypes, WriteInv, Sizes
  <2>2. PICK rest : rest = IF pc = "raw" THEN Unsent ELSE <<>>
    OBVIOUS
  <2>3. /\ rest \in Seq(Byte) /\ Len(rest) \in Nat /\ PieceOf(rest, chunk, written)
        /\ pc = "raw" => Len(rest) = Len(chunk) - written
        /\ pc # "raw" => Len(rest) = 0
    <3>1. CASE pc = "raw"
      <4>1. PICK m : m = written + 1
        OBVIOUS
      <4>2. /\ m \in 1 .. Len(chunk) + 1 /\ Len(chunk) \in 0 .. Len(chunk)
            /\ m <= Len(chunk) + 1 /\ rest = SubSeq(chunk, m, Len(chunk))
        BY <4>1, <3>1, <2>1, <2>2 DEF Unsent
      <4>3. rest \in Seq(Byte) /\ Len(rest) = Len(chunk) - m + 1
        BY <4>2, <2>1, Piece
      <4>4. PieceOf(rest, chunk, m - 1)
        BY <4>2, <2>1, PieceElements
      <4>5. m - 1 = written /\ Len(chunk) - m + 1 = Len(chunk) - written
            /\ Len(chunk) - written \in Nat
        BY <4>1, <2>1
      <4> QED
        BY <4>3, <4>4, <4>5, <3>1
    <3>2. CASE pc # "raw"
      <4>1. rest = <<>>
        BY <3>2, <2>2
      <4>2. rest \in Seq(Byte) /\ Len(rest) = 0
        BY <4>1, EmptySeq
      <4> QED
        BY <4>2, <3>2 DEF PieceOf
    <3> QED
      BY <3>1, <3>2
  <2>4. /\ InOrder(wire) /\ InOrder(chunk) /\ InOrder(zbuf)
        /\ AllBefore(wire, zbuf) /\ AllBefore(chunk, zbuf)
        /\ \A i \in 1 .. Len(wire), j \in written + 1 .. Len(chunk) :
                Before(wire[i], chunk[j])
        /\ Produced(wire, pos, Stream) /\ Produced(chunk, pos, Stream)
        /\ Produced(zbuf, pos, Stream)
    BY DEF SockInv, WriteInv, Ordered, AllProduced
  <2>5. /\ InOrder(rest) /\ AllBefore(rest, zbuf) /\ Produced(rest, pos, Stream)
    BY <2>1, <2>3, <2>4, PieceOrder
  <2>6. AllBefore(wire, rest)
    <3>1. \A j \in 1 .. Len(rest) : written + j \in written + 1 .. Len(chunk)
                                    /\ rest[j] = chunk[written + j]
      BY <2>1, <2>3 DEF PieceOf
    <3> QED
      BY <3>1, <2>4 DEF AllBefore
  <2>7. PICK some : some = wire \o rest
    OBVIOUS
  <2>8. wire \in Seq(Byte) /\ rest \in Seq(Byte) /\ some = wire \o rest
    BY <2>1, <2>3, <2>7
  <2>9. some \in Seq(Byte) /\ Len(some) = Len(wire) + Len(rest)
    BY <2>8, Joined
  <2>10. InOrder(some) /\ AllBefore(some, zbuf) /\ Produced(some, pos, Stream)
    <3>1. InOrder(some)
      BY <2>4, <2>5, <2>6, <2>8, JoinedInOrder
    <3>2. AllBefore(some, zbuf)
      BY <2>4, <2>5, <2>8, JoinedBefore
    <3>3. Produced(some, pos, Stream)
      BY <2>4, <2>5, <2>8, JoinedProduced
    <3> QED
      BY <3>1, <3>2, <3>3
  <2>11. PICK all : all = some \o zbuf
    OBVIOUS
  <2>12. some \in Seq(Byte) /\ zbuf \in Seq(Byte) /\ all = some \o zbuf
    BY <2>1, <2>9, <2>11
  <2>13. all \in Seq(Byte) /\ Len(all) = Len(some) + Len(zbuf)
    BY <2>12, Joined
  <2>14. InOrder(all) /\ Produced(all, pos, Stream)
    <3>1. InOrder(all)
      BY <2>4, <2>10, <2>12, JoinedInOrder
    <3>2. Produced(all, pos, Stream)
      BY <2>4, <2>10, <2>12, JoinedProduced
    <3> QED
      BY <3>1, <3>2
  <2>15. Len(all) \in Nat /\ DOMAIN all = 1 .. Len(all)
    BY <2>13, LenProperties
  <2>16. ASSUME NEW i \in DOMAIN all, NEW j \in DOMAIN all,
                all[i] # Trailer, all[j] # Trailer, i < j
         PROVE  \/ all[i][1] < all[j][1]
                \/ all[i][1] > all[j][1] /\ Passes(all[i], all[j])
    <3>1. Before(all[i], all[j])
      BY <2>14, <2>15, <2>16 DEF InOrder
    <3>2. CASE second
      BY <3>1, <3>2, <2>16 DEF Before, Passes
    <3>3. CASE ~second
      <4>1. Made(all[i], pos, Stream) /\ Made(all[j], pos, Stream)
        BY <2>14, <2>15 DEF Produced
      <4> QED
        BY <4>1, <3>1, <3>3, <2>1, <2>16, NoPassing
    <3> QED
      BY <3>2, <3>3
  <2>17. ASSUME NEW i \in DOMAIN all, all[i] # Trailer
         PROVE  /\ all[i][1] \notin dropped
                /\ ~second => all[i][2] = (zon /\ all[i][1] > zfrom)
    <3>1. Made(all[i], pos, Stream)
      BY <2>14, <2>15 DEF Produced
    <3> QED
      BY <3>1, <2>17 DEF Made, Stream
  <2>18. ASSUME lost = {}, NEW n \in 1 .. pos
         PROVE  Has(all, n) \/ n \in dropped
    <3>1. Has(wire, n) \/ Rest(n) \/ Has(zbuf, n) \/ n \in dropped
      BY <2>18 DEF SockInv, WriteInv, Whole, Covered
    <3>2. Rest(n) => Has(rest, n)
      <4> SUFFICES ASSUME NEW j \in written + 1 .. Len(chunk), chunk[j][1] = n
                   PROVE  Has(rest, n)
        BY DEF Rest
      <4>1. pc = "raw"
        <5>1. Len(chunk) # 0
          BY <2>1
        <5>2. chunk # <<>>
          BY <5>1
        <5> QED
          BY <5>2, <2>18 DEF SockInv, WriteInv, Sizes
      <4>2. PICK l : l = j - written
        OBVIOUS
      <4>3. l \in 1 .. Len(rest) /\ written + l = j
        BY <4>1, <4>2, <2>1, <2>3
      <4>4. rest[l] = chunk[j]
        BY <4>3, <2>3 DEF PieceOf
      <4> QED
        BY <4>3, <4>4 DEF Has
    <3>3. Has(some, n) <=> Has(wire, n) \/ Has(rest, n)
      BY <2>8, JoinedHas
    <3>4. Has(all, n) <=> Has(some, n) \/ Has(zbuf, n)
      BY <2>12, JoinedHas
    <3> QED
      BY <3>1, <3>2, <3>3, <3>4
  <2>19. ASSUME NEW n \in 1 .. pos
         PROVE  Has(all, n) => \E i \in DOMAIN all : all[i] # Trailer /\ all[i][1] = n
    <3> SUFFICES ASSUME NEW i \in 1 .. Len(all), all[i][1] = n
                 PROVE  i \in DOMAIN all /\ all[i] # Trailer
      BY DEF Has
    <3>1. Trailer[1] = 0
      BY DEF Trailer
    <3>2. n # 0
      BY <2>1
    <3> QED
      BY <3>1, <3>2, <2>15
  <2>20. PICK data : data = {i \in DOMAIN all : all[i] # Trailer}
    OBVIOUS
  <2>21. \A i, j \in data : i < j =>
                \/ all[i][1] < all[j][1]
                \/ all[i][1] > all[j][1] /\ Passes(all[i], all[j])
    BY <2>16, <2>20
  <2>22. \A n \in dropped : ~(\E i \in data : all[i][1] = n)
    BY <2>17, <2>20
  <2>23. lost = {} => \A n \in 1 .. pos : (\E i \in data : all[i][1] = n) \/ n \in dropped
    BY <2>18, <2>19, <2>20
  <2>24. ~second => \A i \in data : all[i][2] = (zon /\ all[i][1] > zfrom)
    BY <2>17, <2>20
  <2>25. all = wire \o (IF pc = "raw" THEN Unsent ELSE <<>>) \o zbuf
    BY <2>2, <2>7, <2>11
  <2> QED
    BY <2>20, <2>21, <2>22, <2>23, <2>24, <2>25, Zenon DEF StreamIntact
<1> QED
  BY <1>1, TransfersAreSound, PTL

\* A hole in a response is there only when the time was up: antd_send gives a
\* peer that is gone nothing after what it lost.
THEOREM HolesComeOfTimeouts == Spec => []HoleNeedsTimeout
<1>1. SockInv => HoleNeedsTimeout
  BY DEF SockInv
<1> QED
  BY <1>1, TransfersAreSound, PTL

\* When antd_close is done on a client of which no transfer gave up, all that was
\* produced has been sent but what a replaced zstream held, and a compressed stream
\* has its trailer.
THEOREM CloseLeavesNothing == Spec => []CloseFlushes
<1>1. SockInv => CloseFlushes
  <2> SUFFICES ASSUME SockInv, pc = "closed", lost = {}
               PROVE  /\ zbuf = <<>>
                      /\ zon => wire # <<>> /\ wire[Len(wire)] = Trailer
                      /\ \A n \in 1 .. pos : n \in OnWire <=> n \notin dropped
    BY DEF CloseFlushes
  <2>1. /\ pos \in Nat /\ wire \in Seq(Byte) /\ Len(wire) \in Nat /\ written \in Nat
    BY LenProperties DEF SockInv, SockTypes, WriteTypes
  <2>2. zbuf = <<>> /\ op = "close" /\ chunk = <<>> /\ Len(chunk) = 0 /\ Len(zbuf) = 0
    BY EmptySeq DEF SockInv, WriteInv, Zipping, Sizes, ReadInv, Places
  <2>3. zon => wire # <<>> /\ wire[Len(wire)] = Trailer
    BY <2>1, <2>2 DEF SockInv, WriteInv, Whole, Ended, Last
  <2>4. ASSUME NEW n \in 1 .. pos PROVE n \in OnWire <=> n \notin dropped
    <3>1. n \in OnWire <=> Has(wire, n)
      BY DEF OnWire, Has
    <3>2. Has(wire, n) \/ n \in dropped
      BY <2>1, <2>2 DEF SockInv, WriteInv, Whole, Covered, Has, Rest
    <3>3. Has(wire, n) => n \notin dropped
      <4> SUFFICES ASSUME NEW i \in 1 .. Len(wire), wire[i][1] = n PROVE n \notin dropped
        BY DEF Has
      <4>1. Made(wire[i], pos, Stream)
        BY DEF SockInv, WriteInv, AllProduced, Produced
      <4>2. wire[i] # Trailer
        <5>1. Trailer[1] = 0
          BY DEF Trailer
        <5> QED
          BY <5>1, <2>1
      <4> QED
        BY <4>1, <4>2 DEF Made, Stream
    <3> QED
      BY <3>1, <3>2, <3>3
  <2> QED
    BY <2>2, <2>3, <2>4
<1> QED
  BY <1>1, TransfersAreSound, PTL

\* A step gives bytes up only with a cause, and read_buf gives a line, a full
\* buffer, or what there was when the peer or the time ended it.
THEOREM StopsHaveACause == Spec => StopsWithCause
<1> DEFINE Cause == idle \/ peer # "open" \/ (ssl /\ "timeout" \in lost)
           Short == lost' # lost \/ (pc = "read" /\ pc' = "got" /\ res' < want /\ ~Upto)
           LineOver == op = "line" /\ pc' = "free"
           GoodLine == /\ \A i \in 1 .. Len(dst) - 1 : dst[i] \notin Newlines
                       /\ \/ Len(dst) = len - 1
                          \/ dst # <<>> /\ dst[Len(dst)] \in Newlines
                          \/ peer # "open" \/ idle
<1>1. ASSUME SockInv, Next, lost' # lost
      PROVE  Cause
  <2>1. lost' = lost \/ SendBlocks \/ SendFails
    BY <1>1 DEF Next, ReadStep, WriteStep, Peer, Tick, BeginRead, ReadSome, ReadBlocks,
                ReadEof, ReadFails, Got, BeginData, BeginHeader, BeginWrite, NextChunk,
                PartsDone, Deflate, SendSome, Sent, Close, writeVars
  <2>2. CASE SendBlocks
    BY <2>2, <1>1 DEF SendBlocks, SendBlocked
  <2>3. CASE SendFails
    <3>1. peer = "reset" \/ (ssl /\ pend # <<>> /\ pend # Segment)
      BY <2>3 DEF SendFails, Retry
    <3>2. "timeout" \in lost \/ peer = "reset" \/ pend = <<>> \/ pend = Segment
      BY <1>1 DEF SockInv, WriteInv, Causes
    <3> QED
      BY <3>1, <3>2
  <2> QED
    BY <2>1, <2>2, <2>3, <1>1
<1>2. ASSUME SockInv, Next, pc = "read", pc' = "got", res' < want, ~Upto
      PROVE  Cause
  <2>1. ReadSome \/ ReadBlocks \/ ReadEof \/ ReadFails
    BY <1>2 DEF Next, ReadStep, WriteStep, Peer, Tick, BeginRead, Got, BeginData,
                BeginHeader, BeginWrite, NextChunk, PartsDone, Deflate, SendSome,
                SendBlocks, SendFails, Sending, Sent, Close
  <2>2. ~ReadSome
    <3>1. want \in Nat
      BY <1>2 DEF SockInv, SockTypes, ReadTypes
    <3> QED
      BY <3>1, <1>2 DEF ReadSome
  <2>3. CASE ReadBlocks
    BY <2>3, <1>2 DEF ReadBlocks, Block, ReadWait
  <2>4. CASE ReadEof \/ ReadFails
    BY <2>4 DEF ReadEof, ReadFails
  <2> QED
    BY <2>1, <2>2, <2>3, <2>4
<1>3. ASSUME SockInv, Next, LineOver
      PROVE  GoodLine
  <2>1. pc \in {"read", "got"}
    BY <1>3 DEF SockInv, ReadInv, Places, ReadOps
  <2>2. Got
    BY <2>1, <1>3 DEF Next, ReadStep, WriteStep, Peer, Tick, BeginRead, ReadSome,
                ReadBlocks, ReadEof, ReadFails, Block, Eof, ReadStop, ReadWait, BeginData,
                BeginHeader, BeginWrite, NextChunk, PartsDone, Deflate, SendSome,
                SendBlocks, SendFails, Sending, Sent, Close
  <2>3. pc = "got" /\ (res <= 0 \/ LineEnds)
    BY <2>2, <1>3 DEF Got, Again
  <2>4. \A i \in 1 .. Len(dst) - 1 : dst[i] \notin Newlines
    BY <1>3 DEF SockInv, ReadInv, ALine
  <2>5. IF res <= 0 THEN peer # "open" \/ idle ELSE dst # <<>>
    BY <2>3, <1>3 DEF SockInv, ReadInv, ALine
  <2>6. Len(dst) <= len - 1
    BY <1>3 DEF SockInv, ReadInv, Reading, Room
  <2>7. len \in Nat /\ Len(dst) \in Nat
    BY <1>3, LenProperties DEF SockInv, SockTypes, ReadTypes
  <2>8. CASE res <= 0
    BY <2>4, <2>5, <2>8
  <2>9. CASE ~(res <= 0)
    BY <2>3, <2>4, <2>5, <2>6, <2>7, <2>9 DEF LineEnds
  <2> QED
    BY <2>8, <2>9
<1>4. SockInv /\ [Next]_vars => [(Short => Cause) /\ (LineOver => GoodLine)]_vars
  BY <1>1, <1>2, <1>3
<1> QED
  BY <1>4, TransfersAreSound, PTL DEF Spec, StopsWithCause

=============================================================================
