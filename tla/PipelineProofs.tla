---------------------------- MODULE PipelineProofs ----------------------------
(***************************************************************************)
(* Theorems about the handlers of a request, for any number of requests    *)
(* and descriptors, any paths and any rules.                               *)
(***************************************************************************)
EXTENDS Pipeline, SequenceTheorems, WellFoundedInduction, TLAPS

-----------------------------------------------------------------------------
(***************************************************************************)
(* The inductive invariant.                                                *)
(***************************************************************************)

\* What a request and its relay are records of.
IsRequest(x) ==
    /\ DOMAIN x = {"at", "handle", "next", "wait", "tls", "sock", "proxy", "hdr",
                   "body", "parts", "relay", "said"}
    /\ DOMAIN x.relay = {"sent", "read", "moved", "state", "closed", "loop"}

\* The handlers that run before an answer begins, and those that run after
\* the decision about an upgrade.
Before == {"accept_request", "decode_request_header", "decode_request",
           "proxify", "proxy_monitor"}
After == {"resolve_request", "serve_file", "decode_post_request",
          "decode_multi_part_request_data", "plugin"}
Decoders == {"decode_post_request", "decode_multi_part_request_data"}

\* What an answered request may have been sent.
Whole == {<<"file">>, <<"error">>, <<"plugin">>, <<"upgrade", "file">>,
          <<"upgrade", "error">>, <<"upgrade", "plugin">>, <<"error", "plugin">>}

\* A request that is done with its backend has no answer of its own, any other
\* one has a whole answer.
Answered(x) ==
    IF x.relay.closed \in {"end", "hup", "error"} THEN x.said = <<>>
    ELSE x.said \in Whole

\* What was read was sent on, unless that failed; what is left unread when the
\* loop ends is left by an error or by a backend that is gone.
RelaySound(b) ==
    /\ b.state \in {"open", "fin", "hup"}
    /\ b.closed \in {"", "unsent", "end", "hup", "error"}
    /\ b.moved # b.read => b.closed = "error"
    /\ b.moved # b.sent =>
        b.closed \in {"", "error"} \/ (b.closed = "hup" /\ b.state = "hup")

\* A queued request: the callbacks of each handler, what was answered so far,
\* the descriptors and the events of its task.
Queued(x) ==
    /\ x.handle \in Before \cup After \cup {"finish_request"}
    /\ x.next = CASE x.handle = "finish_request" -> <<>>
                  [] x.handle \in Decoders -> <<"plugin", "finish_request">>
                  [] OTHER -> <<"finish_request">>
    /\ x.handle \in Before => x.said = <<>> /\ x.body = FALSE
    /\ x.handle \in After => x.said \in {<<>>, <<"upgrade">>, <<"error">>}
    /\ x.handle \in After \ {"plugin"} => x.said # <<"error">>
    /\ x.handle \in After \ {"plugin"} /\ x.body => x.said = <<>>
    /\ x.handle = "finish_request" => Answered(x)
    /\ x.handle # "finish_request" => x.relay.closed = ""
    /\ x.sock \in Fd
    /\ x.proxy \in Fd \cup {NoFd}
    /\ x.handle = "proxy_monitor" => x.proxy # NoFd
    /\ x.handle # "proxy_monitor" /\ x.relay.closed = "" => x.proxy = NoFd
    /\ x.wait \subseteq {x.sock} \cup
            (IF x.handle = "proxy_monitor" THEN {x.proxy} ELSE {})
    /\ RelaySound(x.relay)
    /\ x.handle # "proxy_monitor" /\ x.relay.closed = "" =>
            x.relay.moved = x.relay.sent

Sound(x) ==
    /\ IsRequest(x)
    /\ x.at \in {"new", "queued", "ended", "killed"}
    /\ x.at = "new" => x.said = <<>>
    /\ x.at = "queued" => Queued(x)
    /\ x.at = "ended" => Answered(x)
    /\ x.at = "killed" => x.said \in Whole \cup {<<>>, <<"upgrade">>}
    /\ x.at # "queued" => x.relay.moved = x.relay.sent /\ x.relay.moved = x.relay.read

\* A number is open for the request whose record names it.
Owners ==
    /\ DOMAIN desc = {"owner", "stray"}
    /\ desc.owner \in [Fd -> (Requests \X {"client", "proxy"}) \cup {Free}]
    /\ \A n \in Fd, r \in Requests :
        /\ desc.owner[n] = <<r, "client">> => rq[r].at = "queued" /\ n = rq[r].sock
        /\ desc.owner[n] = <<r, "proxy">> =>
            rq[r].at = "queued" /\ rq[r].handle = "proxy_monitor" /\ n = rq[r].proxy

\* ... and until a number of another request was closed, it is.
Open ==
    desc.stray = "none" =>
        \A r \in Requests : rq[r].at = "queued" =>
            /\ desc.owner[rq[r].sock] = <<r, "client">>
            /\ rq[r].handle = "proxy_monitor" =>
                    desc.owner[rq[r].proxy] = <<r, "proxy">>

PipeInv ==
    /\ rq = [r \in Requests |-> rq[r]]
    /\ \A r \in Requests : Sound(rq[r])
    /\ Owners
    /\ Open

-----------------------------------------------------------------------------
(***************************************************************************)
(* Lemmas: descriptors, and the tasks that handlers return.                *)
(***************************************************************************)

\* The number the kernel gives is one that was free.
LEMMA NewFdIsFree ==
    ASSUME FreeFds # {}
    PROVE  NewFd \in FreeFds
<1>1. FreeFds \subseteq Nat
  BY PipelineAssumption DEF FreeFds, Fd
<1>2. \A m, k \in Nat : m < k => <<m, k>> \in OpToRel(<, Nat)
  BY Zenon DEF OpToRel
<1>3. PICK R : IsWellFoundedOn(R, Nat) /\ \A m, k \in Nat : m < k => <<m, k>> \in R
  BY <1>2, NatLessThanWellFounded, Zenon
<1>4. PICK n \in FreeFds : \A m \in FreeFds : <<m, n>> \notin R
  <2>1. PICK S, T : S = Nat /\ T = FreeFds
    OBVIOUS
  <2>2. IsWellFoundedOn(R, S) /\ T \subseteq S /\ T # {}
    BY <2>1, <1>1, <1>3
  <2>3. \E x \in T : \A y \in T : ~(<<y, x>> \in R)
    BY ONLY <2>2, WFMin, Zenon
  <2> QED
    BY <2>1, <2>3
<1>5. ASSUME NEW m \in FreeFds
      PROVE  n <= m
  <2>1. m < n => <<m, n>> \in R
    BY <1>1, <1>3, Zenon
  <2>2. ~(m < n)
    BY <1>4, <2>1
  <2> QED
    BY <1>1, <2>2
<1> QED
  BY <1>5 DEF NewFd

\* Short sequences, which the provers do not take apart themselves.
LEMMA OneElement ==
    ASSUME NEW S, NEW a \in S
    PROVE  <<a>> \in Seq(S) /\ Len(<<a>>) = 1 /\ <<a>>[1] = a
<1>1. <<>> \in Seq(S) /\ Len(<<>>) = 0
  BY EmptySeq
<1>2. /\ Append(<<>>, a) \in Seq(S)
      /\ Len(Append(<<>>, a)) = 1
      /\ Append(<<>>, a)[1] = a
  BY <1>1, AppendProperties
<1>3. Append(<<>>, a) = <<a>>
  OBVIOUS
<1> QED
  BY <1>2, <1>3

\* Two sequences of one element.
LEMMA OneAfterOne ==
    ASSUME NEW a, NEW b
    PROVE  Append(<<a>>, b) = <<a, b>> /\ <<a>> \o <<b>> = <<a, b>>
<1> DEFINE S == {a, b}
<1>1. /\ <<a>> \in Seq(S) /\ Len(<<a>>) = 1 /\ <<a>>[1] = a
      /\ <<b>> \in Seq(S) /\ Len(<<b>>) = 1 /\ <<b>>[1] = b
  BY OneElement
<1>2. /\ <<a, b>> \in Seq(S) /\ Len(<<a, b>>) = 2
      /\ <<a, b>>[1] = a /\ <<a, b>>[2] = b
  OBVIOUS
<1>3. a \in S /\ b \in S
  OBVIOUS
<1> HIDE DEF S
<1>4. /\ Append(<<a>>, b) \in Seq(S)
      /\ Len(Append(<<a>>, b)) = 2
      /\ \A i \in 1 .. 2 : Append(<<a>>, b)[i] = <<a, b>>[i]
  BY <1>1, <1>2, <1>3, AppendProperties
<1>5. /\ <<a>> \o <<b>> \in Seq(S)
      /\ Len(<<a>> \o <<b>>) = 2
      /\ \A i \in 1 .. 2 : (<<a>> \o <<b>>)[i] = <<a, b>>[i]
  BY <1>1, <1>2, <1>3, ConcatProperties
<1>6. Append(<<a>>, b) = <<a, b>>
  BY <1>2, <1>4, SeqEqual
<1>7. <<a>> \o <<b>> = <<a, b>>
  BY <1>2, <1>5, SeqEqual
<1> QED
  BY <1>6, <1>7

\* The chains of callbacks there are.
LEMMA Chains ==
    /\ <<>> \o <<"finish_request">> = <<"finish_request">>
    /\ <<>> \o <<"plugin", "finish_request">> = <<"plugin", "finish_request">>
    /\ <<"plugin">> \o <<"finish_request">> = <<"plugin", "finish_request">>
    /\ Head(<<"finish_request">>) = "finish_request"
    /\ Tail(<<"finish_request">>) = <<>>
    /\ Head(<<"plugin", "finish_request">>) = "plugin"
    /\ Tail(<<"plugin", "finish_request">>) = <<"finish_request">>
  BY OneAfterOne

\* A task with its handle, its callbacks, and its events.
Handed(x, h, cbs, w) == [x EXCEPT !.handle = h, !.next = cbs, !.wait = w]

\* What a task that is handed on changes of its request.
LEMMA HandedFields ==
    ASSUME NEW x, IsRequest(x), NEW h, NEW cbs, NEW w,
           NEW y, y = Handed(x, h, cbs, w)
    PROVE  /\ IsRequest(y)
           /\ y.handle = h /\ y.next = cbs /\ y.wait = w
           /\ y.at = x.at /\ y.sock = x.sock /\ y.proxy = x.proxy
           /\ y.body = x.body /\ y.relay = x.relay /\ y.said = x.said
  BY DEF Handed, IsRequest

\* A task that names its handler keeps the callbacks of its request; the plugin
\* comes after its decoders; a task without a handler is taken by its callback.
LEMMA EndIsHanded ==
    ASSUME NEW x, NEW w
    PROVE  /\ x.next = <<"finish_request">> =>
                End(x, w) = Handed(x, "finish_request", <<>>, w)
           /\ x.next = <<"plugin", "finish_request">> =>
                End(x, w) = Handed(x, "plugin", <<"finish_request">>, w)
  BY Chains DEF Task, End, Handed

\* A task is handed to the scheduler.
LEMMA TaskIsHanded ==
    ASSUME NEW x, NEW h, h # "", NEW w,
           \/ x.next = <<"finish_request">>
           \/ x.next = <<"plugin", "finish_request">>
    PROVE  /\ Task(x, h, <<>>, w) = Handed(x, h, x.next, w)
           /\ x.next = <<"finish_request">> =>
                Task(x, h, <<"plugin">>, w) =
                    Handed(x, h, <<"plugin", "finish_request">>, w)
  BY Chains DEF Task, Handed

\* What is said is the last thing said.
LEMMA SayFields ==
    ASSUME NEW x, IsRequest(x), NEW what, NEW y, y = Say(x, what)
    PROVE  /\ IsRequest(y)
           /\ y.said = Append(x.said, what)
           /\ y.at = x.at /\ y.sock = x.sock /\ y.proxy = x.proxy
           /\ y.next = x.next /\ y.body = x.body /\ y.relay = x.relay
           /\ y.handle = x.handle /\ y.wait = x.wait
<1>1. PICK said : said = Append(x.said, what)
  OBVIOUS
<1>2. y = [x EXCEPT !.said = said]
  BY <1>1 DEF Say
<1>3. /\ IsRequest(y)
      /\ y.said = said
      /\ y.at = x.at /\ y.sock = x.sock /\ y.proxy = x.proxy
      /\ y.next = x.next /\ y.body = x.body /\ y.relay = x.relay
      /\ y.handle = x.handle /\ y.wait = x.wait
  BY <1>2 DEF IsRequest
<1> QED
  BY <1>1, <1>3, Zenon

\* An answer on top of nothing, of an upgrade, or, a plugin's, of an error.
LEMMA SaidWhole ==
    ASSUME NEW said \in {<<>>, <<"upgrade">>, <<"error">>},
           NEW what \in {"file", "error", "plugin"},
           said = <<"error">> => what = "plugin"
    PROVE  Append(said, what) \in Whole
<1>1. CASE said = <<>>
  <2>1. Append(<<>>, what) = <<what>>
    OBVIOUS
  <2> QED
    BY <1>1, <2>1 DEF Whole
<1>2. CASE said = <<"upgrade">>
  <2>1. Append(<<"upgrade">>, what) = <<"upgrade", what>>
    BY OneAfterOne
  <2> QED
    BY <1>2, <2>1 DEF Whole
<1>3. CASE said = <<"error">>
  <2>1. Append(<<"error">>, "plugin") = <<"error", "plugin">>
    BY OneAfterOne
  <2> QED
    BY <1>3, <2>1 DEF Whole
<1> QED
  BY <1>1, <1>2, <1>3

-----------------------------------------------------------------------------
(***************************************************************************)
(* The tasks of a request, from one handler to the next.                   *)
(***************************************************************************)

\* x with other data: its header, its handshake, its body or its parts.
Like(x, z) ==
    /\ IsRequest(z)
    /\ z.at = x.at /\ z.handle = x.handle /\ z.next = x.next /\ z.wait = x.wait
    /\ z.sock = x.sock /\ z.proxy = x.proxy /\ z.relay = x.relay
    /\ z.said = x.said

\* x becomes y while its descriptors stay what they are.
Calm(x, y) ==
    /\ Sound(y)
    /\ y.at = "queued" /\ y.sock = x.sock
    /\ (y.handle = "proxy_monitor") <=> (x.handle = "proxy_monitor")
    /\ y.handle = "proxy_monitor" => y.proxy = x.proxy

\* To another handler of the decoding.
LEMMA ToDecoding ==
    ASSUME NEW x, Sound(x), x.at = "queued", x.handle \in Before \ {"proxy_monitor"},
           NEW z, Like(x, z), z.body = x.body,
           NEW h \in Before \ {"proxy_monitor"}, NEW w, w \subseteq {x.sock}
    PROVE  Calm(x, Task(z, h, <<>>, w))
<1>1. Queued(x) /\ z.next = <<"finish_request">> /\ h # ""
  BY DEF Sound, Queued, Before, Decoders, Like
<1>2. Task(z, h, <<>>, w) = Handed(z, h, z.next, w)
  BY <1>1, TaskIsHanded, Zenon
<1>3. PICK y : y = Handed(z, h, z.next, w)
  OBVIOUS
<1>4. /\ IsRequest(y)
      /\ y.handle = h /\ y.next = z.next /\ y.wait = w
      /\ y.at = z.at /\ y.sock = z.sock /\ y.proxy = z.proxy
      /\ y.body = z.body /\ y.relay = z.relay /\ y.said = z.said
  BY <1>3, HandedFields DEF Like
<1>5. Queued(y)
  <2>1. /\ x.said = <<>> /\ x.body = FALSE /\ x.relay.closed = ""
        /\ x.proxy = NoFd /\ x.sock \in Fd /\ RelaySound(x.relay)
        /\ x.relay.moved = x.relay.sent
    BY <1>1 DEF Queued, Before, After
  <2>2. /\ y.said = <<>> /\ y.body = FALSE /\ y.relay = x.relay
        /\ y.proxy = NoFd /\ y.sock = x.sock /\ y.wait \subseteq {y.sock}
        /\ y.handle = h /\ y.next = <<"finish_request">>
    BY <1>1, <1>4, <2>1 DEF Like
  <2> QED
    BY <2>1, <2>2 DEF Queued, Before, After, Decoders
<1>6. Calm(x, y)
  BY <1>4, <1>5 DEF Calm, Sound, Like, Before
<1> QED
  BY <1>2, <1>3, <1>6, Zenon

\* To an answer, and to the end of the request.
LEMMA ToAnswer ==
    ASSUME NEW x, Sound(x), x.at = "queued",
           x.handle \in (Before \ {"proxy_monitor"})
                        \cup {"resolve_request", "serve_file", "plugin"},
           NEW z, Like(x, z), NEW w, w \subseteq {x.sock},
           NEW what \in {"file", "error", "plugin"},
           x.said = <<"error">> => what = "plugin"
    PROVE  Calm(x, End(Say(z, what), w))
<1>1. Queued(x) /\ z.next = <<"finish_request">>
  BY DEF Sound, Queued, Before, Decoders, Like
<1>2. x.said \in {<<>>, <<"upgrade">>, <<"error">>}
  BY <1>1 DEF Queued, Before, After
<1>3. PICK s : s = Say(z, what)
  OBVIOUS
<1>4. /\ IsRequest(s) /\ s.said \in Whole
      /\ s.at = x.at /\ s.sock = x.sock /\ s.proxy = x.proxy
      /\ s.next = x.next /\ s.body = z.body /\ s.relay = x.relay
  <2>1. IsRequest(z)
    BY DEF Like
  <2>2. /\ IsRequest(s) /\ s.said = Append(z.said, what)
        /\ s.at = z.at /\ s.sock = z.sock /\ s.proxy = z.proxy
        /\ s.next = z.next /\ s.body = z.body /\ s.relay = z.relay
    BY <1>3, <2>1, SayFields
  <2>3. Append(x.said, what) \in Whole
    BY <1>2, SaidWhole
  <2> QED
    BY <2>2, <2>3 DEF Like
<1>5. PICK y : y = Handed(s, "finish_request", <<>>, w)
  OBVIOUS
<1>6. End(Say(z, what), w) = y
  <2>1. s.next = <<"finish_request">>
    BY <1>1, <1>4 DEF Like
  <2>2. End(s, w) = y
    BY <2>1, <1>5, EndIsHanded
  <2> QED
    BY <1>3, <2>2, Zenon
<1>7. /\ IsRequest(y)
      /\ y.handle = "finish_request" /\ y.next = <<>> /\ y.wait = w
      /\ y.at = s.at /\ y.sock = s.sock /\ y.proxy = s.proxy
      /\ y.relay = s.relay /\ y.said = s.said
  BY <1>4, <1>5, HandedFields
<1>8. x.relay.closed = "" /\ x.handle # "finish_request" /\ x.handle # "proxy_monitor"
  BY <1>1 DEF Queued, Before
<1>9. Queued(y)
  BY <1>1, <1>4, <1>7, <1>8 DEF Queued, Answered, Before, After, Decoders
<1>10. Calm(x, y)
  BY <1>4, <1>7, <1>8, <1>9 DEF Calm, Sound
<1> QED
  BY <1>6, <1>10, Zenon

\* ... which an error is.
LEMMA ToError ==
    ASSUME NEW x, Sound(x), x.at = "queued",
           x.handle \in (Before \ {"proxy_monitor"}) \cup {"resolve_request"},
           NEW z, Like(x, z), NEW w, w \subseteq {x.sock}
    PROVE  Calm(x, Error(z, w))
<1>1. x.said # <<"error">>
  <2>1. <<"error">> # <<>>
    OBVIOUS
  <2>2. x.said = <<>> \/ x.said # <<"error">>
    BY Zenon DEF Sound, Queued, Before, After
  <2> QED
    BY <2>1, <2>2
<1>2. Calm(x, End(Say(z, "error"), w))
  <2>1. /\ x.said = <<"error">> => "error" = "plugin"
        /\ "error" \in {"file", "error", "plugin"}
        /\ x.handle \in (Before \ {"proxy_monitor"})
                        \cup {"resolve_request", "serve_file", "plugin"}
    BY <1>1
  <2> QED
    BY <2>1, ToAnswer, Zenon
<1> QED
  BY <1>2 DEF Error

\* To a handler that comes after the decision about an upgrade.
LEMMA ToService ==
    ASSUME NEW x, Sound(x), x.at = "queued",
           x.handle \notin {"proxy_monitor", "finish_request"},
           NEW z, IsRequest(z), z.at = "queued", z.sock = x.sock,
           z.proxy = x.proxy, z.relay = x.relay,
           z.said \in {<<>>, <<"upgrade">>, <<"error">>},
           NEW h \in After, NEW cbs, NEW w, w \subseteq {x.sock},
           h \in Decoders => cbs = <<"plugin", "finish_request">>,
           h \notin Decoders => cbs = <<"finish_request">>,
           h # "plugin" => z.said # <<"error">> /\ (z.body => z.said = <<>>)
    PROVE  Calm(x, Handed(z, h, cbs, w))
<1>1. Queued(x)
  BY DEF Sound
<1>2. PICK y : y = Handed(z, h, cbs, w)
  OBVIOUS
<1>3. /\ IsRequest(y)
      /\ y.handle = h /\ y.next = cbs /\ y.wait = w
      /\ y.at = z.at /\ y.sock = z.sock /\ y.proxy = z.proxy
      /\ y.body = z.body /\ y.relay = z.relay /\ y.said = z.said
  BY <1>2, HandedFields
<1>4. Queued(y)
  BY <1>1, <1>3 DEF Queued, Before, After, Decoders
<1>5. Calm(x, y)
  BY <1>3, <1>4 DEF Calm, Sound, After
<1> QED
  BY <1>2, <1>5, Zenon

-----------------------------------------------------------------------------
(***************************************************************************)
(* One lemma per handler: what becomes of its request.                     *)
(***************************************************************************)

\* A handler's step is calm for its request, and leaves the descriptors alone.
Calmly(r) ==
    /\ \E y : Becomes(r, y) /\ Calm(rq[r], y)
    /\ desc' = desc

\* accept_request.
LEMMA AcceptRequestStep ==
    ASSUME PipeInv, NEW r \in Requests, AcceptRequest(r)
    PROVE  Calmly(r)
<1> DEFINE x == rq[r]
<1>1. Sound(x) /\ x.at = "queued" /\ x.handle = "accept_request" /\ desc' = desc
  BY DEF PipeInv, AcceptRequest, Runs
<1>2. IsRequest(x) /\ x.said = <<>> /\ Like(x, x)
  BY <1>1 DEF Sound, Queued, Before, Like
<1>3. \/ Becomes(r, Error(x, {x.sock}))
      \/ \E z : /\ z = x \/ z = [x EXCEPT !.tls = "done"]
                /\ Becomes(r, Task(z, "accept_request", <<>>, {x.sock}))
      \/ \E p : Becomes(r, Task([x EXCEPT !.hdr.asked = p],
                                "decode_request_header", <<>>, {x.sock}))
  BY DEF AcceptRequest
<1> HIDE DEF x
<1>4. CASE Becomes(r, Error(x, {x.sock}))
  <2>1. Calm(x, Error(x, {x.sock}))
    BY <1>1, <1>2, ToError DEF Before
  <2> QED
    BY <1>1, <1>4, <2>1 DEF Calmly, x
<1>5. ASSUME NEW z, z = x \/ z = [x EXCEPT !.tls = "done"],
             Becomes(r, Task(z, "accept_request", <<>>, {x.sock}))
      PROVE  Calmly(r)
  <2>1. Like(x, z) /\ z.body = x.body
    BY <1>2, <1>5 DEF Like, IsRequest
  <2>2. Calm(x, Task(z, "accept_request", <<>>, {x.sock}))
    BY <1>1, <2>1, ToDecoding DEF Before
  <2> QED
    BY <1>1, <1>5, <2>2 DEF Calmly, x
<1>6. ASSUME NEW p, Becomes(r, Task([x EXCEPT !.hdr.asked = p],
                                    "decode_request_header", <<>>, {x.sock}))
      PROVE  Calmly(r)
  <2>1. PICK z : z = [x EXCEPT !.hdr.asked = p]
    OBVIOUS
  <2>2. Like(x, z) /\ z.body = x.body
    BY <1>2, <2>1 DEF Like, IsRequest
  <2>3. Calm(x, Task(z, "decode_request_header", <<>>, {x.sock}))
    BY <1>1, <2>2, ToDecoding DEF Before
  <2> QED
    BY <1>1, <1>6, <2>1, <2>3 DEF Calmly, x
<1> QED
  BY <1>3, <1>4, <1>5, <1>6

\* decode_request_header.
LEMMA DecodeRequestHeaderStep ==
    ASSUME PipeInv, NEW r \in Requests, DecodeRequestHeader(r)
    PROVE  Calmly(r)
<1> DEFINE x == rq[r]
<1>1. Sound(x) /\ x.at = "queued" /\ x.handle = "decode_request_header" /\ desc' = desc
  BY DEF PipeInv, DecodeRequestHeader, Runs
<1>2. IsRequest(x)
  BY <1>1 DEF Sound
<1>3. PICK got \in SUBSET (Fields \ x.hdr.got) :
        LET stored == [x EXCEPT !.hdr.got = @ \cup got]
            to == ApplyRules(rules, KnownHost(got), x.hdr.asked)
            decoded == [stored EXCEPT !.hdr.path = to.path, !.hdr.query = to.query,
                                      !.hdr.cookie = "Cookie" \in got]
        IN  \/ Becomes(r, Error([x EXCEPT !.hdr = NoHdr], {}))
            \/ Becomes(r, Task([stored EXCEPT !.hdr.lost = @ \cup got],
                               "decode_request_header", <<>>, {x.sock}))
            \/ Becomes(r, Task(decoded, "proxify", <<>>, {x.sock}))
            \/ Becomes(r, Task(decoded, "decode_request", <<>>, {x.sock}))
  BY DEF DecodeRequestHeader
<1> HIDE DEF x
<1> DEFINE stored == [x EXCEPT !.hdr.got = @ \cup got]
           to == ApplyRules(rules, KnownHost(got), x.hdr.asked)
           decoded == [stored EXCEPT !.hdr.path = to.path, !.hdr.query = to.query,
                                     !.hdr.cookie = "Cookie" \in got]
           cut == [stored EXCEPT !.hdr.lost = @ \cup got]
           without == [x EXCEPT !.hdr = NoHdr]
<1>4. Like(x, stored) /\ stored.body = x.body
  BY <1>2 DEF Like, IsRequest
<1>5. Like(x, without)
  BY <1>2 DEF Like, IsRequest
<1> HIDE DEF stored, to
<1>6. /\ Like(x, decoded) /\ decoded.body = x.body
      /\ Like(x, cut) /\ cut.body = x.body
  BY <1>4 DEF Like, IsRequest
<1>7. \/ Becomes(r, Error(without, {}))
      \/ Becomes(r, Task(cut, "decode_request_header", <<>>, {x.sock}))
      \/ Becomes(r, Task(decoded, "proxify", <<>>, {x.sock}))
      \/ Becomes(r, Task(decoded, "decode_request", <<>>, {x.sock}))
  BY <1>3, Zenon DEF stored, to
<1> HIDE DEF decoded, cut, without
<1>8. Calm(x, Error(without, {}))
  BY <1>1, <1>5, ToError DEF Before
<1>9. ASSUME NEW h \in {"decode_request_header", "proxify", "decode_request"}
      PROVE  /\ Calm(x, Task(cut, h, <<>>, {x.sock}))
             /\ Calm(x, Task(decoded, h, <<>>, {x.sock}))
  BY <1>1, <1>6, ToDecoding DEF Before
<1> QED
  BY <1>1, <1>7, <1>8, <1>9 DEF Calmly, x

\* decode_request.
LEMMA DecodeRequestStep ==
    ASSUME PipeInv, NEW r \in Requests, DecodeRequest(r)
    PROVE  Calmly(r)
<1> DEFINE x == rq[r]
           z == [x EXCEPT !.hdr = NoHdr]
           b == [z EXCEPT !.body = TRUE]
           u == Say(z, "upgrade")
           Resolve(y) == Becomes(r, Task(y, "resolve_request", <<>>, {}))
<1>1. Sound(x) /\ x.at = "queued" /\ x.handle = "decode_request" /\ desc' = desc
  BY DEF PipeInv, DecodeRequest, Runs
<1>2. IsRequest(x) /\ x.said = <<>> /\ x.body = FALSE /\ x.next = <<"finish_request">>
  BY <1>1 DEF Sound, Queued, Before, Decoders
<1>3. Becomes(r, Error(z, {})) \/ Resolve(b) \/ Resolve(u) \/ Resolve(z)
  BY Zenon DEF DecodeRequest
<1> HIDE DEF x
<1>4. Like(x, z) /\ z.body = FALSE
  BY <1>2 DEF Like, IsRequest
<1> HIDE DEF z
<1>5. Like(x, b)
  BY <1>4 DEF Like, IsRequest
<1>6. /\ IsRequest(u) /\ u.at = x.at /\ u.sock = x.sock /\ u.proxy = x.proxy
      /\ u.relay = x.relay /\ u.next = x.next /\ u.body = FALSE
      /\ u.said = Append(<<>>, "upgrade")
  BY <1>2, <1>4, SayFields DEF Like
<1>7. Append(<<>>, "upgrade") = <<"upgrade">> /\ <<"upgrade">> # <<"error">>
  OBVIOUS
<1> HIDE DEF b, u
<1>8. ASSUME NEW y, IsRequest(y), y.at = "queued", y.sock = x.sock,
             y.proxy = x.proxy, y.relay = x.relay, y.next = x.next,
             y.said \in {<<>>, <<"upgrade">>}, y.body => y.said = <<>>,
             Resolve(y)
      PROVE  Calmly(r)
  <2>1. Task(y, "resolve_request", <<>>, {}) =
            Handed(y, "resolve_request", <<"finish_request">>, {})
    BY <1>2, <1>8, TaskIsHanded
  <2>2. y.said # <<"error">> /\ y.said \in {<<>>, <<"upgrade">>, <<"error">>}
    <3>1. <<>> # <<"error">> /\ <<"upgrade">> # <<"error">>
      OBVIOUS
    <3> QED
      BY <1>8, <3>1
  <2>3. Calm(x, Handed(y, "resolve_request", <<"finish_request">>, {}))
    BY <1>1, <1>8, <2>2, ToService DEF After, Decoders
  <2> QED
    BY <1>1, <1>8, <2>1, <2>3 DEF Calmly, x
<1>9. Calm(x, Error(z, {}))
  BY <1>1, <1>4, ToError DEF Before
<1>10. CASE Becomes(r, Error(z, {}))
  BY <1>1, <1>9, <1>10 DEF Calmly, x
<1>11. CASE Resolve(b)
  BY <1>1, <1>2, <1>5, <1>8, <1>11 DEF Like
<1>12. CASE Resolve(u)
  BY <1>1, <1>6, <1>7, <1>8, <1>12
<1>13. CASE Resolve(z)
  BY <1>1, <1>2, <1>4, <1>8, <1>13 DEF Like
<1> QED
  BY <1>3, <1>10, <1>11, <1>12, <1>13

\* resolve_request.
LEMMA ResolveRequestStep ==
    ASSUME PipeInv, NEW r \in Requests, ResolveRequest(r)
    PROVE  Calmly(r)
<1> DEFINE x == rq[r]
<1>1. Sound(x) /\ x.at = "queued" /\ x.handle = "resolve_request" /\ desc' = desc
  BY DEF PipeInv, ResolveRequest, Runs
<1>2. /\ IsRequest(x) /\ Like(x, x) /\ x.next = <<"finish_request">>
      /\ x.said \in {<<>>, <<"upgrade">>, <<"error">>}
      /\ x.said # <<"error">> /\ (x.body => x.said = <<>>)
  BY <1>1 DEF Sound, Queued, After, Decoders, Like
<1>3. \/ Becomes(r, Error(x, {x.sock})) \/ Becomes(r, Error(x, {}))
      \/ Becomes(r, Task(x, "plugin", <<>>, {x.sock}))
      \/ Becomes(r, Task(x, "serve_file", <<>>, {x.sock}))
      \/ Becomes(r, Task(x, "decode_post_request", <<"plugin">>, {}))
  BY DEF ResolveRequest, ExecutePlugin
<1> HIDE DEF x
<1>4. Calm(x, Error(x, {x.sock})) /\ Calm(x, Error(x, {}))
  BY <1>1, <1>2, ToError
<1>5. ASSUME NEW h \in {"plugin", "serve_file"}
      PROVE  Calm(x, Task(x, h, <<>>, {x.sock}))
  <2>1. h \in After /\ h \notin Decoders /\ h # ""
    BY DEF After, Decoders
  <2>2. Calm(x, Handed(x, h, <<"finish_request">>, {x.sock}))
    BY <1>1, <1>2, <2>1, ToService
  <2>3. Task(x, h, <<>>, {x.sock}) = Handed(x, h, x.next, {x.sock})
    BY <1>2, <2>1, TaskIsHanded, Zenon
  <2> QED
    BY <1>2, <2>2, <2>3
<1>6. Calm(x, Task(x, "decode_post_request", <<"plugin">>, {}))
  <2> DEFINE c == <<"plugin", "finish_request">>
  <2>1. Calm(x, Handed(x, "decode_post_request", c, {}))
    BY <1>1, <1>2, ToService DEF After, Decoders
  <2>2. Task(x, "decode_post_request", <<"plugin">>, {}) =
            Handed(x, "decode_post_request", c, {})
    BY <1>2, TaskIsHanded
  <2> QED
    BY <2>1, <2>2
<1> QED
  BY <1>1, <1>3, <1>4, <1>5, <1>6 DEF Calmly, x

\* serve_file.
LEMMA ServeFileStep ==
    ASSUME PipeInv, NEW r \in Requests, ServeFile(r)
    PROVE  Calmly(r)
<1> DEFINE x == rq[r]
<1>1. Sound(x) /\ x.at = "queued" /\ x.handle = "serve_file" /\ desc' = desc
  BY DEF PipeInv, ServeFile, Runs
<1>2. Like(x, x) /\ x.said # <<"error">>
  BY <1>1 DEF Sound, Queued, After, Like
<1>3. PICK what \in {"file", "error"} : Becomes(r, End(Say(x, what), {}))
  BY DEF ServeFile
<1> HIDE DEF x
<1>4. Calm(x, End(Say(x, what), {}))
  BY <1>1, <1>2, ToAnswer
<1> QED
  BY <1>1, <1>3, <1>4 DEF Calmly, x

\* decode_post_request.
LEMMA DecodePostRequestStep ==
    ASSUME PipeInv, NEW r \in Requests, DecodePostRequest(r)
    PROVE  Calmly(r)
<1> DEFINE x == rq[r]
           s == Say(x, "error")
<1>1. Sound(x) /\ x.at = "queued" /\ x.handle = "decode_post_request" /\ desc' = desc
  BY DEF PipeInv, DecodePostRequest, Runs
<1>2. /\ IsRequest(x) /\ x.next = <<"plugin", "finish_request">>
      /\ x.said \in {<<>>, <<"upgrade">>, <<"error">>}
      /\ x.said # <<"error">> /\ (x.body => x.said = <<>>)
  BY <1>1 DEF Sound, Queued, After, Decoders
<1>3. \/ Becomes(r, End(x, {})) \/ Becomes(r, End(x, {x.sock}))
      \/ x.body /\ Becomes(r, End(s, {}))
      \/ \E n : Becomes(r, Task([x EXCEPT !.parts = n],
                                "decode_multi_part_request_data", <<>>, {x.sock}))
  BY Zenon DEF DecodePostRequest, Error
<1> HIDE DEF x
<1>4. /\ IsRequest(s) /\ s.at = x.at /\ s.sock = x.sock /\ s.proxy = x.proxy
      /\ s.relay = x.relay /\ s.next = x.next /\ s.said = Append(x.said, "error")
  BY <1>2, SayFields
<1>5. Append(<<>>, "error") = <<"error">>
  OBVIOUS
<1> HIDE DEF s
<1>6. ASSUME NEW y, NEW w, w \subseteq {x.sock}, IsRequest(y), y.at = "queued",
             y.sock = x.sock, y.proxy = x.proxy, y.relay = x.relay,
             y.next = x.next, y.said \in {<<>>, <<"upgrade">>, <<"error">>},
             Becomes(r, End(y, w))
      PROVE  Calmly(r)
  <2>1. End(y, w) = Handed(y, "plugin", <<"finish_request">>, w)
    BY <1>2, <1>6, EndIsHanded
  <2>2. Calm(x, Handed(y, "plugin", <<"finish_request">>, w))
    BY <1>1, <1>6, ToService DEF After, Decoders
  <2> QED
    BY <1>1, <1>6, <2>1, <2>2 DEF Calmly, x
<1>7. CASE Becomes(r, End(x, {})) \/ Becomes(r, End(x, {x.sock}))
  BY <1>1, <1>2, <1>6, <1>7
<1>8. CASE x.body /\ Becomes(r, End(s, {}))
  BY <1>1, <1>2, <1>4, <1>5, <1>6, <1>8
<1>9. ASSUME NEW n, Becomes(r, Task([x EXCEPT !.parts = n],
                                    "decode_multi_part_request_data", <<>>, {x.sock}))
      PROVE  Calmly(r)
  <2> DEFINE c == <<"plugin", "finish_request">>
             h == "decode_multi_part_request_data"
  <2>1. PICK y : y = [x EXCEPT !.parts = n]
    OBVIOUS
  <2>2. /\ IsRequest(y) /\ y.at = x.at /\ y.sock = x.sock /\ y.proxy = x.proxy
        /\ y.relay = x.relay /\ y.next = x.next /\ y.said = x.said /\ y.body = x.body
    BY <1>2, <2>1 DEF IsRequest
  <2>3. Task(y, h, <<>>, {x.sock}) = Handed(y, h, c, {x.sock})
    BY <1>2, <2>2, TaskIsHanded
  <2>4. Calm(x, Handed(y, h, c, {x.sock}))
    BY <1>1, <1>2, <2>2, ToService DEF After, Decoders
  <2> QED
    BY <1>1, <1>9, <2>1, <2>3, <2>4 DEF Calmly, x
<1> QED
  BY <1>3, <1>7, <1>8, <1>9

\* decode_multi_part_request_data.
LEMMA DecodeMultiPartRequestDataStep ==
    ASSUME PipeInv, NEW r \in Requests, DecodeMultiPartRequestData(r)
    PROVE  Calmly(r)
<1> DEFINE x == rq[r]
           y == [x EXCEPT !.parts = @ - 1]
           z == [y EXCEPT !.parts = 0]
           h == "decode_multi_part_request_data"
           c == <<"plugin", "finish_request">>
<1>1. Sound(x) /\ x.at = "queued" /\ x.handle = h /\ desc' = desc
  BY DEF PipeInv, DecodeMultiPartRequestData, Runs
<1>2. /\ IsRequest(x) /\ x.next = c
      /\ x.said \in {<<>>, <<"upgrade">>, <<"error">>}
      /\ x.said # <<"error">> /\ (x.body => x.said = <<>>)
  BY <1>1 DEF Sound, Queued, After, Decoders
<1>3. /\ y.sock = x.sock
      /\ \/ Becomes(r, Task(y, h, <<>>, {y.sock}))
         \/ Becomes(r, End(z, {y.sock}))
  BY <1>2 DEF DecodeMultiPartRequestData, IsRequest
<1> HIDE DEF x
<1>4. Like(x, y) /\ y.body = x.body
  BY <1>2 DEF Like, IsRequest
<1> HIDE DEF y
<1>5. Like(x, z)
  BY <1>4 DEF Like, IsRequest
<1> HIDE DEF z
<1>6. Task(y, h, <<>>, {x.sock}) = Handed(y, h, c, {x.sock})
  BY <1>2, <1>4, TaskIsHanded DEF Like
<1>7. End(z, {x.sock}) = Handed(z, "plugin", <<"finish_request">>, {x.sock})
  BY <1>2, <1>5, EndIsHanded DEF Like
<1>8. Calm(x, Handed(y, h, c, {x.sock}))
  BY <1>1, <1>2, <1>4, ToService DEF After, Decoders, Like
<1>9. Calm(x, Handed(z, "plugin", <<"finish_request">>, {x.sock}))
  BY <1>1, <1>2, <1>5, ToService DEF After, Decoders, Like
<1> QED
  BY <1>1, <1>3, <1>6, <1>7, <1>8, <1>9 DEF Calmly, x

\* A task of a plugin.
LEMMA PluginStep ==
    ASSUME PipeInv, NEW r \in Requests, Plugin(r)
    PROVE  Calmly(r)
<1> DEFINE x == rq[r]
<1>1. Sound(x) /\ x.at = "queued" /\ x.handle = "plugin" /\ desc' = desc
  BY DEF PipeInv, Plugin, Runs
<1>2. Like(x, x) /\ x.wait \subseteq {x.sock}
  BY <1>1 DEF Sound, Queued, Like
<1>3. Becomes(r, End(Say(x, "plugin"), x.wait))
  BY DEF Plugin
<1> HIDE DEF x
<1>4. Calm(x, End(Say(x, "plugin"), x.wait))
  BY <1>1, <1>2, ToAnswer
<1> QED
  BY <1>1, <1>3, <1>4 DEF Calmly, x

\* Only the relay of a monitored request changes.
LEMMA RelayMoves ==
    ASSUME PipeInv, NEW r \in Requests, NEW c, Relays(r, c), desc' = desc,
           rq[r].at = "queued", rq[r].handle = "proxy_monitor",
           DOMAIN c = {"sent", "read", "moved", "state", "closed", "loop"},
           RelaySound(c), c.closed = ""
    PROVE  Calmly(r)
<1> DEFINE x == rq[r]
<1>1. Sound(x) /\ x.at = "queued" /\ x.handle = "proxy_monitor"
  BY DEF PipeInv
<1>2. IsRequest(x) /\ Queued(x)
  BY <1>1 DEF Sound
<1>3. Becomes(r, [x EXCEPT !.relay = c])
  BY DEF Relays
<1> HIDE DEF x
<1>4. PICK y : y = [x EXCEPT !.relay = c]
  OBVIOUS
<1>5. /\ IsRequest(y)
      /\ y.at = x.at /\ y.handle = x.handle /\ y.next = x.next /\ y.wait = x.wait
      /\ y.sock = x.sock /\ y.proxy = x.proxy /\ y.said = x.said /\ y.body = x.body
      /\ y.relay = c
  BY <1>2, <1>4 DEF IsRequest
<1>6. Queued(y)
  BY <1>1, <1>2, <1>5 DEF Queued, Before, After, Decoders
<1>7. Calm(x, y)
  BY <1>1, <1>5, <1>6 DEF Calm, Sound
<1> QED
  BY <1>3, <1>4, <1>7 DEF Calmly, x

\* The backend's next move.
LEMMA BackendStep ==
    ASSUME PipeInv, NEW r \in Requests, Backend(r)
    PROVE  Calmly(r)
<1> DEFINE b == rq[r].relay
<1>1. rq[r].at = "queued" /\ rq[r].handle = "proxy_monitor" /\ desc' = desc
  BY DEF Backend, Runs
<1>2. /\ DOMAIN b = {"sent", "read", "moved", "state", "closed", "loop"}
      /\ RelaySound(b) /\ b.closed = ""
  BY <1>1 DEF PipeInv, Sound, Queued, IsRequest
<1>3. \/ Relays(r, [b EXCEPT !.sent = @ + 1])
      \/ \E s \in {"fin", "hup"} : Relays(r, [b EXCEPT !.state = s])
  BY Zenon DEF Backend
<1> HIDE DEF b
<1>4. ASSUME NEW c, Relays(r, c),
             \/ c = [b EXCEPT !.sent = @ + 1]
             \/ \E s \in {"fin", "hup"} : c = [b EXCEPT !.state = s]
      PROVE  Calmly(r)
  <2>1. /\ DOMAIN c = {"sent", "read", "moved", "state", "closed", "loop"}
        /\ c.closed = "" /\ c.moved = c.read /\ c.state \in {"open", "fin", "hup"}
    BY <1>2, <1>4 DEF RelaySound
  <2> QED
    BY <1>1, <1>4, <2>1, RelayMoves DEF RelaySound
<1> QED
  BY <1>3, <1>4, Zenon

\* No descriptor is not a descriptor.
LEMMA NoFdIsNone == NoFd \notin Fd
  BY PipelineAssumption DEF NoFd, Fd

\* The backend is monitored on a new descriptor.
Linked(r, y) ==
    /\ Becomes(r, y) /\ Sound(y) /\ FreeFds # {}
    /\ y.at = "queued" /\ y.sock = rq[r].sock
    /\ y.handle = "proxy_monitor" /\ y.proxy = NewFd
    /\ desc' = [desc EXCEPT !.owner[NewFd] = <<r, "proxy">>]

\* proxify.
LEMMA ProxifyStep ==
    ASSUME PipeInv, NEW r \in Requests, Proxify(r)
    PROVE  Calmly(r) \/ \E y : Linked(r, y)
<1> DEFINE x == rq[r]
           z == [x EXCEPT !.hdr = NoHdr]
           linked == [z EXCEPT !.proxy = NewFd]
           unsent == [linked EXCEPT !.relay.closed = "unsent"]
           s == Say(unsent, "error")
<1>1. Sound(x) /\ x.at = "queued" /\ x.handle = "proxify"
  BY DEF PipeInv, Proxify, Runs
<1>2. /\ IsRequest(x) /\ Queued(x) /\ x.next = <<"finish_request">>
      /\ x.said = <<>> /\ x.relay.closed = "" /\ x.body = FALSE
      /\ x.relay.moved = x.relay.sent /\ x.relay.moved = x.relay.read
      /\ x.relay.state \in {"open", "fin", "hup"}
  BY <1>1 DEF Sound, Queued, RelaySound, Before, Decoders
<1>3. \/ Becomes(r, Error(z, {})) /\ desc' = desc
      \/ FreeFds # {} /\ Becomes(r, End(s, {})) /\ desc' = desc
      \/ /\ FreeFds # {}
         /\ Becomes(r, Task(linked, "proxy_monitor", <<>>, {NewFd}))
         /\ desc' = [desc EXCEPT !.owner[NewFd] = <<r, "proxy">>]
  BY Zenon DEF Proxify, Error
<1> HIDE DEF x
<1>4. Like(x, z) /\ z.body = x.body
  BY <1>2 DEF Like, IsRequest
<1> HIDE DEF z
<1>5. /\ IsRequest(linked) /\ linked.proxy = NewFd
      /\ linked.at = x.at /\ linked.next = x.next /\ linked.sock = x.sock
      /\ linked.relay = x.relay /\ linked.said = <<>> /\ linked.body = x.body
  BY <1>2, <1>4 DEF IsRequest, Like
<1> HIDE DEF linked
<1>6. /\ IsRequest(unsent) /\ unsent.proxy = NewFd
      /\ unsent.at = x.at /\ unsent.next = x.next /\ unsent.sock = x.sock
      /\ unsent.relay.closed = "unsent" /\ unsent.said = <<>>
      /\ unsent.relay.state = x.relay.state /\ unsent.relay.sent = x.relay.sent
      /\ unsent.relay.read = x.relay.read /\ unsent.relay.moved = x.relay.moved
  BY <1>5 DEF IsRequest
<1> HIDE DEF unsent
<1>7. FreeFds # {} => NewFd \in Fd /\ NewFd # NoFd
  BY NewFdIsFree, NoFdIsNone DEF FreeFds
<1>8. CASE Becomes(r, Error(z, {})) /\ desc' = desc
  <2>1. Calm(x, Error(z, {}))
    BY <1>1, <1>4, ToError DEF Before
  <2> QED
    BY <1>8, <2>1 DEF Calmly, x
<1>9. CASE FreeFds # {} /\ Becomes(r, End(s, {})) /\ desc' = desc
  <2>1. /\ IsRequest(s) /\ s.proxy = NewFd
        /\ s.at = x.at /\ s.next = x.next /\ s.sock = x.sock
        /\ s.relay = unsent.relay /\ s.said = Append(<<>>, "error")
    BY <1>6, SayFields
  <2>2. Append(<<>>, "error") \in Whole
    BY SaidWhole
  <2> HIDE DEF s
  <2>3. PICK y : y = Handed(s, "finish_request", <<>>, {})
    OBVIOUS
  <2>4. End(s, {}) = y
    BY <1>2, <2>1, <2>3, EndIsHanded
  <2>5. /\ IsRequest(y)
        /\ y.handle = "finish_request" /\ y.next = <<>> /\ y.wait = {}
        /\ y.at = x.at /\ y.sock = x.sock /\ y.proxy = NewFd
        /\ y.relay = unsent.relay /\ y.said \in Whole
    BY <2>1, <2>2, <2>3, HandedFields
  <2>6. Queued(y)
    <3>1. /\ y.relay.closed = "unsent" /\ RelaySound(y.relay)
          /\ y.sock \in Fd /\ y.proxy \in Fd
      <4>1. RelaySound(unsent.relay)
        BY <1>2, <1>6 DEF RelaySound
      <4>2. x.sock \in Fd
        BY <1>2 DEF Queued
      <4> QED
        BY <1>6, <1>7, <1>9, <2>5, <4>1, <4>2
    <3> QED
      BY <2>5, <3>1 DEF Queued, Answered, Before, After, Decoders
  <2>7. Calm(x, y)
    BY <1>1, <2>5, <2>6 DEF Calm, Sound
  <2> QED
    BY <1>9, <2>4, <2>7 DEF Calmly, x
<1>10. CASE /\ FreeFds # {}
            /\ Becomes(r, Task(linked, "proxy_monitor", <<>>, {NewFd}))
            /\ desc' = [desc EXCEPT !.owner[NewFd] = <<r, "proxy">>]
  <2>1. PICK y : y = Handed(linked, "proxy_monitor", <<"finish_request">>, {NewFd})
    OBVIOUS
  <2>2. Task(linked, "proxy_monitor", <<>>, {NewFd}) = y
    <3>1. linked.next = <<"finish_request">>
      BY <1>2, <1>5
    <3> QED
      BY <2>1, <3>1, TaskIsHanded
  <2>3. /\ IsRequest(y)
        /\ y.handle = "proxy_monitor" /\ y.next = <<"finish_request">>
        /\ y.wait = {NewFd} /\ y.at = x.at /\ y.sock = x.sock /\ y.proxy = NewFd
        /\ y.relay = x.relay /\ y.said = <<>> /\ y.body = FALSE
    <3>1. IsRequest(linked)
      BY <1>5
    <3>2. /\ IsRequest(y) /\ y.handle = "proxy_monitor"
          /\ y.next = <<"finish_request">> /\ y.wait = {NewFd}
          /\ y.at = linked.at /\ y.sock = linked.sock /\ y.proxy = linked.proxy
          /\ y.body = linked.body /\ y.relay = linked.relay /\ y.said = linked.said
      BY <2>1, <3>1, HandedFields
    <3> QED
      BY <1>2, <1>5, <3>2
  <2>4. Queued(y)
    BY <1>2, <1>7, <1>10, <2>3 DEF Queued, Before, After, Decoders
  <2>5. Linked(r, y)
    BY <1>1, <1>10, <2>2, <2>3, <2>4 DEF Linked, Sound, x
  <2> QED
    BY <2>5
<1> QED
  BY <1>3, <1>8, <1>9, <1>10

\* The backend's socket is closed, and finish_request comes next.
Unlinked(r, y) ==
    /\ Becomes(r, y) /\ Sound(y)
    /\ rq[r].at = "queued" /\ rq[r].handle = "proxy_monitor"
    /\ y.at = "queued" /\ y.handle = "finish_request" /\ y.sock = rq[r].sock
    /\ desc' = Close(desc, rq[r].proxy, <<r, "proxy">>, "handler")

\* proxy_monitor is called.
LEMMA ProxyMonitorStep ==
    ASSUME PipeInv, NEW r \in Requests, ProxyMonitor(r)
    PROVE  Calmly(r)
<1> DEFINE b == rq[r].relay
<1>1. rq[r].at = "queued" /\ rq[r].handle = "proxy_monitor" /\ desc' = desc
  BY DEF ProxyMonitor, Runs
<1>2. /\ DOMAIN b = {"sent", "read", "moved", "state", "closed", "loop"}
      /\ RelaySound(b) /\ b.closed = ""
  BY <1>1 DEF PipeInv, Sound, Queued, IsRequest
<1>3. Relays(r, [b EXCEPT !.loop = TRUE])
  BY DEF ProxyMonitor
<1> HIDE DEF b
<1>4. PICK c : c = [b EXCEPT !.loop = TRUE]
  OBVIOUS
<1>5. /\ DOMAIN c = {"sent", "read", "moved", "state", "closed", "loop"}
      /\ c.closed = "" /\ RelaySound(c)
  BY <1>2, <1>4 DEF RelaySound
<1> QED
  BY <1>1, <1>3, <1>4, <1>5, RelayMoves

\* What a turn of its loop may read and send on.
LEMMA RelayedSound ==
    ASSUME NEW b, RelaySound(b), b.closed = "",
           DOMAIN b = {"sent", "read", "moved", "state", "closed", "loop"}
    PROVE  /\ DOMAIN Relayed(b) = DOMAIN b /\ RelaySound(Relayed(b))
           /\ Relayed(b).closed = "" /\ Relayed(b).state = b.state
           /\ DOMAIN Dropped(b) = DOMAIN b /\ Dropped(b).state = b.state
  BY DEF Relayed, Dropped, RelaySound

\* The loop ends, and the backend's socket is closed.
LEMMA StopsRelayStep ==
    ASSUME PipeInv, NEW r \in Requests, NEW c, NEW why \in {"end", "hup", "error"},
           rq[r].at = "queued", rq[r].handle = "proxy_monitor",
           StopsRelay(rq[r], r, c, why),
           DOMAIN c = {"sent", "read", "moved", "state", "closed", "loop"},
           c.state \in {"open", "fin", "hup"},
           c.moved # c.read => why = "error",
           c.moved # c.sent => why = "error" \/ (why = "hup" /\ c.state = "hup")
    PROVE  \E y : Unlinked(r, y)
<1> DEFINE x == rq[r]
<1>1. Sound(x) /\ x.at = "queued" /\ x.handle = "proxy_monitor"
  BY DEF PipeInv
<1>2. /\ IsRequest(x) /\ Queued(x) /\ x.next = <<"finish_request">>
      /\ x.said = <<>> /\ x.proxy \in Fd /\ x.sock \in Fd
  BY <1>1 DEF Sound, Queued, Before, Decoders
<1>3. PICK e : e = [c EXCEPT !.closed = why, !.loop = FALSE]
  OBVIOUS
<1>4. DOMAIN e = {"sent", "read", "moved", "state", "closed", "loop"}
  BY <1>3
<1>5. RelaySound(e) /\ e.closed = why
  BY <1>3 DEF RelaySound
<1>6. PICK z : z = [x EXCEPT !.relay = e]
  OBVIOUS
<1>7. Becomes(r, End(z, {})) /\ desc' = MonitorClose(x, r)
  BY <1>3, <1>6, Zenon DEF StopsRelay, LastWait
<1> HIDE DEF x
<1>8. /\ IsRequest(z)
      /\ z.at = x.at /\ z.next = x.next /\ z.sock = x.sock /\ z.proxy = x.proxy
      /\ z.relay = e /\ z.said = x.said
  BY <1>2, <1>4, <1>6 DEF IsRequest
<1>9. PICK y : y = Handed(z, "finish_request", <<>>, {})
  OBVIOUS
<1>10. End(z, {}) = y
  BY <1>2, <1>8, <1>9, EndIsHanded
<1>11. /\ IsRequest(y)
       /\ y.handle = "finish_request" /\ y.next = <<>> /\ y.wait = {}
       /\ y.at = z.at /\ y.sock = z.sock /\ y.proxy = z.proxy
       /\ y.relay = z.relay /\ y.said = z.said
  BY <1>8, <1>9, HandedFields
<1>12. Queued(y)
  BY <1>2, <1>5, <1>8, <1>11 DEF Queued, Answered, Before, After, Decoders
<1>13. Becomes(r, y)
  BY <1>7, <1>10, Zenon
<1> QED
  BY <1>1, <1>7, <1>8, <1>11, <1>12, <1>13 DEF Unlinked, Sound, MonitorClose, x

\* One turn of the loop.
LEMMA ProxyTurnStep ==
    ASSUME PipeInv, NEW r \in Requests, ProxyTurn(r)
    PROVE  Calmly(r) \/ \E y : Unlinked(r, y)
<1> DEFINE x == rq[r]
           b == x.relay
           waits == [x EXCEPT !.relay = [b EXCEPT !.loop = FALSE]]
<1>1. x.at = "queued" /\ x.handle = "proxy_monitor"
  BY DEF ProxyTurn, Runs
<1>2. /\ IsRequest(x) /\ Queued(x) /\ Sound(x) /\ x.next = <<"finish_request">>
      /\ RelaySound(b) /\ b.closed = "" /\ x.proxy \in Fd /\ x.said = <<>>
      /\ x.body = FALSE /\ x.sock \in Fd
      /\ DOMAIN b = {"sent", "read", "moved", "state", "closed", "loop"}
  BY <1>1 DEF PipeInv, Sound, Queued, IsRequest, Before, Decoders
<1>3. \/ \E c \in {b, Dropped(b)} : StopsRelay(x, r, c, "error")
      \/ ReadsEnd(b) /\ StopsRelay(x, r, b, "end")
      \/ HungUp(b) /\ StopsRelay(x, r, Relayed(b), "hup")
      \/ desc' = desc /\ Relays(r, Relayed(b))
      \/ desc' = desc /\ Becomes(r, Task(waits, "proxy_monitor", <<>>, {x.proxy, x.sock}))
  BY Zenon DEF ProxyTurn
<1>4. /\ b.moved = b.read /\ b.state \in {"open", "fin", "hup"}
      /\ ReadsEnd(b) => b.moved = b.sent
      /\ HungUp(b) => b.state = "hup"
  BY <1>2 DEF RelaySound, ReadsEnd, HungUp
<1>5. /\ DOMAIN Relayed(b) = DOMAIN b /\ RelaySound(Relayed(b))
      /\ Relayed(b).closed = "" /\ Relayed(b).state = b.state
      /\ DOMAIN Dropped(b) = DOMAIN b /\ Dropped(b).state = b.state
  BY <1>2, RelayedSound
<1>6. CASE \E c \in {b, Dropped(b)} : StopsRelay(x, r, c, "error")
  <2>1. PICK c \in {b, Dropped(b)} : StopsRelay(x, r, c, "error")
    BY <1>6
  <2>2. DOMAIN c = DOMAIN b /\ c.state = b.state
    BY <1>5
  <2>3. PICK why \in {"end", "hup", "error"} : why = "error"
    OBVIOUS
  <2> QED
    BY <1>1, <1>2, <1>4, <2>1, <2>2, <2>3, StopsRelayStep
<1>7. CASE ReadsEnd(b) /\ StopsRelay(x, r, b, "end")
  <2>1. PICK why \in {"end", "hup", "error"} : why = "end"
    OBVIOUS
  <2> QED
    BY <1>1, <1>2, <1>4, <1>7, <2>1, StopsRelayStep
<1>8. CASE HungUp(b) /\ StopsRelay(x, r, Relayed(b), "hup")
  <2>1. PICK c : c = Relayed(b)
    OBVIOUS
  <2>2. PICK why \in {"end", "hup", "error"} : why = "hup"
    OBVIOUS
  <2>3. /\ DOMAIN c = DOMAIN b /\ c.state = "hup" /\ c.moved = c.read
    BY <1>4, <1>5, <1>8, <2>1 DEF RelaySound
  <2> QED
    BY <1>1, <1>2, <1>8, <2>1, <2>2, <2>3, StopsRelayStep
<1>9. CASE desc' = desc /\ Relays(r, Relayed(b))
  <2>1. PICK c : c = Relayed(b)
    OBVIOUS
  <2> QED
    BY <1>1, <1>2, <1>5, <1>9, <2>1, RelayMoves
<1>10. CASE /\ desc' = desc
            /\ Becomes(r, Task(waits, "proxy_monitor", <<>>, {x.proxy, x.sock}))
  <2>1. PICK c : c = [b EXCEPT !.loop = FALSE]
    OBVIOUS
  <2>2. /\ DOMAIN c = DOMAIN b /\ RelaySound(c) /\ c.closed = ""
    BY <1>2, <2>1 DEF RelaySound
  <2>3. PICK z : z = [x EXCEPT !.relay = c]
    OBVIOUS
  <2> HIDE DEF x
  <2>4. /\ IsRequest(z)
        /\ z.at = x.at /\ z.next = x.next /\ z.sock = x.sock /\ z.proxy = x.proxy
        /\ z.relay = c /\ z.said = x.said /\ z.body = x.body
    BY <1>2, <2>2, <2>3 DEF IsRequest
  <2>5. PICK y : y = Handed(z, "proxy_monitor", <<"finish_request">>, {x.proxy, x.sock})
    OBVIOUS
  <2>6. Task(z, "proxy_monitor", <<>>, {x.proxy, x.sock}) = y
    <3>1. z.next = <<"finish_request">>
      BY <1>2, <2>4
    <3> QED
      BY <2>5, <3>1, TaskIsHanded
  <2>7. /\ IsRequest(y)
        /\ y.handle = "proxy_monitor" /\ y.next = <<"finish_request">>
        /\ y.wait = {x.proxy, x.sock}
        /\ y.at = z.at /\ y.sock = z.sock /\ y.proxy = z.proxy
        /\ y.body = z.body /\ y.relay = z.relay /\ y.said = z.said
    <3>1. IsRequest(z)
      BY <2>4
    <3> QED
      BY <2>5, <3>1, HandedFields
  <2>8. Queued(y)
    <3>1. /\ y.said = <<>> /\ y.body = FALSE /\ y.relay = c
          /\ y.proxy \in Fd /\ y.proxy # NoFd /\ y.sock \in Fd
          /\ y.wait = {y.proxy, y.sock}
      BY <1>2, <2>4, <2>7, NoFdIsNone
    <3> QED
      BY <2>2, <2>7, <3>1 DEF Queued, Before, After, Decoders
  <2>9. Calm(x, y)
    BY <1>1, <2>4, <2>7, <2>8 DEF Calm, Sound
  <2>10. Becomes(r, y)
    BY <1>10, <2>1, <2>3, <2>6, Zenon
  <2> QED
    BY <1>10, <2>9, <2>10 DEF Calmly, x
<1> QED
  BY <1>3, <1>6, <1>7, <1>8, <1>9, <1>10, Zenon

\* The request has come to its end, and its descriptors are closed.
LEMMA FinishRequestStep ==
    ASSUME PipeInv, NEW r \in Requests, FinishRequest(r)
    PROVE  /\ rq[r].at = "queued" /\ rq[r].handle = "finish_request"
           /\ \E y : Becomes(r, y) /\ Sound(y) /\ y.at = "ended"
           /\ desc' = Close(desc, rq[r].sock, <<r, "client">>, "handler")
<1> DEFINE x == rq[r]
           y == Ended(x)
<1>1. x.at = "queued" /\ x.handle = "finish_request" /\ Becomes(r, y)
  BY DEF FinishRequest, Runs
<1>2. Answered(x)
  BY <1>1 DEF PipeInv, Sound, Queued
<1> HIDE DEF x
<1>3. /\ IsRequest(y) /\ y.at = "ended" /\ y.said = x.said
      /\ y.relay.closed = x.relay.closed /\ y.relay.moved = y.relay.sent
      /\ y.relay.moved = y.relay.read
  BY DEF Ended, Fresh, NoRelay, IsRequest
<1>4. Sound(y)
  BY <1>2, <1>3 DEF Sound, Answered
<1> QED
  BY <1>1, <1>3, <1>4, Zenon DEF FinishRequest, FinishClose, x

\* finish_request and destroy_request.
LEMMA KillStep ==
    ASSUME PipeInv, NEW r \in Requests, Kill(r)
    PROVE  /\ rq[r].at = "queued"
           /\ \E y : Becomes(r, y) /\ Sound(y) /\ y.at = "killed"
<1> DEFINE x == rq[r]
           y == [Ended(x) EXCEPT !.at = "killed"]
<1>1. x.at = "queued" /\ Becomes(r, y)
  BY DEF Kill
<1>2. Queued(x)
  BY <1>1 DEF PipeInv, Sound
<1>3. x.said \in Whole \cup {<<>>, <<"upgrade">>}
  BY <1>2 DEF Queued, Answered, Before, After, Whole
<1> HIDE DEF x
<1>4. /\ IsRequest(y) /\ y.at = "killed" /\ y.said = x.said
      /\ y.relay.moved = y.relay.sent /\ y.relay.moved = y.relay.read
  BY DEF Ended, Fresh, NoRelay, IsRequest
<1>5. Sound(y)
  BY <1>3, <1>4 DEF Sound
<1> QED
  BY <1>1, <1>4, <1>5, Zenon DEF x

-----------------------------------------------------------------------------
(***************************************************************************)
(* The descriptors, from one step to the next.                             *)
(***************************************************************************)

\* A step of one request leaves the others alone.
LEMMA OneRequestMoves ==
    ASSUME PipeInv, NEW r \in Requests, NEW y, Becomes(r, y)
    PROVE  /\ rq' = [s \in Requests |-> rq'[s]]
           /\ rq'[r] = y
           /\ \A s \in Requests : s # r => rq'[s] = rq[s]
           /\ Sound(y) => \A s \in Requests : Sound(rq'[s])
<1>1. rq = [s \in Requests |-> rq[s]] /\ rq' = [rq EXCEPT ![r] = y]
  BY DEF PipeInv, Becomes
<1>2. /\ rq' = [s \in Requests |-> rq'[s]]
      /\ rq'[r] = y
      /\ \A s \in Requests : s # r => rq'[s] = rq[s]
  BY <1>1
<1>3. ASSUME Sound(y), NEW s \in Requests
      PROVE  Sound(rq'[s])
  <2>1. Sound(rq[s])
    BY DEF PipeInv
  <2>2. CASE s = r
    BY <1>2, <1>3, <2>2
  <2>3. CASE s # r
    <3>1. rq'[s] = rq[s]
      BY <1>2, <2>3
    <3> QED
      BY <2>1, <3>1
  <2> QED
    BY <2>2, <2>3
<1> QED
  BY <1>2, <1>3

\* A handler that leaves the descriptors alone.
LEMMA CalmKeepsInv ==
    ASSUME PipeInv, NEW r \in Requests, rq[r].at = "queued", Calmly(r)
    PROVE  PipeInv'
<1>1. PICK y : Becomes(r, y) /\ Calm(rq[r], y)
  BY DEF Calmly
<1>2. desc' = desc
  BY DEF Calmly
<1>3. /\ Sound(y) /\ y.at = "queued" /\ y.sock = rq[r].sock
      /\ (y.handle = "proxy_monitor") <=> (rq[r].handle = "proxy_monitor")
      /\ y.handle = "proxy_monitor" => y.proxy = rq[r].proxy
  BY <1>1 DEF Calm
<1>4. /\ rq' = [s \in Requests |-> rq'[s]]
      /\ rq'[r] = y
      /\ \A s \in Requests : s # r => rq'[s] = rq[s]
      /\ \A s \in Requests : Sound(rq'[s])
  BY <1>1, <1>3, OneRequestMoves
<1>5. ASSUME NEW s \in Requests
      PROVE  /\ rq'[s].at = "queued" <=> rq[s].at = "queued"
             /\ rq'[s].at = "queued" => rq'[s].sock = rq[s].sock
             /\ rq'[s].handle = "proxy_monitor" <=> rq[s].handle = "proxy_monitor"
             /\ rq'[s].handle = "proxy_monitor" => rq'[s].proxy = rq[s].proxy
  BY <1>3, <1>4
<1>6. Owners'
  BY <1>2, <1>5 DEF PipeInv, Owners
<1>7. Open'
  BY <1>2, <1>5 DEF PipeInv, Open
<1> QED
  BY <1>4, <1>6, <1>7 DEF PipeInv

\* A descriptor is opened for a request, for its client or its backend.
LEMMA OpenKeepsInv ==
    ASSUME PipeInv, NEW r \in Requests, NEW y, Becomes(r, y), Sound(y),
           NEW side \in {"client", "proxy"}, FreeFds # {},
           desc' = [desc EXCEPT !.owner[NewFd] = <<r, side>>],
           y.at = "queued",
           side = "client" => /\ rq[r].at = "new" /\ y.sock = NewFd
                              /\ y.handle # "proxy_monitor",
           side = "proxy" => /\ rq[r].at = "queued" /\ y.sock = rq[r].sock
                             /\ rq[r].handle # "proxy_monitor"
                             /\ y.proxy = NewFd /\ y.handle = "proxy_monitor"
    PROVE  PipeInv'
<1>1. PICK n \in Fd : n = NewFd /\ desc.owner[n] = Free
  BY NewFdIsFree DEF FreeFds
<1>2. /\ rq' = [s \in Requests |-> rq'[s]]
      /\ rq'[r] = y
      /\ \A s \in Requests : s # r => rq'[s] = rq[s]
      /\ \A s \in Requests : Sound(rq'[s])
  BY OneRequestMoves
<1>3. /\ DOMAIN desc = {"owner", "stray"}
      /\ desc.owner \in [Fd -> (Requests \X {"client", "proxy"}) \cup {Free}]
  BY DEF PipeInv, Owners
<1>4. /\ DOMAIN desc' = {"owner", "stray"}
      /\ desc'.stray = desc.stray
      /\ desc'.owner = [desc.owner EXCEPT ![n] = <<r, side>>]
  BY <1>1, <1>3
<1>5. /\ desc'.owner \in [Fd -> (Requests \X {"client", "proxy"}) \cup {Free}]
      /\ desc'.owner[n] = <<r, side>>
      /\ \A m \in Fd : m # n => desc'.owner[m] = desc.owner[m]
  BY <1>3, <1>4
<1>6. \A m \in Fd, s \in Requests, what \in {"client", "proxy"} :
        desc.owner[m] = <<s, what>> => m # n
  BY <1>1 DEF Free
<1>7. \A m \in Fd, s \in Requests :
        /\ desc.owner[m] = <<s, "client">> => rq[s].at = "queued" /\ m = rq[s].sock
        /\ desc.owner[m] = <<s, "proxy">> =>
            rq[s].at = "queued" /\ rq[s].handle = "proxy_monitor" /\ m = rq[s].proxy
  BY DEF PipeInv, Owners
<1>8. ASSUME NEW m \in Fd, NEW s \in Requests
      PROVE  /\ desc'.owner[m] = <<s, "client">> => rq'[s].at = "queued" /\ m = rq'[s].sock
             /\ desc'.owner[m] = <<s, "proxy">> =>
                rq'[s].at = "queued" /\ rq'[s].handle = "proxy_monitor" /\ m = rq'[s].proxy
  <2>1. CASE m = n
    BY <1>1, <1>2, <1>5, <2>1
  <2>2. CASE m # n /\ s # r
    BY <1>2, <1>5, <1>7, <2>2
  <2>3. CASE m # n /\ s = r
    BY <1>2, <1>5, <1>7, <2>3
  <2> QED
    BY <2>1, <2>2, <2>3
<1>9. Owners'
  BY <1>4, <1>5, <1>8 DEF Owners
<1>10. ASSUME desc'.stray = "none", NEW s \in Requests, rq'[s].at = "queued"
       PROVE  /\ desc'.owner[rq'[s].sock] = <<s, "client">>
              /\ rq'[s].handle = "proxy_monitor" =>
                    desc'.owner[rq'[s].proxy] = <<s, "proxy">>
  <2>1. rq'[s].sock \in Fd /\ (rq'[s].handle = "proxy_monitor" => rq'[s].proxy \in Fd)
    BY <1>2, <1>10 DEF Sound, Queued
  <2>2. rq[s].at = "queued" =>
            /\ desc.owner[rq[s].sock] = <<s, "client">>
            /\ rq[s].handle = "proxy_monitor" =>
                    desc.owner[rq[s].proxy] = <<s, "proxy">>
    BY <1>4, <1>10 DEF PipeInv, Open
  <2>3. CASE s # r
    BY <1>2, <1>5, <1>6, <1>10, <2>1, <2>2, <2>3
  <2>4. CASE s = r
    BY <1>1, <1>2, <1>5, <1>6, <1>10, <2>1, <2>2, <2>4
  <2> QED
    BY <2>3, <2>4
<1>11. Open'
  BY <1>10 DEF Open
<1> QED
  BY <1>2, <1>9, <1>11 DEF PipeInv

\* What close does to the table.
LEMMA CloseFields ==
    ASSUME NEW d, DOMAIN d = {"owner", "stray"},
           d.owner \in [Fd -> (Requests \X {"client", "proxy"}) \cup {Free}],
           NEW n \in Fd, NEW who, NEW by \in {"handler", "kill"},
           NEW e, e = Close(d, n, who, by)
    PROVE  /\ DOMAIN e = {"owner", "stray"}
           /\ e.owner \in [Fd -> (Requests \X {"client", "proxy"}) \cup {Free}]
           /\ e.owner[n] = Free
           /\ \A m \in Fd : m # n => e.owner[m] = d.owner[m]
           /\ e.stray = "none" => d.stray = "none" /\ d.owner[n] \in {who, Free}
           /\ e.stray # d.stray =>
                d.stray = "none" /\ e.stray = by /\ d.owner[n] \notin {who, Free}
  BY DEF Close

\* Descriptors of a request are closed: of its backend, which it then does not
\* monitor any more, or all it has.
LEMMA CloseKeepsInv ==
    ASSUME PipeInv, NEW r \in Requests, NEW y, Becomes(r, y), Sound(y),
           rq[r].at = "queued",
           \/ /\ y.at = "queued" /\ y.sock = rq[r].sock /\ y.handle # "proxy_monitor"
              /\ desc'.owner[rq[r].sock] = desc.owner[rq[r].sock] \/ desc'.stray # "none"
              /\ \A m \in Fd : desc'.owner[m] # <<r, "proxy">>
           \/ /\ y.at # "queued"
              /\ \A m \in Fd : desc'.owner[m] \notin {<<r, "client">>, <<r, "proxy">>},
           DOMAIN desc' = {"owner", "stray"},
           desc'.owner \in [Fd -> (Requests \X {"client", "proxy"}) \cup {Free}],
           \A m \in Fd : desc'.owner[m] = Free \/ desc'.owner[m] = desc.owner[m],
           desc'.stray = "none" =>
               /\ desc.stray = "none"
               /\ \A m \in Fd : \/ desc'.owner[m] = desc.owner[m]
                                \/ desc.owner[m] \in {<<r, "client">>, <<r, "proxy">>, Free}
    PROVE  PipeInv'
<1>1. /\ rq' = [s \in Requests |-> rq'[s]]
      /\ rq'[r] = y
      /\ \A s \in Requests : s # r => rq'[s] = rq[s]
      /\ \A s \in Requests : Sound(rq'[s])
  BY OneRequestMoves
<1>2. \A m \in Fd, s \in Requests :
        /\ desc.owner[m] = <<s, "client">> => rq[s].at = "queued" /\ m = rq[s].sock
        /\ desc.owner[m] = <<s, "proxy">> =>
            rq[s].at = "queued" /\ rq[s].handle = "proxy_monitor" /\ m = rq[s].proxy
  BY DEF PipeInv, Owners
<1>3. ASSUME NEW s \in Requests
      PROVE  Free # <<s, "client">> /\ Free # <<s, "proxy">>
  BY DEF Free
<1>4. ASSUME NEW m \in Fd, NEW s \in Requests
      PROVE  /\ desc'.owner[m] = <<s, "client">> => rq'[s].at = "queued" /\ m = rq'[s].sock
             /\ desc'.owner[m] = <<s, "proxy">> =>
                rq'[s].at = "queued" /\ rq'[s].handle = "proxy_monitor" /\ m = rq'[s].proxy
  <2>0. /\ desc'.owner[m] = <<s, "client">> => desc.owner[m] = <<s, "client">>
        /\ desc'.owner[m] = <<s, "proxy">> => desc.owner[m] = <<s, "proxy">>
    BY <1>3
  <2>1. CASE s # r
    BY <1>1, <1>2, <2>0, <2>1
  <2>2. CASE s = r
    BY <1>1, <1>2, <2>0, <2>2
  <2> QED
    BY <2>1, <2>2
<1>5. Owners'
  BY <1>4 DEF Owners
<1>6. ASSUME desc'.stray = "none", NEW s \in Requests, rq'[s].at = "queued"
      PROVE  /\ desc'.owner[rq'[s].sock] = <<s, "client">>
             /\ rq'[s].handle = "proxy_monitor" =>
                    desc'.owner[rq'[s].proxy] = <<s, "proxy">>
  <2>1. rq[s].at = "queued" =>
            /\ desc.owner[rq[s].sock] = <<s, "client">>
            /\ rq[s].handle = "proxy_monitor" =>
                    desc.owner[rq[s].proxy] = <<s, "proxy">>
    BY <1>6 DEF PipeInv, Open
  <2>2. rq[s].at = "queued" =>
            rq[s].sock \in Fd /\ (rq[s].handle = "proxy_monitor" => rq[s].proxy \in Fd)
    BY DEF PipeInv, Sound, Queued
  <2>3. CASE s = r
    BY <1>1, <1>6, <2>1, <2>2, <2>3
  <2>4. CASE s # r
    <3>1. rq'[s] = rq[s]
      BY <1>1, <2>4
    <3>2. ASSUME NEW m \in Fd, NEW what \in {"client", "proxy"},
                 desc.owner[m] = <<s, what>>
          PROVE  desc'.owner[m] = <<s, what>>
      BY <1>6, <2>4, <3>2 DEF Free
    <3> QED
      BY <1>6, <2>1, <2>2, <3>1, <3>2
  <2> QED
    BY <2>3, <2>4
<1>7. Open'
  BY <1>6 DEF Open
<1> QED
  BY <1>1, <1>5, <1>7 DEF PipeInv

\* The backend's socket is closed by its handler.
LEMMA UnlinkedKeepsInv ==
    ASSUME PipeInv, NEW r \in Requests, NEW y, Unlinked(r, y)
    PROVE  PipeInv' /\ desc'.stray = desc.stray
<1> DEFINE x == rq[r]
<1>1. /\ Becomes(r, y) /\ Sound(y) /\ x.at = "queued" /\ x.handle = "proxy_monitor"
      /\ y.at = "queued" /\ y.handle = "finish_request" /\ y.sock = x.sock
      /\ desc' = Close(desc, x.proxy, <<r, "proxy">>, "handler")
  BY DEF Unlinked
<1>2. x.proxy \in Fd /\ x.sock \in Fd
  BY <1>1 DEF PipeInv, Sound, Queued
<1>3. /\ DOMAIN desc = {"owner", "stray"}
      /\ desc.owner \in [Fd -> (Requests \X {"client", "proxy"}) \cup {Free}]
      /\ \A m \in Fd : desc.owner[m] = <<r, "proxy">> => m = x.proxy
  BY DEF PipeInv, Owners
<1>4. desc.stray = "none" =>
        desc.owner[x.sock] = <<r, "client">> /\ desc.owner[x.proxy] = <<r, "proxy">>
  BY <1>1 DEF PipeInv, Open
<1> HIDE DEF x
<1>5. /\ DOMAIN desc' = {"owner", "stray"}
      /\ desc'.owner \in [Fd -> (Requests \X {"client", "proxy"}) \cup {Free}]
      /\ desc'.owner[x.proxy] = Free
      /\ \A m \in Fd : m # x.proxy => desc'.owner[m] = desc.owner[m]
      /\ desc'.stray = "none" =>
            desc.stray = "none" /\ desc.owner[x.proxy] \in {<<r, "proxy">>, Free}
      /\ desc'.stray # desc.stray =>
            desc.stray = "none" /\ desc.owner[x.proxy] \notin {<<r, "proxy">>, Free}
  <2>1. /\ desc' = Close(desc, x.proxy, <<r, "proxy">>, "handler")
        /\ DOMAIN desc = {"owner", "stray"}
        /\ desc.owner \in [Fd -> (Requests \X {"client", "proxy"}) \cup {Free}]
        /\ x.proxy \in Fd
        /\ "handler" \in {"handler", "kill"}
    BY <1>1, <1>2, <1>3
  <2> QED
    BY <2>1, CloseFields
<1>6. desc'.stray = desc.stray
  BY <1>4, <1>5
<1>7. desc'.stray = "none" => desc'.owner[x.sock] = desc.owner[x.sock]
  BY <1>2, <1>4, <1>5
<1>8. \A m \in Fd : desc'.owner[m] # <<r, "proxy">>
  BY <1>3, <1>5 DEF Free
<1>9. PipeInv'
  <2>1. /\ \A m \in Fd : desc'.owner[m] = Free \/ desc'.owner[m] = desc.owner[m]
        /\ desc'.stray = "none" =>
            \A m \in Fd : \/ desc'.owner[m] = desc.owner[m]
                          \/ desc.owner[m] \in {<<r, "client">>, <<r, "proxy">>, Free}
    BY <1>5
  <2>2. y.handle # "proxy_monitor"
    BY <1>1
  <2> QED
    BY <1>1, <1>5, <1>7, <1>8, <2>1, <2>2, CloseKeepsInv DEF x
<1> QED
  BY <1>6, <1>9

\* finish_request closes what is left to the request.
LEMMA FinishRequestKeepsInv ==
    ASSUME PipeInv, NEW r \in Requests, FinishRequest(r)
    PROVE  PipeInv' /\ desc'.stray = desc.stray
<1> DEFINE x == rq[r]
<1>1. /\ x.at = "queued" /\ x.handle = "finish_request"
      /\ desc' = Close(desc, x.sock, <<r, "client">>, "handler")
  BY FinishRequestStep
<1>2. PICK y : Becomes(r, y) /\ Sound(y) /\ y.at = "ended"
  BY FinishRequestStep
<1>3. x.sock \in Fd
  BY <1>1 DEF PipeInv, Sound, Queued
<1>4. /\ DOMAIN desc = {"owner", "stray"}
      /\ desc.owner \in [Fd -> (Requests \X {"client", "proxy"}) \cup {Free}]
      /\ \A m \in Fd : desc.owner[m] # <<r, "proxy">>
      /\ \A m \in Fd : desc.owner[m] = <<r, "client">> => m = x.sock
  BY <1>1 DEF PipeInv, Owners
<1>5. desc.stray = "none" => desc.owner[x.sock] = <<r, "client">>
  BY <1>1 DEF PipeInv, Open
<1> HIDE DEF x
<1>6. /\ DOMAIN desc' = {"owner", "stray"}
      /\ desc'.owner \in [Fd -> (Requests \X {"client", "proxy"}) \cup {Free}]
      /\ desc'.owner[x.sock] = Free
      /\ \A m \in Fd : m # x.sock => desc'.owner[m] = desc.owner[m]
      /\ desc'.stray = "none" =>
            desc.stray = "none" /\ desc.owner[x.sock] \in {<<r, "client">>, Free}
      /\ desc'.stray # desc.stray =>
            desc.stray = "none" /\ desc.owner[x.sock] \notin {<<r, "client">>, Free}
  <2>1. "handler" \in {"handler", "kill"}
    OBVIOUS
  <2> QED
    BY <1>1, <1>3, <1>4, <2>1, CloseFields
<1>7. \A m \in Fd : desc'.owner[m] \notin {<<r, "client">>, <<r, "proxy">>}
  BY <1>4, <1>6 DEF Free
<1>8. PipeInv'
  <2>1. /\ \A m \in Fd : desc'.owner[m] = Free \/ desc'.owner[m] = desc.owner[m]
        /\ desc'.stray = "none" =>
            \A m \in Fd : \/ desc'.owner[m] = desc.owner[m]
                          \/ desc.owner[m] \in {<<r, "client">>, <<r, "proxy">>, Free}
    BY <1>6
  <2>2. y.at # "queued"
    BY <1>2
  <2> QED
    BY <1>1, <1>2, <1>6, <1>7, <2>1, <2>2, CloseKeepsInv DEF x
<1> QED
  BY <1>5, <1>6, <1>8

\* A kill closes both, and another's number only if a handler had closed the
\* backend's socket before.
LEMMA KillKeepsInv ==
    ASSUME PipeInv, NEW r \in Requests, Kill(r)
    PROVE  /\ PipeInv'
           /\ desc'.stray # desc.stray =>
                /\ rq[r].at = "queued" /\ rq'[r].at = "killed"
                /\ rq[r].relay.closed # ""
<1> DEFINE x == rq[r]
<1>1. PICK d : /\ d = IF x.proxy = NoFd THEN desc
                      ELSE Close(desc, x.proxy, <<r, "proxy">>, "kill")
               /\ desc' = Close(d, x.sock, <<r, "client">>, "kill")
  BY DEF Kill
<1>2. x.at = "queued"
  BY KillStep
<1>3. PICK y : Becomes(r, y) /\ Sound(y) /\ y.at = "killed"
  BY KillStep
<1>4. /\ x.sock \in Fd /\ x.proxy \in Fd \cup {NoFd}
      /\ x.handle = "proxy_monitor" => x.proxy # NoFd
      /\ x.handle # "proxy_monitor" /\ x.relay.closed = "" => x.proxy = NoFd
  BY <1>2 DEF PipeInv, Sound, Queued
<1>5. /\ DOMAIN desc = {"owner", "stray"}
      /\ desc.owner \in [Fd -> (Requests \X {"client", "proxy"}) \cup {Free}]
      /\ \A m \in Fd : desc.owner[m] = <<r, "client">> => m = x.sock
      /\ \A m \in Fd : desc.owner[m] = <<r, "proxy">> =>
            m = x.proxy /\ x.handle = "proxy_monitor"
  BY DEF PipeInv, Owners
<1>6. desc.stray = "none" =>
        /\ desc.owner[x.sock] = <<r, "client">>
        /\ x.handle = "proxy_monitor" => desc.owner[x.proxy] = <<r, "proxy">>
  BY <1>2 DEF PipeInv, Open
<1>7. rq'[r] = y
  BY <1>3, OneRequestMoves
<1> HIDE DEF x
<1>8. /\ DOMAIN d = {"owner", "stray"}
      /\ d.owner \in [Fd -> (Requests \X {"client", "proxy"}) \cup {Free}]
      /\ x.proxy # NoFd => d.owner[x.proxy] = Free
      /\ \A m \in Fd : m # x.proxy => d.owner[m] = desc.owner[m]
      /\ d.stray = "none" =>
            /\ desc.stray = "none"
            /\ x.proxy # NoFd => desc.owner[x.proxy] \in {<<r, "proxy">>, Free}
      /\ d.stray # desc.stray =>
            /\ desc.stray = "none" /\ x.proxy # NoFd
            /\ desc.owner[x.proxy] \notin {<<r, "proxy">>, Free}
  <2>1. CASE x.proxy = NoFd
    BY <1>1, <1>5, <2>1
  <2>2. CASE x.proxy # NoFd
    <3>1. /\ d = Close(desc, x.proxy, <<r, "proxy">>, "kill")
          /\ x.proxy \in Fd /\ "kill" \in {"handler", "kill"}
      BY <1>1, <1>4, <2>2
    <3>2. /\ DOMAIN d = {"owner", "stray"}
          /\ d.owner \in [Fd -> (Requests \X {"client", "proxy"}) \cup {Free}]
          /\ d.owner[x.proxy] = Free
          /\ \A m \in Fd : m # x.proxy => d.owner[m] = desc.owner[m]
          /\ d.stray = "none" =>
                desc.stray = "none" /\ desc.owner[x.proxy] \in {<<r, "proxy">>, Free}
          /\ d.stray # desc.stray =>
                desc.stray = "none" /\ desc.owner[x.proxy] \notin {<<r, "proxy">>, Free}
      BY <1>5, <3>1, CloseFields
    <3> QED
      BY <2>2, <3>2
  <2> QED
    BY <2>1, <2>2
<1>9. /\ DOMAIN desc' = {"owner", "stray"}
      /\ desc'.owner \in [Fd -> (Requests \X {"client", "proxy"}) \cup {Free}]
      /\ desc'.owner[x.sock] = Free
      /\ \A m \in Fd : m # x.sock => desc'.owner[m] = d.owner[m]
      /\ desc'.stray = "none" =>
            d.stray = "none" /\ d.owner[x.sock] \in {<<r, "client">>, Free}
      /\ desc'.stray # d.stray =>
            d.stray = "none" /\ d.owner[x.sock] \notin {<<r, "client">>, Free}
  <2>1. "kill" \in {"handler", "kill"}
    OBVIOUS
  <2>2. /\ desc' = Close(d, x.sock, <<r, "client">>, "kill")
        /\ DOMAIN d = {"owner", "stray"}
        /\ d.owner \in [Fd -> (Requests \X {"client", "proxy"}) \cup {Free}]
        /\ x.sock \in Fd
    BY <1>1, <1>4, <1>8
  <2> QED
    BY <2>1, <2>2, CloseFields
<1>10. \A m \in Fd : desc'.owner[m] \notin {<<r, "client">>, <<r, "proxy">>}
  <2>1. ASSUME NEW m \in Fd
        PROVE  \/ desc'.owner[m] = Free
               \/ /\ desc'.owner[m] = desc.owner[m] /\ m # x.sock
                  /\ x.proxy = NoFd \/ m # x.proxy
    BY <1>4, <1>8, <1>9, NoFdIsNone
  <2>2. \A m \in Fd : desc'.owner[m] # <<r, "client">>
    BY <1>5, <2>1 DEF Free
  <2>3. ASSUME NEW m \in Fd, desc'.owner[m] = <<r, "proxy">>
        PROVE  FALSE
    <3>1. desc'.owner[m] # Free
      BY <2>3 DEF Free
    <3>2. desc.owner[m] = <<r, "proxy">> /\ (x.proxy = NoFd \/ m # x.proxy)
      BY <2>1, <2>3, <3>1
    <3>3. m = x.proxy /\ x.proxy # NoFd
      BY <1>4, <1>5, <3>2
    <3> QED
      BY <3>2, <3>3
  <2> QED
    BY <2>2, <2>3
<1>11. /\ \A m \in Fd : desc'.owner[m] = Free \/ desc'.owner[m] = desc.owner[m]
       /\ desc'.stray = "none" =>
            /\ desc.stray = "none"
            /\ \A m \in Fd : \/ desc'.owner[m] = desc.owner[m]
                             \/ desc.owner[m] \in {<<r, "client">>, <<r, "proxy">>, Free}
  <2>1. ASSUME NEW m \in Fd
        PROVE  desc'.owner[m] = Free \/ desc'.owner[m] = desc.owner[m]
    BY <1>4, <1>8, <1>9, NoFdIsNone
  <2>2. ASSUME desc'.stray = "none", NEW m \in Fd
        PROVE  \/ desc'.owner[m] = desc.owner[m]
               \/ desc.owner[m] \in {<<r, "client">>, <<r, "proxy">>, Free}
    BY <1>4, <1>6, <1>8, <1>9, <2>2, NoFdIsNone
  <2> QED
    BY <1>8, <1>9, <2>1, <2>2
<1>12. PipeInv'
  <2>1. y.at # "queued"
    BY <1>3
  <2> QED
    BY <1>2, <1>3, <1>9, <1>10, <1>11, <2>1, CloseKeepsInv DEF x
<1>13. ASSUME desc'.stray # desc.stray
       PROVE  x.relay.closed # ""
  <2>1. desc.stray = "none"
    BY <1>8, <1>9, <1>13
  <2>2. d.owner[x.sock] \in {<<r, "client">>, Free}
    BY <1>4, <1>6, <1>8, <2>1, NoFdIsNone
  <2>3. x.proxy # NoFd /\ desc.owner[x.proxy] \notin {<<r, "proxy">>, Free}
    BY <1>8, <1>9, <1>13, <2>2
  <2> QED
    BY <1>4, <1>6, <2>1, <2>3
<1> QED
  BY <1>2, <1>3, <1>7, <1>12, <1>13 DEF x

\* antd_monitor opens the client's.
LEMMA MonitorKeepsInv ==
    ASSUME PipeInv, NEW r \in Requests, Monitor(r)
    PROVE  PipeInv' /\ desc'.stray = desc.stray
<1>1. PICK tls \in {"no", "accept"} :
        Becomes(r, [Fresh EXCEPT !.at = "queued", !.sock = NewFd, !.tls = tls,
                                 !.handle = "accept_request", !.wait = {NewFd},
                                 !.next = <<"finish_request">>])
  BY DEF Monitor
<1>2. PICK y : y = [Fresh EXCEPT !.at = "queued", !.sock = NewFd, !.tls = tls,
                                 !.handle = "accept_request", !.wait = {NewFd},
                                 !.next = <<"finish_request">>]
  OBVIOUS
<1>3. /\ rq[r].at = "new" /\ FreeFds # {}
      /\ desc' = [desc EXCEPT !.owner[NewFd] = <<r, "client">>]
  BY DEF Monitor
<1>4. NewFd \in Fd
  BY <1>3, NewFdIsFree DEF FreeFds
<1>5. /\ IsRequest(y) /\ y.at = "queued" /\ y.handle = "accept_request"
      /\ y.next = <<"finish_request">> /\ y.wait = {NewFd} /\ y.sock = NewFd
      /\ y.proxy = NoFd /\ y.relay = NoRelay /\ y.said = <<>> /\ y.body = FALSE
  BY <1>2 DEF Fresh, NoRelay, IsRequest
<1>6. RelaySound(NoRelay) /\ NoRelay.closed = "" /\ NoRelay.moved = NoRelay.sent
  BY DEF NoRelay, RelaySound
<1>7. Queued(y)
  BY <1>4, <1>5, <1>6 DEF Queued, Before, After, Decoders
<1>8. Sound(y)
  BY <1>5, <1>7 DEF Sound
<1>9. PipeInv'
  <2>1. y.handle # "proxy_monitor" /\ "client" \in {"client", "proxy"}
    BY <1>5
  <2> QED
    BY <1>1, <1>2, <1>3, <1>5, <1>8, <2>1, OpenKeepsInv
<1>10. desc'.stray = desc.stray
  BY <1>3 DEF PipeInv, Owners
<1> QED
  BY <1>9, <1>10

-----------------------------------------------------------------------------
(***************************************************************************)
(* The invariant.                                                          *)
(***************************************************************************)
LEMMA PipeInit == Init => PipeInv
<1> SUFFICES ASSUME Init PROVE PipeInv
  OBVIOUS
<1>1. /\ IsRequest(Fresh) /\ Fresh.at = "new" /\ Fresh.said = <<>>
      /\ Fresh.relay.moved = Fresh.relay.sent /\ Fresh.relay.moved = Fresh.relay.read
  BY DEF Fresh, NoRelay, IsRequest
<1>2. Sound(Fresh)
  BY <1>1 DEF Sound
<1>3. \A r \in Requests : rq[r] = Fresh
  BY DEF Init
<1>4. /\ DOMAIN desc = {"owner", "stray"}
      /\ desc.owner = [n \in Fd |-> Free]
  BY DEF Init
<1>5. Owners
  BY <1>4 DEF Owners, Free
<1>6. Open
  BY <1>1, <1>3 DEF Open
<1>7. rq = [r \in Requests |-> rq[r]]
  BY DEF Init
<1> QED
  BY <1>2, <1>3, <1>5, <1>6, <1>7 DEF PipeInv

\* A step keeps the invariant; only a kill closes another's number.
LEMMA PipeNext ==
    ASSUME PipeInv, Next
    PROVE  /\ PipeInv'
           /\ desc'.stray # desc.stray =>
                \E r \in Requests : /\ rq[r].at = "queued" /\ rq'[r].at = "killed"
                                    /\ rq[r].relay.closed # ""
<1>1. PICK r \in Requests : Monitor(r) \/ Handler(r) \/ Backend(r) \/ Kill(r)
  BY DEF Next
<1>2. ASSUME Calmly(r), rq[r].at = "queued"
      PROVE  PipeInv' /\ desc'.stray = desc.stray
  BY <1>2, CalmKeepsInv DEF Calmly
<1>3. CASE Monitor(r)
  BY <1>3, MonitorKeepsInv
<1>4. CASE AcceptRequest(r)
  BY <1>2, <1>4, AcceptRequestStep DEF AcceptRequest, Runs
<1>5. CASE DecodeRequestHeader(r)
  BY <1>2, <1>5, DecodeRequestHeaderStep DEF DecodeRequestHeader, Runs
<1>6. CASE DecodeRequest(r)
  BY <1>2, <1>6, DecodeRequestStep DEF DecodeRequest, Runs
<1>7. CASE ResolveRequest(r)
  BY <1>2, <1>7, ResolveRequestStep DEF ResolveRequest, Runs
<1>8. CASE ServeFile(r)
  BY <1>2, <1>8, ServeFileStep DEF ServeFile, Runs
<1>9. CASE DecodePostRequest(r)
  BY <1>2, <1>9, DecodePostRequestStep DEF DecodePostRequest, Runs
<1>10. CASE DecodeMultiPartRequestData(r)
  BY <1>2, <1>10, DecodeMultiPartRequestDataStep DEF DecodeMultiPartRequestData, Runs
<1>11. CASE Plugin(r)
  BY <1>2, <1>11, PluginStep DEF Plugin, Runs
<1>12. CASE Proxify(r)
  <2>1. rq[r].at = "queued" /\ rq[r].handle = "proxify"
    BY <1>12 DEF Proxify, Runs
  <2>2. ASSUME NEW y, Linked(r, y)
        PROVE  PipeInv' /\ desc'.stray = desc.stray
    <3>1. /\ Becomes(r, y) /\ Sound(y) /\ FreeFds # {}
          /\ y.at = "queued" /\ y.sock = rq[r].sock
          /\ y.handle = "proxy_monitor" /\ y.proxy = NewFd
          /\ desc' = [desc EXCEPT !.owner[NewFd] = <<r, "proxy">>]
      BY <2>2 DEF Linked
    <3>2. rq[r].handle # "proxy_monitor" /\ "proxy" \in {"client", "proxy"}
      BY <2>1
    <3>3. PipeInv'
      BY <2>1, <3>1, <3>2, OpenKeepsInv
    <3>4. desc'.stray = desc.stray
      BY <3>1 DEF PipeInv, Owners
    <3> QED
      BY <3>3, <3>4
  <2> QED
    BY <1>2, <1>12, <2>1, <2>2, ProxifyStep
<1>13. CASE ProxyMonitor(r)
  BY <1>2, <1>13, ProxyMonitorStep DEF ProxyMonitor, Runs
<1>14. CASE FinishRequest(r)
  BY <1>14, FinishRequestKeepsInv
<1>15. CASE Backend(r)
  BY <1>2, <1>15, BackendStep DEF Backend, Runs
<1>16. CASE Kill(r)
  BY <1>16, KillKeepsInv
<1>17. CASE ProxyTurn(r)
  BY <1>2, <1>17, ProxyTurnStep, UnlinkedKeepsInv DEF ProxyTurn, Runs
<1> QED
  BY <1>1, <1>3, <1>4, <1>5, <1>6, <1>7, <1>8, <1>9, <1>10, <1>11, <1>12, <1>13,
     <1>14, <1>15, <1>16, <1>17 DEF Handler

\* A step that changes nothing.
LEMMA PipeUnchanged ==
    ASSUME PipeInv, UNCHANGED vars
    PROVE  PipeInv'
<1>1. rq' = rq /\ desc' = desc
  BY DEF vars
<1>2. Owners'
  BY <1>1 DEF PipeInv, Owners
<1>3. Open'
  BY <1>1 DEF PipeInv, Open
<1>4. ASSUME NEW r \in Requests
      PROVE  Sound(rq'[r])
  <2>1. Sound(rq[r])
    BY DEF PipeInv
  <2> QED
    BY <1>1, <2>1
<1>5. rq' = [r \in Requests |-> rq'[r]]
  BY <1>1 DEF PipeInv
<1> QED
  BY <1>2, <1>3, <1>4, <1>5 DEF PipeInv

\* The requests and the descriptor table fit each other in every state, for any
\* connections, rules and numbers of descriptors: the chain of callbacks of
\* every handler, what has been answered, and who owns which descriptor
\* (accept_request to finish_request, proxify, antd_scheduler_destroy_data).
THEOREM RequestsAreSound == Spec => []PipeInv
<1>1. PipeInv /\ [Next]_vars => PipeInv'
  BY PipeNext, PipeUnchanged
<1> QED
  BY PipeInit, <1>1, PTL DEF Spec

-----------------------------------------------------------------------------
(***************************************************************************)
(* What follows for the descriptors.                                       *)
(***************************************************************************)

\* No path through the handlers, and no kill wherever it comes, leaves a
\* descriptor open without a request that waits or runs, or the backend's
\* without its monitor (proxify, proxy_monitor, finish_request,
\* antd_scheduler_destroy_data).
THEOREM NoDescriptorIsLost == Spec => []DescriptorsReturned
<1>1. ASSUME PipeInv PROVE DescriptorsReturned
  <2> USE <1>1
  <2> SUFFICES ASSUME NEW n \in Fd, desc.owner[n] # Free
               PROVE  LET x == rq[desc.owner[n][1]] IN
                      /\ x.at = "queued"
                      /\ desc.owner[n][2] = "proxy" => x.handle = "proxy_monitor"
    BY DEF DescriptorsReturned
  <2>1. PICK r \in Requests, side \in {"client", "proxy"} : desc.owner[n] = <<r, side>>
    BY DEF PipeInv, Owners
  <2>2. /\ side = "client" => rq[r].at = "queued"
        /\ side = "proxy" => rq[r].at = "queued" /\ rq[r].handle = "proxy_monitor"
    BY <2>1 DEF PipeInv, Owners
  <2> QED
    BY <2>1, <2>2
<1> QED
  BY <1>1, RequestsAreSound, PTL

\* Until a number of another request has been closed, a task waits for events
\* of its own request's descriptors only (antd_task_bind_event, proxy_monitor).
THEOREM EventsAreOwn == Spec => []WaitsOnOwn
<1>1. ASSUME PipeInv PROVE WaitsOnOwn
  <2> USE <1>1
  <2> SUFFICES ASSUME desc.stray = "none", NEW r \in Requests, rq[r].at = "queued",
                      NEW n \in rq[r].wait
               PROVE  desc.owner[n][1] = r
    BY DEF WaitsOnOwn
  <2>1. n = rq[r].sock \/ (rq[r].handle = "proxy_monitor" /\ n = rq[r].proxy)
    BY DEF PipeInv, Sound, Queued
  <2>2. /\ desc.owner[rq[r].sock] = <<r, "client">>
        /\ rq[r].handle = "proxy_monitor" => desc.owner[rq[r].proxy] = <<r, "proxy">>
    BY DEF PipeInv, Open
  <2> QED
    BY <2>1, <2>2
<1> QED
  BY <1>1, RequestsAreSound, PTL

\* A number of another request is closed by no handler, and by a kill only after
\* a handler has closed the socket that PROXY_HANDLE still names (proxy_monitor,
\* proxify, antd_scheduler_destroy_data).
THEOREM OnlyLateKillsStray == Spec => StraysOnlyByLateKill
<1>1. PipeInv /\ [Next]_vars =>
        [desc'.stray # desc.stray =>
            \E r \in Requests : /\ rq[r].at = "queued" /\ rq'[r].at = "killed"
                               /\ rq[r].relay.closed # ""]_vars
  BY PipeNext
<1> QED
  BY <1>1, RequestsAreSound, PTL DEF Spec, StraysOnlyByLateKill

-----------------------------------------------------------------------------
(***************************************************************************)
(* What follows for the answers.                                           *)
(***************************************************************************)

\* Every request gets one answer, or what the backend sends, whatever handlers,
\* errors and callbacks it goes through (antd_error, antd_execute_task).
THEOREM OneAnswer == Spec => []AnsweredOnce
<1>1. ASSUME PipeInv PROVE AnsweredOnce
  <2> USE <1>1
  <2> DEFINE one == {"file", "error", "plugin"}
             Parts == {<<>>, <<"upgrade">>, <<"error", "plugin">>}
                      \cup {<<a>> : a \in one} \cup {<<"upgrade", a>> : a \in one}
  <2>1. Whole \cup {<<>>, <<"upgrade">>, <<"error">>} \subseteq Parts
    BY DEF Whole
  <2>2. Whole \cap {<<>>, <<"upgrade">>} = {}
    BY DEF Whole
  <2>3. ASSUME NEW r \in Requests
        PROVE  LET x == rq[r] IN
               /\ x.said \in Parts
               /\ x.at = "ended" =>
                    IF x.relay.closed \in {"end", "hup", "error"} THEN x.said = <<>>
                    ELSE x.said \notin {<<>>, <<"upgrade">>}
    <3>1. Sound(rq[r])
      BY DEF PipeInv
    <3>2. rq[r].said \in Whole \cup {<<>>, <<"upgrade">>, <<"error">>}
      BY <3>1 DEF Sound, Queued, Answered, Before, After
    <3>3. rq[r].at = "ended" => Answered(rq[r])
      BY <3>1 DEF Sound
    <3> HIDE DEF Parts
    <3> QED
      BY <2>1, <2>2, <3>2, <3>3 DEF Answered
  <2> QED
    BY <2>3, Zenon DEF AnsweredOnce
<1> QED
  BY <1>1, RequestsAreSound, PTL

\* However many chunks a backend sends, and however they and its end fall between
\* the turns of the loop, nothing follows a hole, and all of it is relayed before
\* the proxy's socket is closed, but for the client's end or an error, or a backend
\* that is gone (proxy_monitor).
THEOREM NothingSentIsLost == Spec => []RelayComplete
<1>1. ASSUME PipeInv PROVE RelayComplete
  <2> USE <1>1
  <2>1. ASSUME NEW r \in Requests
        PROVE  LET b == rq[r].relay IN
               /\ b.moved # b.read => b.closed = "error"
               /\ b.moved # b.sent =>
                    b.closed \in {"", "error"} \/ (b.closed = "hup" /\ b.state = "hup")
    <3>1. Sound(rq[r])
      BY DEF PipeInv
    <3> QED
      BY <3>1 DEF Sound, Queued, RelaySound
  <2> QED
    BY <2>1, Zenon DEF RelayComplete
<1> QED
  BY <1>1, RequestsAreSound, PTL

-----------------------------------------------------------------------------
(***************************************************************************)
(* The rewrite rules, one after the other.                                 *)
(***************************************************************************)

\* Induction over the naturals up to n: a set that has 0, and every successor.
LEMMA UpTo ==
    ASSUME NEW n \in Nat, NEW S, 0 \in S,
           \A k \in 0 .. n - 1 : k \in S => k + 1 \in S
    PROVE  \A k \in 0 .. n : k \in S
<1> SUFFICES ASSUME NEW z \in 0 .. n, z \notin S PROVE FALSE
  OBVIOUS
<1> DEFINE T == {k \in 0 .. n : k \notin S}
<1>1. \A m, k \in Nat : m < k => <<m, k>> \in OpToRel(<, Nat)
  BY Zenon DEF OpToRel
<1>2. PICK R : IsWellFoundedOn(R, Nat) /\ \A m, k \in Nat : m < k => <<m, k>> \in R
  BY <1>1, NatLessThanWellFounded, Zenon
<1>3. PICK N, U : N = Nat /\ U = T
  OBVIOUS
<1>4. IsWellFoundedOn(R, N) /\ U \subseteq N /\ U # {}
  BY <1>2, <1>3
<1>5. \E x \in U : \A y \in U : ~(<<y, x>> \in R)
  BY ONLY <1>4, WFMin, Zenon
<1>6. PICK k \in 0 .. n : k \notin S /\ \A y \in 0 .. n : y \notin S => <<y, k>> \notin R
  BY <1>3, <1>5
<1>7. k # 0
  BY <1>6
<1>8. k - 1 \in 0 .. n - 1 /\ k - 1 < k /\ k - 1 \in Nat /\ k \in Nat /\ (k - 1) + 1 = k
  BY <1>7
<1>9. k - 1 \in S
  <2>1. PICK y \in Nat : y = k - 1 /\ y \in 0 .. n /\ y < k
    BY <1>8
  <2>2. <<y, k>> \in R
    BY <1>2, <1>8, <2>1, Zenon
  <2> QED
    BY <1>6, <2>1, <2>2, Zenon
<1> QED
  BY <1>6, <1>8, <1>9

\* There is a function as AfterRules describes it: each rule is applied to what
\* the ones before it have made.
LEMMA AfterRulesFrom ==
    ASSUME NEW rs, Len(rs) \in Nat, NEW h, NEW p
    PROVE  LET a == AfterRules(rs, h, p) IN
           a = [i \in 0 .. Len(rs) |->
                    IF i = 0 THEN Asking(p) ELSE ApplyRule(a[i - 1], rs[i], h)]
<1> DEFINE Is(g, k) == g = [i \in 0 .. k |->
                    IF i = 0 THEN Asking(p) ELSE ApplyRule(g[i - 1], rs[i], h)]
           n == Len(rs)
           S == {k \in Nat : \E g : Is(g, k)}
<1>1. 0 \in S
  <2>1. PICK g : g = [i \in 0 .. 0 |-> Asking(p)]
    OBVIOUS
  <2>2. Is(g, 0)
    BY <2>1
  <2> HIDE DEF Is
  <2> QED
    BY <2>2
<1>2. ASSUME NEW k \in 0 .. n - 1, k \in S PROVE k + 1 \in S
  <2>1. PICK g : Is(g, k)
    BY <1>2
  <2>2. PICK v : v = ApplyRule(g[k], rs[k + 1], h)
    OBVIOUS
  <2>3. PICK f : f = [i \in 0 .. k + 1 |-> IF i = k + 1 THEN v ELSE g[i]]
    OBVIOUS
  <2>4. \A i \in 0 .. k : g[i] = IF i = 0 THEN Asking(p) ELSE ApplyRule(g[i - 1], rs[i], h)
    BY <2>1
  <2>5. ASSUME NEW i \in 0 .. k + 1
        PROVE  f[i] = IF i = 0 THEN Asking(p) ELSE ApplyRule(f[i - 1], rs[i], h)
    <3>1. CASE i = k + 1
      <4>1. f[i] = v /\ f[i - 1] = g[k] /\ i # 0
        BY <3>1, <2>3
      <4> QED
        BY <4>1, <3>1, <2>2
    <3>2. CASE i = 0
      BY <3>2, <2>3, <2>4
    <3>3. CASE i \in 1 .. k
      <4>1. f[i] = g[i] /\ f[i - 1] = g[i - 1] /\ i \in 0 .. k /\ i # 0
        BY <3>3, <2>3
      <4> QED
        BY <4>1, <2>4
    <3> QED
      BY <3>1, <3>2, <3>3
  <2>6. Is(f, k + 1)
    BY <2>3, <2>5
  <2> HIDE DEF Is
  <2> QED
    BY <2>6
<1> HIDE DEF Is, S
<1>3. n \in 0 .. n /\ n \in S
  <2>1. PICK m \in Nat : m = n
    OBVIOUS
  <2>2. \A k \in 0 .. m - 1 : k \in S => k + 1 \in S
    BY <1>2, <2>1
  <2>3. \A k \in 0 .. m : k \in S
    BY ONLY <1>1, <2>1, <2>2, UpTo, Zenon
  <2> QED
    BY <2>1, <2>3
<1>4. \E g : Is(g, n)
  BY <1>3 DEF S
<1>5. AfterRules(rs, h, p) = CHOOSE g : Is(g, n)
  BY DEF AfterRules, Is
<1>6. Is(AfterRules(rs, h, p), n)
  BY <1>4, <1>5
<1> QED
  BY <1>6 DEF Is
\* ... and one as AsConfigured does.
LEMMA AsConfiguredFrom ==
    ASSUME NEW rs, Len(rs) \in Nat, NEW h, NEW p
    PROVE  LET c == AsConfigured(rs, h, p) IN
           c = [i \in 0 .. Len(rs) |->
                    IF i = 0 THEN Sent(p) ELSE Obey(c[i - 1], rs[i], h)]
<1> DEFINE Is(g, k) == g = [i \in 0 .. k |->
                    IF i = 0 THEN Sent(p) ELSE Obey(g[i - 1], rs[i], h)]
           n == Len(rs)
           S == {k \in Nat : \E g : Is(g, k)}
<1>1. 0 \in S
  <2>1. PICK g : g = [i \in 0 .. 0 |-> Sent(p)]
    OBVIOUS
  <2>2. Is(g, 0)
    BY <2>1
  <2> HIDE DEF Is
  <2> QED
    BY <2>2
<1>2. ASSUME NEW k \in 0 .. n - 1, k \in S PROVE k + 1 \in S
  <2>1. PICK g : Is(g, k)
    BY <1>2
  <2>2. PICK v : v = Obey(g[k], rs[k + 1], h)
    OBVIOUS
  <2>3. PICK f : f = [i \in 0 .. k + 1 |-> IF i = k + 1 THEN v ELSE g[i]]
    OBVIOUS
  <2>4. \A i \in 0 .. k : g[i] = IF i = 0 THEN Sent(p) ELSE Obey(g[i - 1], rs[i], h)
    BY <2>1
  <2>5. ASSUME NEW i \in 0 .. k + 1
        PROVE  f[i] = IF i = 0 THEN Sent(p) ELSE Obey(f[i - 1], rs[i], h)
    <3>1. CASE i = k + 1
      <4>1. f[i] = v /\ f[i - 1] = g[k] /\ i # 0
        BY <3>1, <2>3
      <4> QED
        BY <4>1, <3>1, <2>2
    <3>2. CASE i = 0
      BY <3>2, <2>3, <2>4
    <3>3. CASE i \in 1 .. k
      <4>1. f[i] = g[i] /\ f[i - 1] = g[i - 1] /\ i \in 0 .. k /\ i # 0
        BY <3>3, <2>3
      <4> QED
        BY <4>1, <2>4
    <3> QED
      BY <3>1, <3>2, <3>3
  <2>6. Is(f, k + 1)
    BY <2>3, <2>5
  <2> HIDE DEF Is
  <2> QED
    BY <2>6
<1> HIDE DEF Is, S
<1>3. n \in 0 .. n /\ n \in S
  <2>1. PICK m \in Nat : m = n
    OBVIOUS
  <2>2. \A k \in 0 .. m - 1 : k \in S => k + 1 \in S
    BY <1>2, <2>1
  <2>3. \A k \in 0 .. m : k \in S
    BY ONLY <1>1, <2>1, <2>2, UpTo, Zenon
  <2> QED
    BY <2>1, <2>3
<1>4. \E g : Is(g, n)
  BY <1>3 DEF S
<1>5. AsConfigured(rs, h, p) = CHOOSE g : Is(g, n)
  BY DEF AsConfigured, Is
<1>6. Is(AsConfigured(rs, h, p), n)
  BY <1>4, <1>5
<1> QED
  BY <1>6 DEF Is

\* The request under both readings of the rules: the same path and query, and
\* stopped by both or by neither.
Agree(a, c) ==
    \E p, q : \E s \in BOOLEAN :
        /\ c = [path |-> p, query |-> q, stop |-> s]
        /\ a = [path |-> p, query |-> q, brk |-> s, stop |-> s]

\* A <break> rule that does not match.
Passed(u, h, c) == u.brk /\ ~RuleMatches(u, h, c.path)

\* One rule, as it is applied and as it is configured.
LEMMA RuleAgrees ==
    ASSUME NEW a, NEW c, NEW u \in Rule, NEW h, Agree(a, c), ~Passed(u, h, c)
    PROVE  Agree(ApplyRule(a, u, h), Obey(c, u, h))
<1>0. u.brk \in BOOLEAN /\ (u.brk => RuleMatches(u, h, c.path))
  BY DEF Rule, Passed
<1>1. PICK p, q : \E s \in BOOLEAN :
        /\ c = [path |-> p, query |-> q, stop |-> s]
        /\ a = [path |-> p, query |-> q, brk |-> s, stop |-> s]
  BY DEF Agree
<1>2. PICK s \in BOOLEAN :
        /\ c = [path |-> p, query |-> q, stop |-> s]
        /\ a = [path |-> p, query |-> q, brk |-> s, stop |-> s]
  BY <1>1
<1>3. CASE s
  <2>1. ApplyRule(a, u, h) = a /\ Obey(c, u, h) = c
    BY <1>2, <1>3 DEF ApplyRule, Obey
  <2> QED
    BY <2>1
<1>4. CASE ~s
  <2>1. a.path = p /\ c.path = p /\ ~a.stop /\ ~c.stop /\ ~a.brk
    BY <1>2, <1>4
  <2>2. CASE ~RuleMatches(u, h, p)
    <3>1. Obey(c, u, h) = c
      BY <2>1, <2>2 DEF Obey
    <3>2. ApplyRule(a, u, h) = [a EXCEPT !.brk = FALSE]
      <4>1. ~u.brk
        BY <1>0, <2>1, <2>2
      <4>2. (a.brk \/ u.brk) = FALSE
        BY <2>1, <4>1
      <4> QED
        BY <2>1, <2>2, <4>2 DEF ApplyRule
    <3>3. ApplyRule(a, u, h) = a
      BY <3>2, <1>2, <1>4
    <3> QED
      BY <3>1, <3>3
  <2>3. CASE RuleMatches(u, h, p)
    <3>1. PICK m, w : /\ m = (IF u.to = Same THEN p ELSE u.to)
                      /\ w = (q /\ u.to # Same /\ u.query)
      OBVIOUS
    <3>2. PICK b \in BOOLEAN : b = u.brk
      BY <1>0
    <3>3. (a.brk \/ u.brk) = b
      BY <2>1, <3>2
    <3>4. /\ Rewrite(u, a) = [a EXCEPT !.path = m, !.query = w]
          /\ Rewrite(u, c) = [c EXCEPT !.path = m, !.query = w]
      BY <3>1, <1>2 DEF Rewrite
    <3>5. /\ ApplyRule(a, u, h) = [Rewrite(u, a) EXCEPT !.brk = b, !.stop = b]
          /\ Obey(c, u, h) = [Rewrite(u, c) EXCEPT !.stop = b]
      BY <2>1, <2>3, <3>2, <3>3 DEF ApplyRule, Obey
    <3>6. /\ ApplyRule(a, u, h) = [path |-> m, query |-> w, brk |-> b, stop |-> b]
          /\ Obey(c, u, h) = [path |-> m, query |-> w, stop |-> b]
      BY <1>2, <3>4, <3>5
    <3> QED
      BY <3>6 DEF Agree
  <2> QED
    BY <2>2, <2>3
<1> QED
  BY <1>3, <1>4

\* If no <break> rule fails to match, apply_rules is what is configured.
LEMMA RulesAgree ==
    ASSUME NEW rs \in Seq(Rule), NEW h, NEW p, ~BreakMissed(rs, h, p)
    PROVE  /\ ApplyRules(rs, h, p).path = Configured(rs, h, p).path
           /\ ApplyRules(rs, h, p).query = Configured(rs, h, p).query
<1>1. PICK n \in Nat : n = Len(rs) /\ DOMAIN rs = 1 .. n
  OBVIOUS
<1>2. PICK a : a = AfterRules(rs, h, p)
  OBVIOUS
<1>3. PICK c : c = AsConfigured(rs, h, p)
  OBVIOUS
<1>4. \A i \in 0 .. n : a[i] = IF i = 0 THEN Asking(p) ELSE ApplyRule(a[i - 1], rs[i], h)
  <2>1. a = [i \in 0 .. Len(rs) |->
                IF i = 0 THEN Asking(p) ELSE ApplyRule(a[i - 1], rs[i], h)]
    BY <1>1, <1>2, AfterRulesFrom
  <2> QED
    BY <1>1, <2>1
<1>5. \A i \in 0 .. n : c[i] = IF i = 0 THEN Sent(p) ELSE Obey(c[i - 1], rs[i], h)
  <2>1. c = [i \in 0 .. Len(rs) |->
                IF i = 0 THEN Sent(p) ELSE Obey(c[i - 1], rs[i], h)]
    BY <1>1, <1>3, AsConfiguredFrom
  <2> QED
    BY <1>1, <2>1
<1>6. PICK S : S = {i \in 0 .. n : Agree(a[i], c[i])}
  OBVIOUS
<1>7. 0 \in S
  <2>1. PICK z \in 0 .. n : z = 0
    BY <1>1
  <2>2. a[z] = Asking(p) /\ c[z] = Sent(p)
    BY <1>4, <1>5, <2>1
  <2>3. Agree(a[z], c[z])
    BY <2>2 DEF Agree, Asking, Sent
  <2> QED
    BY <1>6, <2>1, <2>3
<1>8. \A k \in 0 .. n - 1 : k \in S => k + 1 \in S
  <2> SUFFICES ASSUME NEW k \in 0 .. n - 1, k \in S PROVE k + 1 \in S
    OBVIOUS
  <2>1. PICK i \in 1 .. n : i = k + 1 /\ i - 1 = k /\ i # 0 /\ i \in 0 .. n
    BY <1>1
  <2>2. PICK x, y : x = a[k] /\ y = c[k] /\ Agree(x, y)
    BY <1>6
  <2>3. PICK u \in Rule : u = rs[i]
    BY <1>1
  <2>4. ~Passed(u, h, y)
    BY <1>1, <1>3, <2>1, <2>2, <2>3 DEF BreakMissed, Passed
  <2>5. u \in Rule /\ Agree(x, y)
    BY <2>2, <2>3
  <2>6. Agree(ApplyRule(x, u, h), Obey(y, u, h))
    BY ONLY <2>4, <2>5, RuleAgrees, Zenon
  <2>7. a[i] = ApplyRule(x, u, h) /\ c[i] = Obey(y, u, h)
    BY <1>4, <1>5, <2>1, <2>2, <2>3
  <2> QED
    BY <1>6, <2>1, <2>6, <2>7
<1>9. \A k \in 0 .. n : k \in S
  BY ONLY <1>1, <1>7, <1>8, UpTo, Zenon
<1>10. Agree(a[n], c[n])
  BY <1>1, <1>6, <1>9
<1>11. a[n].path = c[n].path /\ a[n].query = c[n].query
  BY <1>10 DEF Agree
<1> QED
  BY <1>1, <1>2, <1>3, <1>11 DEF ApplyRules, Configured

-----------------------------------------------------------------------------
(***************************************************************************)
(* The header, from the first line to the route.                           *)
(***************************************************************************)
IsHdr(d) == DOMAIN d = {"got", "lost", "cookie", "asked", "path", "query"}

\* The header of a decoded request fits what was sent.
AsSent(rs, d) ==
    LET h == IF "Host" \in d.got THEN Host ELSE NoHost
        should == Configured(rs, h, d.asked) IN
    /\ "Host" \in d.lost \/ BreakMissed(rs, h, d.asked)
        \/ (d.path = should.path /\ d.query = should.query)
    /\ "Cookie" \in d.got => d.cookie \/ "Cookie" \in d.lost

\* Between two calls of decode_request_header, what was read before is lost.
HeaderSound(rs, x) ==
    /\ x.handle = "accept_request" =>
            IsHdr(x.hdr) /\ x.hdr.got = {} /\ x.hdr.lost = {}
    /\ x.handle = "decode_request_header" => IsHdr(x.hdr) /\ x.hdr.got = x.hdr.lost
    /\ x.handle \in {"decode_request", "proxify"} => AsSent(rs, x.hdr)

RouteInv ==
    /\ rules \in Seq(Rule)
    /\ \A r \in Requests : HeaderSound(rules, rq[r])

\* The handlers that have a header before them.
Routing == {"accept_request", "decode_request_header", "decode_request", "proxify"}

\* A request goes on to a handler that has none.
Left(r) == \E y : Becomes(r, y) /\ y.handle \notin Routing

\* A request with callbacks, as one is that has not come to finish_request.
Going(z) ==
    /\ IsRequest(z)
    /\ z.next \in {<<"finish_request">>, <<"plugin", "finish_request">>}

\* The handlers that have none.
Serving == {"resolve_request", "serve_file", "plugin", "decode_post_request",
            "decode_multi_part_request_data", "proxy_monitor"}

\* A task that is handed on has its handler, and the header it had.
LEMMA TaskGives ==
    ASSUME NEW z, IsRequest(z), NEW h \in Routing \cup Serving, NEW cbs, NEW w
    PROVE  /\ Task(z, h, cbs, w).handle = h
           /\ Task(z, h, cbs, w).hdr = z.hdr
<1>1. PICK c : c = cbs \o z.next
  OBVIOUS
<1>2. Task(z, h, cbs, w) = [z EXCEPT !.handle = h, !.next = c, !.wait = w]
  BY <1>1 DEF Task, Routing, Serving
<1> QED
  BY <1>2 DEF IsRequest

\* A task that ends goes to a callback, and no callback needs the header.
LEMMA EndGives ==
    ASSUME NEW z, Going(z), NEW w
    PROVE  End(z, w).handle \in {"finish_request", "plugin"}
<1>1. IsRequest(z)
  BY DEF Going
<1>2. CASE z.next = <<"finish_request">>
  <2>1. PICK y : y = Handed(z, "finish_request", <<>>, w)
    OBVIOUS
  <2>2. End(z, w) = y
    BY <1>2, <2>1, EndIsHanded
  <2> QED
    BY <1>1, <2>1, <2>2, HandedFields
<1>3. CASE z.next = <<"plugin", "finish_request">>
  <2>1. PICK y : y = Handed(z, "plugin", <<"finish_request">>, w)
    OBVIOUS
  <2>2. End(z, w) = y
    BY <1>3, <2>1, EndIsHanded
  <2> QED
    BY <1>1, <2>1, <2>2, HandedFields
<1> QED
  BY <1>2, <1>3 DEF Going

\* What is said does not change the callbacks.
LEMMA SayGoing ==
    ASSUME NEW z, Going(z), NEW what
    PROVE  Going(Say(z, what))
  BY SayFields DEF Going

\* A request leaves the handlers that have a header with an end, with an error,
\* and to a handler that has none.
LEMMA EndLeaves ==
    ASSUME NEW r, NEW z, Going(z), NEW w, Becomes(r, End(z, w))
    PROVE  Left(r)
<1>1. PICK y : y = End(z, w) /\ y.handle \in {"finish_request", "plugin"}
  BY EndGives
<1>2. Becomes(r, y) /\ y.handle \notin Routing
  BY <1>1 DEF Routing
<1> QED
  BY <1>2, Zenon DEF Left

LEMMA ErrorLeaves ==
    ASSUME NEW r, NEW z, Going(z), NEW w, Becomes(r, Error(z, w))
    PROVE  Left(r)
<1>1. Going(Say(z, "error"))
  BY SayGoing
<1>2. Becomes(r, End(Say(z, "error"), w))
  BY Zenon DEF Error
<1> QED
  BY <1>1, <1>2, EndLeaves, Zenon

LEMMA TaskLeaves ==
    ASSUME NEW r, NEW z, Going(z), NEW cbs, NEW w,
           NEW h \in Serving, Becomes(r, Task(z, h, cbs, w))
    PROVE  Left(r)
<1>1. IsRequest(z) /\ h \in Routing \cup Serving
  BY DEF Going
<1>2. Task(z, h, cbs, w).handle = h
  BY <1>1, TaskGives
<1>3. h \notin Routing
  BY DEF Routing, Serving
<1> QED
  BY <1>2, <1>3, Zenon DEF Left

\* The callbacks of a queued request.
LEMMA QueuedGoes ==
    ASSUME PipeInv, NEW r \in Requests, rq[r].at = "queued",
           rq[r].handle # "finish_request"
    PROVE  Going(rq[r])
  BY DEF PipeInv, Sound, Queued, Going

\* The handlers behind the header, and the end of a request.
LEMMA RequestsLeave ==
    ASSUME PipeInv, NEW r \in Requests,
           \/ DecodeRequest(r)     \/ ResolveRequest(r)  \/ ServeFile(r)
           \/ DecodePostRequest(r) \/ DecodeMultiPartRequestData(r)
           \/ Plugin(r)            \/ Proxify(r)         \/ Backend(r)
           \/ ProxyMonitor(r)      \/ ProxyTurn(r)       \/ FinishRequest(r)
           \/ Kill(r)
    PROVE  Left(r)
<1> DEFINE x == rq[r]
<1>1. ASSUME x.at = "queued", x.handle # "finish_request"
      PROVE  Going(x)
  BY <1>1, QueuedGoes
<1>2. {"resolve_request", "serve_file", "plugin", "decode_post_request",
       "decode_multi_part_request_data", "proxy_monitor"} \subseteq Serving
  BY DEF Serving
<1>3. CASE DecodeRequest(r)
  <2> DEFINE z == [x EXCEPT !.hdr = NoHdr]
             b == [z EXCEPT !.body = TRUE]
             u == Say(z, "upgrade")
             h == "resolve_request"
  <2>1. Going(x)
    BY <1>1, <1>3 DEF DecodeRequest, Runs
  <2>2. \/ Becomes(r, Error(z, {}))
        \/ \E y \in {b, u, z} : Becomes(r, Task(y, h, <<>>, {}))
    BY <1>3 DEF DecodeRequest
  <2> HIDE DEF x
  <2>3. Going(z)
    BY <2>1 DEF Going, IsRequest
  <2> HIDE DEF z
  <2>4. Going(b)
    BY <2>3 DEF Going, IsRequest
  <2>5. Going(u)
    BY <2>3, SayGoing, Zenon
  <2> HIDE DEF b, u
  <2>6. CASE Becomes(r, Error(z, {}))
    BY <2>3, <2>6, ErrorLeaves, Zenon
  <2>7. ASSUME NEW y \in {b, u, z}, Becomes(r, Task(y, h, <<>>, {}))
        PROVE  Left(r)
    <3>1. Going(y) /\ h \in Serving
      BY <1>2, <2>3, <2>4, <2>5, <2>7
    <3> QED
      BY <2>7, <3>1, TaskLeaves, Zenon
  <2> QED
    BY <2>2, <2>6, <2>7
<1>4. CASE ResolveRequest(r)
  <2>1. Going(x)
    BY <1>1, <1>4 DEF ResolveRequest, Runs
  <2>2. \/ \E w : Becomes(r, Error(x, w))
        \/ \E h \in {"plugin", "serve_file", "decode_post_request"} : \E cbs, w :
                Becomes(r, Task(x, h, cbs, w))
    <3>1. \/ Becomes(r, Error(x, {x.sock})) \/ Becomes(r, Error(x, {}))
          \/ Becomes(r, Task(x, "plugin", <<>>, {x.sock}))
          \/ Becomes(r, Task(x, "serve_file", <<>>, {x.sock}))
          \/ Becomes(r, Task(x, "decode_post_request", <<"plugin">>, {}))
      BY <1>4 DEF ResolveRequest, ExecutePlugin
    <3> HIDE DEF x
    <3> QED
      BY <3>1, Zenon
  <2> HIDE DEF x
  <2>3. CASE \E w : Becomes(r, Error(x, w))
    BY <2>1, <2>3, ErrorLeaves, Zenon
  <2>4. ASSUME NEW h \in {"plugin", "serve_file", "decode_post_request"},
               NEW cbs, NEW w, Becomes(r, Task(x, h, cbs, w))
        PROVE  Left(r)
    <3>1. h \in Serving
      BY <1>2
    <3> QED
      BY <2>1, <2>4, <3>1, TaskLeaves, Zenon
  <2> QED
    BY <2>2, <2>3, <2>4, Zenon
<1>5. CASE ServeFile(r)
  <2>1. Going(x)
    BY <1>1, <1>5 DEF ServeFile, Runs
  <2>2. PICK what : Becomes(r, End(Say(x, what), {}))
    BY <1>5 DEF ServeFile
  <2> HIDE DEF x
  <2>3. Going(Say(x, what))
    BY <2>1, SayGoing, Zenon
  <2> QED
    BY <2>2, <2>3, EndLeaves, Zenon
<1>6. CASE DecodePostRequest(r)
  <2> DEFINE h == "decode_multi_part_request_data"
  <2>1. Going(x)
    BY <1>1, <1>6 DEF DecodePostRequest, Runs
  <2>2. \/ Becomes(r, End(x, {})) \/ Becomes(r, Error(x, {}))
        \/ Becomes(r, End(x, {x.sock}))
        \/ \E n : Becomes(r, Task([x EXCEPT !.parts = n], h, <<>>, {x.sock}))
    BY <1>6 DEF DecodePostRequest
  <2> HIDE DEF x
  <2>3. CASE Becomes(r, End(x, {})) \/ Becomes(r, End(x, {x.sock}))
    BY <2>1, <2>3, EndLeaves, Zenon
  <2>4. CASE Becomes(r, Error(x, {}))
    BY <2>1, <2>4, ErrorLeaves, Zenon
  <2>5. ASSUME NEW n, Becomes(r, Task([x EXCEPT !.parts = n], h, <<>>, {x.sock}))
        PROVE  Left(r)
    <3>1. PICK y : y = [x EXCEPT !.parts = n]
      OBVIOUS
    <3>2. Going(y) /\ h \in Serving
      BY <1>2, <2>1, <3>1 DEF Going, IsRequest
    <3>3. Becomes(r, Task(y, h, <<>>, {x.sock}))
      BY <2>5, <3>1, Zenon
    <3> QED
      BY <3>2, <3>3, TaskLeaves, Zenon
  <2> QED
    BY <2>2, <2>3, <2>4, <2>5, Zenon
<1>7. CASE DecodeMultiPartRequestData(r)
  <2> DEFINE h == "decode_multi_part_request_data"
             y == [x EXCEPT !.parts = @ - 1]
             z == [y EXCEPT !.parts = 0]
  <2>1. Going(x)
    BY <1>1, <1>7 DEF DecodeMultiPartRequestData, Runs
  <2>2. \/ Becomes(r, Task(y, h, <<>>, {y.sock}))
        \/ Becomes(r, End(z, {y.sock}))
    BY <1>7 DEF DecodeMultiPartRequestData
  <2> HIDE DEF x
  <2>3. Going(y) /\ h \in Serving
    BY <1>2, <2>1 DEF Going, IsRequest
  <2> HIDE DEF y
  <2>4. Going(z)
    BY <2>3 DEF Going, IsRequest
  <2> HIDE DEF z
  <2>5. CASE Becomes(r, Task(y, h, <<>>, {y.sock}))
    BY <2>3, <2>5, TaskLeaves, Zenon
  <2>6. CASE Becomes(r, End(z, {y.sock}))
    BY <2>4, <2>6, EndLeaves, Zenon
  <2> QED
    BY <2>2, <2>5, <2>6
<1>8. CASE Plugin(r)
  <2>1. Going(x)
    BY <1>1, <1>8 DEF Plugin, Runs
  <2>2. Becomes(r, End(Say(x, "plugin"), x.wait))
    BY <1>8 DEF Plugin
  <2> HIDE DEF x
  <2>3. Going(Say(x, "plugin"))
    BY <2>1, SayGoing, Zenon
  <2> QED
    BY <2>2, <2>3, EndLeaves, Zenon
<1>9. CASE Proxify(r)
  <2> DEFINE h == "proxy_monitor"
             z == [x EXCEPT !.hdr = NoHdr]
             linked == [z EXCEPT !.proxy = NewFd]
             unsent == [linked EXCEPT !.relay.closed = "unsent"]
  <2>1. Going(x)
    BY <1>1, <1>9 DEF Proxify, Runs
  <2>2. \/ Becomes(r, Error(z, {})) \/ Becomes(r, Error(unsent, {}))
        \/ Becomes(r, Task(linked, h, <<>>, {NewFd}))
    BY <1>9, Zenon DEF Proxify
  <2> HIDE DEF x
  <2>3. Going(z)
    BY <2>1 DEF Going, IsRequest
  <2> HIDE DEF z
  <2>4. Going(linked) /\ h \in Serving
    BY <1>2, <2>3 DEF Going, IsRequest
  <2> HIDE DEF linked
  <2>5. Going(unsent)
    BY <2>4 DEF Going, IsRequest
  <2> HIDE DEF unsent
  <2>6. CASE Becomes(r, Error(z, {})) \/ Becomes(r, Error(unsent, {}))
    BY <2>3, <2>5, <2>6, ErrorLeaves, Zenon
  <2>7. CASE Becomes(r, Task(linked, h, <<>>, {NewFd}))
    BY <2>4, <2>7, TaskLeaves, Zenon
  <2> QED
    BY <2>2, <2>6, <2>7
<1>10. ASSUME NEW c, x.at = "queued", x.handle = "proxy_monitor", Relays(r, c)
       PROVE  Left(r)
  <2>1. IsRequest(x)
    BY <1>1, <1>10 DEF Going
  <2>2. PICK y : y = [x EXCEPT !.relay = c] /\ Becomes(r, y)
    BY <1>10 DEF Relays
  <2> HIDE DEF x
  <2>3. y.handle \notin Routing
    BY <1>10, <2>1, <2>2 DEF IsRequest, Routing
  <2> QED
    BY <2>2, <2>3, Zenon DEF Left
<1>11. CASE Backend(r) \/ ProxyMonitor(r)
  <2>1. x.at = "queued" /\ x.handle = "proxy_monitor"
    BY <1>11 DEF Backend, ProxyMonitor, Runs
  <2>2. \E c : Relays(r, c)
    BY <1>11, Zenon DEF Backend, ProxyMonitor
  <2> QED
    BY <1>10, <2>1, <2>2
<1>12. CASE FinishRequest(r) \/ Kill(r)
  <2>1. PICK e : e = Ended(x)
    OBVIOUS
  <2>2. DOMAIN e = {"at", "handle", "next", "wait", "tls", "sock", "proxy", "hdr",
                    "body", "parts", "relay", "said"} /\ e.handle = ""
    BY <2>1 DEF Ended, Fresh
  <2>3. Becomes(r, e) \/ Becomes(r, [e EXCEPT !.at = "killed"])
    BY <1>12, <2>1, Zenon DEF FinishRequest, Kill
  <2>4. [e EXCEPT !.at = "killed"].handle = "" /\ "" \notin Routing
    BY <2>2 DEF Routing
  <2> QED
    BY <2>2, <2>3, <2>4, Zenon DEF Left
<1>13. CASE ProxyTurn(r)
  <2> DEFINE h == "proxy_monitor"
             b == x.relay
             Of(c) == [c EXCEPT !.loop = FALSE]
             Stopped(c, why) == [c EXCEPT !.closed = why, !.loop = FALSE]
  <2>1. Going(x) /\ h \in Serving /\ x.at = "queued" /\ x.handle = h
    BY <1>1, <1>2, <1>13 DEF ProxyTurn, Runs
  <2>2. \/ Relays(r, Relayed(b))
        \/ Becomes(r, Task([x EXCEPT !.relay = Of(b)], h, <<>>, {x.proxy, x.sock}))
        \/ \E c \in {b, Dropped(b), Relayed(b)} : \E why :
                Becomes(r, End([x EXCEPT !.relay = Stopped(c, why)], {}))
    BY <1>13, Zenon DEF ProxyTurn, StopsRelay, LastWait
  <2>3. DOMAIN Dropped(b) = DOMAIN b /\ DOMAIN Relayed(b) = DOMAIN b
    BY DEF Dropped, Relayed
  <2>4. CASE Relays(r, Relayed(b))
    BY <1>10, <2>1, <2>4
  <2> HIDE DEF x
  <2>5. ASSUME NEW e, DOMAIN e = DOMAIN b, NEW z, z = [x EXCEPT !.relay = e]
        PROVE  Going(z)
    BY <2>1, <2>5 DEF Going, IsRequest
  <2>6. CASE Becomes(r, Task([x EXCEPT !.relay = Of(b)], h, <<>>, {x.proxy, x.sock}))
    <3>1. PICK e : e = Of(b)
      OBVIOUS
    <3>2. PICK z : z = [x EXCEPT !.relay = e]
      OBVIOUS
    <3>3. Going(z)
      BY <2>5, <3>1, <3>2
    <3>4. Becomes(r, Task(z, h, <<>>, {x.proxy, x.sock}))
      BY <2>6, <3>1, <3>2, Zenon
    <3> QED
      BY <2>1, <3>3, <3>4, TaskLeaves, Zenon
  <2>7. ASSUME NEW c \in {b, Dropped(b), Relayed(b)}, NEW why,
               Becomes(r, End([x EXCEPT !.relay = Stopped(c, why)], {}))
        PROVE  Left(r)
    <3>1. PICK e : e = Stopped(c, why)
      OBVIOUS
    <3>2. PICK z : z = [x EXCEPT !.relay = e]
      OBVIOUS
    <3>3. DOMAIN e = DOMAIN c /\ DOMAIN c = DOMAIN b
      BY <2>3, <3>1
    <3>4. Going(z)
      BY <2>5, <3>2, <3>3
    <3>5. Becomes(r, End(z, {}))
      BY <2>7, <3>1, <3>2, Zenon
    <3> QED
      BY <3>4, <3>5, EndLeaves, Zenon
  <2> QED
    BY <2>2, <2>4, <2>6, <2>7
<1> QED
  BY <1>3, <1>4, <1>5, <1>6, <1>7, <1>8, <1>9, <1>11, <1>12, <1>13

\* accept_request, and the first line of the header.
LEMMA AcceptKeepsHeader ==
    ASSUME PipeInv, RouteInv, NEW r \in Requests, AcceptRequest(r)
    PROVE  \E y : Becomes(r, y) /\ HeaderSound(rules, y)
<1> DEFINE x == rq[r]
<1>1. x.at = "queued" /\ x.handle = "accept_request" /\ Going(x)
  BY QueuedGoes DEF AcceptRequest, Runs
<1>2. IsHdr(x.hdr) /\ x.hdr.got = {} /\ x.hdr.lost = {}
  BY <1>1 DEF RouteInv, HeaderSound
<1>3. \/ Becomes(r, Error(x, {x.sock}))
      \/ \E z : /\ z = x \/ z = [x EXCEPT !.tls = "done"]
                /\ Becomes(r, Task(z, "accept_request", <<>>, {x.sock}))
      \/ \E p : Becomes(r, Task([x EXCEPT !.hdr.asked = p],
                                "decode_request_header", <<>>, {x.sock}))
  BY DEF AcceptRequest
<1> HIDE DEF x
<1>4. CASE Becomes(r, Error(x, {x.sock}))
  <2>1. Left(r)
    BY <1>1, <1>4, ErrorLeaves, Zenon
  <2> QED
    BY <2>1 DEF Left, HeaderSound, Routing
<1>5. ASSUME NEW z, z = x \/ z = [x EXCEPT !.tls = "done"],
             Becomes(r, Task(z, "accept_request", <<>>, {x.sock}))
      PROVE  \E y : Becomes(r, y) /\ HeaderSound(rules, y)
  <2>1. IsRequest(z) /\ z.hdr = x.hdr
    BY <1>1, <1>5 DEF Going, IsRequest
  <2>2. PICK y : y = Task(z, "accept_request", <<>>, {x.sock})
    OBVIOUS
  <2>3. y.handle = "accept_request" /\ y.hdr = x.hdr
    BY <2>1, <2>2, TaskGives DEF Routing
  <2>4. HeaderSound(rules, y)
    BY <1>2, <2>3 DEF HeaderSound
  <2> QED
    BY <1>5, <2>2, <2>4, Zenon
<1>6. ASSUME NEW p, Becomes(r, Task([x EXCEPT !.hdr.asked = p],
                                    "decode_request_header", <<>>, {x.sock}))
      PROVE  \E y : Becomes(r, y) /\ HeaderSound(rules, y)
  <2>1. PICK z : z = [x EXCEPT !.hdr.asked = p]
    OBVIOUS
  <2>2. IsRequest(z) /\ IsHdr(z.hdr) /\ z.hdr.got = {} /\ z.hdr.lost = {}
    BY <1>1, <1>2, <2>1 DEF Going, IsRequest, IsHdr
  <2>3. PICK y : y = Task(z, "decode_request_header", <<>>, {x.sock})
    OBVIOUS
  <2>4. y.handle = "decode_request_header" /\ y.hdr = z.hdr
    BY <2>2, <2>3, TaskGives DEF Routing
  <2>5. HeaderSound(rules, y)
    BY <2>2, <2>4 DEF HeaderSound
  <2>6. Becomes(r, y)
    BY <1>6, <2>1, <2>3, Zenon
  <2> QED
    BY <2>5, <2>6
<1> QED
  BY <1>3, <1>4, <1>5, <1>6

\* decode_request_header: the host and the cookies of its last call, and the
\* route that the rules make of them.
LEMMA DecodeKeepsHeader ==
    ASSUME PipeInv, RouteInv, NEW r \in Requests, DecodeRequestHeader(r)
    PROVE  \E y : Becomes(r, y) /\ HeaderSound(rules, y)
<1> DEFINE x == rq[r]
<1>1. x.at = "queued" /\ x.handle = "decode_request_header" /\ Going(x)
  BY QueuedGoes DEF DecodeRequestHeader, Runs
<1>2. IsHdr(x.hdr) /\ x.hdr.got = x.hdr.lost /\ rules \in Seq(Rule)
  BY <1>1 DEF RouteInv, HeaderSound
<1>3. PICK got \in SUBSET (Fields \ x.hdr.got) :
        LET stored == [x EXCEPT !.hdr.got = @ \cup got]
            to == ApplyRules(rules, KnownHost(got), x.hdr.asked)
            decoded == [stored EXCEPT !.hdr.path = to.path, !.hdr.query = to.query,
                                      !.hdr.cookie = "Cookie" \in got]
        IN  \/ Becomes(r, Error([x EXCEPT !.hdr = NoHdr], {}))
            \/ Becomes(r, Task([stored EXCEPT !.hdr.lost = @ \cup got],
                               "decode_request_header", <<>>, {x.sock}))
            \/ Becomes(r, Task(decoded, "proxify", <<>>, {x.sock}))
            \/ Becomes(r, Task(decoded, "decode_request", <<>>, {x.sock}))
  BY DEF DecodeRequestHeader
<1> HIDE DEF x
<1>4. PICK to : to = ApplyRules(rules, KnownHost(got), x.hdr.asked)
  OBVIOUS
<1>5. PICK cookie : cookie = ("Cookie" \in got)
  OBVIOUS
<1>6. PICK path, query : path = to.path /\ query = to.query
  OBVIOUS
<1>7. PICK stored : stored = [x EXCEPT !.hdr.got = @ \cup got]
  OBVIOUS
<1>8. PICK cut : cut = [stored EXCEPT !.hdr.lost = @ \cup got]
  OBVIOUS
<1>9. PICK decoded : decoded = [stored EXCEPT !.hdr.path = path, !.hdr.query = query,
                                              !.hdr.cookie = cookie]
  OBVIOUS
<1>10. PICK without : without = [x EXCEPT !.hdr = NoHdr]
  OBVIOUS
<1>11. \/ Becomes(r, Error(without, {}))
       \/ Becomes(r, Task(cut, "decode_request_header", <<>>, {x.sock}))
       \/ Becomes(r, Task(decoded, "proxify", <<>>, {x.sock}))
       \/ Becomes(r, Task(decoded, "decode_request", <<>>, {x.sock}))
  BY <1>3, <1>4, <1>5, <1>6, <1>7, <1>8, <1>9, <1>10, Zenon
<1>12. /\ IsRequest(stored) /\ IsHdr(stored.hdr)
       /\ stored.hdr.got = x.hdr.got \cup got
       /\ stored.hdr.lost = x.hdr.lost /\ stored.hdr.asked = x.hdr.asked
  BY <1>1, <1>2, <1>7 DEF Going, IsRequest, IsHdr
<1>13. /\ IsRequest(cut) /\ IsHdr(cut.hdr)
       /\ cut.hdr.got = x.hdr.got \cup got /\ cut.hdr.lost = x.hdr.lost \cup got
  BY <1>8, <1>12 DEF IsRequest, IsHdr
<1>14. /\ IsRequest(decoded)
       /\ decoded.hdr.got = x.hdr.lost \cup got /\ decoded.hdr.lost = x.hdr.lost
       /\ decoded.hdr.asked = x.hdr.asked
       /\ decoded.hdr.path = path /\ decoded.hdr.query = query
       /\ decoded.hdr.cookie = cookie
  BY <1>2, <1>9, <1>12 DEF IsRequest, IsHdr
<1>15. CASE Becomes(r, Error(without, {}))
  <2>1. Going(without)
    BY <1>1, <1>10 DEF Going, IsRequest
  <2>2. Left(r)
    BY <1>15, <2>1, ErrorLeaves, Zenon
  <2> QED
    BY <2>2 DEF Left, HeaderSound, Routing
<1>16. CASE Becomes(r, Task(cut, "decode_request_header", <<>>, {x.sock}))
  <2>1. PICK y : y = Task(cut, "decode_request_header", <<>>, {x.sock})
    OBVIOUS
  <2>2. y.handle = "decode_request_header" /\ y.hdr = cut.hdr
    BY <1>13, <2>1, TaskGives DEF Routing
  <2>3. HeaderSound(rules, y)
    BY <1>2, <1>13, <2>2 DEF HeaderSound
  <2> QED
    BY <1>16, <2>1, <2>3, Zenon
<1>17. AsSent(rules, decoded.hdr)
  <2> DEFINE d == decoded.hdr
             h == IF "Host" \in d.got THEN Host ELSE NoHost
  <2>1. ASSUME "Host" \notin d.lost, ~BreakMissed(rules, h, d.asked)
        PROVE  d.path = Configured(rules, h, d.asked).path
               /\ d.query = Configured(rules, h, d.asked).query
    <3>1. h = KnownHost(got)
      BY <1>14, <2>1 DEF KnownHost
    <3>2. to = ApplyRules(rules, h, d.asked)
      BY <1>4, <1>14, <3>1, Zenon
    <3>3. PICK k, p : k = h /\ p = d.asked
      OBVIOUS
    <3>4. rules \in Seq(Rule) /\ ~BreakMissed(rules, k, p) /\ to = ApplyRules(rules, k, p)
      BY <1>2, <2>1, <3>2, <3>3, Zenon
    <3>5. /\ to.path = Configured(rules, k, p).path
          /\ to.query = Configured(rules, k, p).query
      BY <3>4, RulesAgree
    <3> QED
      BY <1>6, <1>14, <3>3, <3>5, Zenon
  <2>2. "Cookie" \in d.got => d.cookie \/ "Cookie" \in d.lost
    <3>1. "Cookie" \in got => d.cookie
      BY <1>5, <1>14, Zenon
    <3>2. "Cookie" \in d.got => "Cookie" \in got \/ "Cookie" \in d.lost
      BY <1>14
    <3> QED
      BY <3>1, <3>2, Zenon
  <2> QED
    BY <2>1, <2>2, Zenon DEF AsSent
<1>18. ASSUME NEW h \in {"decode_request", "proxify"},
              Becomes(r, Task(decoded, h, <<>>, {x.sock}))
       PROVE  \E y : Becomes(r, y) /\ HeaderSound(rules, y)
  <2>1. PICK y : y = Task(decoded, h, <<>>, {x.sock})
    OBVIOUS
  <2>2. y.handle = h /\ y.hdr = decoded.hdr
    BY <1>14, <2>1, TaskGives DEF Routing
  <2>3. HeaderSound(rules, y)
    BY <1>17, <2>2 DEF HeaderSound
  <2> QED
    BY <1>18, <2>1, <2>3, Zenon
<1> QED
  BY <1>11, <1>15, <1>16, <1>18

\* antd_monitor: nothing of the header has been read.
LEMMA MonitorKeepsHeader ==
    ASSUME NEW r \in Requests, Monitor(r)
    PROVE  \E y : Becomes(r, y) /\ HeaderSound(rules, y)
<1>1. PICK y : /\ Becomes(r, y)
               /\ \E tls : y = [Fresh EXCEPT !.at = "queued", !.sock = NewFd, !.tls = tls,
                                     !.handle = "accept_request", !.wait = {NewFd},
                                     !.next = <<"finish_request">>]
  BY DEF Monitor
<1>2. y.handle = "accept_request" /\ y.hdr = NoHdr
  BY <1>1 DEF Fresh
<1>3. IsHdr(NoHdr) /\ NoHdr.got = {} /\ NoHdr.lost = {}
  BY DEF NoHdr, IsHdr
<1>4. HeaderSound(rules, y)
  BY <1>2, <1>3 DEF HeaderSound
<1> QED
  BY <1>1, <1>4

\* ... and none has one at first.
LEMMA RouteInit == Init => RouteInv
<1> SUFFICES ASSUME Init PROVE RouteInv
  OBVIOUS
<1>1. rules \in Seq(Rule)
  BY PipelineAssumption DEF Init
<1>2. \A r \in Requests : rq[r].handle = ""
  BY DEF Init, Fresh
<1> QED
  BY <1>1, <1>2 DEF RouteInv, HeaderSound

\* A step keeps the header of its request, if it still has one, as it should be.
LEMMA RouteStep ==
    ASSUME PipeInv, RouteInv, NEW r \in Requests,
           Monitor(r) \/ Handler(r) \/ Backend(r) \/ Kill(r)
    PROVE  \E y : Becomes(r, y) /\ HeaderSound(rules, y)
<1>1. ASSUME Left(r)
      PROVE  \E y : Becomes(r, y) /\ HeaderSound(rules, y)
  BY <1>1 DEF Left, HeaderSound, Routing
<1>2. CASE Monitor(r)
  BY <1>2, MonitorKeepsHeader
<1>3. CASE AcceptRequest(r)
  BY <1>3, AcceptKeepsHeader
<1>4. CASE DecodeRequestHeader(r)
  BY <1>4, DecodeKeepsHeader
<1>5. CASE \/ DecodeRequest(r)     \/ ResolveRequest(r)  \/ ServeFile(r)
           \/ DecodePostRequest(r) \/ DecodeMultiPartRequestData(r)
           \/ Plugin(r)            \/ Proxify(r)         \/ Backend(r)
           \/ ProxyMonitor(r)      \/ ProxyTurn(r)       \/ FinishRequest(r)
           \/ Kill(r)
  <2>1. Left(r)
    BY <1>5, RequestsLeave
  <2> QED
    BY <1>1, <2>1
<1> QED
  BY <1>2, <1>3, <1>4, <1>5 DEF Handler

\* ... and so do all the others.
LEMMA RouteNext ==
    ASSUME PipeInv, RouteInv, Next
    PROVE  RouteInv'
<1>1. PICK r \in Requests : Monitor(r) \/ Handler(r) \/ Backend(r) \/ Kill(r)
  BY DEF Next
<1>2. rules' = rules
  BY <1>1 DEF Monitor, Handler, Backend, Kill, AcceptRequest, DecodeRequestHeader,
              DecodeRequest, ResolveRequest, ServeFile, DecodePostRequest,
              DecodeMultiPartRequestData, Plugin, Proxify, ProxyMonitor, ProxyTurn, StopsRelay,
              FinishRequest
<1>3. PICK y : Becomes(r, y) /\ HeaderSound(rules, y)
  BY <1>1, RouteStep
<1>4. rq'[r] = y /\ \A s \in Requests : s # r => rq'[s] = rq[s]
  BY <1>3, OneRequestMoves
<1>5. ASSUME NEW s \in Requests
       PROVE  HeaderSound(rules', rq'[s])
  <2>1. CASE s = r
    BY <1>2, <1>3, <1>4, <2>1
  <2>2. CASE s # r
    BY <1>2, <1>4, <2>2 DEF RouteInv
  <2> QED
    BY <2>1, <2>2
<1>6. (rules \in Seq(Rule))'
  BY <1>2 DEF RouteInv
<1> QED
  BY <1>5, <1>6 DEF RouteInv

\* A request is routed by the rules of the configuration, with the host it sent
\* and its cookies, in whatever pieces its header is read and whatever the rules
\* are, but for the lines of a call that ended without data
\* (decode_request_header) and for a <break> that does not match (apply_rules).
THEOREM RoutedAsConfigured == Spec => []RequestAsSent
<1>1. RouteInv /\ PipeInv /\ [Next]_vars => RouteInv'
  <2>1. ASSUME RouteInv, UNCHANGED vars
        PROVE  RouteInv'
    <3>1. rules' = rules /\ rq' = rq
      BY <2>1 DEF vars
    <3> QED
      BY <2>1, <3>1 DEF RouteInv
  <2> QED
    BY <2>1, RouteNext
<1>2. ASSUME RouteInv PROVE RequestAsSent
  <2>1. \A r \in Requests : rq[r].handle \in {"decode_request", "proxify"} =>
            AsSent(rules, rq[r].hdr)
    BY <1>2 DEF RouteInv, HeaderSound
  <2> QED
    BY <2>1, Zenon DEF RequestAsSent, AsSent
<1> QED
  BY RouteInit, RequestsAreSound, <1>1, <1>2, PTL DEF Spec

=============================================================================
