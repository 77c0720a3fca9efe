------------------------------- MODULE Pipeline -------------------------------
(***************************************************************************)
(* A request on its way through the handlers of server.c and decode.c:     *)
(* accept_request, decode_request_header, decode_request, resolve_request, *)
(* serve_file or a plugin with its decoders, or the reverse proxy, and     *)
(* finish_request; or the scheduler kills it while its task waits.         *)
(*                                                                         *)
(* A handler runs without interruption by another handler of its request,  *)
(* and requests meet in the descriptor table only, so that one call of a   *)
(* handler is one step; but one turn of proxy_monitor's loop is, for its   *)
(* backend may do something between two turns.  What the handler finds (on *)
(* the socket, on disk) is chosen by the step.                             *)
(***************************************************************************)
EXTENDS Integers, Sequences, FiniteSets

CONSTANTS
    Requests,       \* connections, each used once
    NFd,            \* bound: descriptor numbers, used again once closed
    Host,           \* the Host header of a request that has one
    Paths,          \* request paths and what the rules make of them
    Asked,          \* the paths that are asked for
    Proxied,        \* a path -> "http", "https" (it is a URL) or "no"
    RuleLists,      \* the rules of the port to look at: pcnf->rules
    MaxChunks,      \* bound: chunks (what one read takes) a backend sends
    MaxParts        \* bound: parts of a multi-part body

NoHost == "no host"
Same == "same"
Fd == 1 .. NFd
Free == <<"free", "free">>
NoFd == 0

\* A rule: the hosts and paths its key matches; the path it makes (Same: its
\* value has no <...>); does it write <query>, does it end with <break>.
Rule == [on : SUBSET (Paths \cup {Host}), to : Paths \cup {Same},
         query : BOOLEAN, brk : BOOLEAN]

ASSUME PipelineAssumption ==
    /\ {NFd, MaxChunks, MaxParts} \subseteq Nat
    /\ Host \notin Paths /\ NoHost \notin Paths \cup {Host} /\ Same \notin Paths
    /\ Asked \subseteq Paths
    /\ Proxied \in [Paths -> {"http", "https", "no"}]
    /\ \A rs \in RuleLists : rs \in Seq(Rule)

VARIABLES
    rules,          \* the one of RuleLists
    rq,             \* request -> its task and its data
    desc            \* the descriptor table, and who closed a stranger's number

vars == <<rules, rq, desc>>

\* The header being decoded: the fields stored, those whose local copy (host,
\* cookie) was lost by a call that ended without data, the result of the rules.
Fields == {"Host", "Cookie"}
NoHdr == [got |-> {}, lost |-> {}, cookie |-> FALSE, asked |-> "", path |-> "",
          query |-> FALSE]

\* What a backend has sent, what was read of it and sent on to the client, how
\* the backend ended, why the proxy's socket was closed, and whether the monitor
\* is in its loop.
NoRelay == [sent |-> 0, read |-> 0, moved |-> 0, state |-> "open", closed |-> "",
            loop |-> FALSE]

Fresh == [at |-> "new", handle |-> "", next |-> <<>>, wait |-> {}, tls |-> "no",
          sock |-> NoFd, proxy |-> NoFd, hdr |-> NoHdr, body |-> FALSE, parts |-> 0,
          relay |-> NoRelay, said |-> <<>>]

Init ==
    /\ rules \in RuleLists
    /\ rq = [r \in Requests |-> Fresh]
    /\ desc = [owner |-> [n \in Fd |-> Free], stray |-> "none"]

-----------------------------------------------------------------------------
(***************************************************************************)
(* Descriptors, tasks and answers.                                         *)
(***************************************************************************)
FreeFds == {n \in Fd : desc.owner[n] = Free}

\* The kernel gives the lowest number that is free.
NewFd == CHOOSE n \in FreeFds : \A m \in FreeFds : n <= m

\* close(n) by a handler or a kill of the request.
Close(d, n, who, by) ==
    [owner |-> [d.owner EXCEPT ![n] = Free],
     stray |-> IF d.stray = "none" /\ d.owner[n] \notin {who, Free} THEN by
               ELSE d.stray]

\* A handler returned a task with handle h and callbacks cbs, bound to events
\* on w; without a handle its next callback takes it (antd_execute_task).
Task(x, h, cbs, w) ==
    LET chain == cbs \o x.next IN
    IF h = "" THEN [x EXCEPT !.handle = Head(chain), !.next = Tail(chain), !.wait = w]
    ELSE [x EXCEPT !.handle = h, !.next = chain, !.wait = w]

End(x, w) == Task(x, "", <<>>, w)

\* An answer begins: a status line is sent.
Say(x, what) == [x EXCEPT !.said = Append(@, what)]

\* Mutant: the task keeps the handler.
ErrorAgain(x, w) == Task(Say(x, "error"), x.handle, <<>>, w)
\* antd_error, and the task has no handle.
Error(x, w) == End(Say(x, "error"), w)

Becomes(r, x) == rq' = [rq EXCEPT ![r] = x]

Runs(r, h) == rq[r].at = "queued" /\ rq[r].handle = h

-----------------------------------------------------------------------------
(***************************************************************************)
(* From the connection to the header.                                      *)
(***************************************************************************)

\* antd_monitor: the first task.
Monitor(r) ==
    /\ rq[r].at = "new" /\ FreeFds # {}
    /\ desc' = [desc EXCEPT !.owner[NewFd] = <<r, "client">>]
    /\ \E tls \in {"no", "accept"} :
        Becomes(r, [Fresh EXCEPT !.at = "queued", !.sock = NewFd, !.tls = tls,
                                 !.handle = "accept_request", !.wait = {NewFd},
                                 !.next = <<"finish_request">>])
    /\ UNCHANGED rules

\* accept_request: an error of poll or on the socket ends the request; a
\* socket that is not ready, the TLS handshake and its end come back here.
AcceptRequest(r) ==
    LET x == rq[r] IN
    /\ Runs(r, "accept_request")
    /\ \/ Becomes(r, Error(x, {x.sock}))
       \/ Becomes(r, Task(x, "accept_request", <<>>, {x.sock}))
       \/ /\ x.tls = "accept"
          /\ Becomes(r, Task([x EXCEPT !.tls = "done"], "accept_request", <<>>, {x.sock}))
       \/ /\ x.tls # "accept"
          /\ \E p \in Asked :
                Becomes(r, Task([x EXCEPT !.hdr.asked = p],
                                "decode_request_header", <<>>, {x.sock}))
    /\ UNCHANGED <<rules, desc>>

RuleMatches(u, h, p) == h \in u.on \/ p \in u.on

\* rule_check on a rule that matches: without <query> the query is gone.
Rewrite(u, a) == [a EXCEPT !.path = IF u.to = Same THEN @ ELSE u.to,
                           !.query = @ /\ u.to # Same /\ u.query]

\* One round of apply_rules; should_break stays set.
ApplyRule(a, u, h) ==
    LET brk == a.brk \/ u.brk IN
    IF a.stop THEN a
    ELSE IF RuleMatches(u, h, a.path)
    THEN [Rewrite(u, a) EXCEPT !.brk = brk, !.stop = brk]
    ELSE [a EXCEPT !.brk = brk]

\* apply_rules: the request before the rules and after each of them.
Asking(p) == [path |-> p, query |-> TRUE, brk |-> FALSE, stop |-> FALSE]
AfterRules(rs, h, p) ==
    LET a[i \in 0 .. Len(rs)] ==
            IF i = 0 THEN Asking(p) ELSE ApplyRule(a[i - 1], rs[i], h)
    IN  a
ApplyRules(rs, h, p) == AfterRules(rs, h, p)[Len(rs)]

\* Mutant: the host is forgotten although the header was read at once.
KnownHostNever(got) == NoHost
\* The host decode_request_header knows: of the lines of its last call.
KnownHost(got) == IF "Host" \in got THEN Host ELSE NoHost

\* decode_request_header: one call reads some lines, and ends at the blank
\* line, without data, or over HEADER_MAX_SIZE.  Then it checks Content-Length,
\* applies the rules and looks for a proxy (check_proxy).
DecodeRequestHeader(r) ==
    LET x == rq[r] IN
    /\ Runs(r, "decode_request_header")
    /\ \E got \in SUBSET (Fields \ x.hdr.got) :
        LET stored == [x EXCEPT !.hdr.got = @ \cup got]
            to == ApplyRules(rules, KnownHost(got), x.hdr.asked)
            decoded == [stored EXCEPT !.hdr.path = to.path, !.hdr.query = to.query,
                                      !.hdr.cookie = "Cookie" \in got]
        IN  \/ Becomes(r, Error([x EXCEPT !.hdr = NoHdr], {}))
            \/ Becomes(r, Task([stored EXCEPT !.hdr.lost = @ \cup got],
                               "decode_request_header", <<>>, {x.sock}))
            \/ /\ Proxied[to.path] = "https"
               /\ Becomes(r, Error([x EXCEPT !.hdr = NoHdr], {}))
            \/ /\ Proxied[to.path] = "http"
               /\ Becomes(r, Task(decoded, "proxify", <<>>, {x.sock}))
            \/ /\ Proxied[to.path] = "no"
               /\ Becomes(r, Task(decoded, "decode_request", <<>>, {x.sock}))
    /\ UNCHANGED <<rules, desc>>

\* decode_request, with ws_confirm_request: by the method, which is not
\* implemented, or has a body, or may ask for an upgrade.
DecodeRequest(r) ==
    LET x == [rq[r] EXCEPT !.hdr = NoHdr]
        resolve(y) == Becomes(r, Task(y, "resolve_request", <<>>, {})) IN
    /\ Runs(r, "decode_request")
    /\ \/ Becomes(r, Error(x, {}))
       \/ resolve([x EXCEPT !.body = TRUE])
       \/ resolve(Say(x, "upgrade"))
       \/ resolve(x)
    /\ UNCHANGED <<rules, desc>>

-----------------------------------------------------------------------------
(***************************************************************************)
(* Files and plugins.                                                      *)
(***************************************************************************)

\* execute_plugin: the plugin is not enabled or not available, takes the raw
\* body, or has it decoded first.
ExecutePlugin(r) ==
    LET x == rq[r] IN
    \/ Becomes(r, Error(x, {x.sock}))
    \/ Becomes(r, Task(x, "plugin", <<>>, {x.sock}))
    \/ Becomes(r, Task(x, "decode_post_request", <<"plugin">>, {}))

\* resolve_request: no such file, or one with a handler: a plugin; else the
\* file is served once the body is discarded, or refused.
ResolveRequest(r) ==
    LET x == rq[r] IN
    /\ Runs(r, "resolve_request")
    /\ \/ ExecutePlugin(r)
       \/ Becomes(r, Error(x, {}))
       \/ Becomes(r, Task(x, "serve_file", <<>>, {x.sock}))
    /\ UNCHANGED <<rules, desc>>

\* serve_file: the file, that it is not modified, or that it is gone.
ServeFile(r) ==
    /\ Runs(r, "serve_file")
    /\ \E what \in {"file", "error"} : Becomes(r, End(Say(rq[r], what), {}))
    /\ UNCHANGED <<rules, desc>>

\* decode_post_request, with decode_multi_part_request up to the first
\* boundary: after an error the task ends like any other, with the plugin next.
DecodePostRequest(r) ==
    LET x == rq[r] IN
    /\ Runs(r, "decode_post_request")
    /\ \/ ~x.body /\ Becomes(r, End(x, {}))
       \/ x.body /\ Becomes(r, Error(x, {}))
       \/ x.body /\ Becomes(r, End(x, {x.sock}))
       \/ /\ x.body
          /\ \E n \in 1 .. MaxParts :
                Becomes(r, Task([x EXCEPT !.parts = n],
                                "decode_multi_part_request_data", <<>>, {x.sock}))
    /\ UNCHANGED <<rules, desc>>

\* decode_multi_part_request_data: one part.  If nothing is read, it has no
\* name or its file cannot be opened, the rest of the body is left alone.
DecodeMultiPartRequestData(r) ==
    LET x == [rq[r] EXCEPT !.parts = @ - 1] IN
    /\ Runs(r, "decode_multi_part_request_data")
    /\ \/ /\ x.parts > 0
          /\ Becomes(r, Task(x, "decode_multi_part_request_data", <<>>, {x.sock}))
       \/ Becomes(r, End([x EXCEPT !.parts = 0], {x.sock}))
    /\ UNCHANGED <<rules, desc>>

\* The plugin's handler, which answers: it is not part of this program.
Plugin(r) ==
    /\ Runs(r, "plugin")
    /\ Becomes(r, End(Say(rq[r], "plugin"), rq[r].wait))
    /\ UNCHANGED <<rules, desc>>

-----------------------------------------------------------------------------
(***************************************************************************)
(* The reverse proxy and its backend.                                      *)
(***************************************************************************)

\* proxify: the name or the backend is not found (or there is no descriptor),
\* the request cannot be sent, or the backend is monitored.
Proxify(r) ==
    LET x == [rq[r] EXCEPT !.hdr = NoHdr]
        linked == [x EXCEPT !.proxy = NewFd] IN
    /\ Runs(r, "proxify")
    /\ \/ Becomes(r, Error(x, {})) /\ UNCHANGED desc
       \/ /\ FreeFds # {}
          /\ Becomes(r, Error([linked EXCEPT !.relay.closed = "unsent"], {}))
          /\ UNCHANGED desc     \* opened and closed
       \/ /\ FreeFds # {}
          /\ Becomes(r, Task(linked, "proxy_monitor", <<>>, {NewFd}))
          /\ desc' = [desc EXCEPT !.owner[NewFd] = <<r, "proxy">>]
    /\ UNCHANGED rules

Relays(r, b) == Becomes(r, [rq[r] EXCEPT !.relay = b])

\* The backend sends, sends no more, or is gone (POLLHUP, POLLERR).
Backend(r) ==
    LET b == rq[r].relay IN
    /\ Runs(r, "proxy_monitor") /\ b.state # "hup"
    /\ \/ /\ b.state = "open" /\ b.sent < MaxChunks
          /\ Relays(r, [b EXCEPT !.sent = @ + 1])
       \/ b.state = "open" /\ Relays(r, [b EXCEPT !.state = "fin"])
       \/ Relays(r, [b EXCEPT !.state = "hup"])
    /\ UNCHANGED <<rules, desc>>

\* Mutant: the events are bound although the socket was closed.
LastWaitAll(x) == {x.proxy, x.sock}
\* The events of the task that proxy_monitor returns after a close.
LastWait(x) == {}

\* Mutant: an error leaves the socket to whoever destroys the request.
MonitorCloseNot(x, r) == desc
\* proxy_monitor: close(proxy->sock); PROXY_HANDLE keeps the number.
MonitorClose(x, r) == Close(desc, x.proxy, <<r, "proxy">>, "handler")

\* Mutant: a read of no bytes is taken for no data.
ReadsEndReset(b) == b.state = "hup" /\ b.read = b.sent
\* POLLIN, and the read finds that there is nothing left.
ReadsEnd(b) == b.state # "open" /\ b.read = b.sent

\* Mutant: POLLRDHUP is asked for, so that it is reported with the data.
HungUpAtEnd(b) == b.state # "open"
\* POLLHUP or POLLERR; POLLRDHUP is tested but not asked for.
HungUp(b) == b.state = "hup"

\* One turn moves a chunk, if there is one.
Relayed(b) ==
    IF b.read < b.sent THEN [b EXCEPT !.read = @ + 1, !.moved = @ + 1] ELSE b
\* ... which the client does not take.
Dropped(b) == IF b.read < b.sent THEN [b EXCEPT !.read = @ + 1] ELSE b

\* proxy_monitor is called.
ProxyMonitor(r) ==
    /\ Runs(r, "proxy_monitor") /\ ~rq[r].relay.loop
    /\ Relays(r, [rq[r].relay EXCEPT !.loop = TRUE])
    /\ UNCHANGED <<rules, desc>>

\* The loop ends with ret = 0, or poll fails.
StopsRelay(x, r, b, why) ==
    /\ Becomes(r, End([x EXCEPT !.relay = [b EXCEPT !.closed = why, !.loop = FALSE]],
                      LastWait(x)))
    /\ desc' = MonitorClose(x, r)

\* One turn of its loop.  The client has ended, its bytes cannot be passed on,
\* or poll fails, all before the backend is read; a read that ends; a chunk that
\* cannot be sent; a backend that is gone, which is looked at after the read.
\* The loop goes on as long as a turn moves something, and then the task waits.
ProxyTurn(r) ==
    LET x == rq[r]  b == rq[r].relay IN
    /\ Runs(r, "proxy_monitor") /\ b.loop
    /\ \/ \E c \in {b, Dropped(b)} : StopsRelay(x, r, c, "error")
       \/ ReadsEnd(b) /\ StopsRelay(x, r, b, "end")
       \/ ~ReadsEnd(b) /\ HungUp(b) /\ StopsRelay(x, r, Relayed(b), "hup")
       \/ /\ ~ReadsEnd(b) /\ ~HungUp(b) /\ UNCHANGED desc
          /\ \/ Relays(r, Relayed(b))
             \/ /\ Relayed(b) = b
                /\ Becomes(r, Task([x EXCEPT !.relay = [b EXCEPT !.loop = FALSE]],
                                   "proxy_monitor", <<>>, {x.proxy, x.sock}))
    /\ UNCHANGED rules

-----------------------------------------------------------------------------
(***************************************************************************)
(* The end of a request.                                                   *)
(***************************************************************************)
Ended(x) == [Fresh EXCEPT !.at = "ended", !.said = x.said,
                          !.relay.closed = x.relay.closed]

\* Mutant: what PROXY_HANDLE names is closed here as well.
FinishCloseBoth(x, r) ==
    Close(IF x.proxy = NoFd THEN desc
          ELSE Close(desc, x.proxy, <<r, "proxy">>, "handler"),
          x.sock, <<r, "client">>, "handler")
\* antd_close of the client.
FinishClose(x, r) == Close(desc, x.sock, <<r, "client">>, "handler")

\* finish_request, with destroy_request.
FinishRequest(r) ==
    /\ Runs(r, "finish_request")
    /\ desc' = FinishClose(rq[r], r)
    /\ Becomes(r, Ended(rq[r]))
    /\ UNCHANGED rules

\* The task is too old: antd_scheduler_destroy_data closes what PROXY_HANDLE
\* names, then finish_request.  The task waits: no handler runs.
Kill(r) ==
    LET x == rq[r]
        d == IF x.proxy = NoFd THEN desc
             ELSE Close(desc, x.proxy, <<r, "proxy">>, "kill") IN
    /\ x.at = "queued" /\ ~x.relay.loop
    /\ desc' = Close(d, x.sock, <<r, "client">>, "kill")
    /\ Becomes(r, [Ended(x) EXCEPT !.at = "killed"])
    /\ UNCHANGED rules

Handler(r) ==
    \/ AcceptRequest(r)     \/ DecodeRequestHeader(r) \/ DecodeRequest(r)
    \/ ResolveRequest(r)    \/ ServeFile(r)           \/ DecodePostRequest(r)
    \/ DecodeMultiPartRequestData(r)                  \/ Plugin(r)
    \/ Proxify(r)           \/ ProxyMonitor(r)        \/ ProxyTurn(r)
    \/ FinishRequest(r)

Next == \E r \in Requests : Monitor(r) \/ Handler(r) \/ Backend(r) \/ Kill(r)

\* A queued task is executed or killed: what Scheduler promises.
Fairness == \A r \in Requests : WF_vars(Handler(r) \/ Kill(r))

Spec == Init /\ [][Next]_vars /\ Fairness

-----------------------------------------------------------------------------
(***************************************************************************)
(* Properties.                                                             *)
(***************************************************************************)
\* A request gets one answer, whatever handlers and callbacks it goes through:
\* an error ends the chain, and nothing ends it without an answer.  A proxied
\* one gets what the backend sends instead.  Two answers begin after an upgrade
\* that no plugin takes up (decode_request, resolve_request), and when the body
\* is refused although the plugin comes next (decode_post_request).
AnsweredOnce ==
    \A r \in Requests :
        LET x == rq[r]  one == {"file", "error", "plugin"} IN
        /\ x.said \in {<<>>, <<"upgrade">>, <<"error", "plugin">>}
                     \cup {<<a>> : a \in one} \cup {<<"upgrade", a>> : a \in one}
        /\ x.at = "ended" =>
            IF x.relay.closed \in {"end", "hup", "error"} THEN x.said = <<>>
            ELSE x.said \notin {<<>>, <<"upgrade">>}

\* A descriptor is open exactly as long as a request that waits or runs owns
\* it, and the backend's no longer than it is monitored, on every path through
\* the handlers and wherever a kill comes between (proxify, proxy_monitor,
\* finish_request, antd_scheduler_destroy_data).
DescriptorsReturned ==
    \A n \in Fd : desc.owner[n] # Free =>
        LET x == rq[desc.owner[n][1]] IN
        /\ x.at = "queued"
        /\ desc.owner[n][2] = "proxy" => x.handle = "proxy_monitor"

\* The number of another's descriptor is closed only by a kill that comes
\* between the close of the backend's socket by a handler, which leaves it in
\* PROXY_HANDLE, and finish_request (proxy_monitor, proxify,
\* antd_scheduler_destroy_data).
StraysOnlyByLateKill ==
    [][desc'.stray # desc.stray =>
        \E r \in Requests : /\ rq[r].at = "queued" /\ rq'[r].at = "killed"
                           /\ rq[r].relay.closed # ""]_vars

\* Until then no task waits for events of a descriptor that its request does
\* not own, whose number may be another's by now (antd_task_bind_event).
WaitsOnOwn ==
    desc.stray = "none" =>
        \A r \in Requests : rq[r].at = "queued" =>
            \A n \in rq[r].wait : desc.owner[n][1] = r

\* The rules as the configuration describes them: in order, <break> "prevents
\* apply the rules below the current one when matched".
Sent(p) == [path |-> p, query |-> TRUE, stop |-> FALSE]
Obey(c, u, h) ==
    IF c.stop \/ ~RuleMatches(u, h, c.path) THEN c
    ELSE [Rewrite(u, c) EXCEPT !.stop = u.brk]
AsConfigured(rs, h, p) ==
    LET c[i \in 0 .. Len(rs)] ==
            IF i = 0 THEN Sent(p) ELSE Obey(c[i - 1], rs[i], h)
    IN  c
Configured(rs, h, p) == AsConfigured(rs, h, p)[Len(rs)]

\* A <break> rule that is looked at and does not match: should_break is set
\* all the same.
BreakMissed(rs, h, p) ==
    \E i \in DOMAIN rs :
        rs[i].brk /\ ~RuleMatches(rs[i], h, AsConfigured(rs, h, p)[i - 1].path)

\* A decoded request is routed by the configured rules, with the host it sent,
\* and has its cookies, in whatever pieces its header was read, unless a call
\* that had read those lines ended without data (decode_request_header) or a
\* <break> rule did not match (apply_rules).
RequestAsSent ==
    \A r \in Requests : rq[r].handle \in {"decode_request", "proxify"} =>
        LET x == rq[r].hdr
            h == IF "Host" \in x.got THEN Host ELSE NoHost
            should == Configured(rules, h, x.asked) IN
        /\ "Host" \in x.lost \/ BreakMissed(rules, h, x.asked)
            \/ (x.path = should.path /\ x.query = should.query)
        /\ "Cookie" \in x.got => x.cookie \/ "Cookie" \in x.lost

\* What a backend sends is relayed without a hole, and all of it unless the
\* client or an error ends the loop, or more than one turn can take was left when
\* the backend was gone: one that only ends its side is read to the end, however
\* its chunks and its end fall between the turns (proxy_monitor).
RelayComplete ==
    \A r \in Requests :
        LET b == rq[r].relay IN
        /\ b.moved # b.read => b.closed = "error"
        /\ b.moved # b.sent =>
            b.closed \in {"", "error"} \/ (b.closed = "hup" /\ b.state = "hup")

\* A request that is not proxied ends once its header is decoded, and a
\* proxied one once its backend has ended or gone: no handler hands it on for
\* ever (decode_request to finish_request, proxy_monitor).
OnceDecodedItEnds ==
    \A r \in Requests :
        (/\ rq[r].at = "queued"
         /\ \/ rq[r].handle \notin {"accept_request", "decode_request_header",
                                    "proxify", "proxy_monitor"}
            \/ rq[r].relay.state # "open")
        ~> rq[r].at \in {"ended", "killed"}

=============================================================================
