-------------------------------- MODULE Httpd --------------------------------
(***************************************************************************)
(* The accept loop of main (httpd.c) and g_server_config.connection, the   *)
(* counter that throttles it.                                              *)
(*                                                                         *)
(* main increments the counter under the scheduler lock; finish_request    *)
(* (server.c) decrements it without any lock, in whatever thread closes    *)
(* the request.  An increment or a decrement is a read and a write, unless *)
(* setup.oneCpu: one instruction on a machine with one processor.          *)
(***************************************************************************)
EXTENDS Integers, FiniteSets

CONSTANTS
    Ports,          \* the ports that can be listened on
    Conn,           \* client connections: sockets, used again once closed
    Threads,        \* the workers and the scheduler thread: they end requests
    MaxCon,         \* maxcon of the configuration
    Setups,         \* the machines and configurations to look at, of SetupType
    MaxAccepts      \* bound: connections accepted in a behaviour

NoConn == "none"

\* ports: those that are listened on; oneCpu: an increment or decrement is not
\* interrupted; detach: a plugin may destroy its request itself; sslFails:
\* SSL_new may fail (USE_OPENSSL, usessl = 1).
SetupType == [ports : SUBSET Ports, oneCpu : BOOLEAN, detach : BOOLEAN,
              sslFails : BOOLEAN]

ASSUME HttpdAssumption ==
    /\ IsFiniteSet(Ports) /\ IsFiniteSet(Conn) /\ IsFiniteSet(Threads)
    /\ MaxCon \in Nat /\ MaxAccepts \in Nat
    /\ Setups \subseteq SetupType
    /\ NoConn \notin Conn

VARIABLES
    setup,          \* the one of Setups that the server runs with
    connection,     \* g_server_config.connection
    mpc,            \* where main is
    ready,          \* ports that select reported and main has not served yet
    accepted,       \* the connection antd_monitor works on
    mread,          \* the value main read for its increment or decrement
    open,           \* connections whose request exists
    serving,        \* those handed to the scheduler
    tpc,            \* thread -> "idle", "dec" or "write"
    tread,          \* the value the thread read for its decrement
    accepts,        \* connections accepted so far
    off             \* history: how far the counter has been taken off

mainVars == <<setup, mpc, ready, accepted, mread, accepts>>
threadVars == <<tpc, tread>>
vars == <<connection, off, mainVars, open, serving, threadVars>>

Init ==
    /\ setup \in Setups
    /\ connection = 0
    /\ mpc = "loop"
    /\ ready = {}
    /\ accepted = NoConn
    /\ mread = 0
    /\ open = {}
    /\ serving = {}
    /\ tpc = [th \in Threads |-> "idle"]
    /\ tread = [th \in Threads |-> 0]
    /\ accepts = 0
    /\ off = 0

\* The write of an increment or decrement: what others have written since the
\* value was read is overwritten.
Write(read, by) ==
    /\ connection' = read + by
    /\ off' = off + (read - connection)

-----------------------------------------------------------------------------
(***************************************************************************)
(* main.                                                                   *)
(***************************************************************************)

\* Over the limit, main sleeps for 10 ms and looks again.
\* Mutant: the limit is compared one too late.
OverLimitLate == connection > MaxCon + 1
OverLimit == connection > MaxCon

LoopSleep ==
    /\ mpc = "loop"
    /\ OverLimit
    /\ UNCHANGED vars

LoopSelect ==
    /\ mpc = "loop"
    /\ ~OverLimit
    /\ mpc' = "select"
    /\ UNCHANGED <<setup, connection, off, ready, accepted, mread, accepts, open,
                   serving, threadVars>>

\* select returns when some ports have a connection waiting.
Select ==
    /\ mpc = "select"
    /\ ready' \in SUBSET setup.ports \ {{}}
    /\ mpc' = "ports"
    /\ UNCHANGED <<setup, connection, off, accepted, mread, accepts, open,
                   serving, threadVars>>

\* antd_monitor on the next ready port: accept gives an unused socket ...
MonitorAccept ==
    /\ mpc = "ports"
    /\ accepts < MaxAccepts
    /\ accepts' = accepts + 1
    /\ \E p \in ready : ready' = ready \ {p}
    /\ \E d \in Conn \ open :
        /\ open' = open \cup {d}
        /\ accepted' = d
    /\ mpc' = "accepted"
    /\ UNCHANGED <<setup, connection, off, mread, serving, threadVars>>

\* ... or fails: the client has left.
MonitorNone ==
    /\ mpc = "ports"
    /\ \E p \in ready : ready' = ready \ {p}
    /\ UNCHANGED <<setup, connection, off, mpc, accepted, mread, accepts, open,
                   serving, threadVars>>

PortsDone ==
    /\ mpc = "ports"
    /\ ready = {}
    /\ mpc' = "loop"
    /\ UNCHANGED <<setup, connection, off, ready, accepted, mread, accepts, open,
                   serving, threadVars>>

\* SSL_new failed: finish_request destroys the request and counts it off
\* although antd_monitor has not counted it yet.
MonitorSslFails ==
    /\ setup.sslFails
    /\ mpc = "accepted"
    /\ open' = open \ {accepted}
    /\ accepted' = NoConn
    /\ IF setup.oneCpu
       THEN /\ connection' = connection - 1
            /\ off' = off - 1
            /\ mpc' = "ports"
            /\ UNCHANGED mread
       ELSE /\ mread' = connection
            /\ mpc' = "ssldec"
            /\ UNCHANGED <<connection, off>>
    /\ UNCHANGED <<setup, ready, accepts, serving, threadVars>>

MonitorSslWrite ==
    /\ mpc = "ssldec"
    /\ connection' = mread - 1
    /\ off' = off + (mread - connection) - 1
    /\ mpc' = "ports"
    /\ UNCHANGED <<setup, ready, accepted, mread, accepts, open, serving, threadVars>>

\* connection++ under the scheduler lock, which nobody else takes for it.
MonitorCount ==
    /\ mpc = "accepted"
    /\ IF setup.oneCpu
       THEN /\ connection' = connection + 1
            /\ mpc' = "add"
            /\ UNCHANGED <<mread, off>>
       ELSE /\ mread' = connection
            /\ mpc' = "write"
            /\ UNCHANGED <<connection, off>>
    /\ UNCHANGED <<setup, ready, accepted, accepts, open, serving, threadVars>>

MonitorWrite ==
    /\ mpc = "write"
    /\ Write(mread, 1)
    /\ mpc' = "add"
    /\ UNCHANGED <<setup, ready, accepted, mread, accepts, open, serving, threadVars>>

\* The task of the connection is created and added to the scheduler.
MonitorAdd ==
    /\ mpc = "add"
    /\ serving' = serving \cup {accepted}
    /\ accepted' = NoConn
    /\ mpc' = "ports"
    /\ UNCHANGED <<setup, connection, off, ready, mread, accepts, open, threadVars>>

\* What main does of its own; select and accept wait for clients.
MainStep ==
    \/ LoopSelect \/ MonitorNone \/ PortsDone \/ MonitorSslFails
    \/ MonitorSslWrite \/ MonitorCount \/ MonitorWrite \/ MonitorAdd

-----------------------------------------------------------------------------
(***************************************************************************)
(* The threads that end requests: finish_request, called as the last       *)
(* callback or by antd_scheduler_destroy_data.                             *)
(***************************************************************************)

\* destroy_request closes the socket, ...
FinishDestroy(th) ==
    /\ tpc[th] = "idle"
    /\ \E d \in serving :
        /\ open' = open \ {d}
        /\ serving' = serving \ {d}
    /\ tpc' = [tpc EXCEPT ![th] = "dec"]
    /\ UNCHANGED <<connection, off, mainVars, tread>>

\* Mutant: the closed connection is not counted off.
FinishNoCount(th) ==
    /\ tpc[th] = "dec"
    /\ tpc' = [tpc EXCEPT ![th] = "idle"]
    /\ UNCHANGED <<connection, off, mainVars, open, serving, tread>>

\* ... then connection-- without the lock.
FinishCount(th) ==
    /\ tpc[th] = "dec"
    /\ IF setup.oneCpu
       THEN /\ connection' = connection - 1
            /\ tpc' = [tpc EXCEPT ![th] = "idle"]
            /\ UNCHANGED <<tread, off>>
       ELSE /\ tread' = [tread EXCEPT ![th] = connection]
            /\ tpc' = [tpc EXCEPT ![th] = "write"]
            /\ UNCHANGED <<connection, off>>
    /\ UNCHANGED <<mainVars, open, serving>>

FinishWrite(th) ==
    /\ tpc[th] = "write"
    /\ Write(tread[th], -1)
    /\ tpc' = [tpc EXCEPT ![th] = "idle"]
    /\ UNCHANGED <<mainVars, open, serving, tread>>

\* A plugin destroys the request and returns an empty task without data:
\* finish_request(NULL) returns before it counts.
FinishDetached(th) ==
    /\ setup.detach
    /\ tpc[th] = "idle"
    /\ \E d \in serving :
        /\ open' = open \ {d}
        /\ serving' = serving \ {d}
    /\ off' = off + 1
    /\ UNCHANGED <<connection, mainVars, threadVars>>

ThreadStep(th) ==
    \/ FinishDestroy(th) \/ FinishCount(th) \/ FinishWrite(th)
    \/ FinishDetached(th)

Next ==
    \/ MainStep \/ LoopSleep \/ Select \/ MonitorAccept
    \/ \E th \in Threads : ThreadStep(th)

Spec == Init /\ [][Next]_vars

\* Every request that is handed over ends (Scheduler, EveryRequestEnds), and
\* main and the decrements go on.
FairSpec ==
    /\ Spec
    /\ WF_vars(MainStep)
    /\ \A th \in Threads : WF_vars(ThreadStep(th))

-----------------------------------------------------------------------------
(***************************************************************************)
(* Properties.                                                             *)
(***************************************************************************)

TypeOK ==
    /\ setup \in Setups
    /\ connection \in Int
    /\ mpc \in {"loop", "select", "ports", "accepted", "ssldec", "write", "add"}
    /\ ready \subseteq setup.ports
    /\ accepted \in Conn \cup {NoConn}
    /\ mread \in Int
    /\ open \subseteq Conn
    /\ serving \subseteq open
    /\ tpc \in [Threads -> {"idle", "dec", "write"}]
    /\ tread \in [Threads -> Int]
    /\ accepts \in 0 .. MaxAccepts
    /\ off \in Int

\* Closed connections whose decrement is still to come.
NotCountedOff == {th \in Threads : tpc[th] # "idle"}
\* The accepted connection whose increment is still to come.
NotCounted == IF mpc \in {"accepted", "write"} THEN 1 ELSE 0

\* Every connection is counted once on and once off.
Counted == setup.oneCpu /\ ~setup.detach /\ ~setup.sslFails

\* The counter is what finish_request logs as the remaining connections: the
\* open ones, but for those an increment or a decrement is under way for.  It is
\* off by no more than this: what a write in antd_monitor or finish_request
\* overwrote because another came between it and its read, one too many for a
\* request that a plugin destroyed, one too few for one whose SSL_new failed; and
\* not at all where these three do not happen.
CounterExact ==
    /\ connection = Cardinality(open) - NotCounted + Cardinality(NotCountedOff) + off
    /\ Counted => off = 0

\* maxcon is no strict limit of the concurrent connections, but it is exceeded
\* by no more than one connection for every port: main compares with > and
\* looks at the counter once for a round over the ports.  Even when increments
\* and decrements overwrite each other, requests are not counted off or are
\* counted off too often, the counter of a server with one port never goes
\* further over the limit than one round can take it (with more ports a stale
\* decrement between two of a round can lift it higher).
LimitHolds ==
    LET limit == MaxCon + Cardinality(setup.ports) IN
    /\ Counted => Cardinality(open) <= limit
    /\ (Counted \/ Cardinality(setup.ports) = 1) => connection <= limit

\* A server over its limit accepts again: once the requests it has have ended
\* the counter is not over the limit any more.  This needs every decrement: one
\* that is lost in a race, or that a plugin leaves out by destroying the request
\* itself, keeps the counter up for ever.  (SSL_new failing only takes it down
\* further.)
AcceptsAgainIfCounted ==
    (OverLimit /\ setup.oneCpu /\ ~setup.detach) ~> ~OverLimit

=============================================================================
