---------------------------- MODULE RequestService ----------------------------
(***************************************************************************)
(* What the scheduler promises to the requests (abstract).                 *)
(*                                                                         *)
(* A connection is accepted, its handlers run one at a time, on any        *)
(* thread, and it is closed once: by a handler, in the thread that runs it,*)
(* or by the scheduler while none runs.                                    *)
(***************************************************************************)
EXTENDS FiniteSets

CONSTANTS Socks, Threads

VARIABLES
    open,       \* the requests that exist
    runners     \* for every request, the threads that run a handler on it

vars == <<open, runners>>

Init == open = {} /\ runners = [d \in Socks |-> {}]

\* A new connection; a socket number is used again once it is closed.
Accept(d) ==
    /\ d \notin open
    /\ runners[d] = {}
    /\ open' = open \cup {d}
    /\ UNCHANGED runners

\* A thread calls a handler: nobody else may be running one on this request.
Call(d, th) ==
    /\ d \in open
    /\ runners[d] = {}
    /\ runners' = [runners EXCEPT ![d] = {th}]
    /\ UNCHANGED open

\* The handler returns; it may have closed the request.
Return(d, th) ==
    /\ runners[d] = {th}
    /\ runners' = [runners EXCEPT ![d] = {}]
    /\ open' \in {open, open \ {d}}

\* The request is destroyed while no handler runs.
Destroy(d) ==
    /\ d \in open
    /\ runners[d] = {}
    /\ open' = open \ {d}
    /\ UNCHANGED runners

Next ==
    \E d \in Socks :
        \/ Accept(d)
        \/ Destroy(d)
        \/ \E th \in Threads : Call(d, th) \/ Return(d, th)

Spec == Init /\ [][Next]_vars

=============================================================================
