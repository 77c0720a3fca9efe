----------------------------- MODULE MCScheduler -----------------------------
(* The scheduler on small instances. *)
EXTENDS Scheduler, TLC

\* Tasks and workers are interchangeable.
Symmetry == Permutations(Task) \cup Permutations(Workers)

\* The handlers' tasks have no event: they are collected at once.
NoEvents == {{}}
\* The handlers' events: none, or the socket.
PollEvents == {{}, {"poll"}}
\* Tasks that wait for their socket or a timeout (proxy_monitor), or are always on.
WaitEvents == {{"timeout", "poll"}, {"always"}}

=============================================================================
