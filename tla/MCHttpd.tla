------------------------------- MODULE MCHttpd -------------------------------
(* The accept loop on small instances. *)
EXTENDS Httpd

Setup(p, one, d, s) == [ports |-> p, oneCpu |-> one, detach |-> d, sslFails |-> s]

\* Two ports on one processor, with and without SSL; one port on several
\* processors with all that can go wrong.
AllSetups == {Setup(Ports, TRUE, FALSE, FALSE), Setup(Ports, TRUE, FALSE, TRUE)}
                \cup {Setup({p}, FALSE, TRUE, TRUE) : p \in Ports}

=============================================================================
