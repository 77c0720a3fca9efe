------------------------------ MODULE MCPipeline ------------------------------
(* Two connections; a name-based rule to a proxy, and rules with <break>. *)
EXTENDS Pipeline

AllPaths == {"/", "/os", "http", "https"}
ProxiedPaths == [p \in AllPaths |-> IF p \in {"http", "https"} THEN p ELSE "no"]

Rewrites(on, to, query, brk) == [on |-> on, to |-> to, query |-> query, brk |-> brk]

\* The host's requests go to a backend; the host's own rule ends the rules;
\* a <break> that does not match, and rules that follow it.
TheRules == {
    << Rewrites({"host"}, "http", TRUE, FALSE) >>,
    << Rewrites({"host"}, "/os", FALSE, TRUE), Rewrites({"/os"}, "http", TRUE, FALSE) >>,
    << Rewrites({"http"}, "/", TRUE, TRUE), Rewrites({"/"}, "/os", TRUE, FALSE),
       Rewrites({"/os"}, "https", TRUE, FALSE) >> }

=============================================================================
