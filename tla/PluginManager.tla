---------------------------- MODULE PluginManager ----------------------------
(***************************************************************************)
(* The table of loaded plugins and their contexts (plugin_manager.c), used *)
(* by the requests that execute_plugin serves (server.c).  A load runs     *)
(* under server_mux and is one step.  A plugin (library) may have several  *)
(* contexts, one for each name the configuration gives it.                 *)
(*                                                                         *)
(* Entries and contexts are numbered as they are allocated; a number is    *)
(* not used again, so that a pointer to freed memory can be told.          *)
(***************************************************************************)
EXTENDS Integers, Sequences, SequencesExt

CONSTANTS
    Requests,       \* requests for plugins
    Names, Files,   \* the plugins' names, the library files
    File,           \* the file of a name: its "name" setting, or the name
    TableSize,      \* HASHSIZE
    DictSize,       \* DHASHSIZE
    Hashes,         \* the hash functions to look at: which strings collide
    MaxEntries,     \* bound: entries allocated in a behaviour
    MaxContexts     \* bound: contexts allocated in a behaviour

ASSUME PluginAssumption ==
    /\ File \in [Names -> Files]
    /\ {TableSize, DictSize, MaxEntries, MaxContexts} \subseteq Nat \ {0}
    /\ Hashes \subseteq [Names \cup Files -> Nat]

NoCtx == 0

VARIABLES
    simple_hash,    \* the one of Hashes
    heap,           \* plugin_table, the entries and the contexts
    serving,        \* request -> its name and rq->context while it is served
    up              \* the server has not been stopped

vars == <<simple_hash, heap, serving, up>>

TableHash(s) == simple_hash[s] % TableSize
DictHash(s) == simple_hash[s] % DictSize
D == INSTANCE Dictionary WITH Keys <- Names, Cap <- DictSize,
                              Hash <- DictHash, Nil <- NoCtx

Idle == [at |-> "idle", name |-> "", ctx |-> NoCtx]

Init ==
    /\ simple_hash \in Hashes
    /\ heap = [table |-> [b \in 0 .. TableSize - 1 |-> <<>>],
               entries |-> <<>>, contexts |-> <<>>]
    /\ serving = [r \in Requests |-> Idle]
    /\ up = TRUE

-----------------------------------------------------------------------------
(***************************************************************************)
(* The functions of plugin_manager.c, from heap to heap.                   *)
(***************************************************************************)

\* Mutant: only the first entry of the bucket is looked at.
PluginLookupHead(h, s) ==
    LET chain == h.table[TableHash(s)] IN
    IF chain # <<>> /\ h.entries[chain[1]].file = s THEN chain[1] ELSE 0
\* plugin_lookup: the entry of a file name, 0 if it is not found.
PluginLookup(h, s) ==
    LET chain == h.table[TableHash(s)]
        i == SelectInSeq(chain, LAMBDA e : h.entries[e].file = s)
    IN  IF i = 0 THEN 0 ELSE chain[i]

\* antd_plugin_load, not found and dlopen succeeds: the new entry is chained
\* under the hash of the plugin's name.
NewEntry(h, n) ==
    [h EXCEPT !.table[TableHash(n)] = <<Len(h.entries) + 1>> \o @,
              !.entries = Append(@, [file |-> File[n], open |-> TRUE,
                                     instances |-> D!EmptyDict])]

\* What antd_plugin_ctx_drop does to the context: the plugin's drop function, if
\* it was found, and free.
Released(x) ==
    [x EXCEPT !.drops = IF x.droppable THEN @ + 1 ELSE @, !.frees = @ + 1]

\* Mutant: the dictionary keeps the context that is freed.
CtxDropKept(h, c) == [h EXCEPT !.contexts[c] = Released(@)]
\* antd_plugin_ctx_drop: the name stays in the dictionary, with NULL.
CtxDrop(h, c) ==
    LET x == h.contexts[c] IN
    [h EXCEPT !.contexts[c] = Released(x),
              !.entries[x.entry].instances = D!DPut(@, x.name, NoCtx)]

\* How the creation of a context ends: the handle or the drop function is
\* missing, or the create function is, or it panics, or it succeeds.
Creations == {"no functions", "no create", "panic", "ready"}

\* antd_plugin_ctx_lookup, not found, up to its drop or dput.
NewContext(h, e, n, how) ==
    [h EXCEPT !.contexts = Append(@,
        [name |-> n, entry |-> e, drops |-> 0, frees |-> 0,
         droppable |-> how # "no functions",
         status |-> IF how = "ready" THEN "ready"
                    ELSE IF how = "panic" THEN "pannic" ELSE "init"])]

\* Mutant: a context that panics is forgotten.
FailedForgotten(h, c) == h
\* Mutant: a failure drops the whole plugin, as a failure of dlopen does.
FailedEntry(h, c) ==
    FoldLeft(LAMBDA g, k : IF h.contexts[k].entry = h.contexts[c].entry
                              /\ h.contexts[k].frees = 0
                           THEN CtxDrop(g, k) ELSE g,
             h, [k \in 1 .. c |-> k])
\* The creation failed.
Failed(h, c) == CtxDrop(h, c)

\* antd_plugin_ctx_lookup: the heap and the context, NoCtx after a failure.
CtxLookup(h, e, n, how) ==
    LET c == D!DValue(h.entries[e].instances, n)
        new == Len(h.contexts) + 1
        h1 == NewContext(h, e, n, how)
    IN  IF c # NoCtx THEN [heap |-> h, ctx |-> c]
        ELSE IF how # "ready" THEN [heap |-> Failed(h1, new), ctx |-> NoCtx]
        ELSE [heap |-> [h1 EXCEPT !.entries[e].instances = D!DPut(@, n, new)],
              ctx |-> new]

\* The contexts in the dictionaries of the entries E.
Values(h, E) == UNION {D!DValues(h.entries[e].instances) : e \in E}

\* antd_plugin_entry_drop of the entries E: antd_plugin_ctx_drop for every
\* context left in their dictionaries,
Forgotten(y) == [y EXCEPT !.instances = D!DForget(@)]
DropContexts(h, E) ==
    [h EXCEPT
        !.contexts = [c \in DOMAIN @ |->
            IF c \in Values(h, E) THEN Released(@[c]) ELSE @[c]],
        !.entries = [e \in DOMAIN @ |-> IF e \in E THEN Forgotten(@[e]) ELSE @[e]]]
\* then freedict, with the values they still have, and dlclose.
Freed(x) == [x EXCEPT !.frees = @ + 1]
Closed(y) == [y EXCEPT !.open = FALSE]
CloseEntries(h, E) ==
    [h EXCEPT
        !.contexts = [c \in DOMAIN @ |->
            IF c \in Values(h, E) THEN Freed(@[c]) ELSE @[c]],
        !.entries = [e \in DOMAIN @ |-> IF e \in E THEN Closed(@[e]) ELSE @[e]]]

Chained(h) == UNION {Range(h.table[b]) : b \in DOMAIN h.table}
Unchained(h) == [h EXCEPT !.table = [b \in DOMAIN @ |-> <<>>]]

\* antd_unload_all_plugin; dropping one entry touches no other, so that their
\* order does not matter.
UnloadAll(h) == LET E == Chained(h)
                IN  CloseEntries(DropContexts(Unchained(h), E), E)

-----------------------------------------------------------------------------
(***************************************************************************)
(* The requests and the stop of the server.                                *)
(***************************************************************************)

\* execute_plugin with antd_plugin_load: dlopen fails, an entry is released
\* before it was chained.
LoadFails(r) ==
    /\ up /\ serving[r] = Idle
    /\ \E n \in Names :
        /\ PluginLookup(heap, File[n]) = 0
        /\ serving' = [serving EXCEPT ![r] = [Idle EXCEPT !.at = "refused", !.name = n]]
    /\ UNCHANGED <<simple_hash, heap, up>>

Ready(h, c) == h.contexts[c].status = "ready"

\* antd_plugin_load of a file that is loaded, or can be.
LoadFor(r, n, how) ==
    LET found == PluginLookup(heap, File[n])
        h == IF found = 0 THEN NewEntry(heap, n) ELSE heap
        e == IF found = 0 THEN Len(h.entries) ELSE found
        got == CtxLookup(h, e, n, how)
        refused == got.ctx = NoCtx \/ ~Ready(got.heap, got.ctx)
    IN  /\ Len(h.entries) <= MaxEntries
        /\ Len(got.heap.contexts) <= MaxContexts
        /\ heap' = IF got.ctx # NoCtx /\ refused THEN CtxDrop(got.heap, got.ctx)
                   ELSE got.heap
        /\ serving' = [serving EXCEPT ![r] =
                [at |-> IF refused THEN "refused" ELSE "served", name |-> n,
                 ctx |-> IF refused THEN NoCtx ELSE got.ctx]]

Load(r) ==
    /\ up /\ serving[r] = Idle
    /\ \E n \in Names, how \in Creations : LoadFor(r, n, how)
    /\ UNCHANGED <<simple_hash, up>>

\* PLUGIN_PANIC in a handler: antd_plugin_set_status on the request's context.
Panic(r) ==
    /\ up /\ serving[r].at = "served"
    /\ heap.contexts[serving[r].ctx].frees = 0
    /\ heap' = [heap EXCEPT !.contexts[serving[r].ctx].status = "pannic"]
    /\ UNCHANGED <<simple_hash, serving, up>>

End(r) ==
    /\ up /\ serving[r] # Idle
    /\ serving' = [serving EXCEPT ![r] = Idle]
    /\ UNCHANGED <<simple_hash, heap, up>>

\* stop_serve: the workers are joined before the plugins are unloaded, and the
\* tasks left in the queue never run.
Stop ==
    /\ up
    /\ up' = FALSE
    /\ serving' = [r \in Requests |-> Idle]
    /\ heap' = UnloadAll(heap)
    /\ UNCHANGED simple_hash

Next == Stop \/ \E r \in Requests : Load(r) \/ LoadFails(r) \/ Panic(r) \/ End(r)

Spec == Init /\ [][Next]_vars

-----------------------------------------------------------------------------
(***************************************************************************)
(* Properties.                                                             *)
(***************************************************************************)
Entries == DOMAIN heap.entries
Contexts == DOMAIN heap.contexts
Live(c) == heap.contexts[c].frees = 0
InTable(e) == \E b \in DOMAIN heap.table : Contains(heap.table[b], e)

\* A context is freed once and given to the plugin's drop function at most
\* once, by a failed creation, a load that finds it panicked or the unloading;
\* the entry's dictionary never frees it a second time (antd_plugin_ctx_drop,
\* antd_plugin_entry_drop, freedict).
DroppedOnce ==
    \A c \in Contexts : heap.contexts[c].frees <= 1 /\ heap.contexts[c].drops <= 1

\* Nothing is lost: a context that is not freed is in the dictionary of its
\* plugin, under its name, and a plugin that is not closed is in the table, also
\* when the same file was loaded again; so that stopping, which empties the
\* table, has freed every context and closed every library
\* (antd_plugin_ctx_lookup, antd_plugin_load, antd_unload_all_plugin).
ContextsOwned ==
    /\ \A c \in Contexts : Live(c) =>
        LET x == heap.contexts[c] IN
        /\ heap.entries[x.entry].open
        /\ D!DValue(heap.entries[x.entry].instances, x.name) = c
    /\ \A e \in Entries : heap.entries[e].open => up /\ InTable(e)
    /\ \A e \in Entries : D!WellFormed(heap.entries[e].instances)

\* A request is served by a context of the plugin and the name it asked for,
\* whatever else is in the bucket (plugin_lookup, dlookup, execute_plugin).
RightContext ==
    \A r \in Requests : serving[r].at = "served" =>
        LET x == heap.contexts[serving[r].ctx] IN
        /\ x.name = serving[r].name
        /\ heap.entries[x.entry].file = File[x.name]

\* The context of a request that is being served is freed under it only after
\* a handler has declared a panic of that context (antd_plugin_load, at the
\* next load); without panics it lives as long as the request.
HeldUnlessPanicked ==
    \A r \in Requests : serving[r].at = "served" =>
        Live(serving[r].ctx) \/ ~Ready(heap, serving[r].ctx)

LoadedOnceFor(f) ==
    \A d, e \in Entries : heap.entries[d].file = f /\ heap.entries[e].file = f => d = e

\* A library is loaded once ("Only load when not available in the plugin
\* table", antd_plugin_load): not so when a name's bucket is not its file's.
LoadedOnce == \A f \in Files : LoadedOnceFor(f)

\* It is when every name of the file hashes to the bucket of the file.
LoadedOnceIfFound ==
    \A f \in Files :
        (\A n \in Names : File[n] = f => TableHash(n) = TableHash(f)) =>
            LoadedOnceFor(f)

=============================================================================
