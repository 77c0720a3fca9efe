------------------------------ MODULE Dictionary ------------------------------
(***************************************************************************)
(* The hash table of lib/dictionary.c: a chain of entries per bucket, new  *)
(* entries at the end of their chain.  A dictionary is a function from the *)
(* buckets to sequences of entries [key, value].                           *)
(***************************************************************************)
EXTENDS Integers, SequencesExt

CONSTANTS
    Keys,           \* the strings
    Cap,            \* DHASHSIZE, or the size given to dict_n
    Hash(_),        \* hash(key, cap)
    Nil             \* NULL

Buckets == 0 .. Cap - 1

\* dict, dict_n: no entries.
EmptyDict == [b \in Buckets |-> <<>>]

\* Mutant: the keys are not compared.
DLookupFirst(d, k) == IF d[Hash(k)] = <<>> THEN 0 ELSE 1
\* dlookup: where the key is in its chain, 0 if it is not there.
DLookup(d, k) == SelectInSeq(d[Hash(k)], LAMBDA e : e.key = k)

\* dvalue: an absent key and a NULL value look the same.
DValue(d, k) ==
    LET i == DLookup(d, k) IN IF i = 0 THEN Nil ELSE d[Hash(k)][i].value

\* dput: replaces the value of a key that is there, also by NULL.
DPut(d, k, v) ==
    LET i == DLookup(d, k) IN
    [d EXCEPT ![Hash(k)] =
        IF i = 0 THEN Append(@, [key |-> k, value |-> v])
        ELSE [@ EXCEPT ![i].value = v]]

\* for_each_assoc, freedict: the values that are there.
DValues(d) == (UNION {{d[b][i].value : i \in DOMAIN d[b]} : b \in Buckets}) \ {Nil}

\* dput of NULL under every key.
DForget(d) ==
    [b \in Buckets |-> [i \in DOMAIN d[b] |-> [d[b][i] EXCEPT !.value = Nil]]]

\* Every key is in the chain of its hash, once.
WellFormed(d) ==
    /\ \A b \in Buckets : \A i \in DOMAIN d[b] :
        Hash(d[b][i].key) = b /\ DLookup(d, d[b][i].key) = i
    /\ DOMAIN d = Buckets

=============================================================================
