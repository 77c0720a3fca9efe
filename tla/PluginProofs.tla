----------------------------- MODULE PluginProofs -----------------------------
(***************************************************************************)
(* Theorems about the plugin table and its contexts, for any plugins and   *)
(* libraries, any sizes of the tables and any hash function.               *)
(***************************************************************************)
EXTENDS PluginManager, SequenceTheorems, WellFoundedInduction, TLAPS

-----------------------------------------------------------------------------
(***************************************************************************)
(* The inductive invariant.  Its parts speak of a hash function f and a    *)
(* heap h, so that they can be stated of the heaps between two calls.      *)
(***************************************************************************)

IsSeq(s) == \E n \in Nat : s = [i \in 1 .. n |-> s[i]]

\* A dictionary: every key in the chain of its hash, once.
Dict(f, d) ==
    /\ d = [b \in 0 .. DictSize - 1 |-> d[b]]
    /\ \A b \in 0 .. DictSize - 1 :
        /\ IsSeq(d[b])
        /\ \A i \in DOMAIN d[b] :
            /\ d[b][i] = [key |-> d[b][i].key, value |-> d[b][i].value]
            /\ f[d[b][i].key] % DictSize = b
            /\ \A j \in DOMAIN d[b] : d[b][j].key = d[b][i].key => i = j

Holds(d, k, v) ==
    \E b \in 0 .. DictSize - 1 : \E i \in DOMAIN d[b] :
        d[b][i].key = k /\ d[b][i].value = v

Record(h) ==
    /\ DOMAIN h = {"table", "entries", "contexts"}
    /\ h = [table |-> h.table, entries |-> h.entries, contexts |-> h.contexts]
    /\ IsSeq(h.entries)
    /\ IsSeq(h.contexts)
    /\ h.table = [b \in 0 .. TableSize - 1 |-> h.table[b]]
    /\ \A b \in 0 .. TableSize - 1 : IsSeq(h.table[b])

Entry(f, y) ==
    /\ y = [file |-> y.file, open |-> y.open, instances |-> y.instances]
    /\ y.file \in Files
    /\ Dict(f, y.instances)

Context(h, x) ==
    /\ x = [name |-> x.name, entry |-> x.entry, drops |-> x.drops,
            frees |-> x.frees, droppable |-> x.droppable, status |-> x.status]
    /\ x.name \in Names
    /\ x.entry \in DOMAIN h.entries
    /\ h.entries[x.entry].file = File[x.name]
    /\ x.frees \in 0 .. 1
    /\ x.drops \in 0 .. 1
    /\ x.drops <= x.frees
    /\ x.frees = 0 \/ x.status # "ready"

\* An entry is in a bucket where a name of its file put it.
InBucket(f, h, e) ==
    \E n \in Names : /\ File[n] = h.entries[e].file
                     /\ Contains(h.table[f[n] % TableSize], e)

\* A file whose names and itself have one bucket has one entry.
OnePerFile(f, h) ==
    \A s \in Files :
        (\A n \in Names : File[n] = s => f[n] % TableSize = f[s] % TableSize) =>
            \A d, e \in DOMAIN h.entries :
                h.entries[d].file = s /\ h.entries[e].file = s => d = e

\* The dictionary of entry e has context v under the key k.
Has(h, e, k, v) == Holds(h.entries[e].instances, k, v)

\* The table and the entries while the server runs.
Plugins(f, h) ==
    /\ Record(h)
    /\ \A e \in DOMAIN h.entries :
        Entry(f, h.entries[e]) /\ h.entries[e].open /\ InBucket(f, h, e)
    /\ \A b \in 0 .. TableSize - 1 : \A e :
        Contains(h.table[b], e) => e \in DOMAIN h.entries
    /\ OnePerFile(f, h)

\* The contexts and the dictionaries: what is not freed is held, and what is
\* held is not freed.  The context c need not be held.
Held(h, c) ==
    /\ \A x \in DOMAIN h.contexts :
        /\ Context(h, h.contexts[x])
        /\ h.contexts[x].frees = 0 /\ x # c =>
            Has(h, h.contexts[x].entry, h.contexts[x].name, x)
    /\ \A e \in DOMAIN h.entries : \A k, v : Has(h, e, k, v) /\ v # NoCtx =>
        /\ v \in DOMAIN h.contexts
        /\ h.contexts[v].entry = e /\ h.contexts[v].name = k
        /\ h.contexts[v].frees = 0

HeapBut(f, h, c) == Plugins(f, h) /\ Held(h, c)
Heap(f, h) == HeapBut(f, h, NoCtx)

\* The heap of a server that was stopped.
Unloaded(f, h) ==
    /\ \A e \in DOMAIN h.entries : Dict(f, h.entries[e].instances) /\ ~h.entries[e].open
    /\ \A c \in DOMAIN h.contexts : h.contexts[c].frees = 1 /\ h.contexts[c].drops \in 0 .. 1
    /\ OnePerFile(f, h)

Served(h, q) ==
    q.at = "served" => q.ctx \in DOMAIN h.contexts /\ h.contexts[q.ctx].name = q.name

PlugInv ==
    /\ simple_hash \in Hashes
    /\ serving = [r \in Requests |-> serving[r]]
    /\ up => Heap(simple_hash, heap) /\ \A r \in Requests : Served(heap, serving[r])
    /\ ~up => Unloaded(simple_hash, heap) /\ \A r \in Requests : serving[r] = Idle

-----------------------------------------------------------------------------
(***************************************************************************)
(* Lemmas: sequences and searches.                                         *)
(***************************************************************************)

\* A sequence has its length and its positions.
LEMMA SeqLen ==
    ASSUME NEW s, IsSeq(s)
    PROVE  /\ Len(s) \in Nat
           /\ DOMAIN s = 1 .. Len(s)
           /\ s = [i \in 1 .. Len(s) |-> s[i]]
<1>1. PICK n \in Nat : s = [i \in 1 .. n |-> s[i]]
  BY DEF IsSeq
<1>2. s \in [1 .. n -> {s[i] : i \in 1 .. n}]
  BY <1>1
<1>3. s \in Seq({s[i] : i \in 1 .. n})
  BY <1>2, SeqDef
<1> QED
  BY <1>1, <1>3, LenProperties

\* The function of a range of positions is a sequence.
LEMMA IsSeqOfLen ==
    ASSUME NEW s, NEW n \in Nat, s = [i \in 1 .. n |-> s[i]]
    PROVE  IsSeq(s) /\ Len(s) = n
<1>1. IsSeq(s)
  BY DEF IsSeq
<1>2. DOMAIN s = 1 .. n /\ DOMAIN s = 1 .. Len(s) /\ Len(s) \in Nat
  BY <1>1, SeqLen
<1> QED
  BY <1>1, <1>2

\* Append, position by position.
LEMMA AppendSeq ==
    ASSUME NEW s, IsSeq(s), NEW x
    PROVE  /\ IsSeq(Append(s, x))
           /\ Len(Append(s, x)) = Len(s) + 1
           /\ DOMAIN Append(s, x) = 1 .. Len(s) + 1
           /\ \A i \in 1 .. Len(s) : Append(s, x)[i] = s[i]
           /\ Append(s, x)[Len(s) + 1] = x
<1>1. Len(s) \in Nat /\ s = [i \in 1 .. Len(s) |-> s[i]]
  BY SeqLen
<1> DEFINE S == {s[i] : i \in 1 .. Len(s)} \cup {x}
<1>2. s \in [1 .. Len(s) -> S]
  BY <1>1
<1>3. s \in Seq(S) /\ x \in S
  BY <1>1, <1>2, SeqDef
<1> HIDE DEF S
<1>4. Append(s, x) \in Seq(S) /\ Len(Append(s, x)) = Len(s) + 1
  BY <1>3
<1>5. Append(s, x) \in [1 .. Len(s) + 1 -> S]
  BY <1>4, LenProperties
<1>6. IsSeq(Append(s, x))
  <2>1. PICK n \in Nat : n = Len(s) + 1
    BY <1>1
  <2>2. Append(s, x) = [i \in 1 .. n |-> Append(s, x)[i]]
    BY <1>5, <2>1
  <2> QED
    BY <2>2 DEF IsSeq
<1>7. \A i \in 1 .. Len(s) : Append(s, x)[i] = s[i]
  BY <1>1, <1>3
<1>8. Append(s, x)[Len(s) + 1] = x
  BY <1>1, <1>3
<1> QED
  BY <1>4, <1>5, <1>6, <1>7, <1>8

\* One more at the front.
LEMMA ConsSeq ==
    ASSUME NEW s, IsSeq(s), NEW x
    PROVE  /\ IsSeq(<<x>> \o s)
           /\ \A y : Contains(<<x>> \o s, y) <=> (y = x \/ Contains(s, y))
<1>1. Len(s) \in Nat /\ s = [i \in 1 .. Len(s) |-> s[i]]
  BY SeqLen
<1> DEFINE S == {s[i] : i \in 1 .. Len(s)} \cup {x}
           t == <<x>> \o s
<1>2. s \in [1 .. Len(s) -> S]
  BY <1>1
<1>3. s \in Seq(S) /\ x \in S
  BY <1>1, <1>2, SeqDef
<1> HIDE DEF S
<1>4. <<x>> \in Seq(S) /\ Len(<<x>>) = 1 /\ <<x>>[1] = x
  BY <1>3
<1>5. /\ t \in Seq(S) /\ Len(t) = 1 + Len(s)
      /\ \A i \in 1 .. 1 + Len(s) : t[i] = IF i <= 1 THEN <<x>>[i] ELSE s[i - 1]
  BY <1>3, <1>4, ConcatProperties
<1> HIDE DEF t
<1>6. t \in [1 .. Len(t) -> S]
  BY <1>5, LenProperties
<1>7. IsSeq(t)
  BY <1>1, <1>5, <1>6 DEF IsSeq
<1>8. t[1] = x
  BY <1>1, <1>4, <1>5
<1>9. ASSUME NEW i \in 1 .. Len(s) PROVE t[i + 1] = s[i]
  <2>1. PICK j : j = i + 1
    OBVIOUS
  <2>2. j \in 1 .. 1 + Len(s) /\ ~(j <= 1) /\ j - 1 = i
    BY <1>1, <2>1
  <2>3. t[j] = s[j - 1]
    BY <1>5, <2>2
  <2> QED
    BY <2>1, <2>2, <2>3
<1>10. ASSUME NEW y, Contains(t, y) PROVE y = x \/ Contains(s, y)
  <2>1. PICK i \in 1 .. 1 + Len(s) : t[i] = y
    BY <1>5, <1>10 DEF Contains
  <2>2. CASE i = 1
    BY <2>1, <2>2, <1>8
  <2>3. CASE i # 1
    <3>1. i - 1 \in 1 .. Len(s) /\ s[i - 1] = y
      BY <2>1, <2>3, <1>1, <1>5
    <3> QED
      BY <3>1 DEF Contains
  <2> QED
    BY <2>2, <2>3
<1>11. ASSUME NEW y, Contains(s, y) PROVE Contains(t, y)
  <2>1. PICK i \in 1 .. Len(s) : s[i] = y
    BY <1>11 DEF Contains
  <2>2. i + 1 \in 1 .. Len(t) /\ t[i + 1] = y
    BY <2>1, <1>1, <1>5, <1>9
  <2> QED
    BY <2>2 DEF Contains
<1>12. Contains(t, x)
  <2>1. 1 \in 1 .. Len(t)
    BY <1>1, <1>5
  <2> QED
    BY <2>1, <1>8 DEF Contains
<1> QED
  BY <1>7, <1>10, <1>11, <1>12 DEF t

\* The empty chain.
LEMMA EmptyIsSeq == IsSeq(<<>>) /\ Len(<<>>) = 0 /\ DOMAIN <<>> = {}
<1>1. <<>> = [i \in 1 .. 0 |-> <<>>[i]]
  OBVIOUS
<1>2. IsSeq(<<>>) /\ Len(<<>>) = 0
  BY <1>1, IsSeqOfLen
<1> QED
  BY <1>2, SeqLen

\* A set of positions has a least one.
LEMMA LeastIsThere ==
    ASSUME NEW I \in SUBSET Nat, I # {}
    PROVE  (CHOOSE x \in I : \A y \in I : x =< y) \in I
<1>1. \A m, k \in Nat : m < k => <<m, k>> \in OpToRel(<, Nat)
  BY Zenon DEF OpToRel
<1>2. PICK R : IsWellFoundedOn(R, Nat) /\ \A m, k \in Nat : m < k => <<m, k>> \in R
  BY <1>1, NatLessThanWellFounded, Zenon
<1>3. PICK n \in I : \A m \in I : <<m, n>> \notin R
  <2>1. IsWellFoundedOn(R, Nat) /\ I \subseteq Nat /\ I # {}
    BY <1>2
  <2> QED
    BY <2>1, WFMin
<1>4. ASSUME NEW m \in I
      PROVE  n =< m
  <2>1. n \in Nat /\ m \in Nat
    OBVIOUS
  <2>2. m < n => <<m, n>> \in R
    BY <1>2, <2>1, Zenon
  <2>3. ~(m < n)
    BY <1>3, <2>2
  <2> QED
    BY <2>1, <2>3
<1> QED
  BY <1>4

-----------------------------------------------------------------------------
(***************************************************************************)
(* Lemmas: the dictionary.                                                 *)
(***************************************************************************)

\* A hash is a bucket.
LEMMA HashIsBucket ==
    ASSUME simple_hash \in Hashes, NEW s \in Names \cup Files
    PROVE  DictHash(s) \in 0 .. DictSize - 1 /\ TableHash(s) \in 0 .. TableSize - 1
<1>1. simple_hash[s] \in Nat
  BY PluginAssumption
<1>2. DictSize \in Nat \ {0} /\ TableSize \in Nat \ {0}
  BY PluginAssumption
<1> QED
  BY <1>1, <1>2 DEF DictHash, TableHash

\* dlookup finds a key that is in its chain, and no other.
LEMMA LookupFinds ==
    ASSUME NEW d, Dict(simple_hash, d), NEW k, DictHash(k) \in 0 .. DictSize - 1
    PROVE  /\ D!DLookup(d, k) # 0 =>
                /\ D!DLookup(d, k) \in DOMAIN d[DictHash(k)]
                /\ d[DictHash(k)][D!DLookup(d, k)].key = k
           /\ D!DLookup(d, k) = 0 =>
                \A j \in DOMAIN d[DictHash(k)] : d[DictHash(k)][j].key # k
<1> DEFINE c == d[DictHash(k)]
           I == {i \in 1 .. Len(c) : c[i].key = k}
           m == CHOOSE x \in I : \A y \in I : x =< y
<1>1. Len(c) \in Nat /\ DOMAIN c = 1 .. Len(c)
  BY SeqLen DEF Dict
<1>2. D!DLookup(d, k) = IF I # {} THEN m ELSE 0
  BY DEF D!DLookup, D!SelectInSeq, D!Min
<1>3. I \in SUBSET Nat
  BY <1>1
<1>4. I # {} => m \in I
  BY <1>3, LeastIsThere
<1> HIDE DEF m
<1>5. CASE I = {}
  <2>1. D!DLookup(d, k) = 0
    BY <1>2, <1>5
  <2>2. \A j \in DOMAIN c : c[j].key # k
    BY <1>1, <1>5
  <2> QED
    BY <2>1, <2>2
<1>6. CASE I # {}
  <2>1. D!DLookup(d, k) = m /\ m \in 1 .. Len(c) /\ c[m].key = k
    BY <1>2, <1>4, <1>6
  <2>2. m # 0 /\ m \in DOMAIN c
    BY <2>1, <1>1
  <2> QED
    BY <2>1, <2>2
<1> QED
  BY <1>5, <1>6

\* dvalue gives the value that the dictionary holds under the key.
LEMMA ValueIsHeld ==
    ASSUME NEW d, Dict(simple_hash, d), NEW k, DictHash(k) \in 0 .. DictSize - 1
    PROVE  \A v : v # NoCtx => (D!DValue(d, k) = v <=> Holds(d, k, v))
<1> DEFINE c == d[DictHash(k)]
           i == D!DLookup(d, k)
<1>1. /\ i # 0 => i \in DOMAIN c /\ c[i].key = k
      /\ i = 0 => \A j \in DOMAIN c : c[j].key # k
  BY LookupFinds
<1>2. D!DValue(d, k) = IF i = 0 THEN NoCtx ELSE c[i].value
  BY DEF D!DValue
<1>3. \A v : Holds(d, k, v) <=> \E j \in DOMAIN c : c[j].key = k /\ c[j].value = v
  BY DEF Dict, Holds, DictHash
<1>4. \A j \in DOMAIN c : c[j].key = k /\ i # 0 => j = i
  BY <1>1 DEF Dict
<1> HIDE DEF i, c
<1> QED
  BY <1>1, <1>2, <1>3, <1>4

\* dput changes the value of its key and of no other.
LEMMA PutIsHeld ==
    ASSUME NEW d, Dict(simple_hash, d), NEW k, DictHash(k) \in 0 .. DictSize - 1, NEW v
    PROVE  /\ Dict(simple_hash, D!DPut(d, k, v))
           /\ \A l, w : Holds(D!DPut(d, k, v), l, w) <=>
                            IF l = k THEN w = v ELSE Holds(d, l, w)
<1> DEFINE b == DictHash(k)
           c == d[b]
           i == D!DLookup(d, k)
           a == [key |-> k, value |-> v]
           n == IF i = 0 THEN Append(c, a) ELSE [c EXCEPT ![i].value = v]
           p == D!DPut(d, k, v)
<1>1. /\ i # 0 => i \in DOMAIN c /\ c[i].key = k
      /\ i = 0 => \A j \in DOMAIN c : c[j].key # k
  BY LookupFinds
<1>2. p = [d EXCEPT ![b] = n]
  BY DEF D!DPut
<1>3. IsSeq(c) /\ Len(c) \in Nat /\ DOMAIN c = 1 .. Len(c) /\ c = [j \in 1 .. Len(c) |-> c[j]]
  BY SeqLen DEF Dict
<1>4. \A j \in DOMAIN c : c[j] = [key |-> c[j].key, value |-> c[j].value]
  BY DEF Dict
<1>5. \A j, l \in DOMAIN c : c[j].key = c[l].key => j = l
  BY DEF Dict
<1>6. \A j \in DOMAIN c : simple_hash[c[j].key] % DictSize = b
  BY DEF Dict
<1>7. simple_hash[k] % DictSize = b
  BY DEF DictHash
<1>8. /\ IsSeq(n)
      /\ \A j \in DOMAIN n : /\ n[j] = [key |-> n[j].key, value |-> n[j].value]
                             /\ simple_hash[n[j].key] % DictSize = b
                             /\ \A l \in DOMAIN n : n[l].key = n[j].key => j = l
      /\ \A l, w : (\E j \in DOMAIN n : n[j].key = l /\ n[j].value = w) <=>
            IF l = k THEN w = v ELSE \E j \in DOMAIN c : c[j].key = l /\ c[j].value = w
  <2>1. CASE i = 0
    <3>1. n = Append(c, a)
      BY <2>1
    <3>2. /\ IsSeq(n) /\ DOMAIN n = 1 .. Len(c) + 1
          /\ \A j \in 1 .. Len(c) : n[j] = c[j]
          /\ n[Len(c) + 1] = a
      BY <3>1, <1>3, AppendSeq
    <3>3. PICK m : m = Len(c) + 1
      OBVIOUS
    <3>4. /\ n[m] = a /\ m \in DOMAIN n /\ m \notin DOMAIN c
          /\ DOMAIN n = DOMAIN c \cup {m}
          /\ \A j \in DOMAIN c : n[j] = c[j]
      BY <3>2, <3>3, <1>3
    <3>5. \A j \in DOMAIN c : c[j].key # k
      BY <1>1, <2>1
    <3> HIDE DEF n, c, i, b
    <3>6. a.key = k /\ a.value = v /\ a = [key |-> a.key, value |-> a.value]
      OBVIOUS
    <3> HIDE DEF a
    <3>7. \A j \in DOMAIN n : /\ n[j] = [key |-> n[j].key, value |-> n[j].value]
                              /\ simple_hash[n[j].key] % DictSize = b
      BY <3>4, <3>6, <1>4, <1>6, <1>7
    <3>8. \A j, l \in DOMAIN n : n[l].key = n[j].key => j = l
      BY <3>4, <3>5, <3>6, <1>5
    <3>9. \A l, w : (\E j \in DOMAIN n : n[j].key = l /\ n[j].value = w) <=>
            IF l = k THEN w = v ELSE \E j \in DOMAIN c : c[j].key = l /\ c[j].value = w
      BY <3>4, <3>5, <3>6
    <3> QED
      BY <3>2, <3>7, <3>8, <3>9
  <2>2. CASE i # 0
    <3>1. n = [c EXCEPT ![i] = [@ EXCEPT !.value = v]]
      BY <2>2
    <3>2. i \in DOMAIN c /\ c[i].key = k
      BY <1>1, <2>2
    <3> HIDE DEF n, i
    <3>3. /\ DOMAIN n = DOMAIN c
          /\ \A j \in DOMAIN c : n[j] = IF j = i THEN [c[i] EXCEPT !.value = v] ELSE c[j]
      BY <3>1, <3>2
    <3>4. [c[i] EXCEPT !.value = v] = a
      <4>1. PICK e : e = c[i]
        OBVIOUS
      <4>2. e = [key |-> k, value |-> e.value]
        BY <3>2, <1>4, <4>1
      <4>3. [e EXCEPT !.value = v] = a
        BY <4>2
      <4> QED
        BY <4>1, <4>3
    <3>5. IsSeq(n)
      <4>1. n = [j \in 1 .. Len(c) |-> n[j]]
        BY <3>1, <1>3
      <4> QED
        BY <4>1, <1>3, IsSeqOfLen
    <3> HIDE DEF c, b
    <3>6. a.key = k /\ a.value = v /\ a = [key |-> a.key, value |-> a.value]
      OBVIOUS
    <3> HIDE DEF a
    <3>7. \A j \in DOMAIN n : /\ n[j] = [key |-> n[j].key, value |-> n[j].value]
                              /\ simple_hash[n[j].key] % DictSize = b
      BY <3>3, <3>4, <3>6, <1>4, <1>6, <1>7
    <3>8. \A j \in DOMAIN n : n[j].key = c[j].key
      BY <3>2, <3>3, <3>4, <3>6
    <3>9. \A j, l \in DOMAIN n : n[l].key = n[j].key => j = l
      BY <3>8, <3>3, <1>5
    <3>10. \A j \in DOMAIN c : c[j].key = k => j = i
      BY <3>2, <1>5
    <3>11. \A l, w : (\E j \in DOMAIN n : n[j].key = l /\ n[j].value = w) <=>
            IF l = k THEN w = v ELSE \E j \in DOMAIN c : c[j].key = l /\ c[j].value = w
      BY <3>2, <3>3, <3>4, <3>6, <3>10
    <3> QED
      BY <3>5, <3>7, <3>9, <3>11
  <2> QED
    BY <2>1, <2>2
<1>9. b \in 0 .. DictSize - 1 /\ DOMAIN d = 0 .. DictSize - 1
      /\ d = [x \in 0 .. DictSize - 1 |-> d[x]]
  BY DEF Dict
<1> HIDE DEF n, i
<1>10. /\ p = [x \in 0 .. DictSize - 1 |-> p[x]]
       /\ p[b] = n
       /\ \A x \in 0 .. DictSize - 1 : x # b => p[x] = d[x]
  BY <1>2, <1>9
<1> HIDE DEF p, b
<1>11. Dict(simple_hash, p)
  BY <1>8, <1>10 DEF Dict
<1>12. ASSUME NEW l, NEW w
       PROVE  Holds(p, l, w) <=> IF l = k THEN w = v ELSE Holds(d, l, w)
  <2>1. Holds(p, l, w) <=>
            \/ \E j \in DOMAIN n : n[j].key = l /\ n[j].value = w
            \/ \E x \in (0 .. DictSize - 1) \ {b} : \E j \in DOMAIN d[x] :
                    d[x][j].key = l /\ d[x][j].value = w
    BY <1>9, <1>10 DEF Holds
  <2>2. \A x \in (0 .. DictSize - 1) \ {b} : \A j \in DOMAIN d[x] : d[x][j].key # k
    BY <1>7 DEF Dict
  <2>3. Holds(d, l, w) <=>
            \/ \E j \in DOMAIN c : c[j].key = l /\ c[j].value = w
            \/ \E x \in (0 .. DictSize - 1) \ {b} : \E j \in DOMAIN d[x] :
                    d[x][j].key = l /\ d[x][j].value = w
    BY <1>9 DEF Holds
  <2>4. (\E j \in DOMAIN n : n[j].key = l /\ n[j].value = w) <=>
            IF l = k THEN w = v ELSE \E j \in DOMAIN c : c[j].key = l /\ c[j].value = w
    BY <1>8
  <2> HIDE DEF c
  <2>5. CASE l = k
    BY <2>1, <2>2, <2>4, <2>5
  <2>6. CASE l # k
    BY <2>1, <2>3, <2>4, <2>6
  <2> QED
    BY <2>5, <2>6
<1> QED
  BY <1>11, <1>12 DEF p

\* The values of a dictionary are those that it holds.
LEMMA ValuesAreHeld ==
    ASSUME NEW d
    PROVE  \A v : v \in D!DValues(d) <=> v # NoCtx /\ \E k : Holds(d, k, v)
<1>1. \A v : v \in D!DValues(d) <=>
        /\ v # NoCtx
        /\ \E b \in 0 .. DictSize - 1 : v \in {d[b][i].value : i \in DOMAIN d[b]}
  BY DEF D!DValues, D!Buckets
<1>2. ASSUME NEW v
      PROVE  (\E b \in 0 .. DictSize - 1 : v \in {d[b][i].value : i \in DOMAIN d[b]})
                <=> \E k : Holds(d, k, v)
  BY DEF Holds
<1> QED
  BY <1>1, <1>2

\* A dictionary whose values are forgotten is one, with no values.
LEMMA ForgottenIsEmpty ==
    ASSUME NEW d, Dict(simple_hash, d)
    PROVE  Dict(simple_hash, D!DForget(d)) /\ D!DValues(D!DForget(d)) = {}
<1> DEFINE p == D!DForget(d)
<1>1. p = [b \in 0 .. DictSize - 1 |-> [i \in DOMAIN d[b] |-> [d[b][i] EXCEPT !.value = NoCtx]]]
  BY DEF D!DForget, D!Buckets
<1> HIDE DEF p
<1>2. ASSUME NEW b \in 0 .. DictSize - 1
      PROVE  /\ IsSeq(p[b])
             /\ DOMAIN p[b] = DOMAIN d[b]
             /\ \A i \in DOMAIN d[b] : p[b][i] = [key |-> d[b][i].key, value |-> NoCtx]
  <2>1. IsSeq(d[b]) /\ Len(d[b]) \in Nat /\ DOMAIN d[b] = 1 .. Len(d[b])
    BY SeqLen DEF Dict
  <2>2. p[b] = [i \in DOMAIN d[b] |-> [d[b][i] EXCEPT !.value = NoCtx]]
    BY <1>1
  <2>3. p[b] = [i \in 1 .. Len(d[b]) |-> p[b][i]]
    BY <2>1, <2>2
  <2>4. IsSeq(p[b])
    BY <2>1, <2>3, IsSeqOfLen
  <2>5. \A i \in DOMAIN d[b] : d[b][i] = [key |-> d[b][i].key, value |-> d[b][i].value]
    BY DEF Dict
  <2> QED
    BY <2>2, <2>4, <2>5
<1>3. Dict(simple_hash, p)
  BY <1>1, <1>2 DEF Dict
<1>4. ASSUME NEW b \in 0 .. DictSize - 1, NEW i \in DOMAIN p[b]
      PROVE  p[b][i].value = NoCtx
  <2>1. p[b][i] = [key |-> d[b][i].key, value |-> NoCtx]
    BY <1>2
  <2> QED
    BY <2>1
<1>5. ASSUME NEW v \in D!DValues(p) PROVE FALSE
  <2>1. v # NoCtx /\ \E k : Holds(p, k, v)
    BY <1>5, ValuesAreHeld
  <2> QED
    BY <2>1, <1>4 DEF Holds
<1> QED
  BY <1>3, <1>5 DEF p

\* A new dictionary holds nothing.
LEMMA EmptyHoldsNothing ==
    /\ Dict(simple_hash, D!EmptyDict)
    /\ \A k, v : ~Holds(D!EmptyDict, k, v)
<1>1. D!EmptyDict = [b \in 0 .. DictSize - 1 |-> <<>>]
  BY DEF D!EmptyDict, D!Buckets
<1> QED
  BY <1>1, EmptyIsSeq DEF Dict, Holds

\* Dict says what the model's WellFormed says.
LEMMA DictIsWellFormed ==
    ASSUME NEW d, Dict(simple_hash, d)
    PROVE  D!WellFormed(d)
<1>1. DOMAIN d = 0 .. DictSize - 1
  BY DEF Dict
<1>2. ASSUME NEW b \in 0 .. DictSize - 1, NEW i \in DOMAIN d[b]
      PROVE  DictHash(d[b][i].key) = b /\ D!DLookup(d, d[b][i].key) = i
  <2>1. PICK k : k = d[b][i].key
    OBVIOUS
  <2>2. DictHash(k) = b
    BY <2>1 DEF Dict, DictHash
  <2>3. /\ D!DLookup(d, k) # 0 =>
                /\ D!DLookup(d, k) \in DOMAIN d[b]
                /\ d[b][D!DLookup(d, k)].key = k
        /\ D!DLookup(d, k) = 0 => \A j \in DOMAIN d[b] : d[b][j].key # k
    BY <2>2, LookupFinds
  <2>4. D!DLookup(d, k) \in DOMAIN d[b] /\ d[b][D!DLookup(d, k)].key = k
    BY <2>1, <2>3
  <2>5. \A j \in DOMAIN d[b] : d[b][j].key = d[b][i].key => i = j
    BY DEF Dict
  <2> QED
    BY <2>1, <2>2, <2>4, <2>5
<1> QED
  BY <1>1, <1>2 DEF D!WellFormed, D!Buckets

-----------------------------------------------------------------------------
(***************************************************************************)
(* Lemmas: the functions of plugin_manager.c keep the heap sound.          *)
(***************************************************************************)

\* The positions of a heap's sequences.
LEMMA Positions ==
    ASSUME NEW h, Record(h)
    PROVE  /\ Len(h.entries) \in Nat /\ DOMAIN h.entries = 1 .. Len(h.entries)
           /\ Len(h.contexts) \in Nat /\ DOMAIN h.contexts = 1 .. Len(h.contexts)
           /\ h.entries = [e \in 1 .. Len(h.entries) |-> h.entries[e]]
           /\ h.contexts = [c \in 1 .. Len(h.contexts) |-> h.contexts[c]]
BY SeqLen DEF Record

\* plugin_lookup finds an entry of the file, if there is one in its bucket.
LEMMA PluginIsFound ==
    ASSUME simple_hash \in Hashes, NEW h, Plugins(simple_hash, h), NEW s \in Files
    PROVE  /\ PluginLookup(h, s) # 0 =>
                /\ PluginLookup(h, s) \in DOMAIN h.entries
                /\ h.entries[PluginLookup(h, s)].file = s
           /\ PluginLookup(h, s) = 0 =>
                \A e \in DOMAIN h.entries : h.entries[e].file = s =>
                    ~Contains(h.table[TableHash(s)], e)
<1> DEFINE c == h.table[TableHash(s)]
           I == {i \in 1 .. Len(c) : h.entries[c[i]].file = s}
           m == CHOOSE x \in I : \A y \in I : x =< y
<1>1. TableHash(s) \in 0 .. TableSize - 1
  BY HashIsBucket
<1>2. IsSeq(c) /\ Len(c) \in Nat /\ DOMAIN c = 1 .. Len(c)
  BY <1>1, SeqLen DEF Plugins, Record
<1>3. PluginLookup(h, s) = LET i == IF I # {} THEN m ELSE 0
                           IN  IF i = 0 THEN 0 ELSE c[i]
  BY DEF PluginLookup, SelectInSeq, Min
<1>4. I \in SUBSET Nat
  BY <1>2
<1>5. I # {} => m \in I
  BY <1>4, LeastIsThere
<1> HIDE DEF m
<1>6. CASE I = {}
  <2>1. PluginLookup(h, s) = 0
    BY <1>3, <1>6
  <2>2. ASSUME NEW e \in DOMAIN h.entries, h.entries[e].file = s, Contains(c, e)
        PROVE  FALSE
    BY <1>6, <2>2 DEF Contains
  <2> QED
    BY <2>1, <2>2
<1>7. CASE I # {}
  <2>1. m \in 1 .. Len(c) /\ h.entries[c[m]].file = s /\ m # 0
    BY <1>2, <1>5, <1>7
  <2>2. PluginLookup(h, s) = c[m]
    BY <1>3, <1>7, <2>1
  <2>3. Contains(c, c[m])
    BY <2>1 DEF Contains
  <2>4. c[m] \in DOMAIN h.entries
    BY <2>3, <1>1 DEF Plugins
  <2>5. Record(h)
    BY DEF Plugins
  <2>6. DOMAIN h.entries = 1 .. Len(h.entries)
    BY <2>5, Positions
  <2>7. c[m] # 0
    BY <2>4, <2>6
  <2> QED
    BY <2>1, <2>2, <2>4, <2>7
<1> QED
  BY <1>6, <1>7

\* Heaps with the same table and the same files are alike as far as the table
\* goes.
LEMMA SameTable ==
    ASSUME NEW f, NEW h, Plugins(f, h), NEW g, Record(g), g.table = h.table,
           DOMAIN g.entries = DOMAIN h.entries,
           \A e \in DOMAIN h.entries : /\ g.entries[e].file = h.entries[e].file
                                       /\ g.entries[e].open
                                       /\ Entry(f, g.entries[e])
    PROVE  Plugins(f, g)
<1>1. \A e \in DOMAIN g.entries : InBucket(f, g, e)
  BY DEF Plugins, InBucket
<1>2. OnePerFile(f, g)
  BY DEF Plugins, OnePerFile
<1> QED
  BY <1>1, <1>2 DEF Plugins

\* A new entry is chained where a name of its file belongs, and it is the first
\* of its file if that is the bucket of the file.
LEMMA NewEntryIsSound ==
    ASSUME simple_hash \in Hashes, NEW h, Heap(simple_hash, h), NEW n \in Names,
           PluginLookup(h, File[n]) = 0
    PROVE  /\ Heap(simple_hash, NewEntry(h, n))
           /\ NewEntry(h, n).contexts = h.contexts
           /\ Len(NewEntry(h, n).entries) = Len(h.entries) + 1
           /\ Len(NewEntry(h, n).entries) \in DOMAIN NewEntry(h, n).entries
           /\ NewEntry(h, n).entries[Len(NewEntry(h, n).entries)].file = File[n]
<1> DEFINE g == NewEntry(h, n)
           y == [file |-> File[n], open |-> TRUE, instances |-> D!EmptyDict]
<1>1. PICK m : m = Len(h.entries) + 1
  OBVIOUS
<1>2. PICK b : b = TableHash(n)
  OBVIOUS
<1>3. b \in 0 .. TableSize - 1 /\ b = simple_hash[n] % TableSize
  BY <1>2, HashIsBucket DEF TableHash
<1>4. Plugins(simple_hash, h) /\ Held(h, NoCtx) /\ Record(h)
  BY DEF Heap, HeapBut, Plugins
<1>5. /\ Len(h.entries) \in Nat /\ DOMAIN h.entries = 1 .. Len(h.entries)
      /\ IsSeq(h.entries) /\ IsSeq(h.table[b])
      /\ h.table = [x \in 0 .. TableSize - 1 |-> h.table[x]]
  BY <1>3, <1>4, Positions DEF Record
<1>6. g = [h EXCEPT !.table = [h.table EXCEPT ![b] = <<m>> \o h.table[b]],
                    !.entries = Append(h.entries, y)]
  BY <1>1, <1>2 DEF NewEntry
<1> HIDE DEF y, g
<1>7. /\ DOMAIN g = {"table", "entries", "contexts"}
      /\ g = [table |-> g.table, entries |-> g.entries, contexts |-> g.contexts]
      /\ g.table = [h.table EXCEPT ![b] = <<m>> \o h.table[b]]
      /\ g.entries = Append(h.entries, y)
      /\ g.contexts = h.contexts
  BY <1>4, <1>6 DEF Record
<1>8. /\ IsSeq(g.entries) /\ DOMAIN g.entries = 1 .. m /\ Len(g.entries) = m
      /\ m \in DOMAIN g.entries /\ m \notin DOMAIN h.entries
      /\ DOMAIN g.entries = DOMAIN h.entries \cup {m}
      /\ \A e \in DOMAIN h.entries : g.entries[e] = h.entries[e]
      /\ g.entries[m] = y
  <2>1. /\ IsSeq(g.entries) /\ Len(g.entries) = Len(h.entries) + 1
        /\ DOMAIN g.entries = 1 .. Len(h.entries) + 1
        /\ \A i \in 1 .. Len(h.entries) : g.entries[i] = h.entries[i]
        /\ g.entries[Len(h.entries) + 1] = y
    BY <1>5, <1>7, AppendSeq
  <2> QED
    BY <2>1, <1>1, <1>5
<1>9. /\ IsSeq(<<m>> \o h.table[b])
      /\ \A e : Contains(<<m>> \o h.table[b], e) <=> (e = m \/ Contains(h.table[b], e))
  BY <1>5, ConsSeq
<1>10. PICK t : t = <<m>> \o h.table[b]
  OBVIOUS
<1>11. /\ g.table = [x \in 0 .. TableSize - 1 |-> g.table[x]]
       /\ g.table[b] = t
       /\ \A x \in 0 .. TableSize - 1 : x # b => g.table[x] = h.table[x]
  BY <1>3, <1>5, <1>7, <1>10
<1>12. IsSeq(t) /\ \A e : Contains(t, e) <=> (e = m \/ Contains(h.table[b], e))
  BY <1>9, <1>10
<1>13. \A x \in 0 .. TableSize - 1 : \A e :
            Contains(g.table[x], e) <=> (x = b /\ e = m) \/ Contains(h.table[x], e)
  BY <1>11, <1>12
<1>14. Record(g)
  BY <1>4, <1>7, <1>8, <1>11, <1>12 DEF Record
<1>15. /\ y = [file |-> y.file, open |-> y.open, instances |-> y.instances]
       /\ y.file = File[n] /\ y.file \in Files
       /\ y.open
       /\ y.instances = D!EmptyDict
  BY PluginAssumption DEF y
<1>16. Entry(simple_hash, y)
  BY <1>15, EmptyHoldsNothing DEF Entry
<1>17. ASSUME NEW e \in DOMAIN g.entries
       PROVE  Entry(simple_hash, g.entries[e]) /\ g.entries[e].open
              /\ InBucket(simple_hash, g, e)
  <2>1. CASE e = m
    <3>1. Contains(g.table[simple_hash[n] % TableSize], e)
      BY <1>3, <1>13, <2>1
    <3> QED
      BY <2>1, <3>1, <1>8, <1>15, <1>16 DEF InBucket
  <2>2. CASE e # m
    <3>1. e \in DOMAIN h.entries /\ g.entries[e] = h.entries[e]
      BY <1>8, <2>2
    <3>2. PICK k \in Names : /\ File[k] = h.entries[e].file
                             /\ Contains(h.table[simple_hash[k] % TableSize], e)
      BY <3>1, <1>4 DEF Plugins, InBucket
    <3>3. simple_hash[k] % TableSize \in 0 .. TableSize - 1
      BY HashIsBucket DEF TableHash
    <3>4. Contains(g.table[simple_hash[k] % TableSize], e)
      BY <3>2, <3>3, <1>13
    <3>5. Entry(simple_hash, h.entries[e]) /\ h.entries[e].open
      BY <3>1, <1>4 DEF Plugins
    <3> QED
      BY <3>1, <3>2, <3>4, <3>5 DEF InBucket
  <2> QED
    BY <2>1, <2>2
<1>18. \A x \in 0 .. TableSize - 1 : \A e : Contains(g.table[x], e) => e \in DOMAIN g.entries
  BY <1>4, <1>8, <1>13 DEF Plugins
<1>19. OnePerFile(simple_hash, g)
  <2> SUFFICES ASSUME NEW s \in Files,
                      \A k \in Names : File[k] = s =>
                            simple_hash[k] % TableSize = simple_hash[s] % TableSize,
                      NEW d \in DOMAIN g.entries, NEW e \in DOMAIN g.entries,
                      g.entries[d].file = s, g.entries[e].file = s
               PROVE  d = e
    BY DEF OnePerFile
  <2>1. s = File[n] => \A x \in DOMAIN h.entries : h.entries[x].file # s
    <3> SUFFICES ASSUME s = File[n], NEW x \in DOMAIN h.entries, h.entries[x].file = s
                 PROVE  FALSE
      OBVIOUS
    <3>1. ~Contains(h.table[TableHash(s)], x)
      BY <1>4, PluginIsFound
    <3>2. PICK k \in Names : /\ File[k] = s
                             /\ Contains(h.table[simple_hash[k] % TableSize], x)
      BY <1>4 DEF Plugins, InBucket
    <3> QED
      BY <3>1, <3>2 DEF TableHash
  <2>2. \A x, z \in DOMAIN h.entries :
            h.entries[x].file = s /\ h.entries[z].file = s => x = z
    BY <1>4 DEF Plugins, OnePerFile
  <2> QED
    BY <2>1, <2>2, <1>8, <1>15
<1>20. Held(g, NoCtx)
  <2>1. \A e \in DOMAIN h.entries : \A k, v : Has(g, e, k, v) <=> Has(h, e, k, v)
    BY <1>8 DEF Has
  <2>2. \A k, v : ~Has(g, m, k, v)
    BY <1>8, <1>15, EmptyHoldsNothing DEF Has
  <2>3. ASSUME NEW x \in DOMAIN g.contexts
        PROVE  /\ Context(g, g.contexts[x])
               /\ g.contexts[x].frees = 0 /\ x # NoCtx =>
                    Has(g, g.contexts[x].entry, g.contexts[x].name, x)
    <3>1. Context(h, h.contexts[x]) /\ g.contexts[x] = h.contexts[x]
      BY <1>4, <1>7 DEF Held
    <3>2. h.contexts[x].entry \in DOMAIN h.entries
      BY <3>1 DEF Context
    <3>3. Context(g, g.contexts[x])
      BY <3>1, <3>2, <1>8 DEF Context
    <3> QED
      BY <3>1, <3>2, <3>3, <2>1, <1>4, <1>7 DEF Held
  <2>4. ASSUME NEW e \in DOMAIN g.entries, NEW k, NEW v, Has(g, e, k, v), v # NoCtx
        PROVE  /\ v \in DOMAIN g.contexts
               /\ g.contexts[v].entry = e /\ g.contexts[v].name = k
               /\ g.contexts[v].frees = 0
    <3>1. e \in DOMAIN h.entries /\ Has(h, e, k, v)
      BY <2>1, <2>2, <2>4, <1>8
    <3> QED
      BY <3>1, <2>4, <1>4, <1>7 DEF Held
  <2> QED
    BY <2>3, <2>4 DEF Held
<1>21. Heap(simple_hash, g)
  BY <1>14, <1>17, <1>18, <1>19, <1>20 DEF Heap, HeapBut, Plugins
<1> QED
  BY <1>1, <1>7, <1>8, <1>15, <1>21 DEF g

\* A new context is sound, but not held yet.
LEMMA NewContextIsSound ==
    ASSUME NEW f, NEW h, Heap(f, h), NEW e \in DOMAIN h.entries, NEW n \in Names,
           h.entries[e].file = File[n], NEW how \in Creations,
           NEW c, c = Len(h.contexts) + 1
    PROVE  LET g == NewContext(h, e, n, how) IN
           /\ HeapBut(f, g, c)
           /\ g.entries = h.entries
           /\ DOMAIN g.contexts = DOMAIN h.contexts \cup {c}
           /\ Len(g.contexts) = c
           /\ c \in Nat \ {0} /\ c \notin DOMAIN h.contexts
           /\ \A x \in DOMAIN h.contexts : g.contexts[x] = h.contexts[x]
           /\ g.contexts[c].name = n /\ g.contexts[c].entry = e
           /\ g.contexts[c].frees = 0
           /\ how # "ready" => g.contexts[c].status # "ready"
           /\ how = "ready" => g.contexts[c].status = "ready"
<1> DEFINE g == NewContext(h, e, n, how)
           y == [name |-> n, entry |-> e, drops |-> 0, frees |-> 0,
                 droppable |-> how # "no functions",
                 status |-> IF how = "ready" THEN "ready"
                            ELSE IF how = "panic" THEN "pannic" ELSE "init"]
<1>1. Plugins(f, h) /\ Held(h, NoCtx) /\ Record(h)
  BY DEF Heap, HeapBut, Plugins
<1>2. /\ Len(h.contexts) \in Nat /\ DOMAIN h.contexts = 1 .. Len(h.contexts)
      /\ IsSeq(h.contexts)
  BY <1>1, Positions DEF Record
<1>3. g = [h EXCEPT !.contexts = Append(h.contexts, y)]
  BY DEF NewContext
<1>4. /\ y.name = n /\ y.entry = e /\ y.frees = 0 /\ y.drops = 0
      /\ how # "ready" => y.status # "ready"
      /\ how = "ready" => y.status = "ready"
      /\ y = [name |-> y.name, entry |-> y.entry, drops |-> y.drops,
              frees |-> y.frees, droppable |-> y.droppable, status |-> y.status]
  OBVIOUS
<1> HIDE DEF y, g
<1>5. /\ DOMAIN g = {"table", "entries", "contexts"}
      /\ g = [table |-> g.table, entries |-> g.entries, contexts |-> g.contexts]
      /\ g.table = h.table /\ g.entries = h.entries
      /\ g.contexts = Append(h.contexts, y)
  BY <1>1, <1>3 DEF Record
<1>6. /\ IsSeq(g.contexts) /\ Len(g.contexts) = c
      /\ DOMAIN g.contexts = DOMAIN h.contexts \cup {c}
      /\ c \in Nat \ {0} /\ c \notin DOMAIN h.contexts
      /\ \A x \in DOMAIN h.contexts : g.contexts[x] = h.contexts[x]
      /\ g.contexts[c] = y
  <2>1. /\ IsSeq(g.contexts) /\ Len(g.contexts) = Len(h.contexts) + 1
        /\ DOMAIN g.contexts = 1 .. Len(h.contexts) + 1
        /\ \A i \in 1 .. Len(h.contexts) : g.contexts[i] = h.contexts[i]
        /\ g.contexts[Len(h.contexts) + 1] = y
    BY <1>2, <1>5, AppendSeq
  <2> QED
    BY <2>1, <1>2
<1>7. Record(g)
  BY <1>1, <1>5, <1>6 DEF Record
<1>8. Plugins(f, g)
  BY <1>1, <1>5, <1>7, SameTable DEF Plugins
<1>9. \A k, v : \A i : Has(g, i, k, v) <=> Has(h, i, k, v)
  BY <1>5 DEF Has
<1>10. ASSUME NEW x \in DOMAIN g.contexts
       PROVE  /\ Context(g, g.contexts[x])
              /\ g.contexts[x].frees = 0 /\ x # c =>
                    Has(g, g.contexts[x].entry, g.contexts[x].name, x)
  <2>1. CASE x = c
    BY <2>1, <1>4, <1>5, <1>6 DEF Context
  <2>2. CASE x # c
    <3>1. x \in DOMAIN h.contexts /\ g.contexts[x] = h.contexts[x]
      BY <2>2, <1>6
    <3>2. x # NoCtx
      BY <3>1, <1>2 DEF NoCtx
    <3>3. /\ Context(h, h.contexts[x])
          /\ h.contexts[x].frees = 0 =>
                Has(h, h.contexts[x].entry, h.contexts[x].name, x)
      BY <3>1, <3>2, <1>1 DEF Held
    <3> QED
      BY <3>1, <3>3, <1>5, <1>9 DEF Context
  <2> QED
    BY <2>1, <2>2
<1>11. ASSUME NEW i \in DOMAIN g.entries, NEW k, NEW v, Has(g, i, k, v), v # NoCtx
       PROVE  /\ v \in DOMAIN g.contexts
              /\ g.contexts[v].entry = i /\ g.contexts[v].name = k
              /\ g.contexts[v].frees = 0
  <2>1. Has(h, i, k, v) /\ i \in DOMAIN h.entries
    BY <1>5, <1>9, <1>11
  <2> QED
    BY <2>1, <1>1, <1>6, <1>11 DEF Held
<1>12. HeapBut(f, g, c)
  BY <1>8, <1>10, <1>11 DEF HeapBut, Held
<1> QED
  BY <1>4, <1>5, <1>6, <1>12 DEF g

\* Of the entries and the table of a heap h, only the entry e is another in g.
OnlyEntry(h, g, e) ==
    /\ g.table = h.table
    /\ DOMAIN g.entries = DOMAIN h.entries
    /\ \A i \in DOMAIN h.entries : i # e => g.entries[i] = h.entries[i]

\* In g the dictionary of the entry e holds v under n, and all else is as in h.
PutThere(h, g, e, n, v) ==
    /\ DOMAIN g.entries = DOMAIN h.entries
    /\ \A i \in DOMAIN h.entries : g.entries[i].file = h.entries[i].file
    /\ \A i \in DOMAIN h.entries : \A k, w : Has(g, i, k, w) <=>
            IF i = e /\ k = n THEN w = v ELSE Has(h, i, k, w)

\* A dput in the dictionary of an entry changes nothing else of the heap.
LEMMA PutInEntry ==
    ASSUME NEW h, Plugins(simple_hash, h), simple_hash \in Hashes,
           NEW g, Record(g), NEW e \in DOMAIN h.entries, NEW n \in Names, NEW v,
           OnlyEntry(h, g, e), NEW z, g.entries[e] = z,
           z = [file |-> z.file, open |-> z.open, instances |-> z.instances],
           z.file = h.entries[e].file, z.open = h.entries[e].open,
           z.instances = D!DPut(h.entries[e].instances, n, v)
    PROVE  Plugins(simple_hash, g) /\ PutThere(h, g, e, n, v)
<1> DEFINE y == h.entries[e]
<1>1. DictHash(n) \in 0 .. DictSize - 1
  BY HashIsBucket
<1>2. Entry(simple_hash, y) /\ y.open /\ y.file \in Files /\ Dict(simple_hash, y.instances)
  BY DEF Plugins, Entry
<1>3. /\ Dict(simple_hash, z.instances)
      /\ \A k, w : Holds(z.instances, k, w) <=>
            IF k = n THEN w = v ELSE Holds(y.instances, k, w)
  BY <1>1, <1>2, PutIsHeld
<1>4. /\ g.table = h.table /\ DOMAIN g.entries = DOMAIN h.entries
      /\ \A i \in DOMAIN h.entries : g.entries[i] = IF i = e THEN z ELSE h.entries[i]
  BY DEF OnlyEntry
<1>5. z.open /\ Entry(simple_hash, z)
  BY <1>2, <1>3 DEF Entry
<1>6. \A i \in DOMAIN h.entries : /\ g.entries[i].file = h.entries[i].file
                                  /\ g.entries[i].open
                                  /\ Entry(simple_hash, g.entries[i])
  BY <1>4, <1>5 DEF Plugins
<1>7. Plugins(simple_hash, g)
  BY <1>4, <1>6, SameTable
<1>8. \A i \in DOMAIN h.entries : \A k, w : Has(g, i, k, w) <=>
                IF i = e /\ k = n THEN w = v ELSE Has(h, i, k, w)
  BY <1>3, <1>4, <1>5 DEF Has
<1> QED
  BY <1>4, <1>6, <1>7, <1>8, Zenon DEF PutThere

\* A context that is put in the dictionary of its plugin under its name, where
\* there was none, is held.
LEMMA PutIsSound ==
    ASSUME simple_hash \in Hashes, NEW h, NEW c \in DOMAIN h.contexts,
           HeapBut(simple_hash, h, c), h.contexts[c].frees = 0,
           NEW e, e = h.contexts[c].entry, NEW n, n = h.contexts[c].name,
           \A v : Has(h, e, n, v) => v = NoCtx
    PROVE  LET g == [h EXCEPT !.entries[e].instances = D!DPut(@, n, c)] IN
           Heap(simple_hash, g) /\ g.contexts = h.contexts
<1> DEFINE g == [h EXCEPT !.entries[e].instances = D!DPut(@, n, c)]
<1>1. Plugins(simple_hash, h) /\ Held(h, c) /\ Record(h)
  BY DEF HeapBut, Plugins
<1>2. /\ e \in DOMAIN h.entries /\ n \in Names
      /\ \A x \in DOMAIN h.contexts : /\ Context(h, h.contexts[x])
                                      /\ h.contexts[x].entry \in DOMAIN h.entries
  BY <1>1 DEF Held, Context
<1> PICK d : d = D!DPut(h.entries[e].instances, n, c)
  OBVIOUS
<1>3. /\ g.entries = [h.entries EXCEPT ![e].instances = d]
      /\ g.table = h.table /\ g.contexts = h.contexts
      /\ DOMAIN g = {"table", "entries", "contexts"}
      /\ g = [table |-> g.table, entries |-> g.entries, contexts |-> g.contexts]
  BY <1>1 DEF Record
<1> HIDE DEF g
<1>4. Record(g)
  <2>1. Len(h.entries) \in Nat /\ DOMAIN h.entries = 1 .. Len(h.entries)
        /\ h.entries = [i \in 1 .. Len(h.entries) |-> h.entries[i]]
    BY <1>1, Positions
  <2>2. g.entries = [i \in 1 .. Len(h.entries) |-> g.entries[i]]
    BY <2>1, <1>3
  <2>3. IsSeq(g.entries)
    BY <2>1, <2>2, IsSeqOfLen
  <2> QED
    BY <2>3, <1>1, <1>3 DEF Record
<1>5. /\ Plugins(simple_hash, g)
      /\ DOMAIN g.entries = DOMAIN h.entries
      /\ \A i \in DOMAIN h.entries : g.entries[i].file = h.entries[i].file
      /\ \A i \in DOMAIN h.entries : \A k, w : Has(g, i, k, w) <=>
                IF i = e /\ k = n THEN w = c ELSE Has(h, i, k, w)
  <2>1. PICK q, v, z : q = g /\ v = c /\ z = [h.entries[e] EXCEPT !.instances = d]
    OBVIOUS
  <2> PICK y : y = h.entries[e]
    OBVIOUS
  <2>2. y = [file |-> y.file, open |-> y.open, instances |-> y.instances]
    BY <1>1, <1>2 DEF Plugins, Entry
  <2>3. z = [file |-> y.file, open |-> y.open, instances |-> d]
    BY <2>1, <2>2
  <2>4. /\ Plugins(simple_hash, h) /\ simple_hash \in Hashes /\ Record(q)
        /\ e \in DOMAIN h.entries /\ n \in Names
        /\ OnlyEntry(h, q, e) /\ q.entries[e] = z
        /\ z = [file |-> z.file, open |-> z.open, instances |-> z.instances]
        /\ z.file = h.entries[e].file /\ z.open = h.entries[e].open
        /\ z.instances = D!DPut(h.entries[e].instances, n, v)
    BY <2>1, <2>3, <1>1, <1>2, <1>3, <1>4 DEF OnlyEntry
  <2>5. Plugins(simple_hash, q) /\ PutThere(h, q, e, n, v)
    BY ONLY <2>4, PutInEntry, Zenon
  <2>6. Plugins(simple_hash, g) /\ PutThere(h, g, e, n, c)
    BY ONLY <2>1, <2>5, Zenon
  <2> QED
    BY ONLY <2>6, Zenon DEF PutThere
<1>6. ASSUME NEW x \in DOMAIN g.contexts
      PROVE  /\ Context(g, g.contexts[x])
             /\ g.contexts[x].frees = 0 =>
                    Has(g, g.contexts[x].entry, g.contexts[x].name, x)
  <2>1. g.contexts[x] = h.contexts[x] /\ x \in DOMAIN h.contexts
    BY <1>3
  <2>2. Context(g, g.contexts[x])
    <3>1. PICK y, m : y = h.contexts[x] /\ m = y.entry
      OBVIOUS
    <3>2. Context(h, y) /\ m \in DOMAIN h.entries
      BY <2>1, <3>1, <1>2
    <3>3. m \in DOMAIN g.entries /\ g.entries[m].file = h.entries[m].file
      BY <3>2, <1>5
    <3>4. Context(g, y)
      BY <3>1, <3>2, <3>3 DEF Context
    <3> QED
      BY <2>1, <3>1, <3>4
  <2>3. CASE x = c
    BY <2>1, <2>2, <2>3, <1>2, <1>5
  <2>4. CASE x # c /\ h.contexts[x].frees = 0
    <3>1. Has(h, h.contexts[x].entry, h.contexts[x].name, x)
      BY <2>1, <2>4, <1>1 DEF Held
    <3>2. x # NoCtx
      <4>1. DOMAIN h.contexts = 1 .. Len(h.contexts)
        BY <1>1, Positions
      <4> QED
        BY <2>1, <4>1 DEF NoCtx
    <3>3. ~(h.contexts[x].entry = e /\ h.contexts[x].name = n)
      BY <3>1, <3>2
    <3> QED
      BY <2>1, <2>2, <3>1, <3>3, <1>2, <1>5
  <2> QED
    BY <2>1, <2>2, <2>3, <2>4
<1>7. ASSUME NEW i \in DOMAIN g.entries, NEW k, NEW v, Has(g, i, k, v), v # NoCtx
      PROVE  /\ v \in DOMAIN g.contexts
             /\ g.contexts[v].entry = i /\ g.contexts[v].name = k
             /\ g.contexts[v].frees = 0
  <2>1. CASE i = e /\ k = n
    BY <2>1, <1>3, <1>5, <1>7
  <2>2. CASE ~(i = e /\ k = n)
    <3>1. i \in DOMAIN h.entries /\ Has(h, i, k, v)
      BY <2>2, <1>5, <1>7
    <3>2. /\ v \in DOMAIN h.contexts
          /\ h.contexts[v].entry = i /\ h.contexts[v].name = k
          /\ h.contexts[v].frees = 0
      BY ONLY <3>1, <1>1, <1>7 DEF Held
    <3> QED
      BY <3>2, <1>3
  <2> QED
    BY <2>1, <2>2
<1>8. Heap(simple_hash, g)
  BY <1>5, <1>6, <1>7 DEF Heap, HeapBut, Held
<1> QED
  BY <1>3, <1>8 DEF g

\* antd_plugin_ctx_drop frees a context that is not ready, once, and nobody
\* holds it after.
LEMMA DropIsSound ==
    ASSUME simple_hash \in Hashes, NEW h, NEW c \in DOMAIN h.contexts,
           HeapBut(simple_hash, h, c), h.contexts[c].frees = 0,
           h.contexts[c].status # "ready",
           \A v : Has(h, h.contexts[c].entry, h.contexts[c].name, v) => v \in {c, NoCtx}
    PROVE  /\ Heap(simple_hash, CtxDrop(h, c))
           /\ DOMAIN CtxDrop(h, c).contexts = DOMAIN h.contexts
           /\ \A x \in DOMAIN h.contexts :
                CtxDrop(h, c).contexts[x].name = h.contexts[x].name
<1> DEFINE g == CtxDrop(h, c)
           y == h.contexts[c]
<1>1. PICK e, n : e = y.entry /\ n = y.name
  OBVIOUS
<1>2. Plugins(simple_hash, h) /\ Held(h, c) /\ Record(h)
  BY DEF HeapBut, Plugins
<1>3. /\ \A x \in DOMAIN h.contexts : /\ Context(h, h.contexts[x])
                                      /\ h.contexts[x].entry \in DOMAIN h.entries
  BY <1>2 DEF Held, Context
<1>4. e \in DOMAIN h.entries /\ n \in Names
  BY <1>1, <1>3 DEF Context
<1>5. PICK z : z = Released(y)
  OBVIOUS
<1>6. /\ z.name = n /\ z.entry = e /\ z.status = y.status /\ z.frees = 1
      /\ z.drops \in 0 .. 1
      /\ z = [name |-> z.name, entry |-> z.entry, drops |-> z.drops,
              frees |-> z.frees, droppable |-> z.droppable, status |-> z.status]
  <2>1. /\ y = [name |-> y.name, entry |-> y.entry, drops |-> y.drops,
                frees |-> y.frees, droppable |-> y.droppable, status |-> y.status]
        /\ y.drops = 0 /\ y.frees = 0
    BY <1>3 DEF Context
  <2>2. z = [name |-> y.name, entry |-> y.entry,
             drops |-> IF y.droppable THEN y.drops + 1 ELSE y.drops,
             frees |-> y.frees + 1, droppable |-> y.droppable, status |-> y.status]
    BY <2>1, <1>5 DEF Released
  <2> QED
    BY <2>1, <2>2, <1>1
<1> PICK d : d = D!DPut(h.entries[e].instances, n, NoCtx)
  OBVIOUS
<1>7. g = [h EXCEPT !.contexts[c] = z, !.entries[e].instances = d]
  BY <1>1, <1>5 DEF CtxDrop
<1> HIDE DEF g
<1>8. /\ g.entries = [h.entries EXCEPT ![e].instances = d]
      /\ g.contexts = [h.contexts EXCEPT ![c] = z]
      /\ g.table = h.table
      /\ DOMAIN g = {"table", "entries", "contexts"}
      /\ g = [table |-> g.table, entries |-> g.entries, contexts |-> g.contexts]
  BY <1>2, <1>7 DEF Record
<1>9. Record(g)
  <2>1. /\ Len(h.entries) \in Nat /\ DOMAIN h.entries = 1 .. Len(h.entries)
        /\ h.entries = [i \in 1 .. Len(h.entries) |-> h.entries[i]]
        /\ Len(h.contexts) \in Nat /\ DOMAIN h.contexts = 1 .. Len(h.contexts)
        /\ h.contexts = [i \in 1 .. Len(h.contexts) |-> h.contexts[i]]
    BY <1>2, Positions
  <2>2. /\ g.entries = [i \in 1 .. Len(h.entries) |-> g.entries[i]]
        /\ g.contexts = [i \in 1 .. Len(h.contexts) |-> g.contexts[i]]
    BY <2>1, <1>8
  <2>3. IsSeq(g.entries) /\ IsSeq(g.contexts)
    BY <2>1, <2>2, IsSeqOfLen
  <2> QED
    BY <2>3, <1>2, <1>8 DEF Record
<1>10. /\ Plugins(simple_hash, g)
       /\ DOMAIN g.entries = DOMAIN h.entries
       /\ \A i \in DOMAIN h.entries : g.entries[i].file = h.entries[i].file
       /\ \A i \in DOMAIN h.entries : \A k, w : Has(g, i, k, w) <=>
                IF i = e /\ k = n THEN w = NoCtx ELSE Has(h, i, k, w)
  <2>1. PICK q, v, u : q = g /\ v = NoCtx /\ u = [h.entries[e] EXCEPT !.instances = d]
    OBVIOUS
  <2> PICK o : o = h.entries[e]
    OBVIOUS
  <2>2. o = [file |-> o.file, open |-> o.open, instances |-> o.instances]
    BY <1>2, <1>4 DEF Plugins, Entry
  <2>3. u = [file |-> o.file, open |-> o.open, instances |-> d]
    BY <2>1, <2>2
  <2>4. /\ Plugins(simple_hash, h) /\ simple_hash \in Hashes /\ Record(q)
        /\ e \in DOMAIN h.entries /\ n \in Names
        /\ OnlyEntry(h, q, e) /\ q.entries[e] = u
        /\ u = [file |-> u.file, open |-> u.open, instances |-> u.instances]
        /\ u.file = h.entries[e].file /\ u.open = h.entries[e].open
        /\ u.instances = D!DPut(h.entries[e].instances, n, v)
    BY <2>1, <2>3, <1>2, <1>4, <1>8, <1>9 DEF OnlyEntry
  <2>5. Plugins(simple_hash, q) /\ PutThere(h, q, e, n, v)
    BY ONLY <2>4, PutInEntry, Zenon
  <2>6. Plugins(simple_hash, g) /\ PutThere(h, g, e, n, NoCtx)
    BY ONLY <2>1, <2>5, Zenon
  <2> QED
    BY ONLY <2>6, Zenon DEF PutThere
<1>11. /\ DOMAIN g.contexts = DOMAIN h.contexts
       /\ g.contexts[c] = z
       /\ \A x \in DOMAIN h.contexts : x # c => g.contexts[x] = h.contexts[x]
  BY <1>8
<1>12. c \in Nat \ {0} /\ \A x \in DOMAIN h.contexts : x # NoCtx
  <2>1. DOMAIN h.contexts = 1 .. Len(h.contexts)
    BY <1>2, Positions
  <2> QED
    BY <2>1 DEF NoCtx
<1>13. ASSUME NEW x \in DOMAIN g.contexts
       PROVE  /\ Context(g, g.contexts[x])
              /\ g.contexts[x].frees = 0 =>
                    Has(g, g.contexts[x].entry, g.contexts[x].name, x)
  <2>1. CASE x = c
    <3>1. h.entries[e].file = File[n]
      BY <1>1, <1>3 DEF Context
    <3> QED
      BY <2>1, <3>1, <1>4, <1>6, <1>10, <1>11 DEF Context
  <2>2. CASE x # c
    <3>1. g.contexts[x] = h.contexts[x] /\ x \in DOMAIN h.contexts
      BY <2>2, <1>11
    <3>2. Context(g, g.contexts[x])
      BY <3>1, <1>3, <1>10 DEF Context
    <3>3. h.contexts[x].frees = 0 => Has(h, h.contexts[x].entry, h.contexts[x].name, x)
      BY <2>2, <3>1, <1>2 DEF Held
    <3>4. h.contexts[x].frees = 0 => ~(h.contexts[x].entry = e /\ h.contexts[x].name = n)
      BY <2>2, <3>1, <3>3, <1>1, <1>12
    <3> QED
      BY <3>1, <3>2, <3>3, <3>4, <1>3, <1>10
  <2> QED
    BY <2>1, <2>2
<1>14. ASSUME NEW i \in DOMAIN g.entries, NEW k, NEW v, Has(g, i, k, v), v # NoCtx
       PROVE  /\ v \in DOMAIN g.contexts
              /\ g.contexts[v].entry = i /\ g.contexts[v].name = k
              /\ g.contexts[v].frees = 0
  <2>1. i \in DOMAIN h.entries /\ Has(h, i, k, v) /\ ~(i = e /\ k = n)
    BY <1>10, <1>14
  <2>2. /\ v \in DOMAIN h.contexts
        /\ h.contexts[v].entry = i /\ h.contexts[v].name = k
        /\ h.contexts[v].frees = 0
    BY <2>1, <1>2, <1>14 DEF Held
  <2>3. v # c
    BY <2>1, <2>2, <1>1
  <2> QED
    BY <2>2, <2>3, <1>11
<1>15. Heap(simple_hash, g)
  BY <1>10, <1>13, <1>14 DEF Heap, HeapBut, Held
<1> QED
  BY <1>1, <1>6, <1>11, <1>15 DEF g

\* antd_plugin_load and what execute_plugin does with the context.
LEMMA LoadKeeps ==
    ASSUME PlugInv, up, NEW r \in Requests, NEW n \in Names, NEW how \in Creations,
           LoadFor(r, n, how), UNCHANGED <<simple_hash, up>>
    PROVE  PlugInv'
<1> DEFINE found == PluginLookup(heap, File[n])
<1>1. /\ simple_hash \in Hashes /\ serving = [q \in Requests |-> serving[q]]
      /\ Heap(simple_hash, heap) /\ Plugins(simple_hash, heap)
      /\ \A q \in Requests : Served(heap, serving[q])
  BY DEF PlugInv, Heap, HeapBut
<1>2. PICK h : h = IF found = 0 THEN NewEntry(heap, n) ELSE heap
  OBVIOUS
<1>3. PICK e : e = IF found = 0 THEN Len(h.entries) ELSE found
  OBVIOUS
<1>4. /\ Heap(simple_hash, h) /\ h.contexts = heap.contexts
      /\ e \in DOMAIN h.entries /\ h.entries[e].file = File[n]
  <2>1. CASE found = 0
    <3>1. h = NewEntry(heap, n) /\ e = Len(h.entries)
      BY <2>1, <1>2, <1>3
    <3>2. /\ Heap(simple_hash, NewEntry(heap, n))
          /\ NewEntry(heap, n).contexts = heap.contexts
          /\ Len(NewEntry(heap, n).entries) \in DOMAIN NewEntry(heap, n).entries
          /\ NewEntry(heap, n).entries[Len(NewEntry(heap, n).entries)].file = File[n]
      BY <2>1, <1>1, NewEntryIsSound
    <3> QED
      BY <3>1, <3>2
  <2>2. CASE found # 0
    <3>1. File[n] \in Files
      BY PluginAssumption
    <3>2. found \in DOMAIN heap.entries /\ heap.entries[found].file = File[n]
      BY <3>1, <2>2, <1>1, PluginIsFound
    <3> QED
      BY <3>2, <2>2, <1>1, <1>2, <1>3
  <2> QED
    BY <2>1, <2>2
<1>5. PICK got : got = CtxLookup(h, e, n, how)
  OBVIOUS
<1> DEFINE refused == got.ctx = NoCtx \/ ~Ready(got.heap, got.ctx)
<1>6. /\ heap' = IF got.ctx # NoCtx /\ refused THEN CtxDrop(got.heap, got.ctx)
                 ELSE got.heap
      /\ serving' = [serving EXCEPT ![r] =
                [at |-> IF refused THEN "refused" ELSE "served", name |-> n,
                 ctx |-> IF refused THEN NoCtx ELSE got.ctx]]
  BY <1>2, <1>3, <1>5 DEF LoadFor
<1> HIDE DEF found
<1>7. PICK c : c = D!DValue(h.entries[e].instances, n)
  OBVIOUS
<1>8. PICK new : new = Len(h.contexts) + 1
  OBVIOUS
<1>9. PICK h1 : h1 = NewContext(h, e, n, how)
  OBVIOUS
<1>10. got = IF c # NoCtx THEN [heap |-> h, ctx |-> c]
             ELSE IF how # "ready" THEN [heap |-> CtxDrop(h1, new), ctx |-> NoCtx]
             ELSE [heap |-> [h1 EXCEPT !.entries[e].instances = D!DPut(@, n, new)],
                   ctx |-> new]
  BY <1>5, <1>7, <1>8, <1>9 DEF CtxLookup, Failed
<1>11. Plugins(simple_hash, h) /\ Held(h, NoCtx) /\ Record(h)
  BY <1>4 DEF Heap, HeapBut, Plugins
<1>12. \A v : v # NoCtx => (c = v <=> Has(h, e, n, v))
  <2>1. DictHash(n) \in 0 .. DictSize - 1
    BY <1>1, HashIsBucket
  <2>2. Dict(simple_hash, h.entries[e].instances)
    BY <1>4, <1>11 DEF Plugins, Entry
  <2> QED
    BY <2>1, <2>2, <1>7, ValueIsHeld DEF Has
<1> DEFINE Kept(g) == /\ DOMAIN h.contexts \subseteq DOMAIN g.contexts
                      /\ \A x \in DOMAIN h.contexts : g.contexts[x].name = h.contexts[x].name
<1>13. /\ Heap(simple_hash, heap') /\ Kept(heap')
       /\ ~refused => got.ctx \in DOMAIN heap'.contexts /\ heap'.contexts[got.ctx].name = n
  <2>1. CASE c # NoCtx
    <3>1. got.heap = h /\ got.ctx = c
      BY <2>1, <1>10
    <3>2. /\ c \in DOMAIN h.contexts
          /\ h.contexts[c].entry = e /\ h.contexts[c].name = n /\ h.contexts[c].frees = 0
      BY <2>1, <1>4, <1>11, <1>12 DEF Held
    <3>3. CASE Ready(h, c)
      BY <3>1, <3>2, <3>3, <1>4, <1>6
    <3>4. CASE ~Ready(h, c)
      <4>1. HeapBut(simple_hash, h, c)
        <5>1. DOMAIN h.contexts = 1 .. Len(h.contexts)
          BY <1>11, Positions
        <5>2. \A x \in DOMAIN h.contexts : x # NoCtx
          BY <5>1 DEF NoCtx
        <5> QED
          BY <5>2, <1>11 DEF HeapBut, Held
      <4>2. h.contexts[c].status # "ready"
        BY <3>4 DEF Ready
      <4>3. \A v : Has(h, h.contexts[c].entry, h.contexts[c].name, v) => v \in {c, NoCtx}
        BY <3>2, <1>12
      <4>4. Heap(simple_hash, CtxDrop(h, c)) /\ Kept(CtxDrop(h, c))
        BY <4>1, <4>2, <4>3, <3>2, <1>1, DropIsSound
      <4>5. heap' = CtxDrop(h, c) /\ refused
        BY <2>1, <3>1, <3>4, <1>6
      <4> QED
        BY <4>4, <4>5
    <3> QED
      BY <3>3, <3>4
  <2>2. CASE c = NoCtx
    <3>1. \A v : Has(h, e, n, v) => v = NoCtx
      BY <2>2, <1>12
    <3>2. /\ HeapBut(simple_hash, h1, new)
          /\ h1.entries = h.entries
          /\ DOMAIN h1.contexts = DOMAIN h.contexts \cup {new}
          /\ new \in Nat \ {0}
          /\ \A x \in DOMAIN h.contexts : h1.contexts[x] = h.contexts[x]
          /\ h1.contexts[new].name = n /\ h1.contexts[new].entry = e
          /\ h1.contexts[new].frees = 0
          /\ how # "ready" => h1.contexts[new].status # "ready"
          /\ how = "ready" => h1.contexts[new].status = "ready"
      BY <1>4, <1>8, <1>9, NewContextIsSound
    <3>3. new \in DOMAIN h1.contexts /\ Kept(h1)
      BY <3>2
    <3>4. \A v : Has(h1, e, n, v) => v = NoCtx
      BY <3>1, <3>2 DEF Has
    <3>5. CASE how # "ready"
      <4>1. /\ Heap(simple_hash, CtxDrop(h1, new))
            /\ DOMAIN CtxDrop(h1, new).contexts = DOMAIN h1.contexts
            /\ \A x \in DOMAIN h1.contexts :
                CtxDrop(h1, new).contexts[x].name = h1.contexts[x].name
        BY <3>2, <3>3, <3>4, <3>5, <1>1, DropIsSound
      <4>2. got.heap = CtxDrop(h1, new) /\ got.ctx = NoCtx
        BY <2>2, <3>5, <1>10
      <4>3. heap' = CtxDrop(h1, new) /\ refused
        BY <4>2, <1>6
      <4> QED
        BY <4>1, <4>3, <3>3
    <3>6. CASE how = "ready"
      <4>1. PICK g : g = [h1 EXCEPT !.entries[e].instances = D!DPut(@, n, new)]
        OBVIOUS
      <4>2. Heap(simple_hash, g) /\ g.contexts = h1.contexts
        BY <3>2, <3>3, <3>4, <4>1, <1>1, PutIsSound
      <4>3. got.heap = g /\ got.ctx = new
        BY <2>2, <3>6, <4>1, <1>10
      <4>4. Ready(g, new) /\ new # NoCtx
        BY <3>2, <3>6, <4>2 DEF Ready, NoCtx
      <4>5. heap' = g
        BY <4>3, <4>4, <1>6
      <4> QED
        BY <3>2, <3>3, <4>2, <4>3, <4>5
    <3> QED
      BY <3>5, <3>6
  <2> QED
    BY <2>1, <2>2
<1> HIDE DEF refused
<1>14. ASSUME NEW q \in Requests PROVE Served(heap', serving'[q])
  <2>1. CASE q = r
    <3>1. serving'[q] = [at |-> IF refused THEN "refused" ELSE "served", name |-> n,
                         ctx |-> IF refused THEN NoCtx ELSE got.ctx]
      BY <2>1, <1>1, <1>6
    <3>2. CASE refused
      BY <3>1, <3>2 DEF Served
    <3>3. CASE ~refused
      BY <3>1, <3>3, <1>13 DEF Served
    <3> QED
      BY <3>2, <3>3
  <2>2. CASE q # r
    <3>1. serving'[q] = serving[q]
      BY <2>2, <1>1, <1>6
    <3> QED
      BY <3>1, <1>1, <1>4, <1>13 DEF Served
  <2> QED
    BY <2>1, <2>2
<1>15. serving' = [q \in Requests |-> serving'[q]]
  BY <1>1, <1>6
<1> QED
  BY <1>1, <1>13, <1>14, <1>15 DEF PlugInv

\* antd_unload_all_plugin frees every context that is left and closes every
\* library.
LEMMA UnloadIsSound ==
    ASSUME NEW h, Heap(simple_hash, h), simple_hash \in Hashes
    PROVE  Unloaded(simple_hash, UnloadAll(h))
<1> PICK E : E = Chained(h)
  OBVIOUS
<1> PICK u : u = Unchained(h)
  OBVIOUS
<1> PICK g : g = DropContexts(u, E)
  OBVIOUS
<1> PICK k : k = CloseEntries(g, E)
  OBVIOUS
<1>1. UnloadAll(h) = k
  BY DEF UnloadAll
<1>2. Plugins(simple_hash, h) /\ Held(h, NoCtx) /\ Record(h)
  BY DEF Heap, HeapBut, Plugins
<1>3. E = DOMAIN h.entries
  <2>1. DOMAIN h.table = 0 .. TableSize - 1
    BY <1>2 DEF Record
  <2>2. \A b \in 0 .. TableSize - 1 : \A e : e \in Range(h.table[b]) <=> Contains(h.table[b], e)
    <3> SUFFICES ASSUME NEW b \in 0 .. TableSize - 1, NEW e
                 PROVE  e \in Range(h.table[b]) <=> Contains(h.table[b], e)
      OBVIOUS
    <3>1. DOMAIN h.table[b] = 1 .. Len(h.table[b])
      BY <1>2, SeqLen DEF Record
    <3> QED
      BY <3>1 DEF Range, Contains
  <2>3. \A e : e \in E <=> \E b \in 0 .. TableSize - 1 : Contains(h.table[b], e)
    BY <2>1, <2>2 DEF Chained
  <2>4. ASSUME NEW e \in DOMAIN h.entries PROVE e \in E
    <3>1. PICK n \in Names : Contains(h.table[simple_hash[n] % TableSize], e)
      BY <1>2 DEF Plugins, InBucket
    <3>2. simple_hash[n] % TableSize \in 0 .. TableSize - 1
      BY HashIsBucket DEF TableHash
    <3> QED
      BY <3>1, <3>2, <2>3
  <2>5. ASSUME NEW e \in E PROVE e \in DOMAIN h.entries
    BY <2>3, <1>2 DEF Plugins
  <2> QED
    BY <2>4, <2>5
<1>4. /\ u.entries = h.entries /\ u.contexts = h.contexts
      /\ DOMAIN u = {"table", "entries", "contexts"}
  BY <1>2 DEF Unchained, Record
<1>5. PICK V : V = Values(u, E)
  OBVIOUS
<1>6. \A c : c \in V <=> c # NoCtx /\ \E e \in DOMAIN h.entries : \E n : Has(h, e, n, c)
  <2>1. \A c : c \in V <=> \E e \in DOMAIN h.entries : c \in D!DValues(h.entries[e].instances)
    BY <1>3, <1>4, <1>5 DEF Values
  <2>2. \A e, c : c \in D!DValues(h.entries[e].instances) <=>
                    c # NoCtx /\ \E n : Has(h, e, n, c)
    BY ValuesAreHeld DEF Has
  <2> QED
    BY <2>1, <2>2
<1>7. /\ g.contexts = [c \in DOMAIN h.contexts |->
            IF c \in V THEN Released(h.contexts[c]) ELSE h.contexts[c]]
      /\ g.entries = [e \in DOMAIN h.entries |->
            IF e \in E THEN Forgotten(h.entries[e]) ELSE h.entries[e]]
      /\ DOMAIN g = {"table", "entries", "contexts"}
  <2>1. PICK A : A = [c \in DOMAIN u.contexts |->
            IF c \in Values(u, E) THEN Released(u.contexts[c]) ELSE u.contexts[c]]
    OBVIOUS
  <2>2. PICK B : B = [e \in DOMAIN u.entries |->
            IF e \in E THEN Forgotten(u.entries[e]) ELSE u.entries[e]]
    OBVIOUS
  <2>3. g = [u EXCEPT !.contexts = A, !.entries = B]
    BY <2>1, <2>2 DEF DropContexts
  <2>4. g.contexts = A /\ g.entries = B /\ DOMAIN g = {"table", "entries", "contexts"}
    BY <2>3, <1>4
  <2> QED
    BY <2>1, <2>2, <2>4, <1>4, <1>5
<1>8. ASSUME NEW e \in DOMAIN h.entries
      PROVE  /\ g.entries[e] = [file |-> h.entries[e].file, open |-> h.entries[e].open,
                                instances |-> D!DForget(h.entries[e].instances)]
             /\ Dict(simple_hash, g.entries[e].instances)
             /\ D!DValues(g.entries[e].instances) = {}
  <2>1. PICK y : y = h.entries[e]
    OBVIOUS
  <2>2. /\ y = [file |-> y.file, open |-> y.open, instances |-> y.instances]
        /\ Dict(simple_hash, y.instances)
    BY <2>1, <1>2 DEF Plugins, Entry
  <2>3. PICK d : d = D!DForget(y.instances)
    OBVIOUS
  <2>4. Dict(simple_hash, d) /\ D!DValues(d) = {}
    BY <2>2, <2>3, ForgottenIsEmpty
  <2>5. g.entries[e] = [y EXCEPT !.instances = d]
    BY <2>1, <2>3, <1>3, <1>7 DEF Forgotten
  <2>6. g.entries[e] = [file |-> y.file, open |-> y.open, instances |-> d]
    BY <2>2, <2>5
  <2>7. g.entries[e].instances = d
    BY <2>6
  <2> QED
    BY <2>1, <2>3, <2>4, <2>6, <2>7
<1>9. Values(g, E) = {}
  BY <1>3, <1>8 DEF Values
<1>10. /\ k.contexts = [c \in DOMAIN h.contexts |-> g.contexts[c]]
       /\ k.entries = [e \in DOMAIN h.entries |-> Closed(g.entries[e])]
  BY <1>3, <1>7, <1>9 DEF CloseEntries
<1>11. ASSUME NEW e \in DOMAIN h.entries
       PROVE  /\ k.entries[e].file = h.entries[e].file
              /\ ~k.entries[e].open
              /\ k.entries[e].instances = g.entries[e].instances
  <2>1. PICK y : y = g.entries[e]
    OBVIOUS
  <2>2. PICK a, b, d : /\ a = h.entries[e].file /\ b = h.entries[e].open
                       /\ d = D!DForget(h.entries[e].instances)
    OBVIOUS
  <2>3. y = [file |-> a, open |-> b, instances |-> d]
    BY <2>1, <2>2, <1>8
  <2>4. y = [file |-> y.file, open |-> y.open, instances |-> y.instances]
        /\ y.file = h.entries[e].file
    BY <2>2, <2>3
  <2>5. k.entries[e] = [y EXCEPT !.open = FALSE]
    BY <2>1, <1>10 DEF Closed
  <2> QED
    BY <2>1, <2>4, <2>5
<1>12. ASSUME NEW c \in DOMAIN h.contexts
       PROVE  k.contexts[c].frees = 1 /\ k.contexts[c].drops \in 0 .. 1
  <2>1. PICK x : x = h.contexts[c]
    OBVIOUS
  <2>2. /\ x = [name |-> x.name, entry |-> x.entry, drops |-> x.drops,
                frees |-> x.frees, droppable |-> x.droppable, status |-> x.status]
        /\ x.frees \in 0 .. 1 /\ x.drops \in 0 .. 1 /\ x.drops <= x.frees
        /\ x.entry \in DOMAIN h.entries
    BY <2>1, <1>2 DEF Held, Context
  <2>3. c # NoCtx
    <3>1. DOMAIN h.contexts = 1 .. Len(h.contexts)
      BY <1>2, Positions
    <3> QED
      BY <3>1 DEF NoCtx
  <2>4. k.contexts[c] = IF c \in V THEN Released(x) ELSE x
    BY <2>1, <1>7, <1>10
  <2>5. CASE x.frees = 0
    <3>1. c \in V
      BY <2>1, <2>2, <2>3, <2>5, <1>2, <1>6 DEF Held
    <3>2. k.contexts[c] =
            [name |-> x.name, entry |-> x.entry,
             drops |-> IF x.droppable THEN x.drops + 1 ELSE x.drops,
             frees |-> x.frees + 1, droppable |-> x.droppable, status |-> x.status]
      BY <3>1, <2>2, <2>4 DEF Released
    <3> QED
      BY <3>2, <2>2, <2>5
  <2>6. CASE x.frees = 1
    <3>1. c \notin V
      BY <2>1, <2>6, <1>2, <1>6 DEF Held
    <3> QED
      BY <3>1, <2>2, <2>4, <2>6
  <2> QED
    BY <2>2, <2>5, <2>6
<1>13. DOMAIN k.entries = DOMAIN h.entries /\ DOMAIN k.contexts = DOMAIN h.contexts
  BY <1>10
<1>14. OnePerFile(simple_hash, k)
  BY <1>2, <1>11, <1>13 DEF OnePerFile, Plugins
<1>15. \A e \in DOMAIN k.entries : Dict(simple_hash, k.entries[e].instances) /\ ~k.entries[e].open
  <2> SUFFICES ASSUME NEW e \in DOMAIN h.entries
               PROVE  Dict(simple_hash, k.entries[e].instances) /\ ~k.entries[e].open
    BY <1>13
  <2>1. Dict(simple_hash, g.entries[e].instances)
    BY <1>8
  <2>2. k.entries[e].instances = g.entries[e].instances /\ ~k.entries[e].open
    BY <1>11
  <2> QED
    BY <2>1, <2>2
<1> QED
  BY <1>1, <1>12, <1>13, <1>14, <1>15 DEF Unloaded

-----------------------------------------------------------------------------
(***************************************************************************)
(* The theorems.                                                           *)
(***************************************************************************)

\* The server starts with an empty table.
LEMMA InitIsSound == Init => PlugInv
<1> SUFFICES ASSUME Init PROVE PlugInv
  OBVIOUS
<1>1. PICK t : t = [b \in 0 .. TableSize - 1 |-> <<>>]
  OBVIOUS
<1>2. heap = [table |-> t, entries |-> <<>>, contexts |-> <<>>]
  BY <1>1 DEF Init
<1>3. Record(heap) /\ DOMAIN heap.entries = {} /\ DOMAIN heap.contexts = {}
  BY <1>1, <1>2, EmptyIsSeq DEF Record
<1>4. \A b \in 0 .. TableSize - 1 : \A e : ~Contains(heap.table[b], e)
  BY <1>1, <1>2, EmptyIsSeq DEF Contains
<1>5. Heap(simple_hash, heap)
  BY <1>3, <1>4 DEF Heap, HeapBut, Plugins, Held, OnePerFile
<1>6. /\ simple_hash \in Hashes /\ up
      /\ serving = [r \in Requests |-> Idle]
      /\ Idle.at # "served"
  BY DEF Init, Idle
<1>7. \A r \in Requests : Served(heap, serving[r])
  BY <1>6 DEF Served
<1> QED
  BY <1>5, <1>6, <1>7 DEF PlugInv

\* Every step keeps the invariant.
LEMMA StepIsSound == PlugInv /\ Next => PlugInv'
<1> SUFFICES ASSUME PlugInv, Next PROVE PlugInv'
  OBVIOUS
<1>1. CASE Stop
  <2>1. up /\ ~up' /\ serving' = [r \in Requests |-> Idle] /\ simple_hash' = simple_hash
        /\ heap' = UnloadAll(heap)
    BY <1>1 DEF Stop
  <2>2. simple_hash \in Hashes /\ Heap(simple_hash, heap)
    BY <2>1 DEF PlugInv
  <2>3. Unloaded(simple_hash, heap')
    BY <2>1, <2>2, UnloadIsSound
  <2> QED
    BY <2>1, <2>2, <2>3 DEF PlugInv
<1>2. ASSUME NEW r \in Requests, Load(r) PROVE PlugInv'
  <2>1. PICK n \in Names, how \in Creations : LoadFor(r, n, how)
    BY <1>2 DEF Load
  <2>2. up /\ UNCHANGED <<simple_hash, up>>
    BY <1>2 DEF Load
  <2> QED
    BY <2>1, <2>2, LoadKeeps
<1>3. ASSUME NEW r \in Requests, LoadFails(r) PROVE PlugInv'
  <2>1. PICK n \in Names :
            serving' = [serving EXCEPT ![r] = [Idle EXCEPT !.at = "refused", !.name = n]]
    BY <1>3 DEF LoadFails
  <2>2. up /\ UNCHANGED <<simple_hash, heap, up>>
    BY <1>3 DEF LoadFails
  <2>3. [Idle EXCEPT !.at = "refused", !.name = n].at = "refused"
    BY DEF Idle
  <2>4. \A q \in Requests : Served(heap, serving'[q])
    BY <2>1, <2>2, <2>3 DEF PlugInv, Served
  <2>5. serving' = [q \in Requests |-> serving'[q]]
    BY <2>1 DEF PlugInv
  <2> QED
    BY <2>2, <2>4, <2>5 DEF PlugInv
<1>4. ASSUME NEW r \in Requests, Panic(r) PROVE PlugInv'
  <2>1. PICK c : c = serving[r].ctx
    OBVIOUS
  <2>2. /\ up /\ UNCHANGED <<simple_hash, serving, up>>
        /\ serving[r].at = "served" /\ heap.contexts[c].frees = 0
        /\ heap' = [heap EXCEPT !.contexts[c].status = "pannic"]
    BY <1>4, <2>1 DEF Panic
  <2>3. /\ Plugins(simple_hash, heap) /\ Held(heap, NoCtx) /\ Record(heap)
        /\ \A q \in Requests : Served(heap, serving[q])
    BY <2>2 DEF PlugInv, Heap, HeapBut, Plugins
  <2>4. c \in DOMAIN heap.contexts
    BY <2>1, <2>2, <2>3 DEF Served
  <2>5. PICK x : x = heap.contexts[c]
    OBVIOUS
  <2>6. Context(heap, x)
    BY <2>3, <2>4, <2>5 DEF Held
  <2>7. PICK y : y = [x EXCEPT !.status = "pannic"]
    OBVIOUS
  <2>8. /\ y = [name |-> x.name, entry |-> x.entry, drops |-> x.drops,
                frees |-> x.frees, droppable |-> x.droppable, status |-> "pannic"]
        /\ y.name = x.name /\ y.entry = x.entry /\ y.frees = x.frees
    BY <2>6, <2>7 DEF Context
  <2>9. /\ heap'.contexts = [heap.contexts EXCEPT ![c] = y]
        /\ heap'.table = heap.table /\ heap'.entries = heap.entries
        /\ DOMAIN heap' = {"table", "entries", "contexts"}
        /\ heap' = [table |-> heap'.table, entries |-> heap'.entries,
                    contexts |-> heap'.contexts]
    BY <2>2, <2>3, <2>5, <2>7 DEF Record
  <2>10. /\ DOMAIN heap'.contexts = DOMAIN heap.contexts
         /\ \A z \in DOMAIN heap.contexts :
                heap'.contexts[z] = IF z = c THEN y ELSE heap.contexts[z]
    BY <2>9
  <2>11. Record(heap')
    <3>1. /\ Len(heap.contexts) \in Nat /\ DOMAIN heap.contexts = 1 .. Len(heap.contexts)
          /\ heap.contexts = [i \in 1 .. Len(heap.contexts) |-> heap.contexts[i]]
      BY <2>3, Positions
    <3>2. heap'.contexts = [i \in 1 .. Len(heap.contexts) |-> heap'.contexts[i]]
      BY <3>1, <2>9
    <3>3. IsSeq(heap'.contexts)
      BY <3>1, <3>2, IsSeqOfLen
    <3> QED
      BY <3>3, <2>3, <2>9 DEF Record
  <2>12. Plugins(simple_hash, heap')
    BY <2>3, <2>9, <2>11, SameTable DEF Plugins
  <2>13. Context(heap', y)
    BY <2>6, <2>8, <2>9 DEF Context
  <2>14. \A i, k, v : Has(heap', i, k, v) <=> Has(heap, i, k, v)
    BY <2>9 DEF Has
  <2>15. \A z \in DOMAIN heap.contexts : Context(heap, heap.contexts[z]) =>
                                            Context(heap', heap.contexts[z])
    BY <2>9 DEF Context
  <2>16. Held(heap', NoCtx)
    <3>1. ASSUME NEW z \in DOMAIN heap.contexts
          PROVE  /\ Context(heap', heap'.contexts[z])
                 /\ heap'.contexts[z].name = heap.contexts[z].name
                 /\ heap'.contexts[z].entry = heap.contexts[z].entry
                 /\ heap'.contexts[z].frees = heap.contexts[z].frees
      <4>1. Context(heap, heap.contexts[z])
        BY <2>3 DEF Held
      <4>2. CASE z = c
        BY <4>2, <2>5, <2>8, <2>10, <2>13
      <4>3. CASE z # c
        BY <4>1, <4>3, <2>10, <2>15
      <4> QED
        BY <4>2, <4>3
    <3>2. ASSUME NEW z \in DOMAIN heap.contexts, heap.contexts[z].frees = 0, z # NoCtx
          PROVE  Has(heap', heap.contexts[z].entry, heap.contexts[z].name, z)
      BY <3>2, <2>3, <2>14 DEF Held
    <3>3. ASSUME NEW e \in DOMAIN heap.entries, NEW k, NEW v, Has(heap', e, k, v), v # NoCtx
          PROVE  /\ v \in DOMAIN heap.contexts
                 /\ heap.contexts[v].entry = e /\ heap.contexts[v].name = k
                 /\ heap.contexts[v].frees = 0
      BY <3>3, <2>3, <2>14 DEF Held
    <3> QED
      BY <3>1, <3>2, <3>3, <2>9, <2>10 DEF Held
  <2>17. \A q \in Requests : Served(heap', serving[q])
    BY <2>3, <2>5, <2>8, <2>10 DEF Served
  <2> QED
    BY <2>2, <2>12, <2>16, <2>17 DEF PlugInv, Heap, HeapBut
<1>5. ASSUME NEW r \in Requests, End(r) PROVE PlugInv'
  <2>1. up /\ UNCHANGED <<simple_hash, heap, up>> /\ serving' = [serving EXCEPT ![r] = Idle]
    BY <1>5 DEF End
  <2>2. Idle.at # "served"
    BY DEF Idle
  <2>3. \A q \in Requests : Served(heap, serving'[q])
    BY <2>1, <2>2 DEF PlugInv, Served
  <2>4. serving' = [q \in Requests |-> serving'[q]]
    BY <2>1 DEF PlugInv
  <2> QED
    BY <2>1, <2>3, <2>4 DEF PlugInv
<1> QED
  BY <1>1, <1>2, <1>3, <1>4, <1>5 DEF Next

\* The invariant of the plugin table, from which the next five follow.
THEOREM PluginsAreSound == Spec => []PlugInv
<1>1. PlugInv /\ [Next]_vars => PlugInv'
  <2>1. PlugInv /\ UNCHANGED vars => PlugInv'
    BY DEF PlugInv, vars
  <2> QED
    BY <2>1, StepIsSound
<1> QED
  BY <1>1, InitIsSound, PTL DEF Spec

\* No context is freed or dropped twice, by a failed creation, a load or the
\* unloading (antd_plugin_ctx_drop, antd_plugin_entry_drop).
THEOREM NothingIsDroppedTwice == Spec => []DroppedOnce
<1>1. ASSUME PlugInv PROVE DroppedOnce
  <2> SUFFICES ASSUME NEW c \in DOMAIN heap.contexts
               PROVE  heap.contexts[c].frees <= 1 /\ heap.contexts[c].drops <= 1
    BY DEF DroppedOnce, Contexts
  <2>1. CASE up
    <3>1. Context(heap, heap.contexts[c])
      BY <1>1, <2>1 DEF PlugInv, Heap, HeapBut, Held
    <3> QED
      BY <3>1 DEF Context
  <2>2. CASE ~up
    BY <1>1, <2>2 DEF PlugInv, Unloaded
  <2> QED
    BY <2>1, <2>2
<1> QED
  BY <1>1, PluginsAreSound, PTL

\* Until the server stops a context that is not freed is in the dictionary of
\* an open plugin that is in the table; after it none is left
\* (antd_plugin_ctx_lookup, antd_unload_all_plugin).
THEOREM NoContextIsLost == Spec => []ContextsOwned
<1>1. ASSUME PlugInv PROVE ContextsOwned
  <2>1. simple_hash \in Hashes
    BY <1>1 DEF PlugInv
  <2>2. CASE up
    <3>1. Plugins(simple_hash, heap) /\ Held(heap, NoCtx) /\ Record(heap)
      BY <1>1, <2>2 DEF PlugInv, Heap, HeapBut, Plugins
    <3>2. ASSUME NEW c \in DOMAIN heap.contexts, heap.contexts[c].frees = 0
          PROVE  LET x == heap.contexts[c] IN
                 /\ heap.entries[x.entry].open
                 /\ D!DValue(heap.entries[x.entry].instances, x.name) = c
      <4>1. PICK x, e, n : x = heap.contexts[c] /\ e = x.entry /\ n = x.name
        OBVIOUS
      <4>2. c # NoCtx
        <5>1. DOMAIN heap.contexts = 1 .. Len(heap.contexts)
          BY <3>1, Positions
        <5> QED
          BY <5>1 DEF NoCtx
      <4>3. Context(heap, x) /\ Has(heap, e, n, c)
        BY <3>1, <3>2, <4>1, <4>2 DEF Held
      <4>4. n \in Names /\ e \in DOMAIN heap.entries
        BY <4>1, <4>3 DEF Context
      <4>5. heap.entries[e].open /\ Dict(simple_hash, heap.entries[e].instances)
        BY <3>1, <4>4 DEF Plugins, Entry
      <4>6. DictHash(n) \in 0 .. DictSize - 1
        BY <2>1, <4>4, HashIsBucket
      <4>7. D!DValue(heap.entries[e].instances, n) = c
        BY <4>2, <4>3, <4>5, <4>6, ValueIsHeld DEF Has
      <4> QED
        BY <4>1, <4>5, <4>7
    <3>3. ASSUME NEW e \in DOMAIN heap.entries PROVE InTable(e)
      <4>1. PICK n \in Names : Contains(heap.table[simple_hash[n] % TableSize], e)
        BY <3>1 DEF Plugins, InBucket
      <4>2. simple_hash[n] % TableSize \in 0 .. TableSize - 1
        BY <2>1, HashIsBucket DEF TableHash
      <4>3. DOMAIN heap.table = 0 .. TableSize - 1
        BY <3>1 DEF Record
      <4> QED
        BY <4>1, <4>2, <4>3 DEF InTable
    <3>4. ASSUME NEW e \in DOMAIN heap.entries
          PROVE  D!WellFormed(heap.entries[e].instances)
      BY <3>1, DictIsWellFormed DEF Plugins, Entry
    <3> QED
      BY <2>2, <3>2, <3>3, <3>4 DEF ContextsOwned, Contexts, Entries, Live
  <2>3. CASE ~up
    <3>1. Unloaded(simple_hash, heap)
      BY <1>1, <2>3 DEF PlugInv
    <3>2. \A c \in DOMAIN heap.contexts : heap.contexts[c].frees # 0
      BY <3>1 DEF Unloaded
    <3>3. \A e \in DOMAIN heap.entries : /\ ~heap.entries[e].open
                                         /\ Dict(simple_hash, heap.entries[e].instances)
      BY <3>1 DEF Unloaded
    <3>4. \A e \in DOMAIN heap.entries : D!WellFormed(heap.entries[e].instances)
      BY <3>3, DictIsWellFormed
    <3> QED
      BY <3>2, <3>3, <3>4 DEF ContextsOwned, Contexts, Entries, Live
  <2> QED
    BY <2>2, <2>3
<1> QED
  BY <1>1, PluginsAreSound, PTL

\* Whatever else is in the bucket, a request gets the context of the name it
\* asked for, of the library of that name (plugin_lookup, dlookup).
THEOREM ContextsAreRight == Spec => []RightContext
<1>1. ASSUME PlugInv PROVE RightContext
  <2> SUFFICES ASSUME NEW r \in Requests, serving[r].at = "served"
               PROVE  LET x == heap.contexts[serving[r].ctx] IN
                      /\ x.name = serving[r].name
                      /\ heap.entries[x.entry].file = File[x.name]
    BY DEF RightContext
  <2>1. up
    <3>1. Idle.at # "served"
      BY DEF Idle
    <3>2. serving[r] # Idle
      BY <3>1
    <3>3. ~up => serving[r] = Idle
      BY <1>1 DEF PlugInv
    <3> QED
      BY <3>2, <3>3, Zenon
  <2>2. Served(heap, serving[r]) /\ Held(heap, NoCtx)
    BY <1>1, <2>1 DEF PlugInv, Heap, HeapBut
  <2>3. PICK c : c = serving[r].ctx
    OBVIOUS
  <2>4. c \in DOMAIN heap.contexts /\ heap.contexts[c].name = serving[r].name
    BY <2>2, <2>3 DEF Served
  <2>5. Context(heap, heap.contexts[c])
    BY <2>2, <2>4 DEF Held
  <2> QED
    BY <2>3, <2>4, <2>5 DEF Context
<1> QED
  BY <1>1, PluginsAreSound, PTL

\* A context is freed under a request only after a handler declared its panic
\* (antd_plugin_load).
THEOREM OnlyPanickedAreFreed == Spec => []HeldUnlessPanicked
<1>1. ASSUME PlugInv PROVE HeldUnlessPanicked
  <2> SUFFICES ASSUME NEW r \in Requests, serving[r].at = "served"
               PROVE  Live(serving[r].ctx) \/ ~Ready(heap, serving[r].ctx)
    BY DEF HeldUnlessPanicked
  <2>1. up
    <3>1. Idle.at # "served"
      BY DEF Idle
    <3>2. serving[r] # Idle
      BY <3>1
    <3>3. ~up => serving[r] = Idle
      BY <1>1 DEF PlugInv
    <3> QED
      BY <3>2, <3>3, Zenon
  <2>2. Served(heap, serving[r]) /\ Held(heap, NoCtx)
    BY <1>1, <2>1 DEF PlugInv, Heap, HeapBut
  <2>3. PICK c : c = serving[r].ctx
    OBVIOUS
  <2>4. c \in DOMAIN heap.contexts
    BY <2>2, <2>3 DEF Served
  <2>5. Context(heap, heap.contexts[c])
    BY <2>2, <2>4 DEF Held
  <2> QED
    BY <2>3, <2>5 DEF Context, Live, Ready
<1> QED
  BY <1>1, PluginsAreSound, PTL

\* A library is loaded once if every name of its file hashes to the bucket of
\* the file (plugin_lookup by the file, antd_plugin_load by the name).
THEOREM LoadedOnceIfInItsBucket == Spec => []LoadedOnceIfFound
<1>1. ASSUME PlugInv PROVE LoadedOnceIfFound
  <2>1. OnePerFile(simple_hash, heap)
    BY <1>1 DEF PlugInv, Heap, HeapBut, Plugins, Unloaded
  <2> QED
    BY <2>1 DEF OnePerFile, LoadedOnceIfFound, LoadedOnceFor, Entries, TableHash
<1> QED
  BY <1>1, PluginsAreSound, PTL

=============================================================================
