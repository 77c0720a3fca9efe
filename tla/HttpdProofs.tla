----------------------------- MODULE HttpdProofs -----------------------------
(***************************************************************************)
(* Theorems about Httpd, for any number of ports, connections and threads: *)
(* the counter of connections and the limit that main keeps with it.       *)
(***************************************************************************)
EXTENDS Httpd, FiniteSetTheorems, TLAPS

\* The accepted connection exists until its task has been added, and the
\* scheduler does not have it yet.
AcceptedOpen ==
    mpc \in {"accepted", "write", "add"} => accepted \in open \ serving

TypeInv == TypeOK /\ AcceptedOpen

\* Where every connection is counted, an increment or decrement is one step.
CountInv ==
    /\ Counted => /\ mpc \notin {"ssldec", "write"}
                  /\ \A th \in Threads : tpc[th] # "write"
    /\ CounterExact

\* What main may still add to the counter before it looks at the limit again:
\* after the look one connection for each port, of the ports that select
\* reported one each, of them the one accepted and not counted.
Reserved ==
    CASE mpc = "loop" -> 0
      [] mpc = "select" -> Cardinality(setup.ports)
      [] mpc \in {"accepted", "write"} -> Cardinality(ready) + 1
      [] OTHER -> Cardinality(ready)

Limit == MaxCon + Cardinality(setup.ports)

Throttled == Counted \/ Cardinality(setup.ports) = 1

\* A value that was read and will be written back is old: it must fit too.
LimitInv ==
    Throttled =>
        /\ connection + Reserved <= Limit
        /\ Reserved <= Cardinality(setup.ports)
        /\ mpc = "write" => mread + Reserved <= Limit
        /\ mpc = "ssldec" => mread <= Limit
        /\ \A th \in Threads : tpc[th] = "write" => tread[th] <= Limit

Inv == TypeInv /\ CountInv /\ LimitInv

-----------------------------------------------------------------------------
(***************************************************************************)
(* Finite sets.                                                            *)
(***************************************************************************)

\* Every set that is counted is finite.
LEMMA Finite ==
    ASSUME TypeOK
    PROVE  /\ IsFiniteSet(open) /\ Cardinality(open) \in Nat
           /\ IsFiniteSet(ready) /\ Cardinality(ready) \in Nat
           /\ IsFiniteSet(NotCountedOff) /\ Cardinality(NotCountedOff) \in Nat
           /\ IsFiniteSet(setup.ports) /\ Cardinality(setup.ports) \in Nat
           /\ Cardinality(ready) <= Cardinality(setup.ports)
<1>1. setup.ports \subseteq Ports
  BY HttpdAssumption DEF TypeOK, SetupType
<1>2. IsFiniteSet(setup.ports)
  BY <1>1, HttpdAssumption, FS_Subset
<1>3. IsFiniteSet(ready) /\ Cardinality(ready) <= Cardinality(setup.ports)
  BY <1>2, FS_Subset DEF TypeOK
<1>4. IsFiniteSet(open)
  BY HttpdAssumption, FS_Subset DEF TypeOK
<1>5. IsFiniteSet(NotCountedOff)
  BY HttpdAssumption, FS_Subset DEF NotCountedOff
<1> QED
  BY <1>2, <1>3, <1>4, <1>5, FS_CardinalityType

\* One element more or less.
LEMMA OneMore ==
    ASSUME NEW S, IsFiniteSet(S), NEW x, x \notin S
    PROVE  Cardinality(S \cup {x}) = Cardinality(S) + 1
BY FS_AddElement

LEMMA OneLess ==
    ASSUME NEW S, IsFiniteSet(S), NEW x, x \in S
    PROVE  Cardinality(S \ {x}) = Cardinality(S) - 1
BY FS_RemoveElement

-----------------------------------------------------------------------------
(***************************************************************************)
(* Types.                                                                  *)
(***************************************************************************)

LEMMA TypeInit == Init => TypeInv
<1> SUFFICES ASSUME Init PROVE TypeInv
  OBVIOUS
<1>1. TypeOK
  BY HttpdAssumption DEF Init, TypeOK
<1>2. AcceptedOpen
  BY DEF Init, AcceptedOpen
<1> QED
  BY <1>1, <1>2 DEF TypeInv

LEMMA TypeStep == TypeInv /\ [Next]_vars => TypeInv'
<1> SUFFICES ASSUME TypeInv, [Next]_vars PROVE TypeInv'
  OBVIOUS
<1> USE DEF TypeInv, TypeOK, AcceptedOpen
<1>1. CASE LoopSleep
  BY <1>1 DEF LoopSleep, vars, mainVars, threadVars
<1>2. CASE LoopSelect
  BY <1>2 DEF LoopSelect, threadVars
<1>3. CASE Select
  BY <1>3 DEF Select, threadVars
<1>4. CASE MonitorAccept
  BY <1>4, HttpdAssumption DEF MonitorAccept, threadVars
<1>5. CASE MonitorNone
  BY <1>5 DEF MonitorNone, threadVars
<1>6. CASE PortsDone
  BY <1>6 DEF PortsDone, threadVars
<1>7. CASE MonitorSslFails
  BY <1>7 DEF MonitorSslFails, threadVars
<1>8. CASE MonitorSslWrite
  BY <1>8 DEF MonitorSslWrite, threadVars
<1>9. CASE MonitorCount
  BY <1>9 DEF MonitorCount, threadVars
<1>10. CASE MonitorWrite
  BY <1>10 DEF MonitorWrite, Write, threadVars
<1>11. CASE MonitorAdd
  BY <1>11 DEF MonitorAdd, threadVars
<1>12. ASSUME NEW th \in Threads, FinishDestroy(th) PROVE TypeInv'
  BY <1>12 DEF FinishDestroy, mainVars
<1>13. ASSUME NEW th \in Threads, FinishCount(th) PROVE TypeInv'
  BY <1>13 DEF FinishCount, mainVars
<1>14. ASSUME NEW th \in Threads, FinishWrite(th) PROVE TypeInv'
  BY <1>14 DEF FinishWrite, Write, mainVars
<1>15. ASSUME NEW th \in Threads, FinishDetached(th) PROVE TypeInv'
  BY <1>15 DEF FinishDetached, mainVars, threadVars
<1>16. CASE UNCHANGED vars
  BY <1>16 DEF vars, mainVars, threadVars
<1> QED
  BY <1>1, <1>2, <1>3, <1>4, <1>5, <1>6, <1>7, <1>8, <1>9, <1>10, <1>11, <1>12,
     <1>13, <1>14, <1>15, <1>16
  DEF Next, MainStep, ThreadStep

-----------------------------------------------------------------------------
(***************************************************************************)
(* The counter.                                                            *)
(***************************************************************************)

LEMMA CountInit == Init => CountInv
<1> SUFFICES ASSUME Init PROVE CountInv
  OBVIOUS
<1>1. NotCountedOff = {} /\ NotCounted = 0 /\ open = {}
  BY DEF Init, NotCountedOff, NotCounted
<1>2. CounterExact
  <2>1. connection = 0 /\ off = 0 /\ Cardinality({}) = 0
    BY FS_EmptySet DEF Init
  <2> QED
    BY <1>1, <2>1 DEF CounterExact
<1>3. mpc \notin {"ssldec", "write"} /\ \A th \in Threads : tpc[th] # "write"
  BY DEF Init
<1> QED
  BY <1>2, <1>3 DEF CountInv

\* What is under way and what was overwritten, step by step.
LEMMA CountStep == TypeInv /\ CountInv /\ [Next]_vars => CountInv'
<1> SUFFICES ASSUME TypeInv, CountInv, [Next]_vars PROVE CountInv'
  OBVIOUS
<1> DEFINE Exact == connection = Cardinality(open) - NotCounted
                                    + Cardinality(NotCountedOff) + off
<1>setup. setup' = setup /\ Counted' = Counted
  BY DEF Next, MainStep, ThreadStep, LoopSleep, LoopSelect, Select, MonitorAccept,
         MonitorNone, PortsDone, MonitorSslFails, MonitorSslWrite, MonitorCount,
         MonitorWrite, MonitorAdd, FinishDestroy, FinishCount, FinishWrite,
         FinishDetached, vars, mainVars, Counted
<1>counted. Counted => setup.oneCpu /\ ~setup.detach /\ ~setup.sslFails
  BY DEF Counted
<1>fin. /\ IsFiniteSet(open) /\ Cardinality(open) \in Nat
        /\ IsFiniteSet(NotCountedOff) /\ Cardinality(NotCountedOff) \in Nat
  BY Finite DEF TypeInv
<1>pcs. Counted => /\ mpc \notin {"ssldec", "write"}
                   /\ \A th \in Threads : tpc[th] # "write"
  BY DEF CountInv
<1>exact. Exact /\ (Counted => off = 0)
  BY DEF CountInv, CounterExact
<1>types. /\ open \subseteq Conn /\ serving \subseteq open
          /\ tpc \in [Threads -> {"idle", "dec", "write"}]
          /\ connection \in Int /\ mread \in Int /\ tread \in [Threads -> Int]
          /\ off \in Int /\ NotCounted \in {0, 1}
  BY DEF TypeInv, TypeOK, NotCounted
<1> HIDE DEF CountInv
<1>goal. ASSUME Exact', Counted => off' = off,
                Counted => mpc' \notin {"ssldec", "write"},
                Counted => \A th \in Threads : tpc'[th] # "write"
         PROVE  CountInv'
  BY <1>goal, <1>setup, <1>exact DEF CountInv, CounterExact
<1>same. ASSUME UNCHANGED <<connection, off, open, tpc>>,
                mpc' \notin {"ssldec", "write", "accepted"}, mpc \notin {"accepted", "write"}
         PROVE  CountInv'
  <2>1. NotCountedOff' = NotCountedOff /\ NotCounted' = 0 /\ NotCounted = 0
    BY <1>same DEF NotCountedOff, NotCounted
  <2> QED
    BY <2>1, <1>same, <1>pcs, <1>exact, <1>goal
\* A decrement that is done leaves one less to come.
<1>done. ASSUME NEW th \in Threads, tpc[th] # "idle",
                tpc' = [tpc EXCEPT ![th] = "idle"], mpc' = mpc
         PROVE  /\ Cardinality(NotCountedOff') = Cardinality(NotCountedOff) - 1
                /\ NotCounted' = NotCounted
                /\ Counted => mpc' \notin {"ssldec", "write"}
                /\ Counted => \A x \in Threads : tpc'[x] # "write"
  <2>1. NotCountedOff' = NotCountedOff \ {th} /\ th \in NotCountedOff
    BY <1>done, <1>types DEF NotCountedOff
  <2>2. Cardinality(NotCountedOff') = Cardinality(NotCountedOff) - 1
    BY <2>1, <1>fin, OneLess
  <2> QED
    BY <1>done, <2>2, <1>pcs, <1>types DEF NotCounted
<1>1. CASE LoopSleep \/ UNCHANGED vars
  <2>1. UNCHANGED vars
    BY <1>1 DEF LoopSleep
  <2>2. UNCHANGED <<connection, off, open, tpc, mpc>>
    BY <2>1 DEF vars, mainVars, threadVars
  <2>3. NotCountedOff' = NotCountedOff /\ NotCounted' = NotCounted
    BY <2>2 DEF NotCountedOff, NotCounted
  <2> QED
    BY <2>2, <2>3, <1>pcs, <1>exact, <1>goal
<1>2. CASE LoopSelect \/ Select \/ MonitorNone \/ PortsDone
  BY <1>2, <1>same DEF LoopSelect, Select, MonitorNone, PortsDone, threadVars
<1>3. CASE MonitorAccept
  <2>1. PICK d \in Conn \ open : open' = open \cup {d}
    BY <1>3 DEF MonitorAccept
  <2>2. /\ NotCounted = 0 /\ NotCounted' = 1 /\ NotCountedOff' = NotCountedOff
        /\ tpc' = tpc /\ mpc' = "accepted" /\ connection' = connection /\ off' = off
    BY <1>3 DEF MonitorAccept, NotCounted, NotCountedOff, threadVars
  <2>3. Cardinality(open') = Cardinality(open) + 1
    BY <2>1, <1>fin, OneMore
  <2> QED
    BY <2>2, <2>3, <1>pcs, <1>exact, <1>fin, <1>types, <1>goal
<1>4. CASE MonitorCount
  <2>1. /\ open' = open /\ tpc' = tpc /\ off' = off /\ NotCounted = 1
        /\ NotCountedOff' = NotCountedOff
        /\ \/ connection' = connection + 1 /\ mpc' = "add"
           \/ ~setup.oneCpu /\ connection' = connection /\ mpc' = "write"
    BY <1>4 DEF MonitorCount, NotCounted, NotCountedOff, threadVars
  <2> QED
    BY <2>1, <1>counted, <1>pcs, <1>exact, <1>fin, <1>types, <1>goal DEF NotCounted
<1>5. CASE MonitorWrite
  <2>1. /\ open' = open /\ tpc' = tpc /\ NotCounted = 1 /\ NotCounted' = 0
        /\ NotCountedOff' = NotCountedOff /\ mpc = "write" /\ mpc' = "add"
        /\ connection' = mread + 1 /\ off' = off + (mread - connection)
    BY <1>5 DEF MonitorWrite, Write, NotCounted, NotCountedOff, threadVars
  <2> QED
    BY <2>1, <1>pcs, <1>exact, <1>fin, <1>types, <1>goal
<1>6. CASE MonitorAdd
  BY <1>6, <1>same DEF MonitorAdd, threadVars
<1>7. CASE MonitorSslFails
  <2>1. /\ open' = open \ {accepted} /\ accepted \in open /\ tpc' = tpc
        /\ NotCounted = 1 /\ NotCounted' = 0 /\ NotCountedOff' = NotCountedOff
        /\ setup.sslFails
        /\ \/ connection' = connection - 1 /\ off' = off - 1
           \/ connection' = connection /\ off' = off
    BY <1>7 DEF MonitorSslFails, NotCounted, NotCountedOff, threadVars, TypeInv,
                AcceptedOpen
  <2>2. Cardinality(open') = Cardinality(open) - 1
    BY <2>1, <1>fin, OneLess
  <2> QED
    BY <2>1, <2>2, <1>counted, <1>exact, <1>fin, <1>types, <1>goal
<1>8. CASE MonitorSslWrite
  <2>1. /\ open' = open /\ tpc' = tpc /\ mpc = "ssldec" /\ NotCounted = 0
        /\ NotCounted' = 0 /\ NotCountedOff' = NotCountedOff
        /\ connection' = mread - 1 /\ off' = off + (mread - connection) - 1
    BY <1>8 DEF MonitorSslWrite, NotCounted, NotCountedOff, threadVars
  <2> QED
    BY <2>1, <1>pcs, <1>exact, <1>fin, <1>types, <1>goal
<1>9. ASSUME NEW th \in Threads, FinishDestroy(th) PROVE CountInv'
  <2>1. PICK d \in serving : open' = open \ {d}
    BY <1>9 DEF FinishDestroy
  <2>2. Cardinality(open') = Cardinality(open) - 1
    BY <2>1, <1>fin, <1>types, OneLess
  <2>3. /\ tpc' = [tpc EXCEPT ![th] = "dec"] /\ tpc[th] = "idle"
        /\ connection' = connection /\ off' = off /\ mpc' = mpc
    BY <1>9 DEF FinishDestroy, mainVars
  <2>4. NotCountedOff' = NotCountedOff \cup {th} /\ th \notin NotCountedOff
    BY <2>3, <1>types DEF NotCountedOff
  <2>5. Cardinality(NotCountedOff') = Cardinality(NotCountedOff) + 1
    BY <2>4, <1>fin, OneMore
  <2>6. NotCounted' = NotCounted
    BY <2>3 DEF NotCounted
  <2>7. Counted => /\ mpc' \notin {"ssldec", "write"}
                   /\ \A x \in Threads : tpc'[x] # "write"
    BY <2>3, <1>pcs, <1>types
  <2> QED
    BY <2>2, <2>3, <2>5, <2>6, <2>7, <1>exact, <1>fin, <1>types, <1>goal
<1>10. ASSUME NEW th \in Threads, FinishCount(th) PROVE CountInv'
  <2>1. /\ mpc' = mpc /\ open' = open /\ off' = off /\ tpc[th] = "dec"
        /\ \/ /\ tpc' = [tpc EXCEPT ![th] = "idle"]
              /\ connection' = connection - 1
           \/ /\ ~setup.oneCpu /\ tpc' = [tpc EXCEPT ![th] = "write"]
              /\ connection' = connection
    BY <1>10 DEF FinishCount, mainVars
  <2>2. CASE tpc' = [tpc EXCEPT ![th] = "idle"] /\ connection' = connection - 1
    <3>1. tpc[th] # "idle"
      BY <2>1
    <3>2. /\ Cardinality(NotCountedOff') = Cardinality(NotCountedOff) - 1
          /\ NotCounted' = NotCounted
          /\ Counted => mpc' \notin {"ssldec", "write"}
          /\ Counted => \A x \in Threads : tpc'[x] # "write"
      BY <2>1, <2>2, <3>1, <1>done
    <3> QED
      BY <2>1, <2>2, <3>2, <1>exact, <1>fin, <1>types, <1>goal
  <2>3. CASE /\ ~setup.oneCpu /\ tpc' = [tpc EXCEPT ![th] = "write"]
             /\ connection' = connection
    <3>1. NotCountedOff' = NotCountedOff /\ NotCounted' = NotCounted /\ ~Counted
      BY <2>1, <2>3, <1>types, <1>counted DEF NotCountedOff, NotCounted
    <3> QED
      BY <2>1, <2>3, <3>1, <1>exact, <1>fin, <1>types, <1>goal
  <2> QED
    BY <2>1, <2>2, <2>3
<1>11. ASSUME NEW th \in Threads, FinishWrite(th) PROVE CountInv'
  <2>1. /\ mpc' = mpc /\ open' = open /\ tpc[th] = "write"
        /\ tpc' = [tpc EXCEPT ![th] = "idle"]
        /\ connection' = tread[th] - 1 /\ off' = off + (tread[th] - connection)
    BY <1>11 DEF FinishWrite, Write, mainVars
  <2>2. tpc[th] # "idle" /\ ~Counted /\ tread[th] \in Int
    BY <2>1, <1>pcs, <1>types
  <2>3. /\ Cardinality(NotCountedOff') = Cardinality(NotCountedOff) - 1
        /\ NotCounted' = NotCounted
    BY <2>1, <2>2, <1>done
  <2> QED
    BY <2>1, <2>2, <2>3, <1>exact, <1>fin, <1>types, <1>goal
<1>12. ASSUME NEW th \in Threads, FinishDetached(th) PROVE CountInv'
  <2>1. PICK d \in serving : open' = open \ {d}
    BY <1>12 DEF FinishDetached
  <2>2. Cardinality(open') = Cardinality(open) - 1
    BY <2>1, <1>fin, <1>types, OneLess
  <2>3. /\ tpc' = tpc /\ mpc' = mpc /\ connection' = connection /\ off' = off + 1
        /\ NotCountedOff' = NotCountedOff /\ NotCounted' = NotCounted /\ ~Counted
    BY <1>12, <1>counted DEF FinishDetached, mainVars, threadVars, NotCountedOff,
                             NotCounted
  <2> QED
    BY <2>2, <2>3, <1>exact, <1>fin, <1>types, <1>goal
<1> QED
  BY <1>1, <1>2, <1>3, <1>4, <1>5, <1>6, <1>7, <1>8, <1>9, <1>10, <1>11, <1>12
  DEF Next, MainStep, ThreadStep

-----------------------------------------------------------------------------
(***************************************************************************)
(* The limit.                                                              *)
(***************************************************************************)

LEMMA LimitInit == Init => LimitInv
<1> SUFFICES ASSUME Init PROVE LimitInv
  OBVIOUS
<1>1. IsFiniteSet(setup.ports)
  <2>1. setup.ports \subseteq Ports
    BY HttpdAssumption DEF Init, SetupType
  <2> QED
    BY <2>1, HttpdAssumption, FS_Subset
<1>2. Cardinality(setup.ports) \in Nat
  BY <1>1, FS_CardinalityType
<1>3. Reserved = 0
  BY DEF Init, Reserved
<1>4. connection = 0 /\ mpc = "loop" /\ \A th \in Threads : tpc[th] = "idle"
  BY DEF Init
<1> QED
  BY <1>2, <1>3, <1>4, HttpdAssumption DEF LimitInv, Limit

\* The counter is raised only within what is reserved, and what is written back
\* late was read below the limit.
LEMMA LimitStep == TypeInv /\ TypeInv' /\ CountInv /\ LimitInv /\ [Next]_vars => LimitInv'
<1> SUFFICES ASSUME TypeInv, TypeInv', CountInv, LimitInv, [Next]_vars, Throttled'
             PROVE  LimitInv'
  BY DEF LimitInv
<1> DEFINE P == Cardinality(setup.ports)
           R == Cardinality(ready)
<1>setup. setup' = setup
  BY DEF Next, MainStep, ThreadStep, LoopSleep, LoopSelect, Select, MonitorAccept,
         MonitorNone, PortsDone, MonitorSslFails, MonitorSslWrite, MonitorCount,
         MonitorWrite, MonitorAdd, FinishDestroy, FinishCount, FinishWrite,
         FinishDetached, vars, mainVars
<1>limit. Throttled /\ Limit' = Limit /\ P' = P
  BY <1>setup DEF Throttled, Counted, Limit
<1>fin. P \in Nat /\ R \in Nat /\ R' \in Nat /\ R' <= P /\ IsFiniteSet(ready)
  <2>1. P \in Nat /\ R \in Nat /\ IsFiniteSet(ready)
    BY Finite DEF TypeInv
  <2>2. ready' \subseteq setup.ports
    BY <1>setup DEF TypeInv, TypeOK
  <2>3. IsFiniteSet(setup.ports)
    BY Finite DEF TypeInv
  <2>4. IsFiniteSet(ready') /\ R' <= P
    BY <2>2, <2>3, FS_Subset
  <2> QED
    BY <2>1, <2>4, FS_CardinalityType
<1>types. /\ connection \in Int /\ mread \in Int /\ tread \in [Threads -> Int]
          /\ tpc \in [Threads -> {"idle", "dec", "write"}]
          /\ mpc \in {"loop", "select", "ports", "accepted", "ssldec", "write", "add"}
          /\ MaxCon \in Nat /\ Limit = MaxCon + P
  BY HttpdAssumption DEF TypeInv, TypeOK, Limit
<1>reserved. /\ Reserved \in Nat /\ Reserved <= P
             /\ mpc = "select" => Reserved = P
             /\ mpc \in {"accepted", "write"} => Reserved = R + 1
             /\ mpc \in {"ports", "ssldec", "add"} => Reserved = R
  BY <1>fin, <1>types, <1>limit DEF Reserved, LimitInv
<1>inv. /\ connection + Reserved <= Limit
        /\ mpc = "write" => mread + Reserved <= Limit
        /\ mpc = "ssldec" => mread <= Limit
        /\ \A th \in Threads : tpc[th] = "write" => tread[th] <= Limit
  BY <1>limit DEF LimitInv
\* A write of an old value can only happen with one port.
<1>single. (mpc = "ssldec" \/ \E th \in Threads : tpc[th] = "write") => P = 1
  BY <1>limit DEF Throttled, CountInv
<1>threads. ASSUME tpc' = tpc, tread' = tread
            PROVE  \A th \in Threads : tpc'[th] = "write" => tread'[th] <= Limit
  BY <1>threads, <1>inv
\* A port that is served leaves the others.
<1>served. ASSUME \E p \in ready : ready' = ready \ {p} PROVE R' = R - 1
  BY <1>served, <1>fin, OneLess
<1>goal. ASSUME connection' + Reserved' <= Limit, Reserved' <= P,
                mpc' = "write" => mread' + Reserved' <= Limit,
                mpc' = "ssldec" => mread' <= Limit,
                \A th \in Threads : tpc'[th] = "write" => tread'[th] <= Limit
         PROVE  LimitInv'
  BY <1>goal, <1>limit DEF LimitInv
<1>1. CASE LoopSleep \/ UNCHANGED vars
  <2>1. UNCHANGED vars
    BY <1>1 DEF LoopSleep
  <2>2. UNCHANGED <<connection, mpc, mread, tpc, tread, ready>> /\ Reserved' = Reserved
    BY <2>1, <1>setup DEF vars, mainVars, threadVars, Reserved
  <2> QED
    BY <2>2, <1>inv, <1>reserved, <1>goal
<1>2. CASE LoopSelect
  <2>1. connection <= MaxCon
    BY <1>2, <1>types DEF LoopSelect, OverLimit
  <2>2. /\ connection' = connection /\ mpc' = "select" /\ tpc' = tpc /\ tread' = tread
        /\ Reserved' = P
    BY <1>2, <1>setup DEF LoopSelect, threadVars, Reserved
  <2> QED
    BY <2>1, <2>2, <1>types, <1>fin, <1>threads, <1>goal
<1>3. CASE Select
  <2>1. /\ connection' = connection /\ mpc = "select" /\ mpc' = "ports"
        /\ tpc' = tpc /\ tread' = tread
    BY <1>3 DEF Select, threadVars
  <2>2. Reserved' = R'
    BY <2>1 DEF Reserved
  <2> QED
    BY <2>1, <2>2, <1>inv, <1>reserved, <1>types, <1>fin, <1>threads, <1>goal
<1>4. CASE MonitorAccept
  <2>1. /\ connection' = connection /\ mpc = "ports" /\ mpc' = "accepted"
        /\ tpc' = tpc /\ tread' = tread
    BY <1>4 DEF MonitorAccept, threadVars
  <2>2. R' = R - 1
    BY <1>4, <1>served DEF MonitorAccept
  <2>3. Reserved' = R' + 1
    BY <2>1 DEF Reserved
  <2> QED
    BY <2>1, <2>2, <2>3, <1>inv, <1>reserved, <1>types, <1>fin, <1>threads, <1>goal
<1>5. CASE MonitorNone
  <2>1. /\ connection' = connection /\ mpc = "ports" /\ mpc' = "ports"
        /\ tpc' = tpc /\ tread' = tread
    BY <1>5 DEF MonitorNone, threadVars
  <2>2. R' = R - 1
    BY <1>5, <1>served DEF MonitorNone
  <2>3. Reserved' = R'
    BY <2>1 DEF Reserved
  <2> QED
    BY <2>1, <2>2, <2>3, <1>inv, <1>reserved, <1>types, <1>fin, <1>threads, <1>goal
<1>6. CASE PortsDone
  <2>1. /\ connection' = connection /\ mpc' = "loop" /\ tpc' = tpc /\ tread' = tread
        /\ Reserved' = 0
    BY <1>6 DEF PortsDone, threadVars, Reserved
  <2> QED
    BY <2>1, <1>inv, <1>reserved, <1>types, <1>fin, <1>threads, <1>goal
<1>7. CASE MonitorSslFails
  <2>1. mpc = "accepted" /\ ready' = ready /\ tpc' = tpc /\ tread' = tread
    BY <1>7 DEF MonitorSslFails, threadVars
  <2>2. \/ connection' = connection - 1 /\ mpc' = "ports"
        \/ mread' = connection /\ connection' = connection /\ mpc' = "ssldec"
    BY <1>7 DEF MonitorSslFails
  <2>3. Reserved' = R
    BY <2>1, <2>2 DEF Reserved
  <2> QED
    BY <2>1, <2>2, <2>3, <1>inv, <1>reserved, <1>types, <1>fin, <1>threads, <1>goal
<1>8. CASE MonitorSslWrite
  <2>1. /\ mpc = "ssldec" /\ connection' = mread - 1 /\ mpc' = "ports" /\ ready' = ready
        /\ tpc' = tpc /\ tread' = tread
    BY <1>8 DEF MonitorSslWrite, threadVars
  <2>2. Reserved' = R /\ P = 1
    BY <2>1, <1>single DEF Reserved
  <2> QED
    BY <2>1, <2>2, <1>inv, <1>reserved, <1>types, <1>fin, <1>threads, <1>goal
<1>9. CASE MonitorCount
  <2>1. mpc = "accepted" /\ ready' = ready /\ tpc' = tpc /\ tread' = tread
    BY <1>9 DEF MonitorCount, threadVars
  <2>2. \/ connection' = connection + 1 /\ mpc' = "add" /\ Reserved' = R
        \/ /\ mread' = connection /\ connection' = connection /\ mpc' = "write"
           /\ Reserved' = R + 1
    BY <1>9, <2>1 DEF MonitorCount, Reserved
  <2> QED
    BY <2>1, <2>2, <1>inv, <1>reserved, <1>types, <1>fin, <1>threads, <1>goal
<1>10. CASE MonitorWrite
  <2>1. /\ mpc = "write" /\ connection' = mread + 1 /\ mpc' = "add" /\ ready' = ready
        /\ tpc' = tpc /\ tread' = tread
    BY <1>10 DEF MonitorWrite, Write, threadVars
  <2>2. Reserved' = R
    BY <2>1 DEF Reserved
  <2> QED
    BY <2>1, <2>2, <1>inv, <1>reserved, <1>types, <1>fin, <1>threads, <1>goal
<1>11. CASE MonitorAdd
  <2>1. /\ mpc = "add" /\ connection' = connection /\ mpc' = "ports" /\ ready' = ready
        /\ tpc' = tpc /\ tread' = tread
    BY <1>11 DEF MonitorAdd, threadVars
  <2>2. Reserved' = R
    BY <2>1 DEF Reserved
  <2> QED
    BY <2>1, <2>2, <1>inv, <1>reserved, <1>types, <1>fin, <1>threads, <1>goal
<1>12. ASSUME NEW th \in Threads, FinishDestroy(th) \/ FinishDetached(th)
       PROVE  LimitInv'
  <2>1. UNCHANGED <<connection, mpc, mread, ready, tread>>
    BY <1>12 DEF FinishDestroy, FinishDetached, mainVars, threadVars
  <2>2. Reserved' = Reserved
    BY <2>1, <1>setup DEF Reserved
  <2>3. \A x \in Threads : tpc'[x] = "write" => tpc[x] = "write"
    BY <1>12, <1>types DEF FinishDestroy, FinishDetached, threadVars
  <2> QED
    BY <2>1, <2>2, <2>3, <1>inv, <1>reserved, <1>goal
<1>13. ASSUME NEW th \in Threads, FinishCount(th) PROVE LimitInv'
  <2>1. UNCHANGED <<mpc, mread, ready>>
    BY <1>13 DEF FinishCount, mainVars
  <2>2. Reserved' = Reserved
    BY <2>1, <1>setup DEF Reserved
  <2>3. connection' \in {connection, connection - 1}
    BY <1>13 DEF FinishCount
  <2>4. \A x \in Threads : tpc'[x] = "write" =>
            \/ tpc[x] = "write" /\ tread'[x] = tread[x]
            \/ tread'[x] = connection
    BY <1>13, <1>types DEF FinishCount
  <2> QED
    BY <2>1, <2>2, <2>3, <2>4, <1>inv, <1>reserved, <1>types, <1>fin, <1>goal
<1>14. ASSUME NEW th \in Threads, FinishWrite(th) PROVE LimitInv'
  <2>1. UNCHANGED <<mpc, mread, ready, tread>>
    BY <1>14 DEF FinishWrite, mainVars
  <2>2. Reserved' = Reserved
    BY <2>1, <1>setup DEF Reserved
  <2>3. tpc[th] = "write" /\ connection' = tread[th] - 1 /\ P = 1
    BY <1>14, <1>single DEF FinishWrite, Write
  <2>4. \A x \in Threads : tpc'[x] = "write" => tpc[x] = "write"
    BY <1>14, <1>types DEF FinishWrite
  <2>5. connection' + Reserved' <= Limit
    BY <2>2, <2>3, <1>inv, <1>reserved, <1>types, <1>fin
  <2> QED
    BY <2>1, <2>2, <2>4, <2>5, <1>inv, <1>reserved, <1>goal
<1> QED
  BY <1>1, <1>2, <1>3, <1>4, <1>5, <1>6, <1>7, <1>8, <1>9, <1>10, <1>11, <1>12,
     <1>13, <1>14
  DEF Next, MainStep, ThreadStep

-----------------------------------------------------------------------------
(***************************************************************************)
(* The theorems.                                                           *)
(***************************************************************************)

LEMMA InvHolds == Spec => []Inv
<1>1. Init => Inv
  BY TypeInit, CountInit, LimitInit DEF Inv
<1>2. Inv /\ [Next]_vars => Inv'
  BY TypeStep, CountStep, LimitStep DEF Inv
<1> QED
  BY <1>1, <1>2, PTL DEF Spec

\* Every variable of the accept loop keeps its type, and what the scheduler
\* has is open (antd_monitor, finish_request).
THEOREM TypeCorrect == Spec => []TypeOK
<1>1. Inv => TypeOK
  BY DEF Inv, TypeInv
<1> QED
  BY <1>1, InvHolds, PTL

\* g_server_config.connection is the number of open connections, but for the
\* increments and decrements under way, and off by just what unlocked writes have
\* overwritten, plugins have destroyed and failed SSL_new calls have counted off,
\* on any machine and in any configuration (antd_monitor, finish_request).
THEOREM CounterCorrect == Spec => []CounterExact
<1>1. Inv => CounterExact
  BY DEF Inv, CountInv
<1> QED
  BY <1>1, InvHolds, PTL

\* For any number of ports main lets in at most one connection for each above
\* maxcon; with one port the counter stays at maxcon + 1 or below whatever is
\* lost by unlocked decrements (main, antd_monitor, finish_request).
THEOREM LimitIsKept == Spec => []LimitHolds
<1>1. Inv => LimitHolds
  <2> SUFFICES ASSUME Inv PROVE LimitHolds
    OBVIOUS
  <2>1. /\ Cardinality(open) \in Nat /\ Cardinality(NotCountedOff) \in Nat
        /\ Cardinality(ready) \in Nat /\ Cardinality(setup.ports) \in Nat
        /\ connection \in Int /\ MaxCon \in Nat
    BY Finite, HttpdAssumption DEF Inv, TypeInv, TypeOK
  <2>2. Reserved \in Nat /\ NotCounted \in {0, 1} /\ NotCounted <= Reserved
    BY <2>1 DEF Reserved, NotCounted
  <2>3. ASSUME Throttled PROVE connection + Reserved <= Limit
    BY <2>3 DEF Inv, LimitInv
  <2>4. ASSUME Throttled PROVE connection <= Limit
    BY <2>1, <2>2, <2>3, <2>4 DEF Limit
  <2>5. ASSUME Counted PROVE Cardinality(open) <= Limit
    <3>1. connection = Cardinality(open) - NotCounted + Cardinality(NotCountedOff)
      BY <2>1, <2>5 DEF Inv, CountInv, CounterExact, NotCounted
    <3> QED
      BY <3>1, <2>1, <2>2, <2>3, <2>5 DEF Throttled, Limit
  <2> QED
    BY <2>4, <2>5 DEF LimitHolds, Throttled, Limit
<1> QED
  BY <1>1, InvHolds, PTL

=============================================================================
