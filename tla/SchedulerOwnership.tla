-------------------------- MODULE SchedulerOwnership --------------------------
(***************************************************************************)
(* Theorems about who owns a task and a request in the scheduler, and the  *)
(* refinement of RequestService that follows, for any workers, sockets,    *)
(* tasks and bounds, when no plugin destroys its request itself (with      *)
(* Detach the run detached_collision refutes them).                        *)
(***************************************************************************)
EXTENDS SchedulerProofs, SequenceTheorems

-----------------------------------------------------------------------------
(***************************************************************************)
(* The inductive invariant.                                                *)
(***************************************************************************)

\* What a task is still bound to do.  Its chain of callbacks ends with
\* finish_request, or has none of it.
EndsWithFinish(c) ==
    /\ c # <<>>
    /\ \A n \in 1..Len(c) : c[n] = "finish" <=> n = Len(c)
HasNoFinish(c) == \A n \in 1..Len(c) : c[n] # "finish"

\* A task a thread may call: a handler with finish_request to come, or it.
Ready(t) ==
    \/ task[t].handle = "work" /\ EndsWithFinish(task[t].callback)
    \/ task[t].handle = "finish" /\ task[t].callback = <<>>

\* A task that answers for its request: ready, or to be killed.
Carrying(t) ==
    \/ Ready(t)
    \/ task[t].handle = "none" /\ task[t].expired

\* A task that does not: a new one before execute_callback joins the chains,
\* or the executed one after it.
Bare(t) ==
    /\ task[t].handle # "finish"
    /\ ~(task[t].handle = "none" /\ task[t].expired)
    /\ HasNoFinish(task[t].callback)

\* ... and finish_request has not been called yet.
Carries(t) == Carrying(t) /\ ~Called(t)

\* EachTaskInOnePlace without its cardinality.
Places ==
    /\ live = Queued \cup HandedOver \cup UNION {InHandsOf(th) : th \in Threads}
    /\ Queued \cap HandedOver = {}
    /\ \A th \in Threads :
        /\ InHandsOf(th) \cap (Queued \cup HandedOver) = {}
        /\ \A o \in Threads \ {th} : InHandsOf(th) \cap InHandsOf(o) = {}
    /\ \A i \in DOMAIN taskQueue : task[taskQueue[i]].id = i
    /\ \A m, n \in DOMAIN workersQueue : workersQueue[m] = workersQueue[n] => m = n

\* Every task has the id of its request, and every open request has exactly
\* one task that carries it.
Finishers ==
    /\ \A t \in live : task[t].data \in Socks /\ task[t].id = task[t].data
    /\ \A t \in live : Carries(t) => task[t].data \in open
    /\ \A t, s \in live :
            Carries(t) /\ Carries(s) /\ task[t].data = task[s].data => t = s
    /\ \A d \in open : \E t \in live : Carries(t) /\ task[t].data = d

\* What a thread holds, by where it is.
HandsOf(th) ==
    /\ pc[th] # "getid"
    /\ pc[th] \notin {"insert", "count", "post", "exec", "returned", "uncount",
                      "route"} => cur[th] = NoTask /\ adding[th] = NoTask
    /\ pc[th] = "insert" =>
        /\ Ready(adding[th])
        /\ cur[th] \notin {NoTask, adding[th]} => Bare(cur[th])
    /\ pc[th] \in {"count", "post"} =>
        /\ adding[th] = NoTask
        /\ cur[th] # NoTask => Bare(cur[th])
    /\ pc[th] = "exec" => adding[th] = NoTask /\ Ready(cur[th])
    /\ pc[th] \in {"uncount", "route"} => adding[th] = NoTask /\ Carrying(cur[th])
    /\ pc[th] = "returned" =>
        /\ Ready(cur[th])
        /\ adding[th] # NoTask =>
            /\ adding[th] # cur[th]
            /\ task[cur[th]].handle = "work"
            /\ Bare(adding[th])
            /\ task[adding[th]].data = task[cur[th]].data

\* What the two queues and the lists of a round hold.
QueuesHold ==
    /\ \A t \in Queued : Carrying(t)
    /\ \A t \in HandedOver : Ready(t)
    /\ scheduled \subseteq Queued
    /\ polls \subseteq Queued
    /\ pc[Sched] # "poll" => polls = {}

Owned ==
    /\ Places
    /\ Finishers
    /\ \A th \in Threads : HandsOf(th)
    /\ QueuesHold

OwnInv == TypeInv /\ Owned

-----------------------------------------------------------------------------
(***************************************************************************)
(* Chains of callbacks.                                                    *)
(***************************************************************************)

\* enqueue_callback: callbacks before a chain that ends with finish_request.
LEMMA ChainJoined ==
    ASSUME NEW b \in Seq({"work", "finish"}), NEW c \in Seq({"work", "finish"}),
           HasNoFinish(b), EndsWithFinish(c)
    PROVE  EndsWithFinish(b \o c)
<1>1. /\ Len(b) \in Nat
      /\ Len(c) \in Nat \ {0}
      /\ Len(b \o c) = Len(b) + Len(c)
      /\ b \o c # <<>>
  BY DEF EndsWithFinish
<1>2. ASSUME NEW n \in 1..Len(b \o c)
      PROVE  (b \o c)[n] = "finish" <=> n = Len(b \o c)
  <2>1. CASE n <= Len(b)
    <3>1. (b \o c)[n] = b[n] /\ n \in 1..Len(b)
      BY <1>1, <2>1
    <3> QED
      BY <1>1, <2>1, <3>1 DEF HasNoFinish
  <2>2. CASE n > Len(b)
    <3>1. (b \o c)[n] = c[n - Len(b)] /\ n - Len(b) \in 1..Len(c)
      BY <1>1, <2>2
    <3>2. c[n - Len(b)] = "finish" <=> n - Len(b) = Len(c)
      BY <3>1 DEF EndsWithFinish
    <3> QED
      BY <1>1, <3>1, <3>2
  <2> QED
    BY <1>1, <2>1, <2>2
<1> QED
  BY <1>1, <1>2 DEF EndsWithFinish

\* dequeue_callback: the first callback of such a chain, and what is left.
LEMMA ChainTaken ==
    ASSUME NEW c \in Seq({"work", "finish"}), EndsWithFinish(c)
    PROVE  \/ Head(c) = "finish" /\ Tail(c) = <<>>
           \/ Head(c) = "work" /\ EndsWithFinish(Tail(c))
<1> DEFINE h == Head(c)
<1> DEFINE r == Tail(c)
<1>1. /\ Len(c) \in Nat \ {0}
      /\ h = c[1]
      /\ r \in Seq({"work", "finish"})
      /\ Len(r) = Len(c) - 1
      /\ \A n \in 1..Len(r) : r[n] = c[n + 1]
      /\ h \in {"work", "finish"}
      /\ Len(r) = 0 <=> r = <<>>
  <2>1. c # <<>>
    BY DEF EndsWithFinish
  <2>2. Len(c) \in Nat \ {0} /\ Len(r) = Len(c) - 1
    BY <2>1, EmptySeq, HeadTailProperties
  <2>3. r \in Seq({"work", "finish"}) /\ h \in {"work", "finish"}
    BY <2>1, HeadTailProperties
  <2>4. \A n \in 1..Len(r) : r[n] = c[n + 1]
    BY <2>1, HeadTailProperties
  <2>5. r # <<>> => Len(r) # 0
    BY <2>3, EmptySeq
  <2>6. r = <<>> => Len(r) = 0
    BY EmptySeq
  <2> QED
    BY <2>2, <2>3, <2>4, <2>5, <2>6
<1>2. \A n \in 1..Len(c) : c[n] = "finish" <=> n = Len(c)
  BY DEF EndsWithFinish
<1> HIDE DEF h, r
<1>3. h = "finish" <=> 1 = Len(c)
  <2>1. 1 \in 1..Len(c)
    BY <1>1
  <2> QED
    BY <1>1, <1>2, <2>1
<1>4. CASE h = "finish"
  <2>1. r = <<>>
    BY <1>1, <1>3, <1>4
  <2> QED
    BY <1>4, <2>1 DEF h, r
<1>5. CASE h = "work"
  <2>1. Len(r) # 0 /\ Len(r) \in Nat
    BY <1>1, <1>3, <1>5
  <2>2. ASSUME NEW n \in 1..Len(r)
        PROVE  r[n] = "finish" <=> n = Len(r)
    <3>1. n + 1 \in 1..Len(c) /\ r[n] = c[n + 1]
      BY <1>1, <2>1
    <3>2. c[n + 1] = "finish" <=> n + 1 = Len(c)
      BY <1>2, <3>1
    <3> QED
      BY <1>1, <2>1, <3>1, <3>2
  <2>3. EndsWithFinish(r)
    BY <1>1, <2>1, <2>2 DEF EndsWithFinish
  <2> QED
    BY <1>5, <2>3 DEF h, r
<1> QED
  BY <1>1, <1>4, <1>5

\* A task is not both: what is destroyed after a hand-over answers for nothing.
LEMMA BareCarriesNot ==
    ASSUME TypeOK, NEW t \in Task, Bare(t)
    PROVE  ~Carrying(t)
<1>1. task[t].callback \in Seq({"work", "finish"})
  BY DEF TypeOK, TaskRecord
<1>2. ASSUME EndsWithFinish(task[t].callback)
      PROVE  FALSE
  <2>1. Len(task[t].callback) \in 1..Len(task[t].callback)
    BY <1>1, <1>2 DEF EndsWithFinish
  <2> QED
    BY <1>2, <2>1 DEF EndsWithFinish, HasNoFinish, Bare
<1> QED
  BY <1>2 DEF Bare, Carrying, Ready

-----------------------------------------------------------------------------
(***************************************************************************)
(* What a step that leaves most of it alone keeps.                         *)
(***************************************************************************)

\* The two queues stay, one thread takes fresh cells or frees some it holds.
LEMMA PlacesStep ==
    ASSUME TypeInv, Places, NEW th \in Threads,
           taskQueue' = taskQueue, workersQueue' = workersQueue,
           \A o \in Threads \ {th} : cur'[o] = cur[o] /\ adding'[o] = adding[o],
           \A t \in Queued : task'[t].id = task[t].id,
           InHandsOf(th)' \subseteq InHandsOf(th) \cup (Task \ live),
           live' = (live \ InHandsOf(th)) \cup InHandsOf(th)'
    PROVE  Places'
<1>1. Queued' = Queued /\ HandedOver' = HandedOver
  BY DEF Queued, HandedOver
<1>2. \A o \in Threads \ {th} : InHandsOf(o)' = InHandsOf(o)
  BY DEF InHandsOf
<1>3. live = Queued \cup HandedOver \cup UNION {InHandsOf(o) : o \in Threads}
  BY DEF Places
<1>4. \A i \in DOMAIN taskQueue' : task'[taskQueue'[i]].id = i
  BY DEF Places, Queued
<1> HIDE DEF Queued, HandedOver, InHandsOf
<1>5. live' = Queued' \cup HandedOver' \cup UNION {InHandsOf(o)' : o \in Threads}
  <2>1. InHandsOf(th) \cap (Queued \cup HandedOver) = {}
    BY DEF Places
  <2>2. \A o \in Threads \ {th} : InHandsOf(th) \cap InHandsOf(o) = {}
    BY DEF Places
  <2> QED
    BY <1>1, <1>2, <1>3, <2>1, <2>2
<1>6. ASSUME NEW a \in Threads
      PROVE  /\ InHandsOf(a)' \cap (Queued' \cup HandedOver') = {}
             /\ \A o \in Threads \ {a} : InHandsOf(a)' \cap InHandsOf(o)' = {}
  <2>1. \A o \in Threads : InHandsOf(o) \subseteq live
    BY <1>3
  <2>2. Queued \cup HandedOver \subseteq live
    BY <1>3
  <2> QED
    BY <1>1, <1>2, <2>1, <2>2 DEF Places
<1> QED
  BY <1>1, <1>4, <1>5, <1>6 DEF Places

\* Whether a task carries its request depends on its cell and, for a task
\* whose handler is finish_request, on who has returned from it.
LEMMA CarriesStep ==
    ASSUME NEW t, task'[t] = task[t],
           task[t].handle = "finish" =>
               \A th \in Threads : pc[th] = "returned" /\ cur[th] = t
                                   <=> pc'[th] = "returned" /\ cur'[th] = t
    PROVE  Carries(t)' <=> Carries(t)
BY DEF Carries, Carrying, Called, Ready

\* No request is opened or closed, and only tasks that carry none are freed.
LEMMA FinishersStep ==
    ASSUME Finishers, open' = open, live' \subseteq live,
           \A t \in live' : /\ task'[t].id = task[t].id
                            /\ task'[t].data = task[t].data
                            /\ Carries(t)' <=> Carries(t),
           \A t \in live \ live' : ~Carries(t)
    PROVE  Finishers'
BY DEF Finishers

\* The hands of a thread that did nothing.
LEMMA HandsStay ==
    ASSUME TypeInv, NEW o \in Threads, HandsOf(o),
           pc'[o] = pc[o], cur'[o] = cur[o], adding'[o] = adding[o],
           \A t \in InHandsOf(o) : task'[t] = task[t]
    PROVE  HandsOf(o)'
<1>1. /\ pc[o] \in {"exec", "returned"} => cur[o] \in Task
      /\ pc[o] = "insert" => adding[o] \in Task
      /\ NoTask \notin Task
  BY DataAssumption DEF TypeInv, PointersOK
<1>2. cur[o] # NoTask => task'[cur[o]] = task[cur[o]]
  BY DEF InHandsOf
<1>3. adding[o] # NoTask => task'[adding[o]] = task[adding[o]]
  BY DEF InHandsOf
<1>4. pc[o] \in {"uncount", "route"} => cur[o] # NoTask
  <2>1. pc[o] \in Labels(o)
    BY DEF TypeInv, TypeOK
  <2>2. pc[o] \in {"uncount", "route"} => o = Sched
    BY <2>1, ThreadAssumption
    DEF Labels, AddLabels, MainLabels, WorkerLabels, ExecLabels
  <2> QED
    BY <1>1, <2>2 DEF TypeInv, PointersOK
<1> QED
  BY <1>1, <1>2, <1>3, <1>4 DEF HandsOf, Ready, Carrying, Bare

\* The queues and their tasks, when nobody touched them.
LEMMA QueuesStay ==
    ASSUME QueuesHold, taskQueue' = taskQueue, workersQueue' = workersQueue,
           \A t \in Queued \cup HandedOver : task'[t] = task[t],
           scheduled' \subseteq Queued, polls' \subseteq Queued,
           pc'[Sched] # "poll" => polls' = {}
    PROVE  QueuesHold'
<1>1. Queued' = Queued /\ HandedOver' = HandedOver
  BY DEF Queued, HandedOver
<1> HIDE DEF Queued, HandedOver
<1> QED
  BY <1>1 DEF QueuesHold, Ready, Carrying

\* A thread does something to the tasks in its hands and to fresh ones.
LEMMA HandsStep ==
    ASSUME OwnInv, NEW th \in Threads, NEW l \in Labels(th), Goto(th, l),
           taskQueue' = taskQueue, workersQueue' = workersQueue,
           \A o \in Threads \ {th} : cur'[o] = cur[o] /\ adding'[o] = adding[o],
           \A t \in live \ InHandsOf(th) : task'[t] = task[t],
           InHandsOf(th)' \subseteq InHandsOf(th) \cup (Task \ live),
           live' = (live \ InHandsOf(th)) \cup InHandsOf(th)',
           scheduled' \subseteq Queued, polls' \subseteq Queued,
           pc'[Sched] # "poll" => polls' = {},
           HandsOf(th)', Finishers'
    PROVE  Owned'
<1>1. /\ Queued \cup HandedOver \subseteq live \ InHandsOf(th)
      /\ \A o \in Threads \ {th} : InHandsOf(o) \subseteq live \ InHandsOf(th)
  BY DEF OwnInv, Owned, Places
<1>2. Places'
  BY <1>1, PlacesStep DEF OwnInv, Owned
<1>3. \A o \in Threads \ {th} : pc'[o] = pc[o]
  BY GotoType DEF OwnInv, TypeInv
<1>4. \A o \in Threads : HandsOf(o)'
  BY <1>1, <1>3, HandsStay DEF OwnInv, Owned
<1>5. QueuesHold'
  BY <1>1, QueuesStay DEF OwnInv, Owned
<1> QED
  BY <1>2, <1>4, <1>5 DEF Owned

\* A thread only moves on, or leaves tasks that answer for no request.
LEMMA MoveStep ==
    ASSUME OwnInv, NEW th \in Threads, NEW l \in Labels(th), Goto(th, l),
           taskQueue' = taskQueue, workersQueue' = workersQueue, open' = open,
           \A o \in Threads \ {th} : cur'[o] = cur[o] /\ adding'[o] = adding[o],
           \A t \in live' : task'[t] = task[t],
           InHandsOf(th)' \subseteq InHandsOf(th),
           live' = (live \ InHandsOf(th)) \cup InHandsOf(th)',
           \A t \in InHandsOf(th) \ InHandsOf(th)' : ~Carries(t),
           scheduled' \subseteq Queued, polls' \subseteq Queued,
           pc'[Sched] # "poll" => polls' = {},
           pc[th] = "returned" => cur[th] \notin live',
           l = "returned" => cur' = cur /\ task[cur[th]].handle # "finish",
           HandsOf(th)'
    PROVE  Owned'
<1>1. InHandsOf(th) \subseteq live
  BY DEF OwnInv, Owned, Places
<1>2. /\ live' \subseteq live
      /\ \A t \in live \ live' : ~Carries(t)
      /\ \A t \in live \ InHandsOf(th) : task'[t] = task[t]
  BY <1>1
<1>3. pc'[th] = l /\ \A o \in Threads \ {th} : pc'[o] = pc[o]
  BY GotoType DEF OwnInv, TypeInv
<1>4. ASSUME NEW t \in live' PROVE Carries(t)' <=> Carries(t)
  <2>1. task'[t] = task[t] /\ t \in live
    BY <1>2
  <2>2. task[t].handle = "finish" =>
           \A o \in Threads : pc[o] = "returned" /\ cur[o] = t
                                   <=> pc'[o] = "returned" /\ cur'[o] = t
    BY <1>3
  <2> QED
    BY <2>1, <2>2, CarriesStep
<1>5. Finishers'
  BY <1>2, <1>4, FinishersStep DEF OwnInv, Owned
<1> QED
  BY <1>1, <1>2, <1>5, HandsStep

-----------------------------------------------------------------------------
(***************************************************************************)
(* antd_scheduler_add_task.                                                *)
(***************************************************************************)

\* The request of a task that answers for it: the task has its id.
LEMMA IdOfCarrier ==
    ASSUME OwnInv, NEW t \in live
    PROVE  /\ t \in Task
           /\ task[t].data \in Socks
           /\ task[t].id = task[t].data
           /\ task[t].id \in Nat \ {0}
           /\ AddLabel(task[t].id) = "insert"
BY DataAssumption DEF OwnInv, Owned, Finishers, TypeInv, TypeOK, AddLabel

\* Who waits in a queue is in nobody's hands, so nobody has finished it.
LEMMA QueuedCarry ==
    ASSUME OwnInv, NEW t \in Queued \cup HandedOver
    PROVE  Carries(t) /\ t \in live /\ \A th \in Threads : t \notin InHandsOf(th)
<1>1. t \in live /\ \A th \in Threads : t \notin InHandsOf(th)
  BY DEF OwnInv, Owned, Places
<1>2. \A th \in Threads : t # NoTask /\ t # cur[th]
  BY <1>1, DataAssumption DEF InHandsOf, OwnInv, TypeInv, TypeOK
<1>3. Carrying(t)
  BY DEF OwnInv, Owned, QueuesHold, Carrying
<1> QED
  BY <1>1, <1>2, <1>3 DEF Carries, Called

\* A task in the hands of a thread that has not returned from it carries its
\* request if it has something to finish.
LEMMA HeldCarry ==
    ASSUME OwnInv, NEW th \in Threads, NEW t \in InHandsOf(th), Carrying(t),
           pc[th] # "returned" \/ task[t].handle # "finish"
    PROVE  Carries(t) /\ t \in live
<1>1. t \in live /\ t # NoTask
  BY DEF OwnInv, Owned, Places, InHandsOf
<1>2. \A o \in Threads \ {th} : cur[o] # t
  BY <1>1 DEF OwnInv, Owned, Places, InHandsOf
<1> QED
  BY <1>1, <1>2 DEF Carries, Called

\* No queued task has the id of a request another task carries.
LEMMA IdIsFree ==
    ASSUME OwnInv, NEW d \in Socks,
           d \in open => \E t \in live \ Queued : Carries(t) /\ task[t].data = d
    PROVE  d \notin DOMAIN taskQueue
<1> SUFFICES ASSUME d \in DOMAIN taskQueue PROVE FALSE
  OBVIOUS
<1> DEFINE s == taskQueue[d]
<1>1. s \in Queued /\ task[s].id = d
  BY DEF Queued, OwnInv, Owned, Places
<1>2. Carries(s) /\ s \in live /\ task[s].data = d
  BY <1>1, QueuedCarry, IdOfCarrier
<1>3. d \in open
  BY <1>2 DEF OwnInv, Owned, Finishers
<1>4. PICK t \in live \ Queued : Carries(t) /\ task[t].data = d
  BY <1>3
<1> QED
  BY <1>1, <1>2, <1>4 DEF OwnInv, Owned, Finishers

\* The id under which a thread is about to insert its task is free.
LEMMA InsertIsFree ==
    ASSUME OwnInv, NEW th \in Threads, pc[th] = "insert"
    PROVE  /\ adding[th] \in live
           /\ adding[th] \in InHandsOf(th)
           /\ Carries(adding[th])
           /\ task[adding[th]].id \in Nat
           /\ task[adding[th]].id \notin DOMAIN taskQueue
<1>1. adding[th] \in InHandsOf(th)
  BY DataAssumption DEF OwnInv, TypeInv, PointersOK, InHandsOf
<1>2. Carrying(adding[th])
  BY DEF OwnInv, Owned, HandsOf, Carrying
<1>3. Carries(adding[th]) /\ adding[th] \in live
  BY <1>1, <1>2, HeldCarry
<1>4. adding[th] \notin Queued
  BY <1>1 DEF OwnInv, Owned, Places
<1> QED
  BY <1>1, <1>3, <1>4, IdIsFree, IdOfCarrier

\* The steps of antd_scheduler_add_task keep the invariant.
LEMMA OwnAdd ==
    ASSUME OwnInv, NEW th \in Threads,
           AddGetId(th) \/ AddInsert(th) \/ AddCount(th) \/ AddPost(th)
    PROVE  Owned'
<1>hands. HandsOf(th)
  BY DEF OwnInv, Owned
<1>1. CASE AddGetId(th)
  BY <1>hands, <1>1 DEF AddGetId, HandsOf
<1>2. CASE AddInsert(th)
  <2> DEFINE t == adding[th]
  <2> DEFINE i == task[t].id
  <2>1. /\ t \in live /\ t \in InHandsOf(th) /\ Carries(t)
        /\ i \in Nat /\ i \notin DOMAIN taskQueue
    BY <1>2, InsertIsFree DEF AddInsert
  <2>2. /\ taskQueue' = Inserted(taskQueue, i, t)
        /\ DOMAIN taskQueue' = DOMAIN taskQueue \cup {i}
        /\ taskQueue'[i] = t
        /\ \A j \in DOMAIN taskQueue : taskQueue'[j] = taskQueue[j]
    BY <1>2, <2>1 DEF AddInsert, Inserted
  <2>3. Queued' = Queued \cup {t} /\ HandedOver' = HandedOver
    BY <1>2, <2>1, <2>2 DEF Queued, HandedOver, AddInsert, hubVars
  <2>4. /\ InHandsOf(th)' = InHandsOf(th) \ {t}
        /\ \A o \in Threads \ {th} : InHandsOf(o)' = InHandsOf(o)
    BY <1>2 DEF AddInsert, InHandsOf, OwnInv, TypeInv, TypeOK
  <2>5. live' = live /\ task' = task /\ open' = open
    BY <1>2 DEF AddInsert, heapVars, reqVars
  <2>6. /\ pc[th] = "insert" /\ pc'[th] = "count"
        /\ \A o \in Threads \ {th} : pc'[o] = pc[o]
    BY <1>2, CommonLabels, GotoType DEF AddInsert, OwnInv, TypeInv
  <2>7. Places'
    <3>1. live' = Queued' \cup HandedOver' \cup UNION {InHandsOf(o)' : o \in Threads}
      BY <2>1, <2>3, <2>4, <2>5 DEF OwnInv, Owned, Places
    <3>2. Queued' \cap HandedOver' = {}
      BY <2>1, <2>3 DEF OwnInv, Owned, Places
    <3>3. ASSUME NEW a \in Threads
          PROVE  /\ InHandsOf(a)' \cap (Queued' \cup HandedOver') = {}
                 /\ \A o \in Threads \ {a} : InHandsOf(a)' \cap InHandsOf(o)' = {}
      BY <2>1, <2>3, <2>4 DEF OwnInv, Owned, Places
    <3>4. \A j \in DOMAIN taskQueue' : task'[taskQueue'[j]].id = j
      BY <2>2, <2>5 DEF OwnInv, Owned, Places
    <3>5. workersQueue' = workersQueue
      BY <1>2 DEF AddInsert, hubVars
    <3> QED
      BY <3>1, <3>2, <3>3, <3>4, <3>5 DEF OwnInv, Owned, Places
  <2>8. Finishers'
    <3>1. ASSUME NEW s \in live' PROVE Carries(s)' <=> Carries(s)
      <4>1. \A o \in Threads : pc[o] = "returned" /\ cur[o] = s
                               <=> pc'[o] = "returned" /\ cur'[o] = s
        BY <1>2, <2>6 DEF AddInsert
      <4> QED
        BY <2>5, <4>1, CarriesStep
    <3> QED
      BY <2>5, <3>1, FinishersStep DEF OwnInv, Owned
  <2>9. \A o \in Threads : HandsOf(o)'
    <3>1. \A o \in Threads \ {th} : HandsOf(o)'
      BY <1>2, <2>5, <2>6, HandsStay DEF AddInsert, OwnInv, Owned
    <3>2. HandsOf(th)'
      <4>1. /\ adding'[th] = NoTask
            /\ cur'[th] = IF cur[th] = t THEN NoTask ELSE cur[th]
        BY <1>2 DEF AddInsert, OwnInv, TypeInv, TypeOK
      <4> QED
        BY <1>hands, <2>5, <2>6, <4>1 DEF HandsOf, Bare
    <3> QED
      BY <3>1, <3>2
  <2>10. QueuesHold'
    <3>1. Carrying(t)
      BY <2>1 DEF Carries
    <3>2. /\ scheduled' = scheduled /\ polls' = polls
          /\ pc'[Sched] # "poll" => pc[Sched] # "poll"
      BY <1>2, <2>6 DEF AddInsert, roundVars, Threads
    <3> QED
      BY <2>3, <2>5, <3>1, <3>2 DEF OwnInv, Owned, QueuesHold, Carrying, Ready
  <2> QED
    BY <2>7, <2>8, <2>9, <2>10 DEF Owned
<1>3. CASE AddCount(th)
  <2>1. Goto(th, "post") /\ "post" \in Labels(th) /\ pc'[th] = "post"
    BY <1>3, CommonLabels, GotoType DEF AddCount, OwnInv, TypeInv
  <2>2. HandsOf(th)'
    BY <1>hands, <1>3, <2>1 DEF AddCount, HandsOf, Bare, heapVars
  <2>3. InHandsOf(th)' = InHandsOf(th) /\ InHandsOf(th) \subseteq live
    BY <1>3 DEF AddCount, InHandsOf, OwnInv, Owned, Places
  <2>4. QueuesHold /\ (pc'[Sched] # "poll" => pc[Sched] # "poll")
    BY <1>3, <2>1, GotoType DEF AddCount, OwnInv, Owned, TypeInv, Threads
  <2> QED
    BY <1>3, <2>1, <2>2, <2>3, <2>4, MoveStep
    DEF AddCount, heapVars, hubVars, reqVars, roundVars, QueuesHold
<1>4. CASE AddPost(th)
  <2> DEFINE l == LoopHead(th)
  <2>1. /\ Goto(th, l) /\ l \in Labels(th) /\ pc'[th] = l
        /\ l \in {"accept", "deploy", "check"}
    BY <1>4, LoopHeadType, GotoType DEF AddPost, OwnInv, TypeInv
  <2>2. cur'[th] = NoTask /\ adding'[th] = NoTask /\ adding[th] = NoTask
    BY <1>4, <1>hands DEF AddPost, HandsOf, OwnInv, TypeInv, TypeOK
  <2>3. HandsOf(th)'
    BY <2>1, <2>2 DEF HandsOf
  <2>4. InHandsOf(th)' = {} /\ InHandsOf(th) \subseteq live
    BY <2>2 DEF InHandsOf, OwnInv, Owned, Places
  <2>5. \A t \in InHandsOf(th) : ~Carries(t)
    <3>1. \A t \in InHandsOf(th) : t = cur[th] /\ t \in Task /\ Bare(t)
      BY <1>4, <1>hands, <2>2
      DEF AddPost, InHandsOf, HandsOf, OwnInv, TypeInv, TypeOK
    <3> QED
      BY <3>1, BareCarriesNot DEF OwnInv, TypeInv, Carries
  <2>6. live' = live \ InHandsOf(th) /\ \A t \in live' : task'[t] = task[t]
    <3>1. CASE cur[th] = NoTask
      BY <1>4, <2>2, <3>1 DEF AddPost, InHandsOf, heapVars
    <3>2. CASE cur[th] # NoTask
      BY <1>4, <2>2, <3>2
      DEF AddPost, InHandsOf, DestroyTask, OwnInv, TypeInv, TypeOK
    <3> QED
      BY <3>1, <3>2
  <2>7. QueuesHold /\ (pc'[Sched] # "poll" => pc[Sched] # "poll")
    BY <1>4, <2>1, GotoType DEF AddPost, OwnInv, Owned, TypeInv, Threads
  <2>8. /\ taskQueue' = taskQueue /\ workersQueue' = workersQueue
        /\ open' = open /\ scheduled' = scheduled /\ polls' = polls
        /\ \A o \in Threads \ {th} : cur'[o] = cur[o] /\ adding'[o] = adding[o]
        /\ pc[th] # "returned" /\ l # "returned"
    BY <1>4, <2>1 DEF AddPost, hubVars, reqVars, roundVars
  <2> QED
    BY <2>1, <2>3, <2>4, <2>5, <2>6, <2>7, <2>8, MoveStep DEF QueuesHold
<1> QED
  BY <1>1, <1>2, <1>3, <1>4

-----------------------------------------------------------------------------
(***************************************************************************)
(* antd_execute_task.                                                      *)
(***************************************************************************)

\* The task a thread executes carries its request, and it is the only one.
LEMMA ExecutedCarries ==
    ASSUME OwnInv, NEW th \in Threads, pc[th] = "exec"
    PROVE  LET t == cur[th] IN
           /\ t \in live /\ t \in Task /\ Carries(t) /\ Ready(t)
           /\ adding[th] = NoTask /\ InHandsOf(th) = {t}
           /\ task[t].data \in open
           /\ \A s \in live \ {t} : ~(Carries(s) /\ task[s].data = task[t].data)
<1>1. /\ cur[th] \in Task /\ Ready(cur[th]) /\ adding[th] = NoTask
      /\ cur[th] # NoTask
  BY DataAssumption DEF OwnInv, TypeInv, PointersOK, Owned, HandsOf
<1>2. InHandsOf(th) = {cur[th]}
  BY <1>1 DEF InHandsOf
<1>3. Carries(cur[th]) /\ cur[th] \in live
  BY <1>1, <1>2, HeldCarry DEF Carrying
<1> QED
  BY <1>1, <1>2, <1>3 DEF OwnInv, Owned, Finishers

\* The steps that run a handler keep the invariant.
LEMMA OwnExec ==
    ASSUME OwnInv, ~Detach, NEW th \in Threads \ {Main},
           ExecFinish(th) \/ ExecNull(th) \/ ExecTask(th) \/ ExecDetach(th)
    PROVE  Owned'
<1> DEFINE t == cur[th]
<1>1. pc[th] = "exec"
  BY DEF ExecFinish, ExecNull, ExecTask, ExecDetach
<1>2. /\ t \in live /\ t \in Task /\ Carries(t) /\ Ready(t)
      /\ adding[th] = NoTask /\ InHandsOf(th) = {t}
      /\ task[t].data \in open
      /\ \A s \in live \ {t} : ~(Carries(s) /\ task[s].data = task[t].data)
  BY <1>1, ExecutedCarries
<1>3. /\ "returned" \in Labels(th) /\ Goto(th, "returned")
      /\ pc'[th] = "returned" /\ \A o \in Threads \ {th} : pc'[o] = pc[o]
  BY CommonLabels, GotoType
  DEF ExecFinish, ExecNull, ExecTask, ExecDetach, OwnInv, TypeInv
<1>4. QueuesHold /\ (pc'[Sched] # "poll" => pc[Sched] # "poll")
  BY <1>1, <1>3 DEF OwnInv, Owned, Threads
<1>5. /\ taskQueue' = taskQueue /\ workersQueue' = workersQueue
      /\ scheduled' = scheduled /\ polls' = polls /\ cur' = cur
  BY DEF ExecFinish, ExecNull, ExecTask, ExecDetach, queueVars, hubVars, roundVars
<1>6. CASE ExecFinish(th)
  <2>1. /\ open' = open \ {task[t].data} /\ task' = task /\ live' = live
        /\ adding' = adding /\ task[t].handle = "finish"
    BY <1>6 DEF ExecFinish, heapVars
  <2>2. ~Carries(t)'
    BY <1>3, <1>5, <2>1 DEF Carries, Called
  <2>3. ASSUME NEW s \in live \ {t} PROVE Carries(s)' <=> Carries(s)
    BY <1>1, <1>3, <1>5, <2>1, CarriesStep
  <2>4. Finishers'
    BY <1>2, <1>5, <2>1, <2>2, <2>3 DEF OwnInv, Owned, Finishers
  <2>5. HandsOf(th)'
    BY <1>2, <1>3, <1>5, <2>1 DEF HandsOf, Ready
  <2>6. InHandsOf(th)' = InHandsOf(th)
    BY <1>5, <2>1 DEF InHandsOf
  <2> QED
    BY <1>2, <1>3, <1>4, <1>5, <2>1, <2>4, <2>5, <2>6, HandsStep DEF QueuesHold
<1>7. CASE ExecNull(th)
  <2>1. /\ open' = open /\ task' = task /\ live' = live
        /\ adding' = adding /\ task[t].handle = "work"
    BY <1>7 DEF ExecNull, heapVars, reqVars
  <2>2. HandsOf(th)'
    BY <1>2, <1>3, <1>5, <2>1 DEF HandsOf, Ready
  <2>3. InHandsOf(th)' = InHandsOf(th)
    BY <1>5, <2>1 DEF InHandsOf
  <2> QED
    BY <1>1, <1>2, <1>3, <1>4, <1>5, <2>1, <2>2, <2>3, MoveStep DEF QueuesHold
<1>8. CASE ExecTask(th)
  <2> DEFINE d == task[t].data
  <2>1. PICK r \in Task \ live, h \in {"work", "none"}, c \in {<<>>, <<"work">>},
             e \in EventSets, k \in NextIds(d) :
            /\ Alloc(r, [id |-> k, data |-> d, handle |-> h, callback |-> c,
                         events |-> e, expired |-> FALSE])
            /\ adding' = [adding EXCEPT ![th] = r]
    BY <1>8 DEF ExecTask
  <2>2. /\ open' = open /\ task[t].handle = "work"
        /\ live' = live \cup {r}
        /\ task'[r] = [id |-> k, data |-> d, handle |-> h, callback |-> c,
                       events |-> e, expired |-> FALSE]
        /\ \A s \in live : task'[s] = task[s]
        /\ adding'[th] = r /\ r # t /\ r # NoTask
        /\ \A o \in Threads \ {th} : adding'[o] = adding[o]
    <3>1. /\ task \in [Task -> TaskRecord] /\ adding \in [Threads -> Task \cup {NoTask}]
          /\ r \in Task /\ r \notin live /\ NoTask \notin Task
      BY <2>1, DataAssumption DEF OwnInv, TypeInv, TypeOK
    <3>2. open' = open /\ task[t].handle = "work"
      BY <1>8 DEF ExecTask
    <3>3. /\ live' = live \cup {r}
          /\ task' = [task EXCEPT ![r] = [id |-> k, data |-> d, handle |-> h, callback |-> c,
                                         events |-> e, expired |-> FALSE]]
      BY <2>1, Zenon DEF Alloc
    <3>4. live \subseteq Task
      BY DEF OwnInv, TypeInv, TypeOK
    <3>5. /\ task'[r] = [id |-> k, data |-> d, handle |-> h, callback |-> c,
                         events |-> e, expired |-> FALSE]
          /\ \A s \in live : task'[s] = task[s]
      BY <3>1, <3>3, <3>4, Zenon
    <3>6. adding'[th] = r /\ \A o \in Threads \ {th} : adding'[o] = adding[o]
      BY <2>1, <3>1, Zenon
    <3>7. r # t /\ r # NoTask
      BY <1>2, <3>1, Zenon
    <3> QED
      BY <3>2, <3>3, <3>5, <3>6, <3>7
  <2>3. k = d
    <3>1. d \in Socks /\ d # 0
      BY <1>2, IdOfCarrier
    <3>2. t \notin Queued
      BY <1>2 DEF OwnInv, Owned, Places
    <3>3. d \notin DOMAIN taskQueue
      BY <1>2, <3>1, <3>2, IdIsFree
    <3> QED
      BY <2>1, <3>1, <3>3 DEF NextIds
  <2>4. ~Carries(r)' /\ Bare(r)'
    <3>1. HasNoFinish(c)
      BY DEF HasNoFinish
    <3>2. Bare(r)'
      BY <2>2, <3>1 DEF Bare
    <3>3. ~EndsWithFinish(c)
      <4>1. CASE c = <<>>
        BY <4>1 DEF EndsWithFinish
      <4>2. CASE c = <<"work">>
        <5>1. Len(c) = 1 /\ 1 \in 1..Len(c) /\ c[1] = "work"
          BY <4>2
        <5> QED
          BY <5>1 DEF EndsWithFinish
      <4> QED
        BY <4>1, <4>2
    <3> QED
      BY <2>2, <3>2, <3>3 DEF Carries, Carrying, Ready
  <2>5. ASSUME NEW s \in live PROVE Carries(s)' <=> Carries(s)
    BY <1>1, <1>3, <1>5, <2>2, CarriesStep
  <2>6. Finishers'
    BY <1>2, <2>2, <2>3, <2>4, <2>5 DEF OwnInv, Owned, Finishers
  <2>7. HandsOf(th)'
    BY <1>2, <1>3, <1>5, <2>2, <2>4 DEF HandsOf, Ready
  <2>8. InHandsOf(th)' = InHandsOf(th) \cup {r}
    BY <1>2, <1>5, <2>2 DEF InHandsOf
  <2> QED
    BY <1>2, <1>3, <1>4, <1>5, <2>1, <2>2, <2>6, <2>7, <2>8, HandsStep DEF QueuesHold
<1> QED
  BY <1>6, <1>7, <1>8 DEF ExecDetach

\* The task a handler has returned from.
LEMMA ReturnedFrom ==
    ASSUME OwnInv, NEW th \in Threads, pc[th] = "returned"
    PROVE  LET t == cur[th] IN
           /\ t \in live /\ t \in Task /\ Ready(t) /\ task[t] \in TaskRecord
           /\ t # NoTask /\ InHandsOf(th) = {t, adding[th]} \ {NoTask}
           /\ InHandsOf(th) \subseteq live
           /\ \A o \in Threads \ {th} : InHandsOf(th) \cap InHandsOf(o) = {}
           /\ \A o \in Threads \ {th} : cur[o] \notin InHandsOf(th)
           /\ task[t].handle = "work" => Carries(t)
<1>1. /\ cur[th] \in Task /\ Ready(cur[th]) /\ cur[th] # NoTask
      /\ task[cur[th]] \in TaskRecord
  BY DataAssumption DEF OwnInv, TypeInv, TypeOK, PointersOK, Owned, HandsOf
<1>2. InHandsOf(th) = {cur[th], adding[th]} \ {NoTask}
  BY DEF InHandsOf
<1>3. /\ InHandsOf(th) \subseteq live
      /\ \A o \in Threads \ {th} : InHandsOf(th) \cap InHandsOf(o) = {}
  BY DEF OwnInv, Owned, Places
<1>4. \A o \in Threads \ {th} : cur[o] \notin InHandsOf(th)
  BY <1>2, <1>3 DEF InHandsOf
<1>5. task[cur[th]].handle = "work" => Carries(cur[th])
  BY <1>1, <1>2, HeldCarry DEF Carrying
<1> QED
  BY <1>1, <1>2, <1>3, <1>4, <1>5

\* The steps that follow a handler keep the invariant.
LEMMA OwnReturn ==
    ASSUME OwnInv, NEW th \in Threads \ {Main},
           ReturnCallback(th) \/ ReturnDone(th) \/ ReturnTask(th)
    PROVE  Owned'
<1> DEFINE t == cur[th]
<1>1. pc[th] = "returned"
  BY DEF ReturnCallback, ReturnDone, ReturnTask
<1>2. /\ t \in live /\ t \in Task /\ Ready(t) /\ task[t] \in TaskRecord
      /\ t # NoTask /\ InHandsOf(th) = {t, adding[th]} \ {NoTask}
      /\ InHandsOf(th) \subseteq live
      /\ \A o \in Threads \ {th} : InHandsOf(th) \cap InHandsOf(o) = {}
      /\ \A o \in Threads \ {th} : cur[o] \notin InHandsOf(th)
      /\ task[t].handle = "work" => Carries(t)
  BY <1>1, ReturnedFrom
<1>3. task[t].callback \in Seq({"work", "finish"})
  BY <1>2 DEF TaskRecord
<1>4. /\ taskQueue' = taskQueue /\ workersQueue' = workersQueue
      /\ scheduled' = scheduled /\ polls' = polls /\ open' = open
      /\ \A o \in Threads \ {th} : cur'[o] = cur[o] /\ adding'[o] = adding[o]
  BY DEF ReturnCallback, ReturnDone, ReturnTask, queueVars, hubVars, reqVars,
         roundVars, OwnInv, TypeInv, TypeOK
<1>5. ASSUME NEW l \in Labels(th), Goto(th, l)
      PROVE  /\ pc'[th] = l /\ \A o \in Threads \ {th} : pc'[o] = pc[o]
             /\ QueuesHold
             /\ l # "poll" => (pc'[Sched] # "poll" => pc[Sched] # "poll")
  BY <1>1, <1>5, GotoType DEF OwnInv, Owned, TypeInv, Threads
<1>6. CASE ReturnCallback(th)
  <2> DEFINE c == task[t].callback
  <2>1. /\ Goto(th, "insert") /\ "insert" \in Labels(th)
    BY <1>2, <1>6, IdOfCarrier, CommonLabels DEF ReturnCallback
  <2>2. /\ task' = [task EXCEPT ![t].handle = Head(c), ![t].callback = Tail(c)]
        /\ adding[th] = NoTask /\ c # <<>> /\ live' = live
    BY <1>6 DEF ReturnCallback
  <2>3. /\ task'[t].handle = Head(c) /\ task'[t].callback = Tail(c)
        /\ task'[t].id = task[t].id /\ task'[t].data = task[t].data
        /\ \A s \in live \ {t} : task'[s] = task[s]
    <3>1. task[t] = [id |-> task[t].id, data |-> task[t].data,
                     handle |-> task[t].handle, callback |-> task[t].callback,
                     events |-> task[t].events, expired |-> task[t].expired]
      BY <1>2 DEF TaskRecord
    <3> QED
      BY <1>2, <2>2, <3>1 DEF OwnInv, TypeInv, TypeOK
  <2>4. adding'[th] = t /\ cur' = cur
    BY <1>2, <1>6 DEF ReturnCallback, OwnInv, TypeInv, TypeOK
  <2>5. EndsWithFinish(c) /\ task[t].handle = "work"
    BY <1>2, <2>2 DEF Ready
  <2>6. Ready(t)'
    <3>1. \/ Head(c) = "finish" /\ Tail(c) = <<>>
          \/ Head(c) = "work" /\ EndsWithFinish(Tail(c))
      BY <1>3, <2>5, ChainTaken
    <3> QED
      BY <2>3, <2>4, <3>1 DEF Ready
  <2>7. Carries(t)'
    <3>1. ~Called(t)'
      BY <1>2, <1>4, <1>5, <2>1, <2>4 DEF Called
    <3> QED
      BY <2>6, <3>1 DEF Carries, Carrying
  <2>8. ASSUME NEW s \in live \ {t} PROVE Carries(s)' <=> Carries(s)
    BY <1>4, <1>5, <2>1, <2>3, <2>4, CarriesStep
  <2>9. Finishers'
    <3>1. \A s \in live : Carries(s)' <=> Carries(s)
      BY <1>2, <2>4, <2>5, <2>7, <2>8
    <3> QED
      BY <1>4, <2>2, <2>3, <3>1, FinishersStep DEF OwnInv, Owned
  <2>10. HandsOf(th)'
    BY <1>5, <2>1, <2>4, <2>6 DEF HandsOf
  <2>11. InHandsOf(th)' = InHandsOf(th)
    BY <1>2, <2>2, <2>4 DEF InHandsOf
  <2>12. /\ t \in InHandsOf(th) /\ \A s \in live \ InHandsOf(th) : task'[s] = task[s]
         /\ InHandsOf(th)' \subseteq InHandsOf(th) \cup (Task \ live)
         /\ live' = (live \ InHandsOf(th)) \cup InHandsOf(th)'
    BY <1>2, <2>2, <2>3, <2>11
  <2>13. /\ scheduled' \subseteq Queued /\ polls' \subseteq Queued
         /\ pc'[Sched] # "poll" => polls' = {}
    BY <1>4, <1>5, <2>1 DEF QueuesHold
  <2> HIDE DEF c, t
  <2> QED
    BY <1>4, <2>1, <2>9, <2>10, <2>12, <2>13, HandsStep
<1>7. CASE ReturnDone(th)
  <2> DEFINE l == LoopHead(th)
  <2>1. /\ Goto(th, l) /\ l \in Labels(th) /\ l \in {"accept", "deploy", "check"}
    BY <1>7, LoopHeadType DEF ReturnDone
  <2>2. /\ adding[th] = NoTask /\ adding' = adding /\ cur'[th] = NoTask
        /\ task[t].callback = <<>>
        /\ live' = live \ {t} /\ \A s \in live' : task'[s] = task[s]
    BY <1>7 DEF ReturnDone, DestroyTask, OwnInv, TypeInv, TypeOK
  <2>3. InHandsOf(th)' = {} /\ InHandsOf(th) = {t}
    BY <1>2, <2>2 DEF InHandsOf
  <2>4. ~Carries(t)
    <3>1. task[t].handle = "finish"
      BY <1>2, <2>2 DEF Ready, EndsWithFinish
    <3> QED
      BY <1>1, <3>1 DEF Carries, Called
  <2>5. HandsOf(th)'
    BY <1>5, <2>1, <2>2 DEF HandsOf
  <2> QED
    BY <1>2, <1>4, <1>5, <2>1, <2>2, <2>3, <2>4, <2>5, MoveStep DEF QueuesHold
<1>8. CASE ReturnTask(th)
  <2> DEFINE r == adding[th]
  <2> DEFINE first == task[r].handle = "none"
  <2> DEFINE c == Chain(t, r)
  <2>1. /\ r # NoTask /\ r # t /\ task[t].handle = "work" /\ Bare(r)
        /\ task[r].data = task[t].data
    BY <1>1, <1>8 DEF ReturnTask, OwnInv, Owned, HandsOf
  <2>2. r \in live /\ r \in Task /\ task[r] \in TaskRecord
    BY <1>2, <2>1 DEF OwnInv, TypeInv, TypeOK
  <2>3. /\ Goto(th, "insert") /\ "insert" \in Labels(th)
    BY <1>8, <2>2, IdOfCarrier, CommonLabels DEF ReturnTask
  <2>4. /\ cur' = cur /\ adding' = adding /\ live' = live
        /\ task' = [task EXCEPT
                        ![t].callback = <<>>,
                        ![r].callback = IF first THEN Tail(c) ELSE c,
                        ![r].handle = IF first THEN Head(c) ELSE @]
    BY <1>8 DEF ReturnTask
  <2>5. /\ task'[r].handle = (IF first THEN Head(c) ELSE task[r].handle)
        /\ task'[r].callback = (IF first THEN Tail(c) ELSE c)
        /\ task'[r].id = task[r].id /\ task'[r].data = task[r].data
        /\ task'[t].callback = <<>> /\ task'[t].handle = "work"
        /\ task'[t].id = task[t].id /\ task'[t].data = task[t].data
        /\ \A s \in live \ {t, r} : task'[s] = task[s]
    <3>1. \A s \in {t, r} : task[s] =
                    [id |-> task[s].id, data |-> task[s].data,
                     handle |-> task[s].handle, callback |-> task[s].callback,
                     events |-> task[s].events, expired |-> task[s].expired]
      BY <1>2, <2>2 DEF TaskRecord
    <3> HIDE DEF c, first
    <3> QED
      BY <1>2, <2>1, <2>2, <2>4, <3>1 DEF OwnInv, TypeInv, TypeOK
  <2>6. /\ task[r].callback \in Seq({"work", "finish"})
        /\ c \in Seq({"work", "finish"}) /\ EndsWithFinish(c)
    <3>1. task[r].callback \in Seq({"work", "finish"})
      BY <2>2 DEF TaskRecord
    <3>2. HasNoFinish(task[r].callback)
      BY <2>1 DEF Bare
    <3>3. EndsWithFinish(task[t].callback)
      BY <1>2, <2>1 DEF Ready
    <3> QED
      BY <1>3, <3>1, <3>2, <3>3, ChainJoined DEF Chain
  <2>7. Ready(r)'
    <3>1. CASE first
      <4>1. \/ Head(c) = "finish" /\ Tail(c) = <<>>
            \/ Head(c) = "work" /\ EndsWithFinish(Tail(c))
        BY <2>6, ChainTaken
      <4> QED
        BY <2>4, <2>5, <3>1, <4>1 DEF Ready
    <3>2. CASE ~first
      <4>1. task[r].handle = "work"
        BY <2>1, <2>2, <3>2 DEF Bare, TaskRecord, Handles
      <4> QED
        BY <2>4, <2>5, <2>6, <3>2, <4>1 DEF Ready
    <3> QED
      BY <3>1, <3>2
  <2>8. Bare(t)' /\ ~Carries(t)'
    <3>1. HasNoFinish(<<>>) /\ ~EndsWithFinish(<<>>)
      <4>1. Len(<<>>) = 0
        BY EmptySeq
      <4> QED
        BY <4>1 DEF HasNoFinish, EndsWithFinish
    <3> QED
      BY <2>4, <2>5, <3>1 DEF Bare, Carries, Carrying, Ready
  <2>9. ~Carries(r)
    BY <2>1, <2>2, BareCarriesNot DEF Carries, OwnInv, TypeInv
  <2>10. Carries(r)'
    <3>1. ~Called(r)'
      BY <1>2, <1>4, <1>5, <2>1, <2>3, <2>4 DEF Called
    <3> QED
      BY <2>7, <3>1 DEF Carries, Carrying
  <2>11. ASSUME NEW s \in live \ {t, r} PROVE Carries(s)' <=> Carries(s)
    BY <1>4, <1>5, <2>3, <2>4, <2>5, CarriesStep
  <2>12. Finishers'
    <3>1. PICK x, y : x = t /\ y = r
      OBVIOUS
    <3>2. t' = x /\ r' = y
      BY <2>4, <3>1
    <3>3. /\ \A s \in live : task'[s].data = task[s].data /\ task'[s].id = task[s].id
          /\ x \in live /\ y \in live /\ task[y].data = task[x].data
          /\ Carries(x) /\ ~Carries(y) /\ ~Carries(x)' /\ Carries(y)'
          /\ \A s \in live \ {x, y} : Carries(s)' <=> Carries(s)
          /\ live' = live /\ open' = open
      BY <1>2, <1>4, <2>1, <2>2, <2>4, <2>5, <2>8, <2>9, <2>10, <2>11, <3>1, <3>2
    <3> HIDE DEF t, r, first, c
    <3> QED
      BY <3>3 DEF OwnInv, Owned, Finishers
  <2>13. HandsOf(th)'
    BY <1>5, <2>1, <2>3, <2>4, <2>7, <2>8 DEF HandsOf
  <2>14. InHandsOf(th)' = InHandsOf(th) /\ InHandsOf(th) = {t, r}
    BY <1>2, <2>1, <2>4 DEF InHandsOf
  <2>15. /\ \A s \in live \ InHandsOf(th) : task'[s] = task[s]
         /\ InHandsOf(th)' \subseteq InHandsOf(th) \cup (Task \ live)
         /\ live' = (live \ InHandsOf(th)) \cup InHandsOf(th)'
    BY <1>2, <2>4, <2>5, <2>14
  <2>16. /\ scheduled' \subseteq Queued /\ polls' \subseteq Queued
         /\ pc'[Sched] # "poll" => polls' = {}
    BY <1>4, <1>5, <2>3 DEF QueuesHold
  <2> HIDE DEF c, t, r, first
  <2> QED
    BY <1>4, <2>3, <2>12, <2>13, <2>15, <2>16, HandsStep
<1> QED
  BY <1>6, <1>7, <1>8

-----------------------------------------------------------------------------
(***************************************************************************)
(* work, and antd_scheduler_wait.                                          *)
(***************************************************************************)

\* Taking the first task of the workers' queue, ...
LEMMA HubTaken ==
    ASSUME TypeOK, Places, workersQueue # <<>>, workersQueue' = Tail(workersQueue)
    PROVE  /\ Head(workersQueue) \in HandedOver
           /\ Head(workersQueue) \in Task
           /\ HandedOver' = HandedOver \ {Head(workersQueue)}
           /\ \A m, n \in DOMAIN workersQueue' :
                    workersQueue'[m] = workersQueue'[n] => m = n
<1> DEFINE q == workersQueue
<1>1. q \in Seq(Task) /\ \A m, n \in DOMAIN q : q[m] = q[n] => m = n
  BY DEF TypeOK, Places
<1>2. /\ Len(q) \in Nat \ {0} /\ DOMAIN q = 1..Len(q)
      /\ Head(q) = q[1] /\ Head(q) \in Task
      /\ Tail(q) \in Seq(Task) /\ Len(Tail(q)) = Len(q) - 1
      /\ DOMAIN Tail(q) = 1..(Len(q) - 1)
      /\ \A n \in 1..(Len(q) - 1) : Tail(q)[n] = q[n + 1]
  <2>1. Tail(q) \in Seq(Task) /\ Len(Tail(q)) = Len(q) - 1 /\ Head(q) \in Task
    BY <1>1, HeadTailProperties
  <2>2. /\ Len(q) \in Nat \ {0} /\ DOMAIN q = 1..Len(q)
        /\ DOMAIN Tail(q) = 1..Len(Tail(q))
    BY <1>1, <2>1, EmptySeq, LenProperties
  <2>3. \A n \in 1..Len(Tail(q)) : Tail(q)[n] = q[n + 1]
    BY <1>1, HeadTailProperties
  <2>4. Head(q) = q[1]
    BY <1>1
  <2> QED
    BY <2>1, <2>2, <2>3, <2>4
<1> DEFINE r == Tail(q)
<1>3. r = workersQueue'
  OBVIOUS
<1>4. ASSUME NEW n \in DOMAIN r
      PROVE  r[n] = q[n + 1] /\ n + 1 \in DOMAIN q /\ n + 1 # 1
  <2>1. n \in 1..(Len(q) - 1)
    BY <1>2
  <2> QED
    BY <1>2, <2>1
<1>5. \A n \in DOMAIN q : n # 1 => n - 1 \in DOMAIN r /\ r[n - 1] = q[n]
  BY <1>2
<1>6. {r[n] : n \in DOMAIN r} = {q[n] : n \in DOMAIN q} \ {q[1]}
  <2>1. ASSUME NEW n \in DOMAIN r
        PROVE  r[n] \in {q[k] : k \in DOMAIN q} \ {q[1]}
    BY <1>1, <1>2, <1>4, <2>1
  <2>2. ASSUME NEW n \in DOMAIN q, q[n] # q[1]
        PROVE  q[n] \in {r[k] : k \in DOMAIN r}
    BY <1>5, <2>2
  <2> QED
    BY <2>1, <2>2
<1>7. ASSUME NEW m \in DOMAIN r, NEW n \in DOMAIN r, r[m] = r[n]
      PROVE  m = n
  <2>1. m \in Nat /\ n \in Nat
    BY <1>2
  <2>2. m + 1 = n + 1
    BY <1>1, <1>4, <1>7
  <2> QED
    BY <2>1, <2>2
<1>8. Head(q) = q[1] /\ Head(q) \in Task /\ 1 \in DOMAIN q
  BY <1>2
<1>9. Head(q) \in HandedOver /\ HandedOver' = HandedOver \ {Head(q)}
  BY <1>3, <1>6, <1>8 DEF HandedOver
<1>10. \A m, n \in DOMAIN workersQueue' :
            workersQueue'[m] = workersQueue'[n] => m = n
  <2> HIDE DEF r
  <2> QED
    BY <1>3, <1>7
<1> QED
  BY <1>8, <1>9, <1>10

\* ... and adding one at its end.
LEMMA HubAppended ==
    ASSUME TypeOK, Places, NEW t \in Task \ HandedOver,
           workersQueue' = Append(workersQueue, t)
    PROVE  /\ HandedOver' = HandedOver \cup {t}
           /\ \A m, n \in DOMAIN workersQueue' :
                    workersQueue'[m] = workersQueue'[n] => m = n
<1> DEFINE q == workersQueue
<1> DEFINE r == Append(q, t)
<1>1. q \in Seq(Task) /\ \A m, n \in DOMAIN q : q[m] = q[n] => m = n
  BY DEF TypeOK, Places
<1>2. /\ Len(q) \in Nat /\ DOMAIN q = 1..Len(q)
      /\ DOMAIN r = 1..(Len(q) + 1)
      /\ \A n \in 1..Len(q) : r[n] = q[n]
      /\ r[Len(q) + 1] = t
  <2>1. /\ r \in Seq(Task) /\ Len(r) = Len(q) + 1 /\ r[Len(q) + 1] = t
        /\ \A n \in 1..Len(q) : r[n] = q[n]
    BY <1>1, AppendProperties
  <2> QED
    BY <1>1, <2>1, LenProperties
<1>3. \A n \in DOMAIN q : q[n] # t
  BY DEF HandedOver
<1>4. r = workersQueue'
  OBVIOUS
<1> HIDE DEF r
<1>5. {r[n] : n \in DOMAIN r} = {q[n] : n \in DOMAIN q} \cup {t}
  <2>1. DOMAIN r = DOMAIN q \cup {Len(q) + 1}
    BY <1>2
  <2> QED
    BY <1>2, <2>1
<1>6. \A m, n \in DOMAIN r : r[m] = r[n] => m = n
  BY <1>1, <1>2, <1>3
<1> QED
  BY <1>4, <1>5, <1>6 DEF HandedOver

\* The steps of the loop of a worker keep the invariant.
LEMMA OwnWorker ==
    ASSUME OwnInv, NEW w \in Workers,
           WorkerCheck(w) \/ WorkerDequeue(w) \/ WorkerNone(w) \/ WorkerWake(w)
    PROVE  Owned'
<1>types. w \in Threads \ {Main, Sched} /\ WorkerLabels \subseteq Labels(w)
          /\ "exec" \in Labels(w) /\ TypeInv /\ HandsOf(w)
  BY ThreadAssumption DEF Threads, Labels, ExecLabels, OwnInv, Owned
<1>1. CASE WorkerDequeue(w)
  <2> DEFINE t == Head(workersQueue)
  <2>1. /\ t \in HandedOver /\ t \in Task /\ HandedOver' = HandedOver \ {t}
        /\ \A m, n \in DOMAIN workersQueue' :
                    workersQueue'[m] = workersQueue'[n] => m = n
    BY <1>1, HubTaken DEF WorkerDequeue, OwnInv, TypeInv, Owned
  <2>2. /\ pc'[w] = "exec" /\ \A o \in Threads \ {w} : pc'[o] = pc[o]
        /\ pc[w] = "dequeue"
    BY <1>1, <1>types, GotoType DEF WorkerDequeue, TypeInv
  <2>3. /\ taskQueue' = taskQueue /\ open' = open /\ live' = live /\ task' = task
        /\ scheduled' = scheduled /\ polls' = polls /\ adding' = adding
    BY <1>1 DEF WorkerDequeue, queueVars, heapVars, reqVars, roundVars
  <2>4. /\ cur'[w] = t /\ \A o \in Threads \ {w} : cur'[o] = cur[o]
    BY <1>1, <1>types DEF WorkerDequeue, TypeInv, TypeOK
  <2>5. adding[w] = NoTask /\ cur[w] = NoTask /\ t # NoTask
    BY <1>types, <2>1, <2>2, DataAssumption DEF HandsOf
  <2>6. Queued' = Queued /\ \A o \in Threads \ {w} : InHandsOf(o)' = InHandsOf(o)
    BY <2>3, <2>4 DEF Queued, InHandsOf
  <2>7. InHandsOf(w)' = {t} /\ InHandsOf(w) = {}
    BY <2>3, <2>4, <2>5 DEF InHandsOf
  <2>8. Carries(t) /\ t \in live /\ Ready(t)
    BY <2>1, QueuedCarry DEF OwnInv, Owned, QueuesHold
  <2>9. Places'
    <3>1. w \in Threads
      BY <1>types
    <3> HIDE DEF t
    <3>2. live' = Queued' \cup HandedOver' \cup UNION {InHandsOf(o)' : o \in Threads}
      BY <2>1, <2>3, <2>6, <2>7, <2>8, <3>1 DEF OwnInv, Owned, Places
    <3>3. Queued' \cap HandedOver' = {}
      BY <2>1, <2>6 DEF OwnInv, Owned, Places
    <3>4. ASSUME NEW a \in Threads
          PROVE  /\ InHandsOf(a)' \cap (Queued' \cup HandedOver') = {}
                 /\ \A o \in Threads \ {a} : InHandsOf(a)' \cap InHandsOf(o)' = {}
      BY <2>1, <2>6, <2>7 DEF OwnInv, Owned, Places
    <3> QED
      BY <2>1, <2>3, <3>2, <3>3, <3>4 DEF OwnInv, Owned, Places
  <2>10. Finishers'
    <3>1. ASSUME NEW s \in live' PROVE Carries(s)' <=> Carries(s)
      BY <2>2, <2>3, <2>4, CarriesStep
    <3> QED
      BY <2>3, <3>1, FinishersStep DEF OwnInv, Owned
  <2>11. \A o \in Threads : HandsOf(o)'
    <3>1. \A o \in Threads \ {w} : HandsOf(o)'
      BY <1>types, <2>2, <2>3, <2>4, HandsStay DEF OwnInv, Owned
    <3>2. HandsOf(w)'
      BY <2>2, <2>3, <2>4, <2>5, <2>8 DEF HandsOf, Ready
    <3> QED
      BY <3>1, <3>2
  <2>12. QueuesHold'
    <3>1. Sched \in Threads \ {w}
      BY <1>types DEF Threads
    <3> QED
      BY <2>1, <2>2, <2>3, <2>6, <3>1 DEF OwnInv, Owned, QueuesHold, Carrying, Ready
  <2> QED
    BY <2>9, <2>10, <2>11, <2>12 DEF Owned
<1>2. CASE WorkerCheck(w) \/ WorkerNone(w) \/ WorkerWake(w)
  <2>1. PICK l \in WorkerLabels : Goto(w, l) /\ l \in {"dequeue", "exited", "wait", "check"}
    BY <1>2 DEF WorkerCheck, WorkerNone, WorkerWake, WorkerLabels
  <2>2. /\ pc'[w] = l /\ \A o \in Threads \ {w} : pc'[o] = pc[o]
        /\ pc[w] \in {"check", "dequeue", "wait"}
    BY <1>2, <1>types, <2>1, GotoType
    DEF WorkerCheck, WorkerNone, WorkerWake, TypeInv
  <2>3. /\ taskQueue' = taskQueue /\ workersQueue' = workersQueue /\ open' = open
        /\ live' = live /\ task' = task /\ cur' = cur /\ adding' = adding
        /\ scheduled' = scheduled /\ polls' = polls
    BY <1>2 DEF WorkerCheck, WorkerNone, WorkerWake, queueVars, hubVars, heapVars,
                reqVars, roundVars
  <2>4. HandsOf(w)'
    BY <1>types, <2>1, <2>2, <2>3 DEF HandsOf
  <2>5. InHandsOf(w)' = InHandsOf(w) /\ InHandsOf(w) \subseteq live
    BY <1>types, <2>3 DEF InHandsOf, OwnInv, Owned, Places
  <2>6. QueuesHold /\ pc'[Sched] = pc[Sched]
    BY <1>types, <2>2 DEF OwnInv, Owned, Threads
  <2> QED
    BY <1>types, <2>1, <2>2, <2>3, <2>4, <2>5, <2>6, MoveStep DEF QueuesHold
<1> QED
  BY <1>1, <1>2

\* The scheduler thread and its labels.
LEMMA SchedHands ==
    ASSUME OwnInv
    PROVE  /\ Sched \in Threads \ {Main} /\ TypeInv /\ TypeOK /\ HandsOf(Sched)
           /\ SchedLabels \subseteq Labels(Sched) /\ "exec" \in Labels(Sched)
           /\ InHandsOf(Sched) \subseteq live
           /\ QueuesHold
BY ThreadAssumption DEF Threads, Labels, SchedLabels, ExecLabels, OwnInv, Owned,
                        Places, TypeInv

\* The task the scheduler thread has taken out of the queue carries its request.
LEMMA DeployedCarries ==
    ASSUME OwnInv, pc[Sched] \in {"uncount", "route"}
    PROVE  LET t == cur[Sched] IN
           /\ t \in live /\ t \in Task /\ t # NoTask /\ Carries(t)
           /\ adding[Sched] = NoTask /\ InHandsOf(Sched) = {t}
           /\ t \notin Queued \cup HandedOver
           /\ \A o \in Threads \ {Sched} : t \notin InHandsOf(o)
           /\ task[t].data \in open
           /\ \A s \in live \ {t} : ~(Carries(s) /\ task[s].data = task[t].data)
<1>1. Sched \in Threads /\ HandsOf(Sched)
  BY SchedHands
<1>2. /\ cur[Sched] \in Task /\ cur[Sched] # NoTask
      /\ Carrying(cur[Sched]) /\ adding[Sched] = NoTask
  BY <1>1, DataAssumption DEF OwnInv, TypeInv, PointersOK, HandsOf
<1>3. InHandsOf(Sched) = {cur[Sched]}
  BY <1>2 DEF InHandsOf
<1>4. Carries(cur[Sched]) /\ cur[Sched] \in live
  BY <1>1, <1>2, <1>3, HeldCarry
<1>5. /\ cur[Sched] \notin Queued \cup HandedOver
      /\ \A o \in Threads \ {Sched} : cur[Sched] \notin InHandsOf(o)
  BY <1>1, <1>3 DEF OwnInv, Owned, Places
<1> QED
  BY <1>2, <1>3, <1>4, <1>5 DEF OwnInv, Owned, Finishers

\* The steps in which the scheduler thread only moves keep the invariant.
LEMMA OwnSchedMoves ==
    ASSUME OwnInv,
           \/ SchedCheck \/ SchedCollect \/ SchedUncount \/ SchedPostWorkers
           \/ SchedIdle \/ SchedWake
    PROVE  Owned'
<1>types. /\ Sched \in Threads \ {Main} /\ TypeInv /\ TypeOK /\ HandsOf(Sched)
          /\ SchedLabels \subseteq Labels(Sched)
          /\ InHandsOf(Sched) \subseteq live /\ QueuesHold
  BY SchedHands
<1>1. PICK l \in SchedLabels :
        /\ Goto(Sched, l)
        /\ l # "uncount"
        /\ l = "route" => pc[Sched] = "uncount"
        /\ pc[Sched] # "uncount" <=> l # "route"
  BY DEF SchedCheck, SchedCollect, SchedUncount, SchedPostWorkers, SchedIdle,
         SchedWake, SchedLabels
<1>2. pc'[Sched] = l /\ l \in Labels(Sched)
  BY <1>1, <1>types, GotoType
<1>3. pc[Sched] \in {"check", "collect", "uncount", "wpost", "deploy", "wait"}
  BY DEF SchedCheck, SchedCollect, SchedUncount, SchedPostWorkers, SchedIdle,
         SchedWake
<1>4. /\ taskQueue' = taskQueue /\ workersQueue' = workersQueue /\ open' = open
      /\ live' = live /\ task' = task /\ cur' = cur /\ adding' = adding
  BY DEF SchedCheck, SchedCollect, SchedUncount, SchedPostWorkers, SchedIdle,
         SchedWake, queueVars, hubVars, heapVars, reqVars
<1>5. /\ scheduled' \subseteq Queued /\ polls' \subseteq Queued
      /\ pc'[Sched] # "poll" => polls' = {}
  <2>1. CASE SchedCollect
    BY <1>types, <2>1, GotoType DEF SchedCollect, TypeInv, TypeOK, Goto
  <2>2. CASE ~SchedCollect
    <3>1. scheduled' = scheduled /\ polls' = polls /\ pc[Sched] # "poll"
      BY <1>3, <2>2 DEF SchedCheck, SchedUncount, SchedPostWorkers, SchedIdle,
         SchedWake, roundVars
    <3> QED
      BY <1>types, <3>1 DEF QueuesHold
  <2> QED
    BY <2>1, <2>2
<1>6. HandsOf(Sched)'
  <2>1. CASE pc[Sched] = "uncount"
    BY <1>types, <1>1, <1>2, <1>4, <2>1 DEF HandsOf, Carrying, Ready
  <2>2. CASE pc[Sched] # "uncount"
    <3>1. cur[Sched] = NoTask /\ adding[Sched] = NoTask
      BY <1>types, <1>3, <2>2 DEF HandsOf
    <3>2. l \notin {"getid", "insert", "count", "post", "exec", "returned",
                    "uncount", "route"}
      BY <1>1, <2>2 DEF SchedLabels
    <3> QED
      BY <1>2, <1>4, <3>1, <3>2 DEF HandsOf
  <2> QED
    BY <2>1, <2>2
<1>7. InHandsOf(Sched)' = InHandsOf(Sched)
  BY <1>4 DEF InHandsOf
<1>8. l # "returned" /\ pc[Sched] # "returned"
  BY <1>3 DEF SchedLabels
<1> QED
  BY <1>types, <1>1, <1>2, <1>4, <1>5, <1>6, <1>7, <1>8, MoveStep

\* A poll that fails takes the handle of queued tasks and makes them invalid.
LEMMA OwnPoll ==
    ASSUME OwnInv, SchedPoll
    PROVE  Owned'
<1>types. /\ Sched \in Threads \ {Main} /\ TypeInv /\ TypeOK /\ HandsOf(Sched)
          /\ SchedLabels \subseteq Labels(Sched)
          /\ InHandsOf(Sched) \subseteq live /\ QueuesHold
  BY SchedHands
<1>0. PICK failed \in SUBSET polls : \E ready \in SUBSET (polls \ failed) :
        /\ scheduled' = scheduled \cup failed \cup
                {t \in ready : task[t].id \in DOMAIN taskQueue}
        /\ task' = [t \in Task |->
                        IF t \in failed
                        THEN [task[t] EXCEPT !.expired = TRUE,
                                             !.handle = "none"]
                        ELSE task[t]]
  BY DEF SchedPoll
<1>1. PICK ready \in SUBSET (polls \ failed) :
        /\ scheduled' = scheduled \cup failed \cup
                {t \in ready : task[t].id \in DOMAIN taskQueue}
        /\ task' = [t \in Task |->
                        IF t \in failed
                        THEN [task[t] EXCEPT !.expired = TRUE,
                                             !.handle = "none"]
                        ELSE task[t]]
  BY <1>0
<1>2. /\ scheduled' \subseteq Queued /\ polls' = {} /\ failed \subseteq Queued
      /\ Queued \subseteq Task /\ live \subseteq Task
  <2>1. polls \subseteq Queued /\ scheduled \subseteq Queued /\ polls' = {}
    BY <1>types DEF SchedPoll, QueuesHold
  <2>2. Queued \subseteq Task /\ live \subseteq Task
    BY <1>types DEF Queued, TypeOK
  <2> QED
    BY <1>1, <2>1, <2>2
<1>3. ASSUME NEW t \in Task
      PROVE  /\ t \notin failed => task'[t] = task[t]
             /\ t \in failed => task'[t].handle = "none" /\ task'[t].expired
             /\ task'[t].id = task[t].id /\ task'[t].data = task[t].data
  <2>1. task[t] = [id |-> task[t].id, data |-> task[t].data,
                   handle |-> task[t].handle, callback |-> task[t].callback,
                   events |-> task[t].events, expired |-> task[t].expired]
    BY <1>types DEF TypeOK, TaskRecord
  <2> QED
    BY <1>1, <2>1
<1>4. /\ taskQueue' = taskQueue /\ workersQueue' = workersQueue /\ open' = open
      /\ live' = live /\ cur' = cur /\ adding' = adding
  BY DEF SchedPoll, queueVars, hubVars, reqVars
<1>5. /\ pc[Sched] = "poll" /\ pc'[Sched] = "deploy"
      /\ \A o \in Threads \ {Sched} : pc'[o] = pc[o]
  <2>1. Goto(Sched, "deploy") /\ "deploy" \in Labels(Sched)
    BY <1>types DEF SchedPoll, SchedLabels
  <2> QED
    BY <1>types, <2>1, GotoType DEF SchedPoll
<1>6. /\ Queued' = Queued /\ HandedOver' = HandedOver
      /\ \A o \in Threads : InHandsOf(o)' = InHandsOf(o)
  BY <1>4 DEF Queued, HandedOver, InHandsOf
<1>7. Places'
  <2>1. live' = (live \ InHandsOf(Sched)) \cup InHandsOf(Sched)'
    BY <1>4, <1>6, <1>types
  <2>2. \A t \in Queued : task'[t].id = task[t].id
    BY <1>2, <1>3
  <2> QED
    BY <1>4, <1>6, <1>types, <2>1, <2>2, PlacesStep DEF OwnInv, Owned
<1>8. Finishers'
  <2>1. ASSUME NEW t \in failed PROVE Carries(t)' /\ Carries(t)
    <3>1. Carries(t) /\ \A th \in Threads : t \notin InHandsOf(th)
      BY <1>2, QueuedCarry
    <3>2. t \in Task /\ t # NoTask
      BY <1>2, DataAssumption
    <3>3. \A th \in Threads : cur[th] # t
      BY <3>1, <3>2 DEF InHandsOf
    <3> QED
      BY <1>3, <1>4, <3>1, <3>2, <3>3 DEF Carries, Carrying, Called
  <2>2. ASSUME NEW t \in live \ failed PROVE Carries(t)' <=> Carries(t)
    <3>1. task'[t] = task[t]
      BY <1>2, <1>3
    <3> QED
      BY <1>4, <1>5, <3>1, CarriesStep
  <2>3. \A t \in live : Carries(t)' <=> Carries(t)
    BY <2>1, <2>2
  <2> QED
    BY <1>2, <1>3, <1>4, <2>3, FinishersStep DEF OwnInv, Owned
<1>9. \A o \in Threads : HandsOf(o)'
  <2>1. ASSUME NEW o \in Threads, NEW t \in InHandsOf(o) PROVE task'[t] = task[t]
    <3>1. t \in live /\ t \notin Queued
      BY DEF OwnInv, Owned, Places
    <3> QED
      BY <1>2, <1>3, <3>1
  <2>2. \A o \in Threads \ {Sched} : HandsOf(o)'
    BY <1>4, <1>5, <1>types, <2>1, HandsStay DEF OwnInv, Owned
  <2>3. HandsOf(Sched)'
    BY <1>4, <1>5, <1>types DEF HandsOf
  <2> QED
    BY <2>2, <2>3
<1>10. QueuesHold'
  <2>1. ASSUME NEW t \in Queued PROVE Carrying(t)'
    BY <1>2, <1>3, <1>types DEF QueuesHold, Carrying, Ready
  <2>2. ASSUME NEW t \in HandedOver PROVE Ready(t)'
    <3>1. t \in live /\ t \notin Queued
      BY DEF OwnInv, Owned, Places
    <3>2. task'[t] = task[t]
      BY <1>2, <1>3, <3>1
    <3> QED
      BY <1>types, <3>2 DEF QueuesHold, Ready
  <2> QED
    BY <1>2, <1>6, <2>1, <2>2 DEF QueuesHold
<1> QED
  BY <1>7, <1>8, <1>9, <1>10 DEF Owned

\* antd_deploy_task takes a task out of the queue.
LEMMA OwnDeploy ==
    ASSUME OwnInv, SchedDeploy
    PROVE  Owned'
<1>types. /\ Sched \in Threads \ {Main} /\ TypeInv /\ TypeOK /\ HandsOf(Sched)
          /\ SchedLabels \subseteq Labels(Sched)
          /\ InHandsOf(Sched) \subseteq live /\ QueuesHold
  BY SchedHands
<1>1. PICK t \in scheduled :
        /\ taskQueue' = Removed(taskQueue, task[t].id)
        /\ cur' = [cur EXCEPT ![Sched] = t]
        /\ scheduled' = scheduled \ {t}
  BY DEF SchedDeploy
<1>2. PICK i \in DOMAIN taskQueue : t = taskQueue[i]
  BY <1>types DEF QueuesHold, Queued
<1>3. /\ \A j \in DOMAIN taskQueue : task[taskQueue[j]].id = j
      /\ t \in Queued /\ t \in Task /\ t # NoTask
  BY <1>2, <1>types, DataAssumption DEF OwnInv, Owned, Places, Queued, TypeOK
<1>4. /\ DOMAIN taskQueue' = DOMAIN taskQueue \ {i}
      /\ \A j \in DOMAIN taskQueue' : taskQueue'[j] = taskQueue[j]
  BY <1>1, <1>2, <1>3 DEF Removed
<1>5. Queued' = Queued \ {t}
  BY <1>2, <1>3, <1>4 DEF Queued
<1>6. /\ workersQueue' = workersQueue /\ open' = open
      /\ live' = live /\ task' = task /\ adding' = adding /\ polls' = polls
  BY DEF SchedDeploy, hubVars, heapVars, reqVars
<1>7. /\ pc[Sched] = "deploy" /\ pc'[Sched] = "uncount"
      /\ \A o \in Threads \ {Sched} : pc'[o] = pc[o]
  <2>1. Goto(Sched, "uncount") /\ "uncount" \in Labels(Sched)
    BY <1>types DEF SchedDeploy, SchedLabels
  <2> QED
    BY <1>types, <2>1, GotoType DEF SchedDeploy
<1>8. /\ cur[Sched] = NoTask /\ adding[Sched] = NoTask /\ polls = {}
      /\ cur'[Sched] = t /\ \A o \in Threads \ {Sched} : cur'[o] = cur[o]
  BY <1>1, <1>7, <1>types DEF HandsOf, QueuesHold, TypeOK
<1>9. /\ HandedOver' = HandedOver
      /\ InHandsOf(Sched)' = {t} /\ InHandsOf(Sched) = {}
      /\ \A o \in Threads \ {Sched} : InHandsOf(o)' = InHandsOf(o)
  BY <1>3, <1>6, <1>8 DEF HandedOver, InHandsOf
<1>10. Places'
  <2>1. live' = Queued' \cup HandedOver' \cup UNION {InHandsOf(o)' : o \in Threads}
    BY <1>3, <1>5, <1>6, <1>9, <1>types DEF OwnInv, Owned, Places
  <2>2. Queued' \cap HandedOver' = {}
    BY <1>5, <1>9 DEF OwnInv, Owned, Places
  <2>3. ASSUME NEW a \in Threads
        PROVE  /\ InHandsOf(a)' \cap (Queued' \cup HandedOver') = {}
               /\ \A o \in Threads \ {a} : InHandsOf(a)' \cap InHandsOf(o)' = {}
    BY <1>3, <1>5, <1>9 DEF OwnInv, Owned, Places
  <2>4. \A j \in DOMAIN taskQueue' : task'[taskQueue'[j]].id = j
    BY <1>3, <1>4, <1>6
  <2> QED
    BY <1>6, <2>1, <2>2, <2>3, <2>4 DEF OwnInv, Owned, Places
<1>11. Finishers'
  <2>1. ASSUME NEW s \in live' PROVE Carries(s)' <=> Carries(s)
    BY <1>6, <1>7, <1>8, CarriesStep
  <2> QED
    BY <1>6, <2>1, FinishersStep DEF OwnInv, Owned
<1>12. \A o \in Threads : HandsOf(o)'
  <2>1. \A o \in Threads \ {Sched} : HandsOf(o)'
    BY <1>6, <1>7, <1>8, <1>types, HandsStay DEF OwnInv, Owned
  <2>2. HandsOf(Sched)'
    BY <1>3, <1>6, <1>7, <1>8, <1>types DEF HandsOf, QueuesHold, Carrying, Ready
  <2> QED
    BY <2>1, <2>2
<1>13. QueuesHold'
  BY <1>1, <1>5, <1>6, <1>8, <1>9, <1>types DEF QueuesHold, Carrying, Ready
<1> QED
  BY <1>10, <1>11, <1>12, <1>13 DEF Owned

\* antd_task_schedule kills a task, hands it over or executes it.
LEMMA OwnRoute ==
    ASSUME OwnInv, SchedKill \/ SchedRoute
    PROVE  Owned'
<1> DEFINE t == cur[Sched]
<1>types. /\ Sched \in Threads \ {Main} /\ TypeInv /\ TypeOK /\ HandsOf(Sched)
          /\ SchedLabels \subseteq Labels(Sched) /\ "exec" \in Labels(Sched)
          /\ InHandsOf(Sched) \subseteq live /\ QueuesHold
  BY SchedHands
<1>1. pc[Sched] = "route"
  BY DEF SchedKill, SchedRoute
<1>2. /\ t \in live /\ t \in Task /\ t # NoTask /\ Carries(t)
      /\ adding[Sched] = NoTask /\ InHandsOf(Sched) = {t}
      /\ t \notin Queued \cup HandedOver
      /\ \A o \in Threads \ {Sched} : t \notin InHandsOf(o)
      /\ task[t].data \in open
      /\ \A s \in live \ {t} : ~(Carries(s) /\ task[s].data = task[t].data)
  BY <1>1, DeployedCarries
<1>3. /\ taskQueue' = taskQueue /\ adding' = adding
      /\ scheduled' = scheduled /\ polls' = polls
      /\ \A o \in Threads \ {Sched} : cur'[o] = cur[o]
  <2>1. cur' = cur \/ cur' = [cur EXCEPT ![Sched] = NoTask]
    BY DEF SchedKill, SchedRoute
  <2>2. \A o \in Threads \ {Sched} : cur'[o] = cur[o]
    BY <2>1, <1>types DEF TypeOK
  <2> QED
    BY <2>2 DEF SchedKill, SchedRoute, queueVars, roundVars
<1>4. CASE SchedKill
  <2>1. Goto(Sched, "deploy") /\ "deploy" \in Labels(Sched)
    BY <1>4, <1>types DEF SchedKill, SchedLabels
  <2>2. pc'[Sched] = "deploy" /\ \A o \in Threads \ {Sched} : pc'[o] = pc[o]
    BY <1>types, <2>1, GotoType
  <2>3. /\ workersQueue' = workersQueue /\ open' = open \ {task[t].data}
        /\ live' = live \ {t} /\ cur'[Sched] = NoTask
        /\ \A s \in live' : task'[s] = task[s]
    BY <1>4, <1>types DEF SchedKill, hubVars, DestroyTask, TypeOK
  <2>4. InHandsOf(Sched)' = {}
    BY <1>2, <1>3, <2>3 DEF InHandsOf
  <2>5. \A s \in live' : Carries(s)' <=> Carries(s)
    BY <1>1, <1>3, <2>2, <2>3, CarriesStep
  <2>6. Finishers'
    <3>1. \A d \in open' : d # task[t].data /\ d \in open
      BY <2>3
    <3> HIDE DEF t
    <3> QED
      BY <1>2, <2>3, <2>5, <3>1 DEF OwnInv, Owned, Finishers
  <2>7. HandsOf(Sched)'
    BY <1>2, <1>3, <2>2, <2>3 DEF HandsOf
  <2>8. polls = {}
    BY <1>1, <1>types DEF QueuesHold
  <2> QED
    BY <1>2, <1>3, <1>types, <2>1, <2>3, <2>4, <2>6, <2>7, <2>8, HandsStep
    DEF QueuesHold
<1>5. CASE SchedRoute
  <2>1. Ready(t) /\ ~task[t].expired /\ polls = {}
    BY <1>1, <1>2, <1>5, <1>types DEF SchedRoute, Carries, Carrying, QueuesHold
  <2>2. open' = open /\ live' = live /\ task' = task
    BY <1>5 DEF SchedRoute, heapVars, reqVars
  <2>3. CASE Workers = {}
    <3>1. Goto(Sched, "exec") /\ workersQueue' = workersQueue /\ cur' = cur
      BY <1>5, <2>3 DEF SchedRoute
    <3>2. pc'[Sched] = "exec"
      BY <1>types, <3>1, GotoType
    <3>3. HandsOf(Sched)'
      BY <1>2, <1>3, <2>1, <2>2, <3>1, <3>2 DEF HandsOf, Ready
    <3>4. InHandsOf(Sched)' = InHandsOf(Sched)
      BY <1>3, <3>1 DEF InHandsOf
    <3> QED
      BY <1>1, <1>3, <1>types, <2>1, <2>2, <3>1, <3>3, <3>4, MoveStep DEF QueuesHold
  <2>4. CASE Workers # {}
    <3>1. /\ Goto(Sched, "wpost") /\ "wpost" \in Labels(Sched)
          /\ workersQueue' = Append(workersQueue, t) /\ cur'[Sched] = NoTask
      BY <1>5, <1>types, <2>4 DEF SchedRoute, SchedLabels, TypeOK
    <3>2. pc'[Sched] = "wpost" /\ \A o \in Threads \ {Sched} : pc'[o] = pc[o]
      BY <1>types, <3>1, GotoType
    <3>3. /\ HandedOver' = HandedOver \cup {t}
          /\ \A m, n \in DOMAIN workersQueue' :
                    workersQueue'[m] = workersQueue'[n] => m = n
      BY <1>2, <1>types, <3>1, HubAppended DEF OwnInv, Owned
    <3>4. /\ Queued' = Queued
          /\ InHandsOf(Sched)' = {}
          /\ \A o \in Threads \ {Sched} : InHandsOf(o)' = InHandsOf(o)
      BY <1>2, <1>3, <3>1 DEF Queued, InHandsOf
    <3>5. Places'
      <4>1. Sched \in Threads
        BY <1>types
      <4> HIDE DEF t
      <4>2. live' = Queued' \cup HandedOver' \cup UNION {InHandsOf(o)' : o \in Threads}
        BY <1>2, <2>2, <3>3, <3>4, <4>1 DEF OwnInv, Owned, Places
      <4>3. Queued' \cap HandedOver' = {}
        BY <1>2, <3>3, <3>4 DEF OwnInv, Owned, Places
      <4>4. ASSUME NEW a \in Threads
            PROVE  /\ InHandsOf(a)' \cap (Queued' \cup HandedOver') = {}
                   /\ \A o \in Threads \ {a} : InHandsOf(a)' \cap InHandsOf(o)' = {}
        BY <1>2, <3>3, <3>4 DEF OwnInv, Owned, Places
      <4> QED
        BY <1>3, <2>2, <3>3, <4>2, <4>3, <4>4 DEF OwnInv, Owned, Places
    <3>6. Finishers'
      <4>1. ASSUME NEW s \in live' PROVE Carries(s)' <=> Carries(s)
        BY <1>1, <1>3, <2>2, <3>2, CarriesStep
      <4> QED
        BY <2>2, <4>1, FinishersStep DEF OwnInv, Owned
    <3>7. \A o \in Threads : HandsOf(o)'
      <4>1. \A o \in Threads \ {Sched} : HandsOf(o)'
        BY <1>3, <1>types, <2>2, <3>2, HandsStay DEF OwnInv, Owned
      <4>2. HandsOf(Sched)'
        BY <1>2, <1>3, <3>1, <3>2 DEF HandsOf
      <4> QED
        BY <4>1, <4>2
    <3>8. QueuesHold'
      BY <1>3, <1>types, <2>1, <2>2, <3>3, <3>4 DEF QueuesHold, Carrying, Ready
    <3> QED
      BY <3>5, <3>6, <3>7, <3>8 DEF Owned
  <2> QED
    BY <2>3, <2>4
<1> QED
  BY <1>4, <1>5

-----------------------------------------------------------------------------
(***************************************************************************)
(* The main thread, the time, and the invariant of the specification.      *)
(***************************************************************************)

\* The steps of the main thread keep the invariant.
LEMMA OwnMain ==
    ASSUME OwnInv, Accept \/ StopBegin \/ StopPost \/ StopJoin
    PROVE  Owned'
<1>types. /\ Main \in Threads \ {Sched} /\ TypeInv /\ TypeOK /\ HandsOf(Main)
          /\ MainLabels \subseteq Labels(Main) /\ "insert" \in Labels(Main)
          /\ InHandsOf(Main) \subseteq live /\ QueuesHold /\ Finishers
  BY ThreadAssumption DEF Threads, Labels, AddLabels, OwnInv, Owned, Places, TypeInv
<1>1. CASE Accept
  <2>0. PICK d \in Socks \ open, t \in Task \ live : \E k \in NextIds(d) :
            /\ open' = open \cup {d}
            /\ Alloc(t, [id |-> k, data |-> d, handle |-> "work",
                         callback |-> <<"finish">>, events |-> {"poll"},
                         expired |-> FALSE])
            /\ adding' = [adding EXCEPT ![Main] = t]
    BY <1>1 DEF Accept
  <2>1. PICK k \in NextIds(d) :
            /\ open' = open \cup {d}
            /\ Alloc(t, [id |-> k, data |-> d, handle |-> "work",
                         callback |-> <<"finish">>, events |-> {"poll"},
                         expired |-> FALSE])
            /\ adding' = [adding EXCEPT ![Main] = t]
    BY <2>0
  <2>2. k = d
    <3>1. d \notin DOMAIN taskQueue /\ d # 0
      BY IdIsFree, DataAssumption
    <3> QED
      BY <3>1 DEF NextIds
  <2>3. /\ live' = live \cup {t} /\ cur' = cur
        /\ task'[t] = [id |-> k, data |-> d, handle |-> "work",
                       callback |-> <<"finish">>, events |-> {"poll"},
                       expired |-> FALSE]
        /\ \A s \in live : task'[s] = task[s]
        /\ adding'[Main] = t /\ t # NoTask
        /\ \A o \in Threads \ {Main} : adding'[o] = adding[o]
    <3>1. /\ task \in [Task -> TaskRecord] /\ adding \in [Threads -> Task \cup {NoTask}]
          /\ live \subseteq Task /\ t \in Task /\ t \notin live /\ NoTask \notin Task
      BY <1>types, <2>1, DataAssumption DEF TypeOK
    <3>2. cur' = cur
      BY <1>1 DEF Accept
    <3>3. /\ live' = live \cup {t}
          /\ task' = [task EXCEPT ![t] = [id |-> k, data |-> d, handle |-> "work",
                                         callback |-> <<"finish">>, events |-> {"poll"},
                                         expired |-> FALSE]]
      BY <2>1, Zenon DEF Alloc
    <3>4. /\ task'[t] = [id |-> k, data |-> d, handle |-> "work",
                         callback |-> <<"finish">>, events |-> {"poll"},
                         expired |-> FALSE]
          /\ \A s \in live : task'[s] = task[s]
      BY <3>1, <3>3, Zenon
    <3>5. /\ Main \in Threads /\ t # NoTask
          /\ adding'[Main] = t /\ \A o \in Threads \ {Main} : adding'[o] = adding[o]
      BY <2>1, <3>1 DEF Threads
    <3> QED
      BY <3>2, <3>3, <3>4, <3>5
  <2>4. /\ Goto(Main, "insert") /\ pc'[Main] = "insert" /\ pc[Main] = "accept"
        /\ \A o \in Threads \ {Main} : pc'[o] = pc[o]
    BY <1>1, <1>types, GotoType DEF Accept
  <2>5. cur[Main] = NoTask /\ adding[Main] = NoTask
    BY <1>types, <2>4 DEF HandsOf
  <2>6. Ready(t)'
    <3>1. EndsWithFinish(<<"finish">>)
      <4>1. Len(<<"finish">>) = 1 /\ <<"finish">>[1] = "finish"
        OBVIOUS
      <4> QED
        BY <4>1 DEF EndsWithFinish
    <3> QED
      BY <2>3, <3>1 DEF Ready
  <2>7. Carries(t)'
    <3>1. \A o \in Threads : cur[o] # t
      BY <2>3 DEF OwnInv, Owned, Places, InHandsOf
    <3> QED
      BY <2>3, <2>6, <3>1 DEF Carries, Carrying, Called
  <2>8. ASSUME NEW s \in live PROVE Carries(s)' <=> Carries(s)
    BY <2>3, <2>4, CarriesStep
  <2>9. Finishers'
    BY <1>types, <2>1, <2>2, <2>3, <2>7, <2>8 DEF Finishers
  <2>10. HandsOf(Main)'
    BY <2>3, <2>4, <2>5, <2>6 DEF HandsOf
  <2>11. InHandsOf(Main)' = {t} /\ InHandsOf(Main) = {}
    BY <2>3, <2>5 DEF InHandsOf
  <2>12. /\ taskQueue' = taskQueue /\ workersQueue' = workersQueue
         /\ scheduled' = scheduled /\ polls' = polls /\ pc'[Sched] = pc[Sched]
    BY <1>1, <2>4, ThreadAssumption DEF Accept, hubVars, roundVars, Threads
  <2> QED
    BY <1>types, <2>1, <2>3, <2>4, <2>9, <2>10, <2>11, <2>12, HandsStep
    DEF QueuesHold
<1>2. CASE StopBegin \/ StopPost \/ StopJoin
  <2>1. PICK l \in MainLabels : Goto(Main, l) /\ l \notin {"insert", "returned"}
    BY <1>2 DEF StopBegin, StopPost, StopJoin, MainLabels
  <2>2. /\ pc'[Main] = l /\ \A o \in Threads \ {Main} : pc'[o] = pc[o]
        /\ pc[Main] \in {"accept", "stopping", "joining"}
    BY <1>2, <1>types, <2>1, GotoType DEF StopBegin, StopPost, StopJoin
  <2>3. /\ taskQueue' = taskQueue /\ workersQueue' = workersQueue /\ open' = open
        /\ live' = live /\ task' = task /\ cur' = cur /\ adding' = adding
        /\ scheduled' = scheduled /\ polls' = polls
    BY <1>2 DEF StopBegin, StopPost, StopJoin, queueVars, hubVars, heapVars,
                reqVars, roundVars
  <2>4. HandsOf(Main)'
    BY <1>types, <2>1, <2>2, <2>3 DEF HandsOf, MainLabels
  <2>5. InHandsOf(Main)' = InHandsOf(Main)
    BY <2>3 DEF InHandsOf
  <2>6. pc'[Sched] = pc[Sched]
    BY <2>2, ThreadAssumption DEF Threads
  <2> QED
    BY <1>types, <2>1, <2>2, <2>3, <2>4, <2>5, <2>6, MoveStep DEF QueuesHold
<1> QED
  BY <1>1, <1>2

\* A queued or deployed task that grows too old still carries its request.
LEMMA OwnExpire ==
    ASSUME OwnInv, NEW t \in Task, Expire(t)
    PROVE  Owned'
<1>types. /\ Sched \in Threads \ {Main} /\ TypeInv /\ TypeOK /\ HandsOf(Sched)
          /\ InHandsOf(Sched) \subseteq live /\ QueuesHold
  BY SchedHands
<1>1. /\ taskQueue' = taskQueue /\ workersQueue' = workersQueue /\ open' = open
      /\ live' = live /\ cur' = cur /\ adding' = adding /\ pc' = pc
      /\ scheduled' = scheduled /\ polls' = polls
      /\ task' = [task EXCEPT ![t].expired = TRUE]
  BY DEF Expire, queueVars, hubVars, reqVars, roundVars
<1>2. ASSUME NEW s \in Task
      PROVE  /\ s # t => task'[s] = task[s]
             /\ task'[s].id = task[s].id /\ task'[s].data = task[s].data
             /\ task'[s].handle = task[s].handle
             /\ task'[s].callback = task[s].callback
             /\ task[s].expired => task'[s].expired
             /\ Ready(s)' <=> Ready(s)
             /\ Carrying(s) => Carrying(s)'
  <2>1. task[s] = [id |-> task[s].id, data |-> task[s].data,
                   handle |-> task[s].handle, callback |-> task[s].callback,
                   events |-> task[s].events, expired |-> task[s].expired]
    BY <1>types DEF TypeOK, TaskRecord
  <2>2. /\ s # t => task'[s] = task[s]
        /\ s = t => task'[s] = [task[s] EXCEPT !.expired = TRUE]
    BY <1>1, <1>types DEF TypeOK
  <2>3. /\ task'[s].id = task[s].id /\ task'[s].data = task[s].data
        /\ task'[s].handle = task[s].handle
        /\ task'[s].callback = task[s].callback
        /\ task[s].expired => task'[s].expired
    BY <2>1, <2>2
  <2> QED
    BY <2>2, <2>3 DEF Ready, Carrying
<1>3. Carries(t) /\ t \in live /\ \A o \in Threads \ {Sched} : t \notin InHandsOf(o)
  <2>1. CASE t \in Queued
    BY <2>1, QueuedCarry
  <2>2. CASE t \notin Queued
    BY <2>2, DeployedCarries DEF Expire
  <2> QED
    BY <2>1, <2>2
<1>4. /\ Queued' = Queued /\ HandedOver' = HandedOver
      /\ \A o \in Threads : InHandsOf(o)' = InHandsOf(o)
  BY <1>1 DEF Queued, HandedOver, InHandsOf
<1>5. Queued \cup HandedOver \subseteq live /\ live \subseteq Task
  BY <1>types DEF OwnInv, Owned, Places, TypeOK
<1>6. Places'
  <2>1. live' = (live \ InHandsOf(Sched)) \cup InHandsOf(Sched)'
    BY <1>1, <1>4, <1>types
  <2>2. \A s \in Queued : task'[s].id = task[s].id
    BY <1>2, <1>5
  <2> QED
    BY <1>1, <1>4, <1>types, <2>1, <2>2, PlacesStep DEF OwnInv, Owned
<1>7. Finishers'
  <2>1. Carries(t)'
    BY <1>1, <1>2, <1>3 DEF Carries, Called
  <2>2. ASSUME NEW s \in live \ {t} PROVE Carries(s)' <=> Carries(s)
    BY <1>1, <1>2, <1>5, CarriesStep
  <2>3. \A s \in live : Carries(s)' <=> Carries(s)
    BY <1>3, <2>1, <2>2
  <2> QED
    BY <1>1, <1>2, <1>5, <2>3, FinishersStep DEF OwnInv, Owned
<1>8. \A o \in Threads : HandsOf(o)'
  <2>1. ASSUME NEW o \in Threads \ {Sched}, NEW s \in InHandsOf(o)
        PROVE  task'[s] = task[s]
    BY <1>2, <1>3, <1>5 DEF OwnInv, Owned, Places
  <2>2. \A o \in Threads \ {Sched} : HandsOf(o)'
    BY <1>1, <1>types, <2>1, HandsStay DEF OwnInv, Owned
  <2>3. CASE t \in Queued
    <3>1. \A s \in InHandsOf(Sched) : task'[s] = task[s]
      BY <1>2, <1>5, <1>types, <2>3 DEF OwnInv, Owned, Places
    <3> QED
      BY <1>1, <1>types, <2>2, <3>1, HandsStay DEF OwnInv, Owned
  <2>4. CASE t \notin Queued
    <3>1. pc[Sched] \in {"uncount", "route"} /\ cur[Sched] = t
      BY <2>4 DEF Expire
    <3>2. HandsOf(Sched)'
      BY <1>1, <1>2, <1>types, <3>1 DEF HandsOf
    <3> QED
      BY <2>2, <3>2
  <2> QED
    BY <2>3, <2>4
<1>9. QueuesHold'
  BY <1>1, <1>2, <1>4, <1>5, <1>types DEF QueuesHold
<1> QED
  BY <1>6, <1>7, <1>8, <1>9 DEF Owned

\* The state antd_scheduler_init leaves satisfies the invariant.
LEMMA OwnInit == Init => OwnInv
<1> SUFFICES ASSUME Init PROVE OwnInv
  OBVIOUS
<1>1. TypeInv
  BY TypeInit
<1>2. /\ Queued = {} /\ HandedOver = {}
      /\ \A th \in Threads : InHandsOf(th) = {}
  <2>1. DOMAIN workersQueue = {}
    BY DEF Init
  <2> QED
    BY <2>1 DEF Init, Queued, HandedOver, InHandsOf
<1>3. Places
  <2>1. DOMAIN workersQueue = {} /\ DOMAIN taskQueue = {}
    BY DEF Init
  <2> QED
    BY <1>2, <2>1 DEF Init, Places
<1>4. Finishers
  BY DEF Init, Finishers
<1>5. \A th \in Threads : HandsOf(th)
  BY DEF Init, HandsOf
<1>6. QueuesHold
  BY <1>2 DEF Init, QueuesHold
<1> QED
  BY <1>1, <1>3, <1>4, <1>5, <1>6 DEF OwnInv, Owned

\* A step that changes nothing keeps it.
LEMMA OwnStutter == OwnInv /\ UNCHANGED vars => Owned'
<1> SUFFICES ASSUME OwnInv, UNCHANGED vars PROVE Owned'
  OBVIOUS
<1>1. /\ Queued' = Queued /\ HandedOver' = HandedOver
      /\ \A th \in Threads : InHandsOf(th)' = InHandsOf(th)
  BY DEF vars, queueVars, hubVars, Queued, HandedOver, InHandsOf
<1>2. \A t : Carries(t)' <=> Carries(t)
  BY DEF vars, heapVars, Carries, Carrying, Ready, Called
<1>3. Places'
  BY <1>1 DEF OwnInv, Owned, Places, vars, queueVars, hubVars, heapVars
<1>4. Finishers'
  BY <1>2 DEF OwnInv, Owned, Finishers, vars, heapVars, reqVars
<1>5. \A th \in Threads : HandsOf(th)'
  BY DEF OwnInv, Owned, HandsOf, Ready, Carrying, Bare, vars, heapVars
<1>6. QueuesHold'
  BY <1>1 DEF OwnInv, Owned, QueuesHold, Ready, Carrying, vars, heapVars, roundVars
<1> QED
  BY <1>3, <1>4, <1>5, <1>6 DEF Owned

\* Every step keeps the invariant.
LEMMA OwnStep == OwnInv /\ ~Detach /\ [Next]_vars => OwnInv'
<1> SUFFICES ASSUME OwnInv, ~Detach, [Next]_vars PROVE Owned'
  BY TypeStep DEF OwnInv
<1>1. CASE MainNext
  BY <1>1, OwnMain, OwnAdd DEF MainNext, MainAdd, Threads
<1>2. CASE SchedNext
  BY <1>2, SchedHands, OwnSchedMoves, OwnPoll, OwnDeploy, OwnRoute, OwnAdd,
     OwnExec, OwnReturn
  DEF SchedNext, AddOrExecute
<1>3. CASE \E w \in Workers : WorkerNext(w)
  <2>1. PICK w \in Workers : WorkerNext(w)
    BY <1>3
  <2>2. w \in Threads \ {Main}
    BY ThreadAssumption DEF Threads
  <2> QED
    BY <2>1, <2>2, OwnWorker, OwnAdd, OwnExec, OwnReturn DEF WorkerNext, AddOrExecute
<1>4. CASE \E t \in Task : Expire(t)
  BY <1>4, OwnExpire
<1>5. CASE UNCHANGED vars
  BY <1>5, OwnStutter
<1> QED
  BY <1>1, <1>2, <1>3, <1>4, <1>5 DEF Next, Terminating

\* The invariant of the specification.
THEOREM TasksAreOwned == ASSUME ~Detach PROVE Spec => []OwnInv
<1>1. Init => OwnInv
  BY OwnInit
<1>2. OwnInv /\ [Next]_vars => OwnInv'
  BY OwnStep
<1> QED
  BY <1>1, <1>2, PTL DEF Spec

-----------------------------------------------------------------------------
(***************************************************************************)
(* What follows from the invariant.                                        *)
(***************************************************************************)

\* A queue without repetitions has as many elements as it is long.
LEMMA HubCardinality ==
    ASSUME TypeOK, Places
    PROVE  Cardinality(HandedOver) = Len(workersQueue)
<1> DEFINE q == workersQueue
<1>1. Len(q) \in Nat /\ DOMAIN q = 1..Len(q) /\ q \in [1..Len(q) -> Task]
  BY LenProperties DEF TypeOK
<1>2. q \in [1..Len(q) -> HandedOver]
  BY <1>1 DEF HandedOver
<1>3. \A m, n \in 1..Len(q) : q[m] = q[n] => m = n
  BY <1>1 DEF Places
<1>4. \A t \in HandedOver : \E n \in 1..Len(q) : q[n] = t
  BY <1>1 DEF HandedOver
<1>5. q \in Bijection(1..Len(q), HandedOver)
  BY <1>2, <1>3, <1>4 DEF Bijection, Injection, Surjection, IsInjective
<1>6. ExistsBijection(1..Len(q), HandedOver)
  BY <1>5 DEF ExistsBijection
<1> QED
  BY <1>1, <1>6, FS_CountingElements

\* No task is lost, none is held twice: for any number of workers and
\* connections the allocated tasks are those in the task queue under their own
\* id, those handed over and those in the hands of one thread.
THEOREM TasksInOnePlace == ASSUME ~Detach PROVE Spec => []EachTaskInOnePlace
<1>1. OwnInv => EachTaskInOnePlace
  BY HubCardinality DEF OwnInv, Owned, TypeInv, Places, EachTaskInOnePlace
<1> QED
  BY <1>1, TasksAreOwned, PTL

\* Every handler that is called is a real one, on a request that exists: the
\* NULL handle that a failed poll leaves is never called.
THEOREM HandlersAreCalledSafely == ASSUME ~Detach PROVE Spec => []CallsAreSafe
<1>1. OwnInv => CallsAreSafe
  BY ExecutedCarries DEF CallsAreSafe, Ready
<1> QED
  BY <1>1, TasksAreOwned, PTL

\* What a live task still has to do says whether it carries its request.
LEMMA CarryingFinishes ==
    ASSUME OwnInv, NEW t \in live
    PROVE  WillFinish(t) <=> Carries(t)
<1>types. t \in Task /\ TypeOK /\ task[t].callback \in Seq({"work", "finish"})
          /\ task[t].handle \in Handles
  BY DEF OwnInv, TypeInv, TypeOK, TaskRecord
<1>1. DOMAIN task[t].callback = 1..Len(task[t].callback)
      /\ Len(task[t].callback) \in Nat
  BY <1>types, LenProperties
<1>2. ASSUME Carries(t) PROVE WillFinish(t)
  <2>1. CASE task[t].handle = "work" /\ EndsWithFinish(task[t].callback)
    <3>1. Len(task[t].callback) \in 1..Len(task[t].callback)
      BY <1>types, <1>1, <2>1, EmptySeq DEF EndsWithFinish
    <3> QED
      BY <1>1, <2>1, <3>1 DEF WillFinish, EndsWithFinish
  <2> QED
    BY <1>2, <2>1 DEF Carries, Carrying, Ready, WillFinish
<1>3. ASSUME Bare(t) PROVE ~WillFinish(t)
  BY <1>1, <1>3 DEF Bare, HasNoFinish, WillFinish
<1>4. ASSUME Carrying(t), Called(t) PROVE ~WillFinish(t)
  <2>1. task[t].handle = "finish" /\ task[t].callback = <<>>
    BY <1>4 DEF Called, Carrying, Ready
  <2>2. DOMAIN task[t].callback = {}
    BY <1>1, <2>1, EmptySeq
  <2> QED
    BY <1>4, <2>1, <2>2 DEF WillFinish
<1>5. Carrying(t) \/ Bare(t)
  <2>1. CASE t \in Queued \cup HandedOver
    BY <2>1 DEF OwnInv, Owned, QueuesHold, Carrying
  <2>2. CASE t \notin Queued \cup HandedOver
    <3>1. PICK th \in Threads : t \in InHandsOf(th)
      BY <2>2 DEF OwnInv, Owned, Places
    <3>2. t # NoTask /\ t \in {cur[th], adding[th]} /\ HandsOf(th)
      BY <3>1 DEF InHandsOf, OwnInv, Owned
    <3> QED
      BY <3>2 DEF HandsOf, Carrying
  <2> QED
    BY <2>1, <2>2
<1> QED
  BY <1>2, <1>3, <1>4, <1>5 DEF Carries

\* Every open connection has exactly one task that will call finish_request
\* for it or be killed with it, wherever its handlers spliced the callbacks,
\* and a closed one has none.
THEOREM OneTaskFinishes == ASSUME ~Detach PROVE Spec => []OneFinisher
<1>1. ASSUME OwnInv PROVE OneFinisher
  <2>1. Finishers /\ \A t \in live : WillFinish(t) <=> Carries(t)
    BY <1>1, CarryingFinishes DEF OwnInv, Owned
  <2> USE DEF OneFinisher
  <2> TAKE d \in Socks
  <2> DEFINE f == {t \in live : task[t].data = d /\ WillFinish(t)}
  <2>2. ASSUME d \in open PROVE \E t \in f : f = {t}
    <3>1. PICK t \in live : Carries(t) /\ task[t].data = d
      BY <2>1, <2>2 DEF Finishers
    <3>2. t \in f
      BY <2>1, <3>1
    <3>3. \A s \in f : s = t
      BY <2>1, <3>1 DEF Finishers
    <3> QED
      BY <3>2, <3>3
  <2>3. ASSUME d \notin open PROVE f = {}
    BY <2>1, <2>3 DEF Finishers
  <2> QED
    BY <2>2, <2>3
<1> QED
  BY <1>1, TasksAreOwned, PTL

\* Only an insertion under a free id and a deployment change the queue.
LEMMA QueueStep ==
    ASSUME OwnInv, [Next]_vars
    PROVE  \A i \in DOMAIN taskQueue \cap DOMAIN taskQueue' :
                taskQueue'[i] = taskQueue[i]
<1>1. ASSUME NEW th \in Threads, AddInsert(th)
      PROVE  \A i \in DOMAIN taskQueue : taskQueue'[i] = taskQueue[i]
  BY <1>1, InsertIsFree DEF AddInsert, Inserted
<1>2. ASSUME SchedDeploy
      PROVE  \A i \in DOMAIN taskQueue' : taskQueue'[i] = taskQueue[i]
  BY <1>2 DEF SchedDeploy, Removed
<1>3. CASE taskQueue' = taskQueue
  BY <1>3
<1>4. CASE taskQueue' # taskQueue
  <2>1. SchedDeploy \/ \E th \in Threads : AddInsert(th)
    BY <1>4 DEF Next, MainNext, MainAdd, Threads, SchedNext, WorkerNext, AddOrExecute,
       Accept, StopBegin, StopPost, StopJoin, AddGetId, AddCount, AddPost,
       ExecFinish, ExecNull, ExecTask, ExecDetach, ReturnCallback, ReturnDone,
       ReturnTask, WorkerCheck, WorkerDequeue, WorkerNone, WorkerWake,
       SchedCheck, SchedCollect, SchedPoll, SchedUncount, SchedKill, SchedRoute,
       SchedPostWorkers, SchedIdle, SchedWake, Expire, Terminating, vars, queueVars
  <2> QED
    BY <1>1, <1>2, <2>1
<1> QED
  BY <1>3, <1>4

\* antd_scheduler_add_task never displaces a queued task: the id that
\* antd_scheduler_next_id gave is still free when the task is inserted.
THEOREM NobodyIsDisplaced == ASSUME ~Detach PROVE Spec => NoDisplacement
<1>1. OwnInv /\ [Next]_vars =>
        [\A i \in DOMAIN taskQueue \cap DOMAIN taskQueue' :
            taskQueue'[i] = taskQueue[i]]_vars
  BY QueueStep
<1> QED
  BY <1>1, TasksAreOwned, PTL DEF Spec, NoDisplacement

-----------------------------------------------------------------------------
(***************************************************************************)
(* pending_task.                                                           *)
(***************************************************************************)

\* The threads between an insertion and its count.
Counting == {th \in Threads : pc[th] = "count"}

\* They are finitely many, and so are the queued tasks.
LEMMA CountFinite ==
    ASSUME TypeInv
    PROVE  /\ IsFiniteSet(Threads) /\ IsFiniteSet(Counting)
           /\ Cardinality(Counting) \in Nat
           /\ IsFiniteSet(DOMAIN taskQueue) /\ Cardinality(DOMAIN taskQueue) \in Nat
<1>1. IsFiniteSet(Threads)
  <2>1. IsFiniteSet(Workers \cup {Main})
    BY FS_AddElement, ThreadAssumption
  <2>2. IsFiniteSet((Workers \cup {Main}) \cup {Sched})
    BY <2>1, FS_AddElement
  <2>3. Threads = (Workers \cup {Main}) \cup {Sched}
    BY DEF Threads
  <2> QED
    BY <2>2, <2>3
<1>2. IsFiniteSet(Counting)
  BY <1>1, FS_Subset DEF Counting
<1> QED
  BY <1>1, <1>2, FS_CardinalityType DEF TypeInv, PointersOK

\* Nobody inserts, deletes, counts or counts off.
LEMMA PendingStay ==
    ASSUME TypeInv, PendingExact, NEW th \in Threads, NEW l \in Labels(th),
           Goto(th, l), taskQueue' = taskQueue, pending' = pending,
           pc[th] # "count", l # "count",
           th = Sched => pc[th] # "uncount" /\ l # "uncount"
    PROVE  PendingExact'
<1>1. pc'[th] = l /\ \A o \in Threads \ {th} : pc'[o] = pc[o]
  BY GotoType DEF TypeInv
<1>2. Counting' = Counting
  BY <1>1 DEF Counting
<1>3. pc'[Sched] = "uncount" <=> pc[Sched] = "uncount"
  BY <1>1 DEF Threads
<1> QED
  BY <1>2, <1>3 DEF PendingExact, Counting

\* Every step keeps pending_task exact.
LEMMA PendingStep ==
    ASSUME OwnInv, PendingExact, [Next]_vars
    PROVE  PendingExact'
<1>fin. /\ IsFiniteSet(Threads) /\ IsFiniteSet(Counting)
        /\ Cardinality(Counting) \in Nat
        /\ IsFiniteSet(DOMAIN taskQueue) /\ Cardinality(DOMAIN taskQueue) \in Nat
        /\ TypeInv /\ TypeOK
  BY CountFinite DEF OwnInv, TypeInv
<1>exact. pending = Cardinality(DOMAIN taskQueue) - Cardinality(Counting)
                    + (IF pc[Sched] = "uncount" THEN 1 ELSE 0)
  BY DEF PendingExact, Counting
<1>goal. ASSUME pending' = Cardinality(DOMAIN taskQueue') - Cardinality(Counting')
                    + (IF pc'[Sched] = "uncount" THEN 1 ELSE 0)
         PROVE  PendingExact'
  BY <1>goal DEF PendingExact, Counting
<1>1. ASSUME NEW th \in Threads, AddInsert(th) PROVE PendingExact'
  <2> DEFINE i == task[adding[th]].id
  <2>1. /\ Goto(th, "count") /\ "count" \in Labels(th) /\ pc[th] = "insert"
        /\ i \notin DOMAIN taskQueue /\ pending' = pending
        /\ DOMAIN taskQueue' = DOMAIN taskQueue \cup {i}
    BY <1>1, CommonLabels, InsertIsFree DEF AddInsert, Inserted
  <2>2. pc'[th] = "count" /\ \A o \in Threads \ {th} : pc'[o] = pc[o]
    BY <1>fin, <2>1, GotoType
  <2>3. Counting' = Counting \cup {th} /\ th \notin Counting
    BY <2>1, <2>2 DEF Counting
  <2>4. /\ Cardinality(Counting') = Cardinality(Counting) + 1
        /\ Cardinality(DOMAIN taskQueue') = Cardinality(DOMAIN taskQueue) + 1
    BY <1>fin, <2>1, <2>3, FS_AddElement
  <2>5. pc'[Sched] = "uncount" <=> pc[Sched] = "uncount"
    BY <2>1, <2>2 DEF Threads
  <2> QED
    BY <1>fin, <1>exact, <1>goal, <2>1, <2>4, <2>5
<1>2. ASSUME NEW th \in Threads, AddCount(th) PROVE PendingExact'
  <2>1. /\ Goto(th, "post") /\ "post" \in Labels(th) /\ pc[th] = "count"
        /\ pending' = pending + 1 /\ taskQueue' = taskQueue
    BY <1>2, CommonLabels DEF AddCount
  <2>2. pc'[th] = "post" /\ \A o \in Threads \ {th} : pc'[o] = pc[o]
    BY <1>fin, <2>1, GotoType
  <2>3. Counting' = Counting \ {th} /\ th \in Counting
    BY <2>1, <2>2 DEF Counting
  <2>4. Cardinality(Counting') = Cardinality(Counting) - 1
    BY <1>fin, <2>3, FS_RemoveElement
  <2>5. pc'[Sched] = "uncount" <=> pc[Sched] = "uncount"
    BY <2>1, <2>2 DEF Threads
  <2> QED
    BY <1>fin, <1>exact, <1>goal, <2>1, <2>4, <2>5 DEF TypeOK
<1>3. CASE SchedDeploy
  <2>1. PICK t \in scheduled : taskQueue' = Removed(taskQueue, task[t].id)
    BY <1>3 DEF SchedDeploy
  <2>2. PICK i \in DOMAIN taskQueue : t = taskQueue[i] /\ task[t].id = i
    BY DEF OwnInv, Owned, QueuesHold, Queued, Places
  <2>3. /\ Goto(Sched, "uncount") /\ "uncount" \in Labels(Sched)
        /\ pc[Sched] = "deploy" /\ pending' = pending
        /\ DOMAIN taskQueue' = DOMAIN taskQueue \ {i}
    BY <1>3, <2>1, <2>2, SchedThread DEF SchedDeploy, Removed
  <2>4. pc'[Sched] = "uncount" /\ \A o \in Threads \ {Sched} : pc'[o] = pc[o]
    BY <1>fin, <2>3, GotoType, SchedThread
  <2>5. Counting' = Counting
    BY <2>3, <2>4 DEF Counting
  <2>6. Cardinality(DOMAIN taskQueue') = Cardinality(DOMAIN taskQueue) - 1
    BY <1>fin, <2>2, <2>3, FS_RemoveElement
  <2> QED
    BY <1>fin, <1>exact, <1>goal, <2>3, <2>4, <2>5, <2>6
<1>4. CASE SchedUncount
  <2>1. /\ Goto(Sched, "route") /\ "route" \in Labels(Sched)
        /\ pc[Sched] = "uncount" /\ pending' = pending - 1
        /\ taskQueue' = taskQueue
    BY <1>4, SchedThread DEF SchedUncount
  <2>2. pc'[Sched] = "route" /\ \A o \in Threads \ {Sched} : pc'[o] = pc[o]
    BY <1>fin, <2>1, GotoType, SchedThread
  <2>3. Counting' = Counting
    BY <2>1, <2>2 DEF Counting
  <2> QED
    BY <1>fin, <1>exact, <1>goal, <2>1, <2>2, <2>3 DEF TypeOK
<1>5. ASSUME NEW th \in Threads,
             \/ AddPost(th) \/ ReturnCallback(th) \/ ReturnDone(th) \/ ReturnTask(th)
             \/ ExecFinish(th) \/ ExecNull(th) \/ ExecTask(th) \/ ExecDetach(th)
      PROVE  PendingExact'
  <2>1. \E l \in Labels(th) :
            /\ Goto(th, l) /\ l \notin {"count", "uncount"}
            /\ pc[th] \in {"post", "returned", "exec"}
    <3>1. pc[th] \in {"post", "returned", "exec"}
      BY <1>5 DEF AddPost, ReturnCallback, ReturnDone, ReturnTask, ExecFinish,
                  ExecNull, ExecTask, ExecDetach
    <3>2. pc[th] # "post" => th # Main
      BY <3>1, <1>fin, ThreadAssumption
      DEF TypeOK, Labels, AddLabels, MainLabels
    <3> QED
      BY <1>5, <3>1, <3>2, LoopHeadType, CommonLabels
      DEF AddPost, ReturnCallback, ReturnDone, ReturnTask, ExecFinish,
          ExecNull, ExecTask, ExecDetach, AddLabel
  <2>2. taskQueue' = taskQueue /\ pending' = pending
    BY <1>5 DEF AddPost, ReturnCallback, ReturnDone, ReturnTask, ExecFinish,
                ExecNull, ExecTask, ExecDetach, queueVars
  <2> QED
    BY <1>fin, <2>1, <2>2, PendingStay
<1>6. ASSUME NEW th \in Threads, AddGetId(th) PROVE PendingExact'
  BY <1>6 DEF AddGetId, OwnInv, Owned, HandsOf
<1>7. ASSUME NEW w \in Workers,
             WorkerCheck(w) \/ WorkerDequeue(w) \/ WorkerNone(w) \/ WorkerWake(w)
      PROVE  PendingExact'
  <2>1. \E l \in Labels(w) :
            /\ Goto(w, l) /\ l \notin {"count", "uncount"}
            /\ pc[w] \in {"check", "dequeue", "wait"}
    BY <1>7, ThreadAssumption
    DEF WorkerCheck, WorkerDequeue, WorkerNone, WorkerWake, Labels,
        WorkerLabels, ExecLabels
  <2>2. taskQueue' = taskQueue /\ pending' = pending /\ w \in Threads
    BY <1>7 DEF WorkerCheck, WorkerDequeue, WorkerNone, WorkerWake, queueVars, Threads
  <2> QED
    BY <1>fin, <2>1, <2>2, PendingStay
<1>8. CASE \/ SchedCheck \/ SchedCollect \/ SchedPoll \/ SchedKill \/ SchedRoute
           \/ SchedPostWorkers \/ SchedIdle \/ SchedWake
  <2>1. \E l \in Labels(Sched) :
            /\ Goto(Sched, l) /\ l \notin {"count", "uncount"}
            /\ pc[Sched] \notin {"count", "uncount"}
    BY <1>8, SchedThread
    DEF SchedCheck, SchedCollect, SchedPoll, SchedKill, SchedRoute,
        SchedPostWorkers, SchedIdle, SchedWake
  <2>2. taskQueue' = taskQueue /\ pending' = pending
    BY <1>8 DEF SchedCheck, SchedCollect, SchedPoll, SchedKill, SchedRoute,
        SchedPostWorkers, SchedIdle, SchedWake, queueVars
  <2> QED
    BY <1>fin, <2>1, <2>2, PendingStay, SchedThread
<1>9. CASE Accept \/ StopBegin \/ StopPost \/ StopJoin
  <2>1. \E l \in Labels(Main) :
            /\ Goto(Main, l) /\ l \notin {"count", "uncount"}
            /\ pc[Main] \in {"accept", "stopping", "joining"}
    BY <1>9, ThreadAssumption
    DEF Accept, StopBegin, StopPost, StopJoin, Labels, MainLabels, AddLabels
  <2>2. taskQueue' = taskQueue /\ pending' = pending /\ Main \in Threads
    BY <1>9 DEF Accept, StopBegin, StopPost, StopJoin, queueVars, Threads
  <2> QED
    BY <1>fin, <2>1, <2>2, PendingStay
<1>10. CASE (\E t \in Task : Expire(t)) \/ UNCHANGED vars
  BY <1>10 DEF Expire, vars, queueVars, PendingExact
<1>11. \A w \in Workers : w \in Threads
  BY DEF Threads
<1>12. Main \in Threads /\ Sched \in Threads
  BY DEF Threads
<1> QED
  BY <1>1, <1>2, <1>3, <1>4, <1>5, <1>6, <1>7, <1>8, <1>9, <1>10, <1>11, <1>12
  DEF Next, MainNext, MainAdd, SchedNext, WorkerNext, AddOrExecute, Terminating

\* pending_task, which antd_scheduler_busy reports, is the number of queued
\* tasks but for the insertions not yet counted and the deletion not yet
\* counted off, whatever the interleaving.
THEOREM PendingIsExact == ASSUME ~Detach PROVE Spec => []PendingExact
<1>1. Init => PendingExact
  <2>1. ASSUME Init PROVE DOMAIN taskQueue = {} /\ Counting = {} /\ pending = 0
                          /\ pc[Sched] # "uncount"
    BY <2>1, ThreadAssumption DEF Init, Counting, Threads
  <2>2. Cardinality({}) = 0
    BY FS_EmptySet
  <2>3. ASSUME Init
        PROVE  0 = Cardinality({}) - Cardinality({})
                   + (IF pc[Sched] = "uncount" THEN 1 ELSE 0)
    BY <2>1, <2>2, <2>3
  <2> QED
    BY <2>1, <2>3 DEF PendingExact, Counting
<1>2. OwnInv /\ PendingExact /\ [Next]_vars => PendingExact'
  BY PendingStep
<1> QED
  BY <1>1, <1>2, TasksAreOwned, PTL DEF Spec

-----------------------------------------------------------------------------
(***************************************************************************)
(* Who runs a handler on a request.                                        *)
(***************************************************************************)

\* Nobody but the one thread that has the task of the request, which is open.
LEMMA OneRunner ==
    ASSUME OwnInv, NEW d \in Socks, NEW th \in Runners[d]
    PROVE  /\ Runners[d] = {th}
           /\ d \in open
           /\ cur[th] \in live /\ Carries(cur[th]) /\ task[cur[th]].data = d
           /\ InHandsOf(th) = {cur[th]}
<1>1. th \in Threads /\ pc[th] = "exec" /\ task[cur[th]].data = d
  BY DEF Runners
<1>2. /\ cur[th] \in live /\ Carries(cur[th]) /\ d \in open
      /\ InHandsOf(th) = {cur[th]}
      /\ \A s \in live \ {cur[th]} : ~(Carries(s) /\ task[s].data = d)
  BY <1>1, ExecutedCarries
<1>3. ASSUME NEW o \in Runners[d] PROVE o = th
  <2>1. o \in Threads /\ pc[o] = "exec" /\ task[cur[o]].data = d
    BY DEF Runners
  <2>2. cur[o] \in live /\ Carries(cur[o]) /\ InHandsOf(o) = {cur[o]}
    BY <2>1, ExecutedCarries
  <2>3. cur[o] = cur[th]
    BY <1>2, <2>1, <2>2
  <2> QED
    BY <1>1, <1>2, <2>1, <2>2, <2>3 DEF OwnInv, Owned, Places
<1> QED
  BY <1>1, <1>2, <1>3

\* While a task that is in no runner's hands carries a request, nobody runs a
\* handler on it.
LEMMA NoRunner ==
    ASSUME OwnInv, NEW t \in live, Carries(t),
           \A th \in Threads : pc[th] = "exec" => cur[th] # t
    PROVE  Runners[task[t].data] = {}
<1> DEFINE d == task[t].data
<1>1. d \in Socks
  BY IdOfCarrier
<1>2. ASSUME NEW th \in Runners[d] PROVE FALSE
  <2>1. /\ cur[th] \in live /\ Carries(cur[th]) /\ task[cur[th]].data = d
        /\ th \in Threads /\ pc[th] = "exec"
    BY <1>1, OneRunner DEF Runners
  <2> QED
    BY <2>1 DEF OwnInv, Owned, Finishers
<1> QED
  BY <1>2

\* The runners of a step in which one thread moves and no task in the hands of
\* another one changes its request.
LEMMA RunnersMove ==
    ASSUME OwnInv, NEW th \in Threads, NEW l \in Labels(th), Goto(th, l),
           \A o \in Threads \ {th} : cur'[o] = cur[o],
           \A t \in live \ InHandsOf(th) : task'[t].data = task[t].data
    PROVE  /\ Runners' \in [Socks -> SUBSET Threads]
           /\ Runners \in [Socks -> SUBSET Threads]
           /\ \A d \in Socks, o \in Threads \ {th} :
                      o \in Runners'[d] <=> o \in Runners[d]
           /\ \A d \in Socks : th \in Runners[d]
                    <=> pc[th] = "exec" /\ task[cur[th]].data = d
           /\ \A d \in Socks : th \in Runners'[d]
                    <=> l = "exec" /\ task'[cur'[th]].data = d
<1>1. pc'[th] = l /\ \A o \in Threads \ {th} : pc'[o] = pc[o]
  BY GotoType DEF OwnInv, TypeInv
<1>2. ASSUME NEW o \in Threads \ {th}, pc[o] = "exec"
      PROVE  task'[cur'[o]].data = task[cur[o]].data
  <2>1. cur[o] \in live /\ InHandsOf(o) = {cur[o]}
    BY <1>2, ExecutedCarries
  <2> QED
    BY <2>1 DEF OwnInv, Owned, Places
<1> QED
  BY <1>1, <1>2 DEF Runners

\* ... of one in which it neither calls a handler nor returns from one, ...
LEMMA RunnersStay ==
    ASSUME OwnInv, NEW th \in Threads, NEW l \in Labels(th), Goto(th, l),
           \A o \in Threads \ {th} : cur'[o] = cur[o],
           \A t \in live \ InHandsOf(th) : task'[t].data = task[t].data,
           pc[th] # "exec", l # "exec"
    PROVE  Runners' = Runners
<1>1. /\ Runners' \in [Socks -> SUBSET Threads]
      /\ Runners \in [Socks -> SUBSET Threads]
      /\ \A d \in Socks, o \in Threads \ {th} :
                 o \in Runners'[d] <=> o \in Runners[d]
      /\ \A d \in Socks : th \notin Runners[d] /\ th \notin Runners'[d]
  BY RunnersMove
<1>2. ASSUME NEW d \in Socks PROVE Runners'[d] = Runners[d]
  <2>1. Runners'[d] \subseteq Threads /\ Runners[d] \subseteq Threads
    BY <1>1
  <2>2. \A o \in Threads : o \in Runners'[d] <=> o \in Runners[d]
    BY <1>1
  <2> QED
    BY <2>1, <2>2
<1> QED
  BY <1>1, <1>2

\* ... of one in which it calls the handler of a task, ...
LEMMA RunnersCall ==
    ASSUME OwnInv, NEW th \in Threads, "exec" \in Labels(th), Goto(th, "exec"),
           pc[th] # "exec", \A o \in Threads \ {th} : cur'[o] = cur[o],
           NEW t \in live, cur'[th] = t, task' = task, open' = open,
           Carries(t), \A o \in Threads : pc[o] = "exec" => cur[o] # t
    PROVE  task[t].data \in Socks /\ Service!Call(task[t].data, th)
<1> DEFINE d == task[t].data
<1>1. /\ Runners' \in [Socks -> SUBSET Threads]
      /\ Runners \in [Socks -> SUBSET Threads]
      /\ \A e \in Socks, o \in Threads \ {th} :
                 o \in Runners'[e] <=> o \in Runners[e]
      /\ \A e \in Socks : th \notin Runners[e]
      /\ \A e \in Socks : th \in Runners'[e] <=> d = e
  BY RunnersMove
<1>2. d \in Socks /\ d \in open /\ Runners[d] = {}
  BY IdOfCarrier, NoRunner DEF OwnInv, Owned, Finishers
<1>3. ASSUME NEW e \in Socks
      PROVE  Runners'[e] = IF e = d THEN {th} ELSE Runners[e]
  <2>1. Runners'[e] \subseteq Threads /\ Runners[e] \subseteq Threads
    BY <1>1
  <2>2. e # d => \A o \in Threads : o \in Runners'[e] <=> o \in Runners[e]
    BY <1>1
  <2>3. e = d => \A o \in Threads : o \in Runners'[e] <=> o \in {th}
    BY <1>1, <1>2
  <2> QED
    BY <2>1, <2>2, <2>3
<1>4. Runners' = [Runners EXCEPT ![d] = {th}]
  BY <1>1, <1>2, <1>3
<1> QED
  BY <1>2, <1>4 DEF Service!Call

\* ... and of one in which the handler it runs returns.
LEMMA RunnersReturn ==
    ASSUME OwnInv, NEW th \in Threads, "returned" \in Labels(th),
           Goto(th, "returned"), pc[th] = "exec", cur' = cur,
           \A t \in live : task'[t].data = task[t].data,
           open' \in {open, open \ {task[cur[th]].data}}
    PROVE  task[cur[th]].data \in Socks /\ Service!Return(task[cur[th]].data, th)
<1> DEFINE d == task[cur[th]].data
<1>1. /\ Runners' \in [Socks -> SUBSET Threads]
      /\ Runners \in [Socks -> SUBSET Threads]
      /\ \A e \in Socks, o \in Threads \ {th} :
                 o \in Runners'[e] <=> o \in Runners[e]
      /\ \A e \in Socks : th \notin Runners'[e]
      /\ \A e \in Socks : th \in Runners[e] <=> d = e
  BY RunnersMove
<1>2. d \in Socks
  BY ExecutedCarries, IdOfCarrier
<1>3. Runners[d] = {th}
  BY <1>1, <1>2, OneRunner
<1>4. ASSUME NEW e \in Socks
      PROVE  Runners'[e] = IF e = d THEN {} ELSE Runners[e]
  <2>1. Runners'[e] \subseteq Threads /\ Runners[e] \subseteq Threads
    BY <1>1
  <2>2. e # d => \A o \in Threads : o \in Runners'[e] <=> o \in Runners[e]
    BY <1>1
  <2>3. e = d => \A o \in Threads : o \in Runners'[e] <=> o \in {}
    BY <1>1, <1>2, <1>3
  <2> QED
    BY <2>1, <2>2, <2>3
<1>5. Runners' = [Runners EXCEPT ![d] = {}]
  BY <1>1, <1>2, <1>4
<1> QED
  BY <1>2, <1>3, <1>5 DEF Service!Return

-----------------------------------------------------------------------------
(***************************************************************************)
(* Every step of the scheduler is one of the service, or none.             *)
(***************************************************************************)

\* Steps of antd_scheduler_add_task and of what follows a handler: no request
\* is opened or closed and nobody calls a handler.
LEMMA ServiceAdd ==
    ASSUME OwnInv, NEW th \in Threads,
           \/ AddGetId(th) \/ AddInsert(th) \/ AddCount(th) \/ AddPost(th)
           \/ ReturnCallback(th) \/ ReturnDone(th) \/ ReturnTask(th)
    PROVE  UNCHANGED Service!vars
<1>hands. HandsOf(th) /\ TypeOK /\ TypeInv /\ InHandsOf(th) \subseteq live
  BY DEF OwnInv, Owned, TypeInv, Places
<1>1. /\ open' = open
      /\ \A o \in Threads \ {th} : cur'[o] = cur[o]
  BY <1>hands DEF AddGetId, AddInsert, AddCount, AddPost, ReturnCallback,
     ReturnDone, ReturnTask, reqVars, TypeOK
<1>2. \A t \in live \ InHandsOf(th) : task'[t].data = task[t].data
  <2>1. \A t \in live \ InHandsOf(th) : t # adding[th] /\ t # cur[th]
    BY <1>hands, DataAssumption DEF InHandsOf, TypeOK
  <2> QED
    BY <1>hands, <2>1
    DEF AddGetId, AddInsert, AddCount, AddPost, ReturnCallback, ReturnDone,
        ReturnTask, heapVars, DestroyTask, TypeOK
<1>3. pc[th] \in {"insert", "count", "post", "returned"}
  BY <1>hands DEF AddGetId, AddInsert, AddCount, AddPost, ReturnCallback,
     ReturnDone, ReturnTask, HandsOf
<1>4. PICK l \in Labels(th) : Goto(th, l) /\ l # "exec"
  <2>1. th # Main \/ pc[th] # "returned"
    BY <1>hands, ThreadAssumption DEF TypeOK, Labels, MainLabels, AddLabels
  <2> QED
    BY <1>3, <2>1, CommonLabels, LoopHeadType
    DEF AddGetId, AddInsert, AddCount, AddPost, ReturnCallback, ReturnDone,
        ReturnTask, AddLabel
<1>5. Runners' = Runners
  BY <1>1, <1>2, <1>3, <1>4, RunnersStay
<1> QED
  BY <1>1, <1>5 DEF Service!vars

\* A handler returns; finish_request closes the request it runs on.
LEMMA ServiceReturn ==
    ASSUME OwnInv, ~Detach, NEW th \in Threads \ {Main},
           ExecFinish(th) \/ ExecNull(th) \/ ExecTask(th) \/ ExecDetach(th)
    PROVE  Service!Next
<1>1. /\ "returned" \in Labels(th) /\ Goto(th, "returned") /\ pc[th] = "exec"
      /\ cur' = cur /\ th \in Threads
  BY CommonLabels DEF ExecFinish, ExecNull, ExecTask, ExecDetach
<1>2. \A t \in live : task'[t].data = task[t].data
  <2>1. CASE task' = task
    BY <2>1
  <2>2. CASE ExecTask(th)
    <3>1. PICK r \in Task \ live : \E x : task' = [task EXCEPT ![r] = x]
      BY <2>2 DEF ExecTask, Alloc
    <3> QED
      BY <3>1 DEF OwnInv, TypeInv, TypeOK
  <2> QED
    BY <2>1, <2>2 DEF ExecFinish, ExecNull, ExecDetach, heapVars
<1>3. open' \in {open, open \ {task[cur[th]].data}}
  BY DEF ExecFinish, ExecNull, ExecTask, ExecDetach, reqVars
<1>4. task[cur[th]].data \in Socks /\ Service!Return(task[cur[th]].data, th)
  BY <1>1, <1>2, <1>3, RunnersReturn
<1> QED
  BY <1>1, <1>4 DEF Service!Next

\* A worker calls the handler of the task it took.
LEMMA ServiceWorker ==
    ASSUME OwnInv, NEW w \in Workers,
           WorkerCheck(w) \/ WorkerDequeue(w) \/ WorkerNone(w) \/ WorkerWake(w)
    PROVE  [Service!Next]_Service!vars
<1>types. w \in Threads /\ WorkerLabels \subseteq Labels(w) /\ "exec" \in Labels(w)
          /\ TypeOK /\ Places
  BY ThreadAssumption DEF Threads, Labels, ExecLabels, OwnInv, Owned, TypeInv
<1>1. CASE WorkerDequeue(w)
  <2>1. /\ Goto(w, "exec") /\ pc[w] # "exec" /\ task' = task /\ open' = open
        /\ workersQueue # <<>> /\ workersQueue' = Tail(workersQueue)
        /\ cur' = [cur EXCEPT ![w] = Head(workersQueue)]
    BY <1>1 DEF WorkerDequeue, heapVars, reqVars
  <2>2. PICK t \in HandedOver : t = Head(workersQueue)
    BY <1>types, <2>1, HubTaken
  <2>3. /\ t \in live /\ Carries(t) /\ \A o \in Threads : t \notin InHandsOf(o)
    BY QueuedCarry
  <2>4. \A o \in Threads : pc[o] = "exec" => cur[o] # t
    BY <2>3, ExecutedCarries
  <2>5. cur'[w] = t /\ \A o \in Threads \ {w} : cur'[o] = cur[o]
    BY <1>types, <2>1, <2>2 DEF TypeOK
  <2>6. task[t].data \in Socks /\ Service!Call(task[t].data, w)
    BY <1>types, <2>1, <2>3, <2>4, <2>5, RunnersCall
  <2> QED
    BY <1>types, <2>6 DEF Service!Next
<1>2. CASE WorkerCheck(w) \/ WorkerNone(w) \/ WorkerWake(w)
  <2>1. PICK l \in WorkerLabels : Goto(w, l) /\ l # "exec" /\ pc[w] # "exec"
    BY <1>2 DEF WorkerCheck, WorkerNone, WorkerWake, WorkerLabels
  <2>2. cur' = cur /\ task' = task /\ open' = open
    BY <1>2 DEF WorkerCheck, WorkerNone, WorkerWake, heapVars, reqVars
  <2>3. Runners' = Runners
    BY <1>types, <2>1, <2>2, RunnersStay
  <2> QED
    BY <2>2, <2>3 DEF Service!vars
<1> QED
  BY <1>1, <1>2

\* The scheduler thread kills an invalid task with its request, or calls the
\* handler of a task when there is no worker.
LEMMA ServiceSched ==
    ASSUME OwnInv,
           \/ SchedCheck \/ SchedCollect \/ SchedPoll \/ SchedDeploy \/ SchedUncount
           \/ SchedKill \/ SchedRoute \/ SchedPostWorkers \/ SchedIdle \/ SchedWake
    PROVE  [Service!Next]_Service!vars
<1> DEFINE t == cur[Sched]
<1>types. /\ Sched \in Threads /\ SchedLabels \subseteq Labels(Sched)
          /\ "exec" \in Labels(Sched) /\ TypeOK
  BY SchedHands
<1>1. CASE SchedKill
  <2>1. /\ pc[Sched] = "route" /\ Goto(Sched, "deploy") /\ "deploy" \in Labels(Sched)
        /\ open' = open \ {task[t].data}
        /\ \A o \in Threads \ {Sched} : cur'[o] = cur[o]
    BY <1>1, <1>types DEF SchedKill, SchedLabels, TypeOK
  <2>2. /\ t \in live /\ t \in Task /\ Carries(t) /\ InHandsOf(Sched) = {t}
        /\ \A o \in Threads \ {Sched} : t \notin InHandsOf(o)
        /\ task[t].data \in open
    BY <2>1, DeployedCarries
  <2>3. \A s \in live \ InHandsOf(Sched) : task'[s].data = task[s].data
    BY <1>1, <2>2 DEF SchedKill, DestroyTask, OwnInv, TypeInv, TypeOK
  <2>4. Runners' = Runners
    BY <1>types, <2>1, <2>3, RunnersStay
  <2>5. \A o \in Threads : pc[o] = "exec" => cur[o] # t
    BY <2>1, <2>2, ExecutedCarries
  <2>6. Runners[task[t].data] = {} /\ task[t].data \in Socks
    BY <2>2, <2>5, NoRunner, IdOfCarrier
  <2>7. Service!Destroy(task[t].data)
    BY <2>1, <2>2, <2>4, <2>6 DEF Service!Destroy
  <2> QED
    BY <2>6, <2>7 DEF Service!Next
<1>2. CASE SchedRoute /\ Workers = {}
  <2>1. /\ pc[Sched] = "route" /\ Goto(Sched, "exec") /\ cur' = cur
        /\ task' = task /\ open' = open
    BY <1>2 DEF SchedRoute, heapVars, reqVars
  <2>2. /\ t \in live /\ Carries(t) /\ \A o \in Threads \ {Sched} : t \notin InHandsOf(o)
    BY <2>1, DeployedCarries
  <2>3. \A o \in Threads : pc[o] = "exec" => cur[o] # t
    BY <2>1, <2>2, ExecutedCarries
  <2>4. PICK s \in live : s = t
    BY <2>2
  <2>5. task[s].data \in Socks /\ Service!Call(task[s].data, Sched)
    BY <1>types, <2>1, <2>2, <2>3, <2>4, RunnersCall
  <2> QED
    BY <1>types, <2>5 DEF Service!Next
<1>3. CASE ~SchedKill /\ ~(SchedRoute /\ Workers = {})
  <2>1. /\ open' = open
        /\ \A o \in Threads \ {Sched} : cur'[o] = cur[o]
    BY <1>3, <1>types DEF SchedCheck, SchedCollect, SchedPoll, SchedDeploy,
       SchedUncount, SchedRoute, SchedPostWorkers, SchedIdle, SchedWake, reqVars,
       TypeOK
  <2>2. PICK l \in SchedLabels : Goto(Sched, l) /\ l # "exec" /\ pc[Sched] # "exec"
    BY <1>3 DEF SchedCheck, SchedCollect, SchedPoll, SchedDeploy,
       SchedUncount, SchedRoute, SchedPostWorkers, SchedIdle, SchedWake, SchedLabels
  <2>3. \A s \in live : task'[s].data = task[s].data
    <3>1. CASE SchedPoll
      <4>1. PICK failed :
                task' = [x \in Task |-> IF x \in failed
                            THEN [task[x] EXCEPT !.expired = TRUE, !.handle = "none"]
                            ELSE task[x]]
        BY <3>1 DEF SchedPoll
      <4>2. \A s \in live : s \in Task /\ task[s] \in TaskRecord
        BY <1>types DEF TypeOK
      <4> QED
        BY <4>1, <4>2 DEF TaskRecord
    <3>2. CASE ~SchedPoll
      BY <1>3, <3>2 DEF SchedCheck, SchedCollect, SchedDeploy,
         SchedUncount, SchedRoute, SchedPostWorkers, SchedIdle, SchedWake, heapVars
    <3> QED
      BY <3>1, <3>2
  <2>4. Runners' = Runners
    BY <1>types, <2>1, <2>2, <2>3, RunnersStay
  <2> QED
    BY <2>1, <2>4 DEF Service!vars
<1> QED
  BY <1>1, <1>2, <1>3

\* The main thread accepts a connection on a socket that is free.
LEMMA ServiceMain ==
    ASSUME OwnInv, Accept \/ StopBegin \/ StopPost \/ StopJoin
    PROVE  [Service!Next]_Service!vars
<1>types. Main \in Threads /\ MainLabels \subseteq Labels(Main)
          /\ "insert" \in Labels(Main) /\ TypeOK
  BY ThreadAssumption DEF Threads, Labels, AddLabels, OwnInv, TypeInv
<1>1. PICK l \in Labels(Main) : Goto(Main, l) /\ l # "exec" /\ pc[Main] # "exec"
  BY <1>types DEF Accept, StopBegin, StopPost, StopJoin, MainLabels
<1>2. cur' = cur /\ \A t \in live : task'[t].data = task[t].data
  <2>1. CASE task' = task
    BY <2>1 DEF Accept, StopBegin, StopPost, StopJoin
  <2>2. CASE task' # task
    <3>1. /\ \E r \in Task \ live : \E x : task' = [task EXCEPT ![r] = x]
          /\ cur' = cur
      BY <2>2 DEF Accept, Alloc, StopBegin, StopPost, StopJoin, heapVars
    <3> QED
      BY <1>types, <3>1 DEF TypeOK
  <2> QED
    BY <2>1, <2>2
<1>3. Runners' = Runners
  BY <1>types, <1>1, <1>2, RunnersStay
<1>4. CASE open' = open
  BY <1>3, <1>4 DEF Service!vars
<1>5. CASE open' # open
  <2>1. PICK d \in Socks \ open : open' = open \cup {d}
    BY <1>5 DEF Accept, StopBegin, StopPost, StopJoin, reqVars
  <2>2. Runners[d] = {}
    BY OneRunner
  <2> QED
    BY <1>3, <2>1, <2>2 DEF Service!Accept, Service!Next
<1> QED
  BY <1>4, <1>5

\* Every step of the scheduler is a step of the service or changes nothing of it.
LEMMA ServiceStep ==
    ASSUME OwnInv, ~Detach, [Next]_vars
    PROVE  [Service!Next]_Service!vars
<1>1. CASE MainNext
  BY <1>1, ServiceMain, ServiceAdd DEF MainNext, MainAdd, Threads
<1>2. CASE SchedNext
  BY <1>2, SchedHands, ServiceSched, ServiceAdd, ServiceReturn
  DEF SchedNext, AddOrExecute
<1>3. CASE \E w \in Workers : WorkerNext(w)
  <2>1. PICK w \in Workers : WorkerNext(w)
    BY <1>3
  <2>2. w \in Threads \ {Main}
    BY ThreadAssumption DEF Threads
  <2> QED
    BY <2>1, <2>2, ServiceWorker, ServiceAdd, ServiceReturn
    DEF WorkerNext, AddOrExecute
<1>4. CASE \E t \in Task : Expire(t)
  <2>1. PICK t \in Task : Expire(t)
    BY <1>4
  <2>2. /\ open' = open /\ pc' = pc /\ cur' = cur
        /\ task' = [task EXCEPT ![t].expired = TRUE]
    BY <2>1 DEF Expire, reqVars
  <2>3. task \in [Task -> TaskRecord]
    BY DEF OwnInv, TypeInv, TypeOK
  <2>4. \A s \in Task : task'[s].data = task[s].data
    BY <2>2, <2>3 DEF TaskRecord
  <2>5. \A th \in Threads : pc[th] = "exec" => cur[th] \in Task
    BY DEF OwnInv, TypeInv, PointersOK
  <2>6. Runners' = Runners
    BY <2>2, <2>4, <2>5 DEF Runners
  <2> QED
    BY <2>2, <2>6 DEF Service!vars
<1>5. CASE UNCHANGED vars
  <2>1. Runners' = Runners /\ open' = open
    BY <1>5 DEF vars, heapVars, reqVars, Runners
  <2> QED
    BY <2>1 DEF Service!vars
<1> QED
  BY <1>1, <1>2, <1>3, <1>4, <1>5 DEF Next, Terminating

\* Whatever the threads do, the handlers of one request run one at a time, on
\* a request that exists, and it is destroyed once, never under a handler of
\* another thread: the scheduler implements RequestService.
THEOREM SchedulerServesRequests == ASSUME ~Detach PROVE Spec => ServesRequests
<1>1. Init => Service!Init
  <2>1. ASSUME Init PROVE Runners = [d \in Socks |-> {}]
    BY <2>1 DEF Init, Runners
  <2> QED
    BY <2>1 DEF Init, Service!Init
<1>2. OwnInv /\ [Next]_vars => [Service!Next]_Service!vars
  BY ServiceStep
<1> QED
  BY <1>1, <1>2, TasksAreOwned, PTL DEF Spec, ServesRequests, Service!Spec

=============================================================================
