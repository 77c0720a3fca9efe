--------------------------- MODULE SchedulerProofs ---------------------------
(***************************************************************************)
(* Theorems about the scheduler, for any workers, sockets and bounds.      *)
(***************************************************************************)
EXTENDS Scheduler, FiniteSetTheorems, TLAPS

-----------------------------------------------------------------------------
(***************************************************************************)
(* Type correctness.  The types alone are not inductive: a thread that is  *)
(* about to insert or to execute a task must have one.                     *)
(***************************************************************************)

PointersOK ==
    /\ \A th \in Threads :
        /\ pc[th] \in {"getid", "insert"} => adding[th] \in Task
        /\ pc[th] \in {"exec", "returned"} => cur[th] \in Task
    /\ pc[Sched] \in {"uncount", "route"} => cur[Sched] \in Task
    /\ IsFiniteSet(DOMAIN taskQueue)

TypeInv == TypeOK /\ PointersOK

\* A thread that goes to one of its labels is at one of its labels.
LEMMA GotoType ==
    ASSUME TypeOK, NEW th \in Threads, NEW l \in Labels(th), Goto(th, l)
    PROVE  /\ pc' \in [Threads -> UNION {Labels(o) : o \in Threads}]
           /\ \A o \in Threads : pc'[o] \in Labels(o)
           /\ pc'[th] = l
           /\ \A o \in Threads \ {th} : pc'[o] = pc[o]
BY DEF TypeOK, Goto

\* PointersOK survives a step in which one thread moves, when that thread has
\* the task its next label asks for.
LEMMA PointersStep ==
    ASSUME TypeInv, NEW th \in Threads, NEW l \in Labels(th), Goto(th, l),
           \A o \in Threads \ {th} : cur'[o] = cur[o] /\ adding'[o] = adding[o],
           l \in {"getid", "insert"} => adding'[th] \in Task,
           l \in {"exec", "returned"} => cur'[th] \in Task,
           th = Sched /\ l \in {"uncount", "route"} => cur'[th] \in Task,
           IsFiniteSet(DOMAIN taskQueue')
    PROVE  PointersOK'
<1>1. pc'[th] = l /\ \A o \in Threads \ {th} : pc'[o] = pc[o]
  BY GotoType DEF TypeInv
<1>2. Sched \in Threads
  BY DEF Threads
<1> QED
  BY <1>1, <1>2 DEF TypeInv, PointersOK

\* The label a thread returns to is one of its own.
LEMMA LoopHeadType ==
    ASSUME NEW th \in Threads
    PROVE  /\ LoopHead(th) \in Labels(th)
           /\ LoopHead(th) \in {"accept", "deploy", "check"}
BY ThreadAssumption DEF LoopHead, Labels, MainLabels, SchedLabels,
                        WorkerLabels, Threads

\* Every thread has the labels of antd_scheduler_add_task, and every thread but
\* main those of antd_execute_task.
LEMMA CommonLabels ==
    /\ \A th \in Threads : {"getid", "insert", "count", "post"} \subseteq Labels(th)
    /\ \A th \in Threads \ {Main} : {"exec", "returned"} \subseteq Labels(th)
BY ThreadAssumption DEF Labels, AddLabels, ExecLabels

\* antd_scheduler_next_id returns a positive number for a socket or 0 and
\* leaves a natural number as allocator.
LEMMA NextIdType ==
    ASSUME TypeInv, NEW i \in Nat, NEW k \in NextIds(i)
    PROVE  k \in Nat \ {0} /\ AllocatorAfter(i, k) \in Nat
<1>1. CASE i # 0 /\ i \notin DOMAIN taskQueue
  BY <1>1 DEF NextIds, AllocatorAfter, TypeInv, TypeOK
<1>2. CASE ~(i # 0 /\ i \notin DOMAIN taskQueue)
  <2>1. Cardinality(DOMAIN taskQueue) \in Nat
    BY FS_CardinalityType DEF TypeInv, PointersOK
  <2>2. k \in (idAllocator + 1) ..
              (idAllocator + 1 + Cardinality(DOMAIN taskQueue))
    BY <1>2 DEF NextIds
  <2>3. AllocatorAfter(i, k) = k
    BY <1>2 DEF AllocatorAfter
  <2> QED
    BY <2>1, <2>2, <2>3 DEF TypeInv, TypeOK
<1> QED
  BY <1>1, <1>2

\* bst_insert and bst_delete keep the queue a finite function from ids to tasks.
LEMMA QueueType ==
    ASSUME TypeInv, NEW i \in Nat, NEW t \in Task
    PROVE  /\ Inserted(taskQueue, i, t) \in
                [DOMAIN taskQueue \cup {i} -> Task]
           /\ IsFiniteSet(DOMAIN taskQueue \cup {i})
           /\ Removed(taskQueue, i) \in [DOMAIN taskQueue \ {i} -> Task]
           /\ IsFiniteSet(DOMAIN taskQueue \ {i})
<1>1. IsFiniteSet(DOMAIN taskQueue)
  BY DEF TypeInv, PointersOK
<1>2. IsFiniteSet(DOMAIN taskQueue \cup {i})
  BY <1>1, FS_AddElement
<1>3. IsFiniteSet(DOMAIN taskQueue \ {i})
  BY <1>1, FS_RemoveElement
<1> QED
  BY <1>2, <1>3 DEF TypeInv, TypeOK, Inserted, Removed

\* The callbacks a handler gives to its task.
LEMMA CallbackType ==
    /\ <<>> \in Seq({"work", "finish"})
    /\ <<"work">> \in Seq({"work", "finish"})
    /\ <<"finish">> \in Seq({"work", "finish"})
OBVIOUS

\* The ways a task record is built or changed keep its type.
LEMMA RecordType ==
    /\ Blank \in TaskRecord
    /\ \A r \in TaskRecord, k \in Nat : [r EXCEPT !.id = k] \in TaskRecord
    /\ \A r \in TaskRecord, c \in Seq({"work", "finish"}) :
            [r EXCEPT !.callback = c] \in TaskRecord
    /\ \A r \in TaskRecord, c \in Seq({"work", "finish"}), h \in Handles :
            [r EXCEPT !.handle = h, !.callback = c] \in TaskRecord
    /\ \A r \in TaskRecord : [r EXCEPT !.expired = TRUE] \in TaskRecord
    /\ \A r \in TaskRecord :
            [r EXCEPT !.expired = TRUE, !.handle = "none"] \in TaskRecord
<1>1. Blank \in TaskRecord
  BY DEF TaskRecord, Blank, NoData, Handles
<1>2. \A r \in TaskRecord, k \in Nat : [r EXCEPT !.id = k] \in TaskRecord
  BY DEF TaskRecord
<1>3. \A r \in TaskRecord, c \in Seq({"work", "finish"}) :
            [r EXCEPT !.callback = c] \in TaskRecord
  BY DEF TaskRecord
<1>4. \A r \in TaskRecord, c \in Seq({"work", "finish"}), h \in Handles :
            [r EXCEPT !.handle = h, !.callback = c] \in TaskRecord
  BY DEF TaskRecord
<1>5. \A r \in TaskRecord : [r EXCEPT !.expired = TRUE] \in TaskRecord
  BY DEF TaskRecord
<1>6. \A r \in TaskRecord :
            [r EXCEPT !.expired = TRUE, !.handle = "none"] \in TaskRecord
  BY DEF TaskRecord, Handles
<1> QED
  BY <1>1, <1>2, <1>3, <1>4, <1>5, <1>6

\* malloc and destroy_task keep the heap well typed.
LEMMA HeapType ==
    ASSUME TypeOK, NEW t \in Task, NEW r \in TaskRecord,
           Alloc(t, r) \/ DestroyTask(t)
    PROVE  live' \subseteq Task /\ task' \in [Task -> TaskRecord]
<1>1. Blank \in TaskRecord
  BY RecordType
<1>2. task \in [Task -> TaskRecord] /\ live \subseteq Task
  BY DEF TypeOK
<1>3. CASE Alloc(t, r)
  BY <1>2, <1>3 DEF Alloc
<1>4. CASE DestroyTask(t)
  BY <1>1, <1>2, <1>4 DEF DestroyTask
<1> QED
  BY <1>3, <1>4

\* The state antd_scheduler_init leaves is well typed.
LEMMA TypeInit == Init => TypeInv
<1> SUFFICES ASSUME Init PROVE TypeInv
  OBVIOUS
<1>1. IsFiniteSet(DOMAIN taskQueue)
  BY FS_EmptySet DEF Init
<1>2. Blank \in TaskRecord
  BY DEF Blank, TaskRecord, NoData, Handles, EventKinds
<1>3. PointersOK
  BY <1>1, ThreadAssumption DEF Init, PointersOK, Threads
<1>4. \A th \in Threads : pc[th] \in Labels(th)
  BY ThreadAssumption DEF Init, Labels, MainLabels, SchedLabels, WorkerLabels,
                          Threads
<1> QED
  BY <1>2, <1>3, <1>4 DEF Init, TypeInv, TypeOK

\* The steps of antd_scheduler_add_task.
LEMMA TypeAdd ==
    ASSUME TypeInv, NEW th \in Threads,
           AddGetId(th) \/ AddInsert(th) \/ AddCount(th) \/ AddPost(th)
    PROVE  TypeInv'
<1> USE ThreadAssumption
<1>1. CASE AddGetId(th)
  <2>1. PICK k \in NextIds(0) :
            /\ task' = [task EXCEPT ![adding[th]].id = k]
            /\ idAllocator' = AllocatorAfter(0, k)
    BY <1>1 DEF AddGetId
  <2>2. k \in Nat /\ idAllocator' \in Nat
    BY <2>1, NextIdType
  <2>3. task' \in [Task -> TaskRecord]
    <3>1. adding[th] \in Task /\ task \in [Task -> TaskRecord]
      BY <1>1 DEF AddGetId, TypeInv, TypeOK, PointersOK
    <3>2. [task[adding[th]] EXCEPT !.id = k] \in TaskRecord
      BY <2>2, <3>1, RecordType
    <3> QED
      BY <2>1, <3>1, <3>2
  <2>4. Goto(th, "insert") /\ "insert" \in Labels(th)
    BY <1>1, CommonLabels DEF AddGetId
  <2>5. PointersOK'
    BY <1>1, <2>4, PointersStep DEF AddGetId, TypeInv, PointersOK
  <2> QED
    BY <1>1, <2>2, <2>3, <2>4, <2>5, GotoType
    DEF AddGetId, TypeInv, TypeOK, hubVars, reqVars, roundVars
<1>2. CASE AddInsert(th)
  <2>1. adding[th] \in Task /\ task[adding[th]].id \in Nat
    <3>1. adding[th] \in Task /\ task \in [Task -> TaskRecord]
      BY <1>2 DEF AddInsert, TypeInv, TypeOK, PointersOK
    <3> QED
      BY <3>1 DEF TaskRecord
  <2>2. /\ taskQueue' \in [DOMAIN taskQueue' -> Task]
        /\ DOMAIN taskQueue' \subseteq Nat
        /\ IsFiniteSet(DOMAIN taskQueue')
    <3> DEFINE i == task[adding[th]].id
    <3>1. taskQueue' = Inserted(taskQueue, i, adding[th])
      BY <1>2 DEF AddInsert
    <3>2. DOMAIN taskQueue' = DOMAIN taskQueue \cup {i}
      BY <3>1 DEF Inserted
    <3>3. DOMAIN taskQueue \subseteq Nat
      BY DEF TypeInv, TypeOK
    <3> HIDE DEF i
    <3>4. i \in Nat
      BY <2>1 DEF i
    <3> QED
      BY <2>1, <3>1, <3>2, <3>3, <3>4, QueueType
  <2>3. Goto(th, "count") /\ "count" \in Labels(th)
    BY <1>2, CommonLabels DEF AddInsert
  <2>4. /\ cur' \in [Threads -> Task \cup {NoTask}]
        /\ adding' \in [Threads -> Task \cup {NoTask}]
        /\ \A o \in Threads \ {th} : cur'[o] = cur[o] /\ adding'[o] = adding[o]
    BY <1>2 DEF AddInsert, TypeInv, TypeOK
  <2>5. PointersOK'
    BY <2>2, <2>3, <2>4, PointersStep
  <2> QED
    BY <1>2, <2>2, <2>3, <2>4, <2>5, GotoType
    DEF AddInsert, TypeInv, TypeOK, heapVars, hubVars, reqVars, roundVars
<1>3. CASE AddCount(th)
  <2>1. Goto(th, "post") /\ "post" \in Labels(th)
    BY <1>3, CommonLabels DEF AddCount
  <2>2. PointersOK'
    BY <1>3, <2>1, PointersStep DEF AddCount, TypeInv, PointersOK
  <2> QED
    BY <1>3, <2>1, <2>2, GotoType
    DEF AddCount, TypeInv, TypeOK, heapVars, hubVars, reqVars, roundVars
<1>4. CASE AddPost(th)
  <2>1. live' \subseteq Task /\ task' \in [Task -> TaskRecord]
    <3>1. CASE cur[th] = NoTask
      BY <1>4, <3>1 DEF AddPost, TypeInv, TypeOK, heapVars
    <3>2. CASE cur[th] # NoTask
      BY <1>4, <3>2, HeapType, RecordType DEF AddPost, TypeInv, TypeOK
    <3> QED
      BY <3>1, <3>2
  <2>2. /\ Goto(th, LoopHead(th))
        /\ LoopHead(th) \in Labels(th)
        /\ LoopHead(th) \in {"accept", "deploy", "check"}
    BY <1>4, LoopHeadType DEF AddPost
  <2>3. /\ cur' \in [Threads -> Task \cup {NoTask}]
        /\ \A o \in Threads \ {th} : cur'[o] = cur[o] /\ adding'[o] = adding[o]
    BY <1>4 DEF AddPost, TypeInv, TypeOK
  <2>4. PointersOK'
    BY <1>4, <2>2, <2>3, PointersStep DEF AddPost, TypeInv, PointersOK
  <2> QED
    BY <1>4, <2>1, <2>2, <2>3, <2>4, GotoType
    DEF AddPost, TypeInv, TypeOK, hubVars, reqVars, roundVars
<1> QED
  BY <1>1, <1>2, <1>3, <1>4

\* The handlers: antd_execute_task up to the return of the handle.
LEMMA TypeExec ==
    ASSUME TypeInv, NEW th \in Threads \ {Main},
           ExecFinish(th) \/ ExecNull(th) \/ ExecTask(th) \/ ExecDetach(th)
    PROVE  TypeInv'
<1>1. "returned" \in Labels(th) /\ th \in Threads
  BY CommonLabels
<1>2. CASE ExecFinish(th)
  <2>1. Goto(th, "returned") /\ cur[th] \in Task /\ open' \subseteq Socks
    BY <1>2 DEF ExecFinish, TypeInv, TypeOK, PointersOK
  <2>2. PointersOK'
    BY <1>1, <1>2, <2>1, PointersStep
    DEF ExecFinish, queueVars, TypeInv, PointersOK
  <2> QED
    BY <1>1, <1>2, <2>1, <2>2, GotoType
    DEF ExecFinish, TypeInv, TypeOK, queueVars, hubVars, heapVars, roundVars
<1>3. CASE ExecNull(th)
  <2>1. Goto(th, "returned") /\ cur[th] \in Task
    BY <1>3 DEF ExecNull, TypeInv, TypeOK, PointersOK
  <2>2. PointersOK'
    BY <1>1, <1>3, <2>1, PointersStep
    DEF ExecNull, queueVars, TypeInv, PointersOK
  <2> QED
    BY <1>1, <1>3, <2>1, <2>2, GotoType
    DEF ExecNull, TypeInv, TypeOK, queueVars, hubVars, heapVars, reqVars,
        roundVars
<1>4. CASE ExecTask(th)
  <2> DEFINE d == task[cur[th]].data
  <2>1. Goto(th, "returned") /\ cur[th] \in Task
    BY <1>4 DEF ExecTask, TypeInv, TypeOK, PointersOK
  <2>2. d \in Socks /\ d \in Nat
    <3>1. task[cur[th]] \in TaskRecord
      BY <2>1 DEF TypeInv, TypeOK
    <3> QED
      BY <1>4, <3>1, DataAssumption DEF ExecTask, TaskRecord
  <2>3. PICK t \in Task \ live, h \in {"work", "none"}, c \in {<<>>, <<"work">>},
             e \in EventSets, k \in NextIds(d) :
            /\ Alloc(t, [id |-> k, data |-> d, handle |-> h, callback |-> c,
                         events |-> e, expired |-> FALSE])
            /\ adding' = [adding EXCEPT ![th] = t]
            /\ idAllocator' = AllocatorAfter(d, k)
    BY <1>4 DEF ExecTask
  <2>4. k \in Nat /\ idAllocator' \in Nat
    BY <2>2, <2>3, NextIdType
  <2>5. [id |-> k, data |-> d, handle |-> h, callback |-> c,
         events |-> e, expired |-> FALSE] \in TaskRecord
    <3>1. c \in Seq({"work", "finish"}) /\ h \in Handles
      BY CallbackType DEF Handles
    <3>2. e \in SUBSET EventKinds
      BY DataAssumption
    <3> QED
      BY <2>2, <2>4, <3>1, <3>2 DEF TaskRecord
  <2>6. live' \subseteq Task /\ task' \in [Task -> TaskRecord]
    BY <2>3, <2>5, HeapType DEF TypeInv
  <2>7. hops' \in [Socks -> Nat]
    BY <1>4, <2>2 DEF ExecTask, TypeInv, TypeOK
  <2>8. PointersOK'
    BY <1>1, <1>4, <2>1, <2>3, PointersStep DEF ExecTask, TypeInv, TypeOK,
       PointersOK
  <2> QED
    BY <1>1, <1>4, <2>1, <2>3, <2>4, <2>6, <2>7, <2>8, GotoType
    DEF ExecTask, TypeInv, TypeOK, hubVars, roundVars
<1>5. CASE ExecDetach(th)
  <2>1. Goto(th, "returned") /\ cur[th] \in Task /\ open' \subseteq Socks
    BY <1>5 DEF ExecDetach, TypeInv, TypeOK, PointersOK
  <2>2. PICK t \in Task \ live :
            Alloc(t, Blank) /\ adding' = [adding EXCEPT ![th] = t]
    BY <1>5 DEF ExecDetach
  <2>3. live' \subseteq Task /\ task' \in [Task -> TaskRecord]
    BY <2>2, HeapType, RecordType DEF TypeInv
  <2>4. PointersOK'
    BY <1>1, <1>5, <2>1, <2>2, PointersStep
    DEF ExecDetach, queueVars, TypeInv, TypeOK, PointersOK
  <2> QED
    BY <1>1, <1>5, <2>1, <2>2, <2>3, <2>4, GotoType
    DEF ExecDetach, TypeInv, TypeOK, queueVars, hubVars, roundVars
<1> QED
  BY <1>2, <1>3, <1>4, <1>5

\* The rest of antd_execute_task, execute_callback included.
LEMMA TypeReturn ==
    ASSUME TypeInv, NEW th \in Threads \ {Main},
           ReturnCallback(th) \/ ReturnDone(th) \/ ReturnTask(th)
    PROVE  TypeInv'
<1> DEFINE t == cur[th]
<1> DEFINE r == adding[th]
<1>1. /\ th \in Threads
      /\ \A id : AddLabel(id) \in Labels(th) /\ AddLabel(id) \in {"getid", "insert"}
      /\ LoopHead(th) \in Labels(th)
      /\ LoopHead(th) \in {"accept", "deploy", "check"}
  BY CommonLabels, LoopHeadType DEF AddLabel
<1>2. /\ t \in Task
      /\ task \in [Task -> TaskRecord]
      /\ task[t].callback \in Seq({"work", "finish"})
      /\ task[t] \in TaskRecord
  <2>1. t \in Task /\ task[t] \in TaskRecord
    BY DEF TypeInv, TypeOK, PointersOK, ReturnCallback, ReturnDone, ReturnTask
  <2> QED
    BY <2>1 DEF TypeInv, TypeOK, TaskRecord
<1>3. CASE ReturnCallback(th)
  <2>1. Goto(th, AddLabel(task[t].id))
    BY <1>3 DEF ReturnCallback
  <2>2. task' \in [Task -> TaskRecord]
    <3>1. /\ Head(task[t].callback) \in Handles
          /\ Tail(task[t].callback) \in Seq({"work", "finish"})
      BY <1>2, <1>3 DEF ReturnCallback, Handles
    <3>2. [task[t] EXCEPT !.handle = Head(task[t].callback),
                          !.callback = Tail(task[t].callback)] \in TaskRecord
      BY <1>2, <3>1, RecordType
    <3>3. task' = [task EXCEPT ![t] = [task[t] EXCEPT
                        !.handle = Head(task[t].callback),
                        !.callback = Tail(task[t].callback)]]
      BY <1>2, <1>3 DEF ReturnCallback
    <3> QED
      BY <1>2, <3>2, <3>3
  <2>3. PointersOK'
    BY <1>1, <1>2, <1>3, <2>1, PointersStep
    DEF ReturnCallback, queueVars, TypeInv, TypeOK, PointersOK
  <2> QED
    BY <1>1, <1>2, <1>3, <2>1, <2>2, <2>3, GotoType
    DEF ReturnCallback, TypeInv, TypeOK, queueVars, hubVars, reqVars, roundVars
<1>4. CASE ReturnDone(th)
  <2>1. Goto(th, LoopHead(th))
    BY <1>4 DEF ReturnDone
  <2>2. live' \subseteq Task /\ task' \in [Task -> TaskRecord]
    BY <1>2, <1>4, HeapType DEF ReturnDone, TypeInv
  <2>3. PointersOK'
    BY <1>1, <1>4, <2>1, PointersStep
    DEF ReturnDone, queueVars, TypeInv, TypeOK, PointersOK
  <2> QED
    BY <1>1, <1>4, <2>1, <2>2, <2>3, GotoType
    DEF ReturnDone, TypeInv, TypeOK, queueVars, hubVars, reqVars, roundVars
<1>5. CASE ReturnTask(th)
  <2>1. Goto(th, AddLabel(task[r].id))
    BY <1>5 DEF ReturnTask
  <2>2. r \in Task /\ task[r] \in TaskRecord
    BY <1>1, <1>5 DEF ReturnTask, TypeInv, TypeOK
  <2>3. task' \in [Task -> TaskRecord]
    <3> DEFINE first == task[r].handle = "none"
    <3> DEFINE c == IF first THEN Tail(Chain(t, r)) ELSE Chain(t, r)
    <3> DEFINE h == IF first THEN Head(Chain(t, r)) ELSE task[r].handle
    <3> DEFINE half == [task EXCEPT ![t].callback = <<>>]
    <3>1. Chain(t, r) \in Seq({"work", "finish"})
      BY <1>2, <2>2 DEF Chain, TaskRecord
    <3>2. c \in Seq({"work", "finish"}) /\ h \in Handles
      <4>1. task[r].handle \in Handles
        BY <2>2 DEF TaskRecord
      <4>2. first => Chain(t, r) # <<>>
        BY <1>5 DEF ReturnTask
      <4>3. CASE first
        BY <3>1, <4>2, <4>3 DEF Handles
      <4>4. CASE ~first
        BY <3>1, <4>1, <4>4
      <4> QED
        BY <4>3, <4>4
    <3>3. half \in [Task -> TaskRecord]
      <4>1. [task[t] EXCEPT !.callback = <<>>] \in TaskRecord
        BY <1>2, RecordType, CallbackType
      <4> QED
        BY <1>2, <4>1
    <3>4. task' = [half EXCEPT ![r] = [half[r] EXCEPT !.handle = h,
                                                     !.callback = c]]
      BY <1>5 DEF ReturnTask
    <3> HIDE DEF half, c, h
    <3>5. [half[r] EXCEPT !.handle = h, !.callback = c] \in TaskRecord
      BY <2>2, <3>2, <3>3, RecordType
    <3> QED
      BY <3>3, <3>4, <3>5
  <2>4. PointersOK'
    BY <1>1, <1>5, <2>1, <2>2, PointersStep
    DEF ReturnTask, queueVars, TypeInv, TypeOK, PointersOK
  <2> QED
    BY <1>1, <1>5, <2>1, <2>3, <2>4, GotoType
    DEF ReturnTask, TypeInv, TypeOK, queueVars, hubVars, reqVars, roundVars
<1> QED
  BY <1>3, <1>4, <1>5

\* The loop of a worker.
LEMMA TypeWorker ==
    ASSUME TypeInv, NEW w \in Workers,
           WorkerCheck(w) \/ WorkerDequeue(w) \/ WorkerNone(w) \/ WorkerWake(w)
    PROVE  TypeInv'
<1>1. /\ w \in Threads
      /\ w # Sched
      /\ {"check", "dequeue", "wait", "exited", "exec"} \subseteq Labels(w)
  BY ThreadAssumption DEF Threads, Labels, WorkerLabels, ExecLabels
<1>2. CASE WorkerCheck(w)
  <2>1. /\ Goto(w, IF status THEN "dequeue" ELSE "exited")
        /\ (IF status THEN "dequeue" ELSE "exited") \in Labels(w)
    BY <1>1, <1>2 DEF WorkerCheck
  <2>2. PointersOK'
    BY <1>1, <1>2, <2>1, PointersStep
    DEF WorkerCheck, queueVars, TypeInv, PointersOK
  <2> QED
    BY <1>1, <1>2, <2>1, <2>2, GotoType
    DEF WorkerCheck, TypeInv, TypeOK, queueVars, hubVars, heapVars, reqVars,
        roundVars
<1>3. CASE WorkerDequeue(w)
  <2>1. Goto(w, "exec")
    BY <1>3 DEF WorkerDequeue
  <2>2. Head(workersQueue) \in Task /\ Tail(workersQueue) \in Seq(Task)
    BY <1>3 DEF WorkerDequeue, TypeInv, TypeOK
  <2>3. PointersOK'
    BY <1>1, <1>3, <2>1, <2>2, PointersStep
    DEF WorkerDequeue, queueVars, TypeInv, TypeOK, PointersOK
  <2> QED
    BY <1>1, <1>3, <2>1, <2>2, <2>3, GotoType
    DEF WorkerDequeue, TypeInv, TypeOK, queueVars, heapVars, reqVars, roundVars
<1>4. CASE WorkerNone(w)
  <2>1. Goto(w, "wait")
    BY <1>4 DEF WorkerNone
  <2>2. PointersOK'
    BY <1>1, <1>4, <2>1, PointersStep
    DEF WorkerNone, queueVars, TypeInv, PointersOK
  <2> QED
    BY <1>1, <1>4, <2>1, <2>2, GotoType
    DEF WorkerNone, TypeInv, TypeOK, queueVars, hubVars, heapVars, reqVars,
        roundVars
<1>5. CASE WorkerWake(w)
  <2>1. Goto(w, "check")
    BY <1>5 DEF WorkerWake
  <2>2. PointersOK'
    BY <1>1, <1>5, <2>1, PointersStep
    DEF WorkerWake, queueVars, TypeInv, PointersOK
  <2>3. workerSem' \in Nat
    BY <1>5 DEF WorkerWake, TypeInv, TypeOK
  <2> QED
    BY <1>1, <1>5, <2>1, <2>2, <2>3, GotoType
    DEF WorkerWake, TypeInv, TypeOK, queueVars, heapVars, reqVars, roundVars
<1> QED
  BY <1>2, <1>3, <1>4, <1>5

\* The labels of the scheduler thread.
LEMMA SchedThread ==
    /\ Sched \in Threads
    /\ {"check", "collect", "poll", "deploy", "uncount", "route", "wpost",
        "wait", "exited", "exec"} \subseteq Labels(Sched)
BY ThreadAssumption DEF Threads, Labels, SchedLabels, ExecLabels

\* The round of the scheduler thread: collecting and polling.
LEMMA TypeCollect ==
    ASSUME TypeInv, SchedCheck \/ SchedCollect \/ SchedPoll
    PROVE  TypeInv'
<1>1. Queued \subseteq Task
  BY DEF TypeInv, TypeOK, Queued
<1>2. CASE SchedCheck
  <2>1. /\ Goto(Sched, IF status THEN "collect" ELSE "exited")
        /\ (IF status THEN "collect" ELSE "exited") \in Labels(Sched)
    BY <1>2, SchedThread DEF SchedCheck
  <2>2. PointersOK'
    BY <1>2, <2>1, SchedThread, PointersStep
    DEF SchedCheck, queueVars, TypeInv, PointersOK
  <2> QED
    BY <1>2, <2>1, <2>2, SchedThread, GotoType
    DEF SchedCheck, TypeInv, TypeOK, queueVars, hubVars, heapVars, reqVars,
        roundVars
<1>3. CASE SchedCollect
  <2>1. /\ Goto(Sched, IF polls' = {} THEN "deploy" ELSE "poll")
        /\ (IF polls' = {} THEN "deploy" ELSE "poll") \in Labels(Sched)
    BY <1>3, SchedThread DEF SchedCollect
  <2>2. scheduled' \subseteq Task /\ polls' \subseteq Task
    BY <1>1, <1>3 DEF SchedCollect
  <2>3. PointersOK'
    BY <1>3, <2>1, SchedThread, PointersStep
    DEF SchedCollect, queueVars, TypeInv, PointersOK
  <2> QED
    BY <1>3, <2>1, <2>2, <2>3, SchedThread, GotoType
    DEF SchedCollect, TypeInv, TypeOK, queueVars, hubVars, heapVars, reqVars
<1>4. CASE SchedPoll
  <2>1. Goto(Sched, "deploy")
    BY <1>4 DEF SchedPoll
  <2>2. PICK failed \in SUBSET polls, ready \in SUBSET polls :
            /\ scheduled' = scheduled \cup failed \cup
                    {t \in ready : task[t].id \in DOMAIN taskQueue}
            /\ task' = [t \in Task |->
                            IF t \in failed
                            THEN [task[t] EXCEPT !.expired = TRUE,
                                                 !.handle = "none"]
                            ELSE task[t]]
    BY <1>4 DEF SchedPoll
  <2>3. scheduled' \subseteq Task
    BY <2>2 DEF TypeInv, TypeOK
  <2>4. task' \in [Task -> TaskRecord]
    BY <2>2, RecordType DEF TypeInv, TypeOK
  <2>5. PointersOK'
    BY <1>4, <2>1, SchedThread, PointersStep
    DEF SchedPoll, queueVars, TypeInv, PointersOK
  <2> QED
    BY <1>4, <2>1, <2>3, <2>4, <2>5, SchedThread, GotoType
    DEF SchedPoll, TypeInv, TypeOK, queueVars, hubVars, reqVars
<1> QED
  BY <1>2, <1>3, <1>4

\* The round of the scheduler thread: deploying, and going to sleep.
LEMMA TypeDeploy ==
    ASSUME TypeInv,
           SchedDeploy \/ SchedUncount \/ SchedKill \/ SchedRoute
           \/ SchedPostWorkers \/ SchedIdle \/ SchedWake
    PROVE  TypeInv'
<1>1. CASE SchedDeploy
  <2>1. PICK t \in scheduled :
            /\ taskQueue' = Removed(taskQueue, task[t].id)
            /\ cur' = [cur EXCEPT ![Sched] = t]
            /\ scheduled' = scheduled \ {t}
    BY <1>1 DEF SchedDeploy
  <2>2. Goto(Sched, "uncount") /\ t \in Task
    BY <1>1 DEF SchedDeploy, TypeInv, TypeOK
  <2>3. task[t].id \in Nat
    <3>1. task[t] \in TaskRecord
      BY <2>2 DEF TypeInv, TypeOK
    <3> QED
      BY <3>1 DEF TaskRecord
  <2>4. /\ taskQueue' \in [DOMAIN taskQueue' -> Task]
        /\ DOMAIN taskQueue' \subseteq Nat
        /\ IsFiniteSet(DOMAIN taskQueue')
    <3> DEFINE i == task[t].id
    <3>1. DOMAIN taskQueue' = DOMAIN taskQueue \ {i}
      BY <2>1 DEF Removed
    <3>2. DOMAIN taskQueue \subseteq Nat
      BY DEF TypeInv, TypeOK
    <3>3. taskQueue' = Removed(taskQueue, i) /\ i \in Nat
      BY <2>1, <2>3
    <3> HIDE DEF i
    <3> QED
      BY <2>2, <3>1, <3>2, <3>3, QueueType
  <2>5. PointersOK'
    BY <1>1, <2>1, <2>2, <2>4, SchedThread, PointersStep
    DEF SchedDeploy, TypeInv, TypeOK
  <2> QED
    BY <1>1, <2>1, <2>2, <2>4, <2>5, SchedThread, GotoType
    DEF SchedDeploy, TypeInv, TypeOK, hubVars, heapVars, reqVars
<1>2. CASE SchedUncount
  <2>1. Goto(Sched, "route") /\ cur[Sched] \in Task
    BY <1>2 DEF SchedUncount, TypeInv, PointersOK
  <2>2. PointersOK'
    BY <1>2, <2>1, SchedThread, PointersStep
    DEF SchedUncount, TypeInv, PointersOK
  <2> QED
    BY <1>2, <2>1, <2>2, SchedThread, GotoType
    DEF SchedUncount, TypeInv, TypeOK, hubVars, heapVars, reqVars, roundVars
<1>3. CASE SchedKill
  <2>1. Goto(Sched, "deploy") /\ cur[Sched] \in Task
    BY <1>3 DEF SchedKill, TypeInv, PointersOK
  <2>2. live' \subseteq Task /\ task' \in [Task -> TaskRecord]
    BY <1>3, <2>1, HeapType, RecordType DEF SchedKill, TypeInv
  <2>3. PointersOK'
    BY <1>3, <2>1, SchedThread, PointersStep
    DEF SchedKill, queueVars, TypeInv, TypeOK, PointersOK
  <2> QED
    BY <1>3, <2>1, <2>2, <2>3, SchedThread, GotoType
    DEF SchedKill, TypeInv, TypeOK, queueVars, hubVars, reqVars, roundVars
<1>4. CASE SchedRoute
  <2>1. cur[Sched] \in Task
    BY <1>4 DEF SchedRoute, TypeInv, PointersOK
  <2>2. CASE Workers = {}
    <3>1. Goto(Sched, "exec")
      BY <1>4, <2>2 DEF SchedRoute
    <3>2. PointersOK'
      BY <1>4, <2>1, <2>2, <3>1, SchedThread, PointersStep
      DEF SchedRoute, queueVars, TypeInv, PointersOK
    <3> QED
      BY <1>4, <2>2, <3>1, <3>2, SchedThread, GotoType
      DEF SchedRoute, TypeInv, TypeOK, queueVars, hubVars, heapVars, reqVars,
          roundVars
  <2>3. CASE Workers # {}
    <3>1. Goto(Sched, "wpost")
      BY <1>4, <2>3 DEF SchedRoute
    <3>2. workersQueue' \in Seq(Task)
      <4>1. workersQueue' = Append(workersQueue, cur[Sched])
        BY <1>4, <2>3 DEF SchedRoute
      <4>2. workersQueue \in Seq(Task)
        BY DEF TypeInv, TypeOK
      <4> QED
        BY <2>1, <4>1, <4>2
    <3>3. PointersOK'
      BY <1>4, <2>1, <2>3, <3>1, SchedThread, PointersStep
      DEF SchedRoute, queueVars, TypeInv, TypeOK, PointersOK
    <3> QED
      BY <1>4, <2>3, <3>1, <3>2, <3>3, SchedThread, GotoType
      DEF SchedRoute, TypeInv, TypeOK, queueVars, hubVars, heapVars, reqVars,
          roundVars
  <2> QED
    BY <2>2, <2>3
<1>5. CASE SchedPostWorkers
  <2>1. Goto(Sched, "deploy")
    BY <1>5 DEF SchedPostWorkers
  <2>2. PointersOK'
    BY <1>5, <2>1, SchedThread, PointersStep
    DEF SchedPostWorkers, queueVars, TypeInv, PointersOK
  <2> QED
    BY <1>5, <2>1, <2>2, SchedThread, GotoType
    DEF SchedPostWorkers, TypeInv, TypeOK, queueVars, heapVars, reqVars,
        roundVars
<1>6. CASE SchedIdle
  <2>1. /\ Goto(Sched, IF DOMAIN taskQueue = {} THEN "wait" ELSE "check")
        /\ (IF DOMAIN taskQueue = {} THEN "wait" ELSE "check") \in Labels(Sched)
    BY <1>6, SchedThread DEF SchedIdle
  <2>2. PointersOK'
    BY <1>6, <2>1, SchedThread, PointersStep
    DEF SchedIdle, queueVars, TypeInv, PointersOK
  <2> QED
    BY <1>6, <2>1, <2>2, SchedThread, GotoType
    DEF SchedIdle, TypeInv, TypeOK, queueVars, hubVars, heapVars, reqVars,
        roundVars
<1>7. CASE SchedWake
  <2>1. Goto(Sched, "check")
    BY <1>7 DEF SchedWake
  <2>2. PointersOK'
    BY <1>7, <2>1, SchedThread, PointersStep
    DEF SchedWake, queueVars, TypeInv, PointersOK
  <2>3. schedSem' \in Nat
    BY <1>7 DEF SchedWake, TypeInv, TypeOK
  <2> QED
    BY <1>7, <2>1, <2>2, <2>3, SchedThread, GotoType
    DEF SchedWake, TypeInv, TypeOK, hubVars, heapVars, reqVars, roundVars
<1> QED
  BY <1>1, <1>2, <1>3, <1>4, <1>5, <1>6, <1>7

\* The main thread.
LEMMA TypeMain ==
    ASSUME TypeInv, Accept \/ StopBegin \/ StopPost \/ StopJoin
    PROVE  TypeInv'
<1>1. /\ Main \in Threads
      /\ Main # Sched
      /\ {"accept", "stopping", "joining", "joined", "insert"} \subseteq Labels(Main)
  BY ThreadAssumption DEF Threads, Labels, MainLabels, AddLabels
<1>2. CASE Accept
  <2>0. PICK d \in Socks \ open, t \in Task \ live : \E k \in NextIds(d) :
            /\ open' = open \cup {d}
            /\ hops' = [hops EXCEPT ![d] = 0]
            /\ Alloc(t, [id |-> k, data |-> d, handle |-> "work",
                         callback |-> <<"finish">>, events |-> {"poll"},
                         expired |-> FALSE])
            /\ adding' = [adding EXCEPT ![Main] = t]
            /\ idAllocator' = AllocatorAfter(d, k)
    BY <1>2 DEF Accept
  <2>1. PICK k \in NextIds(d) :
            /\ open' = open \cup {d}
            /\ hops' = [hops EXCEPT ![d] = 0]
            /\ Alloc(t, [id |-> k, data |-> d, handle |-> "work",
                         callback |-> <<"finish">>, events |-> {"poll"},
                         expired |-> FALSE])
            /\ adding' = [adding EXCEPT ![Main] = t]
            /\ idAllocator' = AllocatorAfter(d, k)
    BY <2>0
  <2>2. Goto(Main, "insert")
    BY <1>2 DEF Accept
  <2>3. k \in Nat /\ idAllocator' \in Nat
    BY <2>1, NextIdType, DataAssumption
  <2>4. [id |-> k, data |-> d, handle |-> "work", callback |-> <<"finish">>,
         events |-> {"poll"}, expired |-> FALSE] \in TaskRecord
    <3>1. "work" \in Handles /\ {"poll"} \in SUBSET EventKinds
      BY DEF Handles, EventKinds
    <3> QED
      BY <2>3, <3>1, CallbackType DEF TaskRecord
  <2>5. live' \subseteq Task /\ task' \in [Task -> TaskRecord]
    BY <2>1, <2>4, HeapType DEF TypeInv
  <2>6. open' \subseteq Socks /\ hops' \in [Socks -> Nat] /\ accepts' \in Nat
    BY <1>2, <2>1 DEF Accept, TypeInv, TypeOK
  <2>7. PointersOK'
    BY <1>1, <1>2, <2>1, <2>2, PointersStep
    DEF Accept, TypeInv, TypeOK, PointersOK
  <2> QED
    BY <1>1, <1>2, <2>1, <2>2, <2>3, <2>5, <2>6, <2>7, GotoType
    DEF Accept, TypeInv, TypeOK, hubVars, roundVars
<1>3. CASE StopBegin
  <2>1. Goto(Main, "stopping") /\ status' \in BOOLEAN
    BY <1>3 DEF StopBegin
  <2>2. PointersOK'
    BY <1>1, <1>3, <2>1, PointersStep
    DEF StopBegin, queueVars, TypeInv, PointersOK
  <2> QED
    BY <1>1, <1>3, <2>1, <2>2, GotoType
    DEF StopBegin, TypeInv, TypeOK, queueVars, hubVars, heapVars, reqVars,
        roundVars
<1>4. CASE StopPost
  <2>1. Goto(Main, "joining")
    BY <1>4 DEF StopPost
  <2>2. workerSem' \in Nat /\ schedSem' \in Nat
    BY <1>4, FS_CardinalityType, ThreadAssumption DEF StopPost, TypeInv, TypeOK
  <2>3. PointersOK'
    BY <1>1, <1>4, <2>1, PointersStep
    DEF StopPost, queueVars, TypeInv, PointersOK
  <2> QED
    BY <1>1, <1>4, <2>1, <2>2, <2>3, GotoType
    DEF StopPost, TypeInv, TypeOK, heapVars, reqVars, roundVars
<1>5. CASE StopJoin
  <2>1. Goto(Main, "joined")
    BY <1>5 DEF StopJoin
  <2>2. PointersOK'
    BY <1>1, <1>5, <2>1, PointersStep
    DEF StopJoin, queueVars, TypeInv, PointersOK
  <2> QED
    BY <1>1, <1>5, <2>1, <2>2, GotoType
    DEF StopJoin, TypeInv, TypeOK, queueVars, hubVars, heapVars, reqVars,
        roundVars
<1> QED
  BY <1>2, <1>3, <1>4, <1>5

\* A task grows old.
LEMMA TypeExpire ==
    ASSUME TypeInv, NEW t \in Task, Expire(t)
    PROVE  TypeInv'
<1>1. task' \in [Task -> TaskRecord]
  <2>1. task \in [Task -> TaskRecord]
    BY DEF TypeInv, TypeOK
  <2>2. [task[t] EXCEPT !.expired = TRUE] \in TaskRecord
    BY <2>1, RecordType
  <2> QED
    BY <2>1, <2>2 DEF Expire
<1>2. PointersOK'
  BY DEF Expire, queueVars, TypeInv, PointersOK
<1> QED
  BY <1>1, <1>2
  DEF Expire, TypeInv, TypeOK, queueVars, hubVars, reqVars, roundVars

\* Every step of any thread keeps the types and the pointers.
LEMMA TypeStep == TypeInv /\ [Next]_vars => TypeInv'
<1> SUFFICES ASSUME TypeInv, [Next]_vars PROVE TypeInv'
  OBVIOUS
<1>1. CASE MainNext
  BY <1>1, TypeMain, TypeAdd DEF MainNext, MainAdd, Threads
<1>2. CASE SchedNext
  BY <1>2, TypeCollect, TypeDeploy, TypeAdd, TypeExec, TypeReturn, SchedThread,
     ThreadAssumption
  DEF SchedNext, AddOrExecute
<1>3. CASE \E w \in Workers : WorkerNext(w)
  <2>1. PICK w \in Workers : WorkerNext(w)
    BY <1>3
  <2>2. w \in Threads /\ w \in Threads \ {Main}
    BY ThreadAssumption DEF Threads
  <2> QED
    BY <2>1, <2>2, TypeWorker, TypeAdd, TypeExec, TypeReturn
    DEF WorkerNext, AddOrExecute
<1>4. CASE \E t \in Task : Expire(t)
  BY <1>4, TypeExpire
<1>5. CASE UNCHANGED vars
  BY <1>5 DEF vars, queueVars, hubVars, heapVars, reqVars, roundVars, TypeInv,
              TypeOK, PointersOK
<1> QED
  BY <1>1, <1>2, <1>3, <1>4, <1>5 DEF Next, Terminating

\* The scheduler is well typed: no semaphore counter goes below zero and no
\* thread inserts or executes a NULL task, whatever the interleaving.
THEOREM TypeCorrect == Spec => [](TypeOK /\ PointersOK)
<1>1. Init => TypeInv
  BY TypeInit
<1>2. TypeInv /\ [Next]_vars => TypeInv'
  BY TypeStep
<1> QED
  BY <1>1, <1>2, PTL DEF Spec, TypeInv

-----------------------------------------------------------------------------
(***************************************************************************)
(* No lost wake-up of the scheduler thread.                                *)
(***************************************************************************)

\* What the other threads of a step leave as it is: Stays says that the queue,
\* the semaphore and the threads between insertion and post are unchanged.
Stays ==
    /\ taskQueue' = taskQueue
    /\ schedSem' = schedSem
    /\ \A th \in Threads : pc[th] \in {"count", "post"} => pc'[th] = pc[th]
    /\ pc'[Sched] = "wait" => pc[Sched] = "wait"

\* A step that is harmless in the sense of Stays keeps the scheduler awake.
LEMMA StaysNotStranded ==
    ASSUME SchedNotStranded, Stays
    PROVE  SchedNotStranded'
<1>1. Queued' = Queued
  BY DEF Stays, Queued
<1> QED
  BY <1>1 DEF SchedNotStranded, Stays

\* A thread that goes from one label to another while the queue and the
\* semaphore stay: it must not leave the labels between insertion and post,
\* and must not put the scheduler to sleep.
LEMMA MoveStays ==
    ASSUME TypeInv, NEW th \in Threads, NEW l \in Labels(th), Goto(th, l),
           taskQueue' = taskQueue, schedSem' = schedSem,
           pc[th] \notin {"count", "post"}, th = Sched => l # "wait"
    PROVE  Stays
<1>1. pc'[th] = l /\ \A o \in Threads \ {th} : pc'[o] = pc[o]
  BY GotoType DEF TypeInv
<1>2. Sched \in Threads
  BY SchedThread
<1> QED
  BY <1>1, <1>2 DEF Stays

\* antd_scheduler_add_task: between the insertion and the post the thread that
\* added the task is the one that will wake the scheduler.
LEMMA SchedAdd ==
    ASSUME TypeInv, SchedNotStranded, NEW th \in Threads,
           AddGetId(th) \/ AddInsert(th) \/ AddCount(th) \/ AddPost(th)
    PROVE  SchedNotStranded'
<1>1. CASE AddGetId(th)
  <2>1. Stays
    BY <1>1, MoveStays, CommonLabels DEF AddGetId
  <2> QED
    BY <2>1, StaysNotStranded
<1>2. CASE AddInsert(th)
  <2>1. Goto(th, "count") /\ "count" \in Labels(th)
    BY <1>2, CommonLabels DEF AddInsert
  <2>2. pc'[th] = "count" /\ pc'[Sched] = "wait" => th # Sched
    BY <2>1, GotoType DEF TypeInv
  <2>3. pc'[th] = "count"
    BY <2>1, GotoType DEF TypeInv
  <2> QED
    BY <2>2, <2>3 DEF SchedNotStranded
<1>3. CASE AddCount(th)
  <2>1. Goto(th, "post") /\ "post" \in Labels(th)
    BY <1>3, CommonLabels DEF AddCount
  <2>2. pc'[th] = "post" /\ (pc'[Sched] = "wait" => th # Sched)
    BY <2>1, GotoType DEF TypeInv
  <2> QED
    BY <2>2 DEF SchedNotStranded
<1>4. CASE AddPost(th)
  <2>1. schedSem' > 0
    BY <1>4 DEF AddPost, TypeInv, TypeOK
  <2> QED
    BY <2>1 DEF SchedNotStranded
<1> QED
  BY <1>1, <1>2, <1>3, <1>4

\* antd_execute_task touches neither the queue nor the semaphore.
LEMMA SchedExecute ==
    ASSUME TypeInv, SchedNotStranded, NEW th \in Threads \ {Main},
           \/ ExecFinish(th) \/ ExecNull(th) \/ ExecTask(th) \/ ExecDetach(th)
           \/ ReturnCallback(th) \/ ReturnDone(th) \/ ReturnTask(th)
    PROVE  SchedNotStranded'
<1>1. taskQueue' = taskQueue /\ schedSem' = schedSem
  BY DEF ExecFinish, ExecNull, ExecTask, ExecDetach, ReturnCallback,
         ReturnDone, ReturnTask, queueVars
<1>2. pc[th] \notin {"count", "post"}
  BY DEF ExecFinish, ExecNull, ExecTask, ExecDetach, ReturnCallback,
         ReturnDone, ReturnTask
<1>3. PICK l : Goto(th, l) /\ l \in Labels(th) /\ l # "wait"
  <2>1. \A id : AddLabel(id) \in Labels(th) /\ AddLabel(id) # "wait"
    BY CommonLabels DEF AddLabel
  <2>2. LoopHead(th) \in Labels(th) /\ LoopHead(th) # "wait"
    BY LoopHeadType
  <2>3. "returned" \in Labels(th)
    BY CommonLabels
  <2> QED
    BY <2>1, <2>2, <2>3
    DEF ExecFinish, ExecNull, ExecTask, ExecDetach, ReturnCallback,
        ReturnDone, ReturnTask
<1>4. Stays
  BY <1>1, <1>2, <1>3, MoveStays
<1> QED
  BY <1>4, StaysNotStranded

\* The scheduler goes to sleep only when it saw an empty queue.
LEMMA SchedLoop ==
    ASSUME TypeInv, SchedNotStranded,
           \/ SchedCheck \/ SchedCollect \/ SchedPoll \/ SchedDeploy
           \/ SchedUncount \/ SchedKill \/ SchedRoute \/ SchedPostWorkers
           \/ SchedIdle \/ SchedWake
    PROVE  SchedNotStranded'
<1>1. CASE SchedIdle
  <2>1. CASE DOMAIN taskQueue = {}
    BY <1>1, <2>1 DEF SchedIdle, queueVars, Queued, SchedNotStranded
  <2>2. CASE DOMAIN taskQueue # {}
    <3>1. Goto(Sched, "check") /\ "check" \in Labels(Sched)
      BY <1>1, <2>2, SchedThread DEF SchedIdle
    <3>2. pc'[Sched] = "check"
      BY <3>1, GotoType, SchedThread DEF TypeInv
    <3> QED
      BY <3>2 DEF SchedNotStranded
  <2> QED
    BY <2>1, <2>2
<1>2. CASE ~SchedIdle
  <2>1. PICK l : Goto(Sched, l) /\ l \in Labels(Sched) /\ l # "wait"
    BY <1>2, SchedThread
    DEF SchedCheck, SchedCollect, SchedPoll, SchedDeploy, SchedUncount,
        SchedKill, SchedRoute, SchedPostWorkers, SchedWake
  <2>2. pc'[Sched] # "wait"
    BY <2>1, GotoType, SchedThread DEF TypeInv
  <2> QED
    BY <2>2 DEF SchedNotStranded
<1> QED
  BY <1>1, <1>2

\* The other steps of the scheduler, the workers and time are harmless.
LEMMA SchedOthers ==
    ASSUME TypeInv, SchedNotStranded,
           \/ \E w \in Workers : WorkerCheck(w) \/ WorkerDequeue(w)
                                 \/ WorkerNone(w) \/ WorkerWake(w)
           \/ Accept \/ StopBegin \/ StopJoin
           \/ \E t \in Task : Expire(t)
           \/ UNCHANGED vars
    PROVE  SchedNotStranded'
<1>1. CASE \E w \in Workers : WorkerCheck(w) \/ WorkerDequeue(w)
                              \/ WorkerNone(w) \/ WorkerWake(w)
  <2>1. PICK w \in Workers : WorkerCheck(w) \/ WorkerDequeue(w)
                             \/ WorkerNone(w) \/ WorkerWake(w)
    BY <1>1
  <2>2. w \in Threads /\ w # Sched
    BY ThreadAssumption DEF Threads
  <2>3. PICK l : Goto(w, l) /\ l \in {"dequeue", "exited", "exec", "wait", "check"}
    BY <2>1 DEF WorkerCheck, WorkerDequeue, WorkerNone, WorkerWake
  <2>4. l \in Labels(w)
    BY <2>3, ThreadAssumption DEF Labels, WorkerLabels, ExecLabels
  <2>5. /\ taskQueue' = taskQueue /\ schedSem' = schedSem
        /\ pc[w] \notin {"count", "post"}
    BY <2>1 DEF WorkerCheck, WorkerDequeue, WorkerNone, WorkerWake, queueVars
  <2>6. Stays
    BY <2>2, <2>3, <2>4, <2>5, MoveStays
  <2> QED
    BY <2>6, StaysNotStranded
<1>2. CASE Accept \/ StopBegin \/ StopJoin
  <2>1. PICK l : Goto(Main, l) /\ l \in {"insert", "stopping", "joined"}
    BY <1>2 DEF Accept, StopBegin, StopJoin
  <2>2. l \in Labels(Main) /\ Main \in Threads /\ Main # Sched
    BY <2>1, ThreadAssumption DEF Threads, Labels, MainLabels, AddLabels
  <2>3. /\ taskQueue' = taskQueue /\ schedSem' = schedSem
        /\ pc[Main] \notin {"count", "post"}
    BY <1>2 DEF Accept, StopBegin, StopJoin, queueVars
  <2>4. Stays
    BY <2>1, <2>2, <2>3, MoveStays
  <2> QED
    BY <2>4, StaysNotStranded
<1>3. CASE (\E t \in Task : Expire(t)) \/ UNCHANGED vars
  <2>1. Stays
    BY <1>3 DEF Expire, vars, queueVars, Stays
  <2> QED
    BY <2>1, StaysNotStranded
<1> QED
  BY <1>1, <1>2, <1>3

\* Every step keeps the scheduler from being stranded.
LEMMA SchedStep ==
    TypeInv /\ SchedNotStranded /\ [Next]_vars => SchedNotStranded'
<1> SUFFICES ASSUME TypeInv, SchedNotStranded, [Next]_vars
             PROVE  SchedNotStranded'
  OBVIOUS
<1>1. CASE MainNext
  <2>1. CASE StopPost
    <3>1. schedSem' > 0
      BY <2>1 DEF StopPost, TypeInv, TypeOK
    <3> QED
      BY <3>1 DEF SchedNotStranded
  <2> QED
    BY <1>1, <2>1, SchedOthers, SchedAdd DEF MainNext, MainAdd, Threads
<1>2. CASE SchedNext
  BY <1>2, SchedLoop, SchedAdd, SchedExecute, SchedThread, ThreadAssumption
  DEF SchedNext, AddOrExecute
<1>3. CASE \E w \in Workers : WorkerNext(w)
  <2>1. PICK w \in Workers : WorkerNext(w)
    BY <1>3
  <2>2. w \in Threads /\ w \in Threads \ {Main}
    BY ThreadAssumption DEF Threads
  <2> QED
    BY <2>1, <2>2, SchedOthers, SchedAdd, SchedExecute
    DEF WorkerNext, AddOrExecute
<1>4. CASE (\E t \in Task : Expire(t)) \/ UNCHANGED vars
  BY <1>4, SchedOthers
<1> QED
  BY <1>1, <1>2, <1>3, <1>4 DEF Next, Terminating

\* The scheduler thread never sleeps while a task sits in the queue and nobody
\* is going to wake it: the unlocked look at task_queue before sem_wait is
\* harmless because every insertion is followed by a post.
THEOREM SchedulerWakesUp == Spec => []SchedNotStranded
<1>1. Init => TypeInv /\ SchedNotStranded
  BY TypeInit DEF Init, SchedNotStranded, Queued
<1>2. TypeInv /\ SchedNotStranded /\ [Next]_vars =>
            TypeInv' /\ SchedNotStranded'
  BY TypeStep, SchedStep
<1> QED
  BY <1>1, <1>2, PTL DEF Spec


-----------------------------------------------------------------------------
(***************************************************************************)
(* No lost wake-up of the workers, however many there are.                 *)
(***************************************************************************)

\* The active workers are finitely many, so that they can be counted.
LEMMA ActiveFinite ==
    IsFiniteSet(ActiveWorkers) /\ Cardinality(ActiveWorkers) \in Nat
BY FS_Subset, FS_CardinalityType, ThreadAssumption DEF ActiveWorkers

\* A thread that moves leaves the active workers as they are, unless it is a
\* worker that falls asleep, leaves its loop or wakes up.
LEMMA ActiveSame ==
    ASSUME TypeInv, NEW th \in Threads, NEW l \in Labels(th), Goto(th, l),
           th \in Workers => {pc[th], l} \cap {"wait", "exited"} = {}
    PROVE  ActiveWorkers' = ActiveWorkers
<1>1. pc'[th] = l /\ \A o \in Threads \ {th} : pc'[o] = pc[o]
  BY GotoType DEF TypeInv
<1>2. Workers \subseteq Threads
  BY DEF Threads
<1> QED
  BY <1>1, <1>2 DEF ActiveWorkers

\* A step that leaves the workers' queue, its semaphore and the active workers
\* as they are, and in which the scheduler does not forget a post it owes.
LEMMA HubStays ==
    ASSUME TypeInv, WorkersNotStranded, status' => status,
           workersQueue' = workersQueue, workerSem' = workerSem,
           ActiveWorkers' = ActiveWorkers,
           pc[Sched] = "wpost" => pc'[Sched] = "wpost"
    PROVE  WorkersNotStranded'
<1>1. Cardinality(ActiveWorkers) \in Nat
  BY ActiveFinite
<1>2. Cardinality(ActiveWorkers)' = Cardinality(ActiveWorkers)
  OBVIOUS
<1>3. Len(workersQueue) \in Nat /\ workerSem \in Nat
  BY DEF TypeInv, TypeOK
<1> QED
  BY <1>1, <1>2, <1>3 DEF WorkersNotStranded

\* Adding and executing a task is no business of the workers' queue.
LEMMA WorkersExecute ==
    ASSUME TypeInv, WorkersNotStranded, NEW th \in Threads,
           \/ AddGetId(th) \/ AddInsert(th) \/ AddCount(th) \/ AddPost(th)
           \/ th # Main /\
                \/ ExecFinish(th) \/ ExecNull(th) \/ ExecTask(th)
                \/ ExecDetach(th) \/ ReturnCallback(th) \/ ReturnDone(th)
                \/ ReturnTask(th)
    PROVE  WorkersNotStranded'
<1>1. PICK l : /\ Goto(th, l)
               /\ l \in Labels(th)
               /\ l \notin {"wait", "exited", "wpost"}
               /\ pc[th] \notin {"wait", "exited", "wpost"}
  <2>1. \A id : AddLabel(id) \in Labels(th) /\ AddLabel(id) \in {"getid", "insert"}
    BY CommonLabels DEF AddLabel
  <2>2. /\ LoopHead(th) \in Labels(th)
        /\ LoopHead(th) \in {"accept", "deploy", "check"}
    BY LoopHeadType
  <2>3. /\ {"insert", "count", "post"} \subseteq Labels(th)
        /\ th # Main => "returned" \in Labels(th)
    BY CommonLabels
  <2> QED
    BY <2>1, <2>2, <2>3
    DEF AddGetId, AddInsert, AddCount, AddPost, ExecFinish, ExecNull, ExecTask,
        ExecDetach, ReturnCallback, ReturnDone, ReturnTask
<1>2. workersQueue' = workersQueue /\ workerSem' = workerSem /\ status' = status
  BY DEF AddGetId, AddInsert, AddCount, AddPost, ExecFinish, ExecNull, ExecTask,
         ExecDetach, ReturnCallback, ReturnDone, ReturnTask, hubVars
<1>3. ActiveWorkers' = ActiveWorkers
  BY <1>1, ActiveSame
<1>4. pc[Sched] = "wpost" => pc'[Sched] = "wpost"
  BY <1>1, GotoType, SchedThread DEF TypeInv
<1> QED
  BY <1>2, <1>3, <1>4, HubStays

\* work: a worker that goes to sleep saw an empty queue, or used up a post.
LEMMA WorkersLoop ==
    ASSUME TypeInv, WorkersNotStranded, NEW w \in Workers,
           WorkerCheck(w) \/ WorkerDequeue(w) \/ WorkerNone(w) \/ WorkerWake(w)
    PROVE  WorkersNotStranded'
<1>1. /\ w \in Threads
      /\ w # Sched
      /\ {"check", "dequeue", "wait", "exited", "exec"} \subseteq Labels(w)
      /\ Sched \in Threads
  BY ThreadAssumption DEF Threads, Labels, WorkerLabels, ExecLabels
<1>2. \A l \in Labels(w) : Goto(w, l) => pc'[Sched] = pc[Sched] /\ pc'[w] = l
  BY <1>1, GotoType DEF TypeInv
<1>3. /\ Cardinality(ActiveWorkers) \in Nat
      /\ Cardinality(ActiveWorkers') \in Nat
      /\ Len(workersQueue) \in Nat
      /\ workerSem \in Nat
  <2>1. IsFiniteSet(ActiveWorkers')
    BY FS_Subset, ThreadAssumption DEF ActiveWorkers
  <2> QED
    BY <2>1, ActiveFinite, FS_CardinalityType DEF TypeInv, TypeOK
<1>4. CASE WorkerCheck(w)
  <2>1. CASE status
    <3>1. Goto(w, "dequeue") /\ pc[w] = "check"
      BY <1>4, <2>1 DEF WorkerCheck
    <3>2. ActiveWorkers' = ActiveWorkers
      BY <1>1, <3>1, ActiveSame
    <3> QED
      BY <1>1, <1>2, <1>4, <3>1, <3>2, HubStays DEF WorkerCheck, hubVars
  <2>2. CASE ~status
    BY <1>4, <2>2 DEF WorkerCheck, WorkersNotStranded
  <2> QED
    BY <2>1, <2>2
<1>5. CASE WorkerDequeue(w)
  <2>1. Goto(w, "exec") /\ pc[w] = "dequeue"
    BY <1>5 DEF WorkerDequeue
  <2>2. ActiveWorkers' = ActiveWorkers
    BY <1>1, <2>1, ActiveSame
  <2>3. Len(workersQueue') <= Len(workersQueue) /\ Len(workersQueue') \in Nat
    BY <1>5 DEF WorkerDequeue, TypeInv, TypeOK
  <2>4. /\ workerSem' = workerSem /\ status' = status
        /\ pc'[Sched] = pc[Sched]
    BY <1>1, <1>2, <1>5, <2>1 DEF WorkerDequeue
  <2> QED
    BY <1>3, <2>2, <2>3, <2>4 DEF WorkersNotStranded
<1>6. CASE WorkerNone(w)
  <2>1. Len(workersQueue') = 0 /\ workerSem' = workerSem
    BY <1>6 DEF WorkerNone, hubVars
  <2> QED
    BY <1>3, <2>1 DEF WorkersNotStranded
<1>7. CASE WorkerWake(w)
  <2>1. Goto(w, "check") /\ pc[w] = "wait" /\ pc'[w] = "check"
    BY <1>1, <1>2, <1>7 DEF WorkerWake
  <2>2. ActiveWorkers' = ActiveWorkers \cup {w} /\ w \notin ActiveWorkers
    <3>1. \A o \in Threads \ {w} : pc'[o] = pc[o]
      BY <1>1, <2>1, GotoType DEF TypeInv
    <3> QED
      BY <2>1, <3>1 DEF ActiveWorkers, Threads
  <2>3. Cardinality(ActiveWorkers') = Cardinality(ActiveWorkers) + 1
    BY <2>2, ActiveFinite, FS_AddElement
  <2>4. /\ workersQueue' = workersQueue /\ workerSem' = workerSem - 1
        /\ status' = status /\ pc'[Sched] = pc[Sched]
    BY <1>1, <1>2, <1>7, <2>1 DEF WorkerWake
  <2> QED
    BY <1>3, <2>3, <2>4 DEF WorkersNotStranded
<1> QED
  BY <1>4, <1>5, <1>6, <1>7

\* antd_task_schedule: the task that is enqueued is matched by the post to come.
LEMMA WorkersSched ==
    ASSUME TypeInv, WorkersNotStranded,
           \/ SchedCheck \/ SchedCollect \/ SchedPoll \/ SchedDeploy
           \/ SchedUncount \/ SchedKill \/ SchedRoute \/ SchedPostWorkers
           \/ SchedIdle \/ SchedWake
    PROVE  WorkersNotStranded'
<1>1. PICK l : Goto(Sched, l) /\ l \in Labels(Sched)
  BY SchedThread
  DEF SchedCheck, SchedCollect, SchedPoll, SchedDeploy, SchedUncount,
      SchedKill, SchedRoute, SchedPostWorkers, SchedIdle, SchedWake
<1>2. ActiveWorkers' = ActiveWorkers /\ pc'[Sched] = l
  BY <1>1, ActiveSame, GotoType, SchedThread, ThreadAssumption DEF TypeInv
<1>3. /\ Cardinality(ActiveWorkers) \in Nat
      /\ Len(workersQueue) \in Nat
      /\ workerSem \in Nat
  BY ActiveFinite DEF TypeInv, TypeOK
<1>4. CASE SchedRoute /\ Workers # {}
  <2>1. workersQueue' = Append(workersQueue, cur[Sched])
    BY <1>4 DEF SchedRoute
  <2>2. cur[Sched] \in Task
    BY <1>4 DEF SchedRoute, TypeInv, PointersOK
  <2>3. Len(workersQueue') = Len(workersQueue) + 1
    BY <2>1, <2>2 DEF TypeInv, TypeOK
  <2>4. pc[Sched] = "route" /\ Goto(Sched, "wpost")
    BY <1>4 DEF SchedRoute
  <2>5. pc'[Sched] = "wpost"
    BY <2>4, GotoType, SchedThread DEF TypeInv
  <2>6. workerSem' = workerSem /\ status' = status
    BY <1>4 DEF SchedRoute
  <2> QED
    BY <1>2, <1>3, <2>3, <2>4, <2>5, <2>6 DEF WorkersNotStranded
<1>5. CASE SchedPostWorkers
  <2>1. /\ workersQueue' = workersQueue /\ workerSem' = workerSem + 1
        /\ status' = status /\ pc[Sched] = "wpost"
    BY <1>5 DEF SchedPostWorkers
  <2> QED
    BY <1>2, <1>3, <2>1 DEF WorkersNotStranded
<1>6. CASE ~(SchedRoute /\ Workers # {}) /\ ~SchedPostWorkers
  <2>1. /\ workersQueue' = workersQueue /\ workerSem' = workerSem
        /\ status' = status /\ pc[Sched] # "wpost"
    BY <1>6
    DEF SchedCheck, SchedCollect, SchedPoll, SchedDeploy, SchedUncount,
        SchedKill, SchedRoute, SchedIdle, SchedWake, hubVars
  <2> QED
    BY <1>2, <2>1, HubStays
<1> QED
  BY <1>4, <1>5, <1>6

\* The main thread only adds posts to worker_sem; stop clears the status.
LEMMA WorkersMain ==
    ASSUME TypeInv, WorkersNotStranded,
           Accept \/ StopBegin \/ StopPost \/ StopJoin
    PROVE  WorkersNotStranded'
<1>1. PICK l : Goto(Main, l) /\ l \in {"insert", "stopping", "joining", "joined"}
  BY DEF Accept, StopBegin, StopPost, StopJoin
<1>2. l \in Labels(Main) /\ Main \in Threads /\ Main # Sched /\ Main \notin Workers
  BY <1>1, ThreadAssumption DEF Threads, Labels, MainLabels, AddLabels
<1>3. ActiveWorkers' = ActiveWorkers
  BY <1>1, <1>2, ActiveSame
<1>4. pc'[Sched] = pc[Sched]
  BY <1>1, <1>2, GotoType, SchedThread DEF TypeInv
<1>5. CASE StopPost
  <2>1. /\ workersQueue' = workersQueue /\ status' = status
        /\ workerSem' = workerSem + Cardinality(Workers)
    BY <1>5 DEF StopPost
  <2>2. /\ Cardinality(Workers) \in Nat /\ workerSem \in Nat
        /\ Cardinality(ActiveWorkers) \in Nat /\ Len(workersQueue) \in Nat
    BY ActiveFinite, FS_CardinalityType, ThreadAssumption DEF TypeInv, TypeOK
  <2> QED
    BY <1>3, <1>4, <2>1, <2>2 DEF WorkersNotStranded
<1>6. CASE Accept \/ StopBegin \/ StopJoin
  <2>1. /\ workersQueue' = workersQueue /\ workerSem' = workerSem
        /\ status' => status
    BY <1>6 DEF Accept, StopBegin, StopJoin, hubVars
  <2> QED
    BY <1>3, <1>4, <2>1, HubStays
<1> QED
  BY <1>5, <1>6

\* Every step keeps the workers from being stranded.
LEMMA WorkersStep ==
    TypeInv /\ WorkersNotStranded /\ [Next]_vars => WorkersNotStranded'
<1> SUFFICES ASSUME TypeInv, WorkersNotStranded, [Next]_vars
             PROVE  WorkersNotStranded'
  OBVIOUS
<1>1. CASE MainNext
  BY <1>1, WorkersMain, WorkersExecute DEF MainNext, MainAdd, Threads
<1>2. CASE SchedNext
  BY <1>2, WorkersSched, WorkersExecute, SchedThread, ThreadAssumption
  DEF SchedNext, AddOrExecute
<1>3. CASE \E w \in Workers : WorkerNext(w)
  <2>1. PICK w \in Workers : WorkerNext(w)
    BY <1>3
  <2>2. w \in Threads /\ w # Main
    BY ThreadAssumption DEF Threads
  <2> QED
    BY <2>1, <2>2, WorkersLoop, WorkersExecute DEF WorkerNext, AddOrExecute
<1>4. CASE (\E t \in Task : Expire(t)) \/ UNCHANGED vars
  <2>1. ActiveWorkers' = ActiveWorkers
    BY <1>4 DEF Expire, vars, ActiveWorkers
  <2> QED
    BY <1>4, <2>1, HubStays DEF Expire, vars, hubVars
<1> QED
  BY <1>1, <1>2, <1>3, <1>4 DEF Next, Terminating

\* For any number of workers: while the scheduler runs, the workers that will
\* look at the queue again and the wake-ups on their way are at least as many
\* as the tasks handed over, so no task is left to sleeping workers.
THEOREM WorkersWakeUp == Spec => []WorkersNotStranded
<1>1. Init => TypeInv /\ WorkersNotStranded
  <2>1. Init => WorkersNotStranded
    BY ActiveFinite DEF Init, WorkersNotStranded
  <2> QED
    BY <2>1, TypeInit
<1>2. TypeInv /\ WorkersNotStranded /\ [Next]_vars =>
            TypeInv' /\ WorkersNotStranded'
  BY TypeStep, WorkersStep
<1> QED
  BY <1>1, <1>2, PTL DEF Spec

=============================================================================
