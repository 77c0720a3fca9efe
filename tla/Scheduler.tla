------------------------------ MODULE Scheduler ------------------------------
(***************************************************************************)
(* The task scheduler of antd (lib/scheduler.c) as httpd.c uses it.        *)
(*                                                                         *)
(* The main thread accepts connections and adds one task per connection;   *)
(* the scheduler thread moves the tasks whose events are ready from the    *)
(* task queue (a search tree keyed by task id) to the workers' queue; the  *)
(* workers run them.  A handler returns NULL, which runs the next callback *)
(* of the task, or another task, which inherits the callbacks.  The last   *)
(* callback of every connection is finish_request, which closes it.        *)
(*                                                                         *)
(* One action is one critical section or one semaphore operation of one    *)
(* thread, with the local steps up to the next one.                        *)
(***************************************************************************)
EXTENDS Integers, Sequences, FiniteSets

CONSTANTS
    Workers,        \* worker threads; {} is the mode n_workers = 0
    Main, Sched,    \* the accepting thread and the scheduler thread
    Task,           \* heap cells for antd_task_t
    NoTask,         \* the NULL task pointer
    Socks,          \* client socket numbers; a request is named by its socket
    EventSets,      \* sets of event kinds that handlers bind to a task
    Detach,         \* TRUE: a plugin may destroy its request itself
    MaxAccepts,     \* bound: connections accepted in a behaviour
    MaxHops         \* bound: tasks the handlers of one connection create

Threads == Workers \cup {Main, Sched}

NoData == 0             \* the NULL data pointer
EventKinds == {"always", "timeout", "poll"}
Handles == {"work", "finish", "none"}

ASSUME ThreadAssumption ==
    /\ IsFiniteSet(Workers)
    /\ Main \notin Workers
    /\ Sched \notin Workers
    /\ Main # Sched

ASSUME DataAssumption ==
    /\ NoTask \notin Task
    /\ Socks \subseteq Nat \ {0}
    /\ EventSets \subseteq SUBSET EventKinds
    /\ Detach \in BOOLEAN
    /\ MaxAccepts \in Nat
    /\ MaxHops \in Nat

VARIABLES
    status,         \* scheduler->status
    taskQueue,      \* task_queue: partial function from task id to task
    idAllocator,    \* id_allocator
    pending,        \* pending_task
    schedSem,       \* value of scheduler_sem
    workersQueue,   \* workers_queue, first in first out
    workerSem,      \* value of worker_sem
    live,           \* allocated task cells
    task,           \* contents of the task cells
    open,           \* requests that are not destroyed (their socket is open)
    hops,           \* tasks created so far by the handlers of a connection
    accepts,        \* connections accepted so far
    pc,             \* where each thread is
    cur,            \* the task a thread executes and must still dispose of
    adding,         \* the task a thread is handing to antd_scheduler_add_task
    scheduled,      \* scheduled_list of antd_scheduler_wait
    polls           \* tasks with an event in poll_list

queueVars == <<taskQueue, idAllocator, pending, schedSem>>
hubVars == <<workersQueue, workerSem>>
heapVars == <<live, task>>
reqVars == <<open, hops, accepts>>
roundVars == <<scheduled, polls>>
vars == <<status, queueVars, hubVars, heapVars, reqVars, pc, cur, adding,
          roundVars>>

-----------------------------------------------------------------------------
(***************************************************************************)
(* The data.                                                               *)
(***************************************************************************)

\* antd_task_t: callback is the chain of callbacks; expired abstracts
\* access_time to what antd_scheduler_validate_data tells of it.
TaskRecord ==
    [id : Nat, data : Socks \cup {NoData}, handle : Handles,
     callback : Seq({"work", "finish"}), events : SUBSET EventKinds,
     expired : BOOLEAN]

\* What a free cell holds.
Blank == [id |-> 0, data |-> NoData, handle |-> "none", callback |-> <<>>,
          events |-> {}, expired |-> FALSE]

Queued == {taskQueue[i] : i \in DOMAIN taskQueue}

\* bst_insert replaces the data of a node with an equal key.
Inserted(q, i, t) ==
    [j \in DOMAIN q \cup {i} |-> IF j = i THEN t ELSE q[j]]

Removed(q, i) == [j \in DOMAIN q \ {i} |-> q[j]]

\* antd_scheduler_next_id: the id it returns for input i, as a singleton, ...
NextIds(i) ==
    IF i # 0 /\ i \notin DOMAIN taskQueue THEN {i}
    ELSE {k \in (idAllocator + 1) ..
                (idAllocator + 1 + Cardinality(DOMAIN taskQueue)) :
            /\ k \notin DOMAIN taskQueue
            /\ (idAllocator + 1) .. (k - 1) \subseteq DOMAIN taskQueue}

\* ... and the allocator it leaves.
AllocatorAfter(i, k) ==
    IF i # 0 /\ i \notin DOMAIN taskQueue THEN idAllocator ELSE k

Alloc(t, r) ==
    /\ live' = live \cup {t}
    /\ task' = [task EXCEPT ![t] = r]

\* destroy_task
DestroyTask(t) ==
    /\ live' = live \ {t}
    /\ task' = [task EXCEPT ![t] = Blank]

\* Where a thread goes on after adding or executing a task.
LoopHead(th) == CASE th = Main -> "accept"
                  [] th = Sched -> "deploy"
                  [] OTHER -> "check"

Goto(th, label) == pc' = [pc EXCEPT ![th] = label]

Init ==
    /\ status = TRUE
    /\ taskQueue = [i \in {} |-> NoTask]
    /\ idAllocator = 0
    /\ pending = 0
    /\ schedSem = 0
    /\ workersQueue = <<>>
    /\ workerSem = 0
    /\ live = {}
    /\ task = [t \in Task |-> Blank]
    /\ open = {}
    /\ hops = [d \in Socks |-> 0]
    /\ accepts = 0
    /\ pc = [th \in Threads |-> IF th = Main THEN "accept" ELSE "check"]
    /\ cur = [th \in Threads |-> NoTask]
    /\ adding = [th \in Threads |-> NoTask]
    /\ scheduled = {}
    /\ polls = {}

-----------------------------------------------------------------------------
(***************************************************************************)
(* antd_scheduler_add_task, by any thread.                                 *)
(***************************************************************************)

\* Where add_task starts for task record r: an id is needed only if it is 0.
AddLabel(id) == IF id = 0 THEN "getid" ELSE "insert"

AddGetId(th) ==
    /\ pc[th] = "getid"
    /\ \E k \in NextIds(0) :
        /\ task' = [task EXCEPT ![adding[th]].id = k]
        /\ idAllocator' = AllocatorAfter(0, k)
    /\ Goto(th, "insert")
    /\ UNCHANGED <<status, taskQueue, pending, schedSem, hubVars, live, reqVars,
                   cur, adding, roundVars>>

\* From here on the task belongs to the queue; if it was the very task the
\* thread executed (execute_callback), the thread has nothing to destroy.
AddInsert(th) ==
    /\ pc[th] = "insert"
    /\ taskQueue' = Inserted(taskQueue, task[adding[th]].id, adding[th])
    /\ adding' = [adding EXCEPT ![th] = NoTask]
    /\ cur' = [cur EXCEPT ![th] = IF @ = adding[th] THEN NoTask ELSE @]
    /\ Goto(th, "count")
    /\ UNCHANGED <<status, idAllocator, pending, schedSem, hubVars, heapVars,
                   reqVars, roundVars>>

AddCount(th) ==
    /\ pc[th] = "count"
    /\ pending' = pending + 1
    /\ Goto(th, "post")
    /\ UNCHANGED <<status, taskQueue, idAllocator, schedSem, hubVars, heapVars,
                   reqVars, cur, adding, roundVars>>

\* The post, and the destroy_task of the executed task that follows it.
AddPost(th) ==
    /\ pc[th] = "post"
    /\ schedSem' = schedSem + 1
    /\ IF cur[th] = NoTask THEN UNCHANGED heapVars ELSE DestroyTask(cur[th])
    /\ cur' = [cur EXCEPT ![th] = NoTask]
    /\ Goto(th, LoopHead(th))
    /\ UNCHANGED <<status, taskQueue, idAllocator, pending, hubVars, reqVars,
                   adding, roundVars>>

-----------------------------------------------------------------------------
(***************************************************************************)
(* antd_execute_task, by a worker, or by the scheduler if there is none.   *)
(***************************************************************************)

\* finish_request: it destroys the request unless the data is NULL.
ExecFinish(th) ==
    /\ pc[th] = "exec"
    /\ task[cur[th]].handle = "finish"
    /\ open' = open \ {task[cur[th]].data}
    /\ Goto(th, "returned")
    /\ UNCHANGED <<status, queueVars, hubVars, heapVars, hops, accepts, cur,
                   adding, roundVars>>

\* Any other handler that returns NULL.
ExecNull(th) ==
    /\ pc[th] = "exec"
    /\ task[cur[th]].handle = "work"
    /\ Goto(th, "returned")
    /\ UNCHANGED <<status, queueVars, hubVars, heapVars, reqVars, cur, adding,
                   roundVars>>

\* A handler that returns a new task on its data: antd_create_task asks
\* antd_task_data_id for the id while the executed task is in no queue.
ExecTask(th) ==
    LET d == task[cur[th]].data IN
    /\ pc[th] = "exec"
    /\ task[cur[th]].handle = "work"
    /\ d # NoData
    /\ hops[d] < MaxHops
    /\ \E t \in Task \ live, h \in {"work", "none"}, c \in {<<>>, <<"work">>},
          e \in EventSets, k \in NextIds(d) :
        /\ Alloc(t, [id |-> k, data |-> d, handle |-> h, callback |-> c,
                     events |-> e, expired |-> FALSE])
        /\ adding' = [adding EXCEPT ![th] = t]
        /\ idAllocator' = AllocatorAfter(d, k)
    /\ hops' = [hops EXCEPT ![d] = @ + 1]
    /\ Goto(th, "returned")
    /\ UNCHANGED <<status, taskQueue, pending, schedSem, hubVars, open, accepts,
                   cur, roundVars>>

\* A plugin that destroys its request and returns an empty task with no data,
\* as the comment of destroy_request asks (lib/handle.c).
ExecDetach(th) ==
    LET d == task[cur[th]].data IN
    /\ Detach
    /\ pc[th] = "exec"
    /\ task[cur[th]].handle = "work"
    /\ task[cur[th]].callback = <<"finish">>
    /\ d # NoData
    /\ \E t \in Task \ live :
        /\ Alloc(t, Blank)
        /\ adding' = [adding EXCEPT ![th] = t]
    /\ open' = open \ {d}
    /\ Goto(th, "returned")
    /\ UNCHANGED <<status, queueVars, hubVars, hops, accepts, cur, roundVars>>

\* The handler returned NULL and the task has a callback (execute_callback):
\* it becomes the handle and the same task is added again, with its old events.
ReturnCallback(th) ==
    LET t == cur[th] IN
    /\ pc[th] = "returned"
    /\ adding[th] = NoTask
    /\ task[t].callback # <<>>
    /\ task' = [task EXCEPT ![t].handle = Head(task[t].callback),
                            ![t].callback = Tail(task[t].callback)]
    /\ adding' = [adding EXCEPT ![th] = t]
    /\ Goto(th, AddLabel(task[t].id))
    /\ UNCHANGED <<status, queueVars, hubVars, live, reqVars, cur, roundVars>>

\* The handler returned NULL and no callback is left: the task is destroyed.
ReturnDone(th) ==
    /\ pc[th] = "returned"
    /\ adding[th] = NoTask
    /\ task[cur[th]].callback = <<>>
    /\ DestroyTask(cur[th])
    /\ cur' = [cur EXCEPT ![th] = NoTask]
    /\ Goto(th, LoopHead(th))
    /\ UNCHANGED <<status, queueVars, hubVars, reqVars, adding, roundVars>>

\* Mutants: enqueue_callback forgotten; the two lists joined the other way.
ChainLost(t, r) ==
    IF task[r].callback # <<>> THEN task[r].callback ELSE task[t].callback
ChainSwapped(t, r) == task[t].callback \o task[r].callback

\* The callbacks of the executed task go to the end of those of the task the
\* handler returned; if that one has no handle its first callback becomes it.
\* (Without a handle and a callback both tasks would be destroyed; here every
\* chain ends with finish_request, which OneFinisher states.)
Chain(t, r) == task[r].callback \o task[t].callback

ReturnTask(th) ==
    LET t == cur[th]
        r == adding[th]
        first == task[r].handle = "none" IN
    /\ pc[th] = "returned"
    /\ r # NoTask
    /\ first => Chain(t, r) # <<>>
    /\ task' = [task EXCEPT
                    ![t].callback = <<>>,
                    ![r].callback = IF first THEN Tail(Chain(t, r))
                                             ELSE Chain(t, r),
                    ![r].handle = IF first THEN Head(Chain(t, r)) ELSE @]
    /\ Goto(th, AddLabel(task[r].id))
    /\ UNCHANGED <<status, queueVars, hubVars, live, reqVars, cur, adding,
                   roundVars>>

AddOrExecute(th) ==
    \/ AddGetId(th)       \/ AddInsert(th)   \/ AddCount(th)  \/ AddPost(th)
    \/ ExecFinish(th)     \/ ExecNull(th)    \/ ExecTask(th)  \/ ExecDetach(th)
    \/ ReturnCallback(th) \/ ReturnDone(th)  \/ ReturnTask(th)

-----------------------------------------------------------------------------
(***************************************************************************)
(* work: the loop of a worker thread.                                      *)
(***************************************************************************)

WorkerCheck(w) ==
    /\ pc[w] = "check"
    /\ Goto(w, IF status THEN "dequeue" ELSE "exited")
    /\ UNCHANGED <<status, queueVars, hubVars, heapVars, reqVars, cur, adding,
                   roundVars>>

WorkerDequeue(w) ==
    /\ pc[w] = "dequeue"
    /\ workersQueue # <<>>
    /\ workersQueue' = Tail(workersQueue)
    /\ cur' = [cur EXCEPT ![w] = Head(workersQueue)]
    /\ Goto(w, "exec")
    /\ UNCHANGED <<status, queueVars, workerSem, heapVars, reqVars, adding,
                   roundVars>>

WorkerNone(w) ==
    /\ pc[w] = "dequeue"
    /\ workersQueue = <<>>
    /\ Goto(w, "wait")
    /\ UNCHANGED <<status, queueVars, hubVars, heapVars, reqVars, cur, adding,
                   roundVars>>

\* Mutant: a wake-up that does not wait for the semaphore.
WorkerWakeAnyway(w) ==
    /\ pc[w] = "wait"
    /\ workerSem' = workerSem - 1
    /\ Goto(w, "check")
    /\ UNCHANGED <<status, queueVars, workersQueue, heapVars, reqVars, cur,
                   adding, roundVars>>

WorkerWake(w) ==
    /\ pc[w] = "wait"
    /\ workerSem > 0
    /\ workerSem' = workerSem - 1
    /\ Goto(w, "check")
    /\ UNCHANGED <<status, queueVars, workersQueue, heapVars, reqVars, cur,
                   adding, roundVars>>

WorkerNext(w) ==
    \/ WorkerCheck(w) \/ WorkerDequeue(w) \/ WorkerNone(w) \/ WorkerWake(w)
    \/ AddOrExecute(w)

-----------------------------------------------------------------------------
(***************************************************************************)
(* antd_scheduler_wait: the loop of the scheduler thread.                  *)
(***************************************************************************)

SchedCheck ==
    /\ pc[Sched] = "check"
    /\ Goto(Sched, IF status THEN "collect" ELSE "exited")
    /\ UNCHANGED <<status, queueVars, hubVars, heapVars, reqVars, cur, adding,
                   roundVars>>

\* task_event_collect on every task of the queue, under the lock.  fired is
\* the set of tasks one of whose timeouts has elapsed.
IsReady(t, fired) ==
    \/ task[t].events = {}
    \/ task[t].expired
    \/ "always" \in task[t].events
    \/ t \in fired

SchedCollect ==
    /\ pc[Sched] = "collect"
    /\ \E fired \in SUBSET {t \in Queued : "timeout" \in task[t].events} :
        scheduled' = {t \in Queued : IsReady(t, fired)}
    /\ polls' = {t \in Queued : "poll" \in task[t].events /\ ~task[t].expired}
    /\ Goto(Sched, IF polls' = {} THEN "deploy" ELSE "poll")
    /\ UNCHANGED <<status, queueVars, hubVars, heapVars, reqVars, cur, adding>>

\* Mutant: a failed poll takes the handle but leaves the access time.
SchedPollKeepsTime ==
    /\ pc[Sched] = "poll"
    /\ \E failed \in SUBSET polls :
        /\ scheduled' = scheduled \cup failed
        /\ task' = [t \in Task |-> IF t \in failed
                                  THEN [task[t] EXCEPT !.handle = "none"]
                                  ELSE task[t]]
    /\ polls' = {}
    /\ Goto(Sched, "deploy")
    /\ UNCHANGED <<status, queueVars, hubVars, live, reqVars, cur, adding>>

\* poll: a task is ready (if its id is still in the queue), or its descriptor
\* has an error or was hung up, which makes it invalid and takes its handle.
SchedPoll ==
    /\ pc[Sched] = "poll"
    /\ \E failed \in SUBSET polls :
       \E ready \in SUBSET (polls \ failed) :
        /\ scheduled' = scheduled \cup failed \cup
                {t \in ready : task[t].id \in DOMAIN taskQueue}
        /\ task' = [t \in Task |->
                        IF t \in failed
                        THEN [task[t] EXCEPT !.expired = TRUE,
                                             !.handle = "none"]
                        ELSE task[t]]
    /\ polls' = {}
    /\ Goto(Sched, "deploy")
    /\ UNCHANGED <<status, queueVars, hubVars, live, reqVars, cur, adding>>

\* Mutant: the deployed task stays in the queue.
SchedDeployKeeps ==
    /\ pc[Sched] = "deploy"
    /\ \E t \in scheduled :
        /\ cur' = [cur EXCEPT ![Sched] = t]
        /\ scheduled' = scheduled \ {t}
    /\ Goto(Sched, "uncount")
    /\ UNCHANGED <<status, queueVars, hubVars, heapVars, reqVars, adding, polls>>

\* antd_deploy_task, in the order of the ids: the task leaves the queue ...
SchedDeploy ==
    /\ pc[Sched] = "deploy"
    /\ \E t \in scheduled :
        /\ \A s \in scheduled : task[t].id <= task[s].id
        /\ taskQueue' = Removed(taskQueue, task[t].id)
        /\ cur' = [cur EXCEPT ![Sched] = t]
        /\ scheduled' = scheduled \ {t}
    /\ Goto(Sched, "uncount")
    /\ UNCHANGED <<status, idAllocator, pending, schedSem, hubVars, heapVars,
                   reqVars, adding, polls>>

\* Mutant: a task that is not valid any more is not counted off.
SchedUncountValid ==
    /\ pc[Sched] = "uncount"
    /\ pending' = pending - (IF task[cur[Sched]].expired THEN 0 ELSE 1)
    /\ Goto(Sched, "route")
    /\ UNCHANGED <<status, taskQueue, idAllocator, schedSem, hubVars, heapVars,
                   reqVars, cur, adding, roundVars>>

\* ... antd_task_schedule counts it off ...
SchedUncount ==
    /\ pc[Sched] = "uncount"
    /\ pending' = pending - 1
    /\ Goto(Sched, "route")
    /\ UNCHANGED <<status, taskQueue, idAllocator, schedSem, hubVars, heapVars,
                   reqVars, cur, adding, roundVars>>

\* ... and kills it with its request if it is not valid any more, ...
SchedKill ==
    LET t == cur[Sched] IN
    /\ pc[Sched] = "route"
    /\ task[t].expired
    /\ open' = open \ {task[t].data}
    /\ DestroyTask(t)
    /\ cur' = [cur EXCEPT ![Sched] = NoTask]
    /\ Goto(Sched, "deploy")
    /\ UNCHANGED <<status, queueVars, hubVars, hops, accepts, adding, roundVars>>

\* ... or gives it to the workers, or executes it if there is no worker.
SchedRoute ==
    LET t == cur[Sched] IN
    /\ pc[Sched] = "route"
    /\ ~task[t].expired
    /\ IF Workers = {}
       THEN /\ Goto(Sched, "exec")
            /\ UNCHANGED <<workersQueue, cur>>
       ELSE /\ workersQueue' = Append(workersQueue, t)
            /\ cur' = [cur EXCEPT ![Sched] = NoTask]
            /\ Goto(Sched, "wpost")
    /\ UNCHANGED <<status, queueVars, workerSem, heapVars, reqVars, adding,
                   roundVars>>

\* Mutant: no wake-up is posted while an earlier one is still unused.
SchedPostOnce ==
    /\ pc[Sched] = "wpost"
    /\ workerSem' = IF workerSem = 0 THEN 1 ELSE workerSem
    /\ Goto(Sched, "deploy")
    /\ UNCHANGED <<status, queueVars, workersQueue, heapVars, reqVars, cur,
                   adding, roundVars>>
\* Mutant: no wake-up at all.
SchedPostNever ==
    /\ pc[Sched] = "wpost"
    /\ Goto(Sched, "deploy")
    /\ UNCHANGED <<status, queueVars, hubVars, heapVars, reqVars, cur, adding,
                   roundVars>>

SchedPostWorkers ==
    /\ pc[Sched] = "wpost"
    /\ workerSem' = workerSem + 1
    /\ Goto(Sched, "deploy")
    /\ UNCHANGED <<status, queueVars, workersQueue, heapVars, reqVars, cur,
                   adding, roundVars>>

\* Mutant: the scheduler sleeps after every round.
SchedIdleAlways ==
    /\ pc[Sched] = "deploy"
    /\ scheduled = {}
    /\ Goto(Sched, "wait")
    /\ UNCHANGED <<status, queueVars, hubVars, heapVars, reqVars, cur, adding,
                   roundVars>>

\* Nothing left to deploy: the queue is read without the lock.
SchedIdle ==
    /\ pc[Sched] = "deploy"
    /\ scheduled = {}
    /\ Goto(Sched, IF DOMAIN taskQueue = {} THEN "wait" ELSE "check")
    /\ UNCHANGED <<status, queueVars, hubVars, heapVars, reqVars, cur, adding,
                   roundVars>>

SchedWake ==
    /\ pc[Sched] = "wait"
    /\ schedSem > 0
    /\ schedSem' = schedSem - 1
    /\ Goto(Sched, "check")
    /\ UNCHANGED <<status, taskQueue, idAllocator, pending, hubVars, heapVars,
                   reqVars, cur, adding, roundVars>>

SchedNext ==
    \/ SchedCheck \/ SchedCollect \/ SchedPoll \/ SchedDeploy \/ SchedUncount
    \/ SchedKill \/ SchedRoute \/ SchedPostWorkers \/ SchedIdle \/ SchedWake
    \/ AddOrExecute(Sched)

-----------------------------------------------------------------------------
(***************************************************************************)
(* The main thread: antd_monitor and stop_serve (httpd.c).                 *)
(***************************************************************************)

\* accept gives a descriptor that is not in use; the task waits for the socket.
Accept ==
    /\ pc[Main] = "accept"
    /\ status
    /\ accepts < MaxAccepts
    /\ accepts' = accepts + 1
    /\ \E d \in Socks \ open, t \in Task \ live : \E k \in NextIds(d) :
        /\ open' = open \cup {d}
        /\ hops' = [hops EXCEPT ![d] = 0]
        /\ Alloc(t, [id |-> k, data |-> d, handle |-> "work",
                     callback |-> <<"finish">>, events |-> {"poll"},
                     expired |-> FALSE])
        /\ adding' = [adding EXCEPT ![Main] = t]
        /\ idAllocator' = AllocatorAfter(d, k)
    /\ Goto(Main, "insert")
    /\ UNCHANGED <<status, taskQueue, pending, schedSem, hubVars, cur, roundVars>>

\* stop, up to the joins: the status is cleared before anybody is woken up.
StopBegin ==
    /\ pc[Main] = "accept"
    /\ status' = FALSE
    /\ Goto(Main, "stopping")
    /\ UNCHANGED <<queueVars, hubVars, heapVars, reqVars, cur, adding, roundVars>>

\* Mutant: one wake-up for all the workers.
StopPostOne ==
    /\ pc[Main] = "stopping"
    /\ workerSem' = workerSem + 1
    /\ schedSem' = schedSem + 1
    /\ Goto(Main, "joining")
    /\ UNCHANGED <<status, taskQueue, idAllocator, pending, workersQueue,
                   heapVars, reqVars, cur, adding, roundVars>>

StopPost ==
    /\ pc[Main] = "stopping"
    /\ workerSem' = workerSem + Cardinality(Workers)
    /\ schedSem' = schedSem + 1
    /\ Goto(Main, "joining")
    /\ UNCHANGED <<status, taskQueue, idAllocator, pending, workersQueue,
                   heapVars, reqVars, cur, adding, roundVars>>

\* pthread_join on every worker; the scheduler thread is detached.
StopJoin ==
    /\ pc[Main] = "joining"
    /\ \A w \in Workers : pc[w] = "exited"
    /\ Goto(Main, "joined")
    /\ UNCHANGED <<status, queueVars, hubVars, heapVars, reqVars, cur, adding,
                   roundVars>>

MainAdd == AddInsert(Main) \/ AddCount(Main) \/ AddPost(Main)

MainNext == Accept \/ StopBegin \/ StopPost \/ StopJoin \/ MainAdd

\* Time passes: a task becomes too old.  Only the scheduler thread looks at
\* the access time, and only at tasks that are in the queue or that it has just
\* taken out.  (A task without data is destroyed through a NULL request:
\* the model leaves that crash out.)
Expire(t) ==
    /\ t \in Queued \/ (pc[Sched] \in {"uncount", "route"} /\ cur[Sched] = t)
    /\ task[t].data # NoData
    /\ ~task[t].expired
    /\ task' = [task EXCEPT ![t].expired = TRUE]
    /\ UNCHANGED <<status, queueVars, hubVars, live, reqVars, pc, cur, adding,
                   roundVars>>

\* A stopped process: nothing is left to do once the workers are joined and
\* the scheduler thread has left its loop.
Terminating ==
    /\ pc[Main] = "joined"
    /\ pc[Sched] = "exited"
    /\ UNCHANGED vars

Next ==
    \/ MainNext
    \/ SchedNext
    \/ \E w \in Workers : WorkerNext(w)
    \/ \E t \in Task : Expire(t)
    \/ Terminating

Spec == Init /\ [][Next]_vars

\* Threads run, handlers return, and every queued task grows old; nobody has to
\* connect and nobody has to stop the server.
Fairness ==
    /\ \A w \in Workers : WF_vars(WorkerNext(w))
    /\ WF_vars(SchedNext)
    /\ WF_vars(MainAdd \/ StopPost \/ StopJoin)
    /\ \A t \in Task : WF_vars(Expire(t))

FairSpec == Spec /\ Fairness

-----------------------------------------------------------------------------
(***************************************************************************)
(* Properties.                                                             *)
(***************************************************************************)

WorkerLabels == {"check", "dequeue", "wait", "exited"}
SchedLabels == {"check", "collect", "poll", "deploy", "uncount", "route",
                "wpost", "wait", "exited"}
MainLabels == {"accept", "stopping", "joining", "joined"}
AddLabels == {"getid", "insert", "count", "post"}
ExecLabels == {"exec", "returned"}

Labels(th) ==
    AddLabels \cup
    (CASE th = Main -> MainLabels
       [] th = Sched -> SchedLabels \cup ExecLabels
       [] OTHER -> WorkerLabels \cup ExecLabels)

\* Every variable has its type: the counters of the semaphores never go below
\* zero, every pointer is to a cell or NULL, every thread is at one of its
\* own labels.
TypeOK ==
    /\ status \in BOOLEAN
    /\ DOMAIN taskQueue \subseteq Nat
    /\ taskQueue \in [DOMAIN taskQueue -> Task]
    /\ idAllocator \in Nat
    /\ pending \in Int
    /\ schedSem \in Nat
    /\ workersQueue \in Seq(Task)
    /\ workerSem \in Nat
    /\ live \subseteq Task
    /\ task \in [Task -> TaskRecord]
    /\ open \subseteq Socks
    /\ hops \in [Socks -> Nat]
    /\ accepts \in Nat
    /\ pc \in [Threads -> UNION {Labels(th) : th \in Threads}]
    /\ \A th \in Threads : pc[th] \in Labels(th)
    /\ cur \in [Threads -> Task \cup {NoTask}]
    /\ adding \in [Threads -> Task \cup {NoTask}]
    /\ scheduled \subseteq Task
    /\ polls \subseteq Task

\* The workers' queue never strands a task: as long as the scheduler runs, the
\* workers that will look at the queue again of their own accord, the wake-ups
\* already posted and the one the scheduler is about to post are together at
\* least as many as the tasks in the queue (work, antd_task_schedule).
ActiveWorkers == {w \in Workers : pc[w] \notin {"wait", "exited"}}

WorkersNotStranded ==
    status => Len(workersQueue) <= workerSem + Cardinality(ActiveWorkers)
                                   + (IF pc[Sched] = "wpost" THEN 1 ELSE 0)

\* The scheduler never sleeps on a task: when it waits on its semaphore, the
\* task queue is empty, or a wake-up is posted, or a thread that inserted a
\* task has not posted yet (antd_scheduler_wait reads task_queue unlocked).
SchedNotStranded ==
    pc[Sched] = "wait" =>
        \/ Queued = {}
        \/ schedSem > 0
        \/ \E th \in Threads \ {Sched} : pc[th] \in {"count", "post"}

\* pending_task, which antd_scheduler_busy and the statistics report, is the
\* number of queued tasks but for the insertions not yet counted and the
\* deletion not yet counted off; it is exact when nobody is in between.
PendingExact ==
    pending = Cardinality(DOMAIN taskQueue)
              - Cardinality({th \in Threads : pc[th] = "count"})
              + (IF pc[Sched] = "uncount" THEN 1 ELSE 0)

\* Where a task can be: in the queue, in the workers' queue, or in the hands
\* of one thread.
HandedOver == {workersQueue[n] : n \in DOMAIN workersQueue}
InHandsOf(th) == {cur[th], adding[th]} \ {NoTask}

\* No task is lost and none is held twice: the allocated tasks are exactly
\* those that are queued under their own id, handed over once, or in the hands
\* of one thread (a leak, a double execution and a double free break it).
EachTaskInOnePlace ==
    /\ live = Queued \cup HandedOver \cup UNION {InHandsOf(th) : th \in Threads}
    /\ Queued \cap HandedOver = {}
    /\ \A th \in Threads :
        /\ InHandsOf(th) \cap (Queued \cup HandedOver) = {}
        /\ \A o \in Threads \ {th} : InHandsOf(th) \cap InHandsOf(o) = {}
    /\ \A i \in DOMAIN taskQueue : task[taskQueue[i]].id = i
    /\ Cardinality(HandedOver) = Len(workersQueue)

\* A task whose request still has to be finished by it: finish_request is its
\* handle or one of its callbacks and has not been called, or the task lost its
\* handle to a failed poll and goes to antd_scheduler_destroy_data.
Called(t) ==
    /\ task[t].handle = "finish"
    /\ \E th \in Threads : pc[th] = "returned" /\ cur[th] = t
WillFinish(t) ==
    \/ task[t].handle = "finish" /\ ~Called(t)
    \/ \E n \in DOMAIN task[t].callback : task[t].callback[n] = "finish"
    \/ task[t].handle = "none" /\ task[t].expired

\* Every open connection has exactly one task that will finish it, wherever
\* its handlers spliced the callbacks, and a closed one has none: no request
\* is left behind and none is destroyed twice.
OneFinisher ==
    \A d \in Socks :
        LET f == {t \in live : task[t].data = d /\ WillFinish(t)} IN
        /\ d \in open => \E t \in f : f = {t}
        /\ d \notin open => f = {}

\* A handler that is called is a real one and its request still exists: the
\* NULL handle that a failed poll leaves is never called.
CallsAreSafe ==
    \A th \in Threads : pc[th] = "exec" =>
        /\ task[cur[th]].handle # "none"
        /\ task[cur[th]].data \in open \cup {NoData}

\* antd_scheduler_add_task never displaces another task: the id that
\* antd_scheduler_next_id gave is still free when the task is inserted.
NoDisplacement ==
    [][\A i \in DOMAIN taskQueue \cap DOMAIN taskQueue' :
            taskQueue'[i] = taskQueue[i]]_vars

\* The scheduler as a service of requests: who runs a handler on a request.
Runners == [d \in Socks |->
                {th \in Threads : pc[th] = "exec" /\ task[cur[th]].data = d}]

Service == INSTANCE RequestService WITH runners <- Runners

\* Whatever the threads do, the handlers of one request run one at a time on
\* a request that exists, and it is destroyed once, never under a handler.
ServesRequests == Service!Spec

\* Every connection is closed in the end, by finish_request or because its
\* task grew too old, unless the server is stopped.
EveryRequestEnds == \A d \in Socks : d \in open ~> (d \notin open \/ ~status)

\* Stopping never hangs: every worker leaves its loop, idle or busy, and the
\* joins return; the scheduler thread leaves its loop too.
StopCompletes == ~status ~> (pc[Main] = "joined" /\ pc[Sched] = "exited")

=============================================================================
