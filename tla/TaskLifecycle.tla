--------------------------- MODULE TaskLifecycle ---------------------------
(***************************************************************************)
(* The life of a task, from POST /tasks to its end.                        *)
(*                                                                         *)
(* TaskContext objects are mutable and shared without a lock: the thread   *)
(* of scheduler/decision_loop.py ticks every stored task once a second,    *)
(* while the HTTP worker threads create, replace and terminate tasks.  The *)
(* store maps a task id to an object; two objects may carry the same id    *)
(* (preplan, then execute) and update_task puts back whichever object its  *)
(* caller holds.                                                           *)
(*                                                                         *)
(* A handler is cut where another thread can change what it goes on to     *)
(* use: after a status check, around a planner or HTTP call, and between   *)
(* the write of task.status and the writes of the fields that go with it.  *)
(***************************************************************************)
EXTENDS Naturals

CONSTANTS
  TaskId,      \* task ids used by the clients
  Requests,    \* bodies of POST /tasks that clients may send
  MaxTasks,    \* bound: number of TaskContext objects ever built
  Loops,       \* threads running DecisionLoop._run
  Workers      \* threads of the HTTP server's pool

NoTask  == 0
Objects == 1 .. MaxTasks
Threads == Loops \cup Workers

\* "tracking" stands for escort, intercept and expel, which share a life cycle.
Kind   == {"preplan", "patrol", "tracking", "underwater_search", "fixed_tracking"}
Status == {"created", "running", "waiting_target", "completed", "terminated"}
Reason == {"none", "manual_terminated", "timeout", "out_of_region", "sonar_unmatched"}
Phase  == {"planning", "patrolling", "engaging", "standby_monitoring", "completed"}
Keep   == "keep"     \* the handler leaves finish_reason as it is

Request == [id : TaskId, kind : Kind,
            designated : BOOLEAN,   \* target_info.target_batch_no >= 0
            optical : BOOLEAN,      \* linkage_param.enable_optical
            timed : BOOLEAN,        \* end_condition.duration_sec is set
            manual : BOOLEAN]       \* end_condition.manual_terminate_allowed

ASSUME TaskLifecycleAssumption ==
  /\ MaxTasks \in Nat
  /\ Requests \subseteq Request /\ Requests # {}

TaskContext == [req : Requests, status : Status, reason : Reason, phase : Phase,
                plan : Nat,         \* version of preplan_output, 0 for None
                route : Nat,        \* version copied to confirmed_preplan_route
                entered : BOOLEAN,  \* has_entered_task_area: own ship was inside, or
                                    \* a fixed tracking has seen a target
                expired : BOOLEAN]  \* now - start_time >= duration_sec

\* What a handler is about to write, and where it goes on afterwards.
Outcome == [status : Status \ {"created"}, reason : Reason \cup {Keep}, phase : Phase,
            hit : BOOLEAN, then : {"collab", "endCond", "finish", "onFinished"}]

Label == {"idle", "copy", "snapshot", "replace", "store", "update",
          "tick", "preplan", "compute", "patrol", "select", "status", "fields", "collab",
          "dispatch", "arrive", "open", "media", "sonar", "endCond", "finish",
          "onFinished", "return"}

VARIABLES
  store,     \* task_store._tasks: task id -> object
  tasks,     \* the TaskContext objects built so far
  built,     \* how many there are
  pc,        \* what each thread does next
  cur,       \* the object each thread holds
  fresh,     \* the object a creating thread is about to store
  todo,      \* the snapshot of get_all_tasks a thread is walking through
  outcome,   \* the pending writes of each thread
  back,      \* where each thread goes after on_task_finished
  finished,  \* history: objects handed to on_task_finished since their last end
  chosen     \* history: objects whose phase an operator's feedback wrote last

locals == <<cur, fresh, todo, outcome, back>>
history == <<finished, chosen>>
vars == <<store, tasks, built, pc, locals, history>>

Live  == {"running", "waiting_target"}
Final == {"completed", "terminated"}

Active(o) == tasks[o].status \in Live
Ended(o)  == tasks[o].status \in Final
Stored    == {store[i] : i \in TaskId} \ {NoTask}

\* task_store.update_task: the object replaces whatever is stored under its id.
Put(o) == [store EXCEPT ![tasks[o].req.id] = o]

Goto(t, label) == pc' = [pc EXCEPT ![t] = label]

-----------------------------------------------------------------------------
(* The writes the handlers end with. *)

\* tracking_service, underwater_search_service, fixed_tracking_service: target found.
Engage == [status |-> "running", reason |-> Keep, phase |-> "engaging",
           hit |-> TRUE, then |-> "collab"]

\* The same handlers without ownship or without a selected target.
AwaitTarget(kind) ==
  [status |-> "waiting_target", reason |-> Keep, hit |-> FALSE, then |-> "collab",
   phase |-> IF kind = "fixed_tracking" THEN "standby_monitoring" ELSE "patrolling"]

\* mutant: the phase is forgotten
CompleteEngaging(reason, then) ==
  [status |-> "completed", reason |-> reason, phase |-> "engaging",
   hit |-> FALSE, then |-> then]

Complete(reason, then) ==
  [status |-> "completed", reason |-> reason, phase |-> "completed",
   hit |-> FALSE, then |-> then]

\* terminate_task and _terminate_task_for_replacement; on_task_finished follows.
Terminate == [status |-> "terminated", reason |-> "manual_terminated",
              phase |-> "completed", hit |-> FALSE, then |-> "onFinished"]

Write(t, o, w) ==
  /\ cur' = [cur EXCEPT ![t] = o]
  /\ outcome' = [outcome EXCEPT ![t] = w]
  /\ Goto(t, "status")

\* First assignment of every such handler: task.status.
WriteStatus(t) ==
  /\ pc[t] = "status"
  /\ tasks' = [tasks EXCEPT ![cur[t]].status = outcome[t].status]
  /\ finished' = finished \ {cur[t]}
  /\ Goto(t, "fields")
  /\ UNCHANGED <<store, built, locals, chosen>>

\* The other fields, then task_store.update_task(task).
WriteFields(t) ==
  LET o == cur[t]  w == outcome[t]  IN
  /\ pc[t] = "fields"
  /\ tasks' = [tasks EXCEPT ![o].reason = IF w.reason = Keep THEN @ ELSE w.reason,
                            ![o].phase = w.phase,
                            ![o].entered =
                               @ \/ (w.hit /\ tasks[o].req.kind = "fixed_tracking")]
  /\ store' = Put(o)
  /\ chosen' = chosen \ {o}
  /\ Goto(t, w.then)
  /\ UNCHANGED <<built, locals, finished>>

-----------------------------------------------------------------------------
(* tick_task and what it calls. *)

\* Which refresh_result runs: those of patrol and underwater search, and of
\* tracking without a designated batch number, begin with patrol_service's.
FirstStep(r) ==
  CASE r.kind = "preplan" -> "preplan"
    [] r.kind \in {"patrol", "underwater_search"} -> "patrol"
    [] r.kind = "tracking" -> IF r.designated THEN "select" ELSE "patrol"
    [] r.kind = "fixed_tracking" -> "select"

\* mutant: the status is not checked
StartTickUnchecked(t, i) ==
  LET o == store[i] IN
  IF o # NoTask
  THEN cur' = [cur EXCEPT ![t] = o] /\ Goto(t, FirstStep(tasks[o].req))
  ELSE cur' = cur /\ Goto(t, "return")

\* tick_task(i): the object stored under the id, unless it has ended.
StartTick(t, i) ==
  LET o == store[i] IN
  IF o # NoTask /\ Active(o)
  THEN cur' = [cur EXCEPT ![t] = o] /\ Goto(t, FirstStep(tasks[o].req))
  ELSE cur' = cur /\ Goto(t, "return")

\* The decision loop takes a snapshot of the stored tasks ...
LoopPass(t) ==
  /\ t \in Loops /\ pc[t] = "idle" /\ todo[t] = {}
  /\ todo' = [todo EXCEPT ![t] = Stored]
  /\ UNCHANGED <<store, tasks, built, pc, cur, fresh, outcome, back, history>>

\* ... and ticks them one by one, by id.
LoopTick(t) ==
  /\ t \in Loops /\ pc[t] = "idle"
  /\ \E o \in todo[t] :
       /\ todo' = [todo EXCEPT ![t] = @ \ {o}]
       /\ StartTick(t, tasks[o].req.id)
  /\ UNCHANGED <<store, tasks, built, fresh, outcome, back, history>>

\* create_task ticks the new task in the HTTP thread.
CreateTick(t) ==
  /\ pc[t] = "tick"
  /\ StartTick(t, tasks[fresh[t]].req.id)
  /\ UNCHANGED <<store, tasks, built, fresh, todo, outcome, back, history>>

\* preplan_service: an existing result is kept and closes the task ...
RefreshPreplan(t) ==
  /\ pc[t] = "preplan"
  /\ IF tasks[cur[t]].plan # 0
     THEN Write(t, cur[t], Complete(Keep, "collab"))
     ELSE Goto(t, "compute") /\ UNCHANGED <<cur, outcome>>
  /\ UNCHANGED <<store, tasks, built, fresh, todo, back, history>>

\* mutant: the first result does not close the task
ComputePreplanOpen(t) ==
  /\ pc[t] = "compute"
  /\ tasks' = [tasks EXCEPT ![cur[t]].plan = @ + 1]
  /\ Goto(t, "collab")
  /\ UNCHANGED <<store, built, locals, history>>

\* ... otherwise the planner runs, and its route is stored when it returns.
ComputePreplan(t) ==
  /\ pc[t] = "compute"
  /\ tasks' = [tasks EXCEPT ![cur[t]].plan = @ + 1]
  /\ Write(t, cur[t], Complete(Keep, "collab"))
  /\ UNCHANGED <<store, built, fresh, todo, back, history>>

\* mutant: the patrol refresh marks the task running
RefreshPatrolRunning(t) ==
  LET o == cur[t] IN
  /\ pc[t] = "patrol"
  /\ tasks' = [tasks EXCEPT ![o].phase = "patrolling", ![o].status = "running"]
  /\ store' = Put(o)
  /\ Goto(t, IF tasks[o].req.kind = "patrol" THEN "collab" ELSE "select")
  /\ chosen' = chosen \ {o}
  /\ UNCHANGED <<built, locals, finished>>

\* patrol_service: phase and patrol plan; it never writes task.status.
RefreshPatrol(t) ==
  LET o == cur[t] IN
  /\ pc[t] = "patrol"
  /\ tasks' = [tasks EXCEPT ![o].phase = "patrolling"]
  /\ store' = Put(o)
  /\ Goto(t, IF tasks[o].req.kind = "patrol" THEN "collab" ELSE "select")
  /\ chosen' = chosen \ {o}
  /\ UNCHANGED <<built, locals, finished>>

\* filter_and_select_target on the picture of this moment: ownship may be
\* unknown, and there may be no target that passes.
SelectTarget(t) ==
  /\ pc[t] = "select"
  /\ \E found \in BOOLEAN :
       Write(t, cur[t], IF found THEN Engage ELSE AwaitTarget(tasks[cur[t]].req.kind))
  /\ UNCHANGED <<store, tasks, built, fresh, todo, back, history>>

\* The handle_*_collaboration of the task type begins with the requests to the
\* operator (tracking) and the reports of stage and plan, which store the object
\* again when they were due. A preplan has no more.
Report(t) ==
  LET o == cur[t] IN
  /\ pc[t] = "collab"
  /\ store' \in {store, Put(o)}
  /\ Goto(t, IF tasks[o].req.kind = "preplan" THEN "endCond" ELSE "dispatch")
  /\ UNCHANGED <<tasks, built, locals, history>>

\* dispatch_autonomy_if_changed, whose result is stored whatever the answer was.
\* A task that has just found its target goes on to the linkage or the sonar.
DispatchAutonomy(t) ==
  LET o == cur[t] IN
  /\ pc[t] = "dispatch"
  /\ store' \in {store, Put(o)}
  /\ Goto(t, CASE outcome[t].hit /\ tasks[o].req.kind = "tracking" -> "arrive"
               [] outcome[t].hit /\ tasks[o].req.kind = "underwater_search" -> "sonar"
               [] OTHER -> "endCond")
  /\ UNCHANGED <<tasks, built, locals, history>>

\* _check_arrival, for a task that is still running and has linkage: own ship
\* may have stayed within the tolerance for enough ticks.
CheckArrival(t) ==
  LET o == cur[t] IN
  /\ pc[t] = "arrive"
  /\ IF tasks[o].status = "running" /\ tasks[o].req.optical
     THEN store' = Put(o) /\ \E label \in {"open", "endCond"} : Goto(t, label)
     ELSE store' = store /\ Goto(t, "endCond")
  /\ UNCHANGED <<tasks, built, locals, history>>

\* The command that opens the optics, then the media: each stores the object
\* when it was due. (What is sent is the subject of OpticalLinkage.)
Linkage(t) ==
  /\ pc[t] \in {"open", "media"}
  /\ store' \in {store, Put(cur[t])}
  /\ Goto(t, IF pc[t] = "open" THEN "media" ELSE "endCond")
  /\ UNCHANGED <<tasks, built, locals, history>>

\* The sonar is asked, unless it was asked lately, while the task is running;
\* its answer "unmatched" completes the task.
PollSonar(t) ==
  LET o == cur[t] IN
  /\ pc[t] = "sonar"
  /\ \/ store' = store /\ Goto(t, "endCond") /\ UNCHANGED <<cur, outcome>>
     \/ /\ tasks[o].status = "running"
        /\ store' = Put(o) /\ Goto(t, "endCond") /\ UNCHANGED <<cur, outcome>>
     \/ /\ tasks[o].status = "running"
        /\ store' = store /\ Write(t, o, Complete("sonar_unmatched", "endCond"))
  /\ UNCHANGED <<tasks, built, fresh, todo, back, history>>

\* mutant: a task still searching never times out
DueWhenRunning(o) ==
  tasks[o].req.timed /\ tasks[o].expired /\ tasks[o].status = "running"

\* _check_duration
Due(o) == tasks[o].req.timed /\ tasks[o].expired

\* _apply_end_conditions: nothing for an ended task, then the duration, then
\* the region: ownship may be found outside (tracking), or the target not have
\* been seen for too long (fixed tracking).
EndConditions(t) ==
  LET o == cur[t]  k == tasks[o].req.kind  due == Due(o)  IN
  /\ pc[t] = "endCond"
  /\ \/ /\ ~ (Active(o) /\ due)
        /\ Goto(t, "finish")
        /\ UNCHANGED <<store, tasks, cur, outcome>>
     \/ /\ Active(o) /\ due
        /\ Write(t, o, Complete("timeout", "finish"))
        /\ UNCHANGED <<store, tasks>>
     \/ /\ Active(o) /\ ~ due /\ k = "tracking" /\ ~ tasks[o].entered
        /\ tasks' = [tasks EXCEPT ![o].entered = TRUE]
        /\ store' = Put(o)
        /\ Goto(t, "finish")
        /\ UNCHANGED <<cur, outcome>>
     \/ /\ Active(o) /\ ~ due
        /\ k \in {"tracking", "fixed_tracking"} /\ tasks[o].entered
        /\ Write(t, o, Complete("out_of_region", "finish"))
        /\ UNCHANGED <<store, tasks>>
  /\ UNCHANGED <<built, fresh, todo, back, history>>

\* mutant: on_task_finished is not called
FinishSilently(t) ==
  /\ pc[t] = "finish"
  /\ Goto(t, "return")
  /\ UNCHANGED <<store, tasks, built, locals, history>>

\* The end of tick_task: on_task_finished for the object stored by then.
Finish(t) ==
  LET o == store[tasks[cur[t]].req.id] IN
  /\ pc[t] = "finish"
  /\ IF o # NoTask /\ Ended(o)
     THEN /\ cur' = [cur EXCEPT ![t] = o]
          /\ back' = [back EXCEPT ![t] = "return"]
          /\ Goto(t, "onFinished")
     ELSE Goto(t, "return") /\ UNCHANGED <<cur, back>>
  /\ UNCHANGED <<store, tasks, built, fresh, todo, outcome, history>>

\* on_task_finished: with linkage it may close the optics, and then stores the
\* object again.
OnTaskFinished(t) ==
  LET o == cur[t] IN
  /\ pc[t] = "onFinished"
  /\ finished' = finished \cup {o}
  /\ store' \in IF tasks[o].req.optical THEN {store, Put(o)} ELSE {store}
  /\ Goto(t, back[t])
  /\ UNCHANGED <<tasks, built, locals, chosen>>

\* The handler returns, and its local variables are gone.
Return(t) ==
  /\ pc[t] = "return"
  /\ Goto(t, "idle")
  /\ cur' = [cur EXCEPT ![t] = NoTask]
  /\ fresh' = [fresh EXCEPT ![t] = NoTask]
  /\ outcome' = [outcome EXCEPT ![t] = Terminate]
  /\ back' = [back EXCEPT ![t] = "return"]
  /\ UNCHANGED <<store, tasks, built, todo, history>>

-----------------------------------------------------------------------------
(* The HTTP handlers. *)

Idle(t) == pc[t] = "idle" /\ todo[t] = {}

\* _can_reuse_task_id: a preplan id may be executed, but not by fixed tracking.
CanReuse(o, r) ==
  /\ tasks[o].req.kind = "preplan"
  /\ r.kind \notin {"preplan", "fixed_tracking"}

NewTask(r) ==
  [req |-> r, status |-> "created", reason |-> "none", phase |-> "planning",
   plan |-> 0, route |-> 0, entered |-> FALSE, expired |-> FALSE]

\* create_task: a taken id is refused (409 or 400) with nothing changed, unless
\* it can be reused. (The object gets its number here; others see it only from
\* StoreTask on.)
CreateTask(t, r) ==
  LET old == store[r.id] IN
  /\ t \in Workers /\ Idle(t) /\ built < MaxTasks
  /\ old # NoTask => CanReuse(old, r)
  /\ built' = built + 1
  /\ tasks' = [tasks EXCEPT ![built + 1] = NewTask(r)]
  /\ fresh' = [fresh EXCEPT ![t] = built + 1]
  /\ cur' = [cur EXCEPT ![t] = old]
  /\ Goto(t, "copy")
  /\ UNCHANGED <<store, todo, outcome, back, history>>

\* The route that the preplan under the id shows by now is copied ...
CopyRoute(t) ==
  /\ pc[t] = "copy"
  /\ tasks' = [tasks EXCEPT ![fresh[t]].route =
                 IF cur[t] = NoTask THEN 0 ELSE tasks[cur[t]].plan]
  /\ cur' = [cur EXCEPT ![t] = NoTask]
  /\ Goto(t, "snapshot")
  /\ UNCHANGED <<store, built, fresh, todo, outcome, back, history>>

\* ... and then the stored tasks are listed.
SnapshotTasks(t) ==
  /\ pc[t] = "snapshot"
  /\ todo' = [todo EXCEPT ![t] = Stored]
  /\ Goto(t, "replace")
  /\ UNCHANGED <<store, tasks, built, cur, fresh, outcome, back, history>>

\* mutant: a task waiting for its target is left alone
ReplaceableRunning(o) == tasks[o].status = "running"

\* Which tasks a new one replaces.
Replaceable(o) == Active(o)

\* _terminate_task_for_replacement, for each task of the snapshot.
ReplaceTask(t) ==
  /\ pc[t] = "replace"
  /\ \E o \in todo[t] :
       /\ todo' = [todo EXCEPT ![t] = @ \ {o}]
       /\ IF Replaceable(o)
          THEN Write(t, o, Terminate) /\ back' = [back EXCEPT ![t] = "replace"]
          ELSE UNCHANGED <<pc, cur, outcome, back>>
  /\ UNCHANGED <<store, tasks, built, fresh, history>>

AllReplaced(t) ==
  /\ pc[t] = "replace" /\ todo[t] = {}
  /\ Goto(t, "store")
  /\ back' = [back EXCEPT ![t] = "return"]
  /\ UNCHANGED <<store, tasks, built, cur, fresh, todo, outcome, history>>

\* status RUNNING and task_store.create_task; the first tick follows.
StoreTask(t) ==
  /\ pc[t] = "store"
  /\ tasks' = [tasks EXCEPT ![fresh[t]].status = "running"]
  /\ store' = Put(fresh[t])
  /\ Goto(t, "tick")
  /\ UNCHANGED <<built, locals, history>>

\* terminate_task: allowed by the end condition, whatever the status is.
TerminateTask(t, i) ==
  /\ t \in Workers /\ Idle(t)
  /\ store[i] # NoTask /\ tasks[store[i]].req.manual
  /\ Write(t, store[i], Terminate)
  /\ back' = [back EXCEPT ![t] = "return"]
  /\ UNCHANGED <<store, tasks, built, fresh, todo, history>>

\* The other handlers that change a task read it from the store first ...
ReadTask(t, i) ==
  /\ t \in Workers /\ Idle(t)
  /\ store[i] # NoTask
  /\ cur' = [cur EXCEPT ![t] = store[i]]
  /\ Goto(t, "update")
  /\ UNCHANGED <<store, tasks, built, fresh, todo, outcome, back, history>>

\* ... apply_manual_selection_feedback and apply_manual_switch_feedback, unless
\* they came too late: the phase is set whatever the status is. (The target is
\* the subject of ManualInteraction.)
ApplyFeedback(t) ==
  LET o == cur[t] IN
  /\ pc[t] = "update"
  /\ tasks' = [tasks EXCEPT ![o].phase = "engaging"]
  /\ store' = Put(o)
  /\ chosen' = chosen \cup {o}
  /\ Goto(t, "return")
  /\ UNCHANGED <<built, locals, finished>>

\* ... register_manual_*_request and apply_planning_callback (and a feedback too
\* late, which stores nothing): they write none of the fields modelled here.
RegisterRequest(t) ==
  /\ pc[t] = "update"
  /\ store' \in {store, Put(cur[t])}
  /\ Goto(t, "return")
  /\ UNCHANGED <<tasks, built, locals, history>>

\* Time passes: duration_sec has elapsed since start_time.
Expire(o) ==
  /\ o <= built /\ tasks[o].req.timed /\ ~ tasks[o].expired
  /\ tasks' = [tasks EXCEPT ![o].expired = TRUE]
  /\ UNCHANGED <<store, built, pc, locals, history>>

-----------------------------------------------------------------------------
\* Some request fills the slots of objects not built yet.
Init ==
  /\ store = [i \in TaskId |-> NoTask]
  /\ tasks = [o \in Objects |-> NewTask(CHOOSE r \in Requests : TRUE)]
  /\ built = 0
  /\ pc = [t \in Threads |-> "idle"]
  /\ cur = [t \in Threads |-> NoTask]
  /\ fresh = [t \in Threads |-> NoTask]
  /\ todo = [t \in Threads |-> {}]
  /\ outcome = [t \in Threads |-> Terminate]
  /\ back = [t \in Threads |-> "return"]
  /\ finished = {} /\ chosen = {}

\* What a thread does by itself once a handler has begun, and the loop always.
Step(t) ==
  \/ LoopPass(t) \/ LoopTick(t) \/ CreateTick(t)
  \/ RefreshPreplan(t) \/ ComputePreplan(t) \/ RefreshPatrol(t) \/ SelectTarget(t)
  \/ WriteStatus(t) \/ WriteFields(t)
  \/ Report(t) \/ DispatchAutonomy(t) \/ CheckArrival(t) \/ Linkage(t) \/ PollSonar(t)
  \/ EndConditions(t) \/ Finish(t) \/ OnTaskFinished(t)
  \/ CopyRoute(t) \/ SnapshotTasks(t) \/ ReplaceTask(t) \/ AllReplaced(t) \/ StoreTask(t)
  \/ ApplyFeedback(t) \/ RegisterRequest(t) \/ Return(t)

Next ==
  \/ \E t \in Threads : Step(t)
  \/ \E t \in Threads, r \in Requests : CreateTask(t, r)
  \/ \E t \in Threads, i \in TaskId : TerminateTask(t, i) \/ ReadTask(t, i)
  \/ \E o \in Objects : Expire(o)

Spec == Init /\ [][Next]_vars

\* The operating system schedules every thread and the clock runs; clients
\* owe no request.
Fairness ==
  /\ \A t \in Threads : WF_vars(Step(t))
  /\ \A o \in Objects : WF_vars(Expire(o))

FairSpec == Spec /\ Fairness

-----------------------------------------------------------------------------
(* Properties. *)

\* The type of every variable.
TypeOK ==
  /\ store \in [TaskId -> Objects \cup {NoTask}]
  /\ tasks \in [Objects -> TaskContext]
  /\ built \in 0 .. MaxTasks
  /\ pc \in [Threads -> Label]
  /\ cur \in [Threads -> Objects \cup {NoTask}]
  /\ fresh \in [Threads -> Objects \cup {NoTask}]
  /\ todo \in [Threads -> SUBSET Objects]
  /\ outcome \in [Threads -> Outcome]
  /\ back \in [Threads -> {"return", "replace"}]
  /\ finished \subseteq Objects /\ chosen \subseteq Objects

\* Thread t passed the status check of a tick of o while o was active, and
\* will still assign RUNNING or WAITING_TARGET to it.
MayRevive(t, o) ==
  /\ cur[t] = o
  /\ \/ pc[t] = "select"
     \/ pc[t] = "patrol" /\ tasks[o].req.kind # "patrol"
     \/ pc[t] = "status" /\ outcome[t].status \in Live

Quiet(o) == \A t \in Threads : ~ MayRevive(t, o)

\* The end of a task that no in-flight tick is about to overwrite is final,
\* whatever runs at the same time: no later tick, replacement or termination
\* makes it active again, and no new tick of it gets past the status check.
QuietEndIsFinal == [][\A o \in Objects : Ended(o) /\ Quiet(o) => (Ended(o) /\ Quiet(o))']_vars

\* A patrol or a preplan never comes back after its end, even from a tick that
\* was in flight when it ended: their refresh writes no active status.
PlansStayEnded ==
  [][\A o \in Objects : Ended(o) /\ tasks[o].req.kind \in {"patrol", "preplan"} => Ended(o)']_vars

\* A task created with manual_terminate_allowed = false is terminated only if
\* another task has been created.
UnstoppableOnlyReplaced ==
  \A o \in Objects :
    tasks[o].status = "terminated" /\ ~ tasks[o].req.manual => \E p \in 1 .. built : p # o

\* No other object was built for the id of o.
OnlyOfItsId(o) == \A p \in 1 .. built : tasks[p].req.id = tasks[o].req.id => p = o

\* Whatever overlaps, a task that has ended, on whichever way, and that no
\* handler works on was handed to on_task_finished after its last end: no end
\* is lost between a tick and a termination. (A tick looks up what is stored
\* under the id by then, so this is said of ids with one object only.)
EndIsTold ==
  \A o \in Objects :
    Ended(o) /\ OnlyOfItsId(o) /\ (\A t \in Threads : cur[t] # o) => o \in finished

\* A stored task whose duration has elapsed ends for good (unless another
\* object takes its place in the store): ticks in flight may revive it, but
\* not for ever.
TimedTasksEnd ==
  \A o \in Objects : (o \in Stored /\ tasks[o].expired) ~> [](o \in Stored => Ended(o))

(* What the handlers achieve when they do not overlap. *)

AtRest == \A t \in Threads : pc[t] = "idle"

\* A task that has ended stays ended.
EndIsFinal == [][\A o \in Objects : Ended(o) => Ended(o)']_vars

\* Creating a task replaces the ones before it: at most one stored task is active.
OneActiveTask == \A o, p \in Stored : Active(o) /\ Active(p) => o = p

\* Between handlers status, phase and finish reason tell one story, but for the
\* phase of a task whose operator's feedback came last: it is "engaging" even
\* when the task had ended.
Settled ==
  AtRest => \A o \in Stored :
    /\ o \notin chosen => (Ended(o) <=> tasks[o].phase = "completed")
    /\ tasks[o].reason # "none" => Ended(o)
    /\ tasks[o].status = "terminated" => tasks[o].reason = "manual_terminated"
    /\ Ended(o) /\ tasks[o].req.kind # "preplan" => tasks[o].reason # "none"

\* The route an execute task was confirmed with is the result that its preplan
\* still shows, and that preplan is over.
ConfirmedRouteStands ==
  \A o \in Objects : tasks[o].route # 0 =>
    \E p \in 1 .. o - 1 : /\ tasks[p].req.id = tasks[o].req.id
                         /\ tasks[p].plan = tasks[o].route
                         /\ Ended(p)

(* What the tests and comments say, and overlapping handlers break. *)

\* An id, once given to a new task, is not given back to the object before it.
StoreKeepsNewest == [][\A i \in TaskId : store'[i] >= store[i]]_vars

=============================================================================
