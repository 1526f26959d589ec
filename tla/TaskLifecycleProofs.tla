------------------------ MODULE TaskLifecycleProofs ------------------------
(***************************************************************************)
(* Proofs about TaskLifecycle, for any set of threads, ids and requests.   *)
(***************************************************************************)
EXTENDS TaskLifecycle, TLAPS

-----------------------------------------------------------------------------
(* The inductive invariant. *)

\* Labels at which a thread uses the object it holds.
Holding == {"preplan", "compute", "patrol", "select", "status", "fields",
            "collab", "dispatch", "arrive", "open", "media", "sonar",
            "endCond", "finish", "onFinished", "update"}

\* Labels a replacement goes through for each old task.
Replacing == {"status", "fields", "onFinished"}

\* A created object is known to nobody but the thread that will store it.
Known(o) == tasks[o].status # "created"

UnbuiltUnknown == \A o \in Objects : o > built => ~ Known(o)

HeldKnown ==
  \A t \in Threads : pc[t] \in Holding => cur[t] \in Objects /\ Known(cur[t])

SnapshotKnown == \A t \in Threads : \A o \in todo[t] : Known(o)

StoredKnown == \A i \in TaskId : store[i] # NoTask => Known(store[i])

\* The thread is between the checks of create_task and StoreTask.
BeforeStore(t) ==
  \/ pc[t] \in {"copy", "snapshot", "replace", "store"}
  \/ pc[t] \in Replacing /\ back[t] = "replace"

FreshUnknown ==
  \A t \in Threads :
    BeforeStore(t) => fresh[t] \in Objects /\ fresh[t] <= built /\ ~ Known(fresh[t])

FreshOnce ==
  \A s, t \in Threads :
    BeforeStore(s) /\ BeforeStore(t) /\ s # t => fresh[s] # fresh[t]

\* A replacement returns to the snapshot it came from.
BackToReplace ==
  \A t \in Threads : back[t] = "replace" =>
    /\ pc[t] \in Replacing \cup {"replace"}
    /\ pc[t] \in {"status", "fields"} => outcome[t].then = "onFinished"

TickHasTask == \A t \in Threads : pc[t] = "tick" => fresh[t] \in Objects

\* Thread t is to select a target, or to assign an active status.
Reviving(t) == pc[t] = "select" \/ (pc[t] = "status" /\ outcome[t].status \in Live)

\* Only the refresh of a searching task assigns an active status.
OnlySearchersRevive ==
  \A t \in Threads :
    /\ pc[t] = "patrol" => tasks[cur[t]].req.kind # "preplan"
    /\ Reviving(t) => tasks[cur[t]].req.kind \notin {"patrol", "preplan"}

IInv ==
  /\ TypeOK
  /\ UnbuiltUnknown /\ HeldKnown /\ SnapshotKnown /\ StoredKnown
  /\ FreshUnknown /\ FreshOnce /\ BackToReplace /\ TickHasTask
  /\ OnlySearchersRevive

-----------------------------------------------------------------------------
(* Types. *)

\* The steps of the collaboration that store the object again or not, and go on.
Collaborating(t) == Report(t) \/ DispatchAutonomy(t) \/ CheckArrival(t) \/ Linkage(t)

LEMMA CollaborationStep ==
  ASSUME NEW t \in Threads, Collaborating(t)
  PROVE  /\ pc[t] \in {"collab", "dispatch", "arrive", "open", "media"}
         /\ store' \in {store, Put(cur[t])}
         /\ UNCHANGED <<tasks, built, cur, fresh, todo, outcome, back, finished, chosen>>
         /\ \E label \in {"dispatch", "arrive", "sonar", "open", "media", "endCond"} : Goto(t, label)
<1> DEFINE Goal == /\ pc[t] \in {"collab", "dispatch", "arrive", "open", "media"}
                   /\ store' \in {store, Put(cur[t])}
                   /\ UNCHANGED <<tasks, built, cur, fresh, todo, outcome, back, finished, chosen>>
                   /\ \E label \in {"dispatch", "arrive", "sonar", "open", "media", "endCond"} : Goto(t, label)
<1> SUFFICES Goal
  OBVIOUS
<1>1. CASE Report(t)
  BY <1>1 DEF Report, locals, history
<1>2. CASE DispatchAutonomy(t)
  <2>1. (CASE outcome[t].hit /\ tasks[cur[t]].req.kind = "tracking" -> "arrive"
           [] outcome[t].hit /\ tasks[cur[t]].req.kind = "underwater_search" -> "sonar"
           [] OTHER -> "endCond") \in {"arrive", "sonar", "endCond"}
    OBVIOUS
  <2> QED
    BY <1>2, <2>1 DEF DispatchAutonomy, locals, history
<1>3. CASE CheckArrival(t)
  BY <1>3 DEF CheckArrival, locals, history
<1>4. CASE Linkage(t)
  BY <1>4 DEF Linkage, locals, history
<1> QED
  BY <1>1, <1>2, <1>3, <1>4 DEF Collaborating

LEMMA WriteTypes ==
  ASSUME TypeOK, NEW t \in Threads, NEW o \in Objects, NEW w \in Outcome, Write(t, o, w)
  PROVE  /\ cur' \in [Threads -> Objects \cup {NoTask}]
         /\ outcome' \in [Threads -> Outcome]
         /\ pc' \in [Threads -> Label]
  BY DEF TypeOK, Write, Goto, Label

LEMMA PutType ==
  ASSUME TypeOK, NEW o \in Objects
  PROVE  Put(o) \in [TaskId -> Objects \cup {NoTask}]
  BY DEF TypeOK, Put

LEMMA FirstStepType ==
  ASSUME NEW r \in Request
  PROVE  FirstStep(r) \in {"preplan", "patrol", "select"}
  BY DEF Request, Kind, FirstStep

LEMMA OutcomeTypes ==
  /\ Engage \in Outcome
  /\ Terminate \in Outcome
  /\ \A k \in Kind : AwaitTarget(k) \in Outcome
  /\ \A x \in Reason \cup {Keep}, l \in {"collab", "endCond", "finish"} : Complete(x, l) \in Outcome
  BY DEF Engage, Terminate, AwaitTarget, Complete, Outcome, Status, Reason, Keep, Phase

LEMMA TypeStep ==
  ASSUME TypeOK, HeldKnown, TickHasTask, FreshUnknown, [Next]_vars
  PROVE  TypeOK'
<1> USE TaskLifecycleAssumption
<1>1. ASSUME NEW t \in Threads, WriteStatus(t) PROVE TypeOK'
  <2> DEFINE o == cur[t]  r == [tasks[o] EXCEPT !.status = outcome[t].status]
  <2>1. o \in Objects /\ tasks[o] \in TaskContext /\ outcome[t] \in Outcome
    BY <1>1 DEF WriteStatus, TypeOK, HeldKnown, Holding
  <2>2. r \in TaskContext
    BY <2>1 DEF TaskContext, Outcome, Status
  <2>3. tasks' = [tasks EXCEPT ![o] = r]
    BY <1>1, <2>1 DEF WriteStatus, TypeOK
  <2> QED
    BY <1>1, <2>1, <2>2, <2>3 DEF WriteStatus, Goto, TypeOK, Label, locals
<1>2. ASSUME NEW t \in Threads, WriteFields(t) PROVE TypeOK'
  <2> DEFINE o == cur[t]  w == outcome[t]
             r == [tasks[o] EXCEPT
                     !.reason = IF w.reason = Keep THEN @ ELSE w.reason,
                     !.phase = w.phase,
                     !.entered = @ \/ (w.hit /\ tasks[o].req.kind = "fixed_tracking")]
  <2>1. o \in Objects /\ tasks[o] \in TaskContext /\ w \in Outcome
    BY <1>2 DEF WriteFields, TypeOK, HeldKnown, Holding
  <2>2. r \in TaskContext
    BY <2>1 DEF TaskContext, Outcome, Reason, Keep
  <2>3. tasks' = [tasks EXCEPT ![o] = r]
    BY <1>2, <2>1 DEF WriteFields, TypeOK
  <2>4. store' \in [TaskId -> Objects \cup {NoTask}]
    BY <1>2, <2>1, PutType DEF WriteFields
  <2> QED
    BY <1>2, <2>1, <2>2, <2>3, <2>4 DEF WriteFields, Goto, TypeOK, Outcome, Label, locals
<1>3. ASSUME NEW t \in Threads, Collaborating(t) PROVE TypeOK'
  <2>1. cur[t] \in Objects
    BY <1>3, CollaborationStep DEF HeldKnown, Holding
  <2>2. Put(cur[t]) \in [TaskId -> Objects \cup {NoTask}]
    BY <2>1, PutType
  <2> QED
    BY <1>3, <2>2, CollaborationStep DEF TypeOK, Goto, Label
<1>4. ASSUME NEW t \in Threads, EndConditions(t) PROVE TypeOK'
  <2> DEFINE o == cur[t]
  <2>1. o \in Objects /\ tasks[o] \in TaskContext
    BY <1>4 DEF EndConditions, TypeOK, HeldKnown, Holding, history
  <2>2. Put(o) \in [TaskId -> Objects \cup {NoTask}]
    BY <2>1, PutType
  <2>3. \A x \in {"timeout", "out_of_region"} : Complete(x, "finish") \in Outcome
    BY OutcomeTypes DEF Reason
  <2>4. [tasks EXCEPT ![o].entered = TRUE] \in [Objects -> TaskContext]
    BY <2>1 DEF TypeOK, TaskContext
  <2>5. CASE \E x \in {"timeout", "out_of_region"} : Write(t, o, Complete(x, "finish"))
    BY <1>4, <2>1, <2>2, <2>3, <2>4, <2>5, WriteTypes DEF EndConditions, TypeOK, history
  <2>6. CASE ~ \E x \in {"timeout", "out_of_region"} : Write(t, o, Complete(x, "finish"))
    BY <1>4, <2>1, <2>2, <2>4, <2>6 DEF EndConditions, TypeOK, Goto, Label, history
  <2> QED
    BY <2>5, <2>6
<1>5. ASSUME NEW t \in Threads, LoopPass(t) PROVE TypeOK'
  BY <1>5 DEF LoopPass, TypeOK, Stored, history
<1>6. ASSUME NEW t \in Threads, NEW i \in TaskId, StartTick(t, i)
      PROVE  /\ cur' \in [Threads -> Objects \cup {NoTask}]
             /\ pc' \in [Threads -> Label]
  <2>1. CASE store[i] # NoTask /\ Active(store[i])
    <3>1. FirstStep(tasks[store[i]].req) \in Label
      BY <2>1, FirstStepType DEF TypeOK, TaskContext, Label
    <3> QED
      BY <1>6, <2>1, <3>1 DEF StartTick, Goto, TypeOK
  <2>2. CASE ~ (store[i] # NoTask /\ Active(store[i]))
    BY <1>6, <2>2 DEF StartTick, Goto, TypeOK, Label
  <2> QED
    BY <2>1, <2>2
<1>7. ASSUME NEW t \in Threads, LoopTick(t) PROVE TypeOK'
  <2>1. PICK o \in todo[t] :
          /\ todo' = [todo EXCEPT ![t] = @ \ {o}]
          /\ StartTick(t, tasks[o].req.id)
    BY <1>7 DEF LoopTick
  <2>2. tasks[o].req.id \in TaskId
    BY DEF TypeOK, TaskContext, Request
  <2> QED
    BY <1>6, <1>7, <2>1, <2>2 DEF LoopTick, TypeOK, history
<1>8. ASSUME NEW t \in Threads, CreateTick(t) PROVE TypeOK'
  <2>1. tasks[fresh[t]].req.id \in TaskId
    BY <1>8 DEF CreateTick, TickHasTask, TypeOK, TaskContext, Request, history
  <2> QED
    BY <1>6, <1>8, <2>1 DEF CreateTick, TypeOK, history
<1>9. ASSUME NEW t \in Threads, RefreshPreplan(t) PROVE TypeOK'
  <2>1. Complete(Keep, "collab") \in Outcome /\ cur[t] \in Objects
    BY <1>9, OutcomeTypes DEF RefreshPreplan, HeldKnown, Holding
  <2>2. CASE tasks[cur[t]].plan # 0
    BY <1>9, <2>1, <2>2, WriteTypes DEF RefreshPreplan, TypeOK, history
  <2>3. CASE tasks[cur[t]].plan = 0
    BY <1>9, <2>3 DEF RefreshPreplan, Goto, TypeOK, Label, history
  <2> QED
    BY <2>2, <2>3
<1>10. ASSUME NEW t \in Threads, ComputePreplan(t) PROVE TypeOK'
  <2>1. Complete(Keep, "collab") \in Outcome /\ cur[t] \in Objects
    BY <1>10, OutcomeTypes DEF ComputePreplan, HeldKnown, Holding
  <2>2. tasks' \in [Objects -> TaskContext]
    BY <1>10, <2>1 DEF ComputePreplan, TypeOK, TaskContext, history
  <2> QED
    BY <1>10, <2>1, <2>2, WriteTypes DEF ComputePreplan, TypeOK, history
<1>11. ASSUME NEW t \in Threads, RefreshPatrol(t) PROVE TypeOK'
  <2>1. cur[t] \in Objects
    BY <1>11 DEF RefreshPatrol, HeldKnown, Holding
  <2>2. tasks' \in [Objects -> TaskContext]
    BY <1>11, <2>1 DEF RefreshPatrol, TypeOK, TaskContext, Phase
  <2> QED
    BY <1>11, <2>1, <2>2, PutType DEF RefreshPatrol, TypeOK, Goto, Label, locals
<1>12. ASSUME NEW t \in Threads, SelectTarget(t) PROVE TypeOK'
  <2>1. cur[t] \in Objects /\ tasks[cur[t]].req.kind \in Kind
    BY <1>12 DEF SelectTarget, HeldKnown, Holding, TypeOK, TaskContext, Request, history
  <2>2. PICK w \in Outcome : Write(t, cur[t], w)
    BY <1>12, <2>1, OutcomeTypes DEF SelectTarget
  <2> QED
    BY <1>12, <2>1, <2>2, WriteTypes DEF SelectTarget, TypeOK, history
<1>13. ASSUME NEW t \in Threads, Finish(t) PROVE TypeOK'
  <2>1. tasks[cur[t]].req.id \in TaskId
    BY <1>13 DEF Finish, HeldKnown, Holding, TypeOK, TaskContext, Request, history
  <2> QED
    BY <1>13, <2>1 DEF Finish, TypeOK, Goto, Label, history
<1>14. ASSUME NEW t \in Threads, Return(t) PROVE TypeOK'
  BY <1>14, OutcomeTypes DEF Return, TypeOK, Goto, Label, history
<1>15. ASSUME NEW t \in Threads, PollSonar(t) PROVE TypeOK'
  <2> DEFINE w == Complete("sonar_unmatched", "endCond")
  <2>1. cur[t] \in Objects /\ w \in Outcome
    BY <1>15, OutcomeTypes DEF PollSonar, HeldKnown, Holding, Reason
  <2>2. store' \in [TaskId -> Objects \cup {NoTask}]
    BY <1>15, <2>1, PutType DEF PollSonar, TypeOK
  <2>3. CASE Write(t, cur[t], w)
    BY <1>15, <2>1, <2>2, <2>3, WriteTypes DEF PollSonar, TypeOK, history
  <2>4. CASE Goto(t, "endCond") /\ UNCHANGED <<cur, outcome>>
    BY <1>15, <2>2, <2>4 DEF PollSonar, TypeOK, Goto, Label, history
  <2> QED
    BY <1>15, <2>3, <2>4 DEF PollSonar
<1>16. ASSUME NEW t \in Threads, OnTaskFinished(t) PROVE TypeOK'
  <2>1. cur[t] \in Objects
    BY <1>16 DEF OnTaskFinished, HeldKnown, Holding
  <2>2. store' \in [TaskId -> Objects \cup {NoTask}] /\ finished' \subseteq Objects
    BY <1>16, <2>1, PutType DEF OnTaskFinished, TypeOK
  <2> QED
    BY <1>16, <2>2 DEF OnTaskFinished, TypeOK, Goto, Label, locals
<1>17. ASSUME NEW t \in Threads, ApplyFeedback(t) \/ RegisterRequest(t) PROVE TypeOK'
  <2>1. cur[t] \in Objects
    BY <1>17 DEF ApplyFeedback, RegisterRequest, HeldKnown, Holding
  <2>2. tasks' \in [Objects -> TaskContext]
    BY <1>17, <2>1 DEF ApplyFeedback, RegisterRequest, TypeOK, TaskContext, Phase
  <2>3. store' \in [TaskId -> Objects \cup {NoTask}] /\ chosen' \subseteq Objects
    BY <1>17, <2>1, PutType DEF ApplyFeedback, RegisterRequest, TypeOK, history
  <2> QED
    BY <1>17, <2>2, <2>3 DEF ApplyFeedback, RegisterRequest, TypeOK, Goto, Label, locals, history
<1>18. ASSUME NEW t \in Threads, ReplaceTask(t) PROVE TypeOK'
  <2>1. PICK o \in todo[t] :
       /\ todo' = [todo EXCEPT ![t] = @ \ {o}]
       /\ IF Replaceable(o)
          THEN Write(t, o, Terminate) /\ back' = [back EXCEPT ![t] = "replace"]
          ELSE UNCHANGED <<pc, cur, outcome, back>>
    BY <1>18 DEF ReplaceTask
  <2>2. o \in Objects /\ todo' \in [Threads -> SUBSET Objects]
    BY <2>1 DEF TypeOK
  <2>3. CASE Replaceable(o)
    BY <1>18, <2>1, <2>2, <2>3, WriteTypes, OutcomeTypes DEF ReplaceTask, TypeOK, history
  <2>4. CASE ~ Replaceable(o)
    BY <1>18, <2>1, <2>2, <2>4 DEF ReplaceTask, TypeOK, history
  <2> QED
    BY <2>3, <2>4
<1>19. ASSUME NEW t \in Threads, AllReplaced(t) PROVE TypeOK'
  BY <1>19 DEF AllReplaced, TypeOK, Goto, Label, history
<1>20. ASSUME NEW t \in Threads, StoreTask(t) PROVE TypeOK'
  <2>1. fresh[t] \in Objects
    BY <1>20 DEF StoreTask, FreshUnknown, BeforeStore
  <2>2. tasks' \in [Objects -> TaskContext]
    BY <1>20, <2>1 DEF StoreTask, TypeOK, TaskContext, Status, history
  <2> QED
    BY <1>20, <2>1, <2>2, PutType DEF StoreTask, TypeOK, Goto, Label, locals, history
<1>21. ASSUME NEW t \in Threads, NEW r \in Requests, CreateTask(t, r) PROVE TypeOK'
  <2>1. r.id \in TaskId /\ built + 1 \in Objects
    BY <1>21 DEF CreateTask, TypeOK, Request, Objects
  <2>2. NewTask(r) \in TaskContext
    BY DEF NewTask, TaskContext, Status, Reason, Phase
  <2> QED
    BY <1>21, <2>1, <2>2 DEF CreateTask, TypeOK, Goto, Label, Objects, history
<1>25. ASSUME NEW t \in Threads, CopyRoute(t) PROVE TypeOK'
  <2>1. fresh[t] \in Objects
    BY <1>25 DEF CopyRoute, FreshUnknown, BeforeStore
  <2>2. (IF cur[t] = NoTask THEN 0 ELSE tasks[cur[t]].plan) \in Nat
    BY DEF TypeOK, TaskContext
  <2>3. tasks' \in [Objects -> TaskContext]
    BY <1>25, <2>1, <2>2 DEF CopyRoute, TypeOK, TaskContext
  <2> QED
    BY <1>25, <2>3 DEF CopyRoute, TypeOK, Goto, Label, history
<1>26. ASSUME NEW t \in Threads, SnapshotTasks(t) PROVE TypeOK'
  BY <1>26 DEF SnapshotTasks, TypeOK, Goto, Label, Stored, history
<1>27. ASSUME NEW t \in Threads, NEW i \in TaskId, ReadTask(t, i) PROVE TypeOK'
  BY <1>27 DEF ReadTask, TypeOK, Goto, Label, history
<1>22. ASSUME NEW t \in Threads, NEW i \in TaskId, TerminateTask(t, i) PROVE TypeOK'
  <2>1. store[i] \in Objects
    BY <1>22 DEF TerminateTask, TypeOK, history
  <2> QED
    BY <1>22, <2>1, WriteTypes, OutcomeTypes DEF TerminateTask, TypeOK, history
<1>23. ASSUME NEW o \in Objects, Expire(o) PROVE TypeOK'
  BY <1>23 DEF Expire, TypeOK, TaskContext, locals, history
<1>24. CASE UNCHANGED vars
  BY <1>24 DEF vars, TypeOK, locals, history
<1> QED
  BY <1>1, <1>2, <1>3, <1>4, <1>5, <1>7, <1>8, <1>9, <1>10, <1>11, <1>12, <1>13, <1>14,
     <1>15, <1>16, <1>17, <1>18, <1>19, <1>20, <1>21, <1>22, <1>23, <1>24, <1>25, <1>26, <1>27
  DEF Next, Step, Collaborating

-----------------------------------------------------------------------------
(* What a step does to one object, and to the threads that do not take it. *)

\* A handler of thread t takes a step.
ThreadStep(t) ==
  \/ Step(t)
  \/ \E r \in Requests : CreateTask(t, r)
  \/ \E i \in TaskId : TerminateTask(t, i) \/ ReadTask(t, i)

LEMMA NextSteps ==
  ASSUME [Next]_vars
  PROVE  (\E t \in Threads : ThreadStep(t)) \/ (\E o \in Objects : Expire(o)) \/ UNCHANGED vars
  BY DEF Next, ThreadStep

\* A thread writes no other thread's local variables.
LEMMA OwnLocalsOnly ==
  ASSUME TypeOK, NEW t \in Threads, ThreadStep(t), NEW s \in Threads, s # t
  PROVE  /\ pc'[s] = pc[s] /\ cur'[s] = cur[s] /\ fresh'[s] = fresh[s]
         /\ todo'[s] = todo[s] /\ outcome'[s] = outcome[s] /\ back'[s] = back[s]
<1>1. CASE LoopPass(t) BY <1>1 DEF LoopPass, TypeOK
<1>2. CASE LoopTick(t) BY <1>2 DEF LoopTick, StartTick, Goto, TypeOK
<1>3. CASE CreateTick(t) BY <1>3 DEF CreateTick, StartTick, Goto, TypeOK
<1>4. CASE RefreshPreplan(t) BY <1>4 DEF RefreshPreplan, Write, Goto, TypeOK
<1>5. CASE ComputePreplan(t) BY <1>5 DEF ComputePreplan, Write, Goto, TypeOK
<1>6. CASE RefreshPatrol(t) BY <1>6 DEF RefreshPatrol, Goto, TypeOK, locals
<1>7. CASE SelectTarget(t) BY <1>7 DEF SelectTarget, Write, Goto, TypeOK
<1>8. CASE WriteStatus(t) BY <1>8 DEF WriteStatus, Goto, TypeOK, locals
<1>9. CASE WriteFields(t) BY <1>9 DEF WriteFields, Goto, TypeOK, locals
<1>10. CASE Collaborating(t)
  BY <1>10, CollaborationStep DEF Goto, TypeOK
<1>11. CASE EndConditions(t) BY <1>11 DEF EndConditions, Write, Goto, TypeOK
<1>12. CASE Finish(t) BY <1>12 DEF Finish, Goto, TypeOK
<1>13. CASE PollSonar(t)
  BY <1>13 DEF PollSonar, Write, Complete, Goto, TypeOK
<1>14. CASE OnTaskFinished(t)
  BY <1>14 DEF OnTaskFinished, locals, Goto, TypeOK
<1>15. CASE ApplyFeedback(t) \/ RegisterRequest(t)
  BY <1>15 DEF ApplyFeedback, RegisterRequest, locals, Goto, TypeOK
<1>16. CASE ReplaceTask(t) BY <1>16 DEF ReplaceTask, Write, Goto, TypeOK
<1>17. CASE AllReplaced(t) BY <1>17 DEF AllReplaced, Goto, TypeOK
<1>18. CASE StoreTask(t) BY <1>18 DEF StoreTask, Goto, TypeOK, locals
<1>19. CASE Return(t) BY <1>19 DEF Return, Goto, TypeOK
<1>20. ASSUME NEW r \in Requests, CreateTask(t, r)
       PROVE  /\ pc'[s] = pc[s] /\ cur'[s] = cur[s] /\ fresh'[s] = fresh[s]
              /\ todo'[s] = todo[s] /\ outcome'[s] = outcome[s] /\ back'[s] = back[s]
  BY <1>20 DEF CreateTask, Goto, TypeOK
<1>21. ASSUME NEW i \in TaskId, TerminateTask(t, i)
       PROVE  /\ pc'[s] = pc[s] /\ cur'[s] = cur[s] /\ fresh'[s] = fresh[s]
              /\ todo'[s] = todo[s] /\ outcome'[s] = outcome[s] /\ back'[s] = back[s]
  BY <1>21 DEF TerminateTask, Write, Goto, TypeOK
<1>22. ASSUME NEW i \in TaskId, ReadTask(t, i)
       PROVE  /\ pc'[s] = pc[s] /\ cur'[s] = cur[s] /\ fresh'[s] = fresh[s]
              /\ todo'[s] = todo[s] /\ outcome'[s] = outcome[s] /\ back'[s] = back[s]
  BY <1>22 DEF ReadTask, Goto, TypeOK
<1>23. CASE CopyRoute(t)
  BY <1>23 DEF CopyRoute, Goto, TypeOK
<1>24. CASE SnapshotTasks(t)
  BY <1>24 DEF SnapshotTasks, Goto, TypeOK
<1> QED
  BY <1>1, <1>2, <1>3, <1>4, <1>5, <1>6, <1>7, <1>8, <1>9, <1>10, <1>11, <1>12, <1>13,
     <1>14, <1>15, <1>16, <1>17, <1>18, <1>19, <1>20, <1>21, <1>22, <1>23, <1>24
  DEF ThreadStep, Step, Collaborating

\* The three steps that write task.status.
StatusKept(o) == tasks'[o].status = tasks[o].status
Decided(o) == \E t \in Threads :
  WriteStatus(t) /\ pc[t] = "status" /\ cur[t] = o /\ tasks'[o].status = outcome[t].status
Started(o) == \E t \in Threads :
  StoreTask(t) /\ pc[t] = "store" /\ fresh[t] = o /\ tasks'[o].status = "running"
Created(o) == o = built + 1 /\ built' = built + 1 /\ tasks'[o].status = "created"

LEMMA StatusWrites ==
  ASSUME IInv, [Next]_vars, NEW o \in Objects
  PROVE  \/ (StatusKept(o) \/ Decided(o) \/ Started(o)) /\ tasks'[o].req = tasks[o].req
         \/ Created(o)
<1> DEFINE Goal == \/ (StatusKept(o) \/ Decided(o) \/ Started(o)) /\ tasks'[o].req = tasks[o].req
                   \/ Created(o)
           Kept == StatusKept(o) /\ tasks'[o].req = tasks[o].req
<1> USE DEF IInv
<1>1. ASSUME tasks' = tasks PROVE Kept BY <1>1 DEF StatusKept
<1>2. ASSUME NEW t \in Threads, WriteStatus(t) PROVE Goal
  <2>1. CASE cur[t] = o
    BY <1>2, <2>1 DEF WriteStatus, TypeOK, TaskContext, Decided
  <2>2. CASE cur[t] # o
    BY <1>2, <2>2 DEF WriteStatus, TypeOK, TaskContext, StatusKept
  <2> QED BY <2>1, <2>2
<1>3. ASSUME NEW t \in Threads, WriteFields(t) PROVE Kept
  BY <1>3 DEF WriteFields, TypeOK, TaskContext, StatusKept
<1>4. ASSUME NEW t \in Threads, ComputePreplan(t) PROVE Kept
  BY <1>4 DEF ComputePreplan, TypeOK, TaskContext, StatusKept
<1>5. ASSUME NEW t \in Threads, RefreshPatrol(t) PROVE Kept
  BY <1>5 DEF RefreshPatrol, TypeOK, TaskContext, StatusKept
<1>6. ASSUME NEW t \in Threads, Collaborating(t) PROVE Kept
  BY <1>6, CollaborationStep DEF StatusKept
<1>7. ASSUME NEW t \in Threads, EndConditions(t) PROVE Kept
  BY <1>7 DEF EndConditions, TypeOK, TaskContext, StatusKept
<1>8. ASSUME NEW t \in Threads, ApplyFeedback(t) \/ CopyRoute(t) PROVE Kept
  BY <1>8 DEF ApplyFeedback, CopyRoute, TypeOK, TaskContext, StatusKept
<1>9. ASSUME NEW t \in Threads, StoreTask(t) PROVE Goal
  <2>1. CASE fresh[t] = o
    BY <1>9, <2>1 DEF StoreTask, TypeOK, TaskContext, Started
  <2>2. CASE fresh[t] # o
    BY <1>9, <2>2 DEF StoreTask, TypeOK, TaskContext, StatusKept
  <2> QED BY <2>1, <2>2
<1>10. ASSUME NEW t \in Threads, NEW r \in Requests, CreateTask(t, r) PROVE Goal
  <2>1. CASE o = built + 1
    BY <1>10, <2>1 DEF CreateTask, TypeOK, NewTask, Created
  <2>2. CASE o # built + 1
    BY <1>10, <2>2 DEF CreateTask, TypeOK, StatusKept
  <2> QED BY <2>1, <2>2
<1>11. ASSUME NEW p \in Objects, Expire(p) PROVE Kept
  BY <1>11 DEF Expire, TypeOK, TaskContext, StatusKept
<1>12. ASSUME NEW t \in Threads,
              LoopPass(t) \/ LoopTick(t) \/ CreateTick(t) \/ RefreshPreplan(t)
              \/ SelectTarget(t) \/ PollSonar(t) \/ Finish(t) \/ OnTaskFinished(t)
              \/ SnapshotTasks(t) \/ ReplaceTask(t) \/ AllReplaced(t) \/ RegisterRequest(t) \/ Return(t)
              \/ (\E i \in TaskId : TerminateTask(t, i) \/ ReadTask(t, i))
       PROVE  Kept
  BY <1>1, <1>12 DEF LoopPass, LoopTick, CreateTick, RefreshPreplan, SelectTarget, PollSonar, Finish,
     OnTaskFinished, SnapshotTasks, ReplaceTask, AllReplaced, RegisterRequest, Return, TerminateTask, ReadTask
<1>13. CASE UNCHANGED vars
  BY <1>1, <1>13 DEF vars
<1> QED
  BY <1>2, <1>3, <1>4, <1>5, <1>6, <1>7, <1>8, <1>9, <1>10, <1>11, <1>12, <1>13
  DEF Next, Step, Collaborating

\* An object known to the system stays known and keeps its request; the others
\* stay unknown until they are stored.
LEMMA KnownStays ==
  ASSUME IInv, [Next]_vars, NEW o \in Objects, Known(o)
  PROVE  Known(o)' /\ tasks'[o].req = tasks[o].req
<1>1. ~ Created(o)
  BY DEF IInv, UnbuiltUnknown, TypeOK, Created, Objects
<1>2. CASE Decided(o)
  BY <1>1, <1>2, StatusWrites DEF IInv, TypeOK, Decided, Outcome, Known
<1> QED
  BY <1>1, <1>2, StatusWrites DEF StatusKept, Started, Known

LEMMA UnknownStays ==
  ASSUME IInv, [Next]_vars, NEW o \in Objects, ~ Known(o), ~ Started(o)
  PROVE  ~ Known(o)'
<1>1. ~ Decided(o)
  BY DEF IInv, HeldKnown, Holding, Decided
<1> QED
  BY <1>1, StatusWrites DEF StatusKept, Created, Known

LEMMA RequestTypes ==
  ASSUME TypeOK, NEW o \in Objects
  PROVE  tasks[o].req \in Request /\ tasks[o].req.id \in TaskId /\ tasks[o].req.kind \in Kind
  BY TaskLifecycleAssumption DEF TypeOK, TaskContext, Request

\* A tick begins with an active object, or does nothing.
LEMMA TickStart ==
  ASSUME TypeOK, StoredKnown, NEW t \in Threads, NEW i \in TaskId, StartTick(t, i)
  PROVE  \/ pc'[t] = "return" /\ cur' = cur
         \/ /\ cur'[t] = store[i] /\ store[i] \in Objects
            /\ Active(store[i]) /\ Known(store[i])
            /\ pc'[t] = FirstStep(tasks[store[i]].req)
  BY DEF StartTick, Goto, TypeOK, StoredKnown

\* Which object the ticks of a thread begin with.
LEMMA ThreadTickStart ==
  ASSUME TypeOK, StoredKnown, TickHasTask, NEW t \in Threads, LoopTick(t) \/ CreateTick(t)
  PROVE  \/ pc'[t] = "return" /\ cur' = cur
         \/ /\ cur'[t] \in Objects /\ Active(cur'[t]) /\ Known(cur'[t])
            /\ pc'[t] = FirstStep(tasks[cur'[t]].req)
<1>1. CASE LoopTick(t)
  <2>1. PICK o \in Objects : StartTick(t, tasks[o].req.id)
    BY <1>1 DEF LoopTick, TypeOK
  <2> QED
    BY <2>1, RequestTypes, TickStart
<1>2. CASE CreateTick(t)
  BY <1>2, RequestTypes, TickStart DEF CreateTick, TickHasTask
<1> QED
  BY <1>1, <1>2

\* What thread t holds or has in its snapshot after its own step was known before it.
LEMMA OwnObjectsKnown ==
  ASSUME IInv, NEW t \in Threads, ThreadStep(t)
  PROVE  /\ pc'[t] \in Holding => cur'[t] \in Objects /\ Known(cur'[t])
         /\ \A o \in todo'[t] : o \in Objects /\ Known(o)
<1> DEFINE Goal == /\ pc'[t] \in Holding => cur'[t] \in Objects /\ Known(cur'[t])
                   /\ \A o \in todo'[t] : o \in Objects /\ Known(o)
<1> USE DEF IInv
<1>1. CASE LoopPass(t) BY <1>1 DEF LoopPass, Stored, TypeOK, Holding, HeldKnown, StoredKnown
<1>2. CASE LoopTick(t)
  BY <1>2, ThreadTickStart DEF LoopTick, TypeOK, Holding, SnapshotKnown
<1>3. CASE CreateTick(t)
  BY <1>3, ThreadTickStart DEF CreateTick, TypeOK, Holding, SnapshotKnown
<1>4. CASE RefreshPreplan(t) BY <1>4 DEF RefreshPreplan, Write, Goto, TypeOK, Holding, HeldKnown, SnapshotKnown, StoredKnown
<1>5. CASE ComputePreplan(t) BY <1>5 DEF ComputePreplan, Write, Goto, TypeOK, Holding, HeldKnown, SnapshotKnown, StoredKnown
<1>6. CASE RefreshPatrol(t) BY <1>6 DEF RefreshPatrol, locals, Goto, TypeOK, Holding, HeldKnown, SnapshotKnown, StoredKnown
<1>7. CASE SelectTarget(t) BY <1>7 DEF SelectTarget, Write, Goto, TypeOK, Holding, HeldKnown, SnapshotKnown, StoredKnown
<1>8. CASE WriteStatus(t) BY <1>8 DEF WriteStatus, locals, Goto, TypeOK, Holding, HeldKnown, SnapshotKnown, StoredKnown
<1>9. CASE WriteFields(t) BY <1>9 DEF WriteFields, locals, Goto, TypeOK, Holding, HeldKnown, SnapshotKnown, StoredKnown
<1>10. CASE Collaborating(t)
  BY <1>10, CollaborationStep DEF Goto, TypeOK, Holding, HeldKnown, SnapshotKnown, StoredKnown
<1>11. CASE EndConditions(t) BY <1>11 DEF EndConditions, Write, Goto, TypeOK, Holding, HeldKnown, SnapshotKnown, StoredKnown
<1>12. CASE Finish(t)
  BY <1>12, RequestTypes DEF Finish, Goto, TypeOK, Holding, HeldKnown, SnapshotKnown, StoredKnown
<1>13. CASE PollSonar(t)
  BY <1>13 DEF PollSonar, Write, Complete, Goto, TypeOK, Holding, HeldKnown, SnapshotKnown, StoredKnown
<1>14. CASE OnTaskFinished(t)
  BY <1>14 DEF OnTaskFinished, locals, Goto, TypeOK, Holding, HeldKnown, SnapshotKnown, StoredKnown
<1>15. CASE ApplyFeedback(t) \/ RegisterRequest(t)
  BY <1>15 DEF ApplyFeedback, RegisterRequest, locals, Goto, TypeOK, Holding, HeldKnown, SnapshotKnown, StoredKnown
<1>16. CASE ReplaceTask(t) BY <1>16 DEF ReplaceTask, Write, Goto, TypeOK, Holding, HeldKnown, SnapshotKnown, StoredKnown
<1>17. CASE AllReplaced(t) BY <1>17 DEF AllReplaced, Goto, TypeOK, Holding, HeldKnown, SnapshotKnown, StoredKnown
<1>18. CASE StoreTask(t) BY <1>18 DEF StoreTask, locals, Goto, TypeOK, Holding, HeldKnown, SnapshotKnown, StoredKnown
<1>19. CASE Return(t) BY <1>19 DEF Return, Goto, TypeOK, Holding, HeldKnown, SnapshotKnown, StoredKnown
<1>20. ASSUME NEW r \in Requests, CreateTask(t, r) PROVE Goal
  BY <1>20 DEF CreateTask, Goto, TypeOK, Holding, SnapshotKnown
<1>21. ASSUME NEW i \in TaskId, TerminateTask(t, i) PROVE Goal
  BY <1>21 DEF TerminateTask, Write, Goto, TypeOK, Holding, HeldKnown, SnapshotKnown, StoredKnown
<1>22. ASSUME NEW i \in TaskId, ReadTask(t, i) PROVE Goal
  BY <1>22 DEF ReadTask, Goto, TypeOK, Holding, HeldKnown, SnapshotKnown, StoredKnown
<1>23. CASE CopyRoute(t)
  BY <1>23 DEF CopyRoute, Goto, TypeOK, Holding, HeldKnown, SnapshotKnown, StoredKnown
<1>24. CASE SnapshotTasks(t)
  BY <1>24 DEF SnapshotTasks, Stored, Goto, TypeOK, Holding, StoredKnown
<1> QED
  BY <1>1, <1>2, <1>3, <1>4, <1>5, <1>6, <1>7, <1>8, <1>9, <1>10, <1>11, <1>12, <1>13,
     <1>14, <1>15, <1>16, <1>17, <1>18, <1>19, <1>20, <1>21, <1>22, <1>23, <1>24
  DEF ThreadStep, Step, Collaborating

\* The steps of a handler that may put back the object it holds.
Restores(t) ==
  \/ RefreshPatrol(t) \/ WriteFields(t) \/ Collaborating(t) \/ PollSonar(t) \/ EndConditions(t)
  \/ OnTaskFinished(t) \/ ApplyFeedback(t) \/ RegisterRequest(t)

LEMMA RestoreStep ==
  ASSUME NEW t \in Threads, Restores(t)
  PROVE  pc[t] \in Holding /\ store' \in {store, Put(cur[t])}
<1>1. CASE Collaborating(t)
  BY <1>1, CollaborationStep DEF Holding
<1>2. CASE ~ Collaborating(t)
  BY <1>2 DEF Restores, RefreshPatrol, WriteFields, PollSonar, EndConditions, OnTaskFinished, ApplyFeedback,
     RegisterRequest, Holding
<1> QED
  BY <1>1, <1>2

LEMMA Restoring ==
  ASSUME NEW t \in Threads, ThreadStep(t)
  PROVE  Restores(t) \/ StoreTask(t) \/ store' = store
BY DEF Restores, ThreadStep, Step, Collaborating, LoopPass, LoopTick, CreateTick, RefreshPreplan, ComputePreplan,
   SelectTarget, WriteStatus, Finish, CopyRoute, SnapshotTasks, ReplaceTask, AllReplaced, Return, CreateTask,
   TerminateTask, ReadTask

\* What is stored by a step was known before it, or is stored for the first time.
LEMMA StoredStep ==
  ASSUME IInv, NEW t \in Threads, ThreadStep(t), NEW j \in TaskId, store'[j] # NoTask
  PROVE  /\ store'[j] \in Objects
         /\ Known(store'[j]) \/ (StoreTask(t) /\ store'[j] = fresh[t])
<1> DEFINE Goal == /\ store'[j] \in Objects
                   /\ Known(store'[j]) \/ (StoreTask(t) /\ store'[j] = fresh[t])
<1> USE DEF IInv, NoTask
<1>a. store[j] # NoTask => store[j] \in Objects /\ Known(store[j])
  BY DEF TypeOK, StoredKnown
<1>b. ASSUME NEW o \in Objects, Known(o), store' \in {store, Put(o)}
      PROVE  store'[j] \in Objects /\ Known(store'[j])
  BY <1>a, <1>b DEF Put, TypeOK
<1>1. CASE Restores(t)
  <2>1. cur[t] \in Objects /\ Known(cur[t])
    BY <1>1, RestoreStep DEF HeldKnown
  <2> QED
    BY <1>1, <1>b, <2>1, RestoreStep
<1>2. CASE StoreTask(t)
  BY <1>2, <1>a DEF StoreTask, Put, TypeOK, FreshUnknown, BeforeStore
<1>3. CASE store' = store
  BY <1>3, <1>a
<1> QED
  BY <1>1, <1>2, <1>3, Restoring

\* The object a handler is about to store is the one it has built.
LEMMA BeforeStoreStep ==
  ASSUME IInv, NEW t \in Threads, ThreadStep(t), BeforeStore(t)'
  PROVE  \/ BeforeStore(t) /\ fresh'[t] = fresh[t] /\ built' = built /\ ~ StoreTask(t)
         \/ /\ fresh'[t] = built + 1 /\ built' = built + 1 /\ built + 1 \in Objects
            /\ tasks'[built + 1].status = "created"
<1> DEFINE Goal ==
         \/ BeforeStore(t) /\ fresh'[t] = fresh[t] /\ built' = built /\ ~ StoreTask(t)
         \/ /\ fresh'[t] = built + 1 /\ built' = built + 1 /\ built + 1 \in Objects
            /\ tasks'[built + 1].status = "created"
<1> USE DEF IInv, BeforeStore, Replacing
<1>1. CASE LoopPass(t) BY <1>1 DEF LoopPass, StoreTask, Goto, TypeOK, BackToReplace
<1>2. CASE LoopTick(t)
  BY <1>2, ThreadTickStart, RequestTypes, FirstStepType DEF LoopTick, TypeOK, BackToReplace
<1>3. CASE CreateTick(t)
  BY <1>3, ThreadTickStart, RequestTypes, FirstStepType DEF CreateTick, TypeOK, BackToReplace
<1>4. CASE RefreshPreplan(t) BY <1>4 DEF RefreshPreplan, Write, StoreTask, Goto, TypeOK, BackToReplace
<1>5. CASE ComputePreplan(t) BY <1>5 DEF ComputePreplan, Write, StoreTask, Goto, TypeOK, BackToReplace
<1>6. CASE RefreshPatrol(t) BY <1>6 DEF RefreshPatrol, locals, StoreTask, Goto, TypeOK, BackToReplace
<1>7. CASE SelectTarget(t) BY <1>7 DEF SelectTarget, Write, StoreTask, Goto, TypeOK, BackToReplace
<1>8. CASE WriteStatus(t) BY <1>8 DEF WriteStatus, locals, StoreTask, Goto, TypeOK, BackToReplace
<1>9. CASE WriteFields(t)
  BY <1>9 DEF WriteFields, locals, Outcome, StoreTask, Goto, TypeOK, BackToReplace
<1>10. CASE Collaborating(t)
  BY <1>10, CollaborationStep DEF Goto, TypeOK, StoreTask, BackToReplace
<1>11. CASE EndConditions(t) BY <1>11 DEF EndConditions, Write, StoreTask, Goto, TypeOK, BackToReplace
<1>12. CASE Finish(t) BY <1>12 DEF Finish, StoreTask, Goto, TypeOK, BackToReplace
<1>13. CASE PollSonar(t)
  BY <1>13 DEF PollSonar, Write, Complete, Goto, TypeOK, StoreTask, BackToReplace
<1>14. CASE OnTaskFinished(t)
  BY <1>14 DEF OnTaskFinished, locals, Goto, TypeOK, StoreTask, BackToReplace
<1>15. CASE ApplyFeedback(t) \/ RegisterRequest(t)
  BY <1>15 DEF ApplyFeedback, RegisterRequest, locals, Goto, TypeOK, StoreTask, BackToReplace
<1>16. CASE ReplaceTask(t) BY <1>16 DEF ReplaceTask, Write, StoreTask, Goto, TypeOK, BackToReplace
<1>17. CASE AllReplaced(t) BY <1>17 DEF AllReplaced, StoreTask, Goto, TypeOK, BackToReplace
<1>18. CASE StoreTask(t) BY <1>18 DEF StoreTask, locals, StoreTask, Goto, TypeOK, BackToReplace
<1>19. CASE Return(t) BY <1>19 DEF Return, StoreTask, Goto, TypeOK, BackToReplace
<1>20. ASSUME NEW r \in Requests, CreateTask(t, r) PROVE Goal
  BY <1>20, TaskLifecycleAssumption DEF CreateTask, NewTask, Goto, TypeOK, Objects
<1>21. ASSUME NEW i \in TaskId, TerminateTask(t, i) PROVE Goal
  BY <1>21 DEF TerminateTask, Write, StoreTask, Goto, TypeOK, BackToReplace
<1>22. ASSUME NEW i \in TaskId, ReadTask(t, i) PROVE Goal
  BY <1>22 DEF ReadTask, StoreTask, Goto, TypeOK, BackToReplace
<1>23. CASE CopyRoute(t)
  BY <1>23 DEF CopyRoute, StoreTask, Goto, TypeOK, BackToReplace
<1>24. CASE SnapshotTasks(t)
  BY <1>24 DEF SnapshotTasks, StoreTask, Goto, TypeOK, BackToReplace
<1> QED
  BY <1>1, <1>2, <1>3, <1>4, <1>5, <1>6, <1>7, <1>8, <1>9, <1>10, <1>11, <1>12, <1>13,
     <1>14, <1>15, <1>16, <1>17, <1>18, <1>19, <1>20, <1>21, <1>22, <1>23, <1>24
  DEF ThreadStep, Step, Collaborating

LEMMA BackToReplaceStep ==
  ASSUME IInv, NEW t \in Threads, ThreadStep(t), back'[t] = "replace"
  PROVE  /\ pc'[t] \in Replacing \cup {"replace"}
         /\ pc'[t] \in {"status", "fields"} => outcome'[t].then = "onFinished"
<1> DEFINE Goal == /\ pc'[t] \in Replacing \cup {"replace"}
                   /\ pc'[t] \in {"status", "fields"} => outcome'[t].then = "onFinished"
<1> USE DEF IInv, Replacing
<1>1. CASE LoopPass(t) BY <1>1 DEF LoopPass, Goto, TypeOK, BackToReplace
<1>2. CASE LoopTick(t) BY <1>2 DEF LoopTick, StartTick, Goto, TypeOK, BackToReplace
<1>3. CASE CreateTick(t) BY <1>3 DEF CreateTick, StartTick, Goto, TypeOK, BackToReplace
<1>4. CASE RefreshPreplan(t) BY <1>4 DEF RefreshPreplan, Write, Goto, TypeOK, BackToReplace
<1>5. CASE ComputePreplan(t) BY <1>5 DEF ComputePreplan, Write, Goto, TypeOK, BackToReplace
<1>6. CASE RefreshPatrol(t) BY <1>6 DEF RefreshPatrol, locals, Goto, TypeOK, BackToReplace
<1>7. CASE SelectTarget(t) BY <1>7 DEF SelectTarget, Write, Goto, TypeOK, BackToReplace
<1>8. CASE WriteStatus(t) BY <1>8 DEF WriteStatus, locals, Goto, TypeOK, BackToReplace
<1>9. CASE WriteFields(t) BY <1>9 DEF WriteFields, locals, Goto, TypeOK, BackToReplace
<1>10. CASE Collaborating(t)
  BY <1>10, CollaborationStep DEF Goto, TypeOK, BackToReplace
<1>11. CASE EndConditions(t) BY <1>11 DEF EndConditions, Write, Goto, TypeOK, BackToReplace
<1>12. CASE Finish(t) BY <1>12 DEF Finish, Goto, TypeOK, BackToReplace
<1>13. CASE PollSonar(t)
  BY <1>13 DEF PollSonar, Write, Complete, Goto, TypeOK, BackToReplace
<1>14. CASE OnTaskFinished(t)
  BY <1>14 DEF OnTaskFinished, locals, Goto, TypeOK, BackToReplace
<1>15. CASE ApplyFeedback(t) \/ RegisterRequest(t)
  BY <1>15 DEF ApplyFeedback, RegisterRequest, locals, Goto, TypeOK, BackToReplace
<1>16. CASE ReplaceTask(t) BY <1>16 DEF ReplaceTask, Write, Terminate, Goto, TypeOK, BackToReplace
<1>17. CASE AllReplaced(t) BY <1>17 DEF AllReplaced, Goto, TypeOK, BackToReplace
<1>18. CASE StoreTask(t) BY <1>18 DEF StoreTask, locals, Goto, TypeOK, BackToReplace
<1>19. CASE Return(t) BY <1>19 DEF Return, Goto, TypeOK, BackToReplace
<1>20. ASSUME NEW r \in Requests, CreateTask(t, r) PROVE Goal
  BY <1>20 DEF CreateTask, Idle, Goto, TypeOK, BackToReplace
<1>21. ASSUME NEW i \in TaskId, TerminateTask(t, i) PROVE Goal
  BY <1>21 DEF TerminateTask, Write, Goto, TypeOK, BackToReplace
<1>22. ASSUME NEW i \in TaskId, ReadTask(t, i) PROVE Goal
  BY <1>22 DEF ReadTask, Idle, Goto, TypeOK, BackToReplace
<1>23. CASE CopyRoute(t)
  BY <1>23 DEF CopyRoute, Goto, TypeOK, BackToReplace
<1>24. CASE SnapshotTasks(t)
  BY <1>24 DEF SnapshotTasks, Goto, TypeOK, BackToReplace
<1> QED
  BY <1>1, <1>2, <1>3, <1>4, <1>5, <1>6, <1>7, <1>8, <1>9, <1>10, <1>11, <1>12, <1>13,
     <1>14, <1>15, <1>16, <1>17, <1>18, <1>19, <1>20, <1>21, <1>22, <1>23, <1>24
  DEF ThreadStep, Step, Collaborating

LEMMA TickHasTaskStep ==
  ASSUME IInv, NEW t \in Threads, ThreadStep(t), pc'[t] = "tick"
  PROVE  fresh'[t] \in Objects
<1> DEFINE Goal == fresh'[t] \in Objects
<1> USE DEF IInv
<1>1. CASE LoopPass(t) BY <1>1 DEF LoopPass, Goto, TypeOK, TickHasTask
<1>2. CASE LoopTick(t)
  BY <1>2, ThreadTickStart, RequestTypes, FirstStepType
<1>3. CASE CreateTick(t)
  BY <1>3, ThreadTickStart, RequestTypes, FirstStepType
<1>4. CASE RefreshPreplan(t) BY <1>4 DEF RefreshPreplan, Write, Goto, TypeOK, TickHasTask
<1>5. CASE ComputePreplan(t) BY <1>5 DEF ComputePreplan, Write, Goto, TypeOK, TickHasTask
<1>6. CASE RefreshPatrol(t) BY <1>6 DEF RefreshPatrol, locals, Goto, TypeOK, TickHasTask
<1>7. CASE SelectTarget(t) BY <1>7 DEF SelectTarget, Write, Goto, TypeOK, TickHasTask
<1>8. CASE WriteStatus(t) BY <1>8 DEF WriteStatus, locals, Goto, TypeOK, TickHasTask
<1>9. CASE WriteFields(t) BY <1>9 DEF WriteFields, Outcome, Goto, TypeOK
<1>10. CASE Collaborating(t)
  BY <1>10, CollaborationStep DEF Goto, TypeOK, TickHasTask
<1>11. CASE EndConditions(t) BY <1>11 DEF EndConditions, Write, Goto, TypeOK, TickHasTask
<1>12. CASE Finish(t) BY <1>12 DEF Finish, Goto, TypeOK, TickHasTask
<1>13. CASE PollSonar(t)
  BY <1>13 DEF PollSonar, Write, Complete, Goto, TypeOK
<1>14. CASE OnTaskFinished(t)
  BY <1>14 DEF OnTaskFinished, locals, Goto, TypeOK, TickHasTask
<1>15. CASE ApplyFeedback(t) \/ RegisterRequest(t)
  BY <1>15 DEF ApplyFeedback, RegisterRequest, locals, Goto, TypeOK
<1>16. CASE ReplaceTask(t) BY <1>16 DEF ReplaceTask, Write, Goto, TypeOK, TickHasTask
<1>17. CASE AllReplaced(t) BY <1>17 DEF AllReplaced, Goto, TypeOK, TickHasTask
<1>18. CASE StoreTask(t) BY <1>18 DEF StoreTask, FreshUnknown, BeforeStore, locals
<1>19. CASE Return(t) BY <1>19 DEF Return, Goto, TypeOK, TickHasTask
<1>20. ASSUME NEW r \in Requests, CreateTask(t, r) PROVE Goal
  BY <1>20 DEF CreateTask, Goto, TypeOK, TickHasTask
<1>21. ASSUME NEW i \in TaskId, TerminateTask(t, i) PROVE Goal
  BY <1>21 DEF TerminateTask, Write, Goto, TypeOK, TickHasTask
<1>22. ASSUME NEW i \in TaskId, ReadTask(t, i) PROVE Goal
  BY <1>22 DEF ReadTask, Goto, TypeOK, TickHasTask
<1>23. CASE CopyRoute(t)
  BY <1>23 DEF CopyRoute, Goto, TypeOK, TickHasTask
<1>24. CASE SnapshotTasks(t)
  BY <1>24 DEF SnapshotTasks, Goto, TypeOK, TickHasTask
<1> QED
  BY <1>1, <1>2, <1>3, <1>4, <1>5, <1>6, <1>7, <1>8, <1>9, <1>10, <1>11, <1>12, <1>13,
     <1>14, <1>15, <1>16, <1>17, <1>18, <1>19, <1>20, <1>21, <1>22, <1>23, <1>24
  DEF ThreadStep, Step, Collaborating


LEMMA OnlySearchersReviveStep ==
  ASSUME IInv, NEW t \in Threads, ThreadStep(t)
  PROVE  /\ pc'[t] = "patrol" => tasks[cur'[t]].req.kind # "preplan"
         /\ Reviving(t)' => tasks[cur'[t]].req.kind \notin {"patrol", "preplan"}
<1> DEFINE Goal ==
         /\ pc'[t] = "patrol" => tasks[cur'[t]].req.kind # "preplan"
         /\ Reviving(t)' => tasks[cur'[t]].req.kind \notin {"patrol", "preplan"}
<1> USE DEF IInv, Reviving, Live
<1>1. CASE LoopPass(t) BY <1>1 DEF LoopPass, Goto, TypeOK, OnlySearchersRevive
<1>2. CASE LoopTick(t)
  BY <1>2, ThreadTickStart, RequestTypes DEF FirstStep, Kind
<1>3. CASE CreateTick(t)
  BY <1>3, ThreadTickStart, RequestTypes DEF FirstStep, Kind
<1>4. CASE RefreshPreplan(t)
  BY <1>4 DEF RefreshPreplan, Write, Complete, Goto, TypeOK
<1>5. CASE ComputePreplan(t)
  BY <1>5 DEF ComputePreplan, Write, Complete, Goto, TypeOK
<1>6. CASE RefreshPatrol(t) BY <1>6 DEF RefreshPatrol, locals, Goto, TypeOK, OnlySearchersRevive
<1>7. CASE SelectTarget(t) BY <1>7 DEF SelectTarget, Write, Goto, TypeOK, OnlySearchersRevive
<1>8. CASE WriteStatus(t) BY <1>8 DEF WriteStatus, locals, Goto, TypeOK, OnlySearchersRevive
<1>9. CASE WriteFields(t) BY <1>9 DEF WriteFields, Outcome, Goto, TypeOK
<1>10. CASE Collaborating(t)
  BY <1>10, CollaborationStep DEF Goto, TypeOK
<1>11. CASE EndConditions(t)
  BY <1>11 DEF EndConditions, Write, Complete, Goto, TypeOK
<1>12. CASE Finish(t) BY <1>12 DEF Finish, Goto, TypeOK, OnlySearchersRevive
<1>13. CASE PollSonar(t)
  BY <1>13 DEF PollSonar, Write, Complete, Goto, TypeOK, OnlySearchersRevive
<1>14. CASE OnTaskFinished(t)
  BY <1>14 DEF OnTaskFinished, locals, Goto, TypeOK, OnlySearchersRevive
<1>15. CASE ApplyFeedback(t) \/ RegisterRequest(t)
  BY <1>15 DEF ApplyFeedback, RegisterRequest, locals, Goto, TypeOK, OnlySearchersRevive
<1>16. CASE ReplaceTask(t)
  BY <1>16 DEF ReplaceTask, Write, Terminate, Goto, TypeOK, OnlySearchersRevive
<1>17. CASE AllReplaced(t) BY <1>17 DEF AllReplaced, Goto, TypeOK, OnlySearchersRevive
<1>18. CASE StoreTask(t) BY <1>18 DEF StoreTask, locals, Goto, TypeOK, OnlySearchersRevive
<1>19. CASE Return(t) BY <1>19 DEF Return, Goto, TypeOK, OnlySearchersRevive
<1>20. ASSUME NEW r \in Requests, CreateTask(t, r) PROVE Goal
  BY <1>20 DEF CreateTask, Goto, TypeOK, OnlySearchersRevive
<1>21. ASSUME NEW i \in TaskId, TerminateTask(t, i) PROVE Goal
  BY <1>21 DEF TerminateTask, Write, Terminate, Goto, TypeOK
<1>22. ASSUME NEW i \in TaskId, ReadTask(t, i) PROVE Goal
  BY <1>22 DEF ReadTask, Goto, TypeOK
<1>23. CASE CopyRoute(t)
  BY <1>23 DEF CopyRoute, Goto, TypeOK
<1>24. CASE SnapshotTasks(t)
  BY <1>24 DEF SnapshotTasks, Goto, TypeOK
<1> QED
  BY <1>1, <1>2, <1>3, <1>4, <1>5, <1>6, <1>7, <1>8, <1>9, <1>10, <1>11, <1>12, <1>13,
     <1>14, <1>15, <1>16, <1>17, <1>18, <1>19, <1>20, <1>21, <1>22, <1>23, <1>24
  DEF ThreadStep, Step, Collaborating

LEMMA IndInvInit == Init => IInv
<1> SUFFICES ASSUME Init PROVE IInv
  OBVIOUS
<1> USE TaskLifecycleAssumption DEF Init
<1>1. TypeOK
  <2>1. NewTask(CHOOSE r \in Requests : TRUE) \in TaskContext
    BY DEF NewTask, TaskContext, Status, Reason, Phase
  <2> QED
    BY <2>1, OutcomeTypes DEF TypeOK, Label
<1>2. UnbuiltUnknown /\ HeldKnown /\ SnapshotKnown /\ StoredKnown
  BY DEF UnbuiltUnknown, HeldKnown, Holding, SnapshotKnown, StoredKnown, Known, NewTask
<1>3. FreshUnknown /\ FreshOnce /\ BackToReplace /\ TickHasTask /\ OnlySearchersRevive
  BY DEF FreshUnknown, FreshOnce, BeforeStore, Replacing, BackToReplace, TickHasTask,
     OnlySearchersRevive, Reviving
<1> QED
  BY <1>1, <1>2, <1>3 DEF IInv

LEMMA BuiltStep ==
  ASSUME IInv, NEW t \in Threads, ThreadStep(t)
  PROVE  built' = built \/ (built' = built + 1 /\ \E r \in Requests : CreateTask(t, r))
<1>1. CASE Collaborating(t)
  BY <1>1, CollaborationStep
<1>2. CASE ~ Collaborating(t)
  BY <1>2 DEF Collaborating, ThreadStep, Step, LoopPass, LoopTick, CreateTick, RefreshPreplan, ComputePreplan,
     RefreshPatrol, SelectTarget, WriteStatus, WriteFields, PollSonar, EndConditions, Finish, OnTaskFinished,
     CopyRoute, SnapshotTasks, ReplaceTask, AllReplaced, StoreTask, Return, ApplyFeedback, RegisterRequest,
     CreateTask, TerminateTask, ReadTask
<1> QED
  BY <1>1, <1>2

LEMMA IndInvNext ==
  ASSUME IInv, [Next]_vars
  PROVE  IInv'
<1>1. TypeOK'
  BY TypeStep DEF IInv
<1>2. ASSUME NEW t \in Threads, ThreadStep(t)
      PROVE  /\ UnbuiltUnknown' /\ HeldKnown' /\ SnapshotKnown' /\ StoredKnown'
             /\ FreshUnknown' /\ FreshOnce' /\ BackToReplace' /\ TickHasTask'
             /\ OnlySearchersRevive'
  <2>0. /\ \A s \in Threads \ {t} :
             /\ pc'[s] = pc[s] /\ cur'[s] = cur[s] /\ fresh'[s] = fresh[s]
             /\ todo'[s] = todo[s] /\ outcome'[s] = outcome[s] /\ back'[s] = back[s]
        /\ \A o \in Objects : Known(o) => Known(o)' /\ tasks'[o].req = tasks[o].req
        /\ built' \in {built, built + 1} /\ built \in Nat
    BY <1>2, OwnLocalsOnly, KnownStays, BuiltStep DEF IInv, TypeOK
  <2>1. UnbuiltUnknown'
    <3>1. ASSUME NEW o \in Objects, o > built' PROVE ~ Known(o) /\ ~ Started(o)
      BY <2>0, <3>1 DEF IInv, UnbuiltUnknown, FreshUnknown, BeforeStore, Started, Objects
    <3> QED
      BY <3>1, UnknownStays DEF UnbuiltUnknown
  <2>2. HeldKnown'
    BY <1>2, <2>0, OwnObjectsKnown DEF IInv, HeldKnown
  <2>3. SnapshotKnown'
    BY <1>2, <2>0, OwnObjectsKnown DEF IInv, SnapshotKnown, TypeOK
  <2>4. StoredKnown'
    <3>1. StoreTask(t) => fresh[t] \in Objects /\ tasks'[fresh[t]].status = "running"
      BY DEF IInv, TypeOK, TaskContext, StoreTask, FreshUnknown, BeforeStore
    <3> QED
      BY <1>2, <2>0, <3>1, StoredStep DEF StoredKnown, Known
  <2>5. FreshUnknown'
    <3>1. ASSUME NEW s \in Threads, BeforeStore(s), fresh'[s] = fresh[s], ~ StoreTask(s)
          PROVE  fresh'[s] \in Objects /\ fresh'[s] <= built'
                 /\ tasks'[fresh'[s]].status = "created"
      <4>1. fresh[s] \in Objects /\ fresh[s] <= built /\ ~ Known(fresh[s])
        BY <3>1 DEF IInv, FreshUnknown
      <4>2. ~ Started(fresh[s])
        BY <3>1 DEF IInv, FreshOnce, BeforeStore, Started
      <4> QED
        BY <2>0, <3>1, <4>1, <4>2, UnknownStays DEF Objects, Known
    <3>2. ASSUME NEW s \in Threads \ {t}, BeforeStore(s)' PROVE BeforeStore(s) /\ ~ StoreTask(s)
      BY <2>0, <3>2 DEF BeforeStore, StoreTask, Goto, IInv, TypeOK
    <3>3. BeforeStore(t)' =>
            /\ fresh'[t] \in Objects /\ fresh'[t] <= built'
            /\ tasks'[fresh'[t]].status = "created"
      BY <1>2, <2>0, <3>1, BeforeStoreStep
    <3> QED
      BY <2>0, <3>1, <3>2, <3>3 DEF FreshUnknown, Known
  <2>6. FreshOnce'
    <3>1. \A s \in Threads \ {t} : BeforeStore(s)' => BeforeStore(s) /\ fresh[s] <= built
                                                   /\ fresh[s] \in Nat
      BY <2>0 DEF BeforeStore, IInv, FreshUnknown, Objects
    <3>2. \A s \in Threads \ {t} : BeforeStore(s)' /\ BeforeStore(t)' => fresh'[s] # fresh'[t]
      BY <1>2, <2>0, <3>1, BeforeStoreStep DEF IInv, FreshOnce
    <3> QED
      BY <2>0, <3>1, <3>2 DEF IInv, FreshOnce
  <2>7. BackToReplace'
    BY <1>2, <2>0, BackToReplaceStep DEF IInv, BackToReplace
  <2>8. TickHasTask'
    BY <1>2, <2>0, TickHasTaskStep DEF IInv, TickHasTask
  <2>9. OnlySearchersRevive'
    BY <1>2, <2>0, OnlySearchersReviveStep, OwnObjectsKnown
    DEF IInv, OnlySearchersRevive, Reviving, HeldKnown, Holding
  <2> QED
    BY <2>1, <2>2, <2>3, <2>4, <2>5, <2>6, <2>7, <2>8, <2>9
<1>3. ASSUME UNCHANGED <<store, built, pc, locals>>,
             \A o \in Objects : tasks'[o].status = tasks[o].status /\ tasks'[o].req = tasks[o].req
      PROVE  IInv'
  BY <1>1, <1>3
  DEF IInv, TypeOK, UnbuiltUnknown, HeldKnown, Holding, SnapshotKnown, StoredKnown, FreshUnknown, FreshOnce,
      BackToReplace, TickHasTask, OnlySearchersRevive, Reviving, BeforeStore, Known, locals
<1>4. ASSUME NEW p \in Objects, Expire(p) PROVE IInv'
  BY <1>3, <1>4 DEF Expire, IInv, TypeOK, TaskContext
<1>5. CASE UNCHANGED vars
  BY <1>3, <1>5 DEF vars, locals
<1> QED
  BY <1>1, <1>2, <1>4, <1>5, NextSteps DEF IInv

\* The invariant of every execution, which the theorems below rest on.
THEOREM Invariance == Spec => []IInv
  BY IndInvInit, IndInvNext, PTL DEF Spec

\* Every variable keeps its type, whatever the threads, ids and requests are.
THEOREM TypeCorrect == Spec => []TypeOK
  BY Invariance, PTL DEF IInv

-----------------------------------------------------------------------------
(* Ended tasks. *)

\* A thread comes to revive a task only by selecting it while it is active.
LEMMA MayReviveStep ==
  ASSUME IInv, NEW t \in Threads, ThreadStep(t), NEW o \in Objects,
         tasks'[o].req = tasks[o].req, MayRevive(t, o)'
  PROVE  MayRevive(t, o) \/ Active(o)
<1> DEFINE Goal == MayRevive(t, o) \/ Active(o)
<1> USE DEF IInv, MayRevive, Live
<1>1. CASE LoopPass(t) BY <1>1 DEF LoopPass, Goto, TypeOK
<1>2. CASE LoopTick(t)
  BY <1>2, ThreadTickStart
<1>3. CASE CreateTick(t)
  BY <1>3, ThreadTickStart
<1>4. CASE RefreshPreplan(t)
  BY <1>4 DEF RefreshPreplan, Write, Complete, Goto, TypeOK
<1>5. CASE ComputePreplan(t)
  BY <1>5 DEF ComputePreplan, Write, Complete, Goto, TypeOK
<1>6. CASE RefreshPatrol(t) BY <1>6 DEF RefreshPatrol, locals, Goto, TypeOK
<1>7. CASE SelectTarget(t) BY <1>7 DEF SelectTarget, Write, Goto, TypeOK
<1>8. CASE WriteStatus(t) BY <1>8 DEF WriteStatus, locals, Goto, TypeOK
<1>9. CASE WriteFields(t) BY <1>9 DEF WriteFields, Outcome, Goto, TypeOK
<1>10. CASE Collaborating(t)
  BY <1>10, CollaborationStep DEF Goto, TypeOK
<1>11. CASE EndConditions(t)
  BY <1>11 DEF EndConditions, Write, Complete, Goto, TypeOK
<1>12. CASE Finish(t) BY <1>12 DEF Finish, Goto, TypeOK
<1>13. CASE PollSonar(t)
  BY <1>13 DEF PollSonar, Write, Complete, Goto, TypeOK
<1>14. CASE OnTaskFinished(t)
  BY <1>14 DEF OnTaskFinished, locals, Goto, TypeOK
<1>15. CASE ApplyFeedback(t) \/ RegisterRequest(t)
  BY <1>15 DEF ApplyFeedback, RegisterRequest, locals, Goto, TypeOK
<1>16. CASE ReplaceTask(t)
  BY <1>16 DEF ReplaceTask, Write, Terminate, Goto, TypeOK
<1>17. CASE AllReplaced(t) BY <1>17 DEF AllReplaced, Goto, TypeOK
<1>18. CASE StoreTask(t) BY <1>18 DEF StoreTask, locals, Goto, TypeOK
<1>19. CASE Return(t) BY <1>19 DEF Return, Goto, TypeOK
<1>20. ASSUME NEW r \in Requests, CreateTask(t, r) PROVE Goal
  BY <1>20 DEF CreateTask, Goto, TypeOK
<1>21. ASSUME NEW i \in TaskId, TerminateTask(t, i) PROVE Goal
  BY <1>21 DEF TerminateTask, Write, Terminate, Goto, TypeOK
<1>22. ASSUME NEW i \in TaskId, ReadTask(t, i) PROVE Goal
  BY <1>22 DEF ReadTask, Goto, TypeOK
<1>23. CASE CopyRoute(t)
  BY <1>23 DEF CopyRoute, Goto, TypeOK
<1>24. CASE SnapshotTasks(t)
  BY <1>24 DEF SnapshotTasks, Goto, TypeOK
<1> QED
  BY <1>1, <1>2, <1>3, <1>4, <1>5, <1>6, <1>7, <1>8, <1>9, <1>10, <1>11, <1>12, <1>13,
     <1>14, <1>15, <1>16, <1>17, <1>18, <1>19, <1>20, <1>21, <1>22, <1>23, <1>24
  DEF ThreadStep, Step, Collaborating

LEMMA EndedKnown ==
  ASSUME NEW o \in Objects, Ended(o)
  PROVE  Known(o) /\ ~ Active(o)
  BY DEF Ended, Final, Known, Active, Live

\* Only a thread that is about to assign an active status can undo an end.
LEMMA EndedStep ==
  ASSUME IInv, [Next]_vars, NEW o \in Objects, Ended(o), ~ Ended(o)'
  PROVE  \E t \in Threads : pc[t] = "status" /\ cur[t] = o /\ outcome[t].status \in Live
<1>1. ~ Created(o) /\ ~ Started(o) /\ ~ StatusKept(o)
  BY EndedKnown DEF IInv, UnbuiltUnknown, FreshUnknown, BeforeStore, TypeOK, Objects,
     Created, Started, StatusKept, Ended
<1>2. PICK t \in Threads : pc[t] = "status" /\ cur[t] = o /\ tasks'[o].status = outcome[t].status
  BY <1>1, StatusWrites DEF Decided
<1>3. outcome[t].status \in Status \ {"created"}
  BY DEF IInv, TypeOK, Outcome
<1> QED
  BY <1>2, <1>3 DEF Ended, Final, Live, Status

LEMMA QuietEndStep ==
  ASSUME IInv, [Next]_vars, NEW o \in Objects, Ended(o), Quiet(o)
  PROVE  Ended(o)' /\ Quiet(o)'
<1>1. Ended(o)'
  BY EndedStep DEF Quiet, MayRevive
<1>2. Known(o) /\ ~ Active(o) /\ tasks'[o].req = tasks[o].req
  BY EndedKnown, KnownStays
<1>3. ASSUME NEW t \in Threads, ThreadStep(t) PROVE Quiet(o)'
  <2>1. \A s \in Threads \ {t} : MayRevive(s, o)' => MayRevive(s, o)
    BY <1>2, <1>3, OwnLocalsOnly DEF MayRevive, IInv
  <2>2. ~ MayRevive(t, o)'
    BY <1>2, <1>3, MayReviveStep DEF Quiet
  <2> QED
    BY <2>1, <2>2 DEF Quiet
<1>4. CASE (\E p \in Objects : Expire(p)) \/ UNCHANGED vars
  <2>1. pc' = pc /\ cur' = cur /\ outcome' = outcome
    BY <1>4 DEF Expire, vars, locals
  <2>2. \A s \in Threads : MayRevive(s, o)' => MayRevive(s, o)
    BY <1>2, <2>1 DEF MayRevive, Live
  <2> QED
    BY <1>1, <2>2 DEF Quiet
<1> QED
  BY <1>1, <1>3, <1>4, NextSteps

\* The end of a task that no in-flight tick is about to overwrite is final: for
\* any number of threads, no later tick, replacement or termination revives it.
THEOREM QuietEndHolds == Spec => QuietEndIsFinal
<1>1. IInv /\ [Next]_vars
        => [\A o \in Objects : Ended(o) /\ Quiet(o) => (Ended(o) /\ Quiet(o))']_vars
  BY QuietEndStep
<1> QED
  BY <1>1, Invariance, PTL DEF Spec, QuietEndIsFinal

\* A patrol or a preplan never comes back after its end, whatever is in flight.
THEOREM PlansStayEndedHolds == Spec => PlansStayEnded
<1>1. ASSUME IInv, [Next]_vars, NEW o \in Objects,
             Ended(o), tasks[o].req.kind \in {"patrol", "preplan"}
      PROVE  Ended(o)'
  BY <1>1, EndedStep DEF IInv, OnlySearchersRevive, Reviving
<1>2. IInv /\ [Next]_vars
        => [\A o \in Objects : Ended(o) /\ tasks[o].req.kind \in {"patrol", "preplan"}
              => Ended(o)']_vars
  BY <1>1
<1> QED
  BY <1>2, Invariance, PTL DEF Spec, PlansStayEnded

-----------------------------------------------------------------------------
(* Every end is told. *)

\* The only step of a thread at some labels.
LEMMA ThreadAt ==
  ASSUME NEW t \in Threads, ThreadStep(t)
  PROVE  /\ pc[t] = "status" => WriteStatus(t)
         /\ pc[t] = "fields" => WriteFields(t)
         /\ pc[t] \in {"collab", "dispatch", "arrive", "open", "media"} => Collaborating(t)
         /\ pc[t] = "sonar" => PollSonar(t)
         /\ pc[t] = "endCond" => EndConditions(t)
         /\ pc[t] = "finish" => Finish(t)
         /\ pc[t] = "onFinished" => OnTaskFinished(t)
         /\ pc[t] = "copy" => CopyRoute(t)
         /\ pc[t] = "snapshot" => SnapshotTasks(t)
         /\ pc[t] = "replace" => ReplaceTask(t) \/ AllReplaced(t)
         /\ pc[t] = "store" => StoreTask(t)
<1>1. LoopPass(t) \/ LoopTick(t) \/ (\E r \in Requests : CreateTask(t, r))
      \/ (\E i \in TaskId : TerminateTask(t, i) \/ ReadTask(t, i))
      => pc[t] = "idle"
  BY DEF LoopPass, LoopTick, CreateTask, TerminateTask, ReadTask, Idle
<1>2. /\ CreateTick(t) => pc[t] = "tick"
      /\ RefreshPreplan(t) => pc[t] = "preplan"
      /\ ComputePreplan(t) => pc[t] = "compute"
      /\ RefreshPatrol(t) => pc[t] = "patrol"
      /\ SelectTarget(t) => pc[t] = "select"
      /\ CopyRoute(t) => pc[t] = "copy"
      /\ SnapshotTasks(t) => pc[t] = "snapshot"
      /\ ReplaceTask(t) \/ AllReplaced(t) => pc[t] = "replace"
      /\ StoreTask(t) => pc[t] = "store"
      /\ ApplyFeedback(t) \/ RegisterRequest(t) => pc[t] = "update"
      /\ Return(t) => pc[t] = "return"
  BY DEF CreateTick, RefreshPreplan, ComputePreplan, RefreshPatrol, SelectTarget, CopyRoute, SnapshotTasks,
     ReplaceTask, AllReplaced, StoreTask, ApplyFeedback, RegisterRequest, Return
<1>3. /\ WriteStatus(t) => pc[t] = "status"
      /\ WriteFields(t) => pc[t] = "fields"
      /\ Collaborating(t) => pc[t] \in {"collab", "dispatch", "arrive", "open", "media"}
      /\ PollSonar(t) => pc[t] = "sonar"
      /\ EndConditions(t) => pc[t] = "endCond"
      /\ Finish(t) => pc[t] = "finish"
      /\ OnTaskFinished(t) => pc[t] = "onFinished"
  BY CollaborationStep DEF WriteStatus, WriteFields, PollSonar, EndConditions, Finish, OnTaskFinished
<1> QED
  BY <1>1, <1>2, <1>3 DEF ThreadStep, Step, Collaborating

\* What is stored under an id is a task of that id, and the id of a task that was
\* stored once stays taken.
StoreById == \A i \in TaskId : store[i] # NoTask => tasks[store[i]].req.id = i

KnownStored == \A o \in Objects : Known(o) => store[tasks[o].req.id] # NoTask

\* Thread t is on its way from a write of the status of o to on_task_finished.
Owing(t, o) ==
  /\ cur[t] = o
  /\ pc[t] \in {"fields", "collab", "dispatch", "arrive", "open", "media", "sonar",
                "endCond", "finish", "onFinished"}

Told ==
  \A o \in Objects : Ended(o) /\ OnlyOfItsId(o) => o \in finished \/ \E t \in Threads : Owing(t, o)

TInv == IInv /\ StoreById /\ KnownStored /\ Told

\* The steps of create_task aside, requests are left alone.
LEMMA RequestKept ==
  ASSUME IInv, [Next]_vars, NEW o \in Objects, o <= built
  PROVE  tasks'[o].req = tasks[o].req
<1>1. ~ Created(o)
  BY DEF IInv, TypeOK, Created, Objects
<1> QED
  BY <1>1, StatusWrites

LEMMA ThreadNext ==
  ASSUME NEW t \in Threads, ThreadStep(t)
  PROVE  [Next]_vars
  BY DEF ThreadStep, Next

LEMMA StoreByIdStep ==
  ASSUME TInv, [Next]_vars
  PROVE  StoreById' /\ KnownStored'
<1>a. IInv /\ TypeOK /\ IInv'
  BY IndInvNext DEF TInv, IInv
<1>b. \A o \in Objects : Known(o) => Known(o)' /\ tasks'[o].req = tasks[o].req /\ tasks[o].req.id \in TaskId
  BY <1>a, KnownStays, RequestTypes
<1>c. \A i \in TaskId : store[i] # NoTask => store[i] \in Objects /\ Known(store[i]) /\ tasks[store[i]].req.id = i
  BY <1>a DEF TInv, IInv, StoreById, StoredKnown, TypeOK
<1>d. \A o \in Objects : Known(o)' => Known(o) \/ Started(o)
  BY <1>a, UnknownStays
<1>1. CASE store' = store /\ \A o \in Objects : ~ Started(o)
  BY <1>1, <1>b, <1>c, <1>d DEF TInv, KnownStored, StoreById
<1>2. ASSUME NEW t \in Threads, Restores(t), \A o \in Objects : ~ Started(o)
      PROVE  StoreById' /\ KnownStored'
  <2>1. cur[t] \in Objects /\ Known(cur[t]) /\ store' \in {store, Put(cur[t])}
    BY <1>a, <1>2, RestoreStep DEF IInv, HeldKnown
  <2>2. \A i \in TaskId : store'[i] = store[i] \/ (store'[i] = cur[t] /\ i = tasks[cur[t]].req.id)
    BY <1>a, <2>1 DEF Put, TypeOK
  <2>3. StoreById'
    BY <1>b, <1>c, <2>1, <2>2 DEF StoreById
  <2>4. \A i \in TaskId : store[i] # NoTask => store'[i] # NoTask
    BY <2>1, <2>2 DEF Objects, NoTask
  <2>5. KnownStored'
    BY <1>2, <1>b, <1>d, <2>4 DEF TInv, KnownStored
  <2> QED
    BY <2>3, <2>5
<1>3. ASSUME NEW t \in Threads, StoreTask(t)
      PROVE  StoreById' /\ KnownStored'
  <2>1. fresh[t] \in Objects /\ store' = Put(fresh[t]) /\ tasks[fresh[t]].req.id \in TaskId
    BY <1>a, <1>3, RequestTypes DEF StoreTask, IInv, FreshUnknown, BeforeStore
  <2>2. tasks'[fresh[t]].req = tasks[fresh[t]].req
    BY <1>a, <1>3, <2>1 DEF StoreTask, TypeOK, TaskContext
  <2>3. \A i \in TaskId : \/ store'[i] = store[i] /\ i # tasks[fresh[t]].req.id
                          \/ store'[i] = fresh[t] /\ i = tasks[fresh[t]].req.id
    BY <1>a, <2>1 DEF Put, TypeOK
  <2>4. StoreById'
    BY <1>b, <1>c, <2>1, <2>2, <2>3 DEF StoreById
  <2>5. \A o \in Objects : Started(o) => o = fresh[t]
    <3>1. \A s \in Threads : StoreTask(s) => s = t
      <4>1. \A s \in Threads : StoreTask(s) => pc'[s] = "tick" /\ pc[s] = "store"
        BY <1>a DEF StoreTask, Goto, TypeOK
      <4>2. \A s \in Threads : s # t => pc'[s] = pc[s]
        BY <1>a, <1>3 DEF StoreTask, Goto, TypeOK
      <4> QED
        BY <4>1, <4>2
    <3> QED
      BY <3>1 DEF Started
  <2>6. \A i \in TaskId : store[i] # NoTask => store'[i] # NoTask
    BY <2>1, <2>3 DEF Objects, NoTask
  <2>7. store'[tasks'[fresh[t]].req.id] # NoTask
    BY <2>1, <2>2, <2>3 DEF Objects, NoTask
  <2>8. KnownStored'
    BY <1>b, <1>d, <2>5, <2>6, <2>7 DEF TInv, KnownStored
  <2> QED
    BY <2>4, <2>8
<1>4. CASE (\E p \in Objects : Expire(p)) \/ UNCHANGED vars
  <2>1. store' = store /\ pc' = pc
    BY <1>4 DEF Expire, vars
  <2>2. \A t \in Threads : ~ StoreTask(t)
    BY <1>a, <2>1 DEF StoreTask, Goto, TypeOK
  <2> QED
    BY <1>1, <2>1, <2>2 DEF Started
<1>5. CASE \E t \in Threads : StoreTask(t)
  BY <1>3, <1>5
<1>6. CASE ~ \E t \in Threads : StoreTask(t)
  <2>1. \A o \in Objects : ~ Started(o)
    BY <1>6 DEF Started
  <2>2. ASSUME NEW t \in Threads, ThreadStep(t)
        PROVE  StoreById' /\ KnownStored'
    BY <1>1, <1>2, <1>6, <2>1, <2>2, Restoring
  <2> QED
    BY <1>4, <2>2, NextSteps
<1> QED
  BY <1>5, <1>6

\* A thread on its way to on_task_finished gets there, or finds its task active.
LEMMA OwingStep ==
  ASSUME TInv, NEW t \in Threads, ThreadStep(t), NEW o \in Objects, Ended(o), OnlyOfItsId(o), Owing(t, o)
  PROVE  Owing(t, o)' \/ o \in finished'
<1>a. IInv /\ TypeOK /\ ~ Active(o) /\ Known(o) /\ cur[t] = o
  BY EndedKnown DEF TInv, IInv, Owing
<1>1. CASE pc[t] = "fields"
  <2>1. WriteFields(t)
    BY <1>1, ThreadAt
  <2>2. pc'[t] \in {"collab", "endCond", "finish", "onFinished"} /\ cur' = cur
    BY <1>a, <2>1 DEF WriteFields, Outcome, Goto, TypeOK, locals
  <2> QED
    BY <1>a, <2>2 DEF Owing
<1>2. CASE pc[t] \in {"collab", "dispatch", "arrive", "open", "media"}
  <2>1. Collaborating(t)
    BY <1>2, ThreadAt
  <2>2. pc'[t] \in {"dispatch", "arrive", "sonar", "open", "media", "endCond"} /\ cur' = cur
    BY <1>a, <2>1, CollaborationStep DEF Goto, TypeOK
  <2> QED
    BY <1>a, <2>2 DEF Owing
<1>3. CASE pc[t] = "sonar"
  <2>1. PollSonar(t) /\ tasks[o].status # "running"
    BY <1>a, <1>3, ThreadAt DEF Active, Live
  <2>2. pc'[t] = "endCond" /\ cur' = cur
    BY <1>a, <2>1 DEF PollSonar, Goto, TypeOK
  <2> QED
    BY <1>a, <2>2 DEF Owing
<1>4. CASE pc[t] = "endCond"
  <2>1. EndConditions(t)
    BY <1>4, ThreadAt
  <2>2. pc'[t] = "finish" /\ cur' = cur
    BY <1>a, <2>1 DEF EndConditions, Goto, TypeOK
  <2> QED
    BY <1>a, <2>2 DEF Owing
<1>5. CASE pc[t] = "finish"
  <2>1. Finish(t)
    BY <1>5, ThreadAt
  <2>2. PICK q \in Objects : q = store[tasks[o].req.id] /\ q # NoTask /\ tasks[q].req.id = tasks[o].req.id /\ Known(q)
    BY <1>a, RequestTypes DEF TInv, KnownStored, StoreById, IInv, TypeOK, StoredKnown
  <2>3. q \in 1 .. built
    BY <1>a, <2>2 DEF IInv, UnbuiltUnknown, Objects, TypeOK
  <2>4. q = o
    BY <2>2, <2>3 DEF OnlyOfItsId
  <2>5. pc'[t] = "onFinished" /\ cur'[t] = o
    BY <1>a, <2>1, <2>2, <2>4 DEF Finish, Goto, TypeOK
  <2> QED
    BY <2>5 DEF Owing
<1>6. CASE pc[t] = "onFinished"
  <2>1. OnTaskFinished(t)
    BY <1>6, ThreadAt
  <2> QED
    BY <1>a, <2>1 DEF OnTaskFinished
<1> QED
  BY <1>1, <1>2, <1>3, <1>4, <1>5, <1>6 DEF Owing

\* Only a write of the status takes an object from those handed to on_task_finished.
LEMMA FinishedStep ==
  ASSUME NEW t \in Threads, ThreadStep(t), NEW o \in finished, o \notin finished'
  PROVE  WriteStatus(t) /\ cur[t] = o
<1>1. ~ Collaborating(t)
  BY CollaborationStep
<1> QED
  BY <1>1 DEF Collaborating, ThreadStep, Step, LoopPass, LoopTick, CreateTick, RefreshPreplan, ComputePreplan,
     RefreshPatrol, SelectTarget, WriteStatus, WriteFields, PollSonar, EndConditions, Finish, OnTaskFinished,
     CopyRoute, SnapshotTasks, ReplaceTask, AllReplaced, StoreTask, Return, ApplyFeedback, RegisterRequest,
     CreateTask, TerminateTask, ReadTask, history

\* Who writes the status of an object is on the way to on_task_finished.
LEMMA WriteStatusOwes ==
  ASSUME IInv, NEW t \in Threads, WriteStatus(t), NEW o, cur[t] = o
  PROVE  Owing(t, o)'
<1>1. pc'[t] = "fields" /\ cur' = cur
  BY DEF IInv, TypeOK, WriteStatus, Goto, locals
<1> QED
  BY <1>1 DEF Owing

LEMMA ToldStep ==
  ASSUME TInv, NEW t \in Threads, ThreadStep(t), NEW o \in Objects, Ended(o)', OnlyOfItsId(o)'
  PROVE  o \in finished' \/ \E s \in Threads : Owing(s, o)'
<1>a. IInv /\ TypeOK /\ [Next]_vars
  BY ThreadNext DEF TInv, IInv
<1>1. CASE Ended(o)
  <2>1. Known(o) /\ built \in Nat /\ built' \in {built, built + 1} /\ tasks'[o].req = tasks[o].req
    BY <1>1, <1>a, EndedKnown, KnownStays, BuiltStep DEF TypeOK
  <2>2. \A p \in 1 .. built : p \in 1 .. built' /\ tasks'[p].req = tasks[p].req
    <3>1. \A p \in 1 .. built : p \in Objects
      BY <1>a, TaskLifecycleAssumption DEF TypeOK, Objects
    <3>2. \A p \in 1 .. built : p \in 1 .. built'
      BY <2>1
    <3> QED
      BY <1>a, <3>1, <3>2, RequestKept
  <2>3. OnlyOfItsId(o)
    BY <2>1, <2>2 DEF OnlyOfItsId
  <2>4. ASSUME o \in finished
        PROVE  o \in finished' \/ \E s \in Threads : Owing(s, o)'
    <3>1. CASE WriteStatus(t) /\ cur[t] = o
      BY <1>a, <3>1, WriteStatusOwes
    <3>2. CASE ~ (WriteStatus(t) /\ cur[t] = o)
      BY <2>4, <3>2, FinishedStep
    <3> QED
      BY <3>1, <3>2
  <2>5. ASSUME NEW s \in Threads, Owing(s, o)
        PROVE  o \in finished' \/ \E u \in Threads : Owing(u, o)'
    <3>1. CASE s = t
      BY <1>1, <2>3, <2>5, <3>1, OwingStep
    <3>2. CASE s # t
      BY <1>a, <2>5, <3>2, OwnLocalsOnly DEF Owing
    <3> QED
      BY <3>1, <3>2
  <2> QED
    BY <1>1, <2>3, <2>4, <2>5 DEF TInv, Told
<1>2. CASE ~ Ended(o)
  <2>1. ~ StatusKept(o) /\ ~ Started(o) /\ ~ Created(o)
    BY <1>2 DEF StatusKept, Started, Created, Ended, Final
  <2>2. PICK s \in Threads : WriteStatus(s) /\ cur[s] = o
    BY <1>a, <2>1, StatusWrites DEF Decided
  <2>3. Owing(s, o)'
    BY <1>a, <2>2, WriteStatusOwes
  <2> QED
    BY <2>3
<1> QED
  BY <1>1, <1>2

LEMMA TInvInit == Init => TInv
  BY IndInvInit DEF TInv, Init, StoreById, KnownStored, Told, Known, Ended, Final, NewTask

LEMMA TInvNext ==
  ASSUME TInv, [Next]_vars
  PROVE  TInv'
<1>1. IInv' /\ StoreById' /\ KnownStored'
  BY IndInvNext, StoreByIdStep DEF TInv
<1>2. ASSUME NEW t \in Threads, ThreadStep(t)
      PROVE  Told'
  BY <1>2, ToldStep DEF Told
<1>3. ASSUME (\E p \in Objects : Expire(p)) \/ UNCHANGED vars
      PROVE  Told'
  <2>1. UNCHANGED <<built, pc, cur, finished>>
    BY <1>3 DEF Expire, vars, locals, history
  <2>2. \A o \in Objects : tasks'[o].status = tasks[o].status /\ tasks'[o].req = tasks[o].req
    BY <1>3 DEF Expire, vars, TInv, IInv, TypeOK, TaskContext
  <2>3. \A p \in 1 .. built : p \in Objects
    BY TaskLifecycleAssumption DEF TInv, IInv, TypeOK, Objects
  <2>4. \A o \in Objects : (OnlyOfItsId(o)' => OnlyOfItsId(o)) /\ (Ended(o)' => Ended(o))
    BY <2>1, <2>2, <2>3 DEF OnlyOfItsId, Ended
  <2>5. \A o \in Objects, t \in Threads : Owing(t, o) => Owing(t, o)'
    BY <2>1 DEF Owing
  <2> QED
    BY <2>1, <2>4, <2>5 DEF TInv, Told
<1> QED
  BY <1>1, <1>2, <1>3, NextSteps DEF TInv

\* Whatever overlaps, a task that has ended and that no handler works on was
\* handed to on_task_finished after its last end, for any number of threads.
THEOREM EndIsToldHolds == Spec => []EndIsTold
<1>1. TInv => EndIsTold
  BY DEF TInv, Told, Owing, EndIsTold
<1> QED
  BY <1>1, TInvInit, TInvNext, PTL DEF Spec

-----------------------------------------------------------------------------
(* Termination by right: manual_terminate_allowed, or another task. *)

AnotherBuilt(o) == \E p \in 1 .. built : p # o

PendingByRight ==
  \A t \in Threads : pc[t] = "status" /\ outcome[t].status = "terminated" =>
    tasks[cur[t]].req.manual \/ AnotherBuilt(cur[t])

RInv == IInv /\ PendingByRight /\ UnstoppableOnlyReplaced

LEMMA PendingByRightStep ==
  ASSUME RInv, NEW t \in Threads, ThreadStep(t),
         pc'[t] = "status", outcome'[t].status = "terminated"
  PROVE  cur'[t] \in Objects /\ (tasks[cur'[t]].req.manual \/ \E p \in 1 .. built : p # cur'[t])
<1> DEFINE Goal == cur'[t] \in Objects /\ (tasks[cur'[t]].req.manual \/ \E p \in 1 .. built : p # cur'[t])
<1> SUFFICES Goal
  OBVIOUS
<1> USE DEF RInv, IInv
<1>1. CASE LoopPass(t) \/ WriteStatus(t) \/ RefreshPatrol(t)
  BY <1>1 DEF LoopPass, WriteStatus, RefreshPatrol, locals, Goto, TypeOK
<1>2. CASE LoopTick(t) \/ CreateTick(t)
  BY <1>2, ThreadTickStart, RequestTypes, FirstStepType
<1>3. CASE RefreshPreplan(t) \/ ComputePreplan(t)
  BY <1>3 DEF RefreshPreplan, ComputePreplan, Write, Complete, Goto, TypeOK
<1>4. CASE SelectTarget(t)
  BY <1>4 DEF SelectTarget, Write, Engage, AwaitTarget, Goto, TypeOK
<1>5. CASE WriteFields(t) BY <1>5 DEF WriteFields, Outcome, Goto, TypeOK
<1>6. CASE Collaborating(t)
  BY <1>6, CollaborationStep DEF Goto, TypeOK
<1>7. CASE PollSonar(t) \/ EndConditions(t)
  BY <1>7 DEF PollSonar, EndConditions, Write, Complete, Goto, TypeOK
<1>8. CASE Finish(t) \/ OnTaskFinished(t)
  BY <1>8 DEF Finish, OnTaskFinished, Goto, TypeOK
<1>9. CASE ReplaceTask(t)
  <2>1. pc[t] = "replace" /\ fresh[t] \in 1 .. built /\ ~ Known(fresh[t])
    BY <1>9 DEF ReplaceTask, FreshUnknown, BeforeStore, Objects, TypeOK
  <2>2. PICK o \in todo[t] : Write(t, o, Terminate)
    BY <1>9, <2>1 DEF ReplaceTask
  <2>3. o \in Objects /\ Known(o) /\ cur'[t] = o
    BY <2>2 DEF Write, TypeOK, SnapshotKnown
  <2> QED
    BY <2>1, <2>3
<1>10. CASE AllReplaced(t) \/ StoreTask(t) \/ Return(t) \/ CopyRoute(t) \/ SnapshotTasks(t)
            \/ ApplyFeedback(t) \/ RegisterRequest(t)
  BY <1>10 DEF AllReplaced, StoreTask, Return, CopyRoute, SnapshotTasks, ApplyFeedback, RegisterRequest, Goto, TypeOK
<1>11. ASSUME NEW r \in Requests, CreateTask(t, r) PROVE Goal
  BY <1>11 DEF CreateTask, Goto, TypeOK
<1>12. ASSUME NEW i \in TaskId, TerminateTask(t, i) \/ ReadTask(t, i) PROVE Goal
  BY <1>12 DEF TerminateTask, ReadTask, Write, Goto, TypeOK
<1> QED
  BY <1>1, <1>2, <1>3, <1>4, <1>5, <1>6, <1>7, <1>8, <1>9, <1>10, <1>11, <1>12
  DEF ThreadStep, Step, Collaborating

LEMMA RInvInit == Init => RInv
  BY IndInvInit DEF RInv, Init, PendingByRight, UnstoppableOnlyReplaced, NewTask

LEMMA RInvNext ==
  ASSUME RInv, [Next]_vars
  PROVE  RInv'
<1>1. IInv /\ IInv'
  BY IndInvNext DEF RInv
<1>2. built \in Nat /\ built' \in Nat /\ built <= built'
  BY <1>1, NextSteps, BuiltStep DEF IInv, TypeOK, Expire, vars
<1>3. ASSUME NEW o \in Objects, tasks'[o].status = "terminated", ~ tasks'[o].req.manual
      PROVE  \E p \in 1 .. built' : p # o
  <2>1. CASE StatusKept(o) /\ tasks'[o].req = tasks[o].req
    BY <1>2, <1>3, <2>1 DEF RInv, UnstoppableOnlyReplaced, StatusKept
  <2>2. CASE Decided(o) /\ tasks'[o].req = tasks[o].req
    BY <1>2, <1>3, <2>2 DEF RInv, PendingByRight, AnotherBuilt, Decided
  <2> QED
    BY <1>1, <1>3, <2>1, <2>2, StatusWrites DEF Started, Created
<1>4. \A t \in Threads : pc[t] = "status" =>
        cur[t] \in Objects /\ tasks'[cur[t]].req = tasks[cur[t]].req
  BY <1>1, KnownStays DEF IInv, HeldKnown, Holding
<1>5. ASSUME NEW t \in Threads, ThreadStep(t) PROVE PendingByRight'
  <2>1. \A s \in Threads \ {t} :
          /\ pc'[s] = pc[s] /\ cur'[s] = cur[s] /\ outcome'[s] = outcome[s]
    BY <1>1, <1>5, OwnLocalsOnly DEF IInv
  <2>2. ASSUME NEW s \in Threads, pc'[s] = "status", outcome'[s].status = "terminated"
        PROVE  tasks'[cur'[s]].req.manual \/ \E p \in 1 .. built' : p # cur'[s]
    <3>1. cur'[s] \in Objects /\ (tasks[cur'[s]].req.manual \/ \E p \in 1 .. built : p # cur'[s])
      BY <1>4, <1>5, <2>1, <2>2, PendingByRightStep DEF RInv, PendingByRight, AnotherBuilt
    <3>2. tasks'[cur'[s]].req = tasks[cur'[s]].req
      BY <1>1, <1>5, <2>1, <2>2, OwnObjectsKnown, KnownStays DEF IInv, HeldKnown, Holding
    <3> QED
      BY <1>2, <3>1, <3>2
  <2> QED
    BY <2>2 DEF PendingByRight, AnotherBuilt
<1>6. ASSUME (\E p \in Objects : Expire(p)) \/ UNCHANGED vars
      PROVE  PendingByRight'
  <2>1. UNCHANGED <<built, pc, cur, outcome>>
    BY <1>6 DEF Expire, vars, locals
  <2> QED
    BY <1>4, <2>1 DEF RInv, PendingByRight, AnotherBuilt
<1>7. PendingByRight'
  BY <1>5, <1>6, NextSteps
<1> QED
  BY <1>1, <1>3, <1>7 DEF RInv, UnstoppableOnlyReplaced

\* A task that clients may not terminate is terminated only if another task has
\* been created, however the threads interleave.
THEOREM UnstoppableOnlyReplacedHolds == Spec => []UnstoppableOnlyReplaced
<1>1. RInv => UnstoppableOnlyReplaced
  BY DEF RInv
<1> QED
  BY <1>1, RInvInit, RInvNext, PTL DEF Spec

=============================================================================
