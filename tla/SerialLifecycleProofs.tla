------------------------ MODULE SerialLifecycleProofs ------------------------
(***************************************************************************)
(* Proofs about TaskLifecycle while its handlers run one after the other:  *)
(* what create, replace, tick and terminate promise, for any ids, requests *)
(* and number of objects.                                                  *)
(***************************************************************************)
EXTENDS TaskLifecycleProofs

\* One thread, of the loop or of the pool, runs every handler to its end.
Serial == \A s, t \in Threads : s = t

-----------------------------------------------------------------------------
(* The inductive invariant. *)

\* The store holds what a handler works on, and every active task.
Own(o) == store[tasks[o].req.id] = o

StoreFits ==
  /\ \A i \in TaskId : store[i] # NoTask => tasks[store[i]].req.id = i
  /\ \A o \in Objects : Active(o) => Own(o)
  /\ \A t \in Threads : /\ pc[t] \in Holding => Own(cur[t])
                        /\ \A o \in todo[t] : Own(o)

\* A creation holds the object whose route it copies, an earlier one of the same id.
Copying ==
  \A t \in Threads : pc[t] = "copy" /\ cur[t] # NoTask =>
    /\ Known(cur[t]) /\ cur[t] < fresh[t]
    /\ tasks[cur[t]].req.id = tasks[fresh[t]].req.id

\* A new task is stored when every task before it has ended.
Sole ==
  /\ \A o, p \in Objects : Active(o) /\ Active(p) => o = p
  /\ \A t \in Threads :
       /\ BeforeStore(t) => fresh[t] = built
       /\ BeforeStore(t) /\ pc[t] \notin {"copy", "snapshot"} =>
            \A o \in Objects : Active(o) => o \in todo[t] \/ (pc[t] = "status" /\ cur[t] = o)
       /\ pc[t] = "store" => todo[t] = {}

\* A task that is refreshed is active, and only a preplan without a result is computed.
Ticking ==
  \A t \in Threads :
    /\ pc[t] \in {"preplan", "compute", "patrol", "select"} => Active(cur[t])
    /\ pc[t] \in {"preplan", "compute"} => tasks[cur[t]].req.kind = "preplan"
    /\ pc[t] = "compute" => tasks[cur[t]].plan = 0

\* The writes a thread is in the middle of tell one story.
Coherent(w) ==
  /\ w.status \in Final <=> w.phase = "completed"
  /\ w.status \in Live => w.reason = Keep
  /\ w.status = "terminated" => w.reason = "manual_terminated"
  /\ w.then = "onFinished" => w.status = "terminated"
  /\ w.reason # "none"

Writing ==
  \A t \in Threads : pc[t] \in {"status", "fields"} =>
    /\ Coherent(outcome[t])
    /\ outcome[t].status = "completed" /\ outcome[t].reason = Keep => tasks[cur[t]].req.kind = "preplan"
    /\ pc[t] = "status" /\ outcome[t].status \in Live => Active(cur[t])
    /\ pc[t] = "fields" => /\ tasks[cur[t]].status = outcome[t].status
                           /\ Active(cur[t]) => tasks[cur[t]].reason = "none"

\* Status, phase and reason of an object agree unless they are being written, but
\* for the phase that an operator's feedback has set.
Story(o) ==
  /\ o \notin chosen => (Ended(o) <=> tasks[o].phase = "completed")
  /\ tasks[o].reason # "none" => Ended(o)
  /\ tasks[o].status = "terminated" => tasks[o].reason = "manual_terminated"
  /\ Ended(o) /\ tasks[o].req.kind # "preplan" => tasks[o].reason # "none"

Stories == \A o \in Objects : Story(o) \/ \E t \in Threads : pc[t] = "fields" /\ cur[t] = o

\* A preplan with a result is over, or about to be.
PlansOver ==
  \A o \in Objects : tasks[o].plan # 0 =>
    \/ Ended(o)
    \/ \E t \in Threads : pc[t] = "status" /\ cur[t] = o /\ outcome[t].status \in Final

SInv ==
  /\ IInv /\ StoreFits /\ Copying /\ Sole /\ Ticking /\ Writing /\ Stories /\ PlansOver
  /\ ConfirmedRouteStands

-----------------------------------------------------------------------------
(* What a step does to the store and to the status of the objects. *)

\* Which step brings a thread to some labels.
LEMMA NextLabel ==
  ASSUME IInv, NEW t \in Threads, ThreadStep(t)
  PROVE  /\ pc'[t] = "fields" => WriteStatus(t)
         /\ pc'[t] = "store" => AllReplaced(t)
         /\ pc'[t] = "copy" => \E r \in Requests : CreateTask(t, r)
         /\ pc'[t] = "compute" => RefreshPreplan(t)
         /\ pc'[t] = "preplan" => LoopTick(t) \/ CreateTick(t)
         /\ pc'[t] \in {"patrol", "select"} => LoopTick(t) \/ CreateTick(t) \/ RefreshPatrol(t)
         /\ pc'[t] = "status" =>
              \/ RefreshPreplan(t) \/ ComputePreplan(t) \/ SelectTarget(t) \/ PollSonar(t) \/ EndConditions(t)
              \/ ReplaceTask(t) \/ \E i \in TaskId : TerminateTask(t, i)
<1> DEFINE Other == pc'[t] \notin {"fields", "store", "copy", "compute", "preplan", "patrol", "select", "status"}
<1> USE DEF IInv
<1>1. CASE LoopTick(t) \/ CreateTick(t)
  <2>1. pc'[t] \in {"return", "preplan", "patrol", "select"}
    BY <1>1, ThreadTickStart, RequestTypes, FirstStepType
  <2> QED
    BY <1>1, <2>1
<1>2. CASE LoopPass(t) \/ StoreTask(t) \/ Return(t) \/ CopyRoute(t) \/ SnapshotTasks(t)
  <2>1. Other
    BY <1>2 DEF LoopPass, StoreTask, Return, CopyRoute, SnapshotTasks, Goto, TypeOK
  <2> QED
    BY <2>1
<1>3. CASE RefreshPreplan(t)
  <2>1. pc'[t] \in {"compute", "status"}
    BY <1>3 DEF RefreshPreplan, Write, Goto, TypeOK
  <2> QED
    BY <1>3, <2>1
<1>4. CASE ComputePreplan(t) \/ SelectTarget(t)
  <2>1. pc'[t] = "status"
    BY <1>4 DEF ComputePreplan, SelectTarget, Write, Goto, TypeOK
  <2> QED
    BY <1>4, <2>1
<1>5. CASE RefreshPatrol(t)
  <2>1. pc'[t] \in {"collab", "select"}
    BY <1>5 DEF RefreshPatrol, Goto, TypeOK
  <2> QED
    BY <1>5, <2>1
<1>6. CASE WriteStatus(t)
  <2>1. pc'[t] = "fields"
    BY <1>6 DEF WriteStatus, Goto, TypeOK
  <2> QED
    BY <1>6, <2>1
<1>7. CASE WriteFields(t)
  <2>1. Other
    BY <1>7 DEF WriteFields, Outcome, Goto, TypeOK
  <2> QED
    BY <2>1
<1>8. CASE Collaborating(t)
  <2>1. Other
    BY <1>8, CollaborationStep DEF Goto, TypeOK
  <2> QED
    BY <2>1
<1>9. CASE PollSonar(t) \/ EndConditions(t)
  <2>1. pc'[t] \in {"status", "endCond", "finish"}
    BY <1>9 DEF PollSonar, EndConditions, Write, Complete, Goto, TypeOK
  <2> QED
    BY <1>9, <2>1
<1>10. CASE Finish(t) \/ OnTaskFinished(t) \/ ApplyFeedback(t) \/ RegisterRequest(t)
  <2>1. Other
    BY <1>10 DEF Finish, OnTaskFinished, ApplyFeedback, RegisterRequest, Goto, TypeOK
  <2> QED
    BY <2>1
<1>11. CASE ReplaceTask(t)
  <2>1. pc'[t] \in {"replace", "status"}
    BY <1>11 DEF ReplaceTask, Write, Goto, TypeOK
  <2> QED
    BY <1>11, <2>1
<1>12. CASE AllReplaced(t)
  <2>1. pc'[t] = "store"
    BY <1>12 DEF AllReplaced, Goto, TypeOK
  <2> QED
    BY <1>12, <2>1
<1>13. CASE \E r \in Requests : CreateTask(t, r)
  <2>1. pc'[t] = "copy"
    BY <1>13 DEF CreateTask, Goto, TypeOK
  <2> QED
    BY <1>13, <2>1
<1>14. CASE \E i \in TaskId : TerminateTask(t, i)
  <2>1. pc'[t] = "status"
    BY <1>14 DEF TerminateTask, Write, Goto, TypeOK
  <2> QED
    BY <1>14, <2>1
<1>15. CASE \E i \in TaskId : ReadTask(t, i)
  <2>1. Other
    BY <1>15 DEF ReadTask, Goto, TypeOK
  <2> QED
    BY <2>1
<1> QED
  BY <1>1, <1>2, <1>3, <1>4, <1>5, <1>6, <1>7, <1>8, <1>9, <1>10, <1>11, <1>12, <1>13, <1>14, <1>15
  DEF ThreadStep, Step, Collaborating

\* A task becomes active only when it is stored, and none is active again once it has ended.
LEMMA StatusStep ==
  ASSUME SInv, [Next]_vars, NEW o \in Objects
  PROVE  /\ Ended(o) => Ended(o)'
         /\ Active(o)' => Active(o) \/ Started(o)
         /\ ~ Created(o) => tasks'[o].req = tasks[o].req
         /\ Known(o) => ~ Created(o)
<1>1. IInv
  BY DEF SInv
<1>2. \A t \in Threads : pc[t] = "status" /\ outcome[t].status \in Live => Active(cur[t])
  BY DEF SInv, Writing
<1>3. Ended(o) => Ended(o)'
  <2>1. Ended(o) => ~ Active(o)
    BY EndedKnown
  <2> QED
    BY <1>1, <1>2, <2>1, EndedStep
<1>4. Created(o) => ~ Active(o)'
  BY DEF Created, Active, Live
<1>5. Known(o) => ~ Created(o)
  BY <1>1 DEF IInv, UnbuiltUnknown, TypeOK, Created, Objects
<1>6. Decided(o) /\ Active(o)' => Active(o)
  BY <1>2 DEF Decided, Active
<1>7. StatusKept(o) /\ Active(o)' => Active(o)
  BY DEF StatusKept, Active
<1> QED
  BY <1>1, <1>3, <1>4, <1>5, <1>6, <1>7, StatusWrites

\* What is stored under an id is a task of that id.
LEMMA Storing ==
  ASSUME SInv, NEW i \in TaskId, store[i] # NoTask
  PROVE  store[i] \in Objects /\ Known(store[i]) /\ Own(store[i])
  BY DEF SInv, IInv, TypeOK, StoredKnown, StoreFits, Own

\* Every update puts back the object that is stored already, but for the first.
LEMMA StoreKept ==
  ASSUME SInv, NEW t \in Threads, ThreadStep(t), ~ StoreTask(t)
  PROVE  store' = store
<1>1. CASE Restores(t)
  <2>1. pc[t] \in Holding /\ store' \in {store, Put(cur[t])}
    BY <1>1, RestoreStep
  <2>2. Put(cur[t]) = store
    BY <2>1 DEF SInv, IInv, TypeOK, StoreFits, Own, Put
  <2> QED
    BY <2>1, <2>2
<1> QED
  BY <1>1, Restoring

\* When a new task is stored, no other is active.
LEMMA StoredAlone ==
  ASSUME SInv, NEW t \in Threads, StoreTask(t)
  PROVE  /\ \A o \in Objects : ~ Active(o)
         /\ fresh[t] \in Objects /\ ~ Known(fresh[t]) /\ todo[t] = {} /\ todo' = todo
         /\ store' = Put(fresh[t]) /\ pc'[t] = "tick" /\ cur' = cur
<1>1. BeforeStore(t) /\ pc[t] = "store"
  BY DEF StoreTask, BeforeStore
<1> QED
  BY <1>1 DEF SInv, Sole, IInv, FreshUnknown, TypeOK, StoreTask, Goto, locals

\* What a thread holds and has in its snapshot is in the store.
LEMMA OwnStep ==
  ASSUME SInv, NEW t \in Threads, ThreadStep(t)
  PROVE  /\ pc'[t] \in Holding => Own(cur'[t])
         /\ \A o \in todo'[t] : Own(o)
<1> DEFINE Goal == /\ pc'[t] \in Holding => Own(cur'[t])
                   /\ \A o \in todo'[t] : Own(o)
<1>a. \A o \in Stored : Own(o)
  BY Storing DEF Stored
<1>b. TypeOK /\ (pc[t] \in Holding => Own(cur[t])) /\ \A o \in todo[t] : Own(o)
  BY DEF SInv, IInv, StoreFits
<1>c. \A o \in Objects : tasks[o].req.id \in TaskId
  BY <1>b, RequestTypes
<1>d. ASSUME NEW i \in TaskId, StartTick(t, i)
      PROVE  pc'[t] \in Holding => Own(cur'[t])
  BY <1>b, <1>d, Storing DEF StartTick, Goto, TypeOK, Holding
<1>1. CASE LoopPass(t)
  BY <1>1, <1>a, <1>b DEF LoopPass, TypeOK
<1>2. CASE LoopTick(t)
  BY <1>2, <1>b, <1>c, <1>d DEF LoopTick, TypeOK
<1>3. CASE CreateTick(t)
  BY <1>3, <1>b, <1>c, <1>d DEF CreateTick, SInv, IInv, TickHasTask
<1>4. CASE RefreshPreplan(t) \/ ComputePreplan(t) \/ SelectTarget(t) \/ PollSonar(t) \/ EndConditions(t)
  <2>1. pc[t] \in Holding /\ todo' = todo /\ cur' \in {cur, [cur EXCEPT ![t] = cur[t]]}
    BY <1>4 DEF RefreshPreplan, ComputePreplan, SelectTarget, PollSonar, EndConditions, Write, Holding
  <2>2. cur'[t] = cur[t]
    BY <1>b, <2>1 DEF TypeOK
  <2> QED
    BY <1>b, <2>1, <2>2
<1>5. CASE \/ RefreshPatrol(t) \/ WriteStatus(t) \/ WriteFields(t) \/ OnTaskFinished(t)
           \/ ApplyFeedback(t) \/ RegisterRequest(t) \/ Collaborating(t)
  <2>1. CASE Collaborating(t)
    BY <1>b, <2>1, CollaborationStep DEF Holding
  <2>2. CASE ~ Collaborating(t)
    <3>1. pc[t] \in Holding /\ todo' = todo /\ cur' = cur
      BY <1>5, <2>2 DEF RefreshPatrol, WriteStatus, WriteFields, OnTaskFinished, ApplyFeedback, RegisterRequest,
         locals, Holding
    <3> QED
      BY <1>b, <3>1
  <2> QED
    BY <2>1, <2>2
<1>6. CASE Finish(t)
  <2>1. cur[t] \in Objects
    BY <1>6 DEF Finish, SInv, IInv, HeldKnown, Holding
  <2> QED
    BY <1>6, <1>b, <1>c, <2>1, Storing DEF Finish, Goto, TypeOK, Holding
<1>7. CASE AllReplaced(t) \/ StoreTask(t) \/ Return(t) \/ CopyRoute(t)
  BY <1>7, <1>b DEF AllReplaced, StoreTask, Return, CopyRoute, Goto, TypeOK, Holding, locals
<1>8. CASE ReplaceTask(t)
  BY <1>8, <1>b DEF ReplaceTask, Write, Goto, TypeOK, Holding
<1>9. CASE SnapshotTasks(t)
  BY <1>9, <1>a, <1>b DEF SnapshotTasks, Goto, TypeOK, Holding
<1>10. ASSUME NEW r \in Requests, CreateTask(t, r) PROVE Goal
  BY <1>10, <1>b DEF CreateTask, Goto, TypeOK, Holding
<1>11. ASSUME NEW i \in TaskId, TerminateTask(t, i) PROVE Goal
  BY <1>11, <1>b, Storing DEF TerminateTask, Write, Goto, TypeOK, Holding
<1>12. ASSUME NEW i \in TaskId, ReadTask(t, i) PROVE Goal
  BY <1>12, <1>b, Storing DEF ReadTask, Goto, TypeOK, Holding
<1> QED
  BY <1>1, <1>2, <1>3, <1>4, <1>5, <1>6, <1>7, <1>8, <1>9, <1>10, <1>11, <1>12
  DEF ThreadStep, Step, Collaborating

LEMMA StoreFitsStep ==
  ASSUME SInv, Serial, NEW t \in Threads, ThreadStep(t)
  PROVE  StoreFits'
<1>1. [Next]_vars /\ IInv /\ IInv' /\ \A s \in Threads : s = t
  BY ThreadNext, IndInvNext DEF SInv, Serial
<1>2. ASSUME NEW o \in Objects, Known(o), Own(o), ~ StoreTask(t)
      PROVE  Own(o)'
  BY <1>1, <1>2, StoreKept, KnownStays DEF Own
<1>3. ASSUME NEW i \in TaskId, store'[i] # NoTask
      PROVE  tasks'[store'[i]].req.id = i
  <2>1. CASE StoreTask(t)
    <3>1. store' = Put(fresh[t]) /\ fresh[t] \in Objects
      BY <2>1, StoredAlone
    <3>2. tasks'[fresh[t]].req = tasks[fresh[t]].req
      BY <2>1, <3>1, <1>1 DEF IInv, TypeOK, TaskContext, StoreTask
    <3>3. CASE i = tasks[fresh[t]].req.id
      BY <3>1, <3>2, <3>3, <1>1 DEF Put, IInv, TypeOK
    <3>4. CASE i # tasks[fresh[t]].req.id
      <4>1. store'[i] = store[i]
        BY <3>1, <3>4, <1>1 DEF Put, IInv, TypeOK
      <4> QED
        BY <1>1, <1>3, <4>1, Storing, KnownStays DEF SInv, StoreFits
    <3> QED
      BY <3>3, <3>4
  <2>2. CASE ~ StoreTask(t)
    BY <1>1, <1>3, <2>2, StoreKept, Storing, KnownStays DEF SInv, StoreFits
  <2> QED
    BY <2>1, <2>2
<1>4. ASSUME NEW o \in Objects, Active(o)'
      PROVE  Own(o)'
  <2>1. CASE StoreTask(t)
    <3>1. o = fresh[t]
      BY <1>1, <1>4, <2>1, StoredAlone, StatusStep DEF Started
    <3>2. tasks'[o].req = tasks[o].req /\ tasks[o].req.id \in TaskId
      BY <1>1, <2>1, <3>1, RequestTypes DEF IInv, TypeOK, TaskContext, StoreTask
    <3> QED
      BY <1>1, <2>1, <3>1, <3>2, StoredAlone DEF Own, Put, IInv, TypeOK
  <2>2. CASE ~ StoreTask(t)
    <3>1. Active(o)
      BY <1>1, <1>4, <2>2, StatusStep DEF Started
    <3>2. Known(o) /\ Own(o)
      BY <3>1 DEF SInv, StoreFits, Known, Active, Live
    <3> QED
      BY <1>2, <2>2, <3>2
  <2> QED
    BY <2>1, <2>2
<1>5. (pc[t] \in Holding => Own(cur[t]))'
  <2>1. pc'[t] \in Holding => ~ StoreTask(t)
    BY StoredAlone DEF Holding
  <2>2. ASSUME pc'[t] \in Holding
        PROVE  cur'[t] \in Objects /\ Known(cur'[t]) /\ Own(cur'[t])
    BY <1>1, <2>2, OwnStep, OwnObjectsKnown
  <2>3. \A o \in Objects : Known(o) /\ Own(o) /\ ~ StoreTask(t) => Own(o)'
    BY <1>2
  <2> QED
    BY <2>1, <2>2, <2>3 DEF Own
<1>6. (\A o \in todo[t] : Own(o))'
  <2>1. CASE StoreTask(t)
    BY <2>1, StoredAlone
  <2>2. CASE ~ StoreTask(t)
    BY <1>1, <1>2, <2>2, OwnStep, OwnObjectsKnown
  <2> QED
    BY <2>1, <2>2
<1> QED
  BY <1>1, <1>3, <1>4, <1>5, <1>6 DEF StoreFits

-----------------------------------------------------------------------------
(* What a step does to the other parts of the invariant. *)

\* A creation ends the tasks before it one by one.
LEMMA RemainingStep ==
  ASSUME SInv, NEW t \in Threads, ThreadStep(t), BeforeStore(t), pc[t] \notin {"copy", "snapshot"}, ~ StoreTask(t),
         NEW o \in Objects, Active(o), Active(o)'
  PROVE  o \in todo'[t] \/ (pc'[t] = "status" /\ cur'[t] = o)
<1>1. TypeOK /\ (o \in todo[t] \/ (pc[t] = "status" /\ cur[t] = o))
  BY DEF SInv, IInv, Sole
<1>2. pc[t] \in Replacing \cup {"replace", "store"}
  BY DEF BeforeStore, Replacing
<1>3. CASE ReplaceTask(t)
  <2>1. PICK p \in todo[t] :
          /\ todo' = [todo EXCEPT ![t] = @ \ {p}]
          /\ IF Replaceable(p)
             THEN Write(t, p, Terminate) /\ back' = [back EXCEPT ![t] = "replace"]
             ELSE UNCHANGED <<pc, cur, outcome, back>>
    BY <1>3 DEF ReplaceTask
  <2>2. pc[t] = "replace"
    BY <1>3 DEF ReplaceTask
  <2>3. CASE o = p
    BY <1>1, <2>1, <2>3 DEF Replaceable, Write, Goto, TypeOK
  <2>4. CASE o # p
    BY <1>1, <2>1, <2>2, <2>4 DEF TypeOK
  <2> QED
    BY <2>3, <2>4
<1>4. CASE WriteStatus(t)
  <2>1. back[t] = "replace" /\ outcome[t].then = "onFinished"
    BY <1>4 DEF BeforeStore, WriteStatus, SInv, IInv, BackToReplace
  <2>2. outcome[t].status = "terminated"
    BY <1>4, <2>1 DEF WriteStatus, SInv, Writing, Coherent
  <2>3. cur[t] # o
    BY <1>1, <1>4, <2>2 DEF WriteStatus, Active, Live, TypeOK, TaskContext
  <2> QED
    BY <1>1, <1>4, <2>3 DEF WriteStatus, locals
<1>5. CASE WriteFields(t) \/ OnTaskFinished(t) \/ AllReplaced(t)
  <2>1. pc[t] # "status" /\ todo' = todo
    BY <1>5 DEF WriteFields, OnTaskFinished, AllReplaced, locals
  <2> QED
    BY <1>1, <2>1
<1> QED
  BY <1>2, <1>3, <1>4, <1>5, ThreadAt DEF Replacing

LEMMA SoleStep ==
  ASSUME SInv, Serial, NEW t \in Threads, ThreadStep(t)
  PROVE  Sole'
<1>1. [Next]_vars /\ IInv /\ IInv' /\ \A s \in Threads : s = t
  BY ThreadNext, IndInvNext DEF SInv, Serial
<1>2. ASSUME NEW o \in Objects, NEW p \in Objects, Active(o)', Active(p)'
      PROVE  o = p
  <2>1. CASE StoreTask(t)
    BY <1>1, <1>2, <2>1, StoredAlone, StatusStep DEF Started
  <2>2. CASE ~ StoreTask(t)
    <3>1. Active(o) /\ Active(p)
      BY <1>1, <1>2, <2>2, StatusStep DEF Started
    <3> QED
      BY <3>1 DEF SInv, Sole
  <2> QED
    BY <2>1, <2>2
<1>3. ASSUME BeforeStore(t)'
      PROVE  /\ fresh'[t] = built'
             /\ pc'[t] \notin {"copy", "snapshot"} =>
                  \A o \in Objects : Active(o)' => o \in todo'[t] \/ (pc'[t] = "status" /\ cur'[t] = o)
  <2>1. CASE BeforeStore(t) /\ fresh'[t] = fresh[t] /\ built' = built /\ ~ StoreTask(t)
    <3>1. ASSUME NEW o \in Objects, Active(o)', pc'[t] \notin {"copy", "snapshot"}
          PROVE  o \in todo'[t] \/ (pc'[t] = "status" /\ cur'[t] = o)
      <4>1. Active(o)
        BY <1>1, <2>1, <3>1, StatusStep DEF Started
      <4>2. CASE pc[t] \notin {"copy", "snapshot"}
        BY <2>1, <3>1, <4>1, <4>2, RemainingStep
      <4>3. CASE pc[t] = "copy"
        <5>1. CopyRoute(t)
          BY <4>3, ThreadAt
        <5>2. pc'[t] = "snapshot"
          BY <1>1, <5>1 DEF CopyRoute, Goto, IInv, TypeOK
        <5> QED
          BY <3>1, <5>2
      <4>4. CASE pc[t] = "snapshot"
        <5>1. SnapshotTasks(t)
          BY <4>4, ThreadAt
        <5>2. todo'[t] = Stored
          BY <1>1, <5>1 DEF SnapshotTasks, IInv, TypeOK
        <5>3. Own(o) /\ tasks[o].req.id \in TaskId
          BY <1>1, <4>1, RequestTypes DEF SInv, StoreFits, IInv
        <5>4. o \in Stored
          BY <5>3 DEF Own, Stored, Objects, NoTask
        <5> QED
          BY <5>2, <5>4
      <4> QED
        BY <4>2, <4>3, <4>4
    <3> QED
      BY <2>1, <3>1 DEF SInv, Sole
  <2>2. CASE fresh'[t] = built + 1 /\ built' = built + 1
    <3>1. PICK r \in Requests : CreateTask(t, r)
      BY <1>1, <2>2, BuiltStep DEF IInv, TypeOK
    <3>2. pc'[t] = "copy"
      BY <1>1, <3>1 DEF CreateTask, Goto, IInv, TypeOK
    <3> QED
      BY <2>2, <3>2
  <2> QED
    BY <1>1, <1>3, <2>1, <2>2, BeforeStoreStep
<1>4. pc'[t] = "store" => todo'[t] = {}
  BY <1>1, NextLabel DEF AllReplaced
<1> QED
  BY <1>1, <1>2, <1>3, <1>4 DEF Sole

\* A creation copies the route of the object under its id.
LEMMA CopyingStep ==
  ASSUME SInv, Serial, NEW t \in Threads, ThreadStep(t)
  PROVE  Copying'
<1>a. IInv /\ TypeOK /\ [Next]_vars
  BY ThreadNext DEF SInv, IInv
<1> SUFFICES ASSUME pc'[t] = "copy", cur'[t] # NoTask
             PROVE  /\ Known(cur[t])' /\ cur'[t] < fresh'[t]
                    /\ tasks'[cur'[t]].req.id = tasks'[fresh'[t]].req.id
  BY DEF Serial, Copying
<1>1. PICK r \in Requests : CreateTask(t, r)
  BY <1>a, NextLabel
<1>2. /\ cur'[t] = store[r.id] /\ fresh'[t] = built + 1 /\ built + 1 \in Objects /\ built \in Nat
      /\ tasks'[built + 1] = NewTask(r) /\ r.id \in TaskId
  BY <1>a, <1>1, TaskLifecycleAssumption DEF CreateTask, TypeOK, Objects, Request
<1>3. PICK p \in Objects : p = cur'[t] /\ Known(p) /\ tasks[p].req.id = r.id
  BY <1>2, Storing DEF SInv, StoreFits
<1>4. p <= built
  BY <1>a, <1>3 DEF IInv, UnbuiltUnknown, Objects, TypeOK
<1>5. Known(p)' /\ tasks'[p].req = tasks[p].req
  BY <1>a, <1>3, KnownStays
<1>6. tasks'[built + 1].req = r
  BY <1>2 DEF NewTask
<1>7. p < built + 1
  BY <1>2, <1>4 DEF Objects
<1> QED
  BY <1>2, <1>3, <1>5, <1>6, <1>7

LEMMA TickingStep ==
  ASSUME SInv, Serial, NEW t \in Threads, ThreadStep(t)
  PROVE  Ticking'
<1> DEFINE Goal == /\ pc'[t] \in {"preplan", "compute", "patrol", "select"} => Active(cur[t])'
                   /\ pc'[t] \in {"preplan", "compute"} => tasks'[cur'[t]].req.kind = "preplan"
                   /\ pc'[t] = "compute" => tasks'[cur'[t]].plan = 0
<1> SUFFICES Goal
  BY DEF Serial, Ticking
<1> USE DEF SInv, IInv
<1>1. CASE LoopTick(t) \/ CreateTick(t)
  <2>1. tasks' = tasks
    BY <1>1 DEF LoopTick, CreateTick
  <2>2. CASE pc'[t] = "return"
    BY <2>2
  <2>3. CASE cur'[t] \in Objects /\ Active(cur'[t]) /\ pc'[t] = FirstStep(tasks[cur'[t]].req)
    <3>1. pc'[t] \in {"preplan", "patrol", "select"}
      BY <2>3, RequestTypes, FirstStepType
    <3>2. pc'[t] = "preplan" => tasks[cur'[t]].req.kind = "preplan"
      BY <2>3, RequestTypes DEF FirstStep, Kind
    <3> QED
      BY <2>1, <2>3, <3>1, <3>2 DEF Active
  <2> QED
    BY <1>1, <2>2, <2>3, ThreadTickStart
<1>2. CASE RefreshPreplan(t)
  BY <1>2 DEF RefreshPreplan, Write, Goto, TypeOK, Ticking, Active
<1>3. CASE RefreshPatrol(t)
  <2>1. /\ cur[t] \in Objects /\ cur' = cur /\ pc'[t] \in {"collab", "select"} /\ Active(cur[t])
        /\ tasks'[cur[t]].status = tasks[cur[t]].status
    BY <1>3 DEF RefreshPatrol, Goto, TypeOK, Ticking, HeldKnown, Holding, locals, TaskContext
  <2> QED
    BY <2>1 DEF Active
<1> QED
  BY <1>1, <1>2, <1>3, NextLabel

LEMMA Outcomes ==
  /\ Coherent(Engage) /\ Coherent(Terminate)
  /\ \A k \in Kind : Coherent(AwaitTarget(k))
  /\ \A x \in (Reason \cup {Keep}) \ {"none"}, l \in {"collab", "endCond", "finish"} : Coherent(Complete(x, l))
  BY DEF Coherent, Engage, Terminate, AwaitTarget, Complete, Final, Live, Reason, Keep

\* What a handler may be about to write, and on which object.
Fit(o, w) ==
  /\ w \in Outcome /\ Coherent(w)
  /\ w.status = "completed" /\ w.reason = Keep => tasks[o].req.kind = "preplan"
  /\ w.status \in Live => Active(o)

LEMMA WriteStarts ==
  ASSUME SInv, NEW t \in Threads, ThreadStep(t), pc'[t] = "status"
  PROVE  /\ cur'[t] \in Objects /\ Fit(cur'[t], outcome'[t])
         /\ \A o \in Objects : tasks'[o].status = tasks[o].status /\ tasks'[o].req = tasks[o].req
<1> DEFINE Goal == /\ cur'[t] \in Objects /\ Fit(cur'[t], outcome'[t])
                   /\ \A o \in Objects : tasks'[o].status = tasks[o].status /\ tasks'[o].req = tasks[o].req
<1> SUFFICES Goal
  OBVIOUS
<1>a. TypeOK /\ (pc[t] \in Holding => cur[t] \in Objects)
  BY DEF SInv, IInv, HeldKnown
<1>b. /\ \A x \in {"timeout", "out_of_region", "sonar_unmatched"}, l \in {"endCond", "finish"} :
           /\ Complete(x, l).status = "completed" /\ Complete(x, l).reason = x
           /\ Complete(x, l) \in Outcome /\ Coherent(Complete(x, l))
      /\ Complete(Keep, "collab").status = "completed"
      /\ Complete(Keep, "collab") \in Outcome /\ Coherent(Complete(Keep, "collab"))
  BY OutcomeTypes, Outcomes DEF Complete, Reason, Keep
<1>c. /\ Terminate.status = "terminated" /\ Terminate \in Outcome /\ Coherent(Terminate)
      /\ Engage.status = "running" /\ Engage \in Outcome /\ Coherent(Engage)
      /\ \A k \in Kind : /\ AwaitTarget(k).status = "waiting_target"
                         /\ AwaitTarget(k) \in Outcome /\ Coherent(AwaitTarget(k))
  BY OutcomeTypes, Outcomes DEF Terminate, Engage, AwaitTarget
<1>d. ASSUME NEW o, NEW w, Write(t, o, w)
      PROVE  cur'[t] = o /\ outcome'[t] = w
  BY <1>a, <1>d DEF Write, TypeOK
<1>3. CASE RefreshPreplan(t)
  <2>1. Write(t, cur[t], Complete(Keep, "collab")) /\ tasks' = tasks
    BY <1>3, <1>a DEF RefreshPreplan, Goto, TypeOK
  <2>2. cur[t] \in Objects /\ tasks[cur[t]].req.kind = "preplan"
    BY <1>3, <1>a DEF RefreshPreplan, SInv, Ticking, Holding
  <2> QED
    BY <1>b, <1>d, <2>1, <2>2 DEF Fit, Live
<1>4. CASE ComputePreplan(t)
  <2>1. Write(t, cur[t], Complete(Keep, "collab")) /\ tasks' = [tasks EXCEPT ![cur[t]].plan = @ + 1]
    BY <1>4 DEF ComputePreplan
  <2>2. cur[t] \in Objects /\ tasks[cur[t]].req.kind = "preplan"
    BY <1>4, <1>a DEF ComputePreplan, SInv, Ticking, Holding
  <2>3. \A o \in Objects : tasks'[o].status = tasks[o].status /\ tasks'[o].req = tasks[o].req
    BY <1>a, <2>1, <2>2 DEF TypeOK, TaskContext
  <2> QED
    BY <1>b, <1>d, <2>1, <2>2, <2>3 DEF Fit, Live
<1>5. CASE SelectTarget(t)
  <2>1. cur[t] \in Objects /\ Active(cur[t]) /\ tasks' = tasks /\ tasks[cur[t]].req.kind \in Kind
    BY <1>5, <1>a, RequestTypes DEF SelectTarget, SInv, Ticking, Holding
  <2>2. PICK w \in {Engage, AwaitTarget(tasks[cur[t]].req.kind)} : Write(t, cur[t], w)
    BY <1>5 DEF SelectTarget
  <2> QED
    BY <1>c, <1>d, <2>1, <2>2 DEF Fit, Live
<1>7. CASE PollSonar(t)
  <2>1. Write(t, cur[t], Complete("sonar_unmatched", "endCond")) /\ tasks' = tasks
    BY <1>7, <1>a DEF PollSonar, Goto, TypeOK
  <2>2. cur[t] \in Objects
    BY <1>7, <1>a DEF PollSonar, Holding
  <2> QED
    BY <1>b, <1>d, <2>1, <2>2 DEF Fit, Live, Keep
<1>8. CASE EndConditions(t)
  <2>1. PICK x \in {"timeout", "out_of_region"} : Write(t, cur[t], Complete(x, "finish")) /\ tasks' = tasks
    BY <1>8, <1>a DEF EndConditions, Goto, TypeOK
  <2>2. cur[t] \in Objects
    BY <1>8, <1>a DEF EndConditions, Holding
  <2> QED
    BY <1>b, <1>d, <2>1, <2>2 DEF Fit, Live, Keep
<1>10. CASE ReplaceTask(t)
  <2>1. pc[t] # "status" /\ tasks' = tasks
    BY <1>10 DEF ReplaceTask
  <2>2. PICK o \in todo[t] : Write(t, o, Terminate) /\ back' = [back EXCEPT ![t] = "replace"]
    BY <1>10, <2>1 DEF ReplaceTask
  <2> QED
    BY <1>a, <1>c, <1>d, <2>1, <2>2 DEF Fit, Live, TypeOK
<1>13. ASSUME NEW i \in TaskId, TerminateTask(t, i) PROVE Goal
  <2>1. store[i] \in Objects /\ Write(t, store[i], Terminate) /\ tasks' = tasks
    BY <1>13, <1>a DEF TerminateTask, TypeOK
  <2> QED
    BY <1>a, <1>c, <1>d, <2>1 DEF Fit, Live, TypeOK
<1> QED
  BY <1>3, <1>4, <1>5, <1>7, <1>8, <1>10, <1>13, NextLabel DEF SInv

LEMMA WritingStep ==
  ASSUME SInv, Serial, NEW t \in Threads, ThreadStep(t)
  PROVE  Writing'
<1>1. CASE pc'[t] = "status"
  <2>1. /\ cur'[t] \in Objects /\ Fit(cur'[t], outcome'[t])
        /\ tasks'[cur'[t]].status = tasks[cur'[t]].status /\ tasks'[cur'[t]].req = tasks[cur'[t]].req
    BY <1>1, WriteStarts
  <2> QED
    BY <1>1, <2>1 DEF Serial, Writing, Fit, Coherent, Active
<1>2. CASE pc'[t] = "fields"
  <2>1. WriteStatus(t) /\ pc[t] = "status"
    BY <1>2, NextLabel DEF WriteStatus, SInv
  <2>2. cur[t] \in Objects /\ cur' = cur /\ outcome' = outcome /\ back' = back
    BY <2>1 DEF WriteStatus, locals, SInv, IInv, HeldKnown, Holding
  <2>3. /\ tasks'[cur[t]].status = outcome[t].status
        /\ tasks'[cur[t]].req = tasks[cur[t]].req /\ tasks'[cur[t]].reason = tasks[cur[t]].reason
    BY <2>1, <2>2 DEF WriteStatus, SInv, IInv, TypeOK, TaskContext
  <2>4. Active(cur[t]) => tasks[cur[t]].reason = "none"
    <3>1. Story(cur[t])
      BY <2>1, <2>2 DEF Serial, SInv, Stories
    <3>2. Active(cur[t]) => ~ Ended(cur[t])
      BY <2>2, EndedKnown
    <3> QED
      BY <3>1, <3>2 DEF Story
  <2>5. outcome[t].status \in Live => Active(cur[t])
    BY <2>1 DEF SInv, Writing
  <2> QED
    BY <1>2, <2>1, <2>2, <2>3, <2>4, <2>5 DEF Serial, SInv, Writing, Coherent, Active
<1>3. CASE pc'[t] \notin {"status", "fields"}
  BY <1>3 DEF Serial, Writing
<1> QED
  BY <1>1, <1>2, <1>3

\* The steps that write status, phase or reason.
Tells(t) ==
  \/ RefreshPatrol(t) \/ WriteStatus(t) \/ WriteFields(t) \/ StoreTask(t) \/ ApplyFeedback(t)
  \/ \E r \in Requests : CreateTask(t, r)

LEMMA StoryKept ==
  ASSUME SInv, NEW t \in Threads, ThreadStep(t), ~ Tells(t), NEW o \in Objects
  PROVE  /\ tasks'[o].status = tasks[o].status /\ tasks'[o].phase = tasks[o].phase
         /\ tasks'[o].reason = tasks[o].reason /\ tasks'[o].req = tasks[o].req
         /\ chosen' = chosen /\ pc[t] # "fields"
<1>1. CASE ComputePreplan(t)
  BY <1>1 DEF ComputePreplan, SInv, IInv, TypeOK, TaskContext, history
<1>2. CASE EndConditions(t)
  BY <1>2 DEF EndConditions, SInv, IInv, TypeOK, TaskContext, history
<1>3. CASE CopyRoute(t)
  BY <1>3 DEF CopyRoute, SInv, IInv, TypeOK, TaskContext, history
<1>4. CASE Collaborating(t)
  BY <1>4, CollaborationStep
<1>5. CASE OnTaskFinished(t) \/ PollSonar(t) \/ Finish(t) \/ SnapshotTasks(t) \/ RegisterRequest(t)
  BY <1>5 DEF OnTaskFinished, PollSonar, Finish, SnapshotTasks, RegisterRequest, history
<1>6. CASE \/ LoopPass(t) \/ LoopTick(t) \/ CreateTick(t) \/ RefreshPreplan(t) \/ SelectTarget(t)
           \/ ReplaceTask(t) \/ AllReplaced(t) \/ Return(t)
           \/ \E i \in TaskId : TerminateTask(t, i) \/ ReadTask(t, i)
  BY <1>6 DEF LoopPass, LoopTick, CreateTick, RefreshPreplan, SelectTarget, ReplaceTask, AllReplaced, Return,
     TerminateTask, ReadTask, Idle, history
<1> QED
  BY <1>1, <1>2, <1>3, <1>4, <1>5, <1>6 DEF Tells, ThreadStep, Step, Collaborating

LEMMA StoriesStep ==
  ASSUME SInv, Serial, NEW t \in Threads, ThreadStep(t)
  PROVE  Stories'
<1>1. TypeOK /\ HeldKnown /\ \A s \in Threads : s = t
  BY DEF SInv, IInv, Serial
<1>2. ASSUME NEW o \in Objects, pc[t] # "fields" \/ cur[t] # o
      PROVE  Story(o)
  BY <1>1, <1>2 DEF SInv, Stories
<1> SUFFICES ASSUME NEW o \in Objects, ~ (pc'[t] = "fields" /\ cur'[t] = o)
             PROVE  Story(o)'
  BY DEF Stories
<1> USE DEF Story, Ended, Final
<1>3. CASE ~ Tells(t)
  BY <1>2, <1>3, StoryKept
<1>4. CASE RefreshPatrol(t)
  <2>1. pc[t] = "patrol" /\ cur[t] \in Objects /\ Active(cur[t])
    BY <1>1, <1>4 DEF RefreshPatrol, Holding, HeldKnown, SInv, Ticking
  <2>2. CASE o = cur[t]
    <3>1. /\ tasks'[o].status = tasks[o].status /\ tasks'[o].phase = "patrolling"
          /\ tasks'[o].reason = tasks[o].reason /\ tasks'[o].req = tasks[o].req
      BY <1>1, <1>4, <2>2 DEF RefreshPatrol, TypeOK, TaskContext
    <3> QED
      BY <1>2, <2>1, <2>2, <3>1 DEF Active, Live
  <2>3. CASE o # cur[t]
    <3>1. tasks'[o] = tasks[o] /\ (o \in chosen' <=> o \in chosen)
      BY <1>1, <1>4, <2>3 DEF RefreshPatrol, TypeOK
    <3> QED
      BY <1>2, <2>1, <3>1
  <2> QED
    BY <2>2, <2>3
<1>5. CASE WriteStatus(t)
  <2>1. pc[t] = "status" /\ o # cur[t]
    BY <1>1, <1>5 DEF WriteStatus, Goto, TypeOK, locals
  <2>2. tasks'[o] = tasks[o] /\ chosen' = chosen
    BY <1>1, <1>5, <2>1 DEF WriteStatus, TypeOK
  <2> QED
    BY <1>2, <2>1, <2>2
<1>6. CASE WriteFields(t)
  <2> DEFINE w == outcome[t]
  <2>1. pc[t] = "fields" /\ cur[t] \in Objects /\ w \in Outcome
    BY <1>1, <1>6 DEF WriteFields, Holding, HeldKnown, TypeOK
  <2>2. CASE o = cur[t]
    <3>1. /\ tasks'[o].status = tasks[o].status /\ tasks'[o].phase = w.phase
          /\ tasks'[o].reason = (IF w.reason = Keep THEN tasks[o].reason ELSE w.reason)
          /\ tasks'[o].req = tasks[o].req
      BY <1>1, <1>6, <2>2 DEF WriteFields, TypeOK, TaskContext
    <3>2. /\ Coherent(w) /\ tasks[o].status = w.status
          /\ w.status = "completed" /\ w.reason = Keep => tasks[o].req.kind = "preplan"
          /\ Active(o) => tasks[o].reason = "none"
      BY <2>1, <2>2 DEF SInv, Writing
    <3>3. w.status \in Final \cup Live
      BY <2>1 DEF Outcome, Status, Live
    <3>4. CASE w.reason = Keep
      BY <3>1, <3>2, <3>3, <3>4 DEF Coherent, Active, Live, Keep
    <3>5. CASE w.reason # Keep
      BY <3>1, <3>2, <3>3, <3>5 DEF Coherent, Active, Live, Keep
    <3> QED
      BY <3>4, <3>5
  <2>3. CASE o # cur[t]
    <3>1. tasks'[o] = tasks[o] /\ (o \in chosen' <=> o \in chosen)
      BY <1>1, <1>6, <2>3 DEF WriteFields, TypeOK
    <3> QED
      BY <1>2, <2>3, <3>1
  <2> QED
    BY <2>2, <2>3
<1>7. CASE StoreTask(t)
  <2>1. pc[t] = "store" /\ fresh[t] \in Objects /\ ~ Known(fresh[t])
    BY <1>7, StoredAlone DEF StoreTask
  <2>2. CASE o = fresh[t]
    <3>1. /\ tasks'[o].status = "running" /\ tasks'[o].phase = tasks[o].phase
          /\ tasks'[o].reason = tasks[o].reason /\ tasks'[o].req = tasks[o].req
          /\ chosen' = chosen
      BY <1>1, <1>7, <2>2 DEF StoreTask, TypeOK, TaskContext, history
    <3> QED
      BY <1>2, <2>1, <2>2, <3>1 DEF Known
  <2>3. CASE o # fresh[t]
    <3>1. tasks'[o] = tasks[o] /\ chosen' = chosen
      BY <1>1, <1>7, <2>3 DEF StoreTask, TypeOK, history
    <3> QED
      BY <1>2, <2>1, <3>1
  <2> QED
    BY <2>2, <2>3
<1>8. ASSUME NEW r \in Requests, CreateTask(t, r)
      PROVE  Story(o)'
  <2>1. pc[t] = "idle"
    BY <1>8 DEF CreateTask, Idle
  <2>2. CASE o = built + 1
    <3>1. tasks'[o].status = "created" /\ tasks'[o].phase = "planning" /\ tasks'[o].reason = "none"
      BY <1>1, <1>8, <2>2 DEF CreateTask, TypeOK, NewTask
    <3> QED
      BY <3>1
  <2>3. CASE o # built + 1
    <3>1. tasks'[o] = tasks[o] /\ chosen' = chosen
      BY <1>1, <1>8, <2>3 DEF CreateTask, TypeOK, history
    <3> QED
      BY <1>2, <2>1, <3>1
  <2> QED
    BY <2>2, <2>3
<1>9. CASE ApplyFeedback(t)
  <2>1. pc[t] = "update" /\ cur[t] \in Objects
    BY <1>1, <1>9 DEF ApplyFeedback, Holding, HeldKnown
  <2>2. CASE o = cur[t]
    <3>1. /\ tasks'[o].status = tasks[o].status /\ tasks'[o].reason = tasks[o].reason
          /\ tasks'[o].req = tasks[o].req /\ o \in chosen'
      BY <1>1, <1>9, <2>2 DEF ApplyFeedback, TypeOK, TaskContext
    <3> QED
      BY <1>2, <2>1, <3>1
  <2>3. CASE o # cur[t]
    <3>1. tasks'[o] = tasks[o] /\ (o \in chosen' <=> o \in chosen)
      BY <1>1, <1>9, <2>3 DEF ApplyFeedback, TypeOK
    <3> QED
      BY <1>2, <2>1, <3>1
  <2> QED
    BY <2>2, <2>3
<1> QED
  BY <1>3, <1>4, <1>5, <1>6, <1>7, <1>8, <1>9 DEF Tells

\* The plan and the route of an object.
LEMMA PlanKept ==
  ASSUME SInv, NEW t \in Threads, ThreadStep(t), NEW o \in Objects
  PROVE  \/ tasks'[o].plan = tasks[o].plan /\ tasks'[o].route = tasks[o].route
         \/ ComputePreplan(t) /\ cur[t] = o /\ tasks'[o].route = tasks[o].route
         \/ CopyRoute(t) /\ fresh[t] = o /\ tasks'[o].plan = tasks[o].plan
         \/ (\E r \in Requests : CreateTask(t, r)) /\ o = built + 1
<1> DEFINE Kept == tasks'[o].plan = tasks[o].plan /\ tasks'[o].route = tasks[o].route
<1>a. TypeOK
  BY DEF SInv, IInv
<1>1. CASE ComputePreplan(t)
  <2>1. CASE o = cur[t]
    BY <1>1, <1>a, <2>1 DEF ComputePreplan, TypeOK, TaskContext
  <2>2. CASE o # cur[t]
    BY <1>1, <1>a, <2>2 DEF ComputePreplan, TypeOK
  <2> QED
    BY <2>1, <2>2
<1>2. CASE CopyRoute(t)
  <2>1. CASE o = fresh[t]
    BY <1>2, <1>a, <2>1 DEF CopyRoute, TypeOK, TaskContext
  <2>2. CASE o # fresh[t]
    BY <1>2, <1>a, <2>2 DEF CopyRoute, TypeOK
  <2> QED
    BY <2>1, <2>2
<1>3. CASE RefreshPatrol(t) \/ WriteStatus(t) \/ ApplyFeedback(t) \/ StoreTask(t)
  <2>1. Kept
    BY <1>3, <1>a DEF RefreshPatrol, WriteStatus, ApplyFeedback, StoreTask, TypeOK, TaskContext
  <2> QED
    BY <2>1
<1>4. CASE WriteFields(t)
  <2>1. Kept
    BY <1>4, <1>a DEF WriteFields, TypeOK, TaskContext
  <2> QED
    BY <2>1
<1>5. CASE EndConditions(t)
  <2>1. Kept
    BY <1>5, <1>a DEF EndConditions, TypeOK, TaskContext
  <2> QED
    BY <2>1
<1>6. CASE \E r \in Requests : CreateTask(t, r)
  <2>1. CASE o # built + 1
    BY <1>6, <1>a, <2>1 DEF CreateTask, TypeOK
  <2> QED
    BY <1>6, <2>1
<1>7. CASE Collaborating(t)
  BY <1>7, CollaborationStep
<1>8. CASE \/ LoopPass(t) \/ LoopTick(t) \/ CreateTick(t) \/ RefreshPreplan(t) \/ SelectTarget(t)
           \/ OnTaskFinished(t) \/ PollSonar(t) \/ Finish(t) \/ SnapshotTasks(t) \/ RegisterRequest(t)
           \/ ReplaceTask(t) \/ AllReplaced(t) \/ Return(t)
           \/ \E i \in TaskId : TerminateTask(t, i) \/ ReadTask(t, i)
  <2>1. tasks' = tasks
    BY <1>8 DEF LoopPass, LoopTick, CreateTick, RefreshPreplan, SelectTarget, OnTaskFinished, PollSonar, Finish,
       SnapshotTasks, RegisterRequest, ReplaceTask, AllReplaced, Return, TerminateTask, ReadTask
  <2> QED
    BY <2>1
<1> QED
  BY <1>1, <1>2, <1>3, <1>4, <1>5, <1>6, <1>7, <1>8 DEF ThreadStep, Step, Collaborating

LEMMA PlansOverStep ==
  ASSUME SInv, Serial, NEW t \in Threads, ThreadStep(t)
  PROVE  PlansOver'
<1>a. IInv /\ TypeOK /\ [Next]_vars
  BY ThreadNext DEF SInv, IInv
<1> SUFFICES ASSUME NEW o \in Objects, tasks'[o].plan # 0
             PROVE  Ended(o)' \/ (pc'[t] = "status" /\ cur'[t] = o /\ outcome'[t].status \in Final)
  BY DEF PlansOver
<1>1. CASE tasks'[o].plan = tasks[o].plan
  <2>1. Ended(o) \/ (pc[t] = "status" /\ cur[t] = o /\ outcome[t].status \in Final)
    BY <1>1 DEF Serial, SInv, PlansOver
  <2>2. CASE Ended(o)
    BY <1>a, <2>2, StatusStep
  <2>3. CASE pc[t] = "status" /\ cur[t] = o /\ outcome[t].status \in Final
    <3>1. WriteStatus(t)
      BY <2>3, ThreadAt
    <3>2. tasks'[o].status = outcome[t].status
      BY <1>a, <2>3, <3>1 DEF WriteStatus, TypeOK, TaskContext
    <3> QED
      BY <2>3, <3>2 DEF Ended
  <2> QED
    BY <2>1, <2>2, <2>3
<1>2. CASE ComputePreplan(t) /\ cur[t] = o
  <2>1. cur'[t] = o /\ outcome'[t] = Complete(Keep, "collab") /\ pc'[t] = "status"
    BY <1>a, <1>2 DEF ComputePreplan, Write, Goto, TypeOK
  <2> QED
    BY <2>1 DEF Complete, Final
<1>3. CASE (\E r \in Requests : CreateTask(t, r)) /\ o = built + 1
  <2>1. tasks'[o].plan = 0
    BY <1>a, <1>3 DEF CreateTask, NewTask, TypeOK
  <2> QED
    BY <2>1
<1> QED
  BY <1>1, <1>2, <1>3, PlanKept

LEMMA RouteStep ==
  ASSUME SInv, Serial, NEW t \in Threads, ThreadStep(t)
  PROVE  ConfirmedRouteStands'
<1>a. IInv /\ TypeOK /\ [Next]_vars
  BY ThreadNext DEF SInv, IInv
<1>b. ASSUME NEW p \in Objects, Ended(p)
      PROVE  /\ Ended(p)' /\ tasks'[p].req = tasks[p].req
             /\ tasks'[p].plan = tasks[p].plan
             /\ p \in 1 .. built
  <2>1. Known(p) /\ ~ Active(p)
    BY <1>b, EndedKnown
  <2>2. p \in 1 .. built
    BY <1>a, <2>1 DEF IInv, UnbuiltUnknown, TypeOK, Objects
  <2>3. ~ (ComputePreplan(t) /\ cur[t] = p)
    BY <2>1 DEF ComputePreplan, SInv, Ticking
  <2>4. p # built + 1
    BY <1>a, <2>2 DEF TypeOK
  <2> QED
    BY <1>a, <1>b, <2>1, <2>2, <2>3, <2>4, StatusStep, PlanKept
<1> SUFFICES ASSUME NEW o \in Objects, tasks'[o].route # 0
             PROVE  \E p \in 1 .. o - 1 : /\ tasks'[p].req.id = tasks'[o].req.id
                                          /\ tasks'[p].plan = tasks'[o].route
                                          /\ Ended(p)'
  BY DEF ConfirmedRouteStands
<1>1. CASE tasks'[o].route = tasks[o].route /\ tasks'[o].req = tasks[o].req
  <2>1. PICK p \in 1 .. o - 1 : /\ tasks[p].req.id = tasks[o].req.id
                                /\ tasks[p].plan = tasks[o].route
                                /\ Ended(p)
    BY <1>1 DEF SInv, ConfirmedRouteStands
  <2>2. p \in Objects
    BY <2>1, TaskLifecycleAssumption DEF Objects
  <2> QED
    BY <1>1, <1>b, <2>1, <2>2
<1>2. ASSUME CopyRoute(t), fresh[t] = o
      PROVE  \E p \in 1 .. o - 1 : /\ tasks'[p].req.id = tasks'[o].req.id
                                   /\ tasks'[p].plan = tasks'[o].route
                                   /\ Ended(p)'
  <2>1. pc[t] = "copy" /\ o <= built
    BY <1>2, <1>a DEF CopyRoute, IInv, FreshUnknown, BeforeStore
  <2>2. tasks'[o].route = (IF cur[t] = NoTask THEN 0 ELSE tasks[cur[t]].plan)
    BY <1>a, <1>2 DEF CopyRoute, TypeOK, TaskContext
  <2>3. PICK p \in Objects : p = cur[t] /\ p # NoTask
    BY <1>a, <2>2 DEF TypeOK
  <2>4. p < o /\ tasks[p].req.id = tasks[o].req.id /\ tasks'[o].route = tasks[p].plan
    BY <1>2, <2>1, <2>2, <2>3 DEF SInv, Copying
  <2>5. Ended(p)
    BY <2>1, <2>3, <2>4 DEF Serial, SInv, PlansOver
  <2>6. Ended(p)' /\ tasks'[p].req = tasks[p].req /\ tasks'[p].plan = tasks[p].plan
    BY <1>b, <2>5
  <2>7. tasks'[o].req = tasks[o].req
    BY <1>a, <2>1, RequestKept
  <2>8. p \in 1 .. o - 1
    BY <2>4, TaskLifecycleAssumption DEF Objects
  <2> QED
    BY <2>4, <2>6, <2>7, <2>8
<1>3. ASSUME NEW r \in Requests, CreateTask(t, r), o = built + 1
      PROVE  FALSE
  <2>1. tasks'[o] = NewTask(r)
    BY <1>a, <1>3 DEF CreateTask, TypeOK
  <2> QED
    BY <2>1 DEF NewTask
<1>4. CASE tasks'[o].route = tasks[o].route
  <2>1. ~ Created(o)
    BY <1>a, <1>3, BuiltStep DEF Created, TypeOK
  <2> QED
    BY <1>a, <1>1, <1>4, <2>1, StatusStep
<1> QED
  BY <1>2, <1>3, <1>4, PlanKept

-----------------------------------------------------------------------------
(* The theorems. *)

LEMMA SInvInit ==
  ASSUME Init
  PROVE  SInv
<1>1. IInv
  BY IndInvInit
<1>2. \A o \in Objects : /\ tasks[o].status = "created" /\ tasks[o].reason = "none" /\ tasks[o].phase = "planning"
                         /\ tasks[o].plan = 0 /\ tasks[o].route = 0
  BY DEF Init, NewTask
<1>3. \A t \in Threads : pc[t] = "idle" /\ todo[t] = {}
  BY DEF Init
<1>4. StoreFits
  BY <1>2, <1>3 DEF Init, StoreFits, Active, Live, Holding, NoTask
<1>5. Copying /\ Sole /\ Ticking /\ Writing
  BY <1>2, <1>3 DEF Copying, Sole, Ticking, Writing, Active, Live, BeforeStore, Replacing
<1>6. Stories
  BY <1>2 DEF Stories, Story, Ended, Final
<1>8. PlansOver /\ ConfirmedRouteStands
  BY <1>2 DEF PlansOver, ConfirmedRouteStands
<1> QED
  BY <1>1, <1>4, <1>5, <1>6, <1>8 DEF SInv

LEMMA SInvNext ==
  ASSUME SInv, Serial, [Next]_vars
  PROVE  SInv'
<1>1. IInv'
  BY IndInvNext DEF SInv
<1>2. ASSUME NEW t \in Threads, ThreadStep(t)
      PROVE  SInv'
  BY <1>1, <1>2, StoreFitsStep, CopyingStep, SoleStep, TickingStep, WritingStep, StoriesStep, PlansOverStep, RouteStep
  DEF SInv
<1>3. ASSUME UNCHANGED <<store, built, pc, locals, chosen>>,
             \A o \in Objects :
               /\ tasks'[o].req = tasks[o].req /\ tasks'[o].status = tasks[o].status
               /\ tasks'[o].reason = tasks[o].reason /\ tasks'[o].phase = tasks[o].phase
               /\ tasks'[o].plan = tasks[o].plan /\ tasks'[o].route = tasks[o].route
      PROVE  SInv'
  <2>1. TypeOK /\ HeldKnown /\ SnapshotKnown /\ StoredKnown
    BY DEF SInv, IInv
  <2>2. StoreFits'
    BY <1>3, <2>1 DEF SInv, StoreFits, Own, Active, HeldKnown, Holding, TypeOK, locals
  <2>3. Sole'
    BY <1>3 DEF SInv, Sole, Active, BeforeStore, locals
  <2>4. Ticking'
    BY <1>3, <2>1 DEF SInv, Ticking, Active, HeldKnown, Holding, locals
  <2>5. Writing'
    BY <1>3, <2>1 DEF SInv, Writing, Active, HeldKnown, Holding, locals
  <2>6. Stories'
    BY <1>3 DEF SInv, Stories, Story, Ended, locals
  <2>7. Copying'
    BY <1>3, <2>1 DEF SInv, Copying, Known, TypeOK, locals, IInv, FreshUnknown, BeforeStore
  <2>8. PlansOver'
    BY <1>3 DEF SInv, PlansOver, Ended, locals
  <2>9. ConfirmedRouteStands'
    <3>1. \A o \in Objects : \A p \in 1 .. o - 1 : p \in Objects
      BY TaskLifecycleAssumption DEF Objects
    <3> QED
      BY <1>3, <3>1 DEF SInv, ConfirmedRouteStands, Ended
  <2> QED
    BY <1>1, <2>2, <2>3, <2>4, <2>5, <2>6, <2>7, <2>8, <2>9 DEF SInv
<1>4. ASSUME NEW p \in Objects, Expire(p)
      PROVE  SInv'
  BY <1>3, <1>4 DEF Expire, SInv, IInv, TypeOK, TaskContext, history
<1>5. CASE UNCHANGED vars
  BY <1>3, <1>5 DEF vars, locals, history
<1> QED
  BY <1>2, <1>4, <1>5, NextSteps

\* Any tasks and requests, handled by one thread to the end of each handler.
THEOREM SerialInvariance ==
  ASSUME Serial
  PROVE  Spec => []SInv
<1>1. Init => SInv
  BY SInvInit
<1>2. SInv /\ [Next]_vars => SInv'
  BY SInvNext
<1> QED
  BY <1>1, <1>2, PTL DEF Spec

\* While handlers run one after the other, creating a task replaces the ones
\* before it: at most one stored task is active.
THEOREM OneActiveTaskHolds ==
  ASSUME Serial
  PROVE  Spec => []OneActiveTask
<1>1. SInv => OneActiveTask
  <2>1. SInv => Stored \subseteq Objects
    BY DEF SInv, IInv, TypeOK, Stored
  <2> QED
    BY <2>1 DEF SInv, Sole, OneActiveTask
<1> QED
  BY <1>1, SerialInvariance, PTL

\* Between handlers that run one after the other, status, phase and finish
\* reason of every stored task tell one story, but for the phase of a task
\* whose operator's feedback came last.
THEOREM SettledHolds ==
  ASSUME Serial
  PROVE  Spec => []Settled
<1>1. SInv => Settled
  <2>1. SInv => Stored \subseteq Objects
    BY DEF SInv, IInv, TypeOK, Stored
  <2> QED
    BY <2>1 DEF SInv, Stories, Story, AtRest, Settled
<1> QED
  BY <1>1, SerialInvariance, PTL

\* While handlers run one after the other, the route that a task was confirmed
\* with is the result its preplan still shows, and that preplan is over.
THEOREM ConfirmedRouteStandsHolds ==
  ASSUME Serial
  PROVE  Spec => []ConfirmedRouteStands
<1>1. SInv => ConfirmedRouteStands
  BY DEF SInv
<1> QED
  BY <1>1, SerialInvariance, PTL

\* What overlapping handlers break holds while they run one after the other:
\* a task that has ended stays ended.
THEOREM EndIsFinalHolds ==
  ASSUME Serial
  PROVE  Spec => EndIsFinal
<1>1. SInv /\ [Next]_vars => [\A o \in Objects : Ended(o) => Ended(o)']_vars
  BY StatusStep
<1> QED
  BY <1>1, SerialInvariance, PTL DEF Spec, EndIsFinal

\* Likewise, an id given to a new task is never given back to the object before it.
THEOREM StoreKeepsNewestHolds ==
  ASSUME Serial
  PROVE  Spec => StoreKeepsNewest
<1>1. ASSUME SInv, [Next]_vars, NEW i \in TaskId
      PROVE  store'[i] >= store[i]
  <2>1. store[i] \in Nat /\ built \in Nat /\ store[i] <= built
    BY <1>1 DEF SInv, IInv, TypeOK, StoredKnown, UnbuiltUnknown, Objects, NoTask
  <2>2. CASE store' = store
    BY <2>1, <2>2
  <2>3. ASSUME NEW t \in Threads, StoreTask(t)
        PROVE  store'[i] >= store[i]
    <3>1. fresh[t] = built /\ store' = Put(fresh[t])
      BY <1>1, <2>3, StoredAlone DEF StoreTask, BeforeStore, SInv, Sole
    <3>2. store'[i] \in {store[i], built}
      BY <1>1, <3>1 DEF Put, SInv, IInv, TypeOK
    <3> QED
      BY <2>1, <3>2
  <2> QED
    BY <1>1, <2>2, <2>3, NextSteps, StoreKept DEF Expire, vars
<1>2. SInv /\ [Next]_vars => [\A i \in TaskId : store'[i] >= store[i]]_vars
  BY <1>1
<1> QED
  BY <1>2, SerialInvariance, PTL DEF Spec, StoreKeepsNewest
=============================================================================
