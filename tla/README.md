# Formal model of the tracking monitor service

TLA+ specifications of `zuozysama/tracking_monitor_service`, the TLC
configurations that check them on small instances, and theorems about them with
proofs for the TLA+ proof system. Paths below are relative to `src/`.

The service takes patrol, tracking, search and planning tasks over HTTP, keeps a
picture of own ship and targets fed by DDS, decides once a second what each task
should do, sends plans to an autonomy module and commands to the optics, and
asks an operator when a target has to be chosen. Everything lives in memory;
nothing survives a restart, so there is no recovery to model.

## 1. Inventory

### Threads and shared state

| Who | Where | What it runs |
|---|---|---|
| HTTP worker threads | FastAPI's pool (`app.py`, `api/`) | one handler per request, start to end |
| Decision loop | `scheduler/decision_loop.py` | every second: a snapshot of the task store, `tick_task` for each id |
| DDS listener threads | `adapters/dds/real_adapter.py` | decode a sample and call the ingress handlers |

They share three in-memory stores. Only `SituationStore` has a lock. A
`TaskContext` is a mutable object that all threads read and write field by field
with no lock at all; `TaskStore` is a bare dictionary of them. A tick that has
begun is not told that the task it works on was ended, replaced or answered in
the meantime. That is the heart of what is hard here.

### Components

| Component | State | Operations | What makes it correct |
|---|---|---|---|
| Task service (`services/task_service.py`) | the tasks and their end | create (replacing every active task, reusing a preplan's id), terminate, tick, end conditions, feedback | one task at a time; an end is final and tells one story; a task with a duration ends |
| Decision loop | running flag, thread | start, stop, pass | every active task is ticked, whatever another tick raises; a stop leaves nothing behind |
| Task store | id -> object | create, get, update, list | the newest task of an id is the one stored |
| Preplan / patrol / underwater / fixed services | plans in the task | `refresh_result` | a preplan is made once and frozen; an execute task follows the route confirmed |
| Tracking service | target, stage, side, point | `refresh_result` | the designated target is tracked; stages only advance; the point does not flicker |
| Collaboration: autonomy | last signature, retry record, one-shot flag | dispatch if changed | the plan remembered as sent is the one followed, unless a reply is lost; retries end |
| Collaboration: operator | two request records | ask, expire, feedback | asked once; an answer to a request that was noted stays recorded; the choice prevails |
| Collaboration: optics, media | last command, arrival cycles | open on arrival, close at the end | the end does not leave the optics of the last target on |
| Collaboration: reports | last stage and plan reported | report if changed | what changed and lasts is posted |
| Situation store | targets, last seen, revision, own ship | update, replace, remove, get, reset | nobody sees an expired target; newer beats older; a change moves the revision |
| DDS ingress | - | two message handlers | only admitted targets enter |
| DDS adapter | started flag, participant, interface, topics declared | start, publish, subscribe, stop | what is written goes out, whatever the middleware refused before; what was subscribed is heard |
| Topic codec | - | encode, decode | a packet puts in the targets it names and no others |
| Target filter, point generator, patrol planner | - | pure functions | the best admissible target; points at the asked distance; the area covered |
| Clients (autonomy, optical, planning, sonar, media, optronic) | - | one HTTP call each | a failure is a refusal, never an exception |

`PROJECT.json` lists every component with what is modelled of it, and the hazards
of this code line by line with the properties that watch them.

### How they interact

`create_task` checks the id, copies the route of the preplan it replaces,
terminates every active task of a snapshot, stores the new task and **ticks it
itself** in the HTTP thread; the loop may tick it at the same moment. A tick
reads the status, refreshes (filter, planner), writes status, then the fields,
puts the object back in the store *by id*, and calls the collaboration service:
stage report, plan report, autonomy dispatch (an HTTP call of up to three
seconds), operator requests, arrival and optics. Then the end conditions. Every one
of these may be interleaved with a termination, a replacement, a feedback or
another tick.

`app.py` starts the adapter (when the collaboration service is imported), subscribes
two topics, starts the loop, and at the end stops the loop without waiting for it
and then the adapter. Every publish starts the adapter if it is not started.

### What is hard

* A status check followed, seconds later, by a status assignment.
* `update_task` puts back whichever object its caller holds, under its id.
* Status, reason and phase are separate assignments.
* "Check signature, send, record signature" for autonomy, optics and operator.
* HTTP replies that are lost or late, retries with a window and a limit.
* Targets that expire without anybody looking, and one revision counter shared
  by the sender and the store.
* An adapter without a lock that starts itself on demand, over a middleware whose
  every call may fail and whose failures are swallowed.
* An exception in one task's tick, which ends the pass for all.
* Two layouts on one topic that nothing in the packet tells apart.
* Deadlines that are only looked at by ticks that found a target.

## 2. Modules

| Module | Models | Grain |
|---|---|---|
| `TaskLifecycle` | task service with its feedback handlers, decision loop, task store and the `refresh_result`s, from creation to end, for several tasks and threads | a handler is cut after each read of the store and each status check, around planner and HTTP calls, between `task.status` and the other fields, and wherever it stores the task again |
| `TaskLifecycleProofs` | theorems about it, however its handlers overlap | |
| `SerialLifecycleProofs` | EXTENDS them: theorems about it when one thread runs every handler to its end | |
| `SituationPicture` | abstract: which report of each batch a reader is entitled to | one step per message, reading or clock tick |
| `SituationStore` | `store/situation_store.py`, the target handler of the ingress and the mock API that feeds it | one action per operation: each runs under the lock |
| `SituationStoreProofs` | theorems about it and `PerceptionTopic`, and that it implements `SituationPicture` | |
| `PerceptionTopic` | EXTENDS it: how `adapters/dds/topic_codec.py` makes a message of a packet | pure operators |
| `AutonomyDispatch` | `dispatch_autonomy_if_changed`, `clients/autonomy_client.py` and the plans each kind of task makes | cut before the call, between the answer and its recording, and between refresh and dispatch |
| `AutonomyDispatchProofs` | theorems about it | |
| `ManualInteraction` | the operator's requests, their timeouts, the feedback handlers and the target selection they steer | cut after selection, before each request, between publishing and noting it, and before each expiry |
| `ManualInteractionProofs` | theorems about it | |
| `TargetFilter` | `algorithms/target_filter.py`: filters, ranking and hysteresis as operators | pure |
| `Tracking` | EXTENDS it: how one task of each tracking kind selects its target, goes through the stages and moves its point | a tick is cut between selection and the rest |
| `TrackingProofs` | theorems about both | |
| `OpticalLinkage` | what one tracking task with `enable_optical` tells the others: reports, task updates, optics, photos and videos | cut between each check, message and mark |
| `OpticalLinkageProofs` | theorems about it | |
| `DdsAdapter` | `adapters/dds/real_adapter.py`: start, publish, subscribe, stop, by any number of threads | cut between the calls into the middleware and the fields they set |
| `Service` | EXTENDS it: `app.py`'s start and stop, the decision loop, requests that create tasks, ticks that raise | cut at each publish, status write and return |
| `ServiceProofs` | theorems about both | |
| `MC*` | instances for TLC | |

### TaskLifecycle

`store` is `task_store._tasks`, `tasks` the `TaskContext` objects by the order
they were built (two may carry one id), `pc`, `cur`, `fresh`, `todo`, `outcome`
and `back` the local variables of the threads. `finished` (the tasks handed to
`on_task_finished` since their last end) and `chosen` (those whose phase a feedback wrote
last) record history. `Loops` are the threads of `_run`, `Workers` those of the pool; a
thread in both does everything in turn, which is how the serial runs are made.

| Action | Code |
|---|---|
| `CreateTask`, `CopyRoute`, `SnapshotTasks`, `ReplaceTask`, `AllReplaced`, `StoreTask`, `CreateTick` | `create_task`: id check, `_extract_confirmed_preplan_route`, `_terminate_active_tasks_before_create` |
| `TerminateTask` | `terminate_task` |
| `LoopPass`, `LoopTick`, `StartTick` | `_run`, `tick_task` |
| `RefreshPreplan`, `ComputePreplan` | `preplan_service.refresh_result` |
| `RefreshPatrol`, `SelectTarget` | the other `refresh_result`s |
| `WriteStatus`, `WriteFields` | the block of assignments that ends each of these handlers |
| `Report`, `DispatchAutonomy`, `CheckArrival`, `Linkage`, `PollSonar` | the `handle_*_collaboration`s, as the status checks they make and the times they store the task |
| `EndConditions`, `Finish`, `OnTaskFinished` | the rest of the tick |
| `ReadTask`, `ApplyFeedback` | `apply_manual_selection_feedback`, `apply_manual_switch_feedback` |
| `ReadTask`, `RegisterRequest` | `apply_planning_callback`, `register_manual_*_request` |
| `Expire` | the clock reaching `start_time + duration_sec` |

Escort, intercept and expel are one kind. `ABNORMAL` is left out: request
validation (`domain/models.py`) requires an area or a designated target for every
kind that would reach it; the one way around it is a hazard in the list. A plan
is a version number, so that a route confirmed can be told from a later one. What is
sent to other modules is left to `AutonomyDispatch`, `ManualInteraction` and
`OpticalLinkage`; here it matters that the task is stored again after it, since that puts
it back over whatever took its id. A feedback sets the phase of a task of any status, so
that a task that ended may be left `engaging`; `Settled` excepts exactly those.

### SituationStore

`targets`, `age` and `revision` are the dictionaries and the counter (`age` is
`now - last seen`, one step past the timeout at most), `answer` what the last
reader got and `heard` the newest stamp that ever arrived. Any message may arrive
at any time and any number of times, which is loss, duplication and reordering.
The store prunes lazily; `SituationPicture` prunes at once, and the refinement
mapping `Fresh` says that nobody can tell. Batch numbers in ids are a function
`BatchOf`; the code reads every digit of an id as part of the number.

### PerceptionTopic

The messages of `SituationStore` are any set; here they are made by `Decoded` of
packets, which are records of what the codec looks at: layout, size, the numbers and
the attribute in it, an outer head, padding. `LooksLikeTrack` and `Shifted` are the two
guesses of the codec, by the sizes in the code and the bytes that stand where a length
would, each with the version byte it looks at (`VersionFits`, `ShiftedVersionFits`);
`TrackReadRight` says when they agree with the sender. What is read out of bytes
that hold something else is the constant `Ghost`. That such a reading does produce a
target follows from the digits filter of `_decode_target_track_all_bcd`, which skips what
is no digit and never fails. `ReportsArrive` follows a packet into the store.

What the model made plain: a frame of four targets or more is taken for a track (the run
`perception_ghosts`), a padded frame is dropped, and so is a frame behind an outer head.

### AutonomyDispatch

A plan is its signature. `route` and `course` are the two outputs a payload can be
made of, and the patrol plan goes first, as in the code. `sent`, `retry` and `once`
are the deduplication fields of the task, `remote` what the module really follows
and `late` the requests it may still receive after the client gave up.
`patrols` and `streak` record history for two properties.

### ManualInteraction

`ask[r]` holds the `manual_selection_*` and `manual_switch_*` fields, `lock` the
identity in `target_constraint`, `current` the target tracked, `candidates` the ranked
list. `Look` ranks any subset of the targets in any strict order (equal ranks are
not modelled) and picks as `_apply_hysteresis` may. `answered` records when an
answer came. The feedback handlers are one action each: the
digits of the id given are the batch number that is locked, so any target may be locked,
whether or not it has that id, and the current one may keep its number.
`register_manual_selection_request` and `register_manual_switch_request` have no
caller and are left out here.

### TargetFilter and Tracking

A situation gives each target a sighting: the facts the filters ask for, range
and sector already computed. `Candidates` are the targets that pass, `Rankings`
the orders the stable sort may leave them in, `Selected` what hysteresis makes of
one. `MinThreat`, `MaxRange`, `Margin`, `TopK` are the settings of
`config/service_settings.yaml`.

`Tracking` follows one task, of a `mode`, through ticks of `refresh_result`:
`Look` is the selection, `Engage` the rest of the tick (stage, side, point), and
`GiveUp` the branches without own ship or target; the two feedback handlers are
`ChooseByNumber` and `ChooseByName`, by whether the id given has digits; the number the
digits make need not be the one of the target of that id. Intercept
and expel have fields of their own in the code; a task uses one of the two sets,
and `stage`, `side`, `stable` are that one. Geometry is chosen: whether own ship is
at the last point (`at`), which sector is best (`top`), whether clearly (`clear`),
and which side is nearer. `near`, `visits`, `lead`, `earned` and `handed` record
history for the properties. A feedback that comes between two assignments of
`Engage` is taken to come before or after it.

Two things the model made plain. A target named by number is not a change of
target for the next tick, so that it is intercepted or expelled from the stage and
the side reached with the one before; `StageOfTarget` holds but for that. And the
first tick after a change measures arrival at the point of the old target, so that
`StagesAdvance` can ask for one tick less than `stable_cycles` says.

### OpticalLinkage

One task with several targets, whose optics are told apart by batch number. `command` is
`last_optical_dispatch_signature`, `told` what was last sent for each batch, `since` the
time since the last photo and video, `reported` the two signatures of the reports,
`said` the phase in the last report, `None` if that post was lost, and `announced` the one
in the last task update. `Wait` and `Engage` are `refresh_result`, `ReportStage` to
`ReportPlan` the two report methods, `Arrive` is `_check_arrival`, `Dispatch` (the
signature is compared), `Post` (the command goes out) and `Mark` (it is noted) are
`_dispatch_optical_linkage_if_changed`, `Trigger` to `NoMoreShots` are
`_trigger_media_if_needed`, `End` is the end conditions with `on_task_finished`.
Autonomy dispatch and the requests to the operator, which a tick goes through in
between, touch none of this.

`overlapped` records whether a handler ever began inside another. The guarantees
the code gives only to handlers that keep apart (`OpenedReached`, `ArrivalOpens`) say so
with it, so that one run checks them beside those that hold always. `spoiled` records the
two things that break the close at the end: two commands that are out with neither noted,
which may be noted in the other order, and a photo or video that raises in a tick of a
task that has ended. What the run made plain:

* Whatever overlaps, a termination that comes between a tick's look at the last command
  and its command to open does no harm: the tick closes at its own end. Only the
  order of noting can (`EndDarkens` and `spoiled`).
* A feedback between the report of a phase and the task update that follows makes
  the update announce another phase, and since the phase counts as reported,
  nothing corrects it. The planning module is not told a wrong phase, but it may be told
  none: a post that fails is marked as reported like one that arrives and is never
  repeated. `NewsSpreads` says that a phase that lasts is posted, no more.
* One count of arrival serves all targets, and it survives a change of target and
  the ticks that wait. Optics still open only on a target whose point own ship is at
  (`OpenedReached`), but it may be the first tick there.
* The optics of a target are closed when the task ends, those of the targets it had
  before are not: `EndDarkens` is about the last command.
* A feedback that comes while a video is recorded makes its parameters go out with the
  number of the new target. No property says otherwise.
* Batch number 0 counts as no target. The run takes the other numbers; with 0 among
  them `ArrivalOpens` and `EndDarkens` fail.

### DdsAdapter and Service

`started`, `dp`, `dds`, `pub`, `sub` are the adapter's fields, `alive` the participants
the middleware has and `links` the topics declared on each interface; `call[t]` is
where thread `t` is inside `publish`, `subscribe`, `start` or `stop`. `Enter` looks at the
flag, `CreateParticipant`, `CreateInterface` and `MarkStarted` are the rest of
`_ensure_started`, `StartFails` its exception; `KnownTopic`, `Declare`, `NoteTopic`,
`DeclareFails` and `WriteData` what follows; `Delete`, `Unmark` and `Clear` are `stop`. The
deletions of `stop` are taken to succeed. Which payload goes out is left out.

In `Service` the main thread goes through `lifespan` (`Import` to `Stopped`), the loop
through its passes (`Pass`, `NoMoreTicks`, `SkipEnded`, `BeginTick`, ... `Raise`), and a request through `create_task`
(`CreateTask`, `Replace`, which publishes only for a task it ends, `StoreTask`, and then the first tick, which is the same actions).
A tick publishes on any of the topics in any order, may revive the status of a task that
ended meanwhile, may raise, and otherwise ends the task if its time is up (`Complete`) and
publishes its end. What a tick
decides is the business of the other modules, which in turn assume that none raises but
for `CaptureRaises` of `OpticalLinkage`. `terminate_task` publishes and ends a task as a
replacement does and is not repeated. The server answers its requests before it ends
the lifespan, hence the guard of `Shutdown`. `raced` and `underway` record history.

What the model made plain:

* The one way a tick raises in the code as it stands is a photo or video whose directory
  cannot be made: its time is not noted, so that it raises again in every tick, before the
  end conditions. Such a task never times out, and those after it are not ticked.
* Two threads that start the adapter at once may declare a topic on the participant that
  is then replaced, and note it as declared: nothing on it goes out any more.
  `CommandsGoOut` excepts exactly those executions.
* A start that fails after `create_commdp` leaves a participant behind at every publish.
* If the adapter cannot start before the subscriptions are made, a later publish starts
  it and the service still hears nothing.
* A pass under way at the stop may start the adapter again for good.

## 3. What is checked

| Run | Question | States |
|---|---|---|
| `service` | start, service and stop with a request beside the loop, a task that may raise, and a middleware that may refuse anything: what is written goes out, what was subscribed is heard, a quiet stop leaves no topic, and a due task ends unless raising ticks keep it from it | 1.3 M |
| `lifecycle_overlap` | loop and worker interleave at every step over two tasks: no end escapes `on_task_finished`, which ends are final anyway, and a stored task whose duration has elapsed ends for good although ticks in flight may revive it | 0.9 M |
| `lifecycle_serial` | one thread, three tasks of all kinds in turn, with feedback at any time: one active task, an end that tells one story, routes confirmed | 0.3 M |
| `lifecycle_revived` | *violated*: a task ended while its tick computes is active again | |
| `lifecycle_lostcreate` | *violated*: a preplan's tick puts the preplan back over the execute task of its id | |
| `situation_picture` | packets and stamped posts, reads, expiry, removal and reset: refinement of the picture, the revision marks changes, stamped reports never go back, a packet puts in what it names | 28 k |
| `perception_ghosts` | *violated*: a frame of four targets puts in a target nobody reported | |
| `autonomy_serial` | one thread, no lost answer, all kinds of task, two routes and two courses: one patrol plan, what is remembered is followed, posts of one plan end, and a steady plan is delivered or given up | 11 k |
| `autonomy_live` | lost answers, late requests and the creating thread beside the loop: posts of a steady plan end | 0.4 M |
| `manual_loop` | feedback and termination at any step of a tick: asked once, answers kept, the choice prevails, requests end | 111 k |
| `linkage` | one task, two targets, feedback and termination at any step of a tick, posts that are lost: which optics are open, that the end closes the last ones, which news spreads, and that a task that ended stays dark and silent | 2.0 M |
| `tracking_stages` | all four modes, eight situations of three targets, the operator naming any at any time: the selection, when it changes, stages, sides and the point; stages complete | 0.8 M |

The type invariants of `OpticalLinkage` and `Service` are checked by their runs; they and
those of the other modules are proved (section 4).

The violated runs are the `findings` of `PROJECT.json`: two are interleavings that the
code permits and a test of the repository says otherwise about, one is a packet that a
comment of the codec describes and its decoder takes for another.

### Which guarantees need handlers not to overlap

`EndIsFinal`, `OneActiveTask`, `Settled`, `ConfirmedRouteStands`, `PatrolOneShot`, `SentIsFollowed` and `OneRequest` hold when one
thread at a time works on a task (or, for `OneRequest`, when only the loop ticks it).
The code does not ensure that. `lifecycle_revived` shows what happens otherwise for
`EndIsFinal`; TLC refutes `OneRequest` and `PatrolOneShot` the same
way once a second thread is added. The last contradicts the comment on
`dispatch_autonomy_if_changed` that any patrol dispatch should be one-shot per task: the
creating thread's tick and the loop's first tick both pass the guard before either has
its answer.
For one thread they are proved, and so is `StoreKeepsNewest`, which `lifecycle_lostcreate`
violates; what the two violated runs of the lifecycle show is thus due to overlap alone.
`AnswerRecorded`, `ChoicePrevails` and `RequestsEnd` are about a task that only the
loop ticks while feedback and termination come at any step.
`OpenedReached`, `ArrivalOpens` and a part of `NewsSpreads` are about a linkage no handler
of which began inside another. `CommandsGoOut` and `StopIsQuiet` except two threads that
start the adapter at once.
`QuietEndIsFinal`, `PlansStayEnded`, `EndIsTold`, `TimedTasksEnd`, `AttemptsEnd`,
`StaysTuned`, `DueTaskEnds`, `EndDarkens`, `StayOpens` (both but for `spoiled`) and
`EndedIsInert` (once no tick is in flight) hold under every interleaving of the instances
checked. The hazards that only the weaker properties would touch are listed without one,
with a note.

### Bounds

* Two ids and two or three task objects: a task, the one that replaces it, and
  for the reuse of a preplan's id a third. A new task ends all others, so a fourth
  meets nothing new.
* One loop and one worker: every hazard listed needs two threads on one object.
* `ArrivalCycles` 2 (3 in the configuration): at least one tick that arrives
  without opening the optics is what matters.
* `Timeout` 2 or 3 ticks of the clock: below, at and past a deadline.
* `MaxRevision` 6 with stamps 1 and 3: local bumps overtake every stamp. The packets are
  one of each case the codec tells apart and the store can: a frame, a track without the
  number asked for, one behind an outer head, one not admitted.
* `Service`: one request beside the loop, since both do the same inside the adapter; two
  tasks, one of which raises, in either order; one topic to publish and two to subscribe;
  three participants, for a start that is repeated, one that is raced and a late one
  (when none is left, starts fail).
* Two routes and two courses, so that plans alternate; one each where a creating
  thread and lost replies are added. Attempts up to the real limit 5 in
  `autonomy_serial`, 2 in `autonomy_live`.
* `Tracking`: `StableCycles` 3 and `ConfirmCycles` 2, where the code has 3 and 10, so
  that counts are interrupted and resumed; `TopK` 2 with three targets, so that the
  current one can be crowded out. The situations differ by the margin and by more,
  in value, in threat, in area and in sector.
* Two targets in `ManualInteraction`: a current one and a better one.
* Two targets in `OpticalLinkage`, so that optics are left behind; photos only, since
  videos go the same way after them; one tick of the clock between two photos.

### Fairness

Threads are weakly fair: the operating system schedules them, and the loop is an
endless `while`. The clock is weakly fair. Clients, operators, the network and the
situation owe nothing: liveness of requests and plans is stated under the
condition that targets are found, or a plan wanted, again and again. In `Service` the
main thread is fair too, but nobody has to end the application, and the middleware may
refuse for ever. The properties
about a steady plan do not assume that the autonomy module ever accepts it.

## 4. What is proved

All for arbitrary constants under the named assumption of each module.

* `TaskLifecycleProofs`. The inductive invariant `IInv` strengthens `TypeOK` with what
  ties program counters to objects: a thread inside a tick holds an object that
  was built, a created object is known only to the thread that is about to store it, no
  two threads create the same one, a replacement returns to the snapshot it came from, and
  only the tick of a task that searches comes to assign an active status. From it: `TypeCorrect`, `QuietEndHolds`,
  `PlansStayEndedHolds`. `EndIsToldHolds` needs more (`TInv`): an object alone under its id is
  stored once it is known, and an ended one is finished or in the hands of a thread that is
  on its way to `on_task_finished`, whichever of a tick and a termination wrote last.
  `UnstoppableOnlyReplacedHolds` adds that a termination under way has a right to it
  (`PendingByRight`). `TypeOK` alone is not enough for any of them: that
  no new tick begins on an ended object needs the link from `pc` to `cur`.
* `SituationStoreProofs`. `RevisionLeads` (the revision never falls behind the newest
  stamp heard) strengthens `TypeOK`. From it: `TypeCorrect`,
  `RevisionMarksChangeHolds`, `OnlyNewerReportsHolds` for stamps in the order of
  sending, and `Implements`, the refinement of `SituationPicture`. `ReportsArriveHolds`
  needs no invariant but the arithmetic of the codec: `FrameIsFrame` (a frame of up to three
  targets is shorter than a track, whatever its fields hold) and `TrackIsTrack` (a track is
  known, and read at the right place, with an outer head and without) make
  `DecodedAsMeant`, and from there an update puts in what the packet names.
* `SerialLifecycleProofs`. The hypothesis `Serial` says that there is one thread, so that
  every handler runs to its end before the next begins. `SInv` adds to `IInv`: an
  object that is active, or that a handler holds, is the one stored under its id
  (`StoreFits`, since `update_task` puts back whatever it is given); a new task is stored
  when every older one has ended, because creation ends the tasks of its snapshot one by
  one and the active ones left are in the snapshot (`Sole`); what a tick is about to write is
  coherent, and an object whose fields are not being written tells one story, but for the
  phase a feedback has set (`Ticking`, `Writing`, `Stories`); the object whose route a
  creation copies is an earlier one of the id (`Copying`), and a preplan with a result is
  over or about to be (`PlansOver`). Each is needed by another: the route copied stands only
  because an ended preplan is never revived, which needs that the task a tick works on is
  active, which needs that nobody else ends it. From it: `OneActiveTaskHolds`,
  `SettledHolds`, `ConfirmedRouteStandsHolds`, `EndIsFinalHolds` and `StoreKeepsNewestHolds`, for any number
  of ids, requests and objects.
* `OpticalLinkageProofs`, about any number of targets and threads. What a thread carries
  fits its label (`Carries`), and the confirmation goes with the last command (`Noted`),
  however handlers overlap: this gives `TypeCorrect`; `EndedIsInertHolds` follows from the
  actions that are left when no tick is in flight. Unless two commands were out at once
  with neither noted, the last command noted is what its target was told (`Orderly`), and
  while that is to open, some handler of an ended task is still at work that will close
  (`Ending`): this gives `EndDarkensHolds` for every overlap. As long as none began inside
  another (`Apart`), one thread works at a time (`Alone`) and a tick stays on its target to
  its last photo or video (`OnTarget`): this gives `OpenedReachedHolds` and
  `ArrivalOpensHolds`. `EndDarkensHolds` and `ArrivalOpensHolds` assume that batch number 0
  is not used, since the code takes it for no target and neither opens nor closes optics
  for it.

* `AutonomyDispatchProofs`. `TypeCorrect` for any threads; it needs that a call under way
  has a plan (`CallHasPlan`). For a single thread, `CInv` ties the streak of posts to the
  attempts the task counts, which differ by the call under way, and gives
  `StreakCappedHolds`. For a single thread and answers that are not lost, `FInv` says that
  the plan remembered is the plan followed but for the moment between an answer and its
  recording, and that a patrol plan is under way only before the first was taken: this gives
  `SentIsFollowedHolds` and `PatrolOneShotHolds`.
* `ManualInteractionProofs`. `TypeCorrect` for any threads. For a single thread, `DInv` says
  how far a request has got at each label of a tick, and gives `OneRequestHolds` and
  `AnswerRecordedHolds`.
* `TrackingProofs`. For the selection, `RankingCovers` (a ranking of a finite set lists
  all of it, by counting) and `FirstIsBest` lead to `SelectedBest` and `SelectedKeeps`,
  lemmas about the operators of `TargetFilter` for any situation; `PicksBestHolds` and
  `TargetSteadyHolds` (hysteresis on) are what they say of a tick. For the stages, `SInv`
  strengthens `TypeOK` with: a stage past the first has a side (`Sound`), the point was
  offered for the stage (`PointFitsStage`), stage and point belong to the current target
  (`Owned`), the ticks the code counts exceed those really spent at the target's point by
  one at most (`Counted`), and the rival sector the code remembers is the one history
  has in the lead (`Led`). `StagesAdvanceHolds` needs `Counted` and
  `PointConfirmedHolds` needs `Led`, neither of which the code states anywhere.

* `ServiceProofs`, about any number of requests, tasks, topics and participants. `IInv`
  strengthens `TypeOK` with who may be where: the main thread starts, subscribes and
  stops, the others only publish (`Roles`), and only while the lifespan lets them
  (`Places`). Before the service serves the main thread is alone, so that what it started
  and subscribed stands, and once it subscribed anything the flag of the adapter is never
  false again until the stop, so that nobody starts it a second time (`Tuned`, which gives
  `StaysTunedHolds` without excepting races). As long as no two threads start the adapter
  at once it is `Orderly`: flag, participant, interface and noted topics fit each other, and
  a topic is declared only when the flag is up. That last part is what makes a start that
  fails halfway harmless, and no field of the adapter states it. `Settles` follows it
  through the stop, for which `Rests` says that a loop that slept when it was stopped does
  not wake up. `CommandsGoOutHolds` and `StopIsQuietHolds` follow.

`UnstoppableOnlyReplaced` and the type invariants of the modules above but for `Service`
and `OpticalLinkage` are proved and no longer run.

Every invariant and every action property of the passing runs is proved, some under
a hypothesis on the constants (one thread, no lost answer, no batch number 0, stamps in
order, hysteresis on) that their run's instance also meets. Model-checked only: liveness (`TimedTasksEnd`, `DeliveredOrGivenUp`,
`AttemptsEnd`, `ChoicePrevails`, `RequestsEnd`, `StagesComplete`, `NewsSpreads`, `StayOpens`,
`DueTaskEnds`), which the prover does not treat.

## 5. What is not modelled

Floating-point geometry (`algorithms/patrol_planner.py`, the positions and scores of
`track_point_generator.py`, `utils/geo_utils.py`), the field by field encoding of the topics
that have one layout (and a perception frame of more targets than a 16-bit length can
say, whose exception `publish` swallows), HTTP routing and validation messages, the
terminal output, configuration files (a malformed one stops the service at its start), mock
APIs other than those that write the situation store, demos, scripts and assets. The
vendor's DDS kit and the peers are external; the head of a DDS sample is known only from how
the listener reads it.

## 6. Plan

1. `TaskLifecycle`, `SituationStore` with `SituationPicture`, `AutonomyDispatch`,
   `ManualInteraction` and their proofs: done.
2. `TargetFilter` and `Tracking`: done.
3. `OpticalLinkage`: done.
4. `DdsAdapter` and `Service`: done.
5. `PerceptionTopic`: done.
6. Proofs of the safety properties of all runs: done. Left: the lemmas on which the
   liveness properties rest (the attempts of one plan are bounded, a request past its
   deadline is expired by the next tick that looks), as safety theorems of their own.
7. The lanes and corners of the patrol planner, as far as they are discrete.
