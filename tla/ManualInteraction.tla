------------------------- MODULE ManualInteraction -------------------------
(***************************************************************************)
(* The dialogue of one tracking task with the command side: the requests   *)
(* that ask an operator to select or to switch the target                  *)
(* (services/collaboration_service.py), the feedback that answers them     *)
(* (services/task_service.py), and the selection of the target they steer  *)
(* (services/tracking_service.py).                                         *)
(*                                                                         *)
(* A tick runs in the decision loop, or in the thread that creates the     *)
(* task; feedback and termination run in HTTP threads.  They share the     *)
(* task object without a lock.  A request goes out by DDS before the task  *)
(* notes that it was sent.                                                 *)
(***************************************************************************)
EXTENDS Integers, Sequences, FiniteSets

CONSTANTS
  Target,     \* targets, known by id and batch number
  None,
  Threads,    \* the threads that tick the task
  Timeout     \* manual_selection_timeout_sec, manual_switch_timeout_sec

ASSUME ManualAssumption ==
  /\ IsFiniteSet(Target) /\ None \notin Target
  /\ Timeout \in Nat \ {0}

Request == {"selection", "switch"}

VARIABLES
  active,      \* status: running or waiting_target
  phase,       \* execution_phase
  current,     \* current_target_batch_no, or else current_target_id
  lock,        \* target_constraint: the identity in it
  candidates,  \* candidate_targets, best first
  ask,         \* manual_selection_*, manual_switch_*
  tick,        \* the tick of each thread: where it is, what it selected
  published,   \* history: the times each request went out
  answered,    \* history: which requests were answered since they went out: not at
               \* all, before the task had noted the request, or after
  seen         \* history: whether the last tick found a target

task == <<active, phase, current, lock, candidates>>
vars == <<task, ask, tick, published, answered, seen>>

\* left is the time to the deadline: 0 at it, -1 past it.
Unasked == [sent |-> FALSE, pending |-> FALSE, received |-> FALSE, left |-> Timeout]
Idle == [at |-> "idle", of |-> "selection", picked |-> None]

\* What a look at the situation can find: some of the targets, ranked.
Ranking ==
  {s \in UNION {[1 .. n -> Target] : n \in 0 .. Cardinality(Target)} :
     \A i, j \in DOMAIN s : s[i] = s[j] => i = j}
Named(s) == {s[i] : i \in DOMAIN s}

Goto(t, step) == tick' = [tick EXCEPT ![t].at = step]

-----------------------------------------------------------------------------
(* A tick: TrackingService.refresh_result. *)

\* mutant: the lock is ignored once there is a current target
PickAgain(ranking) ==
  IF lock # None /\ current = None THEN {lock, None}
  ELSE IF ranking = <<>> THEN {None}
  ELSE {Head(ranking)} \cup (Named(ranking) \cap {current})

\* filter_and_select_target: a target locked and seen, or else the first of
\* the ranking, or the current one when hysteresis keeps it. With a target
\* locked the candidates are ranked again as if none were.
Pick(ranking) ==
  IF lock # None THEN IF lock \in Named(ranking) THEN {lock} ELSE {lock, None}
  ELSE IF ranking = <<>> THEN {None}
  ELSE {Head(ranking)} \cup (Named(ranking) \cap {current})

Look(t) ==
  /\ tick[t].at = "idle"
  /\ active
  /\ \E ranking \in Ranking : \E picked \in Pick(ranking) :
       /\ candidates' = ranking
       /\ tick' = [tick EXCEPT ![t] = [at |-> "select", of |-> "selection", picked |-> picked]]
       /\ seen' = (picked # None)
  /\ UNCHANGED <<active, phase, current, lock, ask, published, answered>>

\* No target: the task waits, and its requests with it.
AwaitTarget(t) ==
  /\ tick[t].at = "select"
  /\ tick[t].picked = None
  /\ active' = TRUE
  /\ phase' = "patrolling"
  /\ tick' = [tick EXCEPT ![t] = Idle]
  /\ UNCHANGED <<current, lock, candidates, ask, published, answered, seen>>

Engage(t) ==
  /\ tick[t].at = "select"
  /\ tick[t].picked # None
  /\ active' = TRUE
  /\ phase' = "engaging"
  /\ current' = tick[t].picked
  /\ Goto(t, "ask")
  /\ UNCHANGED <<lock, candidates, ask, published, answered, seen>>

\* _build_manual_switch_candidates: those ranked above the current target.
Higher ==
  {candidates[i] : i \in {k \in DOMAIN candidates :
     \E j \in DOMAIN candidates : k < j /\ candidates[j] = current}}

\* mutant: a request may go out again
WantsAgain(r) ==
  IF r = "selection" THEN lock = None /\ Len(candidates) > 1
  ELSE lock # None /\ Higher # {}

\* _try_auto_request_manual_selection, _try_auto_request_manual_switch: once
\* for a task, the first while no target is designated, the second after.
Wants(r) ==
  /\ ~ ask[r].sent
  /\ IF r = "selection" THEN lock = None /\ Len(candidates) > 1
     ELSE lock # None /\ Higher # {}

\* The request is logged and published by DDS.
Publish(t) ==
  /\ tick[t].at = "ask"
  /\ Wants(tick[t].of)
  /\ published' = [published EXCEPT ![tick[t].of] = IF @ < 2 THEN @ + 1 ELSE 2]
  /\ answered' = [answered EXCEPT ![tick[t].of] = "not"]
  /\ Goto(t, "note")
  /\ UNCHANGED <<task, ask, seen>>

NoRequest(t) ==
  /\ tick[t].at = "ask"
  /\ ~ Wants(tick[t].of)
  /\ Goto(t, "expire")
  /\ UNCHANGED <<task, ask, published, answered, seen>>

\* Then the task is told.
Note(t) ==
  /\ tick[t].at = "note"
  /\ ask' = [ask EXCEPT ![tick[t].of] =
               [sent |-> TRUE, pending |-> TRUE, received |-> FALSE, left |-> Timeout]]
  /\ Goto(t, "expire")
  /\ UNCHANGED <<task, published, answered, seen>>

\* The selection is dealt with first, then the switch.
Onward(t) ==
  tick' = [tick EXCEPT ![t] = IF @.of = "selection"
                              THEN [at |-> "ask", of |-> "switch", picked |-> @.picked]
                              ELSE Idle]

\* mutant: the early return is the wrong way round
ExpiredIdle(r) == ~ ask[r].pending /\ ask[r].left <= 0

Expired(r) == ask[r].pending /\ ask[r].left <= 0

\* _update_manual_selection_timeout, _update_manual_switch_timeout
Expire(t) ==
  /\ tick[t].at = "expire"
  /\ ask' = IF Expired(tick[t].of) THEN [ask EXCEPT ![tick[t].of].pending = FALSE] ELSE ask
  /\ Onward(t)
  /\ UNCHANGED <<task, published, answered, seen>>

-----------------------------------------------------------------------------
(* Feedback, by HTTP: whether or not the task asked, until the deadline. *)

InTime(r) == ~ (ask[r].sent /\ ask[r].left < 0)

Moment(r) == IF ask[r].sent THEN "noted" ELSE IF published[r] > 0 THEN "early" ELSE "not"

\* mutant: the answer leaves the request pending
AnswerPending(r) ==
  /\ ask' = [ask EXCEPT ![r].received = TRUE]
  /\ answered' = [answered EXCEPT ![r] = Moment(r)]

Answer(r) ==
  /\ ask' = [ask EXCEPT ![r].pending = FALSE, ![r].received = TRUE]
  /\ answered' = [answered EXCEPT ![r] = Moment(r)]

\* apply_manual_selection_feedback, apply_manual_switch_feedback. The target that
\* is locked has all the digits of the given id as its batch number, whether or
\* not it has that id; so has the current one then. An id without digits is
\* locked itself, and the number of the current target stays.
Choose(r, target) ==
  /\ InTime(r)
  /\ current' \in {target} \cup ({current} \ {None})
  /\ lock' = target
  /\ phase' = "engaging"
  /\ Answer(r)
  /\ UNCHANGED <<active, candidates, tick, published, seen>>

\* keep_current
Keep ==
  /\ InTime("switch")
  /\ phase' = "engaging"
  /\ Answer("switch")
  /\ UNCHANGED <<active, current, lock, candidates, tick, published, seen>>

\* The task ends, by terminate_task or its end conditions.
End ==
  /\ active
  /\ active' = FALSE
  /\ phase' = "completed"
  /\ UNCHANGED <<current, lock, candidates, ask, tick, published, answered, seen>>

Elapse ==
  /\ ask' = [r \in Request |-> IF ask[r].sent /\ ask[r].left >= 0
                               THEN [ask[r] EXCEPT !.left = @ - 1] ELSE ask[r]]
  /\ UNCHANGED <<task, tick, published, answered, seen>>

-----------------------------------------------------------------------------
\* A task is created with a target designated or without.
Init ==
  /\ active = TRUE
  /\ phase = "planning"
  /\ current = None
  /\ lock \in Target \cup {None}
  /\ candidates = <<>>
  /\ ask = [r \in Request |-> Unasked]
  /\ tick = [t \in Threads |-> Idle]
  /\ published = [r \in Request |-> 0]
  /\ answered = [r \in Request |-> "not"]
  /\ seen = FALSE

Step(t) ==
  \/ Look(t) \/ AwaitTarget(t) \/ Engage(t)
  \/ Publish(t) \/ NoRequest(t) \/ Note(t) \/ Expire(t)

Next ==
  \/ \E t \in Threads : Step(t)
  \/ \E r \in Request, target \in Target : Choose(r, target)
  \/ Keep
  \/ End
  \/ Elapse

Spec == Init /\ [][Next]_vars

\* The threads are scheduled and the clock runs.
FairSpec == Spec /\ WF_vars(Elapse) /\ \A t \in Threads : WF_vars(Step(t))

-----------------------------------------------------------------------------
(* Properties. *)

\* The type of every variable.
TypeOK ==
  /\ active \in BOOLEAN
  /\ phase \in {"planning", "patrolling", "engaging", "completed"}
  /\ current \in Target \cup {None}
  /\ lock \in Target \cup {None}
  /\ candidates \in Ranking
  /\ ask \in [Request -> [sent : BOOLEAN, pending : BOOLEAN, received : BOOLEAN, left : -1 .. Timeout]]
  /\ tick \in [Threads -> [at : {"idle", "select", "ask", "note", "expire"},
                           of : Request, picked : Target \cup {None}]]
  /\ published \in [Request -> 0 .. 2]
  /\ answered \in [Request -> {"not", "early", "noted"}]
  /\ seen \in BOOLEAN

\* An operator is asked once to select and once to switch, in all the ticks of
\* a task.
OneRequest == \A r \in Request : published[r] <= 1

\* What the status calls say of a request agrees with what became of it,
\* whatever tick runs beside the feedback: once the task has noted a request,
\* its answer is never lost, and it is not pending any more.
AnswerRecorded ==
  \A r \in Request : answered[r] = "noted" => ask[r].received /\ ~ ask[r].pending

\* A tick that found a target is under way.
Finding == seen /\ \E t \in Threads : tick[t].at # "idle"

\* The choice of the operator prevails: ticks that began before it may put
\* the target they had selected back, but from some time on the target
\* tracked is the one locked, as long as it is seen now and then.
ChoicePrevails ==
  \A target \in Target :
    <>[](lock = target) /\ []<>Finding => <>[](current = target)

\* No request stays pending while the task keeps finding targets.
RequestsEnd == []<>Finding => \A r \in Request : []<>(~ ask[r].pending)

=============================================================================
