-------------------------- MODULE AutonomyDispatch --------------------------
(***************************************************************************)
(* How the plan of one task reaches the autonomy module, an HTTP service:  *)
(* dispatch_autonomy_if_changed of services/collaboration_service.py with  *)
(* clients/autonomy_client.py, under the ticks that make and drop the      *)
(* plan.  A tick runs in the decision loop, and one more in the thread     *)
(* that creates the task; they share the task object without a lock.       *)
(*                                                                         *)
(* A plan is its dispatch signature: what the autonomy module is sent      *)
(* without end_time.                                                       *)
(***************************************************************************)
EXTENDS Naturals

CONSTANTS
  Routes,        \* patrol plans
  Courses,       \* tracking plans
  Hold,          \* the plan of a fixed_tracking task without a target
  None,
  Kinds,         \* kinds of task to consider
  Loops,         \* the thread of the decision loop
  Creators,      \* the HTTP thread that creates the task: it ticks once
  MaxAttempts,   \* _AUTONOMY_RETRY_MAX_ATTEMPTS
  Interval,      \* _AUTONOMY_RETRY_INTERVAL_SEC
  Timeout,       \* timeout_sec of the HTTP client
  Lossy          \* whether a request that timed out may have arrived

Threads == Loops \cup Creators
Plan == Routes \cup Courses \cup {Hold}

\* "track" is escort, intercept and expel; "designated" is the same with a
\* batch number given, which never patrols.
Kind == {"patrol", "track", "designated", "search", "fixed"}

ASSUME AutonomyAssumption ==
  /\ Kinds \subseteq Kind
  /\ MaxAttempts \in Nat \ {0} /\ Interval \in Nat /\ Timeout \in Nat
  /\ Lossy \in BOOLEAN
  /\ None \notin Plan
  /\ Routes \cap (Courses \cup {Hold}) = {}
  /\ Loops \cap Creators = {}

VARIABLES
  kind,       \* task_type
  route,      \* patrol_plan_output
  course,     \* the tracking, underwater search or fixed tracking output
  sent,       \* last_autonomy_dispatch_signature
  retry,      \* autonomy_retry_signature, _attempts; wait is _next_time - now
  once,       \* autonomy_patrol_dispatched_once
  tick,       \* the tick of each thread: where it is, and its request
  remote,     \* the plan the autonomy module follows
  late,       \* requests given up by the client and not by the network
  patrols,    \* history: patrol plans accepted by the autonomy module
  streak      \* history: posts of one plan in a row since one was accepted,
              \* counted up to MaxAttempts + 1

task == <<kind, route, course, sent, retry, once>>
vars == <<task, tick, remote, late, patrols, streak>>

NoRetry == [plan |-> None, attempts |-> 0, wait |-> 0]
NoStreak == [plan |-> None, times |-> 0]
Idle == [at |-> "idle", plan |-> None, age |-> 0]
Done == [Idle EXCEPT !.at = "done"]

\* A creating thread goes back to its HTTP answer after its tick.
Returned(t) == IF t \in Loops THEN Idle ELSE Done

Goto(t, step) == tick' = [tick EXCEPT ![t].at = step]
Leave(t) == tick' = [tick EXCEPT ![t] = Returned(t)]

-----------------------------------------------------------------------------
(* The tick up to the dispatch: what the task wants. *)

\* PatrolService.refresh_result, first in a tick of every task that patrols.
RefreshPatrol(t) ==
  /\ tick[t].at = "idle"
  /\ kind \in {"patrol", "track", "search"}
  /\ route' \in Routes
  /\ course' = IF kind = "search" THEN course ELSE None
  /\ Goto(t, IF kind = "patrol" THEN "dispatch" ELSE "select")
  /\ UNCHANGED <<kind, sent, retry, once, remote, late, patrols, streak>>

Selecting(t) ==
  \/ tick[t].at = "select"
  \/ tick[t].at = "idle" /\ kind \in {"designated", "fixed"}

\* No own ship, or no target and a kind that does not dispatch while it
\* waits: the stage is reported and that is all.
AwaitTarget(t) ==
  /\ Selecting(t)
  /\ kind # "fixed"
  /\ course' = None
  /\ route' = IF kind = "designated" THEN None ELSE route
  /\ Leave(t)
  /\ UNCHANGED <<kind, sent, retry, once, remote, late, patrols, streak>>

\* No target: an area task patrols, a fixed one holds its anchor.
StandBy(t) ==
  /\ Selecting(t)
  /\ kind \in {"track", "fixed"}
  /\ course' = IF kind = "fixed" THEN Hold ELSE None
  /\ Goto(t, "dispatch")
  /\ UNCHANGED <<kind, route, sent, retry, once, remote, late, patrols, streak>>

\* A target is selected.
Engage(t) ==
  /\ Selecting(t)
  /\ route' = None
  /\ course' \in Courses
  /\ Goto(t, "dispatch")
  /\ UNCHANGED <<kind, sent, retry, once, remote, late, patrols, streak>>

-----------------------------------------------------------------------------
(* dispatch_autonomy_if_changed *)

\* The payload: a patrol plan goes before every other.
Wanted == IF route # None THEN route ELSE course

\* mutant: the retry limit is not looked at
BackedOffForAWhile(p) == retry.plan = p /\ retry.wait > 0

BackedOff(p) == retry.plan = p /\ (retry.wait > 0 \/ retry.attempts >= MaxAttempts)

\* mutant: nothing stops a second patrol
DueAlways(p) == p # None /\ p # sent /\ ~ BackedOff(p)

Due(p) ==
  /\ p # None
  /\ ~ (p \in Routes /\ once)
  /\ p # sent
  /\ ~ BackedOff(p)

\* The request is made, and now taken for the next retry.
Post(t) ==
  /\ tick[t].at = "dispatch"
  /\ Due(Wanted)
  /\ tick' = [tick EXCEPT ![t] = [at |-> "posting", plan |-> Wanted, age |-> 0]]
  /\ streak' = [plan |-> Wanted,
                times |-> IF streak.plan # Wanted THEN 1
                          ELSE IF streak.times <= MaxAttempts THEN streak.times + 1
                          ELSE streak.times]
  /\ UNCHANGED <<task, remote, late, patrols>>

Skip(t) ==
  /\ tick[t].at = "dispatch"
  /\ ~ Due(Wanted)
  /\ Leave(t)
  /\ UNCHANGED <<task, remote, late, patrols, streak>>

\* The autonomy module takes a plan.
Follow(p) ==
  /\ remote' = p
  /\ patrols' = IF p \in Routes /\ patrols < 2 THEN patrols + 1 ELSE patrols

Accept(t) ==
  /\ tick[t].at = "posting"
  /\ Follow(tick[t].plan)
  /\ Goto(t, "accepted")
  /\ streak' = NoStreak
  /\ UNCHANGED <<task, late>>

\* Refused, unreachable, or no answer within the timeout: then the request may
\* still be on its way.
Fail(t) ==
  /\ tick[t].at = "posting"
  /\ Goto(t, "failed")
  /\ late' \in {late} \cup (IF Lossy THEN {late \cup {tick[t].plan}} ELSE {})
  /\ UNCHANGED <<task, remote, patrols, streak>>

\* A request the client has given up arrives.
ArriveLate(p) ==
  /\ p \in late
  /\ Follow(p)
  /\ late' = late \ {p}
  /\ UNCHANGED <<task, tick, streak>>

\* mutant: the plan accepted is not recorded
SucceedForgetful(t) ==
  /\ tick[t].at = "accepted"
  /\ retry' = NoRetry
  /\ once' = (once \/ tick[t].plan \in Routes)
  /\ Leave(t)
  /\ UNCHANGED <<kind, route, course, sent, remote, late, patrols, streak>>

Succeed(t) ==
  /\ tick[t].at = "accepted"
  /\ sent' = tick[t].plan
  /\ retry' = NoRetry
  /\ once' = (once \/ tick[t].plan \in Routes)
  /\ Leave(t)
  /\ UNCHANGED <<kind, route, course, remote, late, patrols, streak>>

\* mutant: a failure is not added to the ones before it
AttemptsRestart(p) == 1

\* The attempts that failed in a row, of this plan.
Attempts(p) == IF retry.plan = p THEN retry.attempts + 1 ELSE 1

\* mutant: a plan that failed counts as sent
RetrySent(t) ==
  /\ tick[t].at = "failed"
  /\ sent' = tick[t].plan
  /\ retry' = [plan |-> tick[t].plan, attempts |-> Attempts(tick[t].plan), wait |-> 0]
  /\ Leave(t)
  /\ UNCHANGED <<kind, route, course, once, remote, late, patrols, streak>>

Retry(t) ==
  /\ tick[t].at = "failed"
  /\ LET p == tick[t].plan IN
       retry' = [plan |-> p, attempts |-> Attempts(p),
                 wait |-> IF tick[t].age < Interval THEN Interval - tick[t].age ELSE 0]
  /\ Leave(t)
  /\ UNCHANGED <<kind, route, course, sent, once, remote, late, patrols, streak>>

-----------------------------------------------------------------------------
InCall(t) == tick[t].at \in {"posting", "accepted", "failed"}

\* The clock. No request outlives the timeout of the client.
Elapse ==
  /\ \A t \in Threads : tick[t].at = "posting" => tick[t].age < Timeout
  /\ tick' = [t \in Threads |-> IF InCall(t) /\ tick[t].age < Timeout
                                THEN [tick[t] EXCEPT !.age = @ + 1] ELSE tick[t]]
  /\ retry' = [retry EXCEPT !.wait = IF @ > 0 THEN @ - 1 ELSE 0]
  /\ UNCHANGED <<kind, route, course, sent, once, remote, late, patrols, streak>>

Init ==
  /\ kind \in Kinds
  /\ route = None /\ course = None /\ sent = None
  /\ retry = NoRetry
  /\ once = FALSE
  /\ tick = [t \in Threads |-> Idle]
  /\ remote = None
  /\ late = {}
  /\ patrols = 0
  /\ streak = NoStreak

Step(t) ==
  \/ RefreshPatrol(t) \/ AwaitTarget(t) \/ StandBy(t) \/ Engage(t)
  \/ Post(t) \/ Skip(t) \/ Accept(t) \/ Fail(t) \/ Succeed(t) \/ Retry(t)

Next ==
  \/ \E t \in Threads : Step(t)
  \/ \E p \in Plan : ArriveLate(p)
  \/ Elapse

Spec == Init /\ [][Next]_vars

\* The threads are scheduled, the loop keeps ticking and the clock runs.
FairSpec == Spec /\ WF_vars(Elapse) /\ \A t \in Threads : WF_vars(Step(t))

-----------------------------------------------------------------------------
(* Properties. *)

\* The type of every variable.
TypeOK ==
  /\ kind \in Kinds
  /\ route \in Routes \cup {None}
  /\ course \in Courses \cup {Hold, None}
  /\ sent \in Plan \cup {None}
  /\ retry \in [plan : Plan \cup {None}, attempts : Nat, wait : 0 .. Interval]
  /\ once \in BOOLEAN
  /\ tick \in [Threads -> [at : {"idle", "select", "dispatch", "posting", "accepted", "failed", "done"},
                           plan : Plan \cup {None}, age : 0 .. Timeout]]
  /\ remote \in Plan \cup {None}
  /\ late \subseteq Plan
  /\ patrols \in 0 .. 2
  /\ streak \in [plan : Plan \cup {None}, times : 0 .. MaxAttempts + 1]

\* collaboration_service.py: any patrol-mode dispatch should be one-shot per
\* task. The autonomy module is given one patrol plan at most.
PatrolOneShot == patrols <= 1

\* Between two posts the plan remembered as sent is the plan followed, so
\* that a plan is never withheld from a module that does not follow it, nor
\* sent again to one that does.
SentIsFollowed ==
  (\A t \in Threads : tick[t].at # "accepted") => sent = remote

\* The posts of one plan in a row end at the limit, however often other plans
\* were wanted in between without being posted.
StreakCapped == streak.times <= MaxAttempts

\* From some time on every tick wants p.
AlwaysWanted(p) ==
  /\ <>[](\A t \in Threads : tick[t].at = "dispatch" => Wanted = p)
  /\ []<>(\E t \in Threads : tick[t].at = "dispatch")

\* A plan wanted from some time on is followed in the end, or given up after
\* the last attempt, or is another patrol plan of a task that had its one.
GivenUp(p) == retry.plan = p /\ retry.attempts >= MaxAttempts
DeliveredOrGivenUp ==
  \A p \in Plan : AlwaysWanted(p) => <>[](remote = p \/ GivenUp(p) \/ (p \in Routes /\ once))

\* Whatever is lost, and whoever else ticks, the posts of a plan that stays
\* the same come to an end.
AttemptsEnd ==
  \A p \in Plan : AlwaysWanted(p) => <>[](\A t \in Threads : tick[t].at # "posting")
=============================================================================
