----------------------- MODULE AutonomyDispatchProofs -----------------------
(***************************************************************************)
(* Proofs about AutonomyDispatch, for any plans, threads, retry limit,     *)
(* interval and timeout.  TypeOK holds whoever ticks; the promises about   *)
(* the posts hold when one thread ticks the task, PatrolOneShot and        *)
(* SentIsFollowed also on a network that loses nothing: each of these      *)
(* conditions is needed: a second thread breaks the first.                 *)
(***************************************************************************)
EXTENDS AutonomyDispatch, TLAPS

-----------------------------------------------------------------------------
(* Types, with any number of threads. *)

\* A thread in a call has a plan to send.
CallHasPlan == \A t \in Threads : InCall(t) => tick[t].plan \in Plan

TInv == TypeOK /\ CallHasPlan

LEMMA TypeInit == Init => TInv
<1> SUFFICES ASSUME Init PROVE TInv
  OBVIOUS
<1>1. /\ retry \in [plan : Plan \cup {None}, attempts : Nat, wait : 0 .. Interval]
      /\ streak \in [plan : Plan \cup {None}, times : 0 .. MaxAttempts + 1]
  BY AutonomyAssumption DEF Init, NoRetry, NoStreak
<1>2. Idle \in [at : {"idle"}, plan : {None}, age : 0 .. Timeout]
  BY AutonomyAssumption DEF Idle
<1>3. tick \in [Threads -> [at : {"idle"}, plan : {None}, age : 0 .. Timeout]]
  BY <1>2 DEF Init
<1>4. \A t \in Threads : tick[t].at = "idle"
  BY <1>3
<1>5. CallHasPlan
  BY <1>4 DEF CallHasPlan, InCall
<1>6. tick \in [Threads -> [at : {"idle", "select", "dispatch", "posting", "accepted", "failed", "done"},
                           plan : Plan \cup {None}, age : 0 .. Timeout]]
  BY <1>3
<1>7. once \in BOOLEAN /\ kind \in Kinds
  BY Zenon DEF Init
<1>8. /\ late \subseteq Plan /\ patrols \in 0 .. 2
      /\ route = None /\ course = None /\ sent = None /\ remote = None
  BY DEF Init
<1> QED
  BY <1>1, <1>5, <1>6, <1>7, <1>8 DEF TInv, TypeOK

\* Where a thread may go next.
TickState == {"idle", "select", "dispatch", "posting", "accepted", "failed", "done"}
TickRecord == [at : TickState, plan : Plan \cup {None}, age : 0 .. Timeout]

LEMMA MoveType ==
  ASSUME TInv, NEW t \in Threads, NEW step \in TickState,
         Goto(t, step),
         step \in {"posting", "accepted", "failed"} => InCall(t)
  PROVE  tick' \in [Threads -> TickRecord] /\ CallHasPlan'
BY DEF TInv, TypeOK, CallHasPlan, InCall, Goto, TickState, TickRecord

LEMMA LeaveType ==
  ASSUME TInv, NEW t \in Threads, Leave(t)
  PROVE  tick' \in [Threads -> TickRecord] /\ CallHasPlan'
<1>1. Returned(t) \in TickRecord /\ Returned(t).at \in {"idle", "done"}
  BY AutonomyAssumption DEF Returned, Idle, Done, TickRecord, TickState
<1> QED
  BY <1>1 DEF TInv, TypeOK, CallHasPlan, InCall, Leave, TickState, TickRecord

LEMMA TypeStep ==
  ASSUME TInv, [Next]_vars
  PROVE  TInv'
<1> USE AutonomyAssumption
<1>1. ASSUME NEW t \in Threads,
             RefreshPatrol(t) \/ AwaitTarget(t) \/ StandBy(t) \/ Engage(t) \/ Skip(t)
      PROVE  TInv'
  <2>1. tick' \in [Threads -> TickRecord] /\ CallHasPlan'
    BY <1>1, MoveType, LeaveType
       DEF RefreshPatrol, AwaitTarget, StandBy, Engage, Skip, TickState
  <2>2. route' \in Routes \cup {None} /\ course' \in Courses \cup {Hold, None}
    BY <1>1 DEF RefreshPatrol, AwaitTarget, StandBy, Engage, Skip, TInv, TypeOK, task
  <2>3. UNCHANGED <<kind, sent, retry, once, remote, late, patrols, streak>>
    BY <1>1 DEF RefreshPatrol, AwaitTarget, StandBy, Engage, Skip, task
  <2> QED
    BY <2>1, <2>2, <2>3 DEF TInv, TypeOK, TickRecord, TickState
<1>2. ASSUME NEW t \in Threads, Post(t) PROVE TInv'
  <2>1. Wanted \in Plan
    BY <1>2 DEF Post, Due, Wanted, TInv, TypeOK, Plan
  <2>2. tick' \in [Threads -> TickRecord] /\ CallHasPlan'
    BY <1>2, <2>1 DEF Post, TInv, TypeOK, CallHasPlan, InCall, TickState, TickRecord
  <2>3. streak' \in [plan : Plan \cup {None}, times : 0 .. MaxAttempts + 1]
    BY <1>2, <2>1 DEF Post, TInv, TypeOK
  <2> QED
    BY <1>2, <2>2, <2>3 DEF Post, task, TInv, TypeOK, TickRecord, TickState
<1>3. ASSUME NEW t \in Threads, Accept(t) PROVE TInv'
  <2>1. tick' \in [Threads -> TickRecord] /\ CallHasPlan' /\ tick[t].plan \in Plan
    BY <1>3, MoveType DEF Accept, TickState, InCall, TInv, CallHasPlan
  <2>2. remote' \in Plan /\ patrols' \in 0 .. 2
    BY <1>3, <2>1 DEF Accept, Follow, TInv, TypeOK
  <2>3. streak' \in [plan : Plan \cup {None}, times : 0 .. MaxAttempts + 1]
    BY <1>3 DEF Accept, NoStreak
  <2> QED
    BY <1>3, <2>1, <2>2, <2>3 DEF Accept, task, TInv, TypeOK, TickRecord, TickState
<1>4. ASSUME NEW t \in Threads, Fail(t) PROVE TInv'
  <2>1. tick' \in [Threads -> TickRecord] /\ CallHasPlan' /\ tick[t].plan \in Plan
    BY <1>4, MoveType DEF Fail, TickState, InCall, TInv, CallHasPlan
  <2>2. late' \subseteq Plan
    BY <1>4, <2>1 DEF Fail, TInv, TypeOK
  <2> QED
    BY <1>4, <2>1, <2>2 DEF Fail, task, TInv, TypeOK, TickRecord, TickState
<1>5. ASSUME NEW t \in Threads, Succeed(t) \/ Retry(t) PROVE TInv'
  <2>1. tick' \in [Threads -> TickRecord] /\ CallHasPlan' /\ tick[t].plan \in Plan
    BY <1>5, LeaveType DEF Succeed, Retry, InCall, TInv, CallHasPlan
  <2>2. tick[t].age \in 0 .. Timeout /\ Attempts(tick[t].plan) \in Nat
    BY DEF TInv, TypeOK, Attempts
  <2>3. retry' \in [plan : Plan \cup {None}, attempts : Nat, wait : 0 .. Interval]
    BY <1>5, <2>1, <2>2 DEF Succeed, Retry, NoRetry
  <2>4. sent' \in Plan \cup {None} /\ once' \in BOOLEAN
    BY <1>5, <2>1 DEF Succeed, Retry, TInv, TypeOK
  <2>5. UNCHANGED <<kind, route, course, remote, late, patrols, streak>>
    BY <1>5 DEF Succeed, Retry
  <2> QED
    BY <2>1, <2>3, <2>4, <2>5 DEF TInv, TypeOK, TickRecord, TickState
<1>6. ASSUME NEW p \in Plan, ArriveLate(p) PROVE TInv'
  <2>1. remote' \in Plan /\ patrols' \in 0 .. 2 /\ late' \subseteq Plan
    BY <1>6 DEF ArriveLate, Follow, TInv, TypeOK
  <2> QED
    BY <1>6, <2>1 DEF ArriveLate, task, TInv, TypeOK, CallHasPlan, InCall
<1>7. ASSUME Elapse PROVE TInv'
  <2>1. tick' \in [Threads -> TickRecord] /\ CallHasPlan'
    <3>1. ASSUME NEW t \in Threads
          PROVE  /\ tick'[t] \in TickRecord
                 /\ tick'[t].at = tick[t].at /\ tick'[t].plan = tick[t].plan
      BY <1>7 DEF Elapse, TInv, TypeOK, TickRecord, TickState
    <3> QED
      BY <1>7, <3>1 DEF Elapse, TInv, CallHasPlan, InCall
  <2>2. retry' \in [plan : Plan \cup {None}, attempts : Nat, wait : 0 .. Interval]
    BY <1>7 DEF Elapse, TInv, TypeOK
  <2> QED
    BY <1>7, <2>1, <2>2 DEF Elapse, TInv, TypeOK, TickRecord, TickState
<1>8. CASE UNCHANGED vars
  BY <1>8 DEF vars, task, TInv, TypeOK, CallHasPlan, InCall
<1> QED
  BY <1>1, <1>2, <1>3, <1>4, <1>5, <1>6, <1>7, <1>8 DEF Next, Step

\* Every variable has its type, whatever threads tick and whatever is lost.
THEOREM TypeCorrect == Spec => []TypeOK
<1>1. TInv /\ [Next]_vars => TInv'
  BY TypeStep
<1>2. TInv => TypeOK
  BY DEF TInv
<1> QED
  BY TypeInit, <1>1, <1>2, PTL DEF Spec

-----------------------------------------------------------------------------
(* The retry limit, with one thread. *)

\* The attempts the task counts are the posts of the plan in a row: between
\* two calls exactly, in a call the one under way on top.
CountOf(t) ==
  /\ tick[t].at \in {"posting", "failed"} =>
       streak.plan = tick[t].plan /\ streak.times = Attempts(tick[t].plan)
  /\ tick[t].at = "accepted" => streak = NoStreak
  /\ ~ InCall(t) => streak.plan = retry.plan /\ streak.times = retry.attempts

CInv == TInv /\ streak.times <= MaxAttempts /\ \A t \in Threads : CountOf(t)

LEMMA CountInit == Init => CInv
BY TypeInit, AutonomyAssumption DEF Init, CInv, CountOf, InCall, Idle, NoRetry, NoStreak

LEMMA CountStep ==
  ASSUME NEW only, Threads = {only}, CInv, [Next]_vars
  PROVE  CInv'
<1> USE AutonomyAssumption DEF CInv
<1>0. TInv' /\ TypeOK
  BY TypeStep DEF TInv
<1>a. tick = [t \in {only} |-> tick[only]] /\ CountOf(only)
  BY <1>0 DEF TypeOK
<1> SUFFICES streak'.times <= MaxAttempts /\ CountOf(only)'
  BY <1>0
<1>1. ASSUME NEW t \in Threads,
             RefreshPatrol(t) \/ AwaitTarget(t) \/ StandBy(t) \/ Engage(t) \/ Skip(t)
      PROVE  streak'.times <= MaxAttempts /\ CountOf(only)'
  <2>1. /\ t = only /\ ~ InCall(only) /\ ~ InCall(only)'
        /\ UNCHANGED <<retry, streak>>
    BY <1>1, <1>0 DEF RefreshPatrol, AwaitTarget, StandBy, Engage, Skip, Selecting, Goto,
         Leave, Returned, Idle, Done, InCall, TypeOK, task
  <2> QED
    BY <2>1, <1>a DEF CountOf, InCall
<1>2. ASSUME NEW t \in Threads, Post(t)
      PROVE  streak'.times <= MaxAttempts /\ CountOf(only)'
  <2>1. t = only /\ retry' = retry /\ tick'[only].at = "posting" /\ tick'[only].plan = Wanted
    BY <1>2, <1>0 DEF Post, TypeOK, task
  <2>2. streak.plan = retry.plan /\ streak.times = retry.attempts /\ streak.times \in Nat
    BY <1>2, <2>1, <1>a, <1>0 DEF Post, CountOf, InCall, TypeOK
  <2>3. streak' = [plan |-> Wanted, times |-> Attempts(Wanted)]
    BY <1>2, <2>2 DEF Post, Attempts
  <2>4. Attempts(Wanted) <= MaxAttempts
    BY <1>2, <2>2, <1>0 DEF Post, Due, BackedOff, Attempts, TypeOK
  <2>5. streak'.times <= MaxAttempts
    BY <2>3, <2>4
  <2>6. Attempts(tick[only].plan)' = Attempts(Wanted)
    BY <2>1 DEF Attempts
  <2> QED
    BY <2>1, <2>3, <2>5, <2>6 DEF CountOf, InCall
<1>3. ASSUME NEW t \in Threads, Accept(t)
      PROVE  streak'.times <= MaxAttempts /\ CountOf(only)'
  BY <1>3, <1>0 DEF Accept, Goto, CountOf, InCall, NoStreak, TypeOK
<1>4. ASSUME NEW t \in Threads, Fail(t)
      PROVE  streak'.times <= MaxAttempts /\ CountOf(only)'
  <2>1. /\ tick[only].at = "posting" /\ tick'[only].at = "failed"
        /\ tick'[only].plan = tick[only].plan /\ UNCHANGED <<retry, streak>>
    BY <1>4, <1>0 DEF Fail, Goto, TypeOK, task
  <2> QED
    BY <2>1, <1>a DEF CountOf, InCall, Attempts
<1>5. ASSUME NEW t \in Threads, Succeed(t)
      PROVE  streak'.times <= MaxAttempts /\ CountOf(only)'
  <2>1. /\ tick[only].at = "accepted" /\ ~ InCall(only)' /\ tick'[only].at \notin {"posting", "failed", "accepted"}
        /\ retry' = NoRetry /\ streak' = streak
    BY <1>5, <1>0 DEF Succeed, Leave, Returned, Idle, Done, InCall, TypeOK
  <2> QED
    BY <2>1, <1>a DEF CountOf, NoRetry, NoStreak
<1>6. ASSUME NEW t \in Threads, Retry(t)
      PROVE  streak'.times <= MaxAttempts /\ CountOf(only)'
  <2>1. /\ tick[only].at = "failed" /\ ~ InCall(only)' /\ tick'[only].at \notin {"posting", "failed", "accepted"}
        /\ retry'.plan = tick[only].plan /\ retry'.attempts = Attempts(tick[only].plan)
        /\ streak' = streak
    BY <1>6, <1>0 DEF Retry, Leave, Returned, Idle, Done, InCall, TypeOK
  <2> QED
    BY <2>1, <1>a DEF CountOf
<1>7. ASSUME NEW p \in Plan, ArriveLate(p)
      PROVE  streak'.times <= MaxAttempts /\ CountOf(only)'
  BY <1>7, <1>a DEF ArriveLate, task, CountOf, InCall, Attempts
<1>8. ASSUME Elapse
      PROVE  streak'.times <= MaxAttempts /\ CountOf(only)'
  <2>1. /\ tick'[only].at = tick[only].at /\ tick'[only].plan = tick[only].plan
        /\ retry'.plan = retry.plan /\ retry'.attempts = retry.attempts
        /\ streak' = streak
    BY <1>8, <1>0 DEF Elapse, TypeOK
  <2> QED
    BY <2>1, <1>a DEF CountOf, InCall, Attempts
<1>9. CASE UNCHANGED vars
  BY <1>9, <1>a DEF vars, task, CountOf, InCall, Attempts
<1> QED
  BY <1>1, <1>2, <1>3, <1>4, <1>5, <1>6, <1>7, <1>8, <1>9 DEF Next, Step

\* However often other plans were wanted in between, and whether or not posts
\* are lost, a plan is posted no more times in a row than the limit.
THEOREM StreakCappedHolds ==
  ASSUME NEW CONSTANT only, Threads = {only}
  PROVE  Spec => []StreakCapped
<1>1. CInv /\ [Next]_vars => CInv'
  BY CountStep
<1>2. CInv => StreakCapped
  BY DEF CInv, StreakCapped
<1> QED
  BY CountInit, <1>1, <1>2, PTL DEF Spec

-----------------------------------------------------------------------------
(* What the autonomy module follows, with one thread and a reliable network. *)

\* The plan sent is the plan followed, but in the moment between.
FollowOf(t) ==
  /\ tick[t].at # "accepted" => sent = remote
  /\ tick[t].at = "accepted" => remote = tick[t].plan

\* A patrol plan is under way only before the first was taken.
PatrolOf(t) ==
  /\ InCall(t) /\ tick[t].plan \in Routes => ~ once
  /\ patrols = IF once \/ (tick[t].at = "accepted" /\ tick[t].plan \in Routes) THEN 1 ELSE 0

FInv == TInv /\ late = {} /\ \A t \in Threads : FollowOf(t) /\ PatrolOf(t)

LEMMA FollowInit == Init => FInv
BY TypeInit DEF Init, FInv, FollowOf, PatrolOf, InCall, Idle

LEMMA FollowStep ==
  ASSUME NEW only, Threads = {only}, ~ Lossy, FInv, [Next]_vars
  PROVE  FInv'
<1> USE AutonomyAssumption DEF FInv
<1>0. TInv' /\ TypeOK /\ CallHasPlan
  BY TypeStep DEF TInv
<1>a. FollowOf(only) /\ PatrolOf(only) /\ late = {} /\ only \in Threads
  OBVIOUS
<1> SUFFICES late' = {} /\ FollowOf(only)' /\ PatrolOf(only)'
  BY <1>0
<1>1. ASSUME NEW t \in Threads,
             RefreshPatrol(t) \/ AwaitTarget(t) \/ StandBy(t) \/ Engage(t) \/ Skip(t)
      PROVE  late' = {} /\ FollowOf(only)' /\ PatrolOf(only)'
  <2>1. /\ t = only /\ ~ InCall(only) /\ ~ InCall(only)'
        /\ UNCHANGED <<sent, once, remote, late, patrols>>
    BY <1>1, <1>0 DEF RefreshPatrol, AwaitTarget, StandBy, Engage, Skip, Selecting, Goto,
         Leave, Returned, Idle, Done, InCall, TypeOK, task
  <2> QED
    BY <2>1, <1>a DEF FollowOf, PatrolOf, InCall
<1>2. ASSUME NEW t \in Threads, Post(t)
      PROVE  late' = {} /\ FollowOf(only)' /\ PatrolOf(only)'
  <2>1. /\ tick[only].at = "dispatch" /\ tick'[only].at = "posting"
        /\ tick'[only].plan \in Routes => ~ once
        /\ UNCHANGED <<sent, once, remote, late, patrols>>
    BY <1>2, <1>0 DEF Post, Due, TypeOK, task
  <2> QED
    BY <2>1, <1>a DEF FollowOf, PatrolOf, InCall
<1>3. ASSUME NEW t \in Threads, Accept(t)
      PROVE  late' = {} /\ FollowOf(only)' /\ PatrolOf(only)'
  <2>1. /\ tick[only].at = "posting" /\ tick'[only].at = "accepted"
        /\ tick'[only].plan = tick[only].plan /\ remote' = tick[only].plan
        /\ UNCHANGED <<sent, once, late>>
    BY <1>3, <1>0 DEF Accept, Goto, Follow, TypeOK, task
  <2>2. patrols' = IF tick[only].plan \in Routes /\ patrols < 2 THEN patrols + 1 ELSE patrols
    BY <1>3 DEF Accept, Follow
  <2> QED
    BY <2>1, <2>2, <1>a DEF FollowOf, PatrolOf, InCall
<1>4. ASSUME NEW t \in Threads, Fail(t)
      PROVE  late' = {} /\ FollowOf(only)' /\ PatrolOf(only)'
  <2>1. /\ tick[only].at = "posting" /\ tick'[only].at = "failed"
        /\ tick'[only].plan = tick[only].plan
        /\ UNCHANGED <<sent, once, remote, late, patrols>>
    BY <1>4, <1>0 DEF Fail, Goto, TypeOK, task
  <2> QED
    BY <2>1, <1>a DEF FollowOf, PatrolOf, InCall
<1>5. ASSUME NEW t \in Threads, Succeed(t)
      PROVE  late' = {} /\ FollowOf(only)' /\ PatrolOf(only)'
  <2>1. /\ tick[only].at = "accepted" /\ ~ InCall(only)' /\ tick'[only].at # "accepted"
        /\ sent' = tick[only].plan /\ once' = (once \/ tick[only].plan \in Routes)
        /\ UNCHANGED <<remote, late, patrols>>
    BY <1>5, <1>0 DEF Succeed, Leave, Returned, Idle, Done, InCall, TypeOK
  <2> QED
    BY <2>1, <1>a DEF FollowOf, PatrolOf
<1>6. ASSUME NEW t \in Threads, Retry(t)
      PROVE  late' = {} /\ FollowOf(only)' /\ PatrolOf(only)'
  <2>1. /\ tick[only].at = "failed" /\ ~ InCall(only)' /\ tick'[only].at # "accepted"
        /\ UNCHANGED <<sent, once, remote, late, patrols>>
    BY <1>6, <1>0 DEF Retry, Leave, Returned, Idle, Done, InCall, TypeOK
  <2> QED
    BY <2>1, <1>a DEF FollowOf, PatrolOf
<1>7. ASSUME NEW p \in Plan, ArriveLate(p)
      PROVE  late' = {} /\ FollowOf(only)' /\ PatrolOf(only)'
  BY <1>7, <1>a DEF ArriveLate
<1>8. ASSUME Elapse
      PROVE  late' = {} /\ FollowOf(only)' /\ PatrolOf(only)'
  <2>1. /\ tick'[only].at = tick[only].at /\ tick'[only].plan = tick[only].plan
        /\ UNCHANGED <<sent, once, remote, late, patrols>>
    BY <1>8, <1>0 DEF Elapse, TypeOK
  <2> QED
    BY <2>1, <1>a DEF FollowOf, PatrolOf, InCall
<1>9. CASE UNCHANGED vars
  BY <1>9, <1>a DEF vars, task, FollowOf, PatrolOf, InCall
<1> QED
  BY <1>1, <1>2, <1>3, <1>4, <1>5, <1>6, <1>7, <1>8, <1>9 DEF Next, Step

LEMMA Followed ==
  ASSUME NEW CONSTANT only, Threads = {only}, ~ Lossy
  PROVE  Spec => []FInv
<1>1. FInv /\ [Next]_vars => FInv'
  BY FollowStep
<1> QED
  BY FollowInit, <1>1, PTL DEF Spec

\* The autonomy module is given one patrol plan in the life of a task.
THEOREM PatrolOneShotHolds ==
  ASSUME NEW CONSTANT only, Threads = {only}, ~ Lossy
  PROVE  Spec => []PatrolOneShot
<1>1. FInv => PatrolOneShot
  BY DEF FInv, PatrolOf, PatrolOneShot
<1> QED
  BY Followed, <1>1, PTL

\* Outside a call the plan the task remembers as sent is the one followed.
THEOREM SentIsFollowedHolds ==
  ASSUME NEW CONSTANT only, Threads = {only}, ~ Lossy
  PROVE  Spec => []SentIsFollowed
<1>1. FInv => SentIsFollowed
  BY DEF FInv, FollowOf, SentIsFollowed
<1> QED
  BY Followed, <1>1, PTL
=============================================================================
