------------------------ MODULE OpticalLinkageProofs ------------------------
(***************************************************************************)
(* Proofs about OpticalLinkage, for any targets, threads, media, arrival   *)
(* cycles and intervals.                                                   *)
(***************************************************************************)
EXTENDS OpticalLinkage, TLAPS

-----------------------------------------------------------------------------
(* The inductive invariant: first what holds however the handlers overlap. *)

\* What a thread carries fits the label it is at.
Carries(t) ==
  /\ hand[t].step \in {"stage", "tell"} => hand[t].outcome # "none"
  /\ hand[t].step = "tell" => hand[t].phase \in Phase
  /\ hand[t].step = "plan" => hand[t].outcome \in {"patrol", "track"}
  /\ hand[t].step = "arrive" => hand[t].outcome = "track"
  /\ hand[t].step \in Underway => hand[t].command \in Command
  /\ hand[t].step = "capture" => hand[t].shots # <<>>

\* The optics are confirmed when the last command was to open; there is no
\* command before there is a target; and a task that runs after a tick with a
\* target has the plan to track one.
Noted ==
  /\ confirmed <=> command # None /\ command.word = "open"
  /\ target = None => command = None /\ \A t \in Threads : hand[t].step \notin Underway
  /\ status = "running" /\ plan \notin Batch => \A t \in Threads : hand[t].outcome # "track"

Working(t) == hand[t].step # "idle"

\* Unless two commands were out at once and neither noted, one that is out and not
\* noted is the only one, and the last one noted before is what its target was
\* told last.
Orderly ==
  /\ \A t \in Threads : hand[t].step = "sent" =>
       /\ told[hand[t].command.batch] = hand[t].command.word
       /\ \A u \in Threads \ {t} : hand[u].step # "sent"
  /\ (\A t \in Threads : hand[t].step # "sent") /\ command # None => told[command.batch] = command.word

\* While the last command of a task that has ended is to open, a handler is
\* still at work that will close.
Ending == status = "ended" /\ command # None /\ command.word = "open" => \E t \in Threads : Working(t)

(* Then what holds as long as they keep apart. *)

Alone == \A t, u \in Threads : Working(t) /\ Working(u) => t = u

\* A tick with a target stays on it to the end of its photos and videos.
Aimed == target \in Batch /\ plan = target
OnTarget(t) ==
  /\ hand[t].step \in {"stage", "tell", "plan", "arrive"} /\ hand[t].outcome = "track" => Aimed
  /\ hand[t].step = "open" => target \in reached
  /\ hand[t].step \in Underway /\ hand[t].command.word = "open" =>
       hand[t].command.batch = target /\ target \in reached
  /\ hand[t].step \in {"media", "shoot", "capture"} /\ Zero \notin Batch =>
       target \in Batch /\ command = [word |-> "open", batch |-> target]

Apart ==
  /\ Alone
  /\ \A t \in Threads : OnTarget(t)
  /\ \A b \in Batch : told[b] = "open" => b \in reached

IInv ==
  /\ TypeOK /\ Noted
  /\ \A t \in Threads : Carries(t)
  /\ ~ spoiled \/ ~ overlapped => Orderly
  /\ ~ spoiled /\ Zero \notin Batch => Ending
  /\ ~ overlapped => Apart

-----------------------------------------------------------------------------
(* Types. *)

LEMMA Nothing ==
  /\ Idle \in HandState /\ Idle.step = "idle" /\ Idle.outcome = "none" /\ <<>> \in Seq(Kinds)
  /\ None \notin Batch /\ Patrol \notin Batch /\ None \notin Phase /\ None \notin Command
BY LinkageAssumption DEF Idle, HandState, Label

LEMMA MediaType == Media \in Seq(Kinds)
<1>1. \A i \in DOMAIN Media : Media[i] \in Kinds
  BY DEF Kinds
<1>2. CASE Media = <<>>
  BY <1>2
<1>3. CASE Media = <<"photo">>
  <2>1. Media[1] = "photo" /\ 1 \in DOMAIN Media
    BY <1>3
  <2> QED
    BY <1>1, <1>3, <2>1
<1>4. CASE Media = <<"video">>
  <2>1. Media[1] = "video" /\ 1 \in DOMAIN Media
    BY <1>4
  <2> QED
    BY <1>1, <1>4, <2>1
<1>5. CASE Media = <<"photo", "video">>
  <2>1. Media[1] = "photo" /\ Media[2] = "video" /\ {1, 2} \subseteq DOMAIN Media
    BY <1>5
  <2>2. "photo" \in Kinds /\ "video" \in Kinds
    BY <1>1, <2>1
  <2> QED
    BY <1>5, <2>2
<1> QED
  BY <1>2, <1>3, <1>4, <1>5, LinkageAssumption

\* A queue of shots that is not empty.
LEMMA ShotsType ==
  ASSUME NEW q \in Seq(Kinds), q # <<>>
  PROVE  Head(q) \in Kinds /\ Tail(q) \in Seq(Kinds)
OBVIOUS

\* What one thread does of itself or for a client.
Act(t) == Work(t) \/ Terminate(t) \/ Feedback(t)

Actions(t) ==
  \/ Begin(t) \/ Refuse(t) \/ Wait(t) \/ Engage(t) \/ ReportStage(t) \/ KeepStage(t) \/ MarkStage(t)
  \/ ReportPlan(t) \/ Arrive(t) \/ Dispatch(t) \/ Post(t) \/ NoDispatch(t) \/ Mark(t) \/ Trigger(t) \/ Shoot(t)
  \/ Capture(t) \/ CaptureRaises(t) \/ NoMoreShots(t) \/ End(t) \/ Terminate(t) \/ Feedback(t)

LEMMA ActActions == \A t : Act(t) <=> Actions(t)
BY DEF Act, Actions, Work, Report, Optics, Shots

\* The local variables of a thread keep to their types, and those of the others
\* as they are.
LEMMA HandType ==
  ASSUME TypeOK, NEW t \in Threads, Carries(t), Act(t)
  PROVE  hand' \in [Threads -> HandState] /\ \A u \in Threads \ {t} : hand'[u] = hand[u]
<1> DEFINE r == hand[t]
<1>1. hand \in [Threads -> HandState] /\ r \in HandState /\ r.shots \in Seq(Kinds)
  BY DEF TypeOK, HandState
<1>2. phase \in Phase
  BY DEF TypeOK
<1>3. ASSUME NEW x \in HandState, hand' = [hand EXCEPT ![t] = x]
      PROVE  hand' \in [Threads -> HandState] /\ \A u \in Threads \ {t} : hand'[u] = hand[u]
  BY <1>1, <1>3
<1>4. ASSUME NEW l \in Label, Goto(t, l)
      PROVE  hand' \in [Threads -> HandState] /\ \A u \in Threads \ {t} : hand'[u] = hand[u]
  BY <1>1, <1>4 DEF Goto, HandState
<1>5. CASE Begin(t) \/ Refuse(t) \/ KeepStage(t) \/ ReportPlan(t) \/ Post(t) \/ NoMoreShots(t) \/ Terminate(t)
  <2>1. \E l \in Label : Goto(t, l)
    BY <1>5 DEF Begin, Refuse, KeepStage, ReportPlan, Post, NoMoreShots, Terminate, AfterStage, Label
  <2> QED
    BY <1>4, <2>1
<1>6. CASE Wait(t)
  <2>1. PICK outcome \in {"report", "patrol"} :
          hand' = [hand EXCEPT ![t].step = "stage", ![t].outcome = outcome]
    BY <1>6 DEF Wait
  <2> QED
    BY <1>1, <2>1 DEF HandState, Label
<1>7. CASE Engage(t)
  BY <1>1, <1>7 DEF Engage, HandState, Label
<1>8. CASE ReportStage(t)
  BY <1>1, <1>2, <1>8 DEF ReportStage, HandState, Label
<1>9. CASE MarkStage(t)
  <2>1. AfterStage(t) \in Label
    BY DEF AfterStage, Label
  <2> QED
    BY <1>1, <1>9, <2>1 DEF MarkStage, HandState
<1>10. CASE Arrive(t)
  <2>1. \E l \in Label : Goto(t, l)
    BY <1>10 DEF Arrive, Label
  <2> QED
    BY <1>4, <2>1
<1>11. CASE End(t)
  <2>1. hand' = [hand EXCEPT ![t] = Idle] \/ Goto(t, "close")
    BY <1>11 DEF End
  <2> QED
    BY <1>3, <1>4, <2>1, Nothing DEF Label
<1>12. CASE Dispatch(t)
  <2>1. r.step \in {"open", "close"} /\ target \in Batch
    BY <1>12 DEF Dispatch, Sent, TypeOK
  <2>2. [word |-> r.step, batch |-> target] \in Command
    BY <2>1 DEF Command
  <2>3. hand' = [hand EXCEPT ![t].step = "post", ![t].command = [word |-> r.step, batch |-> target]]
    BY <1>12 DEF Dispatch
  <2> QED
    BY <1>1, <2>2, <2>3 DEF HandState, Label
<1>13. ASSUME NEW w, Onward(t, w)
       PROVE  hand' \in [Threads -> HandState] /\ \A u \in Threads \ {t} : hand'[u] = hand[u]
  <2>1. CASE w = "open"
    <3>1. hand' = [hand EXCEPT ![t] = [r EXCEPT !.step = "media", !.command = None]]
      BY <1>1, <1>13, <2>1 DEF Onward
    <3>2. [r EXCEPT !.step = "media", !.command = None] \in HandState
      BY <1>1 DEF HandState, Label
    <3> QED
      BY <1>3, <3>1, <3>2
  <2>2. CASE w # "open"
    <3>1. hand' = [hand EXCEPT ![t] = Idle]
      BY <1>1, <1>13, <2>2 DEF Onward
    <3> QED
      BY <1>3, <3>1, Nothing
  <2> QED
    BY <2>1, <2>2
<1>14. CASE NoDispatch(t) \/ Mark(t)
  BY <1>13, <1>14 DEF NoDispatch, Mark
<1>15. CASE Trigger(t)
  <2>1. (IF confirmed THEN "shoot" ELSE "end") \in Label
    BY DEF Label
  <2> QED
    BY <1>1, <1>15, <2>1, MediaType DEF Trigger, HandState
<1>16. CASE Shoot(t)
  <2>1. Tail(r.shots) \in Seq(Kinds)
    BY <1>1, <1>16, ShotsType DEF Shoot
  <2>2. Goto(t, "capture") \/ hand' = [hand EXCEPT ![t] = [r EXCEPT !.shots = Tail(r.shots)]]
    BY <1>1, <1>16 DEF Shoot, Goto
  <2>3. [r EXCEPT !.shots = Tail(r.shots)] \in HandState
    BY <1>1, <2>1 DEF HandState
  <2> QED
    BY <1>3, <1>4, <2>2, <2>3 DEF Label
<1>17. CASE Capture(t)
  <2>1. Tail(r.shots) \in Seq(Kinds)
    BY <1>1, <1>17, ShotsType DEF Capture, Carries
  <2>2. hand' = [hand EXCEPT ![t].step = "shoot", ![t].shots = Tail(r.shots)]
    BY <1>1, <1>17 DEF Capture
  <2> QED
    BY <1>1, <2>1, <2>2 DEF HandState, Label
<1>18. CASE CaptureRaises(t)
  BY <1>3, <1>18, Nothing DEF CaptureRaises
<1>19. CASE Feedback(t)
  BY <1>1, <1>19 DEF Feedback
<1> QED
  BY <1>5, <1>6, <1>7, <1>8, <1>9, <1>10, <1>11, <1>12, <1>14, <1>15, <1>16, <1>17, <1>18, <1>19, ActActions DEF Actions

\* The rest of the state.
TaskType ==
  /\ status \in {"waiting_target", "running", "ended"}
  /\ phase \in Phase
  /\ target \in Batch \cup {None}
  /\ plan \in Batch \cup {None, Patrol}
  /\ cycles \in 0 .. ArrivalCycles
  /\ since \in [Kinds -> 0 .. Interval]
NewsType ==
  /\ command \in Command \cup {None}
  /\ confirmed \in BOOLEAN
  /\ reported \in [phase : Phase \cup {None}, plan : Batch \cup {None, Patrol}]
  /\ said \in Phase \cup {None} /\ announced \in Phase \cup {None}
  /\ told \in [Batch -> {"nothing", "open", "close"}]
  /\ reached \subseteq Batch /\ overlapped \in BOOLEAN /\ spoiled \in BOOLEAN

LEMMA TypeSplits == TypeOK <=> TaskType /\ NewsType /\ hand \in [Threads -> HandState]
BY DEF TypeOK, TaskType, NewsType

LEMMA TaskTypeStep ==
  ASSUME TypeOK, NEW t \in Threads, Act(t)
  PROVE  TaskType'
<1> USE LinkageAssumption, TypeSplits DEF task
<1>1. CASE Begin(t) \/ Refuse(t) \/ ReportStage(t) \/ KeepStage(t) \/ MarkStage(t) \/ ReportPlan(t)
           \/ Dispatch(t) \/ Post(t) \/ NoDispatch(t) \/ Mark(t) \/ Trigger(t) \/ Shoot(t) \/ CaptureRaises(t) \/ NoMoreShots(t)
  <2>1. UNCHANGED <<task, cycles, since>>
    BY <1>1 DEF Begin, Refuse, ReportStage, KeepStage, MarkStage, ReportPlan, Dispatch, Post, NoDispatch, Mark,
       Trigger, Shoot, CaptureRaises, NoMoreShots
  <2> QED
    BY <2>1 DEF TaskType
<1>2. CASE Wait(t) \/ Engage(t)
  BY <1>2 DEF Wait, Engage, TaskType, Phase
<1>3. CASE Arrive(t)
  <2>1. cycles' \in 0 .. ArrivalCycles
    BY <1>3 DEF Arrive, Cycles, TaskType
  <2> QED
    BY <1>3, <2>1 DEF Arrive, TaskType
<1>4. CASE End(t) \/ Terminate(t) \/ Feedback(t)
  BY <1>4 DEF End, Terminate, Feedback, TaskType, Phase
<1>5. CASE Capture(t)
  <2>1. since \in [Kinds -> 0 .. Interval] /\ 0 \in 0 .. Interval
    BY DEF TaskType
  <2>2. since' = [since EXCEPT ![Head(hand[t].shots)] = 0]
    BY <1>5 DEF Capture
  <2>3. since' \in [Kinds -> 0 .. Interval]
    BY <2>1, <2>2, Zenon
  <2> QED
    BY <1>5, <2>3 DEF Capture, TaskType
<1> QED
  BY <1>1, <1>2, <1>3, <1>4, <1>5, ActActions DEF Actions

LEMMA NewsTypeStep ==
  ASSUME TypeOK, Noted, NEW t \in Threads, Carries(t), Act(t)
  PROVE  NewsType'
<1> USE TypeSplits DEF optics, news, history
<1>0. hand[t] \in HandState
  OBVIOUS
<1>1. CASE Refuse(t) \/ Wait(t) \/ Engage(t) \/ KeepStage(t) \/ Dispatch(t) \/ NoDispatch(t) \/ Trigger(t)
           \/ Shoot(t) \/ Capture(t) \/ NoMoreShots(t) \/ End(t)
  <2>1. UNCHANGED <<optics, news, history>>
    BY <1>1 DEF Refuse, Wait, Engage, KeepStage, Dispatch, NoDispatch, Trigger, Shoot, Capture, NoMoreShots, End
  <2> QED
    BY <2>1 DEF NewsType
<1>2. CASE Begin(t) \/ Terminate(t) \/ Feedback(t)
  <2>1. Meets(t) /\ UNCHANGED <<optics, news, spoiled>>
    BY <1>2 DEF Begin, Terminate, Feedback
  <2>2. overlapped' \in BOOLEAN /\ reached' \subseteq Batch
    BY <2>1 DEF Meets, NewsType
  <2> QED
    BY <2>1, <2>2 DEF NewsType
<1>3. CASE ReportStage(t)
  BY <1>3 DEF ReportStage, NewsType, TaskType
<1>4. CASE MarkStage(t)
  <2>1. reported' \in [phase : Phase \cup {None}, plan : Batch \cup {None, Patrol}]
    BY <1>0, <1>4 DEF MarkStage, NewsType, HandState
  <2> QED
    BY <1>4, <2>1 DEF MarkStage, NewsType, TaskType
<1>5. CASE ReportPlan(t)
  <2>1. reported' \in [phase : Phase \cup {None}, plan : Batch \cup {None, Patrol}]
    BY <1>5 DEF ReportPlan, NewsType, TaskType
  <2> QED
    BY <1>5, <2>1 DEF ReportPlan, NewsType, TaskType
<1>6. CASE Arrive(t)
  <2>1. status = "running" => plan \in Batch
    BY <1>6 DEF Arrive, Noted, Carries
  <2>2. reached' \subseteq Batch
    BY <1>6, <2>1 DEF Arrive, NewsType
  <2> QED
    BY <1>6, <2>2 DEF Arrive, NewsType
<1>7. CASE Post(t)
  <2>1. hand[t].command.batch \in Batch /\ hand[t].command.word \in {"open", "close"}
    BY <1>7 DEF Post, Carries, Command, Underway
  <2>2. told' \in [Batch -> {"nothing", "open", "close"}] /\ spoiled' \in BOOLEAN
    BY <1>7, <2>1 DEF Post, NewsType
  <2> QED
    BY <1>7, <2>2 DEF Post, NewsType
<1>8. CASE Mark(t)
  <2>1. hand[t].command \in Command
    BY <1>8 DEF Mark, Carries, Underway
  <2>2. confirmed' \in BOOLEAN
    BY <1>8 DEF Mark
  <2> QED
    BY <1>8, <2>1, <2>2 DEF Mark, NewsType
<1>9. CASE CaptureRaises(t)
  BY <1>9 DEF CaptureRaises, NewsType
<1> QED
  BY <1>1, <1>2, <1>3, <1>4, <1>5, <1>6, <1>7, <1>8, <1>9, ActActions DEF Actions

-----------------------------------------------------------------------------
(* However the handlers overlap. *)

\* Where an action leaves its thread.
LEMMA Leaves ==
  ASSUME TypeOK, NEW t \in Threads, Carries(t), Act(t)
  PROVE  /\ Carries(t)'
         /\ hand'[t].outcome = "track" => hand[t].outcome = "track" \/ Engage(t)
         /\ hand'[t].step \in Underway => Dispatch(t) \/ hand[t].step \in Underway
         /\ hand'[t].step = "sent" => Post(t) \/ hand[t].step = "sent"
         /\ hand'[t].step = "idle" => \/ Feedback(t) \/ NoDispatch(t) \/ Mark(t) \/ CaptureRaises(t)
                                     \/ (End(t) /\ status # "ended" /\ status' = status)
<1>1. hand \in [Threads -> HandState] /\ hand[t] \in HandState /\ phase \in Phase
  BY DEF TypeOK
<1> USE <1>1, Nothing DEF Carries, Goto, HandState, Underway
<1>2. CASE Begin(t) \/ Refuse(t) \/ NoMoreShots(t) \/ Terminate(t)
  BY <1>2 DEF Begin, Refuse, NoMoreShots, Terminate
<1>3. CASE Wait(t)
  <2>1. PICK outcome \in {"report", "patrol"} :
          hand' = [hand EXCEPT ![t].step = "stage", ![t].outcome = outcome]
    BY <1>3 DEF Wait
  <2> QED
    BY <2>1
<1>4. CASE Engage(t)
  BY <1>4 DEF Engage
<1>5. CASE ReportStage(t)
  BY <1>5 DEF ReportStage
<1>6. CASE KeepStage(t)
  BY <1>6 DEF KeepStage, AfterStage
<1>7. CASE MarkStage(t)
  BY <1>7 DEF MarkStage, AfterStage
<1>8. CASE ReportPlan(t)
  BY <1>8 DEF ReportPlan
<1>9. CASE Arrive(t)
  <2>1. Goto(t, "open") \/ Goto(t, "end")
    BY <1>9 DEF Arrive
  <2> QED
    BY <2>1
<1>10. CASE Dispatch(t)
  <2>1. target \in Batch /\ hand[t].step \in {"open", "close"}
    BY <1>10 DEF Dispatch, Sent, TypeOK
  <2> QED
    BY <1>10, <2>1 DEF Dispatch, Command
<1>11. CASE NoDispatch(t) \/ Mark(t)
  <2>1. PICK w : Onward(t, w)
    BY <1>11 DEF NoDispatch, Mark
  <2>2. hand'[t] = Idle \/ hand'[t] = [hand[t] EXCEPT !.step = "media", !.command = None]
    BY <2>1 DEF Onward
  <2> QED
    BY <1>11, <2>2
<1>12. CASE Trigger(t)
  <2>1. hand'[t].step \in {"shoot", "end"} /\ hand'[t].outcome = hand[t].outcome
    BY <1>12 DEF Trigger
  <2> QED
    BY <2>1
<1>13. CASE Shoot(t)
  <2>1. /\ hand'[t].step = "shoot" \/ (hand'[t].step = "capture" /\ hand'[t].shots = hand[t].shots)
        /\ hand'[t].outcome = hand[t].outcome
    BY <1>13 DEF Shoot
  <2> QED
    BY <1>13, <2>1 DEF Shoot
<1>14. CASE Capture(t) \/ CaptureRaises(t)
  <2>1. hand'[t] = Idle \/ (hand'[t].step = "shoot" /\ hand'[t].outcome = hand[t].outcome)
    BY <1>14 DEF Capture, CaptureRaises
  <2>2. Capture(t) => hand'[t].step = "shoot"
    BY DEF Capture
  <2> QED
    BY <1>14, <2>1, <2>2
<1>15. CASE End(t)
  <2>1. (hand' = [hand EXCEPT ![t] = Idle] /\ status # "ended" /\ status' = status) \/ Goto(t, "close")
    BY <1>15 DEF End
  <2> QED
    BY <1>15, <2>1
<1>16. CASE Feedback(t)
  <2>1. hand' = hand
    BY <1>16 DEF Feedback
  <2> QED
    BY <1>16, <2>1
<1>17. CASE Post(t)
  BY <1>17 DEF Post
<1> QED
  BY <1>2, <1>3, <1>4, <1>5, <1>6, <1>7, <1>8, <1>9, <1>10, <1>11, <1>12, <1>13, <1>14, <1>15, <1>16, <1>17, ActActions
     DEF Actions

LEMMA NotedStep ==
  ASSUME TypeOK, Noted, NEW t \in Threads, Carries(t), Act(t)
  PROVE  Noted'
<1>1. /\ \A u \in Threads \ {t} : hand'[u] = hand[u]
      /\ hand'[t].outcome = "track" => hand[t].outcome = "track" \/ Engage(t)
      /\ hand'[t].step \in Underway => Dispatch(t) \/ hand[t].step \in Underway
  BY HandType, Leaves
<1>2. target' = None => target = None
  BY ActActions, Nothing DEF Actions, Begin, Refuse, Wait, Engage, ReportStage, KeepStage, MarkStage, ReportPlan, Arrive,
     Dispatch, Post, NoDispatch, Mark, Trigger, Shoot, Capture, CaptureRaises, NoMoreShots, End, Terminate, Feedback, task
<1>3. \/ command' = command /\ confirmed' = confirmed
      \/ /\ Mark(t) /\ hand[t].command \in Command
         /\ command' = hand[t].command /\ confirmed' = (hand[t].command.word = "open")
  BY ActActions DEF Actions, Begin, Refuse, Wait, Engage, ReportStage, KeepStage, MarkStage, ReportPlan, Arrive,
     Dispatch, Post, NoDispatch, Mark, Trigger, Shoot, Capture, CaptureRaises, NoMoreShots, End, Terminate, Feedback, optics,
     Carries, Underway
<1>4. confirmed' <=> command' # None /\ command'.word = "open"
  <2>1. CASE command' = command /\ confirmed' = confirmed
    BY <2>1 DEF Noted
  <2>2. CASE hand[t].command \in Command /\ command' = hand[t].command /\ confirmed' = (hand[t].command.word = "open")
    BY <2>2, Nothing
  <2> QED
    BY <1>3, <2>1, <2>2
<1>5. ASSUME target' = None
      PROVE  command' = None /\ \A u \in Threads : hand'[u].step \notin Underway
  <2>1. target = None /\ command = None /\ \A u \in Threads : hand[u].step \notin Underway
    BY <1>2, <1>5 DEF Noted
  <2>2. ~ Mark(t) /\ ~ Dispatch(t)
    BY <2>1 DEF Mark, Dispatch, Sent, Underway
  <2> QED
    BY <1>1, <1>3, <2>1, <2>2
<1>6. ASSUME status' = "running", plan' \notin Batch
      PROVE  \A u \in Threads : hand'[u].outcome # "track"
  <2>1. ~ Engage(t) /\ status = "running" /\ plan \notin Batch
    BY <1>6, ActActions DEF Actions, Begin, Refuse, Wait, Engage, ReportStage, KeepStage, MarkStage, ReportPlan, Arrive,
       Dispatch, Post, NoDispatch, Mark, Trigger, Shoot, Capture, CaptureRaises, NoMoreShots, End, Terminate, Feedback, task
  <2> QED
    BY <1>1, <2>1 DEF Noted
<1> QED
  BY <1>4, <1>5, <1>6 DEF Noted

-----------------------------------------------------------------------------
(* As long as they keep apart. *)

\* Then the thread that acts is the only one at work.
LEMMA OthersIdle ==
  ASSUME IInv, NEW t \in Threads, Act(t), ~ overlapped'
  PROVE  ~ overlapped /\ Apart /\ \A u \in Threads \ {t} : hand[u].step = "idle" /\ hand'[u] = hand[u]
<1>1. ~ overlapped
  BY ActActions DEF Actions, Begin, Refuse, Wait, Engage, ReportStage, KeepStage, MarkStage, ReportPlan, Arrive,
     Dispatch, Post, NoDispatch, Mark, Trigger, Shoot, Capture, CaptureRaises, NoMoreShots, End, Terminate, Feedback, history,
     Meets
<1>2. CASE Working(t)
  BY <1>1, <1>2, HandType DEF IInv, Apart, Alone, Working
<1>3. CASE ~ Working(t)
  <2>1. Meets(t)
    BY <1>3, ActActions DEF Actions, Begin, Refuse, Wait, Engage, ReportStage, KeepStage, MarkStage, ReportPlan, Arrive,
       Dispatch, Post, NoDispatch, Mark, Trigger, Shoot, Capture, CaptureRaises, NoMoreShots, End, Terminate, Feedback, Working
  <2>2. \A u \in Threads \ {t} : hand[u].step = "idle"
    BY <2>1 DEF Meets
  <2> QED
    BY <1>1, <2>2, HandType DEF IInv
<1> QED
  BY <1>2, <1>3

\* The tick stays on its target.
LEMMA OnTargetStep ==
  ASSUME IInv, NEW t \in Threads, Act(t), ~ overlapped'
  PROVE  OnTarget(t)'
<1>1. /\ TypeOK /\ Noted /\ Carries(t) /\ OnTarget(t) /\ reached \subseteq Batch /\ ~ overlapped
      /\ hand \in [Threads -> HandState] /\ hand[t] \in HandState
  BY OthersIdle DEF IInv, Apart, TypeOK
<1> USE <1>1, Nothing DEF OnTarget, Aimed, Goto, HandState, task, optics, history, Underway
<1>2. CASE Begin(t) \/ Refuse(t) \/ Wait(t) \/ NoMoreShots(t) \/ Terminate(t) \/ CaptureRaises(t) \/ End(t)
  <2>1. hand'[t].step \in {"idle", "refresh", "end", "close"} \/ (hand'[t].step = "stage" /\ hand'[t].outcome # "track")
    <3>1. CASE Wait(t)
      <4>1. PICK outcome \in {"report", "patrol"} :
              hand' = [hand EXCEPT ![t].step = "stage", ![t].outcome = outcome]
        BY <3>1 DEF Wait
      <4> QED
        BY <4>1
    <3>2. CASE End(t)
      <4>1. hand' = [hand EXCEPT ![t] = Idle] \/ Goto(t, "close")
        BY <3>2 DEF End
      <4> QED
        BY <4>1
    <3> QED
      BY <1>2, <3>1, <3>2 DEF Begin, Refuse, NoMoreShots, Terminate, CaptureRaises
  <2> QED
    BY <2>1
<1>3. CASE Engage(t)
  <2>1. target' \in Batch /\ plan' = target' /\ hand'[t].step = "stage"
    BY <1>3 DEF Engage
  <2> QED
    BY <2>1
<1>4. CASE ReportStage(t)
  <2>1. hand'[t].step = "tell" /\ hand'[t].outcome = hand[t].outcome /\ UNCHANGED <<target, plan>> /\ hand[t].step = "stage"
    BY <1>4 DEF ReportStage
  <2> QED
    BY <2>1
<1>5. CASE KeepStage(t)
  <2>1. /\ hand'[t].step \in {"plan", "end"} /\ hand'[t].outcome = hand[t].outcome /\ UNCHANGED <<target, plan>>
        /\ hand[t].step = "stage"
    BY <1>5 DEF KeepStage, AfterStage
  <2> QED
    BY <2>1
<1>6. CASE MarkStage(t)
  <2>1. /\ hand'[t].step \in {"plan", "end"} /\ hand'[t].outcome = hand[t].outcome /\ UNCHANGED <<target, plan>>
        /\ hand[t].step = "tell"
    BY <1>6 DEF MarkStage, AfterStage
  <2> QED
    BY <2>1
<1>7. CASE ReportPlan(t)
  <2>1. /\ hand'[t].step \in {"arrive", "end"} /\ hand'[t].outcome = hand[t].outcome /\ UNCHANGED <<target, plan>>
        /\ hand[t].step = "plan"
    BY <1>7 DEF ReportPlan
  <2> QED
    BY <2>1
<1>8. CASE Arrive(t)
  <2>1. hand[t].step = "arrive" /\ hand[t].outcome = "track" /\ UNCHANGED <<target, plan>> /\ plan = target
    BY <1>8 DEF Arrive, Carries
  <2>2. CASE status # "running"
    BY <1>8, <2>2 DEF Arrive
  <2>3. CASE status = "running"
    <3>1. PICK near \in BOOLEAN :
            /\ cycles' = Cycles(near)
            /\ reached' = IF near /\ Arrived(cycles') /\ ~ overlapped THEN reached \cup {plan} ELSE reached
            /\ Goto(t, IF Arrived(cycles') THEN "open" ELSE "end")
      BY <1>8, <2>3 DEF Arrive
    <3>2. Arrived(cycles') => near
      BY <3>1, LinkageAssumption DEF Cycles, Arrived
    <3> QED
      BY <2>1, <3>1, <3>2
  <2> QED
    BY <2>2, <2>3
<1>9. CASE Dispatch(t)
  <2>1. hand[t].step \in {"open", "close"} /\ target \in Batch
    BY <1>9 DEF Dispatch, Sent, TypeOK
  <2>2. /\ hand'[t].step = "post" /\ hand'[t].command = [word |-> hand[t].step, batch |-> target]
        /\ UNCHANGED <<target, reached>>
    BY <1>9 DEF Dispatch
  <2> QED
    BY <2>1, <2>2
<1>10. CASE NoDispatch(t)
  <2>1. hand[t].step \in {"open", "close"} /\ Sent(hand[t].step) /\ UNCHANGED <<target, command>>
    BY <1>10 DEF NoDispatch
  <2>2. CASE hand[t].step = "close"
    <3>1. hand'[t] = Idle
      BY <1>10, <2>2 DEF NoDispatch, Onward
    <3> QED
      BY <3>1
  <2>3. CASE hand[t].step = "open"
    <3>1. hand' = [hand EXCEPT ![t] = [hand[t] EXCEPT !.step = "media", !.command = None]]
      BY <1>10, <2>3 DEF NoDispatch, Onward
    <3>2. hand'[t].step = "media"
      BY <3>1
    <3>3. target \in Batch
      BY <2>3
    <3>4. Zero \notin Batch => command = [word |-> "open", batch |-> target]
      BY <2>1, <2>3, <3>3 DEF Sent
    <3> QED
      BY <2>1, <3>2, <3>3, <3>4
  <2> QED
    BY <2>1, <2>2, <2>3
<1>11. CASE Mark(t)
  <2> DEFINE c == hand[t].command
  <2>1. c \in Command /\ c.word \in {"open", "close"} /\ command' = c /\ Onward(t, c.word) /\ target' = target
    BY <1>11 DEF Mark, Carries, Command
  <2>2. CASE c.word = "close"
    <3>1. hand'[t] = Idle
      BY <2>1, <2>2 DEF Onward
    <3> QED
      BY <3>1
  <2>3. CASE c.word = "open"
    <3>1. hand' = [hand EXCEPT ![t] = [hand[t] EXCEPT !.step = "media", !.command = None]]
      BY <2>1, <2>3 DEF Onward
    <3>2. hand'[t].step = "media"
      BY <3>1
    <3>3. c.batch = target /\ target \in Batch
      BY <1>11, <2>1, <2>3 DEF Mark, Command
    <3>4. c = [word |-> "open", batch |-> target]
      BY <2>1, <2>3, <3>3 DEF Command
    <3> QED
      BY <2>1, <3>2, <3>3, <3>4
  <2> QED
    BY <2>1, <2>2, <2>3
<1>12. CASE Trigger(t) \/ Shoot(t) \/ Capture(t)
  <2>1. hand[t].step \in {"media", "shoot", "capture"} /\ UNCHANGED <<target, command>>
    BY <1>12 DEF Trigger, Shoot, Capture
  <2>2. hand'[t].step \in {"shoot", "capture", "end"}
    BY <1>12 DEF Trigger, Shoot, Capture
  <2> QED
    BY <2>1, <2>2
<1>13. CASE Feedback(t)
  BY <1>13 DEF Feedback
<1>14. CASE Post(t)
  <2>1. /\ hand'[t].step = "sent" /\ hand'[t].command = hand[t].command /\ UNCHANGED <<target, reached>>
        /\ hand[t].step = "post"
    BY <1>14 DEF Post
  <2> QED
    BY <2>1
<1> QED
  BY <1>2, <1>3, <1>4, <1>5, <1>6, <1>7, <1>8, <1>9, <1>10, <1>11, <1>12, <1>13, <1>14, ActActions DEF Actions

LEMMA ReachedStep ==
  ASSUME IInv, NEW t \in Threads, Act(t), ~ overlapped'
  PROVE  \A b \in Batch : told'[b] = "open" => b \in reached'
<1>1. /\ Carries(t) /\ OnTarget(t) /\ told \in [Batch -> {"nothing", "open", "close"}]
      /\ \A b \in Batch : told[b] = "open" => b \in reached
  BY OthersIdle DEF IInv, Apart, TypeOK
<1>2. CASE Post(t)
  <2>1. hand[t].command.word = "open" => hand[t].command.batch \in reached
    BY <1>1, <1>2 DEF Post, OnTarget, Underway
  <2> QED
    BY <1>1, <1>2, <2>1 DEF Post
<1>3. CASE ~ Post(t)
  <2>1. told' = told /\ reached \subseteq reached'
    BY <1>3, ActActions DEF Actions, Begin, Refuse, Wait, Engage, ReportStage, KeepStage, MarkStage, ReportPlan, Arrive,
       Dispatch, NoDispatch, Mark, Trigger, Shoot, Capture, CaptureRaises, NoMoreShots, End, Terminate, Feedback,
       optics, history, Meets
  <2> QED
    BY <1>1, <2>1
<1> QED
  BY <1>2, <1>3

-----------------------------------------------------------------------------
(* Commands under way, and the end. *)

\* A command goes out while no other is out and not noted.
LEMMA PostsAlone ==
  ASSUME IInv, NEW t \in Threads, Post(t), ~ spoiled' \/ ~ overlapped'
  PROVE  \A u \in Threads \ {t} : hand[u].step # "sent"
<1>1. CASE ~ spoiled'
  BY <1>1 DEF Post
<1>2. CASE ~ overlapped'
  <2>1. Alone /\ Working(t)
    BY <1>2 DEF Post, IInv, Apart, Working
  <2> QED
    BY <2>1 DEF Alone, Working
<1> QED
  BY <1>1, <1>2

LEMMA OrderlyStep ==
  ASSUME IInv, NEW t \in Threads, Act(t), ~ spoiled' \/ ~ overlapped'
  PROVE  Orderly'
<1>1. ~ spoiled' => ~ spoiled
  BY ActActions DEF Actions, Begin, Refuse, Wait, Engage, ReportStage, KeepStage, MarkStage, ReportPlan, Arrive,
     Dispatch, Post, NoDispatch, Mark, Trigger, Shoot, Capture, CaptureRaises, NoMoreShots, End, Terminate, Feedback, history
<1>2. /\ Orderly /\ TypeOK /\ Carries(t)
      /\ hand \in [Threads -> HandState] /\ told \in [Batch -> {"nothing", "open", "close"}]
      /\ \A u \in Threads \ {t} : hand'[u] = hand[u]
  BY <1>1, OthersIdle, HandType DEF IInv, TypeOK
<1>3. CASE Post(t)
  <2>1. \A u \in Threads \ {t} : hand[u].step # "sent"
    BY <1>3, PostsAlone
  <2>2. hand'[t].step = "sent" /\ hand'[t].command = hand[t].command /\ hand[t].command.batch \in Batch
    BY <1>2, <1>3 DEF Post, Goto, HandState, Carries, Underway, Command
  <2>3. told'[hand[t].command.batch] = hand[t].command.word
    BY <1>2, <1>3, <2>2 DEF Post
  <2> QED
    BY <1>2, <2>1, <2>2, <2>3 DEF Orderly
<1>4. CASE Mark(t)
  <2>1. /\ told[hand[t].command.batch] = hand[t].command.word /\ \A u \in Threads \ {t} : hand[u].step # "sent"
        /\ command' = hand[t].command /\ told' = told
    BY <1>2, <1>4 DEF Mark, Orderly
  <2>2. hand'[t].step # "sent"
    <3>1. hand'[t] = Idle \/ hand'[t] = [hand[t] EXCEPT !.step = "media", !.command = None]
      BY <1>2, <1>4 DEF Mark, Onward
    <3> QED
      BY <1>2, <3>1, Nothing DEF HandState
  <2> QED
    BY <1>2, <2>1, <2>2 DEF Orderly
<1>5. CASE ~ Post(t) /\ ~ Mark(t)
  <2>1. told' = told /\ command' = command /\ (hand[t].step = "sent" => hand' = hand)
    BY <1>5, ActActions DEF Actions, Begin, Refuse, Wait, Engage, ReportStage, KeepStage, MarkStage, ReportPlan, Arrive,
       Dispatch, NoDispatch, Trigger, Shoot, Capture, CaptureRaises, NoMoreShots, End, Terminate, Feedback, optics
  <2>2. hand[t].step # "sent" => hand'[t].step # "sent"
    BY <1>2, <1>5, Leaves
  <2> QED
    BY <1>2, <2>1, <2>2 DEF Orderly
<1> QED
  BY <1>3, <1>4, <1>5

\* Work on a task that has ended stops only where its last command is to close.
LEMMA EndingStep ==
  ASSUME IInv, NEW t \in Threads, Act(t), ~ spoiled', Zero \notin Batch
  PROVE  Ending'
<1>1. /\ ~ spoiled /\ Ending /\ TypeOK /\ Noted /\ Carries(t)
      /\ hand \in [Threads -> HandState] /\ hand[t] \in HandState /\ target \in Batch \cup {None}
      /\ \A u \in Threads \ {t} : hand'[u] = hand[u]
  <2>1. ~ spoiled
    BY ActActions DEF Actions, Begin, Refuse, Wait, Engage, ReportStage, KeepStage, MarkStage, ReportPlan, Arrive,
       Dispatch, Post, NoDispatch, Mark, Trigger, Shoot, Capture, CaptureRaises, NoMoreShots, End, Terminate, Feedback, history
  <2> QED
    BY <2>1, HandType DEF IInv, TypeOK
<1>2. SUFFICES ASSUME status' = "ended", command' # None, command'.word = "open", hand'[t].step = "idle"
               PROVE  \E u \in Threads : Working(u)'
  BY DEF Ending, Working
<1>3. CASE Feedback(t)
  <2>1. hand' = hand /\ status' = status /\ command' = command
    BY <1>3 DEF Feedback, optics
  <2> QED
    BY <1>1, <1>2, <2>1 DEF Ending, Working
<1>4. CASE NoDispatch(t)
  <2>1. hand[t].step = "close" /\ command' = command /\ Sent("close")
    <3>1. /\ hand[t].step \in {"open", "close"} /\ command' = command /\ Sent(hand[t].step)
          /\ Onward(t, hand[t].step)
      BY <1>4 DEF NoDispatch, optics
    <3>2. hand[t].step # "open"
      <4>1. hand[t].step = "open" => hand' = [hand EXCEPT ![t] = [hand[t] EXCEPT !.step = "media", !.command = None]]
        BY <1>1, <3>1 DEF Onward
      <4> QED
        BY <1>1, <1>2, <4>1 DEF HandState
    <3> QED
      BY <3>1, <3>2
  <2> QED
    BY <1>1, <1>2, <2>1 DEF Sent, Noted
<1>5. CASE Mark(t)
  <2>1. command' = hand[t].command /\ Onward(t, hand[t].command.word)
    BY <1>5 DEF Mark
  <2>2. hand' = [hand EXCEPT ![t] = [hand[t] EXCEPT !.step = "media", !.command = None]]
    BY <1>1, <1>2, <2>1 DEF Onward
  <2> QED
    BY <1>1, <1>2, <2>2 DEF HandState
<1>6. CASE ~ Feedback(t) /\ ~ NoDispatch(t) /\ ~ Mark(t)
  <2>1. (End(t) /\ status # "ended" /\ status' = status) \/ CaptureRaises(t)
    BY <1>1, <1>2, <1>6, Leaves
  <2> QED
    BY <1>1, <1>2, <2>1 DEF CaptureRaises, task
<1> QED
  BY <1>3, <1>4, <1>5, <1>6

-----------------------------------------------------------------------------
(* The theorems. *)

LEMMA Initially == Init => IInv
<1> SUFFICES ASSUME Init PROVE IInv
  OBVIOUS
<1>1. /\ status = "running" /\ phase = "planning" /\ target = None /\ plan = None /\ cycles = 0
      /\ command = None /\ confirmed = FALSE /\ since = [k \in Kinds |-> Interval]
      /\ reported = [phase |-> None, plan |-> None] /\ announced = None /\ said = None
      /\ told = [b \in Batch |-> "nothing"] /\ reached = {} /\ overlapped = FALSE /\ spoiled = FALSE
      /\ hand = [t \in Threads |-> Idle]
  BY DEF Init
<1>2. \A t \in Threads : hand[t] = Idle
  BY <1>1
<1>3. TypeOK
  <2>1. confirmed \in BOOLEAN /\ overlapped \in BOOLEAN /\ spoiled \in BOOLEAN
    BY <1>1, Zenon
  <2>2. since \in [Kinds -> 0 .. Interval] /\ cycles \in 0 .. ArrivalCycles
    BY <1>1, LinkageAssumption
  <2> QED
    BY <1>1, <2>1, <2>2, Nothing DEF TypeOK, Phase
<1>4. Noted /\ \A t \in Threads : Carries(t)
  BY <1>1, <1>2, Nothing DEF Noted, Carries, Underway
<1>5. Orderly /\ Ending /\ Apart
  BY <1>1, <1>2, Nothing DEF Orderly, Ending, Apart, Alone, Working, OnTarget, Underway
<1> QED
  BY <1>3, <1>4, <1>5 DEF IInv

LEMMA ActKeeps ==
  ASSUME IInv, NEW t \in Threads, Act(t)
  PROVE  IInv'
<1>1. TypeOK /\ Noted /\ Carries(t) /\ \A u \in Threads : Carries(u)
  BY DEF IInv
<1>2. TypeOK'
  <2>1. TaskType' /\ NewsType' /\ hand' \in [Threads -> HandState]
    BY <1>1, TaskTypeStep, NewsTypeStep, HandType
  <2> QED
    BY <2>1 DEF TypeOK, TaskType, NewsType
<1>3. Noted'
  BY <1>1, NotedStep
<1>4. \A u \in Threads : Carries(u)'
  BY <1>1, HandType, Leaves DEF Carries
<1>5. ASSUME ~ overlapped'
      PROVE  Apart'
  <2>1. \A u \in Threads \ {t} : hand'[u].step = "idle"
    BY <1>5, OthersIdle
  <2>2. Alone'
    BY <2>1 DEF Alone, Working
  <2>3. \A u \in Threads : OnTarget(u)'
    BY <1>5, <2>1, OnTargetStep DEF OnTarget, Underway
  <2> QED
    BY <1>5, <2>2, <2>3, ReachedStep DEF Apart
<1> QED
  BY <1>2, <1>3, <1>4, <1>5, OrderlyStep, EndingStep DEF IInv

\* Time, and steps that change nothing.
LEMMA ElapseKeeps ==
  ASSUME IInv, Elapse \/ UNCHANGED vars
  PROVE  IInv'
<1>1. UNCHANGED <<status, phase, target, plan, cycles, command, confirmed, told, reported, said, announced, hand, reached,
                  overlapped, spoiled>>
  BY DEF Elapse, vars, task, optics, news, history
<1>2. since' \in [Kinds -> 0 .. Interval]
  <2>1. since \in [Kinds -> 0 .. Interval]
    BY DEF IInv, TypeOK
  <2> QED
    BY <2>1, LinkageAssumption DEF Elapse, vars
<1> QED
  BY <1>1, <1>2 DEF IInv, TypeOK, Noted, Carries, Orderly, Ending, Apart, Alone, Working, OnTarget, Aimed

\* For any threads that tick, terminate and feed back, in any interleaving.
THEOREM Invariance == Spec => []IInv
<1>1. Init => IInv
  BY Initially
<1>2. IInv /\ [Next]_vars => IInv'
  BY ActKeeps, ElapseKeeps DEF Next, Act
<1> QED
  BY <1>1, <1>2, PTL DEF Spec

\* The task, what was sent, and what each thread carries keep to their types.
THEOREM TypeCorrect == Spec => []TypeOK
<1>1. IInv => TypeOK
  BY DEF IInv
<1> QED
  BY <1>1, Invariance, PTL

\* Unless batch number 0, which counts as no target, is used: however ticks,
\* terminations and feedback overlap, a task that has ended and is at rest knows
\* of no optics open, and its last command closed them; the exceptions are two
\* commands out at once with neither noted, and a tick that raised past the end.
THEOREM EndDarkensHolds ==
  ASSUME Zero \notin Batch
  PROVE  Spec => []EndDarkens
<1>1. ASSUME IInv
      PROVE  EndDarkens
  <2> SUFFICES ASSUME AtRest, status = "ended", ~ spoiled
               PROVE  ~ confirmed /\ (command # None => told[command.batch] = "close")
    BY DEF EndDarkens
  <2>1. Orderly /\ Ending /\ Noted /\ TypeOK /\ \A t \in Threads : hand[t].step = "idle"
    BY <1>1 DEF IInv, AtRest
  <2>2. command # None => command.word = "close"
    BY <2>1, Nothing DEF Ending, Working, TypeOK, Command
  <2> QED
    BY <2>1, <2>2 DEF Orderly, Noted
<1> QED
  BY <1>1, Invariance, PTL

\* Optics are opened only by a tick that found own ship at the point of the
\* target it engaged, as long as no handler has begun inside another.
THEOREM OpenedReachedHolds == Spec => []OpenedReached
<1>1. IInv => OpenedReached
  BY DEF IInv, Apart, OpenedReached
<1> QED
  BY <1>1, Invariance, PTL

\* Unless batch number 0 is used, a tick that arrived comes to its photos and
\* videos with the optics of its target open, as long as no handler has begun
\* inside another.
THEOREM ArrivalOpensHolds ==
  ASSUME Zero \notin Batch
  PROVE  Spec => []ArrivalOpens
<1>1. ASSUME IInv
      PROVE  ArrivalOpens
  <2> SUFFICES ASSUME NEW t \in Tickers, hand[t].step = "media", ~ overlapped
               PROVE  told[target] = "open"
    BY DEF ArrivalOpens
  <2>1. t \in Threads /\ Orderly /\ Alone /\ OnTarget(t)
    BY <1>1 DEF IInv, Apart, Threads
  <2>2. command = [word |-> "open", batch |-> target]
    BY <2>1 DEF OnTarget
  <2>3. target \in Batch /\ command # None
    BY <2>1, <2>2, Nothing DEF OnTarget, Command
  <2>4. \A u \in Threads : hand[u].step # "sent"
    BY <2>1 DEF Alone, Working
  <2> QED
    BY <2>1, <2>2, <2>3, <2>4 DEF Orderly
<1> QED
  BY <1>1, Invariance, PTL

\* What a thread does to a task that has ended, when no tick is in flight.
LEMMA OnlyCloses ==
  ASSUME NoTick, NEW t \in Threads, Act(t), status = "ended"
  PROVE  \/ hand[t].step = "close" /\ (Dispatch(t) \/ NoDispatch(t))
         \/ (Post(t) \/ Mark(t)) /\ hand[t].command.word = "close"
         \/ Terminate(t) \/ Feedback(t)
<1>1. hand[t].step \in {"idle", "close"} \/ (hand[t].step \in {"post", "sent"} /\ hand[t].command.word = "close")
  BY DEF NoTick, Underway
<1> QED
  BY <1>1, ActActions DEF Actions, Begin, Refuse, Wait, Engage, ReportStage, KeepStage, MarkStage, ReportPlan, Arrive,
     Dispatch, Post, NoDispatch, Mark, Trigger, Shoot, Capture, CaptureRaises, NoMoreShots, End

\* However terminations and feedback overlap, a task that has ended and has no
\* tick in flight stays ended without one, sends no report and opens no optics.
THEOREM EndedIsInertHolds == Spec => EndedIsInert
<1>1. ASSUME TypeOK, [Next]_vars, status = "ended", NoTick
      PROVE  /\ status' = "ended" /\ NoTick'
             /\ said' = said /\ announced' = announced
             /\ \A b \in Batch : told'[b] = "open" => told[b] = "open"
  <2>1. ASSUME NEW t \in Threads, Act(t)
        PROVE  /\ status' = "ended" /\ NoTick'
               /\ said' = said /\ announced' = announced
               /\ \A b \in Batch : told'[b] = "open" => told[b] = "open"
    <3>1. told \in [Batch -> {"nothing", "open", "close"}] /\ hand \in [Threads -> HandState] /\ hand[t] \in HandState
      BY <1>1 DEF TypeOK
    <3>2. ASSUME \A u \in Threads \ {t} : hand'[u] = hand[u],
                 hand'[t].step \in {"idle", "close"} \/ (hand'[t].step \in Underway /\ hand'[t].command.word = "close")
          PROVE  NoTick'
      BY <1>1, <3>2 DEF NoTick, Underway
    <3>3. CASE Terminate(t) \/ Feedback(t)
      <4>1. hand' = hand \/ Goto(t, "close")
        BY <3>3 DEF Terminate, Feedback
      <4>2. NoTick'
        BY <1>1, <3>1, <4>1 DEF Goto, NoTick, HandState
      <4> QED
        BY <1>1, <3>3, <4>2 DEF Terminate, Feedback, news, optics
    <3>4. CASE hand[t].step = "close" /\ Dispatch(t)
      <4>1. hand' = [hand EXCEPT ![t].step = "post", ![t].command = [word |-> "close", batch |-> target]]
        BY <3>4 DEF Dispatch
      <4>2. NoTick'
        BY <3>1, <3>2, <4>1 DEF HandState, Underway
      <4> QED
        BY <1>1, <3>4, <4>2 DEF Dispatch, task, news, optics
    <3>5. CASE hand[t].step = "close" /\ NoDispatch(t)
      <4>1. hand' = [hand EXCEPT ![t] = Idle]
        BY <3>5 DEF NoDispatch, Onward
      <4>2. NoTick'
        BY <3>1, <3>2, <4>1, Nothing
      <4> QED
        BY <1>1, <3>5, <4>2 DEF NoDispatch, task, news, optics
    <3>6. CASE Post(t) /\ hand[t].command.word = "close"
      <4>1. NoTick'
        BY <3>1, <3>2, <3>6 DEF Post, Goto, HandState, Underway
      <4> QED
        BY <1>1, <3>1, <3>6, <4>1 DEF Post, task, news
    <3>7. CASE Mark(t) /\ hand[t].command.word = "close"
      <4>1. hand' = [hand EXCEPT ![t] = Idle]
        BY <3>7 DEF Mark, Onward
      <4>2. NoTick'
        BY <3>1, <3>2, <4>1, Nothing
      <4> QED
        BY <1>1, <3>7, <4>2 DEF Mark, task, news
    <3> QED
      BY <1>1, <2>1, <3>3, <3>4, <3>5, <3>6, <3>7, OnlyCloses
  <2>2. CASE Elapse \/ UNCHANGED vars
    BY <1>1, <2>2 DEF Elapse, vars, task, news, optics, NoTick
  <2> QED
    BY <1>1, <2>1, <2>2 DEF Next, Act
<1>2. TypeOK /\ [Next]_vars => [status = "ended" /\ NoTick
                                  => /\ status' = "ended" /\ NoTick'
                                     /\ said' = said /\ announced' = announced
                                     /\ \A b \in Batch : told'[b] = "open" => told[b] = "open"]_vars
  BY <1>1
<1> QED
  BY <1>2, TypeCorrect, PTL DEF EndedIsInert, Spec
=============================================================================
