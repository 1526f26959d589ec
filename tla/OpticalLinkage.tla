--------------------------- MODULE OpticalLinkage ---------------------------
(***************************************************************************)
(* What one tracking task with enable_optical tells the modules around it: *)
(* the reports of its phase and its plan, the optics opened when own ship  *)
(* arrives and closed when the task ends, and the photos and videos taken  *)
(* in between (services/collaboration_service.py, under the ticks of       *)
(* services/tracking_service.py).                                          *)
(*                                                                         *)
(* The optics are per target: a command names a batch number.  A tick runs *)
(* in the decision loop, termination and feedback in HTTP threads; they    *)
(* share the task object without a lock.  What the modules do with a       *)
(* command or a report, or whether it is lost, changes nothing in the      *)
(* task: every client swallows its failures.                               *)
(***************************************************************************)
EXTENDS Naturals, Sequences

CONSTANTS
  Batch,          \* the batch numbers of the targets
  Zero,           \* batch number 0, which may be one of them
  None,
  Patrol,         \* the plan of a task that looks for a target
  Tickers,        \* the threads that tick the task
  Workers,        \* the threads of the HTTP pool
  ArrivalCycles,  \* stable_cycles of tracking arrival
  Media,          \* what stream_media_param enables: photos, videos
  Interval        \* photo_interval_sec, video_interval_sec

Threads == Tickers \cup Workers

Phase == {"planning", "patrolling", "engaging", "completed"}
Command == [word : {"open", "close"}, batch : Batch]

ASSUME LinkageAssumption ==
  /\ None \notin Batch \cup {Zero, Patrol} /\ Patrol \notin Batch
  /\ None \notin Phase \cup Command
  /\ ArrivalCycles \in Nat \ {0} /\ Interval \in Nat \ {0}
  /\ Media \in {<<>>, <<"photo">>, <<"video">>, <<"photo", "video">>}

VARIABLES
  status,      \* of the task; "ended" is completed or terminated
  phase,       \* execution_phase
  target,      \* current_target_batch_no
  plan,        \* the output: the patrol, or the batch to track
  cycles,      \* arrival_stable_cycles
  command,     \* last_optical_dispatch_signature
  confirmed,   \* optronic_open_confirmed
  since,       \* the time since last_photo_time, last_video_time, up to Interval
  reported,    \* last_reported_stage, last_reported_plan_signature
  hand,        \* what each thread is doing
  told,        \* the last command sent for each batch
  said,        \* the phase in the last report to the planning module, None if it was lost
  announced,   \* the phase in the last task update
  reached,     \* history: batches whose point own ship arrived at, until handlers overlap
  overlapped,  \* history: whether a handler began, or a feedback came, inside another
  spoiled      \* history: whether two commands were out and neither noted, or a tick
               \* raised on a task that had ended

task == <<status, phase, target, plan>>
optics == <<command, confirmed, told>>
news == <<reported, said, announced>>
history == <<reached, overlapped, spoiled>>
vars == <<task, cycles, optics, since, news, hand, history>>

Kinds == {Media[i] : i \in DOMAIN Media}

\* The local variables of a thread: where it is, what the tick came to, the
\* command under way, the phase read, what is still to be taken.
Idle == [step |-> "idle", outcome |-> "none", command |-> None, phase |-> None, shots |-> <<>>]

Goto(t, step) == hand' = [hand EXCEPT ![t].step = step]

\* A handler begins in thread t.
Meets(t) ==
  /\ overlapped' = (overlapped \/ \E u \in Threads \ {t} : hand[u].step # "idle")
  /\ reached' = IF overlapped' THEN {} ELSE reached

-----------------------------------------------------------------------------
(* A tick. *)

\* mutant: a task that has ended is ticked all the same
BeginEnded(t) ==
  /\ t \in Tickers
  /\ hand[t].step = "idle"
  /\ Goto(t, "refresh")
  /\ Meets(t)
  /\ UNCHANGED <<task, cycles, optics, since, news, spoiled>>

\* tick_task
Begin(t) ==
  /\ t \in Tickers
  /\ hand[t].step = "idle"
  /\ status # "ended"
  /\ Goto(t, "refresh")
  /\ Meets(t)
  /\ UNCHANGED <<task, cycles, optics, since, news, spoiled>>

\* mutant: a task that waits reports nothing
WaitSilently(t) ==
  /\ hand[t].step = "refresh"
  /\ status' = "waiting_target"
  /\ phase' = "patrolling"
  /\ plan' \in {None, Patrol}
  /\ Goto(t, "end")
  /\ UNCHANGED <<target, cycles, optics, since, news, history>>

\* refresh_result without own ship, or without a target: the task patrols its
\* area if no target is designated, which is up to the feedback it gets. If one
\* is, or without own ship, only the phase is reported.
Wait(t) ==
  /\ hand[t].step = "refresh"
  /\ status' = "waiting_target"
  /\ phase' = "patrolling"
  /\ plan' \in {None, Patrol}
  /\ \E outcome \in {"report"} \cup (IF plan' = Patrol THEN {"patrol"} ELSE {}) :
       hand' = [hand EXCEPT ![t].step = "stage", ![t].outcome = outcome]
  /\ UNCHANGED <<target, cycles, optics, since, news, history>>

\* The task ended since the tick began, and the tick looks at its status again.
Refuse(t) ==
  /\ hand[t].step = "refresh"
  /\ status = "ended"
  /\ Goto(t, "end")
  /\ UNCHANGED <<task, cycles, optics, since, news, history>>

\* With a target.
Engage(t) ==
  /\ hand[t].step = "refresh"
  /\ status' = "running"
  /\ phase' = "engaging"
  /\ \E b \in Batch : target' = b /\ plan' = b
  /\ hand' = [hand EXCEPT ![t].step = "stage", ![t].outcome = "track"]
  /\ UNCHANGED <<cycles, optics, since, news, history>>

AfterStage(t) == IF hand[t].outcome = "report" THEN "end" ELSE "plan"

\* report_stage_if_changed: the phase is posted to the planning module, whose
\* client swallows a failure, and then a task update goes out, with the phase as
\* it is by then. Received or not, the phase counts as reported.
ReportStage(t) ==
  /\ hand[t].step = "stage"
  /\ phase # reported.phase
  /\ said' \in {phase, None}
  /\ hand' = [hand EXCEPT ![t].step = "tell", ![t].phase = phase]
  /\ UNCHANGED <<task, cycles, optics, since, reported, announced, history>>

KeepStage(t) ==
  /\ hand[t].step = "stage"
  /\ phase = reported.phase
  /\ Goto(t, AfterStage(t))
  /\ UNCHANGED <<task, cycles, optics, since, news, history>>

MarkStage(t) ==
  /\ hand[t].step = "tell"
  /\ announced' = phase
  /\ reported' = [reported EXCEPT !.phase = hand[t].phase]
  /\ hand' = [hand EXCEPT ![t].step = AfterStage(t), ![t].phase = None]
  /\ UNCHANGED <<task, cycles, optics, since, said, history>>

\* A plan that was not reported, by its signature.
NewPlan == plan \notin {None, reported.plan}

\* report_plan_if_changed; dispatch_autonomy_if_changed follows.
ReportPlan(t) ==
  /\ hand[t].step = "plan"
  /\ IF NewPlan
     THEN /\ announced' = phase
          /\ reported' = [reported EXCEPT !.plan = plan]
          /\ UNCHANGED said
     ELSE UNCHANGED news
  /\ Goto(t, IF hand[t].outcome = "patrol" THEN "end" ELSE "arrive")
  /\ UNCHANGED <<task, cycles, optics, since, history>>

\* mutant: a tick away from the point does not count back
CyclesKept(near) == IF near /\ cycles < ArrivalCycles THEN cycles + 1 ELSE cycles

Cycles(near) ==
  IF ~ near THEN 0 ELSE IF cycles < ArrivalCycles THEN cycles + 1 ELSE ArrivalCycles

\* mutant: one tick more is asked for than the count goes to
ArrivedLate(n) == n > ArrivalCycles

Arrived(n) == n >= ArrivalCycles

\* _check_arrival, at the point of the target the tick engaged.
Arrive(t) ==
  /\ hand[t].step = "arrive"
  /\ IF status # "running"
     THEN Goto(t, "end") /\ UNCHANGED <<cycles, reached>>
     ELSE \E near \in BOOLEAN :
            /\ cycles' = Cycles(near)
            /\ reached' = IF near /\ Arrived(cycles') /\ ~ overlapped THEN reached \cup {plan} ELSE reached
            /\ Goto(t, IF Arrived(cycles') THEN "open" ELSE "end")
  /\ UNCHANGED <<task, optics, since, news, overlapped, spoiled>>

\* The end conditions, and on_task_finished for a task that has ended.
End(t) ==
  /\ hand[t].step = "end"
  /\ \/ /\ status # "ended"
        /\ hand' = [hand EXCEPT ![t] = Idle]
        /\ UNCHANGED <<status, phase>>
     \/ /\ status # "ended"
        /\ status' = "ended"
        /\ phase' = "completed"
        /\ Goto(t, "close")
     \/ /\ status = "ended"
        /\ Goto(t, "close")
        /\ UNCHANGED <<status, phase>>
  /\ UNCHANGED <<target, plan, cycles, optics, since, news, history>>

-----------------------------------------------------------------------------
(* The optics: _dispatch_optical_linkage_if_changed. *)

\* mutant: the signature leaves out the batch number
SameWord(word) == target \in {None, Zero} \/ (command # None /\ command.word = word)

\* mutant: a task without a target sends its command all the same
SentAnyway(word) == command = [word |-> word, batch |-> target]

\* Nothing to send: without a target, or the same command as before. Batch
\* number 0 counts as no target.
Sent(word) == target \in {None, Zero} \/ command = [word |-> word, batch |-> target]

\* What follows: media after opening, and nothing after closing.
Onward(t, word) ==
  hand' = [hand EXCEPT ![t] = IF word = "open" THEN [@ EXCEPT !.step = "media", !.command = None] ELSE Idle]

\* The command is made up and is not the last one ...
Dispatch(t) ==
  /\ hand[t].step \in {"open", "close"}
  /\ ~ Sent(hand[t].step)
  /\ hand' = [hand EXCEPT ![t].step = "post", ![t].command = [word |-> hand[t].step, batch |-> target]]
  /\ UNCHANGED <<task, cycles, optics, since, news, history>>

\* ... and goes out; only then is it noted.
Post(t) ==
  /\ hand[t].step = "post"
  /\ told' = [told EXCEPT ![hand[t].command.batch] = hand[t].command.word]
  /\ Goto(t, "sent")
  /\ spoiled' = (spoiled \/ \E u \in Threads \ {t} : hand[u].step = "sent")
  /\ UNCHANGED <<task, cycles, command, confirmed, since, news, reached, overlapped>>

NoDispatch(t) ==
  /\ hand[t].step \in {"open", "close"}
  /\ Sent(hand[t].step)
  /\ Onward(t, hand[t].step)
  /\ UNCHANGED <<task, cycles, optics, since, news, history>>

\* mutant: closing leaves the optics confirmed
MarkOpened(t) ==
  /\ hand[t].step = "sent"
  /\ command' = hand[t].command
  /\ confirmed' = TRUE
  /\ Onward(t, hand[t].command.word)
  /\ UNCHANGED <<task, cycles, told, since, news, history>>

\* The answer is not looked at.
Mark(t) ==
  /\ hand[t].step = "sent"
  /\ command' = hand[t].command
  /\ confirmed' = (hand[t].command.word = "open")
  /\ Onward(t, hand[t].command.word)
  /\ UNCHANGED <<task, cycles, told, since, news, history>>

-----------------------------------------------------------------------------
(* Photos and videos: _trigger_media_if_needed. *)

Trigger(t) ==
  /\ hand[t].step = "media"
  /\ hand' = [hand EXCEPT ![t].step = IF confirmed THEN "shoot" ELSE "end", ![t].shots = Media]
  /\ UNCHANGED <<task, cycles, optics, since, news, history>>

\* A video is recorded inside the tick, which waits for it.
Shoot(t) ==
  /\ hand[t].step = "shoot"
  /\ hand[t].shots # <<>>
  /\ LET due == since[Head(hand[t].shots)] >= Interval IN
     hand' = IF due THEN [hand EXCEPT ![t].step = "capture"]
             ELSE [hand EXCEPT ![t].shots = Tail(@)]
  /\ UNCHANGED <<task, cycles, optics, since, news, history>>

\* The medium is taken, or it fails; its parameters go out with the batch number
\* of the moment either way, and its time is noted.
Capture(t) ==
  /\ hand[t].step = "capture"
  /\ since' = [since EXCEPT ![Head(hand[t].shots)] = 0]
  /\ hand' = [hand EXCEPT ![t].step = "shoot", ![t].shots = Tail(@)]
  /\ UNCHANGED <<task, cycles, optics, news, history>>

\* A directory for the file cannot be made: the exception ends the tick before
\* the time is noted and before the end conditions are looked at.
CaptureRaises(t) ==
  /\ hand[t].step = "capture"
  /\ hand' = [hand EXCEPT ![t] = Idle]
  /\ spoiled' = (spoiled \/ status = "ended")
  /\ UNCHANGED <<task, cycles, optics, since, news, reached, overlapped>>

NoMoreShots(t) ==
  /\ hand[t].step = "shoot"
  /\ hand[t].shots = <<>>
  /\ Goto(t, "end")
  /\ UNCHANGED <<task, cycles, optics, since, news, history>>

-----------------------------------------------------------------------------
(* HTTP handlers and time. *)

\* terminate_task, with manual_terminate_allowed; it may come again.
Terminate(t) ==
  /\ t \in Workers
  /\ hand[t].step = "idle"
  /\ status' = "ended"
  /\ phase' = "completed"
  /\ Goto(t, "close")
  /\ Meets(t)
  /\ UNCHANGED <<target, plan, cycles, optics, since, news, spoiled>>

\* apply_manual_selection_feedback, apply_manual_switch_feedback, at any time
\* and whatever the status: a batch number, a name without one, or to keep the
\* target.
Feedback(t) ==
  /\ t \in Workers
  /\ hand[t].step = "idle"
  /\ target' \in Batch \cup {target}
  /\ phase' = "engaging"
  /\ Meets(t)
  /\ UNCHANGED <<status, plan, cycles, optics, since, news, hand, spoiled>>

Elapse ==
  /\ \E k \in Kinds : since[k] < Interval
  /\ since' = [k \in Kinds |-> IF since[k] < Interval THEN since[k] + 1 ELSE Interval]
  /\ UNCHANGED <<task, cycles, optics, news, hand, history>>

Init ==
  /\ status = "running" /\ phase = "planning" /\ target = None
  /\ plan = None
  /\ cycles = 0 /\ command = None /\ confirmed = FALSE
  /\ since = [k \in Kinds |-> Interval]
  /\ reported = [phase |-> None, plan |-> None]
  /\ announced = None /\ said = None
  /\ hand = [t \in Threads |-> Idle]
  /\ told = [b \in Batch |-> "nothing"]
  /\ reached = {} /\ overlapped = FALSE /\ spoiled = FALSE

Report(t) == ReportStage(t) \/ KeepStage(t) \/ MarkStage(t) \/ ReportPlan(t)
Optics(t) == Dispatch(t) \/ Post(t) \/ NoDispatch(t) \/ Mark(t)
Shots(t) == Trigger(t) \/ Shoot(t) \/ Capture(t) \/ CaptureRaises(t) \/ NoMoreShots(t)

\* What a thread does of itself once it has begun; a ticker begins again.
Work(t) ==
  \/ Begin(t) \/ Refuse(t) \/ Wait(t) \/ Engage(t)
  \/ Report(t) \/ Arrive(t) \/ Optics(t) \/ Shots(t) \/ End(t)

Next ==
  \/ \E t \in Threads : Work(t) \/ Terminate(t) \/ Feedback(t)
  \/ Elapse

Spec == Init /\ [][Next]_vars
FairSpec == Spec /\ \A t \in Threads : WF_vars(Work(t))

-----------------------------------------------------------------------------
(* Properties. *)

Label == {"idle", "refresh", "stage", "tell", "plan", "arrive", "open", "close", "post", "sent",
          "media", "shoot", "capture", "end"}

HandState == [step : Label, outcome : {"none", "report", "patrol", "track"},
              command : Command \cup {None}, phase : Phase \cup {None}, shots : Seq(Kinds)]

\* The type of every variable.
TypeOK ==
  /\ status \in {"waiting_target", "running", "ended"}
  /\ phase \in Phase
  /\ target \in Batch \cup {None}
  /\ plan \in Batch \cup {None, Patrol}
  /\ cycles \in 0 .. ArrivalCycles
  /\ command \in Command \cup {None}
  /\ confirmed \in BOOLEAN
  /\ since \in [Kinds -> 0 .. Interval]
  /\ reported \in [phase : Phase \cup {None}, plan : Batch \cup {None, Patrol}]
  /\ said \in Phase \cup {None} /\ announced \in Phase \cup {None}
  /\ told \in [Batch -> {"nothing", "open", "close"}]
  /\ reached \subseteq Batch /\ overlapped \in BOOLEAN /\ spoiled \in BOOLEAN
  /\ hand \in [Threads -> HandState]

AtRest == \A t \in Threads : hand[t].step = "idle"

\* When the handlers of a task that has ended are through, it knows of no optics
\* open, and its last command was to close, wherever in a tick the task was
\* terminated or its target changed, also between the look at the last command and
\* the next; unless two commands were out at once with neither noted yet, or a
\* photo or video raised past the end. Left out is a target with batch
\* number 0, which counts as none and is sent no close; and the optics of a
\* target it had before the last stay as they were.
EndDarkens ==
  AtRest /\ status = "ended" /\ ~ spoiled =>
    /\ ~ confirmed
    /\ command # None => told[command.batch] = "close"

\* A command is made up and not noted yet.
Underway == {"post", "sent"}

\* No tick of the task is in flight, though terminations may be.
NoTick ==
  \A t \in Threads :
    hand[t].step \in {"idle", "close"} \/ (hand[t].step \in Underway /\ hand[t].command.word = "close")

\* Feedback reopens the phase and changes the target of a task that has ended,
\* and all the same, once no tick of it is in flight, it does not run again, and
\* nobody outside may take it for one that runs: however terminations and
\* feedback overlap, no report of it goes out any more and no optics are opened.
EndedIsInert ==
  [][status = "ended" /\ NoTick
       => /\ status' = "ended" /\ NoTick'
          /\ said' = said /\ announced' = announced
          /\ \A b \in Batch : told'[b] = "open" => told[b] = "open"]_vars

\* As long as no handler begins inside another, optics open only on a target
\* whose point own ship has arrived at, however the target changed between ticks.
OpenedReached == ~ overlapped => \A b \in Batch : told[b] = "open" => b \in reached

\* "arrival with enable_optical opens optical": a tick that arrived goes on to
\* media with the optics of its target open, if no handler began inside another.
ArrivalOpens ==
  \A t \in Tickers : hand[t].step = "media" /\ ~ overlapped => told[target] = "open"

\* A phase that lasts is posted to the planning module in the end, whatever
\* comes between; if that post is lost it is never repeated, and else it is what
\* the module knows. A plan that lasts is posted too. A task update shows the
\* phase if no feedback came while it was reported: the update reads it again.
NewsSpreads ==
  /\ \A p \in {"patrolling", "engaging"} :
       /\ <>[](phase = p /\ status # "ended") => <>[](reported.phase = p /\ said \in {p, None})
       /\ <>[](phase = p /\ status # "ended" /\ ~ overlapped) => <>[](announced = p)
  /\ \A b \in Batch :
       <>[](plan = b /\ status = "running") => <>[](reported.plan = b)

\* Own ship that stays at the point of one target has its optics open for good,
\* whatever overlapped before, unless two commands were out at once with neither
\* noted yet.
StayOpens ==
  \A b \in Batch :
    <>[](status = "running" /\ target = b /\ cycles > 0 /\ ~ spoiled) => <>[](told[b] = "open")
=============================================================================
