--------------------------- MODULE ServiceProofs ---------------------------
(***************************************************************************)
(* Proofs about Service, for any tasks, topics, participants and threads.  *)
(***************************************************************************)
EXTENDS Service, TLAPS

-----------------------------------------------------------------------------
(* The inductive invariant. *)

\* The call a thread is in fits what it calls for.
CallFits(t) ==
  /\ call[t].step = "none" => call[t] = Outside
  /\ call[t].step \in Starting => call[t].what \in {"start", "publish", "subscribe"}
  /\ call[t].step \in {"topic", "note"} => call[t].what \in {"publish", "subscribe"}
  /\ call[t].step = "write" => call[t].what = "publish"
  /\ call[t].what = "publish" => call[t].topic \in PubTopics
  /\ call[t].what = "subscribe" => call[t].topic \in SubTopics

\* The main thread starts, subscribes and stops; the others publish.
Roles ==
  /\ \A t \in Threads : CallFits(t)
  /\ \A t \in Tickers : call[t].what \in {None, "publish"} /\ call[t].step \notin {"delete", "unmark", "clear"}
  /\ call[Main].what \in {None, "start", "subscribe"}
  /\ call[Main].step \in {"delete", "unmark", "clear"} => phase = "stopping" /\ todo = <<>>
  /\ phase = "serving" => Free(Main)
  /\ phase \in {"stopping", "stopped"} => call[Main].step \in {"none", "delete", "unmark", "clear"}

\* Only a tick or a replacement is inside the adapter. There is none before the
\* service serves, and no request after.
Places ==
  /\ \A t \in Tickers : hand[t].step \notin Publishing => Free(t)
  /\ \A t \in Tickers : hand[t].step \in Publishing => hand[t].task \in Task
  /\ \A w \in Workers : phase # "serving" => hand[w].step = "idle"
  /\ phase \in {"import", "subscribe"} => hand[Loop].step = "idle" /\ todo \in Seq(SubTopics)
  /\ phase = "stopping" => todo \in {ShutdownOrder, <<"adapter">>, <<>>}

Serves == phase \in {"import", "subscribe", "serving"}

LinkOn(what, topic) == [what |-> what, dds |-> dds, topic |-> topic]

\* While the main thread is alone what it started is there, and once it has
\* subscribed nobody starts the adapter again.
Tuned ==
  /\ phase \in {"import", "subscribe"} =>
       /\ started \/ call[Main].step = "mark" => dds # None /\ dds.on \in alive
       /\ call[Main].step = "open" => dp \in alive
       /\ call[Main].step \in {"topic", "note"} => started
       /\ call[Main].step = "note" => LinkOn("subscribe", call[Main].topic) \in links
       /\ started => call[Main].step \notin Starting
  /\ Serves /\ sub # {} =>
       /\ started
       /\ \A t \in Threads : call[t].step \notin Starting
  /\ Serves => \A topic \in sub : dds # None /\ LinkOn("subscribe", topic) \in links

\* The loop was told to stop while it slept, and has not gone on since.
Halted == phase = "stopped" \/ (phase = "stopping" /\ todo # ShutdownOrder)
Rests ==
  /\ Halted => ~ running /\ (~ underway => hand[Loop].step \in {"sleep", "ended"})
  /\ ~ Halted => ~ underway

\* The adapter is in use: nobody has begun to stop it, or has got no further
\* than to look at the flag.
InUse == Serves \/ (phase = "stopping" /\ (todo # <<>> \/ call[Main].step = "delete"))

\* As long as no two threads start it at once the adapter is what it seems.
Orderly ==
  /\ \A t, u \in Threads : call[t].step \in Starting /\ call[u].step \in Starting => t = u
  /\ \A t \in Threads : call[t].step \in Starting => ~ started
  /\ \A t \in Threads : call[t].step \in {"topic", "note", "write", "delete"} => started
  /\ \A t \in Threads : call[t].step = "open" => dp \in alive
  /\ \A t \in Threads : started \/ call[t].step = "mark" => dds # None /\ dds.on = dp /\ dp \in alive
  /\ \A t \in Threads : call[t].step \in {"note", "write"} => LinkOn(call[t].what, call[t].topic) \in links
  /\ \A topic \in pub : LinkOn("publish", topic) \in links
  /\ \A l \in links : started /\ l.dds.on = dp

Settles ==
  ~ raced /\ ~ underway => IF InUse THEN Orderly ELSE links = {}

IInv == TypeOK /\ Roles /\ Places /\ Tuned /\ Rests /\ Settles

-----------------------------------------------------------------------------
(* Types. *)

LEMMA Who ==
  /\ Main \in Threads /\ Loop \in Threads /\ Tickers \subseteq Threads
  /\ Threads = Tickers \cup {Main} /\ Main \notin Tickers /\ Loop \in Tickers
  /\ Loop \notin Workers /\ Workers \subseteq Tickers
BY ServiceAssumption DEF Tickers

LEMMA Nothing == Outside \in CallState /\ Idle \in HandState
BY DEF Outside, CallState, Idle, HandState

LEMMA EnterType ==
  ASSUME DdsTypeOK, NEW t \in Threads,
         NEW what \in {"start", "publish", "subscribe"}, NEW topic \in PubTopics \cup SubTopics \cup {None},
         Enter(t, what, topic)
  PROVE  DdsTypeOK'
<1>1. call' \in [Threads -> CallState]
  BY DEF DdsTypeOK, Enter, CallState, Starting
<1>2. raced' \in BOOLEAN
  BY DEF DdsTypeOK, Enter
<1> QED
  BY <1>1, <1>2 DEF DdsTypeOK, Enter, adapter, middleware

LEMMA EnterStopType ==
  ASSUME DdsTypeOK, NEW t \in Threads, EnterStop(t)
  PROVE  DdsTypeOK'
<1>1. call' \in [Threads -> CallState]
  BY DEF DdsTypeOK, EnterStop, CallState
<1> QED
  BY <1>1 DEF DdsTypeOK, EnterStop, adapter, middleware

LEMMA StepType ==
  ASSUME DdsTypeOK, NEW t \in Threads,
         NEW step \in Starting \cup {"none", "topic", "note", "write", "delete", "unmark", "clear"},
         Step(t, step) \/ Leave(t)
  PROVE  call' \in [Threads -> CallState]
BY Nothing DEF DdsTypeOK, Step, Leave, CallState

LEMMA UnusedOne ==
  ASSUME Unused # {}
  PROVE  (CHOOSE p \in Unused : TRUE) \in Participant
<1>1. (CHOOSE p \in Unused : TRUE) \in Unused
  BY Zenon
<1> QED
  BY <1>1 DEF Unused

LEMMA DdsType ==
  ASSUME DdsTypeOK, NEW t \in Threads, DdsStep(t), \A u \in Threads : CallFits(u)
  PROVE  DdsTypeOK'
<1>1. CASE CreateParticipant(t)
  <2>1. dp' \in Participant /\ alive' \subseteq Participant
    BY <1>1, UnusedOne DEF CreateParticipant, DdsTypeOK
  <2>2. call' \in [Threads -> CallState]
    BY <1>1, StepType DEF CreateParticipant, Starting
  <2> QED
    BY <1>1, <2>1, <2>2 DEF CreateParticipant, DdsTypeOK
<1>2. CASE CreateInterface(t)
  <2>1. dds' \in Interface
    BY <1>2 DEF CreateInterface, DdsTypeOK, Interface
  <2>2. call' \in [Threads -> CallState]
    BY <1>2, StepType DEF CreateInterface, Starting
  <2> QED
    BY <1>2, <2>1, <2>2 DEF CreateInterface, DdsTypeOK, middleware
<1>3. CASE StartFails(t)
  <2>1. call' \in [Threads -> CallState]
    BY <1>3, StepType DEF StartFails
  <2> QED
    BY <1>3, <2>1 DEF StartFails, DdsTypeOK, middleware
<1>4. CASE MarkStarted(t)
  <2>1. call' \in [Threads -> CallState]
    BY <1>4, StepType DEF MarkStarted, Proceed, Step
  <2> QED
    BY <1>4, <2>1 DEF MarkStarted, DdsTypeOK, middleware
<1>5. CASE KnownTopic(t)
  <2>1. call' \in [Threads -> CallState]
    BY <1>5, StepType DEF KnownTopic
  <2> QED
    BY <1>5, <2>1 DEF KnownTopic, DdsTypeOK, adapter, middleware
<1>6. CASE Declare(t)
  <2>1. call' \in [Threads -> CallState]
    BY <1>6, StepType DEF Declare
  <2>2. LinkOf(t) \in Link
    BY <1>6 DEF Declare, LinkOf, Link, DdsTypeOK, CallState, CallFits
  <2> QED
    BY <1>6, <2>1, <2>2 DEF Declare, DdsTypeOK, adapter
<1>7. CASE DeclareFails(t)
  <2>1. call' \in [Threads -> CallState]
    BY <1>7, StepType DEF DeclareFails
  <2> QED
    BY <1>7, <2>1 DEF DeclareFails, DdsTypeOK, adapter, middleware
<1>8. CASE NoteTopic(t)
  <2>1. call' \in [Threads -> CallState]
    BY <1>8, StepType DEF NoteTopic
  <2>2. pub' \subseteq PubTopics /\ sub' \subseteq SubTopics
    BY <1>8 DEF NoteTopic, DdsTypeOK, CallFits
  <2> QED
    BY <1>8, <2>1, <2>2 DEF NoteTopic, DdsTypeOK, middleware
<1>9. CASE WriteData(t)
  <2>1. call' \in [Threads -> CallState]
    BY <1>9, StepType DEF WriteData
  <2> QED
    BY <1>9, <2>1 DEF WriteData, DdsTypeOK, adapter, middleware
<1>10. CASE Delete(t)
  <2>1. call' \in [Threads -> CallState]
    BY <1>10, StepType DEF Delete
  <2> QED
    BY <1>10, <2>1 DEF Delete, DdsTypeOK, adapter
<1>11. CASE Unmark(t)
  <2>1. call' \in [Threads -> CallState]
    BY <1>11, StepType DEF Unmark
  <2> QED
    BY <1>11, <2>1 DEF Unmark, DdsTypeOK, middleware
<1>12. CASE Clear(t)
  <2>1. call' \in [Threads -> CallState]
    BY <1>12, StepType DEF Clear
  <2> QED
    BY <1>12, <2>1 DEF Clear, DdsTypeOK, middleware
<1> QED
  BY <1>1, <1>2, <1>3, <1>4, <1>5, <1>6, <1>7, <1>8, <1>9, <1>10, <1>11, <1>12 DEF DdsStep

\* The rest of the state.
ServiceType ==
  /\ phase \in {"import", "subscribe", "serving", "stopping", "stopped"}
  /\ todo \in Seq(SubTopics \cup {"loop", "adapter"})
  /\ running \in BOOLEAN /\ underway \in BOOLEAN
  /\ status \in [Task -> {"none", "active", "ended"}]
  /\ due \in [Task -> BOOLEAN]
  /\ stored \in Seq(Task)

LEMMA TypeSplits == TypeOK <=> DdsTypeOK /\ ServiceType /\ hand \in [Tickers -> HandState]
BY DEF TypeOK, ServiceType

LEMMA MainType ==
  ASSUME TypeOK, Places, Import \/ Subscribe \/ StartLoop \/ Shutdown \/ StopLoop \/ StopAdapter \/ Stopped
  PROVE  TypeOK'
<1> USE TypeSplits
<1>1. CASE Import
  <2>1. DdsTypeOK'
    BY <1>1, EnterType, Who DEF Import
  <2>2. todo' \in Seq(SubTopics \cup {"loop", "adapter"})
    BY <1>1, ServiceAssumption DEF Import
  <2> QED
    BY <1>1, <2>1, <2>2 DEF Import, TypeOK, ServiceType, tasks
<1>2. CASE Subscribe
  <2>1. Head(todo) \in SubTopics /\ Tail(todo) \in Seq(SubTopics)
    BY <1>2 DEF Subscribe, Places
  <2>2. DdsTypeOK'
    BY <1>2, <2>1, EnterType, Who DEF Subscribe
  <2>3. todo' \in Seq(SubTopics \cup {"loop", "adapter"})
    BY <1>2, <2>1 DEF Subscribe
  <2> QED
    BY <1>2, <2>2, <2>3 DEF Subscribe, TypeOK, ServiceType, tasks
<1>3. CASE StartLoop
  <2>1. hand' \in [Tickers -> HandState]
    BY <1>3, Who DEF StartLoop, HandState
  <2>2. DdsTypeOK'
    BY <1>3 DEF StartLoop, ddsVars, adapter, middleware, DdsTypeOK
  <2> QED
    BY <1>3, <2>1, <2>2 DEF StartLoop, TypeOK, ServiceType, tasks
<1>4. CASE Shutdown
  <2>1. DdsTypeOK'
    BY <1>4 DEF Shutdown, ddsVars, adapter, middleware, DdsTypeOK
  <2>2. todo' \in Seq(SubTopics \cup {"loop", "adapter"})
    BY <1>4 DEF Shutdown, ShutdownOrder
  <2> QED
    BY <1>4, <2>1, <2>2 DEF Shutdown, TypeOK, ServiceType, tasks
<1>5. CASE StopLoop
  <2>1. DdsTypeOK'
    BY <1>5 DEF StopLoop, ddsVars, adapter, middleware, DdsTypeOK
  <2>2. todo' \in Seq(SubTopics \cup {"loop", "adapter"})
    BY <1>5 DEF StopLoop, ServiceType
  <2> QED
    BY <1>5, <2>1, <2>2 DEF StopLoop, TypeOK, ServiceType, tasks
<1>6. CASE StopAdapter
  <2>1. DdsTypeOK'
    BY <1>6, EnterStopType, Who DEF StopAdapter
  <2>2. todo' \in Seq(SubTopics \cup {"loop", "adapter"})
    BY <1>6 DEF StopAdapter, ServiceType
  <2> QED
    BY <1>6, <2>1, <2>2 DEF StopAdapter, TypeOK, ServiceType, tasks
<1>7. CASE Stopped
  <2>1. DdsTypeOK'
    BY <1>7 DEF Stopped, ddsVars, adapter, middleware, DdsTypeOK
  <2> QED
    BY <1>7, <2>1 DEF Stopped, TypeOK, ServiceType, tasks
<1> QED
  BY <1>1, <1>2, <1>3, <1>4, <1>5, <1>6, <1>7

\* A queue of tasks that is not empty.
LEMMA QueueType ==
  ASSUME NEW q \in Seq(Task), q # <<>>
  PROVE  Head(q) \in Task /\ Tail(q) \in Seq(Task)
OBVIOUS

\* What the loop and the HTTP threads do between two publications.
Ticking(t) ==
  \/ NoMoreTicks(t) \/ SkipEnded(t) \/ BeginTick(t) \/ WriteStatus(t) \/ Complete(t) \/ EndTick(t) \/ Raise(t)
  \/ CreateTask(t) \/ Replace(t) \/ StoreTask(t)

LEMMA TickType ==
  ASSUME TypeOK, Places, NEW t \in Tickers, Ticking(t) \/ (t = Loop /\ Pass)
  PROVE  TypeOK'
<1> USE TypeSplits
<1>1. ddsVars' = ddsVars /\ life' = life /\ due' = due
  BY DEF Ticking, NoMoreTicks, SkipEnded, BeginTick, WriteStatus, Complete, EndTick, Raise, CreateTask, Replace, StoreTask, Pass, tasks
<1>2. DdsTypeOK'
  BY <1>1 DEF ddsVars, adapter, middleware, DdsTypeOK
<1>3. hand[t] \in HandState /\ hand[t].queue \in Seq(Task) /\ hand[t].rest \subseteq PubTopics
  BY DEF HandState
<1>4. AfterTicks(t) \in HandState
  BY Nothing DEF AfterTicks, HandState
<1>5. status' \in [Task -> {"none", "active", "ended"}] /\ stored' \in Seq(Task) /\ hand' \in [Tickers -> HandState]
  <2>1. CASE NoMoreTicks(t)
    BY <2>1, <1>4 DEF NoMoreTicks, ServiceType, tasks
  <2>9. CASE SkipEnded(t)
    <3>1. Tail(hand[t].queue) \in Seq(Task)
      BY <2>9, <1>3, QueueType DEF SkipEnded
    <3>2. hand' \in [Tickers -> HandState]
      BY <2>9, <3>1 DEF SkipEnded, HandState
    <3> QED
      BY <2>9, <3>2 DEF SkipEnded, ServiceType, tasks
  <2>10. CASE BeginTick(t)
    <3>1. Head(hand[t].queue) \in Task /\ Tail(hand[t].queue) \in Seq(Task)
      BY <2>10, <1>3, QueueType DEF BeginTick
    <3>2. hand' \in [Tickers -> HandState]
      BY <2>10, <3>1 DEF BeginTick, HandState
    <3> QED
      BY <2>10, <3>2 DEF BeginTick, ServiceType, tasks
  <2>2. CASE WriteStatus(t)
    BY <2>2 DEF WriteStatus, ServiceType
  <2>3. CASE EndTick(t)
    <3>1. hand' \in [Tickers -> HandState]
      BY <2>3, <1>3 DEF EndTick, HandState
    <3> QED
      BY <2>3, <3>1 DEF EndTick, ServiceType, tasks
  <2>11. CASE Complete(t)
    <3>1. hand' \in [Tickers -> HandState]
      BY <2>11, <1>3 DEF Complete, HandState
    <3> QED
      BY <2>11, <3>1 DEF Complete, ServiceType
  <2>4. CASE Raise(t)
    BY <2>4, <1>4 DEF Raise, ServiceType, tasks
  <2>5. CASE CreateTask(t)
    <3>1. hand' \in [Tickers -> HandState]
      BY <2>5 DEF CreateTask, HandState, ServiceType
    <3> QED
      BY <2>5, <3>1 DEF CreateTask, ServiceType, tasks
  <2>6. CASE Replace(t)
    <3>1. Head(hand[t].queue) \in Task /\ Tail(hand[t].queue) \in Seq(Task)
      BY <2>6, <1>3, QueueType DEF Replace
    <3>2. hand' \in [Tickers -> HandState]
      BY <2>6, <3>1, <1>3 DEF Replace, HandState
    <3> QED
      BY <2>6, <3>1, <3>2 DEF Replace, ServiceType
  <2>7. CASE StoreTask(t)
    <3>1. hand[t].task \in Task
      BY <2>7 DEF StoreTask, Places, Publishing
    <3>2. stored' \in Seq(Task)
      BY <2>7, <3>1 DEF StoreTask, ServiceType
    <3>3. <<hand[t].task>> \in Seq(Task)
      BY <3>1
    <3>4. hand' \in [Tickers -> HandState]
      BY <2>7, <3>3 DEF StoreTask, HandState
    <3> QED
      BY <2>7, <3>2, <3>4 DEF StoreTask, ServiceType
  <2>8. CASE t = Loop /\ Pass
    <3>1. hand' \in [Tickers -> HandState]
      BY <2>8, <1>3 DEF Pass, HandState, ServiceType
    <3> QED
      BY <2>8, <3>1 DEF Pass, ServiceType, tasks
  <2> QED
    BY <2>1, <2>2, <2>3, <2>4, <2>5, <2>6, <2>7, <2>8, <2>9, <2>10, <2>11 DEF Ticking
<1> QED
  BY <1>1, <1>2, <1>5 DEF TypeOK, ServiceType, life

LEMMA PublishType ==
  ASSUME TypeOK, NEW t \in Tickers, Publish(t)
  PROVE  TypeOK'
<1> USE TypeSplits
<1>1. PICK topic \in hand[t].rest :
        Enter(t, "publish", topic) /\ hand' = [hand EXCEPT ![t].rest = @ \ {topic}]
  BY DEF Publish
<1>2. topic \in PubTopics
  BY DEF HandState
<1>3. DdsTypeOK'
  BY <1>1, <1>2, EnterType, Who
<1>4. hand' \in [Tickers -> HandState]
  BY <1>1 DEF HandState
<1> QED
  BY <1>3, <1>4 DEF Publish, TypeOK, ServiceType, life, tasks

LEMMA ElapseType ==
  ASSUME TypeOK, Elapse
  PROVE  TypeOK'
<1> USE TypeSplits
<1>1. DdsTypeOK'
  BY DEF Elapse, ddsVars, adapter, middleware, DdsTypeOK
<1> QED
  BY <1>1 DEF Elapse, TypeOK, ServiceType, life

-----------------------------------------------------------------------------
(* Who is inside the adapter, and where. *)

Stopping == {"delete", "unmark", "clear"}

\* A step inside the adapter is of one thread, which is in a call and goes on
\* with it or leaves it.
LEMMA DdsCall ==
  ASSUME DdsTypeOK, NEW t \in Threads, DdsStep(t), \A u \in Threads : CallFits(u)
  PROVE  /\ \A u \in Threads \ {t} : call'[u] = call[u]
         /\ call[t].step # "none"
         /\ \/ call'[t] = Outside
            \/ /\ call'[t].what = call[t].what /\ call'[t].topic = call[t].topic
               /\ call'[t].step # "none"
               /\ call'[t].step \in Stopping <=> call[t].step \in Stopping
         /\ CallFits(t)'
<1>1. call \in [Threads -> CallState] /\ call[t] \in CallState
  BY DEF DdsTypeOK
<1>2. CallFits(t)
  OBVIOUS
<1>3. Outside.what = None /\ Outside.step = "none" /\ Outside.topic = None
  BY DEF Outside
<1>4. None \notin {"start", "publish", "subscribe"}
  BY ServiceAssumption
<1> USE <1>1, <1>2, <1>3, <1>4 DEF CallFits, Stopping, CallState, Step, Leave, Starting
<1>5. CASE CreateParticipant(t)
  BY <1>5 DEF CreateParticipant
<1>6. CASE CreateInterface(t)
  BY <1>6 DEF CreateInterface
<1>7. CASE StartFails(t)
  BY <1>7 DEF StartFails
<1>8. CASE MarkStarted(t)
  BY <1>8 DEF MarkStarted, Proceed
<1>9. CASE KnownTopic(t)
  BY <1>9 DEF KnownTopic
<1>10. CASE Declare(t)
  BY <1>10 DEF Declare
<1>11. CASE DeclareFails(t)
  BY <1>11 DEF DeclareFails
<1>12. CASE NoteTopic(t)
  BY <1>12 DEF NoteTopic
<1>13. CASE WriteData(t)
  BY <1>13 DEF WriteData
<1>14. CASE Delete(t)
  BY <1>14 DEF Delete
<1>15. CASE Unmark(t)
  BY <1>15 DEF Unmark
<1>16. CASE Clear(t)
  BY <1>16 DEF Clear
<1> QED
  BY <1>5, <1>6, <1>7, <1>8, <1>9, <1>10, <1>11, <1>12, <1>13, <1>14, <1>15, <1>16 DEF DdsStep

\* Entering the adapter leaves the others where they are.
LEMMA EnterCall ==
  ASSUME DdsTypeOK, NEW t \in Threads, \A u \in Threads : CallFits(u),
         NEW what \in {"start", "publish", "subscribe"}, NEW topic, Enter(t, what, topic),
         what = "publish" => topic \in PubTopics, what = "subscribe" => topic \in SubTopics
  PROVE  /\ \A u \in Threads \ {t} : call'[u] = call[u]
         /\ call[t] = Outside
         /\ call'[t].what \in {None, what}
         /\ call'[t].step = IF ~ started THEN "create" ELSE IF what = "start" THEN "none" ELSE "topic"
         /\ CallFits(t)'
<1>1. Outside.what = None /\ Outside.step = "none" /\ Outside.topic = None
  BY DEF Outside
<1> QED
  BY <1>1, ServiceAssumption DEF Enter, Free, DdsTypeOK, CallFits, Starting, CallState

\* A step inside the adapter keeps everyone to its role, and the service where
\* it is.
LEMMA InAdapterPlaces ==
  ASSUME TypeOK, Roles, Places, NEW t \in Threads, InAdapter(t)
  PROVE  Roles' /\ Places'
<1>1. DdsTypeOK /\ DdsStep(t) /\ \A u \in Threads : CallFits(u)
  BY DEF TypeOK, Roles, InAdapter
<1>2. /\ \A u \in Threads \ {t} : call'[u] = call[u]
      /\ call[t].step # "none"
      /\ \/ call'[t] = Outside
         \/ /\ call'[t].what = call[t].what /\ call'[t].topic = call[t].topic
            /\ call'[t].step # "none"
            /\ call'[t].step \in Stopping <=> call[t].step \in Stopping
      /\ CallFits(t)'
  BY <1>1, DdsCall
<1>3. Outside.what = None /\ Outside.step = "none"
  BY DEF Outside
<1>4. ~ Free(t)
  BY <1>2, <1>3 DEF Free
<1>5. UNCHANGED <<phase, todo, hand>>
  BY DEF InAdapter, life
<1>6. Roles'
  <2>1. \A u \in Threads : CallFits(u)'
    BY <1>1, <1>2 DEF CallFits
  <2>2. \A u \in Tickers : call'[u].what \in {None, "publish"} /\ call'[u].step \notin Stopping
    BY <1>2, <1>3, Who DEF Roles, Stopping
  <2>3. call'[Main].what \in {None, "start", "subscribe"}
    BY <1>2, <1>3, Who DEF Roles
  <2>4. call'[Main].step \in Stopping => phase' = "stopping" /\ todo' = <<>>
    BY <1>2, <1>3, <1>5, Who DEF Roles, Stopping
  <2>5. phase' = "serving" => call'[Main] = Outside
    BY <1>2, <1>4, <1>5, Who DEF Roles, Free
  <2>6. phase' \in {"stopping", "stopped"} => call'[Main].step \in Stopping \cup {"none"}
    BY <1>2, <1>3, <1>5, Who DEF Roles, Stopping
  <2> QED
    BY <2>1, <2>2, <2>3, <2>4, <2>5, <2>6 DEF Roles, Stopping, Free
<1>7. Places'
  <2>1. \A u \in Tickers : hand[u].step \notin Publishing => u # t /\ call'[u] = call[u]
    BY <1>2, <1>4, Who DEF Places
  <2> QED
    BY <1>5, <2>1 DEF Places, Free
<1> QED
  BY <1>6, <1>7

-----------------------------------------------------------------------------
(* The adapter in use. *)

\* What a thread that starts the adapter alone finds: nobody is in a call that
\* needs it started, and nothing is declared.
LEMMA NothingYet ==
  ASSUME Orderly, NEW t \in Threads, call[t].step \in Starting
  PROVE  /\ ~ started /\ links = {} /\ pub = {}
         /\ \A u \in Threads \ {t} : call[u].step \notin Starting \cup {"topic", "note", "write", "delete"}
BY DEF Orderly

\* Every step that is not one of stop keeps the adapter in order.
LEMMA OrderlyStep ==
  ASSUME DdsTypeOK, Orderly, NEW t \in Threads, DdsStep(t), call[t].step \notin Stopping,
         \A u \in Threads : CallFits(u)
  PROVE  Orderly'
<1>1. /\ call \in [Threads -> CallState] /\ call[t] \in CallState /\ CallFits(t)
      /\ Outside.what = None /\ Outside.step = "none"
  BY DEF DdsTypeOK, Outside
<1>2. CASE CreateParticipant(t)
  <2>1. call[t].step = "create" /\ call' = [call EXCEPT ![t].step = "open"]
    BY <1>2 DEF CreateParticipant, Step
  <2>2. started' = started /\ links' = links /\ pub' = pub /\ dp' \in alive'
    BY <1>2 DEF CreateParticipant
  <2>3. \A u \in Threads : call'[u].step \in Starting \cup {"topic", "note", "write", "delete"} => u = t /\ call'[u].step = "open"
    BY <1>1, <2>1, NothingYet DEF Starting, CallState
  <2>4. ~ started' /\ links' = {} /\ pub' = {}
    BY <2>1, <2>2, NothingYet DEF Starting
  <2> QED
    BY <2>2, <2>3, <2>4 DEF Orderly, Starting
<1>3. CASE CreateInterface(t)
  <2>1. call[t].step = "open" /\ call' = [call EXCEPT ![t].step = "mark"]
    BY <1>3 DEF CreateInterface, Step
  <2>2. /\ started' = started /\ links' = links /\ pub' = pub
        /\ dds' = [on |-> dp, by |-> t] /\ dp' = dp /\ alive' = alive
    BY <1>3 DEF CreateInterface, middleware
  <2>3. \A u \in Threads : call'[u].step \in Starting \cup {"topic", "note", "write", "delete"} => u = t /\ call'[u].step = "mark"
    BY <1>1, <2>1, NothingYet DEF Starting, CallState
  <2>4. ~ started' /\ links' = {} /\ pub' = {}
    BY <2>1, <2>2, NothingYet DEF Starting
  <2>5. dds' # None /\ dds'.on = dp /\ dp \in alive
    <3>1. dp \in Participant
      BY <1>3 DEF CreateInterface, DdsTypeOK
    <3>2. [on |-> dp, by |-> t] \in Interface
      BY <3>1 DEF Interface
    <3> QED
      BY <2>1, <2>2, <3>2, ServiceAssumption DEF Orderly
  <2> QED
    BY <2>2, <2>3, <2>4, <2>5 DEF Orderly, Starting
<1>4. CASE StartFails(t)
  <2>1. call[t].step \in Starting /\ call' = [call EXCEPT ![t] = Outside]
    BY <1>4 DEF StartFails, Starting, Leave
  <2>2. \A u \in Threads : call'[u].step \notin Starting \cup {"topic", "note", "write", "delete"}
    BY <1>1, <2>1, NothingYet DEF Starting
  <2>3. ~ started' /\ links' = {} /\ pub' = {}
    BY <1>4, <2>1, NothingYet DEF StartFails, middleware
  <2> QED
    BY <2>2, <2>3 DEF Orderly, Starting
<1>5. CASE MarkStarted(t)
  <2>1. /\ call[t].step = "mark"
        /\ \/ call' = [call EXCEPT ![t] = Outside]
           \/ call' = [call EXCEPT ![t].step = "topic"]
    BY <1>5 DEF MarkStarted, Proceed, Leave
  <2>2. started' /\ UNCHANGED <<dp, dds, pub, links, alive>>
    BY <1>5 DEF MarkStarted, middleware
  <2>3. \A u \in Threads : call'[u].step \notin Starting \cup {"note", "write"}
    BY <1>1, <2>1, NothingYet DEF Starting, CallState
  <2>4. dds # None /\ dds.on = dp /\ dp \in alive
    BY <2>1 DEF Orderly
  <2>5. links = {} /\ pub = {}
    BY <2>1, NothingYet DEF Starting
  <2> QED
    BY <2>2, <2>3, <2>4, <2>5 DEF Orderly, Starting
<1>6. CASE KnownTopic(t)
  <2>1. call[t].step = "topic" /\ UNCHANGED <<started, dp, dds, pub, links, alive>>
    BY <1>6 DEF KnownTopic, adapter, middleware
  <2>2. \/ call' = [call EXCEPT ![t] = Outside]
        \/ call' = [call EXCEPT ![t].step = "write"] /\ call[t].what = "publish" /\ call[t].topic \in pub
    BY <1>6 DEF KnownTopic, Step, Leave, Declared
  <2> QED
    BY <1>1, <2>1, <2>2 DEF Orderly, LinkOn, Starting, CallState
<1>7. CASE Declare(t)
  <2>1. call[t].step = "topic" /\ UNCHANGED <<started, dp, dds, pub, alive>> /\ call' = [call EXCEPT ![t].step = "note"]
    BY <1>7 DEF Declare, adapter, Step
  <2>2. started /\ dds # None /\ dds.on = dp /\ dp \in alive
    BY <2>1 DEF Orderly
  <2>3. links' = links \cup {LinkOn(call[t].what, call[t].topic)}
    BY <1>7, <2>2 DEF Declare, LinkOf, LinkOn
  <2>4. \A u \in Threads : call'[u].step # "note" => call'[u] = call[u]
    BY <1>1, <2>1 DEF CallState
  <2>5. \A u \in Threads : call'[u].step \in {"note", "write"} => LinkOn(call'[u].what, call'[u].topic) \in links'
    BY <1>1, <2>1, <2>3 DEF Orderly, CallState
  <2>6. \A l \in links' : l.dds.on = dp
    BY <2>2, <2>3 DEF Orderly, LinkOn
  <2> QED
    BY <1>1, <2>1, <2>2, <2>3, <2>4, <2>5, <2>6 DEF Orderly, LinkOn, Starting
<1>8. CASE DeclareFails(t)
  <2>1. UNCHANGED <<started, dp, dds, pub, links, alive>> /\ call' = [call EXCEPT ![t] = Outside]
    BY <1>8 DEF DeclareFails, adapter, middleware, Leave
  <2> QED
    BY <1>1, <2>1 DEF Orderly, LinkOn, Starting
<1>9. CASE NoteTopic(t)
  <2>1. call[t].step = "note" /\ UNCHANGED <<started, dp, dds, links, alive>>
    BY <1>9 DEF NoteTopic, middleware
  <2>2. \/ call' = [call EXCEPT ![t].step = "write"] /\ call[t].what = "publish" /\ pub' = pub \cup {call[t].topic}
        \/ call' = [call EXCEPT ![t] = Outside] /\ pub' = pub
    BY <1>9 DEF NoteTopic, Step, Leave
  <2> QED
    BY <1>1, <2>1, <2>2 DEF Orderly, LinkOn, Starting, CallState
<1>10. CASE WriteData(t)
  <2>1. UNCHANGED <<started, dp, dds, pub, links, alive>> /\ call' = [call EXCEPT ![t] = Outside]
    BY <1>10 DEF WriteData, adapter, middleware, Leave
  <2> QED
    BY <1>1, <2>1 DEF Orderly, LinkOn, Starting
<1>11. ~ Delete(t) /\ ~ Unmark(t) /\ ~ Clear(t)
  BY DEF Delete, Unmark, Clear, Stopping
<1> QED
  BY <1>2, <1>3, <1>4, <1>5, <1>6, <1>7, <1>8, <1>9, <1>10, <1>11 DEF DdsStep

\* A call that begins keeps it so, unless it is the second that starts it.
LEMMA OrderlyEnter ==
  ASSUME DdsTypeOK, Orderly, NEW t \in Threads, ~ raced', \A u \in Threads : CallFits(u),
         NEW what \in {"start", "publish", "subscribe"}, NEW topic, Enter(t, what, topic),
         what = "publish" => topic \in PubTopics, what = "subscribe" => topic \in SubTopics
  PROVE  Orderly'
<1>1. /\ \A u \in Threads \ {t} : call'[u] = call[u]
      /\ call'[t].step = IF ~ started THEN "create" ELSE IF what = "start" THEN "none" ELSE "topic"
  BY EnterCall
<1>2. UNCHANGED <<started, dp, dds, pub, links, alive>>
  BY DEF Enter, adapter, middleware
<1>3. ~ started => \A u \in Threads \ {t} : call[u].step \notin Starting
  BY DEF Enter, DdsTypeOK
<1> QED
  BY <1>1, <1>2, <1>3 DEF Orderly, LinkOn, Starting

-----------------------------------------------------------------------------
(* Steps inside the adapter. *)

\* Before the service serves nobody but the main thread is inside.
LEMMA MainAlone ==
  ASSUME Places, phase \in {"import", "subscribe"}, NEW t \in Tickers
  PROVE  call[t].step = "none" /\ hand[t].step = "idle"
<1>1. hand[t].step = "idle"
  BY DEF Places, Tickers
<1> QED
  BY <1>1 DEF Places, Free, Outside, Publishing

LEMMA InAdapterTuned ==
  ASSUME TypeOK, Roles, Places, Tuned, NEW t \in Threads, InAdapter(t)
  PROVE  Tuned'
<1>1. DdsTypeOK /\ DdsStep(t) /\ \A u \in Threads : CallFits(u)
  BY DEF TypeOK, Roles, InAdapter
<1>2. /\ \A u \in Threads \ {t} : call'[u] = call[u]
      /\ call[t].step # "none"
      /\ \/ call'[t] = Outside
         \/ /\ call'[t].what = call[t].what /\ call'[t].topic = call[t].topic
            /\ call'[t].step # "none"
            /\ call'[t].step \in Stopping <=> call[t].step \in Stopping
      /\ CallFits(t)'
  BY <1>1, DdsCall
<1>3. phase' = phase /\ Outside.step = "none" /\ call \in [Threads -> CallState] /\ call[t] \in CallState
  BY <1>1 DEF InAdapter, life, Outside, DdsTypeOK
<1>4. Serves => call[t].step \notin Stopping
  BY Who DEF Serves, Roles, Stopping
<1>5. ASSUME Serves, sub = {}, ~ (call[t].step = "note" /\ call[t].what = "subscribe")
      PROVE  sub' = {}
  BY <1>1, <1>4, <1>5 DEF DdsStep, CreateParticipant, CreateInterface, StartFails, MarkStarted, KnownTopic, Declare,
     DeclareFails, NoteTopic, WriteData, Delete, Unmark, Clear, Stopping, adapter, CallFits
<1>6. ASSUME Serves, sub # {}
      PROVE  /\ started' = started /\ dds' = dds /\ links \subseteq links'
             /\ \A u \in Threads : call'[u].step \notin Starting
  <2>1. started /\ \A u \in Threads : call[u].step \notin Starting
    BY <1>6 DEF Tuned
  <2>2. \/ KnownTopic(t) \/ Declare(t) \/ DeclareFails(t) \/ NoteTopic(t) \/ WriteData(t)
    BY <1>1, <1>4, <1>6, <2>1 DEF DdsStep, CreateParticipant, CreateInterface, StartFails, MarkStarted, Starting,
       Delete, Unmark, Clear, Stopping
  <2>3. started' = started /\ dds' = dds /\ links \subseteq links'
    BY <2>2 DEF KnownTopic, Declare, DeclareFails, NoteTopic, WriteData, adapter, middleware
  <2>4. call'[t].step \notin Starting
    BY <2>2, <1>3 DEF KnownTopic, Declare, DeclareFails, NoteTopic, WriteData, Step, Leave, Starting, CallState
  <2> QED
    BY <2>1, <2>3, <2>4, <1>2
<1>7. ASSUME phase \in {"import", "subscribe"}
      PROVE  Tuned'
  <2>1. t = Main
    BY <1>2, <1>7, MainAlone, Who
  <2>2. \A u \in Tickers : call'[u].step = "none"
    BY <1>2, <1>7, <2>1, MainAlone, Who
  <2>3. call[Main].step \in Starting => ~ started /\ sub = {}
    BY <1>7, Who DEF Tuned, Serves
  <2>4. \A u \in Threads : u = Main \/ call'[u].step \notin Starting
    BY <2>2, Who DEF Starting
  <2>5. call[Main] \in CallState /\ CallFits(Main) /\ call[Main].what \in {None, "start", "subscribe"}
    BY <1>1, <1>3, <2>1, Who DEF Roles
  <2>6. None # "publish"
    BY ServiceAssumption
  <2> USE <1>3, <1>7, <2>1, <2>3, <2>4, Who DEF Tuned, Serves
  <2>7. CASE CreateParticipant(t)
    <3>1. /\ call[Main].step = "create" /\ call'[Main].step = "open" /\ dp' \in alive'
          /\ UNCHANGED <<started, dds, sub, links>>
      BY <2>7 DEF CreateParticipant, Step
    <3> QED
      BY <3>1 DEF Starting
  <2>8. CASE CreateInterface(t)
    <3>1. /\ call[Main].step = "open" /\ call'[Main].step = "mark"
          /\ dds' = [on |-> dp, by |-> Main] /\ alive' = alive /\ dp \in alive
          /\ UNCHANGED <<started, sub, links>>
      BY <2>8 DEF CreateInterface, Step, middleware
    <3>2. [on |-> dp, by |-> Main] \in Interface
      BY <2>8, <1>1 DEF CreateInterface, Interface, DdsTypeOK
    <3>3. dds' # None
      BY <3>1, <3>2, ServiceAssumption
    <3> QED
      BY <3>1, <3>3 DEF Starting
  <2>9. CASE StartFails(t)
    <3>1. call[Main].step \in Starting /\ call'[Main] = Outside /\ ~ started' /\ sub' = sub
      BY <2>9 DEF StartFails, Leave, Starting
    <3> QED
      BY <3>1
  <2>10. CASE MarkStarted(t)
    <3>1. /\ call[Main].step = "mark" /\ call'[Main].step \in {"none", "topic"} /\ started'
          /\ UNCHANGED <<dds, alive, sub, links>>
      BY <2>10 DEF MarkStarted, Proceed, Leave, middleware, CallState
    <3> QED
      BY <3>1 DEF Starting
  <2>11. CASE KnownTopic(t)
    <3>1. call[Main].step = "topic" /\ call'[Main].step \in {"none", "write"} /\ UNCHANGED <<started, dds, alive, sub, links>>
      BY <2>11 DEF KnownTopic, Step, Leave, adapter, middleware, CallState
    <3> QED
      BY <3>1 DEF Starting, LinkOn
  <2>12. CASE Declare(t)
    <3>1. /\ call[Main].step = "topic" /\ call'[Main].step = "note" /\ UNCHANGED <<started, dds, alive, sub>>
          /\ call'[Main].topic = call[Main].topic
      BY <2>12 DEF Declare, Step, adapter
    <3>2. started /\ dds # None /\ dds.on \in alive
      BY <3>1
    <3>3. call[Main].what = "subscribe"
      BY <2>5, <2>6, <3>1 DEF CallFits
    <3>4. links' = links \cup {LinkOn("subscribe", call[Main].topic)}
      BY <2>12, <3>2, <3>3 DEF Declare, LinkOf, LinkOn
    <3>5. \A topic \in sub : LinkOn("subscribe", topic) \in links
      OBVIOUS
    <3> QED
      BY <3>1, <3>2, <3>4, <3>5 DEF Starting, LinkOn
  <2>13. CASE DeclareFails(t)
    <3>1. call[Main].step = "topic" /\ call'[Main] = Outside /\ UNCHANGED <<started, dds, alive, sub, links>>
      BY <2>13 DEF DeclareFails, Leave, adapter, middleware
    <3> QED
      BY <3>1 DEF Starting, LinkOn
  <2>14. CASE NoteTopic(t)
    <3>1. call[Main].step = "note" /\ UNCHANGED <<started, dds, alive, links>>
      BY <2>14 DEF NoteTopic, middleware
    <3>2. call[Main].what = "subscribe"
      BY <2>5, <2>6, <3>1 DEF CallFits
    <3>3. call'[Main] = Outside /\ sub' = sub \cup {call[Main].topic}
      BY <2>14, <3>2 DEF NoteTopic, Leave
    <3>4. started /\ dds # None /\ dds.on \in alive /\ LinkOn("subscribe", call[Main].topic) \in links
      BY <3>1
    <3> QED
      BY <3>1, <3>3, <3>4 DEF Starting, LinkOn
  <2>15. CASE WriteData(t)
    <3>1. call'[Main] = Outside /\ UNCHANGED <<started, dds, alive, sub, links>>
      BY <2>15 DEF WriteData, Leave, adapter, middleware
    <3> QED
      BY <3>1 DEF Starting, LinkOn
  <2>16. ~ Delete(t) /\ ~ Unmark(t) /\ ~ Clear(t)
    BY <1>4 DEF Delete, Unmark, Clear, Stopping
  <2> QED
    BY <1>1, <2>7, <2>8, <2>9, <2>10, <2>11, <2>12, <2>13, <2>14, <2>15, <2>16 DEF DdsStep
<1>8. ASSUME phase = "serving"
      PROVE  Tuned'
  <2>1. Serves /\ call[t].what \in {None, "publish"}
    BY <1>2, <1>8, Who DEF Serves, Roles, Free, Outside
  <2>2. None # "subscribe"
    BY ServiceAssumption
  <2>3. sub = {} => sub' = {}
    BY <1>5, <2>1, <2>2
  <2>4. sub # {} => sub' = sub
    BY <1>1, <1>4, <2>1, <2>2 DEF DdsStep, CreateParticipant, CreateInterface, StartFails, MarkStarted, KnownTopic,
       Declare, DeclareFails, NoteTopic, WriteData, Delete, Unmark, Clear, Stopping, adapter, CallFits
  <2> QED
    BY <1>3, <1>6, <1>8, <2>1, <2>3, <2>4 DEF Tuned, Serves, LinkOn
<1>9. ASSUME phase \in {"stopping", "stopped"}
      PROVE  Tuned'
  BY <1>3, <1>9 DEF Tuned, Serves
<1> QED
  BY <1>7, <1>8, <1>9 DEF TypeOK

\* While the adapter is in use everyone is at work in it; when it is not, only
\* the main thread, which stops it, is inside.
LEMMA NobodyElse ==
  ASSUME TypeOK, Roles, Places, Rests, ~ underway, ~ InUse, NEW t \in Tickers
  PROVE  Free(t) /\ hand[t].step \notin Publishing
<1>1. phase = "stopped" \/ (phase = "stopping" /\ todo = <<>>)
  BY DEF InUse, Serves, TypeOK
<1>2. Halted
  <2>1. <<>> # ShutdownOrder
    BY DEF ShutdownOrder
  <2> QED
    BY <1>1, <2>1 DEF Halted
<1>3. hand[Loop].step \in {"sleep", "ended"}
  BY <1>2 DEF Rests
<1>4. t # Loop => hand[t].step = "idle"
  BY <1>1 DEF Places, Tickers
<1> QED
  BY <1>3, <1>4 DEF Places, Publishing

LEMMA InAdapterSettles ==
  ASSUME TypeOK, Roles, Places, Rests, Settles, NEW t \in Threads, InAdapter(t)
  PROVE  Rests' /\ Settles'
<1>1. DdsTypeOK /\ DdsStep(t) /\ \A u \in Threads : CallFits(u)
  BY DEF TypeOK, Roles, InAdapter
<1>2. /\ \A u \in Threads \ {t} : call'[u] = call[u]
      /\ call[t].step # "none"
      /\ \/ call'[t] = Outside
         \/ /\ call'[t].what = call[t].what /\ call'[t].topic = call[t].topic
            /\ call'[t].step # "none"
            /\ call'[t].step \in Stopping <=> call[t].step \in Stopping
      /\ CallFits(t)'
  BY <1>1, DdsCall
<1>3. UNCHANGED <<phase, todo, running, underway, hand>>
  BY DEF InAdapter, life
<1>4. raced' = raced
  BY <1>1 DEF DdsStep, CreateParticipant, CreateInterface, StartFails, MarkStarted, KnownTopic, Declare,
     DeclareFails, NoteTopic, WriteData, Delete, Unmark, Clear
<1>5. Rests'
  BY <1>3 DEF Rests, Halted
<1>6. call \in [Threads -> CallState] /\ call[t] \in CallState
  BY <1>1 DEF DdsTypeOK
<1>7. ASSUME ~ raced, ~ underway, InUse, call[t].step \notin Stopping
      PROVE  InUse' /\ Orderly'
  <2>1. Orderly'
    BY <1>1, <1>7, OrderlyStep DEF Settles
  <2>2. Main # t => call'[Main] = call[Main]
    BY <1>2, Who
  <2>3. Main = t => Serves \/ todo # <<>>
    BY <1>7 DEF InUse, Stopping
  <2> QED
    BY <1>3, <2>1, <2>2, <2>3, <1>7 DEF InUse, Serves
<1>8. ASSUME ~ raced, ~ underway, InUse, call[t].step \in Stopping
      PROVE  ~ InUse' /\ links' = {}
  <2>1. t = Main /\ phase = "stopping" /\ todo = <<>>
    BY <1>8, Who DEF Roles, Stopping
  <2>2. call[t].step = "delete"
    BY <1>8, <2>1 DEF InUse, Serves
  <2>3. \A l \in links : l.dds.on = dp
    BY <1>8 DEF Settles, Orderly
  <2>4. Delete(t)
    BY <1>1, <2>2 DEF DdsStep, CreateParticipant, CreateInterface, StartFails, MarkStarted, KnownTopic, Declare,
       DeclareFails, NoteTopic, WriteData, Unmark, Clear
  <2>5. links' = {} /\ call'[Main].step = "unmark"
    BY <1>6, <2>1, <2>3, <2>4 DEF Delete, Step, CallState
  <2> QED
    BY <1>3, <2>1, <2>5 DEF InUse, Serves
<1>9. ASSUME ~ raced, ~ underway, ~ InUse
      PROVE  ~ InUse' /\ links' = {}
  <2>1. t = Main
    BY <1>2, <1>9, NobodyElse, Who DEF Free, Outside
  <2>2. links = {}
    BY <1>9 DEF Settles
  <2>3. call[t].step \in {"unmark", "clear"} /\ ~ Serves
    BY <1>2, <1>9, <2>1 DEF Roles, InUse, Serves, TypeOK
  <2>4. Unmark(t) \/ Clear(t)
    BY <1>1, <2>3 DEF DdsStep, CreateParticipant, CreateInterface, StartFails, MarkStarted, KnownTopic, Declare,
       DeclareFails, NoteTopic, WriteData, Delete
  <2>5. links' = {} /\ call'[Main].step # "delete"
    BY <1>6, <2>1, <2>2, <2>4 DEF Unmark, Clear, Step, Leave, Outside, middleware, CallState
  <2>6. phase = "stopping" => todo = <<>>
    BY <1>9 DEF InUse
  <2> QED
    BY <1>3, <2>3, <2>5, <2>6 DEF InUse, Serves
<1>10. ASSUME ~ raced', ~ underway'
       PROVE  IF InUse' THEN Orderly' ELSE links' = {}
  <2>1. ~ raced /\ ~ underway
    BY <1>3, <1>4, <1>10
  <2>2. CASE InUse /\ call[t].step \notin Stopping
    BY <1>7, <2>1, <2>2, Zenon
  <2>3. CASE InUse /\ call[t].step \in Stopping
    BY <1>8, <2>1, <2>3, Zenon
  <2>4. CASE ~ InUse
    BY <1>9, <2>1, <2>4, Zenon
  <2> QED
    BY <2>2, <2>3, <2>4
<1> QED
  BY <1>5, <1>10 DEF Settles

-----------------------------------------------------------------------------
(* Publications, and what is done between them. *)

LEMMA PublishKeeps ==
  ASSUME IInv, NEW t \in Tickers, Publish(t)
  PROVE  Roles' /\ Places' /\ Tuned' /\ Rests' /\ Settles'
<1>1. PICK topic \in hand[t].rest :
        Enter(t, "publish", topic) /\ hand' = [hand EXCEPT ![t].rest = @ \ {topic}]
  BY DEF Publish
<1>2. /\ TypeOK /\ DdsTypeOK /\ Roles /\ Places /\ Tuned /\ Rests /\ Settles /\ t \in Threads
      /\ \A u \in Threads : CallFits(u)
  BY Who DEF IInv, TypeOK, Roles
<1>3. topic \in PubTopics /\ hand \in [Tickers -> HandState]
  BY <1>2 DEF TypeOK, HandState
<1>4. /\ \A u \in Threads \ {t} : call'[u] = call[u]
      /\ call[t] = Outside
      /\ call'[t].what \in {None, "publish"}
      /\ call'[t].step = IF ~ started THEN "create" ELSE "topic"
      /\ CallFits(t)'
  BY <1>1, <1>2, <1>3, EnterCall
<1>5. UNCHANGED <<phase, todo, running, underway, started, dp, dds, pub, sub, alive, links>>
  BY <1>1 DEF Publish, Enter, life, adapter, middleware
<1>6. /\ \A u \in Tickers : hand'[u].step = hand[u].step /\ hand'[u].task = hand[u].task
      /\ hand[t].step \in Publishing
  BY <1>1, <1>3 DEF Publish, HandState
<1>7. phase \notin {"import", "subscribe"}
  BY <1>2, <1>6, MainAlone DEF Publishing
<1>8. t # Main /\ Main \in Threads /\ call'[Main] = call[Main]
  BY <1>4, Who
<1>9. Roles'
  <2>1. \A u \in Threads : CallFits(u)'
    BY <1>2, <1>4 DEF CallFits
  <2>2. \A u \in Tickers : call'[u].what \in {None, "publish"} /\ call'[u].step \notin {"delete", "unmark", "clear"}
    BY <1>2, <1>4, Who DEF Roles
  <2> QED
    BY <1>2, <1>5, <1>8, <2>1, <2>2 DEF Roles, Free
<1>10. Places'
  <2>1. \A u \in Tickers : hand[u].step \notin Publishing => call'[u] = call[u]
    BY <1>4, <1>6, Who
  <2> QED
    BY <1>2, <1>5, <1>6, <2>1, Who DEF Places, Free
<1>11. Tuned'
  <2>1. sub # {} /\ Serves => \A u \in Threads : call'[u].step \notin Starting
    BY <1>2, <1>4 DEF Tuned, Starting
  <2> QED
    BY <1>2, <1>5, <1>7, <2>1 DEF Tuned, Serves, LinkOn
<1>12. Rests'
  BY <1>2, <1>5, <1>6, Who DEF Rests, Halted
<1>13. Settles'
  <2>1. ASSUME ~ raced', ~ underway'
        PROVE  InUse' /\ Orderly'
    <3>1. ~ raced /\ ~ underway
      BY <1>1, <1>5, <2>1 DEF Enter
    <3>2. InUse
      BY <1>2, <1>6, <3>1, NobodyElse
    <3>3. Orderly'
      BY <1>1, <1>2, <1>3, <2>1, <3>1, <3>2, OrderlyEnter DEF Settles
    <3> QED
      BY <1>5, <1>8, <3>2, <3>3 DEF InUse, Serves
  <2> QED
    BY <2>1 DEF Settles
<1> QED
  BY <1>9, <1>10, <1>11, <1>12, <1>13

\* Whatever leaves the adapter and the main thread alone.
LEMMA Untouched ==
  ASSUME ddsVars' = ddsVars, phase' = phase, todo' = todo, underway' = underway
  PROVE  (Roles => Roles') /\ (Tuned => Tuned') /\ (Settles => Settles')
<1>1. UNCHANGED <<started, dp, dds, pub, sub, alive, links, call, raced>>
  BY DEF ddsVars, adapter, middleware
<1>2. Roles => Roles'
  BY <1>1 DEF Roles, CallFits, Free
<1>3. Tuned => Tuned'
  BY <1>1 DEF Tuned, Serves, LinkOn
<1>4. (InUse <=> InUse') /\ (Orderly => Orderly')
  BY <1>1 DEF InUse, Serves, Orderly, LinkOn
<1> QED
  BY <1>1, <1>2, <1>3, <1>4 DEF Settles

LEMMA TickKeeps ==
  ASSUME IInv, NEW t \in Tickers, Ticking(t) \/ (t = Loop /\ Pass)
  PROVE  Roles' /\ Places' /\ Tuned' /\ Rests' /\ Settles'
<1>1. ddsVars' = ddsVars /\ phase' = phase /\ todo' = todo /\ underway' = underway /\ running' = running
  BY DEF Ticking, NoMoreTicks, SkipEnded, BeginTick, WriteStatus, Complete, EndTick, Raise, CreateTask, Replace, StoreTask, Pass, life
<1>2. TypeOK /\ Roles /\ Places /\ Tuned /\ Rests /\ Settles /\ hand \in [Tickers -> HandState] /\ call' = call
  BY <1>1 DEF IInv, TypeOK, ddsVars
<1>3. Roles' /\ Tuned' /\ Settles'
  BY <1>1, <1>2, Untouched
<1>4. \A u \in Tickers \ {t} : hand'[u] = hand[u]
  BY <1>2 DEF Ticking, NoMoreTicks, SkipEnded, BeginTick, WriteStatus, Complete, EndTick, Raise, CreateTask, Replace, StoreTask, Pass
<1>5. /\ hand'[t].step \notin Publishing => Free(t)
      /\ hand'[t].step \in Publishing => hand'[t].task \in Task
  <2>1. hand[t] \in HandState /\ hand[t].queue \in Seq(Task)
    BY <1>2 DEF HandState
  <2>2. Idle.step = "idle" /\ AfterTicks(t).step \in {"sleep", "idle"}
    BY DEF Idle, AfterTicks
  <2>3. CASE BeginTick(t)
    BY <1>2, <2>1, <2>3, QueueType DEF BeginTick, Publishing
  <2>4. CASE NoMoreTicks(t) \/ SkipEnded(t) \/ (t = Loop /\ Pass)
    BY <1>2, <2>1, <2>2, <2>4 DEF NoMoreTicks, SkipEnded, Pass, Places, HandState, Publishing
  <2>5. CASE WriteStatus(t) \/ Complete(t) \/ EndTick(t) \/ Raise(t)
    BY <1>2, <2>1, <2>2, <2>5 DEF WriteStatus, Complete, EndTick, Raise, Places, HandState, Publishing
  <2>6. CASE CreateTask(t)
    BY <1>2, <2>6 DEF CreateTask, Publishing
  <2>7. CASE Replace(t)
    BY <1>2, <2>1, <2>7 DEF Replace, Places, HandState
  <2>8. CASE StoreTask(t)
    BY <1>2, <2>8 DEF StoreTask, Publishing
  <2> QED
    BY <2>3, <2>4, <2>5, <2>6, <2>7, <2>8 DEF Ticking
<1>6. phase = "serving" \/ hand[t].step # "idle"
  BY DEF Ticking, NoMoreTicks, SkipEnded, BeginTick, WriteStatus, Complete, EndTick, Raise, CreateTask, Replace, StoreTask, Pass
<1>7. phase \notin {"import", "subscribe"} /\ (t \in Workers => phase = "serving")
  BY <1>2, <1>6, MainAlone DEF Places
<1>8. Places'
  BY <1>1, <1>2, <1>4, <1>5, <1>7, Who DEF Places, Free
<1>9. ASSUME Halted, ~ underway
      PROVE  hand'[Loop].step \in {"sleep", "ended"}
  <2>1. hand[Loop].step \in {"sleep", "ended"} /\ ~ running /\ phase # "serving"
    BY <1>2, <1>9 DEF Rests, Halted
  <2>2. CASE t # Loop
    BY <1>4, <2>1, <2>2, Who
  <2>3. CASE t = Loop
    <3>1. Pass
      BY <2>1, <2>3 DEF Ticking, NoMoreTicks, SkipEnded, BeginTick, WriteStatus, Complete, EndTick, Raise, CreateTask, Replace, StoreTask
    <3> QED
      BY <1>2, <2>1, <2>3, <3>1 DEF Pass, HandState
  <2> QED
    BY <2>2, <2>3
<1>10. Rests'
  BY <1>1, <1>2, <1>9 DEF Rests, Halted
<1> QED
  BY <1>3, <1>8, <1>10

-----------------------------------------------------------------------------
(* The main thread. *)

\* It enters the adapter to start it and to subscribe.
LEMMA MainEnters ==
  ASSUME IInv, NEW what \in {"start", "subscribe"}, NEW topic, Enter(Main, what, topic),
         what = "subscribe" => topic \in SubTopics,
         phase \in {"import", "subscribe"}, phase' = "subscribe", todo' \in Seq(SubTopics),
         hand' = hand, running' = running, underway' = underway
  PROVE  Roles' /\ Places' /\ Tuned' /\ Rests' /\ Settles'
<1>1. TypeOK /\ DdsTypeOK /\ Roles /\ Places /\ Tuned /\ Rests /\ Settles /\ \A u \in Threads : CallFits(u)
  BY DEF IInv, TypeOK, Roles
<1>2. /\ \A u \in Threads \ {Main} : call'[u] = call[u]
      /\ call'[Main].what \in {None, what}
      /\ call'[Main].step = IF ~ started THEN "create" ELSE IF what = "start" THEN "none" ELSE "topic"
      /\ CallFits(Main)'
  BY <1>1, EnterCall, Who
<1>3. UNCHANGED <<started, dp, dds, pub, sub, alive, links>>
  BY DEF Enter, adapter, middleware
<1>4. \A u \in Tickers : call'[u] = call[u] /\ call'[u].step = "none"
  BY <1>1, <1>2, MainAlone, Who
<1>5. Roles'
  BY <1>1, <1>2, <1>4, Who DEF Roles, CallFits, Free
<1>6. Places'
  BY <1>1, <1>4 DEF Places, Free
<1>7. Tuned'
  <2>1. sub # {} => started
    BY <1>1 DEF Tuned, Serves
  <2>2. sub # {} => \A u \in Threads : call'[u].step \notin Starting
    BY <1>2, <1>4, <2>1, Who DEF Starting
  <2> QED
    BY <1>1, <1>2, <1>3, <2>1, <2>2 DEF Tuned, Serves, LinkOn, Starting
<1>8. Rests'
  BY <1>1 DEF Rests, Halted
<1>9. Settles'
  <2>1. ASSUME ~ raced', ~ underway'
        PROVE  InUse' /\ Orderly'
    <3>1. Orderly
      BY <1>1, <2>1 DEF Enter, Settles, InUse, Serves
    <3>2. Orderly'
      BY <1>1, <2>1, <3>1, OrderlyEnter, Who
    <3> QED
      BY <3>2 DEF InUse, Serves
  <2> QED
    BY <2>1 DEF Settles
<1> QED
  BY <1>5, <1>6, <1>7, <1>8, <1>9

LEMMA Orders ==
  /\ ShutdownOrder # <<>> /\ <<"adapter">> # <<>> /\ ShutdownOrder # <<"adapter">>
  /\ Head(ShutdownOrder) = "loop" /\ Tail(ShutdownOrder) = <<"adapter">>
  /\ Head(<<"adapter">>) = "adapter" /\ Tail(<<"adapter">>) = <<>>
BY DEF ShutdownOrder

LEMMA MainKeeps ==
  ASSUME IInv, Import \/ Subscribe \/ StartLoop \/ Shutdown \/ StopLoop \/ StopAdapter \/ Stopped
  PROVE  Roles' /\ Places' /\ Tuned' /\ Rests' /\ Settles'
<1>1. /\ TypeOK /\ DdsTypeOK /\ Roles /\ Places /\ Tuned /\ Rests /\ Settles
      /\ hand \in [Tickers -> HandState] /\ call \in [Threads -> CallState]
  BY DEF IInv, TypeOK, DdsTypeOK
<1>2. CASE Import
  <2>1. todo' \in Seq(SubTopics)
    BY <1>2, ServiceAssumption DEF Import
  <2> QED
    BY <1>2, <2>1, MainEnters DEF Import
<1>3. CASE Subscribe
  <2>1. Head(todo) \in SubTopics /\ Tail(todo) \in Seq(SubTopics)
    BY <1>1, <1>3 DEF Subscribe, Places
  <2> QED
    BY <1>3, <2>1, MainEnters DEF Subscribe
<1>4. CASE StartLoop
  <2>1. UNCHANGED <<started, dp, dds, pub, sub, alive, links, call, raced>>
    BY <1>4 DEF StartLoop, ddsVars, adapter, middleware
  <2>2. phase = "subscribe" /\ phase' = "serving" /\ Free(Main) /\ underway' = underway
    BY <1>4 DEF StartLoop
  <2>3. \A u \in Tickers : Free(u) /\ hand'[u].step \notin Publishing
    BY <1>1, <1>4, <2>2, MainAlone, Who DEF StartLoop, Places, HandState, Publishing
  <2>4. Roles'
    BY <1>1, <2>1, <2>2 DEF Roles, CallFits, Free
  <2>5. Places'
    BY <2>1, <2>2, <2>3, Who DEF Places, Free
  <2>6. Tuned'
    BY <1>1, <2>1, <2>2 DEF Tuned, Serves, LinkOn
  <2>7. Rests'
    BY <1>1, <2>2 DEF Rests, Halted
  <2>8. InUse /\ InUse' /\ (Orderly => Orderly')
    BY <2>1, <2>2 DEF InUse, Serves, Orderly, LinkOn
  <2> QED
    BY <1>1, <2>1, <2>2, <2>4, <2>5, <2>6, <2>7, <2>8 DEF Settles
<1>5. CASE Shutdown
  <2>1. UNCHANGED <<started, dp, dds, pub, sub, alive, links, call, raced, hand, underway, running>>
    BY <1>5 DEF Shutdown, ddsVars, adapter, middleware
  <2>2. phase = "serving" /\ phase' = "stopping" /\ todo' = ShutdownOrder /\ \A w \in Workers : hand[w].step = "idle"
    BY <1>5 DEF Shutdown
  <2>3. Free(Main)
    BY <1>1, <2>2 DEF Roles
  <2>4. Roles'
    BY <1>1, <2>1, <2>2, <2>3 DEF Roles, CallFits, Free, Outside
  <2>5. Places'
    BY <1>1, <2>1, <2>2 DEF Places, Free
  <2>6. Tuned'
    BY <2>2 DEF Tuned, Serves
  <2>7. Rests'
    BY <1>1, <2>1, <2>2 DEF Rests, Halted
  <2>8. InUse /\ InUse' /\ (Orderly => Orderly')
    BY <2>1, <2>2, Orders DEF InUse, Serves, Orderly, LinkOn
  <2> QED
    BY <1>1, <2>1, <2>4, <2>5, <2>6, <2>7, <2>8 DEF Settles
<1>6. CASE StopLoop
  <2>1. UNCHANGED <<started, dp, dds, pub, sub, alive, links, call, raced, hand>>
    BY <1>6 DEF StopLoop, ddsVars, adapter, middleware
  <2>2. phase = "stopping" /\ phase' = "stopping" /\ Free(Main) /\ ~ running' /\ underway' = (hand[Loop].step # "sleep")
    BY <1>6 DEF StopLoop
  <2>3. todo = ShutdownOrder /\ todo' = <<"adapter">>
    BY <1>1, <1>6, Orders DEF StopLoop, Places
  <2>4. Roles'
    BY <1>1, <2>1, <2>2 DEF Roles, CallFits, Free, Outside
  <2>5. Places'
    BY <1>1, <2>1, <2>2, <2>3 DEF Places, Free
  <2>6. Tuned'
    BY <2>2 DEF Tuned, Serves
  <2>7. ~ underway
    BY <1>1, <2>2, <2>3 DEF Rests, Halted
  <2>8. Rests'
    BY <2>1, <2>2, <2>3, Orders DEF Rests, Halted
  <2>9. InUse /\ InUse' /\ (Orderly => Orderly')
    BY <2>1, <2>2, <2>3, Orders DEF InUse, Serves, Orderly, LinkOn
  <2> QED
    BY <1>1, <2>1, <2>4, <2>5, <2>6, <2>7, <2>8, <2>9 DEF Settles
<1>7. CASE StopAdapter
  <2>1. UNCHANGED <<started, dp, dds, pub, sub, alive, links, raced, hand, running, underway>>
    BY <1>7 DEF StopAdapter, EnterStop, adapter, middleware
  <2>2. phase = "stopping" /\ phase' = "stopping" /\ Free(Main) /\ todo = <<"adapter">> /\ todo' = <<>>
    BY <1>1, <1>7, Orders DEF StopAdapter, EnterStop, Places
  <2>3. /\ \A u \in Threads \ {Main} : call'[u] = call[u]
        /\ call[Main].what = None /\ call[Main].step = "none"
        /\ IF started THEN call'[Main].step = "delete" /\ call'[Main].what = None
           ELSE call'[Main] = call[Main]
    BY <1>1, <1>7, <2>2, Who DEF StopAdapter, EnterStop, Free, Outside, CallState
  <2>4. None \notin {"start", "publish", "subscribe"}
    BY ServiceAssumption
  <2>5. Roles'
    <3>1. CallFits(Main)'
      BY <1>1, <2>3, <2>4, Who DEF CallFits, Starting, Roles
    <3>2. \A u \in Threads : CallFits(u)'
      BY <1>1, <2>3, <3>1 DEF Roles, CallFits
    <3> QED
      BY <1>1, <2>2, <2>3, <3>2, Who DEF Roles
  <2>6. Places'
    BY <1>1, <2>1, <2>2, <2>3, Who DEF Places, Free
  <2>7. Tuned'
    BY <2>2 DEF Tuned, Serves
  <2>8. Rests'
    BY <1>1, <2>1, <2>2, Orders DEF Rests, Halted
  <2>9. ASSUME ~ raced', ~ underway'
        PROVE  IF InUse' THEN Orderly' ELSE links' = {}
    <3>1. Orderly
      BY <1>1, <2>1, <2>2, <2>9, Orders DEF Settles, InUse
    <3>2. CASE started
      <4>1. InUse'
        BY <2>2, <2>3, <3>2 DEF InUse
      <4>2. \A u \in Threads : u = Main \/ call'[u] = call[u]
        BY <2>3
      <4>3. call'[Main].step \notin Starting \cup {"open", "mark", "note", "write"}
        BY <2>3, <3>2 DEF Starting
      <4>4. Orderly'
        BY <2>1, <3>1, <3>2, <4>2, <4>3 DEF Orderly, LinkOn, Starting
      <4> QED
        BY <4>1, <4>4, Zenon
    <3>3. CASE ~ started
      <4>1. ~ InUse'
        BY <2>2, <2>3, <3>3 DEF InUse, Serves
      <4>2. links' = {}
        BY <2>1, <3>1, <3>3 DEF Orderly
      <4> QED
        BY <4>1, <4>2, Zenon
    <3> QED
      BY <3>2, <3>3
  <2> QED
    BY <2>5, <2>6, <2>7, <2>8, <2>9 DEF Settles
<1>8. CASE Stopped
  <2>1. UNCHANGED <<started, dp, dds, pub, sub, alive, links, call, raced, hand, running, underway>>
    BY <1>8 DEF Stopped, ddsVars, adapter, middleware
  <2>2. phase = "stopping" /\ phase' = "stopped" /\ Free(Main) /\ todo = <<>>
    BY <1>8 DEF Stopped
  <2>3. Roles'
    BY <1>1, <2>1, <2>2 DEF Roles, CallFits, Free, Outside
  <2>4. Places'
    BY <1>1, <2>1, <2>2 DEF Places, Free
  <2>5. Tuned'
    BY <2>2 DEF Tuned, Serves
  <2>6. Rests'
    BY <1>1, <2>1, <2>2, Orders DEF Rests, Halted
  <2>7. ~ InUse /\ ~ InUse'
    BY <2>2 DEF InUse, Serves, Free, Outside
  <2> QED
    BY <1>1, <2>1, <2>3, <2>4, <2>5, <2>6, <2>7 DEF Settles
<1> QED
  BY <1>2, <1>3, <1>4, <1>5, <1>6, <1>7, <1>8

-----------------------------------------------------------------------------
(* The theorems. *)

LEMMA Initially == Init => IInv
<1> SUFFICES ASSUME Init PROVE IInv
  OBVIOUS
<1>1. /\ started = FALSE /\ raced = FALSE /\ dp = None /\ dds = None /\ pub = {} /\ sub = {}
      /\ alive = {} /\ links = {} /\ call = [t \in Threads |-> Outside]
      /\ phase = "import" /\ todo = <<>> /\ running = FALSE /\ underway = FALSE
      /\ hand = [t \in Tickers |-> Idle]
  BY DEF Init, DdsInit
<1>2. DdsTypeOK
  <2>1. started \in BOOLEAN /\ raced \in BOOLEAN
    BY <1>1, Zenon
  <2> QED
    BY <1>1, <2>1, Nothing DEF DdsTypeOK
<1>3. TypeOK
  <2>1. running \in BOOLEAN /\ underway \in BOOLEAN
    BY <1>1, Zenon
  <2>2. hand \in [Tickers -> HandState]
    BY <1>1, Nothing
  <2>3. due \in [Task -> BOOLEAN]
    BY Zenon DEF Init
  <2>4. status \in [Task -> {"none", "active", "ended"}] /\ stored \in Seq(Task)
    BY DEF Init
  <2> QED
    BY <1>1, <1>2, <2>1, <2>2, <2>3, <2>4 DEF TypeOK
<1>4. /\ \A t \in Threads : call[t] = Outside
      /\ Outside.step = "none" /\ Outside.what = None /\ Idle.step = "idle"
      /\ \A t \in Tickers : hand[t] = Idle
  BY <1>1 DEF Outside, Idle
<1>5. Roles
  BY <1>1, <1>4, ServiceAssumption, Who DEF Roles, CallFits, Starting
<1>6. Places
  BY <1>1, <1>4, Who DEF Places, Free, Publishing
<1>7. Tuned
  BY <1>1, <1>4, Who DEF Tuned, Starting
<1>8. Rests
  BY <1>1 DEF Rests, Halted
<1>9. InUse /\ Orderly
  BY <1>1, <1>4 DEF InUse, Serves, Orderly, Starting
<1> QED
  BY <1>3, <1>5, <1>6, <1>7, <1>8, <1>9 DEF IInv, Settles

\* Every step of every thread keeps the invariant.
LEMMA Invariant == IInv /\ [Next]_vars => IInv'
<1> SUFFICES ASSUME IInv, [Next]_vars PROVE IInv'
  OBVIOUS
<1>1. TypeOK /\ DdsTypeOK /\ Roles /\ Places /\ Tuned /\ Rests /\ Settles
  BY DEF IInv, TypeOK
<1>2. ASSUME NEW t \in Threads, InAdapter(t)
      PROVE  IInv'
  <2>1. DdsTypeOK'
    BY <1>1, <1>2, DdsType DEF InAdapter, Roles
  <2>2. TypeOK'
    BY <1>1, <1>2, <2>1 DEF InAdapter, TypeOK, life, tasks
  <2> QED
    BY <1>1, <1>2, <2>2, InAdapterPlaces, InAdapterTuned, InAdapterSettles DEF IInv
<1>3. ASSUME NEW t \in Tickers, Tick(t) \/ Ticking(t) \/ (t = Loop /\ Pass)
      PROVE  IInv'
  <2>1. CASE Publish(t)
    BY <1>1, <2>1, PublishType, PublishKeeps DEF IInv
  <2>2. CASE Ticking(t) \/ (t = Loop /\ Pass)
    BY <1>1, <2>2, TickType, TickKeeps DEF IInv
  <2> QED
    BY <1>3, <2>1, <2>2 DEF Tick, Ticking
<1>4. CASE Import \/ Subscribe \/ StartLoop \/ Shutdown \/ StopLoop \/ StopAdapter \/ Stopped
  BY <1>1, <1>4, MainType, MainKeeps DEF IInv
<1>5. ASSUME Elapse \/ UNCHANGED vars
      PROVE  IInv'
  <2>1. TypeOK'
    <3>1. CASE Elapse
      BY <1>1, <3>1, ElapseType
    <3>2. CASE UNCHANGED vars
      BY <1>1, <3>2 DEF vars, ddsVars, adapter, middleware, life, tasks, TypeOK, DdsTypeOK
    <3> QED
      BY <1>5, <3>1, <3>2
  <2>2. ddsVars' = ddsVars /\ UNCHANGED <<phase, todo, running, underway, hand, call>>
    BY <1>5 DEF Elapse, vars, life, ddsVars
  <2>3. Places' /\ Rests'
    BY <1>1, <2>2 DEF Places, Rests, Halted, Free
  <2> QED
    BY <1>1, <2>1, <2>2, <2>3, Untouched DEF IInv
<1>6. ASSUME NEW w \in Workers, CreateTask(w) \/ WorkerStep(w)
      PROVE  IInv'
  BY <1>2, <1>3, <1>6, Who DEF WorkerStep, Ticking
<1>7. ASSUME LoopStep
      PROVE  IInv'
  BY <1>2, <1>3, <1>7, Who DEF LoopStep
<1>8. ASSUME MainStep
      PROVE  IInv'
  BY <1>2, <1>4, <1>8, Who DEF MainStep
<1> QED
  BY <1>4, <1>5, <1>6, <1>7, <1>8 DEF Next

THEOREM AlwaysIInv == Spec => []IInv
<1>1. Init => IInv
  BY Initially
<1>2. IInv /\ [Next]_vars => IInv'
  BY Invariant
<1> QED
  BY <1>1, <1>2, PTL DEF Spec

\* The adapter, the lifespan, the loop and the requests keep to their types.
THEOREM TypeCorrect == Spec => []TypeOK
<1>1. IInv => TypeOK
  BY DEF IInv
<1> QED
  BY <1>1, AlwaysIInv, PTL

\* No publication of the loop or of a request ever replaces the interface the
\* service hears through: register_default_subscriptions left the adapter
\* started, and a started adapter is not started again.
THEOREM StaysTunedHolds == Spec => []StaysTuned
<1>1. IInv => StaysTuned
  BY DEF IInv, Tuned, StaysTuned, Serves, LinkOn
<1> QED
  BY <1>1, AlwaysIInv, PTL

\* However often the middleware raised before, what publish writes while the
\* service serves is written on a topic that is declared on the participant in
\* use, unless two threads were in _ensure_started at once.
THEOREM CommandsGoOutHolds == Spec => []CommandsGoOut
<1>1. ASSUME IInv
      PROVE  CommandsGoOut
  <2> SUFFICES ASSUME NEW t \in Tickers, call[t].step = "write", phase = "serving", ~ raced
               PROVE  GoesOut(t)
    BY DEF CommandsGoOut
  <2>1. ~ underway
    BY <1>1 DEF IInv, Rests, Halted
  <2>2. Orderly
    BY <1>1, <2>1 DEF IInv, Settles, InUse, Serves
  <2>3. dds # None /\ LinkOn(call[t].what, call[t].topic) \in links
    BY <2>2, Who DEF Orderly
  <2> QED
    BY <2>3 DEF GoesOut, LinkOf, LinkOn
<1> QED
  BY <1>1, AlwaysIInv, PTL

\* The lifespan stops the loop and then the adapter: if the loop slept when it
\* was told to stop and nobody raced, nothing is published or subscribed when
\* the application has stopped.
THEOREM StopIsQuietHolds == Spec => []StopIsQuiet
<1>1. ASSUME IInv
      PROVE  StopIsQuiet
  BY <1>1 DEF IInv, Settles, StopIsQuiet, InUse, Serves
<1> QED
  BY <1>1, AlwaysIInv, PTL
=============================================================================
