------------------------------ MODULE Service ------------------------------
(***************************************************************************)
(* The service as a whole: how app.py starts and stops it, the decision    *)
(* loop (scheduler/decision_loop.py) that ticks every stored task, the     *)
(* HTTP threads that create tasks and tick them a first time               *)
(* (services/task_service.py), and the DDS adapter all of them publish     *)
(* through.                                                                *)
(*                                                                         *)
(* What a tick computes is left to the modules of the services.  Here it   *)
(* publishes on some topics, it may write an active status, and it may     *)
(* raise: a tracking task whose photo has no directory to go to does, in   *)
(* every tick, before its end conditions are looked at.                    *)
(***************************************************************************)
EXTENDS DdsAdapter, Naturals, Sequences

CONSTANTS
  Task,
  Faulty,        \* the tasks whose ticks may raise
  Main, Loop,
  Workers,       \* the threads of the HTTP pool
  Subscriptions  \* the topics in the order they are subscribed

ASSUME ServiceAssumption ==
  /\ Main # Loop /\ {Main, Loop} \cap Workers = {}
  /\ Threads = {Main, Loop} \cup Workers
  /\ Faulty \subseteq Task
  /\ PubTopics \cap SubTopics = {}
  /\ None \notin Participant \cup Interface \cup Task \cup PubTopics \cup SubTopics
  /\ None \notin {"start", "publish", "subscribe"}
  /\ Subscriptions \in Seq(SubTopics)

VARIABLES
  phase,     \* of the application, as its lifespan goes
  todo,      \* what the main thread does next
  running,   \* _running of the decision loop
  stored,    \* the tasks of the store, in the order they were stored
  status,
  due,       \* whether the duration of a task has elapsed
  hand,      \* what the loop and the HTTP threads are doing
  underway   \* history: whether a pass was under way when the loop was stopped

life == <<phase, todo, running, underway>>
tasks == <<stored, status, due>>
vars == <<ddsVars, life, tasks, hand>>

Tickers == {Loop} \cup Workers

\* step; the task being ticked or created; the tasks still to tick or replace;
\* the topics the handler may still publish on.
Idle == [step |-> "idle", task |-> None, queue |-> <<>>, rest |-> {}]

-----------------------------------------------------------------------------
(* The main thread: lifespan, after the import of the collaboration service *)
(* has started the adapter.                                                 *)

Import ==
  /\ phase = "import"
  /\ phase' = "subscribe"
  /\ todo' = Subscriptions
  /\ Enter(Main, "start", None)
  /\ UNCHANGED <<running, underway, tasks, hand>>

\* register_default_subscriptions
Subscribe ==
  /\ phase = "subscribe"
  /\ todo # <<>>
  /\ todo' = Tail(todo)
  /\ Enter(Main, "subscribe", Head(todo))
  /\ UNCHANGED <<phase, running, underway, tasks, hand>>

\* decision_loop.start
StartLoop ==
  /\ phase = "subscribe"
  /\ todo = <<>>
  /\ Free(Main)
  /\ phase' = "serving"
  /\ running' = TRUE
  /\ hand' = [hand EXCEPT ![Loop].step = "sleep"]
  /\ UNCHANGED <<todo, underway, tasks, ddsVars>>

\* mutant: the adapter is stopped first
AdapterFirst == <<"adapter", "loop">>

ShutdownOrder == <<"loop", "adapter">>

\* The server ends the lifespan when its requests are answered.
Shutdown ==
  /\ phase = "serving"
  /\ \A w \in Workers : hand[w].step = "idle"
  /\ phase' = "stopping"
  /\ todo' = ShutdownOrder
  /\ UNCHANGED <<running, underway, tasks, hand, ddsVars>>

\* decision_loop.stop: the thread is not waited for.
StopLoop ==
  /\ phase = "stopping"
  /\ todo # <<>> /\ Head(todo) = "loop"
  /\ Free(Main)
  /\ todo' = Tail(todo)
  /\ running' = FALSE
  /\ underway' = (hand[Loop].step # "sleep")
  /\ UNCHANGED <<phase, tasks, hand, ddsVars>>

StopAdapter ==
  /\ phase = "stopping"
  /\ todo # <<>> /\ Head(todo) = "adapter"
  /\ todo' = Tail(todo)
  /\ EnterStop(Main)
  /\ UNCHANGED <<phase, running, underway, tasks, hand>>

Stopped ==
  /\ phase = "stopping"
  /\ todo = <<>>
  /\ Free(Main)
  /\ phase' = "stopped"
  /\ UNCHANGED <<todo, running, underway, tasks, hand, ddsVars>>

-----------------------------------------------------------------------------
(* The decision loop: _run. *)

Pass ==
  /\ hand[Loop].step = "sleep"
  /\ hand' = IF running THEN [hand EXCEPT ![Loop].step = "next", ![Loop].queue = stored]
             ELSE [hand EXCEPT ![Loop].step = "ended"]
  /\ UNCHANGED <<life, tasks, ddsVars>>

\* What a thread does when it has no task left to tick.
AfterTicks(t) == [Idle EXCEPT !.step = IF t = Loop THEN "sleep" ELSE "idle"]

NoMoreTicks(t) ==
  /\ hand[t].step = "next"
  /\ hand[t].queue = <<>>
  /\ hand' = [hand EXCEPT ![t] = AfterTicks(t)]
  /\ UNCHANGED <<life, tasks, ddsVars>>

\* tick_task, of the loop and of create_task: an ended task is left alone.
SkipEnded(t) ==
  /\ hand[t].step = "next"
  /\ hand[t].queue # <<>>
  /\ status[Head(hand[t].queue)] = "ended"
  /\ hand' = [hand EXCEPT ![t].queue = Tail(@)]
  /\ UNCHANGED <<life, tasks, ddsVars>>

BeginTick(t) ==
  /\ hand[t].step = "next"
  /\ hand[t].queue # <<>>
  /\ status[Head(hand[t].queue)] # "ended"
  /\ hand' = [hand EXCEPT ![t] = [step |-> "tick", task |-> Head(hand[t].queue),
                                  queue |-> Tail(hand[t].queue), rest |-> PubTopics]]
  /\ UNCHANGED <<life, tasks, ddsVars>>

\* A tick that began before its task ended writes an active status after.
WriteStatus(t) ==
  /\ hand[t].step = "tick"
  /\ Free(t)
  /\ status[hand[t].task] = "ended"
  /\ status' = [status EXCEPT ![hand[t].task] = "active"]
  /\ UNCHANGED <<stored, due, life, hand, ddsVars>>

\* The steps within which a handler publishes: updates, requests and commands of
\* a tick, of the end of its task, or of the end of a task that is replaced.
Publishing == {"tick", "finish", "replace"}

Publish(t) ==
  /\ hand[t].step \in Publishing
  /\ \E topic \in hand[t].rest :
       /\ Enter(t, "publish", topic)
       /\ hand' = [hand EXCEPT ![t].rest = @ \ {topic}]
  /\ UNCHANGED <<life, tasks>>

\* The end conditions, which a tick gets to if nothing raised. What the optics
\* are told of the end goes out after it.
Complete(t) ==
  /\ hand[t].step = "tick"
  /\ Free(t)
  /\ due[hand[t].task]
  /\ status' = [status EXCEPT ![hand[t].task] = "ended"]
  /\ hand' = [hand EXCEPT ![t].step = "finish"]
  /\ UNCHANGED <<stored, due, life, ddsVars>>

EndTick(t) ==
  /\ \/ hand[t].step = "finish"
     \/ hand[t].step = "tick" /\ ~ due[hand[t].task]
  /\ Free(t)
  /\ hand' = [hand EXCEPT ![t].step = "next", ![t].task = None, ![t].rest = {}]
  /\ UNCHANGED <<tasks, life, ddsVars>>

\* mutant: the exception ends the thread of the loop
RaiseOut(t) ==
  /\ hand[t].step = "tick"
  /\ Free(t)
  /\ hand[t].task \in Faulty
  /\ hand' = [hand EXCEPT ![t] = [Idle EXCEPT !.step = IF t = Loop THEN "ended" ELSE "idle"]]
  /\ UNCHANGED <<life, tasks, ddsVars>>

\* The tick raises: the rest of the pass is skipped, and the caller of
\* create_task gets an error although its task is stored.
Raise(t) ==
  /\ hand[t].step = "tick"
  /\ Free(t)
  /\ hand[t].task \in Faulty
  /\ hand' = [hand EXCEPT ![t] = AfterTicks(t)]
  /\ UNCHANGED <<life, tasks, ddsVars>>

-----------------------------------------------------------------------------
(* HTTP threads: create_task. *)

\* A new id; the tasks to replace are read from the store.
CreateTask(t) ==
  /\ phase = "serving"
  /\ hand[t].step = "idle"
  /\ \E k \in Task :
       /\ status[k] = "none"
       /\ \A w \in Workers : hand[w].task # k
       /\ hand' = [hand EXCEPT ![t] = [step |-> "replace", task |-> k, queue |-> stored, rest |-> {}]]
  /\ UNCHANGED <<life, tasks, ddsVars>>

\* A task that is active is ended, and what the optics are told of it goes out
\* after that; another is passed over.
Replace(t) ==
  LET k == Head(hand[t].queue)  active == status[k] = "active"  IN
  /\ hand[t].step = "replace"
  /\ Free(t)
  /\ hand[t].queue # <<>>
  /\ status' = IF active THEN [status EXCEPT ![k] = "ended"] ELSE status
  /\ hand' = [hand EXCEPT ![t].queue = Tail(@),
                          ![t].rest = IF active THEN PubTopics ELSE {}]
  /\ UNCHANGED <<stored, due, life, ddsVars>>

\* The task is stored, and then ticked for the first time.
StoreTask(t) ==
  /\ hand[t].step = "replace"
  /\ Free(t)
  /\ hand[t].queue = <<>>
  /\ stored' = Append(stored, hand[t].task)
  /\ status' = [status EXCEPT ![hand[t].task] = "active"]
  /\ hand' = [hand EXCEPT ![t] = [step |-> "next", task |-> None, queue |-> <<hand[t].task>>, rest |-> {}]]
  /\ UNCHANGED <<due, life, ddsVars>>

\* The clock.
Elapse ==
  /\ \E k \in Task : status[k] = "active" /\ ~ due[k] /\ due' = [due EXCEPT ![k] = TRUE]
  /\ UNCHANGED <<stored, status, life, hand, ddsVars>>

-----------------------------------------------------------------------------
Init ==
  /\ DdsInit
  /\ phase = "import" /\ todo = <<>>
  /\ running = FALSE /\ underway = FALSE
  /\ stored = <<>>
  /\ status = [k \in Task |-> "none"]
  /\ due = [k \in Task |-> FALSE]
  /\ hand = [t \in Tickers |-> Idle]

Tick(t) ==
  \/ NoMoreTicks(t) \/ SkipEnded(t) \/ BeginTick(t)
  \/ WriteStatus(t) \/ Publish(t) \/ Complete(t) \/ EndTick(t) \/ Raise(t)

InAdapter(t) == DdsStep(t) /\ UNCHANGED <<life, tasks, hand>>

\* What each thread does of itself.
MainStep == Import \/ Subscribe \/ StartLoop \/ StopLoop \/ StopAdapter \/ Stopped \/ InAdapter(Main)
LoopStep == Pass \/ Tick(Loop) \/ InAdapter(Loop)
WorkerStep(w) == Replace(w) \/ StoreTask(w) \/ Tick(w) \/ InAdapter(w)

Next ==
  \/ MainStep \/ LoopStep \/ Shutdown \/ Elapse
  \/ \E w \in Workers : CreateTask(w) \/ WorkerStep(w)

Spec == Init /\ [][Next]_vars
FairSpec == Spec /\ WF_vars(MainStep) /\ WF_vars(LoopStep) /\ \A w \in Workers : WF_vars(WorkerStep(w))

-----------------------------------------------------------------------------
(* Properties. *)

HandState == [step : {"idle", "sleep", "next", "tick", "finish", "replace", "ended"},
              task : Task \cup {None}, queue : Seq(Task), rest : SUBSET PubTopics]

\* The type of every variable.
TypeOK ==
  /\ DdsTypeOK
  /\ phase \in {"import", "subscribe", "serving", "stopping", "stopped"}
  /\ todo \in Seq(SubTopics \cup {"loop", "adapter"})
  /\ running \in BOOLEAN /\ underway \in BOOLEAN
  /\ status \in [Task -> {"none", "active", "ended"}]
  /\ due \in [Task -> BOOLEAN]
  /\ stored \in Seq(Task)
  /\ hand \in [Tickers -> HandState]

\* Whatever the middleware refused before, what is written goes out, unless two
\* threads started the adapter at once: then a topic may be declared on the
\* participant that was replaced, and nothing on it goes out any more.
CommandsGoOut ==
  \A t \in Tickers : call[t].step = "write" /\ phase = "serving" /\ ~ raced => GoesOut(t)

\* The topics that were subscribed are heard as long as the service runs: no
\* publication ever replaces the interface they are subscribed on. A service
\* whose adapter starts only after the subscriptions stays deaf.
StaysTuned ==
  phase = "serving" =>
    \A topic \in sub : dds # None /\ [what |-> "subscribe", dds |-> dds, topic |-> topic] \in links

\* When the application has stopped the service neither publishes nor hears, if
\* no pass was under way when the loop was stopped and nobody raced. A start
\* that failed halfway leaves its participant, on which there is no topic.
StopIsQuiet == phase = "stopped" /\ ~ underway /\ ~ raced => links = {}

\* The tasks stored before k, and k.
UpTo(k) == {stored[i] : i \in {i \in DOMAIN stored : \E j \in i .. Len(stored) : stored[j] = k}}

\* A task whose duration elapsed ends, its creation answered by an error or
\* not, unless its own ticks or those of a task stored before it keep raising.
DueTaskEnds ==
  \A k \in Task :
    \/ []<>(phase # "serving" \/ ~ (status[k] = "active" /\ due[k]))
    \/ []<><<\E j \in UpTo(k) : hand[Loop].task = j /\ Raise(Loop)>>_vars
=============================================================================
