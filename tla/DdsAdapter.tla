----------------------------- MODULE DdsAdapter -----------------------------
(***************************************************************************)
(* The adapter between the service and the LJDDS middleware                *)
(* (adapters/dds/real_adapter.py): it is started by whoever needs it       *)
(* first, declares a topic when something is first published on it, and    *)
(* swallows every failure of the middleware.  It has no lock; the decision *)
(* loop, the HTTP threads and the main thread call it.                     *)
(*                                                                         *)
(* The middleware is external: a call into it succeeds or raises, except   *)
(* the deletions of stop, which are taken to succeed.  Which payload goes  *)
(* out on a topic does not matter here.                                    *)
(***************************************************************************)
CONSTANTS
  Threads,
  Participant,  \* the participants the middleware can create
  PubTopics,    \* topics the service publishes
  SubTopics,    \* topics it subscribes
  None

VARIABLES
  started,   \* _started
  dp,        \* _dp
  dds,       \* _dds: an interface, told by its participant and who made it
  pub,       \* _pub_topics
  sub,       \* _sub_topics
  alive,     \* the participants that exist in the middleware
  links,     \* the topics published or subscribed, by interface
  call,      \* where each thread is inside the adapter
  raced      \* history: whether two threads were starting the adapter at once

adapter == <<started, dp, dds, pub, sub>>
middleware == <<alive, links>>
ddsVars == <<adapter, middleware, call, raced>>

Interface == [on : Participant, by : Threads]
Link == [what : {"publish", "subscribe"}, dds : Interface, topic : PubTopics \cup SubTopics]

Outside == [step |-> "none", what |-> None, topic |-> None]
Free(t) == call[t] = Outside

\* Step goes on within the call; Leave returns to the caller.
Step(t, step) == call' = [call EXCEPT ![t].step = step]
Leave(t) == call' = [call EXCEPT ![t] = Outside]

Starting == {"create", "open", "mark"}

\* What follows _ensure_started.
Proceed(t, what) ==
  IF what = "start" THEN Leave(t) ELSE call' = [call EXCEPT ![t].step = "topic"]

\* publish, subscribe and start begin with _ensure_started, which looks at the
\* flag once.
Enter(t, what, topic) ==
  /\ Free(t)
  /\ IF started /\ what = "start" THEN UNCHANGED call
     ELSE call' = [call EXCEPT ![t] =
            [step |-> IF started THEN "topic" ELSE "create", what |-> what, topic |-> topic]]
  /\ raced' = (raced \/ (~ started /\ \E u \in Threads \ {t} : call[u].step \in Starting))
  /\ UNCHANGED <<adapter, middleware>>

\* The middleware raises: the adapter counts as not started, and the call is
\* given up.
StartFails(t) ==
  /\ call[t].step \in {"create", "open"}
  /\ started' = FALSE
  /\ Leave(t)
  /\ UNCHANGED <<dp, dds, pub, sub, middleware, raced>>

\* Which of them the middleware creates next does not matter.
Unused == Participant \ (alive \cup {dp} \cup (IF dds = None THEN {} ELSE {dds.on}))

CreateParticipant(t) ==
  /\ call[t].step = "create"
  /\ Unused # {}
  /\ LET p == CHOOSE p \in Unused : TRUE IN dp' = p /\ alive' = alive \cup {p}
  /\ Step(t, "open")
  /\ UNCHANGED <<started, dds, pub, sub, links, raced>>

CreateInterface(t) ==
  /\ call[t].step = "open"
  /\ dp # None
  /\ dds' = [on |-> dp, by |-> t]
  /\ Step(t, "mark")
  /\ UNCHANGED <<started, dp, pub, sub, middleware, raced>>

\* mutant: nothing remembers that the adapter is started
ForgetStarted(t) ==
  /\ call[t].step = "mark"
  /\ Proceed(t, call[t].what)
  /\ UNCHANGED <<adapter, middleware, raced>>

MarkStarted(t) ==
  /\ call[t].step = "mark"
  /\ started' = TRUE
  /\ Proceed(t, call[t].what)
  /\ UNCHANGED <<dp, dds, pub, sub, middleware, raced>>

Declared(t) == call[t].topic \in (IF call[t].what = "publish" THEN pub ELSE sub)

\* A topic declared before is written at once; it is subscribed only once.
KnownTopic(t) ==
  /\ call[t].step = "topic"
  /\ Declared(t)
  /\ IF call[t].what = "publish" THEN Step(t, "write") ELSE Leave(t)
  /\ UNCHANGED <<adapter, middleware, raced>>

LinkOf(t) == [what |-> call[t].what, dds |-> dds, topic |-> call[t].topic]

\* mutant: the topic is noted although declaring it may fail
DeclareNoted(t) ==
  /\ call[t].step = "topic"
  /\ ~ Declared(t)
  /\ dds # None
  /\ links' \in {links, links \cup {LinkOf(t)}}
  /\ Step(t, "note")
  /\ UNCHANGED <<adapter, alive, raced>>

\* pub_with_profile, sub_with_profile. An interface whose participant is gone
\* has nothing to declare it on.
Declare(t) ==
  /\ call[t].step = "topic"
  /\ ~ Declared(t)
  /\ dds # None
  /\ links' = IF dds.on \in alive THEN links \cup {LinkOf(t)} ELSE links
  /\ Step(t, "note")
  /\ UNCHANGED <<adapter, alive, raced>>

\* The middleware raises, or _dds is None.
DeclareFails(t) ==
  /\ call[t].step = "topic"
  /\ ~ Declared(t)
  /\ Leave(t)
  /\ UNCHANGED <<adapter, middleware, raced>>

\* mutant: subscribe notes its topic among the published ones
NoteAsPublished(t) ==
  /\ call[t].step = "note"
  /\ pub' = pub \cup {call[t].topic}
  /\ IF call[t].what = "publish" THEN Step(t, "write") ELSE Leave(t)
  /\ UNCHANGED <<started, dp, dds, sub, middleware, raced>>

NoteTopic(t) ==
  /\ call[t].step = "note"
  /\ IF call[t].what = "publish"
     THEN pub' = pub \cup {call[t].topic} /\ sub' = sub /\ Step(t, "write")
     ELSE sub' = sub \cup {call[t].topic} /\ pub' = pub /\ Leave(t)
  /\ UNCHANGED <<started, dp, dds, middleware, raced>>

\* Whether what is written now goes out.
GoesOut(t) == dds # None /\ LinkOf(t) \in links

\* write_data: whether it fails or not, the caller goes on.
WriteData(t) ==
  /\ call[t].step = "write"
  /\ Leave(t)
  /\ UNCHANGED <<adapter, middleware, raced>>

-----------------------------------------------------------------------------
(* stop: the middleware first, then the fields. *)

EnterStop(t) ==
  /\ Free(t)
  /\ IF started THEN call' = [call EXCEPT ![t] = [@ EXCEPT !.step = "delete"]] ELSE UNCHANGED call
  /\ UNCHANGED <<adapter, middleware, raced>>

Delete(t) ==
  /\ call[t].step = "delete"
  /\ alive' = alive \ {dp}
  /\ links' = {l \in links : l.dds.on # dp}
  /\ Step(t, "unmark")
  /\ UNCHANGED <<adapter, raced>>

Unmark(t) ==
  /\ call[t].step = "unmark"
  /\ started' = FALSE
  /\ Step(t, "clear")
  /\ UNCHANGED <<dp, dds, pub, sub, middleware, raced>>

Clear(t) ==
  /\ call[t].step = "clear"
  /\ dp' = None /\ dds' = None /\ pub' = {} /\ sub' = {}
  /\ Leave(t)
  /\ UNCHANGED <<started, middleware, raced>>

-----------------------------------------------------------------------------
DdsInit ==
  /\ started = FALSE
  /\ dp = None /\ dds = None
  /\ pub = {} /\ sub = {}
  /\ alive = {} /\ links = {}
  /\ call = [t \in Threads |-> Outside]
  /\ raced = FALSE

\* What a thread does inside the adapter once it has entered.
DdsStep(t) ==
  \/ CreateParticipant(t) \/ CreateInterface(t) \/ StartFails(t) \/ MarkStarted(t)
  \/ KnownTopic(t) \/ Declare(t) \/ DeclareFails(t) \/ NoteTopic(t) \/ WriteData(t)
  \/ Delete(t) \/ Unmark(t) \/ Clear(t)

CallState == [step : Starting \cup {"none", "topic", "note", "write", "delete", "unmark", "clear"},
              what : {None, "start", "publish", "subscribe"},
              topic : PubTopics \cup SubTopics \cup {None}]

DdsTypeOK ==
  /\ started \in BOOLEAN /\ raced \in BOOLEAN
  /\ dp \in Participant \cup {None}
  /\ dds \in Interface \cup {None}
  /\ pub \subseteq PubTopics /\ sub \subseteq SubTopics
  /\ alive \subseteq Participant
  /\ links \subseteq Link
  /\ call \in [Threads -> CallState]
=============================================================================
