---------------------- MODULE ManualInteractionProofs ----------------------
(***************************************************************************)
(* Proofs about ManualInteraction, for any targets, threads and timeout.   *)
(* TypeOK holds whoever ticks; that a request goes out once and that its   *)
(* answer is kept hold when one thread ticks the task: with two, both may  *)
(* publish before either notes it, and the later note wipes an answer to   *)
(* the earlier.                                                            *)
(***************************************************************************)
EXTENDS ManualInteraction, FiniteSetTheorems, TLAPS

-----------------------------------------------------------------------------
(* Types. *)

TickRecord == [at : {"idle", "select", "ask", "note", "expire"},
               of : Request, picked : Target \cup {None}]
AskRecord == [sent : BOOLEAN, pending : BOOLEAN, received : BOOLEAN, left : -1 .. Timeout]

\* What a look selects is a target it saw, the target locked, or none.
LEMMA PickType ==
  ASSUME TypeOK, NEW ranking \in Ranking, NEW picked \in Pick(ranking)
  PROVE  picked \in Target \cup {None}
<1>1. PICK n \in 0 .. Cardinality(Target) : ranking \in [1 .. n -> Target]
  BY DEF Ranking
<1>2. n \in Int
  BY <1>1, ManualAssumption
<1>3. ranking # <<>> => Head(ranking) \in Target
  BY <1>1
<1>4. Named(ranking) \subseteq Target
  BY <1>1 DEF Named
<1> QED
  BY <1>3, <1>4 DEF Pick, TypeOK

LEMMA TypeInit == Init => TypeOK
<1> SUFFICES ASSUME Init PROVE TypeOK
  OBVIOUS
<1>1. Unasked \in AskRecord /\ Idle \in TickRecord
  BY ManualAssumption DEF Unasked, Idle, AskRecord, TickRecord, Request
<1>2. ask \in [Request -> AskRecord] /\ tick \in [Threads -> TickRecord]
  BY <1>1 DEF Init
<1>3. candidates \in Ranking
  <2>1. <<>> \in [1 .. 0 -> Target] /\ 0 \in 0 .. Cardinality(Target)
    BY FS_CardinalityType, ManualAssumption
  <2> QED
    BY <2>1 DEF Init, Ranking
<1>4. active \in BOOLEAN /\ seen \in BOOLEAN
  BY Zenon DEF Init
<1>5. /\ phase = "planning" /\ current = None /\ lock \in Target \cup {None}
      /\ published \in [Request -> 0 .. 2] /\ answered \in [Request -> {"not", "early", "noted"}]
  BY DEF Init
<1> QED
  BY <1>2, <1>3, <1>4, <1>5 DEF TypeOK, AskRecord, TickRecord

\* A request that stops pending, with or without an answer, is still one.
LEMMA Closed ==
  ASSUME NEW a \in AskRecord
  PROVE  /\ [a EXCEPT !.pending = FALSE] \in AskRecord
         /\ [a EXCEPT !.pending = FALSE, !.received = TRUE] \in AskRecord
BY DEF AskRecord

LEMMA Placed ==
  ASSUME NEW asks \in [Request -> AskRecord], NEW r \in Request, NEW a \in AskRecord
  PROVE  [asks EXCEPT ![r] = a] \in [Request -> AskRecord]
OBVIOUS

LEMMA Cleared ==
  ASSUME NEW asks \in [Request -> AskRecord], NEW r \in Request
  PROVE  /\ [asks EXCEPT ![r].pending = FALSE] \in [Request -> AskRecord]
         /\ [asks EXCEPT ![r].pending = FALSE, ![r].received = TRUE] \in [Request -> AskRecord]
<1>1. [asks EXCEPT ![r].pending = FALSE] \in [Request -> AskRecord]
  BY Closed, Placed
<1>2. [[asks EXCEPT ![r].pending = FALSE] EXCEPT ![r].received = TRUE] \in [Request -> AskRecord]
  BY <1>1 DEF AskRecord
<1> QED
  BY <1>1, <1>2

LEMMA TypeStep ==
  ASSUME TypeOK, [Next]_vars
  PROVE  TypeOK'
<1> USE ManualAssumption DEF Request
<1>1. ASSUME NEW t \in Threads, Look(t) PROVE TypeOK'
  <2>0. PICK ranking \in Ranking : \E picked \in Pick(ranking) :
          /\ candidates' = ranking
          /\ tick' = [tick EXCEPT ![t] = [at |-> "select", of |-> "selection", picked |-> picked]]
          /\ seen' = (picked # None)
    BY <1>1 DEF Look
  <2>1. PICK picked \in Pick(ranking) :
          /\ candidates' = ranking
          /\ tick' = [tick EXCEPT ![t] = [at |-> "select", of |-> "selection", picked |-> picked]]
          /\ seen' = (picked # None)
    BY <2>0
  <2>2. picked \in Target \cup {None}
    BY PickType
  <2>3. tick' \in [Threads -> TickRecord]
    BY <2>1, <2>2 DEF TypeOK, TickRecord
  <2>4. seen' \in BOOLEAN
    BY <2>1
  <2> QED
    BY <1>1, <2>1, <2>3, <2>4 DEF Look, TypeOK, TickRecord
<1>2. ASSUME NEW t \in Threads, AwaitTarget(t) \/ Engage(t) PROVE TypeOK'
  <2>1. tick' \in [Threads -> TickRecord]
    BY <1>2 DEF AwaitTarget, Engage, Goto, Idle, TypeOK, TickRecord
  <2>2. active' \in BOOLEAN /\ phase' \in {"patrolling", "engaging"} /\ current' \in Target \cup {None}
    BY <1>2 DEF AwaitTarget, Engage, TypeOK
  <2> QED
    BY <1>2, <2>1, <2>2 DEF AwaitTarget, Engage, TypeOK, TickRecord
<1>3. ASSUME NEW t \in Threads, Publish(t) PROVE TypeOK'
  <2>1. tick' \in [Threads -> TickRecord]
    BY <1>3 DEF Publish, Goto, TypeOK, TickRecord
  <2>2. published' \in [Request -> 0 .. 2] /\ answered' \in [Request -> {"not", "early", "noted"}]
    BY <1>3 DEF Publish, TypeOK
  <2> QED
    BY <1>3, <2>1, <2>2 DEF Publish, task, TypeOK, TickRecord
<1>4. ASSUME NEW t \in Threads, NoRequest(t) PROVE TypeOK'
  <2>1. tick' \in [Threads -> TickRecord]
    BY <1>4 DEF NoRequest, Goto, TypeOK, TickRecord
  <2> QED
    BY <1>4, <2>1 DEF NoRequest, task, TypeOK, TickRecord
<1>5. ASSUME NEW t \in Threads, Note(t) PROVE TypeOK'
  <2>1. tick' \in [Threads -> TickRecord]
    BY <1>5 DEF Note, Goto, TypeOK, TickRecord
  <2>2. ask' \in [Request -> AskRecord]
    BY <1>5 DEF Note, TypeOK, AskRecord
  <2> QED
    BY <1>5, <2>1, <2>2 DEF Note, task, TypeOK, TickRecord, AskRecord
<1>6. ASSUME NEW t \in Threads, Expire(t) PROVE TypeOK'
  <2>1. tick' \in [Threads -> TickRecord]
    BY <1>6 DEF Expire, Onward, Idle, TypeOK, TickRecord
  <2>2. ask' \in [Request -> AskRecord]
    <3>1. ask \in [Request -> AskRecord] /\ tick[t].of \in Request
      BY DEF TypeOK, AskRecord
    <3>2. [ask EXCEPT ![tick[t].of].pending = FALSE] \in [Request -> AskRecord]
      BY <3>1, Cleared
    <3> QED
      BY <1>6, <3>1, <3>2 DEF Expire
  <2> QED
    BY <1>6, <2>1, <2>2 DEF Expire, task, TypeOK, TickRecord, AskRecord
<1>7. ASSUME NEW r \in Request, Answer(r)
      PROVE  ask' \in [Request -> AskRecord] /\ answered' \in [Request -> {"not", "early", "noted"}]
  <2>1. Moment(r) \in {"not", "early", "noted"}
    BY DEF Moment
  <2>2. ask \in [Request -> AskRecord]
    BY DEF TypeOK, AskRecord
  <2>3. ask' \in [Request -> AskRecord]
    BY <1>7, <2>2, Cleared DEF Answer
  <2> QED
    BY <1>7, <2>1, <2>3 DEF Answer, TypeOK
<1>8. ASSUME NEW r \in Request, NEW target \in Target, Choose(r, target) PROVE TypeOK'
  BY <1>7, <1>8 DEF Choose, TypeOK, AskRecord
<1>9. ASSUME Keep PROVE TypeOK'
  <2>1. ask' \in [Request -> AskRecord] /\ answered' \in [Request -> {"not", "early", "noted"}]
    BY <1>7, <1>9 DEF Keep
  <2> QED
    BY <1>9, <2>1 DEF Keep, TypeOK, AskRecord
<1>10. ASSUME End PROVE TypeOK'
  BY <1>10 DEF End, TypeOK
<1>11. ASSUME Elapse PROVE TypeOK'
  <2>1. ask' \in [Request -> AskRecord]
    BY <1>11 DEF Elapse, TypeOK, AskRecord
  <2> QED
    BY <1>11, <2>1 DEF Elapse, task, TypeOK, AskRecord
<1>12. CASE UNCHANGED vars
  BY <1>12 DEF vars, task, TypeOK
<1> QED
  BY <1>1, <1>2, <1>3, <1>4, <1>5, <1>6, <1>8, <1>9, <1>10, <1>11, <1>12 DEF Next, Step

\* Every variable has its type, whatever threads tick the task.
THEOREM TypeCorrect == Spec => []TypeOK
<1>1. TypeOK /\ [Next]_vars => TypeOK'
  BY TypeStep
<1> QED
  BY TypeInit, <1>1, PTL DEF Spec

-----------------------------------------------------------------------------
(* Requests and their answers, with one thread. *)

Noting(t, r) == tick[t].at = "note" /\ tick[t].of = r

\* A request is out exactly when the task has noted it or is about to, and an
\* answer that came after the note stands.
Dialogue(t, r) ==
  /\ Noting(t, r) => ~ ask[r].sent
  /\ published[r] = IF ask[r].sent \/ Noting(t, r) THEN 1 ELSE 0
  /\ answered[r] = "noted" => ask[r].sent /\ ask[r].received /\ ~ ask[r].pending

DInv == TypeOK /\ \A t \in Threads, r \in Request : Dialogue(t, r)

LEMMA DialogueInit == TypeOK /\ Init => DInv
BY DEF Init, DInv, Dialogue, Noting, Idle, Unasked

LEMMA DialogueStep ==
  ASSUME NEW only, Threads = {only}, DInv, [Next]_vars
  PROVE  DInv'
<1> USE DEF DInv
<1>0. TypeOK /\ TypeOK' /\ only \in Threads
  BY TypeStep
<1> SUFFICES ASSUME NEW r \in Request PROVE Dialogue(only, r)'
  BY <1>0
<1>a. Dialogue(only, r)
  OBVIOUS
<1>1. ASSUME ~ Noting(only, r), ~ Noting(only, r)', UNCHANGED <<ask, published, answered>>
      PROVE  Dialogue(only, r)'
  BY <1>1, <1>a DEF Dialogue
<1>2. ASSUME NEW t \in Threads, Look(t) \/ AwaitTarget(t) \/ Engage(t) \/ NoRequest(t)
      PROVE  Dialogue(only, r)'
  BY <1>2, <1>1, <1>0 DEF Look, AwaitTarget, Engage, NoRequest, Goto, Idle, Noting, TypeOK
<1>3. ASSUME NEW t \in Threads, Publish(t) PROVE Dialogue(only, r)'
  <2>1. /\ tick[only].at = "ask" /\ tick'[only].at = "note" /\ tick'[only].of = tick[only].of
        /\ ask' = ask /\ ~ ask[tick[only].of].sent
    BY <1>3, <1>0 DEF Publish, Goto, Wants, TypeOK
  <2>2. r = tick[only].of => published'[r] = (IF published[r] < 2 THEN published[r] + 1 ELSE 2)
                             /\ answered'[r] = "not"
    BY <1>3, <1>0 DEF Publish, TypeOK
  <2>3. r # tick[only].of => published'[r] = published[r] /\ answered'[r] = answered[r]
    BY <1>3, <1>0 DEF Publish, TypeOK
  <2> QED
    BY <2>1, <2>2, <2>3, <1>a DEF Dialogue, Noting
<1>4. ASSUME NEW t \in Threads, Note(t) PROVE Dialogue(only, r)'
  <2>1. /\ tick[only].at = "note" /\ tick'[only].at = "expire"
        /\ UNCHANGED <<published, answered>>
    BY <1>4, <1>0 DEF Note, Goto, TypeOK
  <2>2. IF r = tick[only].of THEN ask'[r].sent ELSE ask'[r] = ask[r]
    BY <1>4, <1>0 DEF Note, TypeOK
  <2> QED
    BY <2>1, <2>2, <1>a DEF Dialogue, Noting
<1>5. ASSUME NEW t \in Threads, Expire(t) PROVE Dialogue(only, r)'
  <2>1. /\ ~ Noting(only, r) /\ ~ Noting(only, r)' /\ UNCHANGED <<published, answered>>
    BY <1>5, <1>0 DEF Expire, Onward, Idle, Noting, TypeOK
  <2>2. /\ ask'[r].sent = ask[r].sent /\ ask'[r].received = ask[r].received
        /\ ~ ask[r].pending => ~ ask'[r].pending
    BY <1>5, <1>0 DEF Expire, TypeOK
  <2> QED
    BY <2>1, <2>2, <1>a DEF Dialogue
<1>6. ASSUME NEW q \in Request, Answer(q), UNCHANGED <<tick, published>>
      PROVE  Dialogue(only, r)'
  <2>1. /\ ask'[r].sent = ask[r].sent
        /\ r = q => ask'[r].received /\ ~ ask'[r].pending /\ answered'[r] = Moment(r)
        /\ r # q => ask'[r] = ask[r] /\ answered'[r] = answered[r]
    BY <1>6, <1>0 DEF Answer, TypeOK
  <2>2. Moment(r) = "noted" => ask[r].sent
    BY DEF Moment
  <2> QED
    BY <2>1, <2>2, <1>6, <1>a DEF Dialogue, Noting
<1>7. ASSUME NEW q \in Request, NEW target \in Target, Choose(q, target)
      PROVE  Dialogue(only, r)'
  BY <1>6, <1>7 DEF Choose
<1>8. ASSUME Keep PROVE Dialogue(only, r)'
  BY <1>6, <1>8 DEF Keep, Request
<1>9. ASSUME Elapse PROVE Dialogue(only, r)'
  <2>1. /\ ask'[r].sent = ask[r].sent /\ ask'[r].received = ask[r].received
        /\ ask'[r].pending = ask[r].pending /\ UNCHANGED <<tick, published, answered>>
    BY <1>9, <1>0 DEF Elapse, TypeOK
  <2> QED
    BY <2>1, <1>a DEF Dialogue, Noting
<1>10. ASSUME End \/ UNCHANGED vars PROVE Dialogue(only, r)'
  BY <1>10, <1>a DEF End, vars, task, Dialogue, Noting
<1> QED
  BY <1>2, <1>3, <1>4, <1>5, <1>7, <1>8, <1>9, <1>10 DEF Next, Step

LEMMA Dialogues ==
  ASSUME NEW CONSTANT only, Threads = {only}
  PROVE  Spec => []DInv
<1>1. Init => DInv
  BY TypeInit, DialogueInit
<1>2. DInv /\ [Next]_vars => DInv'
  BY DialogueStep
<1> QED
  BY <1>1, <1>2, PTL DEF Spec

\* Each request goes out once at most in the life of a task.
THEOREM OneRequestHolds ==
  ASSUME NEW CONSTANT only, Threads = {only}
  PROVE  Spec => []OneRequest
<1>1. DInv => OneRequest
  BY DEF DInv, Dialogue, OneRequest
<1> QED
  BY Dialogues, <1>1, PTL

\* An answer given after the task noted its request is never lost.
THEOREM AnswerRecordedHolds ==
  ASSUME NEW CONSTANT only, Threads = {only}
  PROVE  Spec => []AnswerRecorded
<1>1. DInv => AnswerRecorded
  BY DEF DInv, Dialogue, AnswerRecorded
<1> QED
  BY Dialogues, <1>1, PTL
=============================================================================
