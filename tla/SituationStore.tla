--------------------------- MODULE SituationStore ---------------------------
(***************************************************************************)
(* store/situation_store.py and the messages that feed it: the common      *)
(* picture of own ship and targets that every task reads.                  *)
(*                                                                         *)
(* Every operation runs under the store's RLock, so it is one action.      *)
(* Perception messages come over best-effort DDS or the debug HTTP API: a  *)
(* message sent may be lost, repeated or overtaken.  Nothing removes a     *)
(* silent target until somebody writes or reads.                           *)
(***************************************************************************)
EXTENDS Naturals

CONSTANTS
  Batch,         \* target batch numbers
  TargetId,      \* target ids
  None,
  Messages,      \* perception messages of the sender
  Timeout,       \* target_stale_timeout_sec, in ticks of the clock
  MaxRevision    \* bound on _target_revision

\* The batch number in a target id: the digits of it, None without digits.
CONSTANT BatchOf

\* rev is 0 when the message has no revision; drop is drop_message; an item is
\* hostile when its enemy_friend_attr is one of those configured.
Item == [id : TargetId, hostile : BOOLEAN]
Message == [sent : Nat, rev : Nat, drop : BOOLEAN, items : [Batch -> Item \cup {None}]]

\* What is kept of a target: its id and which message it came with.
ReportIn(m, b) == [id |-> m.items[b].id, sent |-> m.sent]
Report == [id : TargetId, sent : {m.sent : m \in Messages}]

ASSUME SituationStoreAssumption ==
  /\ Timeout \in Nat
  /\ MaxRevision \in Nat
  /\ Messages \subseteq Message
  /\ BatchOf \in [TargetId -> Batch \cup {None}]
  /\ None \notin Batch \cup Item \cup Report \cup [report : Report, age : 0 .. Timeout]

VARIABLES
  targets,    \* _targets
  age,        \* now - _target_last_seen_at, capped just above the timeout
  revision,   \* _target_revision
  answer,     \* what the last reader was given
  heard       \* history: the newest revision of any message that arrived

vars == <<targets, age, revision, answer, heard>>

Stale   == Timeout + 1
Known   == {b \in Batch : targets[b] # None}

\* _should_reject_revision
Rejects(rev) == rev # 0 /\ rev <= revision

\* _bump_revision
Bumped(rev) == IF rev = 0 THEN revision + 1 ELSE rev

\* _prune_stale_targets
Expired(b) == targets[b] # None /\ age[b] > Timeout

\* The reports of a message that enter the store (admitted items only).
ReportsOf(m, admitted) ==
  [b \in Batch |-> IF m.items[b] # None /\ b \in admitted
                   THEN ReportIn(m, b) ELSE None]

Heard(m) == heard' = IF m.rev > heard THEN m.rev ELSE heard

-----------------------------------------------------------------------------
\* mutant: last_seen is kept when a target is seen again
UpdateTargetsKeepAge(new, rev) ==
  /\ targets' = [b \in Batch |-> IF new[b] # None THEN new[b]
                                 ELSE IF Expired(b) THEN None ELSE targets[b]]
  /\ age' = [b \in Batch |-> IF new[b] # None /\ targets[b] = None THEN 0 ELSE age[b]]
  /\ revision' = Bumped(rev)

\* update_targets: upsert what came, prune the rest, bump once.
UpdateTargets(new, rev) ==
  /\ targets' = [b \in Batch |-> IF new[b] # None THEN new[b]
                                 ELSE IF Expired(b) THEN None ELSE targets[b]]
  /\ age' = [b \in Batch |-> IF new[b] # None THEN 0 ELSE age[b]]
  /\ revision' = Bumped(rev)

\* mutant: an old revision is applied as well
SyncTargetsUnordered(m, admitted) ==
  /\ UpdateTargets(ReportsOf(m, admitted), m.rev)
  /\ Heard(m)
  /\ answer' = answer

SyncTargets(m, admitted) ==
  /\ IF Rejects(m.rev) THEN UNCHANGED <<targets, age, revision>>
     ELSE UpdateTargets(ReportsOf(m, admitted), m.rev)
  /\ Heard(m)
  /\ answer' = answer

\* _on_target_perception_message: a DDS sample. Dropped messages change
\* nothing; only items with a configured attribute are admitted.
OnTargetPerception(m) ==
  /\ ~ m.drop
  /\ SyncTargets(m, {b \in Batch : m.items[b] # None /\ m.items[b].hostile})

\* POST /mock/dds/perception and /mock/dds/targets: no filter.
PostPerception(m) == SyncTargets(m, Batch)

\* replace_targets
ReplaceTargets(m) ==
  /\ IF Rejects(m.rev) THEN UNCHANGED <<targets, age, revision>>
     ELSE /\ targets' = ReportsOf(m, Batch)
          /\ age' = [b \in Batch |-> 0]
          /\ revision' = Bumped(m.rev)
  /\ Heard(m)
  /\ answer' = answer

\* A target named by id: by the digits in it, or else by its own id.
Named(id) ==
  IF BatchOf[id] # None THEN {BatchOf[id]} \cap Known
  ELSE {b \in Known : targets[b].id = id}

\* remove_targets of one id; of several targets with the id the first goes.
RemoveTargets(id, rev) ==
  /\ ~ Rejects(rev)
  /\ \E b \in Named(id) : targets' = [targets EXCEPT ![b] = None]
  /\ revision' = Bumped(rev)
  /\ UNCHANGED <<age, answer, heard>>

\* mutant: a read prunes and does not mark it
ReadUnmarked(asked) ==
  /\ targets' = [b \in Batch |-> IF Expired(b) THEN None ELSE targets[b]]
  /\ answer' = [b \in Batch |-> IF b \in asked THEN targets'[b] ELSE None]
  /\ UNCHANGED <<age, revision, heard>>

\* The readers prune first and mark it (_prune_stale_targets_and_mark).
Read(asked) ==
  /\ targets' = [b \in Batch |-> IF Expired(b) THEN None ELSE targets[b]]
  /\ revision' = IF \E b \in Batch : Expired(b) THEN Bumped(0) ELSE revision
  /\ answer' = [b \in Batch |-> IF b \in asked THEN targets'[b] ELSE None]
  /\ UNCHANGED <<age, heard>>

GetTargetByBatchNo(b) == Read({b})
GetAllTargets == Read(Batch)

\* get_target looks the id up in what the pruning leaves.
GetTarget(id) ==
  LET kept == {b \in Named(id) : ~ Expired(b)} IN
  IF kept = {} THEN Read({}) ELSE \E b \in kept : Read({b})

\* reset: a new store.
Reset ==
  /\ targets' = [b \in Batch |-> None]
  /\ age' = [b \in Batch |-> 0]
  /\ revision' = 0
  /\ heard' = 0
  /\ answer' = answer

\* The clock.
Elapse ==
  /\ age' = [b \in Batch |-> IF age[b] < Stale THEN age[b] + 1 ELSE Stale]
  /\ UNCHANGED <<targets, revision, answer, heard>>

-----------------------------------------------------------------------------
Init ==
  /\ targets = [b \in Batch |-> None]
  /\ age = [b \in Batch |-> 0]
  /\ revision = 0
  /\ answer = [b \in Batch |-> None]
  /\ heard = 0

Write ==
  \/ \E m \in Messages : OnTargetPerception(m) \/ PostPerception(m) \/ ReplaceTargets(m)
  \/ \E id \in TargetId, rev \in {0, revision, revision + 1} : RemoveTargets(id, rev)

Look ==
  \/ \E b \in Batch : GetTargetByBatchNo(b)
  \/ \E id \in TargetId : GetTarget(id)
  \/ GetAllTargets

Next ==
  \/ revision < MaxRevision /\ (Write \/ Look)
  \/ Reset
  \/ Elapse

Spec == Init /\ [][Next]_vars

-----------------------------------------------------------------------------
(* Properties. *)

\* The type of every variable.
TypeOK ==
  /\ targets \in [Batch -> Report \cup {None}]
  /\ age \in [Batch -> 0 .. Stale]
  /\ revision \in Nat
  /\ answer \in [Batch -> Report \cup {None}]
  /\ heard \in Nat

\* The store implements SituationPicture: whatever the order of messages,
\* reads and clock ticks, a reader is given exactly the latest reports not
\* older than the timeout, although expired ones stay in _targets until
\* somebody touches them.
Fresh(b) == targets[b] # None /\ age[b] <= Timeout
Picture == INSTANCE SituationPicture WITH
  picture <- [b \in Batch |-> IF Fresh(b) THEN [report |-> targets[b], age |-> age[b]] ELSE None]
PictureSpec == Picture!Spec

\* A report that came with a stamp.
Stamped(r) == \E m \in Messages : m.sent = r.sent /\ m.rev # 0

\* When stamps follow the order of sending, a stamped message that is late or
\* repeated never puts an older report in than one heard before, whatever
\* unstamped ones come between, not even for a target that has expired or been
\* removed since.
OnlyNewerReports ==
  [][\A b \in Batch :
       targets'[b] \notin {None, targets[b]} /\ Stamped(targets'[b])
         => targets'[b].sent > heard]_vars

\* Whoever polls the revision notices every change of _targets, those made by
\* a read that prunes included.
RevisionMarksChange == [][targets' # targets => revision' # revision]_vars
=============================================================================
