------------------------ MODULE SituationStoreProofs ------------------------
(***************************************************************************)
(* Proofs about SituationStore, for any batches, ids, messages and timeout, *)
(* and about PerceptionTopic, for any packets.                             *)
(***************************************************************************)
EXTENDS PerceptionTopic, TLAPS

-----------------------------------------------------------------------------
(* The inductive invariant. *)

\* The revision is at least that of every message that arrived, and only the
\* empty store of the beginning has revision 0.
RevisionLeads ==
  /\ heard <= revision
  /\ \A b \in Batch : targets[b] # None => revision > 0

IInv == TypeOK /\ RevisionLeads

LEMMA ReportTypes ==
  ASSUME NEW m \in Messages, NEW admitted
  PROVE  /\ ReportsOf(m, admitted) \in [Batch -> Report \cup {None}]
         /\ m.rev \in Nat /\ m.sent \in Nat
         /\ \A b \in Batch : ReportsOf(m, admitted)[b] # None
              => ReportsOf(m, admitted)[b].sent = m.sent
  BY SituationStoreAssumption DEF ReportsOf, ReportIn, Report, Message, Item

\* A revision that is not rejected moves the store's revision up.
LEMMA BumpedUp ==
  ASSUME revision \in Nat, NEW rev \in Nat, ~ Rejects(rev)
  PROVE  Bumped(rev) \in Nat /\ Bumped(rev) > revision /\ Bumped(rev) >= rev
  BY DEF Rejects, Bumped

\* The six ways a step changes the store.
Kept == UNCHANGED <<targets, age, revision>>
Synced(m) == \E admitted \in SUBSET Batch :
  ~ Rejects(m.rev) /\ UpdateTargets(ReportsOf(m, admitted), m.rev)
Replaced(m) ==
  /\ ~ Rejects(m.rev)
  /\ targets' = ReportsOf(m, Batch)
  /\ age' = [b \in Batch |-> 0]
  /\ revision' = Bumped(m.rev)

LEMMA StepKinds ==
  ASSUME [Next]_vars
  PROVE  \/ \E m \in Messages :
              Heard(m) /\ answer' = answer /\ (Synced(m) \/ Replaced(m) \/ (Rejects(m.rev) /\ Kept))
         \/ \E id \in TargetId, rev \in {0, revision, revision + 1} : RemoveTargets(id, rev)
         \/ \E asked \in SUBSET Batch : Read(asked)
         \/ Reset
         \/ Elapse
         \/ UNCHANGED vars
<1>1. ASSUME NEW m \in Messages, NEW admitted \in SUBSET Batch, SyncTargets(m, admitted)
      PROVE  Heard(m) /\ answer' = answer /\ (Synced(m) \/ (Rejects(m.rev) /\ Kept))
  BY <1>1 DEF SyncTargets, Synced, Kept
<1>2. ASSUME NEW m \in Messages, OnTargetPerception(m) \/ PostPerception(m)
      PROVE  Heard(m) /\ answer' = answer /\ (Synced(m) \/ (Rejects(m.rev) /\ Kept))
  BY <1>1, <1>2 DEF OnTargetPerception, PostPerception
<1>3. ASSUME NEW m \in Messages, ReplaceTargets(m)
      PROVE  Heard(m) /\ answer' = answer /\ (Replaced(m) \/ (Rejects(m.rev) /\ Kept))
  BY <1>3 DEF ReplaceTargets, Replaced, Kept
<1>4. ASSUME NEW id \in TargetId, GetTarget(id)
      PROVE  \E asked \in SUBSET Batch : Read(asked)
  BY <1>4, Zenon DEF GetTarget, Named, Known
<1>5. ASSUME Look
      PROVE  \E asked \in SUBSET Batch : Read(asked)
  BY <1>4, <1>5 DEF Look, GetTargetByBatchNo, GetAllTargets
<1> QED
  BY <1>2, <1>3, <1>5 DEF Next, Write

LEMMA TypeStep ==
  ASSUME IInv, [Next]_vars
  PROVE  IInv'
<1> USE SituationStoreAssumption DEF IInv, RevisionLeads
<1>1. ASSUME NEW m \in Messages, Heard(m), answer' = answer, Synced(m) PROVE IInv'
  <2>1. PICK admitted \in SUBSET Batch :
          ~ Rejects(m.rev) /\ UpdateTargets(ReportsOf(m, admitted), m.rev)
    BY <1>1 DEF Synced
  <2>2. revision' \in Nat /\ revision' > revision /\ revision' >= m.rev
    BY <2>1, BumpedUp, ReportTypes DEF UpdateTargets, TypeOK
  <2>3. heard' \in Nat /\ heard' <= revision'
    BY <1>1, <2>2, ReportTypes DEF Heard, TypeOK
  <2> QED
    BY <1>1, <2>1, <2>2, <2>3, ReportTypes DEF UpdateTargets, TypeOK, Stale
<1>2. ASSUME NEW m \in Messages, Heard(m), answer' = answer, Replaced(m) PROVE IInv'
  <2>1. revision' \in Nat /\ revision' > revision /\ revision' >= m.rev
    BY <1>2, BumpedUp, ReportTypes DEF Replaced, TypeOK
  <2>2. heard' \in Nat /\ heard' <= revision'
    BY <1>2, <2>1, ReportTypes DEF Heard, TypeOK
  <2> QED
    BY <1>2, <2>1, <2>2, ReportTypes DEF Replaced, TypeOK, Stale
<1>3. ASSUME NEW m \in Messages, Heard(m), answer' = answer, Rejects(m.rev), Kept PROVE IInv'
  BY <1>3, ReportTypes DEF Heard, Rejects, Kept, TypeOK
<1>4. ASSUME NEW id \in TargetId, NEW rev \in {0, revision, revision + 1}, RemoveTargets(id, rev)
      PROVE  IInv'
  <2>1. revision' \in Nat /\ revision' > revision
    BY <1>4, BumpedUp DEF RemoveTargets, TypeOK
  <2>2. PICK b \in Named(id) : targets' = [targets EXCEPT ![b] = None]
    BY <1>4 DEF RemoveTargets
  <2> QED
    <3>1. targets' \in [Batch -> Report \cup {None}]
      BY <2>2 DEF TypeOK
    <3>2. UNCHANGED <<age, answer, heard>>
      BY <1>4 DEF RemoveTargets
    <3> QED
      BY <2>1, <3>1, <3>2 DEF TypeOK
<1>5. ASSUME NEW asked \in SUBSET Batch, Read(asked) PROVE IInv'
  BY <1>5 DEF Read, Expired, Bumped, TypeOK
<1>6. CASE Reset
  BY <1>6 DEF Reset, TypeOK, Stale
<1>7. CASE Elapse
  BY <1>7 DEF Elapse, TypeOK, Stale
<1>8. CASE UNCHANGED vars
  BY <1>8 DEF vars, TypeOK
<1> QED
  BY <1>1, <1>2, <1>3, <1>4, <1>5, <1>6, <1>7, <1>8, StepKinds

\* The invariant of every execution.
THEOREM Invariance == Spec => []IInv
<1>1. Init => IInv
  BY SituationStoreAssumption DEF Init, IInv, TypeOK, RevisionLeads, Stale
<1> QED
  BY <1>1, TypeStep, PTL DEF Spec

\* Every variable keeps its type.
THEOREM TypeCorrect == Spec => []TypeOK
  BY Invariance, PTL DEF IInv

-----------------------------------------------------------------------------
(* Revisions. *)

\* A change of the stored targets always changes the revision as well.
THEOREM RevisionMarksChangeHolds == Spec => RevisionMarksChange
<1>1. ASSUME IInv, [Next]_vars, targets' # targets PROVE revision' # revision
  <2>1. ASSUME NEW m \in Messages, Synced(m) \/ Replaced(m) PROVE revision' # revision
    BY <1>1, <2>1, BumpedUp, ReportTypes DEF Synced, Replaced, UpdateTargets, IInv, TypeOK
  <2>2. ASSUME NEW id \in TargetId, NEW rev \in {0, revision, revision + 1}, RemoveTargets(id, rev)
        PROVE  revision' # revision
    BY <1>1, <2>2, BumpedUp DEF RemoveTargets, IInv, TypeOK
  <2>3. ASSUME NEW asked \in SUBSET Batch, Read(asked) PROVE revision' # revision
    BY <1>1, <2>3 DEF Read, Expired, Bumped, IInv, TypeOK
  <2>4. CASE Reset
    BY <1>1, <2>4 DEF Reset, IInv, RevisionLeads, TypeOK
  <2> QED
    BY <1>1, <2>1, <2>2, <2>3, <2>4, StepKinds DEF Kept, Elapse, vars
<1> QED
  BY <1>1, Invariance, PTL DEF Spec, RevisionMarksChange

\* When the stamps follow the order of sending, no stamped message, however
\* late or often it comes, puts in an older report.
THEOREM OnlyNewerReportsHolds ==
  ASSUME \A m \in Messages : m.rev \in {0, m.sent},
         \A m, n \in Messages : m.sent = n.sent => m.rev = n.rev
  PROVE  Spec => OnlyNewerReports
<1>1. ASSUME IInv, [Next]_vars, NEW b \in Batch, targets'[b] \notin {None, targets[b]},
             Stamped(targets'[b])
      PROVE  targets'[b].sent > heard
  <2>1. ASSUME NEW m \in Messages, Synced(m) \/ Replaced(m) PROVE targets'[b].sent > heard
    <3>1. PICK admitted \in SUBSET Batch :
            ~ Rejects(m.rev) /\ targets'[b] = ReportsOf(m, admitted)[b]
      BY <1>1, <2>1 DEF Synced, Replaced, UpdateTargets
    <3>2. targets'[b].sent = m.sent
      BY <1>1, <3>1, ReportTypes
    <3>3. PICK n \in Messages : n.sent = m.sent /\ n.rev # 0
      BY <1>1, <3>2 DEF Stamped
    <3>4. m.rev = m.sent /\ m.rev # 0
      BY <3>3
    <3> QED
      BY <1>1, <3>1, <3>2, <3>4, ReportTypes DEF Rejects, IInv, RevisionLeads, TypeOK
  <2>2. ASSUME Reset \/ (\E asked \in SUBSET Batch : Read(asked))
               \/ (\E id \in TargetId, rev \in {0, revision, revision + 1} : RemoveTargets(id, rev))
        PROVE  targets'[b] \in {None, targets[b]}
    <3>1. ASSUME NEW c, targets' = [targets EXCEPT ![c] = None]
          PROVE  targets'[b] \in {None, targets[b]}
      BY <1>1, <3>1 DEF IInv, TypeOK
    <3> QED
      BY <2>2, <3>1 DEF Reset, RemoveTargets, Read
  <2> QED
    BY <1>1, <2>1, <2>2, StepKinds DEF Kept, Elapse, vars
<1>2. IInv /\ [Next]_vars
        => [\A b \in Batch :
              targets'[b] \notin {None, targets[b]} /\ Stamped(targets'[b])
                => targets'[b].sent > heard]_vars
  BY <1>1
<1> QED
  BY <1>2, Invariance, PTL DEF Spec, OnlyNewerReports

-----------------------------------------------------------------------------
(* The store implements the picture. *)

View == [b \in Batch |-> IF Fresh(b) THEN [report |-> targets[b], age |-> age[b]] ELSE None]

LEMMA FreshOrExpired ==
  ASSUME TypeOK, NEW b \in Batch
  PROVE  Expired(b) <=> (targets[b] # None /\ ~ Fresh(b))
  BY SituationStoreAssumption DEF TypeOK, Expired, Fresh, Stale

LEMMA SightingIsSome ==
  ASSUME NEW r \in Report, NEW n \in 0 .. Timeout
  PROVE  [report |-> r, age |-> n] # None
<1>1. [report |-> r, age |-> n] \in [report : Report, age : 0 .. Timeout]
  OBVIOUS
<1> QED
  BY <1>1, SituationStoreAssumption

LEMMA ViewIsSome ==
  ASSUME TypeOK, NEW b \in Batch
  PROVE  /\ ~ Fresh(b) => View[b] = None
         /\ Fresh(b) => /\ View[b] = [report |-> targets[b], age |-> age[b]]
                        /\ View[b] # None
                        /\ age[b] \in 0 .. Timeout
<1>1. CASE Fresh(b)
  <2>1. targets[b] \in Report /\ age[b] \in 0 .. Timeout
    BY <1>1, SituationStoreAssumption DEF TypeOK, Fresh, Stale
  <2> QED
    BY <1>1, <2>1, SightingIsSome DEF View
<1>2. CASE ~ Fresh(b)
  BY <1>2 DEF View
<1> QED
  BY <1>1, <1>2

LEMMA ViewStep ==
  ASSUME IInv, [Next]_vars
  PROVE  [Picture!Next]_<<View, answer>>
<1> USE DEF IInv
<1>0. Timeout \in Nat
  BY SituationStoreAssumption
<1>1. ASSUME NEW m \in Messages, answer' = answer, Synced(m)
      PROVE  \E reports \in Picture!Reports : Picture!Sight(reports)
  <2>1. PICK admitted \in SUBSET Batch : UpdateTargets(ReportsOf(m, admitted), m.rev)
    BY <1>1 DEF Synced
  <2> DEFINE new == ReportsOf(m, admitted)
  <2>2. new \in Picture!Reports
    BY ReportTypes DEF Picture!Reports
  <2>3. ASSUME NEW b \in Batch
        PROVE  View'[b] = IF new[b] = None THEN View[b] ELSE [report |-> new[b], age |-> 0]
    <3>1. CASE new[b] = None
      BY <2>1, <3>1, FreshOrExpired DEF UpdateTargets, View, Fresh
    <3>2. CASE new[b] # None
      BY <1>0, <2>1, <3>2 DEF UpdateTargets, View, Fresh
    <3> QED
      BY <3>1, <3>2
  <2>4. Picture!Sight(new)
    BY <1>1, <2>3 DEF Picture!Sight, View
  <2> QED
    BY <2>2, <2>4
<1>2. ASSUME NEW m \in Messages, answer' = answer, Replaced(m)
      PROVE  \E reports \in Picture!Reports : Picture!Replace(reports)
  <2> DEFINE new == ReportsOf(m, Batch)
  <2>1. new \in Picture!Reports
    BY ReportTypes DEF Picture!Reports
  <2>2. ASSUME NEW b \in Batch
        PROVE  View'[b] = IF new[b] = None THEN None ELSE [report |-> new[b], age |-> 0]
    BY <1>0, <1>2, ReportTypes DEF Replaced, View, Fresh, TypeOK
  <2>3. Picture!Replace(new)
    BY <1>2, <2>2 DEF Picture!Replace, View
  <2> QED
    BY <2>1, <2>3
<1>3. ASSUME NEW id \in TargetId, NEW rev \in {0, revision, revision + 1}, RemoveTargets(id, rev)
      PROVE  \E some \in SUBSET Batch : Picture!Remove(some)
  <2>1. PICK c \in Batch : targets' = [targets EXCEPT ![c] = None]
    BY <1>3, Zenon DEF RemoveTargets, Named, Known
  <2>2. ASSUME NEW b \in Batch PROVE View'[b] = IF b \in {c} THEN None ELSE View[b]
    <3>1. CASE b = c
      BY <2>1, <3>1 DEF View, Fresh, TypeOK
    <3>2. CASE b # c
      BY <1>3, <2>1, <3>2 DEF RemoveTargets, View, Fresh, TypeOK
    <3> QED
      BY <3>1, <3>2
  <2>3. Picture!Remove({c})
    BY <1>3, <2>2 DEF Picture!Remove, View, RemoveTargets
  <2> QED
    BY <2>3
<1>4. ASSUME NEW asked \in SUBSET Batch, Read(asked) PROVE Picture!Read(asked)
  <2>1. ASSUME NEW b \in Batch PROVE View'[b] = View[b]
    BY <1>4, FreshOrExpired DEF Read, View, Fresh
  <2>2. ASSUME NEW b \in Batch
        PROVE  targets'[b] = IF View[b] # None THEN View[b].report ELSE None
    <3>1. CASE Fresh(b)
      <4>1. View[b] # None /\ View[b] = [report |-> targets[b], age |-> age[b]]
        BY <3>1, ViewIsSome
      <4>2. View[b].report = targets[b]
        BY <4>1
      <4> QED
        BY <1>4, <3>1, <4>1, <4>2, FreshOrExpired DEF Read
    <3>2. CASE ~ Fresh(b)
      <4>1. View[b] = None
        BY <3>2, ViewIsSome
      <4> QED
        BY <1>4, <3>2, <4>1, FreshOrExpired DEF Read
    <3> QED
      BY <3>1, <3>2
  <2>3. View' = View
    BY <2>1 DEF View
  <2> QED
    BY <1>4, <2>2, <2>3 DEF Picture!Read, Read, View
<1>5. CASE Reset
  <2>1. View' = [b \in Batch |-> None]
    BY <1>5 DEF Reset, View, Fresh
  <2>2. Picture!Remove(Batch)
    BY <1>5, <2>1 DEF Picture!Remove, Reset, View
  <2> QED
    BY <2>2 DEF Picture!Next
<1>6. CASE Elapse
  <2>1. ASSUME NEW b \in Batch
        PROVE  View'[b] = IF View[b] = None \/ View[b].age = Timeout THEN None
                          ELSE [View[b] EXCEPT !.age = @ + 1]
    <3>1. CASE Fresh(b) /\ age[b] < Timeout
      BY <1>0, <1>6, <3>1, ViewIsSome DEF Elapse, View, Fresh, Stale
    <3>2. CASE Fresh(b) /\ age[b] = Timeout
      BY <1>6, <3>2, ViewIsSome DEF Elapse, View, Fresh, Stale
    <3>3. CASE ~ Fresh(b)
      BY <1>0, <1>6, <3>3, ViewIsSome DEF Elapse, View, Fresh, Stale, TypeOK
    <3> QED
      <4>1. Fresh(b) => age[b] \in 0 .. Timeout
        BY ViewIsSome
      <4> QED
        BY <1>0, <3>1, <3>2, <3>3, <4>1
  <2>2. Picture!Elapse
    BY <1>6, <2>1 DEF Picture!Elapse, Elapse, View
  <2> QED
    BY <2>2 DEF Picture!Next
<1>7. ASSUME Kept \/ UNCHANGED vars, answer' = answer PROVE UNCHANGED <<View, answer>>
  BY <1>7 DEF Kept, vars, View, Fresh
<1>8. UNCHANGED vars => answer' = answer
  BY DEF vars
<1> QED
  BY <1>1, <1>2, <1>3, <1>4, <1>5, <1>6, <1>7, <1>8, StepKinds DEF Picture!Next

\* The readers' promise: every step of the store is a step of SituationPicture,
\* or none that a reader can see.
THEOREM Implements == Spec => PictureSpec
<1> USE SituationStoreAssumption
<1>1. Init => Picture!Init
  BY DEF Init, Picture!Init, Fresh
<1>2. IInv /\ [Next]_vars => [Picture!Next]_<<View, answer>>
  BY ViewStep
<1> QED
  BY <1>1, <1>2, Invariance, PTL DEF Spec, PictureSpec, Picture!Spec, View

-----------------------------------------------------------------------------
(* Packets. *)

\* A short frame is too small for a track, whatever its fields hold.
LEMMA FrameIsFrame ==
  ASSUME NEW p \in Frame, Plain(p)
  PROVE  /\ ~ LooksLikeTrack(p)
         /\ Decodes(p) = {p.entries[i] : i \in DOMAIN p.entries}
<1>1. p.layout = "frame" /\ ~ p.outer /\ ~ p.padded /\ RawSize(p) < TrackSize
  BY DEF Plain, Frame
<1>2. RawSize(p) = 23 + Len(p.entries) * 90 /\ Len(p.entries) \in Nat
  BY <1>1 DEF RawSize, OwnSize, FrameSize, Frame
<1>3. ~ LooksLikeTrack(p)
  BY <1>1, <1>2 DEF LooksLikeTrack, TrackSize, OuterSize
<1> QED
  BY <1>1, <1>3 DEF Decodes

\* A track is known by its size or, behind an outer head, by the length field
\* 16 bytes on; and it is read at the right place.
LEMMA TrackIsTrack ==
  ASSUME NEW p \in Track, Plain(p)
  PROVE  LooksLikeTrack(p) /\ TrackReadRight(p)
<1>1. p.layout = "track" /\ ~ p.padded /\ p.outer \in BOOLEAN /\ OwnSize(p) = 369
  BY DEF Plain, Track, OwnSize, TrackSize
<1>2. CASE p.outer
  <2>1. RawSize(p) = 385 /\ ShiftedField(p) = 369 /\ ShiftedVersionFits(p)
    BY <1>1, <1>2 DEF RawSize, OuterSize, ShiftedField, ShiftedVersionFits
  <2>2. LooksLikeTrack(p)
    BY <2>1 DEF LooksLikeTrack, TrackSize, OuterSize
  <2>3. Shifted(p)
    BY <2>1 DEF Shifted, TrackSize, OuterSize
  <2> QED
    BY <1>1, <1>2, <2>2, <2>3 DEF TrackReadRight
<1>3. CASE ~ p.outer
  <2>1. RawSize(p) = 369 /\ LengthField(p) = 369 /\ VersionFits(p)
    BY <1>1, <1>3 DEF RawSize, LengthField, VersionFits
  <2>2. LooksLikeTrack(p)
    BY <2>1 DEF LooksLikeTrack, TrackSize
  <2>3. Shifted(p) = FALSE /\ p.outer = FALSE
    BY <1>1, <1>3, <2>1 DEF Shifted, TrackSize, OuterSize
  <2> QED
    BY <1>1, <2>2, <2>3, Zenon DEF TrackReadRight
<1> QED
  BY <1>2, <1>3

\* A plain packet is decoded as its sender meant it.
LEMMA DecodedAsMeant ==
  ASSUME NEW p \in Packets, Plain(p)
  PROVE  Decodes(p) = Names(p) /\ Admits(p) \in BOOLEAN
<1>1. CASE p \in Frame
  <2>1. p.layout = "frame"
    BY <1>1 DEF Frame
  <2> QED
    BY <1>1, <2>1, FrameIsFrame, PacketsAssumption DEF Names, Admits
<1>2. CASE p \in Track
  <2>1. p.layout = "track" /\ p.hostile \in BOOLEAN
    BY <1>2 DEF Track
  <2>2. LooksLikeTrack(p) /\ TrackReadRight(p)
    BY <1>2, TrackIsTrack
  <2> QED
    BY <2>1, <2>2 DEF Names, Admits, Decodes, TrackNumber
<1> QED
  BY <1>1, <1>2, PacketsAssumption

\* Every plain packet that arrives, a frame of up to three targets or a track
\* with or without an outer head, puts in the targets it names by the number
\* configured if their attribute is, and changes no report of another.
THEOREM ReportsArriveHolds == Spec => ReportsArrive
<1>1. ASSUME NEW p \in Packets, Plain(p), OnTargetPerception(Decoded(p)), NEW b \in Batch
      PROVE  IF Admits(p) /\ b \in Names(p) THEN targets'[b] = [id |-> IdOf[b], sent |-> p.sent]
             ELSE targets'[b] \in {targets[b], None}
  <2> DEFINE m == Decoded(p)
             admitted == {c \in Batch : m.items[c] # None /\ m.items[c].hostile}
             new == ReportsOf(m, admitted)
  <2>1. Decodes(p) = Names(p) /\ Admits(p) \in BOOLEAN
    BY <1>1, DecodedAsMeant
  <2>2. m \in Messages /\ m.rev = 0 /\ m.sent = p.sent
    BY PacketsAssumption DEF Decoded
  <2>3. m.items[b] = IF b \in Names(p) THEN [id |-> IdOf[b], hostile |-> Admits(p)] ELSE None
    BY <2>1 DEF Decoded
  <2>4. [id |-> IdOf[b], hostile |-> Admits(p)] \in Item
    BY <2>1, PacketsAssumption DEF Item
  <2>5. [id |-> IdOf[b], hostile |-> Admits(p)] # None
    BY <2>4, SituationStoreAssumption
  <2>6. b \in admitted <=> Admits(p) /\ b \in Names(p)
    BY <2>1, <2>3, <2>5
  <2>7. UpdateTargets(new, 0)
    BY <1>1, <2>2 DEF OnTargetPerception, SyncTargets, Rejects
  <2>8. CASE Admits(p) /\ b \in Names(p)
    <3>1. new[b] = [id |-> IdOf[b], sent |-> p.sent]
      BY <2>2, <2>3, <2>5, <2>6, <2>8 DEF ReportsOf, ReportIn
    <3>2. new[b] \in Report
      <4>1. p.sent \in {n.sent : n \in Messages} /\ IdOf[b] \in TargetId
        BY <2>2, PacketsAssumption
      <4>2. \A x \in TargetId, y \in {n.sent : n \in Messages} : [id |-> x, sent |-> y] \in Report
        BY DEF Report
      <4> QED
        BY <3>1, <4>1, <4>2
    <3>3. new[b] # None
      BY <3>2, SituationStoreAssumption
    <3> QED
      BY <2>7, <2>8, <3>1, <3>3 DEF UpdateTargets
  <2>9. CASE ~ (Admits(p) /\ b \in Names(p))
    <3>1. new[b] = None
      BY <2>6, <2>9 DEF ReportsOf
    <3> QED
      BY <2>7, <2>9, <3>1 DEF UpdateTargets
  <2> QED
    BY <2>8, <2>9
<1>2. [Next]_vars
        => [\A p \in Packets :
              Plain(p) /\ OnTargetPerception(Decoded(p))
                => \A b \in Batch :
                     IF Admits(p) /\ b \in Names(p) THEN targets'[b] = [id |-> IdOf[b], sent |-> p.sent]
                     ELSE targets'[b] \in {targets[b], None}]_vars
  BY <1>1
<1> QED
  BY <1>2, PTL DEF Spec, ReportsArrive
=============================================================================
