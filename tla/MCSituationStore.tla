-------------------------- MODULE MCSituationStore --------------------------
(* Instances of SituationStore for TLC, fed by packets of the perception    *)
(* topic and by the debug API.                                              *)
EXTENDS PerceptionTopic, TLC

\* "target-1" and "target-2" carry a batch number, "uuv" is only a name.
Ids == {"target-1", "target-2", "uuv"}
IdBatch == [id \in Ids |-> IF id = "target-1" THEN 1 ELSE IF id = "target-2" THEN 2 ELSE None]
BatchId == [b \in {1, 2} |-> IF b = 1 THEN "target-1" ELSE "target-2"]

\* The HTTP API stamps what it posts with its place in the order of sending.
Post(sent, one, two) ==
  [sent |-> sent, rev |-> sent, drop |-> FALSE,
   items |-> [b \in Batch |-> IF b = 1 THEN one ELSE two]]
Posted ==
  LET item(id) == [id |-> id, hostile |-> FALSE]
  IN {Post(1, item("target-1"), None), Post(3, item("uuv"), item("target-2"))}

FrameOf(sent, entries, padded, lowStamp) ==
  [layout |-> "frame", sent |-> sent, entries |-> entries,
   outer |-> FALSE, padded |-> padded, lowStamp |-> lowStamp]
TrackOf(sent, bd, composite, hostile, outer, padded) ==
  [layout |-> "track", sent |-> sent, numbers |-> ("bd" :> bd @@ "composite" :> composite),
   hostile |-> hostile, outer |-> outer, padded |-> padded, lowStamp |-> TRUE]

Misread == [number |-> 2, hostile |-> TRUE]

\* A short frame, a track without the number asked for, one behind an outer
\* head, and one whose attribute is not configured.
SomePackets ==
  {FrameOf(2, <<2, 1>>, FALSE, FALSE),
   TrackOf(4, None, 1, TRUE, FALSE, FALSE),
   TrackOf(5, 1, 2, TRUE, TRUE, FALSE),
   TrackOf(6, 2, None, FALSE, FALSE, FALSE)}
SomeStamped == Posted \cup {Decoded(p) : p \in SomePackets}

\* A frame of four targets, unpadded.
FourTargets == {FrameOf(1, <<1, 1, 1, 1>>, FALSE, FALSE)}
FourDecoded == {Decoded(p) : p \in FourTargets}
=============================================================================
