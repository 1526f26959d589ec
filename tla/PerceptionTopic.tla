-------------------------- MODULE PerceptionTopic --------------------------
(***************************************************************************)
(* How a packet on the perception topic becomes a message of the situation *)
(* store (adapters/dds/topic_codec.py, decode_topic_payload).  Two layouts *)
(* share the topic: the service's own frames of any number of targets, and *)
(* the 369-byte track packet of one target.  Nothing in a packet names its *)
(* layout: the codec guesses it from the sizes and from two length fields. *)
(*                                                                         *)
(* A packet may come behind a 16-byte outer head, and padded to the end of *)
(* the sample's buffer when the listener cannot tell its length.           *)
(***************************************************************************)
EXTENDS SituationStore, Sequences

CONSTANTS
  Source,         \* DDS_TARGET_BATCH_NO_SOURCE
  ZeroIsHostile,  \* whether attribute 0 is among those configured
  IdOf,           \* target_id made of a batch number
  Ghost,          \* number and attribute read out of bytes that hold none
  Capacity,       \* size of the buffer of a sample
  Packets

Sources == {"bd", "composite"}

TrackSize == 369
OuterSize == 16

\* packet_len of the encoder: common header, target count, entries.
FrameSize(n) == 21 + 2 + n * 90

\* Of a frame its batch numbers; of a track its numbers, None for all FF, and
\* whether its attribute is configured. lowStamp: the last byte of the
\* timestamp is small enough for a protocol version.
Frame == [layout : {"frame"}, sent : Nat, entries : Seq(Batch),
          outer : BOOLEAN, padded : BOOLEAN, lowStamp : BOOLEAN]
Track == [layout : {"track"}, sent : Nat, numbers : [Sources -> Batch \cup {None}], hostile : BOOLEAN,
          outer : BOOLEAN, padded : BOOLEAN, lowStamp : BOOLEAN]

OwnSize(p) == IF p.layout = "track" THEN TrackSize ELSE FrameSize(Len(p.entries))

RawSize(p) ==
  IF p.padded THEN Capacity ELSE OwnSize(p) + (IF p.outer THEN OuterSize ELSE 0)

\* The two bytes at the place of the length, and 16 bytes further on: there a
\* frame without an outer head has its count of targets, and a track the upper
\* half of its composite number, 0 unless that has more than four digits.
LengthField(p) == IF p.outer THEN 43690 ELSE OwnSize(p)
ShiftedField(p) ==
  IF p.outer THEN OwnSize(p)
  ELSE IF p.layout = "frame" THEN Len(p.entries)
  ELSE IF p.numbers["composite"] = None THEN 65535 ELSE 0

\* The version byte of both readings: a packet's own is 1, the shifted one of a
\* packet without outer head is a byte of its timestamp, and the bytes of an
\* outer head (AA in the tests) are above every version.
VersionFits(p) == ~ p.outer
ShiftedVersionFits(p) == p.outer \/ p.lowStamp

\* _looks_like_target_track_all_payload
LooksLikeTrack(p) ==
  \/ /\ RawSize(p) >= TrackSize
     /\ LengthField(p) \in {0, TrackSize, RawSize(p)}
     /\ VersionFits(p)
  \/ /\ RawSize(p) >= OuterSize + TrackSize
     /\ ShiftedField(p) \in {0, TrackSize, RawSize(p)}
     /\ ShiftedVersionFits(p)

\* _extract_target_track_all_payload: whether the first 16 bytes are skipped.
Shifted(p) == RawSize(p) >= OuterSize + TrackSize /\ ShiftedField(p) \in {0, TrackSize}

TrackReadRight(p) == p.layout = "track" /\ Shifted(p) = p.outer

\* mutant: an unset number is made up for by the other field
TrackNumberAny(p) ==
  IF ~ TrackReadRight(p) THEN Ghost.number
  ELSE IF p.numbers[Source] # None THEN p.numbers[Source]
  ELSE p.numbers[CHOOSE s \in Sources : s # Source]

\* The number of the chosen field, out of a track read at the right place.
TrackNumber(p) == IF TrackReadRight(p) THEN p.numbers[Source] ELSE Ghost.number

\* The batch numbers decoded. A frame is read at the start and has to be of the
\* exact size for its count, or nothing is decoded.
Decodes(p) ==
  IF LooksLikeTrack(p) THEN {TrackNumber(p)} \ {None}
  ELSE IF p.layout = "frame" /\ ~ p.outer /\ ~ p.padded THEN {p.entries[i] : i \in DOMAIN p.entries}
  ELSE {}

\* Entries of a frame have no enemy_friend_attr, which counts as 0.
Admits(p) ==
  IF ~ LooksLikeTrack(p) THEN ZeroIsHostile
  ELSE IF TrackReadRight(p) THEN p.hostile ELSE Ghost.hostile

\* decode_topic_payload: the message handed to the ingress. No decoded topic
\* carries a revision. Without the number asked for a track is dropped; an
\* error of decoding is a message without targets.
Decoded(p) ==
  [sent |-> p.sent, rev |-> 0,
   drop |-> LooksLikeTrack(p) /\ TrackNumber(p) = None,
   items |-> [b \in Batch |-> IF b \in Decodes(p) THEN [id |-> IdOf[b], hostile |-> Admits(p)] ELSE None]]

ASSUME PacketsAssumption ==
  /\ Source \in Sources /\ ZeroIsHostile \in BOOLEAN
  /\ IdOf \in [Batch -> TargetId] /\ Ghost \in [number : Batch, hostile : BOOLEAN]
  /\ Capacity \in Nat
  /\ Packets \subseteq Frame \cup Track
  /\ {Decoded(p) : p \in Packets} \subseteq Messages

-----------------------------------------------------------------------------
(* Properties. *)

\* The batch numbers a packet names as its sender meant it.
Names(p) ==
  IF p.layout = "frame" THEN {p.entries[i] : i \in DOMAIN p.entries}
  ELSE {p.numbers[Source]} \ {None}

\* A packet as the senders make it, a frame short enough to be no track.
Plain(p) ==
  ~ p.padded /\ (p.layout = "frame" => ~ p.outer /\ RawSize(p) < TrackSize)

\* A plain packet that arrives puts in the targets it names by the number
\* configured, if their attribute is, and changes no report of another; a track
\* behind an outer head is plain, and one without that number changes nothing.
ReportsArrive ==
  [][\A p \in Packets :
       Plain(p) /\ OnTargetPerception(Decoded(p))
         => \A b \in Batch :
              IF Admits(p) /\ b \in Names(p) THEN targets'[b] = [id |-> IdOf[b], sent |-> p.sent]
              ELSE targets'[b] \in {targets[b], None}]_vars

\* No target is in the store that no sender reported: "21-byte common header +
\* 2-byte target_count + N * 90-byte entries", for any N.
NoGhosts ==
  \A b \in Batch, p \in Packets :
    targets[b] # None /\ targets[b].sent = p.sent => b \in Names(p)
=============================================================================
