------------------------------- MODULE AacEncoder -------------------------------
(***************************************************************************)
(* The time stamps of AAC access units (daemon/src/aacencoder.cpp).  Chunks*)
(* go into the codec on the thread that reads the sound, access units come *)
(* out on a thread of the codec, some while later and of another length;   *)
(* m_anchors says which sample had which time stamp.                       *)
(*                                                                         *)
(* Positions are relative to the first sample of the next access unit.  A  *)
(* time stamp is the position of its sample plus the error it was fed with,*)
(* so one without an error would equal the position.                       *)
(***************************************************************************)
EXTENDS Integers, Sequences

CONSTANTS
  PerFeed,  \* samples of a chunk, in units
  Au,       \* kSamplesPerAu
  Priming,  \* kPrimingSamples
  MaxInside \* bound: samples the codec takes before it delivers

ASSUME AacAssumption ==
  /\ {PerFeed, Au, MaxInside} \subseteq Nat \ {0} /\ Priming \in Nat
  /\ MaxInside >= Priming + Au

VARIABLES
  anchors,   \* m_anchors: sample and ptsUs
  ahead,     \* m_samplesIn
  feeding,   \* feed has noted a chunk and not queued it
  inside,    \* samples the codec was given
  meant,     \* history: the error every sample was fed with
  lead,      \* history: priming samples before them
  off        \* history: the last time stamp less the one that was meant

aacVars == <<anchors, ahead, feeding, inside, meant, lead, off>>

Anchor(sample, pts) == [sample |-> sample, pts |-> pts]

AacTypeOK ==
  /\ anchors \in Seq([sample : Int, pts : Int])
  /\ ahead \in Int /\ feeding \in BOOLEAN /\ inside \in 0..MaxInside + PerFeed
  /\ meant \in Seq(Int) /\ lead \in 0..Priming /\ off \in Int

AacInit ==
  /\ anchors = <<>> /\ ahead = Priming /\ feeding = FALSE /\ inside = Priming
  /\ meant = <<>> /\ lead = Priming /\ off = 0

--------------------------------------------------------------------------------
\* feed: the anchor goes in before the samples do
PushAnchor(e) ==
  /\ ~feeding /\ inside < MaxInside
  /\ anchors' = Append(anchors, Anchor(ahead, ahead + e)) /\ ahead' = ahead + PerFeed
  /\ feeding' = TRUE /\ meant' = meant \o [i \in 1..PerFeed |-> e]
  /\ UNCHANGED <<inside, lead, off>>

\* droid_media_codec_queue
QueueChunk ==
  /\ feeding /\ feeding' = FALSE /\ inside' = inside + PerFeed
  /\ UNCHANGED <<anchors, ahead, meant, lead, off>>

\* Mutant: the anchor of a chunk that begins with the access unit is too late.
PassedBefore(as, s) ==
  LET late == {i \in DOMAIN as : i > 1 /\ as[i].sample < s}
  IN IF late = {} THEN as ELSE SubSeq(as, CHOOSE i \in late : \A j \in late : i >= j, Len(as))

\* Anchors the stream has passed go; the one that covers s stays
Passed(as, s) ==
  LET late == {i \in DOMAIN as : i > 1 /\ as[i].sample <= s}
  IN IF late = {} THEN as ELSE SubSeq(as, CHOOSE i \in late : \A j \in late : i >= j, Len(as))

\* Samples go out of the history, priming first
Spend == /\ lead' = (IF lead > Au THEN lead - Au ELSE 0)
         /\ meant' = SubSeq(meant, (IF lead > Au THEN 0 ELSE Au - lead) + 1, Len(meant))

\* onAccessUnit; the codec delivers nothing before it was given something
AccessUnit ==
  /\ inside >= Au /\ (inside > Priming \/ lead < Priming)
  /\ inside' = inside - Au /\ Spend
  /\ IF anchors = <<>> THEN UNCHANGED <<anchors, ahead, off>>
     ELSE LET as == Passed(anchors, 0)
          IN /\ anchors' = [i \in DOMAIN as |-> Anchor(as[i].sample - Au, as[i].pts - Au)]
             /\ ahead' = ahead - Au
             /\ off' = as[1].pts + (0 - as[1].sample) - meant[1]
  /\ UNCHANGED feeding

--------------------------------------------------------------------------------
(* Properties *)

\* Each access unit carries the time stamp its first sample was fed with,
\* although chunks and units overlap and the codec is late; priming silence
\* runs back from the first sample (aacencoder.cpp 138-157).
StampedAsFed == off = 0
================================================================================
