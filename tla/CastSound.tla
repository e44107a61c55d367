-------------------------------- MODULE CastSound --------------------------------
(***************************************************************************)
(* The sound of a cast to a sink that plays AAC: the chunks onRead hands   *)
(* over with their time stamps (AudioClock) are fed to the encoder         *)
(* (AacEncoder) by the thread that read them (audioCb and aacOut in        *)
(* daemon/src/main.cpp).                                                   *)
(***************************************************************************)
EXTENDS AudioClock, AacEncoder

vars == <<clockVars, aacVars>>

Init == Fresh /\ AacInit

\* The callback of onRead: all chunks of a block are stamped by one base
HandOver ==
  /\ todo > 0 /\ PushAnchor(err)
  /\ UNCHANGED clockVars

Handed ==
  /\ QueueChunk /\ todo' = todo - 1
  /\ UNCHANGED <<backlog, err, win, since, blockAge, fill, verified, stalled, punctual,
                 steady, still>>

Clock ==
  \/ Tick \/ Stall \/ Verify \/ Restart
  \/ \E n \in 1..MaxBacklog : Hole(n) \/ Read(n)

Next ==
  \/ Clock /\ UNCHANGED aacVars
  \/ HandOver \/ Handed
  \/ AccessUnit /\ UNCHANGED clockVars

Spec == Init /\ [][Next]_vars

TypeOK == ClockTypeOK /\ AacTypeOK
================================================================================
