-------------------------------- MODULE MCStream --------------------------------
(***************************************************************************)
(* The two ends of the stream castd makes: the sound up to the encoder,    *)
(* and muxer and sender.  They share no state, so an instance moves one of *)
(* them and leaves the other as it began.                                  *)
(***************************************************************************)
EXTENDS CastSound, SendPath

VARIABLE part

StreamInit == Init /\ SendInit /\ part \in {"sound", "wire"}

StreamNext ==
  /\ \/ part = "sound" /\ Next /\ UNCHANGED sendVars
     \/ part = "wire" /\ SendNext /\ UNCHANGED vars
  /\ UNCHANGED part

StreamSpec == StreamInit /\ [][StreamNext]_<<vars, sendVars, part>>
================================================================================
