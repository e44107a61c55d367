-------------------------------- MODULE RtspLife --------------------------------
(***************************************************************************)
(* What the session service relies on of the RTSP process it starts: it   *)
(* waits, then plays with a castd of its own, and ends by itself or when   *)
(* told to.  Ending while it plays takes castd with it; told to end before *)
(* that, it may leave a castd it was just starting.                        *)
(*                                                                         *)
(* These are the steps SinkPlays, ServeEnds, ProtoEnds and CastDies of     *)
(* ImiraSession, where a castd that was told to end may take a while to;   *)
(* WfdProto implements them.                                               *)
(***************************************************************************)
VARIABLES
  proto,   \* none, listening, playing, dying
  cast     \* a castd started by this process runs and was not told to end

lifeVars == <<proto, cast>>

Init == proto = "listening" /\ cast = FALSE

\* castd may be dead again by the time its start is noted.
Plays == proto = "listening" /\ proto' = "playing" /\ cast' \in BOOLEAN

ToldEarly == proto = "listening" /\ proto' = "none" /\ cast' \in BOOLEAN

ToldPlaying == proto = "playing" /\ proto' = "dying" /\ UNCHANGED cast

Ends == proto # "none" /\ proto' = "none" /\ cast' = FALSE

CastDies == cast /\ cast' = FALSE /\ UNCHANGED proto

Next == Plays \/ ToldEarly \/ ToldPlaying \/ Ends \/ CastDies

Spec == Init /\ [][Next]_lifeVars
================================================================================
