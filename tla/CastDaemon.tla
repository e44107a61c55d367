------------------------------- MODULE CastDaemon -------------------------------
(***************************************************************************)
(* imira-castd between the recorder and the encoder while the phone is     *)
(* mirrored (daemon/src/main.cpp): the recorder's thread runs onFrame, the *)
(* main thread polls the wanted resolution four times a second and leaves  *)
(* it in pendingH and pendingW, SIGUSR1 asks for an IDR.  Only onFrame     *)
(* restarts the encoder (daemon/src/encoder.cpp), between two frames.      *)
(*                                                                         *)
(* The frames come as FramePacing says: a frame that is asked for is in    *)
(* onFrame within Answer, so an encoder restart lasts no longer either.    *)
(***************************************************************************)
EXTENDS FramePacing

CONSTANTS
  Sizes,       \* heights to choose from, /tmp/imira-res; the width goes with it
  MaxChanges,  \* bound: how often the user changes the resolution
  MaxIdr,      \* bound: how often the sink asks for an IDR
  EncMayFail   \* may the codec service refuse a new encoder?

ASSUME SizesAssumption == Sizes \subseteq Nat \ {0} /\ Sizes # {}
ASSUME BoundsAssumption ==
  MaxChanges \in Nat /\ MaxIdr \in Nat /\ EncMayFail \in BOOLEAN

VARIABLES
  want,     \* what /tmp/imira-res says
  changes,  \* how often it has changed
  optW,     \* opt.width
  mpc,      \* main thread: poll, compare, height, width
  wish,     \* its wantW and wantH, 0: out of scope
  pendW,    \* pendingW, 0: none
  pendH,    \* pendingH
  needIdr,  \* g_needIdr
  idrs,     \* how often it was set
  fpc,      \* recorder's thread: idle, frame, sizes, switch, restart, queue
  taken,    \* its pw, 0: none or used
  conv,     \* width and height of the converter
  encG,     \* m_width and m_height of the encoder
  codec     \* m_codec: the size it was created with, or NoCodec

userVars == <<want, changes>>
mainVars == <<mpc, wish>>
pendVars == <<pendW, pendH>>
idrVars == <<needIdr, idrs>>
encVars == <<fpc, taken, conv, encG, codec, optW>>
switchVars == <<userVars, mainVars, pendVars, idrVars, encVars>>
vars == <<paceVars, switchVars>>

NoCodec == <<0, 0>>
Geometry(w, h) == <<w, h>>
Geometries == Sizes \X Sizes

TypeOK ==
  /\ want \in Sizes /\ changes \in 0..MaxChanges /\ optW \in Sizes
  /\ mpc \in {"poll", "compare", "height", "width"} /\ wish \in Sizes \cup {0}
  /\ pendW \in Sizes \cup {0} /\ pendH \in Sizes \cup {0}
  /\ needIdr \in BOOLEAN /\ idrs \in 0..MaxIdr
  /\ fpc \in {"idle", "frame", "sizes", "switch", "restart", "queue"}
  /\ taken \in Sizes \cup {0}
  /\ conv \in Geometries /\ encG \in Geometries /\ codec \in Geometries \cup {NoCodec}

\* The encoder has started with the size of the command line
Init ==
  /\ PaceInit
  /\ want \in Sizes /\ changes = 0
  /\ \E s \in Sizes : /\ optW = s /\ conv = Geometry(s, s)
                      /\ encG = Geometry(s, s) /\ codec = Geometry(s, s)
  /\ mpc = "poll" /\ wish = 0 /\ pendW = 0 /\ pendH = 0
  /\ needIdr = FALSE /\ idrs = 0 /\ fpc = "idle" /\ taken = 0

--------------------------------------------------------------------------------
(* The user, the sink, the main thread *)

SetResolution(s) ==
  /\ changes < MaxChanges /\ s # want /\ want' = s /\ changes' = changes + 1
  /\ UNCHANGED <<mainVars, pendVars, idrVars, encVars, paceVars>>

\* onIdrRequest
IdrRequest ==
  /\ idrs < MaxIdr /\ needIdr' = TRUE /\ idrs' = idrs + 1
  /\ UNCHANGED <<userVars, mainVars, pendVars, encVars, paceVars>>

\* The main loop reads the file ...
Poll ==
  /\ mpc = "poll" /\ mpc' = "compare" /\ wish' = want
  /\ UNCHANGED <<userVars, pendVars, idrVars, encVars, paceVars>>

\* ... and compares, after the sound may have been restarted
Compare ==
  /\ mpc = "compare"
  /\ IF wish # optW /\ pendW = 0 THEN mpc' = "height" /\ UNCHANGED wish
                                ELSE mpc' = "poll" /\ wish' = 0
  /\ UNCHANGED <<userVars, pendVars, idrVars, encVars, paceVars>>

\* Mutant: the width in place of the height.
StoreHeightLast ==
  /\ mpc = "height" /\ mpc' = "width" /\ pendW' = wish
  /\ UNCHANGED <<userVars, wish, pendH, idrVars, encVars, paceVars>>

StoreHeight ==
  /\ mpc = "height" /\ mpc' = "width" /\ pendH' = wish
  /\ UNCHANGED <<userVars, wish, pendW, idrVars, encVars, paceVars>>

\* "last: acts as the ready flag"
StoreWidth ==
  /\ mpc = "width" /\ mpc' = "poll" /\ pendW' = wish /\ wish' = 0
  /\ UNCHANGED <<userVars, pendH, idrVars, encVars, paceVars>>

--------------------------------------------------------------------------------
(* onFrame *)

\* A frame, dropped or passed on
FrameComes ==
  /\ fpc = "idle" /\ FrameArrives
  /\ fpc' = IF dueIn <= 0 THEN "frame" ELSE "idle"
  /\ UNCHANGED <<userVars, mainVars, pendVars, idrVars, taken, conv, encG, codec, optW>>

\* pendingW.exchange(0) ...
TakePending ==
  /\ fpc = "frame" /\ pendW # 0
  /\ fpc' = "sizes" /\ taken' = pendW /\ pendW' = 0
  /\ UNCHANGED <<pendH, needIdr, codec>>

\* ... or else g_needIdr.exchange(false), and restart() stops the encoder
TakeIdr ==
  /\ fpc = "frame" /\ pendW = 0 /\ needIdr
  /\ fpc' = "restart" /\ needIdr' = FALSE /\ codec' = NoCodec
  /\ UNCHANGED <<pendVars, taken>>

TakeNothing ==
  /\ fpc = "frame" /\ pendW = 0 /\ ~needIdr
  /\ fpc' = "queue" /\ UNCHANGED <<pendVars, needIdr, taken, codec>>

Take ==
  /\ TakePending \/ TakeIdr \/ TakeNothing
  /\ UNCHANGED <<userVars, mainVars, idrs, conv, encG, optW, paceVars>>

\* pendingH; restartWith() stops the encoder, init() takes over the size,
\* unless it fails before that
SwitchBegins ==
  /\ fpc = "sizes" /\ codec' = NoCodec /\ taken' = 0
  /\ \/ fpc' = "switch" /\ encG' = Geometry(taken, pendH)
     \/ EncMayFail /\ fpc' = "queue" /\ UNCHANGED encG
  /\ UNCHANGED <<userVars, mainVars, pendVars, idrVars, conv, optW, paceVars>>

\* ... and creates an encoder, or not
SwitchEnds(ok) ==
  /\ fpc = "switch" /\ fpc' = "queue"
  /\ codec' = (IF ok THEN encG ELSE NoCodec)
  /\ conv' = (IF ok THEN encG ELSE conv)
  /\ optW' = IF ok THEN encG[1] ELSE optW
  /\ UNCHANGED <<userVars, mainVars, pendVars, idrVars, taken, encG, paceVars>>

RestartEnds(ok) ==
  /\ fpc = "restart" /\ fpc' = "queue"
  /\ codec' = (IF ok THEN encG ELSE NoCodec)
  /\ UNCHANGED <<userVars, mainVars, pendVars, idrVars, taken, conv, encG, optW, paceVars>>

\* convert() and queueFrame(); without a codec the frame is freed
QueueFrame ==
  /\ fpc = "queue" /\ fpc' = "idle"
  /\ UNCHANGED <<userVars, mainVars, pendVars, idrVars, taken, conv, encG, codec, optW,
                 paceVars>>

EncoderAnswers == {ok \in BOOLEAN : ok \/ EncMayFail}
OnFrame ==
  \/ Take \/ SwitchBegins \/ QueueFrame
  \/ \E ok \in EncoderAnswers : SwitchEnds(ok) \/ RestartEnds(ok)

\* The clock thread and time
Looks == ClockLooks /\ UNCHANGED switchVars
Ticks == PaceTick /\ UNCHANGED switchVars

MainLoop == Poll \/ Compare \/ StoreHeight \/ StoreWidth
Next ==
  \/ \E s \in Sizes : SetResolution(s)
  \/ IdrRequest \/ MainLoop \/ FrameComes \/ OnFrame \/ Looks \/ Ticks

\* The threads run; the compositor answers
Fairness ==
  /\ WF_vars(MainLoop) /\ WF_vars(OnFrame)
  /\ WF_vars(FrameComes) /\ WF_vars(Looks) /\ WF_vars(Ticks)

Spec == Init /\ [][Next]_vars /\ Fairness

--------------------------------------------------------------------------------
(* Properties *)

\* A frame is never queued into an encoder of another size (main.cpp
\* 450-454: "the converter has to be configured for the new size already,
\* otherwise a frame of the old geometry is queued into the freshly created
\* encoder ... and the stream never recovers").
QueuedFits == fpc = "queue" /\ codec # NoCodec => conv = codec

\* When the user leaves the resolution alone, encoder and converter end up
\* with it and stay: no torn size lasts, no switch is forgotten, restarts
\* come to an end, on a still screen as well (main.cpp 455-480, 590-594).
\* A cast that was refused an encoder owes nothing: see QueuedFits.
NoneRefused == [](fpc = "queue" => codec # NoCodec)
Settles ==
  \A s \in Sizes :
    <>[](want = s) /\ NoneRefused => <>[](codec = Geometry(s, s) /\ conv = Geometry(s, s))
================================================================================
