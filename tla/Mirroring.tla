------------------------------- MODULE Mirroring -------------------------------
(***************************************************************************)
(* onFrame with the conversion (daemon/src/main.cpp 450-498): CastDaemon's *)
(* steps, the converter configured when an encoder of a new size is there, *)
(* a frame converted before it is queued.                                  *)
(***************************************************************************)
EXTENDS CastDaemon, Convert

mirrorVars == <<vars, maps>>

\* opt.width x opt.height: 1280x720 or 1920x1080
Pixels(g) == <<(g[1] * 16) \div 9, g[2]>>

MirrorInit == Init /\ ConvertInit

\* restartWith, and configure when it succeeds
Switched(ok) ==
  /\ SwitchEnds(ok)
  /\ IF ok THEN Configure ELSE UNCHANGED maps

\* The rotation is the sensor's or the one of /tmp/imira-rotate
Converted(screen, turn) ==
  /\ QueueFrame /\ ConvertFrame(Pixels(conv), screen, turn)

MirrorFrame ==
  \/ \E ok \in EncoderAnswers : Switched(ok)
  \/ \E screen \in Screens, turn \in Turns : Converted(screen, turn)
  \/ /\ Take \/ SwitchBegins \/ \E ok \in EncoderAnswers : RestartEnds(ok)
     /\ UNCHANGED maps

\* The other threads, the user and the sink
Others ==
  /\ \/ \E s \in Sizes : SetResolution(s)
     \/ IdrRequest \/ MainLoop \/ FrameComes \/ Looks \/ Ticks
  /\ UNCHANGED maps

MirrorNext == MirrorFrame \/ Others
MirrorSpec == MirrorInit /\ [][MirrorNext]_mirrorVars /\ Fairness

--------------------------------------------------------------------------------
(* Properties *)

\* What goes to the encoder is laid out for this picture's size, screen and
\* rotation, tables kept from earlier frames included; its box lies inside
\* the picture's memory, starts on a chroma line and is filled without a
\* gap by bands that share no line (convert.cpp 186-190: "The rows are
\* independent ... Bands start on an even row so no chroma line is shared").
PictureFits ==
  [][\A screen \in Screens, turn \in Turns : Converted(screen, turn) =>
       LET dst == Pixels(conv)
           box == maps'.box
       IN /\ box = Box(dst, Content(screen, turn))
          /\ BoxFits(dst, box) /\ box.x % 2 = 0 /\ box.y % 2 = 0
          /\ BandsChain(box.h)]_mirrorVars
================================================================================
