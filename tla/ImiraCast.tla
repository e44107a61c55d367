-------------------------------- MODULE ImiraCast --------------------------------
(***************************************************************************)
(* The app and the session service together, with what must hold of a     *)
(* cast from the first tap to the radio being quiet again.                 *)
(***************************************************************************)
EXTENDS CastController, ImiraSession

vars == <<fileVars, appVars, sessVars>>

Init == FilesInit /\ AppInit /\ SessInit

UserOpens == Open /\ UNCHANGED sessVars
AppPolls == Poll /\ UNCHANGED sessVars
UserStarts == Start /\ UNCHANGED sessVars
UserStops == Stop /\ UNCHANGED sessVars
UserScans == Scan /\ UNCHANGED sessVars
UserReports == CreateReport /\ UNCHANGED sessVars
UserSetsDebug == \E on \in BOOLEAN : SetDebugLog(on) /\ UNCHANGED sessVars
UserCloses == Close /\ UNCHANGED sessVars
AppCrashes == Crash /\ UNCHANGED sessVars
AliveAges == HeartbeatAges /\ UNCHANGED sessVars

Next ==
  \/ UserOpens \/ AppPolls \/ UserStarts \/ UserStops \/ UserScans
  \/ UserReports \/ UserSetsDebug \/ UserCloses \/ AppCrashes \/ AliveAges
  \/ SessNext

\* The script runs as long as the unit does, systemd runs its jobs, an app
\* that is gone stops touching the heartbeat, an app that runs keeps polling,
\* a process told to end does, and 15 seconds pass.  Taps, sinks, the radio
\* and crashes owe nobody anything.
Fairness ==
  /\ WF_vars(Script)
  /\ WF_vars(UnitStart \/ UnitStop)
  /\ WF_vars(AliveAges /\ app = "closed")
  /\ WF_vars(AppPolls)
  /\ WF_vars(ProtoEnds /\ proto = "dying")
  /\ WF_vars(GraceEnds)

Spec == Init /\ [][Next]_vars

FairSpec == Spec /\ Fairness

-------------------------------------------------------------------------------
(* Invariants *)

TypeOK == FilesTypeOK /\ AppTypeOK /\ SessTypeOK

\* A service at rest that ended its last session itself has left nothing of
\* it behind: no castd, no RTSP session, no group, no DHCP server and no
\* silence sink that would keep the phone's media mute
\* (imira-session.sh:545-573).
IdleIsQuiet ==
  pc = "idle" /\ ~dirty =>
    /\ ~cast /\ proto \in {"none", "dying"}
    /\ group # "up"
    /\ ~dhcpd /\ ~sinkmod

\* A supplicant of ours can always be found again by its pid file, so no
\* path leaves one running that stop_supplicant would miss.
SupplicantTracked == supp # "down" => pidf

\* The hole in the firewall is open only while the DHCP server of this
\* session runs on that interface, or since a service was killed with it
\* open; and it never doubles (dhcpd_start, dhcpd_stop).
HoleAccounted ==
  \A g \in Gifs :
    /\ fw[g] <= 1
    /\ fw[g] > 0 => (dhcpd /\ gif = g) \/ g \in leak

\* A supplicant that answers was started with no orphaned group interface
\* around: those make every connect fail at once (remove_stale_groups).
NoOrphanUnderSupplicant == supp = "up" => group # "left"

\* Frames counted in the log are frames of this attempt: no castd of an
\* earlier one writes into the log a new attempt has emptied, which would
\* show "streaming" and keep a dead session from counting as failed
\* (imira-session.sh:428-431, 441, 506-508).
FramesAreOfThisAttempt == pc = "connect" \/ proto = "listening" => ~frames

\* What the app reads from a service at rest never says that a cast runs:
\* the app would offer Stop instead of Start, and skip the unit stop when it
\* closes (imira-session.sh:354, 409-414, 573).
RestIsTold == pc = "idle" => ~Running(status)

-------------------------------------------------------------------------------
(* Action properties *)

\* A connection attempt begins only on a start the user pressed since the
\* service came up and since the last session ended, and has not taken back;
\* a flag left over by a crash, or a stop that races the service, never
\* connects (imira-session.sh:349-352, castcontroller.cpp:108-112).
AttemptOnlyOnPress ==
  [][pc = "loop" /\ pc' = "connect" => intent = "cast"]_vars

-------------------------------------------------------------------------------
(* Liveness *)

\* A stop is obeyed: the service comes to rest with castd dead, unless the
\* user starts again.
StopEndsCast ==
  (intent = "stop") ~> (pc \in {"idle", "down"} /\ ~cast) \/ intent = "cast"

\* An app that is gone for good takes the service with it.
GoneAppEndsService == <>[](app = "closed") => <>[](pc = "down")

-------------------------------------------------------------------------------
(* A statement of the repository that the code does not keep *)

\* "Without a single frame sent a session counts as a failed attempt -
\* otherwise it reconnects for ever" (imira-session.sh:536-537): no session
\* makes a fourth attempt after three that sent nothing.
NoEndlessReconnect == blank <= 3
================================================================================
