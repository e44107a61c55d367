------------------------------ MODULE ImiraSession ------------------------------
(***************************************************************************)
(* device/imira-session.sh, the root service, with the processes and the  *)
(* kernel state it owns: the P2P supplicant, the Wi-Fi Direct group, the  *)
(* RTSP process, castd with its silence sink, the DHCP server and its     *)
(* firewall rule.                                                          *)
(*                                                                         *)
(* pc is where the script stands.  A step is one pass of a loop body, cut *)
(* where the script sleeps or waits for a child, because that is where    *)
(* the app and the radio get in between.                                   *)
(***************************************************************************)
EXTENDS FlagFiles, Naturals

CONSTANTS
  Gifs,       \* names a group interface may get
  NoGif,      \* GIF is still unset
  MaxBlank,   \* how far attempts without a frame are counted
  UsesAlfa    \* the external adapter wlan1 is preferred (prefer-alfa)

ASSUME GifsAssumption == NoGif \notin Gifs /\ UsesAlfa \in BOOLEAN

ASSUME MaxBlankAssumption == MaxBlank \in Nat

VARIABLES
  pc,         \* where the script stands; down: the unit is not running
  grace,      \* the first 15 s of the service are over
  fails,      \* FAILS
  radio,      \* the WLAN switch
  supp,       \* wpa_supplicant: down, up, or mute (alive, answers no ping)
  pidf,       \* /var/run/imira-wpa.pid exists
  wpaMode,    \* /var/run/imira-wpa.mode
  group,      \* Wi-Fi Direct group: none, up, or left (interface orphaned)
  proto,      \* imira-wfd-proto.py: none, listening, playing, dying
  cast,       \* an imira-castd (or imira-comp) process exists
  sinkmod,    \* castd's silence sink is loaded in PulseAudio
  frames,     \* castd's log of this attempt reports frames
  dhcpd,      \* DHCPD_PID is set
  gif,        \* GIF
  fw,         \* number of udp/67 rules per interface
  dirty,      \* history: a session was killed and none has cleaned up since
  leak,       \* history: interfaces whose rule outlived a killed service
  blank       \* history: attempts in a row that sent no frame

procVars == <<supp, pidf, wpaMode, group>>
castVars == <<proto, cast, sinkmod, frames>>
netVars == <<dhcpd, gif, fw, leak>>
sessVars == <<pc, grace, fails, radio, procVars, castVars, netVars, dirty, blank>>

SessionPcs == {"arming", "armed", "loop", "connect", "listen", "serve", "cleanup", "wipe"}
Pcs == SessionPcs \cup {"down", "boot", "idle", "scan", "find", "refind",
                        "report", "diag", "compose"}

SessTypeOK ==
  /\ pc \in Pcs
  /\ grace \in BOOLEAN
  /\ fails \in 0..3
  /\ radio \in BOOLEAN
  /\ supp \in {"down", "up", "mute"}
  /\ pidf \in BOOLEAN
  /\ wpaMode \in {"none", "normal", "debug"}
  /\ group \in {"none", "up", "left"}
  /\ proto \in {"none", "listening", "playing", "dying"}
  /\ cast \in BOOLEAN
  /\ sinkmod \in BOOLEAN
  /\ frames \in BOOLEAN
  /\ dhcpd \in BOOLEAN
  /\ gif \in Gifs \cup {NoGif}
  /\ fw \in [Gifs -> Nat]
  /\ dirty \in BOOLEAN
  /\ leak \in SUBSET Gifs
  /\ blank \in 0..MaxBlank

SessInit ==
  /\ pc = "down" /\ grace = FALSE /\ fails = 0 /\ radio = TRUE
  /\ supp = "down" /\ pidf = FALSE /\ wpaMode = "none" /\ group = "none"
  /\ proto = "none" /\ cast = FALSE /\ sinkmod = FALSE /\ frames = FALSE
  /\ dhcpd = FALSE /\ gif = NoGif /\ fw = [g \in Gifs |-> 0]
  /\ dirty = FALSE /\ leak = {} /\ blank = 0

Goto(from, to) == pc = from /\ pc' = to

-------------------------------------------------------------------------------
(* Helpers of the script. *)

WpaMode == IF debugFlag THEN "debug" ELSE "normal"

\* The ping of ensure_supplicant is answered: a supplicant of ours runs and
\* was not just killed for running in the wrong log mode.
Answers == supp = "up" /\ (wpaMode = WpaMode \/ ~pidf)

\* Mutant: a supplicant that does not come up leaves no pid file.
EnsureForgetsPid(good) ==
  /\ good \/ "supplicant" \in Faults
  /\ IF Answers
     THEN good /\ UNCHANGED procVars
     ELSE /\ supp' \in IF good THEN {"up"} ELSE {"mute", "down"}
          /\ pidf' = good
          /\ wpaMode' = WpaMode
          /\ group' = "none"

\* Mutant: no remove_stale_groups.
EnsureKeepsOrphans(good) ==
  /\ good \/ "supplicant" \in Faults
  /\ IF Answers
     THEN good /\ UNCHANGED procVars
     ELSE /\ supp' \in IF good THEN {"up"} ELSE {"mute", "down"}
          /\ pidf' = TRUE
          /\ wpaMode' = WpaMode
          /\ UNCHANGED group

\* ensure_supplicant.  A supplicant that does not answer is replaced, and
\* orphaned group interfaces are removed while none runs.
EnsureSupplicant(good) ==
  /\ good \/ "supplicant" \in Faults
  /\ IF Answers
     THEN good /\ UNCHANGED procVars
     ELSE /\ supp' \in IF good THEN {"up"} ELSE {"mute", "down"}
          /\ pidf' = TRUE
          /\ wpaMode' = WpaMode
          /\ group' = "none"

\* stop_supplicant: only a supplicant with a pid file is found.  Its group
\* interface may stay behind.
StopSupplicant ==
  /\ supp' = IF pidf THEN "down" ELSE supp
  /\ pidf' = FALSE
  /\ group' \in IF pidf /\ group = "up" THEN {"none", "left"} ELSE {group}
  /\ UNCHANGED wpaMode

\* recover_iface: reload the Alfa's driver under a fresh supplicant.  The
\* old one is killed by its pid file before ensure_supplicant pings.
RecoverIface ==
  IF ~UsesAlfa \/ (supp = "up" /\ ~pidf) THEN UNCHANGED procVars
  ELSE /\ supp' \in IF "supplicant" \in Faults THEN {"up", "mute", "down"}
                                              ELSE {"up"}
       /\ pidf' = TRUE
       /\ wpaMode' = WpaMode
       /\ group' = "none"

\* Mutant: the rule of a killed session is not removed first.
DhcpdStartOnTop(g) ==
  /\ \E n \in {0, 1} : fw' = [fw EXCEPT ![g] = @ + n]
  /\ dhcpd' = TRUE
  /\ leak' = leak \ {g}

\* iptables -D as often as it succeeds, then -I once; the insertion may fail.
DhcpdStart(g) ==
  /\ \E n \in {0, 1} : fw' = [fw EXCEPT ![g] = n]
  /\ dhcpd' = TRUE
  /\ leak' = leak \ {g}

DhcpdStop ==
  /\ dhcpd' = FALSE
  /\ fw' = IF dhcpd /\ gif \in Gifs /\ fw[gif] > 0
           THEN [fw EXCEPT ![gif] = @ - 1] ELSE fw
  /\ UNCHANGED <<gif, leak>>

\* castd ends: told to, it unloads its silence sink; killed, it cannot.
CastEnds ==
  /\ cast' = FALSE
  /\ UNCHANGED sinkmod \/ (cast /\ sinkmod' = FALSE)

\* kill -9 by name; the silence sink is left to whoever finds it.
KillCast == cast' = FALSE

\* p2p_group_remove '*' reaches the groups of a supplicant that answers.
GroupRemoved == IF supp = "up" /\ group = "up" THEN "none" ELSE group

Counted(n) == IF n < MaxBlank THEN n + 1 ELSE n

-------------------------------------------------------------------------------
(* systemd: a unit that ends takes its whole control group with it. *)

EndUnit ==
  /\ pc' = "down"
  /\ supp' = "down"
  /\ group' \in IF group = "up" THEN {"none", "left"} ELSE {group}
  /\ proto' = "none"
  /\ CastEnds
  /\ dhcpd' = FALSE
  /\ leak' = leak \cup {g \in Gifs : fw[g] > 0}
  /\ dirty' = (dirty \/ pc \in SessionPcs)
  /\ UNCHANGED <<startFlag, stopFlag, scanFlag, reportReq, debugFlag, alive,
                 status, intent, grace, fails, radio, pidf, wpaMode, frames,
                 gif, fw, blank, appVars>>

\* StartUnit does nothing to a unit that is active.
UnitStart ==
  /\ job = "start"
  /\ job' = "none"
  /\ pc' = IF pc = "down" THEN "boot" ELSE pc
  /\ UNCHANGED <<startFlag, stopFlag, scanFlag, reportReq, debugFlag, alive,
                 status, intent, grace, fails, radio, procVars, castVars,
                 netVars, dirty, blank, appVars>>

\* StopUnit: SIGTERM, and the script has no handler for it.
UnitStop ==
  /\ job = "stop"
  /\ job' = "none"
  /\ EndUnit

\* The service dies of something else; Restart=on-failure brings it back.
UnitDies ==
  /\ "kill" \in Faults
  /\ pc # "down"
  /\ job' = IF job = "stop" THEN "stop" ELSE "start"
  /\ EndUnit

-------------------------------------------------------------------------------
(* Start of the script and the idle half of its main loop. *)

\* A flag left behind never starts a cast by itself.
Boot ==
  /\ Goto("boot", "idle")
  /\ startFlag' = FALSE /\ stopFlag' = FALSE /\ scanFlag' = FALSE
  /\ intent' = "none"
  /\ status' = "idle"
  /\ grace' = FALSE
  /\ gif' = NoGif
  /\ UNCHANGED <<reportReq, debugFlag, alive, job, fails, radio, procVars,
                 castVars, dhcpd, fw, leak, dirty, blank, appVars>>

AtIdle == pc = "idle" /\ ~startFlag

IdleExit ==
  /\ AtIdle
  /\ AppGone /\ grace
  /\ EndUnit
  /\ UNCHANGED job

Resting == AtIdle /\ ~(AppGone /\ grace)

IdleReport ==
  /\ Resting /\ reportReq
  /\ pc' = "report"
  /\ reportReq' = FALSE
  /\ status' = "reporting"
  /\ UNCHANGED <<startFlag, stopFlag, scanFlag, debugFlag, alive, job, intent,
                 grace, fails, radio, procVars, castVars, netVars, dirty, blank, appVars>>

IdleNoWlan ==
  /\ Resting /\ ~reportReq /\ ~radio
  /\ status' = "nowlan"
  /\ scanFlag' = FALSE
  /\ UNCHANGED <<startFlag, stopFlag, reportReq, debugFlag, alive, job, intent,
                 sessVars, appVars>>

IdleScan ==
  /\ Resting /\ ~reportReq /\ radio /\ scanFlag
  /\ pc' = "scan"
  /\ scanFlag' = FALSE
  /\ status' = "scanning"
  /\ UNCHANGED <<startFlag, stopFlag, reportReq, debugFlag, alive, job, intent,
                 grace, fails, radio, procVars, castVars, netVars, dirty, blank, appVars>>

IdleWlanBack ==
  /\ Resting /\ ~reportReq /\ radio /\ ~scanFlag
  /\ status = "nowlan"
  /\ status' = "idle"
  /\ UNCHANGED <<startFlag, stopFlag, scanFlag, reportReq, debugFlag, alive, job,
                 intent, sessVars, appVars>>

\* What a step of a scan or a report leaves alone.
AsideUnchanged ==
  UNCHANGED <<startFlag, stopFlag, scanFlag, reportReq, alive, job, intent,
              grace, fails, radio, castVars, netVars, dirty, blank, appVars>>

ScanFails ==
  /\ Goto("scan", "idle")
  /\ EnsureSupplicant(FALSE)
  /\ status' = "error"
  /\ AsideUnchanged /\ UNCHANGED debugFlag

ScanBegins ==
  /\ Goto("scan", "find")
  /\ EnsureSupplicant(TRUE)
  /\ AsideUnchanged /\ UNCHANGED <<status, debugFlag>>

\* An empty first scan is repeated once after recover_iface.
ScanEmpty ==
  /\ Goto("find", "refind")
  /\ RecoverIface
  /\ status' = "scanning"
  /\ AsideUnchanged /\ UNCHANGED debugFlag

ScanDone ==
  /\ Goto("find", "idle") \/ Goto("refind", "idle")
  /\ StopSupplicant
  /\ status' = "idle"
  /\ AsideUnchanged /\ UNCHANGED debugFlag

ReportBegins ==
  /\ IF radio
     THEN Goto("report", "diag") /\ \E good \in BOOLEAN : EnsureSupplicant(good)
     ELSE Goto("report", "compose") /\ UNCHANGED procVars
  /\ AsideUnchanged /\ UNCHANGED <<status, debugFlag>>

DiagDone ==
  /\ Goto("diag", "compose")
  /\ StopSupplicant
  /\ AsideUnchanged /\ UNCHANGED <<status, debugFlag>>

ReportDone ==
  /\ Goto("compose", "idle")
  /\ debugFlag' = FALSE
  /\ status' = "idle"
  /\ AsideUnchanged /\ UNCHANGED procVars

-------------------------------------------------------------------------------
(* The start flag and the session loop. *)

StartNoWlan ==
  /\ pc = "idle" /\ startFlag
  /\ ~radio
  /\ status' = "nowlan"
  /\ UNCHANGED <<startFlag, stopFlag, scanFlag, reportReq, debugFlag, alive, job,
                 intent, sessVars, appVars>>

\* The start flag is seen here, and the old stop flag removed in the next
\* step: a stop in between loses its stop flag.
SeesStart ==
  /\ Goto("idle", "arming") /\ startFlag
  /\ radio
  /\ UNCHANGED <<fileVars, grace, fails, radio, procVars, castVars, netVars,
                 dirty, blank, appVars>>

Arm ==
  /\ Goto("arming", "armed")
  /\ stopFlag' = FALSE
  /\ status' = "starting"
  /\ blank' = 0
  /\ UNCHANGED <<startFlag, scanFlag, reportReq, debugFlag, alive, job, intent,
                 grace, fails, radio, procVars, castVars, netVars, dirty, appVars>>

\* The start flag stays: the main loop comes straight back here.
ArmFails ==
  /\ Goto("armed", "idle")
  /\ EnsureSupplicant(FALSE)
  /\ status' = "error"
  /\ AsideUnchanged /\ UNCHANGED debugFlag

ArmOk ==
  /\ Goto("armed", "loop")
  /\ EnsureSupplicant(TRUE)
  /\ fails' = 0
  /\ UNCHANGED <<fileVars, grace, radio, castVars, netVars, dirty, blank, appVars>>

\* Mutant: the heartbeat is not looked at.
SessionOverBlind == ~startFlag \/ stopFlag \/ fails >= 3

SessionOver == ~startFlag \/ stopFlag \/ AppGone \/ fails >= 3

SessionEnds ==
  /\ Goto("loop", "cleanup")
  /\ SessionOver
  /\ UNCHANGED <<fileVars, grace, fails, radio, procVars, castVars, netVars,
                 dirty, blank, appVars>>

\* Mutant: a castd left over is not killed.
AttemptKeepsCast ==
  /\ Goto("loop", "connect")
  /\ ~SessionOver
  /\ group' = GroupRemoved
  /\ status' = "connecting"
  /\ frames' = FALSE
  /\ UNCHANGED <<startFlag, stopFlag, scanFlag, reportReq, debugFlag, alive, job,
                 intent, grace, fails, radio, supp, pidf, wpaMode, proto, cast,
                 sinkmod, netVars, dirty, blank, appVars>>

Attempt ==
  /\ Goto("loop", "connect")
  /\ ~SessionOver
  /\ KillCast
  /\ group' = GroupRemoved
  /\ status' = "connecting"
  /\ frames' = FALSE
  /\ UNCHANGED <<startFlag, stopFlag, scanFlag, reportReq, debugFlag, alive, job,
                 intent, grace, fails, radio, supp, pidf, wpaMode, proto,
                 sinkmod, netVars, dirty, blank, appVars>>

\* imira-connect.sh printed nothing: no sink, no group, or it was told to
\* abort.  A negotiation under way may still end in a group (Connect).
ConnectFails ==
  /\ Goto("connect", "loop")
  /\ fails' = fails + 1
  /\ status' = "error"
  /\ \/ RecoverIface
     \/ /\ ~UsesAlfa /\ supp = "up"
        /\ group' = "up"
        /\ UNCHANGED <<supp, pidf, wpaMode>>
  /\ blank' = Counted(blank)
  /\ UNCHANGED <<startFlag, stopFlag, scanFlag, reportReq, debugFlag, alive, job,
                 intent, grace, radio, castVars, netVars, dirty, appVars>>

\* The group is up and the RTSP process is started.  Connecting takes longer
\* than the RTSP process of the attempt before needs to end.
ConnectOk(g) ==
  /\ Goto("connect", "listen")
  /\ supp = "up" /\ proto = "none"
  /\ fails' = 0
  /\ gif' = g
  /\ group' = "up"
  /\ proto' = "listening"
  /\ UNCHANGED <<fileVars, grace, radio, supp, pidf, wpaMode, cast, sinkmod,
                 frames, dhcpd, fw, leak, dirty, blank, appVars>>

\* Address set; as group owner we also hand out the sink's.
Serve ==
  /\ Goto("listen", "serve")
  /\ DhcpdStart(gif) \/ UNCHANGED <<dhcpd, fw, leak>>
  /\ UNCHANGED <<fileVars, grace, fails, radio, procVars, castVars, gif, dirty,
                 blank, appVars>>

ProtoAlive == proto \in {"listening", "playing"}

\* Mutant: the stop flag is not looked at.
ServeOverDeaf == ~ProtoAlive \/ AppGone

ServeOver == ~ProtoAlive \/ stopFlag \/ AppGone

ServePoll ==
  /\ pc = "serve"
  /\ ~ServeOver
  /\ status' = IF frames THEN "streaming" ELSE "handshake"
  /\ UNCHANGED <<startFlag, stopFlag, scanFlag, reportReq, debugFlag, alive, job,
                 intent, sessVars, appVars>>

\* SIGTERM for the RTSP process, DHCP server and firewall rule away.  A
\* castd the RTSP process was just starting may escape it.
ServeEnds ==
  /\ Goto("serve", "loop")
  /\ ServeOver
  /\ proto' = IF proto = "playing" THEN "dying" ELSE "none"
  /\ cast' \in IF proto = "listening" THEN BOOLEAN ELSE {cast}
  /\ DhcpdStop
  /\ IF ~frames /\ ~stopFlag /\ ~AppGone
     THEN fails' = fails + 1 /\ status' = "error" /\ blank' = Counted(blank)
     ELSE UNCHANGED <<fails, status>> /\ blank' = IF frames THEN 0 ELSE blank
  /\ UNCHANGED <<startFlag, stopFlag, scanFlag, reportReq, debugFlag, alive, job,
                 intent, grace, radio, procVars, sinkmod, frames, dirty, appVars>>

\* Mutant: the silence sink is left loaded.
CleanupKeepsSink ==
  /\ Goto("cleanup", "wipe")
  /\ DhcpdStop
  /\ KillCast
  /\ supp' = IF pidf THEN "down" ELSE supp
  /\ pidf' = FALSE
  /\ group' = GroupRemoved
  /\ UNCHANGED <<fileVars, grace, fails, radio, wpaMode, proto, sinkmod, frames,
                 dirty, blank, appVars>>

\* After the loop: kill what is left, unload the silence sink, take the
\* group down and the supplicant with it.
Cleanup ==
  /\ Goto("cleanup", "wipe")
  /\ DhcpdStop
  /\ KillCast
  /\ sinkmod' = FALSE
  /\ supp' = IF pidf THEN "down" ELSE supp
  /\ pidf' = FALSE
  /\ group' = GroupRemoved
  /\ UNCHANGED <<fileVars, grace, fails, radio, wpaMode, proto, frames, dirty,
                 blank, appVars>>

\* Mutant: the status is not reset.
WipeUntold ==
  /\ Goto("wipe", "idle")
  /\ startFlag' = FALSE
  /\ intent' = "none"
  /\ dirty' = FALSE
  /\ UNCHANGED <<stopFlag, scanFlag, reportReq, debugFlag, alive, status, job,
                 grace, fails, radio, procVars, castVars, netVars, blank, appVars>>

Wipe ==
  /\ Goto("wipe", "idle")
  /\ startFlag' = FALSE
  /\ intent' = "none"
  /\ status' = "idle"
  /\ dirty' = FALSE
  /\ UNCHANGED <<stopFlag, scanFlag, reportReq, debugFlag, alive, job, grace,
                 fails, radio, procVars, castVars, netVars, blank, appVars>>

-------------------------------------------------------------------------------
(* What happens to the service from outside. *)

\* M7: the sink plays, castd is started and may park the phone's audio.
SinkPlays ==
  /\ proto = "listening" /\ group = "up"
  /\ proto' = "playing"
  /\ cast' = TRUE
  /\ sinkmod' \in {sinkmod, TRUE}
  /\ UNCHANGED <<fileVars, pc, grace, fails, radio, procVars, frames, netVars,
                 dirty, blank, appVars>>

\* castd writes its count to the log the RTSP process was given, which the
\* next attempt empties and reuses.
FramesLogged ==
  /\ cast /\ ~frames
  /\ frames' = TRUE
  /\ UNCHANGED <<fileVars, pc, grace, fails, radio, procVars, proto, cast,
                 sinkmod, netVars, dirty, blank, appVars>>

\* The sink hangs up, stays silent or never comes; or SIGTERM was handled.
\* castd is told to end and not waited for.
ProtoEnds ==
  /\ proto # "none"
  /\ proto' = "none"
  /\ CastEnds \/ UNCHANGED <<cast, sinkmod>>
  /\ UNCHANGED <<fileVars, pc, grace, fails, radio, procVars, frames, netVars,
                 dirty, blank, appVars>>

\* castd dies; the RTSP process does not look after it.
CastDies ==
  /\ cast
  /\ CastEnds
  /\ UNCHANGED <<fileVars, pc, grace, fails, radio, procVars, proto, frames,
                 netVars, dirty, blank, appVars>>

GroupDrops ==
  /\ group = "up"
  /\ group' = "none"
  /\ UNCHANGED <<fileVars, pc, grace, fails, radio, supp, pidf, wpaMode, castVars,
                 netVars, dirty, blank, appVars>>

SupplicantDies ==
  /\ "supplicant" \in Faults
  /\ supp # "down"
  /\ supp' = "down"
  /\ group' = IF group = "up" THEN "left" ELSE group
  /\ UNCHANGED <<fileVars, pc, grace, fails, radio, pidf, wpaMode, castVars,
                 netVars, dirty, blank, appVars>>

RadioSwitched ==
  /\ "radio" \in Faults
  /\ radio' = ~radio
  /\ UNCHANGED <<fileVars, pc, grace, fails, procVars, castVars, netVars, dirty,
                 blank, appVars>>

\* The constructor of the app polls right after it asked for the unit: that
\* takes less than the 15 s of grace.
GraceEnds ==
  /\ pc # "down" /\ ~grace
  /\ app # "opening"
  /\ grace' = TRUE
  /\ UNCHANGED <<fileVars, pc, fails, radio, procVars, castVars, netVars, dirty,
                 blank, appVars>>

\* The steps of the script itself.
Script ==
  \/ Boot \/ IdleExit \/ IdleReport \/ IdleNoWlan \/ IdleScan \/ IdleWlanBack
  \/ ScanFails \/ ScanBegins \/ ScanEmpty \/ ScanDone
  \/ ReportBegins \/ DiagDone \/ ReportDone
  \/ StartNoWlan \/ SeesStart \/ Arm \/ ArmFails \/ ArmOk
  \/ SessionEnds \/ Attempt \/ ConnectFails \/ (\E g \in Gifs : ConnectOk(g))
  \/ Serve \/ ServePoll \/ ServeEnds \/ Cleanup \/ Wipe

SessNext ==
  \/ Script
  \/ UnitStart \/ UnitStop \/ UnitDies
  \/ SinkPlays \/ FramesLogged \/ ProtoEnds \/ CastDies \/ GroupDrops
  \/ SupplicantDies \/ RadioSwitched \/ GraceEnds
================================================================================
