------------------------------- MODULE FlagFiles -------------------------------
(***************************************************************************)
(* The interface between the app and the session service: the files in    *)
(* /tmp both sides read and write, the systemd job the app queues, and    *)
(* the two variables of the app a reader of those files depends on.       *)
(*                                                                         *)
(* Flag files carry no data, so each is a BOOLEAN.  The heartbeat file is  *)
(* judged by its age only; the status file by its first word.              *)
(***************************************************************************)

CONSTANTS
  UserOps,   \* the optional requests users make: a scan, a report, a debug log
  Faults     \* what may go wrong around the program

ASSUME UserOpsAssumption == UserOps \subseteq {"scan", "report", "debug"}

ASSUME FaultsAssumption ==
  Faults \subseteq {"supplicant", "radio", "kill", "suspend", "appcrash"}

VARIABLES
  startFlag,    \* /tmp/imira-start exists
  stopFlag,     \* /tmp/imira-stop exists
  scanFlag,     \* /tmp/imira-scan exists
  reportReq,    \* /tmp/imira-report-request exists
  debugFlag,    \* /tmp/imira-debug exists
  alive,        \* /tmp/imira-app-alive exists and is younger than 10 s
  status,       \* first word of /tmp/imira-status
  job,          \* the systemd job queued for imira.service, if any
  intent,       \* history: what the user last asked for, since the service
                \* last wiped the start flag
  app,          \* the app: closed, opening (no poll yet) or open
  mstate        \* its m_state, the status word of the last poll, as far as
                \* the app tells the words apart

fileVars == <<startFlag, stopFlag, scanFlag, reportReq, debugFlag, alive,
              status, job, intent>>

appVars == <<app, mstate>>

States == {"idle", "starting", "scanning", "connecting", "handshake",
           "streaming", "reporting", "error", "nowlan"}

FilesTypeOK ==
  /\ startFlag \in BOOLEAN
  /\ stopFlag \in BOOLEAN
  /\ scanFlag \in BOOLEAN
  /\ reportReq \in BOOLEAN
  /\ debugFlag \in BOOLEAN
  /\ alive \in BOOLEAN
  /\ status \in States
  /\ job \in {"none", "start", "stop"}
  /\ intent \in {"none", "cast", "stop"}

\* Nothing in /tmp yet; a missing status file reads as idle.
FilesInit ==
  /\ startFlag = FALSE /\ stopFlag = FALSE /\ scanFlag = FALSE
  /\ reportReq = FALSE /\ debugFlag = FALSE
  /\ alive = FALSE
  /\ status = "idle"
  /\ job = "none"
  /\ intent = "none"

\* The service's verdict on the heartbeat: missing or older than 10 s.
AppGone == ~alive
================================================================================
