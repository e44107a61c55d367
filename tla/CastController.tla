----------------------------- MODULE CastController -----------------------------
(***************************************************************************)
(* The app side: CastController, one instance per run of the app, and the *)
(* buttons of the pages that call it.  It owns no state of the cast; it   *)
(* writes flag files, touches the heartbeat once a second and repeats the *)
(* status file to the user.                                                *)
(***************************************************************************)
EXTENDS FlagFiles

\* What the pages call a cast underway.
Running(s) == s \in {"starting", "connecting", "handshake", "streaming"}

\* The states the app reacts to in the same way.
Shown(s) == IF Running(s) THEN "running"
            ELSE IF s = "nowlan" THEN "idle" ELSE s

AppTypeOK ==
  /\ app \in {"closed", "opening", "open"}
  /\ mstate \in {"idle", "running", "scanning", "reporting", "error"}

AppInit ==
  /\ app = "closed"
  /\ mstate = "idle"

\* Constructor: ask systemd for the service, then poll.
Open ==
  /\ app = "closed"
  /\ app' = "opening"
  /\ mstate' = "idle"
  /\ job' = "start"
  /\ UNCHANGED <<startFlag, stopFlag, scanFlag, reportReq, debugFlag, alive,
                 status, intent>>

\* One tick of the 1 s timer.  The service truncates the status file before
\* it writes the new line; a poll that falls between reads idle.
Poll ==
  /\ app \in {"opening", "open"}
  /\ app' = "open"
  /\ alive' = TRUE
  /\ mstate' \in {Shown(status), "idle"}
  /\ UNCHANGED <<startFlag, stopFlag, scanFlag, reportReq, debugFlag, status,
                 job, intent>>

Start ==
  /\ app = "open"
  /\ mstate # "running"
  /\ stopFlag' = FALSE
  /\ startFlag' = TRUE
  /\ intent' = "cast"
  /\ UNCHANGED <<scanFlag, reportReq, debugFlag, alive, status, job, appVars>>

\* Mutant: only the stop flag is set.
StopKeepsStart ==
  /\ stopFlag' = TRUE
  /\ intent' = "stop"
  /\ UNCHANGED startFlag

\* stop(): the start flag goes first, then the stop flag appears.
StopFiles ==
  /\ startFlag' = FALSE
  /\ stopFlag' = TRUE
  /\ intent' = "stop"

Stop ==
  /\ app = "open"
  /\ mstate = "running"
  /\ StopFiles
  /\ UNCHANGED <<scanFlag, reportReq, debugFlag, alive, status, job, appVars>>

Scan ==
  /\ "scan" \in UserOps
  /\ app = "open"
  /\ mstate \notin {"running", "scanning", "reporting"}
  /\ scanFlag' = TRUE
  /\ UNCHANGED <<startFlag, stopFlag, reportReq, debugFlag, alive, status, job,
                 intent, appVars>>

CreateReport ==
  /\ "report" \in UserOps
  /\ app = "open"
  /\ mstate \notin {"running", "reporting"}
  /\ reportReq' = TRUE
  /\ UNCHANGED <<startFlag, stopFlag, scanFlag, debugFlag, alive, status, job,
                 intent, appVars>>

SetDebugLog(on) ==
  /\ "debug" \in UserOps
  /\ app = "open"
  /\ debugFlag' = on
  /\ UNCHANGED <<startFlag, stopFlag, scanFlag, reportReq, alive, status, job,
                 intent, appVars>>

\* Destructor.  Mid-session the stop flag is set and the service is left to
\* clean up; otherwise the unit is stopped.
Close ==
  /\ app = "open"
  /\ app' = "closed"
  /\ alive' = FALSE
  /\ IF mstate # "idle"
     THEN StopFiles /\ UNCHANGED job
     ELSE job' = "stop" /\ UNCHANGED <<startFlag, stopFlag, intent>>
  /\ UNCHANGED <<scanFlag, reportReq, debugFlag, status, mstate>>

\* The destructor never runs (hard kill): the heartbeat file stays behind.
Crash ==
  /\ "appcrash" \in Faults
  /\ app # "closed"
  /\ app' = "closed"
  /\ UNCHANGED <<fileVars, mstate>>

\* More than 10 s without a poll: the app is gone, or the phone slept (the
\* age is wall-clock time).
HeartbeatAges ==
  /\ alive
  /\ app = "closed" \/ "suspend" \in Faults
  /\ alive' = FALSE
  /\ UNCHANGED <<startFlag, stopFlag, scanFlag, reportReq, debugFlag, status,
                 job, intent, appVars>>
================================================================================
