----------------------------- MODULE ImiraCast_proofs -----------------------------
(***************************************************************************)
(* Proofs about ImiraCast, for every set of interfaces, every mix of user *)
(* requests and faults, and either adapter.                                *)
(*                                                                         *)
(* The invariants of ImiraCast are not inductive one by one.  IInv adds    *)
(* what each step relies on: where the script stands when a process or the *)
(* DHCP server is alive, and what a session leaves to the next one.        *)
(***************************************************************************)
EXTENDS ImiraCast, TLAPS

-------------------------------------------------------------------------------
(* The inductive invariant *)

\* A connection attempt, and what follows it, has a failure left to count.
Budget == pc \in {"connect", "listen", "serve"} => fails < 3

\* A start flag is one the user pressed and has not taken back.
PressedStart == startFlag => intent = "cast"

\* The RTSP process lives only in the part of the script that waits for it.
AliveServing == ProtoAlive => pc \in {"listen", "serve"}

\* An attempt begins with no castd and an empty log; neither appears before
\* the sink plays.
FreshAttempt == pc = "connect" \/ proto = "listening" => ~cast /\ ~frames

\* The DHCP server lives only while the script serves.
DhcpdServing == dhcpd => pc = "serve"

\* A group that is up has a supplicant that answers.
GroupAnswered == group = "up" => supp = "up"

Quiet == ~cast /\ ~ProtoAlive /\ group # "up" /\ ~dhcpd /\ ~sinkmod

\* All is quiet after the cleanup, and stays so until the next attempt unless
\* a session was killed.
RestQuiet ==
  /\ pc = "wipe" => Quiet
  /\ pc \notin {"loop", "connect", "listen", "serve", "cleanup"} /\ ~dirty => Quiet

\* TypeOK by kind of value: the provers treat Boolean variables apart.
BoolsOK ==
  /\ startFlag \in BOOLEAN /\ stopFlag \in BOOLEAN /\ scanFlag \in BOOLEAN
  /\ reportReq \in BOOLEAN /\ debugFlag \in BOOLEAN /\ alive \in BOOLEAN
  /\ grace \in BOOLEAN /\ radio \in BOOLEAN /\ pidf \in BOOLEAN
  /\ cast \in BOOLEAN /\ sinkmod \in BOOLEAN /\ frames \in BOOLEAN
  /\ dhcpd \in BOOLEAN /\ dirty \in BOOLEAN

EnumsOK ==
  /\ status \in States
  /\ job \in {"none", "start", "stop"}
  /\ intent \in {"none", "cast", "stop"}
  /\ AppTypeOK
  /\ pc \in Pcs
  /\ supp \in {"down", "up", "mute"}
  /\ wpaMode \in {"none", "normal", "debug"}
  /\ group \in {"none", "up", "left"}
  /\ proto \in {"none", "listening", "playing", "dying"}

NumsOK ==
  /\ fails \in 0..3
  /\ gif \in Gifs \cup {NoGif}
  /\ fw \in [Gifs -> Nat]
  /\ leak \in SUBSET Gifs
  /\ blank \in 0..MaxBlank

RestOK ==
  /\ EnumsOK
  /\ NumsOK
  /\ Budget
  /\ PressedStart
  /\ AliveServing
  /\ FreshAttempt
  /\ DhcpdServing
  /\ GroupAnswered
  /\ RestQuiet
  /\ SupplicantTracked
  /\ HoleAccounted
  /\ NoOrphanUnderSupplicant
  /\ RestIsTold

IInv == BoolsOK /\ RestOK

-------------------------------------------------------------------------------
(* The inductive step *)

LEMMA EnsureSupplicantBool ==
  ASSUME NEW good, pidf \in BOOLEAN, EnsureSupplicant(good)
  PROVE  pidf' \in BOOLEAN
BY Zenon DEF EnsureSupplicant, procVars

LEMMA StopSupplicantBool ==
  ASSUME StopSupplicant
  PROVE  pidf' \in BOOLEAN
BY Zenon DEF StopSupplicant

LEMMA RecoverIfaceBool ==
  ASSUME pidf \in BOOLEAN, RecoverIface
  PROVE  pidf' \in BOOLEAN
BY Zenon DEF RecoverIface, procVars

LEMMA CastEndsBool ==
  ASSUME sinkmod \in BOOLEAN, CastEnds
  PROVE  cast' \in BOOLEAN /\ sinkmod' \in BOOLEAN
BY Zenon DEF CastEnds

LEMMA BoolStep ==
  ASSUME BoolsOK, [Next]_vars
  PROVE  BoolsOK'
<1> USE DEF BoolsOK
<1>1. CASE UserOpens
  BY <1>1 DEF UserOpens, Open, sessVars, fileVars, appVars, procVars,
         castVars, netVars
<1>2. CASE AppPolls
  BY <1>2 DEF AppPolls, Poll, sessVars, fileVars, appVars, procVars, castVars,
         netVars
<1>3. CASE UserStarts
  BY <1>3 DEF UserStarts, Start, sessVars, fileVars, appVars, procVars,
         castVars, netVars
<1>4. CASE UserStops
  BY <1>4 DEF UserStops, Stop, StopFiles, sessVars, fileVars, appVars,
         procVars, castVars, netVars
<1>5. CASE UserScans
  BY <1>5 DEF UserScans, Scan, sessVars, fileVars, appVars, procVars,
         castVars, netVars
<1>6. CASE UserReports
  BY <1>6 DEF UserReports, CreateReport, sessVars, fileVars, appVars,
         procVars, castVars, netVars
<1>7. CASE UserSetsDebug
  BY <1>7 DEF UserSetsDebug, SetDebugLog, sessVars, fileVars, appVars,
         procVars, castVars, netVars
<1>8. CASE UserCloses
  BY <1>8 DEF UserCloses, Close, StopFiles, sessVars, fileVars, appVars,
         procVars, castVars, netVars
<1>9. CASE AppCrashes
  BY <1>9 DEF AppCrashes, Crash, sessVars, fileVars, appVars, procVars,
         castVars, netVars
<1>10. CASE AliveAges
  <2>1. (alive \in BOOLEAN)'
    BY <1>10, Zenon DEF AliveAges, HeartbeatAges
  <2>2. QED
    BY <1>10, <2>1 DEF AliveAges, HeartbeatAges, sessVars, fileVars, appVars,
           procVars, castVars, netVars
<1>11. CASE Boot
  BY <1>11 DEF Boot, fileVars, appVars, procVars, castVars, netVars
<1>12. CASE IdleExit
  <2>1. (cast \in BOOLEAN /\ sinkmod \in BOOLEAN)'
    BY <1>12, CastEndsBool DEF IdleExit, EndUnit
  <2>2. (dhcpd \in BOOLEAN /\ dirty \in BOOLEAN)'
    BY <1>12, Zenon DEF IdleExit, EndUnit
  <2>3. QED
    BY <1>12, <2>1, <2>2 DEF IdleExit, EndUnit, fileVars, appVars, procVars,
           castVars, netVars
<1>13. CASE IdleReport
  BY <1>13 DEF IdleReport, Resting, AtIdle, fileVars, appVars, procVars,
         castVars, netVars
<1>14. CASE IdleNoWlan
  BY <1>14 DEF IdleNoWlan, Resting, AtIdle, sessVars, fileVars, appVars,
         procVars, castVars, netVars
<1>15. CASE IdleScan
  BY <1>15 DEF IdleScan, Resting, AtIdle, fileVars, appVars, procVars,
         castVars, netVars
<1>16. CASE IdleWlanBack
  BY <1>16 DEF IdleWlanBack, Resting, AtIdle, sessVars, fileVars, appVars,
         procVars, castVars, netVars
<1>17. CASE ScanFails
  <2>1. (pidf \in BOOLEAN)'
    BY <1>17, EnsureSupplicantBool DEF ScanFails
  <2>2. QED
    BY <1>17, <2>1 DEF ScanFails, AsideUnchanged, fileVars, appVars, procVars,
           castVars, netVars
<1>18. CASE ScanBegins
  <2>1. (pidf \in BOOLEAN)'
    BY <1>18, EnsureSupplicantBool DEF ScanBegins
  <2>2. QED
    BY <1>18, <2>1 DEF ScanBegins, AsideUnchanged, fileVars, appVars,
           procVars, castVars, netVars
<1>19. CASE ScanEmpty
  <2>1. (pidf \in BOOLEAN)'
    BY <1>19, RecoverIfaceBool DEF ScanEmpty
  <2>2. QED
    BY <1>19, <2>1 DEF ScanEmpty, AsideUnchanged, fileVars, appVars, procVars,
           castVars, netVars
<1>20. CASE ScanDone
  <2>1. (pidf \in BOOLEAN)'
    BY <1>20, StopSupplicantBool DEF ScanDone
  <2>2. QED
    BY <1>20, <2>1 DEF ScanDone, AsideUnchanged, fileVars, appVars, procVars,
           castVars, netVars
<1>21. CASE ReportBegins
  <2>1. (pidf \in BOOLEAN)'
    BY <1>21, EnsureSupplicantBool DEF ReportBegins, procVars
  <2>2. QED
    BY <1>21, <2>1 DEF ReportBegins, AsideUnchanged, fileVars, appVars,
           procVars, castVars, netVars
<1>22. CASE DiagDone
  <2>1. (pidf \in BOOLEAN)'
    BY <1>22, StopSupplicantBool DEF DiagDone
  <2>2. QED
    BY <1>22, <2>1 DEF DiagDone, AsideUnchanged, fileVars, appVars, procVars,
           castVars, netVars
<1>23. CASE ReportDone
  <2>1. (debugFlag \in BOOLEAN)'
    BY <1>23, Zenon DEF ReportDone
  <2>2. QED
    BY <1>23, <2>1 DEF ReportDone, AsideUnchanged, fileVars, appVars,
           procVars, castVars, netVars
<1>24. CASE StartNoWlan
  BY <1>24 DEF StartNoWlan, sessVars, fileVars, appVars, procVars, castVars,
         netVars
<1>25. CASE SeesStart
  BY <1>25 DEF SeesStart, fileVars, appVars, procVars, castVars, netVars
<1>26. CASE Arm
  <2>1. (stopFlag \in BOOLEAN)'
    BY <1>26, Zenon DEF Arm
  <2>2. QED
    BY <1>26, <2>1 DEF Arm, fileVars, appVars, procVars, castVars, netVars
<1>27. CASE ArmFails
  <2>1. (pidf \in BOOLEAN)'
    BY <1>27, EnsureSupplicantBool DEF ArmFails
  <2>2. QED
    BY <1>27, <2>1 DEF ArmFails, AsideUnchanged, fileVars, appVars, procVars,
           castVars, netVars
<1>28. CASE ArmOk
  <2>1. (pidf \in BOOLEAN)'
    BY <1>28, EnsureSupplicantBool DEF ArmOk
  <2>2. QED
    BY <1>28, <2>1 DEF ArmOk, fileVars, appVars, procVars, castVars, netVars
<1>29. CASE SessionEnds
  BY <1>29 DEF SessionEnds, fileVars, appVars, procVars, castVars, netVars
<1>30. CASE Attempt
  BY <1>30 DEF Attempt, SessionOver, KillCast, GroupRemoved, fileVars,
         appVars, procVars, castVars, netVars
<1>31. CASE ConnectFails
  <2>1. (pidf \in BOOLEAN)'
    BY <1>31, RecoverIfaceBool DEF ConnectFails, procVars
  <2>2. QED
    BY <1>31, <2>1 DEF ConnectFails, fileVars, appVars, procVars, castVars,
           netVars
<1>32. CASE \E g \in Gifs : ConnectOk(g)
  BY <1>32 DEF ConnectOk, fileVars, appVars, procVars, castVars, netVars
<1>33. CASE Serve
  <2>1. (dhcpd \in BOOLEAN)'
    BY <1>33, Zenon DEF Serve, DhcpdStart
  <2>2. QED
    BY <1>33, <2>1 DEF Serve, fileVars, appVars, procVars, castVars, netVars
<1>34. CASE ServePoll
  BY <1>34 DEF ServePoll, sessVars, fileVars, appVars, procVars, castVars,
         netVars
<1>35. CASE ServeEnds
  <2>1. (cast \in BOOLEAN)'
    BY <1>35, Zenon DEF ServeEnds
  <2>2. (dhcpd \in BOOLEAN)'
    BY <1>35, Zenon DEF ServeEnds, DhcpdStop
  <2>3. QED
    BY <1>35, <2>1, <2>2 DEF ServeEnds, DhcpdStop, fileVars, appVars,
           procVars, castVars, netVars
<1>36. CASE Cleanup
  BY <1>36 DEF Cleanup, DhcpdStop, KillCast, GroupRemoved, fileVars, appVars,
         procVars, castVars, netVars
<1>37. CASE Wipe
  BY <1>37 DEF Wipe, fileVars, appVars, procVars, castVars, netVars
<1>38. CASE UnitStart
  BY <1>38 DEF UnitStart, fileVars, appVars, procVars, castVars, netVars
<1>39. CASE UnitStop
  <2>1. (cast \in BOOLEAN /\ sinkmod \in BOOLEAN)'
    BY <1>39, CastEndsBool DEF UnitStop, EndUnit
  <2>2. (dhcpd \in BOOLEAN /\ dirty \in BOOLEAN)'
    BY <1>39, Zenon DEF UnitStop, EndUnit
  <2>3. QED
    BY <1>39, <2>1, <2>2 DEF UnitStop, EndUnit, fileVars, appVars, procVars,
           castVars, netVars
<1>40. CASE UnitDies
  <2>1. (cast \in BOOLEAN /\ sinkmod \in BOOLEAN)'
    BY <1>40, CastEndsBool DEF UnitDies, EndUnit
  <2>2. (dhcpd \in BOOLEAN /\ dirty \in BOOLEAN)'
    BY <1>40, Zenon DEF UnitDies, EndUnit
  <2>3. QED
    BY <1>40, <2>1, <2>2 DEF UnitDies, EndUnit, fileVars, appVars, procVars,
           castVars, netVars
<1>41. CASE SinkPlays
  <2>1. (cast \in BOOLEAN /\ sinkmod \in BOOLEAN)'
    BY <1>41, Zenon DEF SinkPlays
  <2>2. QED
    BY <1>41, <2>1 DEF SinkPlays, fileVars, appVars, procVars, castVars,
           netVars
<1>42. CASE FramesLogged
  BY <1>42 DEF FramesLogged, fileVars, appVars, procVars, castVars, netVars
<1>43. CASE ProtoEnds
  <2>1. (cast \in BOOLEAN /\ sinkmod \in BOOLEAN)'
    BY <1>43, CastEndsBool DEF ProtoEnds
  <2>2. QED
    BY <1>43, <2>1 DEF ProtoEnds, fileVars, appVars, procVars, castVars,
           netVars
<1>44. CASE CastDies
  <2>1. (cast \in BOOLEAN /\ sinkmod \in BOOLEAN)'
    BY <1>44, CastEndsBool DEF CastDies
  <2>2. QED
    BY <1>44, <2>1 DEF CastDies, fileVars, appVars, procVars, castVars,
           netVars
<1>45. CASE GroupDrops
  BY <1>45 DEF GroupDrops, fileVars, appVars, procVars, castVars, netVars
<1>46. CASE SupplicantDies
  BY <1>46 DEF SupplicantDies, fileVars, appVars, procVars, castVars, netVars
<1>47. CASE RadioSwitched
  BY <1>47 DEF RadioSwitched, fileVars, appVars, procVars, castVars, netVars
<1>48. CASE GraceEnds
  BY <1>48 DEF GraceEnds, fileVars, appVars, procVars, castVars, netVars
<1>49. CASE UNCHANGED vars
  BY <1>49 DEF vars, sessVars, fileVars, appVars, procVars, castVars, netVars
<1>50. QED
  BY <1>1, <1>2, <1>3, <1>4, <1>5, <1>6, <1>7, <1>8, <1>9, <1>10, <1>11,
     <1>12, <1>13, <1>14, <1>15, <1>16, <1>17, <1>18, <1>19, <1>20, <1>21,
     <1>22, <1>23, <1>24, <1>25, <1>26, <1>27, <1>28, <1>29, <1>30, <1>31,
     <1>32, <1>33, <1>34, <1>35, <1>36, <1>37, <1>38, <1>39, <1>40, <1>41,
     <1>42, <1>43, <1>44, <1>45, <1>46, <1>47, <1>48, <1>49
     DEF Next, SessNext, Script

\* A unit that ends takes its processes with it; what stays in the kernel is
\* on the books as leak, and a session cut short as dirty.
LEMMA EndUnitStep ==
  ASSUME RestOK, EndUnit, job' \in {"none", "start", "stop"}
  PROVE  RestOK'
<1> USE DEF RestOK, EndUnit
<1>1. EnumsOK'
  BY DEF EnumsOK, AppTypeOK, States, Pcs, appVars
<1>2. NumsOK'
  BY DEF NumsOK
<1>3. (Budget /\ PressedStart /\ DhcpdServing /\ GroupAnswered
        /\ SupplicantTracked /\ NoOrphanUnderSupplicant /\ RestIsTold)'
  BY DEF Budget, PressedStart, DhcpdServing, GroupAnswered, SupplicantTracked,
         NoOrphanUnderSupplicant, RestIsTold
<1>4. (AliveServing /\ FreshAttempt)'
  BY DEF AliveServing, FreshAttempt, ProtoAlive
<1>5. HoleAccounted'
  BY DEF HoleAccounted, NumsOK
<1>6. RestQuiet'
  <2>1. CASE pc \in {"loop", "connect", "listen", "serve", "cleanup"}
    BY <2>1 DEF RestQuiet, SessionPcs
  <2>2. CASE pc \notin {"loop", "connect", "listen", "serve", "cleanup"}
    <3>1. ~dirty' => ~dirty /\ pc # "wipe"
      BY DEF SessionPcs
    <3>2. ~dirty' => Quiet
      BY <2>2, <3>1 DEF RestQuiet
    <3>3. Quiet => Quiet'
      BY DEF Quiet, CastEnds, ProtoAlive
    <3>4. QED
      BY <3>2, <3>3 DEF RestQuiet
  <2>3. QED
    BY <2>1, <2>2
<1>7. QED
  BY <1>1, <1>2, <1>3, <1>4, <1>5, <1>6

LEMMA InvStep ==
  ASSUME RestOK, [Next]_vars
  PROVE  RestOK'
<1> USE DEF RestOK, EnumsOK, NumsOK, AppTypeOK, States, Pcs, SessionPcs, Budget,
            PressedStart, AliveServing, FreshAttempt, DhcpdServing,
            GroupAnswered, Quiet, RestQuiet, SupplicantTracked, HoleAccounted,
            NoOrphanUnderSupplicant, RestIsTold, Running, ProtoAlive, Goto
<1>1. CASE UserOpens
  BY SMT, <1>1 DEF UserOpens, Open, sessVars, fileVars, appVars, procVars,
         castVars, netVars
<1>2. CASE AppPolls
  BY SMT, <1>2 DEF AppPolls, Poll, sessVars, fileVars, appVars, procVars,
         castVars, netVars, Shown
<1>3. CASE UserStarts
  BY SMT, <1>3 DEF UserStarts, Start, sessVars, fileVars, appVars, procVars,
         castVars, netVars
<1>4. CASE UserStops
  BY SMT, <1>4 DEF UserStops, Stop, StopFiles, sessVars, fileVars, appVars,
         procVars, castVars, netVars
<1>5. CASE UserScans
  BY SMT, <1>5 DEF UserScans, Scan, sessVars, fileVars, appVars, procVars,
         castVars, netVars
<1>6. CASE UserReports
  BY SMT, <1>6 DEF UserReports, CreateReport, sessVars, fileVars, appVars,
         procVars, castVars, netVars
<1>7. CASE UserSetsDebug
  BY SMT, <1>7 DEF UserSetsDebug, SetDebugLog, sessVars, fileVars, appVars,
         procVars, castVars, netVars
<1>8. CASE UserCloses
  BY SMT, <1>8 DEF UserCloses, Close, StopFiles, sessVars, fileVars, appVars,
         procVars, castVars, netVars
<1>9. CASE AppCrashes
  BY SMT, <1>9 DEF AppCrashes, Crash, sessVars, fileVars, appVars, procVars,
         castVars, netVars
<1>10. CASE AliveAges
  BY SMT, <1>10 DEF AliveAges, HeartbeatAges, sessVars, fileVars, appVars,
         procVars, castVars, netVars
<1>11. CASE Boot
  BY SMT, <1>11 DEF Boot, fileVars, appVars, procVars, castVars, netVars
<1>12. CASE IdleExit
  BY <1>12, EndUnitStep DEF IdleExit, AtIdle
<1>13. CASE IdleReport
  BY SMT, <1>13 DEF IdleReport, Resting, AtIdle, fileVars, appVars, procVars,
         castVars, netVars
<1>14. CASE IdleNoWlan
  BY SMT, <1>14 DEF IdleNoWlan, Resting, AtIdle, sessVars, fileVars, appVars,
         procVars, castVars, netVars
<1>15. CASE IdleScan
  BY SMT, <1>15 DEF IdleScan, Resting, AtIdle, fileVars, appVars, procVars,
         castVars, netVars
<1>16. CASE IdleWlanBack
  BY SMT, <1>16 DEF IdleWlanBack, Resting, AtIdle, sessVars, fileVars,
         appVars, procVars, castVars, netVars
<1>17. CASE ScanFails
  BY SMT, <1>17 DEF ScanFails, EnsureSupplicant, Answers, WpaMode,
         AsideUnchanged, fileVars, appVars, procVars, castVars, netVars
<1>18. CASE ScanBegins
  BY SMT, <1>18 DEF ScanBegins, EnsureSupplicant, Answers, WpaMode,
         AsideUnchanged, fileVars, appVars, procVars, castVars, netVars
<1>19. CASE ScanEmpty
  BY SMT, <1>19 DEF ScanEmpty, RecoverIface, WpaMode, AsideUnchanged,
         fileVars, appVars, procVars, castVars, netVars
<1>20. CASE ScanDone
  BY SMT, <1>20 DEF ScanDone, StopSupplicant, AsideUnchanged, fileVars,
         appVars, procVars, castVars, netVars
<1>21. CASE ReportBegins
  BY SMT, <1>21 DEF ReportBegins, EnsureSupplicant, Answers, WpaMode,
         AsideUnchanged, fileVars, appVars, procVars, castVars, netVars
<1>22. CASE DiagDone
  BY SMT, <1>22 DEF DiagDone, StopSupplicant, AsideUnchanged, fileVars,
         appVars, procVars, castVars, netVars
<1>23. CASE ReportDone
  BY SMT, <1>23 DEF ReportDone, AsideUnchanged, fileVars, appVars, procVars,
         castVars, netVars
<1>24. CASE StartNoWlan
  BY SMT, <1>24 DEF StartNoWlan, sessVars, fileVars, appVars, procVars,
         castVars, netVars
<1>25. CASE SeesStart
  BY SMT, <1>25 DEF SeesStart, fileVars, appVars, procVars, castVars, netVars
<1>26. CASE Arm
  BY SMT, <1>26, MaxBlankAssumption DEF Arm, fileVars, appVars, procVars,
         castVars, netVars
<1>27. CASE ArmFails
  BY SMT, <1>27 DEF ArmFails, EnsureSupplicant, Answers, WpaMode,
         AsideUnchanged, fileVars, appVars, procVars, castVars, netVars
<1>28. CASE ArmOk
  BY SMT, <1>28 DEF ArmOk, EnsureSupplicant, Answers, WpaMode, fileVars,
         appVars, procVars, castVars, netVars
<1>29. CASE SessionEnds
  BY SMT, <1>29 DEF SessionEnds, fileVars, appVars, procVars, castVars,
         netVars
<1>30. CASE Attempt
  BY SMT, <1>30 DEF Attempt, SessionOver, KillCast, GroupRemoved, fileVars,
         appVars, procVars, castVars, netVars
<1>31. CASE ConnectFails
  BY SMT, <1>31, MaxBlankAssumption DEF ConnectFails, RecoverIface, WpaMode,
         Counted, fileVars, appVars, procVars, castVars, netVars
<1>32. CASE \E g \in Gifs : ConnectOk(g)
  BY SMT, <1>32 DEF ConnectOk, fileVars, appVars, procVars, castVars, netVars
<1>33. CASE Serve
  BY SMT, <1>33 DEF Serve, DhcpdStart, fileVars, appVars, procVars, castVars,
         netVars
<1>34. CASE ServePoll
  BY SMT, <1>34 DEF ServePoll, sessVars, fileVars, appVars, procVars,
         castVars, netVars
<1>35. CASE ServeEnds
  BY SMT, <1>35, MaxBlankAssumption DEF ServeEnds, ServeOver, DhcpdStop,
         Counted, fileVars, appVars, procVars, castVars, netVars
<1>36. CASE Cleanup
  BY SMT, <1>36 DEF Cleanup, DhcpdStop, KillCast, GroupRemoved, fileVars,
         appVars, procVars, castVars, netVars
<1>37. CASE Wipe
  BY SMT, <1>37 DEF Wipe, fileVars, appVars, procVars, castVars, netVars
<1>38. CASE UnitStart
  BY SMT, <1>38 DEF UnitStart, fileVars, appVars, procVars, castVars, netVars
<1>39. CASE UnitStop
  BY <1>39, EndUnitStep DEF UnitStop
<1>40. CASE UnitDies
  BY <1>40, EndUnitStep DEF UnitDies
<1>41. CASE SinkPlays
  BY SMT, <1>41 DEF SinkPlays, fileVars, appVars, procVars, castVars, netVars
<1>42. CASE FramesLogged
  BY SMT, <1>42 DEF FramesLogged, fileVars, appVars, procVars, castVars,
         netVars
<1>43. CASE ProtoEnds
  BY SMT, <1>43 DEF ProtoEnds, CastEnds, fileVars, appVars, procVars,
         castVars, netVars
<1>44. CASE CastDies
  BY SMT, <1>44 DEF CastDies, CastEnds, fileVars, appVars, procVars, castVars,
         netVars
<1>45. CASE GroupDrops
  BY SMT, <1>45 DEF GroupDrops, fileVars, appVars, procVars, castVars, netVars
<1>46. CASE SupplicantDies
  BY SMT, <1>46 DEF SupplicantDies, fileVars, appVars, procVars, castVars,
         netVars
<1>47. CASE RadioSwitched
  BY SMT, <1>47 DEF RadioSwitched, fileVars, appVars, procVars, castVars,
         netVars
<1>48. CASE GraceEnds
  BY SMT, <1>48 DEF GraceEnds, fileVars, appVars, procVars, castVars, netVars
<1>49. CASE UNCHANGED vars
  BY <1>49 DEF vars, sessVars, fileVars, appVars, procVars, castVars, netVars
<1>50. QED
  BY <1>1, <1>2, <1>3, <1>4, <1>5, <1>6, <1>7, <1>8, <1>9, <1>10, <1>11,
     <1>12, <1>13, <1>14, <1>15, <1>16, <1>17, <1>18, <1>19, <1>20, <1>21,
     <1>22, <1>23, <1>24, <1>25, <1>26, <1>27, <1>28, <1>29, <1>30, <1>31,
     <1>32, <1>33, <1>34, <1>35, <1>36, <1>37, <1>38, <1>39, <1>40, <1>41,
     <1>42, <1>43, <1>44, <1>45, <1>46, <1>47, <1>48, <1>49
     DEF Next, SessNext, Script

LEMMA Inductive == IInv /\ [Next]_vars => IInv'
BY BoolStep, InvStep DEF IInv

LEMMA Initially == Init => IInv
<1> SUFFICES ASSUME Init PROVE IInv
  OBVIOUS
<1> USE DEF Init, FilesInit, AppInit, SessInit
<1>1. BoolsOK
  BY Zenon DEF BoolsOK
<1>2. EnumsOK
  BY DEF EnumsOK, AppTypeOK, States, Pcs
<1>3. NumsOK
  BY MaxBlankAssumption DEF NumsOK
<1>4. HoleAccounted
  BY DEF HoleAccounted
<1>5. QED
  BY <1>1, <1>2, <1>3, <1>4
     DEF IInv, RestOK, Budget, PressedStart, AliveServing, FreshAttempt,
         DhcpdServing, GroupAnswered, Quiet, RestQuiet, ProtoAlive,
         SupplicantTracked, NoOrphanUnderSupplicant, RestIsTold

LEMMA Invariance == Spec => []IInv
BY Initially, Inductive, PTL DEF Spec

-------------------------------------------------------------------------------
(* Results *)

\* Every variable keeps to its type; in particular the script's counter of
\* failed attempts never passes three.
THEOREM TypeCorrect == Spec => []TypeOK
<1>1. IInv => TypeOK
  BY DEF IInv, BoolsOK, RestOK, EnumsOK, NumsOK, TypeOK, FilesTypeOK, SessTypeOK
<1>2. QED
  BY <1>1, Invariance, PTL

\* Every supplicant of ours can be found by its pid file.
THEOREM SupplicantAlwaysTracked == Spec => []SupplicantTracked
<1>1. IInv => SupplicantTracked
  BY DEF IInv, RestOK
<1>2. QED
  BY <1>1, Invariance, PTL

\* No rule for udp/67 outlives its DHCP server, unless the service was killed,
\* and none doubles.
THEOREM HolesAlwaysAccounted == Spec => []HoleAccounted
<1>1. IInv => HoleAccounted
  BY DEF IInv, RestOK
<1>2. QED
  BY <1>1, Invariance, PTL

\* A supplicant is never started over an orphaned group interface.
THEOREM NeverOrphanUnderSupplicant == Spec => []NoOrphanUnderSupplicant
<1>1. IInv => NoOrphanUnderSupplicant
  BY DEF IInv, RestOK
<1>2. QED
  BY <1>1, Invariance, PTL

\* A session that ends by itself leaves nothing of it behind.
THEOREM AlwaysQuietAtIdle == Spec => []IdleIsQuiet
<1>1. IInv => IdleIsQuiet
  BY DEF IInv, RestOK, EnumsOK, RestQuiet, Quiet, ProtoAlive, IdleIsQuiet
<1>2. QED
  BY <1>1, Invariance, PTL

\* No attempt counts the frames of an earlier castd.
THEOREM FramesAlwaysOfThisAttempt == Spec => []FramesAreOfThisAttempt
<1>1. IInv => FramesAreOfThisAttempt
  BY DEF IInv, RestOK, FreshAttempt, FramesAreOfThisAttempt
<1>2. QED
  BY <1>1, Invariance, PTL

\* A service at rest never tells the app that a cast runs.
THEOREM RestAlwaysTold == Spec => []RestIsTold
<1>1. IInv => RestIsTold
  BY DEF IInv, RestOK
<1>2. QED
  BY <1>1, Invariance, PTL

\* Only a press of Start leads to a connection attempt.
THEOREM OnlyPressedAttempts == Spec => AttemptOnlyOnPress
<1>1. IInv /\ [Next]_vars => [pc = "loop" /\ pc' = "connect" => intent = "cast"]_vars
  <2> SUFFICES ASSUME IInv, Next, pc = "loop", pc' = "connect"
               PROVE  intent = "cast"
    BY DEF vars
  <2>1. startFlag
    BY SMTT(60) DEF Next, SessNext, Script, Goto, AtIdle, Resting, EndUnit,
           sessVars, UserOpens, AppPolls, UserStarts, UserStops, UserScans,
           UserReports, UserSetsDebug, UserCloses, AppCrashes, AliveAges,
           Boot, IdleExit, IdleReport, IdleNoWlan, IdleScan, IdleWlanBack,
           ScanFails, ScanBegins, ScanEmpty, ScanDone, ReportBegins, DiagDone,
           ReportDone, StartNoWlan, SeesStart, Arm, ArmFails, ArmOk,
           SessionEnds, ConnectFails, ConnectOk, Serve, ServePoll, ServeEnds,
           Cleanup, Wipe, UnitStart, UnitStop, UnitDies, SinkPlays,
           FramesLogged, ProtoEnds, CastDies, GroupDrops, SupplicantDies,
           RadioSwitched, GraceEnds, Attempt, SessionOver
  <2>2. QED
    BY <2>1 DEF IInv, RestOK, PressedStart
<1>2. QED
  BY <1>1, Invariance, PTL DEF Spec, AttemptOnlyOnPress
================================================================================
