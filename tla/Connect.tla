-------------------------------- MODULE Connect --------------------------------
(***************************************************************************)
(* device/imira-connect.sh: from nothing to a Wi-Fi Direct group and two   *)
(* addresses, in a few attempts.  The script starts a negotiation with     *)
(* wpa_cli and then looks every other second into the supplicant's log,    *)
(* behind a mark; the negotiation runs on by itself, and may end when the  *)
(* script has stopped waiting for it.                                      *)
(*                                                                         *)
(* The supplicant, the receivers and the app are external.  A negotiation  *)
(* and the group it ends in are named by the attempt that asked for them.  *)
(* A step of the script ends where it sleeps or waits for another process. *)
(***************************************************************************)
EXTENDS Integers, FiniteSets

CONSTANTS
  Sinks, Sources,  \* what other devices say they are (wfd_subelems)
  Picky,           \* sinks that may refuse a channel they are asked for
  Anyone,          \* no device was chosen
  Max,             \* IMIRA_ATTEMPTS
  FindTries, WaitTries,  \* looks at the peers, looks into the log
  Half, NetSizes,  \* half the number of all addresses; numbers a net may have
  Faults           \* "leave", "fail", "flaky", "slow", "drop"

ASSUME ConnectAssumption ==
  /\ Picky \subseteq Sinks /\ Sinks \cap Sources = {} /\ Anyone \notin Sinks \cup Sources
  /\ {Max, FindTries, WaitTries} \subseteq Nat \ {0} /\ Half \in Nat /\ NetSizes \subseteq Nat
  /\ \A s \in NetSizes : s > 2 /\ \E k \in 1..Half : Half = k * s

VARIABLES
  pc,        \* where the script stands
  v, n,      \* attempt, and look within it
  wanted,    \* IMIRA_PEER
  share,     \* freq=...: "no", "try" (the phone's Wi-Fi), "must" (IMIRA_FREQ)
  peer,      \* PEER
  answer,    \* what was printed: "none" yet, "failed" for nothing, or "ok" with
  told,      \* group and address of the sink; and the one it really has
  started,   \* last P2P-GROUP-STARTED behind the mark, 0 for none
  refused,   \* a FORMATION-FAILURE or GO-NEG-FAILURE behind the mark
  visible,   \* p2p_peers
  neg,       \* negotiation under way
  groups,    \* groups that are up
  abort,     \* the stop flag is there or the app has gone
  removed,   \* history: groups that were up when the script removed all
  late,      \* history: sleeps since abort
  hurt       \* history: something went wrong that the script cannot help

callVars == <<wanted, share>>
logVars == <<started, refused>>
answerVars == <<answer, told>>
worldVars == <<visible, abort, hurt>>
vars == <<pc, v, n, peer, callVars, answerVars, logVars, neg, groups, removed, late, worldVars>>

Peers == Sinks \cup Sources
Addresses == 0..(2 * Half - 1)
NoAddress == -1
NoNeg == [id |-> 0, peer |-> Anyone, asked |-> FALSE]
NoTold == [group |-> 0, sink |-> NoAddress, real |-> NoAddress]

TypeOK ==
  /\ pc \in {"top", "find", "ask", "wait", "look", "remove", "pause", "address", "done"}
  /\ v \in 1..Max + 1 /\ n \in 1..FindTries + WaitTries
  /\ wanted \in Sinks \cup {Anyone} /\ share \in {"no", "try", "must"}
  /\ peer \in Peers \cup {Anyone} /\ answer \in {"none", "failed", "ok"}
  /\ told \in [group : 0..Max, sink : Addresses \cup {NoAddress}, real : Addresses \cup {NoAddress}]
  /\ started \in 0..Max /\ refused \in BOOLEAN /\ abort \in BOOLEAN /\ hurt \in BOOLEAN
  /\ visible \subseteq Peers /\ groups \subseteq 1..Max /\ removed \subseteq 1..Max
  /\ neg \in [id : 0..Max, peer : Peers \cup {Anyone}, asked : BOOLEAN] /\ late \in Nat

\* The session script has removed all groups
Init ==
  /\ pc = "top" /\ v = 1 /\ n = 1 /\ peer = Anyone
  /\ wanted \in Sinks \cup {Anyone} /\ share \in {"no", "try", "must"}
  /\ answer = "none" /\ told = NoTold /\ started = 0 /\ refused = FALSE
  /\ neg = NoNeg /\ groups = {} /\ removed = {} /\ late = 0
  /\ visible \in SUBSET Peers /\ abort = FALSE /\ hurt = FALSE

--------------------------------------------------------------------------------
(* Addresses.  A prefix is the number of addresses it leaves to a net. *)

Net(a, s) == a \div s
NetFirst(a, s) == (Net(a, s) * s + 1) % (2 * Half)
SameNet(a, b, s) == a # NoAddress /\ Net(a, s) = Net(b, s)

\* Mutant: whoever is named first is the sink.
SinkOfFirst(own, s, router, server) == IF router # NoAddress THEN router ELSE server

\* The sink of a lease: router or server, if in its net, or the net's first
SinkOf(own, s, router, server) ==
  IF SameNet(router, own, s) THEN router
  ELSE IF SameNet(server, own, s) THEN server ELSE NetFirst(own, s)

\* A sink that is group owner names itself in the lease, or addresses outside
\* of the net and sits on the first one
Hosts(a, s) == {b \in Addresses : Net(b, s) = Net(a, s) /\ b % s \notin {0, s - 1}}
Elsewhere(a) == (a + Half) % (2 * Half)
Names(sink, own) == {<<NoAddress, sink>>, <<NoAddress, Elsewhere(own)>>}
                      \cup ({sink, Elsewhere(own)} \X {sink, Elsewhere(own)})

--------------------------------------------------------------------------------
(* The script *)

Slept == late' = IF abort THEN late + 1 ELSE late
Answers(a) == pc' = "done" /\ answer' = a /\ UNCHANGED <<v, n, peer>>
NextAttempt == v' = v + 1 /\ n' = 1
RemoveGroups == groups' = {} /\ removed' = removed \cup groups

\* Mutant: the mark is the one of the first attempt.
SearchUnmarked ==
  /\ pc' = "find" /\ n' = 1 /\ neg' \in {neg, NoNeg}
  /\ UNCHANGED <<v, peer, answer, logVars>>

\* A new mark, and p2p_find, which ends what is under way or not
Search ==
  /\ pc' = "find" /\ n' = 1 /\ neg' \in {neg, NoNeg}
  /\ started' = 0 /\ refused' = FALSE
  /\ UNCHANGED <<v, peer, answer>>

Top ==
  /\ pc \in {"top", "pause"}
  /\ IF pc = "pause" THEN Slept ELSE UNCHANGED late
  /\ IF abort \/ v > Max THEN Answers("failed") /\ UNCHANGED <<logVars, neg>> ELSE Search
  /\ UNCHANGED <<callVars, told, groups, removed, worldVars>>

Candidates == visible \cap IF wanted = Anyone THEN Sinks ELSE {wanted}

\* One look at the peers, after a sleep
Find ==
  /\ pc = "find" /\ Slept
  /\ \/ abort /\ Answers("failed")
     \/ /\ ~abort /\ peer' \in Candidates
        /\ pc' = "ask" /\ UNCHANGED <<v, n, answer>>
     \/ /\ ~abort /\ Candidates = {} /\ n < FindTries
        /\ n' = n + 1 /\ UNCHANGED <<pc, v, peer, answer>>
     \/ /\ ~abort /\ Candidates = {} /\ n = FindTries
        /\ pc' = "top" /\ NextAttempt /\ UNCHANGED <<peer, answer>>
  /\ UNCHANGED <<callVars, told, logVars, neg, groups, removed, worldVars>>

\* Mutant: the phone's channel is asked for in every attempt.
ChannelAsked4 == share # "no"

\* FREQARG: the phone's channel in the first two attempts only
ChannelAsked == share = "must" \/ (share = "try" /\ v <= 2)

\* prov_disc and its sleep are over: p2p_connect says OK or FAIL
Ask ==
  /\ pc = "ask" /\ Slept
  /\ pc' = "wait" /\ n' = 1
  /\ \/ /\ peer \in visible /\ UNCHANGED hurt
        /\ neg' = [id |-> v, peer |-> peer, asked |-> ChannelAsked]
     \/ /\ peer \notin visible \/ "fail" \in Faults
        /\ hurt' = TRUE /\ UNCHANGED neg
  /\ UNCHANGED <<v, peer, callVars, answerVars, logVars, groups, removed, visible, abort>>

\* Mutant: told to abort it waits on.
WaitDeaf ==
  /\ pc = "wait" /\ pc' = "look"
  /\ UNCHANGED <<v, n, peer, callVars, answerVars, logVars, neg, groups, removed, late, worldVars>>

Wait ==
  /\ pc = "wait"
  /\ IF abort THEN Answers("failed") /\ RemoveGroups
     ELSE pc' = "look" /\ UNCHANGED <<v, n, peer, answer, groups, removed>>
  /\ UNCHANGED <<callVars, told, logVars, neg, late, worldVars>>

\* One look into the log, after a sleep.  A negotiation that takes longer than
\* all looks is a fault.
Look ==
  /\ pc = "look" /\ Slept
  /\ \/ started # 0 /\ pc' = "address" /\ UNCHANGED <<n, hurt>>
     \/ started = 0 /\ refused /\ pc' = "remove" /\ UNCHANGED <<n, hurt>>
     \/ /\ started = 0 /\ ~refused /\ n < WaitTries
        /\ pc' = "wait" /\ n' = n + 1 /\ UNCHANGED hurt
     \/ /\ started = 0 /\ ~refused /\ n = WaitTries
        /\ neg.id # 0 => "slow" \in Faults
        /\ pc' = "remove" /\ hurt' = TRUE /\ UNCHANGED n
  /\ UNCHANGED <<v, peer, callVars, answerVars, logVars, neg, groups, removed, visible, abort>>

\* The attempt has failed
Remove ==
  /\ pc = "remove" /\ pc' = "pause"
  /\ RemoveGroups /\ NextAttempt
  /\ UNCHANGED <<peer, callVars, answerVars, logVars, neg, late, worldVars>>

Told(sink, real) == told' = [group |-> started, sink |-> sink, real |-> real]

\* As owner the phone gives the address itself; as client it is told one in
\* the handshake, or in a lease, or it has to guess
Address ==
  /\ pc = "address" /\ Answers("ok")
  /\ \/ \E a \in Addresses : Told(a, a)
     \/ \E own \in Addresses, s \in NetSizes :
          \E sink \in Hosts(own, s) \ {own} : \E ns \in Names(sink, own) :
            /\ own \in Hosts(own, s) /\ sink \in {ns[1], ns[2], NetFirst(own, s)}
            /\ Told(SinkOf(own, s, ns[1], ns[2]), sink)
     \/ Told(NoAddress, NoAddress)
  /\ UNCHANGED <<callVars, logVars, neg, groups, removed, late, worldVars>>

Script == Top \/ Find \/ Ask \/ Wait \/ Look \/ Remove \/ Address

--------------------------------------------------------------------------------
(* Supplicant, receivers, app *)

GroupStarts ==
  /\ neg.id # 0 /\ neg' = NoNeg
  /\ groups' = groups \cup {neg.id} /\ started' = neg.id
  /\ UNCHANGED <<pc, v, n, peer, callVars, answerVars, refused, removed, late, worldVars>>

NegFails ==
  /\ neg.id # 0 /\ neg' = NoNeg /\ refused' = TRUE
  /\ \/ neg.asked /\ neg.peer \in Picky /\ UNCHANGED hurt
     \/ "flaky" \in Faults /\ hurt' = TRUE
  /\ UNCHANGED <<pc, v, n, peer, callVars, answerVars, started, groups, removed, late, visible, abort>>

GroupDrops ==
  /\ "drop" \in Faults /\ pc # "done"
  /\ \E g \in groups : groups' = groups \ {g}
  /\ UNCHANGED <<pc, v, n, peer, callVars, answerVars, logVars, neg, removed, late, worldVars>>

PeerComes ==
  /\ pc # "done" /\ \E d \in Peers \ visible : visible' = visible \cup {d}
  /\ UNCHANGED <<pc, v, n, peer, callVars, answerVars, logVars, neg, groups, removed, late, abort, hurt>>

PeerGoes ==
  /\ "leave" \in Faults /\ pc # "done" /\ hurt' = TRUE
  /\ \E d \in visible : visible' = visible \ {d}
  /\ UNCHANGED <<pc, v, n, peer, callVars, answerVars, logVars, neg, groups, removed, late, abort>>

ToldToAbort ==
  /\ pc # "done" /\ ~abort /\ abort' = TRUE
  /\ UNCHANGED <<pc, v, n, peer, callVars, answerVars, logVars, neg, groups, removed, late, visible, hurt>>

Next ==
  \/ Script \/ GroupStarts \/ NegFails
  \/ GroupDrops \/ PeerComes \/ PeerGoes \/ ToldToAbort

\* The script runs on, and a negotiation ends
FairSpec == Init /\ [][Next]_vars /\ WF_vars(Script) /\ WF_vars(GroupStarts \/ NegFails)

--------------------------------------------------------------------------------
(* Properties *)

\* The group that is reported is never one the script has removed: what an
\* earlier attempt left in the log is behind the mark, however late a
\* negotiation ends (imira-connect.sh 164-165, 220, 226, 306).
GroupIsThere == answer = "ok" => told.group \notin removed

\* Whatever a lease names as router and server, the address that is reported
\* is the one of the sink (imira-connect.sh 269-295).
AddressIsSinks == answer = "ok" => told.sink = told.real

\* Told to abort, the script sleeps twice at most before it ends or has a
\* group (imira-connect.sh 131-139, 162, 173, 216).
AbortSoon == late <= 2

\* A sink that is there, or comes while an attempt is left, is reached, also
\* one that refuses the channel of the phone's Wi-Fi, unless the adapter
\* allows no other (imira-connect.sh 161-190, 200-204).
SinkReached ==
  [](~abort /\ ~hurt /\ share # "must")
    => ((Candidates # {} /\ v <= Max) ~> (answer = "ok"))
================================================================================
