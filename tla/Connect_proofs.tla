----------------------------- MODULE Connect_proofs -----------------------------
(***************************************************************************)
(* The group that imira-connect.sh reports is one it has not removed, the  *)
(* address is the sink's, and an abort keeps it for two sleeps at most,    *)
(* for any number of attempts, looks, devices and addresses, and whatever  *)
(* goes wrong.                                                             *)
(***************************************************************************)
EXTENDS Connect, TLAPS

(* The invariant *)

Places == {"top", "find", "ask", "wait", "look", "remove", "pause", "address", "done"}

\* From here on this attempt may have asked for a group
Asked == {"wait", "look", "remove", "address", "done"}

\* Here the log behind the mark is not read before there is a new mark
Unread == {"top", "pause", "done"}

\* Sleeps before an end, if told to abort now
SleepsLeft ==
  CASE pc = "look" -> 2
    [] pc \in {"find", "ask", "remove", "pause"} -> 1
    [] OTHER -> 0

Placed == pc \in Places /\ v \in Nat \ {0} /\ late \in Nat /\ abort \in BOOLEAN

\* A negotiation and its group bear the number of an attempt that has asked
Numbered ==
  /\ groups \subseteq 1..v /\ removed \subseteq 1..v /\ neg.id \in 0..v
  /\ pc \notin Asked => v \notin groups \cup removed /\ neg.id # v

\* One that is under way has no group yet
NegIsNew == neg.id # 0 => neg.id \notin groups \cup removed

\* The group behind the mark is not removed before it is looked for
MarkIsNew == pc \notin Unread => started \notin removed

\* There is no answer before the end
Unanswered == answer = "ok" => pc = "done"

AbortCounted == IF abort THEN late + SleepsLeft <= 2 ELSE late = 0

ConnectInv ==
  Placed /\ Numbered /\ NegIsNew /\ MarkIsNew /\ GroupIsThere /\ Unanswered
  /\ AbortCounted

--------------------------------------------------------------------------------
LEMMA InitInv == ASSUME Init PROVE ConnectInv
<1>1. Placed
  <2>1. pc = "top" /\ v = 1 /\ late = 0 BY DEF Init
  <2>2. abort \in BOOLEAN BY Zenon DEF Init
  <2> QED BY <2>1, <2>2 DEF Placed, Places
<1>2. Numbered /\ NegIsNew /\ MarkIsNew BY DEF Init, Numbered, NegIsNew, MarkIsNew, Asked, Unread, NoNeg
<1>3. GroupIsThere /\ Unanswered BY DEF Init, GroupIsThere, Unanswered
<1>4. AbortCounted
  <2>1. abort = FALSE /\ late = 0 BY DEF Init
  <2> QED BY <2>1, Zenon DEF AbortCounted
<1> QED BY <1>1, <1>2, <1>3, <1>4 DEF ConnectInv

\* Steps of the script, each from its place to its next one
LEMMA TopKeeps == ASSUME ConnectInv, Top PROVE ConnectInv'
BY DEF ConnectInv, Placed, Places, Numbered, NegIsNew, MarkIsNew, GroupIsThere,
       AbortCounted, Unanswered, Asked, Unread, SleepsLeft, Top, Slept, Answers, Search, NoNeg,
       callVars, worldVars, logVars

LEMMA FindKeeps == ASSUME ConnectInv, Find PROVE ConnectInv'
BY DEF ConnectInv, Placed, Places, Numbered, NegIsNew, MarkIsNew, GroupIsThere,
       AbortCounted, Unanswered, Asked, Unread, SleepsLeft, Find, Slept, Answers, NextAttempt,
       callVars, worldVars, logVars

LEMMA AskKeeps == ASSUME ConnectInv, Ask PROVE ConnectInv'
BY DEF ConnectInv, Placed, Places, Numbered, NegIsNew, MarkIsNew, GroupIsThere,
       AbortCounted, Unanswered, Asked, Unread, SleepsLeft, Ask, Slept, callVars, answerVars, logVars

LEMMA WaitKeeps == ASSUME ConnectInv, Wait PROVE ConnectInv'
<1>1. CASE abort
  <2>1. /\ pc = "wait" /\ pc' = "done" /\ answer' = "failed" /\ groups' = {}
        /\ removed' = removed \cup groups
        /\ UNCHANGED <<v, neg, late, abort, started, told>>
    BY <1>1 DEF Wait, Answers, RemoveGroups, logVars, worldVars
  <2>2. Placed' /\ GroupIsThere' /\ Unanswered' /\ MarkIsNew' /\ NegIsNew'
    BY <2>1 DEF ConnectInv, Placed, Places, GroupIsThere, Unanswered, MarkIsNew, NegIsNew, Unread
  <2>3. Numbered' BY <2>1 DEF ConnectInv, Numbered, Asked
  <2>4. AbortCounted' BY <1>1, <2>1 DEF ConnectInv, AbortCounted, SleepsLeft
  <2> QED BY <2>2, <2>3, <2>4 DEF ConnectInv
<1>2. CASE ~abort
  <2>1. /\ pc = "wait" /\ pc' = "look"
        /\ UNCHANGED <<v, neg, late, abort, started, told, answer, groups, removed>>
    BY <1>2 DEF Wait, logVars, worldVars
  <2>2. Placed' /\ GroupIsThere' /\ Unanswered' /\ MarkIsNew' /\ NegIsNew' /\ Numbered'
    BY <2>1 DEF ConnectInv, Placed, Places, GroupIsThere, Unanswered, MarkIsNew, NegIsNew, Unread,
         Numbered, Asked
  <2>3. AbortCounted' BY <1>2, <2>1 DEF ConnectInv, AbortCounted
  <2> QED BY <2>2, <2>3 DEF ConnectInv
<1> QED BY <1>1, <1>2

LEMMA LookKeeps == ASSUME ConnectInv, Look PROVE ConnectInv'
BY DEF ConnectInv, Placed, Places, Numbered, NegIsNew, MarkIsNew, GroupIsThere,
       AbortCounted, Unanswered, Asked, Unread, SleepsLeft, Look, Slept, callVars, answerVars, logVars

LEMMA RemoveKeeps == ASSUME ConnectInv, Remove PROVE ConnectInv'
<1>1. /\ pc = "remove" /\ pc' = "pause" /\ v' = v + 1 /\ groups' = {}
      /\ removed' = removed \cup groups
      /\ UNCHANGED <<neg, late, abort, started, told, answer>>
  BY DEF Remove, RemoveGroups, NextAttempt, answerVars, logVars, worldVars
<1>2. Placed' /\ MarkIsNew' /\ NegIsNew'
  BY <1>1 DEF ConnectInv, Placed, Places, MarkIsNew, NegIsNew, Unread
<1>3. Numbered'
  <2>1. /\ v \in Nat \ {0} /\ groups \subseteq 1..v /\ removed \subseteq 1..v
        /\ neg.id \in 0..v
    BY DEF ConnectInv, Placed, Numbered
  <2> QED BY <1>1, <2>1 DEF Numbered
<1>4. AbortCounted' BY <1>1 DEF ConnectInv, AbortCounted, SleepsLeft
<1>5. answer # "ok" BY <1>1 DEF ConnectInv, Unanswered
<1>6. GroupIsThere' /\ Unanswered' BY <1>1, <1>5 DEF GroupIsThere, Unanswered
<1> QED BY <1>2, <1>3, <1>4, <1>6 DEF ConnectInv

LEMMA AddressKeeps == ASSUME ConnectInv, Address PROVE ConnectInv'
BY DEF ConnectInv, Placed, Places, Numbered, NegIsNew, MarkIsNew, GroupIsThere,
       AbortCounted, Unanswered, Asked, Unread, SleepsLeft, Address, Answers, Told, NoAddress,
       callVars, worldVars, logVars

\* A group starts, and a negotiation that had none has one
LEMMA GroupStartsKeeps == ASSUME ConnectInv, GroupStarts PROVE ConnectInv'
BY DEF ConnectInv, Placed, Places, Numbered, NegIsNew, MarkIsNew, GroupIsThere,
       AbortCounted, Unanswered, Asked, Unread, SleepsLeft, GroupStarts, NoNeg,
       callVars, answerVars, worldVars

\* What else happens in the world
LEMMA WorldKeeps ==
  ASSUME ConnectInv, NegFails \/ GroupDrops \/ PeerComes \/ PeerGoes \/ ToldToAbort
  PROVE  ConnectInv'
<1>1. CASE NegFails
  BY <1>1 DEF ConnectInv, Placed, Numbered, NegIsNew, MarkIsNew, GroupIsThere,
       AbortCounted, Unanswered, SleepsLeft, NegFails, NoNeg, callVars, answerVars
<1>2. CASE GroupDrops
  BY <1>2 DEF ConnectInv, Placed, Numbered, NegIsNew, MarkIsNew, GroupIsThere,
       AbortCounted, Unanswered, SleepsLeft, GroupDrops, callVars, answerVars, logVars, worldVars
<1>3. CASE PeerComes
  BY <1>3 DEF ConnectInv, Placed, Numbered, NegIsNew, MarkIsNew, GroupIsThere,
       AbortCounted, Unanswered, SleepsLeft, PeerComes, callVars, answerVars, logVars
<1>4. CASE PeerGoes
  BY <1>4 DEF ConnectInv, Placed, Numbered, NegIsNew, MarkIsNew, GroupIsThere,
       AbortCounted, Unanswered, SleepsLeft, PeerGoes, callVars, answerVars, logVars
<1>5. CASE ToldToAbort
  BY <1>5 DEF ConnectInv, Placed, Places, Numbered, NegIsNew, MarkIsNew, GroupIsThere,
       AbortCounted, Unanswered, SleepsLeft, ToldToAbort, callVars, answerVars, logVars
<1> QED BY <1>1, <1>2, <1>3, <1>4, <1>5

LEMMA ConnectStep == ASSUME ConnectInv, [Next]_vars PROVE ConnectInv'
<1>1. CASE Script
  BY <1>1, TopKeeps, FindKeeps, AskKeeps, WaitKeeps, LookKeeps, RemoveKeeps, AddressKeeps
     DEF Script
<1>2. CASE GroupStarts BY <1>2, GroupStartsKeeps
<1>3. CASE NegFails \/ GroupDrops \/ PeerComes \/ PeerGoes \/ ToldToAbort
  BY <1>3, WorldKeeps
<1>4. CASE UNCHANGED vars
  BY <1>4 DEF vars, callVars, answerVars, logVars, worldVars, ConnectInv, Placed, Numbered,
       NegIsNew, MarkIsNew, GroupIsThere, Unanswered, AbortCounted, SleepsLeft
<1> QED BY <1>1, <1>2, <1>3, <1>4 DEF Next

LEMMA InvHolds == FairSpec => []ConnectInv
BY InitInv, ConnectStep, PTL DEF FairSpec

\* The group that is reported is never one the script has removed, for any
\* number of attempts and however late negotiations end (imira-connect.sh
\* 164-165, 220, 226, 306).
THEOREM ReportedGroupIsThere == FairSpec => []GroupIsThere
<1>1. ConnectInv => GroupIsThere BY DEF ConnectInv
<1> QED BY <1>1, InvHolds, PTL

\* Told to abort, the script sleeps twice at most before it ends
\* (imira-connect.sh 131-139, 162, 173, 216).
THEOREM AbortsSoon == FairSpec => []AbortSoon
<1>1. ConnectInv => AbortSoon
  <2>1. SleepsLeft \in Nat BY DEF SleepsLeft
  <2> QED BY <2>1 DEF ConnectInv, Placed, AbortCounted, AbortSoon
<1> QED BY <1>1, InvHolds, PTL

--------------------------------------------------------------------------------
(* Addresses *)

\* An address that has the net of a sound one is an address
LEMMA NoAddressIsNone == NoAddress \notin Addresses
BY ConnectAssumption DEF NoAddress, Addresses

\* The other half of the addresses is another net
LEMMA ElsewhereIsOutside ==
  ASSUME NEW own \in Addresses, NEW s \in NetSizes
  PROVE  ~SameNet(Elsewhere(own), own, s)
<1>1. s \in Nat /\ s > 2 /\ Half \in Nat BY ConnectAssumption
<1>2. PICK k \in 1..Half : Half = k * s BY ConnectAssumption
<1>3. own \in Nat /\ own < 2 * Half BY <1>1 DEF Addresses
<1> DEFINE q == own \div s
           r == own % s
<1>4. own = q * s + r /\ r \in 0..(s - 1) /\ q \in Nat BY <1>1, <1>3
<1> HIDE DEF q, r
<1>5. CASE own < Half
  <2>1. Elsewhere(own) = own + Half BY <1>1, <1>3, <1>5 DEF Elsewhere
  <2>2. own + Half = (q + k) * s + r BY <1>1, <1>2, <1>4
  <2>3. (own + Half) \div s = q + k BY <1>1, <1>4, <2>2
  <2> QED BY <1>4, <2>1, <2>3 DEF SameNet, Net, q
<1>6. CASE own >= Half
  <2>1. Elsewhere(own) = own - Half BY <1>1, <1>3, <1>6 DEF Elsewhere
  <2>2. q >= k BY <1>1, <1>2, <1>4, <1>6
  <2>3. own - Half = (q - k) * s + r BY <1>1, <1>2, <1>4
  <2>4. (own - Half) \div s = q - k BY <1>1, <1>4, <1>6, <2>2, <2>3
  <2> QED BY <1>4, <2>1, <2>4 DEF SameNet, Net, q
<1> QED BY <1>1, <1>3, <1>5, <1>6

\* What the lease names and the sink's place determine which one is the sink
LEMMA SinkIsFound ==
  ASSUME NEW own \in Addresses, NEW s \in NetSizes, NEW sink \in Hosts(own, s),
         NEW ns \in Names(sink, own), sink \in {ns[1], ns[2], NetFirst(own, s)}
  PROVE  SinkOf(own, s, ns[1], ns[2]) = sink
<1>1. SameNet(sink, own, s) BY NoAddressIsNone DEF Hosts, SameNet
<1>2. ~SameNet(NoAddress, own, s) BY DEF SameNet
<1>3. ~SameNet(Elsewhere(own), own, s) BY ElsewhereIsOutside
<1>4. ns[1] \in {NoAddress, sink, Elsewhere(own)} /\ ns[2] \in {sink, Elsewhere(own)}
  BY DEF Names
<1>5. sink # NoAddress /\ sink # Elsewhere(own) BY <1>1, <1>2, <1>3
<1> QED BY <1>1, <1>2, <1>3, <1>4, <1>5 DEF SinkOf

LEMMA AddressTellsSink == ASSUME Address PROVE told'.sink = told'.real
<1>1. CASE \E a \in Addresses : Told(a, a) BY <1>1 DEF Told
<1>2. CASE \E own \in Addresses, s \in NetSizes :
             \E sink \in Hosts(own, s) \ {own} : \E ns \in Names(sink, own) :
               /\ own \in Hosts(own, s) /\ sink \in {ns[1], ns[2], NetFirst(own, s)}
               /\ Told(SinkOf(own, s, ns[1], ns[2]), sink)
  BY <1>2, SinkIsFound DEF Told
<1>3. CASE Told(NoAddress, NoAddress) BY <1>3 DEF Told
<1> QED BY <1>1, <1>2, <1>3 DEF Address

\* No other step answers "ok" or changes what was told
LEMMA OnlyAddressTells ==
  ASSUME [Next]_vars
  PROVE  Address \/ (told' = told /\ answer' \in {answer, "failed"})
BY DEF Next, Script, Top, Find, Ask, Wait, Look, Remove, Search, Answers, GroupStarts, NegFails,
       GroupDrops, PeerComes, PeerGoes, ToldToAbort, vars, answerVars

\* Whatever router and server a lease names, inside of its net or outside, the
\* address that is reported is the sink's, for any number of addresses and nets
\* of any size that fits into a half of them (imira-connect.sh 87-105, 269-295).
THEOREM ReportedAddressIsSinks == FairSpec => []AddressIsSinks
<1>1. Init => AddressIsSinks BY DEF Init, AddressIsSinks
<1>2. AddressIsSinks /\ [Next]_vars => AddressIsSinks'
  <2> SUFFICES ASSUME AddressIsSinks, [Next]_vars PROVE AddressIsSinks' OBVIOUS
  <2>1. CASE Address BY <2>1, AddressTellsSink DEF AddressIsSinks
  <2>2. CASE told' = told /\ answer' \in {answer, "failed"} BY <2>2 DEF AddressIsSinks
  <2> QED BY <2>1, <2>2, OnlyAddressTells
<1> QED BY <1>1, <1>2, PTL DEF FairSpec

--------------------------------------------------------------------------------
(* Types *)

\* An attempt that is under way is one of Max
Counters ==
  /\ pc \in Places /\ v \in 1..Max + 1 /\ n \in 1..FindTries + WaitTries /\ late \in Nat
  /\ pc \notin Unread => v <= Max

Choices ==
  /\ wanted \in Sinks \cup {Anyone} /\ share \in {"no", "try", "must"}
  /\ peer \in Peers \cup {Anyone} /\ answer \in {"none", "failed", "ok"} /\ visible \subseteq Peers

Flags == refused \in BOOLEAN /\ abort \in BOOLEAN /\ hurt \in BOOLEAN

NegType == neg \in [id : 0..Max, peer : Peers \cup {Anyone}, asked : BOOLEAN]

Groups == started \in 0..Max /\ groups \subseteq 1..Max /\ removed \subseteq 1..Max

ToldType ==
  told \in [group : 0..Max, sink : Addresses \cup {NoAddress}, real : Addresses \cup {NoAddress}]

TypeInv == Counters /\ Choices /\ Flags /\ NegType /\ Groups /\ ToldType

LEMMA CountersKept == ASSUME TypeInv, [Next]_vars PROVE Counters'
<1> USE ConnectAssumption DEF TypeInv, Counters, Places, Unread
<1>1. CASE Top \/ Find
  BY <1>1 DEF Top, Find, Slept, Answers, Search, NextAttempt
<1>2. CASE Ask \/ Wait \/ Look \/ Remove \/ Address
  BY <1>2 DEF Ask, Wait, Look, Remove, Address, Slept, Answers, NextAttempt
<1>3. CASE ~Script
  BY <1>3 DEF Next, GroupStarts, NegFails, GroupDrops, PeerComes, PeerGoes, ToldToAbort, vars
<1> QED BY <1>1, <1>2, <1>3 DEF Script

LEMMA ChoicesKept == ASSUME TypeInv, [Next]_vars PROVE Choices'
<1> USE DEF TypeInv, Choices, Peers, callVars, answerVars, worldVars
<1>1. CASE Script
  BY <1>1 DEF Script, Top, Find, Ask, Wait, Look, Remove, Address, Answers, Search, Candidates
<1>2. CASE ~Script
  BY <1>2 DEF Next, GroupStarts, NegFails, GroupDrops, PeerComes, PeerGoes, ToldToAbort, vars
<1> QED BY <1>1, <1>2

LEMMA FlagsKept == ASSUME TypeInv, [Next]_vars PROVE Flags'
<1>1. refused' \in {refused, TRUE, FALSE} /\ abort' \in {abort, TRUE} /\ hurt' \in {hurt, TRUE}
  BY DEF Next, Script, Top, Find, Ask, Wait, Look, Remove, Address, Search, GroupStarts, NegFails,
         GroupDrops, PeerComes, PeerGoes, ToldToAbort, vars, logVars, worldVars
<1> QED BY <1>1, Zenon DEF TypeInv, Flags

LEMMA NegTypeKept == ASSUME TypeInv, [Next]_vars PROVE NegType'
<1>1. CASE Ask /\ neg' # neg
  <2>1. neg' = [id |-> v, peer |-> peer, asked |-> ChannelAsked] /\ v \in 1..Max
    BY <1>1, ConnectAssumption DEF Ask, TypeInv, Counters, Unread
  <2>2. peer \in Peers \cup {Anyone} /\ ChannelAsked \in BOOLEAN
    BY Zenon DEF TypeInv, Choices, ChannelAsked
  <2>3. v \in 0..Max BY <2>1, ConnectAssumption
  <2> HIDE DEF ChannelAsked
  <2> QED BY <2>1, <2>2, <2>3, Zenon DEF NegType
<1>2. CASE neg' = neg BY <1>2, Zenon DEF TypeInv, NegType
<1>3. CASE neg' = NoNeg BY <1>3, ConnectAssumption DEF NegType, NoNeg
<1>4. Ask \/ neg' \in {neg, NoNeg}
  BY DEF Next, Script, Top, Find, Wait, Look, Remove, Address, Search, GroupStarts, NegFails,
         GroupDrops, PeerComes, PeerGoes, ToldToAbort, vars
<1> QED BY <1>1, <1>2, <1>3, <1>4

LEMMA GroupsKept == ASSUME TypeInv, [Next]_vars PROVE Groups'
<1>1. neg.id \in 0..Max BY DEF TypeInv, NegType
<1>2. started' \in {started, 0, neg.id} /\ (neg.id = 0 => started' \in {started, 0})
  BY DEF Next, Script, Top, Find, Ask, Wait, Look, Remove, Address, Search, GroupStarts, NegFails,
         GroupDrops, PeerComes, PeerGoes, ToldToAbort, vars, logVars
<1>3. /\ groups' \subseteq groups \cup ({neg.id} \ {0})
      /\ removed' \subseteq removed \cup groups
  BY DEF Next, Script, Top, Find, Ask, Wait, Look, Remove, Address, RemoveGroups, GroupStarts,
         NegFails, GroupDrops, PeerComes, PeerGoes, ToldToAbort, vars
<1> QED BY <1>1, <1>2, <1>3, ConnectAssumption DEF TypeInv, Groups

LEMMA ToldTypeKept == ASSUME TypeInv, [Next]_vars PROVE ToldType'
<1>1. CASE Address
  <2>1. started \in 0..Max BY DEF TypeInv, Groups
  <2>2. CASE \E a \in Addresses : Told(a, a) BY <2>1, <2>2 DEF Told, ToldType
  <2>3. CASE \E own \in Addresses, s \in NetSizes :
               \E sink \in Hosts(own, s) \ {own} : \E ns \in Names(sink, own) :
                 /\ own \in Hosts(own, s) /\ sink \in {ns[1], ns[2], NetFirst(own, s)}
                 /\ Told(SinkOf(own, s, ns[1], ns[2]), sink)
    BY <2>1, <2>3, SinkIsFound DEF Told, Hosts, ToldType
  <2>4. CASE Told(NoAddress, NoAddress) BY <2>1, <2>4 DEF Told, ToldType
  <2> QED BY <1>1, <2>2, <2>3, <2>4 DEF Address
<1>2. CASE told' = told BY <1>2 DEF TypeInv, ToldType
<1> QED BY <1>1, <1>2, OnlyAddressTells

\* The script never begins more attempts than it has, and what it tells and
\* waits for is within its bounds (imira-connect.sh 161-180, 213-301).
THEOREM ConnectTypes == FairSpec => []TypeOK
<1>1. Init => TypeInv
  <2> SUFFICES ASSUME Init PROVE TypeInv OBVIOUS
  <2>1. Counters BY ConnectAssumption DEF Init, Counters, Places, Unread
  <2>2. Choices BY DEF Init, Choices
  <2>3. Flags BY Zenon DEF Init, Flags
  <2>4. NegType BY ConnectAssumption DEF Init, NegType, NoNeg
  <2>5. Groups /\ ToldType BY ConnectAssumption DEF Init, Groups, ToldType, NoTold
  <2> QED BY <2>1, <2>2, <2>3, <2>4, <2>5 DEF TypeInv
<1>2. TypeInv /\ [Next]_vars => TypeInv'
  BY CountersKept, ChoicesKept, FlagsKept, NegTypeKept, GroupsKept, ToldTypeKept DEF TypeInv
<1>3. TypeInv => TypeOK
  BY Zenon DEF TypeInv, Counters, Choices, Flags, NegType, Groups, ToldType, TypeOK, Places
<1> QED BY <1>1, <1>2, <1>3, PTL DEF FairSpec
================================================================================
