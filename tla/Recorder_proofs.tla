---------------------------- MODULE Recorder_proofs ----------------------------
(***************************************************************************)
(* The ring of the screen recorder, for every number of buffers, however   *)
(* often the screen changes and whatever fails: a buffer has one owner,    *)
(* and what a thread uses is there.                                        *)
(***************************************************************************)
EXTENDS Recorder, FiniteSetTheorems, WellFoundedInduction, TLAPS

(* The invariant *)

\* Buffers that requests or events name, and that each is named once
Named(s) == {s[i].buf : i \in DOMAIN s} \ {NoBuffer}
Once(s) == \A i, j \in DOMAIN s : s[i].buf = s[j].buf /\ i # j => s[i].buf = NoBuffer

Setup(s, i) == i \in DOMAIN s /\ s[i].ev = "setup"

\* Setup events announce sizes above low and up to high, each one above the last
Rising(s, low, high) ==
  /\ \A i \in DOMAIN s : Setup(s, i) => low < s[i].geom /\ s[i].geom <= high
  /\ \A i, j \in DOMAIN s : Setup(s, i) /\ Setup(s, j) /\ i < j => s[i].geom < s[j].geom

\* Those of q are below those of s
Before(q, s) ==
  \A i \in DOMAIN q, j \in DOMAIN s : Setup(q, i) /\ Setup(s, j) => q[i].geom < s[j].geom

\* The request for the recorder is the first, and its setup event the first
CreateFirst(s) == \A i \in DOMAIN s : s[i].op = "create" => i = 1 /\ shape = 0

\* Who lives while main is where it is
Threads ==
  /\ main = "start" =>
       /\ geom = 0 /\ shape = 0 /\ ring = {} /\ pending = NoBuffer
       /\ toComp = <<>> /\ fromComp = <<>> /\ queue = <<>>
  /\ main \in {"start", "exit", "done"} => loop = "gone" /\ clk = "gone"
  /\ main \notin {"start", "exit", "done"} => up
  /\ clk # "gone" => main \in {"run", "join", "dead"}

\* All events are dispatched before the loop polls; the callback has a
\* buffer of the ring, which is of the size that was announced
Loop ==
  /\ loop = "poll" => queue = <<>>
  /\ IF loop = "callback" THEN cur \in ring ELSE cur = NoBuffer
  /\ ring \subseteq {geom} \X (1..RingSize)

\* Sizes come in their order, each one once
Sizes ==
  /\ geom <= shape
  /\ CreateFirst(toComp)
  /\ Rising(queue, geom, shape) /\ Rising(fromComp, geom, shape) /\ Before(queue, fromComp)

\* Buffers that are not in the hands of the ring
Sent == Named(toComp)
Told == Named(fromComp)
Read == Named(queue)
Filled == {pending} \ {NoBuffer}
Used == {cur} \ {NoBuffer}
Away == Sent \cup Told \cup Read \cup Filled \cup Used

Apart ==
  /\ Once(toComp) /\ Once(fromComp) /\ Once(queue)
  /\ Sent \cap (Told \cup Read \cup Filled \cup Used) = {}
  /\ Told \cap (Read \cup Filled \cup Used) = {}
  /\ Read \cap (Filled \cup Used) = {} /\ Filled \cap Used = {}

\* What is away is busy, or of an earlier ring
Owned == Away \cap ring \subseteq busy /\ \A b \in Away : b[1] <= geom

RecorderInv == TypeOK /\ Threads /\ Loop /\ Sizes /\ Apart /\ Owned

--------------------------------------------------------------------------------
(* Sequences of requests and events *)

LEMMA NamedAppend ==
  ASSUME NEW S, NEW s \in Seq(S), NEW e \in S
  PROVE  Named(Append(s, e)) = Named(s) \cup ({e.buf} \ {NoBuffer})
<1>1. /\ DOMAIN Append(s, e) = DOMAIN s \cup {Len(s) + 1}
      /\ \A i \in DOMAIN s : Append(s, e)[i] = s[i]
      /\ Append(s, e)[Len(s) + 1] = e
  OBVIOUS
<1> QED BY <1>1 DEF Named

LEMMA OnceAppend ==
  ASSUME NEW S, NEW s \in Seq(S), NEW e \in S, Once(s), e.buf \notin Named(s)
  PROVE  Once(Append(s, e))
<1>1. /\ DOMAIN Append(s, e) = DOMAIN s \cup {Len(s) + 1}
      /\ \A i \in DOMAIN s : Append(s, e)[i] = s[i]
      /\ Append(s, e)[Len(s) + 1] = e
  OBVIOUS
<1> QED BY <1>1 DEF Named, Once

LEMMA TailIs ==
  ASSUME NEW S, NEW s \in Seq(S), s # <<>>
  PROVE  /\ Tail(s) \in Seq(S) /\ Head(s) \in S /\ Head(s) = s[1] /\ 1 \in DOMAIN s
         /\ \A i \in DOMAIN Tail(s) : i \in Nat \ {0} /\ i + 1 \in DOMAIN s /\ Tail(s)[i] = s[i + 1]
         /\ \A i \in DOMAIN s : i # 1 => i - 1 \in DOMAIN Tail(s) /\ Tail(s)[i - 1] = s[i]
OBVIOUS

LEMMA NamedTail ==
  ASSUME NEW S, NEW s \in Seq(S), s # <<>>, Once(s)
  PROVE  /\ Named(Tail(s)) \subseteq Named(s) /\ Once(Tail(s))
         /\ Head(s).buf \in Named(s) \cup {NoBuffer} /\ Head(s).buf \notin Named(Tail(s))
<1>1. Named(Tail(s)) \subseteq Named(s) BY TailIs DEF Named
<1>2. Once(Tail(s)) BY TailIs DEF Once
<1>3. Head(s).buf \in Named(s) \cup {NoBuffer} BY TailIs DEF Named
<1>4. ASSUME Head(s).buf \in Named(Tail(s)) PROVE FALSE
  <2>1. PICK i \in DOMAIN Tail(s) : Tail(s)[i].buf = Head(s).buf /\ Head(s).buf # NoBuffer
    BY <1>4 DEF Named
  <2>2. /\ i + 1 \in DOMAIN s /\ s[i + 1].buf = s[1].buf /\ i + 1 # 1 /\ 1 \in DOMAIN s
        /\ s[1].buf # NoBuffer
    BY <2>1, TailIs
  <2> QED BY <2>2 DEF Once
<1> QED BY <1>1, <1>2, <1>3, <1>4

LEMMA RisingTail ==
  ASSUME NEW S, NEW s \in Seq(S), s # <<>>, NEW low, NEW high, Rising(s, low, high)
  PROVE  Rising(Tail(s), low, high)
<1> USE DEF Rising, Setup
<1>1. ASSUME NEW i \in DOMAIN Tail(s), Setup(Tail(s), i)
      PROVE  low < Tail(s)[i].geom /\ Tail(s)[i].geom <= high
  <2>1. Setup(s, i + 1) /\ Tail(s)[i] = s[i + 1] BY <1>1, TailIs
  <2> QED BY <2>1
<1>2. ASSUME NEW i \in DOMAIN Tail(s), NEW j \in DOMAIN Tail(s), i < j,
             Setup(Tail(s), i), Setup(Tail(s), j)
      PROVE  Tail(s)[i].geom < Tail(s)[j].geom
  <2>1. /\ Setup(s, i + 1) /\ Setup(s, j + 1) /\ i + 1 < j + 1
        /\ Tail(s)[i] = s[i + 1] /\ Tail(s)[j] = s[j + 1]
    BY <1>2, TailIs
  <2> QED BY <2>1
<1> QED BY <1>1, <1>2

\* After a setup come larger ones only
LEMMA RisingAfter ==
  ASSUME NEW S, NEW s \in Seq(S), s # <<>>, NEW low, NEW high, Rising(s, low, high), Head(s).ev = "setup"
  PROVE  Rising(Tail(s), Head(s).geom, high)
<1>1. Rising(Tail(s), low, high) BY RisingTail
<1>2. ASSUME NEW i \in DOMAIN Tail(s), Setup(Tail(s), i) PROVE Head(s).geom < Tail(s)[i].geom
  <2>1. /\ Setup(s, 1) /\ Setup(s, i + 1) /\ 1 < i + 1
        /\ Tail(s)[i] = s[i + 1] /\ Head(s) = s[1]
    BY <1>2, TailIs DEF Setup
  <2> QED BY <2>1 DEF Rising, Setup
<1> QED BY <1>1, <1>2 DEF Rising

LEMMA BeforeTail ==
  ASSUME NEW S, NEW q \in Seq(S), q # <<>>, NEW s, Before(q, s)
  PROVE  Before(Tail(q), s)
<1> SUFFICES ASSUME NEW i \in DOMAIN Tail(q), NEW j \in DOMAIN s, Setup(Tail(q), i), Setup(s, j)
             PROVE  Tail(q)[i].geom < s[j].geom
  BY DEF Before
<1>1. Setup(q, i + 1) /\ i + 1 \in DOMAIN q /\ Tail(q)[i] = q[i + 1] BY TailIs DEF Setup
<1> QED BY <1>1 DEF Before

LEMMA RisingOther ==
  ASSUME NEW s \in Seq(Events), NEW e \in Events, NEW low, NEW high, Rising(s, low, high), e.ev # "setup"
  PROVE  Rising(Append(s, e), low, high)
<1>1. /\ DOMAIN Append(s, e) = DOMAIN s \cup {Len(s) + 1}
      /\ \A i \in DOMAIN s : Append(s, e)[i] = s[i]
      /\ Append(s, e)[Len(s) + 1] = e
  OBVIOUS
<1> QED BY <1>1 DEF Rising, Setup

LEMMA EventGeom ==
  ASSUME NEW s \in Seq(Events)
  PROVE  \A i \in DOMAIN s : s[i] \in Events /\ s[i].geom \in Nat
<1>1. \A i \in DOMAIN s : s[i] \in Events OBVIOUS
<1>2. \A e \in Events : e.geom \in Nat BY DEF Events
<1> QED BY <1>1, <1>2

LEMMA RisingSetup ==
  ASSUME NEW s \in Seq(Events), NEW e \in Events, NEW low \in Nat, NEW high \in Nat,
         Rising(s, low, high), low <= high, e.geom = high + 1
  PROVE  Rising(Append(s, e), low, high + 1)
<1>1. /\ DOMAIN Append(s, e) = DOMAIN s \cup {Len(s) + 1}
      /\ \A i \in DOMAIN s : Append(s, e)[i] = s[i] /\ i \in Nat /\ i <= Len(s)
      /\ Append(s, e)[Len(s) + 1] = e /\ Len(s) \in Nat
  OBVIOUS
<1>2. \A i \in DOMAIN s : s[i].geom \in Nat BY EventGeom
<1> QED BY <1>1, <1>2 DEF Rising, Setup

LEMMA RisingMore ==
  ASSUME NEW s \in Seq(Events), NEW low, NEW high \in Nat, Rising(s, low, high)
  PROVE  Rising(s, low, high + 1)
<1>1. \A i \in DOMAIN s : s[i].geom \in Nat BY EventGeom
<1> QED BY <1>1 DEF Rising

LEMMA PairAppended ==
  ASSUME NEW S, NEW s \in Seq(S), NEW d \in S, NEW e \in S
  PROVE  s \o <<d, e>> = Append(Append(s, d), e)
OBVIOUS

(* The first free buffer *)

LEMMA LessIsWellFounded ==
  \E R : IsWellFoundedOn(R, Nat) /\ \A a, b \in Nat : a < b => <<a, b>> \in R
<1>1. \A a, b \in Nat : a < b => <<a, b>> \in OpToRel(<, Nat) BY DEF OpToRel
<1> QED BY <1>1, NatLessThanWellFounded, Zenon

LEMMA LeastNumber ==
  ASSUME NEW T, T \subseteq Nat, T # {}
  PROVE  \E n \in T : \A m \in T : n <= m
<1>1. PICK R : IsWellFoundedOn(R, Nat) /\ \A a, b \in Nat : a < b => <<a, b>> \in R
  BY LessIsWellFounded
<1>2. IsWellFoundedOn(R, Nat) BY <1>1
<1>3. \E n \in T : \A m \in T : ~(<<m, n>> \in R)
  BY ONLY T \subseteq Nat, T # {}, <1>2, WFMin, Zenon
<1>4. PICK n \in T : \A m \in T : ~(<<m, n>> \in R) BY <1>3
<1>5. n \in Nat BY <1>4
<1>6. ASSUME NEW m \in T PROVE n <= m
  <2>1. m \in Nat /\ ~(<<m, n>> \in R) BY <1>4
  <2>2. ~(m < n) BY <2>1, <1>5, <1>1, Zenon
  <2> QED BY <2>1, <2>2, <1>5
<1> QED BY <1>6

LEMMA FirstFreeIsFree ==
  ASSUME NEW free, free # {}, NEW g \in Nat, free \subseteq {g} \X (1..RingSize)
  PROVE  FirstFree(free) \in free
<1> DEFINE T == {n \in 1..RingSize : <<g, n>> \in free}
<1>1. T \subseteq Nat /\ T # {} BY RingAssumption
<1>2. PICK n \in T : \A m \in T : n <= m BY <1>1, LeastNumber
<1>3. \A c \in free : c[1] = g /\ c[2] \in T OBVIOUS
<1>4. <<g, n>> \in free /\ \A c \in free : g < c[1] \/ (g = c[1] /\ n <= c[2])
  BY <1>2, <1>3
<1>5. \E b \in free : \A c \in free : b[1] < c[1] \/ (b[1] = c[1] /\ b[2] <= c[2])
  <2>1. <<g, n>>[1] = g /\ <<g, n>>[2] = n OBVIOUS
  <2> QED BY <1>4, <2>1
<1> QED BY <1>5 DEF FirstFree

(* A buffer in one place at most *)

LEMMA CountOnce ==
  ASSUME NEW S, NEW s \in Seq(S), Once(s), NEW b, b # NoBuffer,
         NEW I, I \subseteq {i \in DOMAIN s : s[i].buf = b}
  PROVE  /\ Cardinality(I) \in {0, 1}
         /\ b \notin Named(s) => Cardinality(I) = 0
<1>1. ASSUME b \notin Named(s) PROVE I = {} BY <1>1 DEF Named
<1>2. CASE I = {} BY <1>2, FS_EmptySet
<1>3. CASE I # {}
  <2>1. PICK i : i \in I BY <1>3
  <2>2. I = {i} BY <2>1 DEF Once
  <2> QED BY <1>1, <1>3, <2>2, FS_Singleton
<1> QED BY <1>1, <1>2, <1>3, FS_EmptySet

LEMMA NoBufferIsNone == NoBuffer \notin Buffers
BY DEF NoBuffer, Buffers, Shapes

LEMMA ApartIsOneOwner == ASSUME TypeOK, Apart, Owned PROVE OneOwner
<1> SUFFICES ASSUME NEW b \in ring PROVE Places(b) <= (IF b \in busy THEN 1 ELSE 0)
  BY DEF OneOwner
<1> DEFINE sent == {i \in DOMAIN toComp : toComp[i].op = "record" /\ toComp[i].buf = b}
           told == {i \in DOMAIN fromComp : fromComp[i].buf = b}
           read == {i \in DOMAIN queue : queue[i].buf = b}
<1>1. b # NoBuffer BY NoBufferIsNone DEF TypeOK
<1>2. Cardinality(sent) \in {0, 1} /\ (b \notin Sent => Cardinality(sent) = 0)
  BY <1>1, CountOnce, sent \subseteq {i \in DOMAIN toComp : toComp[i].buf = b}
     DEF TypeOK, Apart, Sent
<1>3. Cardinality(told) \in {0, 1} /\ (b \notin Told => Cardinality(told) = 0)
  BY <1>1, CountOnce DEF TypeOK, Apart, Told
<1>4. Cardinality(read) \in {0, 1} /\ (b \notin Read => Cardinality(read) = 0)
  BY <1>1, CountOnce DEF TypeOK, Apart, Read
<1>5. /\ (pending = b <=> b \in Filled) /\ (cur = b <=> b \in Used)
  BY <1>1 DEF Filled, Used
<1>6. b \in Away => b \in busy BY DEF Owned
<1> HIDE DEF sent, told, read
<1>7. Places(b) = Cardinality(sent) + Cardinality(told) + Cardinality(read)
                   + (IF b \in Filled THEN 1 ELSE 0) + (IF b \in Used THEN 1 ELSE 0)
  BY <1>5 DEF Places, sent, told, read
<1> QED BY <1>2, <1>3, <1>4, <1>6, <1>7 DEF Apart, Away

--------------------------------------------------------------------------------
(* Steps *)

\* What the buffers and sizes are about; the other steps leave it alone
flowVars == <<toComp, fromComp, queue, pending, cur, ring, busy, geom, shape>>

Flows ==
  \/ Dispatch \/ CallbackReturns \/ ReadEvents \/ Connect \/ ClockAsks
  \/ ServeRequest \/ Draw \/ Resize \/ Teardown

LEMMA FlowOrQuiet == ASSUME [Next]_vars PROVE Flows \/ UNCHANGED flowVars
<1> USE DEF mainVars, clkVars, recVars, compVars, chanVars, flowVars
<1>1. CASE Compositor BY <1>1 DEF Compositor, CompositorGoes, Flows
<1>2. CASE EventLoop BY <1>2 DEF EventLoop, LoopTurns, LoopWoken, LoopLost, Flows
<1>3. CASE Main
  BY <1>3 DEF Main, StartFails, SyncTurns, Synced, Signal, Killed, MainLoopEnds, JoinClock,
              StopFlag, StopWake, StopJoined, Flows
<1>4. CASE Clock BY <1>4 DEF Clock, Elapses, ClockLooks, Flows
<1>5. CASE UNCHANGED vars BY <1>5 DEF vars
<1> QED BY <1>1, <1>2, <1>3, <1>4, <1>5 DEF Next

LEMMA ThreadsKeep == ASSUME Threads, [Next]_vars PROVE Threads'
<1> USE DEF Threads, Alive, mainVars, clkVars, recVars, compVars, chanVars
<1>1. CASE Compositor
  <2>1. /\ Alive
        /\ UNCHANGED <<main, loop, clk, up>>
    BY <1>1 DEF Compositor, ServeRequest, Draw, Resize, CompositorGoes
  <2> QED BY <2>1
<1>2. CASE EventLoop
  <2>1. Alive /\ main' \in {main, "dead"} /\ UNCHANGED <<clk, up>>
    BY <1>2 DEF EventLoop, Dispatch, HandleSetup, HandleFrame, HandleFailed, HandleCancelled, Crash,
                CallbackReturns, ReadEvents, LoopTurns, LoopWoken, LoopLost
  <2> QED BY <2>1
<1>3. CASE Main
  <2>1. CASE StartFails BY <2>1 DEF StartFails
  <2>2. CASE Connect BY <2>2 DEF Connect
  <2>3. CASE SyncTurns BY <2>3 DEF SyncTurns
  <2>4. CASE Synced BY <2>4 DEF Synced, Teardown
  <2>5. CASE Signal \/ Killed BY <2>5 DEF Signal, Killed
  <2>6. CASE MainLoopEnds \/ JoinClock BY <2>6 DEF MainLoopEnds, JoinClock
  <2>7. CASE StopFlag \/ StopWake BY <2>7 DEF StopFlag, StopWake
  <2>8. CASE StopJoined BY <2>8 DEF StopJoined, Teardown
  <2> QED BY <1>3, <2>1, <2>2, <2>3, <2>4, <2>5, <2>6, <2>7, <2>8 DEF Main
<1>4. CASE Clock BY <1>4 DEF Clock, Elapses, ClockLooks, ClockAsks
<1>5. CASE UNCHANGED vars BY <1>5 DEF vars
<1> QED BY <1>1, <1>2, <1>3, <1>4, <1>5 DEF Next

\* One step of dispatching
LEMMA LoopKeeps == ASSUME TypeOK, Threads, Loop, Owned, Sizes, [Next]_vars PROVE Loop'
<1> USE DEF Loop, mainVars, clkVars, recVars, compVars, chanVars
<1>1. CASE Compositor
  BY <1>1 DEF Compositor, ServeRequest, Draw, Resize, CompositorGoes
<1>2. CASE EventLoop
  <2>1. CASE Dispatch
    <3>1. PICK e : e = Head(queue) OBVIOUS
    <3>2. CASE HandleSetup(e)
      <4>1. ring' \subseteq {geom'} \X (1..RingSize)
        BY <3>2, RingAssumption DEF HandleSetup, CreateBuffers
      <4>2. loop' = "dispatch" /\ cur' = cur /\ loop = "dispatch"
        BY <2>1, <3>2 DEF HandleSetup, Dispatch
      <4> QED BY <4>1, <4>2
    <3>3. CASE HandleFrame(e)
      BY <2>1, <3>3 DEF HandleFrame, Crash, Dispatch
    <3>4. CASE HandleFailed BY <2>1, <3>4 DEF HandleFailed, Dispatch
    <3>5. CASE HandleCancelled(e) BY <2>1, <3>5 DEF HandleCancelled, Crash, Dispatch
    <3> QED BY <2>1, <3>1, <3>2, <3>3, <3>4, <3>5 DEF Dispatch
  <2>2. CASE CallbackReturns BY <2>2 DEF CallbackReturns
  <2>3. CASE ReadEvents BY <2>3 DEF ReadEvents
  <2>4. CASE LoopTurns \/ LoopWoken \/ LoopLost BY <2>4 DEF LoopTurns, LoopWoken, LoopLost
  <2> QED BY <1>2, <2>1, <2>2, <2>3, <2>4 DEF EventLoop
<1>3. CASE Main
  <2>1. CASE Connect BY <2>1 DEF Connect, Threads
  <2>2. CASE SyncTurns BY <2>2 DEF SyncTurns
  <2>3. CASE Synced BY <2>3 DEF Synced, Teardown
  <2>4. CASE StopJoined BY <2>4 DEF StopJoined, Teardown
  <2>5. CASE StartFails \/ Signal \/ Killed \/ MainLoopEnds \/ JoinClock \/ StopFlag \/ StopWake
    BY <2>5 DEF StartFails, Signal, Killed, MainLoopEnds, JoinClock, StopFlag, StopWake
  <2> QED BY <1>3, <2>1, <2>2, <2>3, <2>4, <2>5 DEF Main
<1>4. CASE Clock BY <1>4 DEF Clock, Elapses, ClockLooks, ClockAsks
<1>5. CASE UNCHANGED vars BY <1>5 DEF vars
<1> QED BY <1>1, <1>2, <1>3, <1>4, <1>5 DEF Next

\* The types of threads and flags, and of what flows
Flags ==
  /\ main \in {"start", "sync", "run", "join", "stop", "wake", "wait", "done", "exit", "dead"}
  /\ loop \in {"poll", "dispatch", "callback", "gone"}
  /\ clk \in {"nap", "ask", "gone"}
  /\ {quit, late, running, failed, setupDone, up, woken, asked, lost} \subseteq BOOLEAN

FlowTypes ==
  /\ geom \in 0..MaxSetups /\ shape \in 0..MaxSetups
  /\ ring \subseteq Buffers /\ busy \subseteq ring
  /\ cur \in Buffers \cup {NoBuffer} /\ pending \in Buffers \cup {NoBuffer}
  /\ toComp \in Seq(Requests) /\ fromComp \in Seq(Events) /\ queue \in Seq(Events)

FlowInv == FlowTypes /\ Sizes /\ Apart /\ Owned

LEMMA FlagsKeep == ASSUME Flags, [Next]_vars PROVE Flags'
<1> USE DEF Flags, mainVars, clkVars, recVars, compVars, chanVars
<1>1. CASE Compositor
  <2>1. asked' \in BOOLEAN /\ lost' \in BOOLEAN
    BY <1>1 DEF Compositor, ServeRequest, ServeRecord, Draw, Resize, CompositorGoes
  <2>2. UNCHANGED <<main, loop, clk, quit, late, running, failed, setupDone, up, woken>>
    BY <1>1 DEF Compositor, ServeRequest, Draw, Resize, CompositorGoes
  <2> QED BY <2>1, <2>2
<1>2. CASE EventLoop
  <2>1. CASE Dispatch
    BY <2>1 DEF Dispatch, HandleSetup, HandleFrame, HandleFailed, HandleCancelled, Crash
  <2>2. CASE CallbackReturns \/ ReadEvents BY <2>2 DEF CallbackReturns, ReadEvents
  <2>3. CASE LoopTurns \/ LoopWoken \/ LoopLost BY <2>3 DEF LoopTurns, LoopWoken, LoopLost
  <2> QED BY <1>2, <2>1, <2>2, <2>3 DEF EventLoop
<1>3. CASE Main
  BY <1>3 DEF Main, StartFails, Connect, SyncTurns, Synced, Signal, Killed, MainLoopEnds, JoinClock,
              StopFlag, StopWake, StopJoined, Teardown
<1>4. CASE Clock BY <1>4 DEF Clock, Elapses, ClockLooks, ClockAsks
<1>5. CASE UNCHANGED vars BY <1>5 DEF vars
<1> QED BY <1>1, <1>2, <1>3, <1>4, <1>5 DEF Next

LEMMA RequestType ==
  ASSUME NEW op \in {"create", "sync", "record", "destroy", "repaint"},
         NEW b \in Buffers \cup {NoBuffer}, NEW old \in SUBSET Buffers
  PROVE  Request(op, b, old) \in Requests /\ Request(op, b, old).buf = b /\ Request(op, b, old).op = op
BY DEF Request, Requests

LEMMA EventType ==
  ASSUME NEW ev \in {"setup", "synced", "frame", "failed", "cancelled"},
         NEW b \in Buffers \cup {NoBuffer}, NEW g \in 0..MaxSetups
  PROVE  /\ Event(ev, b, g) \in Events /\ Event(ev, b, g).buf = b /\ Event(ev, b, g).ev = ev
         /\ Event(ev, b, g).geom = g
BY DEF Event, Events

\* A request is appended that is not for the creation
LEMMA SendKeepsCreate ==
  ASSUME NEW s \in Seq(Requests), NEW r \in Requests, r.op # "create", CreateFirst(s)
  PROVE  CreateFirst(Append(s, r))
<1>1. /\ DOMAIN Append(s, r) = DOMAIN s \cup {Len(s) + 1}
      /\ \A i \in DOMAIN s : Append(s, r)[i] = s[i]
      /\ Append(s, r)[Len(s) + 1] = r
  OBVIOUS
<1> QED BY <1>1 DEF CreateFirst

\* What one event taken from the queue leaves
LEMMA TakeEvent ==
  ASSUME FlowInv, queue # <<>>, queue' = Tail(queue), fromComp' = fromComp, shape' = shape
  PROVE  /\ queue' \in Seq(Events) /\ Head(queue) \in Events
         /\ Once(queue') /\ Read' \subseteq Read
         /\ Head(queue).buf \in Read \cup {NoBuffer} /\ Head(queue).buf \notin Read'
         /\ geom' = geom /\ toComp' = toComp => Sizes'
<1>1. queue \in Seq(Events) /\ Once(queue) BY DEF FlowInv, FlowTypes, Apart
<1>2. /\ queue' \in Seq(Events) /\ Head(queue) \in Events
      /\ Once(queue') /\ Read' \subseteq Read
      /\ Head(queue).buf \in Read \cup {NoBuffer} /\ Head(queue).buf \notin Read'
  BY <1>1, NamedTail, TailIs DEF Read
<1>3. ASSUME geom' = geom, toComp' = toComp PROVE Sizes'
  <2>1. Rising(queue, geom, shape)' BY <1>1, <1>3, RisingTail DEF FlowInv, Sizes
  <2>2. Before(queue, fromComp)' BY <1>1, BeforeTail DEF FlowInv, Sizes
  <2>3. CreateFirst(toComp)' BY <1>3 DEF FlowInv, Sizes, CreateFirst
  <2> QED BY <1>3, <2>1, <2>2, <2>3 DEF FlowInv, Sizes
<1> QED BY <1>2, <1>3

LEMMA CaptureAppended ==
  ASSUME NEW s \in Seq(Requests), Once(s), CreateFirst(s), NEW b \in Buffers, b \notin Named(s)
  PROVE  LET t == Append(s, Request("record", b, {}))
         IN t \in Seq(Requests) /\ Once(t) /\ CreateFirst(t) /\ Named(t) = Named(s) \cup {b}
<1> DEFINE r == Request("record", b, {})
<1>1. r \in Requests /\ r.buf = b /\ r.op = "record" /\ b # NoBuffer
  BY RequestType, NoBufferIsNone
<1> HIDE DEF r
<1>2. Append(s, r) \in Seq(Requests) BY <1>1
<1>3. Named(Append(s, r)) = Named(s) \cup {b} BY <1>1, NamedAppend
<1>4. Once(Append(s, r)) BY <1>1, OnceAppend
<1>5. CreateFirst(Append(s, r)) BY <1>1, SendKeepsCreate
<1> QED BY <1>2, <1>3, <1>4, <1>5 DEF r

\* A request that names no buffer
LEMMA OtherAppended ==
  ASSUME NEW s \in Seq(Requests), Once(s), CreateFirst(s),
         NEW r \in Requests, r.op # "create", r.buf = NoBuffer
  PROVE  /\ Append(s, r) \in Seq(Requests) /\ Once(Append(s, r)) /\ CreateFirst(Append(s, r))
         /\ Named(Append(s, r)) = Named(s)
<1>1. Named(Append(s, r)) = Named(s) \cup ({NoBuffer} \ {NoBuffer}) BY NamedAppend
<1>2. Once(Append(s, r)) BY OnceAppend DEF Named
<1>3. CreateFirst(Append(s, r)) BY SendKeepsCreate
<1> QED BY <1>1, <1>2, <1>3

\* A capture that is queued goes to a buffer that is nowhere
LEMMA CaptureQueued ==
  ASSUME FlowInv, ring \subseteq {geom} \X (1..RingSize), RecordFrame(ring, busy, toComp)
  PROVE  \E B \in SUBSET (ring \ busy) :
           /\ busy' = busy \cup B /\ busy' \subseteq ring
           /\ toComp' \in Seq(Requests) /\ Once(toComp') /\ CreateFirst(toComp')
           /\ Sent' = Sent \cup B
<1>1. /\ geom \in Nat /\ busy \subseteq ring /\ ring \subseteq Buffers
      /\ toComp \in Seq(Requests) /\ Once(toComp) /\ CreateFirst(toComp)
  BY DEF FlowInv, FlowTypes, Apart, Sizes
<1>2. CASE ring = busy
  <2>1. busy' = busy \cup {} /\ toComp' = toComp /\ Sent' = Sent \cup {}
    BY <1>2 DEF RecordFrame, Sent
  <2> QED BY <1>1, <2>1
<1>3. CASE ring # busy
  <2> DEFINE b == FirstFree(ring \ busy)
  <2>1. b \in ring \ busy BY <1>1, <1>3, FirstFreeIsFree
  <2>2. busy' = busy \cup {b} /\ toComp' = Append(toComp, Request("record", b, {}))
    BY <1>3 DEF RecordFrame
  <2> HIDE DEF b
  <2>3. b \notin Named(toComp) BY <2>1 DEF FlowInv, Owned, Away, Sent
  <2> QED BY <1>1, <2>1, <2>2, <2>3, CaptureAppended DEF Sent
<1> QED BY <1>2, <1>3

\* An event that changes no more than that its buffer may be free again
LEMMA EventOnly ==
  ASSUME FlowInv, Dispatch, UNCHANGED <<toComp, cur, ring, geom>>,
         busy' \in {busy, busy \ {Head(queue).buf}}
  PROVE  FlowInv'
<1>1. queue # <<>> /\ queue' = Tail(queue) /\ UNCHANGED <<fromComp, shape, pending>>
  BY DEF Dispatch, compVars
<1>2. /\ Once(queue') /\ Read' \subseteq Read /\ queue' \in Seq(Events)
      /\ Head(queue).buf \in Read \cup {NoBuffer} /\ Head(queue).buf \notin Read' /\ Sizes'
  BY <1>1, TakeEvent
<1>3. Sent' = Sent /\ Told' = Told /\ Filled' = Filled /\ Used' = Used
  BY <1>1 DEF Sent, Told, Filled, Used
<1>4. NoBuffer \notin ring BY NoBufferIsNone DEF FlowInv, FlowTypes
<1>5. Apart' BY <1>1, <1>2, <1>3 DEF FlowInv, Apart
<1>6. Owned' BY <1>2, <1>3, <1>4 DEF FlowInv, Owned, Apart, Away
<1>7. FlowTypes' BY <1>1, <1>2 DEF FlowInv, FlowTypes
<1> QED BY <1>2, <1>5, <1>6, <1>7 DEF FlowInv

LEMMA FrameKeeps ==
  ASSUME FlowInv, Loop, Dispatch, HandleFrame(Head(queue))
  PROVE  FlowInv'
<1> DEFINE e == Head(queue)
<1>1. /\ queue # <<>> /\ queue' = Tail(queue) /\ loop = "dispatch"
      /\ UNCHANGED <<fromComp, shape, pending>>
  BY DEF Dispatch, compVars
<1>2. cur = NoBuffer /\ ring \subseteq {geom} \X (1..RingSize) BY <1>1 DEF Loop
<1>3. CASE UNCHANGED <<toComp, cur, ring, busy, geom>> BY <1>3, EventOnly
<1>4. CASE /\ RecordFrame(ring, busy, toComp) /\ e.buf \in ring
           /\ cur' = e.buf /\ UNCHANGED <<geom, ring>>
  <2>1. PICK B \in SUBSET (ring \ busy) :
          /\ busy' = busy \cup B /\ busy' \subseteq ring
          /\ toComp' \in Seq(Requests) /\ Once(toComp') /\ CreateFirst(toComp')
          /\ Sent' = Sent \cup B
    BY <1>2, <1>4, CaptureQueued
  <2>2. e.buf # NoBuffer BY <1>4, NoBufferIsNone DEF FlowInv, FlowTypes
  <2>3. /\ Told' = Told /\ Filled' = Filled /\ Used' = {e.buf} /\ Used = {}
        /\ Read' \subseteq Read /\ e.buf \in Read /\ e.buf \notin Read' /\ Once(queue')
        /\ queue' \in Seq(Events)
    BY <1>1, <1>2, <1>4, <2>2, TakeEvent DEF Told, Filled, Used
  <2>4. B \cap Away = {} /\ \A b \in B : b[1] <= geom
    <3>1. \A b \in B : b[1] = geom BY <1>2
    <3>2. geom <= geom BY DEF FlowInv, FlowTypes
    <3> QED BY <3>1, <3>2 DEF FlowInv, Owned
  <2>5. Apart' BY <1>1, <2>1, <2>3, <2>4 DEF FlowInv, Apart, Away
  <2>6. Owned' BY <1>4, <2>1, <2>3, <2>4 DEF FlowInv, Owned, Away
  <2>7. FlowTypes' BY <1>1, <1>4, <2>1, <2>3 DEF FlowInv, FlowTypes
  <2>8. Sizes'
    <3>1. Rising(queue, geom, shape)'
      BY <1>1, <1>4, RisingTail DEF FlowInv, FlowTypes, Sizes
    <3>2. Before(queue, fromComp)' BY <1>1, BeforeTail DEF FlowInv, FlowTypes, Sizes
    <3>3. CreateFirst(toComp)' BY <1>1, <2>1 DEF CreateFirst
    <3> QED BY <1>1, <1>4, <3>1, <3>2, <3>3 DEF FlowInv, Sizes
  <2> QED BY <2>5, <2>6, <2>7, <2>8 DEF FlowInv
<1> QED BY <1>3, <1>4 DEF HandleFrame, Crash

\* A ring of a larger size: its buffers are nowhere yet
LEMMA SetupKeeps ==
  ASSUME FlowInv, Loop, Dispatch, Head(queue).ev = "setup", HandleSetup(Head(queue))
  PROVE  FlowInv'
<1> DEFINE e == Head(queue)
           mid == IF ring = {} THEN toComp ELSE Append(toComp, Request("destroy", NoBuffer, ring))
<1>1. /\ queue # <<>> /\ queue' = Tail(queue) /\ UNCHANGED <<fromComp, shape, pending, cur>>
      /\ geom' = e.geom
  BY DEF Dispatch, HandleSetup, compVars
<1>2. PICK made \in CreateBuffers(e.geom) : ring' = made /\ RecordFrame(made, {}, mid)
  BY DEF HandleSetup
<1>3. /\ Once(queue') /\ Read' \subseteq Read /\ queue' \in Seq(Events) /\ e \in Events
      /\ e.geom \in 0..MaxSetups
  BY <1>1, TakeEvent DEF Events
<1>4. geom < e.geom /\ e.geom <= shape
  BY <1>1, TailIs DEF FlowInv, FlowTypes, Sizes, Rising, Setup
<1>5. made \subseteq {e.geom} \X (1..RingSize) BY RingAssumption DEF CreateBuffers
<1>6. made \subseteq Buffers /\ made \cap Away = {}
  <2>1. e.geom \in Shapes BY <1>3, <1>4 DEF Shapes, FlowInv, FlowTypes
  <2>2. \A b \in made : b[1] = e.geom BY <1>5
  <2>3. \A b \in Away : b[1] <= geom BY DEF FlowInv, Owned
  <2>4. ~(e.geom <= geom) BY <1>3, <1>4 DEF FlowInv, FlowTypes
  <2> QED BY <1>5, <2>1, <2>2, <2>3, <2>4 DEF Buffers
<1>7. mid \in Seq(Requests) /\ Once(mid) /\ CreateFirst(mid) /\ Named(mid) = Sent
  <2>1. toComp \in Seq(Requests) /\ Once(toComp) /\ CreateFirst(toComp) /\ ring \in SUBSET Buffers
    BY DEF FlowInv, FlowTypes, Apart, Sizes
  <2>2. CASE ring = {} BY <2>1, <2>2 DEF Sent
  <2>3. CASE ring # {}
    <3> DEFINE r == Request("destroy", NoBuffer, ring)
    <3>1. r \in Requests /\ r.buf = NoBuffer /\ r.op = "destroy" BY <2>1, RequestType
    <3> HIDE DEF r
    <3>2. mid = Append(toComp, r) BY <2>3 DEF r
    <3> QED BY <2>1, <3>1, <3>2, OtherAppended DEF Sent
  <2> QED BY <2>2, <2>3
<1> HIDE DEF mid
<1>8. \E B \in SUBSET made :
        /\ busy' = B
        /\ toComp' \in Seq(Requests) /\ Once(toComp') /\ CreateFirst(toComp')
        /\ Sent' = Sent \cup B
  <2>1. CASE made = {}
    <3>1. busy' = {} /\ toComp' = mid BY <1>2, <2>1 DEF RecordFrame
    <3>2. Sent' = Sent \cup {} BY <1>7, <3>1 DEF Sent
    <3>3. toComp' \in Seq(Requests) /\ Once(toComp') /\ CreateFirst(toComp') BY <1>7, <3>1
    <3> QED BY <3>1, <3>2, <3>3
  <2>2. CASE made # {}
    <3> DEFINE b == FirstFree(made \ {})
    <3>1. b \in made
      <4>1. made \ {} = made OBVIOUS
      <4> QED BY <1>3, <1>5, <2>2, <4>1, FirstFreeIsFree
    <3>2. busy' = {} \cup {b} /\ toComp' = Append(mid, Request("record", b, {}))
      BY <1>2, <2>2 DEF RecordFrame
    <3> HIDE DEF b
    <3>3. b \in Buffers /\ b \notin Named(mid) BY <1>6, <1>7, <3>1 DEF Away
    <3>4. /\ toComp' \in Seq(Requests) /\ Once(toComp') /\ CreateFirst(toComp')
          /\ Named(toComp') = Sent \cup {b}
      BY <1>7, <3>2, <3>3, CaptureAppended
    <3> QED BY <3>1, <3>2, <3>4 DEF Sent
  <2> QED BY <2>1, <2>2
<1>9. PICK B \in SUBSET made :
        /\ busy' = B
        /\ toComp' \in Seq(Requests) /\ Once(toComp') /\ CreateFirst(toComp')
        /\ Sent' = Sent \cup B
  BY <1>8
<1>10. Told' = Told /\ Filled' = Filled /\ Used' = Used BY <1>1 DEF Told, Filled, Used
<1>11. FlowTypes' BY <1>1, <1>2, <1>3, <1>6, <1>9 DEF FlowInv, FlowTypes
<1>12. Apart'
  <2>1. B \cap Away = {} BY <1>6
  <2> QED BY <1>1, <1>3, <1>9, <1>10, <2>1 DEF FlowInv, Apart, Away
<1>13. Owned'
  <2>1. Away' \subseteq Away \cup B BY <1>3, <1>9, <1>10 DEF Away
  <2>2. Away' \cap made \subseteq B BY <1>6, <2>1
  <2>3. \A b \in B : b[1] = e.geom BY <1>5
  <2>4. \A b \in Away : b[1] <= geom BY DEF FlowInv, Owned
  <2>5. \A b \in Away : b \in Buffers /\ b[1] \in Nat
    <3>1. \A i \in DOMAIN toComp : toComp[i] \in Requests BY DEF FlowInv, FlowTypes
    <3>2. \A i \in DOMAIN fromComp : fromComp[i] \in Events BY DEF FlowInv, FlowTypes
    <3>3. \A i \in DOMAIN queue : queue[i] \in Events BY DEF FlowInv, FlowTypes
    <3>4. Sent \subseteq Buffers BY <3>1 DEF Sent, Named, Requests
    <3>5. Told \subseteq Buffers /\ Read \subseteq Buffers
      BY <3>2, <3>3 DEF Told, Read, Named, Events
    <3>6. Filled \subseteq Buffers /\ Used \subseteq Buffers
      BY DEF FlowInv, FlowTypes, Filled, Used
    <3>7. \A b \in Buffers : b[1] \in Nat BY DEF Buffers, Shapes
    <3> QED BY <3>4, <3>5, <3>6, <3>7 DEF Away
  <2>6. geom \in Nat /\ e.geom \in Nat BY <1>3 DEF FlowInv, FlowTypes
  <2>7. \A b \in Away' : b[1] <= e.geom BY <1>4, <2>1, <2>3, <2>4, <2>5, <2>6
  <2> QED BY <1>1, <1>2, <1>9, <2>2, <2>7 DEF Owned
<1>14. Sizes'
  <2>1. Rising(queue, geom, shape)' BY <1>1, RisingAfter DEF FlowInv, FlowTypes, Sizes
  <2>2. Setup(queue, 1) /\ e = queue[1]  BY <1>1, TailIs DEF FlowInv, FlowTypes, Setup
  <2>3. Rising(fromComp, e.geom, shape)
    BY <2>2 DEF FlowInv, Sizes, Before, Rising, Setup
  <2>4. Before(queue, fromComp)' BY <1>1, BeforeTail DEF FlowInv, FlowTypes, Sizes
  <2>5. CreateFirst(toComp)' BY <1>1, <1>9 DEF CreateFirst
  <2> QED BY <1>1, <1>4, <2>1, <2>3, <2>4, <2>5 DEF Sizes
<1> QED BY <1>11, <1>12, <1>13, <1>14 DEF FlowInv

LEMMA DispatchKeeps == ASSUME FlowInv, Loop, Dispatch PROVE FlowInv'
<1> DEFINE e == Head(queue)
<1>1. CASE e.ev = "setup" /\ HandleSetup(e) BY <1>1, SetupKeeps
<1>2. CASE e.ev = "frame" /\ HandleFrame(e) BY <1>2, FrameKeeps
<1>3. CASE HandleFailed \/ HandleCancelled(e)
           \/ (e.ev = "synced" /\ UNCHANGED <<toComp, cur, ring, busy, geom>>)
  <2>1. UNCHANGED <<toComp, cur, ring, geom>> /\ busy' \in {busy, busy \ {e.buf}}
    BY <1>3 DEF HandleFailed, HandleCancelled, Crash
  <2> QED BY <2>1, EventOnly
<1> QED BY <1>1, <1>2, <1>3 DEF Dispatch

LEMMA ReturnKeeps == ASSUME FlowInv, Loop, CallbackReturns PROVE FlowInv'
<1>1. /\ busy' = busy \ {cur} /\ cur' = NoBuffer /\ cur \in ring
      /\ UNCHANGED <<toComp, fromComp, queue, pending, ring, geom, shape>>
  BY DEF CallbackReturns, chanVars, compVars, Loop
<1>2. cur # NoBuffer BY <1>1, NoBufferIsNone DEF FlowInv, FlowTypes
<1>3. /\ Sent' = Sent /\ Told' = Told /\ Read' = Read /\ Filled' = Filled
      /\ Used = {cur} /\ Used' = {}
  BY <1>1, <1>2 DEF Sent, Told, Read, Filled, Used
<1>4. Apart' BY <1>1, <1>3 DEF FlowInv, Apart
<1>5. Owned' BY <1>1, <1>3 DEF FlowInv, Apart, Owned, Away
<1>6. FlowTypes' BY <1>1 DEF FlowInv, FlowTypes
<1>7. Sizes' BY <1>1 DEF FlowInv, Sizes, CreateFirst
<1> QED BY <1>4, <1>5, <1>6, <1>7 DEF FlowInv

LEMMA EmptyFlow ==
  /\ Named(<<>>) = {} /\ Once(<<>>) /\ CreateFirst(<<>>) /\ CreateFirst(<<>>)'
  /\ \A low, high : Rising(<<>>, low, high)
  /\ \A s : Before(<<>>, s) /\ Before(s, <<>>)
BY DEF Named, Once, CreateFirst, Rising, Before

LEMMA ReadKeeps == ASSUME FlowInv, Loop, ReadEvents PROVE FlowInv'
<1>1. /\ queue = <<>> /\ queue' = fromComp /\ fromComp' = <<>>
      /\ UNCHANGED <<toComp, pending, cur, ring, busy, geom, shape>>
  BY DEF ReadEvents, recVars, compVars, Loop
<1>2. /\ Sent' = Sent /\ Told' = {} /\ Read = {} /\ Read' = Told /\ Filled' = Filled /\ Used' = Used
  BY <1>1, EmptyFlow DEF Sent, Told, Read, Filled, Used
<1>3. Apart' BY <1>1, <1>2, EmptyFlow DEF FlowInv, Apart
<1>4. Owned' BY <1>1, <1>2 DEF FlowInv, Owned, Away
<1>5. FlowTypes' BY <1>1 DEF FlowInv, FlowTypes
<1>6. Sizes' BY <1>1, EmptyFlow DEF FlowInv, Sizes, CreateFirst
<1> QED BY <1>3, <1>4, <1>5, <1>6 DEF FlowInv

LEMMA TeardownKeeps == ASSUME FlowInv, Teardown PROVE FlowInv'
<1>1. /\ ring' = {} /\ busy' = {} /\ cur' = NoBuffer
      /\ toComp' = <<>> /\ fromComp' = <<>> /\ queue' = <<>>
      /\ UNCHANGED <<geom, shape, pending>>
  BY DEF Teardown, compVars
<1>2. Sent' = {} /\ Told' = {} /\ Read' = {} /\ Used' = {} /\ Filled' = Filled
  BY <1>1, EmptyFlow DEF Sent, Told, Read, Used, Filled
<1>3. Apart' BY <1>1, <1>2, EmptyFlow DEF Apart
<1>4. Owned' BY <1>1, <1>2 DEF FlowInv, Owned, Away
<1>5. FlowTypes' BY <1>1 DEF FlowInv, FlowTypes
<1>6. Sizes' BY <1>1, EmptyFlow DEF FlowInv, Sizes
<1> QED BY <1>3, <1>4, <1>5, <1>6 DEF FlowInv

LEMMA ConnectKeeps == ASSUME FlowInv, Threads, Connect PROVE FlowInv'
<1> DEFINE create == Request("create", NoBuffer, {})
           sync == Request("sync", NoBuffer, {})
<1>1. /\ toComp' = <<create, sync>> /\ UNCHANGED <<fromComp, queue, pending, cur, ring, busy, geom, shape>>
      /\ shape = 0 /\ toComp = <<>>
  BY DEF Connect, compVars, Threads
<1>2. create \in Requests /\ sync \in Requests BY RequestType
<1>3. create.buf = NoBuffer /\ sync.buf = NoBuffer /\ sync.op = "sync" BY DEF Request
<1> HIDE DEF create, sync
<1>4. toComp' \in Seq(Requests) /\ DOMAIN toComp' = {1, 2}
  BY <1>1, <1>2
<1>5. \A i \in DOMAIN toComp' : toComp'[i].buf = NoBuffer /\ (i # 1 => toComp'[i].op = "sync")
  BY <1>1, <1>3, <1>4
<1>6. Once(toComp') /\ Sent' = {} /\ CreateFirst(toComp)'
  BY <1>1, <1>5 DEF Once, Sent, Named, CreateFirst
<1>7. Told' = Told /\ Read' = Read /\ Used' = Used /\ Filled' = Filled
  BY <1>1 DEF Told, Read, Used, Filled
<1>8. Apart' BY <1>1, <1>6, <1>7 DEF FlowInv, Apart
<1>9. Owned' BY <1>1, <1>6, <1>7 DEF FlowInv, Owned, Away
<1>10. FlowTypes' BY <1>1, <1>4 DEF FlowInv, FlowTypes
<1>11. Sizes' BY <1>1, <1>6 DEF FlowInv, Sizes
<1> QED BY <1>8, <1>9, <1>10, <1>11 DEF FlowInv

LEMMA AskKeeps == ASSUME FlowInv, ClockAsks PROVE FlowInv'
<1> DEFINE r == Request("repaint", NoBuffer, {})
<1>1. /\ toComp' = toComp \/ toComp' = Append(toComp, r)
      /\ UNCHANGED <<fromComp, queue, pending, cur, ring, busy, geom, shape>>
  BY DEF ClockAsks, recVars, compVars
<1>2. r \in Requests /\ r.buf = NoBuffer /\ r.op = "repaint" BY RequestType
<1> HIDE DEF r
<1>3. toComp \in Seq(Requests) /\ Once(toComp) /\ CreateFirst(toComp)
  BY DEF FlowInv, FlowTypes, Apart, Sizes
<1>4. /\ toComp' \in Seq(Requests) /\ Once(toComp') /\ CreateFirst(toComp') /\ Sent' = Sent
  BY <1>1, <1>2, <1>3, OtherAppended DEF Sent
<1>5. Told' = Told /\ Read' = Read /\ Used' = Used /\ Filled' = Filled
  BY <1>1 DEF Told, Read, Used, Filled
<1>6. Apart' BY <1>1, <1>4, <1>5 DEF FlowInv, Apart
<1>7. Owned' BY <1>1, <1>4, <1>5 DEF FlowInv, Owned, Away
<1>8. FlowTypes' BY <1>1, <1>4 DEF FlowInv, FlowTypes
<1>9. CreateFirst(toComp)' BY <1>1, <1>4 DEF CreateFirst
<1>10. Sizes' BY <1>1, <1>9 DEF FlowInv, Sizes
<1> QED BY <1>6, <1>7, <1>8, <1>10 DEF FlowInv

(* The compositor tells *)

\* Events in their order, behind those of q
InOrder(s, low, high, q) ==
  s \in Seq(Events) /\ Once(s) /\ Rising(s, low, high) /\ Before(q, s)

LEMMA OtherTold ==
  ASSUME NEW s, NEW low, NEW high, NEW q, InOrder(s, low, high, q),
         NEW e \in Events, e.ev # "setup", e.buf \notin Named(s)
  PROVE  /\ InOrder(Append(s, e), low, high, q)
         /\ Named(Append(s, e)) = Named(s) \cup ({e.buf} \ {NoBuffer})
<1>1. s \in Seq(Events) BY DEF InOrder
<1>2. /\ DOMAIN Append(s, e) = DOMAIN s \cup {Len(s) + 1}
      /\ \A i \in DOMAIN s : Append(s, e)[i] = s[i]
      /\ Append(s, e)[Len(s) + 1] = e
  BY <1>1
<1>3. Before(q, Append(s, e)) BY <1>2 DEF Before, Setup, InOrder
<1>4. Append(s, e) \in Seq(Events) BY <1>1
<1> QED BY <1>1, <1>3, <1>4, NamedAppend, OnceAppend, RisingOther DEF InOrder

LEMMA SetupTold ==
  ASSUME NEW s, NEW low \in Nat, NEW high \in Nat, low <= high,
         NEW q \in Seq(Events), Rising(q, low, high),
         InOrder(s, low, high, q), NEW e \in Events, e.geom = high + 1, e.buf = NoBuffer
  PROVE  /\ InOrder(Append(s, e), low, high + 1, q) /\ Named(Append(s, e)) = Named(s)
<1>1. s \in Seq(Events) BY DEF InOrder
<1>2. /\ DOMAIN Append(s, e) = DOMAIN s \cup {Len(s) + 1}
      /\ \A i \in DOMAIN s : Append(s, e)[i] = s[i]
      /\ Append(s, e)[Len(s) + 1] = e
  BY <1>1
<1>3. \A i \in DOMAIN q : q[i].geom \in Nat BY EventGeom
<1>4. Before(q, Append(s, e)) BY <1>2, <1>3 DEF Before, Setup, InOrder, Rising
<1>5. Append(s, e) \in Seq(Events) BY <1>1
<1>6. Named(Append(s, e)) = Named(s) \cup ({NoBuffer} \ {NoBuffer}) BY <1>1, NamedAppend
<1>7. Once(Append(s, e)) BY <1>1, OnceAppend DEF InOrder, Named
<1>8. Rising(Append(s, e), low, high + 1) BY <1>1, RisingSetup DEF InOrder
<1> QED BY <1>4, <1>5, <1>6, <1>7, <1>8 DEF InOrder

LEMMA NowInOrder ==
  ASSUME FlowInv
  PROVE  /\ InOrder(fromComp, geom, shape, queue) /\ Named(fromComp) = Told
         /\ geom \in Nat /\ shape \in Nat /\ geom <= shape
         /\ queue \in Seq(Events) /\ Rising(queue, geom, shape)
BY DEF FlowInv, FlowTypes, Apart, Sizes, InOrder, Told

\* The picture that is drawn, or that is not
LEMMA DrawKeeps == ASSUME FlowInv, Draw PROVE FlowInv'
<1> DEFINE e == Event("frame", pending, 0)
<1>1. /\ fromComp' = Append(fromComp, e) /\ pending # NoBuffer /\ pending' = NoBuffer
      /\ UNCHANGED <<toComp, queue, cur, ring, busy, geom, shape>>
  BY DEF Draw, Tell, recVars
<1>2. e \in Events /\ e.buf = pending /\ e.ev = "frame"
  BY EventType, RingAssumption DEF FlowInv, FlowTypes
<1> HIDE DEF e
<1>3. pending \notin Told BY <1>1 DEF FlowInv, Apart, Filled
<1>4. InOrder(fromComp', geom, shape, queue) /\ Named(fromComp') = Told \cup {pending}
  BY <1>1, <1>2, <1>3, NowInOrder, OtherTold
<1>5. /\ Told' = Told \cup {pending} /\ Filled = {pending} /\ Filled' = {}
      /\ Sent' = Sent /\ Read' = Read /\ Used' = Used
  BY <1>1, <1>4 DEF Told, Filled, Sent, Read, Used
<1>6. Apart' BY <1>1, <1>4, <1>5 DEF FlowInv, Apart, InOrder
<1>7. Owned' BY <1>1, <1>5 DEF FlowInv, Owned, Away
<1>8. FlowTypes' BY <1>1, <1>4 DEF FlowInv, FlowTypes, InOrder
<1>9. CreateFirst(toComp)' BY <1>1 DEF FlowInv, Sizes, CreateFirst
<1>10. Sizes' BY <1>1, <1>4, <1>9 DEF FlowInv, Sizes, InOrder
<1> QED BY <1>6, <1>7, <1>8, <1>10 DEF FlowInv

LEMMA ResizeKeeps == ASSUME FlowInv, Resize PROVE FlowInv'
<1> DEFINE setup == Event("setup", NoBuffer, shape + 1)
           gone == Event("cancelled", pending, 0)
<1>1. /\ shape \in 1..MaxSetups - 1 /\ shape' = shape + 1 /\ pending' = NoBuffer
      /\ UNCHANGED <<toComp, queue, cur, ring, busy, geom>>
  BY DEF Resize, recVars
<1>2. \/ fromComp' = Append(fromComp, setup)
      \/ pending # NoBuffer /\ fromComp' \in {fromComp \o <<gone, setup>>, fromComp \o <<setup, gone>>}
  BY DEF Resize, Tell
<1>larger. shape + 1 \in 0..MaxSetups BY <1>1, RingAssumption
<1>3. setup \in Events /\ setup.buf = NoBuffer /\ setup.ev = "setup" /\ setup.geom = shape + 1
  BY <1>larger, EventType
<1>4. gone \in Events /\ gone.buf = pending /\ gone.ev = "cancelled"
  BY EventType, RingAssumption DEF FlowInv, FlowTypes
<1>5. fromComp' \in {Append(fromComp, setup)}
        \cup IF pending = NoBuffer THEN {}
             ELSE {Append(Append(fromComp, gone), setup), Append(Append(fromComp, setup), gone)}
  BY <1>2, <1>3, <1>4, PairAppended DEF FlowInv, FlowTypes
<1> HIDE DEF setup, gone
<1>6. pending # NoBuffer => pending \notin Told BY DEF FlowInv, Apart, Filled
<1>7. /\ InOrder(fromComp', geom, shape + 1, queue)
      /\ Told \subseteq Told' /\ Told' \subseteq Told \cup Filled
  <2>1. CASE fromComp' = Append(fromComp, setup)
    <3>1. InOrder(fromComp', geom, shape + 1, queue) /\ Named(fromComp') = Told
      BY <1>3, <2>1, NowInOrder, SetupTold
    <3> QED BY <3>1 DEF Told
  <2>2. CASE pending # NoBuffer /\ fromComp' = Append(Append(fromComp, gone), setup)
    <3>1. /\ InOrder(Append(fromComp, gone), geom, shape, queue)
          /\ Named(Append(fromComp, gone)) = Told \cup {pending}
      BY <1>4, <1>6, <2>2, NowInOrder, OtherTold
    <3> DEFINE s == Append(fromComp, gone)
    <3> HIDE DEF s
    <3>2. InOrder(s, geom, shape, queue) BY <3>1 DEF s
    <3>3. /\ InOrder(Append(s, setup), geom, shape + 1, queue)
          /\ Named(Append(s, setup)) = Named(s)
      BY <1>3, <3>2, NowInOrder, SetupTold
    <3>4. Named(s) = Told \cup {pending} BY <3>1 DEF s
    <3>5. fromComp' = Append(s, setup) BY <2>2 DEF s
    <3> QED BY <2>2, <3>3, <3>4, <3>5 DEF Told, Filled
  <2>3. CASE pending # NoBuffer /\ fromComp' = Append(Append(fromComp, setup), gone)
    <3>1. /\ InOrder(Append(fromComp, setup), geom, shape + 1, queue)
          /\ Named(Append(fromComp, setup)) = Told
      BY <1>3, NowInOrder, SetupTold
    <3>2. InOrder(fromComp', geom, shape + 1, queue) /\ Named(fromComp') = Told \cup {pending}
      BY <1>4, <1>6, <2>3, <3>1, OtherTold
    <3> QED BY <2>3, <3>2 DEF Told, Filled
  <2> QED BY <1>5, <2>1, <2>2, <2>3
<1>8. Filled' = {} /\ Sent' = Sent /\ Read' = Read /\ Used' = Used
  BY <1>1 DEF Filled, Sent, Read, Used
<1>9. Apart' BY <1>1, <1>7, <1>8 DEF FlowInv, Apart, InOrder
<1>10. Owned' BY <1>1, <1>7, <1>8 DEF FlowInv, Owned, Away
<1>11. FlowTypes' BY <1>1, <1>7, <1>larger DEF FlowInv, FlowTypes, InOrder
<1>12. CreateFirst(toComp)' BY <1>1 DEF FlowInv, Sizes, CreateFirst
<1>13. Sizes'
  <2>1. Rising(queue, geom, shape + 1) BY NowInOrder, RisingMore
  <2>2. geom <= shape + 1 BY NowInOrder
  <2> QED BY <1>1, <1>7, <1>12, <2>1, <2>2 DEF Sizes, InOrder
<1> QED BY <1>9, <1>10, <1>11, <1>13 DEF FlowInv

\* What one request served leaves: its buffer is in nobody's hands, and there
\* is no second request for a recorder
LEMMA TakeRequest ==
  ASSUME FlowInv, toComp # <<>>, toComp' = Tail(toComp)
  PROVE  /\ toComp' \in Seq(Requests) /\ Head(toComp) \in Requests
         /\ Once(toComp') /\ Sent' \subseteq Sent
         /\ Head(toComp).buf \in Sent \cup {NoBuffer} /\ Head(toComp).buf \notin Sent'
         /\ CreateFirst(toComp)'
         /\ Head(toComp).op = "create" => shape = 0
<1>1. toComp \in Seq(Requests) /\ Once(toComp) /\ CreateFirst(toComp)
  BY DEF FlowInv, FlowTypes, Apart, Sizes
<1>2. /\ Head(toComp) \in Requests /\ toComp' \in Seq(Requests) /\ Head(toComp) = toComp[1]
      /\ 1 \in DOMAIN toComp
      /\ \A i \in DOMAIN toComp' : i \in Nat \ {0} /\ i + 1 \in DOMAIN toComp /\ toComp'[i] = toComp[i + 1]
  BY <1>1, TailIs
<1>3. \A i \in DOMAIN toComp' : toComp'[i].op # "create" BY <1>1, <1>2 DEF CreateFirst
<1>4. CreateFirst(toComp)' BY <1>3 DEF CreateFirst
<1>5. Head(toComp).op = "create" => shape = 0 BY <1>1, <1>2 DEF CreateFirst
<1>6. /\ Once(toComp') /\ Sent' \subseteq Sent
      /\ Head(toComp).buf \in Sent \cup {NoBuffer} /\ Head(toComp).buf \notin Sent'
  BY <1>1, NamedTail DEF Sent
<1> QED BY <1>2, <1>4, <1>5, <1>6

\* The compositor passes a buffer from a request on to an event or keeps it
LEMMA ServeKeeps == ASSUME FlowInv, ServeRequest PROVE FlowInv'
<1> DEFINE r == Head(toComp)
<1>1. /\ toComp # <<>> /\ toComp' = Tail(toComp)
      /\ UNCHANGED <<queue, cur, ring, busy, geom>>
  BY DEF ServeRequest, recVars
<1>2. /\ toComp' \in Seq(Requests) /\ Once(toComp') /\ Sent' \subseteq Sent /\ CreateFirst(toComp)'
      /\ r \in Requests /\ r.buf \in Sent \cup {NoBuffer} /\ r.buf \notin Sent'
      /\ r.op = "create" => shape = 0
  BY <1>1, TakeRequest
<1>3. r.buf \in Buffers \cup {NoBuffer} BY <1>2 DEF Requests
<1>4. Read' = Read /\ Used' = Used BY <1>1 DEF Read, Used
<1>5. pending \in Buffers \cup {NoBuffer} /\ shape \in 0..MaxSetups /\ 0 \in 0..MaxSetups
  BY RingAssumption DEF FlowInv, FlowTypes
\* Enough of the events and of the buffer that is pending
<1>6. ASSUME shape' \in 0..MaxSetups, pending' \in Buffers \cup {NoBuffer},
             InOrder(fromComp', geom, shape', queue), Rising(queue, geom, shape'), geom <= shape',
             Told \subseteq Told', Told' \cup Filled' \subseteq Told \cup Filled \cup {r.buf},
             Told' \cap Filled' = {}
      PROVE  FlowInv'
  <2>1. FlowTypes' BY <1>1, <1>2, <1>6 DEF FlowInv, FlowTypes, InOrder
  <2>2. Sizes' BY <1>1, <1>2, <1>6 DEF FlowInv, Sizes, InOrder
  <2>3. NoBuffer \notin Told' \cup Filled' BY DEF Told, Named, Filled
  <2>4. Told' \cup Filled' \subseteq Told \cup Filled \cup ({r.buf} \cap Sent)
    BY <1>2, <1>6, <2>3
  <2>5. Apart' BY <1>1, <1>2, <1>4, <1>6, <2>4 DEF FlowInv, Apart, InOrder
  <2>6. Away' \subseteq Away BY <1>2, <1>4, <2>4 DEF Away
  <2>7. Owned' BY <1>1, <2>6 DEF FlowInv, Owned
  <2> QED BY <2>1, <2>2, <2>5, <2>7 DEF FlowInv
\* It tells of a buffer, or of none, and the size stays
<1>7. ASSUME NEW ev \in {"synced", "failed", "cancelled"}, NEW b \in Buffers \cup {NoBuffer},
             fromComp' = Append(fromComp, Event(ev, b, 0)), b \notin Told, shape' = shape,
             pending' \in {pending, r.buf},
             b \in {NoBuffer, pending, r.buf}, b # NoBuffer => b # pending'
      PROVE  FlowInv'
  <2> DEFINE e == Event(ev, b, 0)
  <2>1. e \in Events /\ e.ev = ev /\ e.buf = b BY <1>5, EventType
  <2> HIDE DEF e
  <2>2. fromComp' = Append(fromComp, e) BY <1>7 DEF e
  <2>3. e.ev # "setup" BY <2>1
  <2>4. /\ InOrder(fromComp', geom, shape, queue)
        /\ Named(fromComp') = Told \cup ({b} \ {NoBuffer})
    BY <1>7, <2>1, <2>2, <2>3, NowInOrder, OtherTold
  <2>5. Told' = Told \cup ({b} \ {NoBuffer}) BY <2>4 DEF Told
  <2>6. /\ Told \subseteq Told' /\ Told' \cup Filled' \subseteq Told \cup Filled \cup {r.buf}
    BY <1>7, <2>5 DEF Filled
  <2>7. Told' \cap Filled' = {}
    <3>1. Told \cap Filled = {} /\ Told \cap Sent = {} BY DEF FlowInv, Apart
    <3>2. Filled' \cap Told = {} BY <1>2, <1>7, <3>1 DEF Filled
    <3> QED BY <1>7, <2>5, <3>2 DEF Filled
  <2>8. pending' \in Buffers \cup {NoBuffer} BY <1>3, <1>5, <1>7
  <2> QED BY <1>5, <1>6, <1>7, <2>4, <2>6, <2>7, <2>8, NowInOrder
\* It tells nothing
<1>8. ASSUME UNCHANGED <<fromComp, shape>>, pending' \in {pending, r.buf, NoBuffer}
      PROVE  FlowInv'
  <2>1. Told' = Told /\ Filled' \subseteq Filled \cup {r.buf} BY <1>8 DEF Told, Filled
  <2>2. Told \cap Filled = {} /\ Told \cap Sent = {} BY DEF FlowInv, Apart
  <2>3. Told' \cap Filled' = {} BY <1>2, <1>8, <2>1, <2>2 DEF Filled
  <2>4. pending' \in Buffers \cup {NoBuffer} BY <1>3, <1>5, <1>8
  <2> QED BY <1>5, <1>6, <1>8, <2>1, <2>3, <2>4, NowInOrder
<1>9. pending \notin Told /\ (r.buf # NoBuffer => r.buf \notin Told /\ r.buf # pending)
  BY <1>2 DEF FlowInv, Apart, Filled, Told, Named
<1>10. CASE r.op = "create" /\ shape' = 1 /\ Tell(Event("setup", NoBuffer, 1)) /\ pending' = pending
  <2> DEFINE e == Event("setup", NoBuffer, 1)
  <2>1. shape = 0 /\ shape' = shape + 1 /\ shape' \in 0..MaxSetups
    BY <1>2, <1>10, RingAssumption
  <2>2. e \in Events /\ e.buf = NoBuffer /\ e.geom = shape + 1 BY <1>10, <2>1, EventType
  <2> HIDE DEF e
  <2>3. fromComp' = Append(fromComp, e) BY <1>10 DEF Tell, e
  <2>4. InOrder(Append(fromComp, e), geom, shape + 1, queue) /\ Named(Append(fromComp, e)) = Told
    BY <2>2, NowInOrder, SetupTold
  <2>5. Told' = Told /\ Filled' = Filled BY <1>10, <2>3, <2>4 DEF Told, Filled
  <2>6. Rising(queue, geom, shape') /\ geom <= shape' BY <2>1, NowInOrder, RisingMore
  <2>7. Told' \cap Filled' = {} BY <2>5 DEF FlowInv, Apart
  <2>8. InOrder(fromComp', geom, shape', queue) BY <2>1, <2>3, <2>4
  <2> QED BY <1>5, <1>6, <1>10, <2>1, <2>5, <2>6, <2>7, <2>8
<1>11. CASE Tell(Event("synced", NoBuffer, 0)) /\ UNCHANGED <<shape, pending>>
  <2>1. NoBuffer \notin Told BY DEF Told, Named
  <2> QED BY <1>7, <1>11, <2>1 DEF Tell
<1>12. CASE r.op = "record" /\ ServeRecord(r.buf)
  <2>1. CASE Tell(Event("failed", r.buf, 0)) /\ UNCHANGED <<shape, pending>>
    <3>1. r.buf \notin Told BY <1>9 DEF Told, Named
    <3> QED BY <1>3, <1>7, <1>9, <2>1, <3>1 DEF Tell
  <2>2. CASE pending' = r.buf /\ shape' = shape /\ Tell(Event("cancelled", pending, 0))
    BY <1>5, <1>7, <1>9, <2>2 DEF Tell
  <2>3. CASE pending' = r.buf /\ UNCHANGED <<shape, fromComp>> BY <1>8, <2>3
  <2> QED BY <1>12, <2>1, <2>2, <2>3 DEF ServeRecord
<1>13. CASE UNCHANGED <<shape, fromComp>> /\ pending' \in {pending, NoBuffer} BY <1>8, <1>13
<1> QED BY <1>10, <1>11, <1>12, <1>13 DEF ServeRequest

--------------------------------------------------------------------------------
(* The invariant *)

LEMMA TypesAreTwo == TypeOK <=> Flags /\ FlowTypes
BY DEF TypeOK, Flags, FlowTypes

LEMMA RecorderInit == Init => RecorderInv
<1> SUFFICES ASSUME Init PROVE RecorderInv OBVIOUS
<1> USE DEF Init
<1>1. Flags BY DEF Flags
<1>2. FlowTypes BY RingAssumption DEF FlowTypes
<1>3. Threads BY DEF Threads
<1>4. Loop BY DEF Loop
<1>5. Sizes BY EmptyFlow DEF Sizes
<1>6. Sent = {} /\ Told = {} /\ Read = {} /\ Filled = {} /\ Used = {}
  BY EmptyFlow DEF Sent, Told, Read, Filled, Used
<1>7. Apart BY <1>6, EmptyFlow DEF Apart
<1>8. Owned BY <1>6 DEF Owned, Away
<1> QED BY <1>1, <1>2, <1>3, <1>4, <1>5, <1>7, <1>8, TypesAreTwo DEF RecorderInv

LEMMA FlowKeeps == ASSUME FlowInv, Threads, Loop, [Next]_vars PROVE FlowInv'
<1>1. CASE Flows
  BY <1>1, DispatchKeeps, ReturnKeeps, ReadKeeps, ConnectKeeps, AskKeeps, ServeKeeps,
     DrawKeeps, ResizeKeeps, TeardownKeeps DEF Flows
<1>2. CASE UNCHANGED flowVars
  BY <1>2 DEF flowVars, FlowInv, FlowTypes, Sizes, CreateFirst, Apart, Owned, Away,
              Sent, Told, Read, Filled, Used
<1> QED BY <1>1, <1>2, FlowOrQuiet

LEMMA RecorderStep == RecorderInv /\ [Next]_vars => RecorderInv'
<1> SUFFICES ASSUME RecorderInv, [Next]_vars PROVE RecorderInv' OBVIOUS
<1>1. TypeOK /\ Threads /\ Loop /\ Sizes /\ Apart /\ Owned BY DEF RecorderInv
<1>2. FlowInv /\ Flags BY <1>1, TypesAreTwo DEF FlowInv
<1>3. FlowInv' BY <1>1, <1>2, FlowKeeps
<1>4. Flags' BY <1>2, FlagsKeep
<1>5. Threads' BY <1>1, ThreadsKeep
<1>6. Loop' BY <1>1, LoopKeeps
<1>7. TypeOK' BY <1>3, <1>4 DEF TypeOK, FlowInv, Flags, FlowTypes
<1> QED BY <1>3, <1>5, <1>6, <1>7 DEF RecorderInv, FlowInv

LEMMA RecorderAlways == Spec => []RecorderInv
<1> QED BY RecorderInit, RecorderStep, PTL DEF Spec

(* What it says *)

\* Whatever the compositor answers and however often it announces another
\* size, the ring, its busy flags, the requests and the events keep to their
\* types: what is busy is in the ring (recorder.cpp 156-265, recorder.h 112-134).
THEOREM RecorderTypes == Spec => []TypeOK
<1> QED BY RecorderAlways, PTL DEF RecorderInv

\* A buffer of the ring is with the compositor, on its way or with the
\* callback, never twice, and busy meanwhile: the picture the callback reads
\* is never drawn over, for a ring of any length (recorder.cpp 176-195,
\* 207-213, 248-265).
THEOREM BuffersHaveOneOwner == Spec => []OneOwner
<1>1. RecorderInv => OneOwner BY ApartIsOneOwner DEF RecorderInv
<1> QED BY <1>1, RecorderAlways, PTL

\* The connection outlives the threads that use it, and the callback reads a
\* buffer of the ring that has the size it is told (recorder.cpp 156-174,
\* 241-246, 335-357, main.cpp 614-625).
THEOREM InUseStaysThere == Spec => []InUseIsThere
<1>1. Threads /\ Loop => InUseIsThere
  <2>1. Threads => (clk = "ask" \/ loop # "gone" => up) BY DEF Threads
  <2>2. Loop => (loop = "callback" => cur \in ring /\ cur[1] = geom) BY DEF Loop
  <2> QED BY <2>1, <2>2 DEF InUseIsThere
<1>2. RecorderInv => InUseIsThere BY <1>1 DEF RecorderInv
<1> QED BY <1>2, RecorderAlways, PTL
================================================================================
