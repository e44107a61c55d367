------------------------------ MODULE WfdProto_proofs ------------------------------
(***************************************************************************)
(* Whatever the sink sends, in whatever order, split or not, and whenever  *)
(* the process is told to end: to the session service it is RtspLife.      *)
(*                                                                         *)
(* Of a step only what it does to the process, the handle of castd and     *)
(* castd matters; there are six ways (Effect), and each maps to a step of  *)
(* RtspLife or to none.                                                    *)
(*                                                                         *)
(* A keepalive is due before the sink gives up.  And replies, which the    *)
(* process tells apart by its state alone, are those it takes them for,    *)
(* since of a handshake's requests one at most is on its way.              *)
(***************************************************************************)
EXTENDS WfdProto, TLAPS

lifeState == <<proc, gst, castd>>

Connects == proc = "accept" /\ proc' = "run" /\ UNCHANGED <<gst, castd>>

Stops ==
  /\ proc \in {"accept", "run", "term"} /\ proc' = "gone"
  /\ gst' = FALSE
  /\ castd' = IF gst THEN FALSE ELSE castd

Spawns == proc = "run" /\ ~gst /\ proc' = "spawned" /\ castd' = TRUE /\ UNCHANGED gst

Keeps == proc = "spawned" /\ proc' = "run" /\ gst' = TRUE /\ UNCHANGED castd

Told == proc \in {"run", "spawned"} /\ proc' = "term" /\ UNCHANGED <<gst, castd>>

Dies == castd /\ castd' = FALSE /\ UNCHANGED <<proc, gst>>

Effect == Connects \/ Stops \/ Spawns \/ Keeps \/ Told \/ Dies

\* A castd without a kept handle exists only while it is being started, or
\* when the process was told to end right then.
HandleOK ==
  /\ proc \in {"accept", "run", "spawned", "term", "gone"}
  /\ gst \in BOOLEAN /\ castd \in BOOLEAN
  /\ proc \in {"accept", "spawned", "gone"} => ~gst
  /\ proc \in {"accept", "run"} /\ ~gst => ~castd

-------------------------------------------------------------------------------

\* The end of a pass of run() changes only clocks and what goes to the sink.
LEMMA Effects == Next => Effect \/ UNCHANGED lifeState
<1> SUFFICES ASSUME Next PROVE Effect \/ UNCHANGED lifeState
  OBVIOUS
<1> USE DEF Effect, lifeState, procState
<1>1. CASE Accept
  BY <1>1 DEF Accept, Connects
<1>2. CASE NoSink \/ SinkClosed \/ GivesUp \/ HandleTeardown \/ Graceful
  BY <1>2 DEF NoSink, SinkClosed, GivesUp, HandleTeardown, Graceful, Receives,
              Finish, StopStream, Stops
<1>3. CASE Timeout \/ BodyLate
  BY <1>3 DEF Timeout, BodyLate
<1>4. ASSUME NEW dt \in {0, 1}, Handles(dt) PROVE Effect \/ UNCHANGED lifeState
  <2>1. CASE Garbled(dt) \/ HandleReply(dt) \/ HandleOptions(dt) \/ HandleParam(dt)
    BY <2>1 DEF Garbled, HandleReply, HandleOptions, HandleParam
  <2>2. CASE HandleSetup(dt)
    BY <2>2 DEF HandleSetup, Receives, Finish, StopStream, Stops
  <2>3. CASE HandlePlay(dt)
    BY <2>3 DEF HandlePlay, Receives, Finish, StopStream, Stops, Spawns
  <2>4. CASE KeepHandle(dt)
    BY <2>4 DEF KeepHandle, Keeps
  <2> QED BY <1>4, <2>1, <2>2, <2>3, <2>4 DEF Handles
<1>5. CASE Sigterm
  BY <1>5 DEF Sigterm, Finish, StopStream, Stops, Told
<1>6. CASE CastDies
  BY <1>6 DEF CastDies, Dies
<1>7. CASE Sink
  BY <1>7 DEF Sink, SinkReads, SinkAsks, SinkCloses
<1> QED BY <1>1, <1>2, <1>3, <1>4, <1>5, <1>6, <1>7 DEF Next, Process

LEMMA HandleInit == Init => HandleOK
  BY DEF Init, HandleOK

LEMMA HandleStep == HandleOK /\ [Next]_wfdVars => HandleOK'
<1> SUFFICES ASSUME HandleOK, Effect \/ UNCHANGED lifeState PROVE HandleOK'
  BY Effects DEF wfdVars, procState, lifeState
<1> USE DEF HandleOK
<1>1. CASE Connects
  BY <1>1, Zenon DEF Connects
<1>2. CASE Stops
  <2>1. castd' \in BOOLEAN
    BY <1>2, Zenon DEF Stops
  <2> QED BY <1>2, <2>1, Zenon DEF Stops
<1>3. CASE Spawns
  BY <1>3, Zenon DEF Spawns
<1>4. CASE Keeps
  BY <1>4, Zenon DEF Keeps
<1>5. CASE Told
  BY <1>5, Zenon DEF Told
<1>6. CASE Dies
  BY <1>6, Zenon DEF Dies
<1>7. CASE UNCHANGED lifeState
  BY <1>7, Zenon DEF lifeState
<1> QED BY <1>1, <1>2, <1>3, <1>4, <1>5, <1>6, <1>7 DEF Effect

LEMMA HandleInvariance == Spec => []HandleOK
  BY HandleInit, HandleStep, PTL DEF Spec

-------------------------------------------------------------------------------
(* Each effect is a step of RtspLife or none. *)

LEMMA LifeInit == Init => Life!Init
  BY DEF Init, Life!Init

LEMMA LifeStep ==
  ASSUME HandleOK, [Next]_wfdVars
  PROVE  [Life!Next]_(Life!lifeVars)
<1> USE DEF HandleOK
<1>1. Effect \/ UNCHANGED lifeState
  BY Effects DEF wfdVars, procState, lifeState
<1>2. CASE Connects
  BY <1>2 DEF Connects, Life!lifeVars
<1>3. CASE Stops
  <2>1. CASE proc = "term" /\ ~gst
    BY <1>3, <2>1 DEF Stops, Life!lifeVars
  <2>2. CASE ~(proc = "term" /\ ~gst)
    <3>1. castd' = FALSE
      BY <1>3, <2>2 DEF Stops
    <3>2. Life!Ends
      BY <1>3, <2>2, <3>1 DEF Stops, Life!Ends
    <3> QED BY <3>2 DEF Life!Next
  <2> QED BY <2>1, <2>2
<1>4. CASE Spawns
  BY <1>4 DEF Spawns, Life!lifeVars
<1>5. CASE Keeps
  <2>1. Life!Plays
    BY <1>5 DEF Keeps, Life!Plays
  <2> QED BY <2>1 DEF Life!Next
<1>6. CASE Told
  <2>1. CASE gst
    BY <1>6, <2>1 DEF Told, Life!Next, Life!ToldPlaying
  <2>2. CASE ~gst
    BY <1>6, <2>2 DEF Told, Life!Next, Life!ToldEarly
  <2> QED BY <2>1, <2>2
<1>7. CASE Dies
  BY <1>7 DEF Dies, Life!Next, Life!CastDies, Life!lifeVars
<1>8. CASE UNCHANGED lifeState
  BY <1>8 DEF lifeState, Life!lifeVars
<1> QED BY <1>1, <1>2, <1>3, <1>4, <1>5, <1>6, <1>7, <1>8 DEF Effect

\* The RTSP process is the one the session service counts on
\* (imira-wfd-proto.py:286-330), whatever the sink does.
THEOREM ProtoImplementsLife == Spec => ImplementsLife
  BY LifeInit, LifeStep, HandleInvariance, PTL
  DEF Spec, ImplementsLife, Life!Spec

-------------------------------------------------------------------------------
(* The types, and the keepalive *)

Answer == Requests \cup {"ok"}

\* Where a keepalive is due, one was sent: the clock that runs to the
\* timeout of the sink never passes the one that runs to the keepalive.
InTime == proc = "run" /\ state = "playing" => sinceKa < KeepAfter

TalkInv ==
  /\ TypeOK /\ InTime
  /\ proc = "accept" =>
       /\ state = "init" /\ toSink = <<>> /\ toSource = <<>>
       /\ said = {} /\ heard = {}
  /\ state = "done" => proc = "gone"

LEMMA Limits ==
  /\ KeepAfter \in Nat /\ 0 < KeepAfter /\ KeepAfter < SinkTimeout
  /\ SinkTimeout \in Nat /\ GiveUp \in Nat /\ 0 < GiveUp
BY TimesAssumption

LEMMA Since ==
  ASSUME TypeOK, NEW dt \in {0, 1} PROVE Later(sinceKa, dt, SinkTimeout) \in 0..SinkTimeout
BY Limits DEF TypeOK, Later

LEMMA PushKeeps == ASSUME NEW q \in Seq(Answer) PROVE Push(q, "KA") \in Seq(Answer)
BY DEF Push, Answer, Requests

\* What the end of a pass of run() leaves
LEMMA PassEnds ==
  ASSUME TypeOK, NEW q \in Seq(Answer), NEW dt \in {0, 1}, AfterMessage(q, dt)
  PROVE  /\ silent' \in 0..GiveUp /\ sinceKa' \in 0..SinkTimeout /\ toSink' \in Seq(Answer)
         /\ state' = "playing" => sinceKa' < KeepAfter
         /\ state' # "playing" => toSink' = q
<1> DEFINE since == Later(sinceKa, dt, SinkTimeout)
<1>1. since \in 0..SinkTimeout BY Since
<1>2. silent' = 0 /\ IF state' = "playing" /\ since >= KeepAfter
                     THEN sinceKa' = 0 /\ toSink' = Push(q, "KA")
                     ELSE sinceKa' = since /\ toSink' = q
  BY DEF AfterMessage
<1> HIDE DEF since
<1>3. CASE state' = "playing" /\ since >= KeepAfter
  BY <1>2, <1>3, PushKeeps, Limits
<1>4. CASE ~(state' = "playing" /\ since >= KeepAfter)
  BY <1>1, <1>2, <1>4, Limits
<1> QED BY <1>3, <1>4

LEMMA PassTimesOut ==
  ASSUME TypeOK, TimeoutBranch, state' = state
  PROVE  /\ silent' \in 0..GiveUp /\ sinceKa' \in 0..SinkTimeout /\ toSink' \in Seq(Answer)
         /\ state' = "playing" => sinceKa' < KeepAfter
         /\ state' # "playing" => toSink' = toSink
<1> DEFINE since == Later(sinceKa, 1, SinkTimeout)
<1>1. since \in 0..SinkTimeout BY Since
<1>2. /\ state = "playing" \/ silent < GiveUp
      /\ silent' = IF state = "playing" THEN 0 ELSE silent + 1
      /\ IF state = "playing" /\ since >= KeepAfter
         THEN sinceKa' = 0 /\ toSink' = Push(toSink, "KA")
         ELSE sinceKa' = since /\ toSink' = toSink
  BY DEF TimeoutBranch
<1> HIDE DEF since
<1>3. toSink \in Seq(Answer) /\ silent \in 0..GiveUp BY DEF TypeOK, Answer
<1>4. CASE state = "playing" /\ since >= KeepAfter
  BY <1>2, <1>4, <1>3, PushKeeps, Limits
<1>5. CASE ~(state = "playing" /\ since >= KeepAfter)
  BY <1>1, <1>2, <1>3, <1>5, Limits
<1> QED BY <1>4, <1>5

\* Whatever ends the process leaves it in order
LEMMA FinishKeeps ==
  ASSUME TypeOK, Finish, state' \in {state, "done"} PROVE TalkInv'
<1>1. castd' \in BOOLEAN /\ gst' \in BOOLEAN
  BY Zenon DEF Finish, StopStream, TypeOK
<1>2. state' \in {"init", "await_m2", "m3sent", "m4sent", "m5sent", "playing", "done"}
  BY DEF TypeOK
<1>3. /\ proc' = "gone" /\ toSink' = <<>> /\ toSource' = <<>> /\ silent' = 0 /\ sinceKa' = 0
      /\ UNCHANGED <<port, codec, answered, closed, waiting, said, heard>>
  BY DEF Finish, sinkState
<1>4. <<>> \in Seq(Requests \cup {"ok"}) /\ <<>> \in Seq(Message) /\ 0 \in 0..GiveUp /\ 0 \in 0..SinkTimeout
  BY Limits
<1>5. TypeOK' BY <1>1, <1>2, <1>3, <1>4 DEF TypeOK
<1> QED BY <1>3, <1>5 DEF TalkInv, InTime

LEMMA TailTyped ==
  ASSUME NEW S, NEW s \in Seq(S), s # <<>>
  PROVE  /\ Tail(s) \in Seq(S) /\ Head(s) \in S /\ Head(s) = s[1] /\ 1 \in DOMAIN s
         /\ \A i \in DOMAIN Tail(s) : i \in Nat \ {0} /\ i + 1 \in DOMAIN s /\ Tail(s)[i] = s[i + 1]
OBVIOUS

LEMMA TailLeft ==
  ASSUME NEW S, NEW s \in Seq(S), Len(s) > 1
  PROVE  Tail(s) # <<>> /\ Tail(Tail(s)) \in Seq(S)
<1>0. s # <<>> OBVIOUS
<1>1. Tail(s) \in Seq(S) /\ DOMAIN Tail(s) = 1..Len(s) - 1 /\ Len(s) \in Nat BY <1>0
<1>2. 1 \in DOMAIN Tail(s) BY <1>1
<1>3. \A q : 1 \in DOMAIN q => q # <<>> OBVIOUS
<1>4. Tail(s) # <<>> BY <1>2, <1>3, Zenon
<1> QED BY <1>1, <1>4, TailTyped

LEMMA Typed ==
  ASSUME TypeOK
  PROVE  toSink \in Seq(Answer) /\ toSource \in Seq(Message)
         /\ state \in {"init", "await_m2", "m3sent", "m4sent", "m5sent", "playing", "done"}
BY DEF TypeOK, Answer

\* A step that handles a message, a timeout, or a castd that was started
LEMMA PassTyped ==
  ASSUME TypeOK, proc' \in {"run", "spawned"}, port' \in BOOLEAN, gst' \in BOOLEAN,
         castd' \in BOOLEAN,
         codec' \in {"none", "aac", "lpcm"}, answered' \in Requests \cup {"none"},
         state' \in {"init", "await_m2", "m3sent", "m4sent", "m5sent", "playing"},
         toSource' \in Seq(Message), toSink' \in Seq(Answer),
         silent' \in 0..GiveUp, sinceKa' \in 0..SinkTimeout, UNCHANGED sinkState,
         proc' = "run" /\ state' = "playing" => sinceKa' < KeepAfter
  PROVE  TalkInv'
<1>1. closed' \in BOOLEAN /\ waiting' \in BOOLEAN /\ said' \subseteq Methods /\ heard' \subseteq Requests
  BY Zenon DEF TypeOK, sinkState
<1>2. TypeOK' BY <1>1, Zenon DEF TypeOK, Answer
<1> QED BY <1>2 DEF TalkInv, InTime

LEMMA Answered ==
  ASSUME NEW q \in Seq(Answer)
  PROVE  /\ Append(q, "ok") \in Seq(Answer) /\ Append(q, "M4") \in Seq(Answer)
         /\ Append(q, "M5") \in Seq(Answer) /\ Append(q, "M8") \in Seq(Answer)
         /\ q \o <<"ok", "M3">> \in Seq(Answer)
BY DEF Answer, Requests

LEMMA ReplyTyped == ASSUME TalkInv, NEW dt \in {0, 1}, HandleReply(dt) PROVE TalkInv'
<1>1. /\ proc = "run" /\ proc' = "run" /\ toSource # <<>> /\ toSource' = Tail(toSource)
      /\ UNCHANGED <<gst, castd, sinkState>>
      /\ answered' = IF state' # state THEN Head(toSource).of ELSE answered
      /\ Head(toSource).kind = "reply"
  BY DEF HandleReply, Receives
<1>2. TypeOK /\ toSink \in Seq(Answer) BY Typed DEF TalkInv
<1>3. toSource' \in Seq(Message) /\ Head(toSource) \in Message BY <1>1, <1>2, Typed, TailTyped
<1>4. /\ port' \in BOOLEAN /\ codec' \in {"none", "aac", "lpcm"}
      /\ state' \in {"init", "await_m2", "m3sent", "m4sent", "m5sent", "playing"}
      /\ \E q \in Seq(Answer) : AfterMessage(q, dt)
  <2>1. /\ port \in BOOLEAN /\ codec \in {"none", "aac", "lpcm"}
        /\ state \in {"init", "await_m2", "m3sent", "m4sent", "m5sent", "playing"}
    BY <1>1, <1>2 DEF TypeOK, TalkInv
  <2> DEFINE m == Head(toSource)
             Stays == state \in {"await_m2", "m5sent", "playing"}
  <2>2. \/ /\ ~m.good \/ Stays
           /\ UNCHANGED <<state, port, codec>> /\ AfterMessage(toSink, dt)
        \/ /\ m.good /\ state = "init" /\ state' = "await_m2"
           /\ UNCHANGED <<port, codec>> /\ AfterMessage(toSink, dt)
        \/ /\ m.good /\ state = "m3sent" /\ state' = "m4sent"
           /\ port' \in IF m.of = "M3" THEN {port, TRUE} ELSE {port}
           /\ codec' = ChooseCodec(IF m.of = "M3" THEN Offer ELSE {})
           /\ AfterMessage(Append(toSink, "M4"), dt)
        \/ /\ m.good /\ state = "m4sent" /\ state' = "m5sent"
           /\ UNCHANGED <<port, codec>> /\ AfterMessage(Append(toSink, "M5"), dt)
    BY DEF HandleReply
  <2>3. \A o : ChooseCodec(o) \in {"aac", "lpcm"} BY DEF ChooseCodec
  <2>4. Append(toSink, "M4") \in Seq(Answer) /\ Append(toSink, "M5") \in Seq(Answer)
    BY <1>2, Answered
  <2> HIDE DEF m
  <2> QED BY <1>2, <2>1, <2>2, <2>3, <2>4
<1>5. answered' \in Requests \cup {"none"}
  <2>1. Head(toSource).of \in Requests BY <1>1, <1>3 DEF Message, LateBody
  <2>2. answered \in Requests \cup {"none"} BY <1>2 DEF TypeOK
  <2> QED BY <1>1, <2>1, <2>2
<1>6. gst' \in BOOLEAN /\ castd' \in BOOLEAN BY <1>1, <1>2, Zenon DEF TypeOK
<1>7. PICK q \in Seq(Answer) : AfterMessage(q, dt) BY <1>4
<1>8. /\ silent' \in 0..GiveUp /\ sinceKa' \in 0..SinkTimeout /\ toSink' \in Seq(Answer)
      /\ state' = "playing" => sinceKa' < KeepAfter
  BY <1>2, <1>7, PassEnds
<1> QED BY <1>1, <1>2, <1>3, <1>4, <1>5, <1>6, <1>8, PassTyped

LEMMA RequestTyped ==
  ASSUME TalkInv, NEW dt \in {0, 1},
         Garbled(dt) \/ HandleOptions(dt) \/ HandleParam(dt)
  PROVE  TalkInv'
<1>1. /\ proc = "run" /\ proc' = "run" /\ UNCHANGED <<port, gst, castd, codec, answered, sinkState>>
      /\ toSource # <<>>
  BY DEF Garbled, HandleOptions, HandleParam, Receives, procState
<1>2. TypeOK /\ toSink \in Seq(Answer) /\ toSource \in Seq(Message) /\ state # "done"
  BY <1>1, Typed DEF TalkInv
<1>3. toSource' \in Seq(Message)
  <2>1. Tail(toSource) \in Seq(Message) BY <1>1, <1>2, TailTyped
  <2>2. CASE Garbled(dt)
    <3>1. toSource' = Tail(Tail(toSource)) /\ Len(toSource) > 1 BY <2>2 DEF Garbled
    <3>2. Tail(toSource) # <<>> BY <1>2, <3>1, TailLeft
    <3> QED BY <2>1, <3>1, <3>2, TailTyped
  <2>3. CASE ~Garbled(dt) BY <2>1, <2>3 DEF HandleOptions, HandleParam
  <2> QED BY <2>2, <2>3
<1>4. \E q \in Seq(Answer) : AfterMessage(q, dt)
  <2>1. Append(toSink, "ok") \in Seq(Answer) /\ toSink \o <<"ok", "M3">> \in Seq(Answer)
    BY <1>2, Answered
  <2>2. AfterMessage(Append(toSink, "ok"), dt) \/ AfterMessage(toSink \o <<"ok", "M3">>, dt)
    BY DEF Garbled, HandleOptions, HandleParam
  <2> QED BY <2>1, <2>2
<1>5. state' \in {"init", "await_m2", "m3sent", "m4sent", "m5sent", "playing"}
  BY <1>2, Typed DEF Garbled, HandleOptions, HandleParam, procState
<1>6. /\ port' \in BOOLEAN /\ gst' \in BOOLEAN /\ castd' \in BOOLEAN
      /\ codec' \in {"none", "aac", "lpcm"} /\ answered' \in Requests \cup {"none"}
  BY <1>1, <1>2, Zenon DEF TypeOK
<1>7. /\ silent' \in 0..GiveUp /\ sinceKa' \in 0..SinkTimeout /\ toSink' \in Seq(Answer)
      /\ state' = "playing" => sinceKa' < KeepAfter
  BY <1>2, <1>4, PassEnds
<1> QED BY <1>1, <1>2, <1>3, <1>5, <1>6, <1>7, PassTyped

LEMMA StartTyped ==
  ASSUME TalkInv, NEW dt \in {0, 1}, HandleSetup(dt) \/ HandlePlay(dt) \/ KeepHandle(dt)
  PROVE  TalkInv'
<1> USE DEF Receives
<1>1. TypeOK /\ toSink \in Seq(Answer) /\ toSource \in Seq(Message) BY Typed DEF TalkInv
<1>2. CASE Finish /\ UNCHANGED state BY <1>1, <1>2, FinishKeeps
<1>3. CASE ~(Finish /\ UNCHANGED state)
  <2>1. /\ proc \in {"run", "spawned"} /\ proc' \in {"run", "spawned"}
        /\ port' \in {port, TRUE} /\ gst' \in {gst, TRUE} /\ castd' \in {castd, TRUE}
        /\ UNCHANGED <<codec, answered, sinkState>>
        /\ state' \in {state, "playing"}
        /\ toSource' = toSource \/ (toSource # <<>> /\ toSource' = Tail(toSource))
    <3>1. CASE HandleSetup(dt) BY <1>3, <3>1 DEF HandleSetup
    <3>2. CASE HandlePlay(dt) BY <1>3, <3>2 DEF HandlePlay
    <3>3. CASE KeepHandle(dt) BY <1>3, <3>3 DEF KeepHandle
    <3> QED BY <3>1, <3>2, <3>3
  <2>2. /\ port' \in BOOLEAN /\ gst' \in BOOLEAN /\ castd' \in BOOLEAN
        /\ codec' \in {"none", "aac", "lpcm"} /\ answered' \in Requests \cup {"none"}
    BY <1>1, <2>1, Zenon DEF TypeOK
  <2>3. toSource' \in Seq(Message) BY <1>1, <2>1, TailTyped
  <2>4. state' \in {"init", "await_m2", "m3sent", "m4sent", "m5sent", "playing"}
    BY <1>1, <2>1, Typed DEF TalkInv
  <2>5. Append(toSink, "ok") \in Seq(Answer) BY <1>1, Answered
  <2>6. \/ \E q \in Seq(Answer) : AfterMessage(q, dt)
        \/ proc' = "spawned" /\ toSink' = Append(toSink, "ok") /\ UNCHANGED clocks
    BY <1>1, <1>3, <2>5 DEF HandleSetup, HandlePlay, KeepHandle
  <2>7. /\ silent' \in 0..GiveUp /\ sinceKa' \in 0..SinkTimeout /\ toSink' \in Seq(Answer)
        /\ proc' = "run" /\ state' = "playing" => sinceKa' < KeepAfter
    <3>1. CASE \E q \in Seq(Answer) : AfterMessage(q, dt) BY <1>1, <3>1, PassEnds
    <3>2. CASE proc' = "spawned" /\ toSink' = Append(toSink, "ok") /\ UNCHANGED clocks
      BY <1>1, <2>5, <3>2 DEF clocks, TypeOK
    <3> QED BY <2>6, <3>1, <3>2
  <2> QED BY <1>1, <2>1, <2>2, <2>3, <2>4, <2>7, PassTyped
<1> QED BY <1>2, <1>3

LEMMA WaitTyped == ASSUME TalkInv, Timeout \/ BodyLate PROVE TalkInv'
<1>1. TypeOK /\ toSink \in Seq(Answer) /\ toSource \in Seq(Message) BY Typed DEF TalkInv
<1>2. proc = "run" /\ TimeoutBranch /\ UNCHANGED <<procState, sinkState>>
  BY DEF Timeout, BodyLate
<1>3. toSource' \in Seq(Message)
  <2>1. LateBody \in Message BY DEF Message
  <2> QED BY <1>1, <2>1 DEF Timeout, BodyLate
<1>4. state' \in {"init", "await_m2", "m3sent", "m4sent", "m5sent", "playing"}
  BY <1>1, <1>2, Typed DEF TalkInv, procState
<1>5. /\ port' \in BOOLEAN /\ gst' \in BOOLEAN /\ castd' \in BOOLEAN /\ proc' = "run" /\ state' = state
      /\ codec' \in {"none", "aac", "lpcm"} /\ answered' \in Requests \cup {"none"}
  BY <1>1, <1>2, Zenon DEF TypeOK, procState
<1>6. /\ silent' \in 0..GiveUp /\ sinceKa' \in 0..SinkTimeout /\ toSink' \in Seq(Answer)
      /\ state' = "playing" => sinceKa' < KeepAfter
  BY <1>1, <1>2, <1>5, PassTimesOut
<1> QED BY <1>1, <1>2, <1>3, <1>4, <1>5, <1>6, PassTyped

\* The sink, a signal, a castd that dies, the connection: no clock moves
LEMMA OthersTyped ==
  ASSUME TalkInv, UNCHANGED <<state, port, gst, codec, answered, clocks>>,
         proc' = proc \/ (proc \in {"accept", "run", "spawned"} /\ proc' = "term")
           \/ (proc = "accept" /\ proc' = "run"),
         castd' \in BOOLEAN, closed' \in BOOLEAN, waiting' \in BOOLEAN,
         said' \subseteq Methods, heard' \subseteq Requests,
         toSink' \in Seq(Answer), toSource' \in Seq(Message),
         proc' = "accept" =>
           UNCHANGED <<toSink, toSource, said, heard>>
  PROVE  TalkInv'
<1>1. TypeOK /\ InTime BY DEF TalkInv
<1>2. /\ proc' \in {"accept", "run", "spawned", "term", "gone"}
      /\ silent' \in 0..GiveUp /\ sinceKa' \in 0..SinkTimeout
      /\ state' \in {"init", "await_m2", "m3sent", "m4sent", "m5sent", "playing", "done"}
  BY <1>1 DEF TypeOK, clocks
<1>3. /\ port' \in BOOLEAN /\ gst' \in BOOLEAN
      /\ codec' \in {"none", "aac", "lpcm"} /\ answered' \in Requests \cup {"none"}
  BY <1>1, Zenon DEF TypeOK
<1>4. TypeOK' BY <1>2, <1>3, Zenon DEF TypeOK, Answer
<1>5. InTime'
  BY <1>1 DEF InTime, TalkInv, clocks
<1>6. /\ proc' = "accept" =>
           /\ state' = "init" /\ toSink' = <<>> /\ toSource' = <<>>
           /\ said' = {} /\ heard' = {}
      /\ state' = "done" => proc' = "gone"
  BY DEF TalkInv
<1> QED BY <1>4, <1>5, <1>6 DEF TalkInv

LEMMA SinkTyped == ASSUME TalkInv, Sink PROVE TalkInv'
<1>1. /\ TypeOK /\ toSink \in Seq(Answer) /\ toSource \in Seq(Message)
      /\ closed \in BOOLEAN /\ waiting \in BOOLEAN /\ castd \in BOOLEAN
      /\ said \subseteq Methods /\ heard \subseteq Requests
  BY Typed DEF TalkInv, TypeOK
<1>2. CASE SinkReads
  <2>1. /\ toSink # <<>> /\ toSink' = Tail(toSink) /\ UNCHANGED <<procState, clocks, closed, said>>
    BY <1>2 DEF SinkReads
  <2>2. toSink' \in Seq(Answer) /\ Head(toSink) \in Answer BY <1>1, <2>1, TailTyped
  <2>3. proc # "accept" BY <2>1 DEF TalkInv
  <2>4. waiting' \in BOOLEAN /\ heard' \subseteq Requests /\ toSource' \in Seq(Message)
    <3>1. CASE Head(toSink) = "ok" BY <1>1, <1>2, <3>1 DEF SinkReads
    <3>2. CASE Head(toSink) # "ok"
      <4>1. Head(toSink) \in Requests BY <2>2, <3>2 DEF Answer
      <4>2. PICK good \in BOOLEAN : toSource' = Append(toSource, Reply(Head(toSink), good))
        BY <1>2, <3>2 DEF SinkReads
      <4>3. Reply(Head(toSink), good) \in Message BY <4>1 DEF Reply, Message
      <4>4. heard' = heard \cup {Head(toSink)} /\ waiting' = waiting BY <1>2, <3>2 DEF SinkReads
      <4> QED BY <1>1, <4>1, <4>2, <4>3, <4>4
    <3> QED BY <3>1, <3>2
  <2> QED BY <1>1, <2>1, <2>2, <2>3, <2>4, OthersTyped DEF procState
<1>3. ASSUME NEW m \in Methods, SinkAsks(m) PROVE TalkInv'
  <2>1. /\ proc \in {"run", "spawned"} /\ waiting' = TRUE /\ said' = said \cup {m}
        /\ UNCHANGED <<procState, toSink, clocks, closed, heard>>
    BY <1>3 DEF SinkAsks
  <2>2. PICK named \in BOOLEAN : toSource' = Append(toSource, Request(m, named))
    BY <1>3 DEF SinkAsks
  <2>3. Request(m, named) \in Message BY DEF Request, Message
  <2>4. toSource' \in Seq(Message) BY <1>1, <2>2, <2>3
  <2>5. said' \subseteq Methods BY <1>1, <2>1
  <2> QED BY <1>1, <2>1, <2>4, <2>5, OthersTyped DEF procState
<1>4. CASE SinkCloses
  BY <1>1, <1>4, OthersTyped DEF SinkCloses, procState
<1> QED BY <1>2, <1>3, <1>4 DEF Sink

LEMMA TalkStarts == Init => TalkInv
<1>1. <<>> \in Seq(Requests \cup {"ok"}) /\ <<>> \in Seq(Message) /\ 0 \in 0..GiveUp /\ 0 \in 0..SinkTimeout
  BY Limits
<1> QED BY <1>1 DEF Init, TalkInv, TypeOK, InTime

LEMMA TalkSteps == TalkInv /\ [Next]_wfdVars => TalkInv'
<1> SUFFICES ASSUME TalkInv, [Next]_wfdVars PROVE TalkInv' OBVIOUS
<1>1. /\ TypeOK /\ toSink \in Seq(Answer) /\ toSource \in Seq(Message)
      /\ closed \in BOOLEAN /\ waiting \in BOOLEAN /\ castd \in BOOLEAN
      /\ said \subseteq Methods /\ heard \subseteq Requests
  BY Typed DEF TalkInv, TypeOK
<1>2. CASE Accept
  <2>1. <<"M1">> \in Seq(Answer) BY DEF Answer, Requests
  <2> QED BY <1>1, <1>2, <2>1, OthersTyped DEF Accept, sinkState
<1>3. CASE NoSink \/ SinkClosed \/ GivesUp \/ HandleTeardown \/ Graceful
  BY <1>1, <1>3, FinishKeeps DEF NoSink, SinkClosed, GivesUp, HandleTeardown, Graceful
<1>4. CASE Timeout \/ BodyLate BY <1>4, WaitTyped
<1>5. ASSUME NEW dt \in {0, 1}, Handles(dt) PROVE TalkInv'
  BY <1>5, ReplyTyped, RequestTyped, StartTyped DEF Handles
<1>6. CASE Sigterm
  <2>1. CASE proc = "accept" BY <1>1, <1>6, <2>1, FinishKeeps DEF Sigterm
  <2>2. CASE proc # "accept"
    BY <1>1, <1>6, <2>2, Answered, OthersTyped DEF Sigterm, sinkState
  <2> QED BY <2>1, <2>2
<1>7. CASE CastDies BY <1>1, <1>7, OthersTyped DEF CastDies, sinkState
<1>8. CASE Sink BY <1>8, SinkTyped
<1>9. CASE UNCHANGED wfdVars
  BY <1>1, <1>9, OthersTyped DEF wfdVars, procState, sinkState
<1> QED BY <1>2, <1>3, <1>4, <1>5, <1>6, <1>7, <1>8, <1>9 DEF Next, Process

\* Messages on their way, clocks and states stay what they can be, whatever
\* the sink sends (imira-wfd-proto.py 109-180).
THEOREM ProtoTypes == Spec => []TypeOK
<1>1. TalkInv => TypeOK BY DEF TalkInv
<1> QED BY <1>1, TalkStarts, TalkSteps, PTL DEF Spec

\* The sink never waits out the timeout it was told in SETUP, silent or
\* talkative, for every timeout longer than the keepalive's
\* (imira-wfd-proto.py 133-136, 147-153, 170-173).
THEOREM KeepalivesInTime == Spec => []KeepaliveInTime
<1>1. TalkInv => KeepaliveInTime
  BY Limits DEF TalkInv, TypeOK, InTime, KeepaliveInTime
<1> QED BY <1>1, TalkStarts, TalkSteps, PTL DEF Spec

-------------------------------------------------------------------------------
(* Whose answer a reply is: of the requests of a handshake one at most is   *)
(* on its way, as a request or as the reply to it                           *)

Quiet(q) == \A i \in DOMAIN q : q[i] = "ok"
Asks(q, m) ==
  \A i \in DOMAIN q : q[i] # "ok" =>
    q[i] = m /\ \A j \in DOMAIN q : q[j] # "ok" => j = i

NoReply(q) == \A i \in DOMAIN q : q[i].kind # "reply"
OneReply(q, m) ==
  \A i \in DOMAIN q : q[i].kind = "reply" =>
    q[i].of = m /\ \A j \in DOMAIN q : q[j].kind = "reply" => j = i

IsOptions(m) == m.kind = "request" /\ m.of = "OPTIONS"
NoOptions(q) == \A i \in DOMAIN q : ~IsOptions(q[i])
RepliesFirst(q) ==
  \A i, j \in DOMAIN q : IsOptions(q[i]) /\ q[j].kind = "reply" => j < i

Outstanding(m) ==
  \/ Quiet(toSink) /\ OneReply(toSource, m)
  \/ Asks(toSink, m) /\ NoReply(toSource)

\* The request whose reply moves the state on
Expected ==
  CASE state = "init" -> "M1" [] state = "m3sent" -> "M3"
    [] state = "m4sent" -> "M4" [] state = "m5sent" -> "M5" [] OTHER -> "none"

Talks == proc \in {"accept", "run", "spawned"} /\ state \notin {"playing", "done"}

\* M2 comes after the reply to M1, and M1 was read by then
AsksInOrder ==
  /\ state = "init" => RepliesFirst(toSource) /\ ("M1" \in heard => Quiet(toSink))
  /\ "OPTIONS" \notin said => NoOptions(toSource)
  /\ "OPTIONS" \in said => "M1" \in heard

OneAsked ==
  IF state = "await_m2" THEN Quiet(toSink) /\ NoReply(toSource) ELSE Outstanding(Expected)

AnswerInv == TalkInv /\ (Talks => OneAsked /\ AsksInOrder)

\* What a step does to messages on their way when it asks and answers nothing
Muted(r, q) == (Quiet(q) => Quiet(r)) /\ \A m : Asks(q, m) => Asks(r, m)
Fewer(r, q) ==
  /\ NoReply(q) => NoReply(r)
  /\ \A m : OneReply(q, m) => OneReply(r, m)
  /\ NoOptions(q) => NoOptions(r)
  /\ RepliesFirst(q) => RepliesFirst(r)

LEMMA Last ==
  ASSUME NEW S, NEW s \in Seq(S), NEW e \in S
  PROVE  /\ DOMAIN Append(s, e) = DOMAIN s \cup {Len(s) + 1} /\ Append(s, e)[Len(s) + 1] = e
         /\ \A i \in DOMAIN s : Append(s, e)[i] = s[i] /\ i \in Nat /\ i < Len(s) + 1
OBVIOUS

LEMMA SaysOk ==
  ASSUME NEW q \in Seq(Answer)
  PROVE  Muted(q, q) /\ Muted(Append(q, "ok"), q)
<1>1. "ok" \in Answer BY DEF Answer
<1>2. Quiet(q) => Quiet(Append(q, "ok")) BY <1>1, Last DEF Quiet
<1>3. ASSUME NEW m, Asks(q, m) PROVE Asks(Append(q, "ok"), m)
  BY <1>1, <1>3, Last DEF Asks
<1> QED BY <1>2, <1>3 DEF Muted

LEMMA SaysRequest ==
  ASSUME NEW q \in Seq(Answer), NEW m \in Requests, Quiet(q)
  PROVE  Asks(Append(q, m), m)
<1>1. m \in Answer BY DEF Answer
<1> QED BY <1>1, Last DEF Asks, Quiet

LEMMA SaysBoth ==
  ASSUME NEW q \in Seq(Answer), Quiet(q)
  PROVE  Asks(q \o <<"ok", "M3">>, "M3")
<1>1. q \o <<"ok", "M3">> = Append(Append(q, "ok"), "M3")
  OBVIOUS
<1>2. Append(q, "ok") \in Seq(Answer) /\ "M3" \in Requests BY Answered DEF Requests
<1>3. Quiet(Append(q, "ok")) BY SaysOk DEF Muted
<1> QED BY <1>1, <1>2, <1>3, SaysRequest

LEMMA SinkTakes ==
  ASSUME NEW q \in Seq(Answer), q # <<>>
  PROVE  /\ Muted(Tail(q), q)
         /\ Quiet(q) => Head(q) = "ok"
         /\ \A m : Asks(q, m) /\ Head(q) # "ok" => Head(q) = m /\ Quiet(Tail(q))
<1>1. Quiet(q) => Quiet(Tail(q)) /\ Head(q) = "ok" BY TailTyped DEF Quiet
<1>2. ASSUME NEW m, Asks(q, m) PROVE Asks(Tail(q), m)
  BY <1>2, TailTyped DEF Asks
<1>3. ASSUME NEW m, Asks(q, m), Head(q) # "ok" PROVE Head(q) = m /\ Quiet(Tail(q))
  BY <1>3, TailTyped DEF Asks, Quiet
<1> QED BY <1>1, <1>2, <1>3 DEF Muted

LEMMA SourceTakes ==
  ASSUME NEW q \in Seq(Message), q # <<>>
  PROVE  /\ Fewer(Tail(q), q) /\ Fewer(q, q)
         /\ \A m : OneReply(q, m) /\ Head(q).kind = "reply" => Head(q).of = m /\ NoReply(Tail(q))
         /\ NoReply(q) => Head(q).kind # "reply"
         /\ RepliesFirst(q) /\ IsOptions(Head(q)) => NoReply(q)
         /\ NoOptions(q) => ~IsOptions(Head(q))
<1>1. (NoReply(q) => NoReply(Tail(q))) /\ (NoOptions(q) => NoOptions(Tail(q)))
  BY TailTyped DEF NoReply, NoOptions
<1>2. ASSUME NEW m, OneReply(q, m) PROVE OneReply(Tail(q), m)
  BY <1>2, TailTyped DEF OneReply
<1>3. RepliesFirst(q) => RepliesFirst(Tail(q))
  BY TailTyped DEF RepliesFirst
<1>4. ASSUME NEW m, OneReply(q, m), Head(q).kind = "reply"
      PROVE  Head(q).of = m /\ NoReply(Tail(q))
  BY <1>4, TailTyped DEF OneReply, NoReply
<1>5. (NoReply(q) => Head(q).kind # "reply") /\ (NoOptions(q) => ~IsOptions(Head(q)))
  BY TailTyped DEF NoReply, NoOptions
<1>6. RepliesFirst(q) /\ IsOptions(Head(q)) => NoReply(q)
  <2>1. \A j \in DOMAIN q : ~(j < 1) OBVIOUS
  <2> QED BY <2>1, TailTyped DEF RepliesFirst, NoReply
<1> QED BY <1>1, <1>2, <1>3, <1>4, <1>5, <1>6 DEF Fewer

LEMMA LateTakes ==
  ASSUME NEW q \in Seq(Message), q # <<>>
  PROVE  Fewer([q EXCEPT ![1] = LateBody], q)
<1> DEFINE r == [q EXCEPT ![1] = LateBody]
<1>1. /\ DOMAIN r = DOMAIN q /\ r[1].kind = "tail" /\ \A i \in DOMAIN q : i # 1 => r[i] = q[i]
  BY TailTyped DEF LateBody
<1> HIDE DEF r
<1>2. (NoReply(q) => NoReply(r)) /\ (NoOptions(q) => NoOptions(r))
  BY <1>1 DEF NoReply, NoOptions, IsOptions
<1>3. \A m : OneReply(q, m) => OneReply(r, m) BY <1>1 DEF OneReply
<1>4. RepliesFirst(q) => RepliesFirst(r) BY <1>1 DEF RepliesFirst, IsOptions
<1> QED BY <1>2, <1>3, <1>4 DEF Fewer, r

LEMMA ReplyComes ==
  ASSUME NEW q \in Seq(Message), NEW m \in Requests, NEW good \in BOOLEAN, NoReply(q)
  PROVE  /\ OneReply(Append(q, Reply(m, good)), m)
         /\ NoOptions(q) => NoOptions(Append(q, Reply(m, good)))
         /\ NoOptions(q) => RepliesFirst(Append(q, Reply(m, good)))
<1>1. Reply(m, good) \in Message /\ Reply(m, good).kind = "reply" /\ Reply(m, good).of = m
  BY DEF Reply, Message
<1>2. OneReply(Append(q, Reply(m, good)), m)
  BY <1>1, Last DEF OneReply, NoReply
<1>3. NoOptions(q) => NoOptions(Append(q, Reply(m, good)))
  BY <1>1, Last DEF NoOptions, IsOptions
<1> QED BY <1>2, <1>3 DEF NoOptions, RepliesFirst

LEMMA RequestComes ==
  ASSUME NEW q \in Seq(Message), NEW m \in Methods, NEW named \in BOOLEAN
  PROVE  LET r == Append(q, Request(m, named))
         IN /\ NoReply(q) => NoReply(r)
            /\ \A x : OneReply(q, x) => OneReply(r, x)
            /\ RepliesFirst(q) => RepliesFirst(r)
            /\ NoOptions(q) /\ m # "OPTIONS" => NoOptions(r)
<1>1. Request(m, named) \in Message /\ Request(m, named).kind = "request" /\ Request(m, named).of = m
  BY DEF Request, Message
<1> DEFINE r == Append(q, Request(m, named))
<1>2. /\ DOMAIN r = DOMAIN q \cup {Len(q) + 1} /\ r[Len(q) + 1] = Request(m, named)
      /\ \A i \in DOMAIN q : r[i] = q[i] /\ i \in Nat /\ i < Len(q) + 1
  BY <1>1, Last
<1> HIDE DEF r
<1>3. (NoReply(q) => NoReply(r)) /\ (NoOptions(q) /\ m # "OPTIONS" => NoOptions(r))
  BY <1>1, <1>2 DEF NoReply, NoOptions, IsOptions
<1>4. \A x : OneReply(q, x) => OneReply(r, x) BY <1>1, <1>2 DEF OneReply
<1>5. RepliesFirst(q) => RepliesFirst(r) BY <1>1, <1>2 DEF RepliesFirst
<1> QED BY <1>3, <1>4, <1>5 DEF r

\* A step that only takes messages away, or says 200
LEMMA Passive ==
  ASSUME AnswerInv, state' = state, UNCHANGED <<said, heard>>, Talks' => Talks,
         Talks' => Muted(toSink', toSink) /\ Fewer(toSource', toSource)
  PROVE  Talks' => (OneAsked /\ AsksInOrder)'
<1> SUFFICES ASSUME Talks' PROVE (OneAsked /\ AsksInOrder)' OBVIOUS
<1>1. OneAsked /\ AsksInOrder /\ Muted(toSink', toSink) /\ Fewer(toSource', toSource)
  BY DEF AnswerInv
<1>2. Expected' = Expected BY DEF Expected
<1>3. OneAsked' BY <1>1, <1>2 DEF OneAsked, Outstanding, Muted, Fewer
<1>4. AsksInOrder' BY <1>1 DEF AsksInOrder, Muted, Fewer
<1> QED BY <1>3, <1>4

\* What a reply in the order of the handshake is the answer to
LEMMA RightAnswer ==
  ASSUME AnswerInv, Receives("reply"), state \in {"init", "m3sent", "m4sent", "m5sent"}
  PROVE  Head(toSource).of = Expected /\ NoReply(Tail(toSource)) /\ Quiet(toSink)
<1>1. Talks /\ toSource # <<>> /\ toSource \in Seq(Message)
  BY Typed DEF Receives, Talks, AnswerInv, TalkInv
<1>2. Outstanding(Expected) BY <1>1 DEF AnswerInv, OneAsked
<1>3. ~NoReply(toSource) BY <1>1, SourceTakes DEF Receives
<1>4. Quiet(toSink) /\ OneReply(toSource, Expected) BY <1>2, <1>3 DEF Outstanding
<1> QED BY <1>1, <1>4, SourceTakes DEF Receives

LEMMA ReplyInOrder ==
  ASSUME AnswerInv, NEW dt \in {0, 1}, HandleReply(dt)
  PROVE  Talks' => (OneAsked /\ AsksInOrder)'
<1> SUFFICES ASSUME Talks' PROVE (OneAsked /\ AsksInOrder)' OBVIOUS
<1>1. /\ Receives("reply") /\ proc = "run" /\ toSource # <<>> /\ toSource' = Tail(toSource)
      /\ UNCHANGED <<said, heard>> /\ state' # "playing"
  BY DEF HandleReply, Receives, sinkState, Talks
<1>2. TypeOK /\ toSink \in Seq(Answer) /\ toSource \in Seq(Message)
  BY Typed DEF AnswerInv, TalkInv
<1>3. Fewer(toSource', toSource) BY <1>1, <1>2, SourceTakes
<1>4. /\ Append(toSink, "M4") \in Seq(Answer) /\ Append(toSink, "M5") \in Seq(Answer)
  BY <1>2, Answered
<1>5. CASE state' = state
  <2>1. AfterMessage(toSink, dt) BY <1>5 DEF HandleReply
  <2>2. toSink' = toSink BY <1>1, <1>2, <2>1, PassEnds
  <2>3. Muted(toSink', toSink) BY <1>2, <2>2, SaysOk
  <2>4. Talks BY <1>1, <1>5 DEF Talks
  <2> QED BY <1>1, <1>3, <1>5, <2>3, <2>4, Passive
<1>6. CASE state = "init" /\ state' = "await_m2"
  <2>1. AfterMessage(toSink, dt) BY <1>6 DEF HandleReply
  <2>2. toSink' = toSink BY <1>1, <1>2, <2>1, PassEnds
  <2>3. Quiet(toSink') /\ NoReply(toSource') BY <1>1, <1>6, <2>2, RightAnswer
  <2>4. AsksInOrder BY <1>1, <1>6 DEF AnswerInv, Talks
  <2> QED BY <1>1, <1>3, <1>6, <2>3, <2>4 DEF OneAsked, AsksInOrder, Fewer
<1>7. CASE state \in {"m3sent", "m4sent"} /\ state' # state
  <2>1. \/ state' = "m4sent" /\ AfterMessage(Append(toSink, "M4"), dt)
        \/ state' = "m5sent" /\ AfterMessage(Append(toSink, "M5"), dt)
    BY <1>7 DEF HandleReply
  <2>2. \/ state' = "m4sent" /\ toSink' = Append(toSink, "M4")
        \/ state' = "m5sent" /\ toSink' = Append(toSink, "M5")
    BY <1>1, <1>2, <1>4, <2>1, PassEnds
  <2>3. Quiet(toSink) /\ NoReply(toSource') BY <1>1, <1>7, RightAnswer
  <2>4. Asks(toSink', Expected')
    BY <1>2, <2>2, <2>3, SaysRequest DEF Requests, Expected
  <2>5. AsksInOrder BY <1>1, <1>7 DEF AnswerInv, Talks
  <2> QED BY <1>1, <1>3, <2>2, <2>3, <2>4, <2>5 DEF OneAsked, Outstanding, AsksInOrder, Fewer
<1> QED BY <1>5, <1>6, <1>7 DEF HandleReply

LEMMA OptionsInOrder ==
  ASSUME AnswerInv, NEW dt \in {0, 1}, HandleOptions(dt)
  PROVE  Talks' => (OneAsked /\ AsksInOrder)'
<1> SUFFICES ASSUME Talks' PROVE (OneAsked /\ AsksInOrder)' OBVIOUS
<1>1. /\ proc = "run" /\ toSource # <<>> /\ toSource' = Tail(toSource)
      /\ IsOptions(Head(toSource)) /\ UNCHANGED <<said, heard>> /\ state' # "playing"
  BY DEF HandleOptions, Receives, sinkState, Talks, IsOptions
<1>2. TypeOK /\ toSink \in Seq(Answer) /\ toSource \in Seq(Message)
  BY Typed DEF AnswerInv, TalkInv
<1>3. Fewer(toSource', toSource) BY <1>1, <1>2, SourceTakes
<1>4. Append(toSink, "ok") \in Seq(Answer) /\ toSink \o <<"ok", "M3">> \in Seq(Answer)
  BY <1>2, Answered
<1>5. CASE state \in {"init", "await_m2"}
  <2>1. state' = "m3sent" /\ AfterMessage(toSink \o <<"ok", "M3">>, dt)
    BY <1>5 DEF HandleOptions
  <2>2. toSink' = toSink \o <<"ok", "M3">> BY <1>1, <1>2, <1>4, <2>1, PassEnds
  <2>3. OneAsked /\ AsksInOrder BY <1>1, <1>5 DEF AnswerInv, Talks
  <2>4. "OPTIONS" \in said /\ "M1" \in heard
    BY <1>1, <1>2, <2>3, SourceTakes DEF AsksInOrder
  <2>5. Quiet(toSink) /\ NoReply(toSource)
    <3>1. CASE state = "init"
      BY <1>1, <1>2, <2>3, <2>4, <3>1, SourceTakes DEF AsksInOrder
    <3>2. CASE state = "await_m2" BY <2>3, <3>2 DEF OneAsked
    <3> QED BY <1>5, <3>1, <3>2
  <2>6. Asks(toSink', "M3") /\ NoReply(toSource')
    BY <1>2, <1>3, <2>2, <2>5, SaysBoth DEF Fewer
  <2>7. Expected' = "M3" BY <2>1 DEF Expected
  <2> QED BY <1>1, <1>3, <2>1, <2>3, <2>4, <2>6, <2>7 DEF OneAsked, Outstanding, AsksInOrder
<1>6. CASE state \notin {"init", "await_m2"}
  <2>1. state' = state /\ AfterMessage(Append(toSink, "ok"), dt)
    BY <1>6 DEF HandleOptions
  <2>2. toSink' = Append(toSink, "ok") BY <1>1, <1>2, <1>4, <2>1, PassEnds
  <2>3. Muted(toSink', toSink) BY <1>2, <2>2, SaysOk
  <2>4. Talks BY <1>1, <2>1 DEF Talks
  <2> QED BY <1>1, <1>3, <2>1, <2>3, <2>4, Passive
<1> QED BY <1>5, <1>6

LEMMA PassInOrder ==
  ASSUME AnswerInv, NEW dt \in {0, 1},
         Garbled(dt) \/ HandleParam(dt) \/ HandleSetup(dt) \/ HandlePlay(dt) \/ KeepHandle(dt)
  PROVE  Talks' => (OneAsked /\ AsksInOrder)'
<1> SUFFICES ASSUME Talks' PROVE (OneAsked /\ AsksInOrder)' OBVIOUS
<1>1. TypeOK /\ toSink \in Seq(Answer) /\ toSource \in Seq(Message)
  BY Typed DEF AnswerInv, TalkInv
<1>2. Append(toSink, "ok") \in Seq(Answer) BY <1>1, Answered
<1>3. /\ proc = "run" /\ proc' \in {"run", "spawned"} /\ state' = state /\ state' # "playing"
      /\ toSource # <<>> /\ UNCHANGED <<said, heard>>
      /\ toSink' = Append(toSink, "ok") \/ AfterMessage(Append(toSink, "ok"), dt)
  <2>1. ~Finish BY DEF Finish, Talks
  <2>2. state' # "playing" BY DEF Talks
  <2>3. CASE Garbled(dt)
    BY <1>1, <2>2, <2>3 DEF Garbled, sinkState, procState
  <2>4. CASE HandleParam(dt)
    BY <2>2, <2>4 DEF HandleParam, Receives, sinkState, procState
  <2>5. CASE HandleSetup(dt) BY <2>1, <2>2, <2>5 DEF HandleSetup, Receives, sinkState
  <2>6. CASE HandlePlay(dt) BY <2>1, <2>2, <2>6 DEF HandlePlay, Receives, sinkState
  <2>7. CASE KeepHandle(dt) BY <2>2, <2>7 DEF KeepHandle
  <2> QED BY <2>3, <2>4, <2>5, <2>6, <2>7
<1>4. toSink' = Append(toSink, "ok") BY <1>1, <1>2, <1>3, PassEnds
<1>5. Muted(toSink', toSink) BY <1>1, <1>4, SaysOk
<1>6. Fewer(toSource', toSource)
  <2>1. Fewer(Tail(toSource), toSource) BY <1>1, <1>3, SourceTakes
  <2>2. CASE Garbled(dt)
    <3>1. toSource' = Tail(Tail(toSource)) /\ Len(toSource) > 1 BY <2>2 DEF Garbled
    <3>2. Tail(toSource) \in Seq(Message) /\ Tail(toSource) # <<>>
      BY <1>1, <1>3, <3>1, TailLeft, TailTyped
    <3>3. Fewer(toSource', Tail(toSource)) BY <3>1, <3>2, SourceTakes
    <3> QED BY <2>1, <3>3 DEF Fewer
  <2>3. CASE ~Garbled(dt)
    <3>1. toSource' = Tail(toSource)
      BY <1>3, <2>3 DEF HandleParam, HandleSetup, HandlePlay, KeepHandle, Finish, Talks
    <3> QED BY <2>1, <3>1
  <2> QED BY <2>2, <2>3
<1>7. Talks BY <1>3 DEF Talks
<1> QED BY <1>3, <1>5, <1>6, <1>7, Passive

LEMMA WaitInOrder ==
  ASSUME AnswerInv, Timeout \/ BodyLate
  PROVE  Talks' => (OneAsked /\ AsksInOrder)'
<1>1. TypeOK /\ toSink \in Seq(Answer) /\ toSource \in Seq(Message)
  BY Typed DEF AnswerInv, TalkInv
<1>2. TimeoutBranch /\ UNCHANGED <<procState, sinkState>> BY DEF Timeout, BodyLate
<1>3. state' = state /\ UNCHANGED <<proc, said, heard>> BY <1>2 DEF procState, sinkState
<1>4. Talks' => Muted(toSink', toSink)
  BY <1>1, <1>2, <1>3, PassTimesOut, SaysOk DEF Talks
<1>5. Fewer(toSource', toSource)
  <2>1. CASE toSource' = toSource BY <2>1 DEF Fewer
  <2>2. CASE BodyLate BY <1>1, <2>2, LateTakes DEF BodyLate
  <2> QED BY <2>1, <2>2 DEF Timeout
<1>6. Talks' => Talks BY <1>3 DEF Talks
<1> QED BY <1>3, <1>4, <1>5, <1>6, Passive

LEMMA SinkReadsInOrder ==
  ASSUME AnswerInv, SinkReads
  PROVE  Talks' => (OneAsked /\ AsksInOrder)'
<1> SUFFICES ASSUME Talks' PROVE (OneAsked /\ AsksInOrder)' OBVIOUS
<1>1. toSink \in Seq(Answer) /\ toSource \in Seq(Message)
  BY Typed DEF AnswerInv, TalkInv
<1>2. /\ toSink # <<>> /\ toSink' = Tail(toSink) /\ UNCHANGED <<procState, said>>
      /\ proc' = proc /\ state' = state /\ Talks
  BY DEF SinkReads, procState, Talks
<1>3. OneAsked /\ AsksInOrder /\ Head(toSink) \in Answer
  BY <1>1, <1>2, TailTyped DEF AnswerInv
<1>4. CASE Head(toSink) = "ok"
  <2>1. UNCHANGED <<heard, toSource>> BY <1>4 DEF SinkReads
  <2>2. Muted(toSink', toSink) BY <1>1, <1>2, SinkTakes
  <2>3. Fewer(toSource', toSource) BY <2>1 DEF Fewer
  <2> QED BY <1>2, <2>1, <2>2, <2>3, Passive
<1>5. CASE Head(toSink) # "ok"
  <2> DEFINE m == Head(toSink)
  <2>1. m \in Requests /\ heard' = heard \cup {m} BY <1>3, <1>5 DEF Answer, SinkReads
  <2>2. PICK good \in BOOLEAN : toSource' = Append(toSource, Reply(m, good))
    BY <1>5 DEF SinkReads
  <2>3. ~Quiet(toSink) BY <1>1, <1>2, <1>5, SinkTakes
  <2>4. state # "await_m2" /\ Asks(toSink, Expected) /\ NoReply(toSource)
    BY <1>3, <2>3 DEF OneAsked, Outstanding
  <2>5. m = Expected /\ Quiet(toSink') BY <1>1, <1>2, <1>5, <2>4, SinkTakes
  <2>6. Expected' = Expected BY <1>2 DEF Expected
  <2> HIDE DEF m
  <2>7. /\ OneReply(toSource', m)
        /\ NoOptions(toSource) => NoOptions(toSource') /\ RepliesFirst(toSource')
    BY <1>1, <2>1, <2>2, <2>4, ReplyComes
  <2>8. OneAsked' BY <1>2, <2>4, <2>5, <2>6, <2>7 DEF OneAsked, Outstanding
  <2>9. AsksInOrder'
    <3>1. state = "init" => NoOptions(toSource)
      BY <1>3, <2>3 DEF AsksInOrder
    <3> QED BY <1>2, <1>3, <2>1, <2>5, <2>7, <3>1 DEF AsksInOrder
  <2> QED BY <2>8, <2>9
<1> QED BY <1>4, <1>5

\* A sink in order asks for M2 when it has answered M1
LEMMA SinkAsksInOrder ==
  ASSUME AnswerInv, "early" \notin SinkFaults, NEW m \in Methods, SinkAsks(m)
  PROVE  Talks' => (OneAsked /\ AsksInOrder)'
<1> SUFFICES ASSUME Talks' PROVE (OneAsked /\ AsksInOrder)' OBVIOUS
<1>1. toSource \in Seq(Message) BY Typed DEF AnswerInv, TalkInv
<1>2. /\ MayAsk(m) /\ said' = said \cup {m} /\ UNCHANGED <<toSink, heard>>
      /\ proc' = proc /\ state' = state /\ Talks
  BY DEF SinkAsks, procState, Talks
<1>3. PICK named \in BOOLEAN : toSource' = Append(toSource, Request(m, named))
  BY DEF SinkAsks
<1>4. m = "OPTIONS" => "M1" \in heard BY <1>2 DEF MayAsk, InOrder
<1>5. /\ NoReply(toSource) => NoReply(toSource')
      /\ \A x : OneReply(toSource, x) => OneReply(toSource', x)
      /\ RepliesFirst(toSource) => RepliesFirst(toSource')
      /\ NoOptions(toSource) /\ m # "OPTIONS" => NoOptions(toSource')
  BY <1>1, <1>3, RequestComes
<1>6. OneAsked /\ AsksInOrder BY <1>2 DEF AnswerInv
<1>7. Expected' = Expected BY <1>2 DEF Expected
<1>8. OneAsked' BY <1>2, <1>5, <1>6, <1>7 DEF OneAsked, Outstanding
<1>9. AsksInOrder' BY <1>2, <1>4, <1>5, <1>6 DEF AsksInOrder
<1> QED BY <1>8, <1>9

LEMMA AnswerStarts == Init => AnswerInv
<1> SUFFICES ASSUME Init PROVE AnswerInv OBVIOUS
<1>1. TalkInv BY TalkStarts
<1>2. toSink = <<>> /\ toSource = <<>> /\ state = "init" /\ heard = {} /\ said = {} BY DEF Init
<1>3. Quiet(<<>>) /\ NoReply(<<>>) /\ NoOptions(<<>>) /\ RepliesFirst(<<>>) /\ OneReply(<<>>, Expected)
  BY DEF Quiet, NoReply, NoOptions, RepliesFirst, OneReply
<1> QED BY <1>1, <1>2, <1>3 DEF AnswerInv, OneAsked, Outstanding, AsksInOrder

LEMMA AnswerSteps ==
  ASSUME "early" \notin SinkFaults
  PROVE  AnswerInv /\ [Next]_wfdVars => AnswerInv'
<1> SUFFICES ASSUME AnswerInv, [Next]_wfdVars PROVE Talks' => (OneAsked /\ AsksInOrder)'
  BY TalkSteps DEF AnswerInv
<1>1. toSink \in Seq(Answer) /\ toSource \in Seq(Message)
  BY Typed DEF AnswerInv, TalkInv
<1>2. ASSUME UNCHANGED <<proc, state, toSink, toSource, said, heard>>
      PROVE  Talks' => (OneAsked /\ AsksInOrder)'
  <2>1. Muted(toSink', toSink) /\ Fewer(toSource', toSource) /\ (Talks' => Talks)
    BY <1>2 DEF Muted, Fewer, Talks
  <2> QED BY <1>2, <2>1, Passive
<1>3. CASE Accept
  <2>1. /\ toSink' = <<"M1">> /\ toSource' = <<>> /\ state' = "init" /\ said' = {} /\ heard' = {}
    BY <1>3 DEF Accept, sinkState, AnswerInv, TalkInv
  <2>2. Asks(<<"M1">>, "M1") /\ NoReply(<<>>) /\ NoOptions(<<>>) /\ RepliesFirst(<<>>)
    BY DEF Asks, NoReply, NoOptions, RepliesFirst
  <2>3. Expected' = "M1" BY <2>1 DEF Expected
  <2> QED BY <2>1, <2>2, <2>3 DEF OneAsked, Outstanding, AsksInOrder
<1>4. CASE NoSink \/ SinkClosed \/ GivesUp \/ HandleTeardown \/ Graceful
  BY <1>4 DEF NoSink, SinkClosed, GivesUp, HandleTeardown, Graceful, Finish, Talks
<1>5. CASE Timeout \/ BodyLate BY <1>5, WaitInOrder
<1>6. ASSUME NEW dt \in {0, 1}, Handles(dt) PROVE Talks' => (OneAsked /\ AsksInOrder)'
  BY <1>6, ReplyInOrder, OptionsInOrder, PassInOrder DEF Handles
<1>7. CASE Sigterm BY <1>7 DEF Sigterm, Finish, Talks
<1>8. CASE CastDies BY <1>2, <1>8 DEF CastDies, sinkState
<1>9. CASE SinkReads BY <1>9, SinkReadsInOrder
<1>10. ASSUME NEW m \in Methods, SinkAsks(m) PROVE Talks' => (OneAsked /\ AsksInOrder)'
  BY <1>10, SinkAsksInOrder
<1>11. CASE SinkCloses BY <1>2, <1>11 DEF SinkCloses, procState
<1>12. CASE UNCHANGED wfdVars BY <1>2, <1>12 DEF wfdVars, procState, sinkState
<1> QED BY <1>3, <1>4, <1>5, <1>6, <1>7, <1>8, <1>9, <1>10, <1>11, <1>12 DEF Next, Process, Sink

LEMMA Matches ==
  ASSUME AnswerInv, [Next]_wfdVars
  PROVE  /\ state' = "m4sent" /\ state # "m4sent" => answered' = "M3"
         /\ state' = "m5sent" /\ state # "m5sent" => answered' = "M4"
<1> SUFFICES ASSUME state' # state, state' \in {"m4sent", "m5sent"}
             PROVE  /\ state' = "m4sent" => answered' = "M3"
                    /\ state' = "m5sent" => answered' = "M4"
  OBVIOUS
<1>1. \E dt \in {0, 1} : HandleReply(dt)
  <2>1. \/ Handles(0) \/ Handles(1)
    BY DEF Next, Process, Accept, NoSink, SinkClosed, Timeout, GivesUp, HandleTeardown, Graceful,
           BodyLate, Sigterm, CastDies, Sink, SinkReads, SinkAsks, SinkCloses, procState, wfdVars
  <2>2. ASSUME NEW dt \in {0, 1}, Handles(dt) PROVE HandleReply(dt)
    BY <2>2 DEF Handles, Garbled, HandleOptions, HandleSetup, HandlePlay, KeepHandle, HandleParam,
                procState
  <2> QED BY <2>1, <2>2
<1>2. PICK dt \in {0, 1} : HandleReply(dt) BY <1>1
<1>3. Receives("reply") /\ answered' = Head(toSource).of
  BY <1>2 DEF HandleReply
<1>4. \/ state = "m3sent" /\ state' = "m4sent"
      \/ state = "m4sent" /\ state' = "m5sent"
  BY <1>2 DEF HandleReply
<1>5. Head(toSource).of = Expected BY <1>3, <1>4, RightAnswer
<1> QED BY <1>3, <1>4, <1>5 DEF Expected

\* M4 is built on the answer to M3 and M5 follows the answer to M4, although
\* the process tells replies apart by its state alone and bodies get lost,
\* for every sink that asks M2 after it has answered M1 (imira-wfd-proto.py
\* 177-212, handle_reply).
THEOREM AnswersAlwaysMatch ==
  ASSUME "early" \notin SinkFaults
  PROVE  Spec => AnswersMatch
<1>1. AnswerInv /\ [Next]_wfdVars => AnswerInv' BY AnswerSteps
<1>2. AnswerInv /\ [Next]_wfdVars =>
        [/\ (state' = "m4sent" /\ state # "m4sent" => answered' = "M3")
         /\ (state' = "m5sent" /\ state # "m5sent" => answered' = "M4")]_wfdVars
  BY Matches
<1> QED BY <1>1, <1>2, AnswerStarts, PTL DEF Spec, AnswersMatch
================================================================================
