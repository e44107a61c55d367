-------------------------------- MODULE WfdProto --------------------------------
(***************************************************************************)
(* device/imira-wfd-proto.py: one RTSP session with a Wi-Fi Display sink, *)
(* from the accepted connection over the handshake M1 to M7 to its end,    *)
(* with the sink at the other end of two reliable, ordered channels.       *)
(*                                                                         *)
(* A message is what the code looks at in it: of a reply the request it    *)
(* answers (the code does not look at that) and whether it says 200, of a  *)
(* request the method and whether a port is named.  Time is counted in     *)
(* receive timeouts of 5 s.                                                *)
(***************************************************************************)
EXTENDS Sequences, Naturals, FiniteSets

CONSTANTS
  Offer,         \* codecs the sink plays at 48 kHz in stereo
  Pref,          \* the user's choice: auto, aac, lpcm
  CanEncode,     \* the phone has an AAC encoder
  KeepAfter,     \* keepalive after that many timeouts (15 s)
  SinkTimeout,   \* the session timeout announced to the sink (60 s)
  GiveUp,        \* silence before PLAY that ends the session (90 s)
  SinkFaults     \* early, rude, errors, split, term

ASSUME OfferAssumption == Offer \subseteq {"aac", "lpcm"}

ASSUME TimesAssumption ==
  /\ KeepAfter \in Nat \ {0} /\ GiveUp \in Nat \ {0}
  /\ SinkTimeout \in Nat /\ KeepAfter < SinkTimeout

VARIABLES
  proc,      \* accept, run, spawned (castd started, handle not kept), term, gone
  state,     \* WFDSession.state
  port,      \* client_rtp_port is set
  gst,       \* WFDSession.gst is set
  castd,     \* a castd started by this process runs and was not told to end
  codec,     \* what M4 chose
  toSink,    \* what the sink has not read yet
  toSource,  \* what this process has not read yet
  silent,    \* timeouts since last_msg
  sinceKa,   \* timeouts since last_keepalive
  closed,    \* the sink has closed the connection
  waiting,   \* the sink waits for an answer to its request
  said,      \* methods the sink has sent
  heard,     \* requests of ours the sink has answered
  answered   \* history: whose answer the last state change was made on

procState == <<proc, state, port, gst, castd, codec, answered>>
clocks == <<silent, sinceKa>>
sinkState == <<closed, waiting, said, heard>>
wfdVars == <<procState, toSink, toSource, clocks, sinkState>>

Requests == {"M1", "M3", "M4", "M5", "KA", "M8"}
Methods == {"OPTIONS", "SETUP", "PLAY", "TEARDOWN", "PARAM"}

Reply(m, good) == [kind |-> "reply", of |-> m, good |-> good]
Request(m, p) == [kind |-> "request", of |-> m, good |-> p]

\* The rest of a message whose head the process has dropped.
LateBody == [kind |-> "tail", of |-> "none", good |-> FALSE]

Message ==
  [kind : {"reply"}, of : Requests, good : BOOLEAN]
    \cup [kind : {"request"}, of : Methods, good : BOOLEAN] \cup {LateBody}

TypeOK ==
  /\ proc \in {"accept", "run", "spawned", "term", "gone"}
  /\ state \in {"init", "await_m2", "m3sent", "m4sent", "m5sent", "playing", "done"}
  /\ port \in BOOLEAN /\ gst \in BOOLEAN /\ castd \in BOOLEAN
  /\ codec \in {"none", "aac", "lpcm"}
  /\ toSink \in Seq(Requests \cup {"ok"})
  /\ toSource \in Seq(Message)
  /\ silent \in 0..GiveUp /\ sinceKa \in 0..SinkTimeout
  /\ closed \in BOOLEAN /\ waiting \in BOOLEAN
  /\ said \subseteq Methods /\ heard \subseteq Requests
  /\ answered \in Requests \cup {"none"}

Init ==
  /\ proc = "accept" /\ state = "init" /\ port = FALSE /\ gst = FALSE
  /\ castd = FALSE /\ codec = "none" /\ answered = "none"
  /\ toSink = <<>> /\ toSource = <<>> /\ silent = 0 /\ sinceKa = 0
  /\ closed = FALSE /\ waiting = FALSE /\ said = {} /\ heard = {}

-------------------------------------------------------------------------------
(* The process. *)

\* choose_audio_codec: AAC if the body it is given offers it and the phone
\* can encode it; LPCM only where it must be or is wished for.
ChooseCodec(offer) ==
  LET canAac == "aac" \in offer /\ CanEncode
  IN IF canAac /\ ~(Pref = "lpcm" /\ "lpcm" \in offer) THEN "aac" ELSE "lpcm"

\* Mutant: M3 is sent without waiting for M2.
AcceptAsksAll ==
  /\ proc = "accept"
  /\ proc' = "run"
  /\ state' = "m3sent"
  /\ toSink' = <<"M1", "M3">>
  /\ UNCHANGED <<port, gst, castd, codec, answered, toSource, clocks, sinkState>>

Accept ==
  /\ proc = "accept"
  /\ proc' = "run"
  /\ toSink' = <<"M1">>
  /\ UNCHANGED <<state, port, gst, castd, codec, answered, toSource, clocks, sinkState>>

\* stop_stream: castd is ended only by a process that holds its handle.
StopStream ==
  /\ gst' = FALSE
  /\ castd' = IF gst THEN FALSE ELSE castd

\* main: whatever ends run(), an exception included, stops the stream.
Finish ==
  /\ proc' = "gone"
  /\ StopStream
  /\ toSink' = <<>> /\ toSource' = <<>>
  /\ silent' = 0 /\ sinceKa' = 0
  /\ UNCHANGED <<port, codec, answered, sinkState>>

\* No connection within RTSP_WAIT.
NoSink == proc = "accept" /\ Finish /\ UNCHANGED state

\* No complete message is there to be read.
Drained == \A i \in DOMAIN toSource : toSource[i].kind = "tail"

SinkClosed ==
  /\ proc = "run" /\ closed /\ Drained
  /\ Finish /\ UNCHANGED state

Later(n, dt, max) == IF n + dt < max THEN n + dt ELSE max

\* Unread keepalives are not counted twice: to a sink that reads nothing
\* one more says nothing.
Push(q, m) == IF m = "KA" /\ "KA" \in {q[i] : i \in DOMAIN q} THEN q ELSE Append(q, m)

\* Mutant: the keepalive is sent only when the sink is silent.
AfterMessageQuiet(q, dt) ==
  /\ silent' = 0
  /\ sinceKa' = Later(sinceKa, dt, SinkTimeout)
  /\ toSink' = q

\* The end of a pass of run() that handled a message dt after the last one.
AfterMessage(q, dt) ==
  LET since == Later(sinceKa, dt, SinkTimeout)
  IN /\ silent' = 0
     /\ IF state' = "playing" /\ since >= KeepAfter
        THEN sinceKa' = 0 /\ toSink' = Push(q, "KA")
        ELSE sinceKa' = since /\ toSink' = q

\* Mutant: every timeout counts as a message.
TimeoutBranchForgets ==
  /\ state = "playing" \/ silent < GiveUp
  /\ silent' = 0
  /\ LET since == Later(sinceKa, 1, SinkTimeout)
     IN IF state = "playing" /\ since >= KeepAfter
        THEN sinceKa' = 0 /\ toSink' = Push(toSink, "KA")
        ELSE sinceKa' = since /\ UNCHANGED toSink

\* run() after a receive that timed out.  The silence counts only before
\* PLAY.
TimeoutBranch ==
  /\ state = "playing" \/ silent < GiveUp
  /\ silent' = IF state = "playing" THEN 0 ELSE silent + 1
  /\ LET since == Later(sinceKa, 1, SinkTimeout)
     IN IF state = "playing" /\ since >= KeepAfter
        THEN sinceKa' = 0 /\ toSink' = Push(toSink, "KA")
        ELSE sinceKa' = since /\ UNCHANGED toSink

\* Nothing for 5 s.
Timeout ==
  /\ proc = "run" /\ ~closed /\ Drained
  /\ TimeoutBranch
  /\ UNCHANGED <<procState, toSource, sinkState>>

\* "no message from the sink for 90 s before PLAY, giving up"
GivesUp ==
  /\ proc = "run" /\ state # "playing" /\ silent = GiveUp
  /\ Finish /\ UNCHANGED state

\* A body that comes more than 5 s after its head: the head is lost, the
\* body stays in front of the next message.
BodyLate ==
  /\ "split" \in SinkFaults
  /\ proc = "run" /\ toSource # <<>>
  /\ Head(toSource).kind # "tail" /\ Head(toSource).of \in {"M3", "PARAM"}
  /\ toSource' = [toSource EXCEPT ![1] = LateBody]
  /\ TimeoutBranch
  /\ UNCHANGED <<procState, sinkState>>

\* The dropped body and the next head read as one message: a method nobody
\* knows, and a 200 for it.
Garbled(dt) ==
  /\ proc = "run" /\ Len(toSource) > 1 /\ Head(toSource).kind = "tail"
  /\ toSource' = Tail(Tail(toSource))
  /\ UNCHANGED <<procState, sinkState>>
  /\ AfterMessage(Append(toSink, "ok"), dt)

Receives(kind) == proc = "run" /\ toSource # <<>> /\ Head(toSource).kind = kind

\* handle_reply: what a reply answers is taken from the state alone.
HandleReply(dt) ==
  LET m == Head(toSource)
      Stays == state \in {"await_m2", "m5sent", "playing"}
  IN /\ Receives("reply")
     /\ toSource' = Tail(toSource)
     /\ \/ /\ ~m.good \/ Stays
           /\ UNCHANGED <<state, port, codec>>
           /\ AfterMessage(toSink, dt)
        \/ /\ m.good /\ state = "init" /\ state' = "await_m2"
           /\ UNCHANGED <<port, codec>>
           /\ AfterMessage(toSink, dt)
        \/ /\ m.good /\ state = "m3sent" /\ state' = "m4sent"
           /\ port' \in IF m.of = "M3" THEN {port, TRUE} ELSE {port}
           /\ codec' = ChooseCodec(IF m.of = "M3" THEN Offer ELSE {})
           /\ AfterMessage(Append(toSink, "M4"), dt)
        \/ /\ m.good /\ state = "m4sent" /\ state' = "m5sent"
           /\ UNCHANGED <<port, codec>>
           /\ AfterMessage(Append(toSink, "M5"), dt)
     /\ answered' = IF state' # state THEN m.of ELSE answered
     /\ UNCHANGED <<proc, gst, castd, sinkState>>

\* M2: M3 follows, also before the reply to M1 is there.
HandleOptions(dt) ==
  /\ Receives("request") /\ Head(toSource).of = "OPTIONS"
  /\ toSource' = Tail(toSource)
  /\ IF state \in {"init", "await_m2"}
     THEN state' = "m3sent" /\ AfterMessage(toSink \o <<"ok", "M3">>, dt)
     ELSE UNCHANGED state /\ AfterMessage(Append(toSink, "ok"), dt)
  /\ UNCHANGED <<proc, port, gst, castd, codec, answered, sinkState>>

\* M6.  Without any port the answer cannot be formatted, and the exception
\* ends the process.
HandleSetup(dt) ==
  /\ Receives("request") /\ Head(toSource).of = "SETUP"
  /\ IF port \/ Head(toSource).good
     THEN /\ port' = TRUE
          /\ toSource' = Tail(toSource)
          /\ UNCHANGED <<proc, state, gst, castd, codec, answered, sinkState>>
          /\ AfterMessage(Append(toSink, "ok"), dt)
     ELSE Finish /\ UNCHANGED state

\* M7: castd is started, unless there is one already; without a port the
\* exception comes before that.
HandlePlay(dt) ==
  /\ Receives("request") /\ Head(toSource).of = "PLAY"
  /\ IF gst
     THEN /\ state' = "playing"
          /\ toSource' = Tail(toSource)
          /\ UNCHANGED <<proc, port, gst, castd, codec, answered, sinkState>>
          /\ AfterMessage(Append(toSink, "ok"), dt)
     ELSE IF port
     THEN /\ proc' = "spawned"
          /\ castd' = TRUE
          /\ toSource' = Tail(toSource)
          /\ toSink' = Append(toSink, "ok")
          /\ UNCHANGED <<state, port, gst, codec, answered, clocks, sinkState>>
     ELSE Finish /\ UNCHANGED state

\* The handle of castd is kept only when Popen has returned.
KeepHandle(dt) ==
  /\ proc = "spawned"
  /\ proc' = "run"
  /\ gst' = TRUE
  /\ state' = "playing"
  /\ UNCHANGED <<port, castd, codec, answered, toSource, sinkState>>
  /\ AfterMessage(toSink, dt)

\* M8 from the sink.
HandleTeardown ==
  /\ Receives("request") /\ Head(toSource).of = "TEARDOWN"
  /\ state' = "done"
  /\ Finish

HandleParam(dt) ==
  /\ Receives("request") /\ Head(toSource).of = "PARAM"
  /\ toSource' = Tail(toSource)
  /\ UNCHANGED <<procState, sinkState>>
  /\ AfterMessage(Append(toSink, "ok"), dt)

\* SIGTERM.  Before the connection is accepted nothing handles it; then the
\* handler tells the sink and waits 0.3 s, wherever run() stood.
Sigterm ==
  /\ "term" \in SinkFaults
  /\ proc \in {"accept", "run", "spawned"}
  /\ IF proc = "accept"
     THEN Finish /\ UNCHANGED state
     ELSE /\ proc' = "term"
          /\ toSink' = Append(toSink, "M8")
          /\ UNCHANGED <<state, port, gst, castd, codec, answered, toSource, clocks, sinkState>>

\* Mutant: the handler exits at once and leaves castd.
GracefulLeavesCast ==
  /\ proc = "term"
  /\ proc' = "gone"
  /\ toSink' = <<>> /\ toSource' = <<>> /\ silent' = 0 /\ sinceKa' = 0
  /\ UNCHANGED <<state, port, gst, castd, codec, answered, sinkState>>

Graceful == proc = "term" /\ Finish /\ UNCHANGED state

CastDies ==
  /\ castd /\ castd' = FALSE
  /\ UNCHANGED <<proc, state, port, gst, codec, answered, toSink, toSource, clocks, sinkState>>

Handles(dt) ==
  \/ Garbled(dt) \/ HandleReply(dt) \/ HandleOptions(dt) \/ HandleSetup(dt)
  \/ HandlePlay(dt) \/ KeepHandle(dt) \/ HandleParam(dt)

\* A message is waited for less than a timeout.
Process ==
  \/ NoSink \/ SinkClosed \/ Timeout \/ GivesUp \/ HandleTeardown \/ Graceful
  \/ \E dt \in {0, 1} : Handles(dt)

-------------------------------------------------------------------------------
(* The sink. *)

SinkReads ==
  /\ toSink # <<>> /\ ~closed /\ proc # "gone"
  /\ toSink' = Tail(toSink)
  /\ LET m == Head(toSink)
     IN IF m = "ok"
        THEN waiting' = FALSE /\ UNCHANGED <<heard, toSource>>
        ELSE /\ heard' = heard \cup {m}
             /\ \E good \in IF "errors" \in SinkFaults THEN BOOLEAN ELSE {TRUE} :
                  toSource' = Append(toSource, Reply(m, good))
             /\ UNCHANGED waiting
  /\ UNCHANGED <<procState, clocks, closed, said>>

\* A sink in order asks for M2 once it has answered M1, for SETUP once it
\* has answered M5, and plays once SETUP is answered.
InOrder(m) ==
  CASE m = "OPTIONS" -> "M1" \in heard
    [] m = "SETUP" -> "M5" \in heard
    [] m = "PLAY" -> "SETUP" \in said
    [] OTHER -> "PLAY" \in said

MayAsk(m) ==
  \/ InOrder(m)
  \/ "early" \in SinkFaults /\ m = "OPTIONS"
  \/ "rude" \in SinkFaults /\ m \notin {"OPTIONS", "PARAM"}

\* Each request is sent once; only a keepalive or an IDR request of a sink
\* that plays (PARAM) comes again and again.
SinkAsks(m) ==
  /\ proc \in {"run", "spawned"} /\ ~closed /\ ~waiting
  /\ m = "PARAM" \/ m \notin said
  /\ MayAsk(m)
  /\ waiting' = TRUE
  /\ said' = said \cup {m}
  /\ \E named \in IF m = "SETUP" THEN BOOLEAN ELSE {FALSE} :
       toSource' = Append(toSource, Request(m, named))
  /\ UNCHANGED <<procState, toSink, clocks, closed, heard>>

SinkCloses ==
  /\ proc \in {"run", "spawned"} /\ ~closed
  /\ closed' = TRUE
  /\ UNCHANGED <<procState, toSink, toSource, clocks, waiting, said, heard>>

Sink == SinkReads \/ (\E m \in Methods : SinkAsks(m)) \/ SinkCloses

Next == Accept \/ Process \/ BodyLate \/ Sigterm \/ CastDies \/ Sink

Spec == Init /\ [][Next]_wfdVars

\* The process runs and its clock does; the sink owes nothing.
FairSpec == Spec /\ WF_wfdVars(Process)

-------------------------------------------------------------------------------
(* Properties *)

\* The sink never waits out the timeout of 60 s it was told in SETUP, silent
\* or talkative (imira-wfd-proto.py:133-136, 147-153, 170-173).
KeepaliveInTime == proc = "run" /\ state = "playing" => sinceKa < SinkTimeout

\* M4 is built on the answer to M3 and M5 follows the answer to M4, although
\* replies are told apart by the state alone: for a sink that asks M2 in order.
AnswersMatch ==
  [][/\ (state' = "m4sent" /\ state # "m4sent" => answered' = "M3")
     /\ (state' = "m5sent" /\ state # "m5sent" => answered' = "M4")]_wfdVars

\* A handshake does not hang: it comes to play or the process ends, whatever
\* the sink leaves out (imira-wfd-proto.py:154-156) - unless the sink takes a
\* 200 for a PLAY that was lost as a start, and talks on.
HandshakeEnds ==
  (proc = "run") ~> (state = "playing" \/ proc = "gone" \/ "PARAM" \in said)

\* The life cycle the session service counts on.  A castd that is started
\* but not held yet does not count, unless the process ends without it.
Life == INSTANCE RtspLife WITH
  proto <- CASE proc = "gone" -> "none"
             [] proc = "term" -> (IF gst THEN "dying" ELSE "none")
             [] OTHER -> (IF gst THEN "playing" ELSE "listening"),
  cast <- castd /\ (gst \/ proc \in {"term", "gone"})

ImplementsLife == Life!Spec
================================================================================
