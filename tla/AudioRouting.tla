------------------------------ MODULE AudioRouting ------------------------------
(***************************************************************************)
(* How imira-castd takes the phone's playback streams to the TV and gives  *)
(* them back: AudioCapture::start(), the PulseAudio callbacks,             *)
(* maybeSilence() and stopImpl() of daemon/src/audiocapture.cpp.           *)
(*                                                                         *)
(* PulseAudio is external: it serves the requests of castd in order and    *)
(* tells answers and events in order; both queues are modelled.  castd's   *)
(* main thread waits for the answer to each step (waitStep) with the lock  *)
(* released, and the callbacks of the main loop run meanwhile.             *)
(***************************************************************************)
EXTENDS Naturals, FiniteSets, Sequences, SequencesExt

CONSTANTS
  Streams,    \* playback streams, each played once
  TvStreams,  \* those of a policy group that belongs on the TV
  Media,      \* sink.deep_buffer, the phone's media output
  Null,       \* sink.null, the default sink of the J2
  Extra,      \* outputs that come and go (a Bluetooth speaker)
  Silence,    \* the null sink imira_cast
  None,       \* no sink
  Routes,     \* audio routes the app may choose: auto, all, direct
  Env,        \* what others do: moves, kill, norecord
  MaxEnv,     \* bound: how often the world outside acts
  MaxStarts   \* bound: captures

Outputs == {Media, Null} \cup Extra

ASSUME StreamsAssumption ==
  TvStreams \subseteq Streams /\ IsFiniteSet(Streams) /\ None \notin Streams
ASSUME BoundsAssumption == MaxEnv \in Nat /\ MaxStarts \in Nat
ASSUME SinksAssumption ==
  /\ {Media, Null} \cap Extra = {} /\ Silence \notin Outputs /\ None \notin Outputs \cup {Silence}
  /\ {"new", "over"} \cap (Outputs \cup {Silence}) = {} /\ Routes \subseteq {"auto", "all", "direct"}

VARIABLES
  \* PulseAudio
  place,      \* of each stream: a sink, "new" (not started) or "over"
  up,         \* outputs that exist
  silence,    \* imira_cast is loaded
  subscribed, \* castd is sent events
  toPA,       \* requests not served yet
  fromPA,     \* answers and events castd has not seen yet
  \* AudioCapture::Impl
  pc,         \* off, the step that is waited for, or running
  mode,       \* Direct, Auto, All
  routing, sinks, origin, stepDone, foundSink,
  listening,  \* subscribeCb is set
  toMove,       \* streams stopImpl has not looked at yet
  \* the world outside
  coming,     \* extra outputs that were never there yet
  left,       \* what is left of MaxEnv
  starts,     \* captures begun
  \* history
  home,       \* where others put each stream last
  stray,      \* streams others moved while castd had to do with them, or
              \* taken from an output it had not been told of when it stopped
  late,       \* outputs that came or went between castd's list and its subscription
  killed      \* a castd was killed over the loaded sink

paVars == <<place, up, silence, subscribed, toPA, fromPA>>
implVars == <<pc, mode, routing, sinks, origin, stepDone, foundSink, listening, toMove>>
histVars == <<home, stray, late, killed>>
audioVars == <<paVars, implVars, coming, left, starts, histVars>>

Playing(s) == place[s] \notin {"new", "over"}
Starting == {"silence", "list", "subscribe", "sweep"}
Stopping == {"home", "unload"}
Request(op, s, k) == [op |-> op, stream |-> s, sink |-> k]
Event(what, s, k) == [what |-> what, stream |-> s, sink |-> k]

Places == Outputs \cup {Silence, "new", "over"}

Requests ==
  [op : {"load", "unload", "list", "subscribe", "inputs"}, stream : {None}, sink : {None}]
    \cup [op : {"input"}, stream : Streams, sink : {None}]
    \cup [op : {"sink"}, stream : {None}, sink : Outputs]
    \cup [op : {"take"}, stream : Streams, sink : {Silence}]
    \cup [op : {"home"}, stream : Streams, sink : Outputs]

Messages ==
  [what : {"change", "over"}, stream : Streams, sink : {None}]
    \cup [what : {"output", "gone", "sink"}, stream : {None}, sink : Outputs]
    \cup [what : {"input"}, stream : Streams, sink : Outputs \cup {Silence}]
    \cup [what : {"answer"}, found : BOOLEAN] \cup [what : {"sinks"}, all : SUBSET Outputs]
    \cup [what : {"inputs"}, at : [Streams -> Places]]

RouteTypeOK ==
  /\ place \in [Streams -> Places]
  /\ up \subseteq Outputs /\ coming \subseteq Extra
  /\ silence \in BOOLEAN /\ subscribed \in BOOLEAN /\ routing \in BOOLEAN /\ stepDone \in BOOLEAN
  /\ foundSink \in BOOLEAN /\ listening \in BOOLEAN /\ killed \in BOOLEAN
  /\ toPA \in Seq(Requests) /\ fromPA \in Seq(Messages)
  /\ pc \in {"off", "running"} \cup Starting \cup Stopping
  /\ mode \in {"auto", "all", "direct"} /\ sinks \subseteq Outputs
  /\ origin \in [Streams -> Outputs \cup {None}]
  /\ home \in [Streams -> Outputs \cup {None}]
  /\ toMove \subseteq Streams /\ stray \subseteq Streams
  /\ left \in 0..MaxEnv /\ starts \in 0..MaxStarts /\ late \subseteq Extra
  /\ subscribed => pc # "off"
  /\ routing => silence

\* castd has not started yet; streams may play, and an earlier castd may have
\* been killed over its silence sink
RouteInit ==
  /\ up \in {{Media, Null} \cup E : E \in SUBSET Extra} /\ coming = Extra \ up
  /\ silence \in BOOLEAN /\ killed = silence
  /\ place \in [Streams -> {"new", Media} \cup (IF silence THEN {Silence} ELSE {})]
  /\ subscribed = FALSE /\ toPA = <<>> /\ fromPA = <<>>
  /\ pc = "off" /\ mode = "auto" /\ routing = FALSE /\ sinks = {}
  /\ origin = [s \in Streams |-> None] /\ stepDone = FALSE /\ foundSink = FALSE
  /\ listening = FALSE /\ toMove = {} /\ left = MaxEnv /\ starts = 0
  /\ home = [s \in Streams |-> IF place[s] \in Outputs THEN place[s] ELSE None]
  /\ stray = {s \in Streams : place[s] = Silence} /\ late = {}

--------------------------------------------------------------------------------
(* PulseAudio *)

\* What it tells castd of the streams in S; events that come after castd has
\* taken its callback away are dropped, and it sets none again
Told == subscribed /\ listening
ToldOf(S, what) ==
  IF Told THEN SetToSeq({Event(what, s, None) : s \in S}) ELSE <<>>

Answer(found) == <<[what |-> "answer", found |-> found]>>

\* Unloading a sink hands its streams to the default sink
Dropped == [s \in Streams |-> IF place[s] = Silence THEN Null ELSE place[s]]

ServeLook(r) ==
  /\ r.op = "input"
  /\ fromPA' = IF Playing(r.stream)
               THEN Append(fromPA, Event("input", r.stream, place[r.stream])) ELSE fromPA
  /\ UNCHANGED <<place, silence, subscribed>>

ServeSink(r) ==
  /\ r.op = "sink"
  /\ fromPA' = IF r.sink \in up THEN Append(fromPA, Event("sink", None, r.sink)) ELSE fromPA
  /\ UNCHANGED <<place, silence, subscribed>>

\* A take (to Silence, nobody waits for the answer) or a move home
ServeMove(r) ==
  /\ r.op \in {"take", "home"}
  /\ LET possible == Playing(r.stream) /\ r.sink \in up \cup {Silence}
         moves == possible /\ place[r.stream] # r.sink
     IN /\ place' = IF moves THEN [place EXCEPT ![r.stream] = r.sink] ELSE place
        /\ fromPA' = fromPA \o (IF moves THEN ToldOf({r.stream}, "change") ELSE <<>>)
                            \o (IF r.op = "home" THEN Answer(possible) ELSE <<>>)
  /\ UNCHANGED <<silence, subscribed>>

\* load: the silence sink is found, or loaded and found, or cannot be had
ServeStep(r) ==
  \/ /\ r.op = "load" /\ silence' \in {TRUE, silence} /\ fromPA' = fromPA \o Answer(silence')
     /\ UNCHANGED <<place, subscribed>>
  \/ /\ r.op = "unload" /\ silence' = FALSE /\ place' = Dropped
     /\ fromPA' = fromPA \o ToldOf({s \in Streams : place[s] = Silence}, "change")
                         \o Answer(FALSE)
     /\ UNCHANGED subscribed
  \/ /\ r.op = "list" /\ fromPA' = Append(fromPA, [what |-> "sinks", all |-> up])
     /\ UNCHANGED <<place, silence, subscribed>>
  \/ /\ r.op = "subscribe" /\ subscribed' = TRUE /\ fromPA' = fromPA \o Answer(FALSE)
     /\ UNCHANGED <<place, silence>>
  \/ /\ r.op = "inputs" /\ fromPA' = Append(fromPA, [what |-> "inputs", at |-> place])
     /\ UNCHANGED <<place, silence, subscribed>>

Serve ==
  /\ toPA # <<>> /\ toPA' = Tail(toPA)
  /\ LET r == Head(toPA) IN ServeLook(r) \/ ServeSink(r) \/ ServeMove(r) \/ ServeStep(r)
  /\ killed' = (killed /\ silence')
  /\ UNCHANGED <<up, implVars, coming, left, starts, home, stray, late>>

--------------------------------------------------------------------------------
(* The callbacks, on the main loop's thread *)

\* maybeSilence(): streams that go to the cast
Takes(s, at) ==
  /\ routing /\ at # Silence
  /\ mode = "auto" => at \in sinks /\ at = Media /\ s \in TvStreams

\* Mutant: a stream an earlier castd left on the silence sink gets no home.
LeftoverForgotten(s, at) == FALSE

\* Where a stream that is on the cast already will be sent
Leftover(s, at) == routing /\ at = Silence /\ origin[s] = None /\ Media \in sinks

\* It looks at the streams in S, found at these places
MaybeSilence(S, at) ==
  LET taken == {s \in S : Takes(s, at[s])}
  IN /\ toPA' = toPA \o SetToSeq({Request("take", s, Silence) : s \in taken})
     /\ origin' = [s \in Streams |-> IF s \in taken THEN at[s]
                                     ELSE IF s \in S /\ Leftover(s, at[s]) THEN Media
                                     ELSE origin[s]]

\* subscribeCb()
SeesEvent(m) ==
  /\ m.what \in {"change", "over", "output", "gone"}
  /\ toPA' = IF ~listening THEN toPA
             ELSE CASE m.what = "change" -> Append(toPA, Request("input", m.stream, None))
                    [] m.what = "output" -> Append(toPA, Request("sink", None, m.sink))
                    [] OTHER -> toPA
  /\ origin' = IF listening /\ m.what = "over" THEN [origin EXCEPT ![m.stream] = None] ELSE origin
  /\ sinks' = IF listening /\ m.what = "gone" THEN sinks \ {m.sink} ELSE sinks
  /\ UNCHANGED <<stepDone, foundSink>>

\* sinkInputEventCb()
SeesInput(m) ==
  /\ m.what = "input" /\ MaybeSilence({m.stream}, [s \in {m.stream} |-> m.sink])
  /\ UNCHANGED <<sinks, stepDone, foundSink>>

\* sinkInputSweepCb()
SeesInputs(m) ==
  /\ m.what = "inputs" /\ stepDone' = TRUE
  /\ MaybeSilence({s \in Streams : m.at[s] \notin {"new", "over"}}, m.at)
  /\ UNCHANGED <<sinks, foundSink>>

\* sinkEventCb(), listSinksCb()
SeesSinks(m) ==
  /\ m.what \in {"sink", "sinks"}
  /\ sinks' = sinks \cup (IF m.what = "sink" THEN {m.sink} ELSE m.all)
  /\ stepDone' = (stepDone \/ m.what = "sinks")
  /\ UNCHANGED <<toPA, origin, foundSink>>

\* findSinkCb(), loadModuleCb(), successStepCb()
SeesAnswer(m) ==
  /\ m.what = "answer" /\ stepDone' = TRUE /\ foundSink' = m.found
  /\ UNCHANGED <<toPA, origin, sinks>>

Dispatch ==
  /\ fromPA # <<>> /\ fromPA' = Tail(fromPA)
  /\ LET m == Head(fromPA)
     IN SeesEvent(m) \/ SeesInput(m) \/ SeesInputs(m) \/ SeesSinks(m) \/ SeesAnswer(m)
  /\ UNCHANGED <<place, up, silence, subscribed, pc, mode, routing, listening, toMove,
                 coming, left, starts, home, stray, late, killed>>

--------------------------------------------------------------------------------
(* castd's main thread *)

\* A request whose answer the thread waits for at pc = next
Step(op, s, k, next) ==
  /\ toPA' = Append(toPA, Request(op, s, k)) /\ stepDone' = FALSE /\ foundSink' = FALSE
  /\ pc' = next

\* waitStep() returns
Waited(at) == pc = at /\ stepDone

\* The silence sink: found or loaded; a direct capture clears a leftover one
Start(m) ==
  /\ pc = "off" /\ starts < MaxStarts /\ starts' = starts + 1 /\ mode' = m
  /\ Step(IF m = "direct" THEN "unload" ELSE "load", None, None, "silence")
  /\ UNCHANGED <<place, up, silence, subscribed, fromPA, routing, sinks, origin, listening,
                 toMove, coming, left, histVars>>

ListSinks ==
  /\ Waited("silence") /\ routing' = foundSink /\ Step("list", None, None, "list")
  /\ UNCHANGED <<place, up, silence, subscribed, fromPA, mode, sinks, origin, listening,
                 toMove, coming, left, starts, histVars>>

Subscribe ==
  /\ Waited("list") /\ listening' = TRUE /\ Step("subscribe", None, None, "subscribe")
  /\ UNCHANGED <<place, up, silence, subscribed, fromPA, mode, routing, sinks, origin,
                 toMove, coming, left, starts, histVars>>

Sweep ==
  /\ Waited("subscribe") /\ Step("inputs", None, None, "sweep")
  /\ UNCHANGED <<place, up, silence, subscribed, fromPA, mode, routing, sinks, origin,
                 listening, toMove, coming, left, starts, histVars>>

Record ==
  /\ Waited("sweep") /\ pc' = "running"
  /\ UNCHANGED <<paVars, mode, routing, sinks, origin, stepDone, foundSink, listening, toMove,
                 coming, left, starts, histVars>>

\* A new one
NewImpl ==
  /\ routing' = FALSE /\ sinks' = {} /\ origin' = [s \in Streams |-> None]
  /\ foundSink' = FALSE /\ listening' = FALSE /\ toMove' = {}

\* pa_context_disconnect(), delete im: what is still queued is dropped
Disconnect ==
  /\ pc' = "off" /\ subscribed' = FALSE /\ toPA' = <<>> /\ fromPA' = <<>>
  /\ mode' = "auto" /\ stepDone' = FALSE /\ NewImpl

\* Mutant: routing stays on while the streams are moved home.
StopImplRouting ==
  /\ pc = "running" \/ (Waited("sweep") /\ "norecord" \in Env)
  /\ \/ ~routing /\ Disconnect /\ UNCHANGED stray
     \/ /\ routing /\ listening' = FALSE /\ pc' = "home" /\ stepDone' = TRUE
        /\ toMove' = {s \in Streams : origin[s] # None}
        /\ stray' = stray \cup {s \in Streams : origin[s] \in Outputs \ sinks}
        /\ UNCHANGED <<subscribed, toPA, fromPA, mode, routing, sinks, origin, foundSink>>
  /\ UNCHANGED <<place, up, silence, coming, left, starts, home, late, killed>>

\* stopImpl(): for SIGTERM, a new route, or a record stream that did not come
StopImpl ==
  /\ pc = "running" \/ (Waited("sweep") /\ "norecord" \in Env)
  /\ \/ ~routing /\ Disconnect /\ UNCHANGED stray
     \/ /\ routing /\ routing' = FALSE /\ listening' = FALSE /\ pc' = "home" /\ stepDone' = TRUE
        /\ toMove' = {s \in Streams : origin[s] # None}
        /\ stray' = stray \cup {s \in Streams : origin[s] \in Outputs \ sinks}
        /\ UNCHANGED <<subscribed, toPA, fromPA, mode, sinks, origin, foundSink>>
  /\ UNCHANGED <<place, up, silence, coming, left, starts, home, late, killed>>

\* Mutant: nobody is told of the answer to a move home.
BringHomeUnanswered(s) ==
  /\ Waited("home") /\ s \in toMove /\ toMove' = toMove \ {s}
  /\ IF origin[s] \in sinks
     THEN Step("take", s, origin[s], "home")
     ELSE UNCHANGED <<toPA, stepDone, foundSink, pc>>
  /\ UNCHANGED <<place, up, silence, subscribed, fromPA, mode, routing, sinks, origin,
                 listening, coming, left, starts, histVars>>

\* The next of the streams that were taken; its output may be gone
BringHome(s) ==
  /\ Waited("home") /\ s \in toMove /\ toMove' = toMove \ {s}
  /\ IF origin[s] \in sinks
     THEN Step("home", s, origin[s], "home")
     ELSE UNCHANGED <<toPA, stepDone, foundSink, pc>>
  /\ UNCHANGED <<place, up, silence, subscribed, fromPA, mode, routing, sinks, origin,
                 listening, coming, left, starts, histVars>>

Unload ==
  /\ Waited("home") /\ toMove = {} /\ Step("unload", None, None, "unload")
  /\ UNCHANGED <<place, up, silence, subscribed, fromPA, mode, routing, sinks, origin,
                 listening, toMove, coming, left, starts, histVars>>

StopDone ==
  /\ Waited("unload") /\ Disconnect
  /\ UNCHANGED <<place, up, silence, coming, left, starts, home, stray, late, killed>>

Main ==
  \/ ListSinks \/ Subscribe \/ Sweep \/ Record \/ Unload \/ StopDone
  \/ \E s \in Streams : BringHome(s)

--------------------------------------------------------------------------------
(* The world outside *)

\* castd asks, is told, or keeps something about s
Involved(s) ==
  \/ pc # "off" /\ origin[s] # None
  \/ \E i \in DOMAIN toPA : toPA[i].op = "inputs" \/ toPA[i].stream = s
  \/ \E i \in DOMAIN fromPA :
       \/ fromPA[i].what = "inputs"
       \/ fromPA[i].what \in {"change", "input"} /\ fromPA[i].stream = s

\* While no capture runs, any change is one to another initial state
Acts ==
  /\ pc # "off" /\ left > 0 /\ left' = left - 1 /\ UNCHANGED <<implVars, toPA, starts>>

StreamStarts(s, k) ==
  /\ Acts /\ place[s] = "new" /\ k \in up
  /\ place' = [place EXCEPT ![s] = k] /\ home' = [home EXCEPT ![s] = k]
  /\ fromPA' = fromPA \o ToldOf({s}, "change")
  /\ UNCHANGED <<up, silence, subscribed, coming, stray, late, killed>>

StreamEnds(s) ==
  /\ Acts /\ Playing(s)
  /\ place' = [place EXCEPT ![s] = "over"]
  /\ fromPA' = fromPA \o ToldOf({s}, "over")
  /\ UNCHANGED <<up, silence, subscribed, coming, home, stray, late, killed>>

\* The user or the phone's routing policy moves a stream
StreamMoved(s, k) ==
  /\ Acts /\ "moves" \in Env /\ Playing(s) /\ k \in up \ {place[s]}
  /\ place' = [place EXCEPT ![s] = k] /\ home' = [home EXCEPT ![s] = k]
  /\ fromPA' = fromPA \o ToldOf({s}, "change")
  /\ stray' = IF Involved(s) THEN stray \cup {s} ELSE stray
  /\ UNCHANGED <<up, silence, subscribed, coming, late, killed>>

\* An output that changes after castd has asked for the list of them
Unnoticed(k) == late' = IF pc \in {"list", "subscribe"} /\ ~subscribed THEN late \cup {k} ELSE late

SinkComes(k) ==
  /\ Acts /\ k \in coming /\ coming' = coming \ {k} /\ up' = up \cup {k}
  /\ fromPA' = IF Told THEN Append(fromPA, Event("output", None, k)) ELSE fromPA
  /\ Unnoticed(k) /\ UNCHANGED <<place, silence, subscribed, home, stray, killed>>

SinkGoes(k) ==
  /\ Acts /\ k \in up \cap Extra /\ up' = up \ {k}
  /\ LET there == {s \in Streams : place[s] = k}
     IN /\ place' = [s \in Streams |-> IF s \in there THEN Null ELSE place[s]]
        /\ home' = [s \in Streams |-> IF s \in there THEN Null ELSE home[s]]
        /\ stray' = stray \cup {s \in there : Involved(s)}
        /\ fromPA' = fromPA \o ToldOf(there, "change")
                            \o (IF Told THEN <<Event("gone", None, k)>> ELSE <<>>)
  /\ Unnoticed(k) /\ UNCHANGED <<silence, subscribed, coming, killed>>

\* kill -9, or alarm(2) during the stop
Kill ==
  /\ "kill" \in Env /\ pc # "off"
  /\ Disconnect /\ killed' = silence
  /\ stray' = stray \cup {s \in Streams : place[s] = Silence}
  /\ UNCHANGED <<place, up, silence, coming, left, starts, home, late>>

\* imira-session.sh after a session
SessionCleanup ==
  /\ pc = "off" /\ silence /\ silence' = FALSE /\ killed' = FALSE
  /\ place' = [s \in Streams |-> IF place[s] = Silence THEN Media ELSE place[s]]
  /\ UNCHANGED <<up, subscribed, toPA, fromPA, implVars, coming, left, starts, home, stray,
                 late>>

World ==
  \/ \E s \in Streams : StreamEnds(s) \/ \E k \in Outputs : StreamStarts(s, k) \/ StreamMoved(s, k)
  \/ \E k \in Extra : SinkComes(k) \/ SinkGoes(k)

RouteNext ==
  \/ Serve \/ Dispatch \/ Main \/ StopImpl \/ World \/ Kill \/ SessionCleanup
  \/ \E m \in Routes : Start(m)

RouteSpec == RouteInit /\ [][RouteNext]_audioVars

--------------------------------------------------------------------------------
(* Properties *)

\* Once castd has seen everything, no stream that belongs on the TV is left
\* on an output, every stream on the cast has somewhere to go back to, and
\* castd knows the outputs there are:
\* none slips through between the subscription, the sweep and the events
\* (audiocapture.cpp 790-807, subscribeCb, maybeSilence).
NothingMissed ==
  pc = "running" /\ routing /\ toPA = <<>> /\ fromPA = <<>> =>
    /\ \A s \in Streams : Playing(s) =>
         IF place[s] = Silence THEN origin[s] # None ELSE ~Takes(s, place[s])
    /\ sinks \ late = up \ late

\* After a capture the silence sink is gone, unless castd was killed, and
\* every stream is where others put it last, as long as that output is
\* there; streams others moved while castd had a look at them or after it
\* had taken them, and those from an output it did not know yet, are only
\* promised a real output (stopImpl).
ReturnsHome ==
  pc = "off" =>
    IF silence THEN killed
    ELSE \A s \in Streams \ stray :
           Playing(s) => place[s] = home[s] \/ home[s] \notin up

\* While the main thread waits there is exactly one answer under way that
\* wakes it, and at other times none: no wait lasts for ever, and none is
\* ended by the answer to an earlier step, although all share one flag
\* (waitStep, stepDone; the callbacks of 255-328).
StepRequests == {i \in DOMAIN toPA : toPA[i].op \notin {"input", "sink", "take"}}
StepAnswers == {i \in DOMAIN fromPA : fromPA[i].what \in {"answer", "sinks", "inputs"}}
OwnAnswer ==
  Cardinality(StepRequests) + Cardinality(StepAnswers)
    = IF pc \in Starting \cup Stopping /\ ~stepDone THEN 1 ELSE 0
================================================================================
