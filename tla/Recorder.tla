-------------------------------- MODULE Recorder --------------------------------
(***************************************************************************)
(* The screen recorder of imira-castd (daemon/src/recorder.cpp) and the    *)
(* threads that use it: the event loop, which dispatches what the          *)
(* compositor of the phone sends and runs the frame callback, the clock    *)
(* thread, which asks for repaints, and the main thread, which starts and  *)
(* stops both (daemon/src/main.cpp).                                       *)
(*                                                                         *)
(* The compositor is external and does what lipstick-recorder.xml says: it *)
(* holds one buffer at most, fills it with the next picture it draws, and  *)
(* may announce other frame sizes at any time.  Requests and events are    *)
(* served in order.  A buffer is named by the size it was made for and its *)
(* place in the ring; each setup event announces a size of its own.        *)
(***************************************************************************)
EXTENDS Integers, Sequences, FiniteSets

CONSTANTS
  RingSize,   \* kBufferCount
  MaxSetups,  \* bound: setup events, the first included
  Faults      \* what may go wrong: "resize", "refuse", "lost", "shm"

ASSUME RingAssumption == RingSize \in Nat \ {0} /\ MaxSetups \in Nat \ {0}

VARIABLES
  main,       \* main thread: start, sync, run, join, stop, wake, wait, done;
              \* exit: it could not start; dead: killed or crashed
  loop,       \* who dispatches (main in sync, then the event loop): poll,
              \* dispatch, callback, gone
  clk,        \* clock thread: nap, ask, gone
  quit,       \* g_running is false
  late,       \* no frame arrived for a period
  running,    \* m_running
  failed,     \* m_failed
  setupDone,  \* m_setupDone
  up,         \* m_display and m_recorder are there
  geom,       \* m_width, m_height, m_stride
  ring,       \* m_buffers
  busy,       \* those of them that are busy
  cur,        \* buffer of the callback
  woken,      \* a byte in the wakeup pipe
  toComp,     \* requests under way
  fromComp,   \* events under way
  queue,      \* events read and not dispatched
  shape,      \* compositor: the size it announced last, 0 before the first
  pending,    \* compositor: the buffer it will fill next, or NoBuffer
  asked,      \* compositor: it will repaint
  lost        \* the compositor has gone

mainVars == <<main, quit, woken>>
clkVars == <<clk, late>>
recVars == <<running, failed, setupDone, up, geom, ring, busy, cur>>
compVars == <<shape, pending, asked, lost>>
chanVars == <<toComp, fromComp, queue>>
vars == <<main, loop, clk, quit, late, running, failed, setupDone, up, geom, ring,
          busy, cur, woken, toComp, fromComp, queue, shape, pending, asked, lost>>

Shapes == 1..MaxSetups
Buffers == Shapes \X (1..RingSize)
NoBuffer == <<0, 0>>

\* Requests and events; a field that does not matter is NoBuffer or {}
Request(op, b, old) == [op |-> op, buf |-> b, old |-> old]
Event(ev, b, g) == [ev |-> ev, buf |-> b, geom |-> g]
Requests == [op : {"create", "sync", "record", "destroy", "repaint"},
             buf : Buffers \cup {NoBuffer}, old : SUBSET Buffers]
Events == [ev : {"setup", "synced", "frame", "failed", "cancelled"},
           buf : Buffers \cup {NoBuffer}, geom : 0..MaxSetups]

Alive == main \notin {"start", "exit", "done", "dead"}

TypeOK ==
  /\ main \in {"start", "sync", "run", "join", "stop", "wake", "wait", "done", "exit", "dead"}
  /\ loop \in {"poll", "dispatch", "callback", "gone"}
  /\ clk \in {"nap", "ask", "gone"}
  /\ {quit, late, running, failed, setupDone, up, woken, asked, lost} \subseteq BOOLEAN
  /\ geom \in 0..MaxSetups /\ shape \in 0..MaxSetups
  /\ ring \subseteq Buffers /\ busy \subseteq ring
  /\ cur \in Buffers \cup {NoBuffer} /\ pending \in Buffers \cup {NoBuffer}
  /\ toComp \in Seq(Requests) /\ fromComp \in Seq(Events) /\ queue \in Seq(Events)

Init ==
  /\ main = "start" /\ loop = "gone" /\ clk = "gone" /\ cur = NoBuffer
  /\ quit = FALSE /\ late = TRUE /\ woken = FALSE
  /\ running = FALSE /\ failed = FALSE /\ setupDone = FALSE /\ up = FALSE
  /\ geom = 0 /\ ring = {} /\ busy = {}
  /\ toComp = <<>> /\ fromComp = <<>> /\ queue = <<>>
  /\ shape = 0 /\ pending = NoBuffer /\ asked = FALSE /\ lost = FALSE

--------------------------------------------------------------------------------
(* Buffers *)

\* The lowest free buffer
FirstFree(free) == CHOOSE b \in free : \A c \in free : b[1] < c[1] \/ (b[1] = c[1] /\ b[2] <= c[2])

\* recordFrame: with buffers rg, of which bs are busy, after the requests out
RecordFrame(rg, bs, out) ==
  IF rg = bs THEN busy' = bs /\ toComp' = out
  ELSE LET b == FirstFree(rg \ bs)
       IN busy' = bs \cup {b} /\ toComp' = Append(out, Request("record", b, {}))

\* createBuffers: all of them, or the first few
CreateBuffers(g) ==
  {{g} \X (1..n) : n \in IF "shm" \in Faults THEN 0..RingSize ELSE {RingSize}}

\* teardown: everything goes, the connection last
Teardown ==
  /\ ring' = {} /\ busy' = {} /\ cur' = NoBuffer
  /\ up' = FALSE /\ setupDone' = FALSE
  /\ toComp' = <<>> /\ fromComp' = <<>> /\ queue' = <<>>
  /\ UNCHANGED <<geom, failed, compVars>>

--------------------------------------------------------------------------------
(* Events of the compositor, on the thread that dispatches *)

\* Mutant: a repeated setup keeps the buffers it finds.
SetupKeepsRing(e) ==
  /\ geom' = e.geom /\ setupDone' = TRUE
  /\ ring' = IF ring = {} THEN {e.geom} \X (1..RingSize) ELSE ring
  /\ RecordFrame(ring', busy, toComp)
  /\ loop' = "dispatch" /\ UNCHANGED <<main, cur, late, failed, running>>

HandleSetup(e) ==
  /\ geom' = e.geom /\ setupDone' = TRUE
  /\ \E made \in CreateBuffers(e.geom) :
       /\ ring' = made
       /\ RecordFrame(made, {}, IF ring = {} THEN toComp
                                ELSE Append(toComp, Request("destroy", NoBuffer, ring)))
       /\ IF Cardinality(made) < RingSize
          THEN failed' = TRUE /\ running' = FALSE
          ELSE UNCHANGED <<failed, running>>
  /\ loop' = "dispatch" /\ UNCHANGED <<main, cur, late>>

\* The buffer an event names is gone: libwayland hands over a null pointer
Crash ==
  /\ main' = "dead"
  /\ UNCHANGED <<loop, cur, late, geom, setupDone, ring, busy, toComp, failed, running>>

\* Mutant: the buffer is given back before the next capture is queued.
FrameFreesFirst(e) ==
  /\ running /\ e.buf \in ring
  /\ RecordFrame(ring, busy \ {e.buf}, toComp)
  /\ loop' = "callback" /\ cur' = e.buf /\ late' = FALSE
  /\ UNCHANGED <<main, geom, setupDone, ring, failed, running>>

\* The next capture is queued first, then the callback runs
HandleFrame(e) ==
  IF ~running
  THEN /\ loop' = "dispatch"
       /\ UNCHANGED <<main, cur, late, geom, setupDone, ring, busy, toComp, failed, running>>
  ELSE IF e.buf \notin ring THEN Crash
  ELSE /\ RecordFrame(ring, busy, toComp)
       /\ loop' = "callback" /\ cur' = e.buf /\ late' = FALSE
       /\ UNCHANGED <<main, geom, setupDone, ring, failed, running>>

HandleFailed ==
  /\ failed' = TRUE /\ running' = FALSE /\ loop' = "dispatch"
  /\ UNCHANGED <<main, cur, late, geom, setupDone, ring, busy, toComp>>

HandleCancelled(e) ==
  IF e.buf \notin ring THEN Crash
  ELSE /\ busy' = busy \ {e.buf} /\ loop' = "dispatch"
       /\ UNCHANGED <<main, cur, late, geom, setupDone, ring, toComp, failed, running>>

\* wl_display_dispatch_pending, one event
Dispatch ==
  /\ Alive /\ loop = "dispatch" /\ queue # <<>>
  /\ LET e == Head(queue)
     IN \/ e.ev = "setup" /\ HandleSetup(e)
        \/ e.ev = "frame" /\ HandleFrame(e)
        \/ e.ev = "failed" /\ HandleFailed
        \/ e.ev = "cancelled" /\ HandleCancelled(e)
        \/ /\ e.ev = "synced" /\ loop' = "dispatch"
           /\ UNCHANGED <<main, cur, late, geom, setupDone, ring, busy, toComp, failed, running>>
  /\ queue' = Tail(queue)
  /\ UNCHANGED <<clk, quit, woken, up, fromComp, compVars>>

\* Mutant: the buffer stays busy.
CallbackKeeps ==
  /\ Alive /\ loop = "callback" /\ loop' = "dispatch" /\ cur' = NoBuffer
  /\ UNCHANGED <<mainVars, clkVars, running, failed, setupDone, up, geom, ring, busy,
                 chanVars, compVars>>

\* The callback returns, and with it the buffer
CallbackReturns ==
  /\ Alive /\ loop = "callback" /\ loop' = "dispatch"
  /\ busy' = busy \ {cur} /\ cur' = NoBuffer
  /\ UNCHANGED <<mainVars, clkVars, running, failed, setupDone, up, geom, ring,
                 chanVars, compVars>>

--------------------------------------------------------------------------------
(* The event loop *)

ReadEvents ==
  /\ Alive /\ loop = "poll" /\ fromComp # <<>>
  /\ queue' = fromComp /\ fromComp' = <<>> /\ loop' = "dispatch"
  /\ UNCHANGED <<mainVars, clkVars, recVars, toComp, compVars>>

\* All dispatched: the next turn, if it is still to run
LoopTurns ==
  /\ Alive /\ main # "sync" /\ loop = "dispatch" /\ queue = <<>>
  /\ loop' = IF running THEN "poll" ELSE "gone"
  /\ UNCHANGED <<mainVars, clkVars, recVars, chanVars, compVars>>

\* stop() has written to the pipe
LoopWoken ==
  /\ Alive /\ main # "sync" /\ loop = "poll" /\ woken
  /\ loop' = "gone" /\ woken' = FALSE
  /\ UNCHANGED <<main, quit, clkVars, recVars, chanVars, compVars>>

\* The connection breaks, all events read
LoopLost ==
  /\ Alive /\ main # "sync" /\ loop = "poll" /\ lost /\ fromComp = <<>>
  /\ loop' = "gone" /\ running' = FALSE
  /\ UNCHANGED <<mainVars, clkVars, failed, setupDone, up, geom, ring, busy, cur,
                 chanVars, compVars>>

--------------------------------------------------------------------------------
(* The main thread *)

\* start(): no display, or no lipstick on it
StartFails ==
  /\ main = "start" /\ main' = "exit"
  /\ UNCHANGED <<loop, quit, woken, clkVars, recVars, chanVars, compVars>>

\* The recorder is created; the second roundtrip dispatches its first events
Connect ==
  /\ main = "start" /\ main' = "sync" /\ loop' = "poll" /\ up' = TRUE /\ running' = TRUE
  /\ toComp' = <<Request("create", NoBuffer, {}), Request("sync", NoBuffer, {})>>
  /\ UNCHANGED <<quit, woken, clkVars, failed, setupDone, geom, ring, busy, cur,
                 fromComp, queue, compVars>>

\* Dispatched without the answer to the roundtrip: it reads on
SyncTurns ==
  /\ main = "sync" /\ loop = "dispatch" /\ queue = <<>> /\ ~lost
  /\ (\E i \in DOMAIN toComp : toComp[i].op = "sync")
       \/ (\E i \in DOMAIN fromComp : fromComp[i].ev = "synced")
  /\ loop' = "poll"
  /\ UNCHANGED <<mainVars, clkVars, recVars, chanVars, compVars>>

\* The roundtrip is over: no setup event or a failure ends it, else the
\* threads start
Synced ==
  /\ main = "sync" /\ queue = <<>>
  /\ \/ loop = "dispatch" /\ (\A i \in DOMAIN toComp : toComp[i].op # "sync")
        /\ (\A i \in DOMAIN fromComp : fromComp[i].ev # "synced")
     \/ loop \in {"poll", "dispatch"} /\ lost /\ fromComp = <<>>
  /\ IF ~setupDone \/ failed
     THEN main' = "exit" /\ loop' = "gone" /\ running' = FALSE /\ Teardown /\ UNCHANGED clk
     ELSE /\ main' = "run" /\ loop' = IF running THEN "poll" ELSE "gone"
          /\ clk' = "nap" /\ UNCHANGED <<recVars, chanVars, compVars>>
  /\ UNCHANGED <<quit, woken, late>>

\* onSignal: SIGTERM or SIGINT
Signal ==
  /\ Alive /\ ~quit /\ quit' = TRUE
  /\ UNCHANGED <<main, loop, woken, clkVars, recVars, chanVars, compVars>>

\* A second signal, or the alarm 2 s after the first
Killed ==
  /\ Alive /\ quit /\ main' = "dead"
  /\ UNCHANGED <<loop, quit, woken, clkVars, recVars, chanVars, compVars>>

\* The main loop ends; sound goes first
MainLoopEnds ==
  /\ main = "run" /\ quit /\ main' = "join"
  /\ UNCHANGED <<loop, quit, woken, clkVars, recVars, chanVars, compVars>>

JoinClock ==
  /\ main = "join" /\ clk = "gone" /\ main' = "stop"
  /\ UNCHANGED <<loop, quit, woken, clkVars, recVars, chanVars, compVars>>

\* stop(): the flag, the pipe, the thread, the rest
StopFlag ==
  /\ main = "stop" /\ main' = "wake" /\ running' = FALSE
  /\ UNCHANGED <<loop, quit, woken, clkVars, failed, setupDone, up, geom, ring, busy,
                 cur, chanVars, compVars>>

\* Mutant: the flag is thought to be enough.
StopForgetsPipe ==
  /\ main = "wake" /\ main' = "wait"
  /\ UNCHANGED <<loop, quit, woken, clkVars, recVars, chanVars, compVars>>

StopWake ==
  /\ main = "wake" /\ main' = "wait" /\ woken' = TRUE
  /\ UNCHANGED <<loop, quit, clkVars, recVars, chanVars, compVars>>

StopJoined ==
  /\ main = "wait" /\ loop = "gone" /\ main' = "done" /\ Teardown
  /\ UNCHANGED <<loop, quit, woken, clkVars, running>>

--------------------------------------------------------------------------------
(* The clock thread *)

\* No frame for a period
Elapses ==
  /\ Alive /\ main # "sync" /\ ~late /\ late' = TRUE
  /\ UNCHANGED <<mainVars, loop, clk, recVars, chanVars, compVars>>

\* Head of its loop, and the test in requestRepaint
ClockLooks ==
  /\ Alive /\ clk = "nap"
  /\ clk' = IF quit THEN "gone" ELSE IF late /\ running THEN "ask" ELSE "nap"
  /\ UNCHANGED <<mainVars, loop, late, recVars, chanVars, compVars>>

\* The request goes out; one that is still on its way is enough
ClockAsks ==
  /\ Alive /\ clk = "ask" /\ clk' = "nap"
  /\ toComp' = IF \E i \in DOMAIN toComp : toComp[i].op = "repaint" THEN toComp
               ELSE Append(toComp, Request("repaint", NoBuffer, {}))
  /\ UNCHANGED <<mainVars, loop, late, recVars, fromComp, queue, compVars>>

--------------------------------------------------------------------------------
(* The compositor *)

Tell(e) == fromComp' = Append(fromComp, e)

\* record_frame: a buffer of another size may be too small for the picture
ServeRecord(b) ==
  \/ /\ (b[1] # shape \/ "refuse" \in Faults)
     /\ Tell(Event("failed", b, 0)) /\ UNCHANGED <<shape, pending, asked>>
  \/ /\ pending' = b /\ UNCHANGED <<shape, asked>>
     /\ IF pending = NoBuffer THEN UNCHANGED fromComp
        ELSE Tell(Event("cancelled", pending, 0))

ServeRequest ==
  /\ Alive /\ ~lost /\ toComp # <<>>
  /\ LET r == Head(toComp)
     IN \/ r.op = "create" /\ shape' = 1 /\ Tell(Event("setup", NoBuffer, 1))
           /\ UNCHANGED <<pending, asked>>
        \/ r.op = "sync" /\ Tell(Event("synced", NoBuffer, 0)) /\ UNCHANGED <<shape, pending, asked>>
        \/ r.op = "record" /\ ServeRecord(r.buf)
        \/ /\ r.op = "destroy" /\ UNCHANGED <<shape, fromComp, asked>>
           /\ pending' = IF pending \in r.old THEN NoBuffer ELSE pending
        \/ /\ r.op = "repaint" /\ UNCHANGED <<shape, pending, fromComp>>
           /\ asked' = (asked \/ pending # NoBuffer)
  /\ toComp' = Tail(toComp)
  /\ UNCHANGED <<mainVars, loop, clkVars, recVars, queue, lost>>

\* The next picture, for whatever reason
Draw ==
  /\ Alive /\ ~lost /\ pending # NoBuffer
  /\ Tell(Event("frame", pending, 0)) /\ pending' = NoBuffer /\ asked' = FALSE
  /\ UNCHANGED <<mainVars, loop, clkVars, recVars, toComp, queue, shape, lost>>

\* The screen changes its size: another setup, and what is pending is cancelled
Resize ==
  /\ "resize" \in Faults /\ Alive /\ ~lost /\ shape \in 1..MaxSetups - 1
  /\ shape' = shape + 1 /\ pending' = NoBuffer /\ asked' = FALSE
  /\ LET setup == Event("setup", NoBuffer, shape + 1)
         gone == Event("cancelled", pending, 0)
     IN IF pending = NoBuffer THEN Tell(setup)
        ELSE fromComp' \in {fromComp \o <<gone, setup>>, fromComp \o <<setup, gone>>,
                            Append(fromComp, setup)}
  /\ UNCHANGED <<mainVars, loop, clkVars, recVars, toComp, queue, lost>>

\* It ends or is restarted
CompositorGoes ==
  /\ "lost" \in Faults /\ Alive /\ ~lost /\ lost' = TRUE
  /\ UNCHANGED <<mainVars, loop, clkVars, recVars, chanVars, shape, pending, asked>>

--------------------------------------------------------------------------------
Compositor == ServeRequest \/ Draw \/ Resize \/ CompositorGoes
EventLoop == Dispatch \/ CallbackReturns \/ ReadEvents \/ LoopTurns \/ LoopWoken \/ LoopLost
Main == \/ StartFails \/ Connect \/ SyncTurns \/ Synced \/ Signal \/ Killed
        \/ MainLoopEnds \/ JoinClock \/ StopFlag \/ StopWake \/ StopJoined
Clock == Elapses \/ ClockLooks \/ ClockAsks

Next == Compositor \/ EventLoop \/ Main \/ Clock
Spec == Init /\ [][Next]_vars

\* The threads run, the callback returns, time passes, and a compositor serves
\* requests and draws when it is asked to.  Signals, the alarm and what
\* happens on the screen owe nothing.
Fairness ==
  /\ WF_vars(EventLoop) /\ WF_vars(ClockLooks) /\ WF_vars(ClockAsks) /\ WF_vars(Elapses)
  /\ WF_vars(SyncTurns \/ Synced \/ MainLoopEnds \/ JoinClock \/ StopFlag \/ StopWake \/ StopJoined)
  /\ WF_vars(ServeRequest) /\ WF_vars(Draw /\ asked)

FairSpec == Spec /\ Fairness

--------------------------------------------------------------------------------
(* Properties *)

\* Where a buffer is: with the compositor, on its way to it or back, or with
\* the callback
Places(b) ==
  Cardinality({i \in DOMAIN toComp : toComp[i].op = "record" /\ toComp[i].buf = b})
  + Cardinality({i \in DOMAIN fromComp : fromComp[i].buf = b})
  + Cardinality({i \in DOMAIN queue : queue[i].buf = b})
  + (IF pending = b THEN 1 ELSE 0) + (IF cur = b THEN 1 ELSE 0)

\* No buffer is in two places, so the compositor never draws into the one the
\* callback reads; and one that is anywhere is not handed out again
\* (recorder.cpp 176-195, 207-213, 248-265).
OneOwner == \A b \in ring : Places(b) <= (IF b \in busy THEN 1 ELSE 0)

\* What a thread uses is there: the connection outlives both threads that
\* send on it, and what the callback reads is mapped and of the size it is
\* told (recorder.cpp 156-174, 241-246, 335-357, main.cpp 614-625).
InUseIsThere ==
  /\ clk = "ask" \/ loop # "gone" => up
  /\ loop = "callback" => cur \in ring /\ cur[1] = geom

\* While a capture goes on another frame comes, if the screen never changes:
\* some buffer is always with the compositor when a repaint is asked for
\* (main.cpp 524-531, 549-550).
FrameComes ==
  (main = "run" /\ running /\ ~quit)
    ~> (loop = "callback" \/ ~running \/ quit \/ main = "dead")

\* A signal ends castd without the alarm, if the callback returns: no wakeup
\* of the event loop is lost (recorder.cpp 335-347, 398-403).
StopReturns == (main = "join") ~> (main \in {"done", "dead"})
================================================================================
