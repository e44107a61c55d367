# harbour-imira: a TLA+ verification project

harbour-imira casts the screen of a Sailfish OS phone (or a second, virtual
desktop) to a TV over Wi-Fi Display. The program is an app, a root service made
of shell scripts and a Python process, and two C++ daemons; they meet in flag
files, pid files, kernel state, two RTSP channels, PulseAudio and a piece of
shared memory. Each part is short. What is hard is what happens between them, and
that is what the models are about.

## 1. Inventory

| Part | Source | State it keeps | Operations | Talks to |
|---|---|---|---|---|
| App controller | `src/castcontroller.cpp`, `qml/` | the last polled status, settings files | start, stop, scan, report, debug log, open, close, poll every 2 s | service: flag files in `/tmp`, heartbeat file, systemd jobs |
| Session service | `device/imira-session.sh`, `imira.service` | status file, `FAILS`, `DHCPD_PID`, `GIF`, pid and mode file of the supplicant | main loop, scan, report, session loop, cleanup | supplicant, connection script, RTSP process, castd, DHCP server, iptables |
| Connection script | `device/imira-connect.sh`, `imira-dhcp.sh` | its attempt, the peer, the channel | find a sink, form a group, get addresses | `wpa_cli`, kernel |
| RTSP process | `device/imira-wfd-proto.py`, `run-castd.sh` | handshake state, RTP port, handle of castd | M1 to M8, keepalive, give up, SIGTERM | sink (TCP), castd (start, SIGTERM, SIGUSR1) |
| castd main loop | `daemon/src/main.cpp` | last frame, pending size, counters | frame in, encoder out, clock thread, statistics, shutdown | recorder or shared memory, encoder, muxer, sender, audio |
| Screen recorder client | `daemon/src/recorder.cpp` | ring of four buffers, flags of its event loop | start, record a frame, repaint, stop | Wayland compositor of the phone, the clock thread |
| Shared-memory frames | `daemon/src/shmsource.cpp`, `daemon/comp/imira-comp.cpp` | header with `seq`, pixels; mapping, `lastSeq` | draw, copy, check, reattach | each other |
| Audio capture | `daemon/src/audiocapture.cpp` | silence sink, routes, moved streams | start, stop, read, route, undo | PulseAudio |
| AAC and H.264 encoder | `daemon/src/aacencoder.cpp`, `encoder.cpp` | queued input, codec state | feed, access unit out | HAL codec |
| Muxer | `daemon/src/tsmux.cpp` | continuity counters, parameter sets | tables, video, audio and clock packets | sender |
| Sender | `daemon/src/rtpsender.cpp` | sequence number | send | sink (UDP) |
| Colour conversion | `daemon/src/convert.cpp`, `orientation.cpp` | the box and tables of the last screen and rotation; worker bands | configure, convert | castd |
| TV desktop | `daemon/comp/imira-comp.cpp` | windows, stack, dock, focus, pointer | open, raise, minimize, maximize, close, touch | Wayland clients, shared memory |
| Reports, pages, preview | `device/imira-report.py`, `qml/`, `src/tvpreview.cpp` | none | read and show | files |

How they interact: the app writes `/tmp/imira-start`, `-stop`, `-scan`,
`-report` and touches the heartbeat; the service polls them in its sleeps and
answers in `/tmp/imira-status`. The service starts the connection script and the
RTSP process as children. The RTSP process starts castd when the sink plays.
castd writes its frame count into the RTSP log, which the service reads back.

Behaviour that is hard here:

* *Interleaving.* Script steps are seconds apart; the app, the radio and the
  sink act in between. A stop can fall between the moment the start flag is seen
  and the moment an old stop flag is removed.
* *Failure.* Every process can be killed, the supplicant can hang, the phone can
  sleep, the radio can be switched off; what a dead process left (interface,
  firewall rule, silence sink, flag, shared memory) meets the next one.
* *Ordering.* RTSP replies are matched by state, not by number. Frames are
  copied without a lock, and converted by threads without one. Sound goes into a
  codec on one thread and comes out late on another. A negotiation with a sink ends
  when the script that asked for it may have given up waiting.
* *Time.* 10 s heartbeat, 15 s of grace, 60 s accept, 90 s of silence, 15 s
  keepalive, 2 s without a frame; a clock of the sound that is made from the times at
  which blocks happen to be read.

What makes the parts correct, in a line each: a cast starts only on a press and
ends on a stop; a session leaves nothing behind; failed attempts are counted and
bounded; the app's view of the service is current; the handshake does not hang
and chooses what the sink plays; a keepalive is never late; a frame is whole and
never older than the last; streams are moved back to where they came from;
continuity counters never skip; a buffer has one owner, and a screen that stands
still is captured again; sound is stamped with the time of its capture, also behind
the codec; a picture is laid out for its own screen, rotation and size; the group
and the address that are reported are real; a window has its surface and gets the
clicks meant for it.
`PROJECT.json` lists each hazard at its line under `hazards`, with the
properties that watch it.

## 2. Modules

```
FlagFiles            the files between app and service
  CastController     the app
  ImiraSession       the service, systemd, supplicant, group, firewall, castd
    ImiraCast        both together: Init, Next, fairness, properties
      ImiraCast_proofs
Connect              imira-connect.sh, the detail behind ConnectOk and ConnectFails
      Connect_proofs
RtspLife             what the service counts on of the RTSP process (abstract)
  WfdProto           the RTSP process and a sink (implements RtspLife)
      WfdProto_proofs
FrameExchange        frames taken in order (abstract)
  ShmFrames          the shared memory between imira-comp and castd (implements it)
Desktop              windows, dock and mouse of the TV desktop
      TvDesktop_proofs      (of ShmFrames and Desktop, the halves of imira-comp)
Recorder             the screen recorder, its threads, and castd's shutdown
      Recorder_proofs
FramePacing          which frames go on, and when a repaint is asked for
  CastDaemon         castd from recorder to encoder while the phone is mirrored
Convert              the layout of a converted picture and its bands of rows
  Mirroring          CastDaemon and Convert together (implements CastDaemon)
      Mirroring_proofs      (of all four)
AudioRouting         streams to the TV and back, with PulseAudio
AudioClock           time stamps of captured sound
AacEncoder           time stamps of access units
  CastSound          both together: sound from capture to access unit
      AudioCapture_proofs   (of AudioRouting and CastSound, the halves of audiocapture.cpp)
TsPackets            how an access unit is cut into packets (operators)
  SendPath           muxer and sender under three threads
      SendPath_proofs
MC*                  the instances TLC checks (MCStream: of CastSound and SendPath)
```

Each module has a type invariant (`TypeOK`, `PaceTypeOK`, `ClockTypeOK`,
`AacTypeOK`, `SendTypeOK`, `RouteTypeOK`, `DesktopTypeOK`). They are proved (section 4); the runs list what
is worth more than a type.

### FlagFiles, CastController, ImiraSession, ImiraCast

The files are booleans (`startFlag` is `/tmp/imira-start`, and so on), `alive` is
whether the heartbeat file is younger than 10 s, `status` the word in the status
file. `job` is the systemd job the app has asked for last. `intent` is history:
what the user last asked for.

`pc` is where the script stands. One action is one pass of a loop body, cut where
the script sleeps or waits for a child; between two such points the script does
not wait for anybody and the app polls every 2 s at most. The one exception is
the pair `SeesStart` and `Arm`: the start flag is tested and the stop flag removed
in two steps, because a stop in between is exactly the race a reader would ask
about.

| Code | Action |
|---|---|
| `imira-session.sh` 349-354 | `Boot` |
| 355-384 idle branch | `IdleExit`, `IdleReport`, `IdleNoWlan`, `IdleScan`, `IdleWlanBack`, `StartNoWlan`, `SeesStart` |
| `do_scan` 326-347 | `ScanBegins`, `ScanFails`, `ScanEmpty`, `ScanDone` |
| `do_report` 260-308 | `ReportBegins`, `DiagDone`, `ReportDone` |
| 385-418 | `Arm`, `ArmOk`, `ArmFails` |
| session loop 419-543 | `SessionEnds`, `Attempt`, `ConnectOk`, `ConnectFails`, `Serve`, `ServePoll`, `ServeEnds` |
| cleanup 545-574 | `Cleanup`, `Wipe` |
| `castcontroller.cpp` | `Open`, `Poll`, `Start`, `Stop`, `Scan`, `CreateReport`, `SetDebugLog`, `Close`, `Crash` |
| `imira.service` | `UnitStart`, `UnitStop`, `UnitDies` |

`EnsureSupplicant`, `StopSupplicant`, `RecoverIface`, `DhcpdStart`, `DhcpdStop`
are the functions of the same names. Processes end through `CastEnds`
(SIGTERM: the silence sink may be unloaded) or `KillCast` (kill -9: it is not).
`dirty`, `leak`, `blank` and `intent` are history variables that no guard reads.

The constant `UserOps` names what the user may do besides start and stop, and
`Faults` what may go wrong; each run names both.

### RtspLife and WfdProto

`WfdProto` is one process from `main()` to its end, with two FIFO channels to a
sink. A reply carries the request it answers, which the code does not look at, and
whether it says 200. `proc` is where the process stands: `spawned` lies between
the start of castd and the assignment of its handle, `term` is the SIGTERM
handler in its 0.3 s sleep. Time is counted in receive timeouts of 5 s
(`silent`, `sinceKa`); a message may arrive after less than one of them or a whole
one (`dt`). The sink refuses (`errors`), leaves out or misorders SETUP, PLAY and
TEARDOWN (`rude`), sends M2 before its answer to M1 (`early`, which no run but the
theorem covers), splits a message
so that the body comes after a timeout (`split`), and hangs up whenever it likes.
SIGTERM is `term`. Forwarding an IDR request to castd (a rate-limited SIGUSR1) and
the text of the messages are left out.

`RtspLife` is the four-state life cycle that `ImiraSession` uses in its actions
`SinkPlays`, `ServeEnds`, `ProtoEnds` and `CastDies`; `WfdProto` implements it.
That is what makes the two models one: the session is checked against the
abstract process, the process against the abstract life cycle.

### FrameExchange and ShmFrames

A frame is written and copied part by part; the value of a part is the number of
the frame it came from. `seq` is the header's number, `header` says how much of
the header is written. The reader is the thread of `ShmFrameSource`. The second
load of `seq` is an acquire load, which does not keep the last loads of the copy
in front of it: a load may still be out when the check passes (`rpc = "late"`).
The model lets one part be that late, so what it promises is `NearlyWhole`, not
wholeness; the comment at `shmsource.cpp:97` ("no tear: frame was stable") is true
of a processor that keeps loads in order. A compositor is killed before the next
is started (`imira-session.sh:428`), so there is one at a time.

### AudioRouting

PulseAudio is external: it serves the requests of castd in order (`toPA`) and
tells answers and events in order (`fromPA`). `Serve` is one request, `Dispatch`
one callback on the thread of the main loop, `Main` a step of castd's own thread,
which may go on when the answer has set `stepDone` (`waitStep`). All steps share
that one flag, as in the code.

| Code (`audiocapture.cpp`) | Action |
|---|---|
| `start` 670-858 | `Start`, `ListSinks`, `Subscribe`, `Sweep`, `Record` |
| callbacks 264-375, `maybeSilence` 424-478 | `SeesEvent`, `SeesInput`, `SeesInputs`, `SeesSinks`, `SeesAnswer` |
| `stopImpl` 861-906 | `StopImpl`, `BringHome`, `Unload`, `StopDone` |
| the end of a session in `imira-session.sh` | `SessionCleanup` |

`home`, `stray`, `late` and `killed` are history. `stray` names the streams
whose way home nobody can promise: others moved them while castd was dealing with
them, or they came from an output castd had not been told of yet.

### SendPath

A step is what a thread does under `sendLock`: the encoder's output
(`VideoOut`, then `NextSlice` for what is left of a large picture), the sound
(`AudioOut`), the clock thread (`ClockWakes` reads the time without the lock,
`ClockSends` looks again with it). The packets of one PID in a step are a run of
counters; `got` is what a receiver that loses nothing expects next. The codec is taken
to deliver no empty access unit: one would stamp the tables and send none (`main.cpp`
290-293). How many packets
an access unit takes is `Packets` of `TsPackets`, which also says what each of
them holds: header, padding, and its part of the unit.

### FramePacing and CastDaemon

`FramePacing` is the head of `onFrame` and of the clock thread's loop: a frame
before its time is dropped (`Discard`), one that is due moves the deadline
(`Pass`), and the clock thread asks for a repaint when none has arrived for a
period. `CastDaemon` adds what happens to a frame that is passed on, and who
interferes: the main thread reads the wanted size (`Poll`), compares it later
(`Compare`) and leaves it in `pendingH` and `pendingW`, in
that order (`StoreHeight`, `StoreWidth`), a signal asks for an IDR, and
`onFrame` takes them one load at a time (`TakePending`, then `pendingH` in
`SwitchBegins`), restarts the encoder, which the codec service may refuse before or after its size is
taken over (`SwitchBegins`, `SwitchEnds`), and sets the converter. Each step of it
keeps or makes a step of `FramePacing`, which is the theorem `DaemonPaces`.

Width and height are each a member of `Sizes`, so that a pair of two different
members is a torn size. It does happen: while the encoder restarts, `opt.width`
is still the old one, so the same switch can be left a second time, and the
height of the next be stored before its width is taken. It does not last, as
`Settles` says.

### Convert and Mirroring

`Convert` is `FrameConverter` without colours: `Box` is the place of the turned
screen in the picture (`updateMaps` 32-49), `Taps` and `Tap` which pixels of a line
a pixel is made of (51-67, 108-141), `Bands`, `From` and `To` the rows of each thread
(186-210). `maps` is what is kept from frame to frame. `Mirroring` puts it under
`onFrame` (`main.cpp` 450-498): `Switched` configures the converter when the encoder
of the new size is there, `Converted` queues a frame laid out by `ConvertFrame`;
every other step is one of `CastDaemon`.

### Recorder

Three threads of castd and the compositor of the phone, which is external and does
what `lipstick-recorder.xml` says. Requests and events are queues; a buffer is named
by the size it was made for and its place in the ring, so that a buffer that was
destroyed is still told apart from its successor.

| Code (`recorder.cpp`, `main.cpp`) | Action |
|---|---|
| `start` 269-333 | `StartFails`, `Connect`, `SyncTurns`, `Synced` |
| `handleSetup` 156-174, `createBuffers` 217-239 | `HandleSetup`, `CreateBuffers` |
| `handleFrame` 176-195, `recordFrame` 248-265 | `HandleFrame`, `RecordFrame`, `CallbackReturns` |
| `handleFailed` 197-205, `handleCancelled` 207-213 | `HandleFailed`, `HandleCancelled` |
| `eventLoop` 359-413 | `ReadEvents`, `Dispatch`, `LoopTurns`, `LoopWoken`, `LoopLost` |
| `stop` 335-347, `teardown` 415-452 | `StopFlag`, `StopWake`, `StopJoined`, `Teardown` |
| `requestRepaint` 349-357, clock thread `main.cpp` 518-531 | `ClockLooks`, `ClockAsks`, `Elapses` |
| signals `main.cpp` 45-50, the end of `main` 614-624 | `Signal`, `Killed`, `MainLoopEnds`, `JoinClock` |
| compositor | `ServeRequest`, `ServeRecord`, `Draw`, `Resize`, `CompositorGoes` |

A setup event that is repeated destroys the ring while requests and events that name
its buffers are under way. If one of these events is dispatched afterwards, libwayland
hands over a null pointer and castd crashes (`Crash`); a buffer too small for the
screen gets a `failed`, which ends the capture. Both are in the model.

### AudioClock, AacEncoder, CastSound

`AudioClock` is `onRead` (`audiocapture.cpp` 504-668). Time is counted in units of a
part of a chunk and kept relative to now; `err` is how far `base` is from the true
offset, so a time stamp is wrong by `err`. `Read` is one block of any length
(`DropOld`, `DropLarger` and `NewBase` are the minimum of the window and what follows
from it), `Hole` a block without data, `Stall` a source that stands still, `Restart` a
change of the route. `AacEncoder` is `feed` (`PushAnchor`, then `QueueChunk`, since
another thread runs in between) and `onAccessUnit` (`AccessUnit`) of `aacencoder.cpp`
103-157, with positions relative to the next unit; `meant` remembers what every
sample was fed with. `CastSound` hands the chunks of a block from one to the other
(`HandOver`, `Handed`), as `audioCb` does.

### Connect

One run of `imira-connect.sh`. A negotiation and the group it ends in bear the
number of the attempt that asked for them, and end whenever they like. `started`
and `refused` are what the log says behind the mark of this attempt.

| Code (`imira-connect.sh`) | Action |
|---|---|
| 161-170 | `Top`, `Search` |
| 171-190 | `Find` |
| 191-214, channel 148-159 and 200-204 | `Ask`, `ChannelAsked` |
| 215-216, `abort_requested` 131-139 | `Wait` |
| 217-231, 302-304 | `Look` |
| 305-309 | `Remove` |
| 254-301, helpers 87-105, `imira-dhcp.sh` | `Address`, `SinkOf`, `SameNet`, `NetFirst` |
| supplicant, receivers, app | `GroupStarts`, `NegFails`, `GroupDrops`, `PeerComes`, `PeerGoes`, `ToldToAbort` |

In `ImiraSession` all of this is one step, `ConnectOk` or `ConnectFails`.

### Desktop

imira-comp runs in one event loop, and an action is one event. What makes its
windows hard is that five parties name one: the list `chromes`, the picture (`stack`,
the windows by their z), the keyboard (`focus`), the mouse (`grab`) and the signals of the
surface. A window is named by its address, and addresses are used again.

| Code (`imira-comp.cpp`) | Action |
|---|---|
| `surfaceCreated` 639-706 and the signals it connects | `Map`, `Unmap`, `Destroy` |
| `handleClick` 125, `activateExisting` 894, `launch` 323, reload 101 | `DockClick` (`Activate`, `Launch`), `Reload` |
| `pointerEvent` 1029-1152 | `Click` (`Hold`, `Minimize`, `Refit`, `Close`), `Release` |
| `raise` 745, `removeChrome` 857, `chromeAt` 709, `findByComm` 799 | `Raise`, `RemoveChromes`, `ChromeAt`, `FindByComm` |
| clients | `Exec`, `Dies` |

* The lambdas of a mapped surface hold the address of the window and stay connected
  until the surface ends; `hooks` holds those addresses. A surface that was hidden
  and shown again therefore asks for the removal of two windows, one of which may
  be another's by then: that other surface stays mapped and has no window. What
  `ChromeHasSurface` says is the converse, and holds.
* Use of an address with no window is undefined: `StaleUse` lets imira-comp end
  there. It may also have no effect.
* Any number of mice come and go, so a left button may be pressed twice or never be let
  go, and a held window stays held until one is. A place where a window is on top is
  taken to exist for every window that is not minimized.
* `surfaceDestroyed` and `destroyed` come one after the other, and a deferred delete
  before the next event; either is one step with the event that causes it.
* The shell that becomes an app is `sh` for a moment, and `alreadyRunning` does not
  see it. The model has one process per app, so a second start in that moment is
  left out; the comment at 273 says what it would do.
* `Without` is `QVector::removeAll`. It is stated by rank, the n-th window that is left
  being the n-th that is kept, because facts about it can then be proved; TLC's runs use
  the same definition.
* Minimizing leaves the keyboard where it was, and closing a window may give it to a
  minimized one.

## 3. Runs

| Run | Instance | Shows |
|---|---|---|
| `kill` | start, stop, scan, report, debug log; service killed anywhere, radio switched, supplicant dies, hangs, does not start; one complication at a time | a session at rest left nothing behind (`IdleIsQuiet`); one firewall hole at most and never one nobody accounts for (`HoleAccounted`); frames are charged to the attempt that sent them (`FramesAreOfThisAttempt`); rest is shown as rest (`RestIsTold`); no attempt without a press (`AttemptOnlyOnPress`); a running supplicant can always be found (`SupplicantTracked`); none starts over an orphaned group (`NoOrphanUnderSupplicant`) |
| `ends` | start, stop; external adapter; app crashes; with fairness | a stop ends the cast (`StopEndsCast`); an app that is gone takes the service with it (`GoneAppEndsService`) |
| `connect` | a sink and another phone that come and go; channel refused, negotiations that fail or end late, a group that drops, an abort; with fairness | the group that is reported is there (`GroupIsThere`), the address is the sink's (`AddressIsSinks`), an abort waits for two sleeps at most (`AbortSoon`), a sink that is there, or comes while an attempt is left, is reached (`SinkReached`) |
| `talk` | sink with `rude`, `errors`, `split`; SIGTERM; with fairness | keepalives in time (`KeepaliveInTime`); M4 rests on the answer to M3, M5 on that to M4 (`AnswersMatch`); no hang (`HandshakeEnds`); `ImplementsLife` |
| `tv` | 3 parts, 2 compositors, 2 frames each; killed anywhere; with fairness | `NearlyWhole`, `ImplementsExchange`, `FindsLiveBuffer` |
| `capture` | ring of four, the screen changes its size once, a compositor that refuses or goes, buffers that cannot be made; signals; with fairness | a buffer is in one place and not lost to the ring (`OneOwner`); what a thread uses is there (`InUseIsThere`); a screen that stands still is captured again (`FrameComes`); a stop needs no alarm (`StopReturns`) |
| `encoder` | two sizes, two changes, an IDR, a phone that is turned, encoders that are refused; with fairness | one frame per period and no stall (`KeepsRate`, `PictureMoves`); the size the user chose is reached, if no encoder is refused (`Settles`); a picture is laid out for its own screen, rotation and size, and threads share no line (`PictureFits`) |
| `refused` | the instance of `encoder` | violated: `QueuedFits` |
| `routes` | 2 streams, one Bluetooth speaker; moves, kills, a record stream that does not come | every stream that belongs on the TV is taken (`NothingMissed`); each goes home (`ReturnsHome`); no step is ended by the answer to another (`OwnAnswer`) |
| `stream` | blocks of any length, late, with holes, a source that stands still, a codec that is late, a change of the route; or pictures of one to three slices, sound, clock thread | sound is never stamped too early (`NeverEarly`); the clock comes back (`ComesBack`); a unit has the time of its first sample (`StampedAsFed`); no receiver sees a gap in any PID (`NoGap`); the programme clock is in time (`ClockInTime`) |
| `windows` | two windows of one app and one of another; hidden, closed, killed, dragged, minimized | a window has its surface, a surface one window (`ChromeHasSurface`); what is clicked is what is seen (`StackIsDrawn`); each click on the dock brings a minimized window nearer (`MinimizedComesNearer`) |
| `reconnect` | no fault at all | violated: `NoEndlessReconnect` |

The two violated ones state what a comment of the repository says, and are findings in
`PROJECT.json`:

* `reconnect`: `FAILS` is reset by every successful connect (`imira-session.sh:472`), so
  a sink that connects and never shows a picture is tried for ever.
* `refused`: `init` takes over the new size before the encoder exists (`encoder.cpp:62`).
  If a switch fails, converter and `opt` keep the old size (`main.cpp` 460-466); the next
  IDR request creates an encoder of the new one, and frames of the old size are queued
  into it, which is what the comment at `main.cpp` 450-454 is there to prevent. A user who
  goes back to the old size in between does not mend it, as that is `opt.width` still
  (590). That is why `Settles` speaks of casts whose encoders were all created
  (`NoneRefused`); the other properties of `encoder` hold of those that were refused one
  as well.

The models show more departures, which no run repeats:

* A stream castd has taken and the user then moves to a Bluetooth speaker is left
  there by `maybeSilence` (`audiocapture.cpp:461`; the comment at 165-167 says it is
  left alone), but its entry in `origin` stays, so `stopImpl` (883-890) moves it to the
  phone when the cast ends.
* A repeated setup event while a buffer is on its way may crash castd, and a `failed`
  ends the capture for good; nobody looks at `m_failed` afterwards, and the sink gets
  a clock and no picture.
* A sink that sends M2 before it answers M1 gets an M4 built on the answer to M1:
  LPCM, whatever it offered.
* A surface that ends may take the window of another with it, if it was hidden before
  and the address of its first window is used again.
* Between two attempts the status is `error`, so the page offers Start and no Stop.
* castd may die under a session the sink keeps open, and the status stays `streaming`.
* After a sleep of the phone the service takes the app for gone and exits, and the app,
  still open, never starts it again. With the radio off and a start flag set the service
  never looks at the heartbeat.

One was met while reading what is not modelled: a window that was dragged to the left
until little more than its buttons show, and is then turned, becomes narrower and
lies beside the screen, since `cycleRotation` keeps its corner and does not clamp
it (`imira-comp.cpp:437`).

### Bounds, and why they are enough

* `kill` explores what one complication at a time does (`OneComplication`): a scan,
  a report, a log mode, the radio off, a supplicant that does not answer, a session that
  was killed, an orphaned group. All of them together do not fit into a run; that the
  seven properties of this one hold for any combination, and for any number of group
  interfaces, is proved. `Gifs` therefore has one interface.
* `MaxBlank` is 0 where no property reads `blank`, and 4 in `reconnect`. `FAILS`
  is bounded by the code (0..3).
* Each flag, process and interface has a handful of states, and apart from `kill` the
  whole state space of every instance is explored.
* `WfdProto` uses the program's own times: 3, 12 and 18 timeouts. Each request of
  the sink is sent once, keepalives and IDR requests again and again. Unread
  keepalives are counted once.
* `AudioRouting`: two streams, one of which belongs on the TV, since a take
  looks at one stream and two are enough for events of one between those of the
  other; one output that comes or goes; two acts of the world (`MaxEnv`), which
  is a move and a move back, or an output that goes and one that comes; one capture
  (`MaxStarts`), because any state between two captures is an initial state of
  the model.
* `stream` moves one of `CastSound` and `SendPath` and leaves the other as it began
  (`StreamNext`): they share no variable, so what they do together is no other question.
* `SendPath`: counters wrap at 5 in place of 16, a slice is 4 packets in place of
  224, pictures have 170, 1000 or 1911 bytes, which is 1, 6 or 11 packets (one slice,
  two, and three when tables go along); they are not multiples of 5, so every counter
  meets every size. A unit of time is 25 ms; the bound of `ClockInTime` follows from the
  constants: the greater of the clock's limit and the longest wait for the lock, a sleep of
  the clock thread, and another such wait.
* `Connect`: four attempts as in the code, so that the two that ask for the channel and
  two that do not all happen; two looks for a peer and two into the log in place of
  many, which is a first and a last; eight addresses, which are the phone's net of four
  and another of four, whose first and last are no host's. The theorem covers any
  number of addresses and nets of any sizes.
* `Recorder`: the ring of four of the code; two setup events, which is one while
  buffers of the first are anywhere; queues are as long as they get.
* `CastSound`: a chunk is two units, a window one, the clock settles in one and jumps
  when it is off by more than two; up to three units wait to be read, so that a block is
  shorter than a chunk, as long, or longer; the source stands still for two units in a
  capture. An access unit is three samples and a chunk two, so that both orders of their
  edges come up; the codec keeps six at most, three of them its own silence, which is one
  whole unit of silence. The theorems cover every other choice.
* `Mirroring`: the phone's own screen in two rotations, upright and sideways, and eight
  cores, which is four bands. The theorems cover the other sizes.
* `CastDaemon`: the period is two units, the clock thread's sleep one, the
  compositor's answer one: a frame can be early, due, and later than a period.
  The size in the file may differ from that of the command line at first, so two changes of
  two sizes are a switch, one during it, and one back. `Answer`
  also bounds how long a frame's callback keeps the next frame away, an encoder restart
  included. `EncMayFail` lets the codec service refuse any encoder but the first.
* `Desktop`: an app with two windows, so that the dock has a choice and closing one
  leaves the other, and an app with one, so that windows of both can lie in any order;
  one address per window, which has a freed one taken by the next; two addresses per
  surface (`MaxHooks`), which is a window hidden and shown once between its making
  and its end; one window held by the mouse (`MaxHeld`, 2 in the code, which keeps a drag
  and a resize apart). The two windows of the one app are interchangeable.
* `ShmFrames`: two compositors (a dead one and its successor), two frames each
  (one before and one during a copy), three parts (one late, one torn, one not),
  two polls for 2 s, two attempts for 10 s. `seq` does not wrap: at 30 frames a
  second it takes two years to.

### Fairness

* The script runs as long as its unit does, and systemd runs its jobs (`Script`,
  `UnitStart`, `UnitStop`). `ServePoll` is among the steps of the script; it does
  not keep `ServeEnds` from being taken since one of the two is disabled.
* The heartbeat of a closed app ages, an open app polls, 15 s pass, a process
  that was told to end does.
* Taps, the sink, the radio, frames and crashes are not fair: nothing makes them
  happen. `RtspLife` has no fairness, and the sink of `WfdProto` owes nothing;
  the process itself and its clock are fair, the reader thread of `ShmFrames` too.
* `CastDaemon`: the main loop polls four times a second, the recorder's thread
  finishes a callback, the clock thread looks, time passes, and a compositor that was
  asked for a frame sends one. Taps and IDR requests are not fair.
* `Recorder`: its threads run and the callback returns, a period without a frame ends,
  and the compositor serves requests and draws when it was asked to repaint
  (`lipstick-recorder.xml`). Signals, the alarm and what happens on the screen are not
  fair.
* `Connect`: the script runs on, and a negotiation ends in a group or a failure.
* `AudioRouting`, `CastSound`, `SendPath` and `Desktop` state safety only and have no fairness.
  `OwnAnswer`, `ClockInTime` and `MinimizedComesNearer` say as safety what keeps a
  wait from lasting: an answer is always under way, a clock packet within its
  bound, a window one click nearer.

`CHECK_DEADLOCK FALSE` is set for `talk`, `capture` and `connect` (the process ends),
`tv` (compositors and frames are bounded, and the reader may end), `routes` (streams,
acts and captures are bounded), and `windows` (imira-comp may have crashed).

## 4. Proofs

TLAPS proves, for every value of the constants:

* `ImiraCast_proofs`: `Spec => []` of `TypeOK`, `SupplicantTracked`,
  `HoleAccounted`, `NoOrphanUnderSupplicant`, `IdleIsQuiet`,
  `FramesAreOfThisAttempt`, `RestIsTold`, and `Spec => AttemptOnlyOnPress`.
* `Connect_proofs`: `FairSpec => []` of `TypeOK`, `GroupIsThere`, `AbortSoon` and
  `AddressIsSinks`, for any number of attempts, looks and devices, and nets of any sizes.
* `WfdProto_proofs`: `Spec => []` of `TypeOK` and `KeepaliveInTime`, and `Spec => ImplementsLife`,
  for any sink, any times, any faults; `Spec => []AnswersMatch` for any sink that does not ask
  M2 before it has answered M1 (section 3 tells what such a sink gets).
* `TvDesktop_proofs`: of `ShmFrames`, `Spec => []` of `TypeOK` and `NearlyWhole`, and
  `Spec => ImplementsExchange`; of `Desktop`, `DesktopSpec => []` of `DesktopTypeOK`,
  `ChromeHasSurface` and `StackIsDrawn`, and `DesktopSpec => MinimizedComesNearer`, for any
  apps, processes, surfaces and addresses and any number of stale connections.
* `Recorder_proofs`: `Spec => []` of `TypeOK`, `OneOwner` and `InUseIsThere`, for a ring of
  any length and any number of setup events.
* `SendPath_proofs`: `SendSpec => []` of `SendTypeOK`, `NoGap` and `ClockInTime`, for every wrap, slice,
  size, limit and wait for the lock; `PacketsAreFull`, for every length of an access unit.
* `AudioCapture_proofs`: `Spec => []` of the types, `NeverEarly`, `ComesBack` and `StampedAsFed`
  of `CastSound`, for every window, chunk, unit and silence of the codec; and
  `RouteSpec => []` of `RouteTypeOK`, `OwnAnswer`, `ReturnsHome` and `NothingMissed` of
  `AudioRouting`, for any streams and outputs, captures and acts of the world.
* `Mirroring_proofs`: of `FramePacing`, `PaceSpec => []` of `KeepsRate`, `NoBurst` and
  `PictureMoves`; of `CastDaemon`, `Spec => PaceSpec`, and with it the three for `Spec`;
  `Spec => []` of `PaceTypeOK`, `TypeOK` and `SizesKnown`, encoders refused or not;
  `MirrorSpec => Spec` (of `CastDaemon`), so that all of this holds with the conversion;
  `MirrorSpec => PictureFits`; and of the operators of `Convert`, `BoxAlwaysFits`, `TapsInside`
  and `BandsAlwaysChain`, for every size, rotation and number of cores.

Assumptions are the named ones of the modules: the interface names do not contain
`NoGif`, `MaxBlank` is a number (`GifsAssumption`, `MaxBlankAssumption`), the
bounds of `ShmFrames` and `CastDaemon` are numbers (`BoundsAssumption`), counters
wrap at a number above 0 (`WrapAssumption`), an access unit has a byte at least
and a slice more than the three packets of the tables (`SizesAssumption`), screens have
pixels and rotations are 0, 90 or 270 (`ScreensAssumption`, `TurnsAssumption`),
periods and sleeps are not 0 (`TimesAssumption`, `PacingAssumption`), the phone's net and
each other one fit into their half of the addresses (`ConnectAssumption`), a ring has a buffer
(`RingAssumption`), chunks, units and windows are not empty and the codec has room for
its silence and a unit (`ClockAssumption`, `AacAssumption`), there are finitely many
streams, whose outputs are told apart from the silence sink and from none
(`StreamsAssumption`, `SinksAssumption`), and every surface of the desktop has a process and
every process an app (`ClientsAssumption`).

*The invariant of the cast.* The properties are not inductive one by one. `IInv`
adds what each step relies on, in named parts: the RTSP process lives only while
the script waits for it (`AliveServing`); an attempt begins with no castd and an
empty log, and neither appears before the sink plays (`FreshAttempt`); the DHCP
server lives only while the script serves (`DhcpdServing`), which is what lets the
cleanup close the hole it opened; a group that is up has a supplicant that answers
(`GroupAnswered`), so `p2p_group_remove` reaches it; a start flag is one the user
has not taken back (`PressedStart`); an attempt has a failure left to count
(`Budget`); and all is quiet after the cleanup until the next attempt, unless a
session was killed (`RestQuiet`). TLC checked `IInv` before it was proved.
`BoolStep` proves the typing of the Boolean variables, `InvStep` the rest, each
with one step per action.

*The handshake.* At most one request of the handshake is without its answer, whatever
else is on its way, and its number is what the state says (`OneAsked`, `AsksInOrder`): that is why
a reply matched by state alone is the one that was asked for. A keepalive goes out
whenever the counter meets its interval, before anything that could reset it, and the
interval and a whole receive timeout are below the sink's timeout.

*The life cycle.* Only three of the thirteen variables matter to `RtspLife`.
`Effects` shows that each action does one of six things to them, `HandleStep` that
a castd without a kept handle exists only while it is being started, and
`LifeStep` maps each of the six to a step.

*The frames.* `seq` only grows (`CompStep`), so a reader that finds `seq` as it
was has seen no write begin; `PartsAreNoOlder` says what a part it copies then
is. `CheckedOK` carries the one late part from the check to the hand-over.

*The windows.* `DesktopInv` has three parts. `Windows`: the list names each window once and
exactly those with a surface, the scene is in its order, and each window's address is
among those its own surface will ask to remove (`Heard`), which is why a surface that goes
takes its window with it, whatever freed and reused addresses it names besides. `World`: a
process that has not begun has no surface (`Begun`). `Input`: what is minimized is listed, and what the mouse
holds is bounded. For `MinimizedComesNearer`, raising and removing keep the order of the
windows that stay (`OrderKept`), and a process that is an app was one before, or the shell
that becomes it and has no window yet (`AppsWere`, `Begun`), so the windows ahead of one
afterwards were ahead of it before (`AheadStays`); a click puts the first of them behind (`ClickBrings`), and a proper subset has
fewer members. The facts about the lists need no induction over a sequence: the rank of a
place among those that are kept is an injection into the numbers up to their count, and an
injection between finite sets of one size is onto, so every place of `Without` has its
window (`RankIn`, `RankTells`, `Ranked`, `WithoutIs`).

*The wire.* `SendInv` says that a receiver is abreast of the muxer in every PID but
the picture's, and there behind by exactly the rest of the access unit, whose first
counter it expects (`Abreast`). Each step sends runs that begin where the receiver
is (`NothingSkipped`), and `CountOn` adds up counters modulo `Wrap`.

*The programme clock.* The tables never go out later than the clock does, so a thread that
leaves the clock to the other leaves it to one that will send it; a look that was beaten
is at most one wait for the lock old. The proof showed that the bound the model had
first, without that wait, is too small when the wait may exceed the limit.

*The ring.* Each buffer is in exactly one place: not busy, named by one request, held by the
compositor, named by one event, or with the callback (`Apart`, `Owned`). What
makes it inductive is that a size is used by one ring only and sizes rise, so a
new ring's buffers are named nowhere yet, and the names of the old ones match nothing.

*The sound.* The window keeps each block until as many newer ones have come, so a block in
time that follows a stall is still in it when the clock looks, and its target is 0 then;
`base` moves to that target by steps that never pass it. For the encoder, anchors are a
chunk apart and cover every sample that is inside (`Spaced`, `Covers`), and a sample
nobody fed is the codec's own silence, which leaves before the first fed one.

*The routing.* The invariant has five layers, each resting on those before it.
`Typed`: what each queue and each place may hold, and the counts that bound the world's acts.
`StepInv`: the two queues hold one step or its answer while the main thread waits, and
none otherwise, and it is of the kind it waits for. `Silent`: castd routes exactly while
the sink is loaded. `HomeInv`: a stream that nobody else touched, and whose output is
there, is at that output or on the silence sink with it as its origin, and every request
and every message about it says the same; and the request that ends a stop is the last in
the queue, so no take is served behind it. `NoticeInv`: whatever castd has not taken
notice of has a request or a message pending that will show it (`Noticed`, `Known`,
`Reclaimed`), and a message that shows an output too late is followed by the one that
takes it back (`Followed`). With both queues empty that is `NothingMissed`. TLC checked
every part on the instance of `routes` before it was proved.

*The packets.* `Packets` counts with a division, the loop that writes stops when the
bytes are used up; `LeftOver` says what a division leaves, and `PacketsIs` between which
two multiples the last packet lies. From that `Written` is exactly what was counted, and
`Stuffed` fills each packet up, also for a padding of one byte.

*The connection.* A group bears the number of the attempt that asked for it
(`Numbered`), and a negotiation under way has no group yet (`NegIsNew`). So a group that
starts is one the script has not removed, and the one behind the mark stays so until the
script looks for it, as a new attempt sets a new mark before anything is removed
(`MarkIsNew`). For `AbortSoon`, `SleepsLeft` counts the sleeps between each place and an
end. The address rests on `ConnectAssumption`: what is outside of the phone's net is in
another, so that what a lease names and where the sink is determine what is reported
(`Elsewhere`), and the lease is read only while that sink's group is up.

*The pacing.* `PaceInv` has three parts. `Asks`: when no frame has come for a period,
the clock thread will look within its sleep or has asked. `Deadline`: where the
deadline stands against the last frame passed on. `Grid`: how `behind` relates to
the deadline while frames keep coming. The three properties follow from one or two
of them each. `DaemonPaces` needs no invariant, since every step of `CastDaemon` is
one of `FramePacing` or leaves its variables alone. `SizesKnown` is what the types rest on: a width of 0 is never taken for a
size, and the height that goes with one was stored before it.

*The conversion.* `MapsAgree` says that the kept box is that of the kept screen and
rotation at the converter's present size, which `Configure` establishes by forgetting;
`SizesKnown` that this size is one of those the user may choose. The rest is arithmetic
of `div` and `mod`: a box is cut to even numbers after it was fitted, a band begins at a
multiple of an even number of rows.

Only model-checked: everything under fairness (`StopEndsCast`, `GoneAppEndsService`,
`HandshakeEnds`, `FindsLiveBuffer`, `Settles`, `FrameComes`, `StopReturns`, `SinkReached`),
which is out of the prover's reach. All other properties of the passing runs are proved,
`AnswersMatch` with the hypothesis about M2. `NoEndlessReconnect` and `QueuedFits`, which the
code violates, have a counterexample and no theorem.

## 5. Not modelled, and why

* In the connection script: the report about the channel (`/tmp/imira-radio`) and the
  log texts.
* In castd: the frames of the TV desktop after they are taken (they are not paced),
  what the bytes of a packet say, the RTP sequence number,
  colours, the level meter and trace of the sound, the user's audio offset, the
  statistics, and the setup of the codecs in the HAL library. The session model knows
  castd as one process that counts frames and may hold a silence sink.
* The sensor thread of `orientation.cpp`: in `Mirroring` a frame has any rotation.
* In `AudioRouting`: a connection to PulseAudio that fails or breaks, and a direct
  capture over a silence sink that cannot be unloaded. An output that changes
  between the list and the subscription is modelled (`late`), and `NothingMissed`
  is not claimed for it, because castd is never told.
* In imira-comp: sizes and places of windows (maximize, resize, zoom, rotate, clamp),
  the keymap, the bookkeeping of input devices, painting, the status file and the screenshot.
* Process numbers: a pid file is taken to name the supplicant or nobody.
* A start that is pressed during the cleanup is lost with the old start flag; the
  model does that too, and no property forbids it, because no one promises more.
* Reports, pages, the preview, generated protocol code and the early prototype
  keep no state that outlives one call.

## 6. Plan

What remains, the most valuable first:

1. Places and sizes of windows as a module of its own, with what the dragged and turned
   window above shows as a finding.
2. The page's choice between Start and Stop, by the status the app has read last.
3. The end of a cast whose castd died under a session that the sink keeps open.
