-------------------------------- MODULE ShmFrames --------------------------------
(***************************************************************************)
(* The shared memory through which imira-comp (the TV desktop) hands its  *)
(* frames to imira-castd: a header with a sequence number that is odd      *)
(* while a frame is written, and no lock.                                  *)
(*                                                                         *)
(* Writer: imira-comp.cpp main().  Reader: ShmFrameSource::start().  A     *)
(* frame is written and copied part by part; the value of a part is the    *)
(* number of the frame it belongs to.                                      *)
(***************************************************************************)
EXTENDS Naturals, FiniteSets

CONSTANTS
  Parts,      \* what of a frame is copied at a time
  MaxBuffers, \* bound: starts of the compositor
  MaxFrames,  \* bound: frames per buffer
  OpenTries,  \* attempts to open before the reader ends (10 s)
  IdleLimit   \* polls without a new frame before it opens again (2 s)

ASSUME BoundsAssumption ==
  /\ MaxBuffers \in Nat /\ MaxFrames \in Nat
  /\ OpenTries \in Nat /\ IdleLimit \in Nat

Buffers == 1..MaxBuffers

VARIABLES
  \* the name and the buffers, of which older ones live on in mappings
  made,     \* buffers created so far
  name,     \* what kShmName refers to, 0: nothing
  header,   \* of each buffer: blank, wide (width but no height yet), full
  seq,      \* of each buffer
  cell,     \* of each buffer, the frame each part holds
  \* the compositor
  wpc,      \* down, start, init, idle, draw
  drawn,    \* parts written of the frame being drawn
  \* the reader
  rpc,      \* open, poll, copy, late (checked, a load is still out), ended
  mapped,   \* the buffer it has mapped
  flat,     \* it read a height of 0
  lastSeq, snap, copy, copied,   \* lastSeq, seq, copy and how far it got
  idle,     \* idleTicks
  tries,    \* failed attempts to open
  taken,    \* history: the frame handed over last
  picture   \* history: its parts

bufVars == <<made, name, header, seq, cell>>
compVars == <<wpc, drawn>>
readVars == <<rpc, mapped, flat, lastSeq, snap, copy, copied, idle, tries>>
shmVars == <<bufVars, compVars, readVars, taken, picture>>

TypeOK ==
  /\ made \in 0..MaxBuffers /\ name \in 0..made
  /\ header \in [Buffers -> {"blank", "wide", "full"}]
  /\ seq \in [Buffers -> 0..2 * MaxFrames]
  /\ cell \in [Buffers -> [Parts -> 0..MaxFrames]]
  /\ wpc \in {"down", "start", "init", "idle", "draw"}
  /\ drawn \subseteq Parts
  /\ rpc \in {"open", "poll", "copy", "late", "ended"}
  /\ mapped \in 0..made /\ flat \in BOOLEAN
  /\ lastSeq \in Nat /\ snap \in Nat
  /\ copy \in [Parts -> Nat] /\ copied \subseteq Parts
  /\ idle \in 0..IdleLimit /\ tries \in 0..OpenTries
  /\ taken \in [buffer : Nat, frame : Nat]
  /\ picture \in [Parts -> Nat]

Init ==
  /\ made = 0 /\ name = 0
  /\ header = [b \in Buffers |-> "blank"]
  /\ seq = [b \in Buffers |-> 0]
  /\ cell = [b \in Buffers |-> [p \in Parts |-> 0]]
  /\ wpc = "down" /\ drawn = {}
  /\ rpc = "open" /\ mapped = 0 /\ flat = FALSE
  /\ lastSeq = 0 /\ snap = 0
  /\ copy = [p \in Parts |-> 0] /\ copied = {}
  /\ idle = 0 /\ tries = 0
  /\ taken = [buffer |-> 0, frame |-> 0]
  /\ picture = [p \in Parts |-> 0]

-------------------------------------------------------------------------------
(* The compositor.  The session kills one before it starts the next. *)

\* A new compositor removes what an older one may have left ...
CompStarts ==
  /\ wpc = "down" /\ made < MaxBuffers
  /\ wpc' = "start"
  /\ name' = 0
  /\ UNCHANGED <<made, header, seq, cell, drawn, readVars, taken, picture>>

\* ... creates the file and enlarges it, which fills it with zeros ...
CompCreates ==
  /\ wpc = "start"
  /\ wpc' = "init"
  /\ made' = made + 1
  /\ name' = made + 1
  /\ UNCHANGED <<header, seq, cell, drawn, readVars, taken, picture>>

\* ... and writes magic, sequence and width, then the height.
CompWidth ==
  /\ wpc = "init" /\ header[made] = "blank"
  /\ header' = [header EXCEPT ![made] = "wide"]
  /\ UNCHANGED <<made, name, seq, cell, compVars, readVars, taken, picture>>

CompHeight ==
  /\ wpc = "init" /\ header[made] = "wide"
  /\ header' = [header EXCEPT ![made] = "full"]
  /\ wpc' = "idle"
  /\ UNCHANGED <<made, name, seq, cell, drawn, readVars, taken, picture>>

\* Mutant: the first increment is missing.
DrawQuietly ==
  /\ wpc = "idle" /\ seq[made] + 2 <= 2 * MaxFrames
  /\ wpc' = "draw"
  /\ drawn' = {}
  /\ UNCHANGED <<bufVars, readVars, taken, picture>>

\* A frame timer tick: odd, barrier, pixels, barrier, even.
DrawBegins ==
  /\ wpc = "idle" /\ seq[made] + 2 <= 2 * MaxFrames
  /\ wpc' = "draw"
  /\ seq' = [seq EXCEPT ![made] = @ + 1]
  /\ drawn' = {}
  /\ UNCHANGED <<made, name, header, cell, readVars, taken, picture>>

DrawPart(p) ==
  /\ wpc = "draw" /\ p \notin drawn
  /\ cell' = [cell EXCEPT ![made][p] = seq[made] \div 2 + 1]
  /\ drawn' = drawn \cup {p}
  /\ UNCHANGED <<made, name, header, seq, wpc, readVars, taken, picture>>

DrawEnds ==
  /\ wpc = "draw" /\ drawn = Parts
  /\ wpc' = "idle"
  /\ seq' = [seq EXCEPT ![made] = 2 * (@ \div 2) + 2]
  /\ UNCHANGED <<made, name, header, cell, drawn, readVars, taken, picture>>

\* SIGTERM ends the event loop, and the name goes.
CompQuits ==
  /\ wpc = "idle"
  /\ wpc' = "down"
  /\ name' = 0
  /\ UNCHANGED <<made, header, seq, cell, drawn, readVars, taken, picture>>

\* kill -9 leaves the name and an unfinished frame.
CompKilled ==
  /\ wpc # "down"
  /\ wpc' = "down"
  /\ UNCHANGED <<bufVars, drawn, readVars, taken, picture>>

Comp ==
  \/ CompStarts \/ CompCreates \/ CompWidth \/ CompHeight
  \/ DrawBegins \/ (\E p \in Parts : DrawPart(p)) \/ DrawEnds
  \/ CompQuits \/ CompKilled

-------------------------------------------------------------------------------
(* The reader thread of castd. *)

\* shm_open fails; after 10 s the thread ends for good.
OpenFails ==
  /\ rpc = "open" /\ name = 0
  /\ IF tries < OpenTries
     THEN tries' = tries + 1 /\ UNCHANGED rpc
     ELSE rpc' = "ended" /\ UNCHANGED tries
  /\ UNCHANGED <<bufVars, compVars, mapped, flat, lastSeq, snap, copy, copied,
                 idle, taken, picture>>

\* A file without magic or width is tried again, with all its attempts.
OpenEarly ==
  /\ rpc = "open" /\ name # 0 /\ header[name] = "blank"
  /\ tries' = 0
  /\ UNCHANGED <<bufVars, compVars, rpc, mapped, flat, lastSeq, snap, copy,
                 copied, idle, taken, picture>>

\* The height is not looked at: a reader that comes between two stores of
\* the writer maps a frame of no lines.
Attach ==
  /\ rpc = "open" /\ name # 0 /\ header[name] # "blank"
  /\ rpc' = "poll"
  /\ mapped' = name
  /\ flat' = (header[name] = "wide")
  /\ lastSeq' = 0 /\ idle' = 0 /\ tries' = 0
  /\ UNCHANGED <<bufVars, compVars, snap, copy, copied, taken, picture>>

\* Mutant: a frame being written is copied too.
FreshUnfinished == seq[mapped] # lastSeq

Fresh == seq[mapped] # lastSeq /\ seq[mapped] % 2 = 0

CopyBegins ==
  /\ rpc = "poll" /\ Fresh
  /\ rpc' = "copy"
  /\ snap' = seq[mapped]
  /\ copied' = IF flat THEN Parts ELSE {}
  /\ UNCHANGED <<bufVars, compVars, mapped, flat, lastSeq, copy, idle, tries,
                 taken, picture>>

CopyPart(p) ==
  /\ rpc \in {"copy", "late"} /\ p \notin copied
  /\ copy' = [copy EXCEPT ![p] = cell[mapped][p]]
  /\ copied' = copied \cup {p}
  /\ UNCHANGED <<bufVars, compVars, rpc, mapped, flat, lastSeq, snap, idle,
                 tries, taken, picture>>

\* The second look at seq.  It is an acquire load: it keeps later loads
\* behind it, not the last loads of the copy in front of it.
CheckPasses ==
  /\ rpc = "copy" /\ Cardinality(Parts \ copied) <= 1
  /\ seq[mapped] = snap
  /\ rpc' = "late"
  /\ UNCHANGED <<bufVars, compVars, mapped, flat, lastSeq, snap, copy, copied,
                 idle, tries, taken, picture>>

\* Torn: the same seq may be copied again at the next poll.
CheckFails ==
  /\ rpc = "copy" /\ Cardinality(Parts \ copied) <= 1
  /\ seq[mapped] # snap
  /\ rpc' = "poll"
  /\ UNCHANGED <<bufVars, compVars, mapped, flat, lastSeq, snap, copy, copied,
                 idle, tries, taken, picture>>

HandOver ==
  /\ rpc = "late" /\ copied = Parts
  /\ rpc' = "poll"
  /\ lastSeq' = snap
  /\ idle' = 0
  /\ IF flat THEN UNCHANGED <<taken, picture>>
     ELSE /\ taken' = [buffer |-> mapped, frame |-> snap \div 2]
          /\ picture' = copy
  /\ UNCHANGED <<bufVars, compVars, mapped, flat, snap, copy, copied, tries>>

\* Mutant: a silent buffer is kept.
PollIdleStays ==
  /\ rpc = "poll" /\ ~Fresh
  /\ idle' = IF idle < IdleLimit THEN idle + 1 ELSE idle
  /\ UNCHANGED rpc
  /\ UNCHANGED <<bufVars, compVars, mapped, flat, lastSeq, snap, copy, copied,
                 tries, taken, picture>>

\* Two seconds without a new frame: detach and open again.
PollIdle ==
  /\ rpc = "poll" /\ ~Fresh
  /\ IF idle < IdleLimit
     THEN idle' = idle + 1 /\ UNCHANGED rpc
     ELSE rpc' = "open" /\ UNCHANGED idle
  /\ UNCHANGED <<bufVars, compVars, mapped, flat, lastSeq, snap, copy, copied,
                 tries, taken, picture>>

Reader ==
  \/ OpenFails \/ OpenEarly \/ Attach \/ CopyBegins
  \/ (\E p \in Parts : CopyPart(p))
  \/ CheckPasses \/ CheckFails \/ HandOver \/ PollIdle

Next == Comp \/ Reader

Spec == Init /\ [][Next]_shmVars

\* The reader thread runs.
FairSpec == Spec /\ WF_shmVars(Reader)

-------------------------------------------------------------------------------
(* Properties *)

\* A picture handed over is the finished frame it is taken for, except for a
\* load the processor had still out when it looked at seq again, which may
\* bring a part of a later frame (shmsource.cpp:93-101).
NearlyWhole ==
  \E late \in SUBSET Parts :
    /\ Cardinality(late) <= 1
    /\ \A p \in Parts \ late : picture[p] = taken.frame
    /\ \A p \in late : picture[p] >= taken.frame

\* Frames are taken in order, from one compositor to the next, and only
\* finished ones.
Exchange == INSTANCE FrameExchange WITH
  count <- [buf \in Buffers |-> seq[buf] \div 2]

ImplementsExchange == Exchange!Spec

\* A reader that latched onto the buffer of a dead compositor finds the one
\* of the living (shmsource.cpp:49-51, 104-106).
FindsLiveBuffer ==
  \A b \in Buffers :
    (wpc \in {"idle", "draw"} /\ made = b)
      ~> (rpc # "open" /\ mapped = b) \/ wpc = "down" \/ rpc = "ended"
================================================================================
