------------------------------- MODULE AudioClock -------------------------------
(***************************************************************************)
(* The clock of the captured sound (onRead in daemon/src/audiocapture.cpp):*)
(* the time stamp of a sample is its position in the stream plus an        *)
(* offset, base, and base follows the smallest arrival time less position  *)
(* of a short window: a block cannot arrive before it was captured, so     *)
(* one block in time is enough, and late ones do no harm.                  *)
(*                                                                         *)
(* Time and positions are counted in units of which Chunk make a chunk.    *)
(* Times are kept relative to now, offsets relative to the true one, which *)
(* a block that arrives the moment it is complete shows: the error of a    *)
(* time stamp is err.  PulseAudio and its source are external.             *)
(***************************************************************************)
EXTENDS Integers, Sequences

CONSTANTS
  Chunk,       \* kChunkUs, kChunkBytes
  Window,      \* kMinWinUs
  Settle,      \* kClockSettleUs
  Hard,        \* kHardUs
  SlewPer,     \* the time in which base may move by one unit: 1 / kSlewUsPerS
  MaxBacklog,  \* bound: sound that waits to be read
  MaxStall     \* bound: how long the source stands still in a capture

ASSUME ClockAssumption ==
  /\ {Chunk, Window, Settle, Hard, SlewPer, MaxBacklog} \subseteq Nat \ {0}
  /\ MaxStall \in Nat

VARIABLES
  backlog,   \* sound captured and not yet read
  err,       \* base less the true offset
  win,       \* minWin: age and offset of blocks
  since,     \* time since clockStartUs, Settle at most; NotStarted
  blockAge,  \* time since lastBlockUs, SlewPer * Hard at most
  fill,      \* part of a chunk that is there
  verified,  \* the source is a monitor
  todo,      \* chunks of this block to hand over
  stalled,   \* history: time since the source stood still, Window + 1 at most
  punctual,  \* history: age of the last block in time, Window + 1 at most
  steady,    \* history: blocks since, each with one in time in its window
  still      \* history: how long the source stood still in this capture

clockVars == <<backlog, err, win, since, blockAge, fill, verified, todo,
               stalled, punctual, steady, still>>

NotStarted == -1
Abs(x) == IF x < 0 THEN -x ELSE x
Least(a, b) == IF a < b THEN a ELSE b

ClockTypeOK ==
  /\ backlog \in 0..MaxBacklog /\ err \in -MaxStall..MaxBacklog
  /\ win \in Seq((0..Window + 1) \X (-MaxStall..MaxBacklog))
  /\ since \in {NotStarted} \cup 0..Settle /\ blockAge \in 0..SlewPer * Hard
  /\ fill \in 0..Chunk - 1 /\ verified \in BOOLEAN /\ todo \in Nat
  /\ stalled \in 0..Window + 1 /\ punctual \in 0..Window + 1 /\ steady \in 0..Hard /\ still \in 0..MaxStall

\* A capture begins, with a new Impl
Fresh ==
  /\ backlog = 0 /\ err = 0 /\ win = <<>> /\ since = NotStarted /\ blockAge = 0
  /\ fill = 0 /\ verified = FALSE /\ todo = 0
  /\ stalled = Window + 1 /\ punctual = Window + 1 /\ steady = 0 /\ still = 0

--------------------------------------------------------------------------------
(* The minimum of the window *)

\* Mutant: blocks stay in the window for ever.
KeepOld(w) == w

\* Blocks too old to count leave at the front
DropOld(w) ==
  LET fresh == {i \in DOMAIN w : w[i][1] <= Window}
  IN IF fresh = {} THEN <<>>
     ELSE SubSeq(w, CHOOSE i \in fresh : \A j \in fresh : i <= j, Len(w))

\* Those the new one makes superfluous leave at the back
DropLarger(w, o) ==
  LET smaller == {i \in DOMAIN w : w[i][2] < o}
  IN IF smaller = {} THEN <<>>
     ELSE SubSeq(w, 1, CHOOSE i \in smaller : \A j \in smaller : i >= j)

WithBlock(w, o) == Append(DropLarger(DropOld(w), o), <<0, o>>)

\* Where base goes: at once while it settles or if it is far off, else slowly
NewBase(target) ==
  IF since \in {NotStarted} \cup 0..Settle - 1 \/ Abs(target - err) > Hard THEN target
  ELSE LET lim == blockAge \div SlewPer + 1
           d == target - err
       IN err + IF d > lim THEN lim ELSE IF d < -lim THEN -lim ELSE d

--------------------------------------------------------------------------------
(* What happens to the stream *)

Grow(x, most) == Least(x + 1, most)
Aged(w) == [i \in DOMAIN w |-> <<Grow(w[i][1], Window + 1), w[i][2]>>]

\* Time passes for the thread that reads
Pass ==
  /\ todo = 0
  /\ since' = (IF since = NotStarted THEN since ELSE Grow(since, Settle))
  /\ blockAge' = Grow(blockAge, SlewPer * Hard)
  /\ punctual' = Grow(punctual, Window + 1)
  /\ UNCHANGED <<fill, verified, todo>>

\* A unit of sound is captured
Tick ==
  /\ backlog < MaxBacklog /\ backlog' = backlog + 1 /\ Pass
  /\ win' = Aged(win) /\ stalled' = Grow(stalled, Window + 1)
  /\ UNCHANGED <<err, steady, still>>

\* The source stands still: what comes later is behind by one unit more
Stall ==
  /\ backlog = 0 /\ since # NotStarted /\ still < MaxStall
  /\ Pass /\ err' = err - 1
  /\ win' = [i \in DOMAIN win |-> <<Aged(win)[i][1], win[i][2] - 1>>]
  /\ stalled' = 0 /\ steady' = 0 /\ still' = still + 1 /\ UNCHANGED backlog

\* Mutant: a hole is not counted; all that comes later is stamped too early.
HoleUncounted(n) ==
  /\ todo = 0 /\ n \in 1..backlog /\ backlog' = backlog - n
  /\ err' = err - n /\ win' = [i \in DOMAIN win |-> <<win[i][1], win[i][2] - n>>]
  /\ UNCHANGED <<since, blockAge, fill, verified, todo, stalled, punctual, steady, still>>

\* A hole: n units PulseAudio cannot hand over are counted as read
Hole(n) ==
  /\ todo = 0 /\ n \in 1..backlog /\ backlog' = backlog - n
  /\ UNCHANGED <<err, win, since, blockAge, fill, verified, todo, stalled, punctual,
                 steady, still>>

\* onRead, one block of n units; its end was captured o ago
Read(n) ==
  /\ todo = 0 /\ n \in 1..backlog /\ backlog' = backlog - n
  /\ LET o == backlog - n
         late == IF o = 0 THEN 0 ELSE punctual
     IN /\ win' = WithBlock(win, o) /\ err' = NewBase(win'[1][2])
        /\ punctual' = late
        /\ steady' = IF late <= Window /\ stalled > Window THEN Grow(steady, Hard) ELSE 0
  /\ since' = (IF since = NotStarted THEN 0 ELSE since) /\ blockAge' = 0
  /\ fill' = (fill + n) % Chunk
  /\ todo' = IF verified THEN (fill + n) \div Chunk ELSE 0
  /\ UNCHANGED <<verified, stalled, still>>

\* start() has seen that the device is a monitor
Verify == ~verified /\ verified' = TRUE
  /\ UNCHANGED <<backlog, err, win, since, blockAge, fill, todo, stalled, punctual,
                 steady, still>>

\* Another route: stop() and start()
Restart ==
  /\ todo = 0 /\ verified
  /\ backlog' = 0 /\ err' = 0 /\ win' = <<>> /\ since' = NotStarted /\ blockAge' = 0
  /\ fill' = 0 /\ verified' = FALSE /\ todo' = 0
  /\ stalled' = Window + 1 /\ punctual' = Window + 1 /\ steady' = 0 /\ still' = 0

--------------------------------------------------------------------------------
(* Properties *)

\* Sound is never stamped with a time before its capture by more than the
\* source stood still: under load it is late if anything, never early
\* (audiocapture.cpp 522-548).
NeverEarly == err >= -still

\* One block in time per window keeps the clock right: late blocks do not
\* move it, and after a stall it comes back by a unit per block at least
\* (audiocapture.cpp 545-570).
ComesBack == steady > 0 => Abs(err) <= Hard - steady
================================================================================
