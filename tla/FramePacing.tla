------------------------------ MODULE FramePacing ------------------------------
(***************************************************************************)
(* Which frames of the mirrored screen go to the encoder, and when the     *)
(* compositor is asked for another one (daemon/src/main.cpp: the head of   *)
(* onFrame and the head of the clock thread's loop).  The recorder sends a *)
(* frame whenever something on the screen changes; castd passes on one per *)
(* period, by deadline.                                                    *)
(*                                                                         *)
(* Times are kept relative to now.                                         *)
(***************************************************************************)
EXTENDS Integers

CONSTANTS
  Interval,  \* frameIntervalUs
  Nap,       \* sleep of the clock thread: 25 ms
  LockWait,  \* longest time it may wait for sendLock besides
  Answer     \* longest time the compositor takes over a repaint

ASSUME PacingAssumption ==
  /\ Interval \in Nat \ {0} /\ Nap \in Nat \ {0}
  /\ LockWait \in Nat /\ Answer \in Nat

VARIABLES
  dueIn,       \* nextDueUs - now
  sinceFrame,  \* now - lastFrameUs
  wakeIn,      \* time until the clock thread looks again
  asked,       \* a repaint is asked for and not there yet
  askedFor,    \* for this long
  sincePass,   \* time since a frame was passed on
  behind       \* in a run of frames no more than a period apart: the time it
               \* lasts, less a period for every frame passed on

paceVars == <<dueIn, sinceFrame, wakeIn, asked, askedFor, sincePass, behind>>

\* Longest silence of the recorder: a period, the clock thread's next look
\* and the compositor's answer
Quiet == Interval + Nap + LockWait + Answer

PaceTypeOK ==
  /\ dueIn \in -Quiet..Interval /\ sinceFrame \in 0..Quiet
  /\ wakeIn \in 0..Nap + LockWait
  /\ asked \in BOOLEAN /\ askedFor \in 0..Answer
  /\ sincePass \in Nat /\ behind \in Int

\* Both times start at 0, long ago: the first frame is due, and is asked for
PaceInit ==
  /\ dueIn = -(Interval + 1) /\ sinceFrame = Interval + 1 /\ wakeIn = 0
  /\ asked = FALSE /\ askedFor = 0 /\ sincePass = 0 /\ behind = 0

--------------------------------------------------------------------------------
\* Mutant: a minimum gap.
NextDueGap(due) == Interval

\* Where the deadline goes when a frame is passed on
NextDue(due) == IF -due > Interval THEN Interval ELSE due + Interval

\* Mutant: a discarded frame moves the deadline, too.
DiscardMoves ==
  dueIn > 0 /\ dueIn' = NextDue(dueIn) /\ UNCHANGED <<sincePass, behind>>

\* A frame before its time is dropped
Discard == dueIn > 0 /\ UNCHANGED <<dueIn, sincePass, behind>>

Pass ==
  /\ dueIn <= 0 /\ dueIn' = NextDue(dueIn) /\ sincePass' = 0
  /\ behind' = (IF sinceFrame > Interval THEN 0 ELSE behind) - Interval

\* onFrame: asked for or because the screen changed
FrameArrives ==
  /\ Discard \/ Pass
  /\ sinceFrame' = 0 /\ asked' = FALSE /\ askedFor' = 0 /\ UNCHANGED wakeIn

\* The clock thread asks for a repaint when no frame ARRIVED for a period
ClockLooks ==
  /\ wakeIn = 0 /\ wakeIn' \in Nap..Nap + LockWait
  /\ asked' = (asked \/ sinceFrame > Interval)
  /\ UNCHANGED <<dueIn, sinceFrame, askedFor, sincePass, behind>>

\* Time; the compositor answers within Answer, the clock thread is not late
PaceTick ==
  /\ wakeIn > 0 /\ (asked => askedFor < Answer)
  /\ wakeIn' = wakeIn - 1
  /\ askedFor' = IF asked THEN askedFor + 1 ELSE 0
  /\ dueIn' = dueIn - 1 /\ sinceFrame' = sinceFrame + 1
  /\ sincePass' = sincePass + 1 /\ behind' = behind + 1
  /\ UNCHANGED asked

PaceNext == FrameArrives \/ ClockLooks \/ PaceTick
PaceSpec == PaceInit /\ [][PaceNext]_paceVars

--------------------------------------------------------------------------------
(* Properties *)

\* While frames come at least once a period, one per period goes out, and
\* the schedule is never more than a period late: a frame that is a hair
\* early does not halve the rate (main.cpp 430-438).
KeepsRate == sinceFrame <= Interval => behind <= Interval

\* Nor does a burst get through, after a pause or ever: in a run of n
\* periods no more than n + 2 frames go out (main.cpp 444-446).
NoBurst == behind >= -(2 * Interval)

\* The picture keeps moving on a still screen, although the frame that was
\* asked for may be one that is dropped (main.cpp 395-398, 524-533).
PictureMoves == sincePass < Interval + Quiet
================================================================================
