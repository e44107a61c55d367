---------------------------- MODULE Mirroring_proofs ----------------------------
(***************************************************************************)
(* imira-castd between recorder and encoder: the pacing of the frames for  *)
(* every period and every delay of the clock thread and the compositor;    *)
(* the arithmetic of the box and of the bands for every size, and every    *)
(* picture laid out for what it is made of.                                *)
(***************************************************************************)
EXTENDS Mirroring, TLAPS

(* The pacing *)

\* The next repaint is asked for, or will be, in time
Asks ==
  /\ ~asked => askedFor = 0 /\ sinceFrame + wakeIn <= Interval + Nap + LockWait
  /\ asked => sinceFrame <= Interval + Nap + LockWait + askedFor

\* The deadline lies between the last frame and a period after it, and no
\* more than a period after the last one that was passed on
Deadline ==
  /\ dueIn + sinceFrame \in 0..Interval
  /\ dueIn + sincePass <= Interval
  /\ sincePass - sinceFrame < Interval

\* In a run of frames the deadline moves by exactly a period per frame
Grid ==
  /\ behind + dueIn <= 0
  /\ behind + dueIn >= -Interval \/ sinceFrame > Interval
  /\ behind >= -(2 * Interval)

PaceInv == PaceTypeOK /\ Asks /\ Deadline /\ Grid

LEMMA SumOfBounds ==
  ASSUME NEW a \in Int, NEW b \in Int, NEW i \in Int, NEW n \in Int, NEW l \in Int,
         a <= i, b <= n + l
  PROVE  a + b <= i + n + l
OBVIOUS

LEMMA QuietNat == Quiet \in Nat /\ Interval \in 0..Quiet
BY PacingAssumption DEF Quiet

LEMMA QuietBound == ASSUME PaceInv PROVE sinceFrame <= Quiet
BY PacingAssumption DEF PaceInv, PaceTypeOK, Asks, Quiet

\* Every step keeps the invariant: an arriving frame, passed on or dropped.
LEMMA ArrivalKeeps == ASSUME PaceInv, FrameArrives PROVE PaceInv'
<1>1. asked' = FALSE /\ askedFor' = 0 /\ sinceFrame' = 0 /\ wakeIn' = wakeIn
  BY DEF FrameArrives
<1>2. Asks'
  BY <1>1, PacingAssumption DEF PaceInv, PaceTypeOK, Asks
<1>3. CASE Discard
  <2>1. dueIn' = dueIn /\ sincePass' = sincePass /\ behind' = behind /\ dueIn > 0
    BY <1>3 DEF Discard
  <2>2. PaceTypeOK'
    <3>1. Quiet' = Quiet /\ Quiet \in Nat
      BY QuietNat DEF Quiet
    <3>2. asked' \in BOOLEAN BY <1>1
    <3>3. /\ dueIn' \in -Quiet..Interval /\ sinceFrame' \in 0..Quiet
          /\ wakeIn' \in 0..Nap + LockWait /\ askedFor' \in 0..Answer
          /\ sincePass' \in Nat /\ behind' \in Int
      BY <1>1, <2>1, <3>1, PacingAssumption DEF PaceInv, PaceTypeOK
    <3> QED BY <3>1, <3>2, <3>3 DEF PaceTypeOK
  <2>3. Deadline'
    BY <1>1, <2>1, PacingAssumption DEF PaceInv, PaceTypeOK, Deadline
  <2>4. ~(sinceFrame > Interval)
    BY <2>1, PacingAssumption DEF PaceInv, PaceTypeOK, Deadline
  <2>5. Grid'
    BY <1>1, <2>1, <2>4, PacingAssumption DEF PaceInv, PaceTypeOK, Grid
  <2> QED BY <1>2, <2>2, <2>3, <2>5 DEF PaceInv
<1>4. CASE Pass
  <2>1. /\ dueIn <= 0 /\ sincePass' = 0
        /\ dueIn' = IF -dueIn > Interval THEN Interval ELSE dueIn + Interval
        /\ behind' = (IF sinceFrame > Interval THEN 0 ELSE behind) - Interval
    BY <1>4 DEF Pass, NextDue
  <2>2. dueIn' \in 0..Interval /\ behind' \in Int
    BY <2>1, PacingAssumption DEF PaceInv, PaceTypeOK
  <2>3. PaceTypeOK'
    <3>1. Quiet' = Quiet /\ Quiet \in Nat
      BY QuietNat DEF Quiet
    <3>2. dueIn' \in -Quiet..Interval
      BY <2>2, <3>1, PacingAssumption
    <3>3. asked' \in BOOLEAN BY <1>1
    <3>4. /\ sinceFrame' \in 0..Quiet /\ wakeIn' \in 0..Nap + LockWait
          /\ askedFor' \in 0..Answer /\ sincePass' \in Nat /\ behind' \in Int
      BY <1>1, <2>1, <2>2, <3>1, PacingAssumption DEF PaceInv, PaceTypeOK
    <3> QED BY <3>1, <3>2, <3>3, <3>4 DEF PaceTypeOK
  <2>4. Deadline'
    BY <1>1, <2>1, <2>2, PacingAssumption DEF PaceInv, PaceTypeOK, Deadline
  <2>5. CASE sinceFrame > Interval
    BY <1>1, <1>2, <2>1, <2>2, <2>3, <2>4, <2>5, PacingAssumption DEF PaceInv, Grid
  <2>6. CASE ~(sinceFrame > Interval)
    <3>1. dueIn' = dueIn + Interval /\ behind' = behind - Interval
      BY <2>1, <2>6, PacingAssumption DEF PaceInv, PaceTypeOK, Deadline
    <3>2. Grid'
      BY <1>1, <2>1, <2>6, <3>1, PacingAssumption DEF PaceInv, PaceTypeOK, Grid
    <3> QED BY <1>2, <2>3, <2>4, <3>2 DEF PaceInv
  <2> QED BY <2>5, <2>6
<1> QED BY <1>3, <1>4 DEF FrameArrives

\* ... the clock thread's look, ...
LEMMA LookKeeps == ASSUME PaceInv, ClockLooks PROVE PaceInv'
<1>1. /\ wakeIn = 0 /\ wakeIn' \in Nap..Nap + LockWait
      /\ asked' = (asked \/ sinceFrame > Interval)
      /\ UNCHANGED <<dueIn, sinceFrame, askedFor, sincePass, behind>>
  BY DEF ClockLooks
<1>2. PaceTypeOK'
  BY <1>1, PacingAssumption DEF PaceInv, PaceTypeOK, Quiet
<1>3. Asks'
  <2>1. CASE asked
    <3>1. asked' BY <1>1, <2>1
    <3>2. sinceFrame <= Interval + Nap + LockWait + askedFor
      BY <2>1 DEF PaceInv, Asks
    <3>3. sinceFrame' <= Interval' + Nap' + LockWait' + askedFor' BY <1>1, <3>2
    <3> QED BY <3>1, <3>3 DEF Asks
  <2>2. CASE ~asked
    <3>1. askedFor = 0 /\ sinceFrame <= Interval + Nap + LockWait
      BY <1>1, <2>2, PacingAssumption DEF PaceInv, PaceTypeOK, Asks
    <3>2. asked' => sinceFrame' <= Interval + Nap + LockWait + askedFor'
      BY <1>1, <3>1, PacingAssumption DEF PaceInv, PaceTypeOK
    <3>3. sinceFrame \in Int /\ Interval \in Int /\ Nap \in Int /\ LockWait \in Int
      BY QuietNat, PacingAssumption DEF PaceInv, PaceTypeOK
    <3>4. ~asked' => sinceFrame' + wakeIn' <= Interval + Nap + LockWait
      <4>1. SUFFICES ASSUME ~asked' PROVE sinceFrame' + wakeIn' <= Interval + Nap + LockWait
        OBVIOUS
      <4>2. ~(sinceFrame > Interval) BY <1>1, <4>1
      <4>3. sinceFrame <= Interval BY <3>3, <4>2
      <4>4. wakeIn' \in Nap..Nap + LockWait /\ sinceFrame' = sinceFrame BY <1>1
      <4>5. wakeIn' \in Int /\ wakeIn' <= Nap + LockWait BY <3>3, <4>4
      <4>6. sinceFrame' = sinceFrame BY <1>1
      <4>7. sinceFrame + wakeIn' <= Interval + Nap + LockWait
        BY <3>3, <4>3, <4>5, SumOfBounds
      <4> QED BY <4>6, <4>7
    <3>5. askedFor' = 0 BY <1>1, <3>1
    <3> QED BY <3>2, <3>4, <3>5 DEF Asks
  <2> QED BY <2>1, <2>2
<1>4. Deadline' /\ Grid'
  BY <1>1 DEF PaceInv, Deadline, Grid
<1> QED BY <1>2, <1>3, <1>4 DEF PaceInv

\* ... and time.
LEMMA TickKeeps == ASSUME PaceInv, PaceTick PROVE PaceInv'
<1>1. /\ wakeIn > 0 /\ (asked => askedFor < Answer)
      /\ wakeIn' = wakeIn - 1 /\ askedFor' = IF asked THEN askedFor + 1 ELSE 0
      /\ dueIn' = dueIn - 1 /\ sinceFrame' = sinceFrame + 1
      /\ sincePass' = sincePass + 1 /\ behind' = behind + 1 /\ asked' = asked
  BY DEF PaceTick
<1>2. Asks'
  BY <1>1, PacingAssumption DEF PaceInv, PaceTypeOK, Asks
<1>3. sinceFrame' \in 0..Quiet
  BY <1>1, PacingAssumption DEF PaceInv, PaceTypeOK, Asks, Quiet
<1>4. Deadline'
  BY <1>1, PacingAssumption DEF PaceInv, PaceTypeOK, Deadline
<1>5. dueIn' \in -Quiet..Interval
  BY <1>1, <1>3, <1>4, PacingAssumption DEF PaceInv, PaceTypeOK, Deadline, Quiet
<1>6. PaceTypeOK'
  BY <1>1, <1>3, <1>5, PacingAssumption DEF PaceInv, PaceTypeOK
<1>7. Grid'
  BY <1>1, PacingAssumption DEF PaceInv, PaceTypeOK, Grid
<1> QED BY <1>2, <1>4, <1>6, <1>7 DEF PaceInv

\* The pacing's invariant.
THEOREM PaceInvariant == PaceSpec => []PaceInv
<1>1. ASSUME PaceInit PROVE PaceInv
  <2>1. /\ dueIn = -(Interval + 1) /\ sinceFrame = Interval + 1 /\ wakeIn = 0
        /\ askedFor = 0 /\ sincePass = 0 /\ behind = 0 /\ asked = FALSE
    BY <1>1 DEF PaceInit
  <2>2. asked \in BOOLEAN BY <2>1
  <2>3. /\ dueIn \in -Quiet..Interval /\ sinceFrame \in 0..Quiet
        /\ wakeIn \in 0..Nap + LockWait /\ askedFor \in 0..Answer
        /\ sincePass \in Nat /\ behind \in Int
    BY <2>1, PacingAssumption DEF Quiet
  <2>4. Deadline /\ Grid BY <2>1, PacingAssumption DEF Deadline, Grid
  <2>5. sinceFrame + wakeIn <= Interval + Nap + LockWait BY <2>1, PacingAssumption
  <2>6. Asks BY <2>1, <2>5 DEF Asks
  <2> QED BY <2>2, <2>3, <2>4, <2>6 DEF PaceInv, PaceTypeOK
<1>2. ASSUME PaceInv, [PaceNext]_paceVars PROVE PaceInv'
  <2>1. CASE FrameArrives BY <1>2, <2>1, ArrivalKeeps
  <2>2. CASE ClockLooks BY <1>2, <2>2, LookKeeps
  <2>3. CASE PaceTick BY <1>2, <2>3, TickKeeps
  <2>4. CASE UNCHANGED paceVars
    BY <1>2, <2>4
    DEF PaceInv, PaceTypeOK, Asks, Deadline, Grid, paceVars, Quiet
  <2> QED BY <1>2, <2>1, <2>2, <2>3, <2>4 DEF PaceNext
<1> QED BY <1>1, <1>2, PTL DEF PaceSpec

\* A frame that is a hair early does not halve the rate (main.cpp 430-438).
THEOREM PacingKeepsRate == PaceSpec => []KeepsRate
<1>1. PaceInv => KeepsRate
  BY PacingAssumption DEF PaceInv, PaceTypeOK, Deadline, Grid, KeepsRate
<1> QED BY <1>1, PaceInvariant, PTL

\* No burst gets through (main.cpp 444-446).
THEOREM PacingNoBurst == PaceSpec => []NoBurst
<1>1. PaceInv => NoBurst BY DEF PaceInv, Grid, NoBurst
<1> QED BY <1>1, PaceInvariant, PTL

\* The picture keeps moving on a still screen (main.cpp 395-398, 524-533).
THEOREM PacingPictureMoves == PaceSpec => []PictureMoves
<1>1. PaceInv => PictureMoves
  <2>1. ASSUME PaceInv PROVE sincePass - sinceFrame < Interval /\ sinceFrame <= Quiet
    BY <2>1, QuietBound DEF PaceInv, Deadline
  <2>2. ASSUME PaceInv PROVE sincePass \in Int /\ sinceFrame \in Int /\ Quiet \in Int
    BY <2>2, PacingAssumption DEF PaceInv, PaceTypeOK, Quiet
  <2> QED BY <2>1, <2>2, PacingAssumption DEF PictureMoves
<1> QED BY <1>1, PaceInvariant, PTL

--------------------------------------------------------------------------------
(* The daemon paces its frames that way *)

\* Every step of the daemon is a step of the pacing, or leaves it alone.
THEOREM DaemonPaces == Spec => PaceSpec
<1>1. Init => PaceInit BY DEF Init
<1>2. ASSUME [Next]_vars PROVE [PaceNext]_paceVars
  <2>1. CASE FrameComes BY <2>1 DEF FrameComes, PaceNext
  <2>2. CASE Looks BY <2>2 DEF Looks, PaceNext
  <2>3. CASE Ticks BY <2>3 DEF Ticks, PaceNext
  <2>4. CASE \E s \in Sizes : SetResolution(s) BY <2>4 DEF SetResolution
  <2>5. CASE IdrRequest BY <2>5 DEF IdrRequest
  <2>6. CASE MainLoop BY <2>6 DEF MainLoop, Poll, Compare, StoreHeight, StoreWidth
  <2>7. CASE OnFrame
    BY <2>7 DEF OnFrame, Take, SwitchBegins, QueueFrame, SwitchEnds, RestartEnds
  <2>8. CASE UNCHANGED vars BY <2>8 DEF vars
  <2> QED BY <1>2, <2>1, <2>2, <2>3, <2>4, <2>5, <2>6, <2>7, <2>8 DEF Next
<1> QED BY <1>1, <1>2, PTL DEF Spec, PaceSpec

\* One frame per period goes out, no burst does, and a still screen does
\* not stop the picture, whatever the encoder goes through meanwhile.
THEOREM DaemonKeepsRate == Spec => [](KeepsRate /\ NoBurst /\ PictureMoves)
BY DaemonPaces, PacingKeepsRate, PacingNoBurst, PacingPictureMoves, PTL

--------------------------------------------------------------------------------
(* Arithmetic of the box *)

LEMMA EvenBelow ==
  ASSUME NEW x \in Nat PROVE Even(x) \in Nat /\ Even(x) <= x /\ x <= Even(x) + 1 /\ Even(x) % 2 = 0
BY DEF Even

\* What is left over is shared by both sides
LEMMA Centred ==
  ASSUME NEW d \in Nat, NEW w \in Nat, w <= d
  PROVE  /\ Even((d - w) \div 2) \in Nat /\ Even((d - w) \div 2) + w <= d
         /\ Even((d - w) \div 2) % 2 = 0
<1>1. (d - w) \div 2 \in Nat /\ (d - w) \div 2 + w <= d OBVIOUS
<1> QED BY <1>1, EvenBelow

\* A quotient of a product stays below what it is compared with
LEMMA QuotientNat == ASSUME NEW a \in Nat, NEW b \in Nat \ {0} PROVE a \div b \in Nat
OBVIOUS

LEMMA ProductNat == ASSUME NEW a \in Nat, NEW b \in Nat PROVE a * b \in Nat
OBVIOUS

LEMMA QuotientBound ==
  ASSUME NEW a \in Nat, NEW b \in Nat \ {0}, NEW c \in Nat, a <= b * c
  PROVE  a \div b <= c
<1> DEFINE q == a \div b
<1>1. q \in Nat /\ b * q <= a BY QuotientNat
<1>2. SUFFICES ASSUME q >= c + 1 PROVE FALSE BY <1>1
<1>3. b * q >= b * (c + 1) BY <1>1, <1>2
<1>4. b * (c + 1) = b * c + b OBVIOUS
<1> QED BY <1>1, <1>3, <1>4

\* If the box is too high at full width, it is not too wide at full height.
LEMMA EitherFits ==
  ASSUME NEW dw \in Nat, NEW dh \in Nat, NEW cw \in Nat \ {0}, NEW ch \in Nat \ {0},
         (dw * ch) \div cw > dh
  PROVE  (dh * cw) \div ch <= dw
<1>1. dh * cw <= dw * ch
  <2>1. dw * ch \in Nat /\ dh * cw \in Nat BY ProductNat
  <2>2. SUFFICES ASSUME dw * ch < dh * cw PROVE FALSE BY <2>1
  <2>3. dw * ch <= cw * dh BY <2>1, <2>2
  <2>4. (dw * ch) \div cw <= dh BY <2>1, <2>3, QuotientBound
  <2> QED BY <2>4, <2>1, QuotientNat
<1>2. dh * cw <= ch * dw /\ dh * cw \in Nat BY <1>1, ProductNat
<1> QED BY <1>2, QuotientBound

\* The box lies inside the picture for every picture and every content
\* (convert.cpp 32-45): no line is written outside the frame's memory.
THEOREM BoxAlwaysFits ==
  ASSUME NEW dw \in Nat, NEW dh \in Nat, NEW cw \in Nat \ {0}, NEW ch \in Nat \ {0}
  PROVE  LET box == Box(<<dw, dh>>, <<cw, ch>>)
         IN /\ BoxFits(<<dw, dh>>, box)
            /\ box.w \in Nat /\ box.h \in Nat
            /\ box.x % 2 = 0 /\ box.y % 2 = 0 /\ box.w % 2 = 0 /\ box.h % 2 = 0
<1> DEFINE high == (dw * ch) \div cw
           wide == (dh * cw) \div ch
           w == IF high > dh THEN wide ELSE dw
           h == IF high > dh THEN dh ELSE high
<1>1. high \in Nat /\ wide \in Nat BY ProductNat, QuotientNat
<1>2. high > dh => wide <= dw BY EitherFits
<1>3. w \in Nat /\ h \in Nat /\ w <= dw /\ h <= dh BY <1>1, <1>2
<1>4. /\ Even(w) \in Nat /\ Even(w) <= dw /\ Even(w) % 2 = 0
      /\ Even(h) \in Nat /\ Even(h) <= dh /\ Even(h) % 2 = 0
  <2> HIDE DEF w, h
  <2>1. Even(w) \in Nat /\ Even(w) <= w /\ Even(w) % 2 = 0 BY <1>3, EvenBelow
  <2>2. Even(h) \in Nat /\ Even(h) <= h /\ Even(h) % 2 = 0 BY <1>3, EvenBelow
  <2> QED BY <1>3, <2>1, <2>2
<1>5. Box(<<dw, dh>>, <<cw, ch>>) =
        [x |-> Even((dw - Even(w)) \div 2), y |-> Even((dh - Even(h)) \div 2),
         w |-> Even(w), h |-> Even(h)]
  BY DEF Box
<1> HIDE DEF w, h
<1>6. /\ Even((dw - Even(w)) \div 2) \in Nat /\ Even((dw - Even(w)) \div 2) + Even(w) <= dw
      /\ Even((dw - Even(w)) \div 2) % 2 = 0
  BY <1>4, Centred
<1>7. /\ Even((dh - Even(h)) \div 2) \in Nat /\ Even((dh - Even(h)) \div 2) + Even(h) <= dh
      /\ Even((dh - Even(h)) \div 2) % 2 = 0
  BY <1>4, Centred
<1> DEFINE xx == Even((dw - Even(w)) \div 2)
           yy == Even((dh - Even(h)) \div 2)
           ww == Even(w)
           hh == Even(h)
<1> HIDE DEF xx, yy, ww, hh
<1>8. Box(<<dw, dh>>, <<cw, ch>>) = [x |-> xx, y |-> yy, w |-> ww, h |-> hh]
  BY <1>5 DEF xx, yy, ww, hh
<1>9. /\ xx \in Nat /\ yy \in Nat /\ ww \in Nat /\ hh \in Nat
      /\ xx + ww <= dw /\ yy + hh <= dh
      /\ xx % 2 = 0 /\ yy % 2 = 0 /\ ww % 2 = 0 /\ hh % 2 = 0
  BY <1>4, <1>6, <1>7 DEF xx, yy, ww, hh
<1> QED BY <1>8, <1>9 DEF BoxFits

\* Where a tap of the box filter reads: never past the content's last row
\* or column, for every box (convert.cpp 52-66, 108-118, 134-141).
THEOREM TapsInside ==
  ASSUME NEW len \in Nat \ {0}, NEW n \in Nat \ {0}, NEW i \in 0..len - 1,
         NEW j \in 0..Taps(len, n) - 1
  PROVE  Tap(i, j, len, n) \in 0..n - 1
<1>1. Taps(len, n) \in 1..4
  <2>1. (n + len - 1) \div len \in Nat BY QuotientNat
  <2> QED BY <2>1 DEF Taps
<1>2. (i * n) \div len \in Nat BY ProductNat, QuotientNat
<1> QED BY <1>1, <1>2 DEF Tap

LEMMA ThreadsAre == Threads \in {1, 2, 4}
BY DEF Threads

\* Rows of a band when there are several
LEMMA SplitRows ==
  ASSUME NEW h \in Nat, Split(h)
  PROVE  /\ RowsPerBand(h) \in Nat \ {0} /\ RowsPerBand(h) % 2 = 0
         /\ (Threads - 1) * RowsPerBand(h) < h
         /\ Threads \in {2, 4}
<1>1. CASE Threads = 2
  BY <1>1 DEF Split, RowsPerBand, Even
<1>2. CASE Threads = 4
  BY <1>2 DEF Split, RowsPerBand, Even
<1> QED BY <1>1, <1>2, ThreadsAre DEF Split

\* For every height the bands follow each other from the first row to the
\* last, each from an even row on: no row is lost or filled twice, and no
\* two threads write to one line (convert.cpp 186-222).
THEOREM BandsAlwaysChain == ASSUME NEW h \in Nat PROVE BandsChain(h)
<1>1. CASE ~Split(h)
  BY <1>1 DEF BandsChain, Bands, From, To
<1>2. CASE Split(h)
  <2> DEFINE r == RowsPerBand(h)
  <2>1. r \in Nat \ {0} /\ r % 2 = 0 /\ (Threads - 1) * r < h /\ Threads \in {2, 4}
    BY <1>2, SplitRows
  <2>2. /\ Bands(h) = {b \in 0..Threads - 1 : b * r < h}
        /\ \A b : From(b, h) = b * r
        /\ \A b : To(b, h) = IF b # Threads - 1 /\ (b + 1) * r <= h THEN (b + 1) * r ELSE h
    BY <1>2 DEF Bands, From, To
  <2> HIDE DEF r
  <2>3. CASE Threads = 2
    <3>1. Bands(h) = {0, 1} BY <2>1, <2>2, <2>3
    <3> QED BY <2>1, <2>2, <2>3, <3>1 DEF BandsChain
  <2>4. CASE Threads = 4
    <3>1. Bands(h) = {0, 1, 2, 3} BY <2>1, <2>2, <2>4
    <3>2. /\ From(0, h) = 0 /\ From(1, h) = r /\ From(2, h) = 2 * r /\ From(3, h) = 3 * r
          /\ To(0, h) = r /\ To(1, h) = 2 * r /\ To(2, h) = 3 * r /\ To(3, h) = h
      BY <2>1, <2>2, <2>4
    <3>3. (2 * r) % 2 = 0 /\ (3 * r) % 2 = 0 BY <2>1
    <3> QED BY <2>1, <3>1, <3>2, <3>3 DEF BandsChain
  <2> QED BY <2>1, <2>3, <2>4
<1> QED BY <1>1, <1>2

--------------------------------------------------------------------------------
(* With the conversion the daemon still does what it does without *)

\* CastDaemon's theorems hold of the daemon that converts as well.
THEOREM MirrorIsDaemon == MirrorSpec => Spec
<1>1. MirrorInit => Init BY DEF MirrorInit
<1>2. ASSUME [MirrorNext]_mirrorVars PROVE [Next]_vars
  <2>1. CASE Others BY <2>1 DEF Others, Next
  <2>2. CASE MirrorFrame
    BY <2>2 DEF MirrorFrame, Switched, Converted, OnFrame, Next
  <2>3. CASE UNCHANGED mirrorVars BY <2>3 DEF mirrorVars
  <2> QED BY <1>2, <2>1, <2>2, <2>3 DEF MirrorNext
<1> QED BY <1>1, <1>2, PTL DEF MirrorSpec, Spec

(* What every picture is laid out for *)

\* Every size that converter or encoder can get has been chosen: the
\* height is there before the width, the flag, says so.
SizesKnown ==
  /\ want \in Sizes /\ wish \in Sizes \cup {0} /\ (mpc # "poll" => wish \in Sizes)
  /\ pendW \in Sizes \cup {0}
  /\ pendH \in Sizes \/ (pendW = 0 /\ mpc # "width" /\ fpc # "sizes")
  /\ fpc = "sizes" => taken \in Sizes
  /\ conv \in Geometries /\ encG \in Geometries

LEMMA SizesStayKnown == ASSUME SizesKnown, [Next]_vars PROVE SizesKnown'
<1> USE DEF SizesKnown
<1>1. CASE FrameComes BY <1>1 DEF FrameComes, userVars, mainVars, pendVars
<1>2. CASE Looks \/ Ticks
  BY <1>2 DEF Looks, Ticks, switchVars, userVars, mainVars, pendVars, encVars
<1>3. CASE \E s \in Sizes : SetResolution(s)
  BY <1>3 DEF SetResolution, mainVars, pendVars, encVars
<1>4. CASE IdrRequest BY <1>4 DEF IdrRequest, userVars, mainVars, pendVars, encVars
<1>5. CASE MainLoop
  <2>1. CASE Poll BY <2>1 DEF Poll, userVars, pendVars, encVars
  <2>4. CASE Compare BY <2>4 DEF Compare, userVars, pendVars, encVars
  <2>2. CASE StoreHeight BY <2>2 DEF StoreHeight, userVars, encVars
  <2>3. CASE StoreWidth BY <2>3 DEF StoreWidth, userVars, encVars
  <2> QED BY <1>5, <2>1, <2>2, <2>3, <2>4 DEF MainLoop
<1>6. CASE Take
  BY <1>6, SizesAssumption
  DEF Take, TakePending, TakeIdr, TakeNothing, userVars, mainVars, pendVars
<1>7. CASE SwitchBegins
  BY <1>7 DEF SwitchBegins, userVars, mainVars, pendVars, Geometries, Geometry
<1>8. CASE QueueFrame BY <1>8 DEF QueueFrame, userVars, mainVars, pendVars
<1>9. CASE \E ok \in EncoderAnswers : SwitchEnds(ok) \/ RestartEnds(ok)
  <2>1. PICK ok \in EncoderAnswers : SwitchEnds(ok) \/ RestartEnds(ok) BY <1>9
  <2>2. CASE SwitchEnds(ok) BY <2>2 DEF SwitchEnds, userVars, mainVars, pendVars
  <2>3. CASE RestartEnds(ok) BY <2>3 DEF RestartEnds, userVars, mainVars, pendVars
  <2> QED BY <2>1, <2>2, <2>3
<1>10. CASE UNCHANGED vars
  BY <1>10 DEF vars, switchVars, userVars, mainVars, pendVars, encVars
<1> QED BY <1>1, <1>2, <1>3, <1>4, <1>5, <1>6, <1>7, <1>8, <1>9, <1>10 DEF Next, OnFrame

\* The rest of the state keeps to its bounds
Bounded ==
  /\ changes \in 0..MaxChanges /\ optW \in Sizes
  /\ mpc \in {"poll", "compare", "height", "width"} /\ pendH \in Sizes \cup {0}
  /\ needIdr \in BOOLEAN /\ idrs \in 0..MaxIdr
  /\ fpc \in {"idle", "frame", "sizes", "switch", "restart", "queue"}
  /\ taken \in Sizes \cup {0} /\ codec \in Geometries \cup {NoCodec}

LEMMA StaysBounded == ASSUME SizesKnown, Bounded, [Next]_vars PROVE Bounded'
<1> USE DEF Bounded
<1>1. CASE FrameComes
  BY <1>1 DEF FrameComes, userVars, mainVars, pendVars, idrVars
<1>2. CASE Looks \/ Ticks
  BY <1>2 DEF Looks, Ticks, switchVars, userVars, mainVars, pendVars, idrVars, encVars
<1>3. CASE \E s \in Sizes : SetResolution(s)
  BY <1>3, BoundsAssumption DEF SetResolution, mainVars, pendVars, idrVars, encVars
<1>4. CASE IdrRequest
  <2>1. idrs' \in 0..MaxIdr BY <1>4, BoundsAssumption DEF IdrRequest
  <2>2. needIdr' \in BOOLEAN BY <1>4 DEF IdrRequest
  <2> QED BY <1>4, <2>1, <2>2 DEF IdrRequest, userVars, mainVars, pendVars, encVars
<1>5. CASE MainLoop
  <2>1. CASE Poll BY <2>1 DEF Poll, userVars, pendVars, idrVars, encVars
  <2>4. CASE Compare BY <2>4 DEF Compare, userVars, pendVars, idrVars, encVars
  <2>2. CASE StoreHeight
    BY <2>2 DEF StoreHeight, userVars, idrVars, encVars, SizesKnown
  <2>3. CASE StoreWidth BY <2>3 DEF StoreWidth, userVars, idrVars, encVars
  <2> QED BY <1>5, <2>1, <2>2, <2>3, <2>4 DEF MainLoop
<1>6. CASE Take
  <2>1. CASE TakePending
    BY <1>6, <2>1 DEF Take, TakePending, userVars, mainVars, SizesKnown
  <2>2. CASE TakeIdr BY <1>6, <2>2 DEF Take, TakeIdr, userVars, mainVars, pendVars
  <2>3. CASE TakeNothing
    BY <1>6, <2>3 DEF Take, TakeNothing, userVars, mainVars, pendVars
  <2> QED BY <1>6, <2>1, <2>2, <2>3 DEF Take
<1>7. CASE SwitchBegins
  BY <1>7 DEF SwitchBegins, userVars, mainVars, pendVars, idrVars
<1>8. CASE QueueFrame BY <1>8 DEF QueueFrame, userVars, mainVars, pendVars, idrVars
<1>9. CASE \E ok \in EncoderAnswers : SwitchEnds(ok) \/ RestartEnds(ok)
  <2>1. PICK ok \in EncoderAnswers : SwitchEnds(ok) \/ RestartEnds(ok) BY <1>9
  <2>2. encG \in Geometries /\ encG[1] \in Sizes BY DEF SizesKnown, Geometries
  <2>3. CASE SwitchEnds(ok)
    BY <2>2, <2>3 DEF SwitchEnds, userVars, mainVars, pendVars, idrVars
  <2>4. CASE RestartEnds(ok)
    BY <2>2, <2>4 DEF RestartEnds, userVars, mainVars, pendVars, idrVars
  <2> QED BY <2>1, <2>3, <2>4
<1>10. CASE UNCHANGED vars
  BY <1>10 DEF vars, switchVars, userVars, mainVars, pendVars, idrVars, encVars
<1> QED BY <1>1, <1>2, <1>3, <1>4, <1>5, <1>6, <1>7, <1>8, <1>9, <1>10 DEF Next, OnFrame

\* The two threads, the encoder and the converter are always in a state of
\* the model, and what the encoder is created with is a size that was
\* chosen: never half a switch (main.cpp 455-480, 590-594).
THEOREM DaemonTypes == Spec => [](PaceTypeOK /\ TypeOK /\ SizesKnown)
<1>1. ASSUME Init PROVE SizesKnown /\ Bounded
  <2>1. PICK s \in Sizes :
          /\ optW = s
          /\ conv = <<s, s>> /\ encG = <<s, s>> /\ codec = <<s, s>>
    BY <1>1 DEF Init, Geometry
  <2>2. SizesKnown BY <1>1, <2>1 DEF Init, SizesKnown, Geometries
  <2>3. changes \in 0..MaxChanges /\ idrs \in 0..MaxIdr
    BY <1>1, BoundsAssumption DEF Init
  <2>4. needIdr \in BOOLEAN BY <1>1 DEF Init
  <2>5. Bounded BY <1>1, <2>1, <2>3, <2>4 DEF Init, Bounded, Geometries
  <2> QED BY <2>2, <2>5
<1>2. SizesKnown /\ Bounded /\ [Next]_vars => (SizesKnown /\ Bounded)'
  BY SizesStayKnown, StaysBounded
<1>3. SizesKnown /\ Bounded => TypeOK BY DEF SizesKnown, Bounded, TypeOK
<1>4. PaceInv => PaceTypeOK BY DEF PaceInv
<1> QED BY <1>1, <1>2, <1>3, <1>4, DaemonPaces, PaceInvariant, PTL DEF Spec

\* The converter's size in pixels
LEMMA PixelsNat ==
  ASSUME conv \in Geometries
  PROVE  \E w, h \in Nat : Pixels(conv) = <<w, h>>
<1>1. conv[1] \in Nat /\ conv[2] \in Nat BY SizesAssumption DEF Geometries
<1>2. (conv[1] * 16) \div 9 \in Nat BY <1>1
<1> QED BY <1>1, <1>2 DEF Pixels

\* The tables that are kept are those the next frame would get
MapsAgree ==
  \/ maps = NoMaps
  \/ /\ maps.of \in Screens
     /\ maps.box = Box(Pixels(conv), Content(maps.of, maps.turn))

LEMMA ScreensNotNone == NoMaps.of \notin Screens
BY ScreensAssumption DEF NoMaps

\* A frame is laid out anew, or as the one before it
LEMMA ConvertLaysOut ==
  ASSUME MapsAgree, NEW screen \in Screens, NEW turn \in Turns, Converted(screen, turn)
  PROVE  /\ maps'.of = screen
         /\ maps'.box = Box(Pixels(conv), Content(screen, turn))
         /\ maps'.turn = turn
         /\ conv' = conv
<1>1. conv' = conv BY DEF Converted, QueueFrame
<1>2. CASE maps.of = screen /\ maps.turn = turn
  <2>1. maps' = maps BY <1>2 DEF Converted, ConvertFrame
  <2>2. maps # NoMaps BY <1>2, ScreensNotNone
  <2> QED BY <1>1, <1>2, <2>1, <2>2 DEF MapsAgree
<1>3. CASE ~(maps.of = screen /\ maps.turn = turn)
  BY <1>1, <1>3 DEF Converted, ConvertFrame
<1> QED BY <1>2, <1>3

LEMMA MapsStayRight == ASSUME MapsAgree, [MirrorNext]_mirrorVars PROVE MapsAgree'
<1>1. CASE Others
  <2>1. conv' = conv
    BY <1>1 DEF Others, SetResolution, IdrRequest, MainLoop, Poll, Compare, StoreHeight,
                StoreWidth, FrameComes, Looks, Ticks, switchVars, encVars
  <2> QED BY <1>1, <2>1 DEF Others, MapsAgree
<1>2. CASE \E ok \in EncoderAnswers : Switched(ok)
  <2>1. PICK ok \in EncoderAnswers : Switched(ok) BY <1>2
  <2>2. CASE ok BY <2>1, <2>2 DEF Switched, Configure, MapsAgree
  <2>3. CASE ~ok BY <2>1, <2>3 DEF Switched, SwitchEnds, MapsAgree
  <2> QED BY <2>2, <2>3
<1>3. CASE \E screen \in Screens, turn \in Turns : Converted(screen, turn)
  <2>1. PICK screen \in Screens, turn \in Turns : Converted(screen, turn) BY <1>3
  <2> QED BY <2>1, ConvertLaysOut DEF MapsAgree
<1>4. CASE /\ Take \/ SwitchBegins \/ \E ok \in EncoderAnswers : RestartEnds(ok)
           /\ UNCHANGED maps
  BY <1>4 DEF Take, SwitchBegins, RestartEnds, MapsAgree
<1>5. CASE UNCHANGED mirrorVars
  BY <1>5 DEF mirrorVars, vars, switchVars, encVars, MapsAgree
<1> QED BY <1>1, <1>2, <1>3, <1>4, <1>5 DEF MirrorNext, MirrorFrame

\* No frame is encoded with tables of another size, screen or rotation,
\* none is written outside its memory, and no thread fills another's rows,
\* for every screen, every resolution and every number of cores.
THEOREM PicturesAlwaysFit == MirrorSpec => PictureFits
<1>1. MirrorInit => SizesKnown /\ MapsAgree
  BY DEF MirrorInit, Init, ConvertInit, SizesKnown, MapsAgree, Geometries, Geometry
<1>2. SizesKnown /\ MapsAgree /\ [MirrorNext]_mirrorVars => (SizesKnown /\ MapsAgree)'
  <2>1. [MirrorNext]_mirrorVars => [Next]_vars
    BY DEF MirrorNext, MirrorFrame, Others, Switched, Converted, OnFrame, Next, mirrorVars
  <2> QED BY <2>1, SizesStayKnown, MapsStayRight
<1> DEFINE LaidOut ==
      \A screen \in Screens, turn \in Turns : Converted(screen, turn) =>
        LET dst == Pixels(conv)
            box == maps'.box
        IN /\ box = Box(dst, Content(screen, turn))
           /\ BoxFits(dst, box) /\ box.x % 2 = 0 /\ box.y % 2 = 0
           /\ BandsChain(box.h)
<1>3. ASSUME SizesKnown, MapsAgree PROVE LaidOut
  <2> SUFFICES ASSUME NEW screen \in Screens, NEW turn \in Turns, Converted(screen, turn)
               PROVE  LET dst == Pixels(conv)
                          box == maps'.box
                      IN /\ box = Box(dst, Content(screen, turn))
                         /\ BoxFits(dst, box) /\ box.x % 2 = 0 /\ box.y % 2 = 0
                         /\ BandsChain(box.h)
    OBVIOUS
  <2>1. maps'.box = Box(Pixels(conv), Content(screen, turn)) BY <1>3, ConvertLaysOut
  <2>2. PICK w, h \in Nat : Pixels(conv) = <<w, h>>
    BY <1>3, PixelsNat DEF SizesKnown
  <2>3. PICK cw, ch \in Nat \ {0} : Content(screen, turn) = <<cw, ch>>
    BY ScreensAssumption DEF Content
  <2>4. /\ BoxFits(Pixels(conv), maps'.box) /\ maps'.box.h \in Nat
        /\ maps'.box.x % 2 = 0 /\ maps'.box.y % 2 = 0
    BY <2>1, <2>2, <2>3, BoxAlwaysFits
  <2>5. BandsChain(maps'.box.h) BY <2>4, BandsAlwaysChain
  <2> QED BY <2>1, <2>4, <2>5
<1>4. SizesKnown /\ MapsAgree => [LaidOut]_mirrorVars BY <1>3
<1> QED BY <1>1, <1>2, <1>4, PTL DEF MirrorSpec, PictureFits
================================================================================
