-------------------------------- MODULE SendPath --------------------------------
(***************************************************************************)
(* What imira-castd puts on the wire: the encoder's output thread, the     *)
(* audio thread and the clock thread share one muxer and one sender under  *)
(* sendLock (daemon/src/main.cpp); the muxer numbers the packets of each   *)
(* PID (daemon/src/tsmux.cpp); large pictures are sent in slices between   *)
(* which the lock is let go.                                               *)
(*                                                                         *)
(* A step is what a thread does under the lock.  The packets of one PID in *)
(* a step are a run: the counter of the first one, and how many there are. *)
(***************************************************************************)
EXTENDS Integers, FiniteSets, TsPackets

CONSTANTS
  Wrap,        \* continuity counters wrap here: 16
  VideoUnits,  \* bytes of an access unit of the picture, SPS and PPS included
  AudioUnits,  \* bytes of an access unit of the sound, its header included
  Slice,       \* packets per slice, tables included: 7 * 32
  PatLimit,    \* a picture brings the tables after this: 100 ms
  ClockLimit,  \* the clock thread sends them after this: 80 ms
  Poll,        \* sleep of the clock thread: 25 ms
  LockWait     \* longest wait for sendLock

ASSUME WrapAssumption == Wrap \in Nat \ {0}
ASSUME SizesAssumption ==
  /\ VideoUnits \subseteq Nat \ {0} /\ AudioUnits \subseteq Nat \ {0}
  /\ Slice \in Nat /\ Slice > 3
ASSUME TimesAssumption ==
  /\ PatLimit \in Nat /\ ClockLimit \in Nat /\ Poll \in Nat \ {0} /\ LockWait \in Nat

\* The PCR packet has no payload and its counter stays at 0
Pids == {"pat", "pmt", "video", "audio"}
Tables == {"pat", "pmt"}

VARIABLES
  cc,        \* of each PID, the continuity counter of its next packet
  rest,      \* packets of the access unit under way that are not sent yet
  restCc,    \* counter of the first of them
  sincePat,  \* time since lastPatUs
  cpc,       \* clock thread: sleep, lock
  nap,       \* what is left of its sleep
  seen,      \* t - lastPatUs as it stands for the t it has read
  waited,    \* time since it read t
  got,       \* a receiver: of each PID, the counter it expects next
  skipped,   \* a receiver: PIDs whose packets were out of order
  sincePcr   \* a receiver: time since the last programme clock

muxVars == <<cc, rest, restCc>>
napVars == <<sincePat, cpc, nap, seen, waited>>
wireVars == <<got, skipped, sincePcr>>
sendVars == <<muxVars, napVars, wireVars>>

\* A wait for the lock that was in vain may itself outlast the limit
Greatest(a, b) == IF a >= b THEN a ELSE b
Longest == Greatest(ClockLimit, LockWait) + Poll + LockWait
SendTypeOK ==
  /\ cc \in [Pids -> 0..Wrap - 1] /\ got \in [Pids -> 0..Wrap - 1]
  /\ rest \in Nat /\ restCc \in 0..Wrap - 1
  /\ cpc \in {"sleep", "lock"} /\ nap \in 0..Poll
  /\ sincePat \in Nat /\ seen \in Nat /\ waited \in 0..LockWait
  /\ skipped \subseteq Pids /\ sincePcr \in Nat

\* The clock thread starts over tables that were never sent
SendInit ==
  /\ cc = [p \in Pids |-> 0] /\ rest = 0 /\ restCc = 0
  /\ sincePat = ClockLimit + 1 /\ cpc = "sleep" /\ nap = Poll /\ seen = 0 /\ waited = 0
  /\ got = cc /\ skipped = {} /\ sincePcr = 0

--------------------------------------------------------------------------------
(* Muxer and sender *)

\* nextContinuityCounter(), n packets later
Advance(c, n) == (c + n) % Wrap

\* What a receiver makes of runs of packets
Receive(runs) ==
  /\ got' = [p \in Pids |-> IF p \in DOMAIN runs THEN (runs[p].from + runs[p].n) % Wrap
                            ELSE got[p]]
  /\ skipped' = skipped \cup {p \in DOMAIN runs : runs[p].from # got[p]}

\* emitPatAndPmt() and emitPcr(), if they are due
TableRuns(with) == [p \in IF with THEN Tables ELSE {} |-> [from |-> cc[p], n |-> 1]]
Counted(with, pid, n) ==
  [p \in Pids |-> IF p = pid THEN Advance(cc[p], n)
                  ELSE IF with /\ p \in Tables THEN Advance(cc[p], 1)
                  ELSE cc[p]]
PcrSent(with) == sincePcr' = IF with THEN 0 ELSE sincePcr

Run(pid, from, n) == [p \in {pid} |-> [from |-> from, n |-> n]]
Both(f, g) == [p \in DOMAIN f \cup DOMAIN g |-> IF p \in DOMAIN f THEN f[p] ELSE g[p]]
Smaller(a, b) == IF a <= b THEN a ELSE b

--------------------------------------------------------------------------------
(* The threads *)

\* Whatever the clock thread has read is older than tables sent now
Stamp(with) ==
  /\ sincePat' = IF with THEN 0 ELSE sincePat
  /\ seen' = IF with THEN 0 ELSE seen

\* Mutant: the access unit is packetized under the lock, and all of it is
\* sent after the lock was let go.
VideoOutLater(n, idr) ==
  /\ rest = 0
  /\ LET with == idr \/ sincePat > PatLimit
     IN /\ cc' = Counted(with, "video", n) /\ Stamp(with)
        /\ rest' = n /\ restCc' = cc["video"]
  /\ UNCHANGED <<cpc, nap, waited, wireVars>>

\* Mutant: every access unit counts as one with tables.
VideoOutStamps(n, idr) ==
  /\ rest = 0
  /\ LET with == idr \/ sincePat > PatLimit
         first == Smaller(n, Slice - (IF with THEN 3 ELSE 0))
     IN /\ cc' = Counted(with, "video", n) /\ Stamp(TRUE) /\ PcrSent(with)
        /\ Receive(Both(TableRuns(with), Run("video", cc["video"], first)))
        /\ rest' = n - first /\ restCc' = (cc["video"] + first) % Wrap
  /\ UNCHANGED <<cpc, nap, waited>>

\* The encoder's output callback: an access unit of n packets, and its first
\* slice on the wire
VideoOut(n, idr) ==
  /\ rest = 0
  /\ LET with == idr \/ sincePat > PatLimit
         first == Smaller(n, Slice - (IF with THEN 3 ELSE 0))
     IN /\ cc' = Counted(with, "video", n) /\ Stamp(with) /\ PcrSent(with)
        /\ Receive(Both(TableRuns(with), Run("video", cc["video"], first)))
        /\ rest' = n - first /\ restCc' = (cc["video"] + first) % Wrap
  /\ UNCHANGED <<cpc, nap, waited>>

\* The lock is taken again for the next slice
NextSlice ==
  /\ rest > 0
  /\ LET n == Smaller(rest, Slice)
     IN /\ Receive(Run("video", restCc, n))
        /\ rest' = rest - n /\ restCc' = (restCc + n) % Wrap
  /\ UNCHANGED <<cc, napVars, sincePcr>>

\* audioCb or aacOut
AudioOut(n) ==
  /\ cc' = Counted(FALSE, "audio", n) /\ Receive(Run("audio", cc["audio"], n))
  /\ UNCHANGED <<rest, restCc, napVars, sincePcr>>

\* The clock thread wakes up, reads the time and looks whether tables are due
ClockWakes ==
  /\ cpc = "sleep" /\ nap = 0
  /\ IF sincePat <= ClockLimit
     THEN nap' = Poll /\ UNCHANGED <<cpc, seen, waited>>
     ELSE cpc' = "lock" /\ seen' = sincePat /\ waited' = 0 /\ UNCHANGED nap
  /\ UNCHANGED <<muxVars, sincePat, wireVars>>

\* It has the lock and looks again: a frame may have beaten it to it
ClockSends ==
  /\ cpc = "lock" /\ cpc' = "sleep" /\ nap' = Poll
  /\ IF seen <= ClockLimit
     THEN UNCHANGED <<cc, sincePat, wireVars>>
     ELSE /\ cc' = Counted(TRUE, "none", 0) /\ PcrSent(TRUE) /\ sincePat' = waited
          /\ Receive(TableRuns(TRUE))
  /\ UNCHANGED <<rest, restCc, seen, waited>>

\* Time; the clock thread wakes up when its sleep is over and gets the lock
\* in LockWait.  The counts of time stop where they no longer matter.
Capped(t) == Smaller(t + 1, Longest + 1)
WireTick ==
  /\ cpc = "sleep" => nap > 0
  /\ cpc = "lock" => waited < LockWait
  /\ nap' = IF cpc = "sleep" THEN nap - 1 ELSE nap
  /\ waited' = IF cpc = "lock" THEN waited + 1 ELSE waited
  /\ sincePat' = Capped(sincePat) /\ sincePcr' = Capped(sincePcr)
  /\ UNCHANGED <<muxVars, cpc, seen, got, skipped>>

SendNext ==
  \/ \E len \in VideoUnits, idr \in BOOLEAN : VideoOut(Packets(len), idr)
  \/ NextSlice \/ ClockWakes \/ ClockSends \/ WireTick
  \/ \E len \in AudioUnits : AudioOut(Packets(len))

SendSpec == SendInit /\ [][SendNext]_sendVars

--------------------------------------------------------------------------------
(* Properties *)

\* A receiver finds the packets of every PID numbered without a gap,
\* whatever audio and tables go out between the slices of a picture
\* (main.cpp 288-318, tsmux.cpp nextContinuityCounter).
NoGap == skipped = {}

\* The programme clock is on the wire in time, whether the picture moves or
\* not (main.cpp 512-517: "This keeps it going regardless of what the video
\* path is doing"): the two threads that may send it never leave it to each
\* other.
ClockInTime == sincePcr <= Longest
================================================================================
