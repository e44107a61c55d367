-------------------------- MODULE AudioCapture_proofs --------------------------
(***************************************************************************)
(* The two halves of the sound of a cast (daemon/src/audiocapture.cpp).    *)
(*                                                                         *)
(* Its samples (CastSound), for every window, every chunk length and every *)
(* length of the codec's silence: their clock is never early and comes     *)
(* back after a stall, and the encoder's time stamps are those its samples *)
(* were fed with.                                                          *)
(*                                                                         *)
(* And where they come from (AudioRouting), for any streams, outputs and   *)
(* number of captures: each step of castd is answered once and by its own  *)
(* answer, no stream that belongs on the TV is missed, and each is back    *)
(* where it was when the capture has ended.                                *)
(***************************************************************************)
EXTENDS CastSound, AudioRouting, FiniteSetTheorems, WellFoundedInduction, TLAPS


(* The invariant of the clock *)

Block == (0..Window + 1) \X (-MaxStall..MaxBacklog)
Blocks(w) == {w[i] : i \in DOMAIN w}

\* Older blocks first, each with a smaller offset than those behind it
Rising(w) == \A i, j \in DOMAIN w : i < j => w[j][1] <= w[i][1] /\ w[i][2] < w[j][2]

\* Nothing is before its capture by more than the source stood still
NotBefore == err >= -still /\ \A b \in Blocks(win) : b[2] >= -still

\* A block since the last stall is not early
SinceStall == \A b \in Blocks(win) : b[1] <= Window /\ b[1] <= stalled => b[2] >= 0

\* The last block in time is in the window, or one that is earlier still
InTime == punctual <= Window => \E b \in Blocks(win) : b[1] <= punctual /\ b[2] <= 0

ClockInv == ClockTypeOK /\ Rising(win) /\ NotBefore /\ SinceStall /\ InTime /\ ComesBack

(* The invariant of the encoder *)

\* What was noted and what is inside are the same samples
Counted ==
  /\ anchors # <<>> =>
       /\ ahead = lead + Len(meant)
       /\ inside = lead + Len(meant) - IF feeding THEN PerFeed ELSE 0
  /\ anchors = <<>> =>
       /\ ahead = Priming /\ lead = Priming /\ inside = Priming
       /\ meant = <<>> /\ ~feeding
  /\ feeding => inside < MaxInside

\* Anchors stand a chunk apart, the last one a chunk before the end, the
\* first one before the next access unit, or at the end of the silence
Spaced ==
  /\ \A i \in DOMAIN anchors :
       /\ anchors[i].sample + PerFeed =
            IF i = Len(anchors) THEN ahead ELSE anchors[i + 1].sample
       /\ anchors[i].sample + PerFeed <= ahead
       /\ \A j \in DOMAIN anchors : i <= j => anchors[i].sample <= anchors[j].sample
  /\ anchors # <<>> =>
       IF lead > 0 THEN anchors[1].sample = lead ELSE anchors[1].sample <= 0

\* The samples behind an anchor were meant for its time stamp
Covers ==
  \A i \in DOMAIN anchors, p \in DOMAIN meant :
    anchors[i].sample < lead + p /\ lead + p <= anchors[i].sample + PerFeed =>
      meant[p] = anchors[i].pts - anchors[i].sample

AacInv == AacTypeOK /\ Counted /\ Spaced /\ Covers /\ StampedAsFed

SoundInv == ClockInv /\ AacInv /\ (feeding => todo > 0)

--------------------------------------------------------------------------------
(* Numbers and sequences *)

LEMMA Smallest ==
  ASSUME NEW T, T \subseteq Nat, T # {}
  PROVE  \E n \in T : \A m \in T : n <= m
<1>1. \A a, b \in Nat : a < b => <<a, b>> \in OpToRel(<, Nat) BY DEF OpToRel
<1>2. \E R : IsWellFoundedOn(R, Nat) /\ \A a, b \in Nat : a < b => <<a, b>> \in R
  BY <1>1, NatLessThanWellFounded, Zenon
<1>3. PICK R : IsWellFoundedOn(R, Nat) /\ \A a, b \in Nat : a < b => <<a, b>> \in R
  BY <1>2
<1>4. IsWellFoundedOn(R, Nat) BY <1>3
<1>5. \E n \in T : \A m \in T : ~(<<m, n>> \in R)
  BY ONLY T \subseteq Nat, T # {}, <1>4, WFMin, Zenon
<1>6. PICK n \in T : \A m \in T : ~(<<m, n>> \in R) BY <1>5
<1>7. n \in Nat BY <1>6
<1>8. ASSUME NEW m \in T PROVE n <= m
  <2>1. m \in Nat /\ ~(<<m, n>> \in R) BY <1>6
  <2>2. ~(m < n) BY <2>1, <1>7, <1>3, Zenon
  <2> QED BY <2>1, <2>2, <1>7
<1> QED BY <1>8

LEMMA FirstOf ==
  ASSUME NEW n \in Nat, NEW T, T \subseteq 1..n, T # {}
  PROVE  LET i == CHOOSE i \in T : \A j \in T : i <= j
         IN i \in T /\ \A j \in T : i <= j
<1>1. T \subseteq Nat OBVIOUS
<1>2. \E i \in T : \A j \in T : i <= j BY <1>1, Smallest
<1> QED BY <1>2

LEMMA LastOf ==
  ASSUME NEW n \in Nat, NEW T, T \subseteq 1..n, T # {}
  PROVE  LET i == CHOOSE i \in T : \A j \in T : i >= j
         IN i \in T /\ \A j \in T : i >= j
<1> DEFINE U == {n - i : i \in T}
<1>1. U \subseteq Nat /\ U # {} OBVIOUS
<1>2. PICK u \in U : \A v \in U : u <= v BY <1>1, Smallest
<1>3. PICK i \in T : u = n - i BY <1>2
<1>4. \A j \in T : n - i <= n - j BY <1>2, <1>3
<1>5. \A j \in T : i >= j BY <1>4
<1>6. \E k \in T : \A j \in T : k >= j BY <1>5
<1> QED BY <1>6

LEMMA Part ==
  ASSUME NEW S, NEW s \in Seq(S), NEW m \in 1..Len(s) + 1, NEW n \in m - 1..Len(s)
  PROVE  /\ SubSeq(s, m, n) \in Seq(S) /\ DOMAIN SubSeq(s, m, n) = 1..n - m + 1
         /\ Len(SubSeq(s, m, n)) = n - m + 1
         /\ \A i \in 1..n - m + 1 : SubSeq(s, m, n)[i] = s[m + i - 1] /\ m + i - 1 \in DOMAIN s
OBVIOUS

LEMMA Rest ==
  ASSUME NEW S, NEW s \in Seq(S), NEW m \in 1..Len(s)
  PROVE  /\ Len(SubSeq(s, m, Len(s))) = Len(s) - m + 1
         /\ DOMAIN SubSeq(s, m, Len(s)) = 1..Len(s) - m + 1
         /\ \A i \in 1..Len(s) - m + 1 :
              SubSeq(s, m, Len(s))[i] = s[m + i - 1] /\ m + i - 1 \in 1..Len(s)
<1>1. m \in 1..Len(s) + 1 /\ Len(s) \in m - 1..Len(s) OBVIOUS
<1> QED BY <1>1, Part

LEMMA Behind ==
  ASSUME NEW S, NEW s \in Seq(S), NEW e \in S
  PROVE  /\ Append(s, e) \in Seq(S) /\ Append(s, e) # <<>>
         /\ DOMAIN Append(s, e) = DOMAIN s \cup {Len(s) + 1} /\ Len(Append(s, e)) = Len(s) + 1
         /\ \A i \in DOMAIN s : Append(s, e)[i] = s[i] /\ i \in 1..Len(s)
         /\ Append(s, e)[Len(s) + 1] = e /\ Len(s) \in Nat
OBVIOUS

LEMMA NotEmpty ==
  ASSUME NEW S, NEW s \in Seq(S), s # <<>>
  PROVE  Len(s) \in Nat /\ DOMAIN s = 1..Len(s) /\ 1 \in 1..Len(s)
OBVIOUS

LEMMA Whole == ASSUME NEW S, NEW s \in Seq(S) PROVE s = SubSeq(s, 1, Len(s))
<1>1. /\ DOMAIN SubSeq(s, 1, Len(s)) = DOMAIN s
      /\ \A i \in DOMAIN s : SubSeq(s, 1, Len(s))[i] = s[i]
  OBVIOUS
<1>2. s = [i \in DOMAIN s |-> s[i]] /\ SubSeq(s, 1, Len(s)) \in Seq(S) OBVIOUS
<1>3. SubSeq(s, 1, Len(s)) = [i \in DOMAIN SubSeq(s, 1, Len(s)) |-> SubSeq(s, 1, Len(s))[i]]
  BY <1>2
<1> QED BY <1>1, <1>2, <1>3

LEMMA DroppedOnes ==
  ASSUME NEW S, NEW s \in Seq(S), NEW c \in 0..Len(s)
  PROVE  /\ SubSeq(s, c + 1, Len(s)) \in Seq(S) /\ Len(SubSeq(s, c + 1, Len(s))) = Len(s) - c
         /\ DOMAIN SubSeq(s, c + 1, Len(s)) = 1..Len(s) - c
         /\ \A p \in 1..Len(s) - c : SubSeq(s, c + 1, Len(s))[p] = s[c + p] /\ c + p \in DOMAIN s
OBVIOUS

LEMMA Mapped ==
  ASSUME NEW S, NEW m \in Nat, NEW v, v = [i \in 1..m |-> v[i]], \A i \in 1..m : v[i] \in S
  PROVE  v \in Seq(S) /\ Len(v) = m /\ DOMAIN v = 1..m /\ (m >= 1 => v # <<>>)
OBVIOUS

LEMMA Joined ==
  ASSUME NEW s \in Seq(Int), NEW r \in Seq(Int)
  PROVE  /\ s \o r \in Seq(Int) /\ Len(s \o r) = Len(s) + Len(r) /\ Len(s) \in Nat
         /\ DOMAIN (s \o r) = 1..Len(s) + Len(r) /\ DOMAIN s = 1..Len(s)
         /\ \A p \in 1..Len(s) : (s \o r)[p] = s[p]
         /\ \A p \in 1..Len(s) + Len(r) :
              p > Len(s) => (s \o r)[p] = r[p - Len(s)] /\ p - Len(s) \in 1..Len(r)
OBVIOUS

(* The window *)

LEMMA RisingPart ==
  ASSUME NEW w \in Seq(Block), Rising(w), NEW m \in 1..Len(w) + 1, NEW n \in m - 1..Len(w)
  PROVE  Rising(SubSeq(w, m, n))
<1> DEFINE p == SubSeq(w, m, n)
<1>1. /\ DOMAIN p = 1..n - m + 1
      /\ \A i \in 1..n - m + 1 : p[i] = w[m + i - 1] /\ m + i - 1 \in DOMAIN w
  BY Part
<1> HIDE DEF p
<1>2. ASSUME NEW i \in DOMAIN p, NEW j \in DOMAIN p, i < j
      PROVE  p[j][1] <= p[i][1] /\ p[i][2] < p[j][2]
  <2>1. /\ m + i - 1 < m + j - 1 /\ p[i] = w[m + i - 1] /\ p[j] = w[m + j - 1]
        /\ m + i - 1 \in DOMAIN w /\ m + j - 1 \in DOMAIN w
    BY <1>1, <1>2
  <2> QED BY <2>1 DEF Rising
<1> QED BY <1>2 DEF Rising, p

LEMMA BlockTypes ==
  ASSUME NEW w \in Seq(Block)
  PROVE  \A i \in DOMAIN w : w[i][1] \in 0..Window + 1 /\ w[i][2] \in -MaxStall..MaxBacklog
BY DEF Block

\* What stays in the window are the blocks that are young enough
LEMMA DropOldKeeps ==
  ASSUME NEW w \in Seq(Block), Rising(w)
  PROVE  /\ DropOld(w) \in Seq(Block) /\ Rising(DropOld(w))
         /\ Blocks(DropOld(w)) = {b \in Blocks(w) : b[1] <= Window}
<1> DEFINE fresh == {i \in DOMAIN w : w[i][1] <= Window}
           first == CHOOSE i \in fresh : \A j \in fresh : i <= j
<1>1. CASE fresh = {}
  <2>1. DropOld(w) = <<>> BY <1>1 DEF DropOld
  <2> QED BY <1>1, <2>1 DEF Rising, Blocks
<1>2. CASE fresh # {}
  <2>1. DropOld(w) = SubSeq(w, first, Len(w)) BY <1>2 DEF DropOld
  <2>2. fresh \subseteq 1..Len(w) /\ Len(w) \in Nat OBVIOUS
  <2>3. first \in fresh /\ \A j \in fresh : first <= j BY <1>2, <2>2, FirstOf
  <2>4. first \in 1..Len(w) BY <2>2, <2>3
  <2>5. first \in 1..Len(w) + 1 /\ Len(w) \in first - 1..Len(w) BY <2>2, <2>4
  <2>6. \A i \in DOMAIN w : i \in fresh <=> i >= first
    <3>1. \A i \in DOMAIN w : i > first => w[i][1] <= w[first][1]
      BY <2>4 DEF Rising
    <3>2. w[first][1] <= Window BY <2>3
    <3>3. \A i \in DOMAIN w : w[i][1] \in Nat BY BlockTypes
    <3>4. \A i \in DOMAIN w : i > first => w[i][1] <= Window
      BY <2>4, <3>1, <3>2, <3>3, ClockAssumption
    <3>5. \A i \in DOMAIN w : i \in fresh => i >= first BY <2>3
    <3>6. \A i \in DOMAIN w : i > first => i \in fresh BY <3>4
    <3>7. \A i \in DOMAIN w : i \in 1..Len(w) OBVIOUS
    <3> HIDE DEF first, fresh
    <3>8. ASSUME NEW i \in DOMAIN w, i >= first PROVE i \in fresh
      <4>1. i = first \/ i > first BY <2>4, <3>7, <3>8
      <4> QED BY <2>3, <3>6, <4>1
    <3> QED BY <3>5, <3>8
  <2> HIDE DEF first, fresh
  <2>7. /\ DropOld(w) \in Seq(Block) /\ Rising(DropOld(w))
        /\ DOMAIN DropOld(w) = 1..Len(w) - first + 1
        /\ \A i \in 1..Len(w) - first + 1 : DropOld(w)[i] = w[first + i - 1] /\ first + i - 1 \in DOMAIN w
    BY <2>1, <2>5, Part, RisingPart
  <2>8. Blocks(DropOld(w)) = {w[i] : i \in fresh}
    <3>1. \A i \in DOMAIN DropOld(w) : DropOld(w)[i] \in {w[j] : j \in fresh}
      <4>1. \A i \in DOMAIN DropOld(w) : first + i - 1 >= first BY <2>4, <2>7
      <4> QED BY <2>6, <2>7, <4>1
    <3>2. ASSUME NEW j \in fresh PROVE \E i \in DOMAIN DropOld(w) : DropOld(w)[i] = w[j]
      <4>1. j \in 1..Len(w) /\ j >= first BY <2>2, <2>6
      <4>2. j - first + 1 \in 1..Len(w) - first + 1 /\ first + (j - first + 1) - 1 = j
        BY <2>2, <2>4, <4>1
      <4> QED BY <2>7, <4>2
    <3> QED BY <3>1, <3>2 DEF Blocks
  <2>9. {w[i] : i \in fresh} = {b \in Blocks(w) : b[1] <= Window} BY DEF fresh, Blocks
  <2> QED BY <2>7, <2>8, <2>9
<1> QED BY <1>1, <1>2

\* What the new block does not replace are the blocks with a smaller offset
LEMMA DropLargerKeeps ==
  ASSUME NEW w \in Seq(Block), Rising(w), NEW o \in Int
  PROVE  /\ DropLarger(w, o) \in Seq(Block) /\ Rising(DropLarger(w, o))
         /\ Blocks(DropLarger(w, o)) = {b \in Blocks(w) : b[2] < o}
<1> DEFINE smaller == {i \in DOMAIN w : w[i][2] < o}
           last == CHOOSE i \in smaller : \A j \in smaller : i >= j
<1>1. CASE smaller = {}
  <2>1. DropLarger(w, o) = <<>> BY <1>1 DEF DropLarger
  <2> QED BY <1>1, <2>1 DEF Rising, Blocks
<1>2. CASE smaller # {}
  <2>1. DropLarger(w, o) = SubSeq(w, 1, last) BY <1>2 DEF DropLarger
  <2>2. smaller \subseteq 1..Len(w) /\ Len(w) \in Nat OBVIOUS
  <2>3. last \in smaller /\ \A j \in smaller : last >= j BY <1>2, <2>2, LastOf
  <2>4. last \in 1..Len(w) BY <2>2, <2>3
  <2>5. 1 \in 1..Len(w) + 1 /\ last \in 1 - 1..Len(w) BY <2>2, <2>4
  <2>6. \A i \in DOMAIN w : i \in smaller <=> i <= last
    <3>1. \A i \in DOMAIN w : i < last => w[i][2] < w[last][2] BY <2>4 DEF Rising
    <3>2. w[last][2] < o BY <2>3
    <3>3. \A i \in DOMAIN w : w[i][2] \in Int BY BlockTypes, ClockAssumption
    <3>4. \A i \in DOMAIN w : i < last => w[i][2] < o BY <2>4, <3>1, <3>2, <3>3
    <3>5. \A i \in DOMAIN w : i \in smaller => i <= last BY <2>3
    <3>6. \A i \in DOMAIN w : i < last => i \in smaller BY <3>4
    <3>7. \A i \in DOMAIN w : i \in 1..Len(w) OBVIOUS
    <3> HIDE DEF last, smaller
    <3>8. ASSUME NEW i \in DOMAIN w, i <= last PROVE i \in smaller
      <4>1. i = last \/ i < last BY <2>4, <3>7, <3>8
      <4> QED BY <2>3, <3>6, <4>1
    <3> QED BY <3>5, <3>8
  <2> HIDE DEF last, smaller
  <2>7. /\ DropLarger(w, o) \in Seq(Block) /\ Rising(DropLarger(w, o))
        /\ DOMAIN DropLarger(w, o) = 1..last - 1 + 1
        /\ \A i \in 1..last - 1 + 1 : DropLarger(w, o)[i] = w[1 + i - 1]
    BY <2>1, <2>5, Part, RisingPart
  <2>8. /\ DOMAIN DropLarger(w, o) = 1..last
        /\ \A i \in 1..last : DropLarger(w, o)[i] = w[i] /\ i \in DOMAIN w
    <3>1. \A i \in 1..last : 1 + i - 1 = i /\ i \in 1..last - 1 + 1 BY <2>4
    <3> QED BY <2>2, <2>4, <2>7, <3>1
  <2>9. Blocks(DropLarger(w, o)) = {w[i] : i \in smaller}
    <3>1. \A i \in 1..last : i \in smaller BY <2>6, <2>8
    <3>2. \A i \in smaller : i \in 1..last BY <2>2, <2>4, <2>6
    <3> QED BY <2>8, <3>1, <3>2 DEF Blocks
  <2>10. {w[i] : i \in smaller} = {b \in Blocks(w) : b[2] < o} BY DEF smaller, Blocks
  <2> QED BY <2>7, <2>9, <2>10
<1> QED BY <1>1, <1>2

LEMMA RisingBehind ==
  ASSUME NEW w \in Seq(Block), Rising(w), NEW b \in Block,
         \A c \in Blocks(w) : b[1] <= c[1] /\ c[2] < b[2]
  PROVE  /\ Append(w, b) \in Seq(Block) /\ Rising(Append(w, b)) /\ Append(w, b) # <<>>
         /\ Blocks(Append(w, b)) = Blocks(w) \cup {b}
<1>1. \A i \in DOMAIN w : b[1] <= w[i][1] /\ w[i][2] < b[2] BY DEF Blocks
<1>2. \A i \in DOMAIN w : i \in Nat /\ i < Len(w) + 1 OBVIOUS
<1>3. Rising(Append(w, b)) BY <1>1, <1>2, Behind DEF Rising
<1>4. Blocks(Append(w, b)) = Blocks(w) \cup {b} BY Behind DEF Blocks
<1> QED BY <1>3, <1>4, Behind

LEMMA WithBlockIs ==
  ASSUME NEW w \in Seq(Block), Rising(w), NEW o \in 0..MaxBacklog
  PROVE  LET v == WithBlock(w, o)
         IN /\ v \in Seq(Block) /\ Rising(v) /\ v # <<>>
            /\ Blocks(v) = {b \in Blocks(w) : b[1] <= Window /\ b[2] < o} \cup {<<0, o>>}
<1> DEFINE young == DropOld(w)
           kept == DropLarger(young, o)
           new == <<0, o>>
<1>1. young \in Seq(Block) /\ Rising(young) /\ Blocks(young) = {b \in Blocks(w) : b[1] <= Window}
  BY DropOldKeeps
<1> HIDE DEF young
<1>2. /\ kept \in Seq(Block) /\ Rising(kept)
      /\ Blocks(kept) = {b \in Blocks(young) : b[2] < o}
  <2>1. o \in Int BY ClockAssumption
  <2> QED BY <1>1, <2>1, DropLargerKeeps
<1>3. new \in Block /\ new[1] = 0 /\ new[2] = o BY ClockAssumption DEF Block
<1> HIDE DEF kept, new
<1>4. \A c \in Blocks(kept) : new[1] <= c[1] /\ c[2] < new[2]
  <2>1. \A i \in DOMAIN kept : kept[i][1] \in 0..Window + 1 BY <1>2, BlockTypes
  <2>2. \A c \in Blocks(kept) : 0 <= c[1] BY <2>1, ClockAssumption DEF Blocks
  <2> QED BY <1>2, <1>3, <2>2
<1>5. /\ Append(kept, new) \in Seq(Block) /\ Rising(Append(kept, new)) /\ Append(kept, new) # <<>>
      /\ Blocks(Append(kept, new)) = Blocks(kept) \cup {new}
  BY <1>2, <1>3, <1>4, RisingBehind
<1>6. WithBlock(w, o) = Append(kept, new) BY DEF WithBlock, young, kept, new
<1> QED BY <1>1, <1>2, <1>5, <1>6 DEF new

\* The first one has the smallest offset
LEMMA FirstIsLeast ==
  ASSUME NEW w \in Seq(Block), Rising(w), w # <<>>
  PROVE  w[1] \in Blocks(w) /\ w[1] \in Block /\ \A b \in Blocks(w) : w[1][2] <= b[2]
<1>1. 1 \in DOMAIN w /\ \A i \in DOMAIN w : i = 1 \/ 1 < i OBVIOUS
<1>2. \A i \in DOMAIN w : w[i][2] \in Int BY BlockTypes, ClockAssumption
<1>3. \A i \in DOMAIN w : w[1][2] <= w[i][2] BY <1>1, <1>2 DEF Rising
<1>4. w[1] \in Block BY <1>1
<1> QED BY <1>1, <1>3, <1>4 DEF Blocks

--------------------------------------------------------------------------------
(* The clock *)

LEMMA Quotients ==
  ASSUME NEW a \in Nat, NEW b \in Nat \ {0}
  PROVE  a \div b \in Nat /\ a % b \in 0..b - 1
OBVIOUS

LEMMA Products == ASSUME NEW a \in Nat, NEW b \in Nat PROVE a * b \in Nat
OBVIOUS

LEMMA Grows ==
  ASSUME NEW most \in Nat, NEW x \in 0..most
  PROVE  Grow(x, most) \in 0..most /\ Grow(x, most) >= x /\ (x < most => Grow(x, most) = x + 1)
         /\ (x = most => Grow(x, most) = most)
BY DEF Grow, Least

\* base never passes its target, and comes nearer by one unit at least
LEMMA NewBaseIs ==
  ASSUME NEW target \in Int, err \in Int, blockAge \in Nat
  PROVE  /\ NewBase(target) \in Int
         /\ err <= target => err <= NewBase(target) /\ NewBase(target) <= target
         /\ target <= err => target <= NewBase(target) /\ NewBase(target) <= err
         /\ NewBase(target) # target =>
              /\ Abs(target - err) <= Hard
              /\ err < target => NewBase(target) >= err + 1
              /\ target < err => NewBase(target) <= err - 1
<1> DEFINE lim == blockAge \div SlewPer + 1
           d == target - err
<1>1. lim \in Nat /\ lim >= 1
  <2>1. SlewPer \in Nat \ {0} BY ClockAssumption
  <2>2. blockAge \div SlewPer \in Nat BY <2>1, Quotients
  <2> QED BY <2>2
<1> HIDE DEF lim
<1>2. CASE NewBase(target) = target BY <1>2
<1>3. CASE /\ NewBase(target) = err + IF d > lim THEN lim ELSE IF d < -lim THEN -lim ELSE d
           /\ Abs(d) <= Hard
  BY <1>1, <1>3
<1>4. \/ NewBase(target) = target
      \/ /\ NewBase(target) = err + IF d > lim THEN lim ELSE IF d < -lim THEN -lim ELSE d
         /\ ~(Abs(d) > Hard)
  BY DEF NewBase, lim
<1>5. Abs(d) \in Int /\ Hard \in Int BY ClockAssumption DEF Abs
<1> QED BY <1>2, <1>3, <1>4, <1>5

\* What was as old stays as old
LEMMA GrowsAlike ==
  ASSUME NEW x \in Nat, NEW y \in Nat, NEW most \in Nat, x <= y
  PROVE  Grow(x, most) <= Grow(y, most)
BY DEF Grow, Least

\* Time makes the blocks older and leaves their order
LEMMA Ageing ==
  ASSUME NEW w \in Seq(Block), Rising(w), NEW back \in {0, 1}, NEW v,
         v = [i \in DOMAIN w |-> <<Grow(w[i][1], Window + 1), w[i][2] - back>>],
         \A b \in Blocks(w) : b[2] - back >= -MaxStall
  PROVE  /\ v \in Seq(Block) /\ Rising(v)
         /\ Blocks(v) = {<<Grow(b[1], Window + 1), b[2] - back>> : b \in Blocks(w)}
<1>1. \A i \in DOMAIN w : w[i][1] \in 0..Window + 1 /\ w[i][2] \in -MaxStall..MaxBacklog
  BY BlockTypes
<1>2. Window + 1 \in Nat /\ MaxStall \in Nat /\ MaxBacklog \in Nat BY ClockAssumption
<1>3. \A i \in DOMAIN w : Grow(w[i][1], Window + 1) \in 0..Window + 1 BY <1>1, <1>2, Grows
<1>4. \A i \in DOMAIN w : w[i][2] - back \in -MaxStall..MaxBacklog
  BY <1>1, <1>2 DEF Blocks
<1>5. \A i \in DOMAIN w : v[i] \in Block BY <1>3, <1>4 DEF Block
<1>6. DOMAIN v = DOMAIN w /\ DOMAIN w = 1..Len(w) /\ Len(w) \in Nat OBVIOUS
<1>7. v \in Seq(Block)
  <2>1. v = [i \in 1..Len(w) |-> v[i]] BY <1>6
  <2> QED BY <1>5, <1>6, <2>1
<1>8. Rising(v)
  <2>1. ASSUME NEW i \in DOMAIN w, NEW j \in DOMAIN w, i < j
        PROVE  v[j][1] <= v[i][1] /\ v[i][2] < v[j][2]
    <3>1. w[j][1] <= w[i][1] /\ w[i][2] < w[j][2] BY <2>1 DEF Rising
    <3>2. Grow(w[j][1], Window + 1) <= Grow(w[i][1], Window + 1)
      <4>1. w[j][1] \in Nat /\ w[i][1] \in Nat BY <1>1, <1>2
      <4> QED BY <1>2, <3>1, <4>1, GrowsAlike
    <3>3. w[i][2] - back < w[j][2] - back BY <1>1, <1>2, <3>1
    <3> QED BY <3>2, <3>3
  <2> QED BY <1>6, <2>1 DEF Rising
<1>9. Blocks(v) = {<<Grow(b[1], Window + 1), b[2] - back>> : b \in Blocks(w)}
  BY <1>6 DEF Blocks
<1> QED BY <1>7, <1>8, <1>9

LEMMA Constants ==
  /\ Chunk \in Nat \ {0} /\ Window \in Nat \ {0} /\ Settle \in Nat /\ Hard \in Nat \ {0}
  /\ SlewPer \in Nat \ {0} /\ MaxBacklog \in Nat \ {0} /\ MaxStall \in Nat /\ SlewPer * Hard \in Nat
<1>1. /\ Chunk \in Nat \ {0} /\ Window \in Nat \ {0} /\ Settle \in Nat /\ Hard \in Nat \ {0}
      /\ SlewPer \in Nat \ {0} /\ MaxBacklog \in Nat \ {0} /\ MaxStall \in Nat
  BY ClockAssumption
<1> QED BY <1>1, Products

LEMMA WindowGrows ==
  ASSUME NEW x \in 0..Window + 1
  PROVE  /\ Grow(x, Window + 1) \in 0..Window + 1 /\ Grow(x, Window + 1) \in Nat
         /\ x <= Window => Grow(x, Window + 1) = x + 1
         /\ x = Window + 1 => Grow(x, Window + 1) = Window + 1
         /\ Grow(x, Window + 1) <= Window => Grow(x, Window + 1) = x + 1
BY Constants DEF Grow, Least

\* What a state says of its window, in numbers
LEMMA ClockNow ==
  ASSUME ClockInv
  PROVE  /\ win \in Seq(Block) /\ Rising(win)
         /\ \A b \in Blocks(win) :
              /\ b[1] \in 0..Window + 1 /\ b[1] \in Nat
              /\ b[2] \in Int /\ -MaxStall <= b[2] /\ b[2] <= MaxBacklog
<1>1. win \in Seq(Block) /\ Rising(win) BY DEF ClockInv, ClockTypeOK, Block
<1>2. \A i \in DOMAIN win : win[i][1] \in 0..Window + 1 /\ win[i][2] \in -MaxStall..MaxBacklog
  BY <1>1, BlockTypes
<1>3. \A b \in Blocks(win) : b[1] \in 0..Window + 1 /\ b[2] \in -MaxStall..MaxBacklog
  BY <1>2 DEF Blocks
<1> QED BY <1>1, <1>3, Constants

\* The clocks that time moves
LEMMA PassKeeps ==
  ASSUME ClockInv, Pass
  PROVE  /\ since' \in {NotStarted} \cup 0..Settle /\ blockAge' \in 0..SlewPer * Hard
         /\ punctual' \in 0..Window + 1
         /\ punctual' <= Window => punctual' = punctual + 1 /\ punctual \in Nat /\ punctual <= Window
         /\ fill' \in 0..Chunk - 1 /\ verified' \in BOOLEAN /\ todo' \in Nat
<1>1. /\ blockAge \in 0..SlewPer * Hard /\ punctual \in 0..Window + 1
      /\ since \in {NotStarted} \cup 0..Settle
  BY DEF ClockInv, ClockTypeOK
<1>2. blockAge' \in 0..SlewPer * Hard
  <2>1. SlewPer * Hard \in Nat BY Constants
  <2> QED BY <1>1, <2>1, Grows DEF Pass
<1>3. /\ punctual' \in 0..Window + 1
      /\ punctual' <= Window => punctual' = punctual + 1
  BY <1>1, WindowGrows DEF Pass
<1>4. punctual' <= Window => punctual \in Nat /\ punctual <= Window
  BY <1>1, <1>3, Constants
<1>5. since' \in {NotStarted} \cup 0..Settle
  <2>1. CASE since = NotStarted BY <2>1 DEF Pass
  <2>2. CASE since # NotStarted
    <3>1. since \in 0..Settle /\ Settle \in Nat BY <1>1, <2>2, Constants
    <3>2. Grow(since, Settle) \in 0..Settle BY <3>1, Grows
    <3> QED BY <2>2, <3>2 DEF Pass
  <2> QED BY <2>1, <2>2
<1> QED BY <1>2, <1>3, <1>4, <1>5 DEF Pass, ClockInv, ClockTypeOK

LEMMA TickKeeps == ASSUME ClockInv, Tick PROVE ClockInv'
<1>1. /\ Pass /\ backlog' = backlog + 1 /\ backlog < MaxBacklog /\ win' = Aged(win)
      /\ stalled' = Grow(stalled, Window + 1) /\ UNCHANGED <<err, steady, still>>
  BY DEF Tick
<1>2. win' = [i \in DOMAIN win |-> <<Grow(win[i][1], Window + 1), win[i][2] - 0>>]
  <2>1. \A i \in DOMAIN win : win[i][2] \in Int BY ClockNow DEF Blocks
  <2>2. \A i \in DOMAIN win : win[i][2] - 0 = win[i][2] BY <2>1
  <2> QED BY <1>1, <2>2 DEF Aged
<1>3. \A b \in Blocks(win) : b[2] - 0 >= -MaxStall /\ b[2] - 0 = b[2] BY ClockNow, Constants
<1>4. /\ win' \in Seq(Block) /\ Rising(win')
      /\ Blocks(win') = {<<Grow(b[1], Window + 1), b[2] - 0>> : b \in Blocks(win)}
  BY <1>2, <1>3, Ageing, ClockNow
<1>5. \A b \in Blocks(win) : b[1] \in 0..Window + 1 /\ b[2] \in Int BY ClockNow
<1>6. /\ stalled' \in 0..Window + 1 /\ (stalled <= Window => stalled' = stalled + 1)
      /\ stalled \in 0..Window + 1 /\ Window \in Nat
  <2>1. stalled \in 0..Window + 1 BY DEF ClockInv, ClockTypeOK
  <2> QED BY <1>1, <2>1, WindowGrows, Constants
<1>7. \A b \in Blocks(win) :
        /\ Grow(b[1], Window + 1) \in Nat
        /\ b[1] <= Window => Grow(b[1], Window + 1) = b[1] + 1
        /\ b[1] = Window + 1 => Grow(b[1], Window + 1) = Window + 1
  BY <1>5, WindowGrows
<1>8. NotBefore' BY <1>1, <1>3, <1>4 DEF ClockInv, NotBefore
<1>9. SinceStall'
  <2>1. ASSUME NEW b \in Blocks(win), Grow(b[1], Window + 1) <= Window, Grow(b[1], Window + 1) <= stalled'
        PROVE  b[2] - 0 >= 0
    <3>1. b[1] <= Window /\ b[1] <= stalled BY <1>5, <1>6, <1>7, <2>1
    <3> QED BY <1>3, <3>1 DEF ClockInv, SinceStall
  <2> QED BY <1>4, <2>1 DEF SinceStall
<1>10. InTime'
  <2> SUFFICES ASSUME punctual' <= Window
               PROVE  \E b \in Blocks(win') : b[1] <= punctual' /\ b[2] <= 0
    BY DEF InTime
  <2>1. punctual' = punctual + 1 /\ punctual \in Nat /\ punctual <= Window
    BY <1>1, PassKeeps
  <2>2. PICK b \in Blocks(win) : b[1] <= punctual /\ b[2] <= 0
    BY <2>1 DEF ClockInv, InTime
  <2>3. Grow(b[1], Window + 1) = b[1] + 1 /\ b[1] + 1 <= punctual' /\ b[2] - 0 <= 0
    BY <1>3, <1>5, <1>6, <1>7, <2>1, <2>2
  <2>4. <<Grow(b[1], Window + 1), b[2] - 0>> \in Blocks(win') BY <1>4
  <2> QED BY <2>3, <2>4
<1>11. ClockTypeOK'
  <2>1. backlog' \in 0..MaxBacklog
    <3>1. backlog \in 0..MaxBacklog /\ MaxBacklog \in Nat BY Constants DEF ClockInv, ClockTypeOK
    <3> QED BY <1>1, <3>1
  <2> QED BY <1>1, <1>4, <1>6, <2>1, PassKeeps DEF ClockInv, ClockTypeOK, Block
<1>12. ComesBack' BY <1>1 DEF ClockInv, ComesBack
<1> QED BY <1>4, <1>8, <1>9, <1>10, <1>11, <1>12 DEF ClockInv

\* The source stands still: every offset falls by one, and nothing that was
\* read before counts as being since
LEMMA StallKeeps == ASSUME ClockInv, Stall PROVE ClockInv'
<1>1. /\ Pass /\ UNCHANGED backlog /\ err' = err - 1
      /\ win' = [i \in DOMAIN win |-> <<Grow(win[i][1], Window + 1), win[i][2] - 1>>]
      /\ stalled' = 0 /\ steady' = 0 /\ still' = still + 1 /\ still < MaxStall
  BY DEF Stall, Aged
<1>2. /\ still \in 0..MaxStall /\ MaxStall \in Nat /\ Window \in Nat /\ err \in -MaxStall..MaxBacklog
      /\ Hard \in Nat /\ MaxBacklog \in Nat
  BY Constants DEF ClockInv, ClockTypeOK
<1>3. \A b \in Blocks(win) : b[1] \in 0..Window + 1 /\ b[2] \in Int BY ClockNow
<1>4. \A b \in Blocks(win) : b[2] - 1 >= -still' /\ -still' >= -MaxStall
  BY <1>1, <1>2, <1>3 DEF ClockInv, NotBefore
<1>5. \A b \in Blocks(win) : b[2] - 1 >= -MaxStall BY <1>1, <1>2, <1>3, <1>4
<1>6. /\ win' \in Seq(Block) /\ Rising(win')
      /\ Blocks(win') = {<<Grow(b[1], Window + 1), b[2] - 1>> : b \in Blocks(win)}
  BY <1>1, <1>5, Ageing, ClockNow
<1>7. \A b \in Blocks(win) :
        /\ Grow(b[1], Window + 1) \in Nat
        /\ b[1] <= Window => Grow(b[1], Window + 1) = b[1] + 1
        /\ b[1] = Window + 1 => Grow(b[1], Window + 1) = Window + 1
  BY <1>3, WindowGrows
<1>8. err' >= -still' BY <1>1, <1>2 DEF ClockInv, NotBefore
<1>9. NotBefore' BY <1>4, <1>6, <1>8 DEF NotBefore
<1>10. SinceStall'
  <2>1. \A b \in Blocks(win) : ~(Grow(b[1], Window + 1) <= 0) BY <1>2, <1>3, <1>7
  <2> QED BY <1>1, <1>6, <2>1 DEF SinceStall
<1>11. InTime'
  <2> SUFFICES ASSUME punctual' <= Window
               PROVE  \E b \in Blocks(win') : b[1] <= punctual' /\ b[2] <= 0
    BY DEF InTime
  <2>1. punctual' = punctual + 1 /\ punctual \in Nat /\ punctual <= Window
    BY <1>1, PassKeeps
  <2>2. PICK b \in Blocks(win) : b[1] <= punctual /\ b[2] <= 0
    BY <2>1 DEF ClockInv, InTime
  <2>3. Grow(b[1], Window + 1) = b[1] + 1 /\ b[1] + 1 <= punctual' /\ b[2] - 1 <= 0
    BY <1>2, <1>3, <1>7, <2>1, <2>2
  <2>4. <<Grow(b[1], Window + 1), b[2] - 1>> \in Blocks(win') BY <1>6
  <2> QED BY <2>3, <2>4
<1>12. ClockTypeOK'
  <2>1. err' \in -MaxStall..MaxBacklog /\ still' \in 0..MaxStall BY <1>1, <1>2, <1>8
  <2>2. stalled' \in 0..Window + 1 /\ steady' \in 0..Hard BY <1>1, <1>2
  <2> QED BY <1>1, <1>6, <2>1, <2>2, PassKeeps DEF ClockInv, ClockTypeOK, Block
<1>13. ComesBack' BY <1>1 DEF ComesBack
<1> QED BY <1>6, <1>9, <1>10, <1>11, <1>12, <1>13 DEF ClockInv

\* A block is read: with one in time in the window the target is the true
\* offset, and base comes nearer to it or is there
LEMMA ReadKeeps == ASSUME ClockInv, NEW n \in 1..MaxBacklog, Read(n) PROVE ClockInv'
<1> DEFINE o == backlog - n
           lateness == IF o = 0 THEN 0 ELSE punctual
           target == win'[1][2]
<1>1. /\ n <= backlog /\ backlog' = o /\ win' = WithBlock(win, o) /\ err' = NewBase(target)
      /\ punctual' = lateness
      /\ steady' = IF lateness <= Window /\ stalled > Window THEN Grow(steady, Hard) ELSE 0
      /\ since' = (IF since = NotStarted THEN 0 ELSE since) /\ blockAge' = 0
      /\ fill' = (fill + n) % Chunk
      /\ todo' = IF verified THEN (fill + n) \div Chunk ELSE 0
      /\ UNCHANGED <<verified, stalled, still>>
  BY DEF Read
<1>2. /\ backlog \in 0..MaxBacklog /\ err \in -MaxStall..MaxBacklog /\ fill \in 0..Chunk - 1
      /\ stalled \in 0..Window + 1 /\ punctual \in 0..Window + 1 /\ steady \in 0..Hard
      /\ still \in 0..MaxStall /\ blockAge \in 0..SlewPer * Hard /\ verified \in BOOLEAN
      /\ since \in {NotStarted} \cup 0..Settle
  BY DEF ClockInv, ClockTypeOK
<1>3. o \in 0..MaxBacklog BY <1>1, <1>2, Constants
<1>4. /\ win' \in Seq(Block) /\ Rising(win') /\ win' # <<>>
      /\ Blocks(win') = {b \in Blocks(win) : b[1] <= Window /\ b[2] < o} \cup {<<0, o>>}
  BY <1>1, <1>3, ClockNow, WithBlockIs
<1>5. win'[1] \in Blocks(win') /\ win'[1] \in Block /\ \A b \in Blocks(win') : target <= b[2]
  BY <1>4, FirstIsLeast
<1>6. target \in Int /\ -MaxStall <= target /\ target <= MaxBacklog
  BY <1>5, Constants DEF Block
<1>7. lateness \in 0..Window + 1 BY <1>2, Constants
<1> HIDE DEF o, lateness
<1>8. \A b \in Blocks(win') : b[2] >= -still
  BY <1>2, <1>3, <1>4, Constants DEF ClockInv, NotBefore
<1> HIDE DEF target
<1>9. /\ NewBase(target) \in Int
      /\ err <= target => err <= NewBase(target) /\ NewBase(target) <= target
      /\ target <= err => target <= NewBase(target) /\ NewBase(target) <= err
      /\ NewBase(target) # target =>
           /\ Abs(target - err) <= Hard
           /\ err < target => NewBase(target) >= err + 1
           /\ target < err => NewBase(target) <= err - 1
  <2>1. err \in Int /\ blockAge \in Nat BY <1>2, Constants
  <2> QED BY <1>6, <2>1, NewBaseIs
<1>10. NotBefore'
  <2>1. target >= -still BY <1>5, <1>8 DEF target
  <2>2. err >= -still /\ err \in Int /\ still \in Int BY <1>2, Constants DEF ClockInv, NotBefore
  <2>3. NewBase(target) >= -still BY <1>6, <1>9, <2>1, <2>2
  <2> QED BY <1>1, <1>8, <2>3 DEF NotBefore
<1>11. SinceStall'
  BY <1>1, <1>3, <1>4 DEF ClockInv, SinceStall
<1>12. InTime'
  <2> SUFFICES ASSUME lateness <= Window PROVE \E b \in Blocks(win') : b[1] <= lateness /\ b[2] <= 0
    BY <1>1 DEF InTime
  <2>1. CASE o = 0
    <3>1. <<0, o>> \in Blocks(win') /\ lateness = 0 BY <1>4, <2>1 DEF lateness
    <3> QED BY <2>1, <3>1
  <2>2. CASE o # 0
    <3>1. lateness = punctual BY <2>2 DEF lateness
    <3>2. PICK b \in Blocks(win) : b[1] <= punctual /\ b[2] <= 0 BY <3>1 DEF ClockInv, InTime
    <3>3. b[1] \in Nat /\ b[2] \in Int BY ClockNow
    <3>4. b[1] <= Window /\ b[2] < o BY <1>2, <1>3, <2>2, <3>1, <3>2, <3>3, Constants
    <3> QED BY <1>4, <3>1, <3>2, <3>4
  <2> QED BY <2>1, <2>2
<1>13. ComesBack'
  <2> SUFFICES ASSUME lateness <= Window, stalled > Window
               PROVE  Abs(NewBase(target)) <= Hard - Grow(steady, Hard)
    BY <1>1 DEF ComesBack
  <2>1. \A b \in Blocks(win') : b[2] >= 0
    <3>1. ASSUME NEW b \in Blocks(win), b[1] <= Window PROVE b[2] >= 0
      <4>1. b[1] <= stalled BY <1>2, <3>1, ClockNow, Constants
      <4> QED BY <3>1, <4>1 DEF ClockInv, SinceStall
    <3> QED BY <1>3, <1>4, <3>1
  <2>2. \E b \in Blocks(win') : b[2] <= 0 BY <1>1, <1>12 DEF InTime
  <2>3. \A b \in Blocks(win') : b[2] \in Int
    BY <1>3, <1>4, ClockNow, Constants
  <2>4. target = 0
    <3>1. target >= 0 BY <1>5, <2>1 DEF target
    <3>2. target <= 0 BY <1>5, <1>6, <2>2, <2>3 DEF target
    <3> QED BY <1>6, <3>1, <3>2
  <2>5. CASE NewBase(target) = 0
    <3>1. Grow(steady, Hard) \in 0..Hard BY <1>2, Grows, Constants
    <3>2. Abs(0) = 0 BY DEF Abs
    <3> QED BY <2>5, <3>1, <3>2, Constants
  <2>6. CASE NewBase(target) # 0
    <3>1. /\ Abs(0 - err) <= Hard /\ err # 0
          /\ err < 0 => err + 1 <= NewBase(target) /\ NewBase(target) < 0
          /\ 0 < err => NewBase(target) <= err - 1 /\ 0 < NewBase(target)
      BY <1>2, <1>6, <1>9, <2>4, <2>6, Constants
    <3>2. Abs(NewBase(target)) <= Abs(err) - 1 /\ Abs(err) <= Hard
      BY <1>2, <1>9, <3>1, Constants DEF Abs
    <3>3. Abs(err) <= Hard - steady
      BY <1>2, <3>2, Constants DEF ClockInv, ComesBack
    <3>4. Grow(steady, Hard) <= steady + 1 BY <1>2, Constants DEF Grow, Least
    <3>5. /\ Abs(NewBase(target)) \in Int /\ Abs(err) \in Int /\ steady \in Int /\ Hard \in Int
          /\ Grow(steady, Hard) \in Int
      BY <1>2, <1>9, Constants DEF Abs, Grow, Least
    <3> QED BY <3>2, <3>3, <3>4, <3>5
  <2> QED BY <2>5, <2>6
<1>14. ClockTypeOK'
  <2>1. err' \in -MaxStall..MaxBacklog
    BY <1>1, <1>2, <1>6, <1>9, Constants
  <2>2. fill' \in 0..Chunk - 1 /\ todo' \in Nat
    <3>1. fill + n \in Nat /\ Chunk \in Nat \ {0} BY <1>2, Constants
    <3> QED BY <1>1, <3>1, Quotients
  <2>3. steady' \in 0..Hard BY <1>1, <1>2, Grows, Constants
  <2>4. since' \in {NotStarted} \cup 0..Settle /\ blockAge' \in 0..SlewPer * Hard
    BY <1>1, <1>2, Constants
  <2> QED BY <1>1, <1>2, <1>3, <1>4, <1>7, <2>1, <2>2, <2>3, <2>4 DEF ClockTypeOK, Block
<1> QED BY <1>4, <1>10, <1>11, <1>12, <1>13, <1>14 DEF ClockInv

\* What leaves offsets, ages and stalls alone
LEMMA OffsetsStay ==
  ASSUME ClockInv, UNCHANGED <<err, win, punctual, stalled, steady, still>>, ClockTypeOK'
  PROVE  ClockInv'
BY DEF ClockInv, NotBefore, SinceStall, InTime, ComesBack

LEMMA Zeros ==
  /\ 0 \in 0..MaxBacklog /\ 0 \in -MaxStall..MaxBacklog /\ 0 \in 0..Chunk - 1
  /\ 0 \in 0..Hard /\ 0 \in 0..MaxStall /\ 0 \in 0..SlewPer * Hard
  /\ Window + 1 \in 0..Window + 1 /\ ~(Window + 1 <= Window)
<1>1. 0 \in 0..SlewPer * Hard
  <2>1. ASSUME NEW x \in Nat PROVE 0 \in 0..x OBVIOUS
  <2> QED BY <2>1, Constants
<1>2. /\ 0 \in 0..MaxBacklog /\ 0 \in -MaxStall..MaxBacklog /\ 0 \in 0..Chunk - 1
      /\ 0 \in 0..Hard /\ 0 \in 0..MaxStall
      /\ Window + 1 \in 0..Window + 1 /\ ~(Window + 1 <= Window)
  BY Constants
<1> QED BY <1>1, <1>2, Zenon

LEMMA FreshClock ==
  /\ Fresh => ClockInv
  /\ Fresh' => ClockInv'
<1>1. Blocks(<<>>) = {} /\ Rising(<<>>) BY DEF Blocks, Rising
<1>2. /\ Fresh => Rising(win) /\ NotBefore /\ SinceStall /\ InTime /\ ComesBack
      /\ Fresh' => (Rising(win) /\ NotBefore /\ SinceStall /\ InTime /\ ComesBack)'
  BY <1>1, Constants DEF Fresh, NotBefore, SinceStall, InTime, ComesBack
<1>3. <<>> \in Seq((0..Window + 1) \X (-MaxStall..MaxBacklog)) /\ 0 \in Nat OBVIOUS
<1>4. (Fresh => ClockTypeOK) /\ (Fresh' => ClockTypeOK')
  BY <1>3, Zeros, Zenon DEF Fresh, ClockTypeOK
<1> QED BY <1>2, <1>4, Zenon DEF ClockInv

LEMMA ClockKeeps == ASSUME ClockInv, Clock PROVE ClockInv'
<1>1. CASE Tick BY <1>1, TickKeeps
<1>2. CASE Stall BY <1>2, StallKeeps
<1>3. CASE Verify
  <2>1. ClockTypeOK' BY <1>3 DEF Verify, ClockInv, ClockTypeOK
  <2> QED BY <1>3, <2>1, OffsetsStay DEF Verify
<1>4. CASE Restart BY <1>4, FreshClock DEF Restart, Fresh
<1>5. ASSUME NEW n \in 1..MaxBacklog, Hole(n) PROVE ClockInv'
  <2>1. backlog' \in 0..MaxBacklog
    <3>1. backlog \in 0..MaxBacklog BY DEF ClockInv, ClockTypeOK
    <3> QED BY <1>5, <3>1, Constants DEF Hole
  <2>2. ClockTypeOK' BY <1>5, <2>1 DEF Hole, ClockInv, ClockTypeOK
  <2> QED BY <1>5, <2>2, OffsetsStay DEF Hole
<1>6. ASSUME NEW n \in 1..MaxBacklog, Read(n) PROVE ClockInv' BY <1>6, ReadKeeps
<1> QED BY <1>1, <1>2, <1>3, <1>4, <1>5, <1>6 DEF Clock

--------------------------------------------------------------------------------
(* The encoder *)

AnchorType == [sample : Int, pts : Int]

LEMMA Lengths ==
  /\ PerFeed \in Nat \ {0} /\ Au \in Nat \ {0} /\ MaxInside \in Nat \ {0} /\ Priming \in Nat
BY AacAssumption

LEMMA AacNow ==
  ASSUME AacInv
  PROVE  /\ anchors \in Seq(AnchorType) /\ meant \in Seq(Int) /\ Len(meant) \in Nat
         /\ \A i \in DOMAIN anchors : anchors[i] \in AnchorType /\ anchors[i].sample \in Int /\ anchors[i].pts \in Int
         /\ ahead \in Int /\ lead \in Nat /\ inside \in Nat /\ lead <= Priming
         /\ ahead = lead + Len(meant)
         /\ DOMAIN anchors = 1..Len(anchors) /\ Len(anchors) \in Nat /\ DOMAIN meant = 1..Len(meant)
<1>1. anchors \in Seq(AnchorType) /\ meant \in Seq(Int) BY DEF AacInv, AacTypeOK, AnchorType
<1>2. \A i \in DOMAIN anchors : anchors[i] \in AnchorType BY <1>1
<1>3. \A a \in AnchorType : a.sample \in Int /\ a.pts \in Int BY DEF AnchorType
<1>4. ahead \in Int /\ lead \in Nat /\ inside \in Nat /\ lead <= Priming
  BY Lengths DEF AacInv, AacTypeOK
<1>5. ahead = lead + Len(meant) BY <1>4, Lengths DEF AacInv, Counted
<1> QED BY <1>1, <1>2, <1>3, <1>4, <1>5

\* A chunk is noted: its anchor, and what its samples are meant for
LEMMA PushKeeps == ASSUME AacInv, NEW e \in Int, PushAnchor(e) PROVE AacInv'
<1> DEFINE new == Anchor(ahead, ahead + e)
           block == [i \in 1..PerFeed |-> e]
<1>1. /\ ~feeding /\ inside < MaxInside /\ anchors' = Append(anchors, new) /\ ahead' = ahead + PerFeed
      /\ feeding' = TRUE /\ meant' = meant \o block /\ UNCHANGED <<inside, lead, off>>
  BY DEF PushAnchor
<1>2. new \in AnchorType /\ new.sample = ahead /\ new.pts = ahead + e
  BY AacNow DEF Anchor, AnchorType
<1>3. block \in Seq(Int) /\ Len(block) = PerFeed /\ DOMAIN block = 1..PerFeed /\ \A i \in 1..PerFeed : block[i] = e
  BY Lengths
<1> HIDE DEF new, block
<1>4. /\ meant' \in Seq(Int) /\ Len(meant') = Len(meant) + PerFeed
      /\ DOMAIN meant' = 1..Len(meant) + PerFeed
      /\ \A p \in DOMAIN meant : meant'[p] = meant[p]
      /\ \A p \in DOMAIN meant' : p > Len(meant) => meant'[p] = e
      /\ \A p \in DOMAIN meant' : p <= Len(meant) => p \in DOMAIN meant
  <2>1. meant \in Seq(Int) /\ PerFeed \in Nat BY AacNow, Lengths
  <2> DEFINE joined == meant \o block
  <2>2. /\ joined \in Seq(Int) /\ Len(joined) = Len(meant) + Len(block) /\ Len(meant) \in Nat
        /\ DOMAIN joined = 1..Len(meant) + Len(block) /\ DOMAIN meant = 1..Len(meant)
        /\ \A p \in 1..Len(meant) : joined[p] = meant[p]
        /\ \A p \in 1..Len(meant) + Len(block) :
             p > Len(meant) => joined[p] = block[p - Len(meant)] /\ p - Len(meant) \in 1..Len(block)
    <3>1. meant \in Seq(Int) /\ block \in Seq(Int) BY <1>3, <2>1
    <3> QED BY <3>1, Joined
  <2> HIDE DEF joined
  <2>3. meant' = joined BY <1>1 DEF joined
  <2> QED BY <1>3, <2>1, <2>2, <2>3
<1>5. /\ anchors' \in Seq(AnchorType) /\ anchors' # <<>> /\ Len(anchors') = Len(anchors) + 1
      /\ DOMAIN anchors' = DOMAIN anchors \cup {Len(anchors) + 1}
      /\ \A i \in DOMAIN anchors : anchors'[i] = anchors[i] /\ i \in 1..Len(anchors)
      /\ anchors'[Len(anchors) + 1] = new /\ Len(anchors) \in Nat
  BY <1>1, <1>2, AacNow, Behind
<1>6. AacTypeOK'
  BY <1>1, <1>4, <1>5, AacNow, Lengths DEF AacInv, AacTypeOK, AnchorType
<1>7. Counted'
  <2>1. ahead' = lead' + Len(meant') BY <1>1, <1>4, AacNow, Lengths
  <2>2. inside = lead + Len(meant) BY <1>1, AacNow, Lengths DEF AacInv, Counted
  <2>3. inside' = lead' + Len(meant') - PerFeed BY <1>1, <1>4, <2>2, AacNow, Lengths
  <2> QED BY <1>1, <1>5, <2>1, <2>3 DEF Counted
<1>8. Spaced'
  <2>1. ASSUME NEW i \in DOMAIN anchors
        PROVE  /\ anchors'[i].sample + PerFeed = anchors'[i + 1].sample /\ i # Len(anchors')
               /\ anchors'[i].sample + PerFeed <= ahead'
               /\ anchors'[i].sample <= ahead
    <3>1. /\ anchors'[i] = anchors[i] /\ i \in 1..Len(anchors) /\ i # Len(anchors')
          /\ anchors[i].sample \in Int /\ ahead \in Int /\ PerFeed \in Nat /\ ahead' = ahead + PerFeed
      BY <1>1, <1>5, AacNow, Lengths
    <3>2. /\ anchors[i].sample + PerFeed =
               IF i = Len(anchors) THEN ahead ELSE anchors[i + 1].sample
          /\ anchors[i].sample + PerFeed <= ahead
      BY DEF AacInv, Spaced
    <3>3. anchors'[i].sample + PerFeed <= ahead' /\ anchors'[i].sample <= ahead
      BY <3>1, <3>2
    <3>4. CASE i = Len(anchors) BY <1>2, <1>5, <3>1, <3>2, <3>3, <3>4
    <3>5. CASE i # Len(anchors)
      <4>1. i + 1 \in 1..Len(anchors) /\ DOMAIN anchors = 1..Len(anchors)
        <5>1. Len(anchors) \in Nat /\ DOMAIN anchors = 1..Len(anchors) BY AacNow
        <5> QED BY <3>1, <3>5, <5>1
      <4>2. anchors'[i + 1] = anchors[i + 1] BY <1>5, <4>1
      <4> QED BY <3>1, <3>2, <3>3, <3>5, <4>2
    <3> QED BY <3>4, <3>5
  <2>2. anchors'[Len(anchors')].sample = ahead /\ ahead + PerFeed = ahead' /\ ahead + PerFeed <= ahead'
    BY <1>1, <1>2, <1>5, AacNow, Lengths
  <2>3. ASSUME NEW i \in DOMAIN anchors', NEW j \in DOMAIN anchors', i <= j
        PROVE  anchors'[i].sample <= anchors'[j].sample
    <3>1. CASE j \in DOMAIN anchors
      <4>1. i \in DOMAIN anchors BY <1>5, <2>3, <3>1
      <4> QED BY <1>5, <2>3, <3>1, <4>1 DEF AacInv, Spaced
    <3>2. CASE j = Len(anchors')
      <4>1. CASE i \in DOMAIN anchors BY <2>1, <2>2, <3>2, <4>1
      <4>2. CASE i = Len(anchors') BY <2>2, <3>2, <4>2, AacNow
      <4> QED BY <1>5, <4>1, <4>2
    <3> QED BY <1>5, <3>1, <3>2
  <2>4. IF lead' > 0 THEN anchors'[1].sample = lead' ELSE anchors'[1].sample <= 0
    <3>1. CASE anchors = <<>>
      <4>1. anchors'[1] = new /\ ahead = lead BY <1>5, <3>1 DEF AacInv, Counted
      <4>2. lead \in Nat BY AacNow
      <4> QED BY <1>1, <1>2, <4>1, <4>2
    <3>2. CASE anchors # <<>>
      <4>1. 1 \in DOMAIN anchors BY <3>2, AacNow
      <4> QED BY <1>1, <1>5, <3>2, <4>1 DEF AacInv, Spaced
    <3> QED BY <3>1, <3>2
  <2>5. \A i \in DOMAIN anchors' : i \in DOMAIN anchors \/ i = Len(anchors') BY <1>5
  <2> QED BY <2>1, <2>2, <2>3, <2>4, <2>5 DEF Spaced
<1>9. Covers'
  <2> SUFFICES ASSUME NEW i \in DOMAIN anchors', NEW p \in DOMAIN meant',
                      anchors'[i].sample < lead + p, lead + p <= anchors'[i].sample + PerFeed
               PROVE  meant'[p] = anchors'[i].pts - anchors'[i].sample
    BY <1>1 DEF Covers
  <2>1. p \in Nat /\ p \in 1..Len(meant) + PerFeed BY <1>4
  <2>2. CASE i \in DOMAIN anchors
    <3>1. anchors[i].sample + PerFeed <= ahead /\ anchors'[i] = anchors[i] BY <1>5, <2>2 DEF AacInv, Spaced
    <3>2. p <= Len(meant) BY <2>1, <2>2, <3>1, AacNow, Lengths
    <3>3. p \in DOMAIN meant /\ meant'[p] = meant[p] BY <1>4, <3>2
    <3> QED BY <2>2, <3>1, <3>3 DEF AacInv, Covers
  <2>3. CASE i = Len(anchors) + 1
    <3>1. p > Len(meant) BY <1>2, <1>5, <2>1, <2>3, AacNow
    <3>2. meant'[p] = e BY <1>4, <3>1
    <3> QED BY <1>2, <1>5, <2>3, <3>2, AacNow
  <2> QED BY <1>5, <2>2, <2>3
<1>10. StampedAsFed' BY <1>1 DEF AacInv, StampedAsFed
<1> QED BY <1>6, <1>7, <1>8, <1>9, <1>10 DEF AacInv

LEMMA QueueKeeps == ASSUME AacInv, QueueChunk PROVE AacInv'
<1>1. /\ feeding /\ feeding' = FALSE /\ inside' = inside + PerFeed
      /\ UNCHANGED <<anchors, ahead, meant, lead, off>>
  BY DEF QueueChunk
<1>2. anchors # <<>> /\ inside = lead + Len(meant) - PerFeed BY <1>1 DEF AacInv, Counted
<1>3. inside' = lead + Len(meant) BY <1>1, <1>2, AacNow, Lengths
<1>4. Counted' BY <1>1, <1>2, <1>3 DEF AacInv, Counted
<1>5. inside' \in 0..MaxInside + PerFeed
  <2>1. inside < MaxInside /\ inside \in Nat BY <1>1, AacNow DEF AacInv, Counted
  <2> QED BY <1>1, <2>1, Lengths
<1>6. AacTypeOK' BY <1>1, <1>5 DEF AacInv, AacTypeOK
<1>7. (Spaced /\ Covers /\ StampedAsFed)' BY <1>1 DEF AacInv, Spaced, Covers, StampedAsFed
<1> QED BY <1>4, <1>6, <1>7 DEF AacInv

\* The anchor that stays in front is the last one the stream has reached
LEMMA PassedIs ==
  ASSUME NEW as \in Seq(AnchorType), as # <<>>
  PROVE  \E k \in 1..Len(as) :
           /\ Passed(as, 0) = SubSeq(as, k, Len(as))
           /\ k = 1 \/ as[k].sample <= 0
           /\ \A j \in 1..Len(as) : j > k => ~(as[j].sample <= 0)
<1> DEFINE passed == {i \in DOMAIN as : i > 1 /\ as[i].sample <= 0}
           last == CHOOSE i \in passed : \A j \in passed : i >= j
<1>1. Len(as) \in Nat /\ DOMAIN as = 1..Len(as) /\ 1 \in 1..Len(as) BY NotEmpty
<1>2. CASE passed = {}
  <2>1. Passed(as, 0) = as BY <1>2 DEF Passed
  <2>2. as = SubSeq(as, 1, Len(as)) BY Whole
  <2>3. \A j \in 1..Len(as) : j > 1 => ~(as[j].sample <= 0) BY <1>1, <1>2
  <2> QED BY <1>1, <2>1, <2>2, <2>3
<1>3. CASE passed # {}
  <2>1. Passed(as, 0) = SubSeq(as, last, Len(as)) BY <1>3 DEF Passed
  <2>2. passed \subseteq 1..Len(as) BY <1>1
  <2>3. last \in passed /\ \A j \in passed : last >= j BY <1>1, <1>3, <2>2, LastOf
  <2>4. last \in 1..Len(as) /\ last > 1 /\ as[last].sample <= 0 BY <1>1, <2>3
  <2>5. \A j \in passed : last >= j BY <2>3
  <2> HIDE DEF last
  <2>6. ASSUME NEW j \in 1..Len(as), j > last, as[j].sample <= 0 PROVE FALSE
    <3>1. j > 1 BY <2>4, <2>6
    <3>2. j \in passed BY <1>1, <2>6, <3>1
    <3>3. last >= j BY <2>5, <3>2
    <3> QED BY ONLY <1>1, <2>4, <2>6, <3>3
  <2> QED BY <2>1, <2>4, <2>6
<1> QED BY <1>2, <1>3

LEMMA Shifts ==
  ASSUME NEW x \in Int, NEW y \in Int, NEW a \in Int, NEW f \in Int
  PROVE  x - a < y - a /\ y - a <= x - a + f => x < y /\ y <= x + f
OBVIOUS

\* An access unit leaves with the time stamp of its first sample, and all
\* positions move by its length
LEMMA UnitKeeps == ASSUME AacInv, AccessUnit PROVE AacInv'
<1> DEFINE cut == IF lead > Au THEN 0 ELSE Au - lead
           as == Passed(anchors, 0)
<1>1. /\ inside >= Au /\ inside' = inside - Au /\ (inside > Priming \/ lead < Priming)
      /\ lead' = (IF lead > Au THEN lead - Au ELSE 0) /\ meant' = SubSeq(meant, cut + 1, Len(meant))
      /\ feeding' = feeding
  BY DEF AccessUnit, Spend
<1>2. anchors # <<>>
  BY <1>1, AacNow, Lengths DEF AacInv, Counted
<1>3. /\ anchors' = [i \in DOMAIN as |-> Anchor(as[i].sample - Au, as[i].pts - Au)]
      /\ ahead' = ahead - Au /\ off' = as[1].pts + (0 - as[1].sample) - meant[1]
  BY <1>2 DEF AccessUnit
<1>4. inside = lead + Len(meant) - IF feeding THEN PerFeed ELSE 0
  BY <1>2 DEF AacInv, Counted
<1>5. lead \in Nat /\ Len(meant) \in Nat /\ ahead = lead + Len(meant) /\ inside \in Nat
  BY AacNow
<1>lengths. Au \in Int /\ Au >= 1 /\ PerFeed \in Int /\ PerFeed >= 1 /\ ahead \in Int /\ ahead' = ahead - Au
  BY <1>3, <1>5, Lengths
<1>6. cut \in 0..Len(meant) /\ lead' = lead + cut - Au /\ lead' \in Nat
  BY <1>1, <1>4, <1>5, Lengths
<1>7. (lead' > 0 => cut = 0 /\ lead > 0) /\ (lead = 0 => cut = Au) /\ (lead' = 0 => lead <= Au)
  BY <1>1, <1>5, Lengths
<1> HIDE DEF cut
<1>8. /\ meant' \in Seq(Int) /\ Len(meant') = Len(meant) - cut /\ DOMAIN meant' = 1..Len(meant) - cut
      /\ \A p \in 1..Len(meant) - cut : meant'[p] = meant[cut + p] /\ cut + p \in DOMAIN meant
  <2>1. meant \in Seq(Int) BY AacNow
  <2> QED BY <1>1, <1>6, <2>1, DroppedOnes
<1>9. anchors \in Seq(AnchorType) /\ Len(anchors) \in Nat /\ DOMAIN anchors = 1..Len(anchors)
  BY AacNow
<1>10. PICK k \in 1..Len(anchors) :
         /\ as = SubSeq(anchors, k, Len(anchors))
         /\ k = 1 \/ anchors[k].sample <= 0
         /\ \A j \in 1..Len(anchors) : j > k => ~(anchors[j].sample <= 0)
  BY <1>2, <1>9, PassedIs
<1>11. /\ Len(as) = Len(anchors) - k + 1 /\ DOMAIN as = 1..Len(anchors) - k + 1
       /\ \A i \in 1..Len(anchors) - k + 1 : as[i] = anchors[k + i - 1] /\ k + i - 1 \in 1..Len(anchors)
  <2> HIDE DEF as
  <2>1. anchors \in Seq(AnchorType) /\ k \in 1..Len(anchors) BY <1>9, <1>10
  <2>2. as = SubSeq(anchors, k, Len(anchors)) BY <1>10
  <2> QED BY ONLY <2>1, <2>2, Rest
<1> HIDE DEF as
\* What is there of an anchor, and the one it was
<1>12. /\ anchors' \in Seq(AnchorType) /\ Len(anchors') = Len(anchors) - k + 1 /\ anchors' # <<>>
       /\ DOMAIN anchors' = 1..Len(anchors) - k + 1
       /\ \A i \in 1..Len(anchors) - k + 1 :
            /\ anchors'[i].sample = anchors[k + i - 1].sample - Au
            /\ anchors'[i].pts = anchors[k + i - 1].pts - Au
            /\ k + i - 1 \in 1..Len(anchors)
  <2> DEFINE m == Len(anchors) - k + 1
  <2>1. m \in Nat /\ m >= 1 BY <1>9, <1>10
  <2> HIDE DEF m
  <2>2. anchors' = [i \in 1..m |-> Anchor(as[i].sample - Au, as[i].pts - Au)] BY <1>3, <1>11 DEF m
  <2>3. \A i \in 1..m : as[i].sample \in Int /\ as[i].pts \in Int
    BY <1>9, <1>11, AacNow DEF m
  <2>4. \A i \in 1..m : Anchor(as[i].sample - Au, as[i].pts - Au) \in AnchorType
    <3>1. ASSUME NEW i \in 1..m PROVE as[i].sample - Au \in Int /\ as[i].pts - Au \in Int
      <4>1. PICK x \in Int : x = as[i].sample BY <2>3
      <4>2. PICK y \in Int : y = as[i].pts BY <2>3
      <4>3. x - Au \in Int /\ y - Au \in Int BY ONLY <1>lengths
      <4> QED BY ONLY <4>1, <4>2, <4>3
    <3> QED BY <3>1 DEF Anchor, AnchorType
  <2>5. anchors' \in Seq(AnchorType) /\ Len(anchors') = m /\ DOMAIN anchors' = 1..m /\ anchors' # <<>>
    <3>1. anchors' = [i \in 1..m |-> anchors'[i]] BY <2>2
    <3>2. \A i \in 1..m : anchors'[i] \in AnchorType BY <2>2, <2>4
    <3> QED BY <2>1, <3>1, <3>2, Mapped
  <2>6. \A i \in 1..m : anchors'[i].sample = as[i].sample - Au /\ anchors'[i].pts = as[i].pts - Au
    BY <2>2 DEF Anchor
  <2> QED BY <1>11, <2>5, <2>6 DEF m
<1>13. /\ \A i \in 1..Len(anchors) :
            /\ anchors[i].sample \in Int /\ anchors[i].pts \in Int
            /\ anchors[i].sample + PerFeed = IF i = Len(anchors) THEN ahead ELSE anchors[i + 1].sample
            /\ anchors[i].sample + PerFeed <= ahead
            /\ \A j \in 1..Len(anchors) : i <= j => anchors[i].sample <= anchors[j].sample
       /\ IF lead > 0 THEN anchors[1].sample = lead ELSE anchors[1].sample <= 0
  BY <1>2, <1>9, AacNow DEF AacInv, Spaced
<1>14. k \in Int /\ 1 <= k /\ 1 \in 1..Len(anchors) /\ k \in 1..Len(anchors) BY <1>9, <1>10
<1>15. lead > 0 => k = 1 /\ anchors[k].sample = lead
  <2> SUFFICES ASSUME lead > 0 PROVE k = 1 /\ anchors[k].sample = lead OBVIOUS
  <2>1. anchors[1].sample = lead /\ anchors[1].sample <= anchors[k].sample BY <1>13, <1>14
  <2>2. k = 1 BY <1>5, <1>10, <1>13, <1>14, <2>1
  <2> QED BY <2>1, <2>2
<1>16. lead = 0 => anchors[k].sample <= 0 BY <1>10, <1>13
<1>17. /\ anchors[k].sample < lead + 1 /\ lead + 1 <= anchors[k].sample + PerFeed
       /\ 1 \in DOMAIN meant
  <2>1. anchors[k].sample \in Int /\ anchors[k].sample + PerFeed <= ahead BY <1>13, <1>14
  <2>2. CASE lead > 0
    BY <1>5, <1>15, <2>1, <2>2, Lengths, AacNow
  <2>3. CASE lead = 0
    <3>1. Len(meant) >= 1 BY <1>5, <1>6, <1>7, <2>3, Lengths
    <3>2. 1 <= anchors[k].sample + PerFeed
      <4>1. CASE k = Len(anchors) BY <1>5, <1>13, <1>14, <2>3, <3>1, <4>1
      <4>2. CASE k # Len(anchors)
        <5>1. k + 1 \in 1..Len(anchors) /\ k + 1 > k
          <6>1. Len(anchors) \in Nat BY <1>9
          <6> QED BY ONLY <1>14, <4>2, <6>1
        <5>2. ~(anchors[k + 1].sample <= 0) /\ anchors[k + 1].sample \in Int BY <1>10, <1>13, <5>1
        <5> QED BY <1>13, <1>14, <4>2, <5>2
      <4> QED BY <4>1, <4>2
    <3>3. 1 \in DOMAIN meant
      <4>1. DOMAIN meant = 1..Len(meant) BY AacNow
      <4> QED BY <1>5, <3>1, <4>1
    <3> QED BY <1>16, <2>1, <2>3, <3>2, <3>3
  <2> QED BY <1>5, <2>2, <2>3
<1>18. StampedAsFed'
  <2>1. meant[1] = anchors[k].pts - anchors[k].sample
    BY <1>9, <1>14, <1>17 DEF AacInv, Covers
  <2>2. as[1] = anchors[k]
    <3>1. 1 \in 1..Len(anchors) - k + 1 /\ k + 1 - 1 = k BY <1>9, <1>14
    <3> QED BY <1>11, <3>1
  <2>3. off' = anchors[k].pts + (0 - anchors[k].sample) - (anchors[k].pts - anchors[k].sample)
    BY <1>3, <2>1, <2>2
  <2>4. off' = 0 BY <1>13, <1>14, <2>3
  <2> QED BY <2>4 DEF StampedAsFed
<1>19. Counted'
  <2>1. Len(meant') = Len(meant) - cut /\ lead' = lead + cut - Au /\ cut \in Int BY <1>6, <1>8
  <2>2. ahead' = lead' + Len(meant') BY <1>5, <1>lengths, <2>1
  <2>4. inside' = lead' + Len(meant') - IF feeding' THEN PerFeed ELSE 0
    <3>1. inside' = inside - Au /\ feeding' = feeding BY <1>1
    <3>2. CASE feeding BY <1>4, <1>5, <1>lengths, <2>1, <3>1, <3>2
    <3>3. CASE ~feeding BY <1>4, <1>5, <1>lengths, <2>1, <3>1, <3>3
    <3> QED BY <3>2, <3>3
  <2>3. feeding' => inside' < MaxInside
    BY <1>1, <1>5, Lengths DEF AacInv, Counted
  <2> QED BY <1>12, <2>2, <2>3, <2>4 DEF Counted
<1>20. Spaced'
  <2>1. ASSUME NEW i \in 1..Len(anchors) - k + 1
        PROVE  /\ anchors'[i].sample + PerFeed =
                    IF i = Len(anchors') THEN ahead' ELSE anchors'[i + 1].sample
               /\ anchors'[i].sample + PerFeed <= ahead'
               /\ \A j \in 1..Len(anchors) - k + 1 : i <= j => anchors'[i].sample <= anchors'[j].sample
    <3> DEFINE b == k + i - 1
    <3>1. b \in 1..Len(anchors) /\ anchors'[i].sample = anchors[b].sample - Au BY <1>12
    <3>2. i = Len(anchors') <=> b = Len(anchors) BY <1>9, <1>12, <1>14
    <3>3. b # Len(anchors) => anchors'[i + 1].sample = anchors[b + 1].sample - Au
      <4> SUFFICES ASSUME b # Len(anchors) PROVE anchors'[i + 1].sample = anchors[b + 1].sample - Au
        OBVIOUS
      <4>1. i + 1 \in 1..Len(anchors) - k + 1 /\ k + (i + 1) - 1 = b + 1 BY <1>9, <1>14, <3>1
      <4> QED BY <1>12, <4>1
    <3>4. ASSUME NEW j \in 1..Len(anchors) - k + 1, i <= j PROVE anchors'[i].sample <= anchors'[j].sample
      <4>1. k + j - 1 \in 1..Len(anchors) /\ anchors'[j].sample = anchors[k + j - 1].sample - Au BY <1>12
      <4>2. b <= k + j - 1 BY <1>9, <1>14, <3>4
      <4> HIDE DEF b
      <4>3. anchors[b].sample <= anchors[k + j - 1].sample BY <1>13, <3>1, <4>1, <4>2
      <4>4. anchors[b].sample \in Int /\ anchors[k + j - 1].sample \in Int BY <1>13, <3>1, <4>1
      <4> QED BY <3>1, <4>1, <4>3, <4>4, Lengths
    <3> HIDE DEF b
    <3>5. /\ anchors[b].sample \in Int /\ anchors[b].sample + PerFeed <= ahead /\ ahead \in Int
          /\ anchors[b].sample + PerFeed = IF b = Len(anchors) THEN ahead ELSE anchors[b + 1].sample
      BY <1>5, <1>13, <3>1
    <3>6. anchors'[i].sample + PerFeed = anchors[b].sample + PerFeed - Au
      BY <1>lengths, <3>1, <3>5
    <3>7. anchors'[i].sample + PerFeed <= ahead'
      <4>1. anchors[b].sample + PerFeed \in Int BY <1>lengths, <3>5
      <4> QED BY <1>lengths, <3>5, <3>6, <4>1
    <3>8. anchors'[i].sample + PerFeed = IF i = Len(anchors') THEN ahead' ELSE anchors'[i + 1].sample
      <4>1. CASE b = Len(anchors)
        <5>1. anchors[b].sample + PerFeed = ahead /\ i = Len(anchors') BY <3>2, <3>5, <4>1
        <5> QED BY <1>lengths, <3>5, <3>6, <5>1
      <4>2. CASE b # Len(anchors)
        <5>1. anchors[b].sample + PerFeed = anchors[b + 1].sample /\ i # Len(anchors') BY <3>2, <3>5, <4>2
        <5>2. b + 1 \in 1..Len(anchors)
          <6>1. Len(anchors) \in Nat /\ b \in 1..Len(anchors) BY <1>9, <3>1
          <6> QED BY ONLY <4>2, <6>1
        <5>3. PICK y \in Int : y = anchors[b + 1].sample BY <1>13, <5>2
        <5>4. anchors'[i].sample + PerFeed = y - Au
          <6>1. PICK x \in Int : x = anchors[b].sample BY <3>5
          <6>2. x + PerFeed = y BY <5>1, <5>3, <6>1
          <6>3. anchors'[i].sample = x - Au BY <3>1, <6>1
          <6>4. (x - Au) + PerFeed = y - Au BY <1>lengths, <6>2
          <6> QED BY <6>3, <6>4
        <5>5. anchors'[i + 1].sample = y - Au BY ONLY <3>3, <4>2, <5>3
        <5> QED BY ONLY <5>1, <5>4, <5>5
      <4> QED BY <4>1, <4>2
    <3> QED BY <3>4, <3>7, <3>8
  <2>2. anchors'[1].sample = anchors[k].sample - Au /\ anchors[k].sample \in Int
    <3>1. 1 \in 1..Len(anchors) - k + 1 /\ k + 1 - 1 = k BY <1>9, <1>14
    <3> QED BY <1>12, <1>13, <1>14, <3>1
  <2>3. IF lead' > 0 THEN anchors'[1].sample = lead' ELSE anchors'[1].sample <= 0
    <3>1. CASE lead' > 0 BY <1>5, <1>6, <1>7, <1>15, <2>2, <3>1, Lengths
    <3>2. CASE lead' = 0 BY <1>5, <1>7, <1>15, <1>16, <2>2, <3>2, Lengths
    <3> QED BY <1>6, <3>1, <3>2
  <2> QED BY <1>12, <2>1, <2>3 DEF Spaced
<1>21. Covers'
  <2> SUFFICES ASSUME NEW i \in 1..Len(anchors) - k + 1, NEW p \in 1..Len(meant) - cut,
                      anchors'[i].sample < lead' + p, lead' + p <= anchors'[i].sample + PerFeed
               PROVE  meant'[p] = anchors'[i].pts - anchors'[i].sample
    BY <1>8, <1>12 DEF Covers
  <2> DEFINE b == k + i - 1
             q == cut + p
  <2>1. /\ b \in 1..Len(anchors) /\ anchors'[i].sample = anchors[b].sample - Au
        /\ anchors'[i].pts = anchors[b].pts - Au /\ q \in DOMAIN meant /\ meant'[p] = meant[q]
    BY <1>8, <1>12
  <2>2. lead' + p = (lead + q) - Au /\ lead + q \in Int BY ONLY <1>5, <1>6, Lengths, SMTT(30)
  <2>q. q \in Int /\ lead \in Int BY <1>5, <1>6
  <2> HIDE DEF b, q
  <2>3. anchors[b].sample \in Int /\ anchors[b].pts \in Int BY <1>13, <2>1
  <2>4. anchors[b].sample < lead + q /\ lead + q <= anchors[b].sample + PerFeed
    <3>1. /\ anchors[b].sample - Au < (lead + q) - Au
          /\ (lead + q) - Au <= anchors[b].sample - Au + PerFeed
      BY <2>1, <2>2
    <3>2. PICK x \in Int : x = anchors[b].sample BY <2>3
    <3>3. PICK y \in Int : y = lead + q BY <2>2
    <3>4. x - Au < y - Au /\ y - Au <= x - Au + PerFeed BY <3>1, <3>2, <3>3
    <3>5. x < y /\ y <= x + PerFeed BY <1>lengths, <3>4, Shifts
    <3> QED BY <3>2, <3>3, <3>5
  <2>5. meant[q] = anchors[b].pts - anchors[b].sample
    BY <1>9, <2>1, <2>4 DEF AacInv, Covers
  <2> QED BY <2>1, <2>3, <2>5, Lengths
<1>22. AacTypeOK'
  <2>1. lead \in 0..Priming /\ inside \in 0..MaxInside + PerFeed /\ feeding \in BOOLEAN /\ ahead \in Int
    BY DEF AacInv, AacTypeOK
  <2>2. lead' \in 0..Priming /\ inside' \in 0..MaxInside + PerFeed /\ feeding' \in BOOLEAN /\ ahead' \in Int
    BY <1>1, <1>3, <1>5, <2>1, Lengths
  <2>3. off' \in Int BY <1>18 DEF StampedAsFed
  <2> QED BY <1>8, <1>12, <2>2, <2>3 DEF AacTypeOK, AnchorType
<1> QED BY <1>18, <1>19, <1>20, <1>21, <1>22 DEF AacInv

LEMMA FreshEncoder == AacInit => AacInv
<1> SUFFICES ASSUME AacInit PROVE AacInv OBVIOUS
<1>1. /\ anchors = <<>> /\ ahead = Priming /\ feeding = FALSE /\ inside = Priming
      /\ meant = <<>> /\ lead = Priming /\ off = 0
  BY DEF AacInit
<1>2. DOMAIN anchors = {} /\ DOMAIN meant = {} BY <1>1
<1>3. <<>> \in Seq([sample : Int, pts : Int]) /\ <<>> \in Seq(Int) OBVIOUS
<1>4. Priming \in 0..MaxInside + PerFeed /\ Priming \in 0..Priming /\ Priming \in Int /\ 0 \in Int
  BY AacAssumption, Lengths
<1>5. AacTypeOK BY <1>1, <1>3, <1>4, Zenon DEF AacTypeOK
<1>6. Counted BY <1>1, <1>2 DEF Counted
<1>7. Spaced /\ Covers /\ StampedAsFed BY <1>1, <1>2 DEF Spaced, Covers, StampedAsFed
<1> QED BY <1>5, <1>6, <1>7 DEF AacInv

--------------------------------------------------------------------------------
(* The sound of a cast *)

LEMMA Sounds == Init => SoundInv
BY FreshClock, FreshEncoder DEF Init, SoundInv, AacInit

\* A chunk is fed by the thread that read it, so the clock stands still
LEMMA HandOverKeeps == ASSUME SoundInv, HandOver PROVE SoundInv'
<1>1. todo > 0 /\ PushAnchor(err) /\ UNCHANGED clockVars BY DEF HandOver
<1>2. err \in Int BY Constants DEF SoundInv, ClockInv, ClockTypeOK
<1>3. AacInv' BY <1>1, <1>2, PushKeeps DEF SoundInv
<1>4. ClockTypeOK' BY <1>1 DEF clockVars, SoundInv, ClockInv, ClockTypeOK
<1>5. ClockInv' BY <1>1, <1>4, OffsetsStay DEF clockVars, SoundInv
<1> QED BY <1>1, <1>3, <1>5 DEF SoundInv, clockVars

LEMMA HandedKeeps == ASSUME SoundInv, Handed PROVE SoundInv'
<1>1. /\ QueueChunk /\ todo' = todo - 1
      /\ UNCHANGED <<backlog, err, win, since, blockAge, fill, verified, stalled, punctual,
                     steady, still>>
  BY DEF Handed
<1>2. AacInv' BY <1>1, QueueKeeps DEF SoundInv
<1>3. todo > 0 BY <1>1 DEF SoundInv, QueueChunk
<1>4. ClockTypeOK' BY <1>1, <1>3 DEF SoundInv, ClockInv, ClockTypeOK
<1>5. ClockInv' BY <1>1, <1>4, OffsetsStay DEF SoundInv
<1> QED BY <1>1, <1>2, <1>5 DEF SoundInv, QueueChunk

LEMMA ClockStepKeeps == ASSUME SoundInv, Clock, UNCHANGED aacVars PROVE SoundInv'
<1>1. ClockInv' BY ClockKeeps DEF SoundInv
<1>2. AacInv'
  BY DEF aacVars, SoundInv, AacInv, AacTypeOK, Counted, Spaced, Covers, StampedAsFed
<1>3. todo = 0 \/ todo' = todo
  BY DEF Clock, Tick, Stall, Pass, Verify, Restart, Hole, Read
<1>4. feeding' => todo' > 0 BY <1>3 DEF SoundInv, aacVars
<1> QED BY <1>1, <1>2, <1>4 DEF SoundInv

LEMMA UnitStepKeeps == ASSUME SoundInv, AccessUnit, UNCHANGED clockVars PROVE SoundInv'
<1>1. AacInv' BY UnitKeeps DEF SoundInv
<1>2. ClockTypeOK' BY DEF clockVars, SoundInv, ClockInv, ClockTypeOK
<1>3. ClockInv' BY <1>2, OffsetsStay DEF clockVars, SoundInv
<1>4. feeding' = feeding /\ todo' = todo BY DEF AccessUnit, clockVars
<1> QED BY <1>1, <1>3, <1>4 DEF SoundInv

LEMMA SoundStutters == ASSUME SoundInv, UNCHANGED vars PROVE SoundInv'
<1>1. AacInv'
  BY DEF vars, aacVars, SoundInv, AacInv, AacTypeOK, Counted, Spaced, Covers, StampedAsFed
<1>2. ClockTypeOK' BY DEF vars, clockVars, SoundInv, ClockInv, ClockTypeOK
<1>3. ClockInv' BY <1>2, OffsetsStay DEF vars, clockVars, SoundInv
<1> QED BY <1>1, <1>3 DEF SoundInv, vars, clockVars, aacVars

LEMMA SoundSteps == SoundInv /\ [Next]_vars => SoundInv'
<1> SUFFICES ASSUME SoundInv, [Next]_vars PROVE SoundInv' OBVIOUS
<1>1. CASE Clock /\ UNCHANGED aacVars BY <1>1, ClockStepKeeps
<1>2. CASE HandOver BY <1>2, HandOverKeeps
<1>3. CASE Handed BY <1>3, HandedKeeps
<1>4. CASE AccessUnit /\ UNCHANGED clockVars BY <1>4, UnitStepKeeps
<1>5. CASE UNCHANGED vars BY <1>5, SoundStutters
<1> QED BY <1>1, <1>2, <1>3, <1>4, <1>5 DEF Next

LEMMA SoundAlways == Spec => []SoundInv
BY Sounds, SoundSteps, PTL DEF Spec

\* The clock and the encoder stay within their types: the window only holds
\* offsets a block can have, and a sample count never runs over what the
\* codec takes (audiocapture.cpp 505-620, aacencoder.cpp 98-157).
THEOREM SoundTypes == Spec => []TypeOK
<1>1. SoundInv => TypeOK BY DEF SoundInv, ClockInv, AacInv, TypeOK
<1> QED BY <1>1, SoundAlways, PTL

\* Sound is never stamped with a time before its capture by more than the
\* source stood still, for every window and every rate at which base may
\* move (audiocapture.cpp 522-548).
THEOREM SoundNeverEarly == Spec => []NeverEarly
<1>1. SoundInv => NeverEarly BY DEF SoundInv, ClockInv, NotBefore, NeverEarly
<1> QED BY <1>1, SoundAlways, PTL

\* One block in time per window brings the clock back after a stall, by a
\* unit per block at least, and late blocks do not move it away again
\* (audiocapture.cpp 545-570).
THEOREM ClockComesBack == Spec => []ComesBack
<1>1. SoundInv => ComesBack BY DEF SoundInv, ClockInv
<1> QED BY <1>1, SoundAlways, PTL

\* Each access unit carries the time stamp its first sample was fed with,
\* for every length of a chunk, of a unit and of the codec's silence, and
\* however late the codec is (aacencoder.cpp 111-117, 138-157).
THEOREM UnitsStampedAsFed == Spec => []StampedAsFed
<1>1. SoundInv => StampedAsFed BY DEF SoundInv, AacInv
<1> QED BY <1>1, SoundAlways, PTL

--------------------------------------------------------------------------------
(* The routing: sequences *)


\* A set put in an order: its elements, and no others
LEMMA Ordered ==
  ASSUME NEW S, IsFiniteSet(S)
  PROVE  /\ SetToSeq(S) \in Seq(S)
         /\ \A x \in S : \E i \in DOMAIN SetToSeq(S) : SetToSeq(S)[i] = x
<1> DEFINE n == Cardinality(S)
<1>1. n \in Nat /\ ExistsBijection(1..n, S) BY FS_CardinalityType
<1>2. PICK f \in [1..n -> S] : IsInjective(f)
  BY <1>1, Zenon DEF ExistsBijection, Bijection, Injection
<1> DEFINE g == SetToSeq(S)
<1>3. g \in [1..n -> S] /\ IsInjective(g) BY <1>2, Zenon DEF SetToSeq
<1> HIDE DEF g, n
<1>4. g \in Seq(S) BY <1>1, <1>3
<1>5. ASSUME NEW x \in S PROVE \E i \in 1..n : g[i] = x
  <2> SUFFICES ASSUME \A i \in 1..n : g[i] # x PROVE FALSE OBVIOUS
  <2>1. g \in [1..n -> S \ {x}] BY <1>3
  <2>2. IsFiniteSet(S \ {x}) BY FS_RemoveElement, Zenon
  <2>3. Cardinality(S \ {x}) = n - 1 BY FS_RemoveElement, <1>1 DEF n
  <2>4. IsFiniteSet(1..n) /\ Cardinality(1..n) = n BY <1>1, FS_Interval
  <2>a. Cardinality(S \ {x}) < Cardinality(1..n) BY <2>3, <2>4, <1>1
  <2>5. \A h \in [1..n -> S \ {x}] : \E i, j \in 1..n : i # j /\ h[i] = h[j]
    BY ONLY <2>2, <2>a, <2>4, FS_PigeonHole, Zenon
  <2> QED BY <2>1, <2>5, <1>3 DEF IsInjective
<1> QED BY <1>1, <1>3, <1>4, <1>5 DEF g

LEMMA ImageFinite ==
  ASSUME NEW S, IsFiniteSet(S), NEW f
  PROVE  IsFiniteSet({f[x] : x \in S})
<1> DEFINE T == {f[x] : x \in S}
           g == [x \in S |-> f[x]]
<1>1. g \in Surjection(S, T) BY DEF Surjection
<1> HIDE DEF g, T
<1>3. IsFiniteSet(T) BY <1>1, FS_Surjection, Zenon
<1> QED BY <1>3 DEF T

\* What PulseAudio tells of some streams
LEMMA TellsOf ==
  ASSUME NEW S \in SUBSET Streams, NEW what \in {"change", "over"}
  PROVE  /\ ToldOf(S, what) \in Seq({Event(what, s, None) : s \in S})
         /\ Told => \A s \in S : \E i \in DOMAIN ToldOf(S, what) :
                                     ToldOf(S, what)[i] = Event(what, s, None)
<1> DEFINE f == [s \in Streams |-> Event(what, s, None)]
           T == {Event(what, s, None) : s \in S}
<1>1. T = {f[x] : x \in S} OBVIOUS
<1>2. IsFiniteSet(S) BY StreamsAssumption, FS_Subset
<1> HIDE DEF f, T
<1>3. IsFiniteSet(T)
  <2>1. IsFiniteSet({f[x] : x \in S}) BY <1>2, ImageFinite, Zenon
  <2> QED BY <1>1, <2>1
<1>4. SetToSeq(T) \in Seq(T) /\ \A x \in T : \E i \in DOMAIN SetToSeq(T) : SetToSeq(T)[i] = x
  BY <1>3, Ordered, Zenon
<1>5. ToldOf(S, what) = IF Told THEN SetToSeq(T) ELSE <<>> BY DEF ToldOf, T
<1>6. CASE Told
  <2>1. ToldOf(S, what) = SetToSeq(T) BY <1>5, <1>6
  <2>2. \A s \in S : Event(what, s, None) \in T BY DEF T
  <2>3. ToldOf(S, what) \in Seq(T) BY <2>1, <1>4
  <2>4. \A s \in S : \E i \in DOMAIN ToldOf(S, what) : ToldOf(S, what)[i] = Event(what, s, None)
    BY <2>1, <2>2, <1>4
  <2> QED BY <2>3, <2>4 DEF T
<1>7. CASE ~Told
  <2>1. <<>> \in Seq(T) OBVIOUS
  <2> QED BY <1>5, <1>7, <2>1 DEF T
<1> QED BY <1>6, <1>7

\* The streams it asks PulseAudio to move
LEMMA TakesOf ==
  ASSUME NEW S \in SUBSET Streams
  PROVE  LET q == SetToSeq({Request("take", s, Silence) : s \in S})
         IN  /\ q \in Seq({Request("take", s, Silence) : s \in S})
             /\ \A s \in S : \E i \in DOMAIN q : q[i] = Request("take", s, Silence)
<1> DEFINE f == [s \in Streams |-> Request("take", s, Silence)]
           T == {Request("take", s, Silence) : s \in S}
<1>1. T = {f[x] : x \in S} OBVIOUS
<1>2. IsFiniteSet(S) BY StreamsAssumption, FS_Subset
<1> HIDE DEF f, T
<1>3. IsFiniteSet(T)
  <2>1. IsFiniteSet({f[x] : x \in S}) BY <1>2, ImageFinite, Zenon
  <2> QED BY <1>1, <2>1
<1>4. \A s \in S : Request("take", s, Silence) \in T BY DEF T
<1>5. SetToSeq(T) \in Seq(T) /\ \A x \in T : \E i \in DOMAIN SetToSeq(T) : SetToSeq(T)[i] = x
  BY <1>3, Ordered, Zenon
<1> QED BY <1>4, <1>5 DEF T


--------------------------------------------------------------------------------
(* Requests and messages *)

LEMMA RequestsAre ==
  /\ \A op \in {"load", "unload", "list", "subscribe", "inputs"} : Request(op, None, None) \in Requests
  /\ \A s \in Streams : Request("input", s, None) \in Requests
  /\ \A k \in Outputs : Request("sink", None, k) \in Requests
  /\ \A s \in Streams : Request("take", s, Silence) \in Requests
  /\ \A s \in Streams, k \in Outputs : Request("home", s, k) \in Requests
BY DEF Requests, Request

LEMMA RequestIs ==
  ASSUME NEW r \in Requests
  PROVE  /\ r.op \in {"load", "unload", "list", "subscribe", "inputs", "input", "sink", "take", "home"}
         /\ r.op \in {"input", "take", "home"} => r.stream \in Streams
         /\ r.op \notin {"input", "take", "home"} => r.stream = None
         /\ r.op \in {"sink", "home"} => r.sink \in Outputs
         /\ r.op = "take" => r.sink = Silence
BY DEF Requests

LEMMA EventsAre ==
  /\ \A what \in {"change", "over"}, s \in Streams : Event(what, s, None) \in Messages
  /\ \A what \in {"output", "gone", "sink"}, k \in Outputs : Event(what, None, k) \in Messages
  /\ \A s \in Streams, k \in Outputs \cup {Silence} : Event("input", s, k) \in Messages
BY DEF Messages, Event

LEMMA AnswersAre ==
  /\ \A f \in BOOLEAN : [what |-> "answer", found |-> f] \in Messages
  /\ \A O \in SUBSET Outputs : [what |-> "sinks", all |-> O] \in Messages
  /\ \A p \in [Streams -> Places] : [what |-> "inputs", at |-> p] \in Messages
<1>1. \A f \in BOOLEAN : [what |-> "answer", found |-> f] \in [what : {"answer"}, found : BOOLEAN]
  BY Zenon
<1>2. \A O \in SUBSET Outputs : [what |-> "sinks", all |-> O] \in [what : {"sinks"}, all : SUBSET Outputs]
  BY Zenon
<1>3. \A p \in [Streams -> Places] :
        [what |-> "inputs", at |-> p] \in [what : {"inputs"}, at : [Streams -> Places]]
  BY Zenon
<1> QED BY <1>1, <1>2, <1>3, Zenon DEF Messages

LEMMA MessageIs ==
  ASSUME NEW m \in Messages
  PROVE  /\ m.what \in {"change", "over", "output", "gone", "sink", "input", "answer", "sinks", "inputs"}
         /\ m.what \in {"change", "over", "input"} => m.stream \in Streams
         /\ m.what \in {"output", "gone", "sink"} => m.sink \in Outputs
         /\ m.what = "input" => m.sink \in Outputs \cup {Silence}
         /\ m.what = "sinks" => m.all \subseteq Outputs
         /\ m.what = "inputs" => m.at \in [Streams -> Places]
BY DEF Messages

LEMMA AnswerFound ==
  ASSUME NEW m \in Messages, m.what = "answer" PROVE m.found \in BOOLEAN
<1>1. m \in [what : {"answer"}, found : BOOLEAN] BY DEF Messages
<1> QED BY <1>1, Zenon

LEMMA TellsTyped ==
  ASSUME NEW S \in SUBSET Streams, NEW what \in {"change", "over"}
  PROVE  ToldOf(S, what) \in Seq(Messages)
<1>1. ToldOf(S, what) \in Seq({Event(what, s, None) : s \in S}) BY TellsOf
<1>2. {Event(what, s, None) : s \in S} \subseteq Messages BY EventsAre
<1> QED BY <1>1, <1>2

LEMMA TakesTyped ==
  ASSUME NEW S \in SUBSET Streams
  PROVE  SetToSeq({Request("take", s, Silence) : s \in S}) \in Seq(Requests)
<1> DEFINE T == {Request("take", s, Silence) : s \in S}
<1>1. SetToSeq(T) \in Seq(T) BY TakesOf
<1>2. T \subseteq Requests BY RequestsAre
<1> QED BY <1>1, <1>2

LEMMA Longer == ASSUME NEW T, NEW q \in Seq(T), NEW x \in Seq(T) PROVE q \o x \in Seq(T)
OBVIOUS

LEMMA Nothing == \A T : <<>> \in Seq(T)
OBVIOUS

(* Types *)

Places1 == place \in [Streams -> Places] /\ home \in [Streams -> Outputs \cup {None}]
Outs == /\ up \subseteq Outputs /\ {Media, Null} \subseteq up /\ coming \subseteq Extra \ up
        /\ sinks \subseteq Outputs /\ late \subseteq Extra
Marks == toMove \subseteq Streams /\ stray \subseteq Streams
Counts == left \in 0..MaxEnv /\ starts \in 0..MaxStarts
Flags == /\ silence \in BOOLEAN /\ subscribed \in BOOLEAN /\ routing \in BOOLEAN
         /\ stepDone \in BOOLEAN /\ foundSink \in BOOLEAN /\ listening \in BOOLEAN
         /\ killed \in BOOLEAN
Queues == toPA \in Seq(Requests) /\ fromPA \in Seq(Messages)
At == /\ pc \in {"off", "running"} \cup Starting \cup Stopping
      /\ mode \in {"auto", "all", "direct"}
Origins == origin \in [Streams -> Outputs \cup {None}]

Typed == Places1 /\ Outs /\ Marks /\ Counts /\ Flags /\ Queues /\ At /\ Origins

LEMMA QueuesKept == ASSUME Typed, [RouteNext]_audioVars PROVE Queues'
<1> USE DEF Queues
<1>0. toPA \in Seq(Requests) /\ fromPA \in Seq(Messages) BY DEF Typed
<1>1. CASE Serve
  <2>1. toPA # <<>> /\ toPA' = Tail(toPA) /\ Head(toPA) \in Requests BY <1>0, <1>1 DEF Serve
  <2>2. toPA' \in Seq(Requests) BY <1>0, <2>1
  <2> DEFINE r == Head(toPA)
  <2>3. ServeLook(r) \/ ServeSink(r) \/ ServeMove(r) \/ ServeStep(r) BY <1>1 DEF Serve
  <2> HIDE DEF r
  <2>4. r \in Requests BY <2>1 DEF r
  <2>5. CASE ServeLook(r)
    <3>1. r.stream \in Streams /\ place[r.stream] \in Places BY <2>4, <2>5, RequestIs DEF ServeLook, Typed, Places1
    <3>2. Playing(r.stream) => Event("input", r.stream, place[r.stream]) \in Messages
      BY <3>1, EventsAre DEF Playing, Places
    <3> QED BY <1>0, <2>2, <2>5, <3>2 DEF ServeLook
  <2>6. CASE ServeSink(r)
    <3>1. Event("sink", None, r.sink) \in Messages BY <2>4, <2>6, RequestIs, EventsAre DEF ServeSink
    <3> QED BY <1>0, <2>2, <2>6, <3>1 DEF ServeSink
  <2>7. CASE ServeMove(r)
    <3> DEFINE possible == Playing(r.stream) /\ r.sink \in up \cup {Silence}
               moves == possible /\ place[r.stream] # r.sink
    <3>1. possible \in BOOLEAN BY Zenon DEF Playing
    <3>2. Answer(possible) \in Seq(Messages)
      <4>1. [what |-> "answer", found |-> possible] \in Messages BY <3>1, AnswersAre
      <4> HIDE DEF possible
      <4> QED BY <4>1 DEF Answer
    <3>3. r.stream \in Streams BY <2>4, <2>7, RequestIs DEF ServeMove
    <3>4. ToldOf({r.stream}, "change") \in Seq(Messages) BY <3>3, TellsTyped
    <3>5. fromPA' = fromPA \o (IF moves THEN ToldOf({r.stream}, "change") ELSE <<>>)
                           \o (IF r.op = "home" THEN Answer(possible) ELSE <<>>)
      BY <2>7, Zenon DEF ServeMove
    <3> HIDE DEF possible, moves
    <3> QED BY <1>0, <2>2, <3>2, <3>4, <3>5
  <2>8. CASE ServeStep(r)
    <3>1. \A f \in BOOLEAN : Answer(f) \in Seq(Messages)
      <4> SUFFICES ASSUME NEW f \in BOOLEAN PROVE Answer(f) \in Seq(Messages) OBVIOUS
      <4>1. [what |-> "answer", found |-> f] \in Messages BY AnswersAre
      <4> QED BY <4>1 DEF Answer
    <3>2. ToldOf({s \in Streams : place[s] = Silence}, "change") \in Seq(Messages) BY TellsTyped
    <3>3. up \in SUBSET Outputs /\ place \in [Streams -> Places] /\ silence \in BOOLEAN
      BY Zenon DEF Typed, Outs, Places1, Flags
    <3>4. [what |-> "sinks", all |-> up] \in Messages /\ [what |-> "inputs", at |-> place] \in Messages
      BY <3>3, AnswersAre
    <3>5. Answer(FALSE) \in Seq(Messages) BY <3>1, Zenon
    <3>6. r.op = "load" => Answer(silence') \in Seq(Messages) /\ fromPA' = fromPA \o Answer(silence')
      <4>1. r.op = "load" => silence' \in BOOLEAN /\ fromPA' = fromPA \o Answer(silence')
        BY <2>8, <3>3, Zenon DEF ServeStep
      <4> QED BY <4>1, <3>1
    <3>7. \/ r.op = "load"
          \/ fromPA' = fromPA \o ToldOf({s \in Streams : place[s] = Silence}, "change") \o Answer(FALSE)
          \/ fromPA' = Append(fromPA, [what |-> "sinks", all |-> up])
          \/ fromPA' = fromPA \o Answer(FALSE)
          \/ fromPA' = Append(fromPA, [what |-> "inputs", at |-> place])
      BY <2>8, Zenon DEF ServeStep
    <3>8. CASE r.op = "load"
      <4>1. fromPA' = fromPA \o Answer(silence') /\ Answer(silence') \in Seq(Messages) BY <3>6, <3>8
      <4> QED BY <1>0, <2>2, <4>1
    <3>9. CASE fromPA' = fromPA \o ToldOf({s \in Streams : place[s] = Silence}, "change") \o Answer(FALSE)
      <4>1. fromPA' \in Seq(Messages) BY <1>0, <3>2, <3>5, <3>9, Longer, Zenon
      <4> QED BY <2>2, <4>1
    <3>10. CASE fromPA' = Append(fromPA, [what |-> "sinks", all |-> up])
      <4> DEFINE x == [what |-> "sinks", all |-> up]
      <4>1. x \in Messages BY <3>4
      <4>2. fromPA' = Append(fromPA, x) BY <3>10
      <4> HIDE DEF x
      <4> QED BY <1>0, <2>2, <4>1, <4>2
    <3>11. CASE fromPA' = fromPA \o Answer(FALSE) 
      <4>1. fromPA' \in Seq(Messages) BY <1>0, <3>5, <3>11, Longer, Zenon
      <4> QED BY <2>2, <4>1
    <3>12. CASE fromPA' = Append(fromPA, [what |-> "inputs", at |-> place])
      <4> DEFINE x == [what |-> "inputs", at |-> place]
      <4>1. x \in Messages BY <3>4
      <4>2. fromPA' = Append(fromPA, x) BY <3>12
      <4> HIDE DEF x
      <4> QED BY <1>0, <2>2, <4>1, <4>2
    <3> QED BY <3>7, <3>8, <3>9, <3>10, <3>11, <3>12
  <2> QED BY <2>3, <2>5, <2>6, <2>7, <2>8
<1>2. CASE Dispatch
  <2>1. fromPA # <<>> /\ fromPA' = Tail(fromPA) /\ Head(fromPA) \in Messages BY <1>0, <1>2 DEF Dispatch
  <2>2. fromPA' \in Seq(Messages) BY <1>0, <2>1
  <2> DEFINE m == Head(fromPA)
  <2>3. SeesEvent(m) \/ SeesInput(m) \/ SeesInputs(m) \/ SeesSinks(m) \/ SeesAnswer(m)
    BY <1>2 DEF Dispatch
  <2> HIDE DEF m
  <2>4. m \in Messages BY <2>1 DEF m
  <2>5. CASE SeesEvent(m)
    <3>1. \/ toPA' = toPA
          \/ m.what = "change" /\ toPA' = Append(toPA, Request("input", m.stream, None))
          \/ m.what = "output" /\ toPA' = Append(toPA, Request("sink", None, m.sink))
      BY <2>5 DEF SeesEvent
    <3>2. m.what = "change" => Request("input", m.stream, None) \in Requests
      BY <2>4, MessageIs, RequestsAre
    <3>3. m.what = "output" => Request("sink", None, m.sink) \in Requests
      BY <2>4, MessageIs, RequestsAre
    <3>4. \A r \in Requests : Append(toPA, r) \in Seq(Requests)
      <4> HIDE DEF m
      <4> QED BY <1>0
    <3>5. ASSUME toPA' = toPA PROVE toPA' \in Seq(Requests) BY <1>0, <3>5
    <3>6. ASSUME m.what = "change", toPA' = Append(toPA, Request("input", m.stream, None))
          PROVE  toPA' \in Seq(Requests)
      <4> DEFINE r == Request("input", m.stream, None)
      <4>1. r \in Requests BY <3>2, <3>6
      <4>2. toPA' = Append(toPA, r) BY <3>6
      <4> HIDE DEF r
      <4> QED BY <3>4, <4>1, <4>2
    <3>7. ASSUME m.what = "output", toPA' = Append(toPA, Request("sink", None, m.sink))
          PROVE  toPA' \in Seq(Requests)
      <4> DEFINE r == Request("sink", None, m.sink)
      <4>1. r \in Requests BY <3>3, <3>7
      <4>2. toPA' = Append(toPA, r) BY <3>7
      <4> HIDE DEF r
      <4> QED BY <3>4, <4>1, <4>2
    <3>8. toPA' \in Seq(Requests) BY <3>1, <3>5, <3>6, <3>7
    <3> QED BY <2>2, <3>8
  <2>6. ASSUME NEW S \in SUBSET Streams, NEW at, MaybeSilence(S, at) PROVE toPA' \in Seq(Requests)
    <3>1. {s \in S : Takes(s, at[s])} \in SUBSET Streams OBVIOUS
    <3>2. SetToSeq({Request("take", s, Silence) : s \in {s \in S : Takes(s, at[s])}}) \in Seq(Requests)
      BY <3>1, TakesTyped
    <3> QED BY <1>0, <2>6, <3>2 DEF MaybeSilence
  <2>7. CASE SeesInput(m) BY <2>2, <2>4, <2>6, <2>7, MessageIs DEF SeesInput
  <2>8. CASE SeesInputs(m) BY <2>2, <2>6, <2>8 DEF SeesInputs
  <2>9. CASE SeesSinks(m) \/ SeesAnswer(m) BY <1>0, <2>2, <2>9 DEF SeesSinks, SeesAnswer
  <2> QED BY <2>3, <2>5, <2>7, <2>8, <2>9
<1>3. ASSUME NEW op \in {"load", "unload", "list", "subscribe", "inputs"}, NEW next, Step(op, None, None, next)
      PROVE  toPA' \in Seq(Requests)
  BY <1>0, <1>3, RequestsAre DEF Step
<1>4. CASE Main
  <2>1. CASE \E s \in Streams : BringHome(s)
    <3>1. PICK s \in Streams : BringHome(s) BY <2>1
    <3>2. origin[s] \in sinks => Request("home", s, origin[s]) \in Requests BY RequestsAre DEF Typed, Outs
    <3> QED BY <1>0, <3>1, <3>2 DEF BringHome, Step
  <2>2. CASE StopDone BY <2>2 DEF StopDone, Disconnect
  <2>3. CASE Record BY <1>0, <2>3 DEF Record, paVars
  <2> QED BY <1>0, <1>3, <1>4, <2>1, <2>2, <2>3 DEF Main, ListSinks, Subscribe, Sweep, Unload
<1>5. CASE StopImpl
  <2>1. (toPA' = <<>> /\ fromPA' = <<>>) \/ (toPA' = toPA /\ fromPA' = fromPA)
    BY <1>5 DEF StopImpl, Disconnect
  <2> QED BY <1>0, <2>1, Nothing, Zenon
<1>6. CASE World
  <2>0. \A S \in SUBSET Streams : \A what \in {"change", "over"} : ToldOf(S, what) \in Seq(Messages)
    BY TellsTyped
  <2>1. toPA' = toPA BY <1>6 DEF World, StreamEnds, StreamStarts, StreamMoved, SinkComes, SinkGoes, Acts
  <2>2. CASE \E s \in Streams : StreamEnds(s) \/ \E k \in Outputs : StreamStarts(s, k) \/ StreamMoved(s, k)
    <3>1. \E s \in Streams : fromPA' \in {fromPA \o ToldOf({s}, "change"), fromPA \o ToldOf({s}, "over")}
      BY <2>2 DEF StreamEnds, StreamStarts, StreamMoved
    <3>2. fromPA' \in Seq(Messages) BY <1>0, <2>0, <3>1, Longer
    <3> QED BY <1>0, <2>1, <3>2
  <2>3. CASE \E k \in Extra : SinkComes(k)
    <3>1. \A k \in Extra : Event("output", None, k) \in Messages BY EventsAre DEF Outputs
    <3> QED BY <1>0, <2>1, <2>3, <3>1 DEF SinkComes
  <2>4. CASE \E k \in Extra : SinkGoes(k)
    <3>1. PICK k \in Extra : SinkGoes(k) BY <2>4
    <3>2. <<Event("gone", None, k)>> \in Seq(Messages)
      <4>1. Event("gone", None, k) \in Messages BY EventsAre DEF Outputs
      <4> QED BY <4>1
    <3>3. ToldOf({s \in Streams : place[s] = k}, "change") \in Seq(Messages) BY <2>0
    <3>4. fromPA' = fromPA \o ToldOf({s \in Streams : place[s] = k}, "change")
                           \o (IF Told THEN <<Event("gone", None, k)>> ELSE <<>>)
      BY <3>1 DEF SinkGoes
    <3> QED BY <1>0, <2>1, <3>2, <3>3, <3>4
  <2> QED BY <1>6, <2>2, <2>3, <2>4 DEF World
<1>7. CASE Kill BY <1>7 DEF Kill, Disconnect
<1>8. CASE SessionCleanup \/ UNCHANGED audioVars BY <1>0, <1>8 DEF SessionCleanup, audioVars, paVars
<1>9. CASE \E m \in Routes : Start(m)
  <2>1. PICK m \in Routes : Start(m) BY <1>9
  <2>2. Step(IF m = "direct" THEN "unload" ELSE "load", None, None, "silence") /\ fromPA' = fromPA
    BY <2>1 DEF Start
  <2> QED BY <1>0, <1>3, <2>2
<1> QED BY <1>1, <1>2, <1>4, <1>5, <1>6, <1>7, <1>8, <1>9 DEF RouteNext

\* Outputs stay known by name, and the phone's own never go
LEMMA PlacesKept == ASSUME Typed, [RouteNext]_audioVars PROVE (Places1 /\ Outs)'
<1>0. Places1 /\ Outs /\ Queues BY DEF Typed
<1> USE <1>0, SinksAssumption DEF Places1, Outs
<1>1. CASE Serve
  <2>1. Head(toPA) \in Requests /\ UNCHANGED <<up, coming, sinks, late, home>>
    BY <1>1 DEF Serve, implVars, Queues
  <2> DEFINE r == Head(toPA)
  <2>2. ServeLook(r) \/ ServeSink(r) \/ ServeMove(r) \/ ServeStep(r) BY <1>1 DEF Serve
  <2> HIDE DEF r
  <2>3. r \in Requests BY <2>1 DEF r
  <2>4. \/ place' = place \/ place' = Dropped
        \/ r.op \in {"take", "home"} /\ place' = [place EXCEPT ![r.stream] = r.sink]
    BY <2>2 DEF ServeLook, ServeSink, ServeMove, ServeStep
  <2>5. Dropped \in [Streams -> Places] BY DEF Dropped, Places, Outputs
  <2>6. r.op \in {"take", "home"} => r.sink \in Places BY <2>3, RequestIs DEF Places
  <2> QED BY <2>1, <2>4, <2>5, <2>6
<1>2. CASE Dispatch
  <2>1. Head(fromPA) \in Messages /\ UNCHANGED <<place, up, coming, late, home>>
    BY <1>2 DEF Dispatch, Queues
  <2> DEFINE m == Head(fromPA)
  <2>2. SeesEvent(m) \/ SeesInput(m) \/ SeesInputs(m) \/ SeesSinks(m) \/ SeesAnswer(m)
    BY <1>2 DEF Dispatch
  <2> HIDE DEF m
  <2>3. m \in Messages BY <2>1 DEF m
  <2>4. \/ sinks' = sinks
        \/ sinks' = sinks \ {m.sink}
        \/ (m.what = "sink" /\ sinks' = sinks \cup {m.sink})
        \/ (m.what = "sinks" /\ sinks' = sinks \cup m.all)
    <3>1. CASE SeesEvent(m) \/ SeesInput(m) \/ SeesInputs(m) \/ SeesAnswer(m)
      BY <3>1 DEF SeesEvent, SeesInput, SeesInputs, SeesAnswer
    <3>2. CASE SeesSinks(m) BY <3>2 DEF SeesSinks
    <3> QED BY <2>2, <3>1, <3>2
  <2>5. sinks' \subseteq Outputs BY <2>3, <2>4, MessageIs
  <2> QED BY <2>1, <2>5
<1>3. CASE Main
  BY <1>3 DEF Main, ListSinks, Subscribe, Sweep, Record, Unload, StopDone, BringHome, Disconnect,
              NewImpl, histVars, paVars
<1>4. CASE StopImpl BY <1>4 DEF StopImpl, Disconnect, NewImpl
<1>5. CASE World
  <2>0. \A k \in Outputs : k \in Places BY DEF Places
  <2>1. CASE \E s \in Streams : StreamEnds(s)
    <3>1. "over" \in Places BY DEF Places
    <3> QED BY <2>1, <3>1 DEF StreamEnds, Acts, implVars
  <2>2. CASE \E s \in Streams, k \in Outputs : StreamStarts(s, k) \/ StreamMoved(s, k)
    BY <2>0, <2>2 DEF StreamStarts, StreamMoved, Acts, implVars
  <2>3. CASE \E k \in Extra : SinkComes(k)
    BY <2>3 DEF SinkComes, Acts, implVars, Unnoticed, Outputs
  <2>4. CASE \E k \in Extra : SinkGoes(k)
    <3>1. PICK k \in Extra : SinkGoes(k) BY <2>4
    <3>2. Null \in Outputs BY DEF Outputs
    <3>3. place' \in [Streams -> Places] /\ home' \in [Streams -> Outputs \cup {None}]
      BY <2>0, <3>1, <3>2 DEF SinkGoes
    <3>4. up' = up \ {k} /\ UNCHANGED <<sinks, coming>> /\ late' \subseteq late \cup {k} /\ k \notin {Media, Null}
      BY <3>1 DEF SinkGoes, Acts, implVars, Unnoticed
    <3> QED BY <3>3, <3>4
  <2> QED BY <1>5, <2>1, <2>2, <2>3, <2>4 DEF World
<1>6. CASE Kill BY <1>6 DEF Kill, Disconnect, NewImpl
<1>7. CASE SessionCleanup
  <2>1. Media \in Places BY DEF Places, Outputs
  <2> QED BY <1>7, <2>1 DEF SessionCleanup, implVars
<1>8. CASE \E m \in Routes : Start(m) BY <1>8 DEF Start, histVars
<1>9. CASE UNCHANGED audioVars BY <1>9 DEF audioVars, paVars, implVars, histVars
<1> QED BY <1>1, <1>2, <1>3, <1>4, <1>5, <1>6, <1>7, <1>8, <1>9 DEF RouteNext

LEMMA MarksKept == ASSUME Typed, [RouteNext]_audioVars PROVE (Marks /\ Counts)'
<1>0. Marks /\ Counts BY DEF Typed
<1>1. toMove' \subseteq Streams
  BY <1>0 DEF Marks, RouteNext, Serve, Dispatch, Main, ListSinks, Subscribe, Sweep, Record, Unload, StopDone,
    BringHome, Disconnect, NewImpl, StopImpl, World, StreamEnds, StreamStarts, StreamMoved, SinkComes,
    SinkGoes, Acts, Kill, SessionCleanup, Start, implVars, audioVars
<1>2. stray' \subseteq Streams
  BY <1>0 DEF Marks, RouteNext, Serve, Dispatch, Main, ListSinks, Subscribe, Sweep, Record, Unload, StopDone,
    BringHome, StopImpl, World, StreamEnds, StreamStarts, StreamMoved, SinkComes,
    SinkGoes, Kill, SessionCleanup, Start, histVars, audioVars
<1>3. left' = left \/ (left > 0 /\ left' = left - 1)
  BY DEF RouteNext, Serve, Dispatch, Main, ListSinks, Subscribe, Sweep, Record, Unload, StopDone,
    BringHome, StopImpl, World, StreamEnds, StreamStarts, StreamMoved, SinkComes,
    SinkGoes, Acts, Kill, SessionCleanup, Start, audioVars
<1>4. starts' = starts \/ (starts < MaxStarts /\ starts' = starts + 1)
  BY DEF RouteNext, Serve, Dispatch, Main, ListSinks, Subscribe, Sweep, Record, Unload, StopDone,
    BringHome, StopImpl, World, StreamEnds, StreamStarts, StreamMoved, SinkComes,
    SinkGoes, Acts, Kill, SessionCleanup, Start, audioVars
<1> QED BY <1>0, <1>1, <1>2, <1>3, <1>4, BoundsAssumption DEF Marks, Counts

LEMMA FlagsKept == ASSUME Typed, [RouteNext]_audioVars PROVE Flags'
<1>0. Flags /\ Queues BY DEF Typed
<1>1. /\ subscribed' \in {subscribed, TRUE, FALSE} /\ silence' \in {silence, TRUE, FALSE}
      /\ stepDone' \in {stepDone, TRUE, FALSE} /\ listening' \in {listening, TRUE, FALSE}
      /\ routing' \in {routing, foundSink, FALSE}
  BY DEF RouteNext, Serve, ServeLook, ServeSink, ServeMove, ServeStep, Dispatch, SeesEvent, SeesInput, SeesInputs, SeesSinks,
    SeesAnswer, Main, ListSinks, Subscribe, Sweep, Record, Unload, StopDone, BringHome, Step,
    Disconnect, NewImpl, StopImpl, World, StreamEnds, StreamStarts, StreamMoved, SinkComes,
    SinkGoes, Acts, Kill, SessionCleanup, Start, implVars, paVars, histVars, audioVars
<1>2. killed' \in BOOLEAN
  <2>1. \/ killed' = killed \/ killed' = (killed /\ silence') \/ killed' = silence \/ killed' = FALSE
    BY DEF RouteNext, Serve, Dispatch, Main, ListSinks, Subscribe, Sweep, Record, Unload, StopDone, BringHome,
      StopImpl, World, StreamEnds, StreamStarts, StreamMoved, SinkComes, SinkGoes, Kill,
      SessionCleanup, Start, histVars, audioVars
  <2> QED BY <1>0, <1>1, <2>1, Zenon DEF Flags
<1>3. foundSink' \in BOOLEAN
  <2>1. CASE Dispatch
    <3>1. Head(fromPA) \in Messages BY <1>0, <2>1 DEF Dispatch, Queues
    <3> DEFINE m == Head(fromPA)
    <3>2. SeesEvent(m) \/ SeesInput(m) \/ SeesInputs(m) \/ SeesSinks(m) \/ SeesAnswer(m)
      BY <2>1 DEF Dispatch
    <3> HIDE DEF m
    <3>3. foundSink' = foundSink \/ (m.what = "answer" /\ foundSink' = m.found)
      BY <3>2, Zenon DEF SeesEvent, SeesInput, SeesInputs, SeesSinks, SeesAnswer
    <3>4. m \in Messages BY <3>1 DEF m
    <3>5. CASE foundSink' = foundSink BY <1>0, <3>5, Zenon DEF Flags
    <3>6. CASE m.what = "answer" /\ foundSink' = m.found
      <4>1. m.found \in BOOLEAN BY <3>4, <3>6, AnswerFound
      <4> QED BY <3>6, <4>1, Zenon
    <3> QED BY <3>3, <3>5, <3>6
  <2>2. CASE ~Dispatch
    <3>1. foundSink' \in {foundSink, FALSE}
      BY <2>2 DEF RouteNext, Serve, Main, ListSinks, Subscribe, Sweep, Record, Unload, StopDone, BringHome,
        Step, Disconnect, NewImpl, StopImpl, World, StreamEnds, StreamStarts, StreamMoved, SinkComes,
        SinkGoes, Acts, Kill, SessionCleanup, Start, implVars, audioVars
    <3> QED BY <1>0, <3>1, Zenon DEF Flags
  <2> QED BY <2>1, <2>2
<1> QED BY <1>0, <1>1, <1>2, <1>3, Zenon DEF Flags

LEMMA AtKept == ASSUME Typed, [RouteNext]_audioVars PROVE At'
<1>1. \A m \in Routes : m \in {"auto", "all", "direct"} BY SinksAssumption
<1>2. /\ pc' \in {pc, "off", "running", "silence", "list", "subscribe", "sweep", "home", "unload"}
      /\ mode' \in {mode, "auto"} \cup Routes
  BY DEF RouteNext, Serve, Dispatch, Main, ListSinks, Subscribe, Sweep,
    Record, Unload, StopDone, BringHome, Step, Disconnect, StopImpl, World, StreamEnds, StreamStarts,
    StreamMoved, SinkComes, SinkGoes, Acts, Kill, SessionCleanup, Start, implVars, paVars, audioVars
<1> QED BY <1>1, <1>2 DEF Typed, At, Starting, Stopping

LEMMA OriginsKept == ASSUME Typed, [RouteNext]_audioVars PROVE Origins'
<1>0. Origins /\ Queues BY DEF Typed
<1>1. CASE Dispatch
  <2>1. Head(fromPA) \in Messages BY <1>0, <1>1 DEF Dispatch, Queues
  <2> DEFINE m == Head(fromPA)
  <2>2. SeesEvent(m) \/ SeesInput(m) \/ SeesInputs(m) \/ SeesSinks(m) \/ SeesAnswer(m)
    BY <1>1 DEF Dispatch
  <2> HIDE DEF m
  <2>3. m \in Messages BY <2>1 DEF m
  <2>4. ASSUME NEW S \in SUBSET Streams, NEW at, \A s \in S : at[s] \in Outputs \cup {Silence},
               MaybeSilence(S, at)
        PROVE  Origins'
    <3>1. \A s \in S : Takes(s, at[s]) => at[s] \in Outputs BY <2>4 DEF Takes
    <3>2. Media \in Outputs BY DEF Outputs
    <3>3. origin' = [s \in Streams |-> IF s \in {t \in S : Takes(t, at[t])} THEN at[s]
                                       ELSE IF s \in S /\ Leftover(s, at[s]) THEN Media
                                       ELSE origin[s]]
      BY <2>4 DEF MaybeSilence
    <3> QED BY <1>0, <3>1, <3>2, <3>3 DEF Origins
  <2>5. CASE SeesEvent(m) BY <1>0, <2>5 DEF SeesEvent, Origins
  <2>6. CASE SeesInput(m) BY <2>3, <2>4, <2>6, MessageIs DEF SeesInput
  <2>7. CASE SeesInputs(m)
    <3>1. m.at \in [Streams -> Places] BY <2>3, <2>7, MessageIs DEF SeesInputs
    <3>2. \A s \in {s \in Streams : m.at[s] \notin {"new", "over"}} : m.at[s] \in Outputs \cup {Silence}
      BY <3>1 DEF Places
    <3> QED BY <2>4, <2>7, <3>2 DEF SeesInputs
  <2>8. CASE SeesSinks(m) \/ SeesAnswer(m) BY <1>0, <2>8 DEF SeesSinks, SeesAnswer, Origins
  <2> QED BY <2>2, <2>5, <2>6, <2>7, <2>8
<1>2. CASE ~Dispatch
  <2>1. origin' = origin \/ origin' = [s \in Streams |-> None]
    BY <1>2 DEF RouteNext, Serve, Main, ListSinks, Subscribe, Sweep, Record, Unload, StopDone, BringHome,
        Disconnect, NewImpl, StopImpl, World, StreamEnds, StreamStarts, StreamMoved, SinkComes,
        SinkGoes, Acts, Kill, SessionCleanup, Start, implVars, audioVars
  <2> QED BY <1>0, <2>1 DEF Origins
<1> QED BY <1>1, <1>2

LEMMA TypedHolds == RouteSpec => []Typed
<1>1. RouteInit => Typed
  <2> SUFFICES ASSUME RouteInit PROVE Typed OBVIOUS
  <2>1. /\ place \in [Streams -> {"new", Media} \cup (IF silence THEN {Silence} ELSE {})]
        /\ home = [s \in Streams |-> IF place[s] \in Outputs THEN place[s] ELSE None]
    BY DEF RouteInit
  <2>2. Places1 BY <2>1 DEF Places1, Places, Outputs
  <2>3. Outs /\ Marks /\ Counts /\ Queues /\ At /\ Origins
    BY BoundsAssumption, SinksAssumption DEF RouteInit, Outs, Marks, Counts, Queues, At, Origins, Outputs
  <2>4. Flags BY Zenon DEF RouteInit, Flags
  <2> QED BY <2>2, <2>3, <2>4 DEF Typed
<1>2. Typed /\ [RouteNext]_audioVars => Typed'
  BY QueuesKept, PlacesKept, MarksKept, FlagsKept, AtKept, OriginsKept DEF Typed
<1> QED BY <1>1, <1>2, PTL DEF RouteSpec

--------------------------------------------------------------------------------
(* Steps and their answers *)

NoneOf(q, S) == \A i \in DOMAIN q : q[i] \notin S
OneOf(q, S) == \E i \in DOMAIN q : \A j \in DOMAIN q : q[j] \in S <=> j = i

LEMMA NoneLonger ==
  ASSUME NEW T, NEW S, NEW q \in Seq(T), NEW x \in Seq(T), NoneOf(q, S), NoneOf(x, S)
  PROVE  NoneOf(q \o x, S)
BY DEF NoneOf

LEMMA OneLonger ==
  ASSUME NEW T, NEW S, NEW q \in Seq(T), NEW x \in Seq(T), OneOf(q, S), NoneOf(x, S)
  PROVE  OneOf(q \o x, S)
<1>1. PICK i \in DOMAIN q : \A j \in DOMAIN q : q[j] \in S <=> j = i BY DEF OneOf
<1>2. \A j \in DOMAIN (q \o x) : (q \o x)[j] \in S <=> j = i BY <1>1 DEF NoneOf
<1>3. i \in DOMAIN (q \o x)
  <2>1. DOMAIN q = 1..Len(q) /\ DOMAIN (q \o x) = 1..(Len(q) + Len(x)) BY Longer
  <2> QED BY <1>1, <2>1
<1> DEFINE a == q \o x
<1> HIDE DEF a
<1>4. i \in DOMAIN a /\ \A j \in DOMAIN a : a[j] \in S <=> j = i BY <1>2, <1>3 DEF a
<1>5. OneOf(a, S) BY <1>4, Zenon DEF OneOf
<1> QED BY <1>5 DEF a

LEMMA OneMore ==
  ASSUME NEW T, NEW S, NEW q \in Seq(T), NEW x \in T, NoneOf(q, S), x \in S
  PROVE  OneOf(Append(q, x), S)
<1> DEFINE a == Append(q, x)
<1>1. Len(q) + 1 \in DOMAIN a /\ \A j \in DOMAIN a : a[j] \in S <=> j = Len(q) + 1 BY DEF NoneOf
<1> QED BY <1>1 DEF OneOf

LEMMA NoneShorter ==
  ASSUME NEW T, NEW S, NEW q \in Seq(T), q # <<>>, NoneOf(q, S)
  PROVE  NoneOf(Tail(q), S) /\ Head(q) \notin S
BY DEF NoneOf

LEMMA OneShorter ==
  ASSUME NEW T, NEW S, NEW q \in Seq(T), q # <<>>, OneOf(q, S)
  PROVE  IF Head(q) \in S THEN NoneOf(Tail(q), S) ELSE OneOf(Tail(q), S)
<1>1. PICK i \in DOMAIN q : \A j \in DOMAIN q : q[j] \in S <=> j = i BY DEF OneOf
<1>2. CASE i = 1 BY <1>1, <1>2 DEF NoneOf
<1>3. CASE i # 1
  <2>1. Head(q) \notin S BY <1>1, <1>3
  <2>2. i - 1 \in DOMAIN Tail(q) /\ \A j \in DOMAIN Tail(q) : Tail(q)[j] \in S <=> j = i - 1
    BY <1>1, <1>3
  <2> QED BY <2>1, <2>2 DEF OneOf
<1> QED BY <1>2, <1>3

LEMMA NoneInNothing == \A S : NoneOf(<<>>, S)
BY DEF NoneOf

\* A step, and what is not one
Steps == {r \in Requests : r.op \notin {"input", "sink", "take"}}
Answers == {m \in Messages : m.what \in {"answer", "sinks", "inputs"}}

Waiting == pc \in Starting \cup Stopping /\ ~stepDone

OnlyOne ==
  IF Waiting THEN \/ OneOf(toPA, Steps) /\ NoneOf(fromPA, Answers)
                  \/ NoneOf(toPA, Steps) /\ OneOf(fromPA, Answers)
  ELSE NoneOf(toPA, Steps) /\ NoneOf(fromPA, Answers)

\* What is asked and answered is what the thread waits for
Asked ==
  CASE pc = "silence" -> {"load", "unload"}
    [] pc = "list" -> {"list"}
    [] pc = "subscribe" -> {"subscribe"}
    [] pc = "sweep" -> {"inputs"}
    [] pc = "home" -> {"home"}
    [] pc = "unload" -> {"unload"}
    [] OTHER -> {}

Answered == CASE pc = "list" -> "sinks" [] pc = "sweep" -> "inputs" [] OTHER -> "answer"

Unasked == {r \in Steps : r.op \notin Asked}
Unwanted == {m \in Answers : m.what # Answered}
AskedFor == NoneOf(toPA, Unasked) /\ NoneOf(fromPA, Unwanted)

\* Nobody listens before the outputs are listed, nobody when it ends
Idle == pc = "off" => toPA = <<>> /\ fromPA = <<>> /\ ~subscribed /\ ~stepDone
Listens == listening => pc \in {"subscribe", "sweep", "running"}
RunsOn == pc = "running" => stepDone

StepInv == OnlyOne /\ AskedFor /\ Idle /\ Listens /\ RunsOn

LEMMA TellsCalmly ==
  ASSUME NEW S \in SUBSET Streams, NEW what \in {"change", "over"}
  PROVE  NoneOf(ToldOf(S, what), Answers)
<1>1. ToldOf(S, what) \in Seq({Event(what, s, None) : s \in S}) BY TellsOf
<1> QED BY <1>1 DEF NoneOf, Answers, Event

LEMMA TakesCalmly ==
  ASSUME NEW S \in SUBSET Streams
  PROVE  NoneOf(SetToSeq({Request("take", s, Silence) : s \in S}), Steps)
<1> DEFINE T == {Request("take", s, Silence) : s \in S}
<1>1. SetToSeq(T) \in Seq(T) BY TakesOf
<1>2. \A r \in T : r \notin Steps BY DEF Steps, Request
<1> HIDE DEF T
<1> QED BY <1>1, <1>2 DEF NoneOf, T

\* What PulseAudio says when it serves a request: events, then the answer to
\* a step
LEMMA ServeSays ==
  ASSUME Typed, Serve
  PROVE  LET r == Head(toPA)
         IN  /\ toPA # <<>> /\ toPA' = Tail(toPA) /\ r \in Requests
             /\ \E x \in Seq(Messages) :
                  /\ NoneOf(x, Answers)
                  /\ \/ r \notin Steps /\ fromPA' = fromPA \o x
                     \/ /\ r \in Steps
                        /\ \E m \in Answers :
                             /\ fromPA' = Append(fromPA \o x, m)
                             /\ m.what = IF r.op = "list" THEN "sinks"
                                         ELSE IF r.op = "inputs" THEN "inputs" ELSE "answer"
<1>0. toPA \in Seq(Requests) /\ fromPA \in Seq(Messages) BY DEF Typed, Queues
<1>1. toPA # <<>> /\ toPA' = Tail(toPA) /\ Head(toPA) \in Requests BY <1>0 DEF Serve
<1> DEFINE r == Head(toPA)
<1>2. ServeLook(r) \/ ServeSink(r) \/ ServeMove(r) \/ ServeStep(r) BY DEF Serve
<1> HIDE DEF r
<1>3. r \in Requests BY <1>1 DEF r
<1>4. <<>> \in Seq(Messages) /\ NoneOf(<<>>, Answers) BY Nothing, NoneInNothing
<1>5. \A m \in Messages : <<m>> \in Seq(Messages) /\ (m \notin Answers => NoneOf(<<m>>, Answers)) BY DEF NoneOf
<1> DEFINE Says(x) == x \in Seq(Messages) /\ NoneOf(x, Answers)
           Ends(x, m) == /\ m \in Answers /\ fromPA' = Append(fromPA \o x, m)
                         /\ m.what = IF r.op = "list" THEN "sinks"
                                     ELSE IF r.op = "inputs" THEN "inputs" ELSE "answer"
<1>6. (\E x : Says(x) /\ r \notin Steps /\ fromPA' = fromPA \o x)
        \/ (\E x, m : Says(x) /\ r \in Steps /\ Ends(x, m))
  <2>1. fromPA \o <<>> = fromPA BY <1>0
  <2>2. CASE ServeLook(r) \/ ServeSink(r)
    <3>1. r \notin Steps BY <2>2 DEF Steps, ServeLook, ServeSink
    <3>2. CASE fromPA' = fromPA BY <1>4, <2>1, <3>1, <3>2
    <3>3. CASE fromPA' # fromPA
      <4>1. PICK m : /\ fromPA' = Append(fromPA, m)
                     /\ \/ ServeLook(r) /\ Playing(r.stream) /\ m = Event("input", r.stream, place[r.stream])
                        \/ ServeSink(r) /\ m = Event("sink", None, r.sink)
        BY <2>2, <3>3 DEF ServeLook, ServeSink
      <4>2. m \in Messages
        <5>1. CASE ServeLook(r) /\ Playing(r.stream) /\ m = Event("input", r.stream, place[r.stream])
          <6>1. r.stream \in Streams /\ place[r.stream] \in Places
            BY <1>3, <5>1, RequestIs DEF ServeLook, Typed, Places1
          <6> QED BY <5>1, <6>1, EventsAre DEF Playing, Places
        <5>2. CASE ServeSink(r) /\ m = Event("sink", None, r.sink)
          BY <1>3, <5>2, RequestIs, EventsAre DEF ServeSink
        <5> QED BY <4>1, <5>1, <5>2
      <4>3. m \notin Answers BY <4>1 DEF Answers, Event
      <4>4. fromPA' = fromPA \o <<m>> BY <1>0, <4>1, <4>2
      <4> QED BY <1>5, <3>1, <4>2, <4>3, <4>4
    <3> QED BY <3>2, <3>3
  <2>3. CASE ServeMove(r)
    <3> DEFINE possible == Playing(r.stream) /\ r.sink \in up \cup {Silence}
               moves == possible /\ place[r.stream] # r.sink
               x == IF moves THEN ToldOf({r.stream}, "change") ELSE <<>>
               m == [what |-> "answer", found |-> possible]
    <3>1. possible \in BOOLEAN BY Zenon DEF Playing
    <3>2. m \in Messages BY <3>1, AnswersAre
    <3>3. m \in Answers /\ m.what = "answer" BY <3>2 DEF Answers
    <3>4. r.stream \in Streams BY <1>3, <2>3, RequestIs DEF ServeMove
    <3>5. ToldOf({r.stream}, "change") \in Seq(Messages) /\ NoneOf(ToldOf({r.stream}, "change"), Answers)
      BY <3>4, TellsTyped, TellsCalmly
    <3>6. fromPA' = fromPA \o x \o (IF r.op = "home" THEN <<m>> ELSE <<>>)
      BY <2>3, Zenon DEF ServeMove, Answer
    <3> HIDE DEF possible, moves, m
    <3>7. Says(x) BY <1>4, <3>5
    <3>8. r.op \in {"take", "home"} BY <2>3 DEF ServeMove
    <3> HIDE DEF x
    <3>9. CASE r.op = "take"
      <4>1. r \notin Steps BY <3>9 DEF Steps
      <4>2. fromPA' = fromPA \o x \o <<>> BY <3>6, <3>9
      <4>3. fromPA' = fromPA \o x BY <1>0, <3>7, <4>2
      <4> QED BY <3>7, <4>1, <4>3
    <3>10. CASE r.op = "home"
      <4>1. r \in Steps BY <1>3, <3>10 DEF Steps
      <4>2. fromPA' = fromPA \o x \o <<m>> BY <3>6, <3>10
      <4>3. fromPA' = Append(fromPA \o x, m) BY <1>0, <3>2, <3>7, <4>2
      <4>4. Ends(x, m) BY <3>3, <3>10, <4>3
      <4> QED BY <3>7, <4>1, <4>4
    <3> QED BY <3>8, <3>9, <3>10
  <2>4. CASE ServeStep(r)
    <3>1. r \in Steps BY <1>3, <2>4 DEF ServeStep, Steps
    <3>2. up \in SUBSET Outputs /\ place \in [Streams -> Places] /\ silence \in BOOLEAN
      BY Zenon DEF Typed, Outs, Places1, Flags
    <3>3. ASSUME NEW x, Says(x), NEW f \in BOOLEAN, fromPA' = fromPA \o x \o Answer(f),
                 r.op \notin {"list", "inputs"}
          PROVE  \E y, m : Says(y) /\ r \in Steps /\ Ends(y, m)
      <4> DEFINE m == [what |-> "answer", found |-> f]
      <4>1. m \in Messages BY AnswersAre
      <4>2. m \in Answers /\ m.what = "answer" BY <4>1 DEF Answers
      <4>3. fromPA' = fromPA \o x \o <<m>> BY <3>3, Zenon DEF Answer
      <4> HIDE DEF m
      <4>4. fromPA' = Append(fromPA \o x, m) BY <1>0, <3>3, <4>1, <4>3
      <4>5. Ends(x, m) BY <3>3, <4>2, <4>4
      <4> QED BY <3>1, <3>3, <4>5
    <3>4. ASSUME NEW m \in Answers, fromPA' = Append(fromPA, m),
                 m.what = IF r.op = "list" THEN "sinks" ELSE IF r.op = "inputs" THEN "inputs" ELSE "answer"
          PROVE  \E y, n : Says(y) /\ r \in Steps /\ Ends(y, n)
      <4>1. Ends(<<>>, m) BY <2>1, <3>4
      <4> QED BY <1>4, <3>1, <4>1
    <3>5. CASE r.op = "load" /\ silence' \in {TRUE, silence} /\ fromPA' = fromPA \o Answer(silence')
      <4>1. silence' \in BOOLEAN BY <3>2, <3>5, Zenon
      <4>2. fromPA' = fromPA \o <<>> \o Answer(silence') BY <2>1, <3>5
      <4> QED BY <1>4, <3>3, <3>5, <4>1, <4>2
    <3>6. CASE /\ r.op = "unload"
               /\ fromPA' = fromPA \o ToldOf({s \in Streams : place[s] = Silence}, "change") \o Answer(FALSE)
      <4> DEFINE x == ToldOf({s \in Streams : place[s] = Silence}, "change")
      <4>1. Says(x) BY TellsTyped, TellsCalmly
      <4>2. fromPA' = fromPA \o x \o Answer(FALSE) BY <3>6
      <4> HIDE DEF x
      <4>3. r.op \notin {"list", "inputs"} BY <3>6
      <4> QED BY <3>3, <4>1, <4>2, <4>3, Zenon
    <3>7. CASE r.op = "list" /\ fromPA' = Append(fromPA, [what |-> "sinks", all |-> up])
      <4> DEFINE m == [what |-> "sinks", all |-> up]
      <4>1. m \in Messages BY <3>2, AnswersAre
      <4>2. m \in Answers /\ m.what = "sinks" BY <4>1 DEF Answers
      <4> HIDE DEF m
      <4> QED BY <3>4, <3>7, <4>2 DEF m
    <3>8. CASE r.op = "subscribe" /\ fromPA' = fromPA \o Answer(FALSE)
      <4>1. fromPA' = fromPA \o <<>> \o Answer(FALSE) BY <2>1, <3>8
      <4>2. r.op \notin {"list", "inputs"} BY <3>8
      <4> QED BY <1>4, <3>3, <4>1, <4>2, Zenon
    <3>9. CASE r.op = "inputs" /\ fromPA' = Append(fromPA, [what |-> "inputs", at |-> place])
      <4> DEFINE m == [what |-> "inputs", at |-> place]
      <4>1. m \in Messages BY <3>2, AnswersAre
      <4>2. m \in Answers /\ m.what = "inputs" BY <4>1 DEF Answers
      <4> HIDE DEF m
      <4> QED BY <3>4, <3>9, <4>2 DEF m
    <3> QED BY <2>4, <3>5, <3>6, <3>7, <3>8, <3>9, Zenon DEF ServeStep
  <2> QED BY <1>2, <2>2, <2>3, <2>4
<1> QED BY <1>1, <1>6 DEF r


LEMMA NoneFewer ==
  ASSUME NEW q, NEW S, NEW R, NoneOf(q, S), R \subseteq S PROVE NoneOf(q, R)
BY DEF NoneOf

\* What castd does with what it is told: it asks PulseAudio for what is no
\* step, and only an answer ends its wait
LEMMA DispatchDoes ==
  ASSUME Typed, Dispatch
  PROVE  LET m == Head(fromPA)
         IN  /\ fromPA # <<>> /\ fromPA' = Tail(fromPA) /\ m \in Messages
             /\ stepDone' = IF m \in Answers THEN TRUE ELSE stepDone
             /\ \E y \in Seq(Requests) : NoneOf(y, Steps) /\ toPA' = toPA \o y
<1>0. toPA \in Seq(Requests) /\ fromPA \in Seq(Messages) BY DEF Typed, Queues
<1>1. fromPA # <<>> /\ fromPA' = Tail(fromPA) /\ Head(fromPA) \in Messages BY <1>0 DEF Dispatch
<1> DEFINE m == Head(fromPA)
<1>2. SeesEvent(m) \/ SeesInput(m) \/ SeesInputs(m) \/ SeesSinks(m) \/ SeesAnswer(m) BY DEF Dispatch
<1> HIDE DEF m
<1>3. m \in Messages BY <1>1 DEF m
<1>4. stepDone' = IF m \in Answers THEN TRUE ELSE stepDone
  <2>1. m \in Answers <=> m.what \in {"answer", "sinks", "inputs"} BY <1>3 DEF Answers
  <2>2. CASE SeesEvent(m) \/ SeesInput(m) BY <2>1, <2>2, Zenon DEF SeesEvent, SeesInput
  <2>3. CASE SeesInputs(m) \/ SeesAnswer(m) BY <2>1, <2>3 DEF SeesInputs, SeesAnswer
  <2>4. CASE SeesSinks(m) /\ m.what = "sinks"
    <3>1. stepDone' = TRUE BY <2>4, Zenon DEF SeesSinks
    <3> QED BY <2>1, <2>4, <3>1
  <2>5. CASE SeesSinks(m) /\ m.what = "sink"
    <3>1. stepDone' = (stepDone \/ m.what = "sinks") /\ m.what # "sinks" BY <2>5 DEF SeesSinks
    <3>2. stepDone \in BOOLEAN BY DEF Typed, Flags
    <3>3. stepDone' = stepDone BY <3>1, <3>2, Zenon
    <3> QED BY <2>1, <2>5, <3>3
  <2>6. SeesSinks(m) => m.what \in {"sink", "sinks"} BY DEF SeesSinks
  <2> QED BY <1>2, <2>2, <2>3, <2>4, <2>5, <2>6
<1>5. toPA \o <<>> = toPA /\ <<>> \in Seq(Requests) /\ NoneOf(<<>>, Steps) BY <1>0, NoneInNothing
<1>6. ASSUME NEW S \in SUBSET Streams, NEW at, MaybeSilence(S, at)
      PROVE  \E y \in Seq(Requests) : NoneOf(y, Steps) /\ toPA' = toPA \o y
  <2> DEFINE y == SetToSeq({Request("take", s, Silence) : s \in {s \in S : Takes(s, at[s])}})
  <2>1. {s \in S : Takes(s, at[s])} \in SUBSET Streams OBVIOUS
  <2>2. y \in Seq(Requests) /\ NoneOf(y, Steps) BY <2>1, TakesTyped, TakesCalmly
  <2>3. toPA' = toPA \o y BY <1>6 DEF MaybeSilence
  <2> HIDE DEF y
  <2> QED BY <2>2, <2>3
<1>7. \E y \in Seq(Requests) : NoneOf(y, Steps) /\ toPA' = toPA \o y
  <2>1. CASE SeesEvent(m)
    <3>1. \/ toPA' = toPA
          \/ m.what = "change" /\ toPA' = Append(toPA, Request("input", m.stream, None))
          \/ m.what = "output" /\ toPA' = Append(toPA, Request("sink", None, m.sink))
      BY <2>1 DEF SeesEvent
    <3>2. m.what = "change" => Request("input", m.stream, None) \in Requests
      BY <1>3, MessageIs, RequestsAre
    <3>3. m.what = "output" => Request("sink", None, m.sink) \in Requests
      BY <1>3, MessageIs, RequestsAre
    <3>4. ASSUME NEW r \in Requests, r.op \in {"input", "sink"}, toPA' = Append(toPA, r)
          PROVE  \E y \in Seq(Requests) : NoneOf(y, Steps) /\ toPA' = toPA \o y
      <4>1. <<r>> \in Seq(Requests) /\ NoneOf(<<r>>, Steps) BY <3>4 DEF NoneOf, Steps
      <4>2. toPA' = toPA \o <<r>> BY <1>0, <3>4
      <4> QED BY <4>1, <4>2
    <3>5. Request("input", m.stream, None).op = "input" /\ Request("sink", None, m.sink).op = "sink"
      BY DEF Request
    <3> QED BY <1>5, <3>1, <3>2, <3>3, <3>4, <3>5
  <2>2. CASE SeesInput(m)
    <3>1. {m.stream} \in SUBSET Streams BY <1>3, <2>2, MessageIs DEF SeesInput
    <3> QED BY <1>6, <2>2, <3>1 DEF SeesInput
  <2>3. CASE SeesInputs(m) BY <1>6, <2>3 DEF SeesInputs
  <2>4. CASE SeesSinks(m) \/ SeesAnswer(m) BY <1>5, <2>4 DEF SeesSinks, SeesAnswer
  <2> QED BY <1>2, <2>1, <2>2, <2>3, <2>4
<1> QED BY <1>1, <1>4, <1>7 DEF m

\* What castd is told of the world: no answer to anything
LEMMA WorldTells ==
  ASSUME Typed, World
  PROVE  /\ pc # "off" /\ UNCHANGED <<toPA, pc, stepDone, listening>>
         /\ \E x \in Seq(Messages) : NoneOf(x, Answers) /\ fromPA' = fromPA \o x
<1>0. fromPA \in Seq(Messages) BY DEF Typed, Queues
<1>1. pc # "off" /\ UNCHANGED <<toPA, pc, stepDone, listening>>
  BY DEF World, StreamEnds, StreamStarts, StreamMoved, SinkComes, SinkGoes, Acts, implVars
<1>2. \A S \in SUBSET Streams : \A what \in {"change", "over"} :
        ToldOf(S, what) \in Seq(Messages) /\ NoneOf(ToldOf(S, what), Answers)
  BY TellsTyped, TellsCalmly
<1>3. ASSUME NEW k \in Outputs, NEW what \in {"output", "gone"}
      PROVE  <<Event(what, None, k)>> \in Seq(Messages) /\ NoneOf(<<Event(what, None, k)>>, Answers)
  <2> DEFINE e == Event(what, None, k)
  <2>1. e \in Messages BY EventsAre
  <2>2. e \notin Answers BY DEF Answers, Event
  <2> HIDE DEF e
  <2>3. <<e>> \in Seq(Messages) /\ NoneOf(<<e>>, Answers) BY <2>1, <2>2 DEF NoneOf
  <2> QED BY <2>3 DEF e
<1>4. fromPA \o <<>> = fromPA /\ <<>> \in Seq(Messages) /\ NoneOf(<<>>, Answers) BY <1>0, NoneInNothing
<1>5. CASE \E s \in Streams : StreamEnds(s) \/ \E k \in Outputs : StreamStarts(s, k) \/ StreamMoved(s, k)
  <2>1. \E s \in Streams : \E what \in {"change", "over"} : fromPA' = fromPA \o ToldOf({s}, what)
    BY <1>5, Zenon DEF StreamEnds, StreamStarts, StreamMoved
  <2>2. PICK s \in Streams, what \in {"change", "over"} : fromPA' = fromPA \o ToldOf({s}, what)
    BY <2>1, Zenon
  <2>3. {s} \in SUBSET Streams OBVIOUS
  <2> QED BY <1>1, <1>2, <2>2, <2>3, Zenon
<1>6. CASE \E k \in Extra : SinkComes(k) \/ SinkGoes(k)
  <2>1. PICK k \in Extra : SinkComes(k) \/ SinkGoes(k) BY <1>6
  <2>2. k \in Outputs BY DEF Outputs
  <2>3. CASE SinkComes(k)
    <3> DEFINE e == Event("output", None, k)
    <3>1. fromPA' = fromPA \/ fromPA' = Append(fromPA, e) BY <2>3 DEF SinkComes
    <3>2. e \in Messages BY <2>2, EventsAre
    <3>3. <<e>> \in Seq(Messages) /\ NoneOf(<<e>>, Answers) BY <1>3, <2>2
    <3> HIDE DEF e
    <3>4. Append(fromPA, e) = fromPA \o <<e>> BY <1>0, <3>2
    <3> QED BY <1>1, <1>4, <3>1, <3>3, <3>4, Zenon
  <2>4. CASE SinkGoes(k)
    <3> DEFINE S == {s \in Streams : place[s] = k}
               x == ToldOf(S, "change")
               y == IF Told THEN <<Event("gone", None, k)>> ELSE <<>>
    <3>1. S \in SUBSET Streams OBVIOUS
    <3>2. fromPA' = fromPA \o x \o y BY <2>4, Zenon DEF SinkGoes
    <3>3. x \in Seq(Messages) /\ NoneOf(x, Answers) BY <1>2, <3>1
    <3>4. y \in Seq(Messages) /\ NoneOf(y, Answers) BY <1>3, <1>4, <2>2
    <3> HIDE DEF x, y, S
    <3>5. x \o y \in Seq(Messages) /\ fromPA' = fromPA \o (x \o y) BY <1>0, <3>2, <3>3, <3>4
    <3>6. NoneOf(x \o y, Answers) BY <3>3, <3>4, NoneLonger
    <3> QED BY <1>1, <3>5, <3>6
  <2> QED BY <2>1, <2>3, <2>4
<1> QED BY <1>5, <1>6 DEF World

\* Both queues without a step: what castd starts with and ends with
Calm == NoneOf(toPA, Steps) /\ NoneOf(fromPA, Answers)

LEMMA CalmIsAskedFor == ASSUME Calm PROVE AskedFor
<1>1. Unasked \subseteq Steps /\ Unwanted \subseteq Answers BY DEF Unasked, Unwanted
<1> QED BY <1>1, NoneFewer DEF Calm, AskedFor

LEMMA StepKept ==
  ASSUME Typed, StepInv, stepDone \/ pc = "off", NEW op, NEW s, NEW k, NEW next \in Starting \cup Stopping,
         Request(op, s, k) \in Steps, Step(op, s, k, next), op \in Asked',
         listening' => next \in {"subscribe", "sweep"}, fromPA' = fromPA
  PROVE  StepInv'
<1>0. toPA \in Seq(Requests) /\ fromPA \in Seq(Messages) BY DEF Typed, Queues
<1>1. NoneOf(toPA, Steps) /\ NoneOf(fromPA, Answers)
  <2>1. ~Waiting \/ (pc = "off" /\ toPA = <<>> /\ fromPA = <<>>) BY DEF Waiting, StepInv, Idle
  <2> QED BY <2>1, NoneInNothing DEF StepInv, OnlyOne
<1> DEFINE r == Request(op, s, k)
<1>2. toPA' = Append(toPA, r) /\ stepDone' = FALSE /\ pc' = next BY DEF Step
<1>3. r \in Steps /\ r \in Requests /\ r.op = op BY DEF Steps, Request
<1> HIDE DEF r
<1>4. OneOf(toPA', Steps) BY <1>0, <1>1, <1>2, <1>3, OneMore
<1>5. next \notin {"off", "running"} BY DEF Starting, Stopping
<1>6. Waiting' BY <1>2 DEF Waiting
<1>7. Steps' = Steps /\ Answers' = Answers BY DEF Steps, Answers
<1>8. OnlyOne' BY <1>1, <1>4, <1>6, <1>7 DEF OnlyOne, OneOf, NoneOf
<1>9. NoneOf(toPA', Unasked')
  <2>1. Unasked' \subseteq Steps BY DEF Unasked, Steps
  <2>2. r \notin Unasked' BY <1>3 DEF Unasked
  <2>3. NoneOf(toPA, Unasked') BY <1>1, <2>1, NoneFewer
  <2>4. <<r>> \in Seq(Requests) /\ NoneOf(<<r>>, Unasked') BY <1>3, <2>2 DEF NoneOf
  <2>5. toPA' = toPA \o <<r>> BY <1>0, <1>2, <1>3
  <2> QED BY <1>0, <2>3, <2>4, <2>5, NoneLonger
<1>10. NoneOf(fromPA, Unwanted')
  <2>1. Unwanted' \subseteq Answers BY DEF Unwanted, Answers
  <2> QED BY <1>1, <2>1, NoneFewer
<1>11. AskedFor' BY <1>9, <1>10 DEF AskedFor, NoneOf
<1>12. Idle' /\ Listens' /\ RunsOn' BY <1>2, <1>5 DEF Idle, Listens, RunsOn
<1> QED BY <1>8, <1>11, <1>12 DEF StepInv

LEMMA QuietKept ==
  ASSUME Typed, Disconnect PROVE StepInv'
<1>1. pc' = "off" /\ toPA' = <<>> /\ fromPA' = <<>> /\ ~subscribed' /\ ~stepDone' /\ ~listening'
  BY DEF Disconnect, NewImpl
<1>2. Calm' BY <1>1, NoneInNothing DEF Calm, NoneOf
<1>3. ~Waiting' BY <1>1 DEF Waiting, Starting, Stopping
<1>4. OnlyOne' BY <1>2, <1>3 DEF OnlyOne, Calm
<1>5. AskedFor' BY <1>1 DEF AskedFor, NoneOf
<1>6. Idle' /\ Listens' /\ RunsOn' BY <1>1 DEF Idle, Listens, RunsOn
<1> QED BY <1>4, <1>5, <1>6 DEF StepInv


LEMMA StepsAre ==
  /\ \A op \in {"load", "unload", "list", "subscribe", "inputs"} : Request(op, None, None) \in Steps
  /\ \A s \in Streams, k \in Outputs : Request("home", s, k) \in Steps
<1>1. ASSUME NEW op \in {"load", "unload", "list", "subscribe", "inputs"} PROVE Request(op, None, None) \in Steps
  <2>1. Request(op, None, None) \in Requests BY RequestsAre
  <2>2. Request(op, None, None).op = op BY DEF Request
  <2> QED BY <2>1, <2>2 DEF Steps
<1>2. ASSUME NEW s \in Streams, NEW k \in Outputs PROVE Request("home", s, k) \in Steps
  <2>1. Request("home", s, k) \in Requests BY RequestsAre
  <2>2. Request("home", s, k).op = "home" BY DEF Request
  <2> QED BY <2>1, <2>2 DEF Steps
<1> QED BY <1>1, <1>2

LEMMA ServeKept == ASSUME Typed, StepInv, Serve PROVE StepInv'
<1>0. toPA \in Seq(Requests) /\ fromPA \in Seq(Messages) BY DEF Typed, Queues
<1> DEFINE r == Head(toPA)
<1>1. /\ toPA # <<>> /\ toPA' = Tail(toPA) /\ r \in Requests
      /\ \E x \in Seq(Messages) :
           /\ NoneOf(x, Answers)
           /\ \/ r \notin Steps /\ fromPA' = fromPA \o x
              \/ /\ r \in Steps
                 /\ \E m \in Answers :
                      /\ fromPA' = Append(fromPA \o x, m)
                      /\ m.what = IF r.op = "list" THEN "sinks"
                                  ELSE IF r.op = "inputs" THEN "inputs" ELSE "answer"
  BY ServeSays
<1> HIDE DEF r
<1>2. UNCHANGED <<pc, stepDone, listening>> BY DEF Serve, implVars
<1>3. Steps' = Steps /\ Answers' = Answers /\ Unasked' = Unasked /\ Unwanted' = Unwanted /\ Waiting' = Waiting
  BY <1>2 DEF Steps, Answers, Unasked, Unwanted, Asked, Answered, Waiting
<1>4. NoneOf(toPA', Unasked) BY <1>0, <1>1, NoneShorter DEF StepInv, AskedFor
<1>5. Idle' BY <1>1, <1>2 DEF StepInv, Idle, Serve
<1>6. Listens' /\ RunsOn' BY <1>2 DEF StepInv, Listens, RunsOn
<1>7. PICK x \in Seq(Messages) :
           /\ NoneOf(x, Answers)
           /\ \/ r \notin Steps /\ fromPA' = fromPA \o x
              \/ /\ r \in Steps
                 /\ \E m \in Answers :
                      /\ fromPA' = Append(fromPA \o x, m)
                      /\ m.what = IF r.op = "list" THEN "sinks"
                                  ELSE IF r.op = "inputs" THEN "inputs" ELSE "answer"
  BY <1>1
<1>8. NoneOf(fromPA \o x, Unwanted)
  <2>1. Unwanted \subseteq Answers BY DEF Unwanted
  <2>2. NoneOf(x, Unwanted) BY <1>7, <2>1, NoneFewer
  <2>3. NoneOf(fromPA, Unwanted) BY DEF StepInv, AskedFor
  <2> QED BY <1>0, <2>2, <2>3, NoneLonger
<1>9. CASE r \notin Steps
  <2>1. fromPA' = fromPA \o x BY <1>7, <1>9
  <2>2. NoneOf(toPA, Steps) => NoneOf(toPA', Steps) BY <1>0, <1>1, NoneShorter
  <2>3. OneOf(toPA, Steps) => OneOf(toPA', Steps) BY <1>0, <1>1, <1>9, OneShorter DEF r
  <2>4. NoneOf(fromPA, Answers) => NoneOf(fromPA', Answers) BY <1>0, <1>7, <2>1, NoneLonger
  <2>5. OneOf(fromPA, Answers) => OneOf(fromPA', Answers) BY <1>0, <1>7, <2>1, OneLonger
  <2>6. OnlyOne BY DEF StepInv
  <2>7. IF Waiting THEN \/ OneOf(toPA', Steps) /\ NoneOf(fromPA', Answers)
                        \/ NoneOf(toPA', Steps) /\ OneOf(fromPA', Answers)
        ELSE NoneOf(toPA', Steps) /\ NoneOf(fromPA', Answers)
    BY <2>2, <2>3, <2>4, <2>5, <2>6 DEF OnlyOne
  <2>8. OnlyOne' BY <1>3, <2>7 DEF OnlyOne, NoneOf, OneOf
  <2>9. AskedFor' BY <1>3, <1>4, <1>8, <2>1 DEF AskedFor, NoneOf
  <2> QED BY <1>5, <1>6, <2>8, <2>9 DEF StepInv
<1>10. CASE r \in Steps
  <2>1. PICK m \in Answers :
              /\ fromPA' = Append(fromPA \o x, m)
              /\ m.what = IF r.op = "list" THEN "sinks" ELSE IF r.op = "inputs" THEN "inputs" ELSE "answer"
    BY <1>7, <1>10
  <2>2. ~NoneOf(toPA, Steps) BY <1>0, <1>1, <1>10, NoneShorter DEF r
  <2>3. Waiting /\ OneOf(toPA, Steps) /\ NoneOf(fromPA, Answers) BY <2>2 DEF StepInv, OnlyOne
  <2>4. NoneOf(toPA', Steps) BY <1>0, <1>1, <1>10, <2>3, OneShorter DEF r
  <2>5. fromPA \o x \in Seq(Messages) /\ NoneOf(fromPA \o x, Answers) BY <1>0, <1>7, <2>3, NoneLonger
  <2>6. m \in Messages BY DEF Answers
  <2>7. OneOf(fromPA', Answers) BY <2>1, <2>5, <2>6, OneMore
  <2>8. OnlyOne' BY <1>3, <2>3, <2>4, <2>7 DEF OnlyOne, NoneOf, OneOf
  <2>9. r \notin Unasked BY <1>0, <1>1, NoneShorter DEF StepInv, AskedFor, r
  <2>10. m.what = Answered
    <3>1. r.op \in Asked BY <1>10, <2>9 DEF Unasked
    <3> QED BY <2>1, <3>1 DEF Asked, Answered
  <2>11. NoneOf(fromPA', Unwanted)
    <3>1. <<m>> \in Seq(Messages) /\ NoneOf(<<m>>, Unwanted) BY <2>6, <2>10 DEF NoneOf, Unwanted
    <3>2. fromPA' = fromPA \o x \o <<m>> BY <2>1, <2>5, <2>6
    <3> QED BY <1>8, <2>5, <3>1, <3>2, NoneLonger
  <2>12. AskedFor' BY <1>3, <1>4, <2>11 DEF AskedFor, NoneOf
  <2> QED BY <1>5, <1>6, <2>8, <2>12 DEF StepInv
<1> QED BY <1>9, <1>10

LEMMA DispatchKept == ASSUME Typed, StepInv, Dispatch PROVE StepInv'
<1>0. toPA \in Seq(Requests) /\ fromPA \in Seq(Messages) BY DEF Typed, Queues
<1> DEFINE m == Head(fromPA)
<1>1. /\ fromPA # <<>> /\ fromPA' = Tail(fromPA) /\ m \in Messages
      /\ stepDone' = IF m \in Answers THEN TRUE ELSE stepDone
      /\ \E y \in Seq(Requests) : NoneOf(y, Steps) /\ toPA' = toPA \o y
  BY DispatchDoes
<1> HIDE DEF m
<1>2. UNCHANGED <<pc, listening>> /\ pc # "off" BY <1>1 DEF Dispatch, StepInv, Idle
<1>3. Steps' = Steps /\ Answers' = Answers /\ Unasked' = Unasked /\ Unwanted' = Unwanted
  BY <1>2 DEF Steps, Answers, Unasked, Unwanted, Asked, Answered
<1>4. Idle' /\ Listens' /\ RunsOn' BY <1>1, <1>2 DEF StepInv, Idle, Listens, RunsOn
<1>5. PICK y \in Seq(Requests) : NoneOf(y, Steps) /\ toPA' = toPA \o y BY <1>1
<1>6. AskedFor'
  <2>1. NoneOf(fromPA', Unwanted) BY <1>0, <1>1, NoneShorter DEF StepInv, AskedFor
  <2>2. Unasked \subseteq Steps BY DEF Unasked
  <2>3. NoneOf(y, Unasked) BY <1>5, <2>2, NoneFewer
  <2>4. NoneOf(toPA', Unasked) BY <1>0, <1>5, <2>3, NoneLonger DEF StepInv, AskedFor
  <2> QED BY <1>3, <2>1, <2>4 DEF AskedFor, NoneOf
<1>7. NoneOf(toPA, Steps) => NoneOf(toPA', Steps) BY <1>0, <1>5, NoneLonger
<1>8. OnlyOne BY DEF StepInv
<1>9. CASE m \notin Answers
  <2>1. Waiting' = Waiting BY <1>1, <1>2, <1>9 DEF Waiting
  <2>2. OneOf(toPA, Steps) => OneOf(toPA', Steps) BY <1>0, <1>5, OneLonger
  <2>3. NoneOf(fromPA, Answers) => NoneOf(fromPA', Answers) BY <1>0, <1>1, NoneShorter
  <2>4. OneOf(fromPA, Answers) => OneOf(fromPA', Answers) BY <1>0, <1>1, <1>9, OneShorter DEF m
  <2>5. IF Waiting THEN \/ OneOf(toPA', Steps) /\ NoneOf(fromPA', Answers)
                        \/ NoneOf(toPA', Steps) /\ OneOf(fromPA', Answers)
        ELSE NoneOf(toPA', Steps) /\ NoneOf(fromPA', Answers)
    BY <1>7, <1>8, <2>2, <2>3, <2>4 DEF OnlyOne
  <2>6. OnlyOne' BY <1>3, <2>1, <2>5 DEF OnlyOne, NoneOf, OneOf
  <2> QED BY <1>4, <1>6, <2>6 DEF StepInv
<1>10. CASE m \in Answers
  <2>1. ~NoneOf(fromPA, Answers) BY <1>0, <1>1, <1>10, NoneShorter DEF m
  <2>2. NoneOf(toPA, Steps) /\ OneOf(fromPA, Answers) BY <1>8, <2>1 DEF OnlyOne
  <2>3. NoneOf(fromPA', Answers) BY <1>0, <1>1, <1>10, <2>2, OneShorter DEF m
  <2>4. ~Waiting' BY <1>1, <1>10 DEF Waiting
  <2>5. OnlyOne' BY <1>3, <1>7, <2>2, <2>3, <2>4 DEF OnlyOne, NoneOf
  <2> QED BY <1>4, <1>6, <2>5 DEF StepInv
<1> QED BY <1>9, <1>10

LEMMA WorldKept == ASSUME Typed, StepInv, World PROVE StepInv'
<1>0. toPA \in Seq(Requests) /\ fromPA \in Seq(Messages) BY DEF Typed, Queues
<1>1. /\ pc # "off" /\ UNCHANGED <<toPA, pc, stepDone, listening>>
      /\ \E x \in Seq(Messages) : NoneOf(x, Answers) /\ fromPA' = fromPA \o x
  BY WorldTells
<1>2. PICK x \in Seq(Messages) : NoneOf(x, Answers) /\ fromPA' = fromPA \o x BY <1>1
<1>3. Steps' = Steps /\ Answers' = Answers /\ Unasked' = Unasked /\ Unwanted' = Unwanted /\ Waiting' = Waiting
  BY <1>1 DEF Steps, Answers, Unasked, Unwanted, Asked, Answered, Waiting
<1>4. NoneOf(fromPA, Answers) => NoneOf(fromPA', Answers) BY <1>0, <1>2, NoneLonger
<1>5. OneOf(fromPA, Answers) => OneOf(fromPA', Answers) BY <1>0, <1>2, OneLonger
<1>6. OnlyOne' BY <1>1, <1>3, <1>4, <1>5 DEF StepInv, OnlyOne, NoneOf, OneOf
<1>7. Unwanted \subseteq Answers BY DEF Unwanted
<1>8. NoneOf(fromPA', Unwanted) BY <1>0, <1>2, <1>7, NoneFewer, NoneLonger DEF StepInv, AskedFor
<1>9. AskedFor' BY <1>1, <1>3, <1>8 DEF StepInv, AskedFor, NoneOf
<1>10. Idle' /\ Listens' /\ RunsOn' BY <1>1 DEF StepInv, Idle, Listens, RunsOn
<1> QED BY <1>6, <1>9, <1>10 DEF StepInv

\* Nothing that matters to a step changes
LEMMA StepInvSame ==
  ASSUME StepInv, UNCHANGED <<pc, stepDone, listening, toPA, fromPA, subscribed>> PROVE StepInv'
BY DEF StepInv, OnlyOne, AskedFor, Idle, Listens, RunsOn, NoneOf, OneOf, Waiting, Steps, Answers, Unasked,
  Unwanted, Asked, Answered

LEMMA MainKept == ASSUME Typed, StepInv, Main \/ StopImpl PROVE StepInv'
<1>1. CASE ListSinks
  <2>1. ~listening' BY <1>1 DEF ListSinks, Waited, StepInv, Listens
  <2>2. "list" \in Starting \cup Stopping /\ (pc' = "list" => "list" \in Asked') BY DEF Starting, Asked
  <2> QED BY <1>1, <2>1, <2>2, StepsAre, StepKept DEF ListSinks, Waited, Step
<1>2. CASE Subscribe
  <2>1. "subscribe" \in Starting \cup Stopping /\ (pc' = "subscribe" => "subscribe" \in Asked') BY DEF Starting, Asked
  <2> QED BY <1>2, <2>1, StepsAre, StepKept DEF Subscribe, Waited, Step
<1>3. CASE Sweep
  <2>1. "sweep" \in Starting \cup Stopping /\ (pc' = "sweep" => "inputs" \in Asked') BY DEF Starting, Asked
  <2> QED BY <1>3, <2>1, StepsAre, StepKept DEF Sweep, Waited, Step
<1>4. CASE Unload
  <2>1. ~listening' BY <1>4 DEF Unload, Waited, StepInv, Listens
  <2>2. "unload" \in Starting \cup Stopping /\ (pc' = "unload" => "unload" \in Asked') BY DEF Stopping, Asked
  <2> QED BY <1>4, <2>1, <2>2, StepsAre, StepKept DEF Unload, Waited, Step
<1>5. CASE \E s \in Streams : BringHome(s)
  <2>1. PICK s \in Streams : BringHome(s) BY <1>5
  <2>2. CASE origin[s] \in sinks
    <3>1. ~listening' BY <2>1 DEF BringHome, Waited, StepInv, Listens
    <3>2. "home" \in Starting \cup Stopping /\ (pc' = "home" => "home" \in Asked') BY DEF Stopping, Asked
    <3>3. origin[s] \in Outputs BY <2>2 DEF Typed, Outs
    <3>4. Request("home", s, origin[s]) \in Steps BY <3>3, StepsAre
    <3>5. Step("home", s, origin[s], "home") BY <2>1, <2>2 DEF BringHome
    <3> QED BY <2>1, <3>1, <3>2, <3>4, <3>5, StepKept DEF BringHome, Waited, Step
  <2>3. CASE origin[s] \notin sinks BY <2>1, <2>3, StepInvSame DEF BringHome
  <2> QED BY <2>2, <2>3
<1>6. CASE StopDone BY <1>6, QuietKept DEF StopDone
<1>7. CASE Record
  <2>1. UNCHANGED <<toPA, fromPA, subscribed, stepDone, listening>> BY <1>7 DEF Record, paVars
  <2>2. stepDone /\ pc = "sweep" /\ pc' = "running" BY <1>7 DEF Record, Waited
  <2>3. Calm /\ ~Waiting /\ ~Waiting'
    BY <2>1, <2>2 DEF StepInv, OnlyOne, Waiting, Calm, Starting, Stopping
  <2>4. Calm' BY <2>1, <2>3 DEF Calm, NoneOf, Steps, Answers
  <2>5. AskedFor'
    <3>1. Unasked' \subseteq Steps /\ Unwanted' \subseteq Answers BY DEF Unasked, Unwanted, Steps, Answers
    <3>2. NoneOf(toPA, Unasked') /\ NoneOf(fromPA, Unwanted') BY <2>3, <3>1, NoneFewer DEF Calm
    <3> QED BY <2>1, <3>2 DEF AskedFor, NoneOf
  <2>6. OnlyOne' BY <2>3, <2>4 DEF OnlyOne, Calm
  <2>7. Idle' /\ Listens' /\ RunsOn' BY <2>1, <2>2 DEF Idle, Listens, RunsOn
  <2> QED BY <2>5, <2>6, <2>7 DEF StepInv
<1>8. CASE StopImpl
  <2>1. CASE Disconnect BY <2>1, QuietKept
  <2>2. CASE ~Disconnect
    <3>1. /\ UNCHANGED <<toPA, fromPA, subscribed>> /\ stepDone' = TRUE /\ listening' = FALSE /\ pc' = "home"
          /\ pc = "running" \/ Waited("sweep")
      BY <1>8, <2>2 DEF StopImpl
    <3>2. stepDone BY <3>1 DEF Waited, StepInv, RunsOn
    <3>3. Calm /\ ~Waiting /\ ~Waiting' BY <3>1, <3>2 DEF StepInv, OnlyOne, Waiting, Calm
    <3>4. Calm' BY <3>1, <3>3 DEF Calm, NoneOf, Steps, Answers
    <3>5. AskedFor'
      <4>1. Unasked' \subseteq Steps /\ Unwanted' \subseteq Answers BY DEF Unasked, Unwanted, Steps, Answers
      <4>2. NoneOf(toPA, Unasked') /\ NoneOf(fromPA, Unwanted') BY <3>3, <4>1, NoneFewer DEF Calm
      <4> QED BY <3>1, <4>2 DEF AskedFor, NoneOf
    <3>6. OnlyOne' BY <3>3, <3>4 DEF OnlyOne, Calm
    <3>7. Idle' /\ Listens' /\ RunsOn' BY <3>1 DEF Idle, Listens, RunsOn
    <3> QED BY <3>5, <3>6, <3>7 DEF StepInv
  <2> QED BY <2>1, <2>2
<1> QED BY <1>1, <1>2, <1>3, <1>4, <1>5, <1>6, <1>7, <1>8 DEF Main

LEMMA StepInvKept == ASSUME Typed, StepInv, [RouteNext]_audioVars PROVE StepInv'
<1>1. CASE \E m \in Routes : Start(m)
  <2>1. PICK m \in Routes : Start(m) BY <1>1
  <2> DEFINE op == IF m = "direct" THEN "unload" ELSE "load"
  <2>2. Step(op, None, None, "silence") /\ pc = "off" /\ UNCHANGED <<listening, fromPA>> BY <2>1 DEF Start
  <2>3. op \in {"load", "unload"} OBVIOUS
  <2> HIDE DEF op
  <2>4. Request(op, None, None) \in Steps BY <2>3, StepsAre
  <2>5. "silence" \in Starting \cup Stopping /\ (pc' = "silence" => op \in Asked') BY <2>3 DEF Starting, Asked
  <2>6. ~listening' BY <2>2 DEF StepInv, Listens
  <2> QED BY <2>2, <2>4, <2>5, <2>6, StepKept DEF Step
<1>2. CASE Kill BY <1>2, QuietKept DEF Kill
<1>3. CASE SessionCleanup
  <2>1. UNCHANGED <<pc, stepDone, listening, toPA, fromPA, subscribed>> BY <1>3 DEF SessionCleanup, implVars
  <2> QED BY <2>1, StepInvSame
<1>4. CASE UNCHANGED audioVars
  <2>1. UNCHANGED <<pc, stepDone, listening, toPA, fromPA, subscribed>> BY <1>4 DEF audioVars, implVars, paVars
  <2> QED BY <2>1, StepInvSame
<1> QED BY <1>1, <1>2, <1>3, <1>4, ServeKept, DispatchKept, WorldKept, MainKept DEF RouteNext

\* All that is known of the steps of castd's main thread
LEMMA StepsHold == RouteSpec => [](Typed /\ StepInv)
<1>1. RouteInit => StepInv
  <2> SUFFICES ASSUME RouteInit PROVE StepInv OBVIOUS
  <2>1. pc = "off" /\ toPA = <<>> /\ fromPA = <<>> /\ ~subscribed /\ ~stepDone /\ ~listening BY DEF RouteInit
  <2>2. Calm /\ ~Waiting BY <2>1, NoneInNothing DEF Calm, Waiting, Starting, Stopping
  <2> QED BY <2>1, <2>2, CalmIsAskedFor DEF StepInv, OnlyOne, Calm, Idle, Listens, RunsOn
<1>2. Typed /\ StepInv /\ [RouteNext]_audioVars => StepInv' BY StepInvKept
<1> QED BY <1>1, <1>2, TypedHolds, PTL DEF RouteSpec

LEMMA HowMany ==
  ASSUME NEW q, NEW S
  PROVE  LET N == {i \in DOMAIN q : q[i] \in S}
         IN  (NoneOf(q, S) => Cardinality(N) = 0) /\ (OneOf(q, S) => Cardinality(N) = 1)
<1> DEFINE N == {i \in DOMAIN q : q[i] \in S}
<1>1. NoneOf(q, S) => N = {} BY DEF NoneOf
<1>2. OneOf(q, S) => \E i \in DOMAIN q : N = {i} BY DEF OneOf
<1> HIDE DEF N
<1>3. Cardinality({}) = 0 BY FS_EmptySet
<1>4. \A i : Cardinality({i}) = 1 BY FS_Singleton
<1>5. NoneOf(q, S) => Cardinality(N) = 0 BY <1>1, <1>3
<1>6. OneOf(q, S) => Cardinality(N) = 1 BY <1>2, <1>4
<1> QED BY <1>5, <1>6 DEF N

\* While castd's main thread waits in waitStep() there is exactly one answer
\* under way that wakes it, and at other times none: whatever streams,
\* outputs and routes there are (stepDone, and the callbacks of 255-328).
THEOREM RouteStepsAnswered == RouteSpec => []OwnAnswer
<1>1. Typed /\ StepInv => OwnAnswer
  <2> SUFFICES ASSUME Typed, StepInv PROVE OwnAnswer OBVIOUS
  <2>0. toPA \in Seq(Requests) /\ fromPA \in Seq(Messages) BY DEF Typed, Queues
  <2>1. \A i \in DOMAIN toPA : toPA[i] \in Requests BY <2>0
  <2>2. \A i \in DOMAIN fromPA : fromPA[i] \in Messages BY <2>0
  <2>3. StepRequests = {i \in DOMAIN toPA : toPA[i] \in Steps} BY <2>1 DEF StepRequests, Steps
  <2>4. StepAnswers = {i \in DOMAIN fromPA : fromPA[i] \in Answers} BY <2>2 DEF StepAnswers, Answers
  <2>5. /\ NoneOf(toPA, Steps) => Cardinality(StepRequests) = 0
        /\ OneOf(toPA, Steps) => Cardinality(StepRequests) = 1 BY <2>3, HowMany
  <2>6. /\ NoneOf(fromPA, Answers) => Cardinality(StepAnswers) = 0
        /\ OneOf(fromPA, Answers) => Cardinality(StepAnswers) = 1 BY <2>4, HowMany
  <2> QED BY <2>5, <2>6 DEF StepInv, OnlyOne, OwnAnswer, Waiting
<1> QED BY <1>1, StepsHold, PTL


--------------------------------------------------------------------------------
(* The silence sink *)

Lies == {m \in Answers : m.what = "answer" /\ m.found # silence}

\* castd routes exactly when it has the sink, and it never leaves it behind
\* unless it is killed
Silent ==
  /\ pc \in {"list", "subscribe", "sweep", "running"} => routing = silence
  /\ pc \in {"off", "silence", "home", "unload"} => routing = FALSE
  /\ pc = "silence" => NoneOf(fromPA, Lies) /\ (stepDone => foundSink = silence)
  /\ pc = "home" => silence
  /\ pc = "unload" /\ NoneOf(toPA, Steps) => ~silence
  /\ pc = "off" /\ silence => killed

LEMMA NoneBefore ==
  ASSUME NEW T, NEW S, NEW q \in Seq(T), NEW y \in Seq(T), NoneOf(q \o y, S) PROVE NoneOf(q, S)
<1>1. ASSUME NEW i \in DOMAIN q PROVE q[i] \notin S
  <2>1. i \in DOMAIN (q \o y) /\ (q \o y)[i] = q[i] OBVIOUS
  <2> QED BY <2>1 DEF NoneOf
<1> QED BY <1>1 DEF NoneOf

LEMMA NoneWhole ==
  ASSUME NEW T, NEW S, NEW q \in Seq(T), q # <<>>, Head(q) \notin S, NoneOf(Tail(q), S) PROVE NoneOf(q, S)
<1>1. ASSUME NEW i \in DOMAIN q PROVE q[i] \notin S
  <2>1. CASE i = 1 BY <2>1
  <2>2. CASE i # 1
    <3>1. i - 1 \in DOMAIN Tail(q) /\ Tail(q)[i - 1] = q[i] BY <2>2
    <3> QED BY <3>1 DEF NoneOf
  <2> QED BY <2>1, <2>2
<1> QED BY <1>1 DEF NoneOf

\* A step of castd's waiting thread is the one it asked for
LEMMA ServedIsAsked ==
  ASSUME Typed, StepInv, Serve, Head(toPA) \in Steps
  PROVE  Head(toPA).op \in Asked /\ Waiting /\ NoneOf(fromPA, Answers) /\ NoneOf(toPA', Steps)
<1>0. toPA \in Seq(Requests) /\ toPA # <<>> /\ toPA' = Tail(toPA) BY DEF Typed, Queues, Serve
<1>1. ~NoneOf(toPA, Steps) BY <1>0, NoneShorter
<1>2. Waiting /\ OneOf(toPA, Steps) /\ NoneOf(fromPA, Answers) BY <1>1 DEF StepInv, OnlyOne
<1>3. Head(toPA) \notin Unasked BY <1>0, NoneShorter DEF StepInv, AskedFor
<1>4. NoneOf(toPA', Steps) BY <1>0, <1>2, OneShorter
<1> QED BY <1>2, <1>3, <1>4 DEF Unasked

LEMMA ServeSilence ==
  ASSUME Typed, StepInv, Serve
  PROVE  LET r == Head(toPA)
         IN  /\ r.op \notin {"load", "unload"} => silence' = silence
             /\ r.op = "unload" => silence' = FALSE
<1> DEFINE r == Head(toPA)
<1>1. ServeLook(r) \/ ServeSink(r) \/ ServeMove(r) \/ ServeStep(r) BY DEF Serve
<1> HIDE DEF r
<1> QED BY <1>1 DEF ServeLook, ServeSink, ServeMove, ServeStep, r

LEMMA FoundWhatIs ==
  ASSUME Typed, StepInv, Serve, pc = "silence", NoneOf(fromPA, Lies)
  PROVE  NoneOf(fromPA', Lies')
<1>0. fromPA \in Seq(Messages) /\ toPA \in Seq(Requests) /\ silence \in BOOLEAN BY DEF Typed, Queues, Flags
<1> DEFINE r == Head(toPA)
<1>1. /\ toPA # <<>> /\ toPA' = Tail(toPA) /\ r \in Requests
      /\ \E x \in Seq(Messages) :
           /\ NoneOf(x, Answers)
           /\ \/ r \notin Steps /\ fromPA' = fromPA \o x
              \/ /\ r \in Steps
                 /\ \E m \in Answers :
                      /\ fromPA' = Append(fromPA \o x, m)
                      /\ m.what = IF r.op = "list" THEN "sinks"
                                  ELSE IF r.op = "inputs" THEN "inputs" ELSE "answer"
  BY ServeSays
<1>2. ServeLook(r) \/ ServeSink(r) \/ ServeMove(r) \/ ServeStep(r) BY DEF Serve
<1>3. /\ r.op \notin {"load", "unload"} => silence' = silence
      /\ r \in Steps => r.op \in Asked /\ NoneOf(fromPA, Answers)
  BY ServeSilence, ServedIsAsked
<1> HIDE DEF r
<1>4. Lies \subseteq Answers /\ Lies' \subseteq Answers BY DEF Lies, Answers
<1>5. CASE r \notin Steps
  <2>1. r.op \notin {"load", "unload"} BY <1>1, <1>5 DEF Steps
  <2>2. Lies' = Lies BY <1>3, <2>1 DEF Lies, Answers
  <2>3. PICK x \in Seq(Messages) : NoneOf(x, Answers) /\ fromPA' = fromPA \o x BY <1>1, <1>5
  <2>4. NoneOf(x, Lies) BY <1>4, <2>3, NoneFewer
  <2>5. NoneOf(fromPA', Lies) BY <1>0, <2>3, <2>4, NoneLonger
  <2> QED BY <2>2, <2>5
<1>6. CASE r \in Steps
  <2>1. r.op \in {"load", "unload"} /\ NoneOf(fromPA, Answers) BY <1>3, <1>6 DEF Asked
  <2>2. ServeStep(r) BY <1>2, <2>1 DEF ServeLook, ServeSink, ServeMove
  <2> DEFINE m == [what |-> "answer", found |-> silence']
  <2>3. silence' \in BOOLEAN BY <1>0, <2>1, <2>2, Zenon DEF ServeStep
  <2>4. m \in Messages BY <2>3, AnswersAre
  <2>5. m \notin Lies' BY Zenon DEF Lies
  <2>6. \E x : x \in Seq(Messages) /\ NoneOf(x, Answers) /\ fromPA' = fromPA \o x \o <<m>>
    <3>1. CASE r.op = "load"
      <4>1. fromPA' = fromPA \o Answer(silence') BY <2>2, <3>1, Zenon DEF ServeStep
      <4>2. fromPA' = fromPA \o <<>> \o <<m>> BY <1>0, <4>1 DEF Answer
      <4>3. <<>> \in Seq(Messages) /\ NoneOf(<<>>, Answers) BY NoneInNothing
      <4> QED BY <4>2, <4>3
    <3>2. CASE r.op = "unload"
      <4> DEFINE x == ToldOf({s \in Streams : place[s] = Silence}, "change")
      <4>1. r.op # "load" /\ r.op # "list" /\ r.op # "subscribe" /\ r.op # "inputs" BY <3>2
      <4>2. silence' = FALSE /\ fromPA' = fromPA \o x \o Answer(FALSE) BY <2>2, <4>1, Zenon DEF ServeStep
      <4>3. fromPA' = fromPA \o x \o <<m>> BY <4>2, Zenon DEF Answer
      <4>4. {s \in Streams : place[s] = Silence} \in SUBSET Streams OBVIOUS
      <4>5. x \in Seq(Messages) /\ NoneOf(x, Answers) BY <4>4, TellsTyped, TellsCalmly
      <4> HIDE DEF x
      <4> QED BY <4>3, <4>5
    <3> QED BY <2>1, <3>1, <3>2
  <2> HIDE DEF m
  <2>7. PICK x : x \in Seq(Messages) /\ NoneOf(x, Answers) /\ fromPA' = fromPA \o x \o <<m>> BY <2>6
  <2>8. NoneOf(fromPA, Lies') /\ NoneOf(x, Lies') BY <1>4, <2>1, <2>7, NoneFewer
  <2>9. fromPA \o x \in Seq(Messages) /\ NoneOf(fromPA \o x, Lies') BY <1>0, <2>7, <2>8, NoneLonger, Longer
  <2>10. <<m>> \in Seq(Messages) /\ NoneOf(<<m>>, Lies') BY <2>4, <2>5 DEF NoneOf
  <2>11. NoneOf(fromPA', Lies') BY <2>7, <2>9, <2>10, NoneLonger
  <2> QED BY <2>11
<1> QED BY <1>5, <1>6

LEMMA SilentServe == ASSUME Typed, StepInv, Silent, Serve PROVE Silent'
<1>0. toPA \in Seq(Requests) /\ toPA # <<>> /\ toPA' = Tail(toPA) BY DEF Typed, Queues, Serve
<1>1. UNCHANGED <<pc, stepDone, foundSink, routing>> /\ pc # "off" BY <1>0 DEF Serve, implVars, StepInv, Idle
<1> DEFINE r == Head(toPA)
<1>2. r \in Requests BY <1>0
<1>3. /\ r.op \notin {"load", "unload"} => silence' = silence
      /\ r.op = "unload" => silence' = FALSE
      /\ r \in Steps => r.op \in Asked /\ Waiting
  BY ServeSilence, ServedIsAsked
<1>4. r \notin Steps /\ NoneOf(toPA', Steps) => NoneOf(toPA, Steps) BY <1>0, NoneWhole
<1> HIDE DEF r
<1>5. r \notin Steps => r.op \notin {"load", "unload"} BY <1>2 DEF Steps
<1>6. pc = "silence" => NoneOf(fromPA', Lies') BY FoundWhatIs DEF Silent
<1>7. Steps' = Steps BY DEF Steps
<1>8. CASE r \notin Steps
  <2>1. silence' = silence BY <1>3, <1>5, <1>8
  <2>2. NoneOf(toPA, Steps)' => NoneOf(toPA, Steps) BY <1>4, <1>7, <1>8 DEF NoneOf
  <2> QED BY <1>1, <1>6, <2>1, <2>2 DEF Silent, NoneOf
<1>9. CASE r \in Steps
  <2>1. pc \in {"list", "subscribe", "sweep", "running", "home"} => silence' = silence
    BY <1>3, <1>9 DEF Asked
  <2>2. pc = "unload" => silence' = FALSE BY <1>3, <1>9 DEF Asked
  <2>3. ~stepDone BY <1>3, <1>9 DEF Waiting
  <2> QED BY <1>1, <1>6, <2>1, <2>2, <2>3 DEF Silent, NoneOf
<1> QED BY <1>8, <1>9

LEMMA SilentDispatch == ASSUME Typed, StepInv, Silent, Dispatch PROVE Silent'
<1>0. toPA \in Seq(Requests) /\ fromPA \in Seq(Messages) BY DEF Typed, Queues
<1> DEFINE m == Head(fromPA)
<1>1. /\ fromPA # <<>> /\ fromPA' = Tail(fromPA) /\ m \in Messages
      /\ stepDone' = IF m \in Answers THEN TRUE ELSE stepDone
      /\ \E y \in Seq(Requests) : NoneOf(y, Steps) /\ toPA' = toPA \o y
  BY DispatchDoes
<1>2. UNCHANGED <<pc, silence, routing>> /\ pc # "off" BY <1>1 DEF Dispatch, StepInv, Idle
<1>3. SeesEvent(m) \/ SeesInput(m) \/ SeesInputs(m) \/ SeesSinks(m) \/ SeesAnswer(m) BY DEF Dispatch
<1>4. m \notin Unwanted BY <1>0, <1>1, NoneShorter DEF StepInv, AskedFor
<1>5. NoneOf(fromPA, Lies) => m \notin Lies /\ NoneOf(fromPA', Lies) BY <1>0, <1>1, NoneShorter
<1> HIDE DEF m
<1>6. NoneOf(toPA', Steps) => NoneOf(toPA, Steps)
  <2>1. PICK y \in Seq(Requests) : NoneOf(y, Steps) /\ toPA' = toPA \o y BY <1>1
  <2> QED BY <1>0, <2>1, NoneBefore
<1>7. Steps' = Steps /\ Lies' = Lies BY <1>2 DEF Steps, Lies, Answers
<1>8. pc = "silence" /\ stepDone' => foundSink' = silence
  <2> SUFFICES ASSUME pc = "silence", stepDone' PROVE foundSink' = silence OBVIOUS
  <2>1. m \in Answers <=> m.what \in {"answer", "sinks", "inputs"} BY <1>1 DEF Answers
  <2>2. m \in Answers => m.what = "answer" BY <1>4 DEF Unwanted, Answered
  <2>3. CASE m \in Answers
    <3>1. SeesAnswer(m) BY <1>3, <2>2, <2>3 DEF SeesEvent, SeesInput, SeesInputs, SeesSinks, SeesAnswer
    <3>2. foundSink' = m.found BY <3>1 DEF SeesAnswer
    <3>3. m.found = silence BY <1>5, <2>2, <2>3, Zenon DEF Silent, Lies
    <3> QED BY <3>2, <3>3, Zenon
  <2>4. CASE m \notin Answers
    <3>1. foundSink' = foundSink BY <1>3, <2>1, <2>4 DEF SeesEvent, SeesInput, SeesInputs, SeesSinks, SeesAnswer
    <3>2. stepDone BY <1>1, <2>4
    <3> QED BY <3>1, <3>2 DEF Silent
  <2> QED BY <2>3, <2>4
<1> QED BY <1>2, <1>5, <1>6, <1>7, <1>8 DEF Silent, NoneOf

LEMMA SilentMain == ASSUME Typed, StepInv, Silent, Main \/ StopImpl PROVE Silent'
<1>0. toPA \in Seq(Requests) /\ silence' = silence BY DEF Typed, Queues, Main, ListSinks, Subscribe, Sweep,
    Record, Unload, StopDone, BringHome, StopImpl, paVars
<1>1. CASE ListSinks
  <2>1. pc' = "list" /\ routing' = foundSink /\ foundSink = silence BY <1>1 DEF ListSinks, Waited, Step, Silent
  <2> QED BY <1>0, <2>1 DEF Silent
<1>2. CASE Subscribe \/ Sweep \/ Record
  <2>1. /\ pc \in {"list", "subscribe", "sweep"} /\ routing' = routing
        /\ pc' \in {"subscribe", "sweep", "running"}
    BY <1>2 DEF Subscribe, Sweep, Record, Waited, Step
  <2> QED BY <1>0, <2>1 DEF Silent
<1>3. CASE Unload
  <2>1. pc = "home" /\ routing' = routing /\ pc' = "unload" /\ toPA' = Append(toPA, Request("unload", None, None))
    BY <1>3 DEF Unload, Waited, Step
  <2>2. Request("unload", None, None) \in Steps /\ Request("unload", None, None) \in Requests BY StepsAre, RequestsAre
  <2>3. Len(toPA) + 1 \in DOMAIN toPA' /\ toPA'[Len(toPA) + 1] \in Steps' BY <1>0, <2>1, <2>2 DEF Steps
  <2>4. ~NoneOf(toPA, Steps)' BY <2>3 DEF NoneOf
  <2> QED BY <2>1, <2>4 DEF Silent
<1>4. CASE \E s \in Streams : BringHome(s)
  <2>1. pc = "home" /\ pc' = "home" /\ routing' = routing BY <1>4 DEF BringHome, Waited, Step
  <2> QED BY <1>0, <2>1 DEF Silent
<1>5. CASE StopDone
  <2>1. pc = "unload" /\ stepDone /\ pc' = "off" /\ routing' = FALSE
    BY <1>5 DEF StopDone, Waited, Disconnect, NewImpl
  <2>2. NoneOf(toPA, Steps) BY <2>1 DEF StepInv, OnlyOne, Waiting
  <2> QED BY <1>0, <2>1, <2>2 DEF Silent
<1>6. CASE StopImpl
  <2>1. pc \in {"running", "sweep"} BY <1>6 DEF StopImpl, Waited
  <2>2. \/ ~routing /\ pc' = "off" /\ routing' = FALSE
        \/ routing /\ pc' = "home" /\ routing' = FALSE
    BY <1>6 DEF StopImpl, Disconnect, NewImpl
  <2>3. routing = silence BY <2>1 DEF Silent
  <2> QED BY <1>0, <2>2, <2>3 DEF Silent
<1> QED BY <1>1, <1>2, <1>3, <1>4, <1>5, <1>6 DEF Main

LEMMA SilentKept == ASSUME Typed, StepInv, Silent, [RouteNext]_audioVars PROVE Silent'
<1>1. CASE World
  <2>0. fromPA \in Seq(Messages) BY DEF Typed, Queues
  <2>1. UNCHANGED <<toPA, pc, stepDone, silence, routing, foundSink>> /\ pc # "off"
    BY <1>1 DEF World, StreamEnds, StreamStarts, StreamMoved, SinkComes, SinkGoes, Acts, implVars
  <2>2. PICK x \in Seq(Messages) : NoneOf(x, Answers) /\ fromPA' = fromPA \o x BY <1>1, WorldTells
  <2>3. Lies \subseteq Answers /\ Lies' = Lies /\ Steps' = Steps BY <2>1 DEF Lies, Answers, Steps
  <2>4. NoneOf(x, Lies) BY <2>2, <2>3, NoneFewer
  <2>5. NoneOf(fromPA, Lies) => NoneOf(fromPA', Lies) BY <2>0, <2>2, <2>4, NoneLonger
  <2> QED BY <2>1, <2>3, <2>5 DEF Silent, NoneOf
<1>2. CASE Kill
  <2>1. pc' = "off" /\ routing' = FALSE /\ killed' = silence /\ silence' = silence
    BY <1>2 DEF Kill, Disconnect, NewImpl
  <2> QED BY <2>1 DEF Silent
<1>3. CASE SessionCleanup
  <2>1. pc = "off" /\ pc' = "off" /\ routing' = routing /\ silence' = FALSE BY <1>3 DEF SessionCleanup, implVars
  <2> QED BY <2>1 DEF Silent
<1>4. CASE \E m \in Routes : Start(m)
  <2>1. pc = "off" /\ pc' = "silence" /\ routing' = routing /\ stepDone' = FALSE /\ fromPA' = fromPA
    BY <1>4 DEF Start, Step
  <2>2. fromPA = <<>> BY <2>1 DEF StepInv, Idle
  <2>3. NoneOf(fromPA, Lies)' BY <2>1, <2>2 DEF NoneOf
  <2> QED BY <2>1, <2>3 DEF Silent
<1>5. CASE UNCHANGED audioVars BY <1>5 DEF audioVars, implVars, paVars, histVars, Silent, NoneOf, Lies, Answers, Steps
<1> QED BY <1>1, <1>2, <1>3, <1>4, <1>5, SilentServe, SilentDispatch, SilentMain DEF RouteNext

LEMMA SilenceHolds == RouteSpec => [](Typed /\ StepInv /\ Silent)
<1>1. RouteInit => Silent
  <2> SUFFICES ASSUME RouteInit PROVE Silent OBVIOUS
  <2>1. pc = "off" /\ routing = FALSE /\ killed = silence BY DEF RouteInit
  <2> QED BY <2>1 DEF Silent
<1>2. Typed /\ StepInv /\ Silent /\ [RouteNext]_audioVars => Silent' BY SilentKept
<1> QED BY <1>1, <1>2, StepsHold, PTL DEF RouteSpec

\* Every variable of the audio routing holds what its place in the code can
\* hold; events come only while castd runs, and it routes streams only to a
\* silence sink that is there (AudioCapture::Impl, start()).
THEOREM RouteTypes == RouteSpec => []RouteTypeOK
<1>1. Typed /\ StepInv /\ Silent => RouteTypeOK
  <2> SUFFICES ASSUME Typed, StepInv, Silent PROVE RouteTypeOK OBVIOUS
  <2>1. place \in [Streams -> Places] /\ home \in [Streams -> Outputs \cup {None}] BY DEF Typed, Places1
  <2>2. up \subseteq Outputs /\ coming \subseteq Extra /\ sinks \subseteq Outputs /\ late \subseteq Extra
    BY DEF Typed, Outs
  <2>3. toPA \in Seq(Requests) /\ fromPA \in Seq(Messages) /\ origin \in [Streams -> Outputs \cup {None}]
    BY DEF Typed, Queues, Origins
  <2>4. /\ pc \in {"off", "running"} \cup Starting \cup Stopping /\ mode \in {"auto", "all", "direct"}
        /\ toMove \subseteq Streams /\ stray \subseteq Streams
        /\ left \in 0..MaxEnv /\ starts \in 0..MaxStarts
    BY DEF Typed, At, Marks, Counts
  <2>5. Flags BY DEF Typed
  <2>6. subscribed => pc # "off" BY DEF StepInv, Idle
  <2>7. routing => silence
    <3>1. pc \in {"list", "subscribe", "sweep", "running"} \/ pc \in {"off", "silence", "home", "unload"}
      BY <2>4 DEF Starting, Stopping
    <3> QED BY <3>1 DEF Silent
  <2> QED BY <2>1, <2>2, <2>3, <2>4, <2>5, <2>6, <2>7, Zenon DEF RouteTypeOK, Flags
<1> QED BY <1>1, SilenceHolds, PTL


--------------------------------------------------------------------------------
(* Where the streams are, and what is said of them *)

\* What PulseAudio says is so when it says it, and it says it to one who
\* asks or listens
Truths ==
  {m \in Messages :
     /\ m.what \notin {"over", "output", "gone"}
     /\ m.what = "change" => Told
     /\ m.what = "sink" => m.sink \in up /\ Head(toPA).op = "sink"
     /\ m.what = "sinks" => m.all = up
     /\ m.what = "input" => /\ Playing(m.stream) /\ m.sink = place[m.stream]
                            /\ Head(toPA).op = "input"
     /\ m.what = "inputs" => m.at = place}

LEMMA ServeTruths ==
  ASSUME Typed, Serve PROVE \E x \in Seq(Truths) : fromPA' = fromPA \o x
<1>0. toPA \in Seq(Requests) /\ fromPA \in Seq(Messages) BY DEF Typed, Queues
<1>1. toPA # <<>> /\ Head(toPA) \in Requests BY <1>0 DEF Serve
<1> DEFINE r == Head(toPA)
<1>2. ServeLook(r) \/ ServeSink(r) \/ ServeMove(r) \/ ServeStep(r) BY DEF Serve
<1> HIDE DEF r
<1>3. r \in Requests BY <1>1 DEF r
<1>4. fromPA \o <<>> = fromPA /\ <<>> \in Seq(Truths) BY <1>0
<1>5. ASSUME NEW f \in BOOLEAN PROVE Answer(f) \in Seq(Truths)
  <2> DEFINE m == [what |-> "answer", found |-> f]
  <2>1. m \in Messages /\ m.what = "answer" BY AnswersAre
  <2> HIDE DEF m
  <2>2. m \in Truths BY <2>1 DEF Truths
  <2>3. <<m>> \in Seq(Truths) BY <2>2
  <2> QED BY <2>3, Zenon DEF Answer, m
<1>6. ASSUME NEW S \in SUBSET Streams PROVE ToldOf(S, "change") \in Seq(Truths)
  <2>1. ToldOf(S, "change") \in Seq({Event("change", s, None) : s \in S}) BY TellsOf
  <2>2. ASSUME NEW s \in S, Told PROVE Event("change", s, None) \in Truths
    <3>1. Event("change", s, None) \in Messages BY EventsAre
    <3>2. Event("change", s, None).what = "change" BY DEF Event
    <3> QED BY <2>2, <3>1, <3>2 DEF Truths
  <2>3. Told => {Event("change", s, None) : s \in S} \subseteq Truths BY <2>2
  <2>4. ~Told => ToldOf(S, "change") = <<>> BY DEF ToldOf
  <2>5. CASE Told BY <2>1, <2>3, <2>5
  <2> QED BY <1>4, <2>4, <2>5
<1>7. ASSUME NEW m \in Truths, fromPA' = Append(fromPA, m) PROVE \E x \in Seq(Truths) : fromPA' = fromPA \o x
  <2>1. <<m>> \in Seq(Truths) OBVIOUS
  <2>2. m \in Messages BY DEF Truths
  <2>3. fromPA' = fromPA \o <<m>> BY <1>0, <1>7, <2>2
  <2> QED BY <2>1, <2>3
<1>8. CASE ServeLook(r)
  <2>1. CASE Playing(r.stream)
    <3> DEFINE m == Event("input", r.stream, place[r.stream])
    <3>1. r.stream \in Streams /\ place[r.stream] \in Places
      BY <1>3, <1>8, RequestIs DEF ServeLook, Typed, Places1
    <3>2. m \in Messages BY <2>1, <3>1, EventsAre DEF Playing, Places
    <3>3. m.what = "input" /\ m.stream = r.stream /\ m.sink = place[r.stream] BY DEF Event
    <3>4. fromPA' = Append(fromPA, m) BY <1>8, <2>1 DEF ServeLook
    <3> HIDE DEF m
    <3>5. Head(toPA).op = "input" BY <1>8 DEF ServeLook, r
    <3>6. m \in Truths BY <2>1, <3>2, <3>3, <3>5 DEF Truths
    <3> QED BY <1>7, <3>4, <3>6
  <2>2. CASE ~Playing(r.stream) BY <1>4, <1>8, <2>2 DEF ServeLook
  <2> QED BY <2>1, <2>2
<1>9. CASE ServeSink(r)
  <2>1. CASE r.sink \in up
    <3> DEFINE m == Event("sink", None, r.sink)
    <3>1. m \in Messages BY <1>3, <1>9, RequestIs, EventsAre DEF ServeSink
    <3>2. m.what = "sink" /\ m.sink = r.sink BY DEF Event
    <3>3. fromPA' = Append(fromPA, m) BY <1>9, <2>1 DEF ServeSink
    <3> HIDE DEF m
    <3>4. Head(toPA).op = "sink" BY <1>9 DEF ServeSink, r
    <3>5. m \in Truths BY <2>1, <3>1, <3>2, <3>4 DEF Truths
    <3> QED BY <1>7, <3>3, <3>5
  <2>2. CASE r.sink \notin up BY <1>4, <1>9, <2>2 DEF ServeSink
  <2> QED BY <2>1, <2>2
<1>10. ASSUME NEW x \in Seq(Truths), NEW y \in Seq(Truths), fromPA' = fromPA \o x \o y
       PROVE  \E z \in Seq(Truths) : fromPA' = fromPA \o z
  <2>1. Truths \subseteq Messages BY DEF Truths
  <2>2. x \in Seq(Messages) /\ y \in Seq(Messages) BY <2>1
  <2>3. fromPA' = fromPA \o (x \o y) BY <1>0, <1>10, <2>2
  <2>4. x \o y \in Seq(Truths) BY Longer
  <2> QED BY <2>3, <2>4
<1>11. CASE ServeMove(r)
  <2> DEFINE possible == Playing(r.stream) /\ r.sink \in up \cup {Silence}
             moves == possible /\ place[r.stream] # r.sink
             x == IF moves THEN ToldOf({r.stream}, "change") ELSE <<>>
             y == IF r.op = "home" THEN Answer(possible) ELSE <<>>
  <2>1. possible \in BOOLEAN BY Zenon DEF Playing
  <2>2. {r.stream} \in SUBSET Streams BY <1>3, <1>11, RequestIs DEF ServeMove
  <2>3. fromPA' = fromPA \o x \o y BY <1>11, Zenon DEF ServeMove
  <2> HIDE DEF possible, moves
  <2>4. x \in Seq(Truths) BY <1>4, <1>6, <2>2
  <2>5. Answer(possible) \in Seq(Truths) BY <1>5, <2>1
  <2>6. y \in Seq(Truths) BY <1>4, <2>5
  <2> QED BY <1>10, <2>3, <2>4, <2>6
<1>12. CASE ServeStep(r)
  <2>1. silence \in BOOLEAN /\ up \in SUBSET Outputs /\ place \in [Streams -> Places]
    BY DEF Typed, Flags, Outs, Places1
  <2>2. ASSUME NEW f \in BOOLEAN, fromPA' = fromPA \o Answer(f) PROVE \E x \in Seq(Truths) : fromPA' = fromPA \o x
    BY <1>5, <2>2
  <2>3. CASE r.op = "load" /\ silence' \in {TRUE, silence} /\ fromPA' = fromPA \o Answer(silence')
    <3>1. silence' \in BOOLEAN BY <2>1, <2>3, Zenon
    <3> QED BY <2>2, <2>3, <3>1
  <2>4. CASE fromPA' = fromPA \o ToldOf({s \in Streams : place[s] = Silence}, "change") \o Answer(FALSE)
    <3>1. {s \in Streams : place[s] = Silence} \in SUBSET Streams OBVIOUS
    <3>2. ToldOf({s \in Streams : place[s] = Silence}, "change") \in Seq(Truths) BY <1>6, <3>1
    <3>3. Answer(FALSE) \in Seq(Truths) BY <1>5
    <3> QED BY <1>10, <2>4, <3>2, <3>3
  <2>5. CASE fromPA' = Append(fromPA, [what |-> "sinks", all |-> up])
    <3> DEFINE m == [what |-> "sinks", all |-> up]
    <3>1. m \in Messages BY <2>1, AnswersAre
    <3>2. m.what = "sinks" /\ m.all = up OBVIOUS
    <3> HIDE DEF m
    <3>3. m \in Truths BY <3>1, <3>2 DEF Truths
    <3> QED BY <1>7, <2>5, <3>3 DEF m
  <2>6. CASE fromPA' = fromPA \o Answer(FALSE) BY <2>2, <2>6
  <2>7. CASE fromPA' = Append(fromPA, [what |-> "inputs", at |-> place])
    <3> DEFINE m == [what |-> "inputs", at |-> place]
    <3>1. m \in Messages BY <2>1, AnswersAre
    <3>2. m.what = "inputs" /\ m.at = place OBVIOUS
    <3> HIDE DEF m
    <3>3. m \in Truths BY <3>1, <3>2 DEF Truths
    <3> QED BY <1>7, <2>7, <3>3 DEF m
  <2> QED BY <1>12, <2>3, <2>4, <2>5, <2>6, <2>7, Zenon DEF ServeStep
<1> QED BY <1>2, <1>8, <1>9, <1>11, <1>12

\* Where PulseAudio leaves a stream
LEMMA ServePlaces ==
  ASSUME Typed, Serve, NEW s \in Streams
  PROVE  LET r == Head(toPA)
         IN  /\ r \in Requests /\ toPA # <<>> /\ toPA' = Tail(toPA)
             /\ IF r.op \in {"take", "home"} /\ r.stream = s /\ Playing(s) /\ r.sink \in up \cup {Silence}
                THEN place'[s] = r.sink
                ELSE IF r.op = "unload" /\ place[s] = Silence THEN place'[s] = Null
                ELSE place'[s] = place[s]
<1>0. toPA \in Seq(Requests) /\ place \in [Streams -> Places] BY DEF Typed, Queues, Places1
<1>1. toPA # <<>> /\ Head(toPA) \in Requests /\ toPA' = Tail(toPA) BY <1>0 DEF Serve
<1> DEFINE r == Head(toPA)
<1>2. ServeLook(r) \/ ServeSink(r) \/ ServeMove(r) \/ ServeStep(r) BY DEF Serve
<1> HIDE DEF r
<1>3. CASE ServeLook(r) \/ ServeSink(r) BY <1>1, <1>3 DEF ServeLook, ServeSink, r
<1>4. CASE ServeMove(r)
  <2> DEFINE possible == Playing(r.stream) /\ r.sink \in up \cup {Silence}
             moves == possible /\ place[r.stream] # r.sink
  <2>1. place' = IF moves THEN [place EXCEPT ![r.stream] = r.sink] ELSE place
    BY <1>4, Zenon DEF ServeMove
  <2>2. r.op \in {"take", "home"} BY <1>4 DEF ServeMove
  <2> QED BY <1>0, <1>1, <2>1, <2>2 DEF r
<1>5. CASE ServeStep(r)
  <2>1. r.op \notin {"take", "home"} BY <1>5 DEF ServeStep
  <2>2. place' = IF r.op = "unload" THEN Dropped ELSE place
    <3>1. CASE r.op = "unload"
      <4>1. r.op # "load" /\ r.op # "list" /\ r.op # "subscribe" /\ r.op # "inputs" BY <3>1
      <4> QED BY <1>5, <3>1, <4>1, Zenon DEF ServeStep
    <3>2. CASE r.op # "unload" BY <1>5, <3>2, Zenon DEF ServeStep
    <3> QED BY <3>1, <3>2
  <2> QED BY <1>0, <1>1, <2>1, <2>2 DEF Dropped, r
<1> QED BY <1>2, <1>3, <1>4, <1>5

\* The place at which a message shows a stream that plays
Shows(m, s, k) ==
  \/ m.what = "input" /\ m.stream = s /\ m.sink = k
  \/ m.what = "inputs" /\ m.at[s] = k /\ k \notin {"new", "over"}

\* What castd does about the streams it is told of
LEMMA DispatchStreams ==
  ASSUME Typed, Dispatch
  PROVE  LET m == Head(fromPA)
         IN  /\ m \in Messages /\ fromPA # <<>> /\ fromPA' = Tail(fromPA)
             /\ \E y \in Seq(Requests) :
                  /\ toPA' = toPA \o y
                  /\ ~listening /\ ~routing => y = <<>>
                  /\ \A i \in DOMAIN y :
                       \/ y[i].op \in {"input", "sink"}
                       \/ /\ y[i].op = "take" /\ routing /\ y[i].stream \in Streams
                          /\ \E k : Shows(m, y[i].stream, k) /\ k # Silence /\ origin'[y[i].stream] = k
             /\ \A s \in Streams :
                  \/ origin'[s] = origin[s]
                  \/ listening /\ m.what = "over" /\ m.stream = s /\ origin'[s] = None
                  \/ /\ routing
                     /\ \E k : /\ Shows(m, s, k)
                               /\ \/ k # Silence /\ origin'[s] = k
                                  \/ k = Silence /\ origin[s] = None /\ origin'[s] = Media
<1>0. toPA \in Seq(Requests) /\ fromPA \in Seq(Messages) /\ origin \in [Streams -> Outputs \cup {None}]
  BY DEF Typed, Queues, Origins
<1>1. fromPA # <<>> /\ Head(fromPA) \in Messages /\ fromPA' = Tail(fromPA) BY <1>0 DEF Dispatch
<1> DEFINE m == Head(fromPA)
<1>2. SeesEvent(m) \/ SeesInput(m) \/ SeesInputs(m) \/ SeesSinks(m) \/ SeesAnswer(m) BY DEF Dispatch
<1> HIDE DEF m
<1>3. m \in Messages BY <1>1 DEF m
<1> DEFINE Asks(y) ==
             /\ toPA' = toPA \o y
             /\ ~listening /\ ~routing => y = <<>>
             /\ \A i \in DOMAIN y :
                  \/ y[i].op \in {"input", "sink"}
                  \/ /\ y[i].op = "take" /\ routing /\ y[i].stream \in Streams
                     /\ \E k : Shows(m, y[i].stream, k) /\ k # Silence /\ origin'[y[i].stream] = k
           Keeps(s) ==
             \/ origin'[s] = origin[s]
             \/ listening /\ m.what = "over" /\ m.stream = s /\ origin'[s] = None
             \/ /\ routing
                /\ \E k : /\ Shows(m, s, k)
                          /\ \/ k # Silence /\ origin'[s] = k
                             \/ k = Silence /\ origin[s] = None /\ origin'[s] = Media
<1>4. <<>> \in Seq(Requests) /\ (toPA' = toPA => Asks(<<>>)) BY <1>0
<1>5. ASSUME NEW S \in SUBSET Streams, NEW at, \A s \in S : Shows(m, s, at[s]), MaybeSilence(S, at)
      PROVE  (\E y \in Seq(Requests) : Asks(y)) /\ \A s \in Streams : Keeps(s)
  <2> DEFINE taken == {s \in S : Takes(s, at[s])}
             y == SetToSeq({Request("take", s, Silence) : s \in taken})
  <2>1. /\ toPA' = toPA \o y
        /\ origin' = [s \in Streams |-> IF s \in taken THEN at[s]
                                        ELSE IF s \in S /\ Leftover(s, at[s]) THEN Media
                                        ELSE origin[s]]
    BY <1>5, Zenon DEF MaybeSilence
  <2>2. taken \in SUBSET Streams OBVIOUS
  <2>3. y \in Seq({Request("take", s, Silence) : s \in taken}) BY <2>2, TakesOf
  <2>4. y \in Seq(Requests) BY <2>2, TakesTyped
  <2>5. \A s \in taken : routing /\ at[s] # Silence /\ Shows(m, s, at[s]) /\ origin'[s] = at[s]
    BY <1>5, <2>1, <2>2 DEF Takes
  <2>6. \A s \in S : Leftover(s, at[s]) => routing /\ at[s] = Silence /\ origin[s] = None BY DEF Leftover
  <2> HIDE DEF taken
  <2>7. ASSUME NEW s \in Streams PROVE Keeps(s)
    <3>1. CASE s \in taken BY <2>5, <3>1
    <3>2. CASE s \notin taken /\ s \in S /\ Leftover(s, at[s])
      <4>1. origin'[s] = Media BY <2>1, <3>2
      <4> QED BY <1>5, <2>6, <3>2, <4>1
    <3>3. CASE s \notin taken /\ ~(s \in S /\ Leftover(s, at[s]))
      <4>1. origin'[s] = origin[s] BY <2>1, <3>3
      <4> QED BY <4>1
    <3> QED BY <3>1, <3>2, <3>3
  <2> HIDE DEF y
  <2>8. ASSUME NEW i \in DOMAIN y
        PROVE  /\ y[i].op = "take" /\ routing /\ y[i].stream \in Streams
               /\ \E k : Shows(m, y[i].stream, k) /\ k # Silence /\ origin'[y[i].stream] = k
    <3>1. y[i] \in {Request("take", s, Silence) : s \in taken} BY <2>3
    <3>2. PICK s \in taken : y[i] = Request("take", s, Silence) BY <3>1
    <3>3. y[i].op = "take" /\ y[i].stream = s BY <3>2 DEF Request
    <3> QED BY <2>2, <2>5, <3>3
  <2>9. ~routing => y = <<>>
    <3>1. ~routing => taken = {} BY <2>5
    <3>2. taken = {} => y \in Seq({}) BY <2>3
    <3> QED BY <3>1, <3>2
  <2>10. Asks(y) BY <2>1, <2>8, <2>9
  <2> QED BY <2>4, <2>7, <2>10
<1>6. CASE SeesEvent(m)
  <2>1. \/ toPA' = toPA
        \/ listening /\ m.what = "change" /\ toPA' = Append(toPA, Request("input", m.stream, None))
        \/ listening /\ m.what = "output" /\ toPA' = Append(toPA, Request("sink", None, m.sink))
    BY <1>6 DEF SeesEvent
  <2>2. m.what = "change" => Request("input", m.stream, None) \in Requests BY <1>3, MessageIs, RequestsAre
  <2>3. m.what = "output" => Request("sink", None, m.sink) \in Requests BY <1>3, MessageIs, RequestsAre
  <2>4. ASSUME NEW r \in Requests, r.op \in {"input", "sink"}, listening, toPA' = Append(toPA, r)
        PROVE  \E y \in Seq(Requests) : Asks(y)
    <3>1. <<r>> \in Seq(Requests) /\ \A i \in DOMAIN <<r>> : <<r>>[i].op \in {"input", "sink"} BY <2>4
    <3>2. toPA' = toPA \o <<r>> BY <1>0, <2>4
    <3>3. Asks(<<r>>) BY <2>4, <3>1, <3>2
    <3> QED BY <3>1, <3>3
  <2>5. Request("input", m.stream, None).op = "input" /\ Request("sink", None, m.sink).op = "sink"
    BY DEF Request
  <2>6. \E y \in Seq(Requests) : Asks(y) BY <1>4, <2>1, <2>2, <2>3, <2>4, <2>5
  <2>7. \A s \in Streams : Keeps(s)
    <3>1. origin' = origin \/ (listening /\ m.what = "over" /\ origin' = [origin EXCEPT ![m.stream] = None])
      BY <1>6 DEF SeesEvent
    <3> QED BY <1>0, <3>1
  <2> QED BY <1>1, <2>6, <2>7 DEF m
<1>7. CASE SeesInput(m)
  <2> DEFINE at == [s \in {m.stream} |-> m.sink]
  <2>1. m.what = "input" /\ MaybeSilence({m.stream}, at) BY <1>7, Zenon DEF SeesInput
  <2>2. {m.stream} \in SUBSET Streams BY <1>3, <2>1, MessageIs
  <2>3. \A s \in {m.stream} : Shows(m, s, at[s]) BY <2>1 DEF Shows
  <2> HIDE DEF at
  <2>4. (\E y \in Seq(Requests) : Asks(y)) /\ \A s \in Streams : Keeps(s) BY <1>5, <2>1, <2>2, <2>3
  <2> QED BY <1>1, <2>4 DEF m
<1>8. CASE SeesInputs(m)
  <2> DEFINE S == {s \in Streams : m.at[s] \notin {"new", "over"}}
  <2>1. m.what = "inputs" /\ MaybeSilence(S, m.at) BY <1>8, Zenon DEF SeesInputs
  <2>2. \A s \in S : Shows(m, s, m.at[s]) BY <2>1 DEF Shows
  <2>3. (\E y \in Seq(Requests) : Asks(y)) /\ \A s \in Streams : Keeps(s) BY <1>5, <2>1, <2>2
  <2> QED BY <1>1, <2>3 DEF m
<1>9. CASE SeesSinks(m) \/ SeesAnswer(m)
  <2>1. toPA' = toPA /\ origin' = origin BY <1>9 DEF SeesSinks, SeesAnswer
  <2>2. \E y \in Seq(Requests) : Asks(y) BY <1>4, <2>1
  <2>3. \A s \in Streams : Keeps(s) BY <2>1
  <2> QED BY <1>1, <2>2, <2>3 DEF m
<1> QED BY <1>2, <1>6, <1>7, <1>8, <1>9


\* A stream that plays where it should go back to, or could
Good(s) == Playing(s) /\ s \notin stray /\ home[s] \in up
Seen(s, k) == k = home[s] \/ (k = Silence /\ origin[s] = home[s])

\* What would move it, and what would show it
Takings(s) == {r \in Requests : r.op = "take" /\ r.stream = s}
Homings(s) == {r \in Requests : r.op = "home" /\ r.stream = s}
Views(s) == {m \in Messages : \/ m.what = "input" /\ m.stream = s
                              \/ m.what = "inputs" /\ m.at[s] # "new"}

\* And the ones that would have it somewhere else
Misled(s) == {r \in Requests : \/ r.op = "take" /\ r.stream = s /\ origin[s] # home[s]
                               \/ r.op = "home" /\ r.stream = s /\ r.sink # home[s]}
Misread(s) == {m \in Messages : \/ m.what = "input" /\ m.stream = s /\ ~Seen(s, m.sink)
                                \/ m.what = "inputs" /\ m.at[s] # "new" /\ ~Seen(s, m.at[s])}

\* castd has nothing to do with it
Clean(s) == /\ origin[s] = None /\ NoneOf(toPA, Takings(s)) /\ NoneOf(toPA, Homings(s))
            /\ NoneOf(fromPA, Views(s))

Takeaways == {r \in Requests : r.op = "take"}
Lasting == {r \in Requests : r.op \in {"home", "unload"}}
Overs(s) == {m \in Messages : m.what = "over" /\ m.stream = s}

LastInLine == \A i \in DOMAIN toPA : toPA[i] \in Lasting => i = Len(toPA)
Covered == ~silence => NoneOf(toPA, Takeaways) /\ \A s \in Streams : place[s] # Silence
NoOrigin == pc \in {"off", "silence"} => \A s \in Streams : origin[s] = None
HomeKnown == \A s \in Streams : home[s] \notin coming
NewOnes == \A s \in Streams : place[s] = "new" => Clean(s)
OverOnes == \A s \in Streams : place[s] # "over" => NoneOf(fromPA, Overs(s))
GoodOne(s) == /\ Seen(s, place[s]) /\ origin[s] \in {None, home[s]}
              /\ NoneOf(toPA, Misled(s)) /\ NoneOf(fromPA, Misread(s))
GoodOnes == \A s \in Streams : Good(s) => GoodOne(s)
Returning ==
  pc = "home" => \A s \in Streams : Good(s) /\ origin[s] # None =>
    \/ s \in toMove /\ origin[s] \in sinks
    \/ ~NoneOf(toPA, Homings(s))
    \/ NoneOf(toPA, Takings(s)) /\ place[s] = home[s]
Returned == pc = "unload" => \A s \in Streams : Good(s) => NoneOf(toPA, Takings(s)) /\ place[s] = home[s]

HomeInv == /\ LastInLine /\ Covered /\ NoOrigin /\ HomeKnown /\ NewOnes /\ OverOnes
           /\ GoodOnes /\ Returning /\ Returned

LEMMA UninvolvedIsClean ==
  ASSUME Typed, NEW s \in Streams, pc # "off", ~Involved(s) PROVE Clean(s)
<1>0. \A i \in DOMAIN toPA : toPA[i] \in Requests BY DEF Typed, Queues
<1>1. origin[s] = None BY DEF Involved
<1>2. \A i \in DOMAIN toPA : toPA[i].stream # s BY DEF Involved
<1>3. \A i \in DOMAIN fromPA : fromPA[i].what # "inputs" BY DEF Involved
<1>4. \A i \in DOMAIN fromPA : fromPA[i].what = "input" => fromPA[i].stream # s BY DEF Involved
<1>5. NoneOf(toPA, Takings(s)) /\ NoneOf(toPA, Homings(s)) BY <1>2 DEF NoneOf, Takings, Homings
<1>6. NoneOf(fromPA, Views(s)) BY <1>3, <1>4 DEF NoneOf, Views
<1> QED BY <1>1, <1>5, <1>6 DEF Clean

\* What the world does to a stream: if it is a good one afterwards, nothing
\* changed for it or castd has nothing to do with it
LEMMA WorldStreams ==
  ASSUME Typed, World, NewOnes, HomeKnown, NEW s \in Streams
  PROVE  /\ place[s] = "over" => place'[s] = "over"
         /\ place'[s] = "new" => place[s] = "new"
         /\ place'[s] = Silence => place[s] = Silence
         /\ home'[s] \notin coming'
         /\ Good(s)' => \/ Good(s) /\ place'[s] = place[s] /\ home'[s] = home[s]
                        \/ Clean(s) /\ place'[s] = home'[s]
<1>0. /\ place \in [Streams -> Places] /\ home \in [Streams -> Outputs \cup {None}]
      /\ {Media, Null} \subseteq up /\ up \subseteq Outputs /\ coming \subseteq Extra \ up
  BY DEF Typed, Places1, Outs
<1>1. home[s] \notin coming /\ (place[s] = "new" => Clean(s)) BY DEF HomeKnown, NewOnes
<1>2. Silence \notin Outputs /\ {"new", "over"} \cap Outputs = {} /\ Null \notin Extra BY SinksAssumption
<1>3. CASE \E t \in Streams : StreamEnds(t)
  <2>1. PICK t \in Streams : StreamEnds(t) BY <1>3
  <2>2. /\ place' = [place EXCEPT ![t] = "over"] /\ home' = home /\ coming' = coming /\ stray' = stray
        /\ up' = up
    BY <2>1 DEF StreamEnds
  <2> QED BY <1>0, <1>1, <2>2, SinksAssumption DEF Good, Playing
<1>4. CASE \E t \in Streams, k \in Outputs : StreamStarts(t, k)
  <2>1. PICK t \in Streams, k \in Outputs : StreamStarts(t, k) BY <1>4
  <2>2. /\ place[t] = "new" /\ k \in up /\ coming' = coming /\ stray' = stray /\ up' = up
        /\ place' = [place EXCEPT ![t] = k] /\ home' = [home EXCEPT ![t] = k]
    BY <2>1 DEF StreamStarts
  <2>3. CASE s = t BY <1>0, <1>1, <1>2, <2>2, <2>3
  <2>4. CASE s # t BY <1>0, <1>1, <2>2, <2>4 DEF Good, Playing
  <2> QED BY <2>3, <2>4
<1>5. CASE \E t \in Streams, k \in Outputs : StreamMoved(t, k)
  <2>1. PICK t \in Streams, k \in Outputs : StreamMoved(t, k) BY <1>5
  <2>2. /\ Playing(t) /\ k \in up /\ coming' = coming /\ up' = up /\ pc # "off"
        /\ place' = [place EXCEPT ![t] = k] /\ home' = [home EXCEPT ![t] = k]
        /\ stray' = IF Involved(t) THEN stray \cup {t} ELSE stray
    BY <2>1 DEF StreamMoved, Acts
  <2>3. CASE s = t
    <3>1. Good(s)' => Clean(s) BY <2>2, <2>3, UninvolvedIsClean DEF Good
    <3> QED BY <1>0, <1>2, <2>2, <2>3, <3>1 DEF Playing
  <2>4. CASE s # t BY <1>0, <1>1, <2>2, <2>4 DEF Good, Playing
  <2> QED BY <2>3, <2>4
<1>6. CASE \E k \in Extra : SinkComes(k)
  <2>1. PICK k \in Extra : SinkComes(k) BY <1>6
  <2>2. /\ k \in coming /\ coming' = coming \ {k} /\ up' = up \cup {k} /\ place' = place /\ home' = home
        /\ stray' = stray
    BY <2>1 DEF SinkComes
  <2> QED BY <1>0, <1>1, <2>2 DEF Good, Playing
<1>7. CASE \E k \in Extra : SinkGoes(k)
  <2>1. PICK k \in Extra : SinkGoes(k) BY <1>7
  <2>2. /\ k \in up /\ up' = up \ {k} /\ coming' = coming /\ pc # "off"
        /\ place' = [t \in Streams |-> IF t \in {u \in Streams : place[u] = k} THEN Null ELSE place[t]]
        /\ home' = [t \in Streams |-> IF t \in {u \in Streams : place[u] = k} THEN Null ELSE home[t]]
        /\ stray' = stray \cup {t \in {u \in Streams : place[u] = k} : Involved(t)}
    BY <2>1, Zenon DEF SinkGoes, Acts
  <2>3. k \in Outputs /\ Null \in up BY <1>0, <2>2
  <2>4. CASE place[s] = k
    <3>1. place'[s] = Null /\ home'[s] = Null BY <2>2, <2>4
    <3>2. Good(s)' => ~Involved(s) BY <2>2, <2>4 DEF Good
    <3>3. Good(s)' => Clean(s) BY <2>2, <3>2, UninvolvedIsClean
    <3>4. Null \in Outputs /\ Null # Silence /\ Null # "new" /\ place[s] # "over" BY <1>2, <2>3, <2>4 DEF Outputs
    <3> QED BY <1>0, <2>2, <2>3, <3>1, <3>3, <3>4
  <2>5. CASE place[s] # k
    <3>1. place'[s] = place[s] /\ home'[s] = home[s] BY <2>2, <2>5
    <3> QED BY <1>1, <2>2, <3>1 DEF Good, Playing
  <2> QED BY <2>4, <2>5
<1> QED BY <1>3, <1>4, <1>5, <1>6, <1>7 DEF World

LEMMA WorldNews ==
  ASSUME Typed, World
  PROVE  /\ pc # "off"
         /\ UNCHANGED <<toPA, pc, silence, routing, listening, origin, sinks, toMove, subscribed, stepDone, mode>>
         /\ \E x \in Seq(Messages) :
              /\ fromPA' = fromPA \o x
              /\ \A i \in DOMAIN x : /\ x[i].what \in {"change", "over", "output", "gone"}
                                     /\ x[i].what = "over" => place'[x[i].stream] = "over"
<1>0. fromPA \in Seq(Messages) /\ place \in [Streams -> Places] BY DEF Typed, Queues, Places1
<1>1. pc # "off" /\ UNCHANGED <<toPA, pc, silence, routing, listening, origin, sinks, toMove, subscribed, stepDone, mode>>
  BY DEF World, StreamEnds, StreamStarts, StreamMoved, SinkComes, SinkGoes, Acts, implVars
<1> DEFINE News(x) == \A i \in DOMAIN x : /\ x[i].what \in {"change", "over", "output", "gone"}
                                          /\ x[i].what = "over" => place'[x[i].stream] = "over"
<1>2. ASSUME NEW S \in SUBSET Streams, NEW what \in {"change", "over"},
             what = "over" => \A s \in S : place'[s] = "over"
      PROVE  ToldOf(S, what) \in Seq(Messages) /\ News(ToldOf(S, what))
  <2>1. ToldOf(S, what) \in Seq({Event(what, s, None) : s \in S}) BY TellsOf
  <2>2. ASSUME NEW i \in DOMAIN ToldOf(S, what)
        PROVE  \E s \in S : ToldOf(S, what)[i] = Event(what, s, None)
    BY <2>1
  <2>3. News(ToldOf(S, what)) BY <1>2, <2>2 DEF Event
  <2> QED BY <2>3, TellsTyped
<1>3. ASSUME NEW k \in Outputs, NEW what \in {"output", "gone"}
      PROVE  <<Event(what, None, k)>> \in Seq(Messages) /\ News(<<Event(what, None, k)>>)
  <2> DEFINE e == Event(what, None, k)
  <2>1. e \in Messages /\ e.what = what BY EventsAre DEF Event
  <2> HIDE DEF e
  <2>2. <<e>> \in Seq(Messages) /\ News(<<e>>) BY <2>1
  <2> QED BY <2>2 DEF e
<1>4. fromPA \o <<>> = fromPA /\ <<>> \in Seq(Messages) /\ News(<<>>) BY <1>0
<1>5. CASE \E s \in Streams : StreamEnds(s) \/ \E k \in Outputs : StreamStarts(s, k) \/ StreamMoved(s, k)
  <2>1. \E s \in Streams : \E what \in {"change", "over"} :
          fromPA' = fromPA \o ToldOf({s}, what) /\ (what = "over" => place' = [place EXCEPT ![s] = "over"])
    <3>1. ASSUME NEW s \in Streams, StreamEnds(s)
          PROVE  fromPA' = fromPA \o ToldOf({s}, "over") /\ place' = [place EXCEPT ![s] = "over"]
      BY <3>1, Zenon DEF StreamEnds
    <3>2. ASSUME NEW s \in Streams, NEW k \in Outputs, StreamStarts(s, k) \/ StreamMoved(s, k)
          PROVE  fromPA' = fromPA \o ToldOf({s}, "change")
      BY <3>2, Zenon DEF StreamStarts, StreamMoved
    <3> QED BY <1>5, <3>1, <3>2
  <2>2. PICK s \in Streams, what \in {"change", "over"} :
          fromPA' = fromPA \o ToldOf({s}, what) /\ (what = "over" => place' = [place EXCEPT ![s] = "over"])
    BY <2>1, Zenon
  <2>3. {s} \in SUBSET Streams /\ (what = "over" => \A t \in {s} : place'[t] = "over") BY <1>0, <2>2
  <2>4. ToldOf({s}, what) \in Seq(Messages) /\ News(ToldOf({s}, what)) BY <1>2, <2>3
  <2> QED BY <1>1, <2>2, <2>4
<1>6. CASE \E k \in Extra : SinkComes(k) \/ SinkGoes(k)
  <2>1. PICK k \in Extra : SinkComes(k) \/ SinkGoes(k) BY <1>6
  <2>2. k \in Outputs BY DEF Outputs
  <2>3. CASE SinkComes(k)
    <3> DEFINE e == Event("output", None, k)
    <3>1. fromPA' = fromPA \/ fromPA' = Append(fromPA, e) BY <2>3 DEF SinkComes
    <3>2. e \in Messages BY <2>2, EventsAre
    <3>3. <<e>> \in Seq(Messages) /\ News(<<e>>) BY <1>3, <2>2
    <3> HIDE DEF e
    <3>4. Append(fromPA, e) = fromPA \o <<e>> BY <1>0, <3>2
    <3> QED BY <1>1, <1>4, <3>1, <3>3, <3>4, Zenon
  <2>4. CASE SinkGoes(k)
    <3> DEFINE S == {s \in Streams : place[s] = k}
               x == ToldOf(S, "change")
               y == IF Told THEN <<Event("gone", None, k)>> ELSE <<>>
    <3>1. S \in SUBSET Streams OBVIOUS
    <3>2. fromPA' = fromPA \o x \o y BY <2>4, Zenon DEF SinkGoes
    <3>3. x \in Seq(Messages) /\ News(x) BY <1>2, <3>1
    <3>4. y \in Seq(Messages) /\ News(y) BY <1>3, <1>4, <2>2
    <3> HIDE DEF x, y, S
    <3>5. x \o y \in Seq(Messages) /\ fromPA' = fromPA \o (x \o y) BY <1>0, <3>2, <3>3, <3>4
    <3>6. News(x \o y) BY <3>3, <3>4
    <3> QED BY <1>1, <3>5, <3>6
  <2> QED BY <2>1, <2>3, <2>4
<1> QED BY <1>5, <1>6 DEF World

LEMMA HomeWorld == ASSUME Typed, StepInv, Silent, HomeInv, World PROVE HomeInv'
<1>0. fromPA \in Seq(Messages) /\ toPA \in Seq(Requests) BY DEF Typed, Queues
<1>1. /\ pc # "off"
      /\ UNCHANGED <<toPA, pc, silence, routing, listening, origin, sinks, toMove>>
  BY WorldNews
<1>2. PICK x \in Seq(Messages) :
        /\ fromPA' = fromPA \o x
        /\ \A i \in DOMAIN x : /\ x[i].what \in {"change", "over", "output", "gone"}
                               /\ x[i].what = "over" => place'[x[i].stream] = "over"
  BY WorldNews
<1>3. ASSUME NEW s \in Streams
      PROVE  /\ place[s] = "over" => place'[s] = "over"
             /\ place'[s] = "new" => place[s] = "new"
             /\ place'[s] = Silence => place[s] = Silence
             /\ home'[s] \notin coming'
             /\ Good(s)' => \/ Good(s) /\ place'[s] = place[s] /\ home'[s] = home[s]
                            \/ Clean(s) /\ place'[s] = home'[s]
  BY WorldStreams DEF HomeInv
<1>4. LastInLine' BY <1>1 DEF HomeInv, LastInLine, Lasting
<1>5. Covered' BY <1>1, <1>3 DEF HomeInv, Covered, NoneOf, Takeaways
<1>6. NoOrigin' BY <1>1 DEF HomeInv, NoOrigin
<1>7. HomeKnown' BY <1>3 DEF HomeKnown
<1>8. ASSUME NEW s \in Streams PROVE NoneOf(x, Views(s)) /\ NoneOf(x, Misread(s)')
  BY <1>2 DEF NoneOf, Views, Misread
<1>9. ASSUME NEW s \in Streams, Clean(s) PROVE Clean(s)'
  <2>1. NoneOf(fromPA, Views(s)) BY <1>9 DEF Clean
  <2>2. NoneOf(fromPA', Views(s)) BY <1>0, <1>2, <1>8, <2>1, NoneLonger
  <2> QED BY <1>1, <1>9, <2>2 DEF Clean, NoneOf, Views, Takings, Homings
<1>10. NewOnes' BY <1>3, <1>9 DEF HomeInv, NewOnes
<1>11. OverOnes'
  <2> SUFFICES ASSUME NEW s \in Streams, place'[s] # "over" PROVE NoneOf(fromPA', Overs(s)')
    BY DEF OverOnes, NoneOf
  <2>1. NoneOf(fromPA, Overs(s)) BY <1>3 DEF HomeInv, OverOnes
  <2>2. NoneOf(x, Overs(s)) BY <1>2 DEF NoneOf, Overs
  <2>3. NoneOf(fromPA', Overs(s)) BY <1>0, <1>2, <2>1, <2>2, NoneLonger
  <2> QED BY <2>3 DEF Overs, NoneOf
<1>12. ASSUME NEW s \in Streams, Good(s)'
       PROVE  /\ GoodOne(s)'
              /\ \/ Good(s) /\ place'[s] = place[s] /\ home'[s] = home[s]
                 \/ Clean(s) /\ place'[s] = home'[s]
  <2>1. CASE Good(s) /\ place'[s] = place[s] /\ home'[s] = home[s]
    <3>1. GoodOne(s) BY <2>1 DEF HomeInv, GoodOnes
    <3>2. Misled(s)' = Misled(s) /\ Misread(s)' = Misread(s) /\ (Seen(s, place[s]) => Seen(s, place[s])')
      BY <1>1, <2>1 DEF Misled, Misread, Seen
    <3>3. NoneOf(fromPA', Misread(s)') BY <1>0, <1>2, <1>8, <3>1, <3>2, NoneLonger DEF GoodOne
    <3> QED BY <1>1, <2>1, <3>1, <3>2, <3>3 DEF GoodOne, NoneOf
  <2>2. CASE Clean(s) /\ place'[s] = home'[s]
    <3>1. Misled(s)' \subseteq Takings(s) \cup Homings(s) BY DEF Misled, Takings, Homings
    <3>2. Misread(s)' \subseteq Views(s) BY DEF Misread, Views
    <3>3. NoneOf(toPA, Misled(s)') BY <2>2, <3>1 DEF Clean, NoneOf
    <3>4. NoneOf(fromPA, Misread(s)') BY <2>2, <3>2, NoneFewer DEF Clean
    <3>5. NoneOf(fromPA', Misread(s)') BY <1>0, <1>2, <1>8, <3>4, NoneLonger
    <3>6. Seen(s, place[s])' /\ origin'[s] = None BY <1>1, <2>2 DEF Seen, Clean
    <3> QED BY <1>1, <2>2, <3>3, <3>5, <3>6 DEF GoodOne, NoneOf
  <2> QED BY <1>3, <1>12, <2>1, <2>2
<1>13. GoodOnes' BY <1>12 DEF GoodOnes
<1>14. Returning'
  <2> SUFFICES ASSUME pc = "home", NEW s \in Streams, Good(s)', origin[s] # None
               PROVE  \/ s \in toMove /\ origin[s] \in sinks
                      \/ ~NoneOf(toPA, Homings(s))
                      \/ NoneOf(toPA, Takings(s)) /\ place'[s] = home'[s]
    BY <1>1 DEF Returning, NoneOf, Homings, Takings
  <2>1. Good(s) /\ place'[s] = place[s] /\ home'[s] = home[s] BY <1>12 DEF Clean
  <2> QED BY <2>1 DEF HomeInv, Returning
<1>15. Returned'
  <2> SUFFICES ASSUME pc = "unload", NEW s \in Streams, Good(s)'
               PROVE  NoneOf(toPA, Takings(s)) /\ place'[s] = home'[s]
    BY <1>1 DEF Returned, NoneOf, Takings
  <2> QED BY <1>12 DEF Clean, HomeInv, Returned
<1> QED BY <1>4, <1>5, <1>6, <1>7, <1>10, <1>11, <1>13, <1>14, <1>15 DEF HomeInv


LEMMA LastIsAlone ==
  ASSUME NEW q \in Seq(Requests), q # <<>>, \A i \in DOMAIN q : q[i] \in Lasting => i = Len(q)
  PROVE  /\ \A i \in DOMAIN Tail(q) : Tail(q)[i] \in Lasting => i = Len(Tail(q))
         /\ Head(q) \in Lasting => Tail(q) = <<>>
<1>1. ASSUME NEW i \in DOMAIN Tail(q), Tail(q)[i] \in Lasting PROVE i = Len(Tail(q))
  <2>1. i + 1 \in DOMAIN q /\ Tail(q)[i] = q[i + 1] /\ Len(Tail(q)) = Len(q) - 1 /\ i \in Nat OBVIOUS
  <2>2. q[i + 1] \in Lasting BY <1>1, <2>1, Zenon
  <2>3. i + 1 = Len(q) BY <2>1, <2>2
  <2>a. i \in Nat /\ Len(q) \in Nat BY <2>1
  <2>4. i = Len(q) - 1 BY <2>3, <2>a
  <2> QED BY <2>1, <2>4, Zenon
<1>2. Head(q) \in Lasting => Tail(q) = <<>>
  <2>1. 1 \in DOMAIN q /\ q[1] = Head(q) OBVIOUS
  <2>2. Head(q) \in Lasting => Len(q) = 1 BY <2>1
  <2> QED BY <2>2
<1> QED BY <1>1, <1>2

LEMMA HomeServe == ASSUME Typed, StepInv, Silent, HomeInv, Serve PROVE HomeInv'
<1>0. /\ toPA \in Seq(Requests) /\ fromPA \in Seq(Messages) /\ place \in [Streams -> Places]
      /\ up \subseteq Outputs /\ Null \in up /\ silence \in BOOLEAN
  BY DEF Typed, Queues, Places1, Outs, Flags
<1> DEFINE r == Head(toPA)
<1>1. r \in Requests /\ toPA # <<>> /\ toPA' = Tail(toPA) BY <1>0 DEF Serve
<1>2. PICK x \in Seq(Truths) : fromPA' = fromPA \o x BY ServeTruths
<1>3. UNCHANGED <<pc, origin, home, stray, up, coming, sinks, toMove>> BY DEF Serve, implVars
<1>4. \A s \in Streams :
        IF r.op \in {"take", "home"} /\ r.stream = s /\ Playing(s) /\ r.sink \in up \cup {Silence}
        THEN place'[s] = r.sink
        ELSE IF r.op = "unload" /\ place[s] = Silence THEN place'[s] = Null ELSE place'[s] = place[s]
  BY ServePlaces
<1>5. /\ LastInLine' /\ (r \in Lasting => toPA' = <<>>)
  BY <1>0, <1>1, LastIsAlone DEF HomeInv, LastInLine, Lasting
<1>6. /\ r.op \notin {"load", "unload"} => silence' = silence
      /\ r.op = "unload" => silence' = FALSE
      /\ r \in Steps => r.op \in Asked
  BY ServeSilence, ServedIsAsked
<1>7. r.op = "load" => silence' \in {TRUE, silence}
  BY DEF Serve, ServeLook, ServeSink, ServeMove, ServeStep
<1> HIDE DEF r
<1>8. x \in Seq(Messages) /\ \A i \in DOMAIN x : x[i] \in Truths BY DEF Truths
<1>10. ASSUME NEW S, NoneOf(toPA, S) PROVE NoneOf(toPA', S) /\ r \notin S
  BY <1>0, <1>1, <1>10, NoneShorter DEF r
<1>11. ASSUME NEW S, NoneOf(fromPA, S), S \cap Truths = {} PROVE NoneOf(fromPA', S)
  <2>1. NoneOf(x, S) BY <1>8, <1>11 DEF NoneOf
  <2> QED BY <1>0, <1>2, <1>8, <1>11, <2>1, NoneLonger
<1>12. /\ r.op = "take" => r.sink = Silence
       /\ r.op = "home" => r.sink \in Outputs /\ r \in Steps /\ r \in Lasting
       /\ r.op = "unload" => r \in Steps /\ r \in Lasting
       /\ r.op \in {"take", "home"} => r.stream \in Streams
  BY <1>1, RequestIs DEF Steps, Lasting
<1>13. Silence \notin Outputs /\ {"new", "over"} \cap (Outputs \cup {Silence}) = {} /\ None \notin Outputs
  BY SinksAssumption
<1>14. ASSUME NEW s \in Streams
       PROVE  /\ place[s] = "over" => place'[s] = "over"
              /\ place'[s] = "new" => place[s] = "new"
              /\ place'[s] = "over" => place[s] = "over"
              /\ Good(s)' => Good(s)
  BY <1>0, <1>3, <1>4, <1>12, <1>13 DEF Good, Playing
<1>15. Covered'
  <2> SUFFICES ASSUME ~silence' PROVE NoneOf(toPA', Takeaways) /\ \A s \in Streams : place'[s] # Silence
    BY DEF Covered, NoneOf, Takeaways
  <2>1. CASE r.op = "unload"
    <3>1. toPA' = <<>> BY <1>5, <1>12, <2>1
    <3>2. \A s \in Streams : place'[s] # Silence BY <1>0, <1>4, <1>13, <2>1
    <3> QED BY <3>1, <3>2, NoneInNothing
  <2>2. CASE r.op # "unload"
    <3>1. ~silence BY <1>6, <1>7, <2>2
    <3>2. NoneOf(toPA, Takeaways) /\ \A s \in Streams : place[s] # Silence BY <3>1 DEF HomeInv, Covered
    <3>3. NoneOf(toPA', Takeaways) /\ r.op # "take" BY <1>1, <1>10, <3>2 DEF Takeaways
    <3> QED BY <1>4, <1>12, <1>13, <3>2, <3>3
  <2> QED BY <2>1, <2>2
<1>16. NoOrigin' /\ HomeKnown' BY <1>3 DEF HomeInv, NoOrigin, HomeKnown
<1>17. NewOnes'
  <2> SUFFICES ASSUME NEW s \in Streams, place'[s] = "new" PROVE Clean(s)' BY DEF NewOnes
  <2>1. place[s] = "new" /\ Clean(s) BY <1>14 DEF HomeInv, NewOnes
  <2>2. Views(s) \cap Truths = {} BY <2>1 DEF Views, Truths, Playing
  <2>3. NoneOf(fromPA', Views(s)) BY <1>11, <2>1, <2>2 DEF Clean
  <2>4. NoneOf(toPA', Takings(s)) /\ NoneOf(toPA', Homings(s)) BY <1>10, <2>1 DEF Clean
  <2> QED BY <1>3, <2>1, <2>3, <2>4 DEF Clean, NoneOf, Views, Takings, Homings
<1>18. OverOnes'
  <2> SUFFICES ASSUME NEW s \in Streams, place'[s] # "over" PROVE NoneOf(fromPA', Overs(s)) 
    BY DEF OverOnes, NoneOf, Overs
  <2>1. NoneOf(fromPA, Overs(s)) BY <1>14 DEF HomeInv, OverOnes
  <2>2. Overs(s) \cap Truths = {} BY DEF Overs, Truths
  <2> QED BY <1>11, <2>1, <2>2
<1>19. ASSUME NEW s \in Streams, Good(s)
       PROVE  /\ home[s] \in Outputs /\ GoodOne(s)
              /\ place'[s] # place[s] => /\ r.stream = s /\ r.op \in {"take", "home"} /\ place'[s] = r.sink
                                         /\ r.op = "take" => origin[s] = home[s]
                                         /\ r.op = "home" => r.sink = home[s]
              /\ r.op = "home" /\ r.stream = s => place'[s] = home[s]
  <2>1. home[s] \in Outputs /\ home[s] \in up /\ GoodOne(s) /\ Playing(s)
    BY <1>0, <1>19 DEF Good, HomeInv, GoodOnes
  <2>2. r \notin Misled(s) BY <1>10, <2>1 DEF GoodOne
  <2>3. ~(r.op = "unload" /\ place[s] = Silence)
    <3> SUFFICES ASSUME r.op = "unload", place[s] = Silence PROVE FALSE OBVIOUS
    <3>1. pc \in {"silence", "unload"} BY <1>6, <1>12 DEF Asked
    <3>2. origin[s] = home[s] BY <1>13, <2>1 DEF GoodOne, Seen
    <3>3. pc # "silence" BY <1>13, <2>1, <3>2 DEF HomeInv, NoOrigin
    <3>4. pc = "unload" => place[s] = home[s] BY <1>19 DEF HomeInv, Returned
    <3> QED BY <1>13, <2>1, <3>1, <3>3, <3>4
  <2>4. r.op = "take" /\ r.stream = s => origin[s] = home[s] BY <1>1, <2>2 DEF Misled
  <2>5. r.op = "home" /\ r.stream = s => r.sink = home[s] BY <1>1, <2>2 DEF Misled
  <2> QED BY <1>4, <2>1, <2>3, <2>4, <2>5
<1>20. GoodOnes'
  <2> SUFFICES ASSUME NEW s \in Streams, Good(s)' PROVE GoodOne(s)' BY DEF GoodOnes
  <2>1. Good(s) BY <1>14
  <2>2. GoodOne(s) BY <1>19, <2>1
  <2>3. Misled(s)' = Misled(s) /\ Misread(s)' = Misread(s) BY <1>3 DEF Misled, Misread, Seen
  <2>4. NoneOf(toPA', Misled(s)) BY <1>10, <2>2 DEF GoodOne
  <2>5. Misread(s) \cap Truths = {} BY <2>2 DEF Misread, Truths, GoodOne
  <2>6. NoneOf(fromPA', Misread(s)) BY <1>11, <2>2, <2>5 DEF GoodOne
  <2>7. Seen(s, place[s])' BY <1>3, <1>12, <1>19, <2>1, <2>2 DEF Seen, GoodOne
  <2> QED BY <1>3, <2>2, <2>3, <2>4, <2>6, <2>7 DEF GoodOne, NoneOf
<1>21. Returning'
  <2> SUFFICES ASSUME pc = "home", NEW s \in Streams, Good(s), origin[s] # None
               PROVE  \/ s \in toMove /\ origin[s] \in sinks
                      \/ ~NoneOf(toPA', Homings(s))
                      \/ NoneOf(toPA', Takings(s)) /\ place'[s] = home[s]
    BY <1>3, <1>14 DEF Returning, NoneOf, Homings, Takings
  <2>1. \/ s \in toMove /\ origin[s] \in sinks
        \/ ~NoneOf(toPA, Homings(s))
        \/ NoneOf(toPA, Takings(s)) /\ place[s] = home[s]
    BY DEF HomeInv, Returning
  <2>2. CASE ~NoneOf(toPA, Homings(s)) /\ r \notin Homings(s)
    <3>1. ~NoneOf(toPA', Homings(s)) BY <1>0, <1>1, <2>2, NoneWhole DEF r
    <3> QED BY <3>1
  <2>3. CASE r \in Homings(s)
    <3>1. r.op = "home" /\ r.stream = s BY <2>3 DEF Homings
    <3>2. toPA' = <<>> BY <1>5, <1>12, <3>1
    <3>3. place'[s] = home[s] BY <1>19, <3>1
    <3> QED BY <3>2, <3>3, NoneInNothing
  <2>4. CASE NoneOf(toPA, Takings(s)) /\ place[s] = home[s]
    <3>1. NoneOf(toPA', Takings(s)) /\ r \notin Takings(s) BY <1>10, <2>4
    <3>2. ~(r.op = "take" /\ r.stream = s) BY <1>1, <3>1 DEF Takings
    <3>3. place'[s] = home[s] BY <1>19, <2>4, <3>2
    <3> QED BY <3>1, <3>3
  <2> QED BY <2>1, <2>2, <2>3, <2>4
<1>22. Returned'
  <2> SUFFICES ASSUME pc = "unload", NEW s \in Streams, Good(s)
               PROVE  NoneOf(toPA', Takings(s)) /\ place'[s] = home[s]
    BY <1>3, <1>14 DEF Returned, NoneOf, Takings
  <2>1. NoneOf(toPA, Takings(s)) /\ place[s] = home[s] BY DEF HomeInv, Returned
  <2>2. NoneOf(toPA', Takings(s)) /\ r \notin Takings(s) BY <1>10, <2>1
  <2>3. ~(r.op = "take" /\ r.stream = s) BY <1>1, <2>2 DEF Takings
  <2> QED BY <1>19, <2>1, <2>2, <2>3
<1> QED BY <1>5, <1>15, <1>16, <1>17, <1>18, <1>20, <1>21, <1>22 DEF HomeInv

LEMMA HomeDispatch == ASSUME Typed, StepInv, Silent, HomeInv, Dispatch PROVE HomeInv'
<1>0. /\ toPA \in Seq(Requests) /\ fromPA \in Seq(Messages) /\ place \in [Streams -> Places]
      /\ up \subseteq Outputs /\ sinks \subseteq Outputs
  BY DEF Typed, Queues, Places1, Outs
<1> DEFINE m == Head(fromPA)
<1>1. /\ m \in Messages /\ fromPA # <<>> /\ fromPA' = Tail(fromPA)
      /\ \E y \in Seq(Requests) :
           /\ toPA' = toPA \o y
           /\ ~listening /\ ~routing => y = <<>>
           /\ \A i \in DOMAIN y :
                \/ y[i].op \in {"input", "sink"}
                \/ /\ y[i].op = "take" /\ routing /\ y[i].stream \in Streams
                   /\ \E k : Shows(m, y[i].stream, k) /\ k # Silence /\ origin'[y[i].stream] = k
      /\ \A s \in Streams :
           \/ origin'[s] = origin[s]
           \/ listening /\ m.what = "over" /\ m.stream = s /\ origin'[s] = None
           \/ /\ routing
              /\ \E k : /\ Shows(m, s, k)
                        /\ \/ k # Silence /\ origin'[s] = k
                           \/ k = Silence /\ origin[s] = None /\ origin'[s] = Media
  BY DispatchStreams
<1>2. UNCHANGED <<place, up, silence, pc, routing, listening, toMove, coming, home, stray>> BY DEF Dispatch
<1>3. ~listening => sinks \subseteq sinks'
  BY DEF Dispatch, SeesEvent, SeesInput, SeesInputs, SeesSinks, SeesAnswer
<1>4. pc # "off" BY <1>1 DEF StepInv, Idle
<1> HIDE DEF m
<1>5. PICK y \in Seq(Requests) :
           /\ toPA' = toPA \o y
           /\ ~listening /\ ~routing => y = <<>>
           /\ \A i \in DOMAIN y :
                \/ y[i].op \in {"input", "sink"}
                \/ /\ y[i].op = "take" /\ routing /\ y[i].stream \in Streams
                   /\ \E k : Shows(m, y[i].stream, k) /\ k # Silence /\ origin'[y[i].stream] = k
  BY <1>1
<1>6. ASSUME NEW S, NoneOf(fromPA, S) PROVE NoneOf(fromPA', S) /\ m \notin S
  BY <1>0, <1>1, <1>6, NoneShorter DEF m
<1>7. ASSUME NEW S, NoneOf(toPA, S), NoneOf(y, S) PROVE NoneOf(toPA', S)
  BY <1>0, <1>5, <1>7, NoneLonger
<1>8. pc \in {"silence", "home", "unload"} => ~listening /\ routing = FALSE /\ y = <<>> /\ toPA' = toPA
  <2>1. pc \in {"silence", "home", "unload"} => ~listening BY DEF StepInv, Listens
  <2>2. pc \in {"silence", "home", "unload"} => routing = FALSE BY DEF Silent
  <2>3. y = <<>> => toPA' = toPA BY <1>0, <1>5
  <2> QED BY <1>5, <2>1, <2>2, <2>3
<1>9. Silence \notin Outputs /\ {"new", "over"} \cap (Outputs \cup {Silence}) = {} /\ None \notin Outputs
  BY SinksAssumption
<1>10. LastInLine'
  <2>1. CASE pc \in {"silence", "home", "unload"} BY <1>8, <2>1 DEF HomeInv, LastInLine, Lasting
  <2>2. CASE pc \notin {"silence", "home", "unload"}
    <3>1. NoneOf(toPA, Unasked) BY DEF StepInv, AskedFor
    <3>2. Asked \cap {"home", "unload"} = {} BY <2>2 DEF Asked
    <3>3. Lasting \subseteq Unasked BY <3>2 DEF Lasting, Unasked, Steps
    <3>4. NoneOf(toPA, Lasting) BY <3>1, <3>3, NoneFewer
    <3>5. NoneOf(y, Lasting) BY <1>5 DEF NoneOf, Lasting
    <3>6. NoneOf(toPA', Lasting) BY <1>7, <3>4, <3>5
    <3> QED BY <3>6 DEF LastInLine, NoneOf, Lasting
  <2> QED BY <2>1, <2>2
<1>11. routing => silence
  <2>1. pc \in {"list", "subscribe", "sweep", "running"} \/ pc \in {"off", "silence", "home", "unload"}
    BY DEF Typed, At, Starting, Stopping
  <2> QED BY <2>1 DEF Silent
<1>12. Covered'
  <2> SUFFICES ASSUME ~silence PROVE NoneOf(toPA', Takeaways) BY <1>2 DEF Covered, HomeInv, NoneOf, Takeaways
  <2>1. NoneOf(y, Takeaways) BY <1>5, <1>11 DEF NoneOf, Takeaways
  <2> QED BY <1>7, <2>1 DEF HomeInv, Covered
<1>13. NoOrigin'
  <2> SUFFICES ASSUME pc = "silence", NEW s \in Streams PROVE origin'[s] = None BY <1>2, <1>4 DEF NoOrigin
  <2>1. origin[s] = None /\ ~routing BY <1>8 DEF HomeInv, NoOrigin
  <2> QED BY <1>1, <2>1
<1>14. HomeKnown' BY <1>2 DEF HomeInv, HomeKnown
<1>15. NewOnes'
  <2> SUFFICES ASSUME NEW s \in Streams, place[s] = "new" PROVE Clean(s)' BY <1>2 DEF NewOnes
  <2>1. Clean(s) /\ NoneOf(fromPA, Overs(s)) BY DEF HomeInv, NewOnes, OverOnes
  <2>2. m \notin Views(s) /\ NoneOf(fromPA', Views(s)) /\ m \notin Overs(s) BY <1>6, <2>1 DEF Clean
  <2>3. \A k : ~Shows(m, s, k) BY <1>1, <2>2 DEF Views, Shows
  <2>4. origin'[s] = None BY <1>1, <2>1, <2>3 DEF Clean
  <2>5. NoneOf(y, Takings(s)) /\ NoneOf(y, Homings(s)) BY <1>5, <2>3 DEF NoneOf, Takings, Homings
  <2>6. NoneOf(toPA', Takings(s)) /\ NoneOf(toPA', Homings(s)) BY <1>7, <2>1, <2>5 DEF Clean
  <2> QED BY <2>2, <2>4, <2>6 DEF Clean, NoneOf, Views, Takings, Homings
<1>16. OverOnes'
  <2> SUFFICES ASSUME NEW s \in Streams, place[s] # "over" PROVE NoneOf(fromPA', Overs(s))
    BY <1>2 DEF OverOnes, NoneOf, Overs
  <2> QED BY <1>6 DEF HomeInv, OverOnes
<1>17. ASSUME NEW s \in Streams, Good(s)
       PROVE  /\ GoodOne(s) /\ home[s] # None /\ origin'[s] \in {origin[s], home[s]}
              /\ \A k : Shows(m, s, k) /\ k # Silence => k = home[s]
  <2>1. GoodOne(s) /\ place[s] # "over" /\ place[s] # "new" /\ home[s] \in Outputs
    BY <1>0, <1>17 DEF HomeInv, GoodOnes, Good, Playing
  <2>2. m \notin Misread(s) /\ m \notin Overs(s) BY <1>6, <2>1 DEF GoodOne, HomeInv, OverOnes
  <2>3. \A k : Shows(m, s, k) => Seen(s, k) BY <1>1, <2>2 DEF Shows, Misread
  <2>4. \A k : Shows(m, s, k) /\ k = Silence => origin[s] # None BY <1>9, <2>1, <2>3 DEF Seen
  <2>5. \A k : Shows(m, s, k) /\ k # Silence => k = home[s] BY <2>3 DEF Seen
  <2>6. origin'[s] \in {origin[s], home[s]} BY <1>1, <2>2, <2>4, <2>5 DEF Overs
  <2> QED BY <1>9, <2>1, <2>5, <2>6
<1>18. \A s \in Streams : Good(s)' = Good(s) BY <1>2 DEF Good, Playing
<1>19. GoodOnes'
  <2> SUFFICES ASSUME NEW s \in Streams, Good(s) PROVE GoodOne(s)' BY <1>18 DEF GoodOnes
  <2>1. /\ GoodOne(s) /\ origin'[s] \in {origin[s], home[s]}
        /\ \A k : Shows(m, s, k) /\ k # Silence => k = home[s]
    BY <1>17
  <2>2. Misled(s)' \subseteq Misled(s) /\ Misread(s)' \subseteq Misread(s)
    BY <1>2, <2>1 DEF Misled, Misread, Seen, GoodOne
  <2>3. NoneOf(y, Misled(s)') BY <1>2, <1>5, <2>1 DEF NoneOf, Misled
  <2>4. NoneOf(toPA, Misled(s)') /\ NoneOf(fromPA', Misread(s)')
    BY <1>6, <2>1, <2>2, NoneFewer DEF GoodOne
  <2>5. NoneOf(toPA', Misled(s)') BY <1>7, <2>3, <2>4
  <2>6. Seen(s, place[s])' /\ (origin[s] \in {None, home[s]})' BY <1>2, <2>1 DEF GoodOne, Seen
  <2> QED BY <2>4, <2>5, <2>6 DEF GoodOne, NoneOf
<1>20. pc \in {"home", "unload"} => \A s \in Streams : origin'[s] = origin[s] BY <1>1, <1>8
<1>21. Returning'
  <2> SUFFICES ASSUME pc = "home", NEW s \in Streams, Good(s), origin'[s] # None
               PROVE  \/ s \in toMove /\ origin'[s] \in sinks'
                      \/ ~NoneOf(toPA', Homings(s))
                      \/ NoneOf(toPA', Takings(s)) /\ place[s] = home[s]
    BY <1>2, <1>18 DEF Returning, NoneOf, Homings, Takings
  <2>1. toPA' = toPA /\ sinks \subseteq sinks' /\ origin'[s] = origin[s] BY <1>3, <1>8, <1>20
  <2> QED BY <2>1 DEF HomeInv, Returning
<1>22. Returned'
  <2> SUFFICES ASSUME pc = "unload", NEW s \in Streams, Good(s)
               PROVE  NoneOf(toPA', Takings(s)) /\ place[s] = home[s]
    BY <1>2, <1>18 DEF Returned, NoneOf, Takings
  <2> QED BY <1>8 DEF HomeInv, Returned
<1> QED BY <1>10, <1>12, <1>13, <1>14, <1>15, <1>16, <1>19, <1>21, <1>22 DEF HomeInv


\* The streams castd has taken are as it found them when their capture ends
LEMMA LeavesNoneBehind ==
  ASSUME Typed, HomeInv, ~silence, NEW s \in Streams, Good(s)
  PROVE  place[s] = home[s]
<1>1. place[s] # Silence BY DEF HomeInv, Covered
<1>2. Seen(s, place[s]) BY DEF HomeInv, GoodOnes, GoodOne
<1> QED BY <1>1, <1>2 DEF Seen

\* A capture ends, and what was queued is dropped
LEMMA HomeOff ==
  ASSUME Typed, HomeInv, Disconnect, UNCHANGED <<place, home, up, coming, silence>>, stray \subseteq stray',
         \A s \in Streams : Good(s) /\ place[s] = Silence => s \in stray',
         \A s \in Streams : ~silence => place[s] # Silence
  PROVE  HomeInv'
<1>1. toPA' = <<>> /\ fromPA' = <<>> /\ pc' = "off" BY DEF Disconnect
<1>2. \A s \in Streams : origin'[s] = None BY DEF Disconnect, NewImpl
<1>3. \A S : NoneOf(toPA', S) /\ NoneOf(fromPA', S) BY <1>1, NoneInNothing
<1>4. LastInLine' BY <1>1 DEF LastInLine
<1>5. Covered' BY <1>3 DEF Covered, NoneOf, Takeaways
<1>6. NoOrigin' BY <1>2 DEF NoOrigin
<1>7. HomeKnown' BY DEF HomeInv, HomeKnown
<1>8. NewOnes' BY <1>2, <1>3 DEF NewOnes, Clean, NoneOf
<1>9. OverOnes' BY <1>3 DEF OverOnes, NoneOf
<1>10. GoodOnes'
  <2> SUFFICES ASSUME NEW s \in Streams, Good(s)' PROVE GoodOne(s)' BY DEF GoodOnes
  <2>1. Good(s) /\ s \notin stray' BY DEF Good, Playing
  <2>2. place[s] # Silence /\ Seen(s, place[s]) BY <2>1 DEF HomeInv, GoodOnes, GoodOne
  <2>3. place[s] = home[s] BY <2>2 DEF Seen
  <2> QED BY <1>2, <1>3, <2>3 DEF GoodOne, Seen, NoneOf
<1>11. Returning' /\ Returned' BY <1>1 DEF Returning, Returned
<1> QED BY <1>4, <1>5, <1>6, <1>7, <1>8, <1>9, <1>10, <1>11 DEF HomeInv

\* A step of the main thread, whose answer it will wait for
LEMMA HomeStep ==
  ASSUME Typed, StepInv, HomeInv, stepDone \/ pc = "off", NEW op, NEW t, NEW k, NEW next, Step(op, t, k, next),
         Request(op, t, k) \in Requests, op # "take", next # "off",
         next = "silence" => pc = "off",
         UNCHANGED <<place, home, up, coming, silence, stray, origin, fromPA, sinks>>,
         op = "home" => t \in Streams /\ k = origin[t] /\ k \in Outputs
  PROVE  /\ NoneOf(toPA, Steps) /\ toPA' = Append(toPA, Request(op, t, k)) /\ pc' = next
         /\ \A s \in Streams : Good(s)' = Good(s)
         /\ \A s \in Streams : Takings(s)' = Takings(s) /\ (NoneOf(toPA, Takings(s)) => NoneOf(toPA', Takings(s)))
         /\ (LastInLine /\ Covered /\ NoOrigin /\ HomeKnown /\ NewOnes /\ OverOnes /\ GoodOnes)'
<1>0. toPA \in Seq(Requests) /\ fromPA \in Seq(Messages) BY DEF Typed, Queues
<1> DEFINE r == Request(op, t, k)
<1>1. toPA' = Append(toPA, r) /\ pc' = next /\ r.op = op /\ r.stream = t /\ r.sink = k BY DEF Step, Request
<1>2. r \in Requests OBVIOUS
<1>3. NoneOf(toPA, Steps)
  <2>1. ~Waiting \/ toPA = <<>> BY DEF Waiting, StepInv, Idle
  <2> QED BY <2>1, NoneInNothing DEF StepInv, OnlyOne
<1> HIDE DEF r
<1>4. ASSUME NEW S, NoneOf(toPA, S), r \notin S PROVE NoneOf(toPA', S)
  <2>1. <<r>> \in Seq(Requests) /\ NoneOf(<<r>>, S) /\ toPA' = toPA \o <<r>> BY <1>0, <1>1, <1>2, <1>4 DEF NoneOf
  <2> QED BY <1>0, <1>4, <2>1, NoneLonger
<1>5. LastInLine'
  <2>1. Lasting \subseteq Steps BY DEF Lasting, Steps
  <2>2. NoneOf(toPA, Lasting) BY <1>3, <2>1, NoneFewer
  <2>3. ASSUME NEW i \in DOMAIN toPA', toPA'[i] \in Lasting PROVE i = Len(toPA')
    BY <1>0, <1>1, <1>2, <2>2, <2>3 DEF NoneOf
  <2> QED BY <2>3 DEF LastInLine, Lasting
<1>6. Covered'
  <2>1. r \notin Takeaways BY <1>1 DEF Takeaways
  <2>2. ~silence => NoneOf(toPA', Takeaways) BY <1>4, <2>1 DEF HomeInv, Covered
  <2> QED BY <2>2 DEF HomeInv, Covered, NoneOf, Takeaways
<1>7. NoOrigin' /\ HomeKnown' BY <1>1 DEF HomeInv, NoOrigin, HomeKnown
<1>8. None \notin Outputs /\ {"new", "over"} \cap Outputs = {} BY SinksAssumption
<1>9. NewOnes'
  <2> SUFFICES ASSUME NEW s \in Streams, place[s] = "new" PROVE Clean(s)' BY DEF NewOnes
  <2>1. Clean(s) BY DEF HomeInv, NewOnes
  <2>2. r \notin Takings(s) /\ r \notin Homings(s) BY <1>1, <1>8, <2>1 DEF Takings, Homings, Clean
  <2>3. NoneOf(toPA', Takings(s)) /\ NoneOf(toPA', Homings(s)) BY <1>4, <2>1, <2>2 DEF Clean
  <2> QED BY <2>1, <2>3 DEF Clean, NoneOf, Takings, Homings, Views
<1>10. OverOnes' BY DEF HomeInv, OverOnes, NoneOf, Overs
<1>11. \A s \in Streams : Good(s)' = Good(s) BY DEF Good, Playing
<1>12. GoodOnes'
  <2> SUFFICES ASSUME NEW s \in Streams, Good(s) PROVE GoodOne(s)' BY <1>11 DEF GoodOnes
  <2>1. GoodOne(s) BY DEF HomeInv, GoodOnes
  <2>2. r \notin Misled(s) BY <1>1, <1>8, <2>1 DEF Misled, GoodOne
  <2>3. NoneOf(toPA', Misled(s)) BY <1>4, <2>1, <2>2 DEF GoodOne
  <2> QED BY <2>1, <2>3 DEF GoodOne, NoneOf, Misled, Misread, Seen
<1>13. ASSUME NEW s \in Streams
       PROVE  Takings(s)' = Takings(s) /\ (NoneOf(toPA, Takings(s)) => NoneOf(toPA', Takings(s)))
  <2>1. r \notin Takings(s) BY <1>1 DEF Takings
  <2> QED BY <1>4, <2>1 DEF Takings
<1> QED BY <1>1, <1>3, <1>5, <1>6, <1>7, <1>9, <1>10, <1>11, <1>12, <1>13 DEF r

LEMMA HomeMain == ASSUME Typed, StepInv, Silent, HomeInv, Main \/ StopImpl PROVE HomeInv'
<1>0. /\ toPA \in Seq(Requests) /\ sinks \subseteq Outputs /\ up \subseteq Outputs
      /\ origin \in [Streams -> Outputs \cup {None}]
  BY DEF Typed, Queues, Outs, Origins
<1>n. None \notin Outputs /\ Silence \notin Outputs BY SinksAssumption
<1>1. CASE ListSinks \/ Subscribe \/ Sweep
  <2>1. /\ stepDone /\ UNCHANGED <<place, home, up, coming, silence, stray, origin, fromPA, sinks>>
        /\ \E op \in {"list", "subscribe", "inputs"} : \E next \in {"list", "subscribe", "sweep"} :
             Step(op, None, None, next)
    BY <1>1 DEF ListSinks, Subscribe, Sweep, Waited, histVars
  <2>2. PICK op \in {"list", "subscribe", "inputs"}, next \in {"list", "subscribe", "sweep"} :
          Step(op, None, None, next)
    BY <2>1
  <2>3. Request(op, None, None) \in Requests BY RequestsAre
  <2>4. op # "take" /\ op # "home" /\ next # "off" /\ next # "silence" OBVIOUS
  <2>5. pc' = next /\ (LastInLine /\ Covered /\ NoOrigin /\ HomeKnown /\ NewOnes /\ OverOnes /\ GoodOnes)'
    BY <2>1, <2>2, <2>3, <2>4, HomeStep
  <2> QED BY <2>5 DEF HomeInv, Returning, Returned
<1>2. CASE Unload
  <2>1. /\ pc = "home" /\ stepDone /\ toMove = {} /\ Step("unload", None, None, "unload")
        /\ UNCHANGED <<place, home, up, coming, silence, stray, origin, fromPA, sinks>>
    BY <1>2 DEF Unload, Waited, histVars
  <2>2. Request("unload", None, None) \in Requests BY RequestsAre
  <2>3. /\ NoneOf(toPA, Steps) /\ pc' = "unload"
        /\ \A s \in Streams : Good(s)' = Good(s)
        /\ \A s \in Streams : Takings(s)' = Takings(s) /\ (NoneOf(toPA, Takings(s)) => NoneOf(toPA', Takings(s)))
        /\ (LastInLine /\ Covered /\ NoOrigin /\ HomeKnown /\ NewOnes /\ OverOnes /\ GoodOnes)'
    BY <2>1, <2>2, HomeStep
  <2>4. ASSUME NEW s \in Streams, Good(s) PROVE NoneOf(toPA, Takings(s)) /\ place[s] = home[s]
    <3>1. GoodOne(s) /\ home[s] \in Outputs BY <1>0, <2>4 DEF HomeInv, GoodOnes, Good
    <3>2. Homings(s) \subseteq Steps BY DEF Homings, Steps
    <3>3. NoneOf(toPA, Homings(s)) BY <2>3, <3>2, NoneFewer
    <3>4. CASE origin[s] # None BY <2>1, <2>4, <3>3, <3>4 DEF HomeInv, Returning
    <3>5. CASE origin[s] = None
      <4>1. origin[s] # home[s] BY <1>n, <3>1, <3>5
      <4>2. place[s] = home[s] BY <3>1, <4>1 DEF GoodOne, Seen
      <4>3. Takings(s) \subseteq Misled(s) BY <4>1 DEF Takings, Misled
      <4>4. NoneOf(toPA, Takings(s)) BY <3>1, <4>3, NoneFewer DEF GoodOne
      <4> QED BY <4>2, <4>4
    <3> QED BY <3>4, <3>5
  <2>5. Returned' BY <2>1, <2>3, <2>4 DEF Returned, NoneOf
  <2>6. Returning' BY <2>3 DEF Returning
  <2> QED BY <2>3, <2>5, <2>6 DEF HomeInv
<1>3. CASE \E t \in Streams : BringHome(t)
  <2>1. PICK t \in Streams : BringHome(t) BY <1>3
  <2>2. /\ pc = "home" /\ stepDone /\ toMove' = toMove \ {t} /\ t \in toMove
        /\ UNCHANGED <<place, home, up, coming, silence, stray, origin, fromPA, sinks>>
    BY <2>1 DEF BringHome, Waited, histVars
  <2>3. CASE origin[t] \in sinks
    <3>1. Step("home", t, origin[t], "home") BY <2>1, <2>3 DEF BringHome
    <3>2. origin[t] \in Outputs BY <1>0, <2>3
    <3>3. Request("home", t, origin[t]) \in Requests BY <3>2, RequestsAre
    <3>4. /\ pc' = "home" /\ toPA' = Append(toPA, Request("home", t, origin[t]))
          /\ \A s \in Streams : Good(s)' = Good(s)
          /\ \A s \in Streams : Takings(s)' = Takings(s) /\ (NoneOf(toPA, Takings(s)) => NoneOf(toPA', Takings(s)))
          /\ (LastInLine /\ Covered /\ NoOrigin /\ HomeKnown /\ NewOnes /\ OverOnes /\ GoodOnes)'
      BY <2>2, <3>1, <3>2, <3>3, HomeStep
    <3>5. Request("home", t, origin[t]) \in Homings(t) BY <3>3 DEF Homings, Request
    <3>6. ~NoneOf(toPA', Homings(t))
      <4>1. Len(toPA) + 1 \in DOMAIN toPA' /\ toPA'[Len(toPA) + 1] \in Homings(t) BY <1>0, <3>3, <3>4, <3>5
      <4> QED BY <4>1 DEF NoneOf
    <3>7. ASSUME NEW s \in Streams, ~NoneOf(toPA, Homings(s)) PROVE ~NoneOf(toPA', Homings(s))
      <4> DEFINE r == Request("home", t, origin[t])
      <4>1. <<r>> \in Seq(Requests) /\ toPA' = toPA \o <<r>> BY <1>0, <3>3, <3>4
      <4> HIDE DEF r
      <4> QED BY <1>0, <3>7, <4>1, NoneBefore
    <3>8. Returning'
      <4> SUFFICES ASSUME NEW s \in Streams, Good(s), origin[s] # None
                   PROVE  \/ s \in toMove' /\ origin[s] \in sinks
                          \/ ~NoneOf(toPA', Homings(s))
                          \/ NoneOf(toPA', Takings(s)) /\ place[s] = home[s]
        BY <2>2, <3>4 DEF Returning, NoneOf, Homings, Takings
      <4>1. \/ s \in toMove /\ origin[s] \in sinks
            \/ ~NoneOf(toPA, Homings(s))
            \/ NoneOf(toPA, Takings(s)) /\ place[s] = home[s]
        BY <2>2 DEF HomeInv, Returning
      <4> QED BY <2>2, <3>4, <3>6, <3>7, <4>1
    <3>9. Returned' BY <3>4 DEF Returned
    <3> QED BY <3>4, <3>8, <3>9 DEF HomeInv
  <2>4. CASE origin[t] \notin sinks
    <3>1. UNCHANGED <<toPA, pc>> BY <2>1, <2>4 DEF BringHome
    <3>2. Returning'
      <4> SUFFICES ASSUME NEW s \in Streams, Good(s), origin[s] # None
                   PROVE  \/ s \in toMove' /\ origin[s] \in sinks
                          \/ ~NoneOf(toPA, Homings(s))
                          \/ NoneOf(toPA, Takings(s)) /\ place[s] = home[s]
        BY <2>2, <3>1 DEF Returning, NoneOf, Homings, Takings, Good, Playing
      <4>1. \/ s \in toMove /\ origin[s] \in sinks
            \/ ~NoneOf(toPA, Homings(s))
            \/ NoneOf(toPA, Takings(s)) /\ place[s] = home[s]
        BY <2>2 DEF HomeInv, Returning
      <4> QED BY <2>2, <2>4, <4>1
    <3>3. Returned' BY <2>2, <3>1 DEF Returned
    <3>4. (LastInLine /\ Covered /\ NoOrigin /\ HomeKnown /\ NewOnes /\ OverOnes /\ GoodOnes)'
      BY <2>2, <3>1 DEF HomeInv, LastInLine, Lasting, Covered, NoOrigin, HomeKnown, NewOnes, OverOnes, GoodOnes, Clean,
        NoneOf, Takeaways, Takings, Homings, Views, Overs, GoodOne, Good, Playing, Seen, Misled, Misread
    <3> QED BY <3>2, <3>3, <3>4 DEF HomeInv
  <2> QED BY <2>3, <2>4
<1>4. CASE Record
  <2>1. UNCHANGED <<place, home, up, coming, silence, stray, origin, fromPA, toPA, sinks>> /\ pc' = "running"
    BY <1>4 DEF Record, paVars, histVars
  <2> QED BY <2>1 DEF HomeInv, LastInLine, Lasting, Covered, NoOrigin, HomeKnown, NewOnes, OverOnes, GoodOnes, Clean,
        NoneOf, Takeaways, Takings, Homings, Views, Overs, GoodOne, Good, Playing, Seen, Misled, Misread,
        Returning, Returned
<1>5. CASE StopDone
  <2>1. Disconnect /\ UNCHANGED <<place, home, up, coming, silence, stray>> /\ pc = "unload" /\ stepDone
    BY <1>5 DEF StopDone, Waited
  <2>2. NoneOf(toPA, Steps) BY <2>1 DEF StepInv, OnlyOne, Waiting
  <2>3. ~silence BY <2>1, <2>2 DEF Silent
  <2>4. \A s \in Streams : place[s] # Silence BY <2>3 DEF HomeInv, Covered
  <2> QED BY <2>1, <2>4, HomeOff
<1>6. CASE StopImpl
  <2>1. pc \in {"running", "sweep"} /\ routing = silence BY <1>6 DEF StopImpl, Waited, Silent
  <2>2. UNCHANGED <<place, home, up, coming, silence>> BY <1>6 DEF StopImpl
  <2>3. CASE ~routing
    <3>1. Disconnect /\ stray' = stray BY <1>6, <2>3 DEF StopImpl
    <3>2. \A s \in Streams : place[s] # Silence BY <2>1, <2>3 DEF HomeInv, Covered
    <3> QED BY <2>2, <3>1, <3>2, HomeOff
  <2>4. CASE routing
    <3>1. /\ pc' = "home" /\ toMove' = {s \in Streams : origin[s] # None}
          /\ stray' = stray \cup {s \in Streams : origin[s] \in Outputs \ sinks}
          /\ UNCHANGED <<toPA, fromPA, sinks, origin>>
      BY <1>6, <2>4 DEF StopImpl
    <3>2. ASSUME NEW s \in Streams, Good(s)' PROVE Good(s) /\ (origin[s] # None => s \in toMove' /\ origin[s] \in sinks)
      BY <1>0, <2>2, <3>1, <3>2 DEF Good, Playing
    <3>3. Returning' BY <3>1, <3>2 DEF Returning
    <3>4. GoodOnes'
      <4> SUFFICES ASSUME NEW s \in Streams, Good(s)' PROVE GoodOne(s)' BY DEF GoodOnes
      <4>1. GoodOne(s) BY <3>2 DEF HomeInv, GoodOnes
      <4> QED BY <2>2, <3>1, <4>1 DEF GoodOne, Seen, Misled, Misread, NoneOf
    <3>5. Returned' BY <3>1 DEF Returned
    <3>6. (LastInLine /\ Covered /\ NoOrigin /\ HomeKnown /\ NewOnes /\ OverOnes)'
      BY <2>2, <3>1 DEF HomeInv, LastInLine, Lasting, Covered, NoOrigin, HomeKnown, NewOnes, OverOnes, Clean,
        NoneOf, Takeaways, Takings, Homings, Views, Overs
    <3> QED BY <3>3, <3>4, <3>5, <3>6 DEF HomeInv
  <2> QED BY <2>3, <2>4
<1> QED BY <1>1, <1>2, <1>3, <1>4, <1>5, <1>6 DEF Main

LEMMA HomeKept == ASSUME Typed, StepInv, Silent, HomeInv, [RouteNext]_audioVars PROVE HomeInv'
<1>0. /\ place \in [Streams -> Places] /\ up \subseteq Outputs BY DEF Typed, Places1, Outs
<1>n. None \notin Outputs /\ Silence \notin Outputs /\ Media \in Outputs /\ {"new", "over"} \cap Outputs = {}
  BY SinksAssumption DEF Outputs
<1>1. CASE Kill
  <2>1. /\ Disconnect /\ UNCHANGED <<place, home, up, coming, silence>>
        /\ stray' = stray \cup {s \in Streams : place[s] = Silence}
    BY <1>1 DEF Kill
  <2>2. \A s \in Streams : ~silence => place[s] # Silence BY DEF HomeInv, Covered
  <2> QED BY <2>1, <2>2, HomeOff
<1>2. CASE SessionCleanup
  <2>1. /\ pc = "off" /\ silence' = FALSE
        /\ place' = [s \in Streams |-> IF place[s] = Silence THEN Media ELSE place[s]]
        /\ UNCHANGED <<home, up, coming, stray, origin, toPA, fromPA, pc, sinks, toMove>>
    BY <1>2 DEF SessionCleanup, implVars
  <2>2. toPA = <<>> /\ fromPA = <<>> BY <2>1 DEF StepInv, Idle
  <2>3. \A S : NoneOf(toPA', S) /\ NoneOf(fromPA', S) BY <2>1, <2>2, NoneInNothing
  <2>4. LastInLine' BY <2>1, <2>2 DEF LastInLine
  <2>5. Covered' BY <1>n, <2>1, <2>3 DEF Covered, NoneOf
  <2>6. NoOrigin' /\ HomeKnown' BY <2>1 DEF HomeInv, NoOrigin, HomeKnown
  <2>7. \A s \in Streams : origin'[s] = None BY <2>1 DEF HomeInv, NoOrigin
  <2>8. NewOnes' BY <2>3, <2>7 DEF NewOnes, Clean, NoneOf
  <2>9. OverOnes' BY <2>3 DEF OverOnes, NoneOf
  <2>10. GoodOnes'
    <3> SUFFICES ASSUME NEW s \in Streams, Good(s)' PROVE GoodOne(s)' BY DEF GoodOnes
    <3>1. Good(s)
      <4>1. CASE place[s] = Silence BY <1>n, <2>1, <4>1, SinksAssumption DEF Good, Playing
      <4>2. CASE place[s] # Silence BY <2>1, <4>2 DEF Good, Playing
      <4> QED BY <4>1, <4>2
    <3>2. GoodOne(s) /\ home[s] \in Outputs /\ origin[s] = None BY <1>0, <2>1, <3>1 DEF HomeInv, GoodOnes, Good, NoOrigin
    <3>3. place[s] = home[s] BY <1>n, <3>2 DEF GoodOne, Seen
    <3>4. place'[s] = home'[s] BY <1>n, <2>1, <3>2, <3>3
    <3> QED BY <2>3, <2>7, <3>4 DEF GoodOne, Seen, NoneOf
  <2>11. Returning' /\ Returned' BY <2>1 DEF Returning, Returned
  <2> QED BY <2>4, <2>5, <2>6, <2>8, <2>9, <2>10, <2>11 DEF HomeInv
<1>3. CASE \E m \in Routes : Start(m)
  <2>1. PICK m \in Routes : Start(m) BY <1>3
  <2> DEFINE op == IF m = "direct" THEN "unload" ELSE "load"
  <2>2. /\ pc = "off" /\ Step(op, None, None, "silence")
        /\ UNCHANGED <<place, home, up, coming, silence, stray, origin, fromPA, sinks>>
    BY <2>1 DEF Start, histVars
  <2>3. op \in {"load", "unload"} OBVIOUS
  <2> HIDE DEF op
  <2>4. Request(op, None, None) \in Requests BY <2>3, RequestsAre
  <2>5. pc' = "silence" /\ (LastInLine /\ Covered /\ NoOrigin /\ HomeKnown /\ NewOnes /\ OverOnes /\ GoodOnes)'
    BY <2>2, <2>3, <2>4, HomeStep
  <2> QED BY <2>5 DEF HomeInv, Returning, Returned
<1>4. CASE UNCHANGED audioVars
  BY <1>4 DEF audioVars, paVars, implVars, histVars, HomeInv, LastInLine, Lasting, Covered, NoOrigin, HomeKnown, NewOnes,
    OverOnes, GoodOnes, Clean, NoneOf, Takeaways, Takings, Homings, Views, Overs, GoodOne, Good, Playing, Seen,
    Misled, Misread, Returning, Returned
<1> QED BY <1>1, <1>2, <1>3, <1>4, HomeWorld, HomeServe, HomeDispatch, HomeMain DEF RouteNext

LEMMA HomeHolds == RouteSpec => [](Typed /\ StepInv /\ Silent /\ HomeInv)
<1>1. RouteInit => HomeInv
  <2> SUFFICES ASSUME RouteInit PROVE HomeInv OBVIOUS
  <2>1. /\ place \in [Streams -> {"new", Media} \cup (IF silence THEN {Silence} ELSE {})]
        /\ home = [s \in Streams |-> IF place[s] \in Outputs THEN place[s] ELSE None]
        /\ stray = {s \in Streams : place[s] = Silence} /\ coming = Extra \ up /\ pc = "off"
        /\ toPA = <<>> /\ fromPA = <<>> /\ {Media, Null} \subseteq up
    BY DEF RouteInit
  <2>2. \A s \in Streams : origin[s] = None BY DEF RouteInit
  <2>3. \A S : NoneOf(toPA, S) /\ NoneOf(fromPA, S) BY <2>1, NoneInNothing
  <2>4. /\ Silence \notin Outputs /\ {"new", "over"} \cap (Outputs \cup {Silence}) = {} /\ None \notin Outputs
        /\ Media \in Outputs /\ Extra \subseteq Outputs /\ Media \notin Extra
    BY SinksAssumption DEF Outputs
  <2>5. LastInLine BY <2>1 DEF LastInLine
  <2>6. Covered
    <3>1. ~silence => \A s \in Streams : place[s] \in {"new", Media} BY <2>1
    <3> QED BY <2>3, <2>4, <3>1 DEF Covered
  <2>7. NoOrigin BY <2>2 DEF NoOrigin
  <2>8. \A s \in Streams : place[s] \in {"new", Media, Silence} BY <2>1
  <2>9. \A s \in Streams : home[s] = IF place[s] = Media THEN Media ELSE None BY <2>1, <2>4, <2>8
  <2>10. HomeKnown BY <2>1, <2>4, <2>9 DEF HomeKnown
  <2>11. NewOnes BY <2>2, <2>3 DEF NewOnes, Clean
  <2>12. OverOnes BY <2>3 DEF OverOnes
  <2>13. GoodOnes
    <3> SUFFICES ASSUME NEW s \in Streams, Good(s) PROVE GoodOne(s) BY DEF GoodOnes
    <3>1. place[s] # "new" /\ place[s] # Silence BY <2>1 DEF Good, Playing
    <3>2. place[s] = home[s] BY <2>8, <2>9, <3>1
    <3> QED BY <2>2, <2>3, <3>2 DEF GoodOne, Seen
  <2>14. Returning /\ Returned BY <2>1 DEF Returning, Returned
  <2> QED BY <2>5, <2>6, <2>7, <2>10, <2>11, <2>12, <2>13, <2>14 DEF HomeInv
<1>2. Typed /\ StepInv /\ Silent /\ HomeInv /\ [RouteNext]_audioVars => HomeInv' BY HomeKept
<1> QED BY <1>1, <1>2, SilenceHolds, PTL DEF RouteSpec

\* After a capture the silence sink is gone unless castd was killed over it,
\* and every stream is where others put it last while that output is there:
\* however many streams, outputs and captures, and whatever interleaves with
\* the stop (stopImpl, maybeSilence).
THEOREM StreamsComeHome == RouteSpec => []ReturnsHome
<1>1. Typed /\ Silent /\ HomeInv => ReturnsHome
  <2> SUFFICES ASSUME Typed, Silent, HomeInv, pc = "off" PROVE
        IF silence THEN killed
        ELSE \A s \in Streams \ stray : Playing(s) => place[s] = home[s] \/ home[s] \notin up
    BY DEF ReturnsHome
  <2>1. silence => killed BY DEF Silent
  <2>2. ASSUME ~silence, NEW s \in Streams \ stray, Playing(s), home[s] \in up PROVE place[s] = home[s]
    <3>1. Good(s) BY <2>2 DEF Good
    <3> QED BY <2>2, <3>1, LeavesNoneBehind
  <2> QED BY <2>1, <2>2
<1> QED BY <1>1, HomeHolds, PTL


--------------------------------------------------------------------------------
(* Nothing slips through *)

SomeOf(q, S) == \E i \in DOMAIN q : q[i] \in S

LEMMA SomeLonger ==
  ASSUME NEW T, NEW S, NEW q \in Seq(T), NEW x \in Seq(T)
  PROVE  /\ SomeOf(q, S) => SomeOf(q \o x, S)
         /\ SomeOf(x, S) => SomeOf(q \o x, S)
<1>1. ASSUME NEW i \in DOMAIN q, q[i] \in S PROVE SomeOf(q \o x, S)
  <2>1. i \in DOMAIN (q \o x) /\ (q \o x)[i] = q[i] OBVIOUS
  <2> QED BY <1>1, <2>1 DEF SomeOf
<1>2. ASSUME NEW i \in DOMAIN x, x[i] \in S PROVE SomeOf(q \o x, S)
  <2>1. i + Len(q) \in DOMAIN (q \o x) /\ (q \o x)[i + Len(q)] = x[i] OBVIOUS
  <2> QED BY <1>2, <2>1 DEF SomeOf
<1> QED BY <1>1, <1>2 DEF SomeOf

LEMMA SomeLast ==
  ASSUME NEW T, NEW S, NEW q \in Seq(T), NEW x \in T
  PROVE  /\ SomeOf(q, S) => SomeOf(Append(q, x), S)
         /\ x \in S => SomeOf(Append(q, x), S)
<1>1. <<x>> \in Seq(T) /\ Append(q, x) = q \o <<x>> OBVIOUS
<1>2. x \in S => SomeOf(<<x>>, S) BY DEF SomeOf
<1> QED BY <1>1, <1>2, SomeLonger

LEMMA SomeShorter ==
  ASSUME NEW T, NEW S, NEW q \in Seq(T), q # <<>>, SomeOf(q, S), Head(q) \notin S
  PROVE  SomeOf(Tail(q), S)
<1>1. PICK i \in DOMAIN q : q[i] \in S BY DEF SomeOf
<1>2. i # 1 BY <1>1
<1>3. i - 1 \in DOMAIN Tail(q) /\ Tail(q)[i - 1] = q[i] BY <1>2
<1> QED BY <1>1, <1>3 DEF SomeOf

\* Each of one kind in a queue has one of another kind behind it
Followed(q, S, R) == \A i \in DOMAIN q : q[i] \in S => \E j \in DOMAIN q : i < j /\ q[j] \in R

LEMMA FollowedLonger ==
  ASSUME NEW T, NEW S, NEW R, NEW q \in Seq(T), NEW x \in Seq(T), NoneOf(x, S),
         Followed(q, S, R) \/ SomeOf(x, R)
  PROVE  Followed(q \o x, S, R)
<1> SUFFICES ASSUME NEW i \in DOMAIN (q \o x), (q \o x)[i] \in S
             PROVE  \E j \in DOMAIN (q \o x) : i < j /\ (q \o x)[j] \in R
  BY DEF Followed
<1>1. i \in DOMAIN q /\ q[i] \in S
  <2>1. i \in 1..(Len(q) + Len(x)) OBVIOUS
  <2>2. CASE i <= Len(q) BY <2>1, <2>2
  <2>3. CASE i > Len(q)
    <3>1. i - Len(q) \in DOMAIN x /\ (q \o x)[i] = x[i - Len(q)] BY <2>1, <2>3
    <3> QED BY <3>1 DEF NoneOf
  <2> QED BY <2>1, <2>2, <2>3
<1>2. CASE Followed(q, S, R)
  <2>1. PICK j \in DOMAIN q : i < j /\ q[j] \in R BY <1>1, <1>2 DEF Followed
  <2>2. j \in DOMAIN (q \o x) /\ (q \o x)[j] = q[j] OBVIOUS
  <2> QED BY <2>1, <2>2
<1>3. CASE SomeOf(x, R)
  <2>1. PICK j \in DOMAIN x : x[j] \in R BY <1>3 DEF SomeOf
  <2>2. j + Len(q) \in DOMAIN (q \o x) /\ (q \o x)[j + Len(q)] = x[j] /\ i < j + Len(q) BY <1>1
  <2> QED BY <2>1, <2>2
<1> QED BY <1>2, <1>3

LEMMA FollowedShorter ==
  ASSUME NEW T, NEW S, NEW R, NEW q \in Seq(T), q # <<>>, Followed(q, S, R)
  PROVE  Followed(Tail(q), S, R) /\ (Head(q) \in S => SomeOf(Tail(q), R))
<1>1. ASSUME NEW i \in DOMAIN q, q[i] \in S
      PROVE  \E j \in DOMAIN Tail(q) : i - 1 < j /\ Tail(q)[j] \in R
  <2>1. PICK j \in DOMAIN q : i < j /\ q[j] \in R BY <1>1 DEF Followed
  <2>2. j - 1 \in DOMAIN Tail(q) /\ Tail(q)[j - 1] = q[j] /\ i - 1 < j - 1 BY <2>1
  <2> QED BY <2>1, <2>2
<1>2. ASSUME NEW i \in DOMAIN Tail(q), Tail(q)[i] \in S
      PROVE  \E j \in DOMAIN Tail(q) : i < j /\ Tail(q)[j] \in R
  <2>1. i + 1 \in DOMAIN q /\ q[i + 1] = Tail(q)[i] /\ i \in Nat OBVIOUS
  <2>2. q[i + 1] \in S BY <1>2, <2>1, Zenon
  <2>3. PICK j \in DOMAIN q : i + 1 < j /\ q[j] \in R BY <2>1, <2>2, Zenon DEF Followed
  <2>4. j - 1 \in DOMAIN Tail(q) /\ Tail(q)[j - 1] = q[j] /\ i < j - 1 BY <2>1, <2>3
  <2> QED BY <2>3, <2>4
<1>3. 1 \in DOMAIN q /\ q[1] = Head(q) OBVIOUS
<1>4. Head(q) \in S => SomeOf(Tail(q), R)
  <2>1. Head(q) \in S => \E j \in DOMAIN Tail(q) : Tail(q)[j] \in R BY <1>1, <1>3, Zenon
  <2> QED BY <2>1 DEF SomeOf
<1> QED BY <1>2, <1>4 DEF Followed

\* What makes castd look at a stream, or move it
Looking(s) == {r \in Requests : r.op = "inputs" \/ (r.op \in {"input", "take"} /\ r.stream = s)}
Showing(s) == {m \in Messages : \/ m.what = "change" /\ m.stream = s
                                \/ m.what = "input" /\ m.stream = s /\ m.sink = place[s]
                                \/ m.what = "inputs" /\ m.at[s] = place[s]}
Sweeping == {r \in Requests : r.op = "inputs"}
Swept(s) == {m \in Messages : m.what = "inputs" /\ m.at[s] = Silence}

\* And what tells it of an output
Asking(k) == {r \in Requests : r.op = "sink" /\ r.sink = k}
Reports(k) == {m \in Messages : m.what \in {"output", "sink"} /\ m.sink = k}
Finds(k) == {m \in Messages : m.what = "sink" /\ m.sink = k}
Goings(k) == {m \in Messages : m.what = "gone" /\ m.sink = k}
Mislists(k) == {m \in Messages : m.what = "sinks" /\ ~(k \in m.all <=> k \in up)}
Falsely == {m \in Messages : m.what = "gone" /\ m.sink \notin Extra \ (up \cup coming)}
Wordy == {m \in Messages : m.what \in {"change", "over", "output", "gone", "sink", "input"}}
Looks == {r \in Requests : r.op \in {"input", "sink", "take"}}

\* Before the subscription castd hears nothing but answers, from then on
\* everything
Hears ==
  /\ pc \in {"sweep", "running"} => subscribed /\ listening
  /\ pc = "subscribe" => listening /\ (NoneOf(toPA, Steps) => subscribed)
  /\ pc \in {"off", "silence", "list"} => ~subscribed
  /\ ~subscribed => NoneOf(toPA, Looks) /\ NoneOf(fromPA, Wordy)
Unlisted == pc \in {"off", "silence"} \/ (pc = "list" /\ ~stepDone) => sinks = {}
Listed ==
  pc \in {"list", "subscribe"} /\ ~subscribed => \A k \in Outputs \ late :
    NoneOf(fromPA, Mislists(k)) /\ (pc = "subscribe" \/ stepDone => (k \in sinks <=> k \in up))
KnowsMedia ==
  /\ pc \in {"subscribe", "sweep", "running"} \/ (pc = "list" /\ stepDone) => Media \in sinks
  /\ NoneOf(fromPA, Mislists(Media)) /\ NoneOf(fromPA, Falsely)
Known ==
  subscribed /\ pc \in {"subscribe", "sweep", "running"} => \A k \in Outputs \ late :
    /\ k \in up => k \in sinks \/ SomeOf(toPA, Asking(k)) \/ SomeOf(fromPA, Reports(k))
    /\ k \notin up => /\ k \in sinks => SomeOf(fromPA, Goings(k))
                      /\ Followed(fromPA, Finds(k), Goings(k))
Noticed ==
  pc \in {"sweep", "running"} => \A s \in Streams :
    Playing(s) /\ Takes(s, place[s]) => SomeOf(toPA, Looking(s)) \/ SomeOf(fromPA, Showing(s))
Remembered == \A s \in Streams : place[s] # "over" /\ origin[s] = None => NoneOf(toPA, Takings(s))
Reclaimed ==
  pc \in {"sweep", "running"} /\ routing => \A s \in Streams : place[s] = Silence =>
    origin[s] # None \/ SomeOf(toPA, Sweeping) \/ SomeOf(fromPA, Swept(s))

NoticeInv == Hears /\ Unlisted /\ Listed /\ KnowsMedia /\ Known /\ Noticed /\ Remembered /\ Reclaimed


Changes(s) == {m \in Messages : m.what = "change" /\ m.stream = s}
Snapshots == {m \in Messages : m.what = "inputs" /\ m.at = place}
Sightings(s) == {m \in Messages : m.what = "input" /\ m.stream = s /\ m.sink = place[s]}
Peeks(s) == {r \in Requests : r.op = "input" /\ r.stream = s}

\* PulseAudio answers what castd asked
LEMMA ServeAnswers ==
  ASSUME Typed, Serve
  PROVE  LET r == Head(toPA)
         IN  /\ subscribed' = IF r.op = "subscribe" THEN TRUE ELSE subscribed
             /\ r.op = "inputs" => SomeOf(fromPA', Snapshots)
             /\ r.op = "input" /\ Playing(r.stream) => SomeOf(fromPA', Sightings(r.stream))
             /\ r.op = "sink" /\ r.sink \in up => SomeOf(fromPA', Finds(r.sink))
<1>0. toPA \in Seq(Requests) /\ fromPA \in Seq(Messages) BY DEF Typed, Queues
<1>1. toPA # <<>> /\ Head(toPA) \in Requests BY <1>0 DEF Serve
<1> DEFINE r == Head(toPA)
<1>2. ServeLook(r) \/ ServeSink(r) \/ ServeMove(r) \/ ServeStep(r) BY DEF Serve
<1> HIDE DEF r
<1>3. r \in Requests BY <1>1 DEF r
<1>4. subscribed' = IF r.op = "subscribe" THEN TRUE ELSE subscribed
  <2>1. ServeLook(r) => r.op = "input" /\ subscribed' = subscribed BY DEF ServeLook
  <2>2. ServeSink(r) => r.op = "sink" /\ subscribed' = subscribed BY DEF ServeSink
  <2>3. ServeMove(r) => r.op \in {"take", "home"} /\ subscribed' = subscribed BY DEF ServeMove
  <2>4. ServeStep(r) /\ r.op = "subscribe" => subscribed' = TRUE BY DEF ServeStep
  <2>5. ServeStep(r) /\ r.op # "subscribe" => subscribed' = subscribed BY Zenon DEF ServeStep
  <2> QED BY <1>2, <2>1, <2>2, <2>3, <2>4, <2>5
<1>5. ASSUME r.op = "inputs" PROVE SomeOf(fromPA', Snapshots)
  <2> DEFINE m == [what |-> "inputs", at |-> place]
  <2>1. ~ServeLook(r) /\ ~ServeSink(r) /\ ~ServeMove(r) BY <1>5 DEF ServeLook, ServeSink, ServeMove
  <2>2. r.op # "load" /\ r.op # "unload" /\ r.op # "list" /\ r.op # "subscribe" BY <1>5
  <2>3. fromPA' = Append(fromPA, m) BY <1>2, <2>1, <2>2, Zenon DEF ServeStep
  <2>4. place \in [Streams -> Places] BY DEF Typed, Places1
  <2>5. m \in Messages BY <2>4, AnswersAre
  <2>6. m.what = "inputs" /\ m.at = place OBVIOUS
  <2> HIDE DEF m
  <2>7. m \in Snapshots BY <2>5, <2>6 DEF Snapshots
  <2> QED BY <1>0, <2>3, <2>5, <2>7, SomeLast
<1>6. ASSUME r.op = "input", Playing(r.stream) PROVE SomeOf(fromPA', Sightings(r.stream))
  <2> DEFINE m == Event("input", r.stream, place[r.stream])
  <2>1. ServeLook(r) BY <1>2, <1>6 DEF ServeSink, ServeMove, ServeStep
  <2>2. fromPA' = Append(fromPA, m) BY <1>6, <2>1 DEF ServeLook
  <2>3. r.stream \in Streams /\ place[r.stream] \in Places BY <1>3, <1>6, RequestIs DEF Typed, Places1
  <2>4. m \in Messages BY <1>6, <2>3, EventsAre DEF Playing, Places
  <2>5. m.what = "input" /\ m.stream = r.stream /\ m.sink = place[r.stream] BY DEF Event
  <2> HIDE DEF m
  <2>6. m \in Sightings(r.stream) BY <2>4, <2>5 DEF Sightings
  <2> QED BY <1>0, <2>2, <2>4, <2>6, SomeLast
<1>7. ASSUME r.op = "sink", r.sink \in up PROVE SomeOf(fromPA', Finds(r.sink))
  <2> DEFINE m == Event("sink", None, r.sink)
  <2>1. ServeSink(r) BY <1>2, <1>7 DEF ServeLook, ServeMove, ServeStep
  <2>2. fromPA' = Append(fromPA, m) BY <1>7, <2>1 DEF ServeSink
  <2>3. m \in Messages BY <1>3, <1>7, RequestIs, EventsAre
  <2>4. m.what = "sink" /\ m.sink = r.sink BY DEF Event
  <2> HIDE DEF m
  <2>5. m \in Finds(r.sink) BY <2>3, <2>4 DEF Finds
  <2> QED BY <1>0, <2>2, <2>3, <2>5, SomeLast
<1> QED BY <1>4, <1>5, <1>6, <1>7 DEF r

\* castd looks at what it is told of
LEMMA DispatchLooks ==
  ASSUME Typed, Dispatch
  PROVE  LET m == Head(fromPA)
         IN  /\ listening /\ m.what = "change" => SomeOf(toPA', Peeks(m.stream))
             /\ listening /\ m.what = "output" => SomeOf(toPA', Asking(m.sink))
             /\ \A s \in Streams : \A k : Shows(m, s, k) /\ Takes(s, k) => SomeOf(toPA', Takings(s))
             /\ \A s \in Streams : Shows(m, s, Silence) /\ Leftover(s, Silence) => origin'[s] = Media
             /\ \A S : SomeOf(toPA, S) => SomeOf(toPA', S)
             /\ sinks' = CASE m.what = "sink" -> sinks \cup {m.sink}
                           [] m.what = "sinks" -> sinks \cup m.all
                           [] m.what = "gone" /\ listening -> sinks \ {m.sink}
                           [] OTHER -> sinks
<1>0. toPA \in Seq(Requests) /\ fromPA \in Seq(Messages) BY DEF Typed, Queues
<1> DEFINE m == Head(fromPA)
<1>1. m \in Messages BY <1>0 DEF Dispatch
<1>2. SeesEvent(m) \/ SeesInput(m) \/ SeesInputs(m) \/ SeesSinks(m) \/ SeesAnswer(m) BY DEF Dispatch
<1>3. PICK y \in Seq(Requests) : toPA' = toPA \o y BY DispatchDoes
<1> HIDE DEF m
<1>4. \A S : SomeOf(toPA, S) => SomeOf(toPA', S) BY <1>0, <1>3, SomeLonger
<1>5. ASSUME listening, m.what = "change" PROVE SomeOf(toPA', Peeks(m.stream))
  <2> DEFINE r == Request("input", m.stream, None)
  <2>1. SeesEvent(m) BY <1>2, <1>5 DEF SeesInput, SeesInputs, SeesSinks, SeesAnswer
  <2>2. toPA' = Append(toPA, r) BY <1>5, <2>1 DEF SeesEvent
  <2>3. r \in Requests BY <1>1, <1>5, MessageIs, RequestsAre
  <2>4. r.op = "input" /\ r.stream = m.stream BY DEF Request
  <2> HIDE DEF r
  <2>5. r \in Peeks(m.stream) BY <2>3, <2>4 DEF Peeks
  <2> QED BY <1>0, <2>2, <2>3, <2>5, SomeLast
<1>6. ASSUME listening, m.what = "output" PROVE SomeOf(toPA', Asking(m.sink))
  <2> DEFINE r == Request("sink", None, m.sink)
  <2>1. SeesEvent(m) BY <1>2, <1>6 DEF SeesInput, SeesInputs, SeesSinks, SeesAnswer
  <2>2. toPA' = Append(toPA, r) BY <1>6, <2>1 DEF SeesEvent
  <2>3. r \in Requests BY <1>1, <1>6, MessageIs, RequestsAre
  <2>4. r.op = "sink" /\ r.sink = m.sink BY DEF Request
  <2> HIDE DEF r
  <2>5. r \in Asking(m.sink) BY <2>3, <2>4 DEF Asking
  <2> QED BY <1>0, <2>2, <2>3, <2>5, SomeLast
<1>7. ASSUME NEW S \in SUBSET Streams, NEW at, MaybeSilence(S, at), NEW s \in S
      PROVE  /\ Takes(s, at[s]) => SomeOf(toPA', Takings(s))
             /\ ~Takes(s, at[s]) /\ Leftover(s, at[s]) => origin'[s] = Media
  <2> DEFINE taken == {t \in S : Takes(t, at[t])}
             q == SetToSeq({Request("take", t, Silence) : t \in taken})
  <2>1. /\ toPA' = toPA \o q
        /\ origin' = [t \in Streams |-> IF t \in taken THEN at[t]
                                        ELSE IF t \in S /\ Leftover(t, at[t]) THEN Media
                                        ELSE origin[t]]
    BY <1>7, Zenon DEF MaybeSilence
  <2>2. taken \in SUBSET Streams /\ (s \in taken <=> Takes(s, at[s])) OBVIOUS
  <2>3. q \in Seq(Requests) BY <2>2, TakesTyped
  <2>4. \A t \in taken : \E i \in DOMAIN q : q[i] = Request("take", t, Silence) BY <2>2, TakesOf
  <2> HIDE DEF taken, q
  <2>5. ASSUME Takes(s, at[s]) PROVE SomeOf(toPA', Takings(s))
    <3>1. PICK i \in DOMAIN q : q[i] = Request("take", s, Silence) BY <2>2, <2>4, <2>5
    <3>2. q[i] \in Takings(s) BY <3>1, RequestsAre DEF Takings, Request
    <3>3. SomeOf(q, Takings(s)) BY <3>2 DEF SomeOf
    <3> QED BY <1>0, <2>1, <2>3, <3>3, SomeLonger
  <2> QED BY <2>1, <2>2, <2>5
<1>8. ASSUME NEW s \in Streams, NEW k, Shows(m, s, k)
      PROVE  /\ Takes(s, k) => SomeOf(toPA', Takings(s))
             /\ ~Takes(s, k) /\ Leftover(s, k) => origin'[s] = Media
  <2>1. CASE m.what = "input" /\ m.stream = s /\ m.sink = k
    <3> DEFINE at == [t \in {m.stream} |-> m.sink]
    <3>1. SeesInput(m) BY <1>2, <2>1 DEF SeesEvent, SeesInputs, SeesSinks, SeesAnswer
    <3>2. MaybeSilence({m.stream}, at) BY <3>1, Zenon DEF SeesInput
    <3>3. at[s] = k /\ {m.stream} \in SUBSET Streams /\ s \in {m.stream} BY <2>1
    <3> HIDE DEF at
    <3> QED BY <1>7, <3>2, <3>3
  <2>2. CASE m.what = "inputs" /\ m.at[s] = k /\ k \notin {"new", "over"}
    <3> DEFINE S == {t \in Streams : m.at[t] \notin {"new", "over"}}
    <3>1. SeesInputs(m) BY <1>2, <2>2 DEF SeesEvent, SeesInput, SeesSinks, SeesAnswer
    <3>2. MaybeSilence(S, m.at) BY <3>1, Zenon DEF SeesInputs
    <3>3. S \in SUBSET Streams /\ s \in S BY <2>2
    <3> HIDE DEF S
    <3> QED BY <1>7, <2>2, <3>2, <3>3
  <2> QED BY <1>8, <2>1, <2>2 DEF Shows
<1>9. \A s \in Streams : ~Takes(s, Silence) BY DEF Takes
<1>10. sinks' = CASE m.what = "sink" -> sinks \cup {m.sink}
                  [] m.what = "sinks" -> sinks \cup m.all
                  [] m.what = "gone" /\ listening -> sinks \ {m.sink}
                  [] OTHER -> sinks
  <2>1. CASE SeesEvent(m) BY <2>1 DEF SeesEvent
  <2>2. CASE SeesInput(m) \/ SeesInputs(m) \/ SeesAnswer(m) BY <2>2 DEF SeesInput, SeesInputs, SeesAnswer
  <2>3. CASE SeesSinks(m) BY <2>3 DEF SeesSinks
  <2> QED BY <1>2, <2>1, <2>2, <2>3
<1> QED BY <1>4, <1>5, <1>6, <1>8, <1>9, <1>10 DEF m

\* Every change of the world is told to castd once it listens, and before
\* that it is counted among the late ones
LEMMA WorldIsTold ==
  ASSUME Typed, World
  PROVE  /\ late \subseteq late' /\ coming' \subseteq coming
         /\ \A k \in Outputs \ late' : pc \in {"list", "subscribe"} /\ ~subscribed => (k \in up <=> k \in up')
         /\ \A k \in Extra : k \notin up \cup coming => k \notin up' \cup coming'
         /\ Media \in up /\ Media \in up'
         /\ \E x \in Seq(Messages) :
              /\ fromPA' = fromPA \o x
              /\ ~Told => x = <<>>
              /\ \A i \in DOMAIN x : /\ x[i].what \in {"change", "over", "output", "gone"}
                                     /\ x[i].what = "gone" => x[i].sink \in Extra \ (up' \cup coming')
              /\ Told => /\ \A k \in up \ up' : SomeOf(x, Goings(k))
                         /\ \A k \in up' \ up : SomeOf(x, Reports(k))
                         /\ \A s \in Streams : place'[s] # place[s] /\ place'[s] # "over" => SomeOf(x, Changes(s))
<1>0. /\ fromPA \in Seq(Messages) /\ place \in [Streams -> Places] /\ up \subseteq Outputs /\ Media \in up
      /\ coming \subseteq Extra \ up /\ late \subseteq Extra
  BY DEF Typed, Queues, Places1, Outs
<1>m. Media \notin Extra BY SinksAssumption
<1> DEFINE News(x) ==
             /\ fromPA' = fromPA \o x
             /\ ~Told => x = <<>>
             /\ \A i \in DOMAIN x : /\ x[i].what \in {"change", "over", "output", "gone"}
                                    /\ x[i].what = "gone" => x[i].sink \in Extra \ (up' \cup coming')
             /\ Told => /\ \A k \in up \ up' : SomeOf(x, Goings(k))
                        /\ \A k \in up' \ up : SomeOf(x, Reports(k))
                        /\ \A s \in Streams : place'[s] # place[s] /\ place'[s] # "over" => SomeOf(x, Changes(s))
<1>1. ASSUME NEW S \in SUBSET Streams, NEW what \in {"change", "over"}
      PROVE  /\ ToldOf(S, what) \in Seq(Messages) /\ (~Told => ToldOf(S, what) = <<>>)
             /\ \A i \in DOMAIN ToldOf(S, what) : ToldOf(S, what)[i].what = what
             /\ Told /\ what = "change" => \A s \in S : SomeOf(ToldOf(S, what), Changes(s))
  <2> DEFINE q == ToldOf(S, what)
  <2>1. q \in Seq({Event(what, s, None) : s \in S}) BY TellsOf
  <2>2. Told => \A s \in S : \E i \in DOMAIN q : q[i] = Event(what, s, None) BY TellsOf
  <2>3. q \in Seq(Messages) BY TellsTyped
  <2>4. ~Told => q = <<>> BY DEF ToldOf
  <2> HIDE DEF q
  <2>5. \A i \in DOMAIN q : q[i].what = what BY <2>1 DEF Event
  <2>6. ASSUME Told, what = "change", NEW s \in S PROVE SomeOf(q, Changes(s))
    <3>1. PICK i \in DOMAIN q : q[i] = Event(what, s, None) BY <2>2, <2>6
    <3>2. q[i] \in Changes(s) BY <2>6, <3>1, EventsAre DEF Changes, Event
    <3> QED BY <3>2 DEF SomeOf
  <2> QED BY <2>3, <2>4, <2>5, <2>6 DEF q
<1>2. CASE \E s \in Streams : StreamEnds(s) \/ \E k \in Outputs : StreamStarts(s, k) \/ StreamMoved(s, k)
  <2>1. \E s \in Streams : \E what \in {"change", "over"} : \E k \in Outputs \cup {"over"} :
          /\ fromPA' = fromPA \o ToldOf({s}, what) /\ (what = "over" <=> k = "over")
          /\ place' = [place EXCEPT ![s] = k]
    <3>n. {"new", "over"} \cap Outputs = {} BY SinksAssumption
    <3>1. ASSUME NEW s \in Streams, StreamEnds(s)
          PROVE  fromPA' = fromPA \o ToldOf({s}, "over") /\ place' = [place EXCEPT ![s] = "over"]
      BY <3>1, Zenon DEF StreamEnds
    <3>2. ASSUME NEW s \in Streams, NEW k \in Outputs, StreamStarts(s, k) \/ StreamMoved(s, k)
          PROVE  fromPA' = fromPA \o ToldOf({s}, "change") /\ place' = [place EXCEPT ![s] = k]
      BY <3>2, Zenon DEF StreamStarts, StreamMoved
    <3>3. CASE \E s \in Streams : StreamEnds(s) BY <3>1, <3>3
    <3>4. CASE \E s \in Streams : \E k \in Outputs : StreamStarts(s, k) \/ StreamMoved(s, k)
      <4>1. PICK s \in Streams, k \in Outputs : StreamStarts(s, k) \/ StreamMoved(s, k) BY <3>4
      <4>2. fromPA' = fromPA \o ToldOf({s}, "change") /\ place' = [place EXCEPT ![s] = k] BY <3>2, <4>1
      <4>3. k # "over" /\ "change" # "over" BY <3>n
      <4> QED BY <4>2, <4>3
    <3> QED BY <1>2, <3>3, <3>4
  <2>2. PICK s \in Streams, what \in {"change", "over"}, k \in Outputs \cup {"over"} :
          /\ fromPA' = fromPA \o ToldOf({s}, what) /\ (what = "over" <=> k = "over")
          /\ place' = [place EXCEPT ![s] = k]
    BY <2>1
  <2>3. UNCHANGED <<up, coming, late>> BY <1>2 DEF StreamEnds, StreamStarts, StreamMoved
  <2> DEFINE x == ToldOf({s}, what)
  <2>4. {s} \in SUBSET Streams OBVIOUS
  <2>5. /\ x \in Seq(Messages) /\ (~Told => x = <<>>) /\ \A i \in DOMAIN x : x[i].what = what
        /\ Told /\ what = "change" => SomeOf(x, Changes(s))
    BY <1>1, <2>4
  <2>6. fromPA' = fromPA \o x BY <2>2
  <2> HIDE DEF x
  <2>7. \A t \in Streams : place'[t] # place[t] /\ place'[t] # "over" => t = s /\ what = "change"
    BY <1>0, <2>2
  <2>8. News(x) BY <2>3, <2>5, <2>6, <2>7
  <2> QED BY <1>0, <2>3, <2>5, <2>8
<1>3. CASE \E k \in Extra : SinkComes(k)
  <2>1. PICK k \in Extra : SinkComes(k) BY <1>3
  <2> DEFINE e == Event("output", None, k)
             x == IF Told THEN <<e>> ELSE <<>>
  <2>2. /\ k \in coming /\ coming' = coming \ {k} /\ up' = up \cup {k} /\ place' = place
        /\ fromPA' = IF Told THEN Append(fromPA, e) ELSE fromPA
        /\ late' = IF pc \in {"list", "subscribe"} /\ ~subscribed THEN late \cup {k} ELSE late
    BY <2>1, Zenon DEF SinkComes, Unnoticed
  <2>3. k \in Outputs BY DEF Outputs
  <2>4. e \in Messages /\ e.what = "output" /\ e.sink = k BY <2>3, EventsAre DEF Event
  <2> HIDE DEF e
  <2>5. e \in Reports(k) /\ <<e>> \in Seq(Messages) BY <2>4 DEF Reports
  <2>6. SomeOf(<<e>>, Reports(k)) BY <2>5 DEF SomeOf
  <2>7. x \in Seq(Messages) /\ fromPA' = fromPA \o x BY <1>0, <2>2, <2>4, <2>5
  <2>8. \A i \in DOMAIN x : x[i].what = "output" BY <2>4
  <2>9. (~Told => x = <<>>) /\ (Told => SomeOf(x, Reports(k))) BY <2>6
  <2> HIDE DEF x
  <2>10. up \ up' = {} /\ up' \ up \subseteq {k} BY <2>2
  <2>11. News(x) BY <2>2, <2>7, <2>8, <2>9, <2>10
  <2> QED BY <1>0, <2>2, <2>7, <2>11
<1>4. CASE \E k \in Extra : SinkGoes(k)
  <2>1. PICK k \in Extra : SinkGoes(k) BY <1>4
  <2> DEFINE e == Event("gone", None, k)
             S == {s \in Streams : place[s] = k}
             q == ToldOf(S, "change")
             z == IF Told THEN <<e>> ELSE <<>>
             x == q \o z
  <2>2. /\ k \in up /\ up' = up \ {k} /\ coming' = coming
        /\ place' = [s \in Streams |-> IF s \in S THEN Null ELSE place[s]]
        /\ fromPA' = fromPA \o q \o z
        /\ late' = IF pc \in {"list", "subscribe"} /\ ~subscribed THEN late \cup {k} ELSE late
    BY <2>1, Zenon DEF SinkGoes, Unnoticed
  <2>3. k \in Outputs /\ S \in SUBSET Streams /\ k # Media BY <1>m DEF Outputs
  <2>4. e \in Messages /\ e.what = "gone" /\ e.sink = k BY <2>3, EventsAre DEF Event
  <2> HIDE DEF e, S
  <2>5. /\ q \in Seq(Messages) /\ (~Told => q = <<>>) /\ \A i \in DOMAIN q : q[i].what = "change"
        /\ Told => \A s \in S : SomeOf(q, Changes(s))
    BY <1>1, <2>3
  <2>6. e \in Goings(k) /\ <<e>> \in Seq(Messages) BY <2>4 DEF Goings
  <2>7. z \in Seq(Messages) /\ \A i \in DOMAIN z : z[i] = e BY <2>6
  <2>8. Told => SomeOf(z, Goings(k)) BY <2>6 DEF SomeOf
  <2>9. ~Told => z = <<>> OBVIOUS
  <2> HIDE DEF q, z
  <2>10. x \in Seq(Messages) /\ fromPA' = fromPA \o x BY <1>0, <2>2, <2>5, <2>7
  <2>11. ~Told => x = <<>> BY <2>5, <2>9
  <2>12. Told => SomeOf(x, Goings(k)) /\ \A s \in S : SomeOf(x, Changes(s)) BY <2>5, <2>7, <2>8, SomeLonger
  <2>13. \A i \in DOMAIN x : x[i].what \in {"change", "gone"} /\ (x[i].what = "gone" => x[i].sink = k)
    BY <2>4, <2>5, <2>7
  <2> HIDE DEF x
  <2>14. up' \ up = {} /\ up \ up' \subseteq {k} /\ k \in Extra \ (up' \cup coming') BY <1>0, <2>2
  <2>15. \A s \in Streams : place'[s] # place[s] => s \in S BY <1>0, <2>2
  <2>16. News(x) BY <2>10, <2>11, <2>12, <2>13, <2>14, <2>15
  <2> QED BY <1>0, <1>m, <2>2, <2>3, <2>10, <2>16
<1> QED BY <1>2, <1>3, <1>4 DEF World


LEMMA SomeFewer ==
  ASSUME NEW q, NEW S, NEW R, SomeOf(q, S), S \subseteq R PROVE SomeOf(q, R)
BY DEF SomeOf

LEMMA NoneIsNotSome == \A q, S : NoneOf(q, S) <=> ~SomeOf(q, S)
BY DEF NoneOf, SomeOf

LEMMA NoticeServe == ASSUME Typed, StepInv, Silent, HomeInv, NoticeInv, Serve PROVE NoticeInv'
<1>0. /\ toPA \in Seq(Requests) /\ fromPA \in Seq(Messages) /\ place \in [Streams -> Places]
      /\ up \subseteq Outputs /\ Media \in up
  BY DEF Typed, Queues, Places1, Outs
<1> DEFINE r == Head(toPA)
<1>1. r \in Requests /\ toPA # <<>> /\ toPA' = Tail(toPA) BY <1>0 DEF Serve
<1>2. PICK x \in Seq(Truths) : fromPA' = fromPA \o x BY ServeTruths
<1>3. UNCHANGED <<pc, stepDone, mode, routing, sinks, origin, listening, up, coming, late>> BY DEF Serve, implVars
<1>4. \A s \in Streams :
        IF r.op \in {"take", "home"} /\ r.stream = s /\ Playing(s) /\ r.sink \in up \cup {Silence}
        THEN place'[s] = r.sink
        ELSE IF r.op = "unload" /\ place[s] = Silence THEN place'[s] = Null ELSE place'[s] = place[s]
  BY ServePlaces
<1>5. r \in Steps => r.op \in Asked BY ServedIsAsked
<1>6. /\ subscribed' = IF r.op = "subscribe" THEN TRUE ELSE subscribed
      /\ r.op = "inputs" => SomeOf(fromPA', Snapshots)
      /\ r.op = "input" /\ Playing(r.stream) => SomeOf(fromPA', Sightings(r.stream))
      /\ r.op = "sink" /\ r.sink \in up => SomeOf(fromPA', Finds(r.sink))
  BY ServeAnswers
<1>a. x \in Seq(Messages) /\ \A i \in DOMAIN x : x[i] \in Truths BY DEF Truths
<1>7. ASSUME NEW S, NoneOf(toPA, S) PROVE NoneOf(toPA', S) /\ r \notin S
  BY <1>0, <1>1, <1>7, NoneShorter
<1>8. ASSUME NEW S, S \cap Truths = {} PROVE NoneOf(x, S) /\ (NoneOf(fromPA, S) => NoneOf(fromPA', S))
  <2>1. NoneOf(x, S) BY <1>a, <1>8 DEF NoneOf
  <2> QED BY <1>0, <1>2, <1>a, <2>1, NoneLonger
<1>9. ASSUME NEW S, SomeOf(toPA, S), r \notin S PROVE SomeOf(toPA', S)
  BY <1>0, <1>1, <1>9, SomeShorter
<1>10. ASSUME NEW S, SomeOf(fromPA, S) PROVE SomeOf(fromPA', S)
  BY <1>0, <1>2, <1>a, <1>10, SomeLonger
<1>b. r \notin Steps /\ NoneOf(toPA', Steps) => NoneOf(toPA, Steps) BY <1>0, <1>1, NoneWhole
<1>c. \A m \in Truths : /\ m.what = "sink" => r.op = "sink"
                        /\ m.what = "input" => r.op = "input"
  BY DEF Truths
<1> HIDE DEF r
<1>11. /\ r.op = "take" => r.sink = Silence
       /\ r.op \in {"load", "unload", "list", "subscribe", "inputs", "home"} <=> r \in Steps
       /\ r.op \in {"input", "take", "home"} => r.stream \in Streams
  BY <1>1, RequestIs DEF Steps
<1>12. pc # "off" BY <1>1 DEF StepInv, Idle
<1>13. \A k \in Outputs : Mislists(k) \cap Truths = {} BY DEF Mislists, Truths
<1>14. Hears'
  <2>1. pc \in {"sweep", "running"} => subscribed' /\ listening BY <1>6 DEF NoticeInv, Hears
  <2>2. pc = "subscribe" => listening /\ (NoneOf(toPA', Steps) => subscribed')
    <3> SUFFICES ASSUME pc = "subscribe", NoneOf(toPA', Steps) PROVE listening /\ subscribed'
      BY DEF NoticeInv, Hears
    <3>1. CASE r \in Steps BY <1>5, <1>6, <3>1 DEF Asked, NoticeInv, Hears
    <3>2. CASE r \notin Steps BY <1>b, <1>6, <3>2 DEF NoticeInv, Hears
    <3> QED BY <3>1, <3>2
  <2>3. pc \in {"silence", "list"} => ~subscribed'
    <3>1. pc \in {"silence", "list"} => r.op # "subscribe" BY <1>5, <1>11 DEF Asked
    <3> QED BY <1>6, <3>1 DEF NoticeInv, Hears
  <2>4. ~subscribed' => NoneOf(toPA', Looks) /\ NoneOf(fromPA', Wordy)
    <3> SUFFICES ASSUME ~subscribed' PROVE NoneOf(toPA', Looks) /\ NoneOf(fromPA', Wordy) OBVIOUS
    <3>1. ~subscribed /\ NoneOf(toPA, Looks) /\ NoneOf(fromPA, Wordy) BY <1>6 DEF NoticeInv, Hears
    <3>2. NoneOf(toPA', Looks) /\ r \notin Looks BY <1>7, <3>1
    <3>3. r.op \notin {"input", "sink"} BY <1>1, <3>2 DEF Looks
    <3>4. ~Told BY <3>1 DEF Told
    <3>5. Wordy \cap Truths = {} BY <1>c, <3>3, <3>4 DEF Wordy, Truths
    <3> QED BY <1>8, <3>1, <3>2, <3>5
  <2> QED BY <1>3, <1>12, <2>1, <2>2, <2>3, <2>4 DEF Hears, NoneOf, Steps, Looks, Wordy
<1>15. Unlisted' BY <1>3 DEF NoticeInv, Unlisted
<1>16. Listed'
  <2> SUFFICES ASSUME pc \in {"list", "subscribe"}, ~subscribed', NEW k \in Outputs \ late
               PROVE  NoneOf(fromPA', Mislists(k)) /\ (pc = "subscribe" \/ stepDone => (k \in sinks <=> k \in up))
    BY <1>3 DEF Listed, NoneOf, Mislists
  <2>1. ~subscribed BY <1>6
  <2> QED BY <1>8, <1>13, <2>1 DEF NoticeInv, Listed
<1>17. KnowsMedia'
  <2>1. NoneOf(fromPA', Mislists(Media)) BY <1>0, <1>8, <1>13 DEF NoticeInv, KnowsMedia
  <2>2. Falsely \cap Truths = {} BY DEF Falsely, Truths
  <2>3. NoneOf(fromPA', Falsely) BY <1>8, <2>2 DEF NoticeInv, KnowsMedia
  <2> QED BY <1>3, <2>1, <2>3 DEF NoticeInv, KnowsMedia, NoneOf, Mislists, Falsely
<1>18. Known'
  <2> SUFFICES ASSUME subscribed', pc \in {"subscribe", "sweep", "running"}, NEW k \in Outputs \ late
               PROVE  /\ k \in up => k \in sinks \/ SomeOf(toPA', Asking(k)) \/ SomeOf(fromPA', Reports(k))
                      /\ k \notin up => /\ k \in sinks => SomeOf(fromPA', Goings(k))
                                        /\ Followed(fromPA', Finds(k), Goings(k))
    BY <1>3 DEF Known, SomeOf, Followed, Asking, Reports, Finds, Goings
  <2>1. k \notin up => Finds(k) \cap Truths = {} BY DEF Finds, Truths
  <2>2. k \notin up => NoneOf(x, Finds(k)) BY <1>8, <2>1
  <2>3. CASE subscribed
    <3>1. /\ k \in up => k \in sinks \/ SomeOf(toPA, Asking(k)) \/ SomeOf(fromPA, Reports(k))
          /\ k \notin up => /\ k \in sinks => SomeOf(fromPA, Goings(k))
                            /\ Followed(fromPA, Finds(k), Goings(k))
      BY <2>3 DEF NoticeInv, Known
    <3>2. k \in up /\ r \in Asking(k) => SomeOf(fromPA', Reports(k))
      <4>1. Finds(k) \subseteq Reports(k) BY DEF Finds, Reports
      <4>2. k \in up /\ r \in Asking(k) => SomeOf(fromPA', Finds(k)) BY <1>6 DEF Asking
      <4> QED BY <4>1, <4>2, SomeFewer
    <3>3. k \in up => k \in sinks \/ SomeOf(toPA', Asking(k)) \/ SomeOf(fromPA', Reports(k))
      BY <1>9, <1>10, <3>1, <3>2
    <3>4. k \notin up => Followed(fromPA', Finds(k), Goings(k))
      BY <1>0, <1>2, <1>a, <2>2, <3>1, FollowedLonger
    <3> QED BY <1>10, <3>1, <3>3, <3>4
  <2>4. CASE ~subscribed
    <3>1. r.op = "subscribe" BY <1>6, <2>4
    <3>2. pc = "subscribe" BY <1>5, <1>11, <3>1 DEF Asked
    <3>3. k \in sinks <=> k \in up BY <2>4, <3>2 DEF NoticeInv, Listed
    <3>4. NoneOf(fromPA, Wordy) BY <2>4 DEF NoticeInv, Hears
    <3>5. Followed(fromPA, Finds(k), Goings(k)) BY <3>4 DEF Followed, NoneOf, Finds, Wordy
    <3>6. k \notin up => Followed(fromPA', Finds(k), Goings(k))
      BY <1>0, <1>2, <1>a, <2>2, <3>5, FollowedLonger
    <3> QED BY <3>3, <3>6
  <2> QED BY <2>3, <2>4
<1>19. \A s \in Streams : pc \in {"sweep", "running"} /\ place'[s] # place[s] =>
         r.op = "take" /\ r.stream = s /\ place'[s] = Silence /\ Playing(s)
  <2>1. pc \in {"sweep", "running"} => r.op \notin {"home", "unload"} BY <1>5, <1>11 DEF Asked
  <2> QED BY <1>4, <1>11, <2>1
<1>20. Noticed'
  <2> SUFFICES ASSUME pc \in {"sweep", "running"}, NEW s \in Streams, Playing(s)', Takes(s, place[s])'
               PROVE  SomeOf(toPA', Looking(s)) \/ SomeOf(fromPA', Showing(s)')
    BY <1>3 DEF Noticed, SomeOf, Looking
  <2>1. place'[s] # Silence BY DEF Takes
  <2>2. place'[s] = place[s] BY <1>19, <2>1
  <2>3. Playing(s) /\ Takes(s, place[s]) /\ Showing(s)' = Showing(s)
    BY <1>3, <2>2 DEF Playing, Takes, Showing
  <2>4. SomeOf(toPA, Looking(s)) \/ SomeOf(fromPA, Showing(s)) BY <2>3 DEF NoticeInv, Noticed
  <2>5. CASE r \notin Looking(s) BY <1>9, <1>10, <2>3, <2>4, <2>5
  <2>6. CASE r \in Looking(s)
    <3>1. CASE r.op = "inputs"
      <4>1. Snapshots \subseteq Showing(s) BY DEF Snapshots, Showing
      <4>2. SomeOf(fromPA', Showing(s)) BY <1>6, <3>1, <4>1, SomeFewer
      <4> QED BY <2>3, <4>2
    <3>2. CASE r.op = "input" /\ r.stream = s
      <4>1. Sightings(s) \subseteq Showing(s) BY DEF Sightings, Showing
      <4>2. SomeOf(fromPA', Sightings(s)) BY <1>6, <2>3, <3>2
      <4>3. SomeOf(fromPA', Showing(s)) BY <4>1, <4>2, SomeFewer
      <4> QED BY <2>3, <4>3
    <3>3. CASE r.op = "take" /\ r.stream = s
      <4>1. place'[s] = Silence BY <1>4, <1>11, <2>3, <3>3
      <4> QED BY <2>1, <4>1
    <3> QED BY <2>6, <3>1, <3>2, <3>3 DEF Looking
  <2> QED BY <2>5, <2>6
<1>21. \A s \in Streams : place[s] = "over" => place'[s] = "over"
  <2>1. Silence # "over" BY SinksAssumption
  <2> QED BY <1>4, <2>1 DEF Playing
<1>22. Remembered'
  <2> SUFFICES ASSUME NEW s \in Streams, place'[s] # "over", origin[s] = None PROVE NoneOf(toPA', Takings(s))
    BY <1>3 DEF Remembered, NoneOf, Takings
  <2>1. place[s] # "over" BY <1>21
  <2> QED BY <1>7, <2>1 DEF NoticeInv, Remembered
<1>23. Reclaimed'
  <2> SUFFICES ASSUME pc \in {"sweep", "running"}, routing, NEW s \in Streams, place'[s] = Silence, origin[s] = None
               PROVE  SomeOf(toPA', Sweeping) \/ SomeOf(fromPA', Swept(s))
    BY <1>3 DEF Reclaimed, SomeOf, Sweeping, Swept
  <2>1. place[s] = Silence
    <3> SUFFICES ASSUME place'[s] # place[s] PROVE FALSE OBVIOUS
    <3>1. r.op = "take" /\ r.stream = s /\ place[s] # "over" BY <1>19 DEF Playing
    <3>2. NoneOf(toPA, Takings(s)) BY <3>1 DEF NoticeInv, Remembered
    <3>3. r \notin Takings(s) BY <1>7, <3>2
    <3> QED BY <1>1, <3>1, <3>3 DEF Takings
  <2>2. SomeOf(toPA, Sweeping) \/ SomeOf(fromPA, Swept(s)) BY <2>1 DEF NoticeInv, Reclaimed
  <2>3. CASE r \in Sweeping
    <3>1. Snapshots \subseteq Swept(s) BY <2>1 DEF Snapshots, Swept
    <3>2. SomeOf(fromPA', Snapshots) BY <1>6, <2>3 DEF Sweeping
    <3> QED BY <3>1, <3>2, SomeFewer
  <2>4. CASE r \notin Sweeping BY <1>9, <1>10, <2>2, <2>4
  <2> QED BY <2>3, <2>4
<1> QED BY <1>14, <1>15, <1>16, <1>17, <1>18, <1>20, <1>22, <1>23 DEF NoticeInv


LEMMA NoticeDispatch == ASSUME Typed, StepInv, Silent, HomeInv, NoticeInv, Dispatch PROVE NoticeInv'
<1>0. /\ toPA \in Seq(Requests) /\ fromPA \in Seq(Messages) /\ place \in [Streams -> Places]
      /\ origin \in [Streams -> Outputs \cup {None}] /\ up \subseteq Outputs /\ Media \in up
      /\ pc \in {"off", "running"} \cup Starting \cup Stopping
  BY DEF Typed, Queues, Places1, Outs, Origins, At
<1>n. /\ Silence \notin Outputs /\ None \notin Outputs \cup {Silence} /\ Media \in Outputs /\ Media \notin Extra
      /\ Silence # "over"
  BY SinksAssumption DEF Outputs
<1> DEFINE m == Head(fromPA)
<1>1. /\ fromPA # <<>> /\ fromPA' = Tail(fromPA) /\ m \in Messages
      /\ stepDone' = IF m \in Answers THEN TRUE ELSE stepDone
  BY DispatchDoes
<1>2. UNCHANGED <<place, up, silence, subscribed, pc, mode, routing, listening, coming, late>> BY DEF Dispatch
<1>3. \E y \in Seq(Requests) :
           /\ toPA' = toPA \o y
           /\ ~listening /\ ~routing => y = <<>>
           /\ \A i \in DOMAIN y :
                \/ y[i].op \in {"input", "sink"}
                \/ /\ y[i].op = "take" /\ routing /\ y[i].stream \in Streams
                   /\ \E k : Shows(m, y[i].stream, k) /\ k # Silence /\ origin'[y[i].stream] = k
  BY DispatchStreams
<1>4. \A s \in Streams :
           \/ origin'[s] = origin[s]
           \/ listening /\ m.what = "over" /\ m.stream = s /\ origin'[s] = None
           \/ /\ routing
              /\ \E k : /\ Shows(m, s, k)
                        /\ \/ k # Silence /\ origin'[s] = k
                           \/ k = Silence /\ origin[s] = None /\ origin'[s] = Media
  BY DispatchStreams
<1>5. /\ listening /\ m.what = "change" => SomeOf(toPA', Peeks(m.stream))
      /\ listening /\ m.what = "output" => SomeOf(toPA', Asking(m.sink))
      /\ \A s \in Streams : \A k : Shows(m, s, k) /\ Takes(s, k) => SomeOf(toPA', Takings(s))
      /\ \A s \in Streams : Shows(m, s, Silence) /\ Leftover(s, Silence) => origin'[s] = Media
      /\ \A S : SomeOf(toPA, S) => SomeOf(toPA', S)
      /\ sinks' = CASE m.what = "sink" -> sinks \cup {m.sink}
                    [] m.what = "sinks" -> sinks \cup m.all
                    [] m.what = "gone" /\ listening -> sinks \ {m.sink}
                    [] OTHER -> sinks
  BY DispatchLooks
<1>6. SeesEvent(m) \/ SeesInput(m) \/ SeesInputs(m) \/ SeesSinks(m) \/ SeesAnswer(m) BY DEF Dispatch
<1>7. ASSUME NEW S, NoneOf(fromPA, S) PROVE NoneOf(fromPA', S) /\ m \notin S
  BY <1>0, <1>1, <1>7, NoneShorter
<1>8. ASSUME NEW S, SomeOf(fromPA, S), m \notin S PROVE SomeOf(fromPA', S)
  BY <1>0, <1>1, <1>8, SomeShorter
<1>9. ASSUME NEW S, NEW R, Followed(fromPA, S, R)
      PROVE  Followed(fromPA', S, R) /\ (m \in S => SomeOf(fromPA', R))
  BY <1>0, <1>1, <1>9, FollowedShorter
<1> HIDE DEF m
<1>10. PICK y \in Seq(Requests) :
           /\ toPA' = toPA \o y
           /\ \A i \in DOMAIN y :
                \/ y[i].op \in {"input", "sink"}
                \/ /\ y[i].op = "take" /\ routing /\ y[i].stream \in Streams
                   /\ \E k : Shows(m, y[i].stream, k) /\ k # Silence /\ origin'[y[i].stream] = k
  BY <1>3
<1>11. pc # "off" BY <1>1 DEF StepInv, Idle
<1>12. m \in Answers => m.what = Answered /\ ~stepDone
  <2>1. m \notin Unwanted BY <1>7 DEF StepInv, AskedFor
  <2>2. m \in Answers => ~NoneOf(fromPA, Answers) BY <1>7
  <2>3. m \in Answers => Waiting BY <2>2 DEF StepInv, OnlyOne
  <2> QED BY <2>1, <2>3 DEF Unwanted, Waiting
<1>13. m \in Answers <=> m.what \in {"answer", "sinks", "inputs"} BY <1>1 DEF Answers
<1>14. m \in Answers \/ m \in Wordy
  <2>1. m.what \in {"change", "over", "output", "gone", "sink", "input", "answer", "sinks", "inputs"}
    BY <1>6 DEF SeesEvent, SeesInput, SeesInputs, SeesSinks, SeesAnswer
  <2> QED BY <1>1, <1>13, <2>1 DEF Wordy
<1>15. ASSUME ~subscribed
       PROVE  /\ NoneOf(fromPA', Wordy) /\ m \in Answers /\ toPA' = toPA
              /\ IF pc = "list" THEN m.what = "sinks" ELSE m.what = "answer"
  <2>1. NoneOf(fromPA', Wordy) /\ m \notin Wordy BY <1>7, <1>15 DEF NoticeInv, Hears
  <2>2. m \in Answers /\ m.what = Answered BY <1>12, <1>14, <2>1
  <2>3. pc # "sweep" BY <1>15 DEF NoticeInv, Hears
  <2>4. IF pc = "list" THEN m.what = "sinks" ELSE m.what = "answer" BY <2>2, <2>3 DEF Answered
  <2>5. toPA' = toPA BY <1>6, <2>4 DEF SeesEvent, SeesInput, SeesInputs, SeesSinks, SeesAnswer
  <2> QED BY <2>1, <2>2, <2>4, <2>5
<1>16. pc \in {"subscribe", "sweep", "running"} => listening /\ m.what # "sinks" BY <1>12, <1>13 DEF NoticeInv, Hears, Answered
<1>17. m \notin Falsely BY <1>7 DEF NoticeInv, KnowsMedia
<1>18. m.what = "gone" => m.sink \in Extra \ (up \cup coming) BY <1>1, <1>17 DEF Falsely
<1>19. \A k \in up : k \in sinks => k \in sinks' BY <1>5, <1>18
<1>20. Hears'
  <2>1. NoneOf(toPA', Steps) => NoneOf(toPA, Steps) BY <1>0, <1>10, NoneBefore
  <2>2. NoneOf(toPA', Steps) /\ pc = "subscribe" => subscribed BY <2>1 DEF NoticeInv, Hears
  <2>3. ~subscribed => NoneOf(toPA', Looks) /\ NoneOf(fromPA', Wordy) BY <1>15 DEF NoticeInv, Hears
  <2> QED BY <1>2, <2>2, <2>3 DEF NoticeInv, Hears, NoneOf, Steps, Looks, Wordy
<1>21. Unlisted'
  <2> SUFFICES ASSUME pc = "silence" \/ (pc = "list" /\ ~stepDone') PROVE sinks' = {}
    BY <1>2, <1>11 DEF Unlisted
  <2>1. ~subscribed BY DEF NoticeInv, Hears
  <2>2. pc = "silence" /\ m.what = "answer" BY <1>1, <1>15, <2>1
  <2> QED BY <1>5, <2>2 DEF NoticeInv, Unlisted
<1>22. Listed'
  <2> SUFFICES ASSUME pc \in {"list", "subscribe"}, ~subscribed, NEW k \in Outputs \ late
               PROVE  NoneOf(fromPA', Mislists(k)) /\ (k \in sinks' <=> k \in up)
    BY <1>2 DEF Listed, NoneOf, Mislists
  <2>1. NoneOf(fromPA', Mislists(k)) /\ m \notin Mislists(k) BY <1>7 DEF NoticeInv, Listed
  <2>2. CASE pc = "list"
    <3>1. m.what = "sinks" /\ ~stepDone BY <1>12, <1>15, <2>2
    <3>2. sinks = {} /\ sinks' = sinks \cup m.all BY <1>5, <2>2, <3>1 DEF NoticeInv, Unlisted
    <3> QED BY <1>1, <2>1, <3>1, <3>2 DEF Mislists
  <2>3. CASE pc = "subscribe"
    <3>1. sinks' = sinks BY <1>5, <1>15, <2>3
    <3> QED BY <2>1, <2>3, <3>1 DEF NoticeInv, Listed
  <2> QED BY <2>2, <2>3
<1>23. KnowsMedia'
  <2>1. NoneOf(fromPA', Mislists(Media)) /\ NoneOf(fromPA', Falsely) /\ m \notin Mislists(Media)
    BY <1>7 DEF NoticeInv, KnowsMedia
  <2>2. pc \in {"subscribe", "sweep", "running"} => Media \in sinks' BY <1>0, <1>19 DEF NoticeInv, KnowsMedia
  <2>3. pc = "list" /\ stepDone => Media \in sinks' BY <1>0, <1>19 DEF NoticeInv, KnowsMedia
  <2>4. pc = "list" /\ ~stepDone /\ stepDone' => Media \in sinks'
    <3> SUFFICES ASSUME pc = "list", ~stepDone, stepDone' PROVE Media \in sinks' OBVIOUS
    <3>1. m.what = "sinks" BY <1>1, <1>12 DEF Answered
    <3> QED BY <1>0, <1>1, <1>5, <2>1, <3>1 DEF Mislists
  <2> QED BY <1>2, <2>1, <2>2, <2>3, <2>4 DEF KnowsMedia, NoneOf, Mislists, Falsely
<1>24. Known'
  <2> SUFFICES ASSUME subscribed, pc \in {"subscribe", "sweep", "running"}, NEW k \in Outputs \ late
               PROVE  /\ k \in up => k \in sinks' \/ SomeOf(toPA', Asking(k)) \/ SomeOf(fromPA', Reports(k))
                      /\ k \notin up => /\ k \in sinks' => SomeOf(fromPA', Goings(k))
                                        /\ Followed(fromPA', Finds(k), Goings(k))
    BY <1>2 DEF Known, SomeOf, Followed, Asking, Reports, Finds, Goings
  <2>1. /\ k \in up => k \in sinks \/ SomeOf(toPA, Asking(k)) \/ SomeOf(fromPA, Reports(k))
        /\ k \notin up => /\ k \in sinks => SomeOf(fromPA, Goings(k))
                          /\ Followed(fromPA, Finds(k), Goings(k))
    BY DEF NoticeInv, Known
  <2>2. m \in Reports(k) => k \in sinks' \/ SomeOf(toPA', Asking(k)) BY <1>5, <1>16 DEF Reports
  <2>3. k \in up => k \in sinks' \/ SomeOf(toPA', Asking(k)) \/ SomeOf(fromPA', Reports(k))
    BY <1>5, <1>8, <1>19, <2>1, <2>2
  <2>4. ASSUME k \notin up
        PROVE  /\ k \in sinks' => SomeOf(fromPA', Goings(k))
               /\ Followed(fromPA', Finds(k), Goings(k))
    <3>1. Followed(fromPA', Finds(k), Goings(k)) /\ (m \in Finds(k) => SomeOf(fromPA', Goings(k)))
      BY <1>9, <2>1, <2>4
    <3>2. m \in Goings(k) => k \notin sinks' BY <1>5, <1>16 DEF Goings
    <3>3. k \in sinks /\ k \in sinks' => SomeOf(fromPA', Goings(k)) BY <1>8, <2>1, <2>4, <3>2
    <3>4. k \notin sinks /\ k \in sinks' => m \in Finds(k) BY <1>1, <1>5, <1>16 DEF Finds
    <3> QED BY <3>1, <3>3, <3>4
  <2> QED BY <2>3, <2>4
<1>25. Noticed'
  <2> SUFFICES ASSUME pc \in {"sweep", "running"}, NEW s \in Streams, Playing(s), Takes(s, place[s])'
               PROVE  SomeOf(toPA', Looking(s)) \/ SomeOf(fromPA', Showing(s))
    BY <1>2 DEF Noticed, SomeOf, Looking, Showing, Playing
  <2>1. Takes(s, place[s]) BY <1>2 DEF Takes, NoticeInv, KnowsMedia
  <2>2. SomeOf(toPA, Looking(s)) \/ SomeOf(fromPA, Showing(s)) BY <2>1 DEF NoticeInv, Noticed
  <2>3. Takings(s) \subseteq Looking(s) /\ Peeks(s) \subseteq Looking(s) BY DEF Takings, Peeks, Looking
  <2>4. CASE m \in Showing(s)
    <3>1. CASE m.what = "change" /\ m.stream = s
      <4>1. SomeOf(toPA', Peeks(s)) BY <1>5, <1>16, <3>1
      <4> QED BY <2>3, <4>1, SomeFewer
    <3>2. CASE ~(m.what = "change" /\ m.stream = s)
      <4>1. Shows(m, s, place[s]) BY <2>4, <3>2 DEF Showing, Shows, Playing
      <4>2. SomeOf(toPA', Takings(s)) BY <1>5, <2>1, <4>1
      <4> QED BY <2>3, <4>2, SomeFewer
    <3> QED BY <3>1, <3>2
  <2>5. CASE m \notin Showing(s) BY <1>5, <1>8, <2>2, <2>5
  <2> QED BY <2>4, <2>5
<1>26. ASSUME NEW s \in Streams, NEW k, Shows(m, s, k) PROVE k \in Outputs \cup {Silence}
  BY <1>1, <1>26, MessageIs DEF Shows, Places
<1>27. ASSUME NEW s \in Streams, place[s] # "over", origin'[s] = None
       PROVE  origin[s] = None
  <2>1. NoneOf(fromPA, Overs(s)) BY <1>27 DEF HomeInv, OverOnes
  <2>2. ~(m.what = "over" /\ m.stream = s) BY <1>1, <1>7, <2>1 DEF Overs
  <2> QED BY <1>n, <1>4, <1>26, <1>27, <2>2
<1>28. Remembered'
  <2> SUFFICES ASSUME NEW s \in Streams, place[s] # "over", origin'[s] = None PROVE NoneOf(toPA', Takings(s))
    BY <1>2 DEF Remembered, NoneOf, Takings
  <2>1. origin[s] = None BY <1>27
  <2>2. NoneOf(toPA, Takings(s)) BY <2>1 DEF NoticeInv, Remembered
  <2>3. ASSUME NEW i \in DOMAIN y, y[i] \in Takings(s) PROVE FALSE
    <3>1. y[i].op = "take" /\ y[i].stream = s BY <2>3 DEF Takings
    <3>2. PICK k : Shows(m, s, k) /\ k # Silence /\ origin'[s] = k BY <1>10, <3>1
    <3> QED BY <1>n, <1>26, <3>2
  <2>4. NoneOf(y, Takings(s)) BY <2>3 DEF NoneOf
  <2> QED BY <1>0, <1>10, <2>2, <2>4, NoneLonger
<1>29. Reclaimed'
  <2> SUFFICES ASSUME pc \in {"sweep", "running"}, routing, NEW s \in Streams, place[s] = Silence, origin'[s] = None
               PROVE  SomeOf(toPA', Sweeping) \/ SomeOf(fromPA', Swept(s))
    BY <1>2 DEF Reclaimed, SomeOf, Sweeping, Swept
  <2>1. origin[s] = None BY <1>n, <1>27
  <2>2. SomeOf(toPA, Sweeping) \/ SomeOf(fromPA, Swept(s)) BY <2>1 DEF NoticeInv, Reclaimed
  <2>3. m \notin Swept(s)
    <3> SUFFICES ASSUME m \in Swept(s) PROVE FALSE OBVIOUS
    <3>1. Shows(m, s, Silence) BY SinksAssumption DEF Swept, Shows
    <3>2. Leftover(s, Silence) BY <2>1 DEF Leftover, NoticeInv, KnowsMedia
    <3>3. origin'[s] = Media BY <1>5, <3>1, <3>2
    <3> QED BY <1>n, <3>3
  <2> QED BY <1>5, <1>8, <2>2, <2>3
<1> QED BY <1>20, <1>21, <1>22, <1>23, <1>24, <1>25, <1>28, <1>29 DEF NoticeInv


LEMMA NoticeWorld == ASSUME Typed, StepInv, Silent, HomeInv, NoticeInv, World PROVE NoticeInv'
<1>0. fromPA \in Seq(Messages) BY DEF Typed, Queues
<1>1. /\ pc # "off"
      /\ UNCHANGED <<toPA, pc, routing, listening, origin, sinks, subscribed, stepDone, mode>>
  BY WorldNews
<1>2. /\ late \subseteq late'
      /\ \A k \in Outputs \ late' : pc \in {"list", "subscribe"} /\ ~subscribed => (k \in up <=> k \in up')
      /\ \A k \in Extra : k \notin up \cup coming => k \notin up' \cup coming'
      /\ Media \in up /\ Media \in up'
  BY WorldIsTold
<1>3. PICK x \in Seq(Messages) :
        /\ fromPA' = fromPA \o x
        /\ ~Told => x = <<>>
        /\ \A i \in DOMAIN x : /\ x[i].what \in {"change", "over", "output", "gone"}
                               /\ x[i].what = "gone" => x[i].sink \in Extra \ (up' \cup coming')
        /\ Told => /\ \A k \in up \ up' : SomeOf(x, Goings(k))
                   /\ \A k \in up' \ up : SomeOf(x, Reports(k))
                   /\ \A s \in Streams : place'[s] # place[s] /\ place'[s] # "over" => SomeOf(x, Changes(s))
  BY WorldIsTold
<1>4. \A s \in Streams : /\ place[s] = "over" => place'[s] = "over"
                         /\ place'[s] = Silence => place[s] = Silence
  BY WorldStreams DEF HomeInv
<1>5. ASSUME NEW S, SomeOf(fromPA, S) \/ SomeOf(x, S) PROVE SomeOf(fromPA', S)
  BY <1>0, <1>3, <1>5, SomeLonger
<1>6. ~subscribed => fromPA' = fromPA BY <1>0, <1>3 DEF Told
<1>7. pc \in {"subscribe", "sweep", "running"} /\ subscribed => Told BY DEF NoticeInv, Hears, Told
<1>8. Hears' BY <1>1, <1>6 DEF NoticeInv, Hears, NoneOf, Steps, Looks, Wordy
<1>9. Unlisted' BY <1>1 DEF NoticeInv, Unlisted
<1>10. Listed'
  <2> SUFFICES ASSUME pc \in {"list", "subscribe"}, ~subscribed, NEW k \in Outputs \ late'
               PROVE  /\ NoneOf(fromPA', Mislists(k)')
                      /\ pc = "subscribe" \/ stepDone => (k \in sinks <=> k \in up')
    BY <1>1 DEF Listed, NoneOf, Mislists
  <2>1. k \in Outputs \ late /\ (k \in up <=> k \in up') BY <1>2
  <2>2. Mislists(k)' = Mislists(k) BY <2>1 DEF Mislists
  <2>3. fromPA' = fromPA BY <1>6
  <2> QED BY <2>1, <2>2, <2>3 DEF NoticeInv, Listed
<1>11. KnowsMedia'
  <2>1. Mislists(Media)' = Mislists(Media) BY <1>2 DEF Mislists
  <2>2. Falsely' \subseteq Falsely BY <1>2 DEF Falsely
  <2>3. NoneOf(fromPA, Mislists(Media)') /\ NoneOf(fromPA, Falsely')
    BY <2>1, <2>2, NoneFewer DEF NoticeInv, KnowsMedia
  <2>4. NoneOf(x, Mislists(Media)') /\ NoneOf(x, Falsely') BY <1>3 DEF NoneOf, Mislists, Falsely
  <2>5. NoneOf(fromPA', Mislists(Media)') /\ NoneOf(fromPA', Falsely') BY <1>0, <1>3, <2>3, <2>4, NoneLonger
  <2> QED BY <1>1, <2>5 DEF NoticeInv, KnowsMedia, NoneOf
<1>12. Known'
  <2> SUFFICES ASSUME subscribed, pc \in {"subscribe", "sweep", "running"}, NEW k \in Outputs \ late'
               PROVE  /\ k \in up' => k \in sinks \/ SomeOf(toPA, Asking(k)) \/ SomeOf(fromPA', Reports(k))
                      /\ k \notin up' => /\ k \in sinks => SomeOf(fromPA', Goings(k))
                                         /\ Followed(fromPA', Finds(k), Goings(k))
    BY <1>1 DEF Known, SomeOf, Followed, Asking, Reports, Finds, Goings
  <2>1. k \in Outputs \ late /\ Told BY <1>2, <1>7
  <2>2. /\ k \in up => k \in sinks \/ SomeOf(toPA, Asking(k)) \/ SomeOf(fromPA, Reports(k))
        /\ k \notin up => /\ k \in sinks => SomeOf(fromPA, Goings(k))
                          /\ Followed(fromPA, Finds(k), Goings(k))
    BY <2>1 DEF NoticeInv, Known
  <2>3. k \in up' => k \in sinks \/ SomeOf(toPA, Asking(k)) \/ SomeOf(fromPA', Reports(k))
    BY <1>3, <1>5, <2>1, <2>2
  <2>4. NoneOf(x, Finds(k)) BY <1>3 DEF NoneOf, Finds
  <2>5. k \in up /\ k \notin up' => SomeOf(x, Goings(k)) BY <1>3, <2>1
  <2>6. k \notin up' => Followed(fromPA', Finds(k), Goings(k))
    BY <1>0, <1>3, <2>2, <2>4, <2>5, FollowedLonger
  <2>7. k \notin up' /\ k \in sinks => SomeOf(fromPA', Goings(k)) BY <1>5, <2>2, <2>5
  <2> QED BY <2>3, <2>6, <2>7
<1>13. Noticed'
  <2> SUFFICES ASSUME pc \in {"sweep", "running"}, NEW s \in Streams, Playing(s)', Takes(s, place'[s])
               PROVE  SomeOf(toPA, Looking(s)) \/ SomeOf(fromPA', Showing(s)')
    BY <1>1 DEF Noticed, SomeOf, Looking, Takes
  <2>1. Told BY <1>7 DEF NoticeInv, Hears
  <2>2. CASE place'[s] = place[s]
    <3>1. Playing(s) /\ Showing(s)' = Showing(s) BY <2>2 DEF Playing, Showing
    <3>2. SomeOf(toPA, Looking(s)) \/ SomeOf(fromPA, Showing(s)) BY <2>2, <3>1 DEF NoticeInv, Noticed
    <3> QED BY <1>5, <3>1, <3>2
  <2>3. CASE place'[s] # place[s]
    <3>1. SomeOf(x, Changes(s)) BY <1>3, <2>1, <2>3 DEF Playing
    <3>2. Changes(s) \subseteq Showing(s)' BY DEF Changes, Showing
    <3>3. SomeOf(x, Showing(s)') BY <3>1, <3>2, SomeFewer
    <3> QED BY <1>5, <3>3
  <2> QED BY <2>2, <2>3
<1>14. Remembered' BY <1>1, <1>4 DEF NoticeInv, Remembered, NoneOf, Takings
<1>15. Reclaimed'
  <2> SUFFICES ASSUME pc \in {"sweep", "running"}, routing, NEW s \in Streams, place'[s] = Silence, origin[s] = None
               PROVE  SomeOf(toPA, Sweeping) \/ SomeOf(fromPA', Swept(s))
    BY <1>1 DEF Reclaimed, SomeOf, Sweeping, Swept
  <2>1. place[s] = Silence BY <1>4
  <2> QED BY <1>5, <2>1 DEF NoticeInv, Reclaimed
<1> QED BY <1>8, <1>9, <1>10, <1>11, <1>12, <1>13, <1>14, <1>15 DEF NoticeInv

\* When castd asks for a step, what is queued stays as it is
LEMMA NoticeQueues ==
  ASSUME Typed, NoticeInv, NEW r \in Requests, r \notin Looks,
         toPA' = toPA \/ toPA' = Append(toPA, r),
         UNCHANGED <<place, up, coming, subscribed, fromPA, origin>>
  PROVE  /\ ~subscribed => NoneOf(toPA', Looks) /\ NoneOf(fromPA, Wordy)
         /\ NoneOf(fromPA', Mislists(Media)') /\ NoneOf(fromPA', Falsely') /\ Remembered'
         /\ \A S : SomeOf(toPA, S) => SomeOf(toPA', S)
<1>0. toPA \in Seq(Requests) BY DEF Typed, Queues
<1>1. \A S : SomeOf(toPA, S) => SomeOf(toPA', S) BY <1>0, SomeLast
<1>2. ASSUME NEW S, NoneOf(toPA, S), r \notin S PROVE NoneOf(toPA', S)
  <2>1. <<r>> \in Seq(Requests) /\ NoneOf(<<r>>, S) /\ Append(toPA, r) = toPA \o <<r>> BY <1>0, <1>2 DEF NoneOf
  <2> QED BY <1>0, <1>2, <2>1, NoneLonger
<1>3. ~subscribed => NoneOf(toPA', Looks) /\ NoneOf(fromPA, Wordy) BY <1>2 DEF NoticeInv, Hears
<1>4. NoneOf(fromPA', Mislists(Media)') /\ NoneOf(fromPA', Falsely')
  BY DEF NoticeInv, KnowsMedia, NoneOf, Mislists, Falsely
<1>5. Remembered'
  <2> SUFFICES ASSUME NEW s \in Streams, place[s] # "over", origin[s] = None PROVE NoneOf(toPA', Takings(s))
    BY DEF Remembered, NoneOf, Takings
  <2>1. r \notin Takings(s) BY DEF Takings, Looks
  <2> QED BY <1>2, <2>1 DEF NoticeInv, Remembered
<1> QED BY <1>1, <1>3, <1>4, <1>5

\* A capture that has ended has nothing to notice
LEMMA NoticeOff ==
  ASSUME pc' = "off", toPA' = <<>>, fromPA' = <<>>, ~subscribed', sinks' = {} PROVE NoticeInv'
<1>1. \A S : NoneOf(toPA', S) /\ NoneOf(fromPA', S) BY NoneInNothing
<1>2. Hears' BY <1>1 DEF Hears, NoneOf
<1>3. KnowsMedia' BY <1>1 DEF KnowsMedia, NoneOf
<1>4. Remembered' BY <1>1 DEF Remembered, NoneOf
<1>5. Unlisted' /\ Listed' /\ Known' /\ Noticed' /\ Reclaimed' BY DEF Unlisted, Listed, Known, Noticed, Reclaimed
<1> QED BY <1>2, <1>3, <1>4, <1>5 DEF NoticeInv

LEMMA NoticeMain == ASSUME Typed, StepInv, Silent, NoticeInv, Main \/ StopImpl PROVE NoticeInv'
<1>0. toPA \in Seq(Requests) BY DEF Typed, Queues
<1> DEFINE r(op) == Request(op, None, None)
<1>1. \A op \in {"load", "unload", "list", "subscribe", "inputs"} :
        r(op) \in Requests /\ r(op).op = op /\ r(op) \notin Looks /\ r(op) \in Steps
  <2>1. \A op \in {"load", "unload", "list", "subscribe", "inputs"} : r(op) \in Requests /\ r(op).op = op
    BY RequestsAre DEF Request
  <2> HIDE DEF r
  <2> QED BY <2>1 DEF Looks, Steps
<1>2. CASE ListSinks
  <2>1. /\ pc = "silence" /\ pc' = "list" /\ ~stepDone' /\ stepDone /\ toPA' = Append(toPA, r("list"))
        /\ UNCHANGED <<place, up, coming, late, subscribed, fromPA, origin, sinks>>
    BY <1>2 DEF ListSinks, Waited, Step, histVars
  <2>2. /\ ~subscribed => NoneOf(toPA', Looks) /\ NoneOf(fromPA, Wordy)
        /\ NoneOf(fromPA', Mislists(Media)') /\ NoneOf(fromPA', Falsely') /\ Remembered'
    BY <1>1, <2>1, NoticeQueues
  <2>3. NoneOf(fromPA, Answers) BY <2>1 DEF StepInv, OnlyOne, Waiting
  <2>4. Listed'
    <3>1. \A k : Mislists(k)' \subseteq Answers BY DEF Mislists, Answers
    <3>2. \A k : NoneOf(fromPA, Mislists(k)') BY <2>3, <3>1, NoneFewer
    <3> QED BY <2>1, <3>2 DEF Listed, NoneOf
  <2>5. Hears' BY <2>1, <2>2 DEF NoticeInv, Hears, NoneOf, Looks, Wordy
  <2>6. KnowsMedia' BY <2>1, <2>2 DEF KnowsMedia, NoneOf
  <2>7. Unlisted' BY <2>1 DEF NoticeInv, Unlisted
  <2>8. Known' /\ Noticed' /\ Reclaimed' BY <2>1 DEF Known, Noticed, Reclaimed
  <2> QED BY <2>2, <2>4, <2>5, <2>6, <2>7, <2>8 DEF NoticeInv
<1>3. CASE Subscribe
  <2>1. /\ pc = "list" /\ pc' = "subscribe" /\ stepDone /\ listening' /\ toPA' = Append(toPA, r("subscribe"))
        /\ UNCHANGED <<place, up, coming, late, subscribed, fromPA, origin, sinks>>
    BY <1>3 DEF Subscribe, Waited, Step, histVars
  <2>2. /\ ~subscribed => NoneOf(toPA', Looks) /\ NoneOf(fromPA, Wordy)
        /\ NoneOf(fromPA', Mislists(Media)') /\ NoneOf(fromPA', Falsely') /\ Remembered'
    BY <1>1, <2>1, NoticeQueues
  <2>3. ~subscribed BY <2>1 DEF NoticeInv, Hears
  <2>4. SomeOf(toPA', Steps) BY <1>0, <1>1, <2>1, SomeLast
  <2>5. Hears' BY <2>1, <2>2, <2>3, <2>4 DEF NoticeInv, Hears, NoneOf, SomeOf, Looks, Wordy, Steps
  <2>6. Listed' BY <2>1, <2>3 DEF NoticeInv, Listed, NoneOf, Mislists
  <2>7. KnowsMedia' BY <2>1, <2>2 DEF NoticeInv, KnowsMedia, NoneOf
  <2>8. Unlisted' /\ Known' /\ Noticed' /\ Reclaimed' BY <2>1, <2>3 DEF Unlisted, Known, Noticed, Reclaimed
  <2> QED BY <2>2, <2>5, <2>6, <2>7, <2>8 DEF NoticeInv
<1>4. CASE Sweep
  <2>1. /\ pc = "subscribe" /\ pc' = "sweep" /\ stepDone /\ toPA' = Append(toPA, r("inputs"))
        /\ UNCHANGED <<place, up, coming, late, subscribed, fromPA, origin, sinks, listening>>
    BY <1>4 DEF Sweep, Waited, Step, histVars
  <2>2. /\ NoneOf(fromPA', Mislists(Media)') /\ NoneOf(fromPA', Falsely') /\ Remembered'
        /\ \A S : SomeOf(toPA, S) => SomeOf(toPA', S)
    BY <1>1, <2>1, NoticeQueues
  <2>3. NoneOf(toPA, Steps) BY <2>1 DEF StepInv, OnlyOne, Waiting
  <2>4. subscribed /\ listening BY <2>1, <2>3 DEF NoticeInv, Hears
  <2>5. Hears' BY <2>1, <2>4 DEF Hears
  <2>6. KnowsMedia' BY <2>1, <2>2 DEF NoticeInv, KnowsMedia, NoneOf
  <2>7. Known'
    <3> SUFFICES ASSUME NEW k \in Outputs \ late
                 PROVE  /\ k \in up => k \in sinks \/ SomeOf(toPA', Asking(k)) \/ SomeOf(fromPA, Reports(k))
                        /\ k \notin up => /\ k \in sinks => SomeOf(fromPA, Goings(k))
                                          /\ Followed(fromPA, Finds(k), Goings(k))
      BY <2>1 DEF Known, SomeOf, Followed, Asking, Reports, Finds, Goings
    <3> QED BY <2>1, <2>2, <2>4 DEF NoticeInv, Known
  <2>8. r("inputs") \in Sweeping /\ \A s \in Streams : r("inputs") \in Looking(s) BY <1>1 DEF Sweeping, Looking
  <2>9. SomeOf(toPA', Sweeping) /\ \A s \in Streams : SomeOf(toPA', Looking(s)) BY <1>0, <1>1, <2>1, <2>8, SomeLast
  <2>10. Noticed' /\ Reclaimed' BY <2>9 DEF Noticed, Reclaimed, SomeOf, Sweeping, Looking
  <2>11. Unlisted' /\ Listed' BY <2>1 DEF Unlisted, Listed
  <2> QED BY <2>2, <2>5, <2>6, <2>7, <2>10, <2>11 DEF NoticeInv
<1>5. CASE Record
  <2>1. /\ pc = "sweep" /\ pc' = "running"
        /\ UNCHANGED <<place, up, coming, late, subscribed, toPA, fromPA, origin, sinks, listening, routing, mode>>
    BY <1>5 DEF Record, Waited, paVars, histVars
  <2>2. Hears' /\ Unlisted' /\ Listed'
    BY <2>1 DEF NoticeInv, Hears, Unlisted, Listed, NoneOf, Looks, Wordy
  <2>3. KnowsMedia' BY <2>1 DEF NoticeInv, KnowsMedia, NoneOf, Mislists, Falsely
  <2>4. Known' BY <2>1 DEF NoticeInv, Known, SomeOf, Followed, Asking, Reports, Finds, Goings
  <2>5. Noticed' BY <2>1 DEF NoticeInv, Noticed, SomeOf, Looking, Showing, Playing, Takes
  <2>6. Remembered' /\ Reclaimed' BY <2>1 DEF NoticeInv, Remembered, Reclaimed, NoneOf, Takings, SomeOf, Sweeping, Swept
  <2> QED BY <2>2, <2>3, <2>4, <2>5, <2>6 DEF NoticeInv
<1>6. ASSUME pc' \in {"home", "unload"}, NEW q \in Requests, q \notin Looks, toPA' = toPA \/ toPA' = Append(toPA, q),
             UNCHANGED <<place, up, coming, subscribed, fromPA, origin>>
      PROVE  NoticeInv'
  <2>1. /\ ~subscribed => NoneOf(toPA', Looks) /\ NoneOf(fromPA, Wordy)
        /\ NoneOf(fromPA', Mislists(Media)') /\ NoneOf(fromPA', Falsely') /\ Remembered'
    BY <1>6, NoticeQueues
  <2>2. Hears' BY <1>6, <2>1 DEF Hears, NoneOf, Looks, Wordy
  <2>3. KnowsMedia' BY <1>6, <2>1 DEF KnowsMedia, NoneOf
  <2>4. Unlisted' /\ Listed' /\ Known' /\ Noticed' /\ Reclaimed'
    BY <1>6 DEF Unlisted, Listed, Known, Noticed, Reclaimed
  <2> QED BY <2>1, <2>2, <2>3, <2>4 DEF NoticeInv
<1>7. CASE Unload
  <2>1. /\ pc' = "unload" /\ toPA' = Append(toPA, r("unload"))
        /\ UNCHANGED <<place, up, coming, subscribed, fromPA, origin>>
    BY <1>7 DEF Unload, Step
  <2> QED BY <1>1, <1>6, <2>1
<1>8. CASE \E s \in Streams : BringHome(s)
  <2>1. PICK s \in Streams : BringHome(s) BY <1>8
  <2>2. UNCHANGED <<place, up, coming, subscribed, fromPA, origin>> BY <2>1 DEF BringHome
  <2>3. CASE origin[s] \in sinks
    <3> DEFINE q == Request("home", s, origin[s])
    <3>1. pc' = "home" /\ toPA' = Append(toPA, q) BY <2>1, <2>3 DEF BringHome, Step
    <3>2. origin[s] \in Outputs BY <2>3 DEF Typed, Outs
    <3>3. q \in Requests /\ q.op = "home" BY <3>2, RequestsAre DEF Request
    <3> HIDE DEF q
    <3>4. q \notin Looks BY <3>3 DEF Looks
    <3> QED BY <1>6, <2>2, <3>1, <3>3, <3>4
  <2>4. CASE origin[s] \notin sinks
    <3>1. pc' = "home" /\ toPA' = toPA BY <2>1, <2>4 DEF BringHome, Waited
    <3> QED BY <1>1, <1>6, <2>2, <3>1
  <2> QED BY <2>3, <2>4
<1>9. Disconnect => NoticeInv' BY NoticeOff DEF Disconnect, NewImpl
<1>10. CASE StopDone BY <1>9, <1>10 DEF StopDone
<1>11. CASE StopImpl
  <2>1. CASE ~routing BY <1>9, <1>11, <2>1 DEF StopImpl
  <2>2. CASE routing
    <3>1. pc' = "home" /\ UNCHANGED <<toPA, place, up, coming, subscribed, fromPA, origin>>
      BY <1>11, <2>2 DEF StopImpl
    <3> QED BY <1>1, <1>6, <3>1
  <2> QED BY <2>1, <2>2
<1> QED BY <1>2, <1>3, <1>4, <1>5, <1>7, <1>8, <1>10, <1>11 DEF Main

LEMMA NoticeKept == ASSUME Typed, StepInv, Silent, HomeInv, NoticeInv, [RouteNext]_audioVars PROVE NoticeInv'
<1>1. CASE Kill BY <1>1, NoticeOff DEF Kill, Disconnect, NewImpl
<1>2. CASE SessionCleanup
  <2>1. pc = "off" /\ UNCHANGED <<pc, toPA, fromPA, subscribed, sinks>> BY <1>2 DEF SessionCleanup, implVars
  <2>2. toPA = <<>> /\ fromPA = <<>> /\ ~subscribed /\ sinks = {} BY <2>1 DEF StepInv, Idle, NoticeInv, Unlisted
  <2> QED BY <2>1, <2>2, NoticeOff
<1>3. CASE \E m \in Routes : Start(m)
  <2>1. PICK m \in Routes : Start(m) BY <1>3
  <2> DEFINE r == Request(IF m = "direct" THEN "unload" ELSE "load", None, None)
  <2>2. /\ pc = "off" /\ pc' = "silence" /\ toPA' = Append(toPA, r)
        /\ UNCHANGED <<place, up, coming, late, subscribed, fromPA, origin, sinks>>
    BY <2>1 DEF Start, Step, histVars
  <2>3. r \in Requests /\ r.op \in {"load", "unload"} BY RequestsAre DEF Request
  <2> HIDE DEF r
  <2>4. r \notin Looks BY <2>3 DEF Looks
  <2>5. /\ ~subscribed => NoneOf(toPA', Looks) /\ NoneOf(fromPA, Wordy)
        /\ NoneOf(fromPA', Mislists(Media)') /\ NoneOf(fromPA', Falsely') /\ Remembered'
    BY <2>2, <2>3, <2>4, NoticeQueues
  <2>6. Hears' BY <2>2, <2>5 DEF NoticeInv, Hears, NoneOf, Looks, Wordy
  <2>7. KnowsMedia' BY <2>2, <2>5 DEF KnowsMedia, NoneOf
  <2>8. Unlisted' /\ Listed' /\ Known' /\ Noticed' /\ Reclaimed'
    BY <2>2 DEF NoticeInv, Unlisted, Listed, Known, Noticed, Reclaimed
  <2> QED BY <2>5, <2>6, <2>7, <2>8 DEF NoticeInv
<1>4. CASE UNCHANGED audioVars
  <2>1. UNCHANGED <<place, up, coming, late, subscribed, toPA, fromPA, pc, stepDone, origin, sinks, listening, routing, mode>>
    BY <1>4 DEF audioVars, paVars, implVars, histVars
  <2>2. Hears' /\ Unlisted' /\ Listed'
    BY <2>1 DEF NoticeInv, Hears, Unlisted, Listed, NoneOf, Looks, Wordy, Steps, Mislists
  <2>3. KnowsMedia' BY <2>1 DEF NoticeInv, KnowsMedia, NoneOf, Mislists, Falsely
  <2>4. Known' BY <2>1 DEF NoticeInv, Known, SomeOf, Followed, Asking, Reports, Finds, Goings
  <2>5. Noticed' BY <2>1 DEF NoticeInv, Noticed, SomeOf, Looking, Showing, Playing, Takes
  <2>6. Remembered' /\ Reclaimed' BY <2>1 DEF NoticeInv, Remembered, Reclaimed, NoneOf, Takings, SomeOf, Sweeping, Swept
  <2> QED BY <2>2, <2>3, <2>4, <2>5, <2>6 DEF NoticeInv
<1> QED BY <1>1, <1>2, <1>3, <1>4, NoticeServe, NoticeDispatch, NoticeWorld, NoticeMain DEF RouteNext

\* Once castd has seen everything, no stream that belongs on the TV is left
\* on an output, every stream on the cast has somewhere to go back to, and
\* castd knows the outputs there are: however many streams start, move and
\* end, and outputs come and go, between the list, the subscription, the
\* sweep and their answers (subscribeCb, sinkInputSweepCb, maybeSilence).
THEOREM NothingSlipsThrough == RouteSpec => []NothingMissed
<1>1. RouteInit => NoticeInv
  <2> SUFFICES ASSUME RouteInit PROVE NoticeInv OBVIOUS
  <2>1. pc = "off" /\ toPA = <<>> /\ fromPA = <<>> /\ ~subscribed /\ sinks = {} BY DEF RouteInit
  <2>2. \A S : NoneOf(toPA, S) /\ NoneOf(fromPA, S) BY <2>1, NoneInNothing
  <2> QED BY <2>1, <2>2 DEF NoticeInv, Hears, Unlisted, Listed, KnowsMedia, Known, Noticed, Remembered, Reclaimed
<1>2. Typed /\ StepInv /\ Silent /\ HomeInv /\ NoticeInv /\ [RouteNext]_audioVars => NoticeInv' BY NoticeKept
<1>3. Typed /\ NoticeInv => NothingMissed
  <2> SUFFICES ASSUME Typed, NoticeInv, pc = "running", routing, toPA = <<>>, fromPA = <<>>
               PROVE  /\ \A s \in Streams : Playing(s) =>
                           IF place[s] = Silence THEN origin[s] # None ELSE ~Takes(s, place[s])
                      /\ sinks \ late = up \ late
    BY DEF NothingMissed
  <2>1. \A S : ~SomeOf(toPA, S) /\ ~SomeOf(fromPA, S) BY DEF SomeOf
  <2>2. ASSUME NEW s \in Streams, Playing(s)
        PROVE  IF place[s] = Silence THEN origin[s] # None ELSE ~Takes(s, place[s])
    BY <2>1, <2>2 DEF NoticeInv, Noticed, Reclaimed
  <2>3. \A k \in Outputs \ late : k \in sinks <=> k \in up
    BY <2>1 DEF NoticeInv, Known, Hears
  <2>4. sinks \subseteq Outputs /\ up \subseteq Outputs BY DEF Typed, Outs
  <2> QED BY <2>2, <2>3, <2>4
<1> QED BY <1>1, <1>2, <1>3, HomeHolds, PTL DEF RouteSpec
================================================================================
