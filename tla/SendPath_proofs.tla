---------------------------- MODULE SendPath_proofs ----------------------------
(***************************************************************************)
(* A receiver never misses a packet of any PID, for every size of access   *)
(* units and slices and every wrap of the continuity counters, and never   *)
(* waits longer for the programme clock than the clock thread may sleep    *)
(* and wait for the lock.                                                  *)
(***************************************************************************)
EXTENDS SendPath, TLAPS

(* Arithmetic modulo the wrap *)

LEMMA DivMod ==
  ASSUME NEW W \in Nat \ {0}, NEW x \in Int
  PROVE  /\ x = W * (x \div W) + (x % W)
         /\ x % W \in 0..W - 1 /\ x \div W \in Int
OBVIOUS

LEMMA RemainderUnique ==
  ASSUME NEW W \in Nat \ {0}, NEW x \in Int, NEW q \in Int, NEW r \in 0..W - 1,
         x = W * q + r
  PROVE  x % W = r
OBVIOUS

LEMMA WholeTurns ==
  ASSUME NEW W \in Nat \ {0}, NEW x \in Int, NEW q \in Int
  PROVE  (x + W * q) % W = x % W
<1>1. x = W * (x \div W) + (x % W) /\ x % W \in 0..W - 1 /\ x \div W \in Int
  BY DivMod
<1>2. (x \div W) + q \in Int /\ x + W * q \in Int BY <1>1
<1>3. W * ((x \div W) + q) = W * (x \div W) + W * q BY <1>1
<1>4. x + W * q = W * ((x \div W) + q) + (x % W) BY <1>1, <1>3
<1> QED BY <1>1, <1>2, <1>4, RemainderUnique

\* Counting on from a counter that has wrapped is counting on
LEMMA CountOn ==
  ASSUME NEW W \in Nat \ {0}, NEW x \in Int, NEW b \in Int
  PROVE  ((x % W) + b) % W = (x + b) % W
<1>1. x = W * (x \div W) + (x % W) /\ x % W \in 0..W - 1 /\ x \div W \in Int
  BY DivMod
<1>2. ((x % W) + b) + W * (x \div W) = x + b BY <1>1
<1>3. (x % W) + b \in Int BY <1>1
<1>4. (((x % W) + b) + W * (x \div W)) % W = ((x % W) + b) % W
  BY <1>1, <1>3, WholeTurns
<1> QED BY <1>2, <1>4

LEMMA Counter ==
  ASSUME NEW c \in 0..Wrap - 1, NEW n \in Nat
  PROVE  Advance(c, n) = (c + n) % Wrap /\ (c + n) % Wrap \in 0..Wrap - 1
BY WrapAssumption, DivMod DEF Advance

LEMMA InRange ==
  ASSUME NEW c \in 0..Wrap - 1 PROVE c % Wrap = c
<1>1. c \in Int /\ c = Wrap * 0 + c BY WrapAssumption
<1> QED BY <1>1, WrapAssumption, RemainderUnique

--------------------------------------------------------------------------------
(* Access units cut into packets *)

LEMMA RoomIs == Room(0) = 170 /\ \A i \in Nat \ {0} : Room(i) = 184
BY DEF Room, PacketSize, TsHeader, PesHeader

\* 184 bytes a packet: what is left is in the last one
LEMMA LeftOver ==
  ASSUME NEW r \in Nat
  PROVE  /\ r \div 184 \in Nat /\ r % 184 \in 0..183
         /\ r = 184 * (r \div 184) + (r % 184)
OBVIOUS

LEMMA PacketsIs ==
  ASSUME NEW len \in Nat \ {0}
  PROVE  /\ Packets(len) \in Nat \ {0}
         /\ Packets(len) = 1 => len <= 170
         /\ Packets(len) > 1 => /\ 170 + (Packets(len) - 2) * 184 < len
                               /\ len <= 170 + (Packets(len) - 1) * 184
<1> DEFINE r == IF len > 170 THEN len - 170 ELSE 0
           q == r \div 184
           m == r % 184
<1>1. r \in Nat /\ q \in Nat /\ m \in 0..183 /\ r = 184 * q + m BY LeftOver
<1>2. Packets(len) = 1 + q + IF m > 0 THEN 1 ELSE 0
  <2>1. Room(1) = 184 /\ Room(0) = 170 BY RoomIs
  <2> QED BY <2>1, <1>1 DEF Packets
<1>3. len > 170 <=> r > 0 BY DEF r
<1>4. len > 170 => len = 170 + r OBVIOUS
<1> HIDE DEF r, q, m
<1> QED BY <1>1, <1>2, <1>3, <1>4

\* The packets that are written are those that were counted and made room
\* for, each is full with 188 bytes whatever padding it takes, has some of the
\* access unit, and begins where the one before ended; the last one has the
\* last byte (tsmux.cpp 502-531, 550-639, 755-844).
THEOREM PacketsAreFull ==
  ASSUME NEW len \in Nat \ {0}
  PROVE  /\ Written(len) = 0..Packets(len) - 1
         /\ \A i \in Written(len) :
              /\ BytesWritten(len, i) = PacketSize /\ Copied(len, i) > 0
              /\ IF i + 1 \in Written(len) THEN Offset(i + 1) = Offset(i) + Copied(len, i)
                 ELSE len = Offset(i) + Copied(len, i)
<1>1. /\ Packets(len) \in Nat \ {0}
      /\ Packets(len) = 1 => len <= 170
      /\ Packets(len) > 1 => /\ 170 + (Packets(len) - 2) * 184 < len
                            /\ len <= 170 + (Packets(len) - 1) * 184
  BY PacketsIs
<1>2. /\ Offset(0) = 0 /\ Room(0) = 170
      /\ \A i \in Nat \ {0} : Offset(i) = 170 + (i - 1) * 184 /\ Room(i) = 184
  BY RoomIs DEF Offset
<1>3. ASSUME NEW i \in Nat PROVE i \in Written(len) <=> i \in 0..Packets(len) - 1
  <2>1. CASE i = 0 BY <2>1, <1>1 DEF Written
  <2>2. CASE i # 0
    <3>1. i \in Written(len) <=> 170 + (i - 1) * 184 < len
      BY <2>2, <1>2 DEF Written
    <3> QED BY <2>2, <3>1, <1>1
  <2> QED BY <2>1, <2>2
<1>4. Written(len) = 0..Packets(len) - 1
  <2>1. Written(len) \subseteq Nat BY DEF Written
  <2>2. 0..Packets(len) - 1 \subseteq Nat BY <1>1
  <2> QED BY <2>1, <2>2, <1>3
<1>5. ASSUME NEW i \in Written(len)
      PROVE  /\ BytesWritten(len, i) = PacketSize /\ Copied(len, i) > 0
             /\ IF i + 1 \in Written(len) THEN Offset(i + 1) = Offset(i) + Copied(len, i)
                ELSE len = Offset(i) + Copied(len, i)
  <2>1. i \in Nat /\ Offset(i) \in Nat /\ Room(i) \in {170, 184} /\ Offset(i) < len
        /\ (Room(i) = 170 <=> i = 0)
    <3>1. CASE i = 0 BY <3>1, <1>2
    <3>2. CASE i # 0 BY <3>2, <1>2 DEF Written
    <3> QED BY <3>1, <3>2
  <2>2. Offset(i + 1) = Offset(i) + Room(i) /\ i + 1 \in Nat \ {0}
    <3>1. CASE i = 0 BY <3>1, <1>2
    <3>2. CASE i # 0 BY <3>2, <2>1, <1>2
    <3> QED BY <3>1, <3>2
  <2>3. i + 1 \in Written(len) <=> Offset(i) + Room(i) < len
    BY <2>1, <2>2 DEF Written
  <2>4. /\ Copied(len, i) \in 1..Room(i)
        /\ Copied(len, i) = IF len - Offset(i) > Room(i) THEN Room(i) ELSE len - Offset(i)
    BY <2>1 DEF Copied
  <2>5. Stuffed(Room(i) - Copied(len, i)) = Room(i) - Copied(len, i)
    BY <2>1, <2>4 DEF Stuffed
  <2>6. BytesWritten(len, i) = PacketSize
    BY <2>1, <2>4, <2>5 DEF BytesWritten, PacketSize, TsHeader, PesHeader
  <2> QED BY <2>1, <2>2, <2>3, <2>4, <2>6
<1> QED BY <1>4, <1>5

\* Sizes of access units in packets
LEMMA UnitsOK ==
  /\ \A len \in VideoUnits : Packets(len) \in Nat \ {0}
  /\ \A len \in AudioUnits : Packets(len) \in Nat \ {0}
BY SizesAssumption, PacketsIs

--------------------------------------------------------------------------------
(* The invariant: the receiver is where the muxer is, except that it waits  *)
(* for the rest of the access unit under way                                *)

CountersOK ==
  /\ cc \in [Pids -> 0..Wrap - 1] /\ got \in [Pids -> 0..Wrap - 1]
  /\ rest \in Nat /\ restCc \in 0..Wrap - 1

Abreast ==
  /\ \A p \in Pids \ {"video"} : got[p] = cc[p]
  /\ got["video"] = restCc /\ (restCc + rest) % Wrap = cc["video"]

SendInv == CountersOK /\ Abreast /\ NoGap

\* Runs that begin where the receiver is leave no gap.
LEMMA NothingSkipped ==
  ASSUME NoGap, NEW runs, Receive(runs), \A p \in DOMAIN runs : runs[p].from = got[p]
  PROVE  NoGap'
BY DEF NoGap, Receive

LEMMA ReceivedOK ==
  ASSUME CountersOK, NEW runs, Receive(runs),
         \A p \in DOMAIN runs : runs[p].from \in 0..Wrap - 1 /\ runs[p].n \in Nat
  PROVE  got' \in [Pids -> 0..Wrap - 1]
<1>1. ASSUME NEW p \in Pids
      PROVE (IF p \in DOMAIN runs THEN (runs[p].from + runs[p].n) % Wrap ELSE got[p])
              \in 0..Wrap - 1
  BY <1>1, Counter DEF CountersOK
<1>2. got' = [p \in Pids |-> IF p \in DOMAIN runs THEN (runs[p].from + runs[p].n) % Wrap
                             ELSE got[p]]
  BY DEF Receive
<1> QED BY <1>1, <1>2

LEMMA CountedOK ==
  ASSUME CountersOK, NEW with \in BOOLEAN, NEW pid, NEW n \in Nat
  PROVE  Counted(with, pid, n) \in [Pids -> 0..Wrap - 1]
<1>1. ASSUME NEW p \in Pids
      PROVE  Advance(cc[p], n) \in 0..Wrap - 1 /\ Advance(cc[p], 1) \in 0..Wrap - 1
             /\ cc[p] \in 0..Wrap - 1
  <2>1. cc[p] \in 0..Wrap - 1 /\ 1 \in Nat BY <1>1 DEF CountersOK
  <2> QED BY <2>1, Counter
<1> QED BY <1>1 DEF Counted

\* With nothing under way the receiver is where the muxer is on every PID.
LEMMA AllAbreast ==
  ASSUME SendInv, rest = 0 PROVE got = cc /\ restCc = cc["video"]
<1>1. restCc \in 0..Wrap - 1 /\ (restCc + 0) % Wrap = cc["video"]
  BY DEF SendInv, CountersOK, Abreast
<1>2. restCc + 0 = restCc BY <1>1, WrapAssumption
<1>3. restCc = cc["video"] BY <1>1, <1>2, InRange
<1>4. \A p \in Pids : got[p] = cc[p] BY <1>3 DEF SendInv, Abreast
<1> QED BY <1>3, <1>4 DEF SendInv, CountersOK

\* An access unit, with tables or without: its first slice follows what the
\* receiver has, the rest follows the slice.
LEMMA VideoKeeps ==
  ASSUME SendInv, NEW n \in Nat, NEW idr \in BOOLEAN, VideoOut(n, idr)
  PROVE  SendInv'
<1> DEFINE with == idr \/ sincePat > PatLimit
           first == Smaller(n, Slice - (IF with THEN 3 ELSE 0))
           runs == Both(TableRuns(with), Run("video", cc["video"], first))
<1>1. /\ rest = 0 /\ cc' = Counted(with, "video", n) /\ Receive(runs)
      /\ rest' = n - first /\ restCc' = (cc["video"] + first) % Wrap
  BY DEF VideoOut
<1>2. first \in Nat /\ n \in Nat /\ n - first \in Nat
  <2>1. n \in Nat OBVIOUS
  <2>2. Slice - (IF with THEN 3 ELSE 0) \in Nat BY SizesAssumption
  <2> QED BY <2>1, <2>2 DEF Smaller
<1>3. got = cc /\ cc \in [Pids -> 0..Wrap - 1] /\ with \in BOOLEAN
  BY <1>1, AllAbreast DEF SendInv, CountersOK
<1>4. /\ DOMAIN runs = (IF with THEN Tables ELSE {}) \cup {"video"}
      /\ runs["video"] = [from |-> cc["video"], n |-> first]
      /\ \A p \in Tables : with => runs[p] = [from |-> cc[p], n |-> 1]
  BY DEF Both, TableRuns, Run, Tables
<1> HIDE DEF with, first, runs
<1>5. Tables \subseteq Pids /\ "video" \in Pids /\ "video" \notin Tables
  BY DEF Tables, Pids
<1>6. \A p \in DOMAIN runs : /\ runs[p].from = got[p] /\ runs[p].from \in 0..Wrap - 1
                             /\ runs[p].n \in Nat
  <2>1. \A p \in Pids : cc[p] \in 0..Wrap - 1 BY <1>3
  <2>2. TAKE p \in DOMAIN runs
  <2>3. CASE p = "video" BY <1>2, <1>3, <1>4, <1>5, <2>1, <2>3
  <2>4. CASE p # "video"
    <3>1. with /\ p \in Tables BY <1>4, <2>4
    <3> QED BY <1>3, <1>4, <1>5, <2>1, <3>1
  <2> QED BY <2>3, <2>4
<1>7. NoGap' BY <1>1, <1>6, NothingSkipped DEF SendInv
<1>8. cc["video"] \in 0..Wrap - 1 BY <1>3, <1>5
<1>9. CountersOK'
  <2>1. got' \in [Pids -> 0..Wrap - 1] BY <1>1, <1>6, ReceivedOK DEF SendInv
  <2>2. cc' \in [Pids -> 0..Wrap - 1]
    BY <1>1, <1>2, <1>3, CountedOK DEF SendInv
  <2>3. restCc' \in 0..Wrap - 1 BY <1>1, <1>2, <1>8, Counter
  <2> QED BY <1>1, <1>2, <2>1, <2>2, <2>3 DEF CountersOK
<1>10. got' = [p \in Pids |-> IF p \in DOMAIN runs THEN (runs[p].from + runs[p].n) % Wrap
                              ELSE got[p]]
  BY <1>1 DEF Receive
<1>11. ASSUME NEW p \in Pids \ {"video"} PROVE got'[p] = cc'[p]
  <2>1. cc'[p] = IF with /\ p \in Tables THEN Advance(cc[p], 1) ELSE cc[p]
    BY <1>1, <1>11 DEF Counted
  <2>2. CASE with /\ p \in Tables
    <3>1. p \in DOMAIN runs /\ runs[p].from = cc[p] /\ runs[p].n = 1
      BY <1>4, <1>5, <2>2
    <3>2. got'[p] = (cc[p] + 1) % Wrap BY <1>10, <3>1
    <3> QED BY <2>1, <2>2, <3>2 DEF Advance
  <2>3. CASE ~(with /\ p \in Tables)
    <3>1. p \notin DOMAIN runs BY <1>4, <1>11, <2>3
    <3> QED BY <1>3, <1>10, <2>1, <2>3, <3>1
  <2> QED BY <2>2, <2>3
<1>12. got'["video"] = restCc'
  BY <1>1, <1>4, <1>5, <1>10
<1>13. (restCc' + rest') % Wrap = cc'["video"]
  <2>1. cc'["video"] = (cc["video"] + n) % Wrap
    BY <1>1, <1>5 DEF Counted, Advance
  <2>2. cc["video"] + first \in Int /\ n - first \in Int
        /\ (cc["video"] + first) + (n - first) = cc["video"] + n
    BY <1>2, <1>8, WrapAssumption
  <2>3. (((cc["video"] + first) % Wrap) + (n - first)) % Wrap = (cc["video"] + n) % Wrap
    BY <2>2, WrapAssumption, CountOn
  <2> QED BY <1>1, <2>1, <2>3
<1> QED BY <1>7, <1>9, <1>11, <1>12, <1>13 DEF SendInv, Abreast

\* The next slice of it.
LEMMA SliceKeeps == ASSUME SendInv, NextSlice PROVE SendInv'
<1> DEFINE n == Smaller(rest, Slice)
           runs == Run("video", restCc, n)
<1>1. /\ Receive(runs) /\ rest' = rest - n /\ restCc' = (restCc + n) % Wrap
      /\ cc' = cc
  BY DEF NextSlice
<1>2. n \in Nat /\ rest \in Nat /\ rest - n \in Nat
  BY SizesAssumption DEF SendInv, CountersOK, Smaller
<1>3. DOMAIN runs = {"video"} /\ runs["video"] = [from |-> restCc, n |-> n]
  BY DEF Run
<1> HIDE DEF n, runs
<1>4. restCc \in 0..Wrap - 1 /\ got["video"] = restCc /\ "video" \in Pids
  BY DEF SendInv, CountersOK, Abreast, Pids
<1>5. \A p \in DOMAIN runs : /\ runs[p].from = got[p] /\ runs[p].from \in 0..Wrap - 1
                             /\ runs[p].n \in Nat
  BY <1>2, <1>3, <1>4
<1>6. NoGap' BY <1>1, <1>5, NothingSkipped DEF SendInv
<1>7. CountersOK'
  <2>1. got' \in [Pids -> 0..Wrap - 1] BY <1>1, <1>5, ReceivedOK DEF SendInv
  <2>2. restCc' \in 0..Wrap - 1 BY <1>1, <1>2, <1>4, Counter
  <2> QED BY <1>1, <1>2, <2>1, <2>2 DEF SendInv, CountersOK
<1>8. got' = [p \in Pids |-> IF p \in DOMAIN runs THEN (runs[p].from + runs[p].n) % Wrap
                             ELSE got[p]]
  BY <1>1 DEF Receive
<1>9. \A p \in Pids \ {"video"} : got'[p] = cc'[p]
  BY <1>1, <1>3, <1>8 DEF SendInv, Abreast
<1>10. got'["video"] = restCc' BY <1>1, <1>3, <1>4, <1>8
<1>11. (restCc' + rest') % Wrap = cc'["video"]
  <2>1. restCc + n \in Int /\ rest - n \in Int /\ (restCc + n) + (rest - n) = restCc + rest
    BY <1>2, <1>4, WrapAssumption
  <2>2. (((restCc + n) % Wrap) + (rest - n)) % Wrap = (restCc + rest) % Wrap
    BY <2>1, WrapAssumption, CountOn
  <2> QED BY <1>1, <2>2 DEF SendInv, Abreast
<1> QED BY <1>6, <1>7, <1>9, <1>10, <1>11 DEF SendInv, Abreast

\* Sound, or tables from the clock thread, between two slices: another PID.
LEMMA OthersKeep ==
  ASSUME SendInv, NEW with \in BOOLEAN, NEW pid \in {"audio", "none"}, NEW n \in Nat,
         NEW runs, Receive(runs), UNCHANGED <<rest, restCc>>,
         cc' = Counted(with, pid, n),
         DOMAIN runs = (IF with THEN Tables ELSE {}) \cup ({pid} \cap Pids),
         \A p \in DOMAIN runs :
           runs[p] = [from |-> cc[p], n |-> IF p = pid THEN n ELSE 1]
  PROVE  SendInv'
<1>1. /\ cc \in [Pids -> 0..Wrap - 1] /\ "video" \notin DOMAIN runs
      /\ DOMAIN runs \subseteq Pids \ {"video"}
  BY DEF SendInv, CountersOK, Tables, Pids
<1>0. ASSUME NEW p \in DOMAIN runs
      PROVE  runs[p].from = cc[p] /\ runs[p].n = IF p = pid THEN n ELSE 1
  <2>1. runs[p] = [from |-> cc[p], n |-> IF p = pid THEN n ELSE 1] OBVIOUS
  <2> QED BY <2>1
<1>2. ASSUME NEW p \in DOMAIN runs
      PROVE  /\ runs[p].from = got[p] /\ runs[p].from \in 0..Wrap - 1
             /\ runs[p].n \in Nat
  <2>1. p \in Pids \ {"video"} BY <1>1
  <2>2. got[p] = cc[p] /\ cc[p] \in 0..Wrap - 1 BY <1>1, <2>1 DEF SendInv, Abreast
  <2>3. runs[p].n \in Nat BY <1>0
  <2> QED BY <1>0, <2>2, <2>3
<1>3. NoGap' BY <1>2, NothingSkipped DEF SendInv
<1>4. CountersOK'
  <2>1. got' \in [Pids -> 0..Wrap - 1] BY <1>2, ReceivedOK DEF SendInv
  <2>2. cc' \in [Pids -> 0..Wrap - 1] BY CountedOK DEF SendInv
  <2> QED BY <2>1, <2>2 DEF SendInv, CountersOK
<1>5. got' = [p \in Pids |-> IF p \in DOMAIN runs THEN (runs[p].from + runs[p].n) % Wrap
                             ELSE got[p]]
  BY DEF Receive
<1>6. ASSUME NEW p \in Pids \ {"video"} PROVE got'[p] = cc'[p]
  <2>1. CASE p = pid
    <3>0. p \in DOMAIN runs BY <1>6, <2>1
    <3>1. runs[p].from = cc[p] /\ runs[p].n = n BY <1>0, <2>1, <3>0
    <3>2. cc'[p] = Advance(cc[p], n) BY <1>6, <2>1 DEF Counted
    <3> QED BY <1>5, <1>6, <3>0, <3>1, <3>2 DEF Advance
  <2>2. CASE p # pid /\ with /\ p \in Tables
    <3>0. p \in DOMAIN runs BY <2>2
    <3>1. runs[p].from = cc[p] /\ runs[p].n = 1 BY <1>0, <2>2, <3>0
    <3>2. cc'[p] = Advance(cc[p], 1) BY <1>6, <2>2 DEF Counted
    <3> QED BY <1>5, <1>6, <3>0, <3>1, <3>2 DEF Advance
  <2>3. CASE p # pid /\ ~(with /\ p \in Tables)
    <3>1. p \notin DOMAIN runs BY <2>3
    <3>2. cc'[p] = cc[p] BY <1>6, <2>3 DEF Counted
    <3> QED BY <1>5, <1>6, <3>1, <3>2 DEF SendInv, Abreast
  <2> QED BY <2>1, <2>2, <2>3
<1>7. got'["video"] = got["video"] /\ cc'["video"] = cc["video"]
  BY <1>1, <1>5 DEF Counted, Pids, Tables
<1> QED BY <1>3, <1>4, <1>6, <1>7 DEF SendInv, Abreast

LEMMA AudioKeeps ==
  ASSUME SendInv, NEW n \in Nat, AudioOut(n) PROVE SendInv'
<1> DEFINE runs == Run("audio", cc["audio"], n)
<1>1. Receive(runs) /\ cc' = Counted(FALSE, "audio", n) /\ UNCHANGED <<rest, restCc>>
  BY DEF AudioOut
<1>2. /\ DOMAIN runs = {"audio"} /\ n \in Nat
      /\ \A p \in DOMAIN runs : runs[p] = [from |-> cc[p], n |-> n]
  BY DEF Run
<1>3. (IF FALSE THEN Tables ELSE {}) \cup ({"audio"} \cap Pids) = {"audio"}
  BY DEF Pids
<1> HIDE DEF runs
<1>4. \A p \in DOMAIN runs :
        runs[p] = [from |-> cc[p], n |-> IF p = "audio" THEN n ELSE 1]
  BY <1>2
<1> QED BY <1>1, <1>2, <1>3, <1>4, OthersKeep

LEMMA ClockKeeps == ASSUME SendInv, ClockSends PROVE SendInv'
<1>1. CASE seen <= ClockLimit
  BY <1>1 DEF ClockSends, wireVars, SendInv, CountersOK, Abreast, NoGap
<1>2. CASE ~(seen <= ClockLimit)
  <2> DEFINE runs == TableRuns(TRUE)
  <2>1. Receive(runs) /\ cc' = Counted(TRUE, "none", 0) /\ UNCHANGED <<rest, restCc>>
    BY <1>2 DEF ClockSends
  <2>2. DOMAIN runs = Tables /\ \A p \in DOMAIN runs : runs[p] = [from |-> cc[p], n |-> 1]
    BY DEF TableRuns
  <2>3. (IF TRUE THEN Tables ELSE {}) \cup ({"none"} \cap Pids) = Tables
        /\ "none" \notin Tables
    BY DEF Pids, Tables
  <2> HIDE DEF runs
  <2>4. \A p \in DOMAIN runs :
          runs[p] = [from |-> cc[p], n |-> IF p = "none" THEN 0 ELSE 1]
    BY <2>2, <2>3
  <2> QED BY <2>1, <2>2, <2>3, <2>4, OthersKeep
<1> QED BY <1>1, <1>2

LEMMA Sends == SendInit => SendInv
<1>1. ASSUME SendInit PROVE CountersOK /\ NoGap
  BY <1>1, WrapAssumption DEF SendInit, CountersOK, NoGap
<1>2. 0 % Wrap = 0 /\ 0 + 0 = 0 BY WrapAssumption, InRange
<1>3. ASSUME SendInit PROVE Abreast
  BY <1>2, <1>3 DEF SendInit, Abreast, Pids
<1> QED BY <1>1, <1>3 DEF SendInv

LEMMA SendSteps == SendInv /\ [SendNext]_sendVars => SendInv'
<1> SUFFICES ASSUME SendInv, [SendNext]_sendVars PROVE SendInv' OBVIOUS
<1>1. CASE \E len \in VideoUnits, idr \in BOOLEAN : VideoOut(Packets(len), idr)
  BY <1>1, UnitsOK, VideoKeeps
<1>2. CASE NextSlice BY <1>2, SliceKeeps
<1>3. CASE \E len \in AudioUnits : AudioOut(Packets(len))
  BY <1>3, UnitsOK, AudioKeeps
<1>4. CASE ClockSends BY <1>4, ClockKeeps
<1>5. CASE ClockWakes
  BY <1>5 DEF ClockWakes, muxVars, wireVars, SendInv, CountersOK, Abreast, NoGap
<1>6. CASE WireTick
  BY <1>6 DEF WireTick, muxVars, SendInv, CountersOK, Abreast, NoGap
<1>7. CASE UNCHANGED sendVars
  BY <1>7 DEF sendVars, muxVars, wireVars, SendInv, CountersOK, Abreast, NoGap
<1> QED BY <1>1, <1>2, <1>3, <1>4, <1>5, <1>6, <1>7 DEF SendNext

\* A receiver finds the packets of every PID numbered without a gap
\* (main.cpp 288-318, tsmux.cpp nextContinuityCounter).
THEOREM WireHasNoGap == SendSpec => []NoGap
<1>1. SendInv => NoGap BY DEF SendInv
<1> QED BY <1>1, Sends, SendSteps, PTL DEF SendSpec

--------------------------------------------------------------------------------
(* The programme clock.  Whoever sends it stamps the tables, so they are    *)
(* never younger than the clock; what the clock thread leaves to a frame is *)
(* at most as old as its own wait.                                          *)

ClockTypes ==
  /\ cpc \in {"sleep", "lock"} /\ nap \in 0..Poll /\ sincePat \in Nat /\ seen \in Nat
  /\ waited \in 0..LockWait /\ sincePcr \in Nat

AtRest == Greatest(ClockLimit, LockWait) + Poll

PcrInv ==
  /\ ClockTypes
  /\ sincePcr <= sincePat
  /\ cpc = "sleep" => sincePcr + nap <= AtRest
  /\ cpc = "lock" => sincePcr <= AtRest + waited
  /\ cpc = "lock" /\ seen <= ClockLimit => sincePcr <= waited

LEMMA Limits ==
  /\ ClockLimit \in Nat /\ LockWait \in Nat /\ Poll \in Nat /\ Poll >= 1
  /\ AtRest \in Nat /\ ClockLimit + Poll <= AtRest /\ LockWait + Poll <= AtRest
  /\ Longest = AtRest + LockWait
BY TimesAssumption DEF AtRest, Longest, Greatest

LEMMA PcrStarts == SendInit => PcrInv
BY Limits DEF SendInit, PcrInv, ClockTypes

\* Tables and clock go out together, or none of them
LEMMA StampKeeps ==
  ASSUME PcrInv, NEW with \in BOOLEAN, Stamp(with), PcrSent(with),
         UNCHANGED <<cpc, nap, waited>>
  PROVE  PcrInv'
<1>1. CASE with
  BY <1>1, Limits DEF Stamp, PcrSent, PcrInv, ClockTypes
<1>2. CASE ~with BY <1>2 DEF Stamp, PcrSent, PcrInv, ClockTypes
<1> QED BY <1>1, <1>2

LEMMA PcrStays ==
  ASSUME PcrInv, UNCHANGED <<napVars, sincePcr>> PROVE PcrInv'
BY DEF napVars, PcrInv, ClockTypes

LEMMA WakesKeep == ASSUME PcrInv, ClockWakes PROVE PcrInv'
<1>1. CASE sincePat <= ClockLimit
  BY <1>1, Limits DEF ClockWakes, wireVars, PcrInv, ClockTypes
<1>2. CASE ~(sincePat <= ClockLimit)
  BY <1>2, Limits DEF ClockWakes, wireVars, PcrInv, ClockTypes
<1> QED BY <1>1, <1>2

LEMMA SendsKeep == ASSUME PcrInv, ClockSends PROVE PcrInv'
<1>1. CASE seen <= ClockLimit
  BY <1>1, Limits DEF ClockSends, wireVars, PcrInv, ClockTypes
<1>2. CASE ~(seen <= ClockLimit)
  BY <1>2, Limits DEF ClockSends, PcrSent, PcrInv, ClockTypes
<1> QED BY <1>1, <1>2

LEMMA TimePasses == ASSUME PcrInv, WireTick PROVE PcrInv'
<1>1. /\ Capped(sincePcr) \in Nat /\ Capped(sincePat) \in Nat
      /\ Capped(sincePcr) <= sincePcr + 1 /\ Capped(sincePcr) <= Capped(sincePat)
  BY Limits DEF PcrInv, ClockTypes, Capped, Smaller
<1>2. CASE cpc = "sleep"
  BY <1>1, <1>2, Limits DEF WireTick, PcrInv, ClockTypes
<1>3. CASE cpc = "lock"
  BY <1>1, <1>3, Limits DEF WireTick, PcrInv, ClockTypes
<1> QED BY <1>2, <1>3 DEF PcrInv, ClockTypes

LEMMA PcrSteps == PcrInv /\ [SendNext]_sendVars => PcrInv'
<1> SUFFICES ASSUME PcrInv, [SendNext]_sendVars PROVE PcrInv' OBVIOUS
<1>1. ASSUME NEW n, NEW idr \in BOOLEAN, VideoOut(n, idr) PROVE PcrInv'
  BY <1>1, StampKeeps DEF VideoOut
<1>2. CASE NextSlice BY <1>2, PcrStays DEF NextSlice
<1>3. ASSUME NEW n, AudioOut(n) PROVE PcrInv' BY <1>3, PcrStays DEF AudioOut
<1>4. CASE ClockWakes BY <1>4, WakesKeep
<1>5. CASE ClockSends BY <1>5, SendsKeep
<1>6. CASE WireTick BY <1>6, TimePasses
<1>7. CASE UNCHANGED sendVars BY <1>7, PcrStays DEF sendVars, wireVars
<1> QED BY <1>1, <1>2, <1>3, <1>4, <1>5, <1>6, <1>7 DEF SendNext

\* Counters stay below the wrap, the sleep and the wait of the clock thread
\* within their limits (tsmux.cpp nextContinuityCounter, main.cpp 518-540).
THEOREM SendTypes == SendSpec => []SendTypeOK
<1>1. SendInv /\ PcrInv => SendTypeOK
  BY DEF SendInv, CountersOK, NoGap, PcrInv, ClockTypes, SendTypeOK
<1> QED BY <1>1, Sends, SendSteps, PcrStarts, PcrSteps, PTL DEF SendSpec

\* The programme clock is on the wire in time, whether the picture moves or
\* not, for every limit, every sleep of the clock thread and however long it
\* waits for the lock (main.cpp 512-540).
THEOREM ClockAlwaysInTime == SendSpec => []ClockInTime
<1>1. PcrInv => ClockInTime
  BY Limits DEF PcrInv, ClockTypes, ClockInTime
<1> QED BY <1>1, PcrStarts, PcrSteps, PTL DEF SendSpec
================================================================================
