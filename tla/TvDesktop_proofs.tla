---------------------------- MODULE TvDesktop_proofs ----------------------------
(***************************************************************************)
(* The two halves of imira-comp: the frames it hands over (ShmFrames) and  *)
(* its windows (Desktop).                                                  *)
(*                                                                         *)
(* For every number of parts, buffers and frames: a picture handed over is *)
(* nearly whole, and the shared memory implements FrameExchange.  The      *)
(* argument: seq only grows, so a reader that finds seq as it was has seen *)
(* no write begin, and what it had copied by then is the frame seq stood   *)
(* for.                                                                    *)
(*                                                                         *)
(* For any apps, clients, surfaces and addresses: each window has its      *)
(* surface, the list is the stack that is drawn, and a minimized window    *)
(* comes nearer.  The argument: a surface asks for the removal of its own  *)
(* window at least, whatever other addresses it remembers, and raising and *)
(* removing keep the order of the rest.                                    *)
(***************************************************************************)
EXTENDS ShmFrames, Desktop, Integers, FunctionTheorems, FiniteSetTheorems, TLAPS

-------------------------------------------------------------------------------
(* The inductive invariant. *)

\* The writer: seq is odd exactly while it draws, only the newest buffer is
\* ever written, and the name means nothing older.
Odd(n) == n % 2 = 1

WriterOK ==
  /\ made \in Nat /\ made <= MaxBuffers /\ name \in {0, made}
  /\ seq \in [Buffers -> Nat]
  /\ wpc \in {"init", "idle", "draw"} => made \in Buffers
  /\ wpc \in {"init", "idle"} => ~Odd(seq[made])
  /\ wpc = "draw" => Odd(seq[made])
  /\ wpc = "start" => name = 0 /\ made < MaxBuffers
  /\ \A b \in Buffers : b > made => seq[b] = 0

\* What a buffer holds: at rest the frame of its number, and while it is
\* drawn that frame or the next.
CellsOK ==
  /\ cell \in [Buffers -> [Parts -> Nat]]
  /\ \A b \in Buffers, p \in Parts :
       /\ cell[b][p] \in {seq[b] \div 2, seq[b] \div 2 + 1}
       /\ ~Odd(seq[b]) => cell[b][p] = seq[b] \div 2
       /\ wpc = "draw" /\ b = made /\ p \in drawn => cell[b][p] = seq[b] \div 2 + 1

Attached == rpc \in {"poll", "copy", "late"}
Copying == rpc \in {"copy", "late"}

\* The reader: what it has copied is no older than the number it noted, and
\* is of that number as long as seq still shows it.
ReaderOK ==
  /\ copy \in [Parts -> Nat] /\ copied \subseteq Parts
  /\ lastSeq \in Nat /\ snap \in Nat
  /\ Attached => mapped \in Buffers /\ mapped <= made /\ lastSeq <= seq[mapped]
  /\ Copying => snap > 0 /\ ~Odd(snap) /\ snap <= seq[mapped]
  /\ Copying /\ ~flat => \A p \in copied : copy[p] >= snap \div 2
  /\ Copying /\ ~flat /\ seq[mapped] = snap => \A p \in copied : copy[p] = snap \div 2

\* Past the check at most one part is not of that number.
CheckedOK ==
  rpc = "late" /\ ~flat =>
    \E late \in SUBSET Parts :
      /\ Cardinality(late) <= 1
      /\ \A p \in Parts \ late : p \in copied /\ copy[p] = snap \div 2

TakenOK ==
  /\ taken \in [buffer : Nat, frame : Nat] /\ taken.buffer <= made
  /\ Attached => taken.buffer <= mapped
  /\ taken.buffer \in Buffers => 2 * taken.frame <= seq[taken.buffer]
  /\ Copying /\ taken.buffer = mapped => 2 * taken.frame <= snap

IInv == WriterOK /\ CellsOK /\ ReaderOK /\ CheckedOK /\ TakenOK /\ NearlyWhole

-------------------------------------------------------------------------------
(* Halves. *)

\* What sequence numbers and frame numbers have to do with each other.
LEMMA Halves ==
  ASSUME NEW n \in Nat
  PROVE  /\ n \div 2 \in Nat
         /\ ~Odd(n) => Odd(n + 1) /\ (n + 1) \div 2 = n \div 2
         /\ ~Odd(n) => 2 * (n \div 2) = n
         /\ Odd(n) => n = 2 * (n \div 2) + 1
<1>1. n \div 2 \in Nat
  BY SMT
<1>2. ASSUME ~Odd(n) PROVE Odd(n + 1)
  BY <1>2, SMT DEF Odd
<1>3. ASSUME ~Odd(n) PROVE (n + 1) \div 2 = n \div 2
  BY <1>3, SMT DEF Odd
<1>4. ASSUME ~Odd(n) PROVE 2 * (n \div 2) = n
  BY <1>4, SMT DEF Odd
<1>5. ASSUME Odd(n) PROVE n = 2 * (n \div 2) + 1
  BY <1>5, SMT DEF Odd
<1> QED BY <1>1, <1>2, <1>3, <1>4, <1>5

\* The number a finished frame leaves in seq.
LEMMA Finished ==
  ASSUME NEW k \in Nat
  PROVE  /\ 2 * k + 2 \in Nat /\ ~Odd(2 * k + 2)
         /\ (2 * k + 2) \div 2 = k + 1
<1>1. ~Odd(2 * k + 2)
  BY SMT DEF Odd
<1>2. (2 * k + 2) \div 2 = k + 1
  BY SMT
<1> QED BY <1>1, <1>2

\* Halving keeps the order.
LEMMA HalfGrows ==
  ASSUME NEW m \in Nat, NEW n \in Nat, m <= n
  PROVE  m \div 2 <= n \div 2
  BY SMT

-------------------------------------------------------------------------------
(* The writer's steps. *)

\* What a step of the compositor leaves alone, and that seq grows.
Grows ==
  /\ made' \in Nat /\ made <= made'
  /\ \A b \in Buffers : seq[b] <= seq'[b]
  /\ UNCHANGED <<readVars, taken, picture>>

\* Every step of the compositor keeps its own part of the invariant.
LEMMA CompStep ==
  ASSUME WriterOK, CellsOK, Comp
  PROVE  WriterOK' /\ CellsOK' /\ Grows
<1> USE BoundsAssumption
<1> USE DEF WriterOK, CellsOK, Grows, Buffers
<1>1. CASE CompStarts
  BY <1>1 DEF CompStarts
<1>2. CASE CompCreates
  <2>1. ~Odd(0)
    BY SMT DEF Odd
  <2>2. made + 1 \in Buffers /\ seq[made + 1] = 0
    BY <1>2 DEF CompCreates
  <2> QED BY <1>2, <2>1, <2>2 DEF CompCreates
<1>3. CASE CompWidth
  BY <1>3 DEF CompWidth, compVars
<1>4. CASE CompHeight
  BY <1>4 DEF CompHeight
<1>5. CASE DrawBegins
  <2>1. made \in Buffers /\ seq[made] \in Nat /\ ~Odd(seq[made])
    BY <1>5 DEF DrawBegins
  <2>2. Odd(seq[made] + 1) /\ (seq[made] + 1) \div 2 = seq[made] \div 2
    BY <2>1, Halves
  <2>3. /\ seq' \in [Buffers -> Nat] /\ seq'[made] = seq[made] + 1
        /\ \A b \in Buffers : b # made => seq'[b] = seq[b]
    BY <1>5, <2>1 DEF DrawBegins
  <2>4. WriterOK'
    BY <1>5, <2>1, <2>2, <2>3 DEF DrawBegins
  <2>5. CellsOK'
    BY <1>5, <2>1, <2>2, <2>3 DEF DrawBegins
  <2>6. Grows
    BY <1>5, <2>1, <2>3 DEF DrawBegins
  <2> QED BY <2>4, <2>5, <2>6
<1>6. ASSUME NEW q \in Parts, DrawPart(q) PROVE WriterOK' /\ CellsOK' /\ Grows
  <2>1. made \in Buffers /\ Odd(seq[made]) /\ seq[made] \div 2 \in Nat
    BY <1>6, Halves DEF DrawPart
  <2>2. WriterOK' /\ Grows
    BY <1>6 DEF DrawPart
  <2> DEFINE k == seq[made] \div 2
  <2>3. /\ cell' \in [Buffers -> [Parts -> Nat]]
        /\ \A b \in Buffers, p \in Parts :
             cell'[b][p] = IF b = made /\ p = q THEN k + 1 ELSE cell[b][p]
    <3>1. cell' = [cell EXCEPT ![made] = [cell[made] EXCEPT ![q] = k + 1]]
      BY <1>6 DEF DrawPart
    <3>2. k + 1 \in Nat /\ cell \in [Buffers -> [Parts -> Nat]]
      BY <2>1
    <3> HIDE DEF k, WriterOK, CellsOK, Grows, Buffers
    <3> QED BY <2>1, <3>1, <3>2
  <2>4. UNCHANGED <<made, seq, wpc>> /\ drawn' = drawn \cup {q} /\ wpc = "draw"
    BY <1>6 DEF DrawPart
  <2>5. \A b \in Buffers, p \in Parts :
          /\ cell'[b][p] \in {seq[b] \div 2, seq[b] \div 2 + 1}
          /\ ~Odd(seq[b]) => cell'[b][p] = seq[b] \div 2
          /\ b = made /\ p \in drawn' => cell'[b][p] = seq[b] \div 2 + 1
    <3> SUFFICES ASSUME NEW b \in Buffers, NEW p \in Parts
                 PROVE  /\ cell'[b][p] \in {seq[b] \div 2, seq[b] \div 2 + 1}
                        /\ ~Odd(seq[b]) => cell'[b][p] = seq[b] \div 2
                        /\ b = made /\ p \in drawn' => cell'[b][p] = seq[b] \div 2 + 1
      OBVIOUS
    <3>1. CASE b = made /\ p = q
      BY <2>1, <2>3, <3>1
    <3>2. CASE ~(b = made /\ p = q)
      BY <2>3, <2>4, <3>2
    <3> QED BY <3>1, <3>2
  <2>6. CellsOK'
    BY <2>3, <2>4, <2>5
  <2> QED BY <2>2, <2>6
<1>7. CASE DrawEnds
  <2> DEFINE k == seq[made] \div 2
  <2>1. made \in Buffers /\ seq[made] \in Nat /\ Odd(seq[made]) /\ k \in Nat
    BY <1>7, Halves DEF DrawEnds
  <2>2. /\ seq[made] = 2 * k + 1 /\ 2 * k + 2 \in Nat /\ ~Odd(2 * k + 2)
        /\ (2 * k + 2) \div 2 = k + 1
    BY <2>1, Halves, Finished
  <2>3. /\ seq' \in [Buffers -> Nat] /\ seq'[made] = 2 * k + 2
        /\ \A b \in Buffers : b # made => seq'[b] = seq[b]
    BY <1>7, <2>1, <2>2 DEF DrawEnds
  <2>4. /\ seq'[made] = seq[made] + 1 /\ ~Odd(seq'[made])
        /\ seq'[made] \div 2 = k + 1
    BY <2>1, <2>2, <2>3
  <2>5. /\ UNCHANGED <<made, name, cell>> /\ wpc' = "idle"
        /\ UNCHANGED <<readVars, taken, picture>>
        /\ wpc = "draw" /\ drawn = Parts
    BY <1>7 DEF DrawEnds
  <2>6. \A p \in Parts : cell[made][p] = k + 1
    BY <2>1, <2>5
  <2> HIDE DEF k
  <2>7. WriterOK'
    BY <2>1, <2>3, <2>4, <2>5
  <2>8. CellsOK'
    <3>1. ASSUME NEW b \in Buffers, NEW p \in Parts
          PROVE  /\ cell[b][p] \in {seq'[b] \div 2, seq'[b] \div 2 + 1}
                 /\ ~Odd(seq'[b]) => cell[b][p] = seq'[b] \div 2
      <4>1. CASE b = made
        BY <2>4, <2>6, <4>1
      <4>2. CASE b # made
        BY <2>3, <4>2
      <4> QED BY <4>1, <4>2
    <3> QED BY <2>5, <3>1
  <2>9. Grows
    <3>1. ASSUME NEW b \in Buffers PROVE seq[b] <= seq'[b]
      <4>1. seq[b] \in Nat
        OBVIOUS
      <4> QED BY <2>3, <2>4, <4>1
    <3> QED BY <2>5, <3>1
  <2> QED BY <2>7, <2>8, <2>9
<1>8. CASE CompQuits
  BY <1>8 DEF CompQuits
<1>9. CASE CompKilled
  BY <1>9 DEF CompKilled, bufVars
<1> QED BY <1>1, <1>2, <1>3, <1>4, <1>5, <1>6, <1>7, <1>8, <1>9 DEF Comp

\* A step of the reader leaves the writer's part alone.
LEMMA ReaderStep ==
  ASSUME WriterOK, CellsOK, Reader
  PROVE  /\ WriterOK' /\ CellsOK'
         /\ UNCHANGED <<bufVars, compVars>>
<1>1. UNCHANGED <<bufVars, compVars>>
  BY DEF Reader, OpenFails, OpenEarly, Attach, CopyBegins, CopyPart,
         CheckPasses, CheckFails, HandOver, PollIdle
<1> QED BY <1>1 DEF WriterOK, CellsOK, bufVars, compVars

-------------------------------------------------------------------------------
(* The reader's part, against the writer's steps and its own. *)

\* While only seq grows, what the reader knows stays true.
LEMMA ReaderKept ==
  ASSUME WriterOK, WriterOK', ReaderOK, CheckedOK, TakenOK, NearlyWhole, Grows
  PROVE  ReaderOK' /\ CheckedOK' /\ TakenOK' /\ NearlyWhole'
<1> USE DEF Attached, Copying
<1>1. /\ UNCHANGED <<rpc, mapped, flat, lastSeq, snap, copy, copied, taken, picture>>
      /\ made \in Nat /\ made' \in Nat /\ made <= made'
      /\ \A b \in Buffers : seq[b] \in Nat /\ seq'[b] \in Nat /\ seq[b] <= seq'[b]
  BY DEF Grows, readVars, WriterOK
<1>2. ReaderOK'
  <2>1. Attached => mapped \in Buffers /\ mapped <= made' /\ lastSeq <= seq'[mapped]
    BY <1>1 DEF ReaderOK, Buffers
  <2>2. Copying => snap <= seq'[mapped]
    BY <1>1 DEF ReaderOK
  <2>3. Copying /\ seq'[mapped] = snap => seq[mapped] = snap
    BY <1>1 DEF ReaderOK
  <2> QED BY <1>1, <2>1, <2>2, <2>3 DEF ReaderOK
<1>3. CheckedOK'
  BY <1>1 DEF CheckedOK
<1>4. TakenOK'
  <2>1. taken.buffer <= made'
    BY <1>1 DEF TakenOK
  <2>2. taken.buffer \in Buffers => 2 * taken.frame <= seq'[taken.buffer]
    BY <1>1 DEF TakenOK
  <2> QED BY <1>1, <2>1, <2>2 DEF TakenOK
<1>5. NearlyWhole'
  BY <1>1 DEF NearlyWhole
<1> QED BY <1>2, <1>3, <1>4, <1>5

\* The part a copy takes is of the frame the reader noted, or of a later one,
\* and of no later one while seq has not moved.
LEMMA PartsAreNoOlder ==
  ASSUME WriterOK, CellsOK, ReaderOK, Copying, Attached, NEW p \in Parts
  PROVE  /\ cell[mapped][p] \in Nat
         /\ cell[mapped][p] >= snap \div 2
         /\ seq[mapped] = snap => cell[mapped][p] = snap \div 2
<1>1. /\ mapped \in Buffers /\ seq[mapped] \in Nat /\ snap \in Nat
      /\ snap <= seq[mapped] /\ ~Odd(snap)
  BY DEF WriterOK, ReaderOK
<1>2. snap \div 2 <= seq[mapped] \div 2
  BY <1>1, HalfGrows
<1>3. snap \div 2 \in Nat /\ seq[mapped] \div 2 \in Nat
  BY <1>1, Halves
<1>4. /\ cell[mapped][p] \in {seq[mapped] \div 2, seq[mapped] \div 2 + 1}
      /\ ~Odd(seq[mapped]) => cell[mapped][p] = seq[mapped] \div 2
  BY <1>1 DEF CellsOK
<1> QED BY <1>1, <1>2, <1>3, <1>4

\* A step of the reader keeps what it knows.
LEMMA ReaderInv ==
  ASSUME WriterOK, CellsOK, ReaderOK, CheckedOK, TakenOK, NearlyWhole, Reader
  PROVE  ReaderOK' /\ CheckedOK' /\ TakenOK' /\ NearlyWhole'
<1> DEFINE Kept == ReaderOK' /\ CheckedOK' /\ TakenOK' /\ NearlyWhole'
<1> USE DEF Attached, Copying
<1>0. UNCHANGED <<made, name, seq, cell>> /\ seq \in [Buffers -> Nat] /\ made \in Nat
  BY ReaderStep DEF bufVars, WriterOK
<1>1. CASE OpenFails
  BY <1>0, <1>1 DEF OpenFails, ReaderOK, CheckedOK, TakenOK, NearlyWhole
<1>2. CASE OpenEarly
  BY <1>0, <1>2 DEF OpenEarly, ReaderOK, CheckedOK, TakenOK, NearlyWhole
<1>3. CASE Attach
  <2>1. name = made /\ name # 0 /\ made \in Buffers
    BY <1>3 DEF Attach, WriterOK, Buffers
  <2>2. /\ rpc' = "poll" /\ mapped' = made /\ lastSeq' = 0
        /\ UNCHANGED <<snap, copy, copied, taken, picture>>
    BY <1>3, <2>1 DEF Attach
  <2>3. ReaderOK' /\ CheckedOK' /\ NearlyWhole'
    BY <1>0, <2>1, <2>2 DEF ReaderOK, CheckedOK, NearlyWhole
  <2>4. TakenOK'
    BY <1>0, <2>1, <2>2 DEF TakenOK
  <2> QED BY <2>3, <2>4
<1>4. CASE CopyBegins
  <2>1. /\ rpc = "poll" /\ rpc' = "copy" /\ snap' = seq[mapped]
        /\ seq[mapped] # lastSeq /\ ~Odd(seq[mapped])
        /\ copied' = IF flat THEN Parts ELSE {}
        /\ UNCHANGED <<mapped, flat, lastSeq, copy, taken, picture>>
    BY <1>4 DEF CopyBegins, Fresh, Odd
  <2>2. /\ mapped \in Buffers /\ seq[mapped] \in Nat /\ seq[mapped] > 0
    BY <1>0, <2>1 DEF ReaderOK
  <2>3. ReaderOK'
    BY <1>0, <2>1, <2>2 DEF ReaderOK
  <2>4. CheckedOK' /\ NearlyWhole'
    BY <2>1 DEF CheckedOK, NearlyWhole
  <2>5. TakenOK'
    BY <1>0, <2>1, <2>2 DEF TakenOK
  <2> QED BY <2>3, <2>4, <2>5
<1>5. ASSUME NEW p \in Parts, CopyPart(p) PROVE Kept
  <2>1. /\ rpc \in {"copy", "late"} /\ p \notin copied
        /\ copy' = [copy EXCEPT ![p] = cell[mapped][p]]
        /\ copied' = copied \cup {p}
        /\ UNCHANGED <<rpc, mapped, flat, lastSeq, snap, taken, picture>>
    BY <1>5 DEF CopyPart
  <2>2. /\ cell[mapped][p] \in Nat
        /\ cell[mapped][p] >= snap \div 2
        /\ seq[mapped] = snap => cell[mapped][p] = snap \div 2
    BY <2>1, PartsAreNoOlder
  <2>3. /\ copy' \in [Parts -> Nat] /\ copy'[p] = cell[mapped][p]
        /\ \A q \in Parts : q # p => copy'[q] = copy[q]
    BY <2>1, <2>2 DEF ReaderOK
  <2>4. ReaderOK'
    <3>1. copied' \subseteq Parts
      BY <2>1 DEF ReaderOK
    <3>2. ~flat => \A q \in copied' : copy'[q] >= snap \div 2
      BY <2>1, <2>2, <2>3 DEF ReaderOK
    <3>3. ~flat /\ seq[mapped] = snap => \A q \in copied' : copy'[q] = snap \div 2
      BY <2>1, <2>2, <2>3 DEF ReaderOK
    <3> QED BY <1>0, <2>1, <2>3, <3>1, <3>2, <3>3 DEF ReaderOK
  <2>5. CheckedOK'
    <3> SUFFICES ASSUME rpc = "late", ~flat
                 PROVE  \E late \in SUBSET Parts :
                          /\ Cardinality(late) <= 1
                          /\ \A q \in Parts \ late : q \in copied' /\ copy'[q] = snap \div 2
      BY <2>1 DEF CheckedOK
    <3>1. PICK late \in SUBSET Parts :
            /\ Cardinality(late) <= 1
            /\ \A q \in Parts \ late : q \in copied /\ copy[q] = snap \div 2
      BY DEF CheckedOK
    <3>2. p \in late
      BY <2>1, <3>1
    <3> QED BY <2>1, <2>3, <3>1, <3>2
  <2>6. TakenOK' /\ NearlyWhole'
    BY <1>0, <2>1 DEF TakenOK, NearlyWhole
  <2> QED BY <2>4, <2>5, <2>6
<1>6. CASE CheckPasses
  <2>1. /\ rpc = "copy" /\ rpc' = "late" /\ seq[mapped] = snap
        /\ Cardinality(Parts \ copied) <= 1
        /\ UNCHANGED <<mapped, flat, lastSeq, snap, copy, copied, taken, picture>>
    BY <1>6 DEF CheckPasses
  <2>2. ReaderOK'
    BY <1>0, <2>1 DEF ReaderOK
  <2>3. CheckedOK'
    <3>1. ~flat => \A p \in copied : copy[p] = snap \div 2
      BY <2>1 DEF ReaderOK
    <3>2. Parts \ copied \in SUBSET Parts
      OBVIOUS
    <3>3. \A p \in Parts \ (Parts \ copied) : p \in copied
      OBVIOUS
    <3> QED BY <2>1, <3>1, <3>2, <3>3 DEF CheckedOK
  <2>4. TakenOK' /\ NearlyWhole'
    BY <1>0, <2>1 DEF TakenOK, NearlyWhole
  <2> QED BY <2>2, <2>3, <2>4
<1>7. CASE CheckFails
  BY <1>0, <1>7 DEF CheckFails, ReaderOK, CheckedOK, TakenOK, NearlyWhole
<1>8. CASE HandOver
  <2>1. /\ rpc = "late" /\ rpc' = "poll" /\ copied = Parts /\ lastSeq' = snap
        /\ UNCHANGED <<mapped, flat, snap, copy, copied>>
    BY <1>8 DEF HandOver
  <2>2. /\ mapped \in Buffers /\ mapped <= made /\ mapped \in Nat
        /\ snap \in Nat /\ snap <= seq[mapped] /\ 2 * (snap \div 2) = snap
        /\ snap \div 2 \in Nat
    BY <2>1, Halves DEF ReaderOK, Buffers
  <2>3. ReaderOK' /\ CheckedOK'
    BY <1>0, <2>1, <2>2 DEF ReaderOK, CheckedOK
  <2>4. CASE flat
    <3>1. UNCHANGED <<taken, picture>>
      BY <1>8, <2>4 DEF HandOver
    <3> QED BY <1>0, <2>1, <2>3, <3>1 DEF TakenOK, NearlyWhole
  <2>5. CASE ~flat
    <3>1. /\ taken' = [buffer |-> mapped, frame |-> snap \div 2]
          /\ picture' = copy
      BY <1>8, <2>5 DEF HandOver
    <3>2. taken'.buffer = mapped /\ taken'.frame = snap \div 2
      BY <3>1
    <3>3. TakenOK'
      <4>1. taken' \in [buffer : Nat, frame : Nat]
        BY <2>2, <3>1
      <4> QED BY <1>0, <2>1, <2>2, <3>2, <4>1 DEF TakenOK
    <3>4. NearlyWhole'
      <4>1. PICK late \in SUBSET Parts :
              /\ Cardinality(late) <= 1
              /\ \A q \in Parts \ late : q \in copied /\ copy[q] = snap \div 2
        BY <2>1, <2>5 DEF CheckedOK
      <4>2. \A q \in late : copy[q] >= snap \div 2
        BY <2>1, <2>5, <4>1 DEF ReaderOK
      <4> QED BY <3>1, <3>2, <4>1, <4>2 DEF NearlyWhole
    <3> QED BY <2>3, <3>3, <3>4
  <2> QED BY <2>4, <2>5
<1>9. CASE PollIdle
  BY <1>0, <1>9 DEF PollIdle, ReaderOK, CheckedOK, TakenOK, NearlyWhole
<1> QED BY <1>1, <1>2, <1>3, <1>4, <1>5, <1>6, <1>7, <1>8, <1>9 DEF Reader

-------------------------------------------------------------------------------
(* The theorems. *)

LEMMA Initially == Init => IInv
<1> SUFFICES ASSUME Init PROVE IInv
  OBVIOUS
<1> USE BoundsAssumption DEF Init
<1>1. 0 \div 2 = 0 /\ ~Odd(0)
  BY SMT DEF Odd
<1>2. WriterOK /\ CellsOK
  BY <1>1 DEF WriterOK, CellsOK, Buffers
<1>3. ReaderOK /\ CheckedOK /\ TakenOK
  BY <1>1 DEF ReaderOK, CheckedOK, TakenOK, Attached, Copying, Buffers
<1>4. NearlyWhole
  <2>1. {} \in SUBSET Parts /\ Cardinality({}) <= 1
    BY FS_EmptySet
  <2>2. \A p \in Parts : picture[p] = taken.frame
    OBVIOUS
  <2> QED BY <2>1, <2>2 DEF NearlyWhole
<1> QED BY <1>2, <1>3, <1>4 DEF IInv

LEMMA Inductive == IInv /\ [Next]_shmVars => IInv'
<1> SUFFICES ASSUME IInv, [Next]_shmVars PROVE IInv'
  OBVIOUS
<1> USE DEF IInv
<1>1. CASE Comp
  <2>1. WriterOK' /\ CellsOK' /\ Grows
    BY <1>1, CompStep
  <2> QED BY <2>1, ReaderKept
<1>2. CASE Reader
  BY <1>2, ReaderStep, ReaderInv
<1>3. CASE UNCHANGED shmVars
  BY <1>3 DEF shmVars, bufVars, compVars, readVars, WriterOK, CellsOK, ReaderOK,
              CheckedOK, TakenOK, NearlyWhole, Attached, Copying
<1> QED BY <1>1, <1>2, <1>3 DEF Next

LEMMA Invariance == Spec => []IInv
  BY Initially, Inductive, PTL DEF Spec

\* A picture handed over is the finished frame it is taken for, but for one
\* late load.
THEOREM PicturesNearlyWhole == Spec => []NearlyWhole
<1>1. IInv => NearlyWhole
  BY DEF IInv
<1> QED BY <1>1, Invariance, PTL

\* The bounds: a frame begins only while there is a number left for its end
LEMMA ShmTypeStarts == Init => TypeOK
<1> SUFFICES ASSUME Init PROVE TypeOK OBVIOUS
<1>1. 0 \in 0..MaxBuffers /\ 0 \in 0..MaxFrames /\ 0 \in 0..IdleLimit /\ 0 \in 0..OpenTries
  BY BoundsAssumption
<1>2. 0 \in 0..2 * MaxFrames BY BoundsAssumption
<1>3. /\ made \in 0..MaxBuffers /\ name \in 0..made /\ mapped \in 0..made
      /\ idle \in 0..IdleLimit /\ tries \in 0..OpenTries
  BY <1>1 DEF Init
<1>4. header \in [Buffers -> {"blank", "wide", "full"}] /\ seq \in [Buffers -> 0..2 * MaxFrames]
  BY <1>2 DEF Init
<1>5. cell \in [Buffers -> [Parts -> 0..MaxFrames]] BY <1>1 DEF Init
<1> QED BY <1>3, <1>4, <1>5 DEF Init, TypeOK

LEMMA ShmTypeSteps == IInv /\ IInv' /\ TypeOK /\ [Next]_shmVars => TypeOK'
<1> SUFFICES ASSUME IInv, IInv', TypeOK, [Next]_shmVars PROVE TypeOK' OBVIOUS
<1>1. /\ MaxBuffers \in Nat /\ MaxFrames \in Nat /\ OpenTries \in Nat /\ IdleLimit \in Nat
  BY BoundsAssumption
<1>2. /\ made' \in Nat /\ made' <= MaxBuffers /\ name' \in {0, made'}
      /\ seq' \in [Buffers -> Nat] /\ cell' \in [Buffers -> [Parts -> Nat]]
      /\ \A b \in Buffers, q \in Parts :
           /\ cell'[b][q] \in {seq'[b] \div 2, seq'[b] \div 2 + 1}
           /\ ~Odd(seq'[b]) => cell'[b][q] = seq'[b] \div 2
      /\ copy' \in [Parts -> Nat] /\ copied' \subseteq Parts /\ lastSeq' \in Nat /\ snap' \in Nat
      /\ taken' \in [buffer : Nat, frame : Nat]
  BY DEF IInv, WriterOK, CellsOK, ReaderOK, TakenOK
<1>3. /\ made \in Nat /\ made <= MaxBuffers /\ seq \in [Buffers -> Nat]
      /\ wpc \in {"init", "idle", "draw"} => made \in Buffers
      /\ wpc = "draw" => Odd(seq[made])
      /\ copy \in [Parts -> Nat]
  BY DEF IInv, WriterOK, ReaderOK
<1>4. \A b \in Buffers : seq'[b] <= 2 * MaxFrames
  <2> SUFFICES ASSUME NEW b \in Buffers PROVE seq'[b] <= 2 * MaxFrames OBVIOUS
  <2>1. seq[b] \in Nat /\ seq[b] <= 2 * MaxFrames BY <1>1 DEF TypeOK
  <2>2. CASE DrawBegins BY <1>1, <1>3, <2>1, <2>2 DEF DrawBegins
  <2>3. CASE DrawEnds
    <3>1. made \in Buffers /\ Odd(seq[made]) /\ seq[made] \in Nat BY <1>3, <2>3 DEF DrawEnds
    <3>2. seq[made] = 2 * (seq[made] \div 2) + 1 /\ seq[made] \div 2 \in Nat BY <3>1, Halves
    <3>3. seq[made] <= 2 * MaxFrames BY <1>1, <3>1 DEF TypeOK
    <3>4. 2 * (seq[made] \div 2) + 2 <= 2 * MaxFrames BY <1>1, <3>2, <3>3
    <3> QED BY <1>3, <2>1, <2>3, <3>4 DEF DrawEnds
  <2>4. CASE seq' = seq BY <2>1, <2>4
  <2>5. DrawBegins \/ DrawEnds \/ seq' = seq
    BY DEF Next, shmVars, bufVars, Comp, Reader, CompStarts, CompCreates, CompWidth, CompHeight,
       DrawPart, CompQuits, CompKilled, OpenFails, OpenEarly, Attach, CopyBegins, CopyPart,
       CheckPasses, CheckFails, HandOver, PollIdle
  <2> QED BY <2>2, <2>3, <2>4, <2>5
<1>5. seq' \in [Buffers -> 0..2 * MaxFrames] BY <1>1, <1>2, <1>4
<1>6. cell' \in [Buffers -> [Parts -> 0..MaxFrames]]
  <2>1. ASSUME NEW b \in Buffers, NEW q \in Parts PROVE cell'[b][q] \in 0..MaxFrames
    <3>1. seq'[b] \in Nat /\ seq'[b] <= 2 * MaxFrames /\ cell'[b][q] \in Nat BY <1>2, <1>4
    <3>2. seq'[b] \div 2 \in Nat BY <3>1, Halves
    <3>3. CASE Odd(seq'[b])
      <4>1. seq'[b] = 2 * (seq'[b] \div 2) + 1 BY <3>1, <3>3, Halves
      <4>2. cell'[b][q] <= seq'[b] \div 2 + 1 BY <1>2, <3>2
      <4> QED BY <1>1, <3>1, <3>2, <4>1, <4>2
    <3>4. CASE ~Odd(seq'[b])
      <4>1. 2 * (seq'[b] \div 2) = seq'[b] BY <3>1, <3>4, Halves
      <4>2. cell'[b][q] = seq'[b] \div 2 BY <1>2, <3>4
      <4> QED BY <1>1, <3>1, <3>2, <4>1, <4>2
    <3> QED BY <3>3, <3>4
  <2>2. \A b \in Buffers : cell'[b] \in [Parts -> 0..MaxFrames]
    <3> SUFFICES ASSUME NEW b \in Buffers PROVE cell'[b] \in [Parts -> 0..MaxFrames] OBVIOUS
    <3>1. cell'[b] \in [Parts -> Nat] BY <1>2
    <3> QED BY <2>1, <3>1
  <2> QED BY <1>2, <2>2
<1>7. /\ header' \in [Buffers -> {"blank", "wide", "full"}]
      /\ wpc' \in {"down", "start", "init", "idle", "draw"} /\ drawn' \subseteq Parts
  BY DEF TypeOK, Next, shmVars, bufVars, compVars, Comp, Reader, CompStarts, CompCreates, CompWidth,
     CompHeight, DrawBegins, DrawPart, DrawEnds, CompQuits, CompKilled, OpenFails, OpenEarly,
     Attach, CopyBegins, CopyPart, CheckPasses, CheckFails, HandOver, PollIdle
<1>8. /\ rpc' \in {"open", "poll", "copy", "late", "ended"} /\ flat' \in BOOLEAN
      /\ idle' \in 0..IdleLimit /\ tries' \in 0..OpenTries /\ picture' \in [Parts -> Nat]
  <2>1. CASE Comp \/ UNCHANGED shmVars
    BY <2>1 DEF TypeOK, shmVars, readVars, Comp, CompStarts, CompCreates, CompWidth, CompHeight,
       DrawBegins, DrawPart, DrawEnds, CompQuits, CompKilled
  <2>2. CASE OpenFails \/ OpenEarly BY <1>1, <2>2 DEF TypeOK, OpenFails, OpenEarly
  <2>3. CASE Attach BY <1>1, <2>3 DEF TypeOK, Attach
  <2>4. CASE CopyBegins \/ (\E q \in Parts : CopyPart(q)) \/ CheckPasses \/ CheckFails
    BY <2>4 DEF TypeOK, CopyBegins, CopyPart, CheckPasses, CheckFails
  <2>5. CASE HandOver BY <1>1, <1>3, <2>5 DEF TypeOK, HandOver
  <2>6. CASE PollIdle BY <1>1, <2>6 DEF TypeOK, PollIdle
  <2> QED BY <2>1, <2>2, <2>3, <2>4, <2>5, <2>6 DEF Next, Reader
<1>9. mapped' \in 0..made'
  <2>1. mapped' = mapped \/ mapped' = name
    BY DEF Next, shmVars, readVars, Comp, Reader, CompStarts, CompCreates, CompWidth,
       CompHeight, DrawBegins, DrawPart, DrawEnds, CompQuits, CompKilled, OpenFails, OpenEarly,
       Attach, CopyBegins, CopyPart, CheckPasses, CheckFails, HandOver, PollIdle
  <2>2. made' = made \/ made' = made + 1
    BY DEF Next, shmVars, bufVars, Comp, Reader, CompStarts, CompCreates, CompWidth, CompHeight,
       DrawBegins, DrawPart, DrawEnds, CompQuits, CompKilled, OpenFails, OpenEarly,
       Attach, CopyBegins, CopyPart, CheckPasses, CheckFails, HandOver, PollIdle
  <2> QED BY <1>3, <2>1, <2>2 DEF TypeOK
<1> QED
  <2>1. made' \in 0..MaxBuffers /\ name' \in 0..made' BY <1>1, <1>2
  <2> QED BY <1>2, <1>5, <1>6, <1>7, <1>8, <1>9, <2>1 DEF TypeOK

\* Buffers and frames stay within their numbers, and the reader within its
\* states, whenever either side is ended (imira-comp.cpp main, shmsource.cpp
\* start).
THEOREM ShmTypes == Spec => []TypeOK
BY ShmTypeStarts, Invariance, ShmTypeSteps, PTL DEF Spec

LEMMA ExchangeInit == Init => Exchange!Init
  BY SMT DEF Init, Exchange!Init

\* Finishing a frame publishes it, handing one over takes it, and no other
\* step means anything to the exchange.
LEMMA ExchangeStep ==
  ASSUME IInv, [Next]_shmVars
  PROVE  [Exchange!Next]_(Exchange!exchangeVars)
<1> DEFINE count == [buf \in Buffers |-> seq[buf] \div 2]
           Stutter == UNCHANGED Exchange!exchangeVars
<1> USE DEF IInv
<1>0. ASSUME UNCHANGED <<seq, taken>> PROVE Stutter
  BY <1>0 DEF Exchange!exchangeVars
<1>1. CASE DrawBegins
  <2>1. made \in Buffers /\ seq[made] \in Nat /\ ~Odd(seq[made])
    BY <1>1 DEF DrawBegins, WriterOK
  <2>2. (seq[made] + 1) \div 2 = seq[made] \div 2
    BY <2>1, Halves
  <2>3. /\ seq' = [seq EXCEPT ![made] = seq[made] + 1]
        /\ seq \in [Buffers -> Nat] /\ UNCHANGED taken
    BY <1>1 DEF DrawBegins, WriterOK
  <2>4. \A b \in Buffers : seq'[b] \div 2 = seq[b] \div 2
    BY <2>1, <2>2, <2>3
  <2>5. count' = count
    BY <2>4
  <2> QED BY <2>3, <2>5 DEF Exchange!exchangeVars
<1>2. CASE DrawEnds
  <2> DEFINE k == seq[made] \div 2
  <2>1. made \in Buffers /\ k \in Nat
    BY <1>2, Halves DEF DrawEnds, WriterOK
  <2>2. /\ seq' = [seq EXCEPT ![made] = 2 * k + 2]
        /\ seq \in [Buffers -> Nat] /\ UNCHANGED taken
    BY <1>2 DEF DrawEnds, WriterOK
  <2>3. (2 * k + 2) \div 2 = k + 1
    BY <2>1, Finished
  <2>4. \A b \in Buffers :
          seq'[b] \div 2 = IF b = made THEN k + 1 ELSE seq[b] \div 2
    BY <2>1, <2>2, <2>3
  <2>5. PICK b \in Buffers : b = made
    BY <2>1
  <2>6. count' = [count EXCEPT ![b] = @ + 1]
    BY <2>1, <2>4, <2>5
  <2>7. Exchange!Publish(b)
    <3>1. UNCHANGED taken
      BY <2>2
    <3> QED BY <2>6, <3>1, Zenon DEF Exchange!Publish
  <2> QED BY <2>7 DEF Exchange!Next
<1>3. CASE HandOver
  <2>1. UNCHANGED seq
    BY <1>3 DEF HandOver, bufVars
  <2>2. CASE flat
    BY <1>0, <1>3, <2>1, <2>2 DEF HandOver
  <2>3. CASE ~flat
    <3> DEFINE n == snap \div 2
    <3>1. taken' = [buffer |-> mapped, frame |-> n]
      BY <1>3, <2>3 DEF HandOver
    <3>2. /\ mapped \in Buffers /\ snap \in Nat /\ snap > 0 /\ ~Odd(snap)
          /\ snap <= seq[mapped] /\ seq[mapped] \in Nat
          /\ mapped >= taken.buffer
          /\ mapped = taken.buffer => 2 * taken.frame <= snap
      BY <1>3 DEF HandOver, ReaderOK, TakenOK, WriterOK, Attached, Copying
    <3>3. n \in Nat /\ 2 * n = snap /\ n <= seq[mapped] \div 2
      BY <3>2, Halves, HalfGrows
    <3>4. seq[mapped] \div 2 \in Nat /\ taken.frame \in Nat
      BY <3>2, Halves DEF TakenOK
    <3> HIDE DEF n
    <3>5. n \in 1..(seq[mapped] \div 2)
      BY <3>2, <3>3, <3>4
    <3>6. mapped = taken.buffer => n >= taken.frame
      BY <3>2, <3>3, <3>4
    <3>7. count[mapped] = seq[mapped] \div 2 /\ count' = count
      BY <2>1, <3>2
    <3>8. Exchange!Take(mapped)
      BY <3>1, <3>2, <3>5, <3>6, <3>7 DEF Exchange!Take
    <3> QED BY <3>2, <3>8 DEF Exchange!Next
  <2> QED BY <2>2, <2>3
<1>4. ASSUME Reader, ~HandOver PROVE UNCHANGED <<seq, taken>>
  BY <1>4 DEF Reader, OpenFails, OpenEarly, Attach, CopyBegins, CopyPart,
              CheckPasses, CheckFails, PollIdle, bufVars
<1>5. ASSUME Comp, ~DrawBegins, ~DrawEnds PROVE UNCHANGED <<seq, taken>>
  BY <1>5 DEF Comp, CompStarts, CompCreates, CompWidth, CompHeight, DrawPart,
              CompQuits, CompKilled, bufVars
<1>6. CASE UNCHANGED shmVars
  BY <1>0, <1>6 DEF shmVars, bufVars
<1> QED BY <1>0, <1>1, <1>2, <1>3, <1>4, <1>5, <1>6 DEF Next

\* The shared memory implements an exchange of finished frames in order.
THEOREM ShmImplementsExchange == Spec => ImplementsExchange
<1>1. Init => Exchange!Init
  BY ExchangeInit
<1>2. IInv /\ [Next]_shmVars => [Exchange!Next]_(Exchange!exchangeVars)
  BY ExchangeStep
<1> QED BY <1>1, <1>2, Invariance, PTL DEF Spec, ImplementsExchange, Exchange!Spec

-------------------------------------------------------------------------------
(* Lists of windows *)

\* v comes before w in q
Before(q, v, w) == \E i, j \in DOMAIN q : i < j /\ q[i] = v /\ q[j] = w

\* The positions of q that Without keeps
Kept(q, W) == {i \in DOMAIN q : q[i] \notin W}

LEMMA PartCounts ==
  ASSUME NEW m \in Nat, NEW K \in SUBSET (1..m), NEW J \in SUBSET K
  PROVE  /\ IsFiniteSet(K) /\ IsFiniteSet(J) /\ Cardinality(J) \in Nat /\ Cardinality(K) \in Nat
         /\ Cardinality(J) <= Cardinality(K)
         /\ J # {} => Cardinality(J) > 0
         /\ Cardinality(J) = Cardinality(K) => J = K
<1>1. IsFiniteSet(1..m) BY FS_Interval
<1>2. IsFiniteSet(K) BY <1>1, FS_Subset
<1>3. /\ IsFiniteSet(J) /\ Cardinality(J) <= Cardinality(K)
      /\ Cardinality(K) = Cardinality(J) => K = J
  BY <1>2, FS_Subset
<1>4. Cardinality(K) \in Nat /\ Cardinality(J) \in Nat BY <1>2, <1>3, FS_CardinalityType
<1>5. J # {} => Cardinality(J) # 0 BY <1>3, FS_EmptySet
<1> QED BY <1>2, <1>3, <1>4, <1>5

LEMMA RankIn ==
  ASSUME NEW m \in Nat, NEW K \in SUBSET (1..m), NEW i \in K
  PROVE  Rank(K, i) \in 1..Cardinality(K)
<1> DEFINE J == {j \in K : j <= i}
<1>1. J \in SUBSET K /\ i \in J OBVIOUS
<1>2. /\ Cardinality(J) \in Nat /\ Cardinality(K) \in Nat /\ Cardinality(J) <= Cardinality(K)
      /\ Cardinality(J) > 0
  <2> HIDE DEF J
  <2> QED BY <1>1, PartCounts
<1> QED BY <1>2 DEF Rank

LEMMA RankRises ==
  ASSUME NEW m \in Nat, NEW K \in SUBSET (1..m)
  PROVE  \A i, j \in K : i < j => Rank(K, i) < Rank(K, j)
<1> SUFFICES ASSUME NEW i \in K, NEW j \in K, i < j PROVE Rank(K, i) < Rank(K, j)
  OBVIOUS
<1> DEFINE I == {k \in K : k <= i}
           J == {k \in K : k <= j}
<1>1. i \in Int /\ j \in Int /\ \A k \in K : k \in Int OBVIOUS
<1>2. I \subseteq J
  <2>1. \A k \in K : k <= i => k <= j BY <1>1
  <2> QED BY <2>1
<1>3. J \subseteq 1..m OBVIOUS
<1>4. j \in J /\ j \notin I BY <1>1
<1>5. /\ Cardinality(I) \in Nat /\ Cardinality(J) \in Nat /\ Cardinality(I) <= Cardinality(J)
      /\ Cardinality(I) # Cardinality(J)
  <2> HIDE DEF I, J
  <2> QED BY <1>2, <1>3, <1>4, PartCounts
<1> QED BY <1>5 DEF Rank

\* No two elements have the same rank
LEMMA RankTells ==
  ASSUME NEW m \in Nat, NEW K \in SUBSET (1..m)
  PROVE  /\ \A i, j \in K : Rank(K, i) < Rank(K, j) => i < j
         /\ \A i, j \in K : Rank(K, i) = Rank(K, j) => i = j
<1> SUFFICES ASSUME NEW i \in K, NEW j \in K
             PROVE  (Rank(K, i) < Rank(K, j) => i < j) /\ (Rank(K, i) = Rank(K, j) => i = j)
  OBVIOUS
<1>1. i \in Int /\ j \in Int OBVIOUS
<1>2. Rank(K, i) \in Int /\ Rank(K, j) \in Int
  <2>1. Cardinality(K) \in Nat BY PartCounts
  <2>2. Rank(K, i) \in 1..Cardinality(K) /\ Rank(K, j) \in 1..Cardinality(K) BY RankIn
  <2> QED BY <2>1, <2>2
<1>3. (i < j => Rank(K, i) < Rank(K, j)) /\ (j < i => Rank(K, j) < Rank(K, i)) BY RankRises
<1> QED BY <1>1, <1>2, <1>3

\* Each rank up to the number of elements is some element's
LEMMA Ranked ==
  ASSUME NEW m \in Nat, NEW K \in SUBSET (1..m), NEW n \in 1..Cardinality(K)
  PROVE  \E i \in K : Rank(K, i) = n
<1> DEFINE f == [i \in K |-> Rank(K, i)]
           N == 1..Cardinality(K)
<1>1. \A i \in K : Rank(K, i) \in N BY RankIn
<1>2. f \in [K -> N] BY <1>1
<1>3. \A i, j \in K : f[i] = f[j] => i = j BY RankTells
<1>4. f \in Injection(K, N)
  <2> HIDE DEF f, N
  <2> QED BY <1>2, <1>3, Fun_IsInj
<1>5. Cardinality(K) \in Nat BY PartCounts
<1>6. IsFiniteSet(N) /\ Cardinality(N) = Cardinality(K) BY <1>5, FS_Interval
<1>7. f \in Surjection(K, N)
  <2> HIDE DEF f, N
  <2> QED BY <1>4, <1>6, FS_Injection
<1>8. \A t \in N : \E i \in K : f[i] = t
  <2> HIDE DEF f, N
  <2> QED BY <1>7, Fun_SurjectionProperties
<1> QED BY <1>8

\* Where the elements of Without come from
From(q, W) == [n \in 1..Cardinality(Kept(q, W)) |->
                 CHOOSE i \in Kept(q, W) : Rank(Kept(q, W), i) = n]

LEMMA FromIs ==
  ASSUME NEW S, NEW q \in Seq(S), NEW W
  PROVE  LET K == Kept(q, W)
             f == From(q, W)
             r == Without(q, W)
         IN /\ r \in Seq(S) /\ DOMAIN r = 1..Len(r) /\ Len(r) = Cardinality(K)
            /\ \A n \in DOMAIN r : f[n] \in K /\ Rank(K, f[n]) = n /\ r[n] = q[f[n]]
            /\ \A n, k \in DOMAIN r : n < k => f[n] < f[k]
            /\ \A i \in K : \E n \in DOMAIN r : f[n] = i
<1> DEFINE K == Kept(q, W)
           f == From(q, W)
           r == Without(q, W)
           c == Cardinality(K)
<1>1. Len(q) \in Nat /\ DOMAIN q = 1..Len(q) OBVIOUS
<1>2. K \in SUBSET (1..Len(q)) BY <1>1 DEF Kept
<1>3. c \in Nat BY <1>1, <1>2, PartCounts
<1>4. ASSUME NEW n \in 1..c PROVE f[n] \in K /\ Rank(K, f[n]) = n
  <2>1. f[n] = CHOOSE i \in K : Rank(K, i) = n BY DEF From
  <2>2. \E i \in K : Rank(K, i) = n
    <3> HIDE DEF K
    <3> QED BY <1>1, <1>2, Ranked
  <2> HIDE DEF f, K
  <2> QED BY <2>1, <2>2
<1>5. r = [n \in 1..c |-> q[f[n]]] BY DEF Without, Kept, From
<1>6. \A n \in 1..c : q[f[n]] \in S BY <1>4 DEF Kept
<1>7. r \in Seq(S) /\ DOMAIN r = 1..c /\ Len(r) = c
  <2> HIDE DEF r, f, c
  <2> QED BY <1>3, <1>5, <1>6
<1>8. ASSUME NEW n \in 1..c, NEW k \in 1..c, n < k PROVE f[n] < f[k]
  <2>1. f[n] \in K /\ f[k] \in K /\ Rank(K, f[n]) = n /\ Rank(K, f[k]) = k BY <1>4
  <2>2. Rank(K, f[n]) < Rank(K, f[k]) BY <1>8, <2>1
  <2> HIDE DEF K, f
  <2> QED BY <1>1, <1>2, <2>1, <2>2, RankTells
<1>9. ASSUME NEW i \in K PROVE \E n \in 1..c : f[n] = i
  <2>1. Rank(K, i) \in 1..c
    <3> HIDE DEF K
    <3> QED BY <1>1, <1>2, RankIn
  <2>2. f[Rank(K, i)] \in K /\ Rank(K, f[Rank(K, i)]) = Rank(K, i) BY <2>1, <1>4
  <2>3. f[Rank(K, i)] = i
    <3> HIDE DEF K, f, c
    <3> QED BY <1>1, <1>2, <2>2, RankTells
  <2> QED BY <2>1, <2>3
<1> QED
  <2> HIDE DEF K, f, r, c
  <2>1. Len(r) = Cardinality(K) BY <1>7 DEF c
  <2>2. DOMAIN r = 1..c /\ Len(r) = c BY <1>7
  <2>3. \A n \in DOMAIN r : f[n] \in K /\ Rank(K, f[n]) = n /\ r[n] = q[f[n]] BY <2>2, <1>4, <1>5
  <2>4. \A n, k \in DOMAIN r : n < k => f[n] < f[k] BY <2>2, <1>8
  <2>5. \A i \in K : \E n \in DOMAIN r : f[n] = i BY <2>2, <1>9
  <2> QED BY <1>7, <2>1, <2>2, <2>3, <2>4, <2>5 DEF K, f, r

\* What is left of a list: its other elements, in their order
LEMMA WithoutIs ==
  ASSUME NEW S, NEW q \in Seq(S), Distinct(q), NEW W
  PROVE  LET r == Without(q, W)
         IN /\ r \in Seq(S) /\ Distinct(r) /\ Elements(r) = Elements(q) \ W
            /\ \A v, w : Before(r, v, w) <=> Before(q, v, w) /\ v \notin W /\ w \notin W
<1> DEFINE K == Kept(q, W)
           f == From(q, W)
           r == Without(q, W)
<1>1. /\ r \in Seq(S) /\ DOMAIN r = 1..Len(r) /\ Len(r) = Cardinality(K)
      /\ \A n \in DOMAIN r : f[n] \in K /\ Rank(K, f[n]) = n /\ r[n] = q[f[n]]
      /\ \A n, k \in DOMAIN r : n < k => f[n] < f[k]
      /\ \A i \in K : \E n \in DOMAIN r : f[n] = i
  BY FromIs
<1>2. Len(r) \in Nat /\ Len(q) \in Nat /\ DOMAIN q = 1..Len(q) BY <1>1
<1>3. \A i : i \in K <=> i \in DOMAIN q /\ q[i] \notin W BY DEF Kept
<1> HIDE DEF K, f, r
<1>4. Distinct(r)
  <2> SUFFICES ASSUME NEW n \in DOMAIN r, NEW k \in DOMAIN r, r[n] = r[k] PROVE n = k
    BY DEF Distinct
  <2>1. q[f[n]] = q[f[k]] /\ f[n] \in DOMAIN q /\ f[k] \in DOMAIN q BY <1>1, <1>3
  <2>2. f[n] = f[k] BY <2>1 DEF Distinct
  <2> QED BY <1>1, <2>2
<1>5. Elements(r) = Elements(q) \ W
  <2>1. ASSUME NEW n \in DOMAIN r PROVE r[n] \in Elements(q) \ W
    BY <1>1, <1>3 DEF Elements
  <2>2. ASSUME NEW i \in DOMAIN q, q[i] \notin W PROVE q[i] \in Elements(r)
    <3>1. PICK n \in DOMAIN r : f[n] = i BY <1>1, <1>3, <2>2
    <3> QED BY <1>1, <3>1 DEF Elements
  <2> QED BY <2>1, <2>2 DEF Elements
<1>6. ASSUME NEW v, NEW w
      PROVE  Before(r, v, w) <=> Before(q, v, w) /\ v \notin W /\ w \notin W
  <2>1. ASSUME Before(r, v, w) PROVE Before(q, v, w) /\ v \notin W /\ w \notin W
    <3>1. PICK n, k \in DOMAIN r : n < k /\ r[n] = v /\ r[k] = w BY <2>1 DEF Before
    <3>2. f[n] \in DOMAIN q /\ f[k] \in DOMAIN q /\ f[n] < f[k] /\ q[f[n]] = v /\ q[f[k]] = w
      BY <1>1, <1>3, <3>1
    <3>3. q[f[n]] \notin W /\ q[f[k]] \notin W BY <1>1, <1>3
    <3> QED BY <3>2, <3>3 DEF Before
  <2>2. ASSUME Before(q, v, w), v \notin W, w \notin W PROVE Before(r, v, w)
    <3>1. PICK i, j \in DOMAIN q : i < j /\ q[i] = v /\ q[j] = w BY <2>2 DEF Before
    <3>2. i \in K /\ j \in K BY <1>3, <2>2, <3>1
    <3>3. PICK n \in DOMAIN r : f[n] = i BY <1>1, <3>2
    <3>4. PICK k \in DOMAIN r : f[k] = j BY <1>1, <3>2
    <3>5. n \in Int /\ k \in Int /\ i \in Int /\ j \in Int BY <1>1, <1>2
    <3>6. ~(k < n) /\ n # k BY <1>1, <3>1, <3>3, <3>4, <3>5
    <3>7. n < k BY <3>5, <3>6
    <3>8. r[n] = v /\ r[k] = w BY <1>1, <3>1, <3>3, <3>4
    <3> QED BY <3>7, <3>8 DEF Before
  <2> QED BY <2>1, <2>2
<1> QED BY <1>1, <1>4, <1>5, <1>6 DEF r

\* A new element comes behind the others
LEMMA AppendIs ==
  ASSUME NEW S, NEW q \in Seq(S), Distinct(q), NEW x \in S, x \notin Elements(q)
  PROVE  LET r == Append(q, x)
         IN /\ r \in Seq(S) /\ Distinct(r) /\ Elements(r) = Elements(q) \cup {x}
            /\ \A v, w : Before(r, v, w) <=> Before(q, v, w) \/ (v \in Elements(q) /\ w = x)
<1> DEFINE r == Append(q, x)
           n == Len(q)
<1>1. /\ n \in Nat /\ DOMAIN q = 1..n /\ r \in Seq(S) /\ DOMAIN r = 1..n + 1
      /\ r[n + 1] = x /\ \A i \in 1..n : r[i] = q[i]
  OBVIOUS
<1> HIDE DEF r, n
<1>2. \A i \in 1..n : q[i] # x BY <1>1 DEF Elements
<1>3. \A i \in 1..n + 1 : i = n + 1 \/ i \in 1..n BY <1>1
<1>4. \A i \in 1..n : i \in 1..n + 1 /\ i < n + 1 BY <1>1
<1>5. Distinct(r)
  <2> SUFFICES ASSUME NEW i \in 1..n + 1, NEW j \in 1..n + 1, r[i] = r[j] PROVE i = j
    BY <1>1 DEF Distinct
  <2> QED BY <1>1, <1>2, <1>3 DEF Distinct
<1>6. Elements(r) = Elements(q) \cup {x}
  <2>1. \A i \in 1..n + 1 : r[i] \in Elements(q) \cup {x} BY <1>1, <1>3 DEF Elements
  <2>2. \A i \in 1..n : q[i] \in Elements(r) BY <1>1, <1>4 DEF Elements
  <2>3. x \in Elements(r) BY <1>1 DEF Elements
  <2> QED BY <1>1, <2>1, <2>2, <2>3 DEF Elements
<1>7. ASSUME NEW v, NEW w
      PROVE  Before(r, v, w) <=> Before(q, v, w) \/ (v \in Elements(q) /\ w = x)
  <2>1. ASSUME Before(r, v, w) PROVE Before(q, v, w) \/ (v \in Elements(q) /\ w = x)
    <3>1. PICK i, j \in 1..n + 1 : i < j /\ r[i] = v /\ r[j] = w BY <1>1, <2>1 DEF Before
    <3>2. i \in 1..n BY <1>1, <3>1
    <3>3. CASE j = n + 1 BY <1>1, <3>1, <3>2, <3>3 DEF Elements
    <3>4. CASE j \in 1..n BY <1>1, <3>1, <3>2, <3>4 DEF Before
    <3> QED BY <1>3, <3>3, <3>4
  <2>2. ASSUME Before(q, v, w) PROVE Before(r, v, w)
    <3>1. PICK i, j \in 1..n : i < j /\ q[i] = v /\ q[j] = w BY <1>1, <2>2 DEF Before
    <3> QED BY <1>1, <1>4, <3>1 DEF Before
  <2>3. ASSUME v \in Elements(q), w = x PROVE Before(r, v, w)
    <3>1. PICK i \in 1..n : q[i] = v BY <1>1, <2>3 DEF Elements
    <3>2. n + 1 \in 1..n + 1 BY <1>1
    <3>3. r[i] = v /\ r[n + 1] = w /\ i < n + 1 /\ i \in 1..n + 1 BY <1>1, <1>4, <2>3, <3>1
    <3> QED BY <1>1, <3>2, <3>3 DEF Before
  <2> QED BY <2>1, <2>2, <2>3
<1> QED BY <1>1, <1>5, <1>6, <1>7 DEF r

\* raise(): x is behind all others, and they are as they were
LEMMA RaisedIs ==
  ASSUME NEW S, NEW q \in Seq(S), Distinct(q), NEW x \in S
  PROVE  LET r == Append(Without(q, {x}), x)
         IN /\ r \in Seq(S) /\ Distinct(r) /\ Elements(r) = Elements(q) \cup {x}
            /\ \A v, w : w # x => (Before(r, v, w) <=> Before(q, v, w) /\ v # x)
<1> DEFINE l == Without(q, {x})
<1>1. /\ l \in Seq(S) /\ Distinct(l) /\ Elements(l) = Elements(q) \ {x}
      /\ \A v, w : Before(l, v, w) <=> Before(q, v, w) /\ v \notin {x} /\ w \notin {x}
  BY WithoutIs
<1> HIDE DEF l
<1>2. LET r == Append(l, x)
      IN /\ r \in Seq(S) /\ Distinct(r) /\ Elements(r) = Elements(l) \cup {x}
         /\ \A v, w : Before(r, v, w) <=> Before(l, v, w) \/ (v \in Elements(l) /\ w = x)
  BY <1>1, AppendIs
<1> QED BY <1>1, <1>2 DEF l

\* removeChrome(): the last of those left is raised, and is the last as before
LEMMA TopStays ==
  ASSUME NEW S, NEW q \in Seq(S), Distinct(q), NEW W, Without(q, W) # <<>>
  PROVE  LET l == Without(q, W)
         IN Append(Without(q, W \cup {Top(l)}), Top(l)) = l
<1> DEFINE l == Without(q, W)
           n == Len(l)
           K == Kept(q, W)
           f == From(q, W)
           V == W \cup {l[n]}
           J == Kept(q, V)
           g == From(q, V)
           r == Without(q, V)
<1>1. /\ l \in Seq(S) /\ DOMAIN l = 1..n /\ n = Cardinality(K)
      /\ \A i \in DOMAIN l : f[i] \in K /\ Rank(K, f[i]) = i /\ l[i] = q[f[i]]
      /\ \A i, j \in DOMAIN l : i < j => f[i] < f[j]
      /\ \A i \in K : \E j \in DOMAIN l : f[j] = i
  BY FromIs
<1>2. /\ r \in Seq(S) /\ DOMAIN r = 1..Len(r) /\ Len(r) = Cardinality(J)
      /\ \A i \in DOMAIN r : g[i] \in J /\ Rank(J, g[i]) = i /\ r[i] = q[g[i]]
  BY FromIs
<1>3. n \in Nat /\ n > 0 /\ Len(q) \in Nat /\ DOMAIN q = 1..Len(q) BY <1>1
<1>4. K \in SUBSET (1..Len(q)) /\ J \in SUBSET (1..Len(q)) BY <1>3 DEF Kept
<1>5. n \in 1..n BY <1>3
<1>6. f[n] \in K /\ l[n] = q[f[n]] BY <1>1, <1>5
<1>7. J = K \ {f[n]}
  <2>1. \A i \in K : q[i] = l[n] <=> i = f[n] BY <1>6 DEF Distinct, Kept
  <2>2. \A i : i \in J <=> i \in K /\ q[i] # l[n] BY DEF Kept
  <2> QED BY <2>1, <2>2
<1>8. Cardinality(J) = n - 1
  <2>1. IsFiniteSet(K) BY <1>3, <1>4, PartCounts
  <2> HIDE DEF K, J, f, n
  <2> QED BY <1>1, <1>6, <1>7, <2>1, FS_RemoveElement
<1> HIDE DEF l, n, K, f, J, g, r
<1>9. \A i \in 1..n - 1 : f[i] \in J /\ Rank(J, f[i]) = i
  <2> SUFFICES ASSUME NEW i \in 1..n - 1 PROVE f[i] \in J /\ Rank(J, f[i]) = i OBVIOUS
  <2>1. i \in 1..n /\ i < n BY <1>3
  <2>2. f[i] \in K /\ f[i] < f[n] /\ Rank(K, f[i]) = i BY <1>1, <1>5, <2>1
  <2>3. f[i] \in Int /\ f[n] \in Int
    <3>1. \A k \in K : k \in Int BY <1>3, <1>4
    <3> QED BY <1>6, <2>2, <3>1
  <2>4. {k \in J : k <= f[i]} = {k \in K : k <= f[i]} BY <1>7, <2>2, <2>3
  <2>5. f[i] \in J BY <1>7, <2>2, <2>3
  <2>6. Rank(J, f[i]) = Rank(K, f[i]) BY <2>4 DEF Rank
  <2> QED BY <2>2, <2>5, <2>6
<1>10. \A i \in 1..n - 1 : r[i] = l[i]
  <2> SUFFICES ASSUME NEW i \in 1..n - 1 PROVE r[i] = l[i] OBVIOUS
  <2>1. i \in DOMAIN r /\ i \in DOMAIN l BY <1>1, <1>2, <1>3, <1>8
  <2>2. g[i] \in J /\ Rank(J, g[i]) = i /\ r[i] = q[g[i]] BY <1>2, <2>1
  <2>3. g[i] = f[i] BY <1>3, <1>4, <1>9, <2>2, RankTells
  <2> QED BY <1>1, <2>1, <2>2, <2>3
<1>11. Len(r) = n - 1 BY <1>2, <1>8
<1>12. Append(r, l[n]) = l
  <2>1. l[n] \in S BY <1>1, <1>5
  <2> QED BY <1>1, <1>2, <1>3, <1>10, <1>11, <2>1 DEF n
<1> QED BY <1>12 DEF r, l, n, Top

--------------------------------------------------------------------------------
(* The inductive invariant of the windows *)

\* The list, the picture and the windows are the same
Listed ==
  /\ chromes \in Seq(Addresses) /\ Distinct(chromes) /\ stack = chromes
  /\ of \in [Addresses -> Surfaces \cup {NoSurface}]
  /\ {w \in Addresses : of[w] # NoSurface} = Elements(chromes)
  /\ focus \in Surfaces \cup {NoSurface}

\* A surface asks for the removal of its own window at least
Heard == \A w \in Elements(chromes) : w \in hooks[of[w]]

Windows == Listed /\ ChromeHasSurface /\ Heard

\* What has a surface is a client that has begun, and may be over
Begun == \A s \in Surfaces : surf[s] # "none" => proc[Owner[s]] \in {"app", "dead"}

World ==
  /\ proc \in [Clients -> {"none", "sh", "app", "dead"}]
  /\ surf \in [Surfaces -> {"none", "mapped", "hidden"}]
  /\ hooks \in [Surfaces -> SUBSET Addresses]
  /\ Begun

Input ==
  /\ minimized \subseteq Elements(chromes) /\ docked \subseteq Apps /\ ended \in BOOLEAN
  /\ grab \subseteq Addresses /\ Cardinality(grab) <= MaxHeld

DesktopInv == Windows /\ World /\ Input

LEMMA ParallelLists == Listed => StackIsDrawn
BY DEF Listed, StackIsDrawn

LEMMA InvTyped == DesktopInv => DesktopTypeOK
BY DEF DesktopInv, Windows, Listed, World, Input, DesktopTypeOK

LEMMA NothingListed == Elements(<<>>) = {} /\ Distinct(<<>>) /\ <<>> \in Seq(Addresses)
BY DEF Elements, Distinct

LEMMA NothingHeld == Cardinality({}) <= MaxHeld
BY FS_EmptySet, ClientsAssumption

\* The desktop as it starts, or starts anew
LEMMA Empty ==
  ASSUME proc = NoClients, surf = NoSurfaces, chromes = <<>>, stack = <<>>, of = NoWindows,
         hooks = NoHooks, focus = NoSurface
  PROVE  Windows /\ World
<1>1. Elements(chromes) = {} BY NothingListed
<1>2. Listed BY <1>1, NothingListed DEF Listed, NoWindows
<1>3. ChromeHasSurface /\ Heard BY <1>1 DEF ChromeHasSurface, Heard
<1>4. World BY DEF World, Begun, NoClients, NoSurfaces, NoHooks
<1> QED BY <1>2, <1>3, <1>4 DEF Windows

LEMMA DesktopStarts == DesktopInit => DesktopInv
<1> SUFFICES ASSUME DesktopInit PROVE DesktopInv OBVIOUS
<1>1. Windows /\ World BY Empty DEF DesktopInit
<1>2. Input BY NothingHeld DEF DesktopInit, Input
<1> QED BY <1>1, <1>2 DEF DesktopInv

\* A window that is raised: the list as a whole
LEMMA RaiseIs ==
  ASSUME Listed, NEW w \in Addresses, Raise(w)
  PROVE  /\ chromes' \in Seq(Addresses) /\ Distinct(chromes') /\ stack' = chromes'
         /\ Elements(chromes') = Elements(chromes) \cup {w} /\ focus' = of'[w]
         /\ \A u, v : v # w => (Before(chromes', u, v) <=> Before(chromes, u, v) /\ u # w)
<1>1. /\ chromes \in Seq(Addresses) /\ Distinct(chromes) /\ stack = chromes BY DEF Listed
<1>2. /\ chromes' = Append(Without(chromes, {w}), w) /\ stack' = Append(Without(stack, {w}), w)
      /\ focus' = of'[w]
  BY DEF Raise
<1>3. LET r == Append(Without(chromes, {w}), w)
      IN /\ r \in Seq(Addresses) /\ Distinct(r) /\ Elements(r) = Elements(chromes) \cup {w}
         /\ \A u, v : v # w => (Before(r, u, v) <=> Before(chromes, u, v) /\ u # w)
  BY <1>1, RaisedIs
<1> QED BY <1>1, <1>2, <1>3

\* Windows that are removed: those left keep their order
LEMMA RemoveIs ==
  ASSUME Listed, NEW W, NEW o \in Surfaces \cup {NoSurface}, RemoveChromes(W, o)
  PROVE  /\ Listed' /\ Elements(chromes') = Elements(chromes) \ W
         /\ \A w \in Elements(chromes') : of'[w] = of[w]
         /\ minimized' = minimized \ (W \cap Elements(chromes))
         /\ \A u, v : Before(chromes', u, v) => Before(chromes, u, v)
<1> DEFINE gone == W \cap Elements(chromes)
           left == Without(chromes, gone)
<1>1. /\ chromes \in Seq(Addresses) /\ Distinct(chromes) /\ stack = chromes
      /\ of \in [Addresses -> Surfaces \cup {NoSurface}]
      /\ {w \in Addresses : of[w] # NoSurface} = Elements(chromes)
  BY DEF Listed
<1>2. /\ of' = [w \in Addresses |-> IF w \in gone THEN NoSurface ELSE of[w]]
      /\ minimized' = minimized \ gone /\ chromes' = left
      /\ IF gone = {} \/ left = <<>>
         THEN stack' = Without(stack, gone) /\ focus' = o
         ELSE /\ stack' = Append(Without(stack, gone \cup {Top(left)}), Top(left))
              /\ focus' = of[Top(left)]
  BY DEF RemoveChromes
<1>3. /\ left \in Seq(Addresses) /\ Distinct(left) /\ Elements(left) = Elements(chromes) \ gone
      /\ \A u, v : Before(left, u, v) <=> Before(chromes, u, v) /\ u \notin gone /\ v \notin gone
  BY <1>1, WithoutIs
<1>4. Elements(chromes) \ gone = Elements(chromes) \ W OBVIOUS
<1>5. left # <<>> => Append(Without(chromes, gone \cup {Top(left)}), Top(left)) = left
  BY <1>1, TopStays
<1>6. left # <<>> => Top(left) \in Addresses
  <2> HIDE DEF left
  <2> QED BY <1>3 DEF Top
<1> HIDE DEF gone, left
<1>7. stack' = chromes'
  <2>1. CASE gone = {} \/ left = <<>> BY <1>1, <1>2, <2>1 DEF left
  <2>2. CASE ~(gone = {} \/ left = <<>>) BY <1>1, <1>2, <1>5, <2>2
  <2> QED BY <2>1, <2>2
<1>8. focus' \in Surfaces \cup {NoSurface} BY <1>1, <1>2, <1>6
<1>9. {w \in Addresses : of'[w] # NoSurface} = Elements(chromes) \ gone BY <1>1, <1>2
<1>10. of' \in [Addresses -> Surfaces \cup {NoSurface}] BY <1>1, <1>2
<1>11. \A w \in Elements(chromes) \ gone : of'[w] = of[w] BY <1>1, <1>2
<1>12. Listed' BY <1>2, <1>3, <1>7, <1>8, <1>9, <1>10 DEF Listed
<1> QED BY <1>2, <1>3, <1>4, <1>11, <1>12 DEF gone

\* A window on the list comes to the top
LEMMA RaiseKeeps ==
  ASSUME Windows, NEW w \in Elements(chromes), Raise(w), UNCHANGED <<of, surf, hooks>>
  PROVE  Windows' /\ Elements(chromes') = Elements(chromes)
<1>1. w \in Addresses /\ Listed BY DEF Windows, Listed
<1>2. /\ chromes' \in Seq(Addresses) /\ Distinct(chromes') /\ stack' = chromes'
      /\ Elements(chromes') = Elements(chromes) \cup {w} /\ focus' = of'[w]
  BY <1>1, RaiseIs
<1>3. Elements(chromes') = Elements(chromes) BY <1>2
<1>4. of[w] \in Surfaces \cup {NoSurface} BY <1>1 DEF Listed
<1>5. Listed' BY <1>1, <1>2, <1>3, <1>4 DEF Listed
<1>6. ChromeHasSurface' BY <1>3 DEF Windows, ChromeHasSurface
<1>7. Heard' BY <1>3 DEF Windows, Heard
<1> QED BY <1>3, <1>5, <1>6, <1>7 DEF Windows

\* The windows a surface asks to remove are gone, and they are all its own
\* windows and maybe others
LEMMA RemoveKeeps ==
  ASSUME Windows, NEW W, NEW o \in Surfaces \cup {NoSurface}, RemoveChromes(W, o),
         \A w \in Elements(chromes) \ W : surf'[of[w]] = surf[of[w]] /\ hooks'[of[w]] = hooks[of[w]]
  PROVE  Windows' /\ Elements(chromes') \subseteq Elements(chromes)
         /\ (minimized \subseteq Elements(chromes) => minimized' \subseteq Elements(chromes'))
<1>1. /\ Listed' /\ Elements(chromes') = Elements(chromes) \ W
      /\ \A w \in Elements(chromes') : of'[w] = of[w]
      /\ minimized' = minimized \ (W \cap Elements(chromes))
  BY RemoveIs DEF Windows
<1>2. ChromeHasSurface' BY <1>1 DEF Windows, ChromeHasSurface
<1>3. Heard' BY <1>1 DEF Windows, Heard
<1> QED BY <1>1, <1>2, <1>3 DEF Windows

\* A new window is of a surface that had none
LEMMA MapKeeps ==
  ASSUME Windows, World, NEW s \in Surfaces, Map(s)
  PROVE  Windows' /\ Elements(chromes) \subseteq Elements(chromes')
<1>1. PICK w \in FreeAddresses :
        /\ of' = [of EXCEPT ![w] = s] /\ Raise(w)
        /\ hooks' = [hooks EXCEPT ![s] = @ \cup {w}]
  BY DEF Map
<1>2. surf[s] # "mapped" /\ surf' = [surf EXCEPT ![s] = "mapped"] BY DEF Map
<1>3. w \in Addresses /\ of[w] = NoSurface BY DEF FreeAddresses
<1>4. /\ of \in [Addresses -> Surfaces \cup {NoSurface}]
      /\ {v \in Addresses : of[v] # NoSurface} = Elements(chromes)
      /\ hooks \in [Surfaces -> SUBSET Addresses]
      /\ surf \in [Surfaces -> {"none", "mapped", "hidden"}] /\ NoSurface \notin Surfaces
  BY ClientsAssumption DEF Windows, Listed, World
<1>5. w \notin Elements(chromes) BY <1>3, <1>4
<1>6. /\ chromes' \in Seq(Addresses) /\ Distinct(chromes') /\ stack' = chromes'
      /\ Elements(chromes') = Elements(chromes) \cup {w} /\ focus' = of'[w]
  BY <1>1, <1>3, RaiseIs DEF Windows
<1>7. of'[w] = s /\ \A v \in Elements(chromes) : of'[v] = of[v] BY <1>1, <1>3, <1>4, <1>5
<1>8. Listed'
  <2>1. of' \in [Addresses -> Surfaces \cup {NoSurface}] BY <1>1, <1>4
  <2>2. {v \in Addresses : of'[v] # NoSurface} = Elements(chromes) \cup {w} BY <1>1, <1>3, <1>4
  <2> QED BY <1>6, <1>7, <2>1, <2>2 DEF Listed
<1>9. \A v \in Elements(chromes) : of[v] \in Surfaces \ {s} BY <1>2, <1>4 DEF Windows, ChromeHasSurface
<1>10. ChromeHasSurface'
  <2>1. \A v \in Elements(chromes') : surf'[of'[v]] = "mapped"
    BY <1>2, <1>4, <1>6, <1>7, <1>9 DEF Windows, ChromeHasSurface
  <2>2. \A u, v \in Elements(chromes') : of'[u] = of'[v] => u = v
    BY <1>6, <1>7, <1>9 DEF Windows, ChromeHasSurface
  <2> QED BY <2>1, <2>2 DEF ChromeHasSurface
<1>11. Heard' BY <1>1, <1>4, <1>6, <1>7, <1>9 DEF Windows, Heard
<1> QED BY <1>6, <1>8, <1>10, <1>11 DEF Windows

--------------------------------------------------------------------------------
(* The steps *)

\* Where the dock and the mouse find their windows
LEMMA FindIs ==
  ASSUME Listed, NEW a, NEW w \in FindByComm(a)
  PROVE  /\ w \in Elements(chromes) /\ IsOf(a, w)
         /\ \A v \in Elements(chromes) : IsOf(a, v) /\ v # w => Before(chromes, w, v)
<1> DEFINE at == {i \in DOMAIN chromes : IsOf(a, chromes[i])}
<1>1. PICK i \in at : w = chromes[i] /\ \A k \in at : i <= k BY DEF FindByComm
<1>2. ASSUME NEW v \in Elements(chromes), IsOf(a, v), v # w PROVE Before(chromes, w, v)
  <2>1. PICK k \in DOMAIN chromes : v = chromes[k] BY DEF Elements
  <2>2. k \in at BY <1>2, <2>1
  <2>3. i <= k /\ i # k BY <1>1, <1>2, <2>1, <2>2
  <2>4. i \in DOMAIN chromes /\ k \in DOMAIN chromes BY <1>1
  <2>5. i \in Int /\ k \in Int BY <2>4 DEF Listed
  <2>6. i < k BY <2>3, <2>5
  <2> QED BY <1>1, <2>1, <2>4, <2>6 DEF Before
<1> QED BY <1>1, <1>2 DEF Elements

LEMMA ProcessSteps ==
  ASSUME DesktopInv, NEW c \in Clients, Exec(c) \/ Dies(c)
  PROVE  DesktopInv'
<1>1. UNCHANGED <<surf, windowVars, hooks, inputVars, ended>> BY DEF Exec, Dies
<1>2. Windows' /\ Input'
  BY <1>1 DEF DesktopInv, Windows, Listed, ChromeHasSurface, Heard, Input, windowVars, inputVars
<1>3. World'
  <2>1. /\ proc \in [Clients -> {"none", "sh", "app", "dead"}]
        /\ Owner \in [Surfaces -> Clients] /\ Begun
    BY ClientsAssumption DEF DesktopInv, World
  <2>2. CASE Exec(c)
    <3>1. proc[c] = "sh" /\ proc' = [proc EXCEPT ![c] = "app"] BY <2>2 DEF Exec
    <3> QED BY <1>1, <2>1, <3>1 DEF World, Begun, DesktopInv
  <2>3. CASE Dies(c)
    <3> DEFINE left == {s \in Surfaces : Owner[s] = c /\ surf[s] # "none"}
    <3>1. proc[c] = "app" /\ proc' = [proc EXCEPT ![c] = IF left = {} THEN "none" ELSE "dead"]
      BY <2>3 DEF Dies
    <3>2. \A s \in Surfaces : surf[s] # "none" /\ Owner[s] = c => left # {} OBVIOUS
    <3> HIDE DEF left
    <3>3. proc' \in [Clients -> {"none", "sh", "app", "dead"}] BY <2>1, <3>1
    <3>4. Begun' BY <1>1, <2>1, <3>1, <3>2 DEF Begun
    <3> QED BY <1>1, <3>3, <3>4 DEF World, DesktopInv
  <2> QED BY <2>2, <2>3
<1> QED BY <1>2, <1>3 DEF DesktopInv

LEMMA SurfaceSteps ==
  ASSUME DesktopInv, NEW s \in Surfaces, Map(s) \/ Unmap(s) \/ Destroy(s)
  PROVE  DesktopInv'
<1>1. /\ Windows /\ World /\ Input
      /\ proc \in [Clients -> {"none", "sh", "app", "dead"}]
      /\ surf \in [Surfaces -> {"none", "mapped", "hidden"}]
      /\ hooks \in [Surfaces -> SUBSET Addresses]
      /\ Owner \in [Surfaces -> Clients] /\ Begun /\ focus \in Surfaces \cup {NoSurface}
      /\ \A w \in Elements(chromes) : of[w] \in Surfaces
  BY ClientsAssumption DEF DesktopInv, World, Windows, Listed
<1>2. CASE Map(s)
  <2>1. Windows' /\ Elements(chromes) \subseteq Elements(chromes') BY <1>1, <1>2, MapKeeps
  <2>2. PICK w \in Addresses : hooks' = [hooks EXCEPT ![s] = @ \cup {w}]
    BY <1>2 DEF Map, FreeAddresses
  <2>3. /\ proc[Owner[s]] = "app" /\ surf' = [surf EXCEPT ![s] = "mapped"]
        /\ UNCHANGED <<proc, minimized, inputVars, ended>>
    BY <1>2 DEF Map
  <2>4. World' BY <1>1, <2>2, <2>3 DEF World, Begun
  <2>5. Input' BY <1>1, <2>1, <2>3 DEF Input, inputVars
  <2> QED BY <2>1, <2>4, <2>5 DEF DesktopInv
<1>3. CASE Unmap(s)
  <2>1. /\ surf[s] = "mapped" /\ proc[Owner[s]] = "app" /\ surf' = [surf EXCEPT ![s] = "hidden"]
        /\ RemoveChromes(hooks[s], focus) /\ UNCHANGED <<proc, hooks, inputVars, ended>>
    BY <1>3 DEF Unmap
  <2>2. \A w \in Elements(chromes) \ hooks[s] : surf'[of[w]] = surf[of[w]] /\ hooks'[of[w]] = hooks[of[w]]
    BY <1>1, <2>1 DEF Windows, Heard
  <2>3. Windows' /\ minimized' \subseteq Elements(chromes') BY <1>1, <2>1, <2>2, RemoveKeeps DEF Input
  <2>4. World' BY <1>1, <2>1 DEF World, Begun
  <2>5. Input' BY <1>1, <2>1, <2>3 DEF Input, inputVars
  <2> QED BY <2>3, <2>4, <2>5 DEF DesktopInv
<1>4. CASE Destroy(s)
  <2> DEFINE o == IF focus = s THEN NoSurface ELSE focus
             left == {t \in Surfaces \ {s} : Owner[t] = Owner[s] /\ surf[t] # "none"}
  <2>1. /\ surf[s] # "none" /\ surf' = [surf EXCEPT ![s] = "none"] /\ RemoveChromes(hooks[s], o)
        /\ hooks' = [hooks EXCEPT ![s] = {}] /\ UNCHANGED <<inputVars, ended>>
        /\ proc' = [proc EXCEPT ![Owner[s]] = IF @ = "dead" /\ left = {} THEN "none" ELSE @]
    BY <1>4 DEF Destroy
  <2>2. o \in Surfaces \cup {NoSurface} BY <1>1
  <2>3. \A t \in Surfaces : t # s /\ Owner[t] = Owner[s] /\ surf[t] # "none" => left # {} OBVIOUS
  <2> HIDE DEF o, left
  <2>4. \A w \in Elements(chromes) \ hooks[s] : surf'[of[w]] = surf[of[w]] /\ hooks'[of[w]] = hooks[of[w]]
    BY <1>1, <2>1 DEF Windows, Heard
  <2>5. Windows' /\ minimized' \subseteq Elements(chromes') BY <1>1, <2>1, <2>2, <2>4, RemoveKeeps DEF Input
  <2>6. proc' \in [Clients -> {"none", "sh", "app", "dead"}] BY <1>1, <2>1
  <2>7. Begun'
    <3> SUFFICES ASSUME NEW t \in Surfaces, surf'[t] # "none" PROVE proc'[Owner[t]] \in {"app", "dead"}
      BY DEF Begun
    <3>1. t # s /\ surf[t] # "none" /\ proc[Owner[t]] \in {"app", "dead"} BY <1>1, <2>1 DEF Begun
    <3> QED BY <1>1, <2>1, <2>3, <3>1
  <2>8. World' BY <1>1, <2>1, <2>6, <2>7 DEF World
  <2>9. Input' BY <1>1, <2>1, <2>5 DEF Input, inputVars
  <2> QED BY <2>5, <2>8, <2>9 DEF DesktopInv
<1> QED BY <1>2, <1>3, <1>4

\* The windows as they were
LEMMA Untouched ==
  ASSUME DesktopInv, UNCHANGED <<windowVars, surf, hooks>>
  PROVE  Windows' /\ minimized' \subseteq Elements(chromes')
BY DEF DesktopInv, Windows, Listed, ChromeHasSurface, Heard, Input, windowVars

LEMMA DockSteps ==
  ASSUME DesktopInv, NEW a \in Apps, DockClick(a)
  PROVE  DesktopInv'
<1>1. Windows /\ World /\ Input /\ UNCHANGED <<surf, hooks, inputVars, ended>>
  BY DEF DesktopInv, DockClick
<1>2. CASE Activate(a)
  <2>1. PICK w \in FindByComm(a) : UNCHANGED <<of, proc>> /\ Raise(w) /\ minimized' = minimized \ {w}
    BY <1>2 DEF Activate
  <2>2. w \in Elements(chromes) BY <1>1, FindIs DEF Windows
  <2>3. Windows' /\ Elements(chromes') = Elements(chromes) BY <1>1, <2>1, <2>2, RaiseKeeps
  <2>4. World' BY <1>1, <2>1 DEF World, Begun
  <2>5. Input' BY <1>1, <2>1, <2>3 DEF Input, inputVars
  <2> QED BY <2>3, <2>4, <2>5 DEF DesktopInv
<1>3. CASE Launch(a)
  <2>1. PICK c \in Clients : proc[c] = "none" /\ proc' = [proc EXCEPT ![c] = "sh"]
    BY <1>3 DEF Launch
  <2>2. UNCHANGED windowVars BY <1>3 DEF Launch
  <2>3. Windows' /\ minimized' \subseteq Elements(chromes') BY <1>1, <2>2, Untouched
  <2>4. World' BY <1>1, <2>1, ClientsAssumption DEF World, Begun
  <2>5. Input' BY <1>1, <2>3 DEF Input, inputVars
  <2> QED BY <2>3, <2>4, <2>5 DEF DesktopInv
<1> QED BY <1>2, <1>3 DEF DockClick

LEMMA ClickSteps == ASSUME DesktopInv, Click PROVE DesktopInv'
<1>1. Windows /\ World /\ Input /\ UNCHANGED <<proc, surf, hooks, docked, ended>>
  BY DEF DesktopInv, Click, clientVars
<1>2. PICK w \in ChromeAt : Press(w) \/ Close(w) BY DEF Click
<1>3. w \in Elements(chromes) /\ w \in Addresses BY DEF ChromeAt, DesktopInv, Windows, Listed
<1>4. World' BY <1>1 DEF World, Begun
<1>5. CASE Press(w)
  <2>1. of' = of /\ Raise(w) /\ (Hold(w) \/ Minimize(w) \/ Refit) BY <1>5 DEF Press
  <2>2. Windows' /\ Elements(chromes') = Elements(chromes) BY <1>1, <1>3, <2>1, RaiseKeeps
  <2>3. CASE Hold(w)
    <3>1. PICK K \in SUBSET grab : grab' = K \cup {w} /\ Cardinality(grab') <= MaxHeld
      BY <2>3 DEF Hold
    <3>2. UNCHANGED minimized BY <2>3 DEF Hold
    <3>3. Input' BY <1>1, <1>3, <2>2, <3>1, <3>2 DEF Input
    <3> QED BY <1>4, <2>2, <3>3 DEF DesktopInv
  <2>4. CASE Minimize(w) \/ Refit
    <3>1. Input' BY <1>1, <1>3, <2>2, <2>4 DEF Input, Minimize, Refit
    <3> QED BY <1>4, <2>2, <3>1 DEF DesktopInv
  <2> QED BY <2>1, <2>3, <2>4
<1>6. CASE Close(w) /\ proc[Owner[of[w]]] = "dead"
  <2>1. RemoveChromes({w}, of[w]) /\ UNCHANGED grab BY <1>6 DEF Close
  <2>2. of[w] \in Surfaces \cup {NoSurface} BY <1>1, <1>3 DEF Windows, Listed
  <2>3. Windows' /\ minimized' \subseteq Elements(chromes')
    BY <1>1, <2>1, <2>2, RemoveKeeps DEF Input
  <2>4. Input' BY <1>1, <2>1, <2>3 DEF Input
  <2> QED BY <1>4, <2>3, <2>4 DEF DesktopInv
<1>7. CASE Close(w) /\ proc[Owner[of[w]]] # "dead"
  <2>1. of' = of /\ Raise(w) /\ UNCHANGED <<minimized, grab>> BY <1>7 DEF Close
  <2>2. Windows' /\ Elements(chromes') = Elements(chromes) BY <1>1, <1>3, <2>1, RaiseKeeps
  <2>3. Input' BY <1>1, <2>1, <2>2 DEF Input
  <2> QED BY <1>4, <2>2, <2>3 DEF DesktopInv
<1> QED BY <1>2, <1>5, <1>6, <1>7

LEMMA OtherSteps == ASSUME DesktopInv, Reload \/ Release \/ StaleUse PROVE DesktopInv'
<1>1. Windows /\ World /\ Input BY DEF DesktopInv
<1>2. CASE Reload
  <2>1. PICK A \in SUBSET Optional : LoadApps(A) BY <1>2 DEF Reload
  <2>2. UNCHANGED <<clientVars, windowVars, hooks, grab, ended>> BY <1>2 DEF Reload
  <2>3. Windows' /\ minimized' \subseteq Elements(chromes') BY <2>2, Untouched DEF clientVars
  <2>4. docked' \subseteq Apps BY <2>1, ClientsAssumption DEF LoadApps
  <2>5. World' BY <1>1, <2>2 DEF World, Begun, clientVars
  <2>6. Input' BY <1>1, <2>2, <2>3, <2>4 DEF Input
  <2> QED BY <2>3, <2>5, <2>6 DEF DesktopInv
<1>3. CASE Release
  <2>1. grab' = {} /\ UNCHANGED <<clientVars, windowVars, hooks, docked, ended>> BY <1>3 DEF Release
  <2>2. Windows' /\ minimized' \subseteq Elements(chromes') BY <2>1, Untouched DEF clientVars
  <2>3. World' BY <1>1, <2>1 DEF World, Begun, clientVars
  <2>4. Input' BY <1>1, <2>1, <2>2, NothingHeld DEF Input
  <2> QED BY <2>2, <2>3, <2>4 DEF DesktopInv
<1>4. CASE StaleUse
  <2>1. /\ ended' = TRUE /\ UNCHANGED docked /\ minimized' = {} /\ grab' = {}
        /\ proc' = NoClients /\ surf' = NoSurfaces /\ chromes' = <<>> /\ stack' = <<>>
        /\ of' = NoWindows /\ hooks' = NoHooks /\ focus' = NoSurface
    BY <1>4 DEF StaleUse
  <2>2. (Windows /\ World)'
    <3>1. Elements(chromes') = {} BY <2>1, NothingListed
    <3>2. Listed' BY <2>1, <3>1, NothingListed DEF Listed, NoWindows
    <3>3. ChromeHasSurface' /\ Heard' BY <3>1 DEF ChromeHasSurface, Heard
    <3>4. World' BY <2>1 DEF World, Begun, NoClients, NoSurfaces, NoHooks
    <3> QED BY <3>2, <3>3, <3>4 DEF Windows
  <2>3. Input' BY <1>1, <2>1, NothingHeld DEF Input
  <2> QED BY <2>2, <2>3 DEF DesktopInv
<1> QED BY <1>2, <1>3, <1>4

LEMMA DesktopSteps == DesktopInv /\ [DesktopNext]_desktopVars => DesktopInv'
<1> SUFFICES ASSUME DesktopInv, [DesktopNext]_desktopVars PROVE DesktopInv' OBVIOUS
<1>1. CASE DesktopNext
  <2>1. \/ \E s \in Surfaces : Map(s) \/ Unmap(s) \/ Destroy(s)
        \/ \E c \in Clients : Exec(c) \/ Dies(c)
        \/ \E a \in Apps : DockClick(a)
        \/ Click \/ Reload \/ Release \/ StaleUse
    BY <1>1 DEF DesktopNext
  <2> QED BY <2>1, SurfaceSteps, ProcessSteps, DockSteps, ClickSteps, OtherSteps
<1>2. CASE UNCHANGED desktopVars
  BY <1>2 DEF desktopVars, clientVars, windowVars, inputVars, DesktopInv, Windows, Listed,
     ChromeHasSurface, Heard, World, Begun, Input
<1> QED BY <1>1, <1>2

LEMMA DesktopHolds == DesktopSpec => []DesktopInv
BY DesktopStarts, DesktopSteps, PTL DEF DesktopSpec

\* The lists of windows hold each window once, and all that names a window,
\* a surface or a process is of its type (imira-comp.cpp 624-637, 876-881).
THEOREM DesktopTypes == DesktopSpec => []DesktopTypeOK
BY DesktopHolds, InvTyped, PTL

\* No window outlives its surface, and no surface has two, however often it is
\* hidden, shown and closed and however addresses are used again
\* (imira-comp.cpp 686-695, 857-872).
THEOREM ChromesHaveSurfaces == DesktopSpec => []ChromeHasSurface
<1>1. DesktopInv => ChromeHasSurface BY DEF DesktopInv, Windows
<1>2. QED BY DesktopHolds, <1>1, PTL

\* The window a click falls on is the one that is seen: list and z are one
\* order (imira-comp.cpp 708-720, 745-752).
THEOREM StackAlwaysDrawn == DesktopSpec => []StackIsDrawn
<1>1. DesktopInv => StackIsDrawn BY ParallelLists DEF DesktopInv, Windows
<1>2. QED BY DesktopHolds, <1>1, PTL

--------------------------------------------------------------------------------
(* A minimized window comes nearer *)

\* The windows of its app that the dock finds before w
AheadOf(w) == {v \in Elements(chromes) :
                 IsOf(AppOf[Owner[of[w]]], v) /\ Before(chromes, v, w)}

LEMMA AheadIs ==
  ASSUME Listed, NEW w \in Elements(chromes)
  PROVE  /\ Ahead(w) = Cardinality(AheadOf(w))
         /\ IsFiniteSet(AheadOf(w)) /\ Ahead(w) \in Nat
<1> DEFINE place(v) == CHOOSE i \in DOMAIN chromes : chromes[i] = v
<1>1. chromes \in Seq(Addresses) /\ Distinct(chromes) BY DEF Listed
<1>2. \A v \in Elements(chromes) : place(v) \in DOMAIN chromes /\ chromes[place(v)] = v
  BY DEF Elements
<1>3. \A v \in Elements(chromes) : place(v) < place(w) <=> Before(chromes, v, w)
  <2> SUFFICES ASSUME NEW v \in Elements(chromes)
               PROVE  place(v) < place(w) <=> Before(chromes, v, w)
    OBVIOUS
  <2>1. /\ place(v) \in DOMAIN chromes /\ chromes[place(v)] = v
        /\ place(w) \in DOMAIN chromes /\ chromes[place(w)] = w
    BY <1>2
  <2> HIDE DEF place
  <2>2. \A i, j \in DOMAIN chromes : chromes[i] = v /\ chromes[j] = w => i = place(v) /\ j = place(w)
    BY <1>1, <2>1 DEF Distinct
  <2> QED BY <2>1, <2>2 DEF Before
<1>4. {v \in Elements(chromes) : IsOf(AppOf[Owner[of[w]]], v) /\ place(v) < place(w)} = AheadOf(w)
  <2> HIDE DEF place
  <2> QED BY <1>3 DEF AheadOf
<1>5. Ahead(w) = Cardinality(AheadOf(w)) BY <1>4 DEF Ahead
<1>6. IsFiniteSet(Elements(chromes))
  <2> DEFINE n == Len(chromes)
             N == 1..n
  <2>1. n \in Nat /\ DOMAIN chromes = N BY <1>1
  <2>2. IsFiniteSet(N) BY <2>1, FS_Interval
  <2>3. chromes \in [N -> Elements(chromes)]
    <3>1. chromes = [i \in N |-> chromes[i]] BY <1>1, <2>1
    <3> QED BY <2>1, <3>1 DEF Elements
  <2>4. \A w_1 \in Elements(chromes) : \E i \in N : chromes[i] = w_1 BY <2>1 DEF Elements
  <2> HIDE DEF N
  <2>5. chromes \in Surjection(N, Elements(chromes)) BY <2>3, <2>4, Fun_IsSurj
  <2> QED BY <2>2, <2>5, FS_Surjection
<1>7. AheadOf(w) \in SUBSET Elements(chromes) BY DEF AheadOf
<1>8. IsFiniteSet(AheadOf(w)) BY <1>6, <1>7, FS_Subset
<1> QED BY <1>5, <1>8, FS_CardinalityType

Counted ==
  Listed => \A w \in Elements(chromes) :
              Ahead(w) = Cardinality(AheadOf(w)) /\ IsFiniteSet(AheadOf(w)) /\ Ahead(w) \in Nat

LEMMA AheadCounts == Counted
BY AheadIs DEF Counted

LEMMA AheadCountsNext == Counted'
BY AheadCounts, PTL

\* A list that keeps the order of those before w, and the windows of its app
LEMMA FewerAhead ==
  ASSUME Listed, Listed', NEW w \in Elements(chromes), w \in Elements(chromes'),
         AheadOf(w)' \subseteq AheadOf(w)
  PROVE  /\ Ahead(w)' <= Ahead(w)
         /\ AheadOf(w)' # AheadOf(w) => Ahead(w)' < Ahead(w)
<1>1. Ahead(w) = Cardinality(AheadOf(w)) /\ IsFiniteSet(AheadOf(w)) /\ Ahead(w) \in Nat
  BY AheadIs
<1>2. (Ahead(w) = Cardinality(AheadOf(w)) /\ IsFiniteSet(AheadOf(w)) /\ Ahead(w) \in Nat)'
  BY AheadCountsNext DEF Counted
<1>3. /\ Cardinality(AheadOf(w)') <= Cardinality(AheadOf(w))
      /\ Cardinality(AheadOf(w)) = Cardinality(AheadOf(w)') => AheadOf(w) = AheadOf(w)'
  BY <1>1, FS_Subset
<1> QED BY <1>1, <1>2, <1>3

\* Nothing comes before a minimized window that was not before it
LEMMA OrderKept ==
  ASSUME DesktopInv, DesktopNext, NEW w \in minimized, w \in minimized'
  PROVE  \A v : Before(chromes', v, w) => Before(chromes, v, w) /\ of'[v] = of[v]
<1>1. Windows /\ Listed /\ w \in Elements(chromes) /\ Elements(chromes) \subseteq Addresses
  BY DEF DesktopInv, Windows, Input, Listed
<1>2. ASSUME NEW x \in Elements(chromes), x # w, Raise(x), of' = of
      PROVE  \A v : Before(chromes', v, w) => Before(chromes, v, w) /\ of'[v] = of[v]
  BY <1>1, <1>2, RaiseIs
<1>3. ASSUME NEW W, NEW o \in Surfaces \cup {NoSurface}, RemoveChromes(W, o)
      PROVE  \A v : Before(chromes', v, w) => Before(chromes, v, w) /\ of'[v] = of[v]
  <2>1. /\ \A v \in Elements(chromes') : of'[v] = of[v]
        /\ \A u, v : Before(chromes', u, v) => Before(chromes, u, v)
    BY <1>1, <1>3, RemoveIs
  <2>2. \A v : Before(chromes', v, w) => v \in Elements(chromes') BY DEF Before, Elements
  <2> QED BY <2>1, <2>2
<1>4. focus \in Surfaces \cup {NoSurface} BY <1>1 DEF Listed
<1>5. ASSUME NEW s \in Surfaces, Map(s)
      PROVE  \A v : Before(chromes', v, w) => Before(chromes, v, w) /\ of'[v] = of[v]
  <2>1. PICK x \in FreeAddresses : of' = [of EXCEPT ![x] = s] /\ Raise(x) BY <1>5 DEF Map
  <2>2. x \in Addresses /\ of[x] = NoSurface BY DEF FreeAddresses
  <2>3. x # w BY <1>1, <2>2 DEF Listed
  <2>4. \A v : Before(chromes', v, w) => Before(chromes, v, w) /\ v # x BY <1>1, <2>1, <2>2, <2>3, RaiseIs
  <2>5. \A v : Before(chromes, v, w) => v \in Elements(chromes) BY DEF Before, Elements
  <2>6. \A v \in Elements(chromes) : v # x => of'[v] = of[v] BY <1>1, <2>1, <2>2 DEF Listed
  <2> QED BY <2>4, <2>5, <2>6
<1>6. ASSUME NEW s \in Surfaces, Unmap(s) \/ Destroy(s)
      PROVE  \A v : Before(chromes', v, w) => Before(chromes, v, w) /\ of'[v] = of[v]
  <2>1. CASE Unmap(s) BY <1>3, <1>4, <2>1 DEF Unmap
  <2>2. CASE Destroy(s)
    <3> DEFINE o == IF focus = s THEN NoSurface ELSE focus
    <3>1. RemoveChromes(hooks[s], o) BY <2>2 DEF Destroy
    <3>2. o \in Surfaces \cup {NoSurface} BY <1>4
    <3> HIDE DEF o
    <3> QED BY <1>3, <3>1, <3>2
  <2> QED BY <1>6, <2>1, <2>2
<1>7. ASSUME UNCHANGED windowVars
      PROVE  \A v : Before(chromes', v, w) => Before(chromes, v, w) /\ of'[v] = of[v]
  BY <1>7 DEF windowVars
<1>8. ASSUME NEW a \in Apps, DockClick(a)
      PROVE  \A v : Before(chromes', v, w) => Before(chromes, v, w) /\ of'[v] = of[v]
  <2>1. CASE Activate(a)
    <3>1. PICK x \in FindByComm(a) : of' = of /\ Raise(x) /\ minimized' = minimized \ {x}
      BY <2>1 DEF Activate
    <3>2. x \in Elements(chromes) /\ x # w BY <1>1, <3>1, FindIs
    <3> QED BY <1>2, <3>1, <3>2
  <2>2. CASE Launch(a) BY <1>7, <2>2 DEF Launch
  <2> QED BY <1>8, <2>1, <2>2 DEF DockClick
<1>9. ASSUME Click
      PROVE  \A v : Before(chromes', v, w) => Before(chromes, v, w) /\ of'[v] = of[v]
  <2>1. PICK x \in ChromeAt : Press(x) \/ Close(x) BY <1>9 DEF Click
  <2>2. x \in Elements(chromes) /\ x # w BY DEF ChromeAt
  <2>3. CASE Press(x) BY <1>2, <2>2, <2>3 DEF Press
  <2>4. CASE Close(x)
    <3>1. of[x] \in Surfaces \cup {NoSurface} BY <1>1, <2>2 DEF Listed
    <3> QED BY <1>2, <1>3, <2>2, <2>4, <3>1 DEF Close
  <2> QED BY <2>1, <2>3, <2>4
<1>10. CASE StaleUse BY <1>10 DEF StaleUse
<1> QED BY <1>5, <1>6, <1>7, <1>8, <1>9, <1>10 DEF DesktopNext, Exec, Dies, Reload, Release

\* A process that is an app was one, or the shell that becomes it
LEMMA AppsWere ==
  ASSUME DesktopInv, DesktopNext, NEW c \in Clients, proc'[c] = "app"
  PROVE  proc[c] \in {"app", "sh"}
<1>1. proc \in [Clients -> {"none", "sh", "app", "dead"}] /\ Owner \in [Surfaces -> Clients]
  BY ClientsAssumption DEF DesktopInv, World
<1>2. ASSUME NEW s \in Surfaces, Destroy(s) PROVE proc[c] \in {"app", "sh"}
  <2>1. \/ proc' = [proc EXCEPT ![Owner[s]] = "none"]
        \/ proc' = [proc EXCEPT ![Owner[s]] = proc[Owner[s]]]
    BY <1>2 DEF Destroy
  <2> QED BY <1>1, <2>1
<1>3. ASSUME NEW d \in Clients, Exec(d) \/ Dies(d) PROVE proc[c] \in {"app", "sh"}
  BY <1>1, <1>3 DEF Exec, Dies
<1>4. ASSUME NEW a \in Apps, DockClick(a) PROVE proc[c] \in {"app", "sh"}
  BY <1>1, <1>4 DEF DockClick, Activate, Launch
<1>5. CASE StaleUse BY <1>5 DEF StaleUse, NoClients
<1>6. ASSUME NEW s \in Surfaces, Map(s) \/ Unmap(s) PROVE proc[c] \in {"app", "sh"}
  BY <1>6 DEF Map, Unmap
<1>7. CASE Click \/ Reload \/ Release BY <1>7 DEF Click, Reload, Release, clientVars
<1> QED BY <1>2, <1>3, <1>4, <1>5, <1>6, <1>7 DEF DesktopNext

LEMMA AheadStays ==
  ASSUME DesktopInv, DesktopNext, NEW w \in minimized, w \in minimized', of'[w] = of[w]
  PROVE  AheadOf(w)' \subseteq AheadOf(w)
<1> SUFFICES ASSUME NEW v \in AheadOf(w)' PROVE v \in AheadOf(w) OBVIOUS
<1>1. /\ proc'[Owner[of'[v]]] = "app" /\ AppOf[Owner[of'[v]]] = AppOf[Owner[of'[w]]]
      /\ Before(chromes', v, w)
  BY DEF AheadOf, IsOf
<1>2. Before(chromes, v, w) /\ of'[v] = of[v] BY <1>1, OrderKept
<1>3. v \in Elements(chromes) BY <1>2 DEF Before, Elements
<1>4. of[v] \in Surfaces /\ surf[of[v]] = "mapped"
  BY <1>3, ClientsAssumption DEF DesktopInv, Windows, Listed, ChromeHasSurface
<1>5. Owner[of[v]] \in Clients /\ proc[Owner[of[v]]] \in {"app", "dead"}
  BY <1>4, ClientsAssumption DEF DesktopInv, World, Begun
<1>6. proc[Owner[of[v]]] = "app" BY <1>1, <1>2, <1>5, AppsWere
<1> QED BY <1>1, <1>2, <1>3, <1>6 DEF AheadOf, IsOf

\* The dock finds a window of an app that has one
LEMMA FindsOne ==
  ASSUME Listed, NEW a, NEW w \in Elements(chromes), IsOf(a, w)
  PROVE  FindByComm(a) # {}
<1> DEFINE at == {i \in DOMAIN chromes : IsOf(a, chromes[i])}
           m == Len(chromes)
<1>1. m \in Nat /\ DOMAIN chromes = 1..m BY DEF Listed
<1>2. at \in SUBSET (1..m) /\ at # {} BY <1>1 DEF Elements
<1>3. \E i \in at : \A k \in at : i <= k
  <2>1. \A k \in at : k \in Int BY <1>1
  <2> HIDE DEF at, m
  <2>2. Cardinality(at) \in Nat /\ Cardinality(at) > 0 BY <1>1, <1>2, PartCounts
  <2>3. 1 \in 1..Cardinality(at) BY <2>2
  <2>4. PICK i \in at : Rank(at, i) = 1 BY <1>1, <1>2, <2>3, Ranked
  <2>5. ASSUME NEW k \in at PROVE i <= k
    <3>1. Rank(at, k) \in 1..Cardinality(at) BY <1>1, <1>2, RankIn
    <3>2. ~(Rank(at, k) < 1) BY <2>2, <3>1
    <3>3. ~(k < i) BY <1>1, <1>2, <2>4, <3>2, RankRises
    <3> QED BY <2>1, <3>3
  <2> QED BY <2>5
<1> QED BY <1>3 DEF FindByComm

\* The first window of the app goes behind, or it is w and minimized no more
LEMMA ClickBrings ==
  ASSUME DesktopInv, NEW w \in minimized, w \in minimized', proc[Owner[of[w]]] = "app",
         NEW a, a = AppOf[Owner[of[w]]], DockClick(a)
  PROVE  AheadOf(w)' # AheadOf(w)
<1>1. Listed /\ w \in Elements(chromes) /\ IsOf(a, w) BY DEF DesktopInv, Windows, Input, IsOf
<1>2. ~Launch(a) BY <1>1, FindsOne DEF Launch
<1>3. PICK x \in FindByComm(a) : Raise(x) /\ minimized' = minimized \ {x}
  BY <1>2 DEF DockClick, Activate
<1>4. x \in Elements(chromes) /\ IsOf(a, x) /\ x # w /\ Before(chromes, x, w) /\ x \in Addresses
  BY <1>1, <1>3, FindIs DEF Listed
<1>5. x \in AheadOf(w) BY <1>4 DEF AheadOf
<1>6. ~Before(chromes', x, w) BY <1>1, <1>3, <1>4, RaiseIs
<1>7. x \notin AheadOf(w)' BY <1>6 DEF AheadOf
<1> QED BY <1>5, <1>7

\* No step puts a window of the same app before a minimized one, and each click
\* on its icon takes one away that was before it (imira-comp.cpp 797-810,
\* 894-905), for any number of windows.
THEOREM MinimizedComes == DesktopSpec => MinimizedComesNearer
<1> DEFINE Comes(w) ==
      proc[Owner[of[w]]] = "app" /\ w \in minimized' /\ of'[w] = of[w] =>
         /\ Ahead(w)' <= Ahead(w)
         /\ DockClick(AppOf[Owner[of[w]]]) => Ahead(w)' < Ahead(w)
<1>1. DesktopInv /\ DesktopInv' /\ DesktopNext => \A w \in minimized : Comes(w)
  <2> SUFFICES ASSUME DesktopInv, DesktopInv', DesktopNext, NEW w \in minimized,
                      proc[Owner[of[w]]] = "app", w \in minimized', of'[w] = of[w]
               PROVE  /\ Ahead(w)' <= Ahead(w)
                      /\ DockClick(AppOf[Owner[of[w]]]) => Ahead(w)' < Ahead(w)
    OBVIOUS
  <2>1. /\ Listed /\ Listed' /\ w \in Elements(chromes) /\ w \in Elements(chromes')
    BY DEF DesktopInv, Windows, Input
  <2>2. AheadOf(w)' \subseteq AheadOf(w) BY AheadStays
  <2>3. DockClick(AppOf[Owner[of[w]]]) => AheadOf(w)' # AheadOf(w) BY ClickBrings
  <2> QED BY <2>1, <2>2, <2>3, FewerAhead
<1>2. DesktopInv /\ DesktopInv' /\ [DesktopNext]_desktopVars => [\A w \in minimized : Comes(w)]_desktopVars
  BY <1>1
<1> QED BY DesktopHolds, <1>2, PTL DEF DesktopSpec, MinimizedComesNearer
================================================================================
