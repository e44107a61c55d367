-------------------------------- MODULE Convert --------------------------------
(***************************************************************************)
(* imira-castd's conversion of a captured screen to a picture of the       *)
(* encoder's size (daemon/src/convert.cpp): a box with the turned content  *)
(* in the middle, its place and the tables to it kept from frame to frame  *)
(* until something they depend on changes, its rows split into bands that  *)
(* are filled by threads without a lock.  A size is <<width, height>> in   *)
(* pixels; colours are left out.                                           *)
(***************************************************************************)
EXTENDS Integers

CONSTANTS
  Cores,    \* std::thread::hardware_concurrency()
  Screens,  \* sizes of the captured screen
  Turns     \* rotations of the content: 0, 90, 270

ASSUME CoresAssumption == Cores \in Nat
ASSUME ScreensAssumption == Screens \subseteq (Nat \ {0}) \X (Nat \ {0})
ASSUME TurnsAssumption == Turns \subseteq {0, 90, 270}

VARIABLE
  maps  \* m_lastSrcW, m_lastSrcH and m_lastRot, with the box made for them

\* configure() forgets what the tables were made for
NoMaps == [of |-> <<0, 0>>, turn |-> -1, box |-> [x |-> 0, y |-> 0, w |-> 0, h |-> 0]]

\* x & ~1
Even(x) == x - (x % 2)

\* Size of the content after rotation
Content(screen, turn) ==
  IF turn \in {90, 270} THEN <<screen[2], screen[1]>> ELSE screen

\* updateMaps: the largest box of the content's shape, in the middle
Box(dst, c) ==
  LET high == (dst[1] * c[2]) \div c[1]
      w == Even(IF high > dst[2] THEN (dst[2] * c[1]) \div c[2] ELSE dst[1])
      h == Even(IF high > dst[2] THEN dst[2] ELSE high)
  IN [x |-> Even((dst[1] - w) \div 2), y |-> Even((dst[2] - h) \div 2),
      w |-> w, h |-> h]

\* m_mapX, m_mapY, and the taps of the box filter from there: the n pixels
\* of a line of the content that pixel i of a line of the box is made of
Taps(len, n) ==
  LET up == (n + len - 1) \div (IF len > 0 THEN len ELSE 1)
  IN IF up < 1 THEN 1 ELSE IF up > 4 THEN 4 ELSE up
Tap(i, j, len, n) ==
  LET at == (i * n) \div len + j IN IF at >= n THEN n - 1 ELSE at

--------------------------------------------------------------------------------
(* Bands of rows, one for each thread *)

Threads == IF Cores >= 8 THEN 4 ELSE IF Cores >= 4 THEN 2 ELSE 1

Split(h) == Threads > 1 /\ h >= 4 * Threads

\* Rows of a band, an even number
RowsPerBand(h) == Even(h \div Threads + 1)

\* Threads that get a band; the last one runs to the end
Bands(h) ==
  IF Split(h) THEN {b \in 0..Threads - 1 : b * RowsPerBand(h) < h} ELSE {0}
From(b, h) == IF Split(h) THEN b * RowsPerBand(h) ELSE 0
To(b, h) ==
  IF Split(h) /\ b # Threads - 1 /\ (b + 1) * RowsPerBand(h) <= h
  THEN (b + 1) * RowsPerBand(h) ELSE h

--------------------------------------------------------------------------------
ConvertInit == maps = NoMaps

\* Mutant: the tables are kept.
ConfigureKeepsMaps == UNCHANGED maps

Configure == maps' = NoMaps

\* convert(): the tables are made anew for another screen or rotation only
ConvertFrame(dst, screen, turn) ==
  maps' = IF maps.of = screen /\ maps.turn = turn THEN maps
          ELSE [of |-> screen, turn |-> turn, box |-> Box(dst, Content(screen, turn))]

--------------------------------------------------------------------------------
(* What is asked of a picture *)

\* The box is that of this screen, this rotation and this picture, and inside
BoxFits(dst, box) ==
  /\ box.x >= 0 /\ box.y >= 0
  /\ box.x + box.w <= dst[1] /\ box.y + box.h <= dst[2]

\* The bands follow each other without a gap to the last row, and no two of
\* them write to the same line of the half-size chroma planes
BandsChain(h) ==
  /\ From(0, h) = 0
  /\ \A b \in Bands(h) :
       /\ From(b, h) % 2 = 0
       /\ \/ b + 1 \in Bands(h) /\ To(b, h) = From(b + 1, h)
          \/ b + 1 \notin Bands(h) /\ To(b, h) = h
================================================================================
