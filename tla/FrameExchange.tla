------------------------------ MODULE FrameExchange ------------------------------
(***************************************************************************)
(* What the desktop's frames look like to the daemon: buffers come one     *)
(* after the other, each has a number of finished frames, and the daemon   *)
(* takes finished frames, never going back.                                *)
(***************************************************************************)
EXTENDS Naturals

CONSTANT Buffers

VARIABLES
  count,  \* finished frames of each buffer
  taken   \* buffer and number of the frame the daemon took last

exchangeVars == <<count, taken>>

Init == count = [b \in Buffers |-> 0] /\ taken = [buffer |-> 0, frame |-> 0]

Publish(b) == count' = [count EXCEPT ![b] = @ + 1] /\ UNCHANGED taken

Take(b) ==
  /\ b >= taken.buffer
  /\ \E n \in 1..count[b] :
       /\ b = taken.buffer => n >= taken.frame
       /\ taken' = [buffer |-> b, frame |-> n]
  /\ UNCHANGED count

Next == \E b \in Buffers : Publish(b) \/ Take(b)

Spec == Init /\ [][Next]_exchangeVars
================================================================================
