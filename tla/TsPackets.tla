------------------------------- MODULE TsPackets -------------------------------
(***************************************************************************)
(* How the muxer cuts an access unit into packets of 188 bytes             *)
(* (daemon/src/tsmux.cpp): packetize and appendAudioPes first count the    *)
(* packets and make room for them, and then write packet after packet      *)
(* until the bytes of the unit are used up.  Packets are numbered from 0;  *)
(* what stands in them is left out, and so are tables in front.            *)
(***************************************************************************)
EXTENDS Integers

PacketSize == 188
TsHeader == 4
PesHeader == 14

\* Room for the access unit in packet i
Room(i) == PacketSize - TsHeader - IF i = 0 THEN PesHeader ELSE 0

\* numTSPackets, counted before anything is written
Packets(len) ==
  LET remaining == IF len > Room(0) THEN len - Room(0) ELSE 0
  IN 1 + (remaining \div Room(1)) + IF remaining % Room(1) > 0 THEN 1 ELSE 0

\* offset, where the part of packet i begins, and what of it is copied
Offset(i) == IF i = 0 THEN 0 ELSE Room(0) + (i - 1) * Room(1)
Copied(len, i) == IF len - Offset(i) > Room(i) THEN Room(i) ELSE len - Offset(i)

\* while (offset < auLen), after a first packet that is always written
Written(len) == {i \in Nat : i = 0 \/ Offset(i) < len}

\* An adaptation field for n bytes of padding: its length byte, its flags if
\* there is room for them, and the rest
Stuffed(n) == IF n = 0 THEN 0 ELSE IF n = 1 THEN 1 ELSE 2 + (n - 2)

BytesWritten(len, i) ==
  TsHeader + Stuffed(Room(i) - Copied(len, i))
    + (IF i = 0 THEN PesHeader ELSE 0) + Copied(len, i)
================================================================================
