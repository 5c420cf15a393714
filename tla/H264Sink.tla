------------------------------ MODULE H264Sink ------------------------------
(***************************************************************************)
(* H264MediaSink::sendFrame: a frame as one RTP packet, or as fragments    *)
(* (FU-A) when it is longer than RTP_MAX_PKT_SIZE.  The bits of the header *)
(* and of the FU bytes are the fields of a packet.                         *)
(***************************************************************************)
EXTENDS Sink

SPS == 7
PPS == 8

Single(frame) ==
  <<[seq |-> seq, timestamp |-> timestamp, kind |-> "single", type |-> frame[1],
     start |-> FALSE, end |-> FALSE, data |-> frame, size |-> Len(frame)]>>

\* Bytes pos to pos + n - 1 of the frame, counted from 0 as in the code.
Bytes(frame, pos, n) ==
  [k \in 1..n |-> IF pos + k <= Len(frame) THEN frame[pos + k] ELSE Stray]

\* Wrong variant: a last fragment that is full does not have the end bit.
FragmentsWithoutEnd(frame) ==
  LET full   == Len(frame) \div MaxPkt
      remain == Len(frame) % MaxPkt
      number == IF remain > 0 THEN full + 1 ELSE full
  IN [i \in 1..number |->
       [seq |-> (seq + i - 1) % SeqMod, timestamp |-> timestamp, kind |-> "fragment",
        type |-> frame[1],
        start |-> i = 1,
        end |-> i = full + 1,
        data |-> Bytes(frame, 1 + (i - 1) * MaxPkt, IF i <= full THEN MaxPkt ELSE remain),
        size |-> 2 + IF i <= full THEN MaxPkt ELSE remain]]

\* Wrong variant: the rest goes into the last full fragment.
FragmentsRestInLast(frame) ==
  LET full == Len(frame) \div MaxPkt
      Size(i) == IF i < full THEN MaxPkt ELSE MaxPkt + (Len(frame) % MaxPkt)
  IN [i \in 1..full |->
       [seq |-> (seq + i - 1) % SeqMod, timestamp |-> timestamp, kind |-> "fragment",
        type |-> frame[1],
        start |-> i = 1,
        end |-> i = full,
        data |-> Bytes(frame, 1 + (i - 1) * MaxPkt, Size(i)),
        size |-> 2 + Size(i)]]

(* The full fragments and the rest.  The first byte of the frame is in the *)
(* FU bytes and left out, but the sizes are those of the whole frame: the  *)
(* last fragment ends with a byte from behind the frame.                   *)
Fragments(frame) ==
  LET full   == Len(frame) \div MaxPkt
      remain == Len(frame) % MaxPkt
      number == IF remain > 0 THEN full + 1 ELSE full
  IN [i \in 1..number |->
       [seq |-> (seq + i - 1) % SeqMod, timestamp |-> timestamp, kind |-> "fragment",
        type |-> frame[1],
        start |-> i = 1,
        end |-> i = number /\ i # 1,
        data |-> Bytes(frame, 1 + (i - 1) * MaxPkt, IF i <= full THEN MaxPkt ELSE remain),
        size |-> 2 + IF i <= full THEN MaxPkt ELSE remain]]

Packets(frame) == IF Len(frame) <= MaxPkt THEN Single(frame) ELSE Fragments(frame)

\* Parameter sets belong to the picture after them: the time stands still.
Timeless(frame) == Len(frame) <= MaxPkt /\ frame[1] \in {SPS, PPS}

\* Wrong variants: sequence numbers go on past 16 bits; the time stands still
\* after a fragmented frame.
SendFrameUnbounded(frame) ==
  /\ sent' = Packets(frame)
  /\ seq' = seq + Len(Packets(frame))
  /\ timestamp' = IF Timeless(frame) THEN timestamp ELSE timestamp + 1

SendFrameTimed(frame) ==
  /\ sent' = Packets(frame)
  /\ seq' = (seq + Len(Packets(frame))) % SeqMod
  /\ timestamp' = IF Len(frame) <= MaxPkt THEN timestamp + 1 ELSE timestamp

SendFrame(frame) ==
  /\ sent' = Packets(frame)
  /\ seq' = (seq + Len(Packets(frame))) % SeqMod
  /\ timestamp' = IF Timeless(frame) THEN timestamp ELSE timestamp + 1
=============================================================================
