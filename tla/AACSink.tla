------------------------------ MODULE AACSink ------------------------------
(***************************************************************************)
(* AACMediaSink::sendFrame: a frame is one packet, behind a header that    *)
(* says how long it is (RFC 3640).                                         *)
(***************************************************************************)
EXTENDS Sink

CONSTANT AuHeader       \* the bytes of that header (4)

ASSUME AACSinkAssumption == AuHeader \in Nat

SendAccessUnit(frame) ==
  /\ sent' = <<[seq |-> seq, timestamp |-> timestamp, kind |-> "au", type |-> 0,
                start |-> TRUE, end |-> TRUE, data |-> frame, size |-> AuHeader + Len(frame)]>>
  /\ seq' = (seq + 1) % SeqMod
  /\ timestamp' = timestamp + 1
=============================================================================
