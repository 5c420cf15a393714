-------------------------------- MODULE Sink --------------------------------
(***************************************************************************)
(* What H264MediaSink and AACMediaSink have from Sink (Sink.h): the RTP    *)
(* header they write into every packet, and the buffer for one packet.     *)
(***************************************************************************)
EXTENDS Naturals, Sequences

CONSTANTS
  MaxPkt,       \* RTP_MAX_PKT_SIZE (1400)
  SeqMod,       \* sequence numbers are of 16 bits: 2^16
  Stray         \* a byte behind the end of the frame

ASSUME SinkAssumption == MaxPkt \in Nat \ {0, 1} /\ SeqMod \in Nat \ {0}

VARIABLES
  seq,          \* rtp_header_.seq
  timestamp,    \* rtp_header_.timestamp, in units of one frame
  sent          \* the packets of the frame sent last

sinkVars == <<seq, timestamp, sent>>

SinkInit == seq = 0 /\ timestamp = 0 /\ sent = <<>>

\* The bytes of payload buf has room for.
Room == MaxPkt + 2
=============================================================================
