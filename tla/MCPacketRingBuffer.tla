------------------------- MODULE MCPacketRingBuffer -------------------------
(* PacketRingBuffer with model values for the threads. *)
EXTENDS PacketRingBuffer
=============================================================================
