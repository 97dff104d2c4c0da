----------------------------- MODULE MCPacketPool -----------------------------
EXTENDS PacketPool, TLC

CONSTANTS t1, t2

=============================================================================
