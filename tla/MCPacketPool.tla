---------------------------- MODULE MCPacketPool ----------------------------
(* PacketPool with two threads: one that can copy and one that cannot.     *)
EXTENDS PacketPool

CONSTANTS t1, t2, o1, o2, o3

MCObjectsOf == (t1 :> {o1, o2}) @@ (t2 :> {o3})
MCWaitsOf == (t1 :> {"none", "forever"}) @@ (t2 :> {"ticks", "forever"})
=============================================================================
