--------------------------- MODULE MCMainReceiver ---------------------------
(* Instances of MainReceiver: what the transmitter sends and what a foreign *)
(* frame holds.                                                             *)
EXTENDS MainReceiver

\* Seconds and nanoseconds of four different bytes each.
MCMessage(type, channel, slot, offset) ==
    [pktType |-> type, channel |-> channel, eventId |-> 142, slot |-> slot,
     offsetMs |-> offset, sec |-> 16909060, nsec |-> 84281096]

MCAdvance  == MCMessage(PKT_ADVANCE, 0, 258, 0)
MCLtimFire == MCMessage(PKT_FIRE, 3, 0, 1027)
MCCtimFire == MCMessage(PKT_FIRE, 255, 0, 65535)

MCMessages == {MCAdvance, MCLtimFire}
MCLtim     == {MCLtimFire}
MCFires    == {MCLtimFire, MCCtimFire}

\* Another protocol on the same EtherType.
MCForeign == {[i \in Positions |-> 7]}

MCQueue == [sink |-> "queue", verbose |-> FALSE]
MCZynq  == [sink |-> "zynq", verbose |-> FALSE]
MCShm   == [sink |-> "shm", verbose |-> TRUE]

MCAllSinks == {MCQueue, MCZynq, MCShm}
MCOnlyShm  == {MCShm}
MCOnlyZynq == {MCZynq}
=============================================================================
