------------------------------ MODULE MCSidecar ------------------------------
(* One comparator whose action changes, also to one that was not installed, *)
(* an event with an action of its own, and one with a slot.                *)
EXTENDS Sidecar

CONSTANTS c1, noComp, a1, a2, aNew, noAct, e1, e2, noEvent, s1

MCComps   == {c1}
MCActions == {a1, a2, aNew}
MCMapped  == {a1, a2}
MCEvents  == {e1, e2}
MCEventOf == [a \in MCMapped |-> IF a = a1 THEN e1 ELSE noEvent]
MCSlots   == {s1}
MCSlotsOf == [e \in {e1, e2, noEvent} |-> IF e = e2 THEN {s1} ELSE {}]

MCCapsule(typ, n, c, a, e) ==
    [typ |-> typ, len |-> n, comp |-> c, act |-> a, ev |-> e]

MCCapsules == {MCCapsule("CONFIG", 2, c1, a1, noEvent),
               MCCapsule("CONFIG", 2, c1, a2, noEvent),
               MCCapsule("CONFIG", 2, c1, aNew, noEvent),
               MCCapsule("PULSE", 4, c1, noAct, noEvent),
               MCCapsule("EVENT", 5, noComp, noAct, e1),
               MCCapsule("EVENT", 5, noComp, noAct, e2)}
=============================================================================
