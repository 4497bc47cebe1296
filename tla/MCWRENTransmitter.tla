------------------------- MODULE MCWRENTransmitter -------------------------
(***************************************************************************)
(* Small instances of WRENTransmitter: installed actions a1 and a2 and an  *)
(* action aNew that was created after the action map was built, one or two *)
(* comparators, two events, and capsules of 2 to 5 words in a ring of 7 to *)
(* 9 words.                                                                *)
(***************************************************************************)
EXTENDS WRENTransmitter, TLC

CONSTANTS c1, c2, noComp, a1, a2, aNew, noAct, e1, e2, noEvent, s1, s2

MCComps   == {c1, c2}
MCActions == {a1, a2, aNew}
MCMapped  == {a1, a2}
MCEvents  == {e1, e2}
MCEventOf == (a1 :> e1) @@ (a2 :> noEvent)
MCSlots   == {s1, s2}
MCSlotsOf == (e1 :> {s1, s2}) @@ (e2 :> {}) @@ (noEvent :> {})

Pulse(c)     == [NullCapsule EXCEPT !.typ = "PULSE", !.len = 4, !.comp = c]
Event(e, n)  == [NullCapsule EXCEPT !.typ = "EVENT", !.len = n, !.ev = e]
Config(c, a) == [NullCapsule EXCEPT !.typ = "CONFIG", !.len = 2, !.comp = c,
                                    !.act = a]
Context(n)   == [NullCapsule EXCEPT !.len = n]

\* One comparator that is given an installed or a new action; an event with
\* a bound action and table entries, of either length; a context.
CapsulesNew == {Pulse(c1), Pulse(noComp), Event(e1, 5), Config(c1, a1),
                Config(c1, aNew), Context(3)}

\* Two comparators whose actions change, and an event of four words, the
\* shortest with a time in it.
CapsulesRelease == {Pulse(c1), Pulse(c2), Event(e1, 4), Config(c1, a1),
                    Config(c1, a2), Config(c2, a2), Config(c1, aNew)}

\* Fewer kinds, for the runs whose question needs no more.
CapsulesFew == {Pulse(c1), Event(e1, 5), Config(c1, a1), Config(c1, aNew)}

NoGarbage == {}

\* Bit patterns of words that are not one whole header: a length beyond the
\* ring and an index out of bounds; a length of zero, and a capsule nobody
\* wrote.
FewGarbage  == {Context(RingSize + 3), Config(c1, noAct)}
SomeGarbage == FewGarbage \cup {NullCapsule, Pulse(c1)}

\* discoverActions adds the sidecar's own CTIM actions to the action map
\* under the event their condition matches: a1 is one of them.
MCCtims == {a1}

\* "To get CTIM fire at exact time T (not just ADVANCE seconds early)" the
\* sidecar has an action of its own whose PULSE is the time T: its FIRE is
\* sent for that PULSE.
CtimFiresAtPulse ==
    \A p \in out : p.kind = "FIRE" /\ p.what \in MCCtims
                     => log[p.cap].typ = "PULSE"
=============================================================================
