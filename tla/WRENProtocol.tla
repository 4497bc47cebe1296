---------------------------- MODULE WRENProtocol ----------------------------
(***************************************************************************)
(* The vocabulary shared by the two sides of the sidecar: the capsules the *)
(* WREN firmware publishes in its asynchronous ring, and what the          *)
(* transmitter sends on the Ethernet link because of one capsule.          *)
(*                                                                         *)
(* An action index stands for the CompEntry <<eventId, channel, offsetMs>> *)
(* that installActionMap stored for it, so "FIRE of action a" is a packet  *)
(* carrying that entry.                                                    *)
(***************************************************************************)
EXTENDS Naturals, FiniteSets

CONSTANTS
    Comps,      \* comparator indices below kMaxComp
    NoComp,     \* a comparator index that is not below kMaxComp (0xFFFF)
    Actions,    \* action indices below kMaxActIdx
    NoAct,      \* an action index that is not below kMaxActIdx
    Mapped,     \* actions whose m_actMeta entry was installed at start
    Events,     \* event identifiers other than 0
    NoEvent,    \* event identifier 0: the condition query failed
    EventOf,    \* eventId of the entry installed for an action
    Slots,      \* LTIM slots of the kTargets table
    SlotsOf,    \* the slots kTargets lists for an event
    NoEntry,    \* m_compActive is false: the comparator has no entry
    Verbose     \* kDebugVerbose: transmitAll (TRUE) or transmitLTIM (FALSE)

Types == {"CONTEXT", "EVENT", "CONFIG", "PULSE"}

\* A decoded capsule: the header's type and length and the identifiers of
\* word 1, of which each type uses its own.
CapsuleShape == [typ  : Types,
                 len  : Nat,
                 comp : Comps \cup {NoComp},
                 act  : Actions \cup {NoAct},
                 ev   : Events \cup {NoEvent}]

ASSUME ProtocolAssumption ==
    /\ IsFiniteSet(Mapped) /\ IsFiniteSet(Slots)
    /\ NoComp \notin Comps
    /\ NoAct \notin Actions
    /\ NoEvent \notin Events
    /\ NoEntry \notin Actions
    /\ Mapped \subseteq Actions
    /\ EventOf \in [Mapped -> Events \cup {NoEvent}]
    /\ SlotsOf \in [Events \cup {NoEvent} -> SUBSET Slots]
    /\ Verbose \in BOOLEAN

\* m_compInfo and m_compActive as one function: both are written together.
Entry == Mapped \cup {NoEntry}
CompTable == [Comps -> Entry]

\* comp < kMaxComp && m_compActive[comp]
Active(comp, c) == /\ c.comp \in Comps
                   /\ comp[c.comp] # NoEntry

\* Mutant of ConfigAccepted: the action index is not tested.
ConfigNoActCheck(c) == c.comp \in Comps

\* Only capsules that name a comparator and an installed action are taken.
ConfigAccepted(c) == /\ c.comp \in Comps
                     /\ c.act \in Mapped

\* The scan of m_actMeta an EVENT triggers; event 0 never matches.
EventActions(ev) == {a \in Mapped : EventOf[a] = ev /\ ev # NoEvent}

\* resolveCtimToSlots, reached in the debug build only.
AdvanceSlots(ev) == IF Verbose THEN SlotsOf[ev] ELSE {}

\* What one capsule makes the transmitter send, given the comparator table.
Sends(comp, c) ==
    CASE c.typ = "PULSE" -> IF Active(comp, c)
                            THEN {<<"FIRE", comp[c.comp]>>}
                            ELSE {}
      [] c.typ = "EVENT" -> {<<"ADVANCE", s>> : s \in AdvanceSlots(c.ev)}
                              \cup {<<"FIRE", a>> : a \in EventActions(c.ev)}
      [] OTHER -> {}

\* Mutant of Configured: a comparator keeps its first action.
ConfiguredOnce(comp, c) ==
    IF c.typ = "CONFIG" /\ ConfigAccepted(c) /\ ~Active(comp, c)
    THEN [comp EXCEPT ![c.comp] = c.act]
    ELSE comp

\* What one capsule does to the comparator table.
Configured(comp, c) ==
    IF c.typ = "CONFIG" /\ ConfigAccepted(c)
    THEN [comp EXCEPT ![c.comp] = c.act]
    ELSE comp
=============================================================================
