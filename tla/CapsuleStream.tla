---------------------------- MODULE CapsuleStream ----------------------------
(***************************************************************************)
(* What the transmitter promises, without the ring: it attaches to a log   *)
(* of capsules at its current end and from there on handles every capsule  *)
(* once, in order and whole, each as one step.  The ring reader of module  *)
(* WRENTransmitter implements this specification as long as the firmware   *)
(* does not overrun it.                                                    *)
(***************************************************************************)
EXTENDS WRENProtocol, Sequences

CONSTANT Capsules        \* the capsules the firmware may publish

ASSUME StreamAssumption == Capsules \subseteq CapsuleShape

VARIABLES
    pub,        \* the capsules published so far, oldest first
    attached,   \* the poll loop has taken its starting position
    done,       \* number of the last capsule handled (or skipped at start)
    comp,       \* the comparator table
    out         \* the packets of the last capsule handled

streamVars == <<pub, attached, done, comp, out>>

\* A packet carries the two halves of the time of one capsule and a flag
\* that says whether the transmit ring had room for it.
StreamPacket(s, k, ok) ==
    [kind |-> s[1], what |-> s[2], cap |-> k, sec |-> k, nsec |-> k, ok |-> ok]

StreamInit == /\ pub = <<>>
              /\ attached = FALSE
              /\ done = 0
              /\ comp = [c \in Comps |-> NoEntry]
              /\ out = {}

Publish == /\ \E c \in Capsules : pub' = Append(pub, c)
           /\ UNCHANGED <<attached, done, comp, out>>

Attach == /\ ~attached
          /\ attached' = TRUE
          /\ done' = Len(pub)
          /\ UNCHANGED <<pub, comp, out>>

Handle == /\ attached
          /\ done < Len(pub)
          /\ done' = done + 1
          /\ comp' = Configured(comp, pub[done'])
          /\ \E ok \in [Sends(comp, pub[done']) -> BOOLEAN] :
                out' = {StreamPacket(s, done', ok[s]) : s \in DOMAIN ok}
          /\ UNCHANGED <<pub, attached>>

StreamNext == Publish \/ Attach \/ Handle

StreamSpec == StreamInit /\ [][StreamNext]_streamVars
=============================================================================
