------------------------------ MODULE Sidecar ------------------------------
(***************************************************************************)
(* The sidecar from end to end: the transmitter as CapsuleStream promises  *)
(* it, an Ethernet link, and a receiver in direct mode that writes the     *)
(* slot of module ShmSlot, which FESA reads.                               *)
(*                                                                         *)
(* The link keeps its order and loses what it likes: a frame that found no *)
(* room in the receiver's ring, or was sent while no receiver ran.  Event  *)
(* n of the slot is the n-th packet a receiver took from the link.         *)
(***************************************************************************)
EXTENDS CapsuleStream, ShmSlot, SequencesExt

CONSTANT MaxCaps        \* bound: capsules published in one behaviour

ASSUME LogAssumption == MaxCaps \in Nat

VARIABLES link,         \* packets sent and not yet received
          taken         \* history: the packets written to the slot, in order

sidecarVars == <<streamVars, vars, link, taken>>

SidecarInit == StreamInit /\ Init /\ link = <<>> /\ taken = <<>>

FirmwarePublishes == /\ Len(pub) < MaxCaps
                     /\ Publish
                     /\ UNCHANGED <<vars, link, taken>>

TransmitterAttaches == Attach /\ UNCHANGED <<vars, link, taken>>

\* The packets of one capsule leave one after the other, but for those that
\* found no transmit buffer.
Transmit == /\ Handle
            /\ \E s \in SetToSeqs({p \in out' : p.ok}) : link' = link \o s
            /\ UNCHANGED <<vars, taken>>

Lose == /\ link # <<>>
        /\ link' = Tail(link)
        /\ UNCHANGED <<streamVars, vars, taken>>

\* Mutant of Receive: the newest frame is served first.
ReceiveNewest == /\ link # <<>>
                 /\ WriteLow
                 /\ taken' = Append(taken, Last(link))
                 /\ link' = Front(link)
                 /\ UNCHANGED streamVars

Receive == /\ link # <<>>
           /\ WriteLow
           /\ taken' = Append(taken, Head(link))
           /\ link' = Tail(link)
           /\ UNCHANGED streamVars

EndPush == (WriteHigh \/ StoreSeq) /\ UNCHANGED <<streamVars, link, taken>>

ReceiverRestarts == Restart /\ UNCHANGED <<streamVars, link, taken>>

FesaReads == Read /\ UNCHANGED <<streamVars, link, taken>>

SidecarNext == \/ FirmwarePublishes \/ TransmitterAttaches \/ Transmit
               \/ Lose \/ Receive \/ EndPush \/ ReceiverRestarts \/ FesaReads

\* As in ShmSlot: the reader polls for ever and a push comes to its end.
SidecarSpec == /\ SidecarInit /\ [][SidecarNext]_sidecarVars
               /\ WF_sidecarVars(FesaReads) /\ WF_sidecarVars(EndPush)

-----------------------------------------------------------------------------
(* Properties.                                                             *)

Whole(e) == e.lo = e.hi /\ e.lo > 0

\* The action last put on the comparator of PULSE k by a CONFIG that the
\* transmitter takes.
LastAccepted(k) ==
    LET before == {j \in 1 .. k - 1 : /\ pub[j].typ = "CONFIG"
                                      /\ ConfigAccepted(pub[j])
                                      /\ pub[j].comp = pub[k].comp}
    IN  pub[CHOOSE j \in before : \A h \in before : h <= j].act

\* An event that FESA takes whole was published by the firmware and is about
\* the action the firmware meant: for a PULSE the one last configured on its
\* comparator, for an EVENT one bound to it or a slot of it.
ShownAsMeant ==
    Whole(got) =>
        LET p == taken[got.lo]
            c == pub[p.cap]
        IN  CASE c.typ = "PULSE" -> p.what = LastAccepted(p.cap)
              [] c.typ = "EVENT" -> \/ p.what \in EventActions(c.ev)
                                    \/ p.what \in AdvanceSlots(c.ev)
              [] OTHER -> FALSE

\* Whatever is lost on the way, and across restarts of the receiver, FESA
\* never takes an event of an earlier capsule after one of a later.
ShownInOrder ==
    [][got' # got /\ Whole(got) /\ Whole(got')
          => taken'[got'.lo].cap >= taken[got.lo].cap]_sidecarVars
=============================================================================
