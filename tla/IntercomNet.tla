---- MODULE IntercomNet ----
(***************************************************************************)
(* What the two ends of the intercom share: the packets on the air from    *)
(* the talking end to the listening one (udp_sfd), and the request for     *)
(* lost packets on its way back (ack_sfd).  Both are UDP: what is sent can *)
(* be lost, overtaken, and arrive twice.                                   *)
(***************************************************************************)
EXTENDS Integers, Sequences, FiniteSets, SequencesExt, FiniteSetsExt

CONSTANTS
    ENCODED_BUF_NUM,   \* slots of the ring of encoded packets
    MaxSort,           \* bound: packets of one session
    MaxSession,        \* bound: sessions (starts) of the talking end
    MaxDelay,          \* how many newer packets may overtake one on the air
    Empties            \* bound: the packets that may be sent empty

ASSUME NetAssumption ==
    /\ ENCODED_BUF_NUM \in Nat \ {0, 1, 2}
    /\ MaxSort \in Nat \ {0}
    /\ MaxSession \in Nat \ {0}
    /\ MaxDelay \in Nat
    /\ Empties \subseteq 1 .. MaxSort

VARIABLES
    net,    \* packets on the air
    asked   \* the request on the air: sequence numbers, {} for none

\* Sequence numbers run from 1 to twice the ring, the bits of a request.
Seqs == 1 .. 2 * ENCODED_BUF_NUM
NextSeq(s) == (s % (2 * ENCODED_BUF_NUM)) + 1

Packet == [seq : Seqs, status : {0, 1}, sort : 1 .. MaxSort, id : 1 .. MaxSession]

NetTypeOK ==
    /\ net \subseteq Packet
    /\ asked \subseteq Seqs

\* A datagram or the request is lost.
LosePacket == \E p \in net : net' = net \ {p} /\ UNCHANGED asked
LoseRequest == asked # {} /\ asked' = {} /\ UNCHANGED net
====
