---------------------------- MODULE ATCDelivery -----------------------------
(***************************************************************************)
(* What the pilot and the ground controller may expect of everything       *)
(* between them: sessions, buffers, retransmissions and lost connections   *)
(* come down to a channel that may lose a packet but never invents,        *)
(* alters, repeats or overtakes one.  Registrations are the exception:     *)
(* each session begins with its own, ahead of the packets that are kept    *)
(* for it.  ATCComms implements this specification.                        *)
(***************************************************************************)
EXTENDS Integers, Sequences

CONSTANT TypeOf(_)  \* the packet type that stands for what was given

VARIABLES
    given,      \* what was given to the client to send, in order
    delivered   \* the packets the ground controller handled, in order

deliveryVars == <<given, delivered>>

Init == given = <<>> /\ delivered = <<>>

\* t is s with one more element.
Extends(s, t) == Len(t) = Len(s) + 1 /\ \A i \in DOMAIN s : t[i] = s[i]

Give == Extends(given, given') /\ UNCHANGED delivered

\* Given later than all that was delivered.
InTurn(n) ==
    \A i \in DOMAIN delivered :
        delivered[i].type # "HANDSHAKE" => delivered[i].seq < n

Deliver ==
    /\ Extends(delivered, delivered')
    /\ LET p == delivered'[Len(delivered')]
       IN  /\ p.seq \in DOMAIN given /\ p.type = TypeOf(given[p.seq])
           /\ p.type = "HANDSHAKE" \/ InTurn(p.seq)
    /\ UNCHANGED given

Next == Give \/ Deliver

Spec == Init /\ [][Next]_deliveryVars
=============================================================================
