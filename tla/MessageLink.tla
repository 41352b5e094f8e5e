---------------------------- MODULE MessageLink ----------------------------
(***************************************************************************)
(* What the acknowledged datagrams of a ConnectionUDP promise a pair of    *)
(* applications.  A message that was posted may be delivered, any number   *)
(* of times and in any order; the sender forgets it only when it has been  *)
(* delivered or when it has been tried often enough.                       *)
(***************************************************************************)
CONSTANTS Node, Peer, Message

VARIABLES sent,          \* sent[n]: the messages n has posted
          outstanding,   \* outstanding[n]: those n still takes care of
          triedOut,      \* triedOut[n]: those of them tried often enough
          delivered      \* delivered[n]: the messages handed over at n

vars == <<sent, outstanding, triedOut, delivered>>

Init ==
    /\ sent = [n \in Node |-> {}]
    /\ outstanding = [n \in Node |-> {}]
    /\ triedOut = [n \in Node |-> {}]
    /\ delivered = [n \in Node |-> {}]

Post(n, m) ==
    /\ m \notin sent[n]
    /\ sent' = [sent EXCEPT ![n] = @ \cup {m}]
    /\ outstanding' = [outstanding EXCEPT ![n] = @ \cup {m}]
    /\ UNCHANGED <<triedOut, delivered>>

TryOut(n, m) ==
    /\ m \in outstanding[n]
    /\ triedOut' = [triedOut EXCEPT ![n] = @ \cup {m}]
    /\ UNCHANGED <<sent, outstanding, delivered>>

Deliver(n, m) ==
    /\ m \in sent[Peer[n]]
    /\ delivered' = [delivered EXCEPT ![n] = @ \cup {m}]
    /\ UNCHANGED <<sent, outstanding, triedOut>>

\* The sender forgets some messages: none that was neither delivered nor
\* tried often enough.
Settle(n, ms) ==
    /\ ms \subseteq outstanding[n]
    /\ ms \subseteq delivered[Peer[n]] \cup triedOut[n]
    /\ outstanding' = [outstanding EXCEPT ![n] = @ \ ms]
    /\ triedOut' = [triedOut EXCEPT ![n] = @ \ ms]
    /\ UNCHANGED <<sent, delivered>>

Next ==
    \E n \in Node :
        \/ \E m \in Message : Post(n, m) \/ TryOut(n, m) \/ Deliver(n, m)
        \/ \E ms \in SUBSET outstanding[n] : Settle(n, ms)

Spec == Init /\ [][Next]_vars
=============================================================================
