-------------------------- MODULE MCConnectionUDP --------------------------
(***************************************************************************)
(* Instances of ConnectionUDP for TLC: two nodes, a and b.                 *)
(***************************************************************************)
EXTENDS UDPLink, TLC

CONSTANTS a, b

MCNode == {a, b}
MCPeer == (a :> b) @@ (b :> a)

\* Both processes count from 1, as pack.cc initialises current_id.
SameFirst == (a :> 1) @@ (b :> 1)
SameLimit == (a :> 2) @@ (b :> 2)

\* The ids of the two processes never meet.
ApartFirst == (a :> 1) @@ (b :> 11)
ApartLimit == (a :> 2) @@ (b :> 12)
ApartLimit2 == (a :> 3) @@ (b :> 11)

\* Messages of one pack in both directions, or only from a to b.
BothWays == (a :> {1}) @@ (b :> {1})
OneWay == (a :> {1}) @@ (b :> {})

\* State constraint: a socket takes every pack it is given.  What a failed send
\* changes is in the runs without this constraint.
SendsSucceed ==
    \A n \in Node : \A c \in BagToSet(completions[n]) : ~c.error

\* Messages of two packs, the second one not full.
LongOneWay == (a :> {3}) @@ (b :> {})

\* Messages of one full pack and of two packs.
MixedOneWay == (a :> {2, 3}) @@ (b :> {})
=============================================================================
