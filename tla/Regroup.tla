------------------------------ MODULE Regroup ------------------------------
(***************************************************************************)
(* RegroupPack: the reassembly of the packs of a message out of the list   *)
(* of packs still waiting for the others.  ConnectionUDP and               *)
(* ConnectionUDPMedia run the same loop over packs of different layouts,   *)
(* so the module is parameterised by the accessors it calls.               *)
(*                                                                         *)
(* The loop walks the list from its head past every pack of an earlier     *)
(* message and every earlier piece of the same message.  The first other   *)
(* pack it meets ends the walk: an equal piece makes the new one a         *)
(* duplicate; in front of any other pack the new piece is inserted without *)
(* moving the iterator on, so that the same element is examined for ever.  *)
(***************************************************************************)
EXTENDS Integers, Sequences, FiniteSetsExt

CONSTANTS BigOf(_),      \* the message a pack belongs to
          SmallOf(_),    \* the position that orders the packs of a message
          TotalOf(_)     \* how many packs the message has

SameMessage(list, pack) ==
    {i \in DOMAIN list : BigOf(list[i]) = BigOf(pack)}

\* Mutated form of Obstacles: packs of later messages are passed as well.
ObstaclesInMessage(list, pack) ==
    {i \in DOMAIN list :
        /\ BigOf(list[i]) = BigOf(pack)
        /\ SmallOf(list[i]) >= SmallOf(pack)}

\* Where the walk from the head of the list cannot simply move on.
Obstacles(list, pack) ==
    {i \in DOMAIN list :
        \/ BigOf(list[i]) > BigOf(pack)
        \/ /\ BigOf(list[i]) = BigOf(pack)
           /\ SmallOf(list[i]) >= SmallOf(pack)}

\* Mutated form of IsDuplicateAt: equal packs are not looked for.
NeverDuplicate(list, pack, i) == FALSE

IsDuplicateAt(list, pack, i) ==
    /\ BigOf(list[i]) = BigOf(pack)
    /\ SmallOf(list[i]) = SmallOf(pack)

\* The call returns without a change: this piece of this message is listed.
Drops(list, pack) ==
    LET obstacles == Obstacles(list, pack) IN
    /\ obstacles # {}
    /\ IsDuplicateAt(list, pack, Min(obstacles))

\* The call never returns.
Hangs(list, pack) ==
    LET obstacles == Obstacles(list, pack) IN
    /\ obstacles # {}
    /\ ~IsDuplicateAt(list, pack, Min(obstacles))

\* Mutated form of Appends: a repeated piece is listed once more.
AppendsRepeated(list, pack) ==
    \A i \in Obstacles(list, pack) : IsDuplicateAt(list, pack, i)

\* The piece goes to the end of the list, the only place where insertion works.
Appends(list, pack) == Obstacles(list, pack) = {}

\* An empty list takes the piece without looking whether it is complete.
Completes(list, pack) ==
    /\ Appends(list, pack)
    /\ list # <<>>
    /\ Cardinality(SameMessage(list, pack)) + 1 = TotalOf(pack)

\* The pieces handed over together: from the first piece of the message on,
\* as many as the message has.
Assembled(list, pack) ==
    LET all   == Append(list, pack)
        first == Min(SameMessage(all, pack))
    IN  SubSeq(all, first, first + TotalOf(pack) - 1)

\* Mutated form of Remaining: the whole list is cleared.
RemainingNone(list, pack) == <<>>

Remaining(list, pack) ==
    LET all   == Append(list, pack)
        first == Min(SameMessage(all, pack))
    IN  SubSeq(all, 1, first - 1) \o
        SubSeq(all, first + TotalOf(pack), Len(all))

\* recved_uncomplete_list when the call has returned.
ListAfter(list, pack) ==
    IF Completes(list, pack) THEN Remaining(list, pack)
    ELSE IF Appends(list, pack) THEN Append(list, pack)
    ELSE list
=============================================================================
