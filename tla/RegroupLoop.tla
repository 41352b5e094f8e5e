---------------------------- MODULE RegroupLoop ----------------------------
(***************************************************************************)
(* One call of RegroupPack, an action for each branch of its loop, to show *)
(* that module Regroup says what the loop computes and when it does not    *)
(* end.  A pack is the triple of ids the loop looks at; iterators are      *)
(* positions in the list, end() being Len(list) + 1.                       *)
(***************************************************************************)
EXTENDS Integers, Sequences, FiniteSetsExt

CONSTANTS Totals,    \* Totals[b]: how many packs message b has
          MaxHeld,   \* bound: how many packs the list holds before a call
          MaxList    \* bound: the length the list may grow to within a call

ASSUME RegroupLoopAssumption ==
    /\ DOMAIN Totals \subseteq Nat
    /\ \A b \in DOMAIN Totals : Totals[b] \in Nat /\ Totals[b] >= 2
    /\ MaxHeld \in Nat /\ MaxList \in Nat /\ MaxHeld < MaxList

Pieces ==
    UNION {[big : {b}, small : 1 .. Totals[b]] : b \in DOMAIN Totals}

BigId(p) == p.big
SmallId(p) == p.small

\* Mutated form of TotalCount: the + 1 of end - start + 1 is forgotten.
TotalCountOneLess(p) == Totals[p.big] - 1

TotalCount(p) == Totals[p.big]

R == INSTANCE Regroup WITH BigOf <- BigId, SmallOf <- SmallId,
                           TotalOf <- TotalCount

Precedes(p, q) == p.big < q.big \/ (p.big = q.big /\ p.small < q.small)

\* What a connection holds between two calls: the packs in order, and no
\* message of them complete.
Regular(list) ==
    /\ \A i, j \in DOMAIN list : i < j => Precedes(list[i], list[j])
    /\ \A b \in DOMAIN Totals :
         Cardinality({i \in DOMAIN list : list[i].big = b}) < Totals[b]

Lists == {list \in UNION {[1 .. k -> Pieces] : k \in 0 .. MaxHeld} : Regular(list)}

VARIABLES recved_uncomplete_list,
          pack,                \* the argument of the call
          it,                  \* the iterator of the loop
          big_pack_start_it,   \* end() as Len(list) + 1
          alredy_count,
          inserted,
          pc,                  \* "entry", "loop" or "returned"
          data,                \* what data_callback_ is called with
          before               \* history: the list when the call began

vars == <<recved_uncomplete_list, pack, it, big_pack_start_it, alredy_count,
          inserted, pc, data, before>>

End == Len(recved_uncomplete_list) + 1
Here == recved_uncomplete_list[it]

Init ==
    /\ recved_uncomplete_list \in Lists
    /\ before = recved_uncomplete_list
    /\ pack \in Pieces
    /\ it = 1
    /\ big_pack_start_it = End
    /\ alredy_count = 0
    /\ inserted = FALSE
    /\ pc = "entry"
    /\ data = <<>>

InsertedAt(list, i, p) ==
    SubSeq(list, 1, i - 1) \o <<p>> \o SubSeq(list, i, Len(list))

\* Both counters of a call that does not end stay at the bound.
Counted == Min({alredy_count + 1, MaxList + 1})

-----------------------------------------------------------------------------
EmptyList ==
    /\ pc = "entry"
    /\ recved_uncomplete_list = <<>>
    /\ recved_uncomplete_list' = <<pack>>
    /\ pc' = "returned"
    /\ UNCHANGED <<pack, it, big_pack_start_it, alredy_count, inserted, data, before>>

EnterLoop ==
    /\ pc = "entry"
    /\ recved_uncomplete_list # <<>>
    /\ pc' = "loop"
    /\ UNCHANGED <<recved_uncomplete_list, pack, it, big_pack_start_it,
                   alredy_count, inserted, data, before>>

InLoop == pc = "loop" /\ it # End

\* The first pack of the same message is remembered.
StartNoted == IF big_pack_start_it = End THEN it ELSE big_pack_start_it

SameIds ==
    /\ InLoop /\ BigId(Here) = BigId(pack) /\ ~inserted
    /\ SmallId(Here) = SmallId(pack)
    /\ big_pack_start_it' = StartNoted
    /\ pc' = "returned"
    /\ UNCHANGED <<recved_uncomplete_list, pack, it, alredy_count, inserted,
                   data, before>>

\* Inserted before the iterator, which is not moved on; the remembered start
\* is moved back by one.
InsertInMessage ==
    /\ InLoop /\ BigId(Here) = BigId(pack) /\ ~inserted
    /\ SmallId(Here) > SmallId(pack)
    /\ recved_uncomplete_list' = InsertedAt(recved_uncomplete_list, it, pack)
    /\ it' = it + 1
    /\ inserted' = TRUE
    /\ alredy_count' = Counted
    /\ big_pack_start_it' =
         LET moved == IF StartNoted >= it THEN StartNoted + 1 ELSE StartNoted
         IN  moved - 1
    /\ UNCHANGED <<pack, pc, data, before>>

\* Mutated form of PassEarlierPiece: the piece is not counted.
EarlierPieceNotCounted ==
    /\ InLoop /\ BigId(Here) = BigId(pack) /\ ~inserted
    /\ SmallId(Here) < SmallId(pack)
    /\ big_pack_start_it' = StartNoted
    /\ it' = it + 1
    /\ UNCHANGED <<recved_uncomplete_list, pack, alredy_count, inserted, pc,
                   data, before>>

PassEarlierPiece ==
    /\ InLoop /\ BigId(Here) = BigId(pack) /\ ~inserted
    /\ SmallId(Here) < SmallId(pack)
    /\ big_pack_start_it' = StartNoted
    /\ it' = it + 1
    /\ alredy_count' = Counted
    /\ UNCHANGED <<recved_uncomplete_list, pack, inserted, pc, data, before>>

\* Counted again and again: this branch does not move the iterator.
CountOnly ==
    /\ InLoop /\ BigId(Here) = BigId(pack) /\ inserted
    /\ big_pack_start_it' = StartNoted
    /\ alredy_count' = Counted
    /\ UNCHANGED <<recved_uncomplete_list, pack, it, inserted, pc, data, before>>

\* Inserted again and again: neither the flag nor the iterator is changed.
InsertBeforeMessage ==
    /\ InLoop /\ BigId(Here) > BigId(pack) /\ ~inserted
    /\ IF Len(recved_uncomplete_list) < MaxList
       THEN /\ recved_uncomplete_list' = InsertedAt(recved_uncomplete_list, it, pack)
            /\ it' = it + 1
            /\ big_pack_start_it' =
                 IF big_pack_start_it >= it THEN big_pack_start_it + 1
                 ELSE big_pack_start_it
       ELSE UNCHANGED <<recved_uncomplete_list, it, big_pack_start_it>>
    /\ alredy_count' = Counted
    /\ UNCHANGED <<pack, inserted, pc, data, before>>

\* Whether the walk goes past a pack of another message.
Other == InLoop /\ BigId(Here) # BigId(pack) /\ (BigId(Here) < BigId(pack) \/ inserted)

\* Mutated form of PassOther: the iterator is moved on twice.
PassOtherTwice ==
    /\ Other
    /\ it' = it + 2
    /\ UNCHANGED <<recved_uncomplete_list, pack, big_pack_start_it,
                   alredy_count, inserted, pc, data, before>>

\* Mutated form of PassOther: the iterator stays.
OtherNotPassed ==
    /\ Other
    /\ UNCHANGED vars

PassOther ==
    /\ Other
    /\ it' = it + 1
    /\ UNCHANGED <<recved_uncomplete_list, pack, big_pack_start_it,
                   alredy_count, inserted, pc, data, before>>

\* The end of the list: append, and hand over the message if it is complete.
Finish ==
    LET all   == IF inserted THEN recved_uncomplete_list
                 ELSE Append(recved_uncomplete_list, pack)
        count == IF inserted THEN alredy_count ELSE alredy_count + 1
        last  == big_pack_start_it + count - 1
    IN
    /\ pc = "loop"
    /\ it = End
    /\ IF count = TotalCount(pack)
       THEN /\ data' = SubSeq(all, big_pack_start_it, last)
            /\ recved_uncomplete_list' =
                 SubSeq(all, 1, big_pack_start_it - 1) \o SubSeq(all, last + 1, Len(all))
       ELSE /\ recved_uncomplete_list' = all
            /\ UNCHANGED data
    /\ alredy_count' = count
    /\ pc' = "returned"
    /\ UNCHANGED <<pack, it, big_pack_start_it, inserted, before>>

Loop ==
    \/ SameIds \/ InsertInMessage \/ PassEarlierPiece \/ CountOnly
    \/ InsertBeforeMessage \/ PassOther \/ Finish

Next == EmptyList \/ EnterLoop \/ Loop

Spec == Init /\ [][Next]_vars /\ WF_vars(Next)

-----------------------------------------------------------------------------
TypeOK ==
    /\ recved_uncomplete_list \in Seq(Pieces)
    /\ Len(recved_uncomplete_list) <= MaxList + 1
    /\ pc = "loop" => it \in 1 .. End /\ big_pack_start_it \in 0 .. End
    /\ alredy_count \in 0 .. MaxList + 1

\* A call that returns leaves the list, and calls data_callback_, as module
\* Regroup says: the closed form used for the connections is the loop's.
LoopComputesRegroup ==
    pc = "returned" =>
        /\ ~R!Hangs(before, pack)
        /\ recved_uncomplete_list = R!ListAfter(before, pack)
        /\ data = IF R!Completes(before, pack) THEN R!Assembled(before, pack) ELSE <<>>

\* The loop counts no more packs than the message has: the assert after it
\* holds.
CountWithinTotal == pc = "returned" => alredy_count <= TotalCount(pack)

\* Whenever Regroup does not say that it hangs, the loop comes to its end.
ReturnsUnlessHanging == ~R!Hangs(before, pack) ~> pc = "returned"
=============================================================================
