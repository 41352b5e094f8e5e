------------------------------ MODULE UDPLink ------------------------------
(***************************************************************************)
(* ConnectionUDP, with messages of a single pack and ids that the two      *)
(* processes do not share, implements the abstract MessageLink.            *)
(***************************************************************************)
EXTENDS ConnectionUDP

BigIds(entries) == {e.pack.bID : e \in entries}

LinkSent == [n \in Node |-> {p.bID : p \in encoded[n]}]

LinkOutstanding ==
    [n \in Node |-> BigIds(RangeOf(posted[n]) \cup DataEntries(n))]

LinkTriedOut ==
    [n \in Node |-> BigIds({e \in DataEntries(n) : out_of_resend_count(e)})]

LinkDelivered == [n \in Node |-> {d[1].of : d \in delivered[n]}]

MessageIds == UNION {FirstId[n] .. IdLimit[n] : n \in Node}

Link == INSTANCE MessageLink
            WITH Message <- MessageIds, sent <- LinkSent,
                 outstanding <- LinkOutstanding, triedOut <- LinkTriedOut,
                 delivered <- LinkDelivered

\* A message of one pack is forgotten by its sender only after the peer's
\* data_callback_ had it or after MAX_RESEND_COUNT sends, and only messages
\* that were posted are ever handed over: the steps of the two connections
\* are steps of MessageLink.
ImplementsLink == Link!Spec
=============================================================================
