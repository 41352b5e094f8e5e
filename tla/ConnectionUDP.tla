--------------------------- MODULE ConnectionUDP ---------------------------
(***************************************************************************)
(* ConnectionUDP (io/connection_udp.cc): acknowledged datagrams over UDP.  *)
(* Every node runs one connection and talks to its Peer, which is taken to *)
(* run the same class.                                                     *)
(*                                                                         *)
(* The handlers of a connection run on its strand, one at a time and each  *)
(* to its end, so a handler is one action.  PostSend, Open, Close and Stop *)
(* are called by threads of the application and interleave with them.      *)
(***************************************************************************)
EXTENDS Pack, Sequences, FiniteSets, Bags

CONSTANTS Node,
          Peer,            \* Peer[n]: the node n exchanges datagrams with
          FirstId,         \* FirstId[n]: the initial Pack::current_id
          IdLimit,         \* bound: n posts only while current_id[n] < IdLimit[n]
          Lengths,         \* Lengths[n]: the lengths of the messages n posts
          InitialCounts,   \* what the unset sended_count_ of a new pack may hold
          MaxCompletions,  \* bound: sends of a node whose HandleSend is to come
          MayStop,         \* the nodes whose application calls Hive::Stop
          MayClose         \* the nodes whose application calls Close

ASSUME NodeAssumption ==
    /\ Peer \in [Node -> Node]
    /\ \A n \in Node : Peer[n] # n /\ Peer[Peer[n]] = n

ASSUME BoundAssumption ==
    /\ FirstId \in [Node -> Nat]
    /\ IdLimit \in [Node -> Nat]
    /\ Lengths \in [Node -> SUBSET Nat]
    /\ InitialCounts \subseteq Nat
    /\ MaxCompletions \in Nat
    /\ MayStop \subseteq Node /\ MayClose \subseteq Node

VARIABLES
    current_id,              \* Pack::current_id of each process
    phase,                   \* how far Open and Close have come
    receiving,               \* an async_receive_from is outstanding
    m_shutdown,              \* Hive::m_shutdown
    posted,                  \* StartSend calls queued on the strand
    send_pending_list,       \* packs to be sent again until acknowledged
    completions,             \* a bag: sends whose HandleSend is to come
    net,                     \* net[n]: every datagram ever sent to n
    recved_uncomplete_list,  \* pieces waiting for the rest of their message
    hung,                    \* a handler is in a loop it never leaves
    delivered,               \* what data_callback_ has been called with
    encoded,                 \* history: the data packs made by PostSend
    recved                   \* history: the data packs HandleRecv has decoded

vars == <<current_id, phase, receiving, m_shutdown, posted, send_pending_list,
          completions, net, recved_uncomplete_list, hung, delivered, encoded,
          recved>>

R == INSTANCE Regroup WITH BigOf <- GetBigId, SmallOf <- GetId,
                           TotalOf <- PiecesOf

RangeOf(s) == {s[i] : i \in DOMAIN s}

\* What malloc'ed memory left in the fields of a new pack: its sended_count_.
\* tries is history, the sends HandleSend has really counted.
NewEntry(pack, count) == [pack |-> pack, sended_count |-> count, tries |-> 0]

Entries == [pack : Packs, sended_count : Nat, tries : Nat]

PostedEntries == [pack : DataPacks, sended_count : Nat, tries : Nat]

Completions == [pack : Packs, error : BOOLEAN]

TypeOK ==
    /\ current_id \in [Node -> Nat]
    /\ phase \in [Node -> {"new", "opening", "open", "closing", "closed"}]
    /\ receiving \in [Node -> BOOLEAN]
    /\ m_shutdown \in [Node -> BOOLEAN]
    /\ posted \in [Node -> Seq(PostedEntries)]
    /\ send_pending_list \in [Node -> SUBSET Entries]
    /\ DOMAIN completions = Node
    /\ \A n \in Node : BagToSet(completions[n]) \subseteq Completions
    /\ net \in [Node -> SUBSET Packs]
    /\ recved_uncomplete_list \in [Node -> Seq(DataPacks)]
    /\ hung \in [Node -> BOOLEAN]
    /\ delivered \in [Node -> SUBSET Seq(Bodies)]
    /\ encoded \in [Node -> SUBSET DataPacks]
    /\ recved \in [Node -> SUBSET DataPacks]

Init ==
    /\ current_id = FirstId
    /\ phase = [n \in Node |-> "new"]
    /\ receiving = [n \in Node |-> FALSE]
    /\ m_shutdown = [n \in Node |-> FALSE]
    /\ posted = [n \in Node |-> <<>>]
    /\ send_pending_list = [n \in Node |-> {}]
    /\ completions = [n \in Node |-> EmptyBag]
    /\ net = [n \in Node |-> {}]
    /\ recved_uncomplete_list = [n \in Node |-> <<>>]
    /\ hung = [n \in Node |-> FALSE]
    /\ delivered = [n \in Node |-> {}]
    /\ encoded = [n \in Node |-> {}]
    /\ recved = [n \in Node |-> {}]

-----------------------------------------------------------------------------
(***************************************************************************)
(* async_send_to of some packs: those in ok reach the network, the others  *)
(* complete with an error, as all do when the socket is not open.          *)
(***************************************************************************)
SocketOpen(n) == phase[n] \in {"opening", "open", "closing"}

Outcomes(packs, ok) ==
    {[pack |-> p, error |-> p \notin ok] : p \in packs}

AsyncSend(n, packs, ok) ==
    /\ SocketOpen(n) \/ ok = {}
    /\ BagCardinality(completions[n]) + Cardinality(packs) <= MaxCompletions
    /\ net' = [net EXCEPT ![Peer[n]] = @ \cup ok]
    /\ completions' =
         [completions EXCEPT ![n] = @ (+) SetToBag(Outcomes(packs, ok))]

\* Mutated form of Without: an ans pack acknowledges all earlier packs as well.
WithoutUpTo(list, pack) == {e \in list : GetId(e.pack) > GetId(pack)}

\* RemovePackFromSendList: every entry whose GetId is that of the pack goes.
Without(list, pack) == {e \in list : GetId(e.pack) # GetId(pack)}

\* Mutated form of SendSuccessOnce: the send is not counted.
SendNotCounted(e) == e

\* SendSuccessOnce on the pack, which the send list may hold no longer.
SendSuccessOnce(e) ==
    [pack |-> e.pack, sended_count |-> e.sended_count + 1, tries |-> e.tries + 1]

CountSend(list, pack) ==
    {IF e.pack = pack THEN SendSuccessOnce(e) ELSE e : e \in list}

-----------------------------------------------------------------------------
(***************************************************************************)
(* Calls of the application.                                               *)
(***************************************************************************)
\* Opens the socket, arms the timer and posts HandleOpen.
Open(n) ==
    /\ phase[n] = "new"
    /\ phase' = [phase EXCEPT ![n] = "opening"]
    /\ UNCHANGED <<current_id, receiving, m_shutdown, posted,
                   send_pending_list, completions, net,
                   recved_uncomplete_list, hung, delivered, encoded, recved>>

\* Encodes the message in the calling thread and posts one StartSend a pack.
PostSend(n, len) ==
    LET packs == EncodeData(current_id[n], len) IN
    /\ current_id[n] < IdLimit[n]
    /\ current_id' = [current_id EXCEPT ![n] = @ + 1]
    /\ \E count \in [DOMAIN packs -> InitialCounts] :
         posted' = [posted EXCEPT ![n] =
                      @ \o [i \in DOMAIN packs |-> NewEntry(packs[i], count[i])]]
    /\ encoded' = [encoded EXCEPT ![n] = @ \cup RangeOf(packs)]
    /\ UNCHANGED <<phase, receiving, m_shutdown, send_pending_list,
                   completions, net, recved_uncomplete_list, hung, delivered,
                   recved>>

\* Hive::Stop sets the shutdown flag once; from then on it runs the handlers
\* together with the work thread.
Stop(n) ==
    /\ n \in MayStop
    /\ ~m_shutdown[n]
    /\ m_shutdown' = [m_shutdown EXCEPT ![n] = TRUE]
    /\ UNCHANGED <<current_id, phase, receiving, posted, send_pending_list,
                   completions, net, recved_uncomplete_list, hung, delivered,
                   encoded, recved>>

\* Posts HandleClose.
Close(n) ==
    /\ n \in MayClose
    /\ phase[n] = "open"
    /\ phase' = [phase EXCEPT ![n] = "closing"]
    /\ UNCHANGED <<current_id, receiving, m_shutdown, posted,
                   send_pending_list, completions, net,
                   recved_uncomplete_list, hung, delivered, encoded, recved>>

-----------------------------------------------------------------------------
(***************************************************************************)
(* Handlers on the strand.                                                 *)
(***************************************************************************)
HandleOpen(n) ==
    /\ ~hung[n]
    /\ phase[n] = "opening"
    /\ phase' = [phase EXCEPT ![n] = "open"]
    /\ receiving' = [receiving EXCEPT ![n] = TRUE]
    /\ UNCHANGED <<current_id, m_shutdown, posted, send_pending_list,
                   completions, net, recved_uncomplete_list, hung, delivered,
                   encoded, recved>>

\* The socket is closed; the timer is armed again by its own cancellation.
HandleClose(n) ==
    /\ ~hung[n]
    /\ phase[n] = "closing"
    /\ phase' = [phase EXCEPT ![n] = "closed"]
    /\ UNCHANGED <<current_id, receiving, m_shutdown, posted,
                   send_pending_list, completions, net,
                   recved_uncomplete_list, hung, delivered, encoded, recved>>

\* The first sending of a pack, which enters the send list.
StartSend(n) ==
    /\ ~hung[n]
    /\ posted[n] # <<>>
    /\ LET e == Head(posted[n]) IN
         /\ send_pending_list' = [send_pending_list EXCEPT ![n] = @ \cup {e}]
         /\ \E ok \in SUBSET {e.pack} : AsyncSend(n, {e.pack}, ok)
    /\ posted' = [posted EXCEPT ![n] = Tail(@)]
    /\ UNCHANGED <<current_id, phase, receiving, m_shutdown,
                   recved_uncomplete_list, hung, delivered, encoded, recved>>

\* Mutated form of HandleSend: any pack that was sent leaves the list.
SentIsDone(n, c) ==
    /\ ~hung[n]
    /\ BagIn(c, completions[n])
    /\ completions' = [completions EXCEPT ![n] = @ (-) SetToBag({c})]
    /\ send_pending_list' =
         [send_pending_list EXCEPT ![n] = IF c.error THEN @ ELSE Without(@, c.pack)]
    /\ UNCHANGED <<current_id, phase, receiving, m_shutdown, posted, net,
                   recved_uncomplete_list, hung, delivered, encoded, recved>>

\* A send has ended.  An ans pack that was sent leaves the list by its id.
HandleSend(n, c) ==
    /\ ~hung[n]
    /\ BagIn(c, completions[n])
    /\ completions' = [completions EXCEPT ![n] = @ (-) SetToBag({c})]
    /\ send_pending_list' =
         [send_pending_list EXCEPT ![n] =
            IF c.error THEN @
            ELSE IF IsAnsPack(c.pack) THEN Without(@, c.pack)
            ELSE CountSend(@, c.pack)]
    /\ UNCHANGED <<current_id, phase, receiving, m_shutdown, posted, net,
                   recved_uncomplete_list, hung, delivered, encoded, recved>>

\* An ans pack: what it answers leaves the send list.
RecvAns(n, p) ==
    /\ send_pending_list' =
         [send_pending_list EXCEPT ![n] = Without(@, p)]
    /\ UNCHANGED <<net, completions, recved_uncomplete_list, hung, delivered,
                   recved>>

\* A data pack: it is answered first, then regrouped or handed over.
RecvData(n, p) ==
    LET list == recved_uncomplete_list[n]
        ans  == EncodeAnsPack(GetId(p))
    IN
    /\ needAns(p)
    /\ \E count \in InitialCounts, ok \in SUBSET {ans} :
         /\ send_pending_list' =
              [send_pending_list EXCEPT ![n] = @ \cup {NewEntry(ans, count)}]
         /\ AsyncSend(n, {ans}, ok)
    /\ recved' = [recved EXCEPT ![n] = @ \cup {p}]
    /\ recved_uncomplete_list' =
         [recved_uncomplete_list EXCEPT ![n] =
            IF IsSmallPack(p) THEN R!ListAfter(@, p) ELSE @]
    /\ hung' = [hung EXCEPT ![n] = IsSmallPack(p) /\ R!Hangs(list, p)]
    /\ delivered' =
         [delivered EXCEPT ![n] =
            IF ~IsSmallPack(p) THEN @ \cup {<<Body(p)>>}
            ELSE IF R!Completes(list, p)
            THEN LET all == R!Assembled(list, p)
                 IN  @ \cup {[i \in DOMAIN all |-> Body(all[i])]}
            ELSE @]

\* Any datagram sent to n, at any time and any number of times: the network
\* loses a datagram by never delivering it.
HandleRecv(n, p) ==
    /\ ~hung[n]
    /\ phase[n] \in {"open", "closing"}
    /\ receiving[n]
    /\ ~m_shutdown[n]
    /\ p \in net[n]
    /\ IF IsAnsPack(p) THEN RecvAns(n, p) ELSE RecvData(n, p)
    /\ UNCHANGED <<current_id, phase, receiving, m_shutdown, posted, encoded>>

\* After Stop the first receive to end, with a datagram or an error, is the last.
HandleRecvStopped(n) ==
    /\ ~hung[n]
    /\ receiving[n]
    /\ m_shutdown[n]
    /\ receiving' = [receiving EXCEPT ![n] = FALSE]
    /\ UNCHANGED <<current_id, phase, m_shutdown, posted, send_pending_list,
                   completions, net, recved_uncomplete_list, hung, delivered,
                   encoded, recved>>

\* Packs sent often enough go; the others are sent again when they are due.
HandleTimer(n) ==
    LET kept == {e \in send_pending_list[n] : ~out_of_resend_count(e)} IN
    /\ ~hung[n]
    /\ phase[n] # "new"
    /\ \E due \in should_resend(kept) :
         LET packs == {e.pack : e \in due} IN
         \E ok \in SUBSET packs : AsyncSend(n, packs, ok)
    /\ send_pending_list' = [send_pending_list EXCEPT ![n] = kept]
    /\ UNCHANGED <<current_id, phase, receiving, m_shutdown, posted,
                   recved_uncomplete_list, hung, delivered, encoded, recved>>

-----------------------------------------------------------------------------
Next ==
    \E n \in Node :
        \/ Open(n)
        \/ \E len \in Lengths[n] : PostSend(n, len)
        \/ Stop(n)
        \/ Close(n)
        \/ HandleOpen(n)
        \/ HandleClose(n)
        \/ StartSend(n)
        \/ \E c \in BagToSet(completions[n]) : HandleSend(n, c)
        \/ \E p \in net[n] : HandleRecv(n, p)
        \/ HandleRecvStopped(n)
        \/ HandleTimer(n)

Spec == Init /\ [][Next]_vars

-----------------------------------------------------------------------------
(***************************************************************************)
(* Fairness: the threads that poll the io_service keep running its         *)
(* handlers, and a pack that is sent again for ever is taken by the socket *)
(* for ever often.  Nothing is assumed of the network or of the peer.      *)
(***************************************************************************)
IsMessage(p, bid) == ~IsAnsPack(p) /\ p.bID = bid

\* HandleTimer sends a pack of message bid again and the socket takes it.
Resend(n, bid) ==
    /\ HandleTimer(n)
    /\ \E c \in BagToSet(completions'[n]) :
         /\ IsMessage(c.pack, bid) /\ ~c.error
         /\ c \notin BagToSet(completions[n]) \/ completions'[n][c] > completions[n][c]

\* HandleTimer drops the packs of message bid.
DropTriedOut(n, bid) ==
    /\ HandleTimer(n)
    /\ \E e \in send_pending_list[n] :
         IsMessage(e.pack, bid) /\ e \notin send_pending_list'[n]

Fairness ==
    \A n \in Node :
        /\ WF_vars(HandleOpen(n))
        /\ WF_vars(StartSend(n))
        /\ WF_vars(\E c \in BagToSet(completions[n]) : HandleSend(n, c))
        /\ \A bid \in FirstId[n] .. IdLimit[n] :
             /\ SF_vars(Resend(n, bid))
             /\ SF_vars(DropTriedOut(n, bid))

FairSpec == Spec /\ Fairness

-----------------------------------------------------------------------------
(***************************************************************************)
(* Properties.                                                             *)
(***************************************************************************)
\* The two conditions under which an ans pack names one data pack: no message
\* takes two packs, and the ids of the two processes do not meet.
SinglePackMessages ==
    \A n \in Node : \A len \in Lengths[n] : len <= MAX_DATA_SIZE

DisjointIds ==
    \A n \in Node : \/ IdLimit[n] <= FirstId[Peer[n]]
                    \/ IdLimit[Peer[n]] <= FirstId[n]

DataEntries(n) == {e \in send_pending_list[n] : ~IsAnsPack(e.pack)}

Leaves(n, e) == \A f \in DataEntries(n)' : f.pack # e.pack

LeavesWhenReceivedOrTriedOut ==
    \A n \in Node : \A e \in DataEntries(n) :
        Leaves(n, e) => e.pack \in recved[Peer[n]] \/ out_of_resend_count(e)

\* "The reply means that the peer has received it": a data pack leaves the
\* send list only when the peer's HandleRecv has had it or when its resends
\* are used up, whatever ans packs RemovePackFromSendList is called with.
AnsMeansReceived == [][LeavesWhenReceivedOrTriedOut]_vars

\* HandleTimer gives a pack up only when it has really been sent
\* MAX_RESEND_COUNT times without an answer.
GivenUpOnlyAfterMaxResends ==
    [][\A n \in Node : \A e \in DataEntries(n) :
          Leaves(n, e) => \/ e.pack \in recved[Peer[n]]
                          \/ e.tries >= MAX_RESEND_COUNT]_vars

MessageOf(n, bid) == {p \in encoded[n] : p.bID = bid}

\* What data_callback_ is given is one whole message of the peer: all its
\* bytes, in order, and nothing else, however the packs were lost, repeated
\* or reordered on the way.
DeliveredWhole ==
    \A n \in Node : \A d \in delivered[n] :
        /\ RangeOf(d) = {Body(p) : p \in MessageOf(Peer[n], d[1].of)}
        /\ d[1].from = 0
        /\ \A i \in 1 .. Len(d) - 1 : d[i].from + d[i].size = d[i + 1].from

\* No handler keeps the strand for ever: after each datagram the connection
\* receives the next one.
KeepsReceiving == \A n \in Node : ~hung[n]

\* The reassembly list holds at most one piece of a message, the messages in
\* the order of their ids, so that RegroupPack finds a repeated piece before
\* it finds a later message.
UncompletedOrdered ==
    \A n \in Node :
        LET list == recved_uncomplete_list[n] IN
        \A i, j \in DOMAIN list :
            i < j => GetBigId(list[i]) < GetBigId(list[j])

\* As GetId is the same for all pieces of a message, RegroupPack takes the
\* second piece for a duplicate of the first: only messages of a single pack
\* ever reach the application.
OnlySinglePacksDelivered ==
    \A n \in Node : \A d \in delivered[n] :
        \A p \in MessageOf(Peer[n], d[1].of) : ~IsSmallPack(p)

Unsettled(n, bid) ==
    \/ \E i \in DOMAIN posted[n] : IsMessage(posted[n][i].pack, bid)
    \/ \E e \in send_pending_list[n] : IsMessage(e.pack, bid)

\* Every message that PostSend accepted is settled once the socket is open:
\* its packs leave the send list by an answer or by MAX_RESEND_COUNT sends.
EveryMessageSettles ==
    \A n \in Node : \A bid \in FirstId[n] .. IdLimit[n] :
        Unsettled(n, bid) /\ phase[n] # "new" ~> ~Unsettled(n, bid)
=============================================================================
