----------------------------- MODULE AckProofs -----------------------------
(***************************************************************************)
(* What an ans pack means.  When no message takes two packs and the ids of *)
(* the two processes do not meet, a data pack leaves the send list only if *)
(* the peer has received it or its resends are used up, and the pair of    *)
(* connections implements MessageLink.                                     *)
(***************************************************************************)
EXTENDS ConnectionUDPProofs, UDPLink

(***************************************************************************)
(* The invariant.  Every ans pack, wherever it is, carries the GetId of a  *)
(* data pack that its sender has received; and a message is one pack, so   *)
(* that the GetId tells the packs of a node apart.                         *)
(***************************************************************************)
Answers(n, a) == \E q \in recved[n] : GetId(q) = GetId(a)

AnsPacksKnown(n) ==
    /\ \A e \in send_pending_list[n] : IsAnsPack(e.pack) => Answers(n, e.pack)
    /\ \A c \in BagToSet(completions[n]) : IsAnsPack(c.pack) => Answers(n, c.pack)
    /\ \A p \in net[n] : IsAnsPack(p) => Answers(Peer[n], p)

OnePackPerMessage(n) ==
    /\ \A p, q \in encoded[n] : p.bID = q.bID => p = q
    /\ \A p \in encoded[n] : ~IsSmallPack(p)

AckInv == \A n \in Node : AnsPacksKnown(n) /\ OnePackPerMessage(n)

-----------------------------------------------------------------------------
LEMMA InitAckInv == Init => AckInv
<1> SUFFICES ASSUME Init PROVE AckInv
  OBVIOUS
<1>1. BagToSet(EmptyBag) = {}
  BY DEF BagToSet, EmptyBag, SetToBag
<1> QED BY <1>1 DEF Init, AckInv, AnsPacksKnown, OnePackPerMessage

\* Nothing that was received is forgotten, so an ans pack stays an answer.
LEMMA AnswersStay ==
    ASSUME Inv, [Next]_vars, NEW n \in Node
    PROVE  recved[n] \subseteq recved'[n]
<1>1. TypeOK  BY DEF Inv
<1>2. CASE UNCHANGED vars
  BY <1>2 DEF vars
<1>3. CASE Next
  <2>1. CASE \E m \in Node : \E p \in net[m] : HandleRecv(m, p)
    <3>0. PICK m \in Node : \E p \in net[m] : HandleRecv(m, p)
      BY <2>1
    <3>1. PICK p \in net[m] : HandleRecv(m, p)
      BY <3>0
    <3>2. RecvAns(m, p) \/ RecvData(m, p)
      BY <3>1 DEF HandleRecv
    <3>3. CASE RecvAns(m, p)
      BY <3>3 DEF RecvAns
    <3>4. CASE RecvData(m, p)
      <4>1. recved' = [recved EXCEPT ![m] = @ \cup {p}]
        BY <3>4, SMTT(20) DEF RecvData
      <4> QED BY <1>1, <4>1 DEF TypeOK
    <3> QED BY <3>2, <3>3, <3>4
  <2>2. CASE ~(\E m \in Node : \E p \in net[m] : HandleRecv(m, p))
    BY <1>3, <2>2 DEF Next, Open, PostSend, Stop, Close, HandleOpen, HandleClose,
                      StartSend, HandleSend, HandleRecvStopped, HandleTimer
  <2> QED BY <2>1, <2>2
<1> QED BY <1>2, <1>3

\* A step that sends packs of the send list only, or no pack.
LEMMA AnsPacksStayKnown ==
    ASSUME Inv, AckInv, [Next]_vars, NEW m \in Node,
           \A e \in send_pending_list'[m] :
             IsAnsPack(e.pack) =>
               \/ \E f \in send_pending_list[m] : f.pack = e.pack
               \/ Answers(m, e.pack)',
           \A c \in BagToSet(completions'[m]) :
             IsAnsPack(c.pack) =>
               \/ c \in BagToSet(completions[m])
               \/ \E f \in send_pending_list[m] : f.pack = c.pack
               \/ Answers(m, c.pack)',
           \A p \in net'[m] :
             IsAnsPack(p) =>
               \/ p \in net[m]
               \/ \E f \in send_pending_list[Peer[m]] : f.pack = p
               \/ Answers(Peer[m], p)'
    PROVE  AnsPacksKnown(m)'
<1>1. Peer[m] \in Node  BY NodeAssumption
<1>2. \A k \in Node : recved[k] \subseteq recved'[k]
  BY AnswersStay
<1>3. \A k \in Node : \A a : Answers(k, a) => Answers(k, a)'
  BY <1>2 DEF Answers
<1> QED BY <1>1, <1>3 DEF AckInv, AnsPacksKnown

LEMMA AnsPacksKnownNext ==
    ASSUME Inv, AckInv, [Next]_vars, NEW m \in Node
    PROVE  AnsPacksKnown(m)'
<1>1. TypeOK  BY DEF Inv
<1>2. CASE UNCHANGED <<send_pending_list, completions, net>>
  BY <1>2, AnsPacksStayKnown
<1>3. ASSUME NEW n \in Node, StartSend(n)
      PROVE  AnsPacksKnown(m)'
  <2> DEFINE e == Head(posted[n])
  <2>1. e \in PostedEntries
    BY <1>1, <1>3 DEF StartSend, TypeOK
  <2>2. e.pack \in DataPacks /\ e.pack \in Packs /\ ~IsAnsPack(e.pack)
    BY <2>1, PackKinds DEF PostedEntries, Packs
  <2>3. send_pending_list' = [send_pending_list EXCEPT ![n] = @ \cup {e}]
    BY <1>3 DEF StartSend
  <2> DEFINE packs == {e.pack}
  <2>4. PICK ok \in SUBSET packs : AsyncSend(n, packs, ok)
    BY <1>3 DEF StartSend
  <2>5. packs \in SUBSET Packs /\ \A p \in packs : ~IsAnsPack(p)
    BY <2>2
  <2> HIDE DEF e, packs
  <2>6. /\ \A c \in BagToSet(completions'[m]) :
             c \in BagToSet(completions[m]) \/ c.pack \in packs
        /\ \A p \in net'[m] : p \in net[m] \/ p \in packs
    BY <1>1, <2>4, <2>5, AsyncSendEffect
  <2>7. \A f \in send_pending_list'[m] : f \in send_pending_list[m] \/ f = e
    BY <1>1, <2>3 DEF TypeOK
  <2> QED BY <2>2, <2>5, <2>6, <2>7, AnsPacksStayKnown
<1>4. ASSUME NEW n \in Node, NEW c \in BagToSet(completions[n]), HandleSend(n, c)
      PROVE  AnsPacksKnown(m)'
  <2>1. BagToSet(completions'[m]) \subseteq BagToSet(completions[m])
    BY <1>1, <1>4, BagRemoveDomain DEF HandleSend, TypeOK
  <2>2. \A e \in send_pending_list'[m] : \E f \in send_pending_list[m] : f.pack = e.pack
    <3>1. CASE c.error \/ m # n
      BY <1>1, <1>4, <3>1 DEF HandleSend, TypeOK
    <3>2. CASE ~c.error /\ m = n /\ IsAnsPack(c.pack)
      BY <1>1, <1>4, <3>2 DEF HandleSend, TypeOK, Without
    <3>3. CASE ~c.error /\ m = n /\ ~IsAnsPack(c.pack)
      <4>1. send_pending_list'[m] = CountSend(send_pending_list[m], c.pack)
        BY <1>1, <1>4, <3>3 DEF HandleSend, TypeOK
      <4>2. send_pending_list[m] \in SUBSET Entries
        BY <1>1 DEF TypeOK
      <4> QED BY <4>1, <4>2, CountSendKeepsPacks
    <3> QED BY <3>1, <3>2, <3>3
  <2>3. net' = net  BY <1>4 DEF HandleSend
  <2> QED BY <2>1, <2>2, <2>3, AnsPacksStayKnown
<1>5. ASSUME NEW n \in Node, HandleTimer(n)
      PROVE  AnsPacksKnown(m)'
  <2> DEFINE kept == {e \in send_pending_list[n] : ~out_of_resend_count(e)}
  <2>1. PICK due \in SUBSET kept :
          \E ok \in SUBSET {e.pack : e \in due} : AsyncSend(n, {e.pack : e \in due}, ok)
    BY <1>5 DEF HandleTimer, should_resend
  <2> DEFINE packs == {e.pack : e \in due}
  <2>2. PICK ok \in SUBSET packs : AsyncSend(n, packs, ok)
    BY <2>1
  <2>3. /\ packs \in SUBSET Packs
        /\ \A p \in packs : \E f \in send_pending_list[n] : f.pack = p
    BY <1>1 DEF TypeOK, Entries
  <2>4. send_pending_list'[m] \subseteq send_pending_list[m]
    BY <1>1, <1>5 DEF HandleTimer, TypeOK
  <2> HIDE DEF packs
  <2>5. /\ \A c \in BagToSet(completions'[m]) :
             c \in BagToSet(completions[m]) \/ (m = n /\ c.pack \in packs)
        /\ \A p \in net'[m] : p \in net[m] \/ (m = Peer[n] /\ p \in packs)
    BY <1>1, <2>2, <2>3, AsyncSendEffect
  <2>6. m = Peer[n] => Peer[m] = n
    BY NodeAssumption
  <2> QED BY <2>3, <2>4, <2>5, <2>6, AnsPacksStayKnown
<1>6. ASSUME NEW n \in Node, NEW p \in net[n], HandleRecv(n, p)
      PROVE  AnsPacksKnown(m)'
  <2>1. CASE IsAnsPack(p)
    <3>1. /\ send_pending_list'[m] \subseteq send_pending_list[m]
          /\ UNCHANGED <<completions, net>>
      <4>1. RecvAns(n, p)
        BY <1>6, <2>1 DEF HandleRecv
      <4>2. Without(send_pending_list[n], p) \subseteq send_pending_list[n]
        BY DEF Without
      <4>3. send_pending_list' = [send_pending_list EXCEPT ![n] = Without(@, p)]
        BY <4>1 DEF RecvAns
      <4> QED BY <1>1, <4>1, <4>2, <4>3 DEF RecvAns, TypeOK
    <3> QED BY <3>1, AnsPacksStayKnown
  <2>2. CASE ~IsAnsPack(p)
    <3> DEFINE ans == EncodeAnsPack(GetId(p))
    <3>1. p \in DataPacks
      BY <1>1, <2>2, PackKinds DEF TypeOK
    <3>2. GetId(p) \in Nat
      BY <3>1, DataAccessors DEF DataPacks
    <3>3. ans \in Packs /\ GetId(ans) = GetId(p)
      BY <3>2, PackKinds DEF EncodeAnsPack, GetId, TPack_CMD, TAnsPack_CMD
    <3>4. p \in recved'[n]
      BY <1>1, <1>6, <2>2 DEF HandleRecv, RecvData, TypeOK
    <3>5. Answers(n, ans)'
      BY <3>3, <3>4 DEF Answers
    <3>6. PICK count \in InitialCounts, ok \in SUBSET {ans} :
            /\ send_pending_list' =
                 [send_pending_list EXCEPT ![n] = @ \cup {NewEntry(ans, count)}]
            /\ AsyncSend(n, {ans}, ok)
      BY <1>6, <2>2 DEF HandleRecv, RecvData
    <3> DEFINE packs == {ans}
    <3>7. /\ packs \in SUBSET Packs /\ ok \in SUBSET packs /\ AsyncSend(n, packs, ok)
          /\ \A q \in packs : Answers(n, q)'
      BY <3>3, <3>5, <3>6
    <3> HIDE DEF ans, packs
    <3>8. /\ \A c \in BagToSet(completions'[m]) :
               c \in BagToSet(completions[m]) \/ (m = n /\ c.pack \in packs)
          /\ \A q \in net'[m] : q \in net[m] \/ (m = Peer[n] /\ q \in packs)
      BY <1>1, <3>7, AsyncSendEffect
    <3>9. \A e \in send_pending_list'[m] :
            e \in send_pending_list[m] \/ (m = n /\ e.pack = ans)
      BY <1>1, <3>6 DEF TypeOK, NewEntry
    <3>10. m = Peer[n] => Peer[m] = n
      BY NodeAssumption
    <3> QED BY <3>5, <3>7, <3>8, <3>9, <3>10, AnsPacksStayKnown
  <2> QED BY <2>1, <2>2
<1>7. CASE UNCHANGED vars
  BY <1>2, <1>7 DEF vars
<1>8. CASE Next
  <2>1. CASE \E n \in Node :
                \/ Open(n) \/ Stop(n) \/ Close(n) \/ HandleOpen(n) \/ HandleClose(n)
                \/ HandleRecvStopped(n)
                \/ \E len \in Lengths[n] : PostSend(n, len)
    BY <1>2, <2>1 DEF Open, Stop, Close, HandleOpen, HandleClose, HandleRecvStopped, PostSend
  <2> QED BY <1>3, <1>4, <1>5, <1>6, <1>8, <2>1 DEF Next
<1> QED BY <1>7, <1>8

LEMMA OnePackNext ==
    ASSUME SinglePackMessages, Inv, AckInv, [Next]_vars, NEW m \in Node
    PROVE  OnePackPerMessage(m)'
<1>1. TypeOK  BY DEF Inv
<1>2. CASE UNCHANGED encoded
  BY <1>2 DEF AckInv, OnePackPerMessage
<1>3. ASSUME NEW n \in Node, NEW len \in Lengths[n], PostSend(n, len)
      PROVE  OnePackPerMessage(m)'
  <2> DEFINE bid == current_id[n]
             packs == EncodeData(bid, len)
  <2>1. bid \in Nat /\ len \in Nat /\ len <= MAX_DATA_SIZE
    BY <1>1, BoundAssumption DEF TypeOK, SinglePackMessages
  <2>2. Count(len) \in {0, 1}
    BY <2>1, OnePack
  <2>3. /\ DOMAIN packs = 1 .. Count(len)
        /\ \A i \in 1 .. Count(len) :
             /\ packs[i] \in DataPacks /\ packs[i].bID = bid
             /\ packs[i].sID = bid + 1 /\ packs[i].eID = bid + Count(len)
    BY <2>1, EncodeDataTyped, ZenonT(30)
  <2>4. encoded' = [encoded EXCEPT ![n] = @ \cup RangeOf(packs)]
    BY <1>3 DEF PostSend
  <2>5. \A p \in encoded[n] : p.bID < bid /\ p.bID \in Nat
    BY <1>1 DEF Inv, EncodedRegular, TypeOK, DataPacks
  <2> HIDE DEF bid, packs
  <2>6. /\ \A p, q \in RangeOf(packs) : p = q
        /\ \A p \in RangeOf(packs) : p.bID = bid
    BY <2>2, <2>3 DEF RangeOf
  <2>7. ASSUME NEW p \in RangeOf(packs)
        PROVE  ~IsSmallPack(p)
    <3>1. p \in DataPacks /\ p.sID = bid + 1 /\ p.eID <= bid + 1
      BY <2>1, <2>2, <2>3 DEF RangeOf
    <3> QED BY <2>1, <3>1, DataAccessors DEF DataPacks
  <2>8. \A k \in Node : encoded'[k] = IF k = n THEN encoded[n] \cup RangeOf(packs)
                                      ELSE encoded[k]
    BY <1>1, <2>4 DEF TypeOK
  <2>9. /\ \A p, q \in encoded[m] : p.bID = q.bID => p = q
        /\ \A p \in encoded[m] : ~IsSmallPack(p)
    BY DEF AckInv, OnePackPerMessage
  <2>10. ASSUME NEW p \in encoded'[m], NEW q \in encoded'[m], p.bID = q.bID
         PROVE  p = q
    BY <2>1, <2>5, <2>6, <2>8, <2>9, <2>10
  <2>11. \A p \in encoded'[m] : ~IsSmallPack(p)
    BY <2>7, <2>8, <2>9
  <2> QED BY <2>10, <2>11 DEF OnePackPerMessage
<1>4. CASE UNCHANGED vars
  BY <1>2, <1>4 DEF vars
<1>5. CASE Next
  <2>1. CASE \E n \in Node : \E len \in Lengths[n] : PostSend(n, len)
    BY <1>3, <2>1
  <2>2. CASE ~(\E n \in Node : \E len \in Lengths[n] : PostSend(n, len))
    BY <1>2, <1>5, <2>2
       DEF Next, Open, Stop, Close, HandleOpen, HandleClose, StartSend, HandleSend,
           HandleRecv, HandleRecvStopped, HandleTimer
  <2> QED BY <2>1, <2>2
<1> QED BY <1>4, <1>5

LEMMA AckInvNext ==
    ASSUME SinglePackMessages
    PROVE  Inv /\ AckInv /\ [Next]_vars => AckInv'
BY AnsPacksKnownNext, OnePackNext DEF AckInv

-----------------------------------------------------------------------------
\* An ans pack of the peer names one data pack, which the peer has received.
LEMMA AnsNamesReceivedPack ==
    ASSUME Inv, AckInv, NEW n \in Node, NEW a, Answers(Peer[n], a),
           NEW p \in encoded[n], GetId(p) = GetId(a)
    PROVE  p \in recved[Peer[n]]
<1>1. Peer[n] \in Node /\ Peer[Peer[n]] = n
  BY NodeAssumption
<1>2. PICK q \in recved[Peer[n]] : GetId(q) = GetId(a)
  BY DEF Answers
<1>3. q \in encoded[n]
  BY <1>1 DEF Inv, PeerPacksKnown
<1>4. p \in DataPacks /\ q \in DataPacks
  BY <1>3 DEF Inv, TypeOK
<1>5. p.bID + 1 = q.bID + 1 /\ p.bID \in Nat /\ q.bID \in Nat
  BY <1>2, <1>3, <1>4, DataAccessors DEF Inv, EncodedRegular, DataPacks
<1>6. p = q
  BY <1>3, <1>5 DEF AckInv, OnePackPerMessage
<1> QED BY <1>2, <1>6

\* An ans pack of the node itself names none of its own data packs.
LEMMA OwnAnsNamesNoOwnPack ==
    ASSUME DisjointIds, Inv, NEW n \in Node, NEW a, Answers(n, a),
           NEW p \in encoded[n]
    PROVE  GetId(p) # GetId(a)
<1>1. Peer[n] \in Node /\ FirstId[n] \in Nat /\ IdLimit[n] \in Nat
      /\ FirstId[Peer[n]] \in Nat /\ IdLimit[Peer[n]] \in Nat
  BY NodeAssumption, BoundAssumption
<1>2. PICK q \in recved[n] : GetId(q) = GetId(a)
  BY DEF Answers
<1>3. q \in encoded[Peer[n]]
  BY DEF Inv, PeerPacksKnown
<1>4. p \in DataPacks /\ q \in DataPacks
  BY <1>1, <1>3 DEF Inv, TypeOK
<1>5. /\ GetId(p) = p.bID + 1 /\ p.bID \in Nat
      /\ FirstId[n] <= p.bID /\ p.bID < IdLimit[n]
  BY <1>4, DataAccessors DEF Inv, EncodedRegular, DataPacks
<1>6. /\ GetId(q) = q.bID + 1 /\ q.bID \in Nat
      /\ FirstId[Peer[n]] <= q.bID /\ q.bID < IdLimit[Peer[n]]
  BY <1>1, <1>3, <1>4, DataAccessors DEF Inv, EncodedRegular, DataPacks
<1> QED BY <1>1, <1>2, <1>5, <1>6 DEF DisjointIds

LEMMA AckStep ==
    ASSUME DisjointIds, Inv, AckInv, [Next]_vars
    PROVE  LeavesWhenReceivedOrTriedOut
<1> SUFFICES ASSUME NEW n \in Node, NEW e \in DataEntries(n), Leaves(n, e),
                    ~out_of_resend_count(e)
             PROVE  e.pack \in recved[Peer[n]]
  BY DEF LeavesWhenReceivedOrTriedOut
<1>1. TypeOK  BY DEF Inv
<1>2. e \in send_pending_list[n] /\ ~IsAnsPack(e.pack) /\ e.pack \in encoded[n]
  BY DEF DataEntries, Inv, OwnPacksKnown
<1>3. \A f \in send_pending_list'[n] : f.pack # e.pack
  BY <1>2 DEF Leaves, DataEntries
<1>4. e \notin send_pending_list'[n]
  BY <1>3
<1>5. CASE UNCHANGED send_pending_list
  BY <1>2, <1>4, <1>5
<1>6. ASSUME NEW m \in Node, StartSend(m)
      PROVE  FALSE
  BY <1>1, <1>2, <1>4, <1>6 DEF StartSend, TypeOK
<1>7. ASSUME NEW m \in Node, HandleTimer(m)
      PROVE  FALSE
  <2>1. send_pending_list' =
          [send_pending_list EXCEPT ![m] =
             {f \in send_pending_list[m] : ~out_of_resend_count(f)}]
    BY <1>7 DEF HandleTimer
  <2> QED BY <1>1, <1>2, <1>4, <2>1 DEF TypeOK
<1>8. ASSUME NEW m \in Node, NEW c \in BagToSet(completions[m]), HandleSend(m, c)
      PROVE  FALSE
  <2>1. CASE m # n \/ c.error
    BY <1>1, <1>2, <1>4, <1>8, <2>1 DEF HandleSend, TypeOK
  <2>2. CASE m = n /\ ~c.error /\ IsAnsPack(c.pack)
    <3>1. send_pending_list'[n] = Without(send_pending_list[n], c.pack)
      BY <1>1, <1>8, <2>2 DEF HandleSend, TypeOK
    <3>2. GetId(e.pack) = GetId(c.pack)
      BY <1>2, <1>4, <3>1 DEF Without
    <3>3. Answers(n, c.pack)
      BY <1>8, <2>2 DEF AckInv, AnsPacksKnown
    <3> QED BY <1>2, <3>2, <3>3, OwnAnsNamesNoOwnPack
  <2>3. CASE m = n /\ ~c.error /\ ~IsAnsPack(c.pack)
    <3>1. send_pending_list'[n] = CountSend(send_pending_list[n], c.pack)
      BY <1>1, <1>8, <2>3 DEF HandleSend, TypeOK
    <3>2. send_pending_list[n] \in SUBSET Entries
      BY <1>1 DEF TypeOK
    <3> QED BY <1>2, <1>3, <3>1, <3>2, CountSendKeepsPacks
  <2> QED BY <2>1, <2>2, <2>3
<1>9. ASSUME NEW m \in Node, NEW p \in net[m], HandleRecv(m, p)
      PROVE  e.pack \in recved[Peer[n]]
  <2>1. CASE ~IsAnsPack(p)
    <3>1. PICK new : send_pending_list' = [send_pending_list EXCEPT ![m] = @ \cup {new}]
      BY <1>9, <2>1 DEF HandleRecv, RecvData
    <3> QED BY <1>1, <1>2, <1>4, <3>1 DEF TypeOK
  <2>2. CASE IsAnsPack(p)
    <3>1. send_pending_list' = [send_pending_list EXCEPT ![m] = Without(@, p)]
      BY <1>9, <2>2 DEF HandleRecv, RecvAns
    <3>2. m = n /\ GetId(e.pack) = GetId(p)
      BY <1>1, <1>2, <1>4, <3>1 DEF TypeOK, Without
    <3>3. Answers(Peer[n], p)
      BY <1>9, <2>2, <3>2 DEF AckInv, AnsPacksKnown
    <3> QED BY <1>2, <3>2, <3>3, AnsNamesReceivedPack
  <2> QED BY <2>1, <2>2
<1>10. CASE UNCHANGED vars
  BY <1>5, <1>10 DEF vars
<1>11. CASE Next
  <2>1. CASE \E m \in Node :
                \/ Open(m) \/ Stop(m) \/ Close(m) \/ HandleOpen(m) \/ HandleClose(m)
                \/ HandleRecvStopped(m)
                \/ \E len \in Lengths[m] : PostSend(m, len)
    BY <1>5, <2>1 DEF Open, Stop, Close, HandleOpen, HandleClose, HandleRecvStopped, PostSend
  <2> QED BY <1>6, <1>7, <1>8, <1>9, <1>11, <2>1 DEF Next
<1> QED BY <1>10, <1>11

-----------------------------------------------------------------------------
\* Where ans packs are unambiguous, the reply means that the peer has received
\* the pack: nothing else but MAX_RESEND_COUNT sends takes a data pack off the
\* send list.
THEOREM AcknowledgedMeansReceived ==
    ASSUME SinglePackMessages, DisjointIds
    PROVE  Spec => AnsMeansReceived
<1>1. Init => Inv /\ AckInv
  BY InitInv, InitAckInv
<1>2. Inv /\ AckInv /\ [Next]_vars => Inv' /\ AckInv'
  BY NextInv, AckInvNext
<1>3. Inv /\ AckInv /\ [Next]_vars => [LeavesWhenReceivedOrTriedOut]_vars
  BY AckStep
<1> QED BY <1>1, <1>2, <1>3, PTL DEF Spec, AnsMeansReceived

\* A connection whose peer sends messages of one pack only never stops
\* handling: RegroupPack, the one loop that may not end, is not entered.
THEOREM SinglePacksKeepReceiving ==
    ASSUME SinglePackMessages
    PROVE  Spec => []KeepsReceiving
<1>1. Init => Inv /\ AckInv /\ KeepsReceiving
  BY InitInv, InitAckInv DEF Init, KeepsReceiving
<1>2. Inv /\ AckInv /\ [Next]_vars => Inv' /\ AckInv'
  BY NextInv, AckInvNext
<1>3. Inv /\ AckInv /\ KeepsReceiving /\ [Next]_vars => KeepsReceiving'
  <2> SUFFICES ASSUME Inv, AckInv, KeepsReceiving, [Next]_vars
               PROVE  KeepsReceiving'
    OBVIOUS
  <2>1. CASE UNCHANGED hung
    BY <2>1 DEF KeepsReceiving
  <2>2. ASSUME NEW n \in Node, NEW p \in net[n], HandleRecv(n, p), ~IsAnsPack(p)
        PROVE  KeepsReceiving'
    <3>1. ~IsSmallPack(p)
      BY <2>2, NodeAssumption DEF Inv, PeerPacksKnown, AckInv, OnePackPerMessage
    <3>2. hung' = [hung EXCEPT ![n] = FALSE]
      BY <2>2, <3>1 DEF HandleRecv, RecvData
    <3> QED BY <3>2 DEF KeepsReceiving, Inv, TypeOK
  <2>3. CASE \E n \in Node : \E p \in net[n] : HandleRecv(n, p) /\ IsAnsPack(p)
    BY <2>1, <2>3 DEF HandleRecv, RecvAns
  <2>4. CASE Next /\ ~(\E n \in Node : \E p \in net[n] : HandleRecv(n, p))
    BY <2>1, <2>4 DEF Next, Open, PostSend, Stop, Close, HandleOpen, HandleClose,
                      StartSend, HandleSend, HandleRecvStopped, HandleTimer
  <2>5. CASE UNCHANGED vars
    BY <2>1, <2>5 DEF vars
  <2> QED BY <2>2, <2>3, <2>4, <2>5
<1> QED BY <1>1, <1>2, <1>3, PTL DEF Spec

\* Every counter starts from zero, as the memory of a new pack need not.
CountsFromZero == InitialCounts \subseteq {0}

\* No pack counts more sends than there were.
CountsSends(e) ==
    e.sended_count \in Nat /\ e.tries \in Nat /\ e.sended_count <= e.tries

CountInv ==
    \A n \in Node : /\ \A i \in DOMAIN posted[n] : CountsSends(posted[n][i])
                    /\ \A e \in send_pending_list[n] : CountsSends(e)

LEMMA CountInvNext ==
    ASSUME CountsFromZero, Inv, CountInv, [Next]_vars
    PROVE  CountInv'
<1>1. TypeOK  BY DEF Inv
<1> SUFFICES ASSUME NEW m \in Node
             PROVE  /\ \A i \in DOMAIN posted'[m] : CountsSends(posted'[m][i])
                    /\ \A e \in send_pending_list'[m] : CountsSends(e)
  BY DEF CountInv, CountsSends
<1>2. /\ \A i \in DOMAIN posted[m] : CountsSends(posted[m][i])
      /\ \A e \in send_pending_list[m] : CountsSends(e)
  BY DEF CountInv
<1>3. CASE posted'[m] = posted[m] /\ send_pending_list'[m] \subseteq send_pending_list[m]
  BY <1>2, <1>3
<1>4. \A pack : \A count \in InitialCounts : CountsSends(NewEntry(pack, count))
  BY DEF CountsFromZero, NewEntry, CountsSends
<1>5. ASSUME NEW n \in Node, NEW len \in Lengths[n], PostSend(n, len)
      PROVE  /\ \A i \in DOMAIN posted'[m] : CountsSends(posted'[m][i])
             /\ \A e \in send_pending_list'[m] : CountsSends(e)
  <2> DEFINE packs == EncodeData(current_id[n], len)
  <2>0. current_id[n] \in Nat /\ len \in Nat
    BY <1>1, BoundAssumption DEF TypeOK
  <2>1. Count(len) \in Nat /\ DOMAIN packs = 1 .. Count(len)
    BY <2>0, CountBounds, EncodeDataTyped
  <2>2. PICK count \in [DOMAIN packs -> InitialCounts] :
          posted' = [posted EXCEPT ![n] =
                       @ \o [i \in DOMAIN packs |-> NewEntry(packs[i], count[i])]]
    BY <1>5 DEF PostSend
  <2> DEFINE new == [i \in DOMAIN packs |-> NewEntry(packs[i], count[i])]
             Entered == {NewEntry(packs[i], count[i]) : i \in DOMAIN packs}
  <2>3. \A e \in Entered : CountsSends(e)
    BY <1>4
  <2>4. new \in Seq(Entered)
    BY <2>1
  <2> HIDE DEF packs, new, Entered
  <2>5. posted' = [posted EXCEPT ![n] = @ \o new]
    BY <2>2 DEF new
  <2>6. posted[n] \in Seq(PostedEntries) /\ posted \in [Node -> Seq(PostedEntries)]
    BY <1>1 DEF TypeOK
  <2>7. \A i \in DOMAIN (posted[n] \o new) :
           \/ i \in DOMAIN posted[n] /\ (posted[n] \o new)[i] = posted[n][i]
           \/ (posted[n] \o new)[i] \in Entered
    BY <2>4, <2>6
  <2>8. send_pending_list' = send_pending_list
    BY <1>5 DEF PostSend
  <2>9. CASE m # n
    BY <1>3, <2>5, <2>6, <2>8, <2>9
  <2>10. CASE m = n
    <3>1. posted'[m] = posted[n] \o new
      BY <2>5, <2>6, <2>10
    <3> QED BY <1>2, <2>3, <2>7, <2>8, <2>10, <3>1
  <2> QED BY <2>9, <2>10
<1>6. ASSUME NEW n \in Node, StartSend(n)
      PROVE  /\ \A i \in DOMAIN posted'[m] : CountsSends(posted'[m][i])
             /\ \A e \in send_pending_list'[m] : CountsSends(e)
  <2> DEFINE q == posted[n]
  <2>1. /\ q \in Seq(PostedEntries) /\ q # <<>>
        /\ posted' = [posted EXCEPT ![n] = Tail(@)]
        /\ send_pending_list' = [send_pending_list EXCEPT ![n] = @ \cup {Head(q)}]
    BY <1>1, <1>6 DEF StartSend, TypeOK
  <2>2. CASE m # n
    BY <1>1, <1>3, <2>1, <2>2 DEF TypeOK
  <2>3. CASE m = n
    <3>1. posted'[m] = Tail(q) /\ send_pending_list'[m] = send_pending_list[m] \cup {Head(q)}
      BY <1>1, <2>1, <2>3 DEF TypeOK
    <3>2. \A i \in DOMAIN q : CountsSends(q[i])
      BY <1>2, <2>3
    <3> HIDE DEF q
    <3>3. /\ 1 \in DOMAIN q /\ Head(q) = q[1]
          /\ \A i \in DOMAIN Tail(q) : i + 1 \in DOMAIN q /\ Tail(q)[i] = q[i + 1]
      BY <2>1
    <3>4. \A i \in DOMAIN Tail(q) : CountsSends(Tail(q)[i])
      BY <3>2, <3>3
    <3>5. CountsSends(Head(q))
      BY <3>2, <3>3
    <3> QED BY <1>2, <3>1, <3>4, <3>5
  <2> QED BY <2>2, <2>3
<1>7. ASSUME NEW n \in Node, NEW c \in BagToSet(completions[n]), HandleSend(n, c)
      PROVE  /\ \A i \in DOMAIN posted'[m] : CountsSends(posted'[m][i])
             /\ \A e \in send_pending_list'[m] : CountsSends(e)
  <2>1. posted' = posted
    BY <1>7 DEF HandleSend
  <2>2. \A e : CountsSends(e) => CountsSends(SendSuccessOnce(e))
    BY DEF CountsSends, SendSuccessOnce
  <2>3. \/ send_pending_list'[m] = send_pending_list[m]
        \/ send_pending_list'[m] = Without(send_pending_list[m], c.pack)
        \/ send_pending_list'[m] = CountSend(send_pending_list[m], c.pack)
    BY <1>1, <1>7 DEF HandleSend, TypeOK
  <2>4. \A e \in CountSend(send_pending_list[m], c.pack) : CountsSends(e)
    BY <1>2, <2>2 DEF CountSend
  <2> QED BY <1>2, <2>1, <2>3, <2>4 DEF Without
<1>8. ASSUME NEW n \in Node, HandleTimer(n)
      PROVE  /\ \A i \in DOMAIN posted'[m] : CountsSends(posted'[m][i])
             /\ \A e \in send_pending_list'[m] : CountsSends(e)
  <2>1. posted' = posted /\ send_pending_list'[m] \subseteq send_pending_list[m]
    BY <1>1, <1>8 DEF HandleTimer, TypeOK
  <2> QED BY <1>3, <2>1
<1>9. ASSUME NEW n \in Node, NEW p \in net[n], HandleRecv(n, p)
      PROVE  /\ \A i \in DOMAIN posted'[m] : CountsSends(posted'[m][i])
             /\ \A e \in send_pending_list'[m] : CountsSends(e)
  <2>1. posted' = posted
    BY <1>9 DEF HandleRecv
  <2>2. CASE IsAnsPack(p)
    <3>1. send_pending_list' = [send_pending_list EXCEPT ![n] = Without(@, p)]
      BY <1>9, <2>2 DEF HandleRecv, RecvAns
    <3> QED BY <1>1, <1>3, <2>1, <3>1 DEF TypeOK, Without
  <2>3. CASE ~IsAnsPack(p)
    <3> DEFINE ans == EncodeAnsPack(GetId(p))
    <3>1. PICK count \in InitialCounts :
            send_pending_list' =
              [send_pending_list EXCEPT ![n] = @ \cup {NewEntry(ans, count)}]
      BY <1>9, <2>3 DEF HandleRecv, RecvData
    <3>2. CountsSends(NewEntry(ans, count))
      BY <1>4
    <3> QED BY <1>1, <1>2, <2>1, <3>1, <3>2 DEF TypeOK
  <2> QED BY <2>2, <2>3
<1>10. CASE \/ UNCHANGED vars
            \/ \E n \in Node :
                 \/ Open(n) \/ Stop(n) \/ Close(n) \/ HandleOpen(n) \/ HandleClose(n)
                 \/ HandleRecvStopped(n)
  <2>1. UNCHANGED <<posted, send_pending_list>>
    BY <1>10 DEF vars, Open, Stop, Close, HandleOpen, HandleClose, HandleRecvStopped
  <2> QED BY <1>3, <2>1
<1> QED BY <1>5, <1>6, <1>7, <1>8, <1>9, <1>10 DEF Next

\* Where the counters start from zero as well, a pack that leaves the send list
\* unreceived has really been sent MAX_RESEND_COUNT times.
THEOREM GivenUpOnlyWhenTried ==
    ASSUME SinglePackMessages, DisjointIds, CountsFromZero
    PROVE  Spec => GivenUpOnlyAfterMaxResends
<1> DEFINE Step == \A n \in Node : \A e \in DataEntries(n) :
                      Leaves(n, e) => \/ e.pack \in recved[Peer[n]]
                                      \/ e.tries >= MAX_RESEND_COUNT
<1>1. Init => Inv /\ AckInv /\ CountInv
  BY InitInv, InitAckInv DEF Init, CountInv
<1>2. Inv /\ AckInv /\ CountInv /\ [Next]_vars => Inv' /\ AckInv' /\ CountInv'
  BY NextInv, AckInvNext, CountInvNext
<1>3. Inv /\ AckInv /\ CountInv /\ [Next]_vars => [Step]_vars
  <2> SUFFICES ASSUME Inv, AckInv, CountInv, [Next]_vars,
                      NEW n \in Node, NEW e \in DataEntries(n), Leaves(n, e),
                      e.pack \notin recved[Peer[n]]
               PROVE  e.tries >= MAX_RESEND_COUNT
    OBVIOUS
  <2>1. out_of_resend_count(e)
    BY AckStep DEF LeavesWhenReceivedOrTriedOut
  <2>2. CountsSends(e)
    BY DEF CountInv, DataEntries
  <2> QED BY <2>1, <2>2, PackAssumption DEF out_of_resend_count, CountsSends
<1> QED BY <1>1, <1>2, <1>3, PTL DEF Spec, GivenUpOnlyAfterMaxResends

-----------------------------------------------------------------------------
(***************************************************************************)
(* The refinement of MessageLink.                                          *)
(***************************************************************************)
\* A posted pack is posted once and is not in the send list yet, which holds
\* a data pack once; a pack that was received has been handed over.
PostedFresh(n) ==
    /\ \A i, j \in DOMAIN posted[n] : posted[n][i].pack = posted[n][j].pack => i = j
    /\ \A i \in DOMAIN posted[n] : \A e \in DataEntries(n) : e.pack # posted[n][i].pack

OneEntry(n) == \A e, f \in DataEntries(n) : e.pack = f.pack => e = f

HandedOver(n) == \A p \in recved[n] : <<Body(p)>> \in delivered[n]

LinkInv == \A n \in Node : PostedFresh(n) /\ OneEntry(n) /\ HandedOver(n)

(***************************************************************************)
(* What each handler does to the data packs of the send lists.             *)
(***************************************************************************)
LEMMA StartSendEntries ==
    ASSUME Inv, NEW n \in Node, StartSend(n)
    PROVE  /\ posted[n] \in Seq(PostedEntries) /\ posted[n] # <<>>
           /\ posted'[n] = Tail(posted[n])
           /\ \A m \in Node : m # n => posted'[m] = posted[m]
           /\ Head(posted[n]) \in Entries /\ ~IsAnsPack(Head(posted[n]).pack)
           /\ DataEntries(n)' = DataEntries(n) \cup {Head(posted[n])}
           /\ \A m \in Node : m # n => DataEntries(m)' = DataEntries(m)
<1>1. TypeOK  BY DEF Inv
<1>2. posted[n] \in Seq(PostedEntries) /\ posted[n] # <<>>
  BY <1>1 DEF StartSend, TypeOK
<1> DEFINE e == Head(posted[n])
<1>3. e \in PostedEntries
  BY <1>2
<1>4. e.pack \in DataPacks /\ e \in Entries /\ ~IsAnsPack(e.pack)
  BY <1>3, PackKinds DEF PostedEntries, Entries, Packs
<1>5. send_pending_list' = [send_pending_list EXCEPT ![n] = @ \cup {e}]
  BY DEF StartSend
<1> HIDE DEF e
<1>6. /\ DataEntries(n)' = DataEntries(n) \cup {e}
      /\ \A m \in Node : m # n => DataEntries(m)' = DataEntries(m)
  BY <1>1, <1>4, <1>5 DEF TypeOK, DataEntries
<1>7. /\ posted'[n] = Tail(posted[n])
      /\ \A m \in Node : m # n => posted'[m] = posted[m]
  BY <1>1 DEF StartSend, TypeOK
<1> QED BY <1>2, <1>4, <1>6, <1>7 DEF e

LEMMA HandleSendEntries ==
    ASSUME DisjointIds, Inv, AckInv, NEW n \in Node,
           NEW c \in BagToSet(completions[n]), HandleSend(n, c)
    PROVE  /\ \A m \in Node : m # n => DataEntries(m)' = DataEntries(m)
           /\ \/ DataEntries(n)' = DataEntries(n)
              \/ DataEntries(n)' = CountSend(DataEntries(n), c.pack)
<1>1. TypeOK  BY DEF Inv
<1>2. \A m \in Node : m # n => send_pending_list'[m] = send_pending_list[m]
  BY <1>1 DEF HandleSend, TypeOK
<1>3. \A m \in Node : m # n => DataEntries(m)' = DataEntries(m)
  BY <1>2 DEF DataEntries
<1>4. CASE c.error
  <2>1. send_pending_list'[n] = send_pending_list[n]
    BY <1>1, <1>4 DEF HandleSend, TypeOK
  <2> QED BY <1>3, <2>1 DEF DataEntries
<1>5. CASE ~c.error /\ IsAnsPack(c.pack)
  <2>1. send_pending_list'[n] = Without(send_pending_list[n], c.pack)
    BY <1>1, <1>5 DEF HandleSend, TypeOK
  <2>2. Answers(n, c.pack)
    BY <1>5 DEF AckInv, AnsPacksKnown
  <2>3. \A e \in DataEntries(n) : GetId(e.pack) # GetId(c.pack)
    BY <2>2, OwnAnsNamesNoOwnPack DEF Inv, OwnPacksKnown
  <2>4. DataEntries(n)' = DataEntries(n)
    BY <2>1, <2>3 DEF DataEntries, Without
  <2> QED BY <1>3, <2>4
<1>6. CASE ~c.error /\ ~IsAnsPack(c.pack)
  <2>1. send_pending_list'[n] = CountSend(send_pending_list[n], c.pack)
    BY <1>1, <1>6 DEF HandleSend, TypeOK
  <2>2. \A e : SendSuccessOnce(e).pack = e.pack
    BY DEF SendSuccessOnce
  <2>3. DataEntries(n)' = CountSend(DataEntries(n), c.pack)
    BY <2>1, <2>2 DEF DataEntries, CountSend
  <2> QED BY <1>3, <2>3
<1> QED BY <1>4, <1>5, <1>6

LEMMA HandleTimerEntries ==
    ASSUME Inv, NEW n \in Node, HandleTimer(n)
    PROVE  /\ \A m \in Node : m # n => DataEntries(m)' = DataEntries(m)
           /\ DataEntries(n)' = {e \in DataEntries(n) : ~out_of_resend_count(e)}
<1>1. send_pending_list' =
        [send_pending_list EXCEPT ![n] =
           {e \in send_pending_list[n] : ~out_of_resend_count(e)}]
  BY DEF HandleTimer
<1> QED BY <1>1 DEF Inv, TypeOK, DataEntries

LEMMA RecvAnsEntries ==
    ASSUME Inv, NEW n \in Node, NEW p, RecvAns(n, p)
    PROVE  /\ \A m \in Node : m # n => DataEntries(m)' = DataEntries(m)
           /\ DataEntries(n)' = {e \in DataEntries(n) : GetId(e.pack) # GetId(p)}
<1>1. send_pending_list' = [send_pending_list EXCEPT ![n] = Without(@, p)]
  BY DEF RecvAns
<1> QED BY <1>1 DEF Inv, TypeOK, DataEntries, Without

LEMMA RecvDataEntries ==
    ASSUME Inv, NEW n \in Node, NEW p \in net[n], ~IsAnsPack(p), RecvData(n, p)
    PROVE  \A m \in Node : DataEntries(m)' = DataEntries(m)
<1>1. TypeOK  BY DEF Inv
<1>2. PICK count \in InitialCounts :
        send_pending_list' =
          [send_pending_list EXCEPT ![n] =
             @ \cup {NewEntry(EncodeAnsPack(GetId(p)), count)}]
  BY DEF RecvData
<1>3. IsAnsPack(NewEntry(EncodeAnsPack(GetId(p)), count).pack)
  BY DEF NewEntry, EncodeAnsPack, IsAnsPack
<1> QED BY <1>1, <1>2, <1>3 DEF TypeOK, DataEntries

\* PostSend adds one pack, or none, with an id that no pack has had before.
LEMMA PostSendEntries ==
    ASSUME SinglePackMessages, Inv, NEW n \in Node, NEW len \in Lengths[n],
           PostSend(n, len)
    PROVE  \/ UNCHANGED <<posted, encoded>>
           \/ \E e \in PostedEntries :
                /\ e.pack.bID = current_id[n]
                /\ posted' = [posted EXCEPT ![n] = Append(@, e)]
                /\ encoded' = [encoded EXCEPT ![n] = @ \cup {e.pack}]
<1> DEFINE bid == current_id[n]
           packs == EncodeData(bid, len)
<1>1. TypeOK  BY DEF Inv
<1>2. bid \in Nat /\ len \in Nat /\ len <= MAX_DATA_SIZE
  BY <1>1, BoundAssumption DEF TypeOK, SinglePackMessages
<1>3. Count(len) \in {0, 1}
  BY <1>2, OnePack
<1>4. /\ DOMAIN packs = 1 .. Count(len)
      /\ \A i \in 1 .. Count(len) : packs[i] \in DataPacks /\ packs[i].bID = bid
  BY <1>2, EncodeDataTyped
<1>5. encoded' = [encoded EXCEPT ![n] = @ \cup RangeOf(packs)]
  BY DEF PostSend
<1>6. PICK count \in [DOMAIN packs -> InitialCounts] :
        posted' = [posted EXCEPT ![n] =
                     @ \o [i \in DOMAIN packs |-> NewEntry(packs[i], count[i])]]
  BY DEF PostSend
<1> HIDE DEF bid, packs
<1> DEFINE new == [i \in DOMAIN packs |-> NewEntry(packs[i], count[i])]
<1>7. posted[n] \in Seq(PostedEntries) /\ posted \in [Node -> Seq(PostedEntries)]
      /\ encoded \in [Node -> SUBSET DataPacks]
  BY <1>1 DEF TypeOK
<1>8. CASE Count(len) = 0
  <2>1. DOMAIN packs = {}
    BY <1>4, <1>8
  <2>2. new = <<>>
    BY <2>1
  <2>3. RangeOf(packs) = {}
    BY <2>1 DEF RangeOf
  <2>4. posted' = posted
    <3>1. posted[n] \o <<>> = posted[n]
      BY <1>7
    <3> QED BY <1>6, <1>7, <2>2, <3>1
  <2>5. encoded' = encoded
    BY <1>5, <1>7, <2>3
  <2> QED BY <2>4, <2>5
<1>9. CASE Count(len) = 1
  <2> DEFINE e == NewEntry(packs[1], count[1])
  <2>1. DOMAIN packs = {1} /\ packs[1] \in DataPacks /\ packs[1].bID = bid
    BY <1>4, <1>9
  <2>2. count[1] \in Nat
    BY <2>1, BoundAssumption
  <2>3. e \in PostedEntries /\ e.pack = packs[1]
    BY <2>1, <2>2 DEF NewEntry, PostedEntries
  <2>4. DOMAIN new = 1 .. 1 /\ new[1] = e
    BY <2>1
  <2>5. new = <<e>>
    BY <2>4
  <2>6. RangeOf(packs) = {packs[1]}
    BY <2>1 DEF RangeOf
  <2> HIDE DEF new, e
  <2>7. posted' = [posted EXCEPT ![n] = @ \o new]
    BY <1>6 DEF new
  <2>8. posted[n] \o new = Append(posted[n], e)
    BY <1>7, <2>3, <2>5
  <2>9. posted' = [posted EXCEPT ![n] = Append(@, e)]
    BY <1>7, <2>7, <2>8
  <2> QED BY <1>5, <2>1, <2>3, <2>6, <2>9 DEF bid
<1> QED BY <1>3, <1>8, <1>9

LEMMA PostedFreshNext ==
    ASSUME SinglePackMessages, DisjointIds, Inv, AckInv, LinkInv, [Next]_vars,
           NEW m \in Node
    PROVE  PostedFresh(m)' /\ OneEntry(m)'
<1>1. TypeOK  BY DEF Inv
<1>2. PostedFresh(m) /\ OneEntry(m)  BY DEF LinkInv
<1>3. CASE posted'[m] = posted[m] /\ DataEntries(m)' \subseteq DataEntries(m)
  BY <1>2, <1>3 DEF PostedFresh, OneEntry
<1>4. ASSUME NEW n \in Node, NEW len \in Lengths[n], PostSend(n, len)
      PROVE  PostedFresh(m)' /\ OneEntry(m)'
  <2>1. DataEntries(m)' = DataEntries(m)
    BY <1>4 DEF PostSend, DataEntries
  <2>2. CASE posted'[m] = posted[m]
    BY <1>3, <2>1, <2>2
  <2>3. CASE posted'[m] # posted[m]
    <3>1. PICK e \in PostedEntries : /\ e.pack.bID = current_id[n]
                                     /\ posted' = [posted EXCEPT ![n] = Append(@, e)]
      BY <1>4, <2>3, PostSendEntries
    <3>2. m = n /\ posted'[m] = Append(posted[m], e)
      BY <1>1, <2>3, <3>1 DEF TypeOK
    <3>3. ASSUME NEW p \in encoded[m], p = e.pack
          PROVE  FALSE
      <4>1. p.bID < current_id[m] /\ p.bID \in Nat /\ current_id[m] \in Nat
        BY <1>1 DEF Inv, EncodedRegular, TypeOK, DataPacks
      <4>2. p.bID = current_id[m]
        BY <3>1, <3>2, <3>3
      <4> QED BY <4>1, <4>2
    <3>4. /\ \A i \in DOMAIN posted[m] : posted[m][i].pack # e.pack
          /\ \A f \in DataEntries(m) : f.pack # e.pack
      BY <3>3 DEF Inv, OwnPacksKnown
    <3>5. posted[m] \in Seq(PostedEntries)
      BY <1>1 DEF TypeOK
    <3>6. \A i \in DOMAIN posted'[m] :
             \/ i \in DOMAIN posted[m] /\ posted'[m][i] = posted[m][i]
             \/ i = Len(posted[m]) + 1 /\ posted'[m][i] = e
      BY <3>1, <3>2, <3>5
    <3>7. OneEntry(m)'
      BY <1>2, <2>1 DEF OneEntry
    <3>8. \A i \in DOMAIN posted'[m] : \A f \in DataEntries(m)' : f.pack # posted'[m][i].pack
      BY <1>2, <2>1, <3>4, <3>6 DEF PostedFresh
    <3>9. ASSUME NEW i \in DOMAIN posted'[m], NEW j \in DOMAIN posted'[m],
                 posted'[m][i].pack = posted'[m][j].pack
          PROVE  i = j
      BY <1>2, <3>4, <3>6, <3>9 DEF PostedFresh
    <3> QED BY <3>7, <3>8, <3>9 DEF PostedFresh
  <2> QED BY <2>2, <2>3
<1>5. ASSUME NEW n \in Node, StartSend(n)
      PROVE  PostedFresh(m)' /\ OneEntry(m)'
  <2>1. CASE m # n
    BY <1>3, <1>5, <2>1, StartSendEntries
  <2>2. CASE m = n
    <3> DEFINE q == posted[m]
    <3>1. /\ q \in Seq(PostedEntries) /\ q # <<>>
          /\ posted'[m] = Tail(q)
          /\ DataEntries(m)' = DataEntries(m) \cup {Head(q)}
      BY <1>5, <2>2, StartSendEntries
    <3> HIDE DEF q
    <3>2. /\ \A i, j \in DOMAIN q : q[i].pack = q[j].pack => i = j
          /\ \A i \in DOMAIN q : \A e \in DataEntries(m) : e.pack # q[i].pack
      BY <1>2 DEF PostedFresh, q
    <3>3. Head(q) = q[1] /\ 1 \in DOMAIN q
      BY <3>1
    <3>4. \A i \in DOMAIN Tail(q) : /\ i \in Nat /\ i + 1 \in DOMAIN q /\ i >= 1
                                    /\ Tail(q)[i] = q[i + 1]
      BY <3>1
    <3>5. \A e, f \in DataEntries(m)' : e.pack = f.pack => e = f
      BY <1>2, <3>1, <3>2, <3>3 DEF OneEntry
    <3>6. ASSUME NEW i \in DOMAIN Tail(q), NEW j \in DOMAIN Tail(q),
                 Tail(q)[i].pack = Tail(q)[j].pack
          PROVE  i = j
      <4>1. i + 1 = j + 1
        BY <3>2, <3>4, <3>6
      <4> QED BY <3>4, <4>1
    <3>7. ASSUME NEW i \in DOMAIN Tail(q), NEW e \in DataEntries(m)'
          PROVE  e.pack # Tail(q)[i].pack
      <4>1. CASE e \in DataEntries(m)
        BY <3>2, <3>4, <4>1
      <4>2. CASE e = q[1]
        <5>1. i + 1 # 1 /\ i + 1 \in DOMAIN q /\ Tail(q)[i] = q[i + 1]
          BY <3>4
        <5> QED BY <3>2, <3>3, <4>2, <5>1
      <4> QED BY <3>1, <3>3, <3>7, <4>1, <4>2
    <3> QED BY <3>1, <3>5, <3>6, <3>7 DEF PostedFresh, OneEntry
  <2> QED BY <2>1, <2>2
<1>6. ASSUME NEW n \in Node, NEW c \in BagToSet(completions[n]), HandleSend(n, c)
      PROVE  PostedFresh(m)' /\ OneEntry(m)'
  <2>1. posted' = posted
    BY <1>6 DEF HandleSend
  <2>2. CASE DataEntries(m)' = DataEntries(m)
    BY <1>3, <2>1, <2>2
  <2>3. CASE DataEntries(m)' = CountSend(DataEntries(m), c.pack)
    <3>1. \A e \in DataEntries(m)' :
             \E f \in DataEntries(m) :
                /\ e.pack = f.pack
                /\ e = IF f.pack = c.pack THEN SendSuccessOnce(f) ELSE f
      BY <2>3 DEF CountSend, SendSuccessOnce
    <3> QED BY <1>2, <2>1, <3>1 DEF PostedFresh, OneEntry
  <2> QED BY <1>6, <2>2, <2>3, HandleSendEntries
<1>7. ASSUME NEW n \in Node, HandleTimer(n)
      PROVE  PostedFresh(m)' /\ OneEntry(m)'
  <2>1. posted' = posted
    BY <1>7 DEF HandleTimer
  <2> QED BY <1>3, <1>7, <2>1, HandleTimerEntries
<1>8. ASSUME NEW n \in Node, NEW p \in net[n], HandleRecv(n, p)
      PROVE  PostedFresh(m)' /\ OneEntry(m)'
  <2>1. posted' = posted
    BY <1>8 DEF HandleRecv
  <2>2. CASE IsAnsPack(p)
    <3>1. RecvAns(n, p)
      BY <1>8, <2>2 DEF HandleRecv
    <3> QED BY <1>3, <2>1, <3>1, RecvAnsEntries
  <2>3. CASE ~IsAnsPack(p)
    <3>1. RecvData(n, p)
      BY <1>8, <2>3 DEF HandleRecv
    <3> QED BY <1>3, <2>1, <2>3, <3>1, RecvDataEntries
  <2> QED BY <2>2, <2>3
<1>9. CASE \/ UNCHANGED vars
           \/ \E n \in Node :
                \/ Open(n) \/ Stop(n) \/ Close(n) \/ HandleOpen(n) \/ HandleClose(n)
                \/ HandleRecvStopped(n)
  <2>1. UNCHANGED <<posted, send_pending_list>>
    BY <1>9 DEF vars, Open, Stop, Close, HandleOpen, HandleClose, HandleRecvStopped
  <2> QED BY <1>3, <2>1 DEF DataEntries
<1> QED BY <1>4, <1>5, <1>6, <1>7, <1>8, <1>9 DEF Next

LEMMA HandedOverNext ==
    ASSUME Inv, AckInv, \A n \in Node : HandedOver(n), [Next]_vars, NEW m \in Node
    PROVE  HandedOver(m)'
<1>1. CASE UNCHANGED <<recved, delivered>>
  BY <1>1 DEF HandedOver
<1>2. ASSUME NEW n \in Node, NEW p \in net[n], HandleRecv(n, p), ~IsAnsPack(p)
      PROVE  HandedOver(m)'
  <2>1. ~IsSmallPack(p)
    BY <1>2, NodeAssumption DEF Inv, PeerPacksKnown, AckInv, OnePackPerMessage
  <2>2. /\ recved' = [recved EXCEPT ![n] = @ \cup {p}]
        /\ delivered' = [delivered EXCEPT ![n] = @ \cup {<<Body(p)>>}]
    BY <1>2, <2>1 DEF HandleRecv, RecvData
  <2> DEFINE d == <<Body(p)>>
  <2>3. \A k \in Node : /\ recved'[k] = IF k = n THEN recved[k] \cup {p} ELSE recved[k]
                        /\ delivered'[k] = IF k = n THEN delivered[k] \cup {d}
                                           ELSE delivered[k]
    BY <2>2 DEF Inv, TypeOK
  <2>4. \A q \in recved[m] : <<Body(q)>> \in delivered[m]
    BY DEF HandedOver
  <2> QED BY <2>3, <2>4 DEF HandedOver
<1>3. CASE \E n \in Node : \E p \in net[n] : HandleRecv(n, p) /\ IsAnsPack(p)
  BY <1>1, <1>3 DEF HandleRecv, RecvAns
<1>4. CASE Next /\ ~(\E n \in Node : \E p \in net[n] : HandleRecv(n, p))
  BY <1>1, <1>4 DEF Next, Open, PostSend, Stop, Close, HandleOpen, HandleClose,
                    StartSend, HandleSend, HandleRecvStopped, HandleTimer
<1>5. CASE UNCHANGED vars
  BY <1>1, <1>5 DEF vars
<1> QED BY <1>2, <1>3, <1>4, <1>5

LEMMA InitLinkInv == Init => LinkInv
BY DEF Init, LinkInv, PostedFresh, OneEntry, HandedOver, DataEntries

(***************************************************************************)
(* PostSend is Post, StartSend and HandleSend are TryOut when they make a  *)
(* pack run out of resends, HandleRecv of a data pack is Deliver and of an *)
(* ans pack Settle, as is HandleTimer.  Other steps change nothing.        *)
(***************************************************************************)
Sent(n) == {p.bID : p \in encoded[n]}

Held(n) == BigIds(RangeOf(posted[n]) \cup DataEntries(n))

Out(n) == BigIds({e \in DataEntries(n) : out_of_resend_count(e)})

Given(n) == {d[1].of : d \in delivered[n]}

LEMMA LinkValues ==
    /\ LinkSent = [n \in Node |-> Sent(n)]
    /\ LinkOutstanding = [n \in Node |-> Held(n)]
    /\ LinkTriedOut = [n \in Node |-> Out(n)]
    /\ LinkDelivered = [n \in Node |-> Given(n)]
BY DEF LinkSent, LinkOutstanding, LinkTriedOut, LinkDelivered, Sent, Held, Out, Given

LEMMA LinkValuesNext ==
    /\ LinkSent' = [n \in Node |-> Sent(n)']
    /\ LinkOutstanding' = [n \in Node |-> Held(n)']
    /\ LinkTriedOut' = [n \in Node |-> Out(n)']
    /\ LinkDelivered' = [n \in Node |-> Given(n)']
BY DEF LinkSent, LinkOutstanding, LinkTriedOut, LinkDelivered, Sent, Held, Out, Given

\* Data packs of one message are one pack.
LEMMA BigIdNamesPack ==
    ASSUME AckInv, NEW n \in Node, NEW p \in encoded[n], NEW q \in encoded[n],
           p.bID = q.bID
    PROVE  p = q
BY DEF AckInv, OnePackPerMessage

\* Taking some data packs off the send list settles their messages.
LEMMA LeavingSettles ==
    ASSUME Inv, AckInv, LinkInv, NEW n \in Node, NEW gone \in SUBSET DataEntries(n),
           \A e \in gone : e.pack \in recved[Peer[n]] \/ out_of_resend_count(e),
           DataEntries(n)' = DataEntries(n) \ gone,
           \A m \in Node : m # n => DataEntries(m)' = DataEntries(m),
           UNCHANGED <<posted, encoded, delivered>>
    PROVE  \E ms \in SUBSET LinkOutstanding[n] : Link!Settle(n, ms)
<1> DEFINE ms == BigIds(gone)
<1>1. Peer[n] \in Node
  BY NodeAssumption
<1>2. /\ \A e \in DataEntries(n) : e.pack \in encoded[n]
      /\ \A e \in RangeOf(posted[n]) : e.pack \in encoded[n]
  BY DEF Inv, OwnPacksKnown, RangeOf
<1>3. ASSUME NEW e \in gone, NEW f \in DataEntries(n), f.pack.bID = e.pack.bID
      PROVE  f \in gone
  <2>1. f.pack = e.pack
    BY <1>2, <1>3, BigIdNamesPack
  <2> QED BY <2>1 DEF LinkInv, OneEntry
<1>4. ASSUME NEW e \in gone, NEW f \in RangeOf(posted[n]), f.pack.bID = e.pack.bID
      PROVE  FALSE
  <2>1. f.pack = e.pack
    BY <1>2, <1>4, BigIdNamesPack
  <2> QED BY <2>1 DEF LinkInv, PostedFresh, RangeOf
<1>5. Held(n)' = Held(n) \ ms
  BY <1>3, <1>4 DEF Held, BigIds
<1>6. Out(n)' = Out(n) \ ms
  BY <1>3 DEF Out, BigIds
<1>7. \A m \in Node : m # n => Held(m)' = Held(m) /\ Out(m)' = Out(m)
  BY DEF Held, Out
<1>8. \A m \in Node : Sent(m)' = Sent(m) /\ Given(m)' = Given(m)
  BY DEF Sent, Given
<1>9. ms \subseteq Held(n)
  BY DEF Held, BigIds
<1>10. ms \subseteq Given(Peer[n]) \cup Out(n)
  <2> SUFFICES ASSUME NEW e \in gone
               PROVE  e.pack.bID \in Given(Peer[n]) \cup Out(n)
    BY DEF BigIds
  <2>1. CASE e.pack \in recved[Peer[n]]
    <3>1. <<Body(e.pack)>> \in delivered[Peer[n]]
      BY <1>1, <2>1 DEF LinkInv, HandedOver
    <3>2. <<Body(e.pack)>>[1].of = e.pack.bID
      BY DEF Body
    <3> QED BY <3>1, <3>2 DEF Given
  <2>2. CASE out_of_resend_count(e)
    BY <2>2 DEF Out, BigIds
  <2> QED BY <2>1, <2>2
<1> HIDE DEF ms
<1>11. LinkOutstanding' = [LinkOutstanding EXCEPT ![n] = @ \ ms]
  BY <1>5, <1>7, LinkValues, LinkValuesNext
<1>12. LinkTriedOut' = [LinkTriedOut EXCEPT ![n] = @ \ ms]
  BY <1>6, <1>7, LinkValues, LinkValuesNext
<1>13. UNCHANGED <<LinkSent, LinkDelivered>>
  BY <1>8, LinkValues, LinkValuesNext
<1>14. ms \subseteq LinkOutstanding[n]
  BY <1>9, LinkValues
<1>15. ms \subseteq LinkDelivered[Peer[n]] \cup LinkTriedOut[n]
  BY <1>1, <1>10, LinkValues
<1>16. Link!Settle(n, ms)
  BY <1>11, <1>12, <1>13, <1>14, <1>15 DEF Link!Settle
<1> QED BY <1>14, <1>16

LEMMA IdsAreMessages ==
    ASSUME Inv, NEW n \in Node, NEW p \in encoded[n]
    PROVE  p.bID \in MessageIds
<1>1. p \in DataPacks /\ p.bID \in Nat
  BY DEF Inv, TypeOK, DataPacks
<1>2. FirstId[n] <= p.bID /\ p.bID < IdLimit[n]
  BY DEF Inv, EncodedRegular
<1>3. FirstId[n] \in Nat /\ IdLimit[n] \in Nat
  BY BoundAssumption
<1>4. p.bID \in FirstId[n] .. IdLimit[n]
  BY <1>1, <1>2, <1>3
<1> QED BY <1>4 DEF MessageIds

\* A step that may take one more pack to its last send, and does nothing else.
LEMMA TryOutStep ==
    ASSUME NEW n \in Node, NEW m \in MessageIds,
           \A k \in Node : Held(k)' = Held(k),
           \A k \in Node : k # n => Out(k)' = Out(k),
           Out(n)' = Out(n) \/ (m \in Held(n) /\ Out(n)' = Out(n) \cup {m}),
           UNCHANGED <<encoded, delivered>>
    PROVE  [Link!Next]_(Link!vars)
<1>1. \A k \in Node : Sent(k)' = Sent(k) /\ Given(k)' = Given(k)
  BY DEF Sent, Given
<1>2. UNCHANGED <<LinkSent, LinkDelivered, LinkOutstanding>>
  BY <1>1, LinkValues, LinkValuesNext
<1>3. CASE Out(n)' = Out(n)
  <2>1. UNCHANGED LinkTriedOut
    BY <1>3, LinkValues, LinkValuesNext
  <2> QED BY <1>2, <2>1 DEF Link!vars
<1>4. CASE m \in Held(n) /\ Out(n)' = Out(n) \cup {m}
  <2>1. LinkTriedOut' = [LinkTriedOut EXCEPT ![n] = @ \cup {m}]
    BY <1>4, LinkValues, LinkValuesNext
  <2>2. m \in LinkOutstanding[n]
    BY <1>4, LinkValues
  <2>3. Link!TryOut(n, m)
    BY <1>2, <2>1, <2>2 DEF Link!TryOut
  <2> QED BY <2>3 DEF Link!Next
<1> QED BY <1>3, <1>4

LEMMA StartSendLink ==
    ASSUME Inv, NEW n \in Node, StartSend(n)
    PROVE  [Link!Next]_(Link!vars)
<1> DEFINE q == posted[n]
           e == Head(q)
<1>1. /\ q \in Seq(PostedEntries) /\ q # <<>>
      /\ posted'[n] = Tail(q)
      /\ \A m \in Node : m # n => posted'[m] = posted[m]
      /\ DataEntries(n)' = DataEntries(n) \cup {e}
      /\ \A m \in Node : m # n => DataEntries(m)' = DataEntries(m)
  BY StartSendEntries
<1>2. e = q[1] /\ 1 \in DOMAIN q
  BY <1>1
<1>3. e.pack \in encoded[n]
  BY <1>2 DEF Inv, OwnPacksKnown
<1>4. e.pack.bID \in MessageIds
  BY <1>3, IdsAreMessages
<1>5. RangeOf(q) = RangeOf(Tail(q)) \cup {e}
  <2> HIDE DEF q, e
  <2>1. \A i \in DOMAIN Tail(q) : i + 1 \in DOMAIN q /\ Tail(q)[i] = q[i + 1]
    BY <1>1
  <2>2. \A i \in DOMAIN q : i = 1 \/ (i - 1 \in DOMAIN Tail(q) /\ Tail(q)[i - 1] = q[i])
    BY <1>1
  <2>3. RangeOf(Tail(q)) \subseteq RangeOf(q)
    BY <2>1 DEF RangeOf
  <2>4. RangeOf(q) \subseteq RangeOf(Tail(q)) \cup {e}
    <3>1. ASSUME NEW i \in DOMAIN q
          PROVE  q[i] \in RangeOf(Tail(q)) \cup {e}
      <4>1. CASE i = 1
        BY <1>2, <4>1
      <4>2. CASE i # 1
        <5> DEFINE j == i - 1
        <5>1. j \in DOMAIN Tail(q) /\ Tail(q)[j] = q[i]
          BY <2>2, <4>2
        <5> HIDE DEF j
        <5> QED BY <5>1 DEF RangeOf
      <4> QED BY <4>1, <4>2
    <3> QED BY <3>1 DEF RangeOf
  <2>5. e \in RangeOf(q)
    BY <1>2 DEF RangeOf
  <2> QED BY <2>3, <2>4, <2>5
<1>6. Held(n)' = Held(n)
  <2>1. RangeOf(posted'[n]) \cup DataEntries(n)' = RangeOf(q) \cup DataEntries(n)
    BY <1>1, <1>5
  <2> QED BY <2>1 DEF Held, BigIds
<1>7. \A k \in Node : k # n => Held(k)' = Held(k) /\ Out(k)' = Out(k)
  BY <1>1 DEF Held, Out
<1>8. e.pack.bID \in Held(n)
  BY <1>5 DEF Held, BigIds
<1> HIDE DEF e, q
<1>9. Out(n)' = Out(n) \/ Out(n)' = Out(n) \cup {e.pack.bID}
  <2>1. CASE out_of_resend_count(e)
    BY <1>1, <2>1 DEF Out, BigIds
  <2>2. CASE ~out_of_resend_count(e)
    BY <1>1, <2>2 DEF Out, BigIds
  <2> QED BY <2>1, <2>2
<1>10. UNCHANGED <<encoded, delivered>>
  BY DEF StartSend
<1> QED BY <1>4, <1>6, <1>7, <1>8, <1>9, <1>10, TryOutStep

LEMMA HandleSendLink ==
    ASSUME DisjointIds, Inv, AckInv, NEW n \in Node,
           NEW c \in BagToSet(completions[n]), HandleSend(n, c)
    PROVE  [Link!Next]_(Link!vars)
<1> DEFINE list == DataEntries(n)
<1>1. UNCHANGED <<posted, encoded, delivered>>
  BY DEF HandleSend
<1>2. \A k \in Node : k # n => DataEntries(k)' = DataEntries(k)
  BY HandleSendEntries
<1>3. \A k \in Node : k # n => Held(k)' = Held(k) /\ Out(k)' = Out(k)
  BY <1>1, <1>2 DEF Held, Out
<1>4. CASE DataEntries(n)' = list
  <2>1. \A k \in Node : Held(k)' = Held(k) /\ Out(k)' = Out(k)
    BY <1>1, <1>3, <1>4 DEF Held, Out
  <2>2. \A k \in Node : Sent(k)' = Sent(k) /\ Given(k)' = Given(k)
    BY <1>1 DEF Sent, Given
  <2>3. UNCHANGED <<LinkSent, LinkOutstanding, LinkTriedOut, LinkDelivered>>
    BY <2>1, <2>2, LinkValues, LinkValuesNext
  <2> QED BY <2>3 DEF Link!vars
<1>5. CASE DataEntries(n)' = CountSend(list, c.pack)
  <2>1. \A f \in list : f.sended_count \in Nat /\ f.pack \in encoded[n]
    BY DEF DataEntries, Inv, TypeOK, Entries, OwnPacksKnown
  <2>2. \A f \in list : /\ SendSuccessOnce(f).pack = f.pack
                        /\ out_of_resend_count(f) => out_of_resend_count(SendSuccessOnce(f))
    BY <2>1, PackAssumption DEF SendSuccessOnce, out_of_resend_count
  <2>3. /\ \A f \in list : \E g \in DataEntries(n)' : g.pack = f.pack
        /\ \A g \in DataEntries(n)' : \E f \in list : g.pack = f.pack
    BY <1>5, <2>2 DEF CountSend
  <2>4. Held(n)' = Held(n)
    BY <1>1, <2>3 DEF Held, BigIds
  <2>5. \A b \in Out(n) : b \in Out(n)'
    <3> SUFFICES ASSUME NEW f \in list, out_of_resend_count(f)
                 PROVE  f.pack.bID \in Out(n)'
      BY DEF Out, BigIds
    <3>1. PICK g \in DataEntries(n)' : g.pack = f.pack /\ out_of_resend_count(g)
      BY <1>5, <2>2 DEF CountSend
    <3> QED BY <3>1 DEF Out, BigIds
  <2>6. \A b \in Out(n)' : b \in Out(n) \/ (b = c.pack.bID /\ \E f \in list : f.pack = c.pack)
    <3> SUFFICES ASSUME NEW g \in DataEntries(n)', out_of_resend_count(g),
                        g.pack.bID \notin Out(n)
                 PROVE  g.pack = c.pack /\ \E f \in list : f.pack = c.pack
      BY DEF Out, BigIds, out_of_resend_count
    <3>1. PICK f \in list : g = IF f.pack = c.pack THEN SendSuccessOnce(f) ELSE f
      BY <1>5 DEF CountSend
    <3>2. f.pack = c.pack
      BY <3>1 DEF Out, BigIds
    <3> QED BY <2>2, <3>1, <3>2
  <2>7. CASE Out(n)' = Out(n)
    <3>1. \A k \in Node : Held(k)' = Held(k) /\ Out(k)' = Out(k)
      BY <1>3, <2>4, <2>7
    <3>2. \A k \in Node : Sent(k)' = Sent(k) /\ Given(k)' = Given(k)
      BY <1>1 DEF Sent, Given
    <3>3. UNCHANGED <<LinkSent, LinkOutstanding, LinkTriedOut, LinkDelivered>>
      BY <3>1, <3>2, LinkValues, LinkValuesNext
    <3> QED BY <3>3 DEF Link!vars
  <2>8. CASE Out(n)' # Out(n)
    <3>1. PICK b \in Out(n)' : b \notin Out(n)
      BY <2>5, <2>8
    <3>2. b = c.pack.bID /\ \E f \in list : f.pack = c.pack
      BY <2>6, <3>1
    <3>3. c.pack.bID \in MessageIds /\ c.pack.bID \in Held(n)
      BY <2>1, <3>2, IdsAreMessages DEF Held, BigIds
    <3>4. Out(n)' = Out(n) \cup {c.pack.bID}
      BY <2>5, <2>6, <3>1, <3>2
    <3> QED BY <1>1, <1>3, <2>4, <3>3, <3>4, TryOutStep
  <2> QED BY <2>7, <2>8
<1> QED BY <1>4, <1>5, HandleSendEntries

LEMMA PostSendLink ==
    ASSUME SinglePackMessages, Inv, NEW n \in Node, NEW len \in Lengths[n],
           PostSend(n, len)
    PROVE  [Link!Next]_(Link!vars)
<1>1. TypeOK  BY DEF Inv
<1>2. UNCHANGED <<send_pending_list, delivered>>
  BY DEF PostSend
<1>3. \A k \in Node : /\ DataEntries(k)' = DataEntries(k)
                      /\ Out(k)' = Out(k) /\ Given(k)' = Given(k)
  BY <1>2 DEF DataEntries, Out, Given
<1>4. CASE UNCHANGED <<posted, encoded>>
  <2>1. \A k \in Node : Held(k)' = Held(k) /\ Sent(k)' = Sent(k)
    BY <1>3, <1>4 DEF Held, Sent
  <2>2. UNCHANGED <<LinkSent, LinkOutstanding, LinkTriedOut, LinkDelivered>>
    BY <1>3, <2>1, LinkValues, LinkValuesNext
  <2> QED BY <2>2 DEF Link!vars
<1>5. ASSUME NEW e \in PostedEntries,
             e.pack.bID = current_id[n],
             posted' = [posted EXCEPT ![n] = Append(@, e)],
             encoded' = [encoded EXCEPT ![n] = @ \cup {e.pack}]
      PROVE  [Link!Next]_(Link!vars)
  <2> DEFINE bid == current_id[n]
             q == posted[n]
  <2>1. /\ encoded'[n] = encoded[n] \cup {e.pack}
        /\ \A k \in Node : k # n => encoded'[k] = encoded[k] /\ posted'[k] = posted[k]
        /\ posted'[n] = Append(q, e) /\ q \in Seq(PostedEntries)
    BY <1>1, <1>5 DEF TypeOK
  <2>2. RangeOf(Append(q, e)) = RangeOf(q) \cup {e}
    <3> HIDE DEF q
    <3>1. \A i \in DOMAIN q : i \in DOMAIN Append(q, e) /\ Append(q, e)[i] = q[i]
      BY <2>1
    <3>2. \A i \in DOMAIN Append(q, e) :
             Append(q, e)[i] = e \/ (i \in DOMAIN q /\ Append(q, e)[i] = q[i])
      BY <2>1
    <3>3. Len(q) + 1 \in DOMAIN Append(q, e) /\ Append(q, e)[Len(q) + 1] = e
      BY <2>1
    <3>4. RangeOf(q) \subseteq RangeOf(Append(q, e))
      BY <3>1 DEF RangeOf
    <3>5. e \in RangeOf(Append(q, e))
      BY <3>3 DEF RangeOf
    <3>6. RangeOf(Append(q, e)) \subseteq RangeOf(q) \cup {e}
      BY <3>2 DEF RangeOf
    <3> QED BY <3>4, <3>5, <3>6
  <2>3. Held(n)' = Held(n) \cup {bid}
    <3>1. RangeOf(posted'[n]) = RangeOf(q) \cup {e}
      BY <2>1, <2>2
    <3> QED BY <1>3, <1>5, <3>1 DEF Held, BigIds
  <2>4. Sent(n)' = Sent(n) \cup {bid}
    BY <1>5, <2>1 DEF Sent
  <2>5. \A k \in Node : k # n => Held(k)' = Held(k) /\ Sent(k)' = Sent(k)
    BY <1>3, <2>1 DEF Held, Sent
  <2>6. /\ \A p \in encoded[n] : p.bID < bid /\ p.bID \in Nat
        /\ bid \in Nat /\ FirstId[n] <= bid
    BY <1>1 DEF Inv, EncodedRegular, TypeOK, DataPacks
  <2>7. bid \notin Sent(n)
    BY <2>6 DEF Sent
  <2>8. bid \in MessageIds
    <3>1. bid < IdLimit[n]
      BY DEF PostSend
    <3>2. FirstId[n] \in Nat /\ IdLimit[n] \in Nat
      BY BoundAssumption
    <3>3. bid \in FirstId[n] .. IdLimit[n]
      BY <2>6, <3>1, <3>2
    <3> QED BY <3>3 DEF MessageIds
  <2> HIDE DEF bid
  <2>9. /\ LinkSent' = [LinkSent EXCEPT ![n] = @ \cup {bid}]
        /\ LinkOutstanding' = [LinkOutstanding EXCEPT ![n] = @ \cup {bid}]
    BY <2>3, <2>4, <2>5, LinkValues, LinkValuesNext
  <2>10. UNCHANGED <<LinkTriedOut, LinkDelivered>>
    BY <1>3, LinkValues, LinkValuesNext
  <2>11. bid \notin LinkSent[n]
    BY <2>7, LinkValues
  <2>12. Link!Post(n, bid)
    BY <2>9, <2>10, <2>11 DEF Link!Post
  <2> QED BY <2>8, <2>12 DEF Link!Next
<1> QED BY <1>4, <1>5, PostSendEntries

LEMMA RecvDataLink ==
    ASSUME Inv, AckInv, NEW n \in Node, NEW p \in net[n], ~IsAnsPack(p),
           HandleRecv(n, p)
    PROVE  [Link!Next]_(Link!vars)
<1>1. TypeOK  BY DEF Inv
<1>2. Peer[n] \in Node
  BY NodeAssumption
<1>3. p \in encoded[Peer[n]]
  BY DEF Inv, PeerPacksKnown
<1>4. ~IsSmallPack(p)
  BY <1>2, <1>3 DEF AckInv, OnePackPerMessage
<1>5. UNCHANGED <<posted, encoded>> /\ RecvData(n, p)
  BY DEF HandleRecv
<1> DEFINE d == <<Body(p)>>
<1>6. d[1].of = p.bID
  BY DEF Body
<1>7. delivered' = [delivered EXCEPT ![n] = @ \cup {d}]
  BY <1>4, <1>5 DEF RecvData
<1>8. \A k \in Node : DataEntries(k)' = DataEntries(k)
  BY <1>5, RecvDataEntries
<1> HIDE DEF d
<1>9. \A k \in Node : Held(k)' = Held(k) /\ Out(k)' = Out(k) /\ Sent(k)' = Sent(k)
  BY <1>5, <1>8 DEF Held, Out, Sent
<1>10. /\ delivered'[n] = delivered[n] \cup {d}
       /\ \A k \in Node : k # n => delivered'[k] = delivered[k]
  BY <1>1, <1>7 DEF TypeOK
<1>11. Given(n)' = Given(n) \cup {p.bID}
  BY <1>6, <1>10 DEF Given
<1>12. \A k \in Node : k # n => Given(k)' = Given(k)
  BY <1>10 DEF Given
<1>13. UNCHANGED <<LinkSent, LinkOutstanding, LinkTriedOut>>
  BY <1>9, LinkValues, LinkValuesNext
<1>14. LinkDelivered' = [LinkDelivered EXCEPT ![n] = @ \cup {p.bID}]
  BY <1>11, <1>12, LinkValues, LinkValuesNext
<1>15. p.bID \in LinkSent[Peer[n]]
  BY <1>2, <1>3, LinkValues DEF Sent
<1>16. Link!Deliver(n, p.bID)
  BY <1>13, <1>14, <1>15 DEF Link!Deliver
<1>17. p.bID \in MessageIds
  BY <1>2, <1>3, IdsAreMessages
<1> QED BY <1>16, <1>17 DEF Link!Next

LEMMA LinkStep ==
    ASSUME SinglePackMessages, DisjointIds, Inv, AckInv, LinkInv, [Next]_vars
    PROVE  [Link!Next]_(Link!vars)
<1>1. CASE UNCHANGED <<posted, send_pending_list, encoded, delivered>>
  <2>1. \A k \in Node : DataEntries(k)' = DataEntries(k)
    BY <1>1 DEF DataEntries
  <2>2. \A k \in Node : /\ Held(k)' = Held(k) /\ Out(k)' = Out(k)
                        /\ Sent(k)' = Sent(k) /\ Given(k)' = Given(k)
    BY <1>1, <2>1 DEF Held, Out, Sent, Given
  <2>3. UNCHANGED <<LinkSent, LinkOutstanding, LinkTriedOut, LinkDelivered>>
    BY <2>2, LinkValues, LinkValuesNext
  <2> QED BY <2>3 DEF Link!vars
<1>2. ASSUME NEW n \in Node, HandleTimer(n)
      PROVE  [Link!Next]_(Link!vars)
  <2> DEFINE gone == {e \in DataEntries(n) : out_of_resend_count(e)}
  <2>1. gone \in SUBSET DataEntries(n) /\ \A e \in gone : out_of_resend_count(e)
    OBVIOUS
  <2>2. /\ DataEntries(n)' = DataEntries(n) \ gone
        /\ \A m \in Node : m # n => DataEntries(m)' = DataEntries(m)
    BY <1>2, HandleTimerEntries
  <2>3. UNCHANGED <<posted, encoded, delivered>>
    BY <1>2 DEF HandleTimer
  <2> HIDE DEF gone
  <2>4. \E ms \in SUBSET LinkOutstanding[n] : Link!Settle(n, ms)
    BY <2>1, <2>2, <2>3, LeavingSettles
  <2> QED BY <2>4 DEF Link!Next
<1>3. ASSUME NEW n \in Node, NEW p \in net[n], HandleRecv(n, p), IsAnsPack(p)
      PROVE  [Link!Next]_(Link!vars)
  <2> DEFINE gone == {e \in DataEntries(n) : GetId(e.pack) = GetId(p)}
  <2>1. RecvAns(n, p)
    BY <1>3 DEF HandleRecv
  <2>2. Answers(Peer[n], p)
    BY <1>3 DEF AckInv, AnsPacksKnown
  <2>3. \A e \in gone : e.pack \in recved[Peer[n]]
    BY <2>2, AnsNamesReceivedPack DEF Inv, OwnPacksKnown
  <2>4. /\ DataEntries(n)' = DataEntries(n) \ gone
        /\ \A m \in Node : m # n => DataEntries(m)' = DataEntries(m)
    BY <2>1, RecvAnsEntries
  <2>5. UNCHANGED <<posted, encoded, delivered>>
    BY <1>3, <2>1 DEF HandleRecv, RecvAns
  <2>6. gone \in SUBSET DataEntries(n)
    OBVIOUS
  <2> HIDE DEF gone
  <2>7. \E ms \in SUBSET LinkOutstanding[n] : Link!Settle(n, ms)
    BY <2>3, <2>4, <2>5, <2>6, LeavingSettles
  <2> QED BY <2>7 DEF Link!Next
<1>4. CASE UNCHANGED vars
  BY <1>1, <1>4 DEF vars
<1>5. CASE Next
  <2>1. CASE \E m \in Node :
                \/ Open(m) \/ Stop(m) \/ Close(m) \/ HandleOpen(m) \/ HandleClose(m)
                \/ HandleRecvStopped(m)
    BY <1>1, <2>1 DEF Open, Stop, Close, HandleOpen, HandleClose, HandleRecvStopped
  <2> QED
    BY <1>2, <1>3, <1>5, <2>1, PostSendLink, StartSendLink, HandleSendLink, RecvDataLink
       DEF Next
<1> QED BY <1>4, <1>5

\* Two connections implement MessageLink where the code's two conditions hold:
\* whatever the network does, a message is delivered only if it was posted, and
\* its sender forgets it only when it was delivered or tried often enough.
THEOREM ConnectionsImplementLink ==
    ASSUME SinglePackMessages, DisjointIds
    PROVE  Spec => ImplementsLink
<1>1. Init => Link!Init
  <2> SUFFICES ASSUME Init PROVE Link!Init
    OBVIOUS
  <2>1. \A n \in Node : DataEntries(n) = {}
    BY DEF Init, DataEntries
  <2>2. \A n \in Node : RangeOf(posted[n]) = {}
    BY DEF Init, RangeOf
  <2>3. \A n \in Node : Sent(n) = {} /\ Held(n) = {} /\ Out(n) = {} /\ Given(n) = {}
    BY <2>1, <2>2 DEF Init, Sent, Held, Out, Given, BigIds
  <2> QED BY <2>3, LinkValues DEF Link!Init
<1>2. Init => Inv /\ AckInv /\ LinkInv
  BY InitInv, InitAckInv, InitLinkInv
<1>3. Inv /\ AckInv /\ LinkInv /\ [Next]_vars => Inv' /\ AckInv' /\ LinkInv'
  BY NextInv, AckInvNext, PostedFreshNext, HandedOverNext DEF LinkInv
<1>4. Inv /\ AckInv /\ LinkInv /\ [Next]_vars => [Link!Next]_(Link!vars)
  BY LinkStep
<1> QED BY <1>1, <1>2, <1>3, <1>4, PTL DEF Spec, ImplementsLink, Link!Spec
=============================================================================
