------------------------ MODULE ConnectionUDPProofs ------------------------
(***************************************************************************)
(* Theorems about Pack and ConnectionUDP, for every pair of nodes, every   *)
(* number and length of messages and every bound.                          *)
(***************************************************************************)
EXTENDS ConnectionUDP, FiniteSetTheorems, SequenceTheorems, TLAPS

(***************************************************************************)
(* Pack: what EncodeData makes of a message, for every length and every    *)
(* MAX_DATA_SIZE.                                                          *)
(***************************************************************************)
\* Integer division, as Count uses it, rounds down.
LEMMA DivBounds ==
    ASSUME NEW a \in Nat, NEW b \in Nat \ {0}
    PROVE  /\ a \div b \in Nat
           /\ (a \div b) * b <= a
           /\ a < (a \div b) * b + b
<1>1. a \div b \in Int /\ a % b \in 0 .. b - 1 /\ a = b * (a \div b) + (a % b)
  OBVIOUS
<1> DEFINE q == a \div b
<1>2. q \in Int  BY <1>1
<1>3. q * b <= a /\ a < q * b + b
  BY <1>1
<1>4. q >= 0
  BY <1>2, <1>3, SMTT(30)
<1> QED BY <1>2, <1>3, <1>4

\* The number of packs is the least one whose packs have room for the message.
LEMMA CountBounds ==
    ASSUME NEW len \in Nat
    PROVE  /\ Count(len) \in Nat
           /\ len <= Count(len) * MAX_DATA_SIZE
           /\ Count(len) * MAX_DATA_SIZE < len + MAX_DATA_SIZE
<1> DEFINE room == len + MAX_DATA_SIZE - 1
<1>1. MAX_DATA_SIZE \in Nat \ {0}  BY PackAssumption
<1>2. room \in Nat  BY <1>1
<1>3. /\ room \div MAX_DATA_SIZE \in Nat
      /\ (room \div MAX_DATA_SIZE) * MAX_DATA_SIZE <= room
      /\ room < (room \div MAX_DATA_SIZE) * MAX_DATA_SIZE + MAX_DATA_SIZE
  BY <1>1, <1>2, DivBounds
<1> DEFINE c == Count(len)
<1>4. c \in Nat /\ c * MAX_DATA_SIZE <= room /\ room < c * MAX_DATA_SIZE + MAX_DATA_SIZE
  BY <1>3 DEF Count
<1>5. c * MAX_DATA_SIZE \in Nat  BY <1>1, <1>4
<1> HIDE DEF c
<1>6. c \in Nat /\ len <= c * MAX_DATA_SIZE /\ c * MAX_DATA_SIZE < len + MAX_DATA_SIZE
  BY <1>1, <1>4, <1>5
<1> QED BY <1>6 DEF c

\* A message of at most MAX_DATA_SIZE bytes, and only such a one, fits a pack.
LEMMA OnePack ==
    ASSUME NEW len \in Nat, len <= MAX_DATA_SIZE
    PROVE  Count(len) \in {0, 1}
<1> DEFINE c == Count(len)
<1>1. MAX_DATA_SIZE \in Nat \ {0}  BY PackAssumption
<1>2. c \in Nat /\ c * MAX_DATA_SIZE < len + MAX_DATA_SIZE
  BY CountBounds
<1> HIDE DEF c
<1>3. c < 2
  <2>1. SUFFICES ASSUME c >= 2 PROVE FALSE
    BY <1>2
  <2>2. c * MAX_DATA_SIZE >= 2 * MAX_DATA_SIZE
    BY <1>1, <1>2, <2>1
  <2> QED BY <1>1, <1>2, <2>2
<1> QED BY <1>2, <1>3 DEF c

\* Where the i-th pack starts, and that its size is positive and at most
\* MAX_DATA_SIZE.
LEMMA PieceBounds ==
    ASSUME NEW len \in Nat, NEW i \in 1 .. Count(len)
    PROVE  /\ Offset(i) \in Nat
           /\ Offset(i) < len
           /\ PieceSize(len, i) \in 1 .. MAX_DATA_SIZE
<1> DEFINE c == Count(len)
           o == Offset(i)
<1>1. MAX_DATA_SIZE \in Nat \ {0}  BY PackAssumption
<1>2. c \in Nat /\ c * MAX_DATA_SIZE < len + MAX_DATA_SIZE
  BY CountBounds
<1>3. i \in Nat /\ 1 <= i /\ i <= c
  BY <1>2
<1> HIDE DEF c
<1>4. i * MAX_DATA_SIZE <= c * MAX_DATA_SIZE
  BY <1>1, <1>2, <1>3
<1>5. o \in Nat /\ o = i * MAX_DATA_SIZE - MAX_DATA_SIZE
  BY <1>1, <1>3 DEF Offset
<1>6. o < len
  BY <1>1, <1>2, <1>3, <1>4, <1>5
<1> HIDE DEF o
<1>7. (IF len - o > MAX_DATA_SIZE THEN MAX_DATA_SIZE ELSE len - o) \in 1 .. MAX_DATA_SIZE
  BY <1>1, <1>5, <1>6
<1> QED BY <1>5, <1>6, <1>7 DEF o, PieceSize

\* EncodeData returns well-typed packs that all carry the same bID, sID and
\* eID.
LEMMA EncodeDataTyped ==
    ASSUME NEW bid \in Nat, NEW len \in Nat
    PROVE  /\ EncodeData(bid, len) \in Seq(DataPacks)
           /\ DOMAIN EncodeData(bid, len) = 1 .. Count(len)
           /\ \A i \in 1 .. Count(len) :
                LET p == EncodeData(bid, len)[i] IN
                /\ p \in DataPacks
                /\ p.bID = bid /\ p.sID = bid + 1 /\ p.eID = bid + Count(len)
                /\ p.ID = bid + i
<1>1. Count(len) \in Nat  BY CountBounds
<1>2. ASSUME NEW i \in 1 .. Count(len)
      PROVE  EncodeData(bid, len)[i] \in DataPacks
  <2>1. Offset(i) \in Nat /\ PieceSize(len, i) \in Nat
    BY PieceBounds, PackAssumption
  <2>2. bid + i \in Nat /\ bid + 1 \in Nat /\ bid + Count(len) \in Nat
    BY <1>1
  <2> QED BY <2>1, <2>2 DEF EncodeData, DataPacks
<1>3. EncodeData(bid, len) \in Seq(DataPacks)
  <2>1. EncodeData(bid, len) \in [1 .. Count(len) -> DataPacks]
    BY <1>2 DEF EncodeData
  <2> QED BY <1>1, <2>1
<1> QED BY <1>2, <1>3 DEF EncodeData

\* The packs of a message cut it without gap or overlap: the first starts at
\* its first byte, each starts where the one before it ends, and the last ends
\* at its last byte.
THEOREM PiecesTileMessage ==
    ASSUME NEW bid \in Nat, NEW len \in Nat \ {0}
    PROVE  LET ps == EncodeData(bid, len) IN
           /\ Count(len) >= 1
           /\ ps[1].Data = 0
           /\ \A i \in 1 .. Count(len) - 1 : ps[i].Data + ps[i].Size = ps[i + 1].Data
           /\ ps[Count(len)].Data + ps[Count(len)].Size = len
<1> DEFINE c == Count(len)
           M == MAX_DATA_SIZE
<1>1. M \in Nat \ {0}  BY PackAssumption
<1>2. c \in Nat /\ len <= c * M /\ c * M < len + M
  BY CountBounds
<1>3. ASSUME NEW i \in 1 .. c
      PROVE  /\ EncodeData(bid, len)[i].Data = Offset(i)
             /\ EncodeData(bid, len)[i].Size = PieceSize(len, i)
  BY DEF EncodeData
<1> HIDE DEF c, M
<1>4. c >= 1
  BY <1>1, <1>2
<1>5. Offset(1) = 0
  BY <1>1 DEF Offset, M
<1>6. ASSUME NEW i \in 1 .. c - 1
      PROVE  Offset(i) + PieceSize(len, i) = Offset(i + 1)
  <2>1. i \in Nat /\ i <= c - 1  BY <1>2
  <2>2. Offset(i) = i * M - M /\ Offset(i + 1) = i * M /\ i * M \in Nat
    BY <1>1, <2>1 DEF Offset, M
  <2>3. i * M <= c * M - M
    BY <1>1, <1>2, <2>1
  <2>4. len - Offset(i) > M
    BY <1>1, <1>2, <2>2, <2>3
  <2> QED BY <1>1, <2>2, <2>4 DEF PieceSize, M
<1>7. Offset(c) + PieceSize(len, c) = len
  <2>1. Offset(c) = c * M - M /\ c * M \in Nat
    BY <1>1, <1>2 DEF Offset, M
  <2>2. ~(len - Offset(c) > M)
    BY <1>1, <1>2, <2>1
  <2> QED BY <1>1, <1>2, <2>1, <2>2 DEF PieceSize, M
<1> QED
  <2>1. 1 \in 1 .. c /\ c \in 1 .. c /\ \A i \in 1 .. c - 1 : i \in 1 .. c /\ i + 1 \in 1 .. c
    BY <1>2, <1>4
  <2> QED BY <1>3, <1>4, <1>5, <1>6, <1>7, <2>1 DEF c

-----------------------------------------------------------------------------
(***************************************************************************)
(* The inductive invariant.  Every data pack a node has anywhere was made  *)
(* by its own PostSend or, on the way to it and behind, by its peer's; the *)
(* packs of one message agree in sID and eID; and what was delivered is    *)
(* one pack.                                                               *)
(***************************************************************************)
EncodedRegular(n) ==
    /\ FirstId[n] <= current_id[n]
    /\ \A p \in encoded[n] :
         /\ p.sID = p.bID + 1
         /\ FirstId[n] <= p.bID /\ p.bID < current_id[n] /\ p.bID < IdLimit[n]
    /\ \A p, q \in encoded[n] : p.bID = q.bID => p.eID = q.eID

OwnPacksKnown(n) ==
    /\ \A i \in DOMAIN posted[n] : posted[n][i].pack \in encoded[n]
    /\ \A e \in DataEntries(n) : e.pack \in encoded[n]
    /\ \A c \in BagToSet(completions[n]) :
         ~IsAnsPack(c.pack) => c.pack \in encoded[n]

PeerPacksKnown(n) ==
    /\ \A p \in net[n] : ~IsAnsPack(p) => p \in encoded[Peer[n]]
    /\ recved[n] \subseteq encoded[Peer[n]]
    /\ \A i \in DOMAIN recved_uncomplete_list[n] :
         recved_uncomplete_list[n][i] \in encoded[Peer[n]]

DeliveredSingle(n) ==
    \A d \in delivered[n] :
        \E p \in encoded[Peer[n]] : ~IsSmallPack(p) /\ d = <<Body(p)>>

Inv ==
    /\ TypeOK
    /\ \A n \in Node : /\ EncodedRegular(n)
                       /\ OwnPacksKnown(n)
                       /\ PeerPacksKnown(n)
                       /\ DeliveredSingle(n)

-----------------------------------------------------------------------------
(***************************************************************************)
(* Facts about the operators.                                              *)
(***************************************************************************)
LEMMA BagAddDomain ==
    ASSUME NEW B, NEW S
    PROVE  BagToSet(B (+) SetToBag(S)) = BagToSet(B) \cup S
BY DEF BagToSet, (+), SetToBag

LEMMA BagRemoveDomain ==
    ASSUME NEW B, NEW S
    PROVE  BagToSet(B (-) SetToBag(S)) \subseteq BagToSet(B)
BY DEF BagToSet, (-), SetToBag

\* A pack is a data pack exactly when it is not an ans pack.
LEMMA PackKinds ==
    /\ \A p \in DataPacks : ~IsAnsPack(p)
    /\ \A p \in Packs : ~IsAnsPack(p) => p \in DataPacks
    /\ \A id \in Nat : EncodeAnsPack(id) \in Packs /\ IsAnsPack(EncodeAnsPack(id))
<1>1. \A p \in DataPacks : ~IsAnsPack(p)
  BY DEF DataPacks, IsAnsPack, TPack_CMD, TAnsPack_CMD
<1>2. \A p \in AnsPacks : IsAnsPack(p)
  BY DEF AnsPacks, IsAnsPack
<1>3. \A id \in Nat : EncodeAnsPack(id) \in AnsPacks
  BY DEF AnsPacks, EncodeAnsPack
<1> QED BY <1>1, <1>2, <1>3 DEF Packs

\* The accessors of a data pack read its header.
LEMMA DataAccessors ==
    ASSUME NEW p \in DataPacks
    PROVE  /\ GetId(p) = p.sID /\ GetBigId(p) = p.bID
           /\ PiecesOf(p) = p.eID - p.sID + 1
           /\ IsSmallPack(p) <=> p.sID < p.eID
           /\ needAns(p)
           /\ Body(p) \in Bodies
<1>1. p.Cmd = TPack_CMD /\ p.NeedAns = 1  BY DEF DataPacks
<1>2. ~IsAnsPack(p)  BY PackKinds
<1>3. p.bID \in Nat /\ p.Data \in Nat /\ p.Size \in Nat  BY DEF DataPacks
<1>4. Body(p) \in Bodies  BY <1>3 DEF Body, Bodies
<1> QED BY <1>1, <1>2, <1>4 DEF GetId, GetBigId, PiecesOf, GetStartId, GetEndId,
                                IsSmallPack, needAns

\* SendSuccessOnce keeps the packs of the list.
LEMMA CountSendKeepsPacks ==
    ASSUME NEW list \in SUBSET Entries, NEW pack
    PROVE  /\ CountSend(list, pack) \in SUBSET Entries
           /\ \A e \in CountSend(list, pack) : \E f \in list : e.pack = f.pack
           /\ \A f \in list : \E e \in CountSend(list, pack) : e.pack = f.pack
<1>1. ASSUME NEW f \in list
      PROVE  SendSuccessOnce(f) \in Entries /\ SendSuccessOnce(f).pack = f.pack
  BY DEF Entries, SendSuccessOnce
<1> QED BY <1>1 DEF CountSend

\* The pieces of a message carry the same GetId: RegroupPack never finds one
\* complete, and a piece is dropped, appended or hangs.
LEMMA PiecesNeverComplete ==
    ASSUME NEW list \in Seq(DataPacks), NEW p \in DataPacks,
           IsSmallPack(p), p.sID = p.bID + 1,
           \A i \in DOMAIN list : list[i].sID = list[i].bID + 1
    PROVE  /\ ~R!Completes(list, p)
           /\ R!ListAfter(list, p) \in {list, Append(list, p)}
<1>1. ASSUME R!Completes(list, p)
      PROVE  FALSE
  <2>1. R!Obstacles(list, p) = {}
    BY <1>1 DEF R!Completes, R!Appends
  <2>2. ASSUME NEW i \in DOMAIN list, GetBigId(list[i]) = GetBigId(p)
        PROVE  FALSE
    <3>1. list[i] \in DataPacks  OBVIOUS
    <3>2. GetId(list[i]) = GetId(p) /\ GetId(p) \in Nat
      BY <2>2, <3>1, DataAccessors DEF DataPacks
    <3>3. i \in R!Obstacles(list, p)
      BY <2>2, <3>2 DEF R!Obstacles
    <3> QED BY <2>1, <3>3
  <2>3. R!SameMessage(list, p) = {}
    BY <2>2 DEF R!SameMessage
  <2>4. Cardinality(R!SameMessage(list, p)) = 0
    BY <2>3, FS_EmptySet
  <2>5. R!Cardinality(R!SameMessage(list, p)) = Cardinality(R!SameMessage(list, p))
    BY DEF R!Cardinality, Cardinality
  <2>6. PiecesOf(p) = 1
    BY <1>1, <2>4, <2>5 DEF R!Completes
  <2> QED BY <2>6, DataAccessors DEF DataPacks
<1> QED BY <1>1 DEF R!ListAfter

\* AsyncSend puts nothing but the given packs on the way, and only to the peer.
LEMMA AsyncSendEffect ==
    ASSUME TypeOK, NEW n \in Node, NEW packs \in SUBSET Packs,
           NEW ok \in SUBSET packs, AsyncSend(n, packs, ok)
    PROVE  /\ DOMAIN completions' = Node
           /\ \A m \in Node : BagToSet(completions'[m]) \subseteq Completions
           /\ net' \in [Node -> SUBSET Packs]
           /\ \A m \in Node : \A c \in BagToSet(completions'[m]) :
                c \in BagToSet(completions[m]) \/ (m = n /\ c.pack \in packs)
           /\ \A m \in Node : \A p \in net'[m] :
                p \in net[m] \/ (m = Peer[n] /\ p \in ok)
<1>1. \A c \in Outcomes(packs, ok) : c \in Completions /\ c.pack \in packs
  <2>1. ASSUME NEW p \in packs
        PROVE  [pack |-> p, error |-> p \notin ok] \in Completions
    <3> DEFINE failed == p \notin ok
    <3>1. failed \in BOOLEAN  OBVIOUS
    <3> HIDE DEF failed
    <3>2. [pack |-> p, error |-> failed] \in Completions
      BY <3>1 DEF Completions
    <3> QED BY <3>2 DEF failed
  <2>2. \A p \in packs : [pack |-> p, error |-> p \notin ok].pack = p
    OBVIOUS
  <2> QED BY <2>1, <2>2 DEF Outcomes
<1>2. BagToSet(completions'[n]) = BagToSet(completions[n]) \cup Outcomes(packs, ok)
  BY BagAddDomain DEF AsyncSend, TypeOK
<1>3. \A m \in Node : m # n => completions'[m] = completions[m]
  BY DEF AsyncSend, TypeOK
<1>4. DOMAIN completions' = Node
  BY DEF AsyncSend, TypeOK
<1>5. \A m \in Node : \A c \in BagToSet(completions'[m]) :
        c \in BagToSet(completions[m]) \/ (m = n /\ c \in Outcomes(packs, ok))
  BY <1>2, <1>3
<1>6. /\ net' \in [Node -> SUBSET Packs]
      /\ \A m \in Node : \A p \in net'[m] :
           p \in net[m] \/ (m = Peer[n] /\ p \in ok)
  BY NodeAssumption DEF AsyncSend, TypeOK
<1>7. \A m \in Node : BagToSet(completions'[m]) \subseteq Completions
  BY <1>1, <1>5 DEF TypeOK
<1> QED BY <1>1, <1>4, <1>5, <1>6, <1>7

-----------------------------------------------------------------------------
(***************************************************************************)
(* The invariant holds at the start and is kept by every action.           *)
(***************************************************************************)
LEMMA InitInv == Init => Inv
<1> SUFFICES ASSUME Init PROVE Inv
  OBVIOUS
<1>1. BagToSet(EmptyBag) = {}
  BY DEF BagToSet, EmptyBag, SetToBag
<1>2. TypeOK
  BY <1>1, BoundAssumption, EmptySeq DEF Init, TypeOK
<1>3. \A n \in Node : DataEntries(n) = {}
  BY DEF Init, DataEntries
<1>4. ASSUME NEW n \in Node
      PROVE  EncodedRegular(n) /\ DeliveredSingle(n)
  <2>1. FirstId[n] \in Nat  BY BoundAssumption
  <2> QED BY <2>1 DEF Init, EncodedRegular, DeliveredSingle
<1>5. ASSUME NEW n \in Node
      PROVE  OwnPacksKnown(n) /\ PeerPacksKnown(n)
  BY <1>1, <1>3 DEF Init, OwnPacksKnown, PeerPacksKnown
<1> QED BY <1>2, <1>4, <1>5 DEF Inv

\* Open, Stop, Close, HandleOpen, HandleClose and HandleRecvStopped move no
\* pack.
LEMMA QuietInv ==
    ASSUME Inv, NEW n \in Node,
           \/ Open(n) \/ Stop(n) \/ Close(n) \/ HandleOpen(n) \/ HandleClose(n)
           \/ HandleRecvStopped(n)
    PROVE  Inv'
<1>1. UNCHANGED <<current_id, posted, send_pending_list, completions, net,
                  recved_uncomplete_list, hung, delivered, encoded, recved>>
  BY DEF Open, Stop, Close, HandleOpen, HandleClose, HandleRecvStopped
<1>2. /\ phase' \in [Node -> {"new", "opening", "open", "closing", "closed"}]
      /\ receiving' \in [Node -> BOOLEAN]
      /\ m_shutdown' \in [Node -> BOOLEAN]
  BY DEF Open, Stop, Close, HandleOpen, HandleClose, HandleRecvStopped, Inv, TypeOK
<1>3. TypeOK'
  BY <1>1, <1>2 DEF Inv, TypeOK
<1> QED
  BY <1>1, <1>3 DEF Inv, EncodedRegular, OwnPacksKnown, PeerPacksKnown,
                    DeliveredSingle, DataEntries

LEMMA StartSendInv ==
    ASSUME Inv, NEW n \in Node, StartSend(n)
    PROVE  Inv'
<1> DEFINE e == Head(posted[n])
<1>1. TypeOK  BY DEF Inv
<1>2. posted[n] \in Seq(PostedEntries) /\ posted[n] # <<>>
  BY <1>1 DEF TypeOK, StartSend
<1>3. /\ e = posted[n][1] /\ 1 \in DOMAIN posted[n] /\ e \in PostedEntries
      /\ Tail(posted[n]) \in Seq(PostedEntries)
      /\ \A i \in DOMAIN Tail(posted[n]) :
           i + 1 \in DOMAIN posted[n] /\ Tail(posted[n])[i] = posted[n][i + 1]
  BY <1>2
<1>4. e \in Entries /\ e.pack \in DataPacks /\ e.pack \in Packs /\ e.pack \in encoded[n]
  BY <1>3 DEF PostedEntries, Entries, Packs, Inv, OwnPacksKnown
<1> HIDE DEF e
<1>5. PICK ok \in SUBSET {e.pack} : AsyncSend(n, {e.pack}, ok)
  BY DEF StartSend, e
<1>6. /\ DOMAIN completions' = Node
      /\ \A m \in Node : BagToSet(completions'[m]) \subseteq Completions
      /\ net' \in [Node -> SUBSET Packs]
      /\ \A m \in Node : \A c \in BagToSet(completions'[m]) :
           c \in BagToSet(completions[m]) \/ (m = n /\ c.pack = e.pack)
      /\ \A m \in Node : \A p \in net'[m] :
           p \in net[m] \/ (m = Peer[n] /\ p = e.pack)
  <2> DEFINE packs == {e.pack}
  <2>1. packs \in SUBSET Packs /\ ok \in SUBSET packs /\ AsyncSend(n, packs, ok)
    BY <1>4, <1>5
  <2>2. \A p \in packs : p = e.pack  OBVIOUS
  <2> HIDE DEF packs
  <2>3. /\ DOMAIN completions' = Node
        /\ \A m \in Node : BagToSet(completions'[m]) \subseteq Completions
        /\ net' \in [Node -> SUBSET Packs]
        /\ \A m \in Node : \A c \in BagToSet(completions'[m]) :
             c \in BagToSet(completions[m]) \/ (m = n /\ c.pack \in packs)
        /\ \A m \in Node : \A p \in net'[m] :
             p \in net[m] \/ (m = Peer[n] /\ p \in ok)
    BY <1>1, <2>1, AsyncSendEffect
  <2> QED BY <2>1, <2>2, <2>3
<1>7. TypeOK'
  BY <1>1, <1>3, <1>4, <1>6 DEF TypeOK, StartSend, e
<1>8. ASSUME NEW m \in Node
      PROVE  OwnPacksKnown(m)'
  <2>1. \A i \in DOMAIN posted'[m] : posted'[m][i].pack \in encoded[m]
    BY <1>1, <1>3 DEF StartSend, TypeOK, Inv, OwnPacksKnown
  <2>2. \A f \in DataEntries(m)' : f.pack \in encoded[m]
    BY <1>1, <1>4 DEF StartSend, TypeOK, Inv, OwnPacksKnown, DataEntries, e
  <2>3. \A c \in BagToSet(completions'[m]) :
          ~IsAnsPack(c.pack) => c.pack \in encoded[m]
    BY <1>4, <1>6 DEF Inv, OwnPacksKnown
  <2> QED BY <2>1, <2>2, <2>3 DEF OwnPacksKnown, StartSend
<1>9. ASSUME NEW m \in Node
      PROVE  PeerPacksKnown(m)'
  <2>1. \A p \in net'[m] : ~IsAnsPack(p) => p \in encoded[Peer[m]]
    BY <1>4, <1>6, NodeAssumption DEF Inv, PeerPacksKnown
  <2> QED BY <2>1 DEF Inv, PeerPacksKnown, StartSend
<1> QED
  BY <1>7, <1>8, <1>9 DEF Inv, EncodedRegular, DeliveredSingle, StartSend

LEMMA HandleSendInv ==
    ASSUME Inv, NEW n \in Node, NEW c, HandleSend(n, c)
    PROVE  Inv'
<1>1. TypeOK  BY DEF Inv
<1>2. \A m \in Node : BagToSet(completions'[m]) \subseteq BagToSet(completions[m])
  BY <1>1, BagRemoveDomain DEF HandleSend, TypeOK
<1>3. /\ send_pending_list' \in [Node -> SUBSET Entries]
      /\ \A m \in Node : \A e \in send_pending_list'[m] :
           \E f \in send_pending_list[m] : e.pack = f.pack
  <2>1. send_pending_list[n] \in SUBSET Entries
    BY <1>1 DEF TypeOK
  <2>2. CASE c.error
    BY <1>1, <2>2 DEF HandleSend, TypeOK
  <2>3. CASE ~c.error /\ IsAnsPack(c.pack)
    BY <1>1, <2>3 DEF HandleSend, TypeOK, Without
  <2>4. CASE ~c.error /\ ~IsAnsPack(c.pack)
    <3> DEFINE new == CountSend(send_pending_list[n], c.pack)
    <3>1. send_pending_list' = [send_pending_list EXCEPT ![n] = new]
      BY <1>1, <2>4 DEF HandleSend, TypeOK
    <3>2. new \in SUBSET Entries /\ \A e \in new : \E f \in send_pending_list[n] : e.pack = f.pack
      BY <2>1, CountSendKeepsPacks
    <3> HIDE DEF new
    <3> QED BY <1>1, <3>1, <3>2 DEF TypeOK
  <2> QED BY <2>2, <2>3, <2>4
<1>4. TypeOK'
  BY <1>1, <1>2, <1>3 DEF TypeOK, HandleSend
<1>5. ASSUME NEW m \in Node
      PROVE  OwnPacksKnown(m)'
  <2>1. ASSUME NEW e \in DataEntries(m)'
        PROVE  e.pack \in encoded[m]
    <3>1. PICK f \in send_pending_list[m] : e.pack = f.pack
      BY <1>3, <2>1 DEF DataEntries
    <3>2. f \in DataEntries(m)
      BY <3>1, <2>1 DEF DataEntries
    <3> QED BY <3>1, <3>2 DEF Inv, OwnPacksKnown
  <2> QED BY <1>2, <2>1 DEF Inv, OwnPacksKnown, HandleSend
<1> QED
  BY <1>4, <1>5
     DEF Inv, EncodedRegular, PeerPacksKnown, DeliveredSingle, HandleSend

LEMMA HandleTimerInv ==
    ASSUME Inv, NEW n \in Node, HandleTimer(n)
    PROVE  Inv'
<1> DEFINE kept == {e \in send_pending_list[n] : ~out_of_resend_count(e)}
<1>1. TypeOK  BY DEF Inv
<1>2. kept \subseteq send_pending_list[n] /\ kept \in SUBSET Entries
  BY <1>1 DEF TypeOK
<1>3. PICK due \in SUBSET kept :
        \E ok \in SUBSET {e.pack : e \in due} : AsyncSend(n, {e.pack : e \in due}, ok)
  BY DEF HandleTimer, should_resend
<1> DEFINE packs == {e.pack : e \in due}
<1>4. /\ packs \in SUBSET Packs
      /\ \A p \in packs : ~IsAnsPack(p) => p \in encoded[n]
  BY <1>2 DEF Entries, Inv, OwnPacksKnown, DataEntries
<1>5. PICK ok \in SUBSET packs : AsyncSend(n, packs, ok)
  BY <1>3
<1>6. send_pending_list' = [send_pending_list EXCEPT ![n] = kept]
  BY DEF HandleTimer
<1> HIDE DEF packs, kept
<1>7. /\ DOMAIN completions' = Node
      /\ \A m \in Node : BagToSet(completions'[m]) \subseteq Completions
      /\ net' \in [Node -> SUBSET Packs]
      /\ \A m \in Node : \A c \in BagToSet(completions'[m]) :
           c \in BagToSet(completions[m]) \/ (m = n /\ c.pack \in packs)
      /\ \A m \in Node : \A p \in net'[m] :
           p \in net[m] \/ (m = Peer[n] /\ p \in packs)
  BY <1>1, <1>4, <1>5, AsyncSendEffect
<1>8. TypeOK'
  BY <1>1, <1>2, <1>6, <1>7 DEF TypeOK, HandleTimer
<1>9. \A m \in Node : OwnPacksKnown(m)'
  BY <1>1, <1>2, <1>4, <1>6, <1>7
     DEF Inv, TypeOK, OwnPacksKnown, DataEntries, HandleTimer
<1>10. \A m \in Node : PeerPacksKnown(m)'
  BY <1>4, <1>7, NodeAssumption DEF Inv, PeerPacksKnown, HandleTimer
<1> QED
  BY <1>8, <1>9, <1>10 DEF Inv, EncodedRegular, DeliveredSingle, HandleTimer

LEMMA PostSendInv ==
    ASSUME Inv, NEW n \in Node, NEW len \in Lengths[n], PostSend(n, len)
    PROVE  Inv'
<1> DEFINE bid == current_id[n]
           packs == EncodeData(bid, len)
<1>1. TypeOK  BY DEF Inv
<1>2. bid \in Nat /\ len \in Nat /\ bid < IdLimit[n]
  BY <1>1, BoundAssumption DEF TypeOK, PostSend
<1>3. Count(len) \in Nat  BY <1>2, CountBounds
<1>4. /\ DOMAIN packs = 1 .. Count(len)
      /\ \A i \in 1 .. Count(len) :
           /\ packs[i] \in DataPacks
           /\ packs[i].bID = bid /\ packs[i].sID = bid + 1
           /\ packs[i].eID = bid + Count(len)
  BY <1>2, EncodeDataTyped, SMTT(20)
<1>5. /\ current_id' = [current_id EXCEPT ![n] = bid + 1]
      /\ encoded' = [encoded EXCEPT ![n] = @ \cup RangeOf(packs)]
  BY DEF PostSend
<1>6. PICK count \in [DOMAIN packs -> InitialCounts] :
        posted' = [posted EXCEPT ![n] =
                     @ \o [i \in DOMAIN packs |-> NewEntry(packs[i], count[i])]]
  BY DEF PostSend
<1> HIDE DEF bid, packs
<1> DEFINE new == [i \in DOMAIN packs |-> NewEntry(packs[i], count[i])]
<1>7. /\ \A i \in 1 .. Count(len) : new[i] \in PostedEntries /\ new[i].pack = packs[i]
      /\ DOMAIN new = 1 .. Count(len)
  BY <1>4, BoundAssumption DEF NewEntry, PostedEntries
<1>8. new \in Seq(PostedEntries) /\ Len(new) = Count(len)
  <2>1. new \in [1 .. Count(len) -> PostedEntries]  BY <1>4, <1>7
  <2> QED BY <1>3, <2>1
<1>9. posted' = [posted EXCEPT ![n] = @ \o new]  BY <1>6
<1> HIDE DEF new
<1>10. posted[n] \in Seq(PostedEntries)  BY <1>1 DEF TypeOK
<1>11. /\ posted[n] \o new \in Seq(PostedEntries)
       /\ \A i \in DOMAIN (posted[n] \o new) :
            \/ i \in DOMAIN posted[n] /\ (posted[n] \o new)[i] = posted[n][i]
            \/ \E j \in 1 .. Count(len) : (posted[n] \o new)[i] = new[j]
  BY <1>3, <1>8, <1>10, ConcatProperties
<1>12. \A p \in RangeOf(packs) : \E i \in 1 .. Count(len) : p = packs[i]
  BY <1>4 DEF RangeOf
<1>13. \A i \in 1 .. Count(len) : packs[i] \in RangeOf(packs)
  BY <1>4 DEF RangeOf
<1>14. TypeOK'
  <2>1. UNCHANGED <<phase, receiving, m_shutdown, send_pending_list, completions,
                    net, recved_uncomplete_list, hung, delivered, recved>>
    BY DEF PostSend
  <2>2. current_id' \in [Node -> Nat]
    BY <1>1, <1>2, <1>5 DEF TypeOK
  <2>3. posted' \in [Node -> Seq(PostedEntries)]
    BY <1>1, <1>9, <1>11 DEF TypeOK
  <2>4. encoded' \in [Node -> SUBSET DataPacks]
    BY <1>1, <1>4, <1>5, <1>12 DEF TypeOK
  <2> QED BY <1>1, <2>1, <2>2, <2>3, <2>4 DEF TypeOK
<1>15. /\ encoded'[n] = encoded[n] \cup RangeOf(packs)
       /\ \A m \in Node : encoded[m] \subseteq encoded'[m]
       /\ \A m \in Node : m # n => /\ encoded'[m] = encoded[m]
                                   /\ current_id'[m] = current_id[m]
       /\ current_id'[n] = bid + 1
  BY <1>1, <1>5 DEF TypeOK
<1>16. ASSUME NEW m \in Node
       PROVE  EncodedRegular(m)'
  <2>1. CASE m # n
    BY <2>1, <1>15 DEF Inv, EncodedRegular
  <2>2. CASE m = n
    <3>1. ASSUME NEW p \in encoded[n]
          PROVE  /\ p.bID < bid /\ p.sID = p.bID + 1
                 /\ FirstId[n] <= p.bID /\ p.bID < IdLimit[n] /\ p.bID \in Nat
      BY <1>1 DEF Inv, EncodedRegular, TypeOK, DataPacks, bid
    <3>2. ASSUME NEW p \in RangeOf(packs)
          PROVE  p.bID = bid /\ p.sID = bid + 1 /\ p.eID = bid + Count(len)
      BY <1>4, <1>12
    <3>3. FirstId[n] <= bid
      BY DEF Inv, EncodedRegular, bid
    <3>4. /\ FirstId[n] \in Nat
          /\ \A p, q \in encoded[n] : p.bID = q.bID => p.eID = q.eID
      BY BoundAssumption DEF Inv, EncodedRegular
    <3>5. ASSUME NEW p \in encoded'[n]
          PROVE  /\ p.sID = p.bID + 1
                 /\ FirstId[n] <= p.bID /\ p.bID < bid + 1 /\ p.bID < IdLimit[n]
      BY <1>2, <1>15, <3>1, <3>2, <3>3, <3>4
    <3>6. ASSUME NEW p \in encoded'[n], NEW q \in encoded'[n], p.bID = q.bID
          PROVE  p.eID = q.eID
      BY <1>2, <1>15, <3>1, <3>2, <3>4, <3>6
    <3>7. FirstId[n] <= bid + 1
      BY <1>2, <3>3, <3>4
    <3> QED BY <1>15, <2>2, <3>5, <3>6, <3>7 DEF EncodedRegular
  <2> QED BY <2>1, <2>2
<1>17. ASSUME NEW m \in Node
       PROVE  OwnPacksKnown(m)'
  <2>1. \A i \in DOMAIN posted'[m] : posted'[m][i].pack \in encoded'[m]
    <3>1. CASE m # n
      BY <1>1, <1>9, <1>15, <3>1 DEF TypeOK, Inv, OwnPacksKnown
    <3>2. CASE m = n
      <4>1. posted'[m] = posted[n] \o new
        BY <1>1, <1>9, <3>2 DEF TypeOK
      <4>2. \A j \in 1 .. Count(len) : new[j].pack \in encoded'[n]
        BY <1>7, <1>13, <1>15
      <4>3. \A i \in DOMAIN posted[n] : posted[n][i].pack \in encoded'[n]
        BY <1>15 DEF Inv, OwnPacksKnown
      <4>4. ASSUME NEW i \in DOMAIN (posted[n] \o new)
            PROVE  (posted[n] \o new)[i].pack \in encoded'[n]
        BY <1>11, <4>2, <4>3
      <4> QED BY <3>2, <4>1, <4>4
    <3> QED BY <3>1, <3>2
  <2>2. /\ \A e \in DataEntries(m)' : e.pack \in encoded'[m]
        /\ \A c \in BagToSet(completions'[m]) : ~IsAnsPack(c.pack) => c.pack \in encoded'[m]
    BY <1>15 DEF PostSend, DataEntries, Inv, OwnPacksKnown
  <2> QED BY <2>1, <2>2 DEF OwnPacksKnown
<1>18. \A m \in Node : PeerPacksKnown(m)' /\ DeliveredSingle(m)'
  BY <1>15, NodeAssumption DEF PostSend, Inv, PeerPacksKnown, DeliveredSingle
<1> QED BY <1>14, <1>16, <1>17, <1>18 DEF Inv

\* A datagram that carries an ans pack.
LEMMA RecvAnsInv ==
    ASSUME Inv, NEW n \in Node, NEW p \in net[n], HandleRecv(n, p), IsAnsPack(p)
    PROVE  Inv'
<1>1. TypeOK  BY DEF Inv
<1>2. RecvAns(n, p)  BY DEF HandleRecv
<1>3. /\ send_pending_list' \in [Node -> SUBSET Entries]
      /\ \A m \in Node : send_pending_list'[m] \subseteq send_pending_list[m]
  BY <1>1, <1>2 DEF RecvAns, Without, TypeOK
<1>4. UNCHANGED <<current_id, phase, receiving, m_shutdown, posted, completions,
                  net, recved_uncomplete_list, hung, delivered, encoded, recved>>
  BY <1>2 DEF HandleRecv, RecvAns
<1>5. TypeOK'
  BY <1>1, <1>3, <1>4 DEF TypeOK
<1> QED
  BY <1>3, <1>4, <1>5
     DEF Inv, EncodedRegular, OwnPacksKnown, PeerPacksKnown, DeliveredSingle, DataEntries

\* A datagram that carries a data pack.
LEMMA RecvDataInv ==
    ASSUME Inv, NEW n \in Node, NEW p \in net[n], HandleRecv(n, p), ~IsAnsPack(p)
    PROVE  Inv'
<1> DEFINE list == recved_uncomplete_list[n]
           ans == EncodeAnsPack(GetId(p))
<1>1. TypeOK  BY DEF Inv
<1>2. RecvData(n, p)  BY DEF HandleRecv
<1>3. UNCHANGED <<current_id, phase, receiving, m_shutdown, posted, encoded>>
  BY DEF HandleRecv
<1>4. p \in DataPacks /\ p \in encoded[Peer[n]]
  BY <1>1, PackKinds DEF TypeOK, Inv, PeerPacksKnown
<1>5. Peer[n] \in Node /\ Peer[n] # n /\ Peer[Peer[n]] = n
  BY NodeAssumption
<1>6. p.sID = p.bID + 1 /\ p.sID \in Nat
  BY <1>4, <1>5 DEF Inv, EncodedRegular, DataPacks
<1>7. GetId(p) = p.sID /\ Body(p) \in Bodies
  BY <1>4, DataAccessors
<1>8. ans \in Packs /\ IsAnsPack(ans)
  BY <1>6, <1>7, PackKinds
<1>9. /\ list \in Seq(DataPacks)
      /\ \A i \in DOMAIN list : list[i].sID = list[i].bID + 1
  BY <1>1, <1>5 DEF TypeOK, Inv, PeerPacksKnown, EncodedRegular
<1>10. IsSmallPack(p) =>
         ~R!Completes(list, p) /\ R!ListAfter(list, p) \in {list, Append(list, p)}
  BY <1>4, <1>6, <1>9, PiecesNeverComplete
<1> DEFINE newList == IF IsSmallPack(p) THEN R!ListAfter(list, p) ELSE list
<1>11. newList \in {list, Append(list, p)}
  BY <1>10
<1>12. recved_uncomplete_list' = [recved_uncomplete_list EXCEPT ![n] = newList]
  BY <1>1, <1>2 DEF RecvData, TypeOK
<1> DEFINE newDelivered == IF ~IsSmallPack(p) THEN delivered[n] \cup {<<Body(p)>>}
                           ELSE delivered[n]
<1>13. delivered' = [delivered EXCEPT ![n] = newDelivered]
  BY <1>1, <1>2, <1>10 DEF RecvData, TypeOK
<1>14. recved' = [recved EXCEPT ![n] = @ \cup {p}]
  BY <1>2 DEF RecvData
<1>15. hung' \in [Node -> BOOLEAN]
  <2> DEFINE h == IsSmallPack(p) /\ R!Hangs(list, p)
  <2>1. h \in BOOLEAN  OBVIOUS
  <2>2. hung' = [hung EXCEPT ![n] = h]  BY <1>2 DEF RecvData
  <2> HIDE DEF h
  <2> QED BY <1>1, <2>1, <2>2 DEF TypeOK
<1>16. PICK count \in InitialCounts, ok \in SUBSET {ans} :
         /\ send_pending_list' =
              [send_pending_list EXCEPT ![n] = @ \cup {NewEntry(ans, count)}]
         /\ AsyncSend(n, {ans}, ok)
  BY <1>2 DEF RecvData
<1> HIDE DEF ans, newList, newDelivered, list
<1>17. /\ DOMAIN completions' = Node
       /\ \A m \in Node : BagToSet(completions'[m]) \subseteq Completions
       /\ net' \in [Node -> SUBSET Packs]
       /\ \A m \in Node : \A c \in BagToSet(completions'[m]) :
            c \in BagToSet(completions[m]) \/ IsAnsPack(c.pack)
       /\ \A m \in Node : \A q \in net'[m] : q \in net[m] \/ IsAnsPack(q)
  <2> DEFINE packs == {ans}
  <2>1. packs \in SUBSET Packs /\ ok \in SUBSET packs /\ AsyncSend(n, packs, ok)
    BY <1>8, <1>16
  <2>2. \A q \in packs : IsAnsPack(q)  BY <1>8
  <2> HIDE DEF packs
  <2> QED BY <1>1, <2>1, <2>2, AsyncSendEffect
<1> DEFINE e == NewEntry(ans, count)
<1>18. e \in Entries /\ e.pack = ans
  BY <1>8, BoundAssumption DEF NewEntry, Entries
<1>19. send_pending_list' = [send_pending_list EXCEPT ![n] = @ \cup {e}]
  BY <1>16
<1> HIDE DEF e
<1>20. send_pending_list' \in [Node -> SUBSET Entries]
  BY <1>1, <1>18, <1>19 DEF TypeOK
<1>21. newDelivered \in SUBSET Seq(Bodies)
  <2> DEFINE d == <<Body(p)>>
  <2>1. d \in Seq(Bodies)  BY <1>7
  <2>2. delivered[n] \in SUBSET Seq(Bodies)  BY <1>1 DEF TypeOK
  <2> HIDE DEF d
  <2>3. delivered[n] \cup {d} \in SUBSET Seq(Bodies)  BY <2>1, <2>2
  <2> QED BY <2>2, <2>3 DEF newDelivered, d
<1>22. Append(list, p) \in Seq(DataPacks)
  BY <1>4, <1>9 DEF list
<1>23. TypeOK'
  <2>1. delivered' \in [Node -> SUBSET Seq(Bodies)]
    BY <1>1, <1>13, <1>21 DEF TypeOK
  <2>2. recved_uncomplete_list' \in [Node -> Seq(DataPacks)]
    BY <1>1, <1>9, <1>11, <1>12, <1>22 DEF TypeOK, list
  <2>3. recved' \in [Node -> SUBSET DataPacks]
    BY <1>1, <1>4, <1>14 DEF TypeOK
  <2> QED BY <1>1, <1>3, <1>15, <1>17, <1>20, <2>1, <2>2, <2>3 DEF TypeOK
<1>24. ASSUME NEW m \in Node
       PROVE  OwnPacksKnown(m)'
  <2>1. \A f \in DataEntries(m)' : f \in DataEntries(m)
    BY <1>1, <1>8, <1>18, <1>19 DEF DataEntries, TypeOK
  <2> QED BY <1>3, <1>17, <2>1 DEF Inv, OwnPacksKnown
<1>25. ASSUME NEW m \in Node
       PROVE  PeerPacksKnown(m)'
  <2>1. \A q \in net'[m] : ~IsAnsPack(q) => q \in encoded[Peer[m]]
    BY <1>17 DEF Inv, PeerPacksKnown
  <2>2. recved'[m] \subseteq encoded[Peer[m]]
    BY <1>1, <1>4, <1>14 DEF TypeOK, Inv, PeerPacksKnown
  <2>3. \A i \in DOMAIN recved_uncomplete_list'[m] :
          recved_uncomplete_list'[m][i] \in encoded[Peer[m]]
    <3>1. CASE m # n
      BY <1>1, <1>12, <3>1 DEF TypeOK, Inv, PeerPacksKnown
    <3>2. CASE m = n
      <4>1. recved_uncomplete_list'[m] = newList
        BY <1>1, <1>12, <3>2 DEF TypeOK
      <4>2. \A i \in DOMAIN list : list[i] \in encoded[Peer[n]]
        BY DEF list, Inv, PeerPacksKnown
      <4>3. \A i \in DOMAIN Append(list, p) : Append(list, p)[i] \in encoded[Peer[n]]
        BY <1>4, <1>9, <4>2 DEF list
      <4> QED BY <1>11, <3>2, <4>1, <4>2, <4>3
    <3> QED BY <3>1, <3>2
  <2> QED BY <1>3, <2>1, <2>2, <2>3 DEF PeerPacksKnown
<1>26. ASSUME NEW m \in Node
       PROVE  DeliveredSingle(m)'
  <2>1. ASSUME NEW d \in delivered'[m]
        PROVE  \E q \in encoded[Peer[m]] : ~IsSmallPack(q) /\ d = <<Body(q)>>
    <3>1. CASE d \in delivered[m]
      BY <3>1 DEF Inv, DeliveredSingle
    <3>2. CASE d \notin delivered[m]
      <4>1. m = n /\ ~IsSmallPack(p) /\ d = <<Body(p)>>
        BY <1>1, <1>13, <2>1, <3>2 DEF TypeOK, newDelivered
      <4> QED BY <1>4, <4>1
    <3> QED BY <3>1, <3>2
  <2> QED BY <1>3, <2>1 DEF DeliveredSingle
<1>27. \A m \in Node : EncodedRegular(m)'
  BY <1>3 DEF Inv, EncodedRegular
<1> QED BY <1>23, <1>24, <1>25, <1>26, <1>27 DEF Inv

LEMMA NextInv == Inv /\ [Next]_vars => Inv'
<1> SUFFICES ASSUME Inv, [Next]_vars PROVE Inv'
  OBVIOUS
<1>1. CASE UNCHANGED vars
  BY <1>1 DEF vars, Inv, TypeOK, EncodedRegular, OwnPacksKnown, PeerPacksKnown,
              DeliveredSingle, DataEntries
<1>2. CASE Next
  <2>1. PICK n \in Node :
          \/ Open(n) \/ Stop(n) \/ Close(n) \/ HandleOpen(n) \/ HandleClose(n)
          \/ HandleRecvStopped(n)
          \/ \E len \in Lengths[n] : PostSend(n, len)
          \/ StartSend(n)
          \/ \E c \in BagToSet(completions[n]) : HandleSend(n, c)
          \/ \E p \in net[n] : HandleRecv(n, p)
          \/ HandleTimer(n)
    BY <1>2 DEF Next
  <2>2. CASE \E len \in Lengths[n] : PostSend(n, len)
    BY <2>2, PostSendInv
  <2>3. CASE StartSend(n)
    BY <2>3, StartSendInv
  <2>4. CASE \E c \in BagToSet(completions[n]) : HandleSend(n, c)
    BY <2>4, HandleSendInv
  <2>5. CASE \E p \in net[n] : HandleRecv(n, p)
    BY <2>5, RecvAnsInv, RecvDataInv
  <2>6. CASE HandleTimer(n)
    BY <2>6, HandleTimerInv
  <2> QED BY <2>1, <2>2, <2>3, <2>4, <2>5, <2>6, QuietInv
<1> QED BY <1>1, <1>2

LEMMA SpecInv == Spec => []Inv
BY InitInv, NextInv, PTL DEF Spec

-----------------------------------------------------------------------------
(***************************************************************************)
(* What holds of every connection.                                         *)
(***************************************************************************)
\* Every variable keeps its type; in particular the two lists and the packs on
\* the way hold only packs that EncodeData and EncodeAnsPack can make.
THEOREM TypeCorrect == Spec => []TypeOK
<1>1. Inv => TypeOK  BY DEF Inv
<1> QED BY <1>1, SpecInv, PTL

\* Since all pieces of a message have the same GetId, RegroupPack never finds
\* a message complete: whatever is delivered is a message of one pack.
THEOREM SinglePacksOnly == Spec => []OnlySinglePacksDelivered
<1>1. Inv => OnlySinglePacksDelivered
  <2> SUFFICES ASSUME Inv, NEW n \in Node, NEW d \in delivered[n],
                      NEW q \in MessageOf(Peer[n], d[1].of)
               PROVE  ~IsSmallPack(q)
    BY DEF OnlySinglePacksDelivered
  <2>1. PICK p \in encoded[Peer[n]] : ~IsSmallPack(p) /\ d = <<Body(p)>>
    BY DEF Inv, DeliveredSingle
  <2>2. d[1].of = p.bID
    BY <2>1 DEF Body
  <2>3. Peer[n] \in Node /\ q \in encoded[Peer[n]] /\ q.bID = p.bID
    BY <2>2, NodeAssumption DEF MessageOf
  <2>4. q \in DataPacks /\ p \in DataPacks
    BY <2>1, <2>3 DEF Inv, TypeOK
  <2>5. q.eID = p.eID /\ q.sID = p.sID
    BY <2>1, <2>3 DEF Inv, EncodedRegular
  <2> QED BY <2>1, <2>4, <2>5, DataAccessors
<1> QED BY <1>1, SpecInv, PTL

\* Two pieces of one message never are in the reassembly list together, and
\* the messages in it are in the order of their ids.
THEOREM OrderedUncompleted == Spec => []UncompletedOrdered
<1>1. Init => UncompletedOrdered
  BY DEF Init, UncompletedOrdered
<1>2. Inv /\ UncompletedOrdered /\ [Next]_vars => UncompletedOrdered'
  <2> SUFFICES ASSUME Inv, UncompletedOrdered, [Next]_vars
               PROVE  UncompletedOrdered'
    OBVIOUS
  <2>1. CASE UNCHANGED recved_uncomplete_list
    BY <2>1 DEF UncompletedOrdered
  <2>2. ASSUME NEW n \in Node, NEW p \in net[n], HandleRecv(n, p), ~IsAnsPack(p)
        PROVE  UncompletedOrdered'
    <3> DEFINE list == recved_uncomplete_list[n]
               newList == IF IsSmallPack(p) THEN R!ListAfter(list, p) ELSE list
    <3>1. TypeOK  BY DEF Inv
    <3>2. p \in DataPacks /\ list \in Seq(DataPacks)
      BY <3>1, <2>2, PackKinds DEF TypeOK
    <3>3. /\ p.sID = p.bID + 1
          /\ \A i \in DOMAIN list : list[i].sID = list[i].bID + 1
      BY <2>2, NodeAssumption DEF Inv, PeerPacksKnown, EncodedRegular
    <3>4. recved_uncomplete_list' = [recved_uncomplete_list EXCEPT ![n] = newList]
      BY <2>2, <3>1 DEF HandleRecv, RecvData, TypeOK
    <3>5. \A i, j \in DOMAIN list : i < j => GetBigId(list[i]) < GetBigId(list[j])
      BY DEF UncompletedOrdered
    <3>6. ASSUME IsSmallPack(p), R!Appends(list, p), NEW i \in DOMAIN list
          PROVE  GetBigId(list[i]) < GetBigId(p)
      <4>1. list[i] \in DataPacks  BY <3>2
      <4>2. /\ GetBigId(list[i]) = list[i].bID /\ GetBigId(p) = p.bID
            /\ GetId(list[i]) = list[i].bID + 1 /\ GetId(p) = p.bID + 1
            /\ list[i].bID \in Nat /\ p.bID \in Nat
        BY <3>2, <3>3, <4>1, DataAccessors DEF DataPacks
      <4>3. i \notin R!Obstacles(list, p)
        BY <3>6 DEF R!Appends
      <4>4. ~(GetBigId(list[i]) > GetBigId(p))
        BY <4>3 DEF R!Obstacles
      <4>5. ~(GetBigId(list[i]) = GetBigId(p) /\ GetId(list[i]) >= GetId(p))
        BY <4>3 DEF R!Obstacles
      <4> QED BY <4>2, <4>4, <4>5
    <3>7. newList = list \/ (IsSmallPack(p) /\ R!Appends(list, p) /\ newList = Append(list, p))
      <4>1. IsSmallPack(p) => ~R!Completes(list, p)
        BY <3>2, <3>3, PiecesNeverComplete
      <4> QED BY <4>1 DEF R!ListAfter
    <3> HIDE DEF list, newList
    <3>8. \A i, j \in DOMAIN newList : i < j => GetBigId(newList[i]) < GetBigId(newList[j])
      <4>1. CASE newList = list
        BY <3>5, <4>1
      <4>2. CASE IsSmallPack(p) /\ R!Appends(list, p) /\ newList = Append(list, p)
        BY <3>2, <3>5, <3>6, <4>2
      <4> QED BY <3>7, <4>1, <4>2
    <3>9. \A m \in Node : recved_uncomplete_list'[m] = IF m = n THEN newList
                                                       ELSE recved_uncomplete_list[m]
      BY <3>1, <3>4 DEF TypeOK
    <3> QED BY <3>8, <3>9 DEF UncompletedOrdered
  <2>3. CASE \E n \in Node : \E p \in net[n] : HandleRecv(n, p) /\ IsAnsPack(p)
    BY <2>1, <2>3, SMTT(20) DEF HandleRecv, RecvAns
  <2>4. CASE Next /\ ~(\E n \in Node : \E p \in net[n] : HandleRecv(n, p))
    BY <2>1, <2>4 DEF Next, Open, PostSend, Stop, Close, HandleOpen, HandleClose,
                      StartSend, HandleSend, HandleRecvStopped, HandleTimer
  <2>5. CASE UNCHANGED vars
    BY <2>1, <2>5 DEF vars
  <2> QED BY <2>2, <2>3, <2>4, <2>5
<1> QED BY <1>1, <1>2, SpecInv, PTL DEF Spec

-----------------------------------------------------------------------------
(***************************************************************************)
(* What is delivered is the whole message.                                 *)
(***************************************************************************)
\* A pack that is not a small one is all of its message, from the first byte.
LonePacks(n) ==
    \A p \in encoded[n] :
        ~IsSmallPack(p) => p.Data = 0 /\ \A q \in encoded[n] : p.bID = q.bID => p = q

LEMMA LonePacksNext ==
    ASSUME Inv, \A n \in Node : LonePacks(n), [Next]_vars, NEW m \in Node
    PROVE  LonePacks(m)'
<1>1. TypeOK  BY DEF Inv
<1>2. CASE UNCHANGED encoded
  BY <1>2 DEF LonePacks
<1>3. ASSUME NEW n \in Node, NEW len \in Lengths[n], PostSend(n, len)
      PROVE  LonePacks(m)'
  <2> DEFINE bid == current_id[n]
             packs == EncodeData(bid, len)
  <2>0. bid \in Nat /\ len \in Nat
    BY <1>1, BoundAssumption DEF TypeOK
  <2>1. bid \in Nat /\ len \in Nat /\ Count(len) \in Nat
    BY <2>0, CountBounds
  <2>2. /\ DOMAIN packs = 1 .. Count(len)
        /\ \A i \in 1 .. Count(len) :
             /\ packs[i] \in DataPacks /\ packs[i].bID = bid
             /\ packs[i].sID = bid + 1 /\ packs[i].eID = bid + Count(len)
    BY <2>0, EncodeDataTyped, ZenonT(30)
  <2>3. \A i \in 1 .. Count(len) : packs[i].Data = Offset(i)
    BY DEF EncodeData
  <2>4. Offset(1) = 0
    BY PackAssumption DEF Offset
  <2>5. encoded' = [encoded EXCEPT ![n] = @ \cup RangeOf(packs)]
    BY <1>3 DEF PostSend
  <2>6. \A p \in encoded[n] : p.bID < bid /\ p.bID \in Nat
    BY <1>1 DEF Inv, EncodedRegular, TypeOK, DataPacks
  <2> HIDE DEF bid, packs
  <2>7. \A p \in RangeOf(packs) : p.bID = bid
    BY <2>2 DEF RangeOf
  <2>8. ASSUME NEW p \in RangeOf(packs), ~IsSmallPack(p)
        PROVE  p.Data = 0 /\ \A q \in RangeOf(packs) : p = q
    <3>1. PICK i \in 1 .. Count(len) : p = packs[i]
      BY <2>2 DEF RangeOf
    <3>2. ~(p.sID < p.eID)
      BY <2>2, <2>8, <3>1, DataAccessors
    <3>3. Count(len) = 1 /\ i = 1
      BY <2>1, <2>2, <3>1, <3>2
    <3> QED BY <2>2, <2>3, <2>4, <3>1, <3>3 DEF RangeOf
  <2>9. \A k \in Node : encoded'[k] = IF k = n THEN encoded[n] \cup RangeOf(packs)
                                      ELSE encoded[k]
    BY <1>1, <2>5 DEF TypeOK
  <2>10. ASSUME NEW p \in encoded'[m], ~IsSmallPack(p)
         PROVE  p.Data = 0 /\ \A q \in encoded'[m] : p.bID = q.bID => p = q
    <3>1. CASE p \in encoded[m]
      BY <2>1, <2>6, <2>7, <2>9, <2>10, <3>1 DEF LonePacks
    <3>2. CASE p \notin encoded[m]
      <4>1. m = n /\ p \in RangeOf(packs)
        BY <2>9, <2>10, <3>2
      <4> QED BY <2>1, <2>6, <2>7, <2>8, <2>9, <2>10, <4>1
    <3> QED BY <3>1, <3>2
  <2> QED BY <2>10 DEF LonePacks
<1>4. CASE UNCHANGED vars
  BY <1>2, <1>4 DEF vars
<1>5. CASE Next
  <2>1. CASE \E n \in Node : \E len \in Lengths[n] : PostSend(n, len)
    BY <1>3, <2>1
  <2>2. CASE ~(\E n \in Node : \E len \in Lengths[n] : PostSend(n, len))
    BY <1>2, <1>5, <2>2
       DEF Next, Open, Stop, Close, HandleOpen, HandleClose, StartSend, HandleSend,
           HandleRecv, HandleRecvStopped, HandleTimer
  <2> QED BY <2>1, <2>2
<1> QED BY <1>4, <1>5

\* Whatever is lost, repeated or reordered, data_callback_ is given messages
\* that the peer has posted, each of them whole and nothing else with it.
THEOREM DeliversWhole == Spec => []DeliveredWhole
<1>1. Init => \A n \in Node : LonePacks(n)
  BY DEF Init, LonePacks
<1>2. Inv /\ (\A n \in Node : LonePacks(n)) /\ [Next]_vars
        => (\A n \in Node : LonePacks(n))'
  BY LonePacksNext
<1>3. Inv /\ (\A n \in Node : LonePacks(n)) => DeliveredWhole
  <2> SUFFICES ASSUME Inv, \A n \in Node : LonePacks(n),
                      NEW n \in Node, NEW d \in delivered[n]
               PROVE  /\ RangeOf(d) = {Body(p) : p \in MessageOf(Peer[n], d[1].of)}
                      /\ d[1].from = 0
                      /\ \A i \in 1 .. Len(d) - 1 :
                           d[i].from + d[i].size = d[i + 1].from
    BY DEF DeliveredWhole
  <2>1. PICK p \in encoded[Peer[n]] : ~IsSmallPack(p) /\ d = <<Body(p)>>
    BY DEF Inv, DeliveredSingle
  <2>2. d[1] = Body(p) /\ Len(d) = 1 /\ RangeOf(d) = {Body(p)}
    BY <2>1 DEF RangeOf
  <2>3. d[1].of = p.bID /\ d[1].from = p.Data
    BY <2>2 DEF Body
  <2>4. p.Data = 0 /\ MessageOf(Peer[n], p.bID) = {p}
    BY <2>1, NodeAssumption DEF LonePacks, MessageOf
  <2> QED BY <2>2, <2>3, <2>4
<1> QED BY <1>1, <1>2, <1>3, SpecInv, PTL DEF Spec

-----------------------------------------------------------------------------
(***************************************************************************)
(* A message that PostSend has numbered, and none of whose packs waits to  *)
(* be sent or answered any more, is settled for good.                      *)
(***************************************************************************)
Settled(n, bid) == bid < current_id[n] /\ ~Unsettled(n, bid)

LEMMA SettledPostSend ==
    ASSUME Inv, NEW n \in Node, NEW len \in Lengths[n], PostSend(n, len),
           NEW m \in Node, NEW bid \in Nat, Settled(m, bid)
    PROVE  Settled(m, bid)'
<1> DEFINE id == current_id[n]
           packs == EncodeData(id, len)
<1>1. TypeOK  BY DEF Inv
<1>2. id \in Nat /\ current_id[m] \in Nat /\ len \in Nat
  BY <1>1, BoundAssumption DEF TypeOK
<1>3. /\ DOMAIN packs = 1 .. Count(len)
      /\ \A i \in 1 .. Count(len) :
           packs[i] \in DataPacks /\ packs[i].bID = id
  <2> HIDE DEF id
  <2>1. id \in Nat /\ len \in Nat  BY <1>2
  <2> QED BY ONLY <2>1, EncodeDataTyped, SMTT(20)
<1>4. Count(len) \in Nat  BY <1>2, CountBounds
<1>5. PICK count \in [DOMAIN packs -> InitialCounts] :
        posted' = [posted EXCEPT ![n] =
                     @ \o [i \in DOMAIN packs |-> NewEntry(packs[i], count[i])]]
  BY DEF PostSend
<1>6. send_pending_list' = send_pending_list
      /\ current_id' = [current_id EXCEPT ![n] = @ + 1]
  BY DEF PostSend
<1> HIDE DEF id, packs
<1> DEFINE new == [i \in DOMAIN packs |-> NewEntry(packs[i], count[i])]
<1>7. /\ \A i \in 1 .. Count(len) : new[i] \in PostedEntries /\ new[i].pack = packs[i]
      /\ DOMAIN new = 1 .. Count(len)
  BY <1>3, BoundAssumption DEF NewEntry, PostedEntries
<1>8. new \in Seq(PostedEntries) /\ Len(new) = Count(len)
  <2>1. new \in [1 .. Count(len) -> PostedEntries]  BY <1>3, <1>7
  <2> QED BY <1>4, <2>1
<1>9. posted' = [posted EXCEPT ![n] = @ \o new]  BY <1>5
<1> HIDE DEF new
<1>10. bid < current_id'[m]
  BY <1>1, <1>2, <1>6 DEF Settled, TypeOK
<1>11. ASSUME NEW i \in DOMAIN posted'[m]
       PROVE  ~IsMessage(posted'[m][i].pack, bid)
  <2>1. CASE m # n
    BY <1>1, <1>9, <1>11, <2>1 DEF TypeOK, Settled, Unsettled
  <2>2. CASE m = n
    <3>1. posted'[m] = posted[n] \o new /\ posted[n] \in Seq(PostedEntries)
      BY <1>1, <1>9, <2>2 DEF TypeOK
    <3>2. \/ i \in DOMAIN posted[n] /\ posted'[m][i] = posted[n][i]
          \/ \E j \in 1 .. Count(len) : posted'[m][i] = new[j]
      <4> DEFINE old == posted[n]
                 both == old \o new
                 k == Len(old)
      <4>1. old \in Seq(PostedEntries) /\ k \in Nat /\ DOMAIN old = 1 .. k
        BY <3>1
      <4> HIDE DEF old
      <4>2. /\ both \in Seq(PostedEntries) /\ Len(both) = k + Count(len)
            /\ \A j \in 1 .. k + Count(len) :
                 both[j] = IF j <= k THEN old[j] ELSE new[j - k]
        BY <1>8, <4>1, ConcatProperties
      <4>3. posted'[m] = both
        BY <3>1 DEF old
      <4> HIDE DEF both, k
      <4>4. i \in 1 .. k + Count(len)
        BY <1>11, <4>2, <4>3
      <4>5. i \in 1 .. k \/ (i - k \in 1 .. Count(len) /\ ~(i <= k))
        <5> DEFINE c == Count(len)
        <5>1. k \in Nat /\ c \in Nat /\ i \in 1 .. k + c
          BY <1>4, <4>1, <4>4
        <5> HIDE DEF c
        <5>2. i \in Int /\ 1 <= i /\ i <= k + c
          BY ONLY <5>1
        <5>3. i <= k => i \in 1 .. k
          BY ONLY <5>1, <5>2
        <5>4. ~(i <= k) => i - k \in 1 .. c
          BY ONLY <5>1, <5>2
        <5> QED BY <5>3, <5>4 DEF c
      <4>6. CASE i \in 1 .. k
        <5>1. i <= k
          BY ONLY <4>1, <4>6
        <5>2. posted'[m][i] = old[i]
          BY <4>2, <4>3, <4>4, <5>1
        <5> QED BY <4>1, <4>6, <5>2 DEF old
      <4>7. CASE i - k \in 1 .. Count(len) /\ ~(i <= k)
        BY <4>2, <4>3, <4>4, <4>7
      <4> QED BY <4>5, <4>6, <4>7
    <3>3. bid # id
      BY <1>2, <2>2 DEF Settled, id
    <3>4. CASE i \in DOMAIN posted[n] /\ posted'[m][i] = posted[n][i]
      <4>1. ~IsMessage(posted[m][i].pack, bid)
        BY <2>2, <3>4 DEF Settled, Unsettled
      <4> QED BY <2>2, <3>4, <4>1
    <3>5. ASSUME NEW j \in 1 .. Count(len), posted'[m][i] = new[j]
          PROVE  ~IsMessage(posted'[m][i].pack, bid)
      BY <1>3, <1>7, <3>3, <3>5 DEF IsMessage
    <3> QED BY <3>2, <3>4, <3>5
  <2> QED BY <2>1, <2>2
<1> QED BY <1>6, <1>10, <1>11 DEF Settled, Unsettled

LEMMA SettledNext ==
    ASSUME Inv, [Next]_vars, NEW m \in Node, NEW bid \in Nat, Settled(m, bid)
    PROVE  Settled(m, bid)'
<1>1. TypeOK  BY DEF Inv
\* What is enough when no message is numbered.
<1>2. ASSUME current_id' = current_id,
             \A i \in DOMAIN posted'[m] : \E j \in DOMAIN posted[m] :
                posted'[m][i] = posted[m][j],
             \A e \in send_pending_list'[m] :
                \/ IsAnsPack(e.pack)
                \/ \E f \in send_pending_list[m] : e.pack = f.pack
                \/ \E j \in DOMAIN posted[m] : e = posted[m][j]
      PROVE  Settled(m, bid)'
  BY <1>2 DEF Settled, Unsettled, IsMessage
<1>3. CASE UNCHANGED vars
  BY <1>2, <1>3 DEF vars
<1>4. ASSUME NEW n \in Node,
             \/ Open(n) \/ Stop(n) \/ Close(n) \/ HandleOpen(n) \/ HandleClose(n)
             \/ HandleRecvStopped(n)
      PROVE  Settled(m, bid)'
  BY <1>2, <1>4 DEF Open, Stop, Close, HandleOpen, HandleClose, HandleRecvStopped
<1>5. ASSUME NEW n \in Node, StartSend(n)
      PROVE  Settled(m, bid)'
  <2>1. /\ posted[n] # <<>> /\ posted[n] \in Seq(PostedEntries)
        /\ posted' = [posted EXCEPT ![n] = Tail(@)]
        /\ send_pending_list' = [send_pending_list EXCEPT ![n] = @ \cup {Head(posted[n])}]
        /\ current_id' = current_id
    BY <1>1, <1>5 DEF StartSend, TypeOK
  <2>2. /\ 1 \in DOMAIN posted[n] /\ Head(posted[n]) = posted[n][1]
        /\ \A i \in DOMAIN Tail(posted[n]) :
             i + 1 \in DOMAIN posted[n] /\ Tail(posted[n])[i] = posted[n][i + 1]
    BY <2>1
  <2>3. ASSUME NEW i \in DOMAIN posted'[m]
        PROVE  \E j \in DOMAIN posted[m] : posted'[m][i] = posted[m][j]
    BY <1>1, <2>1, <2>2, <2>3 DEF TypeOK
  <2>4. ASSUME NEW e \in send_pending_list'[m]
        PROVE  \/ \E f \in send_pending_list[m] : e.pack = f.pack
               \/ \E j \in DOMAIN posted[m] : e = posted[m][j]
    BY <1>1, <2>1, <2>2, <2>4 DEF TypeOK
  <2> QED BY <1>2, <2>1, <2>3, <2>4
<1>6. ASSUME NEW n \in Node, NEW c \in BagToSet(completions[n]), HandleSend(n, c)
      PROVE  Settled(m, bid)'
  <2>1. posted' = posted /\ current_id' = current_id
    BY <1>6 DEF HandleSend
  <2>2. ASSUME NEW e \in send_pending_list'[m]
        PROVE  \E f \in send_pending_list[m] : e.pack = f.pack
    <3>1. CASE m = n /\ ~c.error /\ ~IsAnsPack(c.pack)
      <4>1. e \in CountSend(send_pending_list[n], c.pack)
        BY <1>1, <1>6, <2>2, <3>1 DEF HandleSend, TypeOK
      <4>2. PICK f \in send_pending_list[n] :
              e = IF f.pack = c.pack THEN SendSuccessOnce(f) ELSE f
        BY <4>1 DEF CountSend
      <4>3. SendSuccessOnce(f).pack = f.pack
        BY DEF SendSuccessOnce
      <4> QED BY <3>1, <4>2, <4>3
    <3>2. CASE ~(m = n /\ ~c.error /\ ~IsAnsPack(c.pack))
      <4>1. send_pending_list'[m] \subseteq send_pending_list[m]
        BY <1>1, <1>6, <3>2 DEF HandleSend, Without, TypeOK
      <4> QED BY <2>2, <4>1
    <3> QED BY <3>1, <3>2
  <2> QED BY <1>2, <2>1, <2>2
<1>7. ASSUME NEW n \in Node, NEW p \in net[n], HandleRecv(n, p)
      PROVE  Settled(m, bid)'
  <2>1. posted' = posted /\ current_id' = current_id
    BY <1>7 DEF HandleRecv
  <2>2. ASSUME NEW e \in send_pending_list'[m]
        PROVE  \/ IsAnsPack(e.pack)
               \/ \E f \in send_pending_list[m] : e.pack = f.pack
    <3>1. CASE IsAnsPack(p)
      <4>1. send_pending_list' =
              [send_pending_list EXCEPT ![n] = Without(@, p)]
        BY <1>7, <3>1 DEF HandleRecv, RecvAns
      <4>2. send_pending_list'[m] \subseteq send_pending_list[m]
        BY <1>1, <4>1 DEF Without, TypeOK
      <4> QED BY <2>2, <4>2
    <3>2. CASE ~IsAnsPack(p)
      <4>1. PICK count \in InitialCounts :
              send_pending_list' =
                [send_pending_list EXCEPT ![n] =
                   @ \cup {NewEntry(EncodeAnsPack(GetId(p)), count)}]
        BY <1>7, <3>2 DEF HandleRecv, RecvData
      <4>2. IsAnsPack(NewEntry(EncodeAnsPack(GetId(p)), count).pack)
        BY DEF NewEntry, EncodeAnsPack, IsAnsPack
      <4> QED BY <1>1, <2>2, <4>1, <4>2 DEF TypeOK
    <3> QED BY <3>1, <3>2
  <2> QED BY <1>2, <2>1, <2>2
<1>8. ASSUME NEW n \in Node, HandleTimer(n)
      PROVE  Settled(m, bid)'
  <2>1. posted' = posted /\ current_id' = current_id
    BY <1>8 DEF HandleTimer
  <2>2. send_pending_list'[m] \subseteq send_pending_list[m]
    BY <1>1, <1>8 DEF HandleTimer, TypeOK
  <2> QED BY <1>2, <2>1, <2>2
<1> QED
  BY <1>3, <1>4, <1>5, <1>6, <1>7, <1>8, SettledPostSend DEF Next

\* What EveryMessageSettles reaches is final: a message given up or answered
\* is not put into the send list again, by no resend, no late answer, no
\* completion and, as numbers do not wrap here, no message of the same number.
THEOREM SettledForGood ==
    ASSUME NEW n \in Node, NEW bid \in Nat
    PROVE  Spec => [](Settled(n, bid) => []Settled(n, bid))
<1>1. Inv /\ Settled(n, bid) /\ [Next]_vars => Settled(n, bid)'
  BY SettledNext
<1> QED BY <1>1, SpecInv, PTL DEF Spec
=============================================================================
