----------------------------- MODULE MediaProofs -----------------------------
(***************************************************************************)
(* Theorems of ConnectionUDPMedia, for streams of any frames.              *)
(***************************************************************************)
EXTENDS ConnectionUDPMedia, FiniteSetTheorems, SequenceTheorems,
        WellFoundedInduction, TLAPS

\* A non-empty set of natural numbers has a minimum.
LEMMA MinIsIn ==
    ASSUME NEW S \in SUBSET Nat, S # {}
    PROVE  R!Min(S) \in S /\ \A y \in S : R!Min(S) <= y
<1>1. PICK x \in S : \A y \in S : ~(<<y, x>> \in OpToRel(<, Nat))
  BY NatLessThanWellFounded, WFMin
<1>2. ASSUME NEW y \in S PROVE x <= y
  <2>1. ~(y < x)
    BY <1>1, Zenon DEF OpToRel
  <2> QED
    BY <2>1
<1> QED
  BY <1>2 DEF R!Min

-----------------------------------------------------------------------------
(***************************************************************************)
(* The commands: all that the server is ever sent has the number of the    *)
(* handshake.                                                              *)
(***************************************************************************)
OnlyHandshakes ==
    /\ \A command \in toServer : command.Cmd = 15
    /\ posted \in Seq([Cmd : {15}, UserID : {UserId}])

LEMMA CommandNumbers ==
    /\ EncodeRcvShakHandPack(UserId) \in [Cmd : {15}, UserID : {UserId}]
    /\ EncodeRcvLeave(UserId) \in [Cmd : {15}, UserID : {UserId}]
  BY DEF EncodeRcvShakHandPack, EncodeRcvLeave

LEMMA HandshakesNext == OnlyHandshakes /\ [Next]_vars => OnlyHandshakes'
<1> SUFFICES ASSUME OnlyHandshakes, [Next]_vars PROVE OnlyHandshakes'
  OBVIOUS
<1> DEFINE C == [Cmd : {15}, UserID : {UserId}]
<1>0. \A c \in C : c.Cmd = 15
  OBVIOUS
<1> USE DEF OnlyHandshakes
<1>1. CASE PostSendLeave
  <2> DEFINE leaves == [i \in 1 .. 10 |-> EncodeRcvLeave(UserId)]
  <2>1. leaves \in Seq(C)
    BY CommandNumbers
  <2>2. posted' \in Seq(C)
    BY <1>1, <2>1, ConcatProperties DEF PostSendLeave
  <2> QED
    BY <1>1, <2>2 DEF PostSendLeave, serverVars
<1>2. CASE StartSend
  <2>1. Head(posted) \in C /\ Tail(posted) \in Seq(C)
    BY <1>2, HeadTailProperties DEF StartSend
  <2>2. Head(posted).Cmd = 15
    BY <2>1, <1>0
  <2> QED
    BY <1>2, <2>1, <2>2 DEF StartSend, AsyncSend
<1>3. CASE HandleOpen \/ HandleTimer
  <2>1. EncodeRcvShakHandPack(UserId).Cmd = 15
    BY CommandNumbers, <1>0
  <2> QED
    BY <1>3, <2>1 DEF HandleOpen, HandleTimer, AsyncSend, connVars
<1>4. CASE ServerRecv \/ ServerSendFrame
  BY <1>4 DEF ServerRecv, ServerSendFrame, connVars
<1>5. CASE Open \/ Close \/ Stop \/ HandleClose \/ HandleRecvStopped
  BY <1>5 DEF Open, Close, Stop, HandleClose, HandleRecvStopped, serverVars
<1>6. ASSUME NEW p \in InFlight, HandleRecv(p)
      PROVE  OnlyHandshakes'
  BY <1>6 DEF HandleRecv, connVars, serverVars
<1>7. CASE UNCHANGED vars
  BY <1>7 DEF vars
<1> QED
  BY <1>1, <1>2, <1>3, <1>4, <1>5, <1>6, <1>7 DEF Next

\* A server that has heard the handshake streams for ever: no leave command,
\* however often PostSendLeave is called, ends the subscription.
THEOREM LeaveIsNeverHeard == Spec => LeaveNeverHeard
<1>1. Init => OnlyHandshakes
  BY EmptySeq DEF Init, OnlyHandshakes
<1>2. OnlyHandshakes /\ [Next]_vars => [subscribed => subscribed']_vars
  <2> SUFFICES ASSUME OnlyHandshakes, Next, subscribed PROVE subscribed'
    BY DEF vars
  <2>1. CASE ServerRecv
    BY <2>1 DEF ServerRecv, OnlyHandshakes
  <2>2. CASE ~ServerRecv
    BY <2>2 DEF Next, ServerSendFrame, Open, PostSendLeave, Close, Stop,
                HandleOpen, StartSend, HandleTimer, HandleClose, HandleRecv,
                HandleRecvStopped, serverVars
  <2> QED
    BY <2>1, <2>2
<1> QED
  BY <1>1, <1>2, HandshakesNext, PTL DEF Spec, LeaveNeverHeard

-----------------------------------------------------------------------------
(***************************************************************************)
(* Reordering.  The list holds only packs that RegroupPack was given, so a *)
(* pack that nothing given before is behind finds in its way only equals.  *)
(***************************************************************************)
OrderInv ==
    /\ recved_uncomplete_list \in Seq(seen)
    /\ \A p \in seen : p.type = VIDEO /\ p.Index \in Nat /\ p.sID \in Nat
    /\ streamed \in 0 .. Len(Frames)
    /\ HangsOnlyOnReordering

\* A video pack in flight has the number of its frame and its place in it.
LEMMA InFlightNumbered ==
    ASSUME streamed \in 0 .. Len(Frames), NEW p \in InFlight, IsSmallPack(p)
    PROVE  /\ p.type = VIDEO /\ p.Index \in Nat /\ p.sID \in Nat
           /\ GetCount(p) \in Nat
<1>1. PICK f \in 1 .. streamed : p \in ToSet(PacksOf(f))
  BY DEF InFlight
<1>2. PICK i \in DOMAIN PacksOf(f) : p = PacksOf(f)[i]
  BY <1>1 DEF ToSet
<1>3. f \in 1 .. Len(Frames) /\ f \in Nat
  BY FramesAssumption
<1>4. Frames[f].sizes \in Seq(Nat)
  <2>1. Frames[f] \in [type : {AUDIO, VIDEO}, sizes : Seq(Nat) \ {<<>>}]
    BY <1>3, FramesAssumption, ElementOfSeq
  <2> QED
    BY <2>1
<1>5. i \in DOMAIN Frames[f].sizes /\ i \in Nat
  BY <1>2, <1>4 DEF PacksOf
<1>6. p.type = VIDEO
  BY DEF IsSmallPack
<1>7. CASE Frames[f].type = VIDEO
  <2>1. p.Index = f /\ p.sID = i /\ p.sCount = Len(Frames[f].sizes)
    BY <1>2, <1>5, <1>7 DEF PacksOf
  <2> QED
    BY <1>3, <1>4, <1>5, <1>6, <2>1 DEF GetCount
<1>8. CASE Frames[f].type # VIDEO
  BY <1>2, <1>5, <1>6, <1>8 DEF PacksOf, AUDIO, VIDEO
<1> QED
  BY <1>6, <1>7, <1>8

\* What RegroupPack leaves in the list it has found there or been given.
LEMMA ListAfterFrom ==
    ASSUME NEW S, NEW list \in Seq(S), NEW p \in S, GetCount(p) \in Nat
    PROVE  R!ListAfter(list, p) \in Seq(S)
<1> DEFINE all == Append(list, p)
<1>1. all \in Seq(S) /\ Len(all) = Len(list) + 1 /\ Len(list) \in Nat
  BY AppendProperties
<1>2. R!SameMessage(all, p) \in SUBSET (1 .. Len(all))
  BY <1>1 DEF R!SameMessage
<1>3. Len(list) + 1 \in R!SameMessage(all, p)
  <2>1. all[Len(list) + 1] = p
    BY AppendProperties
  <2> QED
    BY <1>1, <2>1 DEF R!SameMessage
<1> DEFINE first == R!Min(R!SameMessage(all, p))
<1>4. first \in 1 .. Len(all)
  <2>1. R!SameMessage(all, p) \in SUBSET Nat
    BY <1>1, <1>2
  <2> QED
    BY <1>2, <1>3, <2>1, MinIsIn
<1> HIDE DEF first
<1>5. ASSUME R!Completes(list, p) PROVE R!Remaining(list, p) \in Seq(S)
  <2> DEFINE rest == first + GetCount(p)
  <2>1. rest \in Int /\ rest >= 1
    BY <1>4
  <2>2. SubSeq(all, 1, first - 1) \in Seq(S)
    <3> DEFINE n == first - 1
    <3>1. n \in Int /\ 1 \in Int /\ \A i \in 1 .. n : all[i] \in S
      BY <1>1, <1>4
    <3> HIDE DEF n, all
    <3>2. SubSeq(all, 1, n) \in Seq(S)
      BY <3>1, SubSeqProperties
    <3> QED
      BY <3>2 DEF n
  <2>3. SubSeq(all, rest, Len(all)) \in Seq(S)
    <3>1. Len(all) \in Int /\ \A i \in rest .. Len(all) : all[i] \in S
      BY <1>1, <2>1
    <3> QED
      BY <2>1, <3>1, SubSeqProperties
  <2> QED
    BY <2>2, <2>3, ConcatProperties DEF R!Remaining, first
<1> QED
  BY <1>1, <1>5 DEF R!ListAfter

\* RegroupPack runs for ever only in front of a later pack of the list.
LEMMA HangsBehindLater ==
    ASSUME NEW list,
           \E n \in Nat : DOMAIN list = 1 .. n,
           NEW p,
           \A i \in DOMAIN list : list[i].type = VIDEO /\ list[i].Index \in Nat
                                  /\ list[i].sID \in Nat,
           p.type = VIDEO, p.Index \in Nat, p.sID \in Nat,
           R!Hangs(list, p)
    PROVE  \E i \in DOMAIN list : Earlier(p, list[i])
<1> DEFINE obstacles == R!Obstacles(list, p)
           i == R!Min(obstacles)
<1>1. obstacles \in SUBSET Nat /\ obstacles # {}
  BY DEF R!Hangs, R!Obstacles
<1>2. i \in obstacles
  BY <1>1, MinIsIn
<1>3. i \in DOMAIN list
  BY <1>2 DEF R!Obstacles
<1>4. ~R!IsDuplicateAt(list, p, i)
  BY DEF R!Hangs, R!IsDuplicateAt, R!Obstacles
<1>5. \/ GetId(list[i]) > GetId(p)
      \/ GetId(list[i]) = GetId(p) /\ GetSmallId(list[i]) >= GetSmallId(p)
  BY <1>2 DEF R!Obstacles
<1>6. /\ GetId(list[i]) = list[i].Index /\ GetSmallId(list[i]) = list[i].sID
      /\ GetId(p) = p.Index /\ GetSmallId(p) = p.sID
  BY <1>3 DEF GetId, GetSmallId
<1>7. list[i].Index \in Nat /\ list[i].sID \in Nat
  BY <1>3
<1>8. Earlier(p, list[i])
  BY <1>4, <1>5, <1>6, <1>7 DEF Earlier, R!IsDuplicateAt
<1> QED
  BY <1>3, <1>8

LEMMA OrderNext == OrderInv /\ [Next]_vars => OrderInv'
<1> SUFFICES ASSUME OrderInv, [Next]_vars PROVE OrderInv'
  OBVIOUS
<1>0. ASSUME UNCHANGED <<recvVars, streamed>> PROVE OrderInv'
  BY <1>0 DEF OrderInv, HangsOnlyOnReordering, recvVars
<1>1. CASE ServerRecv \/ Open \/ PostSendLeave \/ Close \/ Stop
  BY <1>0, <1>1 DEF ServerRecv, Open, PostSendLeave, Close, Stop, serverVars
<1>2. CASE HandleOpen \/ StartSend \/ HandleTimer \/ HandleClose \/ HandleRecvStopped
  BY <1>0, <1>2 DEF HandleOpen, StartSend, HandleTimer, HandleClose,
                    HandleRecvStopped, serverVars
<1> USE DEF OrderInv, HangsOnlyOnReordering
<1>3. CASE ServerSendFrame
  <2>1. Len(Frames) \in Nat
    BY FramesAssumption
  <2> QED
    BY <1>3, <2>1 DEF ServerSendFrame, recvVars
<1>4. ASSUME NEW p \in InFlight, HandleRecv(p), IsSmallPack(p)
      PROVE  OrderInv'
  <2> DEFINE list == recved_uncomplete_list
  <2>1. /\ list' = R!ListAfter(list, p)
        /\ hung' = R!Hangs(list, p)
        /\ seen' = seen \cup {p}
        /\ disordered' = (disordered \/ \E q \in seen : Earlier(p, q))
        /\ streamed' = streamed
    BY <1>4 DEF HandleRecv, RegroupPack, serverVars
  <2>2. p.type = VIDEO /\ p.Index \in Nat /\ p.sID \in Nat /\ GetCount(p) \in Nat
    BY <1>4, InFlightNumbered
  <2>3. list' \in Seq(seen')
    <3>1. list \in Seq(seen')
      BY <2>1
    <3> QED
      BY <2>1, <2>2, <3>1, ListAfterFrom
  <2>4. hung' => disordered'
    <3> SUFFICES ASSUME hung' PROVE disordered'
      OBVIOUS
    <3>1. \A i \in DOMAIN list : list[i] \in seen
      OBVIOUS
    <3>2. \E n \in Nat : DOMAIN list = 1 .. n
      <4>1. Len(list) \in Nat /\ DOMAIN list = 1 .. Len(list)
        OBVIOUS
      <4> QED
        BY <4>1
    <3>3. R!Hangs(list, p)
      BY <2>1
    <3>4. \E i \in DOMAIN list : Earlier(p, list[i])
      BY <2>2, <3>1, <3>2, <3>3, HangsBehindLater
    <3> QED
      BY <2>1, <3>1, <3>4
  <2> QED
    BY <2>1, <2>2, <2>3, <2>4
<1>5. ASSUME NEW p \in InFlight, HandleRecv(p), ~IsSmallPack(p)
      PROVE  OrderInv'
  BY <1>5 DEF HandleRecv, serverVars
<1>6. CASE UNCHANGED vars
  BY <1>0, <1>6 DEF vars, recvVars
<1> QED
  BY <1>1, <1>2, <1>3, <1>4, <1>5, <1>6 DEF Next

\* Whatever the frames, RegroupPack hangs only when the network has let a
\* later pack of the stream overtake an earlier one.
THEOREM OrderedStreamNeverHangs == Spec => []HangsOnlyOnReordering
<1>1. Init => OrderInv
  <2>1. Len(Frames) \in Nat
    BY FramesAssumption
  <2> QED
    BY <2>1, EmptySeq DEF Init, OrderInv, HangsOnlyOnReordering
<1>2. OrderInv => HangsOnlyOnReordering
  BY DEF OrderInv
<1> QED
  BY <1>1, <1>2, OrderNext, PTL DEF Spec
-----------------------------------------------------------------------------
(***************************************************************************)
(* The list.  It stays in the order of the stream, so that the packs of a  *)
(* frame that a pack completes are the end of it: they leave the list      *)
(* together, and nothing else does.                                        *)
(***************************************************************************)
Regular(p) ==
    /\ p.type = VIDEO /\ p.Index \in DOMAIN Frames /\ p.Index \in Nat
    /\ p.sCount = Len(Frames[p.Index].sizes) /\ p.sCount \in Nat /\ p.sCount > 1
    /\ p.sID \in 1 .. p.sCount

Ordered(list) ==
    \A i, j \in DOMAIN list : i < j => Earlier(list[i], list[j])

\* A small pack in flight is regular: its header fits the frame it is of.
LEMMA InFlightRegular ==
    ASSUME streamed \in 0 .. Len(Frames), NEW p \in InFlight, IsSmallPack(p)
    PROVE  Regular(p)
<1>1. PICK f \in 1 .. streamed : p \in ToSet(PacksOf(f))
  BY DEF InFlight
<1>2. PICK i \in DOMAIN PacksOf(f) : p = PacksOf(f)[i]
  BY <1>1 DEF ToSet
<1>3. f \in 1 .. Len(Frames) /\ f \in Nat /\ f \in DOMAIN Frames
  BY FramesAssumption
<1>4. Frames[f].sizes \in Seq(Nat)
  <2>1. Frames[f] \in [type : {AUDIO, VIDEO}, sizes : Seq(Nat) \ {<<>>}]
    BY <1>3, FramesAssumption, ElementOfSeq
  <2> QED
    BY <2>1
<1>5. i \in DOMAIN Frames[f].sizes /\ i \in 1 .. Len(Frames[f].sizes)
  BY <1>2, <1>4 DEF PacksOf
<1>6. p.type = VIDEO /\ p.sCount > 1
  BY DEF IsSmallPack
<1>7. CASE Frames[f].type = VIDEO
  <2>1. p.Index = f /\ p.sID = i /\ p.sCount = Len(Frames[f].sizes)
    BY <1>2, <1>5, <1>7 DEF PacksOf
  <2> QED
    BY <1>3, <1>4, <1>5, <1>6, <2>1 DEF Regular
<1>8. CASE Frames[f].type # VIDEO
  BY <1>2, <1>5, <1>6, <1>8 DEF PacksOf, AUDIO, VIDEO
<1> QED
  BY <1>7, <1>8

LEMMA RegularAccessors ==
    ASSUME NEW p, Regular(p)
    PROVE  /\ GetId(p) = p.Index /\ GetSmallId(p) = p.sID
           /\ GetCount(p) = p.sCount /\ GetType(p) = VIDEO
BY DEF Regular, GetId, GetSmallId, GetCount, GetType

\* A pack that finds no obstacle comes after everything in the list.
LEMMA AppendsAfterAll ==
    ASSUME NEW list, NEW p, Regular(p),
           \A i \in DOMAIN list : Regular(list[i]),
           R!Appends(list, p), NEW i \in DOMAIN list
    PROVE  Earlier(list[i], p)
<1>1. /\ GetId(list[i]) = list[i].Index /\ GetSmallId(list[i]) = list[i].sID
      /\ GetId(p) = p.Index /\ GetSmallId(p) = p.sID
  BY RegularAccessors
<1>2. /\ ~(GetId(list[i]) > GetId(p))
      /\ ~(GetId(list[i]) = GetId(p) /\ GetSmallId(list[i]) >= GetSmallId(p))
  BY DEF R!Appends, R!Obstacles
<1>3. list[i].Index \in Nat /\ list[i].sID \in Nat /\ p.Index \in Nat /\ p.sID \in Nat
  BY DEF Regular
<1> QED
  BY <1>1, <1>2, <1>3 DEF Earlier

LEMMA CompletesAtEnd ==
    ASSUME NEW S, \A q \in S : Regular(q), NEW list \in Seq(S), NEW p \in S,
           Ordered(list), R!Completes(list, p)
    PROVE  \E first \in 1 .. Len(list) :
             /\ first = Len(list) + 2 - p.sCount
             /\ \A i \in 1 .. first - 1 : list[i].Index # p.Index
             /\ \A i \in first .. Len(list) : list[i].Index = p.Index
             /\ R!Remaining(list, p) = SubSeq(list, 1, first - 1)
             /\ R!Assembled(list, p) = SubSeq(Append(list, p), first, Len(list) + 1)
<1> DEFINE n == Len(list)
           all == Append(list, p)
           same == R!SameMessage(list, p)
           first == R!Min(same)
<1>1. n \in Nat /\ DOMAIN list = 1 .. n /\ \A i \in 1 .. n : list[i] \in S /\ Regular(list[i])
  OBVIOUS
<1>2. Regular(p) /\ GetCount(p) = p.sCount /\ p.sCount \in Nat /\ p.sCount > 1
      /\ p.Index \in Nat
  BY RegularAccessors DEF Regular
<1>3. \A i \in 1 .. n : Earlier(list[i], p)
  BY <1>1, <1>2, AppendsAfterAll DEF R!Completes
<1>4. same = {i \in 1 .. n : list[i].Index = p.Index}
  BY <1>1, <1>2, RegularAccessors DEF R!SameMessage
<1>5. Cardinality(same) = p.sCount - 1
  <2>1. R!Cardinality(same) = Cardinality(same)
    BY DEF R!Cardinality, Cardinality
  <2>2. IsFiniteSet(same)
    <3>1. same \in SUBSET (1 .. n)
      BY <1>4
    <3>2. IsFiniteSet(1 .. n)
      BY <1>1, FS_Interval
    <3> HIDE DEF same
    <3> QED
      BY <3>1, <3>2, FS_Subset
  <2>3. Cardinality(same) \in Nat
    BY <2>2, FS_CardinalityType
  <2> QED
    BY <1>2, <2>1, <2>3 DEF R!Completes
<1>6. same \in SUBSET Nat /\ same # {}
  <2>1. same \in SUBSET Nat
    BY <1>1, <1>4
  <2> HIDE DEF same
  <2>2. same # {}
    <3>1. Cardinality({}) = 0
      BY FS_EmptySet
    <3>2. p.sCount - 1 # 0
      BY <1>2
    <3> QED
      BY <1>5, <3>1, <3>2, Zenon
  <2> QED
    BY <2>1, <2>2
<1>7. first \in same /\ \A y \in same : first <= y
  BY <1>6, MinIsIn
<1> HIDE DEF first, same
<1>8. first \in 1 .. n /\ list[first].Index = p.Index
  BY <1>4, <1>7
<1>9. \A i \in 1 .. first - 1 : list[i].Index # p.Index
  BY <1>1, <1>4, <1>7, <1>8
<1>10. ASSUME NEW i \in first .. n PROVE list[i].Index = p.Index
  <2>1. i \in 1 .. n
    BY <1>1, <1>8
  <2>2. /\ list[i].Index \in Nat
        /\ GetId(list[i]) = list[i].Index /\ GetId(p) = p.Index
        /\ GetId(list[first]) = list[first].Index
    BY <1>1, <1>2, <1>8, <2>1, RegularAccessors DEF Regular
  <2>3. list[i].Index <= p.Index
    BY <1>2, <1>3, <2>1, <2>2 DEF Earlier
  <2>4. first = i \/ Earlier(list[first], list[i])
    BY <1>1, <1>8, <2>1 DEF Ordered
  <2> QED
    BY <1>2, <1>8, <2>2, <2>3, <2>4 DEF Earlier
<1>11. same = first .. n
  BY <1>1, <1>4, <1>7, <1>8, <1>10
<1>12. first = n + 2 - p.sCount
  <2>1. Cardinality(first .. n) = n - first + 1
    BY <1>1, <1>8, FS_Interval
  <2> QED
    BY <1>1, <1>2, <1>5, <1>8, <1>11, <2>1
<1>13. /\ all \in Seq(S) /\ Len(all) = n + 1 /\ all[n + 1] = p
       /\ \A i \in 1 .. n : all[i] = list[i]
  BY <1>1, AppendProperties
<1>14. R!Min(R!SameMessage(all, p)) = first
  <2> DEFINE T == R!SameMessage(all, p)
             m == R!Min(T)
  <2>1. DOMAIN all = 1 .. n + 1
    BY <1>13
  <2>2. \A i \in 1 .. n + 1 : Regular(all[i])
    BY <1>1, <1>13
  <2>3. T = {i \in 1 .. n + 1 : all[i].Index = p.Index}
    BY <1>2, <2>1, <2>2, RegularAccessors DEF R!SameMessage
  <2>4. first \in T /\ T \in SUBSET Nat
    BY <1>1, <1>8, <1>13, <2>3
  <2>5. m \in T /\ \A y \in T : m <= y
    BY <2>4, MinIsIn
  <2>6. \A y \in T : first <= y
    BY <1>1, <1>8, <1>9, <1>13, <2>3
  <2> HIDE DEF T, m
  <2>7. m \in Nat /\ m <= first /\ first <= m
    BY <2>4, <2>5, <2>6
  <2>8. m = first
    BY <1>8, <2>7
  <2> QED
    BY <2>8 DEF m, T
<1>15. R!Remaining(list, p) = SubSeq(list, 1, first - 1)
  <2> DEFINE k == first - 1
             left == SubSeq(all, 1, k)
  <2>1. k \in Int /\ 0 <= k /\ k <= n
    BY <1>1, <1>8
  <2>2. R!Remaining(list, p)
          = SubSeq(all, 1, first - 1) \o SubSeq(all, first + GetCount(p), Len(all))
    BY <1>14 DEF R!Remaining
  <2>3. SubSeq(all, first + GetCount(p), Len(all)) = <<>>
    BY <1>1, <1>2, <1>8, <1>12, <1>13, SubSeqEmpty
  <2> HIDE DEF k, all
  <2>4. left \in Seq(S) /\ Len(left) = k /\ \A i \in 1 .. k : left[i] = list[i]
    BY <1>1, <1>13, <2>1, SubSeqProperties
  <2>5. /\ SubSeq(list, 1, k) \in Seq(S) /\ Len(SubSeq(list, 1, k)) = k
        /\ \A i \in 1 .. k : SubSeq(list, 1, k)[i] = list[i]
    BY <1>1, <2>1, SubSeqProperties
  <2>6. left = SubSeq(list, 1, k)
    <3> DEFINE right == SubSeq(list, 1, k)
    <3> HIDE DEF left, right
    <3>1. left = right
      BY <2>4, <2>5, SeqEqual DEF right
    <3> QED
      BY <3>1 DEF right
  <2>7. R!Remaining(list, p) = left \o <<>>
    BY <2>2, <2>3 DEF k, all
  <2> QED
    BY <2>4, <2>6, <2>7, ConcatEmptySeq DEF k
<1>16. R!Assembled(list, p) = SubSeq(all, first, n + 1)
  <2>1. first + GetCount(p) - 1 = n + 1
    BY <1>1, <1>2, <1>8, <1>12
  <2> QED
    BY <1>14, <2>1 DEF R!Assembled
<1> QED
  BY <1>8, <1>9, <1>10, <1>12, <1>15, <1>16
\* How many packs of a frame are in the list.
PiecesIn(list, id) == {i \in DOMAIN list : GetId(list[i]) = id}

Incomplete(list) ==
    \A q \in ToSet(list) : Cardinality(PiecesIn(list, GetId(q))) < GetCount(q)

LEMMA PiecesFinite ==
    ASSUME NEW S, NEW list \in Seq(S), NEW id
    PROVE  /\ IsFiniteSet(PiecesIn(list, id))
           /\ Cardinality(PiecesIn(list, id)) \in Nat
<1>1. Len(list) \in Nat /\ DOMAIN list = 1 .. Len(list)
  OBVIOUS
<1>2. PiecesIn(list, id) \in SUBSET (1 .. Len(list))
  BY <1>1 DEF PiecesIn
<1>3. IsFiniteSet(1 .. Len(list))
  BY <1>1, FS_Interval
<1>4. IsFiniteSet(PiecesIn(list, id))
  BY <1>2, <1>3, FS_Subset
<1> QED
  BY <1>4, FS_CardinalityType

\* Appending a pack that does not complete its frame leaves no frame complete.
LEMMA AppendIncomplete ==
    ASSUME NEW S, \A q \in S : Regular(q), NEW list \in Seq(S), NEW p \in S,
           Incomplete(list), R!Appends(list, p), ~R!Completes(list, p)
    PROVE  Incomplete(Append(list, p))
<1> DEFINE n == Len(list)
           all == Append(list, p)
<1>1. /\ n \in Nat /\ DOMAIN list = 1 .. n /\ DOMAIN all = 1 .. n + 1
      /\ all[n + 1] = p /\ \A i \in 1 .. n : all[i] = list[i] /\ list[i] \in S
  BY AppendProperties
<1> HIDE DEF n, all
<1>2. GetId(p) = p.Index /\ GetCount(p) = p.sCount /\ p.sCount \in Nat /\ p.sCount > 1
  BY RegularAccessors DEF Regular
<1>3. ASSUME NEW i \in 1 .. n, GetId(list[i]) # GetId(p)
      PROVE  Cardinality(PiecesIn(all, GetId(list[i]))) < GetCount(list[i])
  <2>1. PiecesIn(all, GetId(list[i])) = PiecesIn(list, GetId(list[i]))
    BY <1>1, <1>3 DEF PiecesIn
  <2>2. list[i] \in ToSet(list)
    BY <1>1 DEF ToSet
  <2> QED
    BY <2>1, <2>2 DEF Incomplete
<1> DEFINE pieces == PiecesIn(list, GetId(p))
<1>4. IsFiniteSet(pieces) /\ Cardinality(pieces) \in Nat
  BY PiecesFinite
<1>5. Cardinality(PiecesIn(all, GetId(p))) = Cardinality(pieces) + 1
  <2>1. PiecesIn(all, GetId(p)) = pieces \cup {n + 1} /\ n + 1 \notin pieces
    BY <1>1 DEF PiecesIn
  <2> HIDE DEF pieces
  <2> QED
    BY <1>4, <2>1, FS_AddElement
<1>6. ASSUME NEW i \in 1 .. n, GetId(list[i]) = GetId(p)
      PROVE  GetCount(list[i]) = p.sCount
  <2>1. Regular(list[i]) /\ Regular(p)
    BY <1>1
  <2> QED
    BY <1>6, <2>1, RegularAccessors DEF Regular
<1>7. Cardinality(pieces) + 1 < p.sCount
  <2>1. CASE pieces = {}
    <3>1. Cardinality(pieces) = 0
      BY <2>1, FS_EmptySet
    <3> HIDE DEF pieces
    <3> QED
      BY <1>2, <3>1
  <2>2. CASE pieces # {}
    <3>1. PICK i \in 1 .. n : GetId(list[i]) = GetId(p)
      BY <1>1, <2>2 DEF PiecesIn
    <3>2. list[i] \in ToSet(list) /\ list # <<>>
      BY <1>1, <3>1 DEF ToSet
    <3>3. Cardinality(PiecesIn(list, GetId(list[i]))) < GetCount(list[i])
      BY <3>2 DEF Incomplete
    <3>4. Cardinality(pieces) < p.sCount
      BY <1>6, <3>1, <3>3
    <3>5. pieces = R!SameMessage(list, p)
      BY DEF PiecesIn, R!SameMessage
    <3>6. R!Cardinality(pieces) = Cardinality(pieces)
      BY DEF R!Cardinality, Cardinality
    <3> HIDE DEF pieces
    <3>7. Cardinality(pieces) + 1 # p.sCount
      BY <1>2, <3>2, <3>5, <3>6 DEF R!Completes
    <3> QED
      BY <1>2, <1>4, <3>4, <3>7
  <2> QED
    BY <2>1, <2>2
<1> HIDE DEF pieces
<1>8. ASSUME NEW i \in 1 .. n + 1
      PROVE  Cardinality(PiecesIn(all, GetId(all[i]))) < GetCount(all[i])
  <2>1. CASE i = n + 1
    BY <1>1, <1>2, <1>5, <1>7, <2>1
  <2>2. CASE i \in 1 .. n /\ GetId(list[i]) = GetId(p)
    <3>1. all[i] = list[i] /\ GetCount(all[i]) = p.sCount
      BY <1>1, <1>6, <2>2
    <3> QED
      BY <1>5, <1>7, <2>2, <3>1
  <2>3. CASE i \in 1 .. n /\ GetId(list[i]) # GetId(p)
    <3>1. all[i] = list[i]
      BY <1>1, <2>3
    <3> QED
      BY <1>3, <2>3, <3>1
  <2> QED
    BY <1>1, <2>1, <2>2, <2>3
<1>9. Incomplete(all)
  BY <1>1, <1>8 DEF Incomplete, ToSet
<1> QED
  BY <1>9 DEF all

\* Nor does a beginning of the list hold a complete frame.
LEMMA PrefixIncomplete ==
    ASSUME NEW S, \A q \in S : Regular(q), NEW list \in Seq(S),
           Incomplete(list), Ordered(list), NEW k \in 0 .. Len(list)
    PROVE  /\ SubSeq(list, 1, k) \in Seq(S)
           /\ Len(SubSeq(list, 1, k)) = k
           /\ \A i \in 1 .. k : SubSeq(list, 1, k)[i] = list[i]
           /\ Incomplete(SubSeq(list, 1, k)) /\ Ordered(SubSeq(list, 1, k))
<1> DEFINE left == SubSeq(list, 1, k)
<1>1. /\ Len(list) \in Nat /\ DOMAIN list = 1 .. Len(list)
      /\ \A i \in 1 .. k : list[i] \in S
  OBVIOUS
<1>2. left \in Seq(S) /\ Len(left) = k /\ \A i \in 1 .. k : left[i] = list[i]
  BY <1>1, SubSeqProperties
<1> HIDE DEF left
<1>3. DOMAIN left = 1 .. k /\ 1 .. k \subseteq DOMAIN list
  BY <1>1, <1>2
<1>4. Ordered(left)
  BY <1>2, <1>3 DEF Ordered
<1>5. ASSUME NEW i \in 1 .. k
      PROVE  Cardinality(PiecesIn(left, GetId(left[i]))) < GetCount(left[i])
  <2> DEFINE T == PiecesIn(left, GetId(left[i]))
             U == PiecesIn(list, GetId(list[i]))
  <2>1. left[i] = list[i] /\ list[i] \in ToSet(list) /\ T \in SUBSET U
    BY <1>2, <1>3 DEF PiecesIn, ToSet
  <2>2. IsFiniteSet(U) /\ Cardinality(U) \in Nat /\ Cardinality(T) \in Nat
    BY <1>2, PiecesFinite
  <2>3. Cardinality(U) < GetCount(list[i])
    BY <2>1 DEF Incomplete
  <2>4. Cardinality(T) <= Cardinality(U)
    <3> HIDE DEF T, U
    <3> QED
      BY <2>1, <2>2, FS_Subset
  <2>5. GetCount(list[i]) \in Nat
    <3>1. Regular(list[i])
      BY <1>1
    <3> QED
      BY <3>1, RegularAccessors DEF Regular
  <2> HIDE DEF T, U
  <2>6. Cardinality(T) < GetCount(left[i])
    BY <2>1, <2>2, <2>3, <2>4, <2>5
  <2> QED
    BY <2>6 DEF T
<1>6. Incomplete(left)
  BY <1>3, <1>5 DEF Incomplete, ToSet
<1> QED
  BY <1>2, <1>4, <1>6 DEF left
-----------------------------------------------------------------------------
ListInv ==
    /\ OrderInv
    /\ \A q \in seen : Regular(q)
    /\ Ordered(recved_uncomplete_list) /\ Incomplete(recved_uncomplete_list)

\* What the call of RegroupPack on a small pack works on.
LEMMA RegroupGiven ==
    ASSUME ListInv, NEW p \in InFlight, HandleRecv(p), IsSmallPack(p)
    PROVE  LET list == recved_uncomplete_list IN
           /\ p \in seen' /\ \A q \in seen' : Regular(q)
           /\ seen' = seen \cup {p}
           /\ list \in Seq(seen')
           /\ list' = R!ListAfter(list, p)
           /\ IF R!Completes(list, p) THEN OnGotMediaData(R!Assembled(list, p))
                                      ELSE fed' = fed
           /\ disordered' = (disordered \/ \E q \in seen : Earlier(p, q))
<1>1. Regular(p)
  BY InFlightRegular DEF ListInv, OrderInv
<1>2. seen' = seen \cup {p}
  BY DEF HandleRecv, RegroupPack
<1>3. \A q \in seen' : Regular(q)
  BY <1>1, <1>2 DEF ListInv
<1>4. recved_uncomplete_list \in Seq(seen')
  BY <1>2 DEF ListInv, OrderInv
<1> QED
  BY <1>2, <1>3, <1>4, Zenon DEF HandleRecv, RegroupPack

LEMMA ListNext == ListInv /\ [Next]_vars => ListInv'
<1> SUFFICES ASSUME ListInv, [Next]_vars PROVE ListInv'
  OBVIOUS
<1>1. OrderInv'
  BY OrderNext DEF ListInv
<1>2. CASE UNCHANGED <<recved_uncomplete_list, seen>>
  BY <1>1, <1>2 DEF ListInv, Ordered, Incomplete, PiecesIn
<1>3. ASSUME NEW p \in InFlight, HandleRecv(p), IsSmallPack(p)
      PROVE  ListInv'
  <2> DEFINE list == recved_uncomplete_list
  <2>1. /\ p \in seen' /\ \A q \in seen' : Regular(q)
        /\ list \in Seq(seen') /\ list' = R!ListAfter(list, p)
    BY <1>3, RegroupGiven
  <2>2. Ordered(list) /\ Incomplete(list)
    BY DEF ListInv
  <2> HIDE DEF list
  <2>3. Ordered(R!ListAfter(list, p)) /\ Incomplete(R!ListAfter(list, p))
    <3>1. CASE R!Completes(list, p)
      <4>1. PICK first \in 1 .. Len(list) :
               R!Remaining(list, p) = SubSeq(list, 1, first - 1)
        BY <2>1, <2>2, <3>1, CompletesAtEnd
      <4>2. first - 1 \in 0 .. Len(list)
        BY <2>1
      <4>3. Ordered(SubSeq(list, 1, first - 1)) /\ Incomplete(SubSeq(list, 1, first - 1))
        BY <2>1, <2>2, <4>2, PrefixIncomplete
      <4> QED
        BY <3>1, <4>1, <4>3 DEF R!ListAfter
    <3>2. CASE ~R!Completes(list, p) /\ R!Appends(list, p)
      <4>1. Incomplete(Append(list, p))
        BY <2>1, <2>2, <3>2, AppendIncomplete
      <4>2. \A i \in DOMAIN list : Regular(list[i])
        BY <2>1
      <4>3. \A i \in DOMAIN list : Earlier(list[i], p)
        BY <2>1, <3>2, <4>2, AppendsAfterAll
      <4>4. Ordered(Append(list, p))
        <5>1. /\ Len(list) \in Nat /\ DOMAIN list = 1 .. Len(list)
              /\ DOMAIN Append(list, p) = 1 .. Len(list) + 1
              /\ Append(list, p)[Len(list) + 1] = p
              /\ \A i \in 1 .. Len(list) : Append(list, p)[i] = list[i]
          BY <2>1, AppendProperties
        <5> QED
          BY <2>2, <4>3, <5>1 DEF Ordered
      <4> QED
        BY <3>2, <4>1, <4>4 DEF R!ListAfter
    <3>3. CASE ~R!Completes(list, p) /\ ~R!Appends(list, p)
      BY <2>2, <3>3 DEF R!ListAfter
    <3> QED
      BY <3>1, <3>2, <3>3
  <2>4. Ordered(list') /\ Incomplete(list')
    BY <2>1, <2>3
  <2> QED
    BY <1>1, <2>1, <2>4 DEF ListInv, list, Ordered, Incomplete, PiecesIn
<1>4. ASSUME NEW p \in InFlight, HandleRecv(p), ~IsSmallPack(p)
      PROVE  ListInv'
  BY <1>2, <1>4 DEF HandleRecv
<1>5. CASE Next /\ ~ \E p \in InFlight : HandleRecv(p)
  BY <1>2, <1>5 DEF Next, ServerRecv, ServerSendFrame, Open, PostSendLeave,
                    Close, Stop, HandleOpen, StartSend, HandleTimer,
                    HandleClose, HandleRecvStopped, recvVars
<1>6. CASE UNCHANGED vars
  BY <1>2, <1>6 DEF vars
<1> QED
  BY <1>3, <1>4, <1>5, <1>6 DEF Next

LEMMA ListInvariant == Spec => []ListInv
<1>1. Init => ListInv
  <2> SUFFICES ASSUME Init PROVE ListInv
    OBVIOUS
  <2>1. OrderInv
    <3>1. Len(Frames) \in Nat
      BY FramesAssumption
    <3> QED
      BY <3>1, EmptySeq DEF Init, OrderInv, HangsOnlyOnReordering
  <2>2. recved_uncomplete_list = <<>> /\ seen = {}
    BY DEF Init
  <2> QED
    BY <2>1, <2>2 DEF ListInv, Ordered, Incomplete, ToSet
<1> QED
  BY <1>1, ListNext, PTL DEF Spec

-----------------------------------------------------------------------------
(***************************************************************************)
(* What is fed.                                                            *)
(***************************************************************************)
FedIsSeq == \E S : fed \in Seq(S)

\* Feeding puts a packet behind the others.
LEMMA FeedEffect ==
    ASSUME FedIsSeq, NEW packs, OnGotMediaData(packs)
    PROVE  /\ FedIsSeq'
           /\ GetType(packs[1]) # VIDEO => fed' = fed
           /\ GetType(packs[1]) = VIDEO =>
                /\ Len(fed) \in Nat /\ DOMAIN fed = 1 .. Len(fed)
                /\ Len(fed') = Len(fed) + 1 /\ DOMAIN fed' = 1 .. Len(fed) + 1
                /\ \A i \in DOMAIN fed : fed'[i] = fed[i]
                /\ fed'[Len(fed) + 1].packs = packs
<1> DEFINE x == [packs |-> packs, data_len |-> DataSize(packs) % Width]
<1>1. PICK S : fed \in Seq(S)
  BY DEF FedIsSeq
<1>2. IF GetType(packs[1]) = VIDEO THEN fed' = Append(fed, x) ELSE fed' = fed
  BY Zenon DEF OnGotMediaData
<1>3. x.packs = packs
  OBVIOUS
<1> HIDE DEF x
<1> DEFINE T == S \cup {x}
<1>4. fed \in Seq(T) /\ x \in T
  BY <1>1
<1> HIDE DEF T
<1>5. /\ Append(fed, x) \in Seq(T)
      /\ Len(fed) \in Nat /\ DOMAIN fed = 1 .. Len(fed)
      /\ Len(Append(fed, x)) = Len(fed) + 1
      /\ DOMAIN Append(fed, x) = 1 .. Len(fed) + 1
      /\ \A i \in DOMAIN fed : Append(fed, x)[i] = fed[i]
      /\ Append(fed, x)[Len(fed) + 1] = x
  BY <1>4, AppendProperties
<1>6. fed' \in Seq(T)
  BY <1>2, <1>4, <1>5
<1> QED
  BY <1>2, <1>3, <1>5, <1>6 DEF FedIsSeq

LEMMA PartOfSeq ==
    ASSUME NEW S, NEW s, NEW m \in Int, NEW k \in Int, m <= k,
           \A i \in m .. k : s[i] \in S
    PROVE  /\ SubSeq(s, m, k) \in Seq(S) /\ Len(SubSeq(s, m, k)) = k - m + 1
           /\ \A i \in 1 .. k - m + 1 : SubSeq(s, m, k)[i] = s[m + i - 1]
BY SubSeqProperties

\* The packs that a pack completes: its frame's, in order, and it the last.
CutAt(list, p, first, a) ==
    /\ first = Len(list) + 2 - p.sCount
    /\ \A i \in 1 .. first - 1 : list[i].Index # p.Index
    /\ \A i \in first .. Len(list) : list[i].Index = p.Index
    /\ R!Remaining(list, p) = SubSeq(list, 1, first - 1)
    /\ Len(a) = p.sCount /\ a[p.sCount] = p
    /\ \A i \in 1 .. p.sCount - 1 : a[i] = list[first + i - 1]
    /\ \A i \in 1 .. p.sCount : a[i].Index = p.Index

LEMMA AssembledPacks ==
    ASSUME NEW S, \A q \in S : Regular(q), NEW list \in Seq(S), NEW p \in S,
           Ordered(list), R!Completes(list, p)
    PROVE  /\ R!Assembled(list, p) \in Seq(S)
           /\ \E first \in 1 .. Len(list) :
                CutAt(list, p, first, R!Assembled(list, p))
<1> DEFINE n == Len(list)
           all == Append(list, p)
<1>1. PICK first \in 1 .. n :
         /\ first = n + 2 - p.sCount
         /\ \A i \in 1 .. first - 1 : list[i].Index # p.Index
         /\ \A i \in first .. n : list[i].Index = p.Index
         /\ R!Remaining(list, p) = SubSeq(list, 1, first - 1)
         /\ R!Assembled(list, p) = SubSeq(all, first, n + 1)
  BY CompletesAtEnd, ZenonT(40)
<1>2. n \in Nat /\ p.sCount \in Nat /\ p.sCount > 1
  <2>1. Regular(p)
    OBVIOUS
  <2> QED
    BY <2>1 DEF Regular
<1>3. /\ all[n + 1] = p /\ \A i \in 1 .. n : all[i] = list[i]
      /\ \A i \in 1 .. n + 1 : all[i] \in S
  BY <1>2, AppendProperties
<1> DEFINE a == R!Assembled(list, p)
<1> HIDE DEF all, n
<1> DEFINE c == p.sCount
<1>4. n \in Nat /\ c \in Nat /\ c > 1 /\ first \in 1 .. n /\ first = n + 2 - c
  BY <1>1, <1>2
<1> HIDE DEF c
<1>5. /\ (n + 1) - first + 1 = c /\ first + c - 1 = n + 1 /\ c \in 1 .. c
      /\ \A i \in 1 .. c - 1 : first + i - 1 \in first .. n
                             /\ first + i - 1 \in 1 .. n /\ i \in 1 .. c
  BY <1>4
<1>6. /\ a \in Seq(S) /\ Len(a) = p.sCount
      /\ \A i \in 1 .. p.sCount : a[i] = all[first + i - 1]
  <2>1. first \in Int /\ n + 1 \in Int /\ first <= n + 1
    BY <1>1, <1>2
  <2>2. \A i \in first .. n + 1 : all[i] \in S
    <3>1. \A i \in first .. n + 1 : i \in 1 .. n + 1
      BY ONLY <1>4
    <3> QED
      BY ONLY <1>3, <3>1
  <2> DEFINE last == n + 1
             b == SubSeq(all, first, last)
  <2> HIDE DEF last
  <2>3. last \in Int /\ first <= last /\ \A i \in first .. last : all[i] \in S
    BY <2>1, <2>2 DEF last
  <2>4. /\ b \in Seq(S) /\ Len(b) = last - first + 1
        /\ \A i \in 1 .. last - first + 1 : b[i] = all[first + i - 1]
    BY <2>1, <2>3, PartOfSeq
  <2>5. a = b
    BY <1>1 DEF last
  <2>6. last - first + 1 = p.sCount
    BY <1>4, <1>5 DEF last, c
  <2> HIDE DEF a, b
  <2> QED
    BY <2>4, <2>5, <2>6
<1> HIDE DEF a
<1>7. a[p.sCount] = p
  <2>1. first + p.sCount - 1 = n + 1 /\ p.sCount \in 1 .. p.sCount
    BY <1>5 DEF c
  <2> QED
    BY <1>3, <1>6, <2>1
<1>8. ASSUME NEW i \in 1 .. p.sCount - 1
      PROVE  a[i] = list[first + i - 1] /\ list[first + i - 1].Index = p.Index
  <2>1. first + i - 1 \in first .. n /\ first + i - 1 \in 1 .. n /\ i \in 1 .. p.sCount
    BY <1>5 DEF c
  <2> QED
    BY <1>1, <1>3, <1>6, <2>1
<1>9. \A i \in 1 .. p.sCount : a[i].Index = p.Index
  <2> SUFFICES ASSUME NEW i \in 1 .. p.sCount PROVE a[i].Index = p.Index
    OBVIOUS
  <2>1. CASE i = p.sCount
    BY <1>7, <2>1
  <2>2. CASE i # p.sCount
    <3>1. i \in 1 .. p.sCount - 1
      BY <1>2, <2>2
    <3> QED
      BY <1>8, <3>1
  <2> QED
    BY <2>1, <2>2
<1> QED
  BY <1>1, <1>6, <1>7, <1>8, <1>9 DEF n, a, CutAt
-----------------------------------------------------------------------------
LEMMA FedSeqNext == FedIsSeq /\ [Next]_vars => FedIsSeq'
<1> SUFFICES ASSUME FedIsSeq, [Next]_vars PROVE FedIsSeq'
  OBVIOUS
<1>1. CASE fed' = fed
  BY <1>1 DEF FedIsSeq
<1>2. CASE \E packs : OnGotMediaData(packs)
  BY <1>2, FeedEffect
<1>3. ASSUME NEW p \in InFlight, HandleRecv(p)
      PROVE  fed' = fed \/ \E packs : OnGotMediaData(packs)
  BY <1>3, Zenon DEF HandleRecv, RegroupPack
<1>4. CASE Next /\ ~ \E p \in InFlight : HandleRecv(p)
  BY <1>1, <1>4 DEF Next, ServerRecv, ServerSendFrame, Open, PostSendLeave,
                    Close, Stop, HandleOpen, StartSend, HandleTimer,
                    HandleClose, HandleRecvStopped, recvVars
<1>5. CASE UNCHANGED vars
  BY <1>1, <1>5 DEF vars
<1> QED
  BY <1>1, <1>2, <1>3, <1>4, <1>5 DEF Next

LEMMA FedSeqInvariant == Spec => []FedIsSeq
<1>1. Init => FedIsSeq
  BY EmptySeq DEF Init, FedIsSeq
<1> QED
  BY <1>1, FedSeqNext, PTL DEF Spec

\* What a call that completes a frame changes.
LEMMA RegroupFeeds ==
    ASSUME ListInv, FedIsSeq, NEW p \in InFlight, HandleRecv(p), IsSmallPack(p),
           R!Completes(recved_uncomplete_list, p)
    PROVE  LET list == recved_uncomplete_list
               a    == R!Assembled(list, p)
           IN  \E first \in 1 .. Len(list) :
                 /\ \A i \in 1 .. first - 1 : list[i].Index # p.Index
                 /\ list[first].Index = p.Index
                 /\ DOMAIN list' = 1 .. first - 1
                 /\ \A i \in 1 .. first - 1 : list'[i] = list[i]
                 /\ \A i \in first .. Len(list) : list[i] \in ToSet(a)
                 /\ a \in Seq(seen') /\ Len(a) = p.sCount /\ a[p.sCount] = p
                 /\ \A i \in 1 .. p.sCount - 1 : Earlier(a[i], a[i + 1])
                 /\ \A i \in 1 .. p.sCount : a[i].Index = p.Index
                 /\ Len(fed) \in Nat /\ DOMAIN fed = 1 .. Len(fed)
                 /\ Len(fed') = Len(fed) + 1 /\ DOMAIN fed' = 1 .. Len(fed) + 1
                 /\ \A i \in DOMAIN fed : fed'[i] = fed[i]
                 /\ fed'[Len(fed) + 1].packs = a
<1> DEFINE list == recved_uncomplete_list
           a == R!Assembled(list, p)
           c == p.sCount
           n == Len(list)
<1>1. /\ p \in seen' /\ \A q \in seen' : Regular(q)
      /\ list \in Seq(seen') /\ list' = R!ListAfter(list, p)
      /\ OnGotMediaData(a)
  BY RegroupGiven
<1>2. Ordered(list) /\ Incomplete(list) /\ R!Completes(list, p)
  BY DEF ListInv
<1> HIDE DEF list
<1>3. PICK first \in 1 .. n :
         /\ first = n + 2 - c
         /\ \A i \in 1 .. first - 1 : list[i].Index # p.Index
         /\ \A i \in first .. n : list[i].Index = p.Index
         /\ R!Remaining(list, p) = SubSeq(list, 1, first - 1)
         /\ a \in Seq(seen') /\ Len(a) = c /\ a[c] = p
         /\ \A i \in 1 .. c - 1 : a[i] = list[first + i - 1]
         /\ \A i \in 1 .. c : a[i].Index = p.Index
  <2> DEFINE S == seen'
  <2>1. p \in S /\ (\A q \in S : Regular(q)) /\ list \in Seq(S)
    BY <1>1
  <2> HIDE DEF S
  <2>2. /\ \A q \in S : Regular(q)
        /\ list \in Seq(S) /\ p \in S
        /\ Ordered(list) /\ R!Completes(list, p)
    BY <1>2, <2>1
  <2>3. a \in Seq(S) /\ \E first \in 1 .. n : CutAt(list, p, first, a)
    BY <2>2, AssembledPacks
  <2> QED
    BY <2>3, Zenon DEF S, CutAt
<1> HIDE DEF a
<1>4. /\ n \in Nat /\ DOMAIN list = 1 .. n
      /\ \A i \in 1 .. n : Regular(list[i]) /\ list[i] \in seen'
      /\ c \in Nat /\ c > 1
  <2>1. Regular(p)
    BY <1>1
  <2> QED
    BY <1>1, <2>1 DEF Regular
<1> HIDE DEF c, n
<1>5. list' = SubSeq(list, 1, first - 1)
  BY <1>1, <1>2, <1>3 DEF R!ListAfter
<1>6. DOMAIN list' = 1 .. first - 1 /\ \A i \in 1 .. first - 1 : list'[i] = list[i]
  <2> DEFINE left == SubSeq(list, 1, first - 1)
  <2>1. first - 1 \in 0 .. Len(list)
    BY <1>4 DEF n
  <2>2. /\ left \in Seq(seen') /\ Len(left) = first - 1
        /\ \A i \in 1 .. first - 1 : left[i] = list[i]
    BY <1>1, <1>2, <2>1, PrefixIncomplete
  <2> HIDE DEF left
  <2>3. DOMAIN left = 1 .. first - 1
    BY <2>2
  <2> QED
    BY <1>5, <2>2, <2>3 DEF left
<1>7. ASSUME NEW i \in first .. n
      PROVE  list[i] \in ToSet(a)
  <2> DEFINE k == i + 1 - first
  <2>1. k \in 1 .. c - 1 /\ k \in 1 .. c /\ first + k - 1 = i
    BY <1>3, <1>4
  <2> HIDE DEF k
  <2>2. a[k] = list[i] /\ k \in DOMAIN a
    BY <1>3, <2>1
  <2> QED
    BY <2>2 DEF ToSet
<1>8. ASSUME NEW i \in 1 .. c - 1 PROVE Earlier(a[i], a[i + 1])
  <2> DEFINE k == first + i - 1
  <2>1. k \in 1 .. n /\ a[i] = list[k]
    BY <1>3, <1>4
  <2>2. CASE i + 1 = c
    <3>1. Earlier(list[k], p)
      BY <1>1, <1>2, <1>4, <2>1, AppendsAfterAll DEF R!Completes
    <3> QED
      BY <1>3, <2>1, <2>2, <3>1
  <2>3. CASE i + 1 # c
    <3>1. i + 1 \in 1 .. c - 1 /\ first + (i + 1) - 1 = k + 1 /\ k + 1 \in 1 .. n /\ k < k + 1
      BY <1>3, <1>4, <2>3
    <3>2. a[i + 1] = list[k + 1]
      BY <1>3, <3>1
    <3> HIDE DEF k
    <3> QED
      BY <1>2, <1>4, <2>1, <3>1, <3>2 DEF Ordered
  <2> QED
    BY <2>2, <2>3
<1>9. GetType(a[1]) = VIDEO
  <2>1. Regular(a[1])
    BY <1>1, <1>3, <1>4
  <2> QED
    BY <2>1, RegularAccessors
<1>10. /\ Len(fed) \in Nat /\ DOMAIN fed = 1 .. Len(fed)
       /\ Len(fed') = Len(fed) + 1 /\ DOMAIN fed' = 1 .. Len(fed) + 1
       /\ \A i \in DOMAIN fed : fed'[i] = fed[i]
       /\ fed'[Len(fed) + 1].packs = a
  BY <1>1, <1>9, FeedEffect
<1>11. first \in first .. n
  BY <1>4
<1> QED
  BY <1>3, <1>6, <1>7, <1>8, <1>10, <1>11 DEF a, c, n, list
LEMMA HeldStep ==
    ASSUME ListInv, FedIsSeq, [Next]_vars,
           NEW q \in ToSet(recved_uncomplete_list) \ ToSet(recved_uncomplete_list')
    PROVE  fed' # fed /\ q \in ToSet(Last(fed').packs)
<1> DEFINE list == recved_uncomplete_list
<1>1. PICK k \in DOMAIN list : q = list[k]
  BY DEF ToSet
<1>2. list' # list
  OBVIOUS
<1>3. PICK p \in InFlight : HandleRecv(p) /\ IsSmallPack(p)
  BY <1>2, Zenon DEF Next, vars, ServerRecv, ServerSendFrame, Open, PostSendLeave,
                    Close, Stop, HandleOpen, StartSend, HandleTimer,
                    HandleClose, HandleRecv, HandleRecvStopped, recvVars
<1>4. list' = R!ListAfter(list, p) /\ list \in Seq(seen') /\ p \in seen'
  BY <1>3, RegroupGiven
<1>5. R!Completes(list, p)
  <2>1. CASE ~R!Completes(list, p) /\ R!Appends(list, p)
    <3> HIDE DEF list
    <3>1. list' = Append(list, p)
      BY <1>4, <2>1 DEF R!ListAfter
    <3>2. k \in DOMAIN Append(list, p) /\ Append(list, p)[k] = list[k]
      BY <1>1, <1>4
    <3>3. q \in ToSet(list')
      BY <1>1, <3>1, <3>2 DEF ToSet
    <3> QED
      BY <3>3 DEF list
  <2>2. CASE ~R!Completes(list, p) /\ ~R!Appends(list, p)
    BY <1>2, <1>4, <2>2 DEF R!ListAfter
  <2> QED
    BY <2>1, <2>2
<1> DEFINE a == R!Assembled(list, p)
<1>6. PICK first \in 1 .. Len(list) :
         /\ DOMAIN list' = 1 .. first - 1
         /\ \A i \in 1 .. first - 1 : list'[i] = list[i]
         /\ \A i \in first .. Len(list) : list[i] \in ToSet(a)
         /\ Len(fed) \in Nat /\ Len(fed') = Len(fed) + 1
         /\ fed'[Len(fed) + 1].packs = a
  BY <1>3, <1>5, RegroupFeeds
<1>7. k \in 1 .. Len(list) /\ Len(list) \in Nat
  BY <1>1, <1>4
<1>8. k \notin 1 .. first - 1
  BY <1>1, <1>6 DEF ToSet
<1>9. q \in ToSet(a)
  BY <1>1, <1>6, <1>7, <1>8
<1>10. fed' # fed
  BY <1>6
<1> QED
  BY <1>6, <1>9, <1>10 DEF Last

\* No pack is ever thrown away: one that leaves the list is in the packet
\* that the decoder is fed in the same step, for every stream.
THEOREM HeldPacksAreFed == Spec => HeldUntilFed
<1>1. ListInv /\ FedIsSeq /\ [Next]_vars =>
        [\A p \in ToSet(recved_uncomplete_list) \ ToSet(recved_uncomplete_list') :
            fed' # fed /\ p \in ToSet(Last(fed').packs)]_vars
  BY HeldStep
<1> QED
  BY <1>1, ListInvariant, FedSeqInvariant, PTL DEF Spec, HeldUntilFed

-----------------------------------------------------------------------------
\* Pack numbers that rise from 1 at least are at least their positions.
LEMMA PacksRise ==
    ASSUME NEW c \in Nat, c > 1, NEW a,
           \A i \in 1 .. c : Regular(a[i]) /\ a[i].Index = a[c].Index,
           \A i \in 1 .. c - 1 : Earlier(a[i], a[i + 1])
    PROVE  \A i \in 1 .. c : a[i].sID >= i
<1> DEFINE low == {i \in 1 .. c : a[i].sID < i}
           m == R!Min(low)
<1> SUFFICES ASSUME low # {} PROVE FALSE
  <2> SUFFICES ASSUME NEW i \in 1 .. c PROVE a[i].sID >= i
    OBVIOUS
  <2>1. Regular(a[i])
    OBVIOUS
  <2>2. a[i].sID \in Nat
    BY <2>1 DEF Regular
  <2> QED
    BY <2>2
<1>1. low \in SUBSET Nat
  OBVIOUS
<1>2. m \in low /\ \A y \in low : m <= y
  BY <1>1, MinIsIn
<1> HIDE DEF m
<1>3. m \in 1 .. c /\ a[m].sID < m
  BY <1>2
<1>4. \A i \in 1 .. c : a[i].sID \in Nat /\ a[i].sID >= 1 /\ GetSmallId(a[i]) = a[i].sID
                        /\ GetId(a[i]) = a[i].Index /\ a[i].Index \in Nat
  <2> SUFFICES ASSUME NEW i \in 1 .. c
               PROVE  /\ a[i].sID \in Nat /\ a[i].sID >= 1 /\ a[i].Index \in Nat
                      /\ GetSmallId(a[i]) = a[i].sID /\ GetId(a[i]) = a[i].Index
    OBVIOUS
  <2>1. Regular(a[i])
    OBVIOUS
  <2>2. a[i].sID \in Nat /\ a[i].sID >= 1 /\ a[i].Index \in Nat
    BY <2>1 DEF Regular
  <2> QED
    BY <2>1, <2>2, RegularAccessors
<1>5. m # 1
  BY <1>3, <1>4
<1> DEFINE k == m - 1
<1>6. k \in 1 .. c - 1 /\ k \in 1 .. c /\ k + 1 = m /\ k < m
  BY <1>3, <1>5
<1> HIDE DEF k
<1>7. a[k].sID >= k
  <2>1. k \notin low
    BY <1>2, <1>3, <1>6
  <2> QED
    BY <1>4, <1>6, <2>1
<1>8. a[k].sID < a[m].sID
  <2>1. Earlier(a[k], a[m])
    BY <1>6
  <2>2. a[k].Index = a[m].Index /\ a[m].Index \in Nat
    BY <1>3, <1>4, <1>6
  <2> QED
    BY <1>3, <1>4, <1>6, <2>1, <2>2 DEF Earlier
<1>9. k \in Nat /\ m \in Nat /\ a[k].sID \in Nat /\ a[m].sID \in Nat
  BY <1>3, <1>4, <1>6
<1> QED
  BY <1>3, <1>6, <1>7, <1>8, <1>9

LEMMA RegularPlace ==
    ASSUME NEW p, Regular(p)
    PROVE  p.sID \in 1 .. p.sCount
BY DEF Regular

\* The packs of a frame that is whole stand in the places they number: none
\* is before its place, and one after it would push the last one out.
LEMMA PacksInPlace ==
    ASSUME NEW c \in Nat, c > 1, NEW a,
           \A i \in 1 .. c : Regular(a[i]) /\ a[i].Index = a[c].Index,
           \A i \in 1 .. c - 1 : Earlier(a[i], a[i + 1]),
           a[c].sCount = c
    PROVE  \A i \in 1 .. c : a[i].sID = i
<1>1. \A i \in 1 .. c : a[i].sID >= i
  BY PacksRise
<1>2. \A i \in 1 .. c : a[i].sID \in Nat /\ GetSmallId(a[i]) = a[i].sID
                        /\ GetId(a[i]) = a[i].Index /\ a[i].Index \in Nat
  <2> SUFFICES ASSUME NEW i \in 1 .. c
               PROVE  /\ a[i].sID \in Nat /\ a[i].Index \in Nat
                      /\ GetSmallId(a[i]) = a[i].sID /\ GetId(a[i]) = a[i].Index
    OBVIOUS
  <2>1. Regular(a[i])
    OBVIOUS
  <2> QED
    BY <2>1, RegularAccessors DEF Regular
\* Positions are counted from the end, so that the last one out of place has
\* the least number.
<1> DEFINE out == {k \in 0 .. c - 1 : a[c - k].sID > c - k}
           m == R!Min(out)
<1>3. out = {}
  <2> SUFFICES ASSUME out # {} PROVE FALSE
    OBVIOUS
  <2>1. out \in SUBSET Nat
    OBVIOUS
  <2>2. m \in out /\ \A y \in out : m <= y
    BY <2>1, MinIsIn
  <2> HIDE DEF m
  <2>3. m \in 0 .. c - 1 /\ a[c - m].sID > c - m
    BY <2>2
  <2>4. m # 0
    <3>1. Regular(a[c])
      <4>1. c \in 1 .. c
        OBVIOUS
      <4> QED
        BY <4>1
    <3>2. a[c].sID \in 1 .. c
      BY <3>1, RegularPlace
    <3> SUFFICES ASSUME m = 0 PROVE FALSE
      OBVIOUS
    <3>3. c - m = c
      OBVIOUS
    <3>4. a[c].sID > c
      BY <2>3, <3>3
    <3> QED
      BY <3>2, <3>4
  <2> DEFINE k == c - m
  <2>5. k \in 1 .. c - 1 /\ k \in 1 .. c /\ k + 1 \in 1 .. c
        /\ k + 1 = c - (m - 1) /\ m - 1 \in 0 .. c - 1 /\ ~(m <= m - 1)
    BY <2>3, <2>4
  <2>6. a[k].sID > k
    BY <2>3
  <2> HIDE DEF k
  <2>7. a[k].sID < a[k + 1].sID
    <3>1. Earlier(a[k], a[k + 1])
      BY <2>5
    <3>2. a[k].Index = a[k + 1].Index
      BY <2>5
    <3>3. /\ GetId(a[k]) = a[k].Index /\ GetId(a[k + 1]) = a[k + 1].Index
          /\ GetSmallId(a[k]) = a[k].sID /\ GetSmallId(a[k + 1]) = a[k + 1].sID
          /\ a[k].Index \in Nat /\ a[k + 1].Index \in Nat
      BY <1>2, <2>5
    <3> QED
      BY <3>1, <3>2, <3>3 DEF Earlier
  <2>8. a[k].sID \in Nat /\ a[k + 1].sID \in Nat /\ k \in Nat
    BY <1>2, <2>5
  <2>9. a[k + 1].sID > k + 1
    BY <2>6, <2>7, <2>8
  <2>10. m - 1 \in out
    BY <2>5, <2>9
  <2> QED
    BY <2>2, <2>5, <2>10
<1>4. ASSUME NEW i \in 1 .. c PROVE a[i].sID = i
  <2> DEFINE k == c - i
  <2>1. k \in 0 .. c - 1 /\ c - k = i
    OBVIOUS
  <2>2. k \notin out
    BY <1>3
  <2> HIDE DEF k
  <2>3. ~(a[c - k].sID > c - k)
    BY <2>1, <2>2
  <2>4. ~(a[i].sID > i)
    BY <2>1, <2>3
  <2>5. a[i].sID >= i /\ a[i].sID \in Nat
    BY <1>1, <1>2
  <2> QED
    BY <2>4, <2>5
<1> QED
  BY <1>4

(***************************************************************************)
(* As long as no pack has been overtaken, the last pack of every frame     *)
(* that was put together has been seen, so that of its frame nothing but   *)
(* that pack can come again.                                               *)
(***************************************************************************)
FrameOf(packet) == packet.packs[1].Index

Several(packet) == Len(packet.packs) > 1

Passed(given, list, id) ==
    /\ \E q \in given : q.Index = id /\ q.sID = q.sCount
    /\ \A r \in ToSet(list) : r.Index = id => r.sID = r.sCount

FedInv ==
    ~disordered =>
        /\ \A i \in DOMAIN fed :
              Several(fed[i]) => Passed(seen, recved_uncomplete_list, FrameOf(fed[i]))
        /\ \A i, j \in DOMAIN fed :
              i < j /\ Several(fed[i]) /\ Several(fed[j])
                  => FrameOf(fed[i]) < FrameOf(fed[j])

LEMMA SameFrameSameCount ==
    ASSUME NEW p, NEW q, Regular(p), Regular(q), p.Index = q.Index
    PROVE  p.sCount = q.sCount
BY DEF Regular

\* Of a frame that has been passed, a pack that is not behind is the last.
LEMMA PassedPack ==
    ASSUME ListInv, NEW p, Regular(p), NEW id, p.Index = id,
           Passed(seen, recved_uncomplete_list, id),
           ~ \E q \in seen : Earlier(p, q)
    PROVE  p.sID = p.sCount
<1>1. PICK q \in seen : q.Index = id /\ q.sID = q.sCount
  BY DEF Passed
<1>2. Regular(q) /\ q.sCount = p.sCount
  BY <1>1, SameFrameSameCount DEF ListInv
<1>3. ~Earlier(p, q)
  BY <1>1
<1>4. ~(p.sID < q.sID)
  BY <1>1, <1>2, <1>3, RegularAccessors DEF Earlier
<1> QED
  BY <1>1, <1>2, <1>4 DEF Regular

\* A step that feeds nothing and puts nothing but p into the list.
LEMMA QuietFedInv ==
    ASSUME ListInv, FedInv, fed' = fed, NEW p, Regular(p),
           seen \subseteq seen',
           ~disordered' => ~disordered /\ ~ \E q \in seen : Earlier(p, q),
           ToSet(recved_uncomplete_list') \subseteq ToSet(recved_uncomplete_list) \cup {p}
    PROVE  FedInv'
<1>1. SUFFICES ASSUME ~disordered', NEW i \in DOMAIN fed, Several(fed[i])
               PROVE  Passed(seen', recved_uncomplete_list', FrameOf(fed[i]))
  BY DEF FedInv
<1>2. Passed(seen, recved_uncomplete_list, FrameOf(fed[i]))
  BY <1>1 DEF FedInv
<1>3. p.Index = FrameOf(fed[i]) => p.sID = p.sCount
  BY <1>1, <1>2, PassedPack
<1> QED
  BY <1>2, <1>3 DEF Passed
LEMMA CompletingFedInv ==
    ASSUME ListInv, FedIsSeq, FedInv, NEW p \in InFlight, HandleRecv(p),
           IsSmallPack(p), R!Completes(recved_uncomplete_list, p)
    PROVE  FedInv'
<1> DEFINE list == recved_uncomplete_list
           a == R!Assembled(list, p)
           n == Len(fed)
<1> SUFFICES ASSUME ~disordered' PROVE FedInv'
  BY DEF FedInv
<1>1. /\ p \in seen' /\ \A q \in seen' : Regular(q)
      /\ seen' = seen \cup {p} /\ list \in Seq(seen')
      /\ ~disordered /\ ~ \E q \in seen : Earlier(p, q)
  BY RegroupGiven
<1>2. PICK first \in 1 .. Len(list) :
         /\ \A i \in 1 .. first - 1 : list[i].Index # p.Index
         /\ list[first].Index = p.Index
         /\ DOMAIN list' = 1 .. first - 1
         /\ \A i \in 1 .. first - 1 : list'[i] = list[i]
         /\ a \in Seq(seen') /\ Len(a) = p.sCount /\ a[p.sCount] = p
         /\ \A i \in 1 .. p.sCount - 1 : Earlier(a[i], a[i + 1])
         /\ \A i \in 1 .. p.sCount : a[i].Index = p.Index
         /\ n \in Nat /\ DOMAIN fed = 1 .. n
         /\ Len(fed') = n + 1 /\ DOMAIN fed' = 1 .. n + 1
         /\ \A i \in DOMAIN fed : fed'[i] = fed[i]
         /\ fed'[n + 1].packs = a
  BY RegroupFeeds
<1>3. Regular(p) /\ p.sCount \in Nat /\ p.sCount > 1
  BY <1>1 DEF Regular
<1> HIDE DEF a, n
\* Its last pack is p, and none of its packs stays in the list.
<1>4. p.sID = p.sCount
  <2>1. \A i \in 1 .. p.sCount : Regular(a[i])
    BY <1>1, <1>2
  <2> DEFINE c == p.sCount
  <2>2. /\ c \in Nat /\ c > 1
        /\ \A i \in 1 .. c : Regular(a[i]) /\ a[i].Index = a[c].Index
        /\ \A i \in 1 .. c - 1 : Earlier(a[i], a[i + 1])
    BY <1>2, <1>3, <2>1
  <2> HIDE DEF c
  <2>3. a[c].sID >= c
    <3>1. \A i \in 1 .. c : a[i].sID >= i
      BY <2>2, PacksRise
    <3>2. c \in 1 .. c
      BY <2>2
    <3> QED
      BY <3>1, <3>2
  <2> QED
    BY <1>2, <1>3, <2>3 DEF Regular, c
<1>5. ToSet(list') \subseteq ToSet(list) /\ \A r \in ToSet(list') : r.Index # p.Index
  <2>1. 1 .. first - 1 \subseteq DOMAIN list
    BY <1>1
  <2> QED
    BY <1>2, <2>1 DEF ToSet
<1>6. Passed(seen', list', p.Index)
  BY <1>1, <1>4, <1>5 DEF Passed
<1>7. ASSUME NEW id, Passed(seen, list, id) PROVE Passed(seen', list', id)
  BY <1>1, <1>5, <1>7 DEF Passed
\* Its frame comes after all those passed before.
<1>8. ASSUME NEW id, Passed(seen, list, id) PROVE id < p.Index
  <2>1. PICK q \in seen : q.Index = id /\ q.sID = q.sCount
    BY <1>8 DEF Passed
  <2>2. Regular(q) /\ ~Earlier(p, q)
    BY <1>1, <2>1
  <2>3. id <= p.Index
    BY <1>3, <2>1, <2>2, RegularAccessors DEF Earlier, Regular
  <2>4. id # p.Index
    <3> SUFFICES ASSUME id = p.Index PROVE FALSE
      OBVIOUS
    <3> DEFINE r == list[first]
    <3>1. first \in DOMAIN list
      BY <1>1
    <3>2. r \in ToSet(list) /\ Regular(r) /\ r.Index = id
      BY <1>1, <1>2, <3>1 DEF ToSet
    <3>3. r.sID = r.sCount /\ r.sCount = p.sCount
      BY <1>3, <1>8, <3>2, SameFrameSameCount DEF Passed
    <3>4. Earlier(r, p)
      <4>1. \A i \in DOMAIN list : Regular(list[i])
        BY <1>1
      <4> QED
        BY <1>3, <3>1, <4>1, AppendsAfterAll DEF R!Completes
    <3>5. /\ GetId(r) = r.Index /\ GetSmallId(r) = r.sID
          /\ GetId(p) = p.Index /\ GetSmallId(p) = p.sID
      BY <1>3, <3>2, RegularAccessors
    <3>6. p.Index \in Nat
      BY <1>3 DEF Regular
    <3> QED
      BY <1>3, <1>4, <3>2, <3>3, <3>4, <3>5, <3>6 DEF Earlier
  <2> QED
    BY <1>3, <2>1, <2>2, <2>3, <2>4 DEF Regular
<1>9. FrameOf(fed'[n + 1]) = p.Index
  BY <1>2, <1>3 DEF FrameOf
<1>10. \A i \in 1 .. n : Several(fed[i]) => Passed(seen, list, FrameOf(fed[i]))
  BY <1>1, <1>2 DEF FedInv
<1>11. \A i \in DOMAIN fed' :
          Several(fed'[i]) => Passed(seen', list', FrameOf(fed'[i]))
  <2> SUFFICES ASSUME NEW i \in DOMAIN fed', Several(fed'[i])
               PROVE  Passed(seen', list', FrameOf(fed'[i]))
    OBVIOUS
  <2>1. CASE i = n + 1
    BY <1>6, <1>9, <2>1
  <2>2. CASE i \in 1 .. n
    <3>1. fed'[i] = fed[i] /\ Passed(seen, list, FrameOf(fed[i]))
      BY <1>2, <1>10, <2>2
    <3> QED
      BY <1>7, <3>1
  <2> QED
    BY <1>2, <2>1, <2>2
<1>12. ASSUME NEW i \in DOMAIN fed', NEW j \in DOMAIN fed',
              i < j, Several(fed'[i]), Several(fed'[j])
       PROVE  FrameOf(fed'[i]) < FrameOf(fed'[j])
  <2>1. i \in 1 .. n /\ fed'[i] = fed[i]
    BY <1>2, <1>12
  <2>2. CASE j = n + 1
    <3>1. Passed(seen, list, FrameOf(fed[i]))
      BY <1>10, <1>12, <2>1
    <3>2. FrameOf(fed[i]) < p.Index
      BY <1>8, <3>1
    <3> QED
      BY <1>9, <2>1, <2>2, <3>2
  <2>3. CASE j \in 1 .. n
    <3>1. fed'[j] = fed[j] /\ i \in DOMAIN fed /\ j \in DOMAIN fed
      BY <1>2, <2>1, <2>3
    <3> QED
      BY <1>1, <1>12, <2>1, <3>1 DEF FedInv
  <2> QED
    BY <1>2, <2>2, <2>3
<1> QED
  BY <1>11, <1>12 DEF FedInv

LEMMA FedInvNext == ListInv /\ FedIsSeq /\ FedInv /\ [Next]_vars => FedInv'
<1> SUFFICES ASSUME ListInv, FedIsSeq, FedInv, [Next]_vars PROVE FedInv'
  OBVIOUS
<1>1. CASE UNCHANGED recvVars
  BY <1>1 DEF FedInv, recvVars
<1>2. ASSUME NEW p \in InFlight, HandleRecv(p), IsSmallPack(p)
      PROVE  FedInv'
  <2> DEFINE list == recved_uncomplete_list
  <2>1. CASE R!Completes(list, p)
    BY <1>2, <2>1, CompletingFedInv
  <2>2. CASE ~R!Completes(list, p)
    <3>1. /\ p \in seen' /\ \A q \in seen' : Regular(q)
          /\ seen' = seen \cup {p} /\ list \in Seq(seen')
          /\ list' = R!ListAfter(list, p) /\ fed' = fed
          /\ disordered' = (disordered \/ \E q \in seen : Earlier(p, q))
      BY <1>2, <2>2, RegroupGiven
    <3>2. ToSet(list') \subseteq ToSet(list) \cup {p}
      <4> HIDE DEF list
      <4>1. list' = list \/ list' = Append(list, p)
        BY <2>2, <3>1 DEF R!ListAfter
      <4>2. ToSet(Append(list, p)) \subseteq ToSet(list) \cup {p}
        BY <3>1 DEF ToSet
      <4> QED
        BY <4>1, <4>2
    <3> QED
      BY <3>1, <3>2, QuietFedInv
  <2> QED
    BY <2>1, <2>2
<1>3. ASSUME NEW p \in InFlight, HandleRecv(p), ~IsSmallPack(p)
      PROVE  FedInv'
  <2>1. OnGotMediaData(<<p>>) /\ UNCHANGED <<recved_uncomplete_list, seen, disordered>>
    BY <1>3 DEF HandleRecv
  <2> DEFINE packs == <<p>>
  <2>2. Len(packs) = 1
    OBVIOUS
  <2> HIDE DEF packs
  <2>3. CASE fed' = fed
    BY <2>1, <2>3 DEF FedInv
  <2>4. CASE fed' # fed
    <3>1. /\ Len(fed) \in Nat /\ DOMAIN fed = 1 .. Len(fed)
          /\ DOMAIN fed' = 1 .. Len(fed) + 1
          /\ \A i \in DOMAIN fed : fed'[i] = fed[i]
          /\ fed'[Len(fed) + 1].packs = packs
      BY <2>1, <2>4, FeedEffect DEF packs
    <3>2. ~Several(fed'[Len(fed) + 1])
      <4>1. Len(fed'[Len(fed) + 1].packs) = 1
        BY <2>2, <3>1, Zenon
      <4> QED
        BY <4>1 DEF Several
    <3>3. \A i \in DOMAIN fed' : Several(fed'[i]) => i \in DOMAIN fed /\ fed'[i] = fed[i]
      BY <3>1, <3>2
    <3> QED
      BY <2>1, <3>3 DEF FedInv
  <2> QED
    BY <2>3, <2>4
<1>4. CASE Next /\ ~ \E p \in InFlight : HandleRecv(p)
  BY <1>1, <1>4, Zenon DEF Next, ServerRecv, ServerSendFrame, Open, PostSendLeave,
                    Close, Stop, HandleOpen, StartSend, HandleTimer,
                    HandleClose, HandleRecvStopped, recvVars
<1>5. CASE UNCHANGED vars
  BY <1>1, <1>5 DEF vars, recvVars
<1> QED
  BY <1>2, <1>3, <1>4, <1>5 DEF Next

\* Whatever was lost or repeated, the frames put together from packs that
\* were not overtaken reach the decoder once each and in the stream's order.
THEOREM FramesFedInOrder == Spec => []FedInOrder
<1>1. Init => FedInv
  BY DEF Init, FedInv
<1>2. Spec => []FedInv
  BY <1>1, FedInvNext, ListInvariant, FedSeqInvariant, PTL DEF Spec
<1>3. FedInv => FedInOrder
  BY DEF FedInv, FedInOrder, Regrouped, Several, FrameOf, GetId
<1> QED
  BY <1>2, <1>3, PTL

-----------------------------------------------------------------------------
(***************************************************************************)
(* The sum of a sequence of sizes.  The function that TotalSize defines by *)
(* recursion exists and has numbers as its values: a least position where  *)
(* it would not, has a predecessor where it does.                          *)
(***************************************************************************)
Sums(total, sizes, n) ==
    total = [i \in 0 .. n |-> IF i = 0 THEN 0 ELSE total[i - 1] + sizes[i]]

LEMMA SumsExtend ==
    ASSUME NEW sizes, NEW n \in Nat, NEW t, Sums(t, sizes, n)
    PROVE  \E u : Sums(u, sizes, n + 1)
<1> DEFINE u == [i \in 0 .. n + 1 |-> IF i = n + 1 THEN t[n] + sizes[n + 1] ELSE t[i]]
           v == [i \in 0 .. n + 1 |-> IF i = 0 THEN 0 ELSE u[i - 1] + sizes[i]]
<1>1. \A i \in 0 .. n : t[i] = IF i = 0 THEN 0 ELSE t[i - 1] + sizes[i]
  BY DEF Sums
<1>2. ASSUME NEW i \in 0 .. n + 1 PROVE u[i] = v[i]
  <2>1. CASE i = n + 1
    <3>1. i # 0 /\ i - 1 = n /\ i - 1 \in 0 .. n + 1 /\ i - 1 # n + 1
      BY <2>1
    <3>2. u[i - 1] = t[n]
      BY <3>1
    <3> QED
      BY <2>1, <3>1, <3>2
  <2>2. CASE i # n + 1 /\ i # 0
    <3>1. i \in 0 .. n /\ i - 1 \in 0 .. n + 1 /\ i - 1 # n + 1
      BY <2>2
    <3>2. u[i] = t[i] /\ u[i - 1] = t[i - 1]
      BY <2>2, <3>1
    <3>3. t[i] = t[i - 1] + sizes[i]
      BY <1>1, <2>2, <3>1
    <3> QED
      BY <2>2, <3>2, <3>3
  <2>3. CASE i = 0
    <3>1. i \in 0 .. n /\ i # n + 1
      BY <2>3
    <3>2. t[i] = 0
      BY <1>1, <2>3, <3>1
    <3> QED
      BY <2>3, <3>1, <3>2
  <2> QED
    BY <2>1, <2>2, <2>3
<1>3. u = v
  BY <1>2
<1>4. Sums(u, sizes, n + 1)
  BY <1>3 DEF Sums
<1> QED
  BY <1>4

LEMMA SumsExist ==
    ASSUME NEW sizes, NEW n \in Nat
    PROVE  \E t : Sums(t, sizes, n)
<1> DEFINE Lacking == {k \in 0 .. n : ~ \E t : Sums(t, sizes, k)}
           m == R!Min(Lacking)
<1> SUFFICES ASSUME Lacking # {} PROVE FALSE
  OBVIOUS
<1>1. Lacking \in SUBSET Nat
  OBVIOUS
<1>2. m \in Lacking /\ \A y \in Lacking : m <= y
  BY <1>1, MinIsIn
<1> HIDE DEF m
<1>3. m \in 0 .. n /\ ~ \E t : Sums(t, sizes, m)
  BY <1>2
<1>4. m # 0
  <2> DEFINE z == [i \in 0 .. 0 |-> 0]
  <2>1. z = [i \in 0 .. 0 |-> IF i = 0 THEN 0 ELSE z[i - 1] + sizes[i]]
    OBVIOUS
  <2>2. Sums(z, sizes, 0)
    BY <2>1 DEF Sums
  <2> QED
    BY <1>3, <2>2
<1> DEFINE k == m - 1
<1>5. k \in 0 .. n /\ k \in Nat /\ k + 1 = m /\ ~(m <= k)
  BY <1>3, <1>4
<1> HIDE DEF k
<1>6. \E t : Sums(t, sizes, k)
  BY <1>2, <1>5
<1>7. \E u : Sums(u, sizes, k + 1)
  BY <1>5, <1>6, SumsExtend
<1> QED
  BY <1>3, <1>5, <1>7

LEMMA SumsAreNat ==
    ASSUME NEW n \in Nat, NEW sizes, \A i \in 1 .. n : sizes[i] \in Nat,
           NEW t, Sums(t, sizes, n)
    PROVE  \A i \in 0 .. n : t[i] \in Nat
<1> DEFINE Bad == {k \in 0 .. n : t[k] \notin Nat}
           m == R!Min(Bad)
<1> SUFFICES ASSUME Bad # {} PROVE FALSE
  OBVIOUS
<1>1. Bad \in SUBSET Nat
  OBVIOUS
<1>2. m \in Bad /\ \A y \in Bad : m <= y
  BY <1>1, MinIsIn
<1> HIDE DEF m
<1>3. m \in 0 .. n /\ t[m] \notin Nat
  BY <1>2
<1>4. t[m] = IF m = 0 THEN 0 ELSE t[m - 1] + sizes[m]
  BY <1>3 DEF Sums
<1>5. m # 0
  BY <1>3, <1>4
<1> DEFINE k == m - 1
<1>6. k \in 0 .. n /\ k = m - 1 /\ ~(m <= k) /\ m \in 1 .. n
  BY <1>3, <1>5
<1> HIDE DEF k
<1>7. t[k] \in Nat
  BY <1>2, <1>6
<1> QED
  BY <1>3, <1>4, <1>5, <1>6, <1>7

LEMMA TotalSizeType ==
    ASSUME NEW sizes \in Seq(Nat)
    PROVE  TotalSize(sizes) \in Nat
<1> DEFINE n == Len(sizes)
           t == CHOOSE u : Sums(u, sizes, n)
<1>1. n \in Nat /\ n \in 0 .. n /\ \A i \in 1 .. n : sizes[i] \in Nat
  OBVIOUS
<1>2. TotalSize(sizes) = t[n]
  BY DEF TotalSize, Sums
<1> HIDE DEF n
<1>3. \E u : Sums(u, sizes, n)
  BY <1>1, SumsExist
<1>4. Sums(t, sizes, n)
  BY <1>3, Zenon
<1> HIDE DEF t
<1>5. t[n] \in Nat
  BY <1>1, <1>4, SumsAreNat
<1> QED
  BY <1>2, <1>5

-----------------------------------------------------------------------------
(***************************************************************************)
(* Frames and the packs the server cuts them into.                         *)
(***************************************************************************)
LEMMA FrameType ==
    ASSUME NEW f \in DOMAIN Frames
    PROVE  /\ f \in Nat
           /\ Frames[f].type \in {AUDIO, VIDEO}
           /\ Frames[f].sizes \in Seq(Nat)
           /\ Len(Frames[f].sizes) \in Nat /\ Len(Frames[f].sizes) >= 1
           /\ DOMAIN Frames[f].sizes = 1 .. Len(Frames[f].sizes)
           /\ FrameSize(f) \in Nat
<1>1. f \in 1 .. Len(Frames) /\ f \in Nat
  BY FramesAssumption
<1>2. Frames[f] \in [type : {AUDIO, VIDEO}, sizes : Seq(Nat) \ {<<>>}]
  BY <1>1, FramesAssumption, ElementOfSeq
<1>3. Frames[f].type \in {AUDIO, VIDEO} /\ Frames[f].sizes \in Seq(Nat) \ {<<>>}
  BY <1>2
<1> DEFINE s == Frames[f].sizes
<1>4. s \in Seq(Nat) /\ s # <<>>
  BY <1>3
<1>5. FrameSize(f) \in Nat
  BY <1>4, TotalSizeType DEF FrameSize
<1> HIDE DEF s
<1>6. Len(s) \in Nat /\ Len(s) >= 1 /\ DOMAIN s = 1 .. Len(s)
  BY <1>4, EmptySeq
<1> QED
  BY <1>1, <1>3, <1>4, <1>5, <1>6 DEF s

\* The pack at a place of a video frame.
PackAt(f, i) ==
    [type |-> VIDEO, Index |-> f, sID |-> i, sCount |-> Len(Frames[f].sizes),
     sSize |-> Frames[f].sizes[i], FrameSize |-> FrameSize(f)]

LEMMA VideoFramePacks ==
    ASSUME NEW f \in DOMAIN Frames, Frames[f].type = VIDEO
    PROVE  /\ PacksOf(f) = [i \in 1 .. Len(Frames[f].sizes) |-> PackAt(f, i)]
           /\ PacksOf(f) \in Seq(VideoPacks)
           /\ Len(PacksOf(f)) = Len(Frames[f].sizes)
           /\ DataSize(PacksOf(f)) = FrameSize(f)
<1> DEFINE s == Frames[f].sizes
           c == Len(s)
<1>1. /\ f \in Nat /\ s \in Seq(Nat) /\ c \in Nat /\ c >= 1 /\ DOMAIN s = 1 .. c
      /\ FrameSize(f) \in Nat
  BY FrameType
<1>2. PacksOf(f) = [i \in 1 .. c |-> PackAt(f, i)]
  BY <1>1 DEF PacksOf, PackAt
<1>3. \A i \in 1 .. c : PackAt(f, i) \in VideoPacks
  <2> SUFFICES ASSUME NEW i \in 1 .. c PROVE PackAt(f, i) \in VideoPacks
    OBVIOUS
  <2>1. s[i] \in Nat /\ i \in Nat
    BY <1>1
  <2> QED
    BY <1>1, <2>1 DEF PackAt, VideoPacks
<1> HIDE DEF c
<1>4. PacksOf(f) \in Seq(VideoPacks) /\ Len(PacksOf(f)) = c /\ DOMAIN PacksOf(f) = 1 .. c
  BY <1>1, <1>2, <1>3
<1>5. [i \in DOMAIN PacksOf(f) |-> GetDataSize(PacksOf(f)[i])] = s
  <2>1. \A i \in 1 .. c : GetDataSize(PacksOf(f)[i]) = s[i]
    BY <1>2 DEF GetDataSize, PackAt
  <2>2. s = [i \in 1 .. c |-> s[i]]
    BY <1>1
  <2> HIDE DEF s
  <2> QED
    BY <1>4, <2>1, <2>2
<1>6. DataSize(PacksOf(f)) = FrameSize(f)
  BY <1>5 DEF DataSize, FrameSize
<1> QED
  BY <1>2, <1>4, <1>6 DEF c

\* Every video pack on the network is the one its header says it is.
IsPiece(p) ==
    /\ p.Index \in DOMAIN Frames /\ Frames[p.Index].type = VIDEO
    /\ p.sID \in 1 .. Len(Frames[p.Index].sizes)
    /\ p = PackAt(p.Index, p.sID)

LEMMA InFlightPiece ==
    ASSUME streamed \in 0 .. Len(Frames), NEW p \in InFlight, GetType(p) = VIDEO
    PROVE  IsPiece(p)
<1>1. PICK f \in 1 .. streamed : p \in ToSet(PacksOf(f))
  BY DEF InFlight
<1>2. PICK i \in DOMAIN PacksOf(f) : p = PacksOf(f)[i]
  BY <1>1 DEF ToSet
<1>3. f \in DOMAIN Frames
  BY FramesAssumption
<1>4. i \in 1 .. Len(Frames[f].sizes)
  BY <1>2, <1>3, FrameType DEF PacksOf
<1>5. p.type = VIDEO
  BY DEF GetType
<1>6. Frames[f].type = VIDEO
  <2> SUFFICES ASSUME Frames[f].type # VIDEO PROVE FALSE
    OBVIOUS
  <2>1. p.type = AUDIO
    BY <1>2, <1>3, FrameType DEF PacksOf
  <2> QED
    BY <1>5, <2>1 DEF AUDIO, VIDEO
<1>7. p = PackAt(f, i)
  BY <1>2, <1>3, <1>4, <1>6, VideoFramePacks
<1>8. p.Index = f /\ p.sID = i
  BY <1>7 DEF PackAt
<1> QED
  BY <1>3, <1>4, <1>6, <1>7, <1>8 DEF IsPiece

LEMMA PieceIsPack ==
    ASSUME NEW p, IsPiece(p)
    PROVE  /\ p \in VideoPacks
           /\ p = PacksOf(p.Index)[p.sID]
           /\ p.sCount = Len(Frames[p.Index].sizes)
           /\ GetType(p) = VIDEO
<1> DEFINE f == p.Index
           i == p.sID
<1>1. f \in DOMAIN Frames /\ Frames[f].type = VIDEO /\ i \in 1 .. Len(Frames[f].sizes)
      /\ p = PackAt(f, i)
  BY DEF IsPiece
<1> HIDE DEF f, i
<1>2. /\ PacksOf(f) = [k \in 1 .. Len(Frames[f].sizes) |-> PackAt(f, k)]
      /\ PacksOf(f) \in Seq(VideoPacks) /\ Len(PacksOf(f)) = Len(Frames[f].sizes)
  BY <1>1, VideoFramePacks
<1>3. p = PacksOf(f)[i]
  BY <1>1, <1>2
<1>4. p \in VideoPacks
  BY <1>1, <1>2, <1>3, ElementOfSeq
<1>5. p.sCount = Len(Frames[f].sizes) /\ p.type = VIDEO
  BY <1>1 DEF PackAt
<1> QED
  BY <1>3, <1>4, <1>5 DEF f, i, GetType

(***************************************************************************)
(* The inductive invariant: what RegroupPack was given are packs of video  *)
(* frames, and what was fed are video frames.                              *)
(***************************************************************************)
WholeFrames ==
    {[packs |-> PacksOf(f), data_len |-> FrameSize(f) % Width] :
        f \in {g \in DOMAIN Frames : Frames[g].type = VIDEO}}

WholeInv ==
    /\ \A q \in seen : IsPiece(q)
    /\ fed \in Seq(WholeFrames)

\* Feeding the packs of a video frame.
LEMMA FeedWhole ==
    ASSUME fed \in Seq(WholeFrames), NEW f \in DOMAIN Frames,
           Frames[f].type = VIDEO, OnGotMediaData(PacksOf(f))
    PROVE  fed' \in Seq(WholeFrames)
<1> DEFINE packs == PacksOf(f)
           x == [packs |-> packs, data_len |-> DataSize(packs) % Width]
<1>1. fed' = Append(fed, x) \/ fed' = fed
  BY Zenon DEF OnGotMediaData
<1>2. DataSize(packs) = FrameSize(f)
  BY VideoFramePacks
<1>3. x \in WholeFrames
  BY <1>2 DEF WholeFrames
<1> HIDE DEF x
<1> QED
  BY <1>1, <1>3, AppendProperties

\* A call that completes a frame has put its packs together.
LEMMA CompletingWhole ==
    ASSUME ListInv, WholeInv, NEW p \in InFlight, HandleRecv(p),
           IsSmallPack(p), R!Completes(recved_uncomplete_list, p)
    PROVE  WholeInv'
<1> DEFINE list == recved_uncomplete_list
           a == R!Assembled(list, p)
           c == p.sCount
           f == p.Index
<1>0. FedIsSeq
  BY DEF WholeInv, FedIsSeq
<1>1. /\ p \in seen' /\ (\A q \in seen' : Regular(q)) /\ seen' = seen \cup {p}
      /\ OnGotMediaData(a)
  BY RegroupGiven
<1>2. IsPiece(p)
  BY InFlightPiece DEF ListInv, OrderInv, IsSmallPack, GetType
<1>3. \A q \in seen' : IsPiece(q)
  BY <1>1, <1>2 DEF WholeInv
<1>4. /\ a \in Seq(seen') /\ Len(a) = c /\ a[c] = p
      /\ \A i \in 1 .. c - 1 : Earlier(a[i], a[i + 1])
      /\ \A i \in 1 .. c : a[i].Index = p.Index
  BY <1>0, RegroupFeeds
<1>5. Regular(p) /\ c \in Nat /\ c > 1
  BY <1>1 DEF Regular
<1> HIDE DEF a, c
<1>6. \A i \in 1 .. c : a[i] \in seen' /\ Regular(a[i]) /\ IsPiece(a[i])
  BY <1>1, <1>3, <1>4
<1>7. \A i \in 1 .. c : a[i].sID = i
  <2>1. \A i \in 1 .. c : Regular(a[i]) /\ a[i].Index = a[c].Index
    BY <1>4, <1>6
  <2>2. a[c].sCount = c
    BY <1>4 DEF c
  <2> QED
    BY <1>4, <1>5, <2>1, <2>2, PacksInPlace
<1> HIDE DEF f
<1>8. /\ f \in DOMAIN Frames /\ Frames[f].type = VIDEO /\ c = Len(Frames[f].sizes)
  BY <1>2, PieceIsPack DEF IsPiece, f, c
<1>9. PacksOf(f) \in Seq(VideoPacks) /\ Len(PacksOf(f)) = c
  BY <1>8, VideoFramePacks
<1>10. ASSUME NEW i \in 1 .. c PROVE a[i] = PacksOf(f)[i]
  <2>1. IsPiece(a[i]) /\ a[i].Index = f /\ a[i].sID = i
    BY <1>4, <1>6, <1>7 DEF f
  <2> QED
    BY <2>1, PieceIsPack
<1>11. a = PacksOf(f)
  <2> DEFINE b == PacksOf(f)
             S == seen' \cup VideoPacks
  <2> HIDE DEF b
  <2>1. a \in Seq(S) /\ b \in Seq(S) /\ Len(a) = Len(b)
        /\ \A i \in 1 .. Len(a) : a[i] = b[i]
    BY <1>4, <1>9, <1>10 DEF b
  <2> HIDE DEF S
  <2>2. a = b
    BY <2>1, SeqEqual
  <2> QED
    BY <2>2 DEF b
<1>12. OnGotMediaData(PacksOf(f))
  BY <1>1, <1>11
<1>13. fed' \in Seq(WholeFrames)
  BY <1>8, <1>12, FeedWhole DEF WholeInv
<1> QED
  BY <1>3, <1>13 DEF WholeInv

\* A video pack that is not small is its frame.
LEMMA LoneWhole ==
    ASSUME ListInv, WholeInv, NEW p \in InFlight, HandleRecv(p), ~IsSmallPack(p)
    PROVE  WholeInv'
<1> DEFINE packs == <<p>>
<1>1. OnGotMediaData(packs) /\ seen' = seen
  BY DEF HandleRecv
<1>2. packs[1] = p
  OBVIOUS
<1>3. CASE GetType(p) # VIDEO
  <2>1. fed' = fed
    BY <1>1, <1>2, <1>3 DEF OnGotMediaData
  <2> QED
    BY <1>1, <2>1 DEF WholeInv
<1>4. CASE GetType(p) = VIDEO
  <2> DEFINE f == p.Index
  <2>1. IsPiece(p)
    BY <1>4, InFlightPiece DEF ListInv, OrderInv
  <2> HIDE DEF f
  <2>2. /\ f \in DOMAIN Frames /\ Frames[f].type = VIDEO
        /\ p.sCount = Len(Frames[f].sizes) /\ p.sID \in 1 .. p.sCount
        /\ p = PacksOf(f)[p.sID]
    BY <2>1, PieceIsPack DEF IsPiece, f
  <2>3. p.sCount = 1
    <3>1. ~(p.sCount > 1)
      BY <1>4 DEF IsSmallPack, GetType
    <3>2. Len(Frames[f].sizes) \in Nat /\ Len(Frames[f].sizes) >= 1
      BY <2>2, FrameType
    <3>3. p.sCount = Len(Frames[f].sizes)
      BY <2>2
    <3>4. p.sCount \in Nat /\ p.sCount >= 1
      BY ONLY <3>2, <3>3
    <3> QED
      BY ONLY <3>1, <3>4
  <2>4. p.sID = 1
    BY <2>2, <2>3
  <2> DEFINE b == PacksOf(f)
  <2>5. b \in Seq(VideoPacks) /\ Len(b) = 1 /\ b[1] = p
    BY <2>2, <2>3, <2>4, VideoFramePacks
  <2> HIDE DEF b
  <2>6. packs = b
    <3>1. p \in VideoPacks
      BY <2>1, PieceIsPack
    <3>2. packs \in Seq(VideoPacks) /\ Len(packs) = 1
      BY <3>1
    <3> HIDE DEF packs
    <3>3. \A i \in 1 .. Len(packs) : packs[i] = b[i]
      BY <1>2, <2>5, <3>2
    <3> QED
      BY <2>5, <3>2, <3>3, SeqEqual
  <2>7. OnGotMediaData(PacksOf(f))
    BY <1>1, <2>6 DEF b
  <2>8. fed' \in Seq(WholeFrames)
    BY <2>2, <2>7, FeedWhole DEF WholeInv
  <2> QED
    BY <1>1, <2>8 DEF WholeInv
<1> QED
  BY <1>3, <1>4

LEMMA WholeNext == ListInv /\ WholeInv /\ [Next]_vars => WholeInv'
<1> SUFFICES ASSUME ListInv, WholeInv, [Next]_vars PROVE WholeInv'
  OBVIOUS
<1>1. CASE UNCHANGED recvVars
  BY <1>1 DEF WholeInv, recvVars
<1>2. ASSUME NEW p \in InFlight, HandleRecv(p), IsSmallPack(p),
             ~R!Completes(recved_uncomplete_list, p)
      PROVE  WholeInv'
  <2>1. seen' = seen \cup {p} /\ fed' = fed
    BY <1>2, RegroupGiven
  <2>2. IsPiece(p)
    BY <1>2, InFlightPiece DEF ListInv, OrderInv, IsSmallPack, GetType
  <2> QED
    BY <2>1, <2>2 DEF WholeInv
<1>3. ASSUME NEW p \in InFlight, HandleRecv(p)
      PROVE  WholeInv'
  BY <1>2, <1>3, CompletingWhole, LoneWhole, Zenon
<1>4. CASE Next /\ ~ \E p \in InFlight : HandleRecv(p)
  BY <1>1, <1>4, Zenon DEF Next, ServerRecv, ServerSendFrame, Open, PostSendLeave,
                    Close, Stop, HandleOpen, StartSend, HandleTimer,
                    HandleClose, HandleRecvStopped, recvVars
<1>5. CASE UNCHANGED vars
  BY <1>1, <1>5 DEF vars, recvVars
<1> QED
  BY <1>3, <1>4, <1>5

LEMMA WholeInvariant == Spec => []WholeInv
<1>1. Init => WholeInv
  BY EmptySeq DEF Init, WholeInv
<1> QED
  BY <1>1, WholeNext, ListInvariant, PTL DEF Spec

\* Whatever the network does, the decoder is fed whole video frames, with the
\* low sixteen bits of their lengths.
THEOREM WholeFramesFed == Spec => []FramesFedWhole
<1>1. WholeInv => FramesFedWhole
  <2> SUFFICES ASSUME WholeInv, NEW i \in DOMAIN fed
               PROVE  LET packs == fed[i].packs
                          size  == GetFrameSize(packs[1])
                      IN  /\ packs \in {PacksOf(f) : f \in DOMAIN Frames}
                          /\ GetType(packs[1]) = VIDEO
                          /\ fed[i].data_len = size % Width
    BY DEF FramesFedWhole
  <2>1. fed[i] \in WholeFrames
    BY DEF WholeInv
  <2>2. PICK f \in DOMAIN Frames :
           /\ Frames[f].type = VIDEO
           /\ fed[i] = [packs |-> PacksOf(f), data_len |-> FrameSize(f) % Width]
    BY <2>1 DEF WholeFrames
  <2>3. fed[i].packs = PacksOf(f) /\ fed[i].data_len = FrameSize(f) % Width
    BY <2>2
  <2>4. PacksOf(f)[1] = PackAt(f, 1)
    <3>1. 1 \in 1 .. Len(Frames[f].sizes)
      BY FrameType
    <3> QED
      BY <2>2, <3>1, VideoFramePacks
  <2>5. GetType(PackAt(f, 1)) = VIDEO /\ GetFrameSize(PackAt(f, 1)) = FrameSize(f)
    BY DEF GetType, GetFrameSize, PackAt
  <2> QED
    BY <2>3, <2>4, <2>5
<1> QED
  BY <1>1, WholeInvariant, PTL

-----------------------------------------------------------------------------
(***************************************************************************)
(* The bytes of a frame in the list.  Summed up along the list, the packs  *)
(* of a frame that were met never weigh more than the frame's packs up to  *)
(* the last one met, since their numbers rise.                             *)
(***************************************************************************)
LEMMA TotalSizeIs ==
    ASSUME NEW sizes \in Seq(Nat)
    PROVE  \E t : /\ Sums(t, sizes, Len(sizes))
                 /\ TotalSize(sizes) = t[Len(sizes)]
<1> DEFINE n == Len(sizes)
           t == CHOOSE u : Sums(u, sizes, n)
<1>1. TotalSize(sizes) = t[n]
  BY DEF TotalSize, Sums
<1>2. n \in Nat
  OBVIOUS
<1> HIDE DEF n
<1>3. \E u : Sums(u, sizes, n)
  BY <1>2, SumsExist
<1>4. Sums(t, sizes, n)
  BY <1>3, Zenon
<1> HIDE DEF t
<1> QED
  BY <1>1, <1>4 DEF n

LEMMA SumsStep ==
    ASSUME NEW n \in Nat, NEW sizes, NEW t, Sums(t, sizes, n)
    PROVE  t[0] = 0 /\ \A i \in 1 .. n : t[i] = t[i - 1] + sizes[i]
<1>1. \A i \in 0 .. n : t[i] = IF i = 0 THEN 0 ELSE t[i - 1] + sizes[i]
  BY DEF Sums
<1>2. 0 \in 0 .. n /\ \A i \in 1 .. n : i \in 0 .. n /\ i # 0
  OBVIOUS
<1> QED
  BY <1>1, <1>2

LEMMA SumsRise ==
    ASSUME NEW n \in Nat, NEW sizes, \A i \in 1 .. n : sizes[i] \in Nat,
           NEW t, Sums(t, sizes, n), NEW i \in 0 .. n
    PROVE  \A j \in i .. n : t[i] <= t[j]
<1>1. \A k \in 0 .. n : t[k] \in Nat
  BY SumsAreNat
<1> DEFINE Bad == {j \in i .. n : ~(t[i] <= t[j])}
           m == R!Min(Bad)
<1> SUFFICES ASSUME Bad # {} PROVE FALSE
  OBVIOUS
<1>2. Bad \in SUBSET Nat
  OBVIOUS
<1>3. m \in Bad /\ \A y \in Bad : m <= y
  BY <1>2, MinIsIn
<1> HIDE DEF m
<1>4. m \in i .. n /\ ~(t[i] <= t[m])
  BY <1>3
<1>5. m # i
  BY <1>1, <1>4
<1> DEFINE k == m - 1
<1>6. k \in i .. n /\ k \in 0 .. n /\ k = m - 1 /\ ~(m <= k) /\ m \in 1 .. n /\ m \in 0 .. n
  BY <1>4, <1>5
<1> HIDE DEF k
<1>7. t[i] <= t[k]
  BY <1>3, <1>6
<1>8. t[m] = t[k] + sizes[m] /\ sizes[m] \in Nat
  BY <1>6, SumsStep
<1> QED
  BY <1>1, <1>4, <1>6, <1>7, <1>8

LEMMA HeldSizeBound ==
    ASSUME NEW S, \A q \in S : IsPiece(q), NEW list \in Seq(S), Ordered(list),
           NEW f \in DOMAIN Frames, Frames[f].type = VIDEO
    PROVE  HeldSize(list, f) <= FrameSize(f)
<1> DEFINE n == Len(list)
           s == Frames[f].sizes
           c == Len(s)
           held == [i \in DOMAIN list |->
                      IF GetId(list[i]) = f THEN GetDataSize(list[i]) ELSE 0]
<1>1. n \in Nat /\ DOMAIN list = 1 .. n /\ \A i \in 1 .. n : IsPiece(list[i])
  OBVIOUS
<1>2. f \in Nat /\ s \in Seq(Nat) /\ c \in Nat /\ DOMAIN s = 1 .. c
  BY FrameType
<1> HIDE DEF n, s, c, held
<1>3. \A i \in 1 .. c : s[i] \in Nat
  BY <1>2
<1>4. ASSUME NEW i \in 1 .. n
      PROVE  /\ list[i].Index \in Nat /\ GetId(list[i]) = list[i].Index
             /\ GetSmallId(list[i]) = list[i].sID
             /\ list[i].Index = f =>
                  list[i].sID \in 1 .. c /\ GetDataSize(list[i]) = s[list[i].sID]
  <2> DEFINE q == list[i]
  <2>1. IsPiece(q)
    BY <1>1
  <2> HIDE DEF q
  <2>2. q.Index \in DOMAIN Frames /\ q.sID \in 1 .. Len(Frames[q.Index].sizes)
        /\ q = PackAt(q.Index, q.sID)
    BY <2>1 DEF IsPiece
  <2>3. q.type = VIDEO /\ q.sSize = Frames[q.Index].sizes[q.sID]
    BY <2>2 DEF PackAt
  <2>4. q.Index \in Nat
    BY <2>2, FrameType
  <2>5. q.Index = f => q.sID \in 1 .. c /\ q.sSize = s[q.sID]
    BY <2>2, <2>3 DEF c, s
  <2> QED
    BY <2>3, <2>4, <2>5 DEF GetId, GetSmallId, GetDataSize, q
<1>5. /\ DOMAIN held = 1 .. n
      /\ \A i \in 1 .. n :
           /\ list[i].Index = f => held[i] = s[list[i].sID]
           /\ list[i].Index # f => held[i] = 0
  BY <1>1, <1>4 DEF held
<1>6. \A i \in 1 .. n : held[i] \in Nat
  BY <1>3, <1>4, <1>5
<1>7. held \in Seq(Nat) /\ Len(held) = n
  <2>1. held = [i \in 1 .. n |-> held[i]]
    BY <1>1 DEF held
  <2>2. held \in [1 .. n -> Nat]
    BY <1>6, <2>1
  <2> QED
    BY <1>1, <2>2
<1>8. PICK h : Sums(h, held, n) /\ TotalSize(held) = h[n]
  BY <1>7, TotalSizeIs
<1>9. PICK t : Sums(t, s, c) /\ TotalSize(s) = t[c]
  BY <1>2, TotalSizeIs DEF c
<1>10. /\ \A i \in 0 .. n : h[i] \in Nat
       /\ h[0] = 0 /\ \A i \in 1 .. n : h[i] = h[i - 1] + held[i]
  BY <1>1, <1>6, <1>8, SumsAreNat, SumsStep
<1>11. /\ \A i \in 0 .. c : t[i] \in Nat
       /\ t[0] = 0 /\ \A i \in 1 .. c : t[i] = t[i - 1] + s[i]
  BY <1>2, <1>3, <1>9, SumsAreNat, SumsStep
<1>12. \A i \in 0 .. c : \A j \in i .. c : t[i] <= t[j]
  BY <1>2, <1>3, <1>9, SumsRise
<1> DEFINE Met(k, j) == j = 0 \/ \E i \in 1 .. k : list[i].Index = f /\ list[i].sID = j
           Covered(k) == \E j \in 0 .. c : h[k] <= t[j] /\ Met(k, j)
           Bad == {k \in 0 .. n : ~Covered(k)}
           m == R!Min(Bad)
<1>13. Covered(n)
  <2> SUFFICES ASSUME Bad # {} PROVE FALSE
    BY <1>1
  <2>1. Bad \in SUBSET Nat
    OBVIOUS
  <2>2. m \in Bad /\ \A y \in Bad : m <= y
    BY <2>1, MinIsIn
  <2> HIDE DEF m
  <2>3. m \in 0 .. n /\ ~Covered(m)
    BY <2>2
  <2>4. Covered(0)
    <3>1. 0 \in 0 .. c /\ h[0] <= t[0] /\ Met(0, 0)
      BY <1>2, <1>10, <1>11
    <3> QED
      BY <3>1
  <2>5. m # 0
    BY <2>3, <2>4
  <2> DEFINE k == m - 1
  <2>6. k \in 0 .. n /\ k = m - 1 /\ ~(m <= k) /\ m \in 1 .. n
    <3> HIDE DEF Covered
    <3> QED
      BY <1>1, <2>3, <2>5
  <2> HIDE DEF k
  <2>7. Covered(k)
    <3> HIDE DEF Covered
    <3> QED
      BY <2>2, <2>6
  <2>8. PICK j \in 0 .. c : h[k] <= t[j] /\ Met(k, j)
    BY <2>7
  <2>9. h[m] = h[k] + held[m] /\ h[k] \in Nat /\ h[m] \in Nat /\ t[j] \in Nat
    BY <1>10, <1>11, <2>6
  <2>10. CASE list[m].Index # f
    <3>1. h[m] = h[k]
      <4>1. held[m] = 0
        BY <1>5, <2>6, <2>10
      <4> QED
        BY <2>9, <4>1
    <3>2. Met(m, j)
      <4>1. \A i \in 1 .. k : i \in 1 .. m
        BY <1>1, <2>6
      <4> QED
        BY <2>8, <4>1
    <3> QED
      BY <2>3, <2>8, <3>1, <3>2
  <2>11. CASE list[m].Index = f
    <3> DEFINE l == list[m].sID
    <3>1. l \in 1 .. c /\ held[m] = s[l]
      BY <1>4, <1>5, <2>6, <2>11
    <3>2. j < l
      <4>1. CASE j = 0
        BY <3>1, <4>1
      <4>2. ASSUME NEW i \in 1 .. k, list[i].Index = f, list[i].sID = j
            PROVE  j < l
        <5>1. i \in 1 .. n /\ i < m
          BY <1>1, <2>6
        <5>2. Earlier(list[i], list[m])
          BY <1>1, <2>6, <5>1 DEF Ordered
        <5>3. /\ GetId(list[i]) = f /\ GetId(list[m]) = f
              /\ GetSmallId(list[i]) = j /\ GetSmallId(list[m]) = l
          BY <1>4, <2>6, <2>11, <4>2, <5>1
        <5> QED
          BY <1>2, <5>2, <5>3 DEF Earlier
      <4> QED
        BY <2>8, <4>1, <4>2
    <3> HIDE DEF l
    <3>3. l - 1 \in 0 .. c /\ l - 1 \in j .. c /\ l \in 0 .. c
      BY <1>2, <3>1, <3>2
    <3>4. t[j] <= t[l - 1] /\ t[l] = t[l - 1] + s[l] /\ s[l] \in Nat /\ t[l - 1] \in Nat
      BY <1>3, <1>11, <1>12, <3>1, <3>3
    <3>5. h[m] <= t[l]
      <4>1. h[k] <= t[l - 1]
        BY ONLY <2>8, <2>9, <3>4
      <4> QED
        BY ONLY <2>9, <3>1, <3>4, <4>1
    <3>6. Met(m, l)
      BY <2>6, <2>11 DEF l
    <3> QED
      BY <2>3, <3>3, <3>5, <3>6
  <2> QED
    BY <2>10, <2>11
<1>14. PICK j \in 0 .. c : h[n] <= t[j]
  BY <1>13
<1>15. t[j] <= t[c] /\ t[j] \in Nat /\ t[c] \in Nat /\ h[n] \in Nat
  BY <1>1, <1>2, <1>10, <1>11, <1>12
<1>16. TotalSize(held) <= TotalSize(s)
  BY <1>8, <1>9, <1>14, <1>15
<1> QED
  BY <1>16 DEF HeldSize, FrameSize, held, s

\* The packs that wait are in the order of the stream, each once, and never
\* are all the packs of a frame, nor more bytes than it has: the assertions
\* of RegroupPack hold, for every stream and whatever the network does.
THEOREM ListInOrder == Spec => []HeldInOrder
<1>1. ListInv /\ WholeInv => HeldInOrder
  <2> SUFFICES ASSUME ListInv, WholeInv PROVE HeldInOrder
    OBVIOUS
  <2> DEFINE list == recved_uncomplete_list
  <2>1. ASSUME NEW p \in ToSet(list)
        PROVE  HeldSize(list, GetId(p)) <= GetFrameSize(p)
    <3>1. list \in Seq(seen) /\ Ordered(list) /\ \A q \in seen : IsPiece(q)
      BY DEF ListInv, OrderInv, WholeInv
    <3>2. p \in seen
      BY <3>1 DEF ToSet
    <3> DEFINE f == p.Index
    <3>3. IsPiece(p)
      BY <3>1, <3>2
    <3>4. f \in DOMAIN Frames /\ Frames[f].type = VIDEO /\ p = PackAt(f, p.sID)
      BY <3>3 DEF IsPiece
    <3> HIDE DEF f
    <3>5. GetFrameSize(p) = FrameSize(f)
      <4>1. p.type = VIDEO /\ p.FrameSize = FrameSize(f)
        BY <3>4 DEF PackAt
      <4> QED
        BY <4>1 DEF GetFrameSize
    <3>6. HeldSize(list, f) <= FrameSize(f)
      BY <3>1, <3>4, HeldSizeBound
    <3> QED
      BY <3>5, <3>6 DEF f, GetId
  <2> QED
    BY <2>1 DEF ListInv, HeldInOrder, Ordered, Incomplete, PiecesIn
<1> QED
  BY <1>1, ListInvariant, WholeInvariant, PTL

-----------------------------------------------------------------------------
(***************************************************************************)
(* Types.                                                                  *)
(***************************************************************************)
MembersTyped ==
    /\ phase \in {"new", "opening", "open", "closing", "closed"}
    /\ receiving \in BOOLEAN
    /\ m_shutdown \in BOOLEAN
    /\ posted \in Seq(Commands)
    /\ hung \in BOOLEAN
    /\ toServer \subseteq Commands
    /\ subscribed \in BOOLEAN
    /\ disordered \in BOOLEAN

LEMMA CommandTypes ==
    /\ EncodeRcvShakHandPack(UserId) \in Commands
    /\ EncodeRcvLeave(UserId) \in Commands
  BY FramesAssumption DEF EncodeRcvShakHandPack, EncodeRcvLeave, Commands

LEMMA MembersNext == MembersTyped /\ [Next]_vars => MembersTyped'
<1> SUFFICES ASSUME MembersTyped, [Next]_vars PROVE MembersTyped'
  OBVIOUS
<1> USE DEF MembersTyped
<1>1. CASE ServerRecv
  BY <1>1 DEF ServerRecv, connVars, recvVars
<1>2. CASE ServerSendFrame
  BY <1>2 DEF ServerSendFrame, connVars, recvVars
<1>3. CASE PostSendLeave
  <2> DEFINE leaves == [i \in 1 .. 10 |-> EncodeRcvLeave(UserId)]
  <2>1. leaves \in Seq(Commands)
    BY CommandTypes
  <2>2. posted' \in Seq(Commands)
    BY <1>3, <2>1, ConcatProperties DEF PostSendLeave
  <2> QED
    BY <1>3, <2>2 DEF PostSendLeave, serverVars, recvVars
<1>4. CASE Open \/ Close \/ Stop \/ HandleClose \/ HandleRecvStopped
  BY <1>4 DEF Open, Close, Stop, HandleClose, HandleRecvStopped, serverVars, recvVars
<1>5. CASE StartSend
  <2>1. Head(posted) \in Commands /\ Tail(posted) \in Seq(Commands)
    BY <1>5, HeadTailProperties DEF StartSend
  <2> QED
    BY <1>5, <2>1 DEF StartSend, AsyncSend, recvVars
<1>6. CASE HandleOpen \/ HandleTimer
  BY <1>6, CommandTypes DEF HandleOpen, HandleTimer, AsyncSend, connVars, recvVars
<1>7. ASSUME NEW p \in InFlight, HandleRecv(p)
      PROVE  MembersTyped'
  <2>1. CASE IsSmallPack(p)
    <3>1. /\ hung' = R!Hangs(recved_uncomplete_list, p)
          /\ disordered' = (disordered \/ \E q \in seen : Earlier(p, q))
      BY <1>7, <2>1 DEF HandleRecv, RegroupPack
    <3>2. hung' \in BOOLEAN
      BY <3>1, Zenon DEF R!Hangs
    <3>3. disordered' \in BOOLEAN
      BY <3>1, Zenon
    <3> QED
      BY <1>7, <3>2, <3>3 DEF HandleRecv, connVars, serverVars
  <2>2. CASE ~IsSmallPack(p)
    BY <1>7, <2>2 DEF HandleRecv, connVars, serverVars
  <2> QED
    BY <2>1, <2>2
<1>8. CASE UNCHANGED vars
  BY <1>8 DEF vars
<1> QED
  BY <1>1, <1>2, <1>3, <1>4, <1>5, <1>6, <1>7, <1>8 DEF Next

\* The reassembly list holds packs of video frames only, and every packet of
\* the decoder has a length of sixteen bits.
THEOREM MediaTypeCorrect == Spec => []TypeOK
<1>1. Init => MembersTyped
  BY EmptySeq DEF Init, MembersTyped
<1>2. Spec => []MembersTyped
  BY <1>1, MembersNext, PTL DEF Spec
<1>3. MembersTyped /\ ListInv /\ WholeInv => TypeOK
  <2> SUFFICES ASSUME MembersTyped, ListInv, WholeInv PROVE TypeOK
    OBVIOUS
  <2>1. seen \subseteq VideoPacks
    BY PieceIsPack DEF WholeInv
  <2>2. recved_uncomplete_list \in Seq(VideoPacks)
    <3>1. recved_uncomplete_list \in Seq(seen)
      BY DEF ListInv, OrderInv
    <3> QED
      BY <2>1, <3>1
  <2>3. streamed \in Nat
    BY FramesAssumption DEF ListInv, OrderInv
  <2> DEFINE Packets == [packs : Seq(VideoPacks), data_len : 0 .. Width - 1]
  <2>4. WholeFrames \subseteq Packets
    <3> SUFFICES ASSUME NEW f \in DOMAIN Frames, Frames[f].type = VIDEO
                 PROVE  [packs |-> PacksOf(f), data_len |-> FrameSize(f) % Width] \in Packets
      BY DEF WholeFrames
    <3>1. PacksOf(f) \in Seq(VideoPacks)
      BY VideoFramePacks
    <3>2. FrameSize(f) % Width \in 0 .. Width - 1
      <4>1. FrameSize(f) \in Nat /\ Width \in Nat \ {0}
        BY FrameType, FramesAssumption
      <4> QED
        BY <4>1
    <3> QED
      BY <3>1, <3>2
  <2>5. fed \in Seq(Packets)
    <3> HIDE DEF Packets
    <3> QED
      BY <2>4 DEF WholeInv
  <2> QED
    BY <2>1, <2>2, <2>3, <2>5 DEF TypeOK, MembersTyped
<1> QED
  BY <1>2, <1>3, ListInvariant, WholeInvariant, PTL
=============================================================================
