-------------------------- MODULE DecoderProofs --------------------------
(***************************************************************************)
(* Theorems of MediaDecoder, for packets of any lengths and any number of  *)
(* them, and for both kinds of decoder.                                    *)
(***************************************************************************)
EXTENDS MediaDecoder, SequenceTheorems, TLAPS

LEMMA PacketTypes ==
  ASSUME NEW p \in Packets
  PROVE  p.number \in 0 .. MaxFed /\ p.data_len \in Nat
<1>1. p.number \in 1 .. MaxFed
  BY DEF Packets
<1>2. p.data_len \in Sizes
  BY DEF Packets
<1>3. p.number \in 0 .. MaxFed
  BY <1>1, DecoderAssumption
<1> QED
  BY <1>2, <1>3, DecoderAssumption

\* What the two kinds of decoder have in common in a round of the inner loop.
LEMMA Rounds ==
  ASSUME DecodeVideo \/ DecodeAudio
  PROVE  \E len \in -1 .. size, got_frame, converted \in BOOLEAN :
           Decode(len, got_frame, converted)
<1>1. CASE DecodeVideo
  BY <1>1 DEF DecodeVideo, Lengths
<1>2. CASE DecodeAudio
  <2>1. PICK len \in -1 .. size, got_frame \in BOOLEAN, sized \in BOOLEAN,
             resampled \in BOOLEAN : Decode(len, got_frame, sized /\ resampled)
    BY <1>2 DEF DecodeAudio, Lengths
  <2>2. (sized /\ resampled) \in BOOLEAN
    OBVIOUS
  <2> QED
    BY <2>1, <2>2
<1> QED
  BY <1>1, <1>2

\* The resampler is set up by rounds of sound only.
LEMMA Resampler ==
  ASSUME TypeOK, DecodeVideo \/ DecodeAudio
  PROVE  swr_ctx' \in BOOLEAN /\ (kind = "video" => ~swr_ctx')
<1>1. CASE DecodeVideo
  BY <1>1, Zenon DEF DecodeVideo, TypeOK
<1>2. CASE DecodeAudio
  <2>1. kind = "audio" /\ swr_ctx' \in BOOLEAN
    BY <1>2, Zenon DEF DecodeAudio
  <2> QED
    BY <2>1
<1> QED
  BY <1>1, <1>2

\* The type invariant is inductive.
LEMMA TypeInit == Init => TypeOK
<1> SUFFICES ASSUME Init PROVE TypeOK
  OBVIOUS
<1>1. the_queue \in Seq(Packets)
  BY EmptySeq DEF Init
<1>2. packet \in 0 .. MaxFed /\ fedCount \in 0 .. MaxFed /\ shown \in 0 .. MaxFed
  BY DecoderAssumption DEF Init
<1> QED
  BY <1>1, <1>2 DEF Init, TypeOK

LEMMA TypeNext == TypeOK /\ [Next]_vars => TypeOK'
<1> SUFFICES ASSUME TypeOK, [Next]_vars PROVE TypeOK'
  OBVIOUS
<1> USE DecoderAssumption DEF TypeOK
<1>1. ASSUME NEW data_len \in Sizes, Feed(data_len) PROVE TypeOK'
  <2>1. [number |-> fedCount + 1, data_len |-> data_len] \in Packets
    BY <1>1 DEF Feed, Packets
  <2>2. the_queue' \in Seq(Packets)
    BY <1>1, <2>1, AppendProperties DEF Feed
  <2> QED
    BY <1>1, <2>2 DEF Feed, workerVars
<1>2. CASE Destroy
  BY <1>2 DEF Destroy, workerVars
<1>3. CASE Notify
  BY <1>3 DEF Notify
<1>4. CASE Interrupt
  BY <1>4 DEF Interrupt
<1>5. CASE Join
  BY <1>5 DEF Join, workerVars
<1>6. CASE Drain
  <2>1. the_queue' \in Seq(Packets)
    BY <1>6, HeadTailProperties DEF Drain
  <2> QED
    BY <1>6, <2>1 DEF Drain, workerVars
<1>7. CASE WaitAndPop
  <2>1. CASE the_queue = <<>>
    BY <1>7, <2>1 DEF WaitAndPop, userVars
  <2>2. CASE the_queue # <<>>
    <3>1. Head(the_queue) \in Packets /\ Tail(the_queue) \in Seq(Packets)
      BY <2>2, HeadTailProperties
    <3>2. /\ the_queue' = Tail(the_queue)
          /\ packet' = Head(the_queue).number
          /\ size' = Head(the_queue).data_len
          /\ worker' = AfterPart(size')
      BY <1>7, <2>2 DEF WaitAndPop, Taken
    <3>3. packet' \in 0 .. MaxFed /\ size' \in Nat
      BY <3>1, <3>2, PacketTypes
    <3>4. the_queue' \in Seq(Packets)
      BY <3>1, <3>2
    <3> QED
      BY <1>7, <3>2, <3>3, <3>4 DEF WaitAndPop, userVars, AfterPart
  <2> QED
    BY <2>1, <2>2
<1>8. CASE Wake
  BY <1>8 DEF Wake, userVars
<1>9. CASE SpuriousWakeup
  BY <1>9 DEF SpuriousWakeup, userVars
<1>10. CASE DecodeVideo \/ DecodeAudio
  <2>1. PICK len \in -1 .. size, got_frame \in BOOLEAN, converted \in BOOLEAN :
             Decode(len, got_frame, converted)
    BY <1>10, Rounds
  <2>2. swr_ctx' \in BOOLEAN /\ (kind = "video" => ~swr_ctx')
    BY <1>10, Resampler
  <2>3. size' \in Nat
    BY <2>1 DEF Decode
  <2>4. user # "new" /\ user # "ended"
    BY <2>1 DEF Decode
  <2>5. /\ worker' \in {"exited", "pop", "callback", "decode"}
        /\ worker' = "decode" => size' > 0
    BY <2>1, <2>3 DEF Decode, AfterPart
  <2> QED
    BY <2>1, <2>2, <2>3, <2>4, <2>5 DEF Decode, userVars
<1>11. CASE Callback
  BY <1>11 DEF Callback, userVars, AfterPart
<1>12. CASE UNCHANGED vars
  BY <1>12 DEF vars
<1>13. CASE Register
  BY <1>13 DEF Register, workerVars
<1>14. CASE ResamplerFails
  BY <1>14 DEF ResamplerFails
<1> QED
  BY <1>1, <1>2, <1>3, <1>4, <1>5, <1>6, <1>7, <1>8, <1>9, <1>10, <1>11, <1>12,
     <1>13, <1>14 DEF Next, User, Worker

\* The values of all variables stay in their types: among them that the codec
\* is never called with an empty packet.
THEOREM DecoderTypeCorrect == Spec => []TypeOK
<1>1. Init => TypeOK
  BY TypeInit
<1>2. TypeOK /\ [Next]_vars => TypeOK'
  BY TypeNext
<1> QED
  BY <1>1, <1>2, PTL DEF Spec

-----------------------------------------------------------------------------
\* The wakeup invariant is inductive by itself.
LEMMA WakeupNext == NoLostWakeup /\ [Next]_vars => NoLostWakeup'
<1> SUFFICES ASSUME NoLostWakeup, [Next]_vars PROVE NoLostWakeup'
  OBVIOUS
<1> USE DEF NoLostWakeup
<1>1. ASSUME NEW data_len \in Sizes, Feed(data_len) PROVE NoLostWakeup'
  BY <1>1 DEF Feed, workerVars
<1>2. CASE User
  BY <1>2 DEF User, Notify, Interrupt, Join, Drain, workerVars
<1>3. CASE Register \/ Destroy \/ SpuriousWakeup \/ UNCHANGED vars
  BY <1>3 DEF Register, Destroy, SpuriousWakeup, userVars, workerVars, vars
<1>4. CASE WaitAndPop \/ Wake \/ Callback
  BY <1>4 DEF WaitAndPop, Wake, Callback, AfterPart, userVars
<1>5. CASE DecodeVideo \/ DecodeAudio
  BY <1>5, Rounds DEF Decode, AfterPart, userVars
<1>6. CASE ResamplerFails
  BY <1>6 DEF ResamplerFails
<1> QED
  BY <1>1, <1>2, <1>3, <1>4, <1>5, <1>6 DEF Next, Worker

\* No wakeup of the decoder thread is lost: it never sleeps beside a packet
\* whose push has already notified, nor beside an interrupt.
THEOREM WakeupsArrive == Spec => []NoLostWakeup
<1>1. Init => NoLostWakeup
  BY DEF Init, NoLostWakeup
<1> QED
  BY <1>1, WakeupNext, PTL DEF Spec

-----------------------------------------------------------------------------
\* join returns only when the thread has ended, and it never starts again.
JoinedExited == user \in {"drain", "gone"} => worker = "exited"

LEMMA JoinedNext == JoinedExited /\ [Next]_vars => JoinedExited'
<1> SUFFICES ASSUME JoinedExited, [Next]_vars PROVE JoinedExited'
  OBVIOUS
<1> USE DEF JoinedExited
<1>1. ASSUME NEW data_len \in Sizes, Feed(data_len) PROVE JoinedExited'
  BY <1>1 DEF Feed
<1>2. CASE User
  BY <1>2 DEF User, Notify, Interrupt, Join, Drain, workerVars
<1>3. CASE Register \/ Destroy \/ SpuriousWakeup \/ UNCHANGED vars
  BY <1>3 DEF Register, Destroy, SpuriousWakeup, userVars, vars
<1>4. CASE WaitAndPop \/ Wake \/ Callback
  BY <1>4 DEF WaitAndPop, Wake, Callback, userVars
<1>5. CASE DecodeVideo \/ DecodeAudio
  BY <1>5, Rounds DEF Decode, userVars
<1>6. CASE ResamplerFails
  BY <1>6 DEF ResamplerFails
<1> QED
  BY <1>1, <1>2, <1>3, <1>4, <1>5, <1>6 DEF Next, Worker

\* When join has returned the thread does nothing any more: no callback and
\* no use of the queue or of the codec that the destructor frees.
THEOREM QuietAfterJoin == Spec => NothingAfterJoin
<1>1. Init => JoinedExited
  BY DEF Init, JoinedExited
<1>2. JoinedExited /\ [Next]_vars
        => [(user \in {"drain", "gone"}) => workerVars' = workerVars]_vars
  <2> SUFFICES ASSUME JoinedExited, Next, user \in {"drain", "gone"}
               PROVE workerVars' = workerVars
    BY DEF vars
  <2>1. worker = "exited"
    BY DEF JoinedExited
  <2> QED
    BY <2>1, Rounds DEF Next, User, Worker, Feed, Register, Destroy, Notify,
                        Interrupt, Join, Drain, WaitAndPop, Wake, Decode, Callback,
                        ResamplerFails, SpuriousWakeup, workerVars
<1> QED
  BY <1>1, <1>2, JoinedNext, PTL DEF Spec, NothingAfterJoin

-----------------------------------------------------------------------------
(***************************************************************************)
(* Order.  The queue holds the last packets fed; the worker is at the one  *)
(* before them, and no picture is of a later one.                          *)
(***************************************************************************)
OrderInv ==
    /\ InOrder
    /\ shown <= packet
    /\ worker \in {"decode", "callback"} => packet > 0
    /\ user = "join" => interrupted
    /\ JoinedExited

\* What a step does to the history of frames and to the packet at hand.
InTurn == shown' >= shown /\ packet' \in {packet, packet + 1}

LEMMA OrderNext == TypeOK /\ OrderInv /\ [Next]_vars => OrderInv' /\ InTurn
<1> SUFFICES ASSUME TypeOK, OrderInv, [Next]_vars
             PROVE  OrderInv' /\ InTurn
  OBVIOUS
<1>0. JoinedExited'
  BY JoinedNext DEF OrderInv
<1> USE DEF TypeOK, OrderInv, InOrder, InTurn
<1>a. the_queue \in Seq(Packets) /\ Len(the_queue) \in Nat
  OBVIOUS
<1>1. ASSUME NEW data_len \in Sizes, Feed(data_len)
      PROVE  OrderInv' /\ InTurn
  <2> DEFINE new == [number |-> fedCount + 1, data_len |-> data_len]
  <2>1. /\ the_queue' = Append(the_queue, new)
        /\ fedCount' = fedCount + 1
        /\ user = "idle" /\ user' = "notify"
        /\ packet' = packet /\ shown' = shown /\ worker' = worker
    BY <1>1 DEF Feed, workerVars
  <2>2. Len(the_queue') = Len(the_queue) + 1
    BY <2>1
  <2>3. ASSUME NEW i \in DOMAIN the_queue'
        PROVE  the_queue'[i].number = packet' + i
    <3>1. CASE i = Len(the_queue) + 1
      <4>1. the_queue'[i] = new
        BY <2>1, <3>1
      <4>2. packet = fedCount - Len(the_queue)
        BY <2>1
      <4>3. new.number = fedCount + 1
        OBVIOUS
      <4>4. packet' + i = fedCount + 1
        BY <1>a, <2>1, <3>1, <4>2
      <4> QED
        BY <4>1, <4>3, <4>4
    <3>2. CASE i # Len(the_queue) + 1
      <4>1. i \in DOMAIN the_queue /\ the_queue'[i] = the_queue[i]
        <5>1. i \in 1 .. Len(the_queue) + 1
          BY <1>a, <2>1, <2>2, <2>3
        <5> QED
          BY <1>a, <2>1, <3>2, <5>1
      <4>2. the_queue[i].number = packet + i
        BY <4>1, <2>1
      <4> QED
        BY <4>1, <4>2, <2>1, <2>2
    <3> QED
      BY <3>1, <3>2
  <2>4. packet' = fedCount' - Len(the_queue')
    BY <2>1, <2>2
  <2> QED
    BY <1>0, <2>1, <2>3, <2>4
<1>2. CASE Register \/ Destroy \/ Notify \/ Interrupt \/ SpuriousWakeup \/ Wake
  BY <1>0, <1>2 DEF Register, Destroy, Notify, Interrupt, SpuriousWakeup, Wake,
                    userVars, workerVars
<1>3. CASE Join \/ Drain
  BY <1>0, <1>3 DEF Join, Drain, workerVars
<1>4. CASE WaitAndPop
  <2>0. ~(user \in {"drain", "gone"}) /\ user' = user /\ fedCount' = fedCount
        /\ shown' = shown /\ interrupted' = interrupted
    BY <1>4 DEF WaitAndPop, JoinedExited, userVars
  <2>1. CASE the_queue = <<>>
    BY <1>0, <1>4, <2>1 DEF WaitAndPop, userVars
  <2>2. CASE the_queue # <<>>
    <3>1. the_queue' = Tail(the_queue) /\ packet' = Head(the_queue).number
      BY <1>4, <2>2 DEF WaitAndPop, Taken
    <3>2. Len(the_queue) > 0 /\ Len(the_queue') = Len(the_queue) - 1
      BY <1>a, <2>2, <3>1, EmptySeq, HeadTailProperties
    <3>3. the_queue[1].number = packet + 1 /\ packet = fedCount - Len(the_queue)
      BY <2>0, <3>2
    <3>4. packet' = packet + 1 /\ packet' = fedCount' - Len(the_queue')
      BY <2>0, <3>1, <3>2, <3>3
    <3>5. shown' <= packet'
      BY <2>0, <3>2, <3>4
    <3>6. ASSUME NEW i \in DOMAIN the_queue'
          PROVE  the_queue'[i].number = packet' + i
      <4>1. the_queue'[i] = the_queue[i + 1] /\ i + 1 \in DOMAIN the_queue
        BY <3>1, <3>2, <3>6
      <4>2. the_queue[i + 1].number = packet + (i + 1)
        BY <4>1, <2>0
      <4>3. i \in Int /\ packet \in Int
        BY <3>1, <3>6, <1>a, <2>2, HeadTailProperties
      <4> QED
        BY <4>1, <4>2, <4>3, <3>4
    <3>8. packet' > 0
      <4>1. Head(the_queue) \in Packets
        BY <2>2, HeadTailProperties
      <4>2. Head(the_queue).number \in 1 .. MaxFed
        BY <4>1 DEF Packets
      <4> QED
        BY <3>1, <4>2, DecoderAssumption
    <3> QED
      BY <1>0, <2>0, <3>4, <3>5, <3>6, <3>8
  <2> QED
    BY <2>1, <2>2
<1>5. CASE DecodeVideo \/ DecodeAudio
  BY <1>0, <1>5, Rounds DEF Decode, userVars
<1>6. CASE Callback
  BY <1>0, <1>6 DEF Callback, userVars
<1>7. CASE UNCHANGED vars
  BY <1>0, <1>7 DEF vars
<1>8. CASE ResamplerFails
  <2>1. user \notin {"drain", "gone"}
    BY <1>8 DEF ResamplerFails, JoinedExited
  <2> QED
    BY <1>0, <1>8, <2>1 DEF ResamplerFails
<1> QED
  BY <1>1, <1>2, <1>3, <1>4, <1>5, <1>6, <1>7, <1>8 DEF Next, User, Worker

LEMMA OrderInit == Init => OrderInv
<1> SUFFICES ASSUME Init PROVE OrderInv
  OBVIOUS
<1>1. Len(the_queue) = 0 /\ DOMAIN the_queue = {}
  BY DEF Init
<1>2. packet = 0 /\ fedCount = 0
  BY DEF Init
<1>3. InOrder
  BY <1>1, <1>2 DEF InOrder
<1> QED
  BY <1>3 DEF Init, OrderInv, JoinedExited

LEMMA OrderInvariant == Spec => []OrderInv
  BY OrderInit, OrderNext, DecoderTypeCorrect, PTL DEF Spec

\* Between Feed and the codec no packet is lost, repeated or overtaken, for any
\* number of packets: the queue continues the packet at hand, and each packet
\* popped is the successor of the one before.
THEOREM FirstInFirstOut == Spec => QueueInOrder
<1>1. OrderInv => InOrder
  BY DEF OrderInv
<1>2. TypeOK /\ OrderInv /\ [Next]_vars => [packet' \in {packet, packet + 1}]_vars
  BY OrderNext DEF InTurn
<1> QED
  BY <1>1, <1>2, OrderInvariant, DecoderTypeCorrect, PTL DEF Spec, QueueInOrder

-----------------------------------------------------------------------------
(***************************************************************************)
(* Refinement.  Callback is Show, Interrupt is Interrupt, Join is Close,   *)
(* Feed is Feed; in a callback after the interrupt the mapped state is     *)
(* "last", and the round that ends it cannot begin another.                *)
(***************************************************************************)
LEMMA QueueStep ==
  TypeOK /\ OrderInv /\ [Next]_vars => [Queue!Next]_(Queue!vars)
<1> SUFFICES ASSUME TypeOK, OrderInv, [Next]_vars
             PROVE  [Queue!Next]_(Queue!vars)
  OBVIOUS
<1> USE DEF TypeOK, Queue!Next, Queue!vars, QueueState
<1>1. ASSUME NEW data_len \in Sizes, Feed(data_len)
      PROVE  Queue!Feed
  BY <1>1 DEF Feed, workerVars, Queue!Feed
<1>2. CASE Interrupt
  <2>1. Queue!Interrupt
    BY <1>2 DEF Interrupt, Queue!Interrupt
  <2> QED
    BY <2>1
<1>3. CASE Join
  <2>1. Queue!Close
    BY <1>3 DEF Join, workerVars, Queue!Close
  <2> QED
    BY <2>1
<1>4. CASE Callback
  <2>1. user \notin {"drain", "gone"} /\ packet > 0
    BY <1>4 DEF Callback, OrderInv, JoinedExited
  <2>2. shown <= packet /\ packet = fedCount - Len(the_queue)
    BY <2>1 DEF OrderInv, InOrder
  <2>3. Len(the_queue) \in Nat
    OBVIOUS
  <2>4. packet \in shown .. fedCount
    BY <2>2, <2>3, DecoderAssumption
  <2>5. Queue!Show
    BY <1>4, <2>1, <2>4 DEF Callback, AfterPart, userVars, Queue!Show
  <2> QED
    BY <2>5
<1>5. CASE Register \/ Destroy \/ Notify \/ Drain \/ SpuriousWakeup \/ UNCHANGED vars
  BY <1>5 DEF Register, Destroy, Notify, Drain, SpuriousWakeup, vars, userVars, workerVars
<1>6. CASE WaitAndPop \/ Wake
  BY <1>6 DEF WaitAndPop, Wake, AfterPart, userVars
<1>7. CASE DecodeVideo \/ DecodeAudio
  BY <1>7, Rounds DEF Decode, AfterPart, userVars, OrderInv
<1>8. CASE ResamplerFails
  BY <1>8 DEF ResamplerFails, OrderInv, JoinedExited
<1> QED
  BY <1>1, <1>2, <1>3, <1>4, <1>5, <1>6, <1>7, <1>8 DEF Next, User, Worker

\* The decoder, its two threads and its queue, is a PictureQueue, for packets
\* of any lengths and any behaviour of the codec.
THEOREM DecoderIsPictureQueue == Spec => ImplementsPictureQueue
<1>1. Init => Queue!Init
  BY DEF Init, Queue!Init, QueueState
<1> QED
  BY <1>1, OrderInit, OrderNext, QueueStep, DecoderTypeCorrect, PTL
     DEF Spec, ImplementsPictureQueue, Queue!Spec

-----------------------------------------------------------------------------
(***************************************************************************)
(* Why the destructor comes to its end, as far as no fairness is needed:   *)
(* each step of the thread that is joined takes something from StepsLeft,  *)
(* whatever the codec does, and nobody else can take a step.               *)
(***************************************************************************)
StepsLeft ==
    3 * Len(the_queue) + (CASE worker = "exited"   -> 0
                            [] worker = "callback" -> 2
                            [] OTHER               -> 1)

ClosingMovesOn ==
    /\ user = "join" =>
         \/ worker = "exited" /\ user' = "drain"
         \/ user' = "join" /\ StepsLeft' < StepsLeft
    /\ user = "drain" =>
         \/ the_queue = <<>> /\ user' = "gone"
         \/ user' = "drain" /\ Len(the_queue') < Len(the_queue)

\* The thread that is joined never sleeps, so that its next step is always
\* possible or it has ended.
THEOREM JoinedNeverSleeps == Spec => [](user = "join" => worker # "waiting")
<1>1. OrderInv /\ NoLostWakeup => (user = "join" => worker # "waiting")
  BY DEF OrderInv, NoLostWakeup
<1> QED
  BY <1>1, OrderInvariant, WakeupsArrive, PTL

LEMMA ClosingStep ==
    ASSUME TypeOK, NoLostWakeup, OrderInv, Next
    PROVE  ClosingMovesOn
<1> DEFINE n == Len(the_queue)
<1>1. n \in Nat /\ the_queue \in Seq(Packets)
  BY DEF TypeOK
<1>2. user = "join" => interrupted /\ worker # "waiting"
  BY DEF OrderInv, NoLostWakeup
<1>3. user = "drain" => worker = "exited"
  BY DEF OrderInv, JoinedExited
<1>4. the_queue # <<>> => Len(Tail(the_queue)) = n - 1 /\ n - 1 \in Nat
  BY <1>1, HeadTailProperties
<1> HIDE DEF n
<1>5. CASE ~(user = "join" \/ user = "drain")
  BY <1>5 DEF ClosingMovesOn
<1>6. CASE user = "drain"
  <2>1. Drain
    BY <1>3, <1>6, Rounds DEF Next, User, Worker, Feed, Register, Destroy, Notify,
                      Interrupt, Join, WaitAndPop, Wake, Callback, SpuriousWakeup,
                      Decode, ResamplerFails
  <2>2. CASE the_queue = <<>>
    BY <1>6, <2>1, <2>2 DEF Drain, ClosingMovesOn
  <2>3. CASE the_queue # <<>>
    <3>1. user' = "drain" /\ Len(the_queue') = n - 1 /\ n - 1 < n
      BY <1>1, <1>4, <1>6, <2>1, <2>3 DEF Drain
    <3> QED
      BY <1>6, <3>1 DEF ClosingMovesOn, n
  <2> QED
    BY <2>2, <2>3
<1>7. CASE user = "join"
  <2>1. Join \/ Worker
    BY <1>2, <1>7 DEF Next, User, Feed, Register, Destroy, Notify, Interrupt, Drain,
                      SpuriousWakeup, ResamplerFails
  <2>2. CASE Join
    BY <1>7, <2>2 DEF Join, ClosingMovesOn
  <2>3. CASE Worker
    <3>1. user' = "join"
      BY <1>7, <2>3, Rounds DEF Worker, WaitAndPop, Wake, Callback, Decode,
                                userVars
    <3>2. CASE WaitAndPop /\ the_queue # <<>>
      <4>1. Len(the_queue') = n - 1 /\ worker = "pop" /\ worker' \in {"decode", "pop"}
        BY <1>4, <3>2 DEF WaitAndPop, Taken, AfterPart
      <4> QED
        BY <1>1, <1>7, <3>1, <4>1 DEF ClosingMovesOn, StepsLeft, n
    <3>3. CASE ~(WaitAndPop /\ the_queue # <<>>)
      <4>1. the_queue' = the_queue
        BY <2>3, <3>3, Rounds DEF Worker, WaitAndPop, Wake, Callback, Decode
      <4>2. \/ worker \in {"pop", "woken", "decode"} /\ worker' = "exited"
            \/ worker = "callback" /\ worker' \in {"decode", "pop"}
        BY <1>2, <1>7, <2>3, <3>3, Rounds DEF Worker, WaitAndPop, Wake, Callback,
                          Decode, AfterPart
      <4> QED
        BY <1>1, <1>7, <3>1, <4>1, <4>2 DEF ClosingMovesOn, StepsLeft, n
    <3> QED
      BY <3>2, <3>3
  <2> QED
    BY <2>1, <2>2, <2>3
<1> QED
  BY <1>5, <1>6, <1>7

\* The destructor does no more than a number of steps that is known when it
\* joins: three for each packet still queued, and one or two.
THEOREM DestructorMovesOn == Spec => [][ClosingMovesOn]_vars
<1>1. TypeOK /\ NoLostWakeup /\ OrderInv /\ [Next]_vars => [ClosingMovesOn]_vars
  BY ClosingStep
<1> QED
  BY <1>1, DecoderTypeCorrect, WakeupsArrive, OrderInvariant, PTL DEF Spec
=============================================================================
