---------------------------- MODULE MediaDecoder ----------------------------
(***************************************************************************)
(* VideoDecoderFF and AudioDecoderFF (media/video_decoder_ff.cc and        *)
(* media/audio_decoder_ff.cc): a thread that decodes the packets it is fed *)
(* through a ConcurrentQueue (util/concurrent_queue.hpp) and calls back    *)
(* with every picture, or piece of sound, until the destructor interrupts  *)
(* it.  The two differ in what ends a packet: without a callback pictures  *)
(* are not decoded at all; sound is, and it is converted before the        *)
(* callback.  The conversion may fail, and ends the process if the         *)
(* resampler cannot be set up.                                             *)
(*                                                                         *)
(* The connection registers its callback as soon as it has constructed a   *)
(* decoder, whose thread is running by then.  Feed is called by the strand *)
(* of the connection, and the destructor when nobody holds the connection  *)
(* any more: one caller, the user, stands for all of them.                 *)
(* avcodec_decode_video2 and avcodec_decode_audio4 are external: they take *)
(* any part of what is left of a packet, none of it too, with or without a *)
(* frame, or fail.  The conversion is external as well.                    *)
(***************************************************************************)
EXTENDS Integers, Sequences

CONSTANTS Sizes,    \* the values of VideoPacket::data_len
          MaxFed    \* bound: calls of Feed in a behaviour

ASSUME DecoderAssumption ==
    /\ Sizes \subseteq Nat
    /\ MaxFed \in Nat

VARIABLES
    kind,         \* which of the two decoders this one is
    the_queue,
    user,         \* where the owner of the decoder is
    interrupted,  \* work_thread has been asked to end
    worker,       \* where work_thread is
    packet,       \* the number of the packet that it has popped
    size,         \* avpkt.size: what is left of it to decode
    swr_ctx,      \* the resampler of sound is set up
    fedCount,     \* history: how many packets have been fed
    shown         \* history: the packet whose frame came last, 0 for none

vars == <<kind, the_queue, user, interrupted, worker, packet, size, swr_ctx,
          fedCount, shown>>

userVars == <<kind, user, interrupted, fedCount>>
workerVars == <<worker, packet, size, swr_ctx, shown>>

Packets == [number : 1 .. MaxFed, data_len : Sizes]

TypeOK ==
    /\ kind \in {"video", "audio"}
    /\ the_queue \in Seq(Packets)
    /\ user \in {"new", "idle", "notify", "interrupt", "join", "drain", "gone",
                 "ended"}
    /\ interrupted \in BOOLEAN
    /\ worker \in {"pop", "waiting", "woken", "decode", "callback", "exited",
                   "ended"}
    /\ packet \in 0 .. MaxFed
    /\ size \in Nat
    /\ worker = "decode" => size > 0     \* the codec is given some bytes
    /\ swr_ctx \in BOOLEAN
    /\ kind = "video" => ~swr_ctx
    \* the thread does not read _cb while it is being set
    /\ user = "new" =>
         /\ the_queue = <<>>
         /\ ~interrupted
         /\ worker \in {"pop", "waiting", "woken"}
    \* the process ends as a whole
    /\ user = "ended" <=> worker = "ended"
    /\ fedCount \in 0 .. MaxFed
    /\ shown \in 0 .. MaxFed

Init ==
    /\ kind \in {"video", "audio"}
    /\ the_queue = <<>>
    /\ user = "new"
    /\ interrupted = FALSE
    /\ worker = "pop"
    /\ packet = 0
    /\ size = 0
    /\ swr_ctx = FALSE
    /\ fedCount = 0
    /\ shown = 0

-----------------------------------------------------------------------------
(***************************************************************************)
(* The user.  push notifies after it has given the mutex up.               *)
(***************************************************************************)
\* Whether _cb is set.
HasCallback == user # "new"

Register ==
    /\ user = "new"
    /\ user' = "idle"
    /\ UNCHANGED <<kind, the_queue, interrupted, fedCount, workerVars>>

Feed(data_len) ==
    /\ user = "idle"
    /\ fedCount < MaxFed
    /\ fedCount' = fedCount + 1
    /\ the_queue' =
         Append(the_queue, [number |-> fedCount + 1, data_len |-> data_len])
    /\ user' = "notify"
    /\ UNCHANGED <<kind, interrupted, workerVars>>

\* Mutated form of Notify: only a push to an empty queue notifies, but the
\* queue is looked at after the push.
NotifyWhenEmpty ==
    /\ user = "notify"
    /\ user' = "idle"
    /\ worker' = IF worker = "waiting" /\ the_queue = <<>> THEN "woken" ELSE worker
    /\ UNCHANGED <<kind, the_queue, interrupted, fedCount, packet, size, swr_ctx, shown>>

\* Wakes the worker if it waits; otherwise the notification is lost.
Notify ==
    /\ user = "notify"
    /\ user' = "idle"
    /\ worker' = IF worker = "waiting" THEN "woken" ELSE worker
    /\ UNCHANGED <<kind, the_queue, interrupted, fedCount, packet, size, swr_ctx, shown>>

Destroy ==
    /\ user = "idle"
    /\ user' = "interrupt"
    /\ UNCHANGED <<kind, the_queue, interrupted, fedCount, workerVars>>

\* interrupt() wakes a thread that waits, and sets the flag for one that runs.
Interrupt ==
    /\ user = "interrupt"
    /\ user' = "join"
    /\ interrupted' = TRUE
    /\ worker' = IF worker = "waiting" THEN "woken" ELSE worker
    /\ UNCHANGED <<kind, the_queue, fedCount, packet, size, swr_ctx, shown>>

\* Mutated form of Join: the destructor does not wait for the thread.
Detach ==
    /\ user = "join"
    /\ user' = "drain"
    /\ UNCHANGED <<kind, the_queue, interrupted, fedCount, workerVars>>

Join ==
    /\ user = "join"
    /\ worker = "exited"
    /\ user' = "drain"
    /\ UNCHANGED <<kind, the_queue, interrupted, fedCount, workerVars>>

\* try_pop until the queue is empty, and then the codec is freed.
Drain ==
    /\ user = "drain"
    /\ IF the_queue = <<>>
       THEN user' = "gone" /\ UNCHANGED the_queue
       ELSE the_queue' = Tail(the_queue) /\ UNCHANGED user
    /\ UNCHANGED <<kind, interrupted, fedCount, workerVars>>

-----------------------------------------------------------------------------
(***************************************************************************)
(* The worker: Decode and wait_and_pop.                                    *)
(***************************************************************************)
\* Mutated form of Taken: of several packets the oldest is thrown away.
TakenLate(q) == IF Len(q) = 1 THEN [packet |-> Head(q), rest |-> <<>>]
                ELSE [packet |-> q[2], rest |-> Tail(Tail(q))]

Taken(q) == [packet |-> Head(q), rest |-> Tail(q)]

\* Mutated form of AfterPart: the loop goes on when nothing is left.
AfterPartEmpty(left) == IF left >= 0 THEN "decode" ELSE "pop"

\* Out of the inner loop: back to the queue unless something is left, and for
\* pictures also when nobody wants them.
AfterPart(left) ==
    IF left > 0 /\ (kind = "video" => HasCallback) THEN "decode" ELSE "pop"

\* wait_and_pop with the mutex held.  Waiting is an interruption point.
WaitAndPop ==
    /\ worker = "pop"
    /\ IF the_queue = <<>>
       THEN /\ worker' = IF interrupted THEN "exited" ELSE "waiting"
            /\ UNCHANGED <<the_queue, packet, size>>
       ELSE /\ the_queue' = Taken(the_queue).rest
            /\ packet' = Taken(the_queue).packet.number
            /\ size' = Taken(the_queue).packet.data_len
            /\ worker' = AfterPart(size')
    /\ UNCHANGED <<userVars, swr_ctx, shown>>

\* A condition variable may end a wait on its own.
SpuriousWakeup ==
    /\ worker = "waiting"
    /\ worker' = "woken"
    /\ UNCHANGED <<the_queue, userVars, packet, size, swr_ctx, shown>>

\* The wait returns, or throws if the thread has been interrupted meanwhile.
Wake ==
    /\ worker = "woken"
    /\ worker' = IF interrupted THEN "exited" ELSE "pop"
    /\ UNCHANGED <<the_queue, userVars, packet, size, swr_ctx, shown>>

\* Mutated form of Decode: no interruption point in the loop.
DecodeUninterrupted(len, got_frame, converted) ==
    /\ worker = "decode"
    /\ IF len < 0 \/ (got_frame /\ ~converted)
       THEN worker' = "pop" /\ UNCHANGED size
       ELSE /\ size' = size - len
            /\ worker' = IF got_frame /\ HasCallback THEN "callback" ELSE AfterPart(size')
    /\ UNCHANGED <<the_queue, userVars, packet, shown>>

\* One round of the inner loop up to the callback.  The interruption point
\* comes before the result of the codec is looked at.  An error of the codec
\* or of the conversion ends the packet, whatever is left of it.
Decode(len, got_frame, converted) ==
    /\ worker = "decode"
    /\ IF interrupted
       THEN worker' = "exited" /\ UNCHANGED size
       ELSE IF len < 0 \/ (got_frame /\ ~converted)
       THEN worker' = "pop" /\ UNCHANGED size
       ELSE /\ size' = size - len
            /\ worker' = IF got_frame /\ HasCallback THEN "callback" ELSE AfterPart(size')
    /\ UNCHANGED <<the_queue, userVars, packet, shown>>

Lengths == -1 .. size

\* The planes of a picture are copied, which does not fail.
DecodeVideo ==
    /\ kind = "video"
    /\ \E len \in Lengths, got_frame \in BOOLEAN : Decode(len, got_frame, TRUE)
    /\ UNCHANGED swr_ctx

\* Sound has its size computed and is resampled, and either may fail.  The
\* resampler is set up between the two, for the first sound.
DecodeAudio ==
    /\ kind = "audio"
    /\ \E len \in Lengths, got_frame, sized, resampled \in BOOLEAN :
         /\ Decode(len, got_frame, sized /\ resampled)
         /\ swr_ctx' =
              (swr_ctx \/ (~interrupted /\ len >= 0 /\ got_frame /\ sized))

\* swr_alloc or swr_init fails: exit(1), in the middle of what the user does.
ResamplerFails ==
    /\ kind = "audio"
    /\ worker = "decode"
    /\ ~interrupted /\ ~swr_ctx
    /\ worker' = "ended"
    /\ user' = "ended"
    /\ UNCHANGED <<kind, the_queue, interrupted, fedCount, packet, size, swr_ctx,
                   shown>>

\* _cb, which is OnVideoDecoded or OnAudioDecoded of the connection.
Callback ==
    /\ worker = "callback"
    /\ shown' = packet
    /\ worker' = AfterPart(size)
    /\ UNCHANGED <<the_queue, userVars, packet, size, swr_ctx>>

-----------------------------------------------------------------------------
User == Notify \/ Interrupt \/ Join \/ Drain

Worker == WaitAndPop \/ Wake \/ DecodeVideo \/ DecodeAudio \/ Callback

Next ==
    \/ \E data_len \in Sizes : Feed(data_len)
    \/ Register \/ Destroy
    \/ User
    \/ Worker
    \/ ResamplerFails
    \/ SpuriousWakeup

Spec == Init /\ [][Next]_vars

(***************************************************************************)
(* Fairness: both threads run.  Nothing is assumed of the codec, and no    *)
(* packet need be fed.                                                     *)
(***************************************************************************)
FairSpec == Spec /\ WF_vars(User) /\ WF_vars(Worker)

-----------------------------------------------------------------------------
\* No lost wakeup: the worker sleeps beside a packet only as long as the push
\* that brought it has still to notify, and beside an interrupt never.
NoLostWakeup ==
    worker = "waiting" => (the_queue # <<>> => user = "notify") /\ ~interrupted

\* The packet that was popped last, and behind it the queue: the packets fed,
\* in the order of Feed.
InOrder ==
    user \notin {"drain", "gone"} =>
        /\ packet = fedCount - Len(the_queue)
        /\ \A i \in DOMAIN the_queue : the_queue[i].number = packet + i

\* No packet is lost, repeated or overtaken on its way from Feed to the codec:
\* the thread takes them one by one, each the successor of the one before.
QueueInOrder == []InOrder /\ [][packet' \in {packet, packet + 1}]_vars

\* Once join has returned, the callback is not called and the queue and the
\* codec are not touched by the worker, so that both may be destroyed.
NothingAfterJoin ==
    [][(user \in {"drain", "gone"}) => workerVars' = workerVars]_vars

\* The destructor of a decoder comes to its end, also when the codec makes no
\* progress with the packet it is in, unless the process ends first.
DestructorReturns == user = "interrupt" ~> user \in {"gone", "ended"}

\* Every packet fed is popped at last, unless the codec takes no byte of one
\* packet for ever, the inner loop having no other way out, or the process
\* ends.
DrainsOrStalls ==
    \/ <>[](the_queue = <<>>)
    \/ <>(user = "ended")
    \/ <>[](worker \in {"decode", "callback"} /\ size > 0)

\* The decoder seen from outside: what it has been fed, what it has shown, and
\* whether another frame may come.
QueueState ==
    IF user \in {"drain", "gone"} THEN "closed"
    ELSE IF user # "join" THEN "open"
    ELSE IF worker = "callback" THEN "last" ELSE "ending"

Queue == INSTANCE PictureQueue WITH fed <- fedCount, state <- QueueState

\* Frames are handed over in the order in which their packets were fed; after
\* the interrupt of the destructor only the callback that is under way comes
\* to its end, and once its join has returned there is none.
ImplementsPictureQueue == Queue!Spec
=============================================================================
