# A TLA+ model of ux

`ux` is the native part of a chat client: JSON messages to a "hall" and a
"room" over acknowledged UDP datagrams, and video channels over plain UDP that
are reassembled and decoded.  All paths below are under `src/ux/jni/`.

## 1. Inventory

| part | state | operations | talks to |
|---|---|---|---|
| `Hive` (io/hive) | io_service, work object, `m_shutdown` | `Poll`, `Run`, `Stop`, `Reset`, `HasStopped` | one Hive is shared by all connections of a `UX`; every connection has a thread that polls it |
| `Pack` (io/pack) | header, data, `sended_count_`, `last_send_time_`; the static `current_id` | `EncodeData`, `EncodeAnsPack`, accessors, `SendSuccessOnce`, `out_of_resend_count`, `should_resend` | made by `PostSend` and `HandleRecv` |
| `ConnectionUDP` (io/connection_udp) | `send_pending_list`, `recved_uncomplete_list`, socket, timer, strand, worker thread | `Open`, `Close`, `PostSend`; handlers `HandleOpen`, `StartSend`, `HandleSend`, `HandleRecv`, `HandleTimer`, `HandleClose` | the peer (datagrams), the application (`data_callback_`) |
| `MediaPack` (io/media_pack) | header of a media datagram | encoders of the viewer's commands, accessors | |
| `ConnectionUDPMedia` (io/connection_udp_media) | as above, without a send list | the same, with `PostSendLeave` and a handshake | the media server; `VideoDecoderFF::Feed` |
| `ConcurrentQueue` (util) | queue, mutex, condition variable | `push`, `wait_and_pop`, `try_pop`, `empty`, `size` | strand of a media connection and decode thread |
| `VideoDecoderFF` (media) | the queue, the codec, a thread | `Feed`, `Decode`, destructor | calls `OnVideoDecoded` back |
| `AudioDecoderFF` | the same | the same, with a conversion of the sound | never constructed: `OnGotMediaData` returns first (connection_udp_media.cc:276) |
| `UX` (ux) | the hall and the room connection, `media_connect_vector`, two callbacks | `StartHall`, `StartRoom`, `AddMedia`, `SendHallData`, `SendRoomData`, `Exit`, registrations, `OnDataCallback` | everything above; called by the JNI glue |
| JNI glue (ux_jni) | `g_hall_data_callback`, `g_room_data_callback`, the threads attached to the JVM | one entry point for each call of `UX`; `HallDataCallback` | Java, from its own threads and, on a worker, from the callback |
| `VideoRender` (media/video_render) | the program and where its attributes are, the latest picture, flags | `create`, `dispose`, `gLInit`, `gLRender`, `RegisterAudioCallback` | OpenGL ES; the transport that has the pictures |
| `AudioTrack`, `JsonPack`, utilities, `test.cpp` | none that matters here | an empty class, an unused stub, logging, a manual driver | |

What is hard in this code: datagrams lost, repeated and reordered; handlers of
several connections interleaved by several polling threads with calls of the
application; timers that re-arm; acknowledgements matched by numbers that two
processes choose independently; a reassembly loop whose list is changed while it
is walked; a queue between two threads whose consumer is interrupted; callbacks into Java
that can run on any thread, call the API again, and be replaced meanwhile.
`PROJECT.json` lists the hazards, each at its line, with the properties that
would catch it.

What makes each part correct:

* **Pack**: the packs of a message cover it exactly.
* **ConnectionUDP**: the sender forgets a pack only when it was received or when
  it was tried `MAX_RESEND_COUNT` times; what is delivered is one whole message
  of the peer; each message settles; no handler keeps the strand.
* **RegroupPack**: it ends, its list stays in order, it hands over a message
  exactly when all pieces are there.
* **Hive**: after `Stop` no handler runs; `Stop` returns; after `Reset` handlers
  run again.
* **ConnectionUDPMedia**: the decoder is fed whole frames, in order when the
  network keeps the order; a lost pack costs no other frame.
* **VideoDecoderFF, AudioDecoderFF**: no packet is lost between the threads, no
  wakeup either; frames come in order; the destructor returns and nothing of the
  thread happens after it.
* **UX and the JNI glue**: messages go to whom the hall socket has to do with; an
  answer takes out one message; a callback uses no deleted reference and leaves
  Java's threads attached; no connection is destroyed under its worker.
* **VideoRender**: a frame shows the latest picture, with the positions and the
  texture coordinates at the attributes the program reads them from.

## 2. Modules

| module | models | used by |
|---|---|---|
| `Pack` | pack.h, pack.cc: cutting a message into packs, the accessors | `ConnectionUDP` |
| `Regroup` | RegroupPack as a function of list and pack; parameterised by the accessors, as both connections run the same loop | `ConnectionUDP`, `ConnectionUDPMedia`, `RegroupLoop` |
| `RegroupLoop` | one call of RegroupPack, one action per branch of the loop | |
| `ConnectionUDP` | two processes, each with one connection, and the network | |
| `MessageLink` | abstract: what a pair of connections promises | `UDPLink` |
| `UDPLink` | the refinement mapping from `ConnectionUDP` to `MessageLink` | |
| `Hive` | the shared io_service, Stop and Reset, the work its connections keep outstanding | |
| `MediaPack` | media_pack.h | `ConnectionUDPMedia` |
| `ConnectionUDPMedia` | one viewer, the network and an external server | |
| `MediaDecoder` | the queue, the decode thread of either decoder, its user and its destructor | |
| `PictureQueue` | abstract: what a decoder promises its connection | `MediaDecoder` |
| `UXSession` | UX and its JNI glue: Java threads, the workers, the connections as far as the session depends on them, the callback | |
| `VideoRender` | video_render.cc over an external OpenGL | |
| `MC*` | instances for TLC | |
| `RegroupLoopProofs`, `ConnectionUDPProofs`, `AckProofs`, `HiveProofs`, `MediaProofs`, `DecoderProofs`, `SessionProofs`, `VideoRenderProofs` | theorems | |

Definitions named "Mutated form of X" stand beside X: they are the plausible
mistakes the properties are tried against, and no specification uses them.

### How they correspond to the code

**ConnectionUDP.**  Handlers of a connection run on its strand, one at a time and
each to its end, so each is one action: `HandleRecv` includes sending the answer,
entering it in the send list, and `RegroupPack` with the callback.  Calls of the
application (`Open`, `PostSend`, `Close`, and `Hive::Stop`) interleave.  A send
is split where the code splits it: `StartSend`/`HandleTimer`/`HandleRecv` hand a
pack to the socket, `HandleSend` runs later, with or without an error, and a
send that is over is kept in a bag until then.
The network `net[n]` is the set of everything ever sent to `n`: loss is never
receiving, repetition and reordering are receiving from a set.  `sended_count_`
of a new pack takes any value of `InitialCounts`, as nothing initialises it.
`should_resend` looks at the wall clock: any subset of the packs may be due, but
those never sent are.  `tries`, `encoded` and `recved` are history, read by
properties only.
Left free on purpose: the order in which the strand takes the posted `HandleOpen`,
`HandleClose` and `StartSend` (another order is one the network could cause by
delay or loss).  Answers entered in the send list twice are one element of a set:
all copies share the id by which they are removed.  Resolving and opening the
socket succeed.  After `HandleClose` every send fails and nothing is received.

**Regroup and RegroupLoop.**  `Hangs` is the case in which the loop inserts a pack
before the iterator and does not move on.  In the program the list or the counter
then grows until memory or the assertion ends the process; the model calls the
state `hung` and the connection does nothing more.  `RegroupLoop` follows the
branches of the loop with explicit iterators; its run shows on every list up to
the bound that `Regroup` is what the loop computes.

**Hive.**  Boost.Asio is external: an io_service counts the work object and the
outstanding operations, and stops when a thread brings that count to zero.  `Stop` and
`Reset` are split at every statement and called by any number of threads.  A
caller of `Stop` whose compare-and-swap fails returns at once (`StopLoses`),
whatever the first one is doing.  The flag is changed before anything else, so a
`Reset` can begin while a `Stop` is in `run()`, and a `Stop` while a `Reset` has not
made its work object: `overlapped` records it, and `WorkRace` is two threads
in `m_work_ptr.reset` at once, of which each may have read the old pointer.  What
that double release does to the heap is left out; the count of works is taken to
end where the second release finds nothing.  Of a connection the module keeps how many
operations of each kind are outstanding.  `exited` is never assigned in the
source and takes either value.

**ConnectionUDPMedia.**  The server and its stream are external, modelled from
what the viewer's code expects.  `HandleSend` is empty, so a failed send is a lost
datagram.  Audio is dropped by `OnGotMediaData`.  `data_len` is kept modulo
`Width` as the uint16_t does.  `fed` records the calls of `Feed`.

**MediaDecoder.**  `kind` says which of the two decoders it is; they differ in
`DecodeVideo` and `DecodeAudio` only, as sound has its size computed and is
resampled before the callback.  One user thread stands for the strand that calls
`Feed` and for the thread that destroys the decoder, which come one after the
other.  Every critical section of the queue is an action; `Notify` is one of its
own because `push` unlocks first.  The thread runs before the connection has registered its callback (`Register`);
a decoder of pictures that finds none goes back to the queue, one of sound decodes
on (`HasCallback`).  A resampler that cannot be set up ends the process
(`ResamplerFails`).  Waiting on the condition variable is an
interruption point, as is the call in `Decode`.  The codec is external: it
consumes any length from none to all, or fails, with a frame or without.
`PictureQueue` is the decoder from outside: packets in, frames out in the order of
their packets, one at most once it is being closed, none when it is closed.

**UXSession.**  A worker has the name of its connection.  `exited` is never
assigned; a worker that finds it TRUE takes no step.  Any worker, and a
thread inside `Exit`, may run the handlers of any connection (`Runs`), as all of
them poll one hive.  Calls that another thread can get into are split where it
can: `current_id++` between its read and its write (`SendData`, `PostSend`), a
registration between the old reference and the new one (`Register`,
`Registered`), `Exit` around `Hive::Stop`, `HallDataCallback` between its reads of
the global variable.  `remote_ep` is written when a datagram arrives (`Arrive`),
before the handler has its turn on the strand.  `AddMedia` is three steps: the
call enters `push_back`, leaves it, and opens the connection.  The vector has no lock; once
`push_back` has overlapped another `push_back` or `clear` (`raced`), any elements may be
lost from it, then and later.  A registration stores a new reference or, for a null
callback or when `NewGlobalRef` fails, the null one; `HallDataCallback` that reads
null after its test of line 19 ends the process (`UseNull`).  There is one callback at a time, as the
strand of the hall connection has it.  Simplified: an endpoint is written in one
step; a send is over before anything depends on it; each connection is opened
once; a connection that a race in the vector would release twice is released once;
one media connection is destroyed when
neither the vector nor a handler to come holds it.

**VideoRender.**  OpenGL is external: what linking, binding and deleting a program
do is in `Linked`, `RelinkProgram` and `RenderFrame`.  Until `glBindAttribLocation`
has been called the linker gives the two attributes any two of the
`MaxAttribs` locations.  `gLRender` calls its transport without looking whether there is
one: `GLRenderCrashes` ends the process.  All calls come on the
thread of the view's renderer, one after the other.

## 3. Runs

| run | what it shows |
|---|---|
| `udp_two_way` | one message in each direction with disjoint ids, node `a` may stop, node `b` may close: types, acknowledgements are truthful, and the pair implements `MessageLink` |
| `udp_long` | two messages of one full pack or of two packs: delivery is whole, the list is in order, and no message of two packs is ever delivered |
| `udp_live` | one message under fairness: it settles, and it is given up only after `MAX_RESEND_COUNT` sends when the counter starts from zero |
| `regroup_loop` | the loop computes `Regroup`, keeps its counter below the size of the message, and ends unless `Regroup!Hangs` |
| `hive` | when a `Stop` has returned nothing runs, unless it lost against another that is under way; the io_service stops only without outstanding operations, in a `Stop` or in the gap of a `Reset`; an armed timer keeps it going for ever, so that the `Run` of `Stop` cannot end; `Stop` returns if nothing was opened |
| `media` | frames are fed whole, with the low bits of their length that `data_len` holds, and, without reordering, in order; the list holds no complete frame; packs leave it only with their frame; the loop hangs only after a reordering; the server never hears a leave |
| `decoder` | no lost wakeup, each packet reaches the codec in its turn, the decoder implements `PictureQueue`, the destructor returns and nothing follows it, the queue drains unless the codec makes no progress or the process ends |
| `session` | the callback uses no deleted reference, Java's threads stay attached, no connection goes before its worker unless two threads were in the vector at once, messages leave to whom the hall socket has to do with, ids repeat only after a race in `current_id++` |
| `video_render` | from the second frame on the positions are where the program reads them, in the first one exactly if the linker took locations 0 and 1; every frame shows the latest picture |
| `udp_colliding_ids`, `udp_garbage_count`, `udp_keeps_receiving` | violations, below |

### Where code and words disagree

* `udp_colliding_ids` / `AnsMeansReceived`.  When the send of an answer completes,
  `HandleSend` (connection_udp.cc:60) removes from the node's own list the pack
  with the answer's number, which the peer chose.  Both processes count from 1
  (pack.cc:4).  The comment at :211 says an answer means the other side has
  received the pack.
* `udp_garbage_count` / `GivenUpOnlyAfterMaxResends`.  `sended_count_` (pack.h:346)
  is never initialised; the comment at connection_udp.cc:260 says packs are deleted
  when the maximum number of resends is reached.
* `udp_long` / `OnlySinglePacksDelivered` (a property that holds).  `GetId` (pack.h:203) is the same for
  all pieces of a message, so the second looks like a copy of the first, and
  the message is never assembled (comments at connection_udp.cc:167 and :176).
* `udp_keeps_receiving` / `KeepsReceiving`.  A piece of an earlier message after one
  of a later message keeps `RegroupPack` in its loop (connection_udp.cc:144); the
  comment at :238 says "go on receiving".
* `hive` / `TimerKeepsHive` (a property that holds).  `HandleTimer` always re-arms (connection_udp.cc:264),
  so `Stop` runs for ever once a connection was opened; hive.h:38-39 says it
  finishes all work.
* `hive` / `StopLeavesStopped` (a property that holds).  A caller of `Stop` that loses
  the compare-and-swap (hive.cc:38) returns while the first is in `run()` and handlers
  run; hive.h:38-39 says they do not.  The property names this as the only exception.
* `hive` / `StopsOnlyWhenIdle` (a property that holds).  Between the two statements of
  `Reset` (hive.cc:50-51) a worker that polls finds no work and stops the io_service for
  good; hive.h:41-42 says `Reset` restarts it.  The property names this gap as the only
  place outside `Stop`.
* `media` / `LeaveNeverHeard` (a property that holds).  The leave carries the
  handshake's command, 15 (media_pack.h:96), documented as 17 (media_pack.h:21).

### Bounds, and why they are enough

* Two nodes: a connection has one peer.  `MAX_DATA_SIZE` is 2 and messages have
  length 1, 2 or 3: a short pack, a full one, and two packs with a short last one.
  `MAX_RESEND_COUNT` is 1 or 2: below, at and past the limit.  `IdLimit` bounds
  the messages to one per node, or two of one node, which is what it takes for
  two messages to meet in the list.  `MaxCompletions` = 2 lets a resend and an
  answer be under way at once.
* `udp_long` has the constraint `SendsSucceed`, a state constraint that leaves out
  failed sends; what a failed send changes is in `udp_two_way` and `udp_live`.
* `regroup_loop`: three messages of 2, 3 and 2 packs, every regular list of up to
  `MaxHeld` = 4 packs, all that the list can hold without a complete message;
  `MaxList` = 6 bounds how far a loop that does not end lets it grow.
* `hive`: two connections, one post or close, one outstanding send each, two threads
  that call `Stop` and `Reset`, one `Reset`.  What matters is which counts are zero, who
  wins the compare-and-swap and whether the two calls overlap.
* `media`: frames of 2, 1 and 3 packs and an audio frame, `Width` 4 so that one frame
  (5) does not fit; `MaxFed` = 3 packets.
* `decoder`: both kinds, up to `MaxFed` = 3 packets of 0, 1 or 2 bytes: a packet in
  the codec, one in the queue and one on its way, and one that the codec
  takes in two parts.
* `session`: two threads of Java, the workers of the hall, the room and one media
  connection, two endpoints, `MaxCalls` = 2 messages or registrations: two
  messages to race for an id, or two registrations to replace a reference.  The
  threads of Java are symmetric.  The proofs have any number of all of them.
* `video_render`: `MaxPictures` = 4, as the flags settle after two frames, and
  `MaxAttribs` = 4: locations 0, 1 and two others.

`CHECK_DEADLOCK FALSE` stands in the runs where the system really may stop: a
stopped Hive, a loop that has returned, a media connection that is closed or
hung, a decoder that is destroyed, a process that has ended, a session that has left
with no call to come.

### Fairness

`ConnectionUDP!Fairness`: the polling threads run posted handlers and completions
(weak), and a pack that the timer can send again for ever is taken by the socket
for ever often (strong, `Resend`), as is the dropping of an exhausted one.  The
latter is an assumption: a send that fails is not counted
(connection_udp.cc:56), so on a socket that always fails a pack is resent for ever.
Nothing is assumed of the network or the peer.  `Hive!Fairness` has a thread in `Stop` or `Reset`
go on and covers all handlers but `HandleRecv`, as no datagram need come.  `MediaDecoder!FairSpec` has both
threads run; nothing is assumed of the codec.

## 4. Theorems

All are proved for every value of the constants under the named ASSUMEs of the
modules, which say only that the constants have their types, that `Peer` is an
involution without fixed points, that the sizes are positive, and that OpenGL has at
least two attribute locations.

* `RegroupLoopProofs`: `LoopTypeCorrect`, `RegroupIsTheLoop`, `LoopCountsWithinTotal`,
  `LoopMovesOn`, for lists of every length and messages of any number of packs.
  The loop invariant `LoopInv` has two forms.  While nothing was inserted
  (`Walked`), all packs gone past precede the new one, and those of its message are
  the last of them, from `big_pack_start_it` on and `alredy_count` in number: what
  the loop finds there decides where `Regroup` puts the pack.  Once the loop has
  inserted in the middle (`Endless`), it stands before one later pack for good, and
  `Regroup!Hangs` holds.  `LoopMovesOn` is the variant: a call that does not hang
  returns or moves its iterator on at each step.  The loop is entered with a regular
  list (`Regular`: in order, no message complete).  `UncompletedOrdered` shows that
  of `ConnectionUDP` and `HeldInOrder` of `ConnectionUDPMedia`, each as a theorem, so
  the properties of both connections that use `Regroup` are about the loop.
* `ConnectionUDPProofs`: `PiecesTileMessage`, from bounds on `Count` and `PieceSize`;
  `TypeCorrect`, `SinglePacksOnly`, `OrderedUncompleted`,
  `DeliversWhole`.
  The invariant `Inv` says of every place a data pack can be (posted, send list,
  completions, network, reassembly list) that the pack was made by its sender's
  `PostSend`, that the packs of a message agree on `sID` and `eID`, and that
  deliveries are single packs.  Without it nothing is known of a received pack.
  `DeliversWhole` adds `LonePacks`: a pack that is not small is all of its message.
  `SettledForGood`: a message that has left the send list never comes back to it.
* `AckProofs`: `AcknowledgedMeansReceived`, under `SinglePackMessages` and
  `DisjointIds`: the two conditions under which an answer names one pack.  The
  invariant `AckInv` adds that each answer that is under way, in the list or being
  completed names a pack its sender has received.  Runs `udp_colliding_ids` and
  `udp_long` show what goes wrong without either.
  `SinglePacksKeepReceiving`: without messages of several packs no loop hangs.
  `GivenUpOnlyWhenTried` also assumes that the resend counters start from zero
  (run `udp_garbage_count` shows why); its invariant `CountInv` says that a counter
  never exceeds the sends made.
  `ConnectionsImplementLink` is the refinement of `MessageLink`: `LinkInv` says that a
  pack has one entry in the send list, none while it is posted, and that what was
  received was handed over, so that every handler is one step of the link or none.
* `HiveProofs`: `HiveTypeCorrect` (every count stays a natural number), `StopIsFinal`,
  `TimerNeverEnds`, `NothingLeftBehind`, for any number of callers.  The counts are
  natural numbers because `m_work_ptr` never points to a work object that is gone
  (`PointerAlive`), also after a race.  As long as no two calls that passed their
  compare-and-swap have overlapped, one call at most is under way and the flag says
  which (`OneCall`), and a running io_service has a work object, a `Stop` in `run()`
  or a `Reset` in its gap (`ServiceKept`).  `StopNeverReturns`: every opened connection has its timer
  armed (`OpenedArmed`), so a `Stop` that runs the io_service beside one stays in it.
* `MediaProofs`: `LeaveIsNeverHeard`, since every command sent or posted is a
  handshake, and `OrderedStreamNeverHangs`, since everything in the list has been
  seen and a pack that hangs the loop comes before one of the list.  `ListInOrder`,
  `HeldPacksAreFed`, `FramesFedInOrder` rest on one fact: the list is in stream order, so
  the packs that complete a frame are its end (`CompletesAtEnd`) and leave together.
  `FedInv` adds that, until a pack is overtaken, the last pack of every frame put
  together has been seen: nothing of that frame but this pack can come again.
  `WholeFramesFed`: `WholeInv` says that every pack under way or held is one of
  `PacksOf` of its frame, at the place its `sID` names; ordered packs of one frame,
  as many as it has, can only stand each in its place (`PacksInPlace`), which makes
  the completing packs equal to `PacksOf`.  The size in `HeldInOrder`, the second
  assertion of `RegroupPack`, compares two sums: the list is in order, so the sum
  over it up to any place is at most the sum over the frame up to the pack there
  (`HeldSizeBound`).  `MediaTypeCorrect` adds what an arriving pack can be.
* `DecoderProofs`: `DecoderTypeCorrect`, `WakeupsArrive`, `QuietAfterJoin`,
  `FirstInFirstOut`, `DecoderIsPictureQueue`.  The invariant for the last two (`OrderInv`) relates
  the packet being decoded to the number of packets popped, and says of which states
  of the user the thread may still be in a callback.  `JoinedNeverSleeps` and
  `DestructorMovesOn` are what `DestructorReturns` rests on without fairness: the
  joined thread is never asleep, and each of its steps lowers `StepsLeft`.
* `SessionProofs`: `SessionTypeCorrect`, `DataStaysOnHallSocket`,
  `ConnectionsOutliveWorkers`, `CallbackUsesNoDeletedReference`, `AppThreadsStayAttached`,
  `IdsDistinctWithoutRace`.  Connections outlive their workers because a timer,
  once armed, stays so, and a call of `AddMedia` holds the connection until then; Java's threads stay attached because only a thread in `Exit`
  runs handlers, and from then on `HandleRecv` hands nothing over; ids are distinct
  because, without a race, every id given out is below `current_id` or is the one
  being encoded.
* `VideoRenderProofs`: `RenderTypeCorrect`, `PositionsMatch`, `LatestPictureShown`,
  for any number of locations the linker may choose from.

Facts about sums (`SumsExist`, `SumsRise`, `HeldSizeBound`) are proved from a least
counterexample (`MinIsIn`: a set of naturals has a minimum), as the library's
induction theorems cannot be instantiated.

Only model-checked: liveness under fairness (`EveryMessageSettles`,
`ReturnsUnlessHanging`, `StopReturnsUnopened`, `DestructorReturns`,
`DrainsOrStalls`), which is out of the prover's reach.
`LoopMovesOn`, `DestructorMovesOn`, `SettledForGood` and `StopNeverReturns` prove
what can be said of four of them without fairness: measures that decrease, an end
that is final, and that the hypothesis of `StopReturnsUnopened` cannot be dropped.  Every other property of a passing run is a
theorem.

## 5. Not modelled

`JsonPack`, which nothing uses, and `AudioTrack`, which is empty; the utilities
(logging, clock and thread names) and `test.cpp`; in the JNI glue the conversion
of strings, and `RoomDataCallback`, which nothing calls; in `VideoRender` the pixels, the textures
and `gLResize`; `EncodeMediaPackReq` (no caller), the bytes of a header, the
wrap-around of `current_id` after 2^32 packs, a second `Open` of a connection, and
the join in `Close`, which waits for a flag nothing sets.  `Close` itself is called
by nothing; its `HandleClose` is modelled.

## 6. How it was built, and what could follow

Written in this order: Pack, Regroup, RegroupLoop, ConnectionUDP with its link,
Hive, MediaPack, ConnectionUDPMedia, MediaDecoder with PictureQueue, UXSession,
VideoRender, and the proofs beside each.  What could follow: the composition of
`ConnectionUDPMedia` and `MediaDecoder` as one abstract channel from the server's
frames to the pictures; ids that wrap, in `RegroupLoop`; measures that decrease for
`EveryMessageSettles` and `StopReturnsUnopened`, as `LoopMovesOn` and
`DestructorMovesOn` have them.
