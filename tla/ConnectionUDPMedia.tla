------------------------- MODULE ConnectionUDPMedia -------------------------
(***************************************************************************)
(* ConnectionUDPMedia (io/connection_udp_media.cc): a viewer's connection  *)
(* to a media server.  It asks for the stream with a handshake, which its  *)
(* timer repeats, puts the packs of a video frame together and feeds the   *)
(* frame to the decoder.  Nothing is acknowledged and nothing sent again.  *)
(*                                                                         *)
(* The server is external: it streams to whoever shakes hands and stops at *)
(* a leave command.  The network loses, repeats and reorders datagrams.    *)
(***************************************************************************)
EXTENDS MediaPack, Sequences, FiniteSetsExt, SequencesExt

CONSTANTS Frames,     \* what the server streams: [type, sizes of the packs]
          Width,      \* VideoPacket::data_len counts modulo Width: 2^16
          MaxFed,     \* bound: packets fed to the decoder in a behaviour
          UserId

ASSUME FramesAssumption ==
    /\ Frames \in Seq([type : {AUDIO, VIDEO}, sizes : Seq(Nat) \ {<<>>}])
    /\ Width \in Nat \ {0}
    /\ MaxFed \in Nat
    /\ UserId \in Nat

VARIABLES
    phase,                   \* how far Open and Close have come
    receiving,               \* an async_receive_from is outstanding
    m_shutdown,              \* Hive::m_shutdown
    posted,                  \* StartSend calls queued on the strand
    recved_uncomplete_list,  \* packs waiting for the rest of their frame
    hung,                    \* RegroupPack is in a loop it never leaves
    fed,                     \* the packets video_decoder_ has been fed
    toServer,                \* every datagram ever sent to the server
    subscribed,              \* the server streams to this viewer
    streamed,                \* the number of frames the server has sent
    seen,                    \* history: the small packs RegroupPack was given
    disordered               \* history: one of them after a later one

vars == <<phase, receiving, m_shutdown, posted, recved_uncomplete_list, hung,
          fed, toServer, subscribed, streamed, seen, disordered>>

connVars == <<phase, receiving, m_shutdown, posted>>
serverVars == <<toServer, subscribed, streamed>>
recvVars == <<recved_uncomplete_list, hung, fed, seen, disordered>>

R == INSTANCE Regroup WITH BigOf <- GetId, SmallOf <- GetSmallId,
                           TotalOf <- GetCount

Commands == [Cmd : Nat, UserID : Nat]

TypeOK ==
    /\ phase \in {"new", "opening", "open", "closing", "closed"}
    /\ receiving \in BOOLEAN
    /\ m_shutdown \in BOOLEAN
    /\ posted \in Seq(Commands)
    /\ recved_uncomplete_list \in Seq(VideoPacks)
    /\ hung \in BOOLEAN
    /\ fed \in Seq([packs : Seq(VideoPacks), data_len : 0 .. Width - 1])
    /\ toServer \subseteq Commands
    /\ subscribed \in BOOLEAN
    /\ streamed \in Nat
    /\ seen \subseteq VideoPacks
    /\ disordered \in BOOLEAN

Init ==
    /\ phase = "new"
    /\ receiving = FALSE
    /\ m_shutdown = FALSE
    /\ posted = <<>>
    /\ recved_uncomplete_list = <<>>
    /\ hung = FALSE
    /\ fed = <<>>
    /\ toServer = {}
    /\ subscribed = FALSE
    /\ streamed = 0
    /\ seen = {}
    /\ disordered = FALSE

-----------------------------------------------------------------------------
(***************************************************************************)
(* The server, and the frames as the network carries them.                 *)
(***************************************************************************)
\* The sum of a sequence of sizes, one added after the other.
TotalSize(sizes) ==
    LET total[i \in 0 .. Len(sizes)] ==
          IF i = 0 THEN 0 ELSE total[i - 1] + sizes[i]
    IN  total[Len(sizes)]

FrameSize(f) == TotalSize(Frames[f].sizes)

PacksOf(f) ==
    [i \in DOMAIN Frames[f].sizes |->
        IF Frames[f].type = VIDEO
        THEN [type |-> VIDEO, Index |-> f, sID |-> i,
              sCount |-> Len(Frames[f].sizes), sSize |-> Frames[f].sizes[i],
              FrameSize |-> FrameSize(f)]
        ELSE [type |-> AUDIO, Index |-> f, Size |-> Frames[f].sizes[i]]]

\* What the viewer may receive: any pack of any frame sent so far.
InFlight == UNION {ToSet(PacksOf(f)) : f \in 1 .. streamed}

ServerRecv ==
    \E command \in toServer :
        /\ subscribed' = CASE command.Cmd = 15 -> TRUE
                           [] command.Cmd = 17 -> FALSE
                           [] OTHER -> subscribed
        /\ UNCHANGED <<connVars, recvVars, toServer, streamed>>

ServerSendFrame ==
    /\ subscribed
    /\ streamed < Len(Frames)
    /\ streamed' = streamed + 1
    /\ UNCHANGED <<connVars, recvVars, toServer, subscribed>>

-----------------------------------------------------------------------------
(***************************************************************************)
(* Calls of the application.                                               *)
(***************************************************************************)
\* Opens the socket, posts HandleOpen and arms the timer.
Open ==
    /\ phase = "new"
    /\ phase' = "opening"
    /\ UNCHANGED <<receiving, m_shutdown, posted, recvVars, serverVars>>

\* Ten leave commands, so that one of them may arrive.
PostSendLeave ==
    /\ posted = <<>>
    /\ posted' = posted \o [i \in 1 .. 10 |-> EncodeRcvLeave(UserId)]
    /\ UNCHANGED <<phase, receiving, m_shutdown, recvVars, serverVars>>

Close ==
    /\ phase = "open"
    /\ phase' = "closing"
    /\ UNCHANGED <<receiving, m_shutdown, posted, recvVars, serverVars>>

\* Hive::Stop sets the shutdown flag once.
Stop ==
    /\ ~m_shutdown
    /\ m_shutdown' = TRUE
    /\ UNCHANGED <<phase, receiving, posted, recvVars, serverVars>>

-----------------------------------------------------------------------------
(***************************************************************************)
(* Handlers on the strand.  HandleSend has an empty body, so that a send   *)
(* that fails is a datagram that is lost.                                  *)
(***************************************************************************)
SocketOpen == phase \in {"opening", "open", "closing"}

AsyncSend(pack) ==
    toServer' = IF SocketOpen THEN toServer \cup {pack} ELSE toServer

HandleOpen ==
    /\ ~hung
    /\ phase = "opening"
    /\ phase' = "open"
    /\ receiving' = TRUE
    /\ AsyncSend(EncodeRcvShakHandPack(UserId))
    /\ UNCHANGED <<m_shutdown, posted, recvVars, subscribed, streamed>>

StartSend ==
    /\ ~hung
    /\ posted # <<>>
    /\ AsyncSend(Head(posted))
    /\ posted' = Tail(posted)
    /\ UNCHANGED <<phase, receiving, m_shutdown, recvVars, subscribed, streamed>>

\* Shakes hands again, whether or not the viewer has left, and arms the timer.
HandleTimer ==
    /\ ~hung
    /\ phase # "new"
    /\ AsyncSend(EncodeRcvShakHandPack(UserId))
    /\ UNCHANGED <<connVars, recvVars, subscribed, streamed>>

HandleClose ==
    /\ ~hung
    /\ phase = "closing"
    /\ phase' = "closed"
    /\ UNCHANGED <<receiving, m_shutdown, posted, recvVars, serverVars>>

DataSize(packs) == TotalSize([i \in DOMAIN packs |-> GetDataSize(packs[i])])

\* Mutated form of OnGotMediaData: audio packs are fed as well.
OnGotAnyData(packs) ==
    fed' = Append(fed, [packs    |-> packs,
                        data_len |-> DataSize(packs) % Width])

\* Only video goes on; its length is kept in sixteen bits.
OnGotMediaData(packs) ==
    fed' = IF GetType(packs[1]) = VIDEO
           THEN Append(fed, [packs    |-> packs,
                             data_len |-> DataSize(packs) % Width])
           ELSE fed

\* p comes before q in the order of the stream.
Earlier(p, q) ==
    \/ GetId(p) < GetId(q)
    \/ GetId(p) = GetId(q) /\ GetSmallId(p) < GetSmallId(q)

RegroupPack(p) ==
    LET list == recved_uncomplete_list IN
    /\ recved_uncomplete_list' = R!ListAfter(list, p)
    /\ hung' = R!Hangs(list, p)
    /\ seen' = seen \cup {p}
    /\ disordered' = (disordered \/ \E q \in seen : Earlier(p, q))
    /\ IF R!Completes(list, p) THEN OnGotMediaData(R!Assembled(list, p))
                               ELSE UNCHANGED fed

HandleRecv(p) ==
    /\ ~hung
    /\ phase \in {"open", "closing"}
    /\ receiving
    /\ ~m_shutdown
    /\ Len(fed) < MaxFed
    /\ IF IsSmallPack(p)
       THEN RegroupPack(p)
       ELSE /\ OnGotMediaData(<<p>>)
            /\ UNCHANGED <<recved_uncomplete_list, hung, seen, disordered>>
    /\ UNCHANGED <<connVars, serverVars>>

\* After Stop the first receive to end is the last.
HandleRecvStopped ==
    /\ ~hung
    /\ receiving
    /\ m_shutdown
    /\ receiving' = FALSE
    /\ UNCHANGED <<phase, m_shutdown, posted, recvVars, serverVars>>

-----------------------------------------------------------------------------
Next ==
    \/ ServerRecv \/ ServerSendFrame
    \/ Open \/ PostSendLeave \/ Close \/ Stop
    \/ HandleOpen \/ StartSend \/ HandleTimer \/ HandleClose
    \/ \E p \in InFlight : HandleRecv(p)
    \/ HandleRecvStopped

Spec == Init /\ [][Next]_vars

-----------------------------------------------------------------------------
(***************************************************************************)
(* Properties.                                                             *)
(***************************************************************************)
\* What the decoder is fed is one whole video frame, all its packs in order,
\* and as its length the low sixteen bits of FrameSize: a frame that they do not
\* hold is fed with less than its bytes, however it was put together.
FramesFedWhole ==
    \A i \in DOMAIN fed :
        LET packs == fed[i].packs
            size  == GetFrameSize(packs[1])
        IN  /\ packs \in {PacksOf(f) : f \in DOMAIN Frames}
            /\ GetType(packs[1]) = VIDEO
            /\ fed[i].data_len = size % Width

\* RegroupPack may run for ever only after packs of the stream have changed
\* places on the way: a loss or an immediate repetition does not hang it.
HangsOnlyOnReordering == hung => disordered

Regrouped(i) == Len(fed[i].packs) > 1

\* As long as no pack has been overtaken, no regrouped frame is fed twice or
\* after a later one, whatever was lost or repeated.
FedInOrder ==
    ~disordered =>
        \A i, j \in DOMAIN fed :
            i < j /\ Regrouped(i) /\ Regrouped(j)
                => GetId(fed[i].packs[1]) < GetId(fed[j].packs[1])

\* total_size of RegroupPack: how much of a frame the list holds.
HeldSize(list, id) ==
    TotalSize([i \in DOMAIN list |-> IF GetId(list[i]) = id THEN GetDataSize(list[i]) ELSE 0])

\* The list is in the order of the stream, without repetitions, and holds no
\* complete frame and no more bytes of one than it has: the assertions of
\* RegroupPack on count and size hold.
HeldInOrder ==
    LET list == recved_uncomplete_list IN
    /\ \A i, j \in DOMAIN list : i < j => Earlier(list[i], list[j])
    /\ \A p \in ToSet(list) :
         /\ Cardinality({i \in DOMAIN list : GetId(list[i]) = GetId(p)}) < GetCount(p)
         /\ HeldSize(list, GetId(p)) <= GetFrameSize(p)

\* A pack leaves the list only when its frame is fed in the same step: one
\* frame that lost a pack is held for ever, but costs no other its packs.
HeldUntilFed ==
    [][\A p \in ToSet(recved_uncomplete_list) \ ToSet(recved_uncomplete_list') :
          fed' # fed /\ p \in ToSet(Last(fed').packs)]_vars

\* The server never hears that the viewer leaves: PostSendLeave sends the
\* command of the handshake.
LeaveNeverHeard == [][subscribed => subscribed']_vars
=============================================================================
