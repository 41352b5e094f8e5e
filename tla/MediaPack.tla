----------------------------- MODULE MediaPack -----------------------------
(***************************************************************************)
(* The datagrams of ConnectionUDPMedia (io/media_pack.h): the commands it  *)
(* sends to the media server, and what the accessors of a received pack    *)
(* return.  A pack of a video frame carries its place in the frame; one of *)
(* an audio frame is a frame of its own.                                   *)
(***************************************************************************)
EXTENDS Integers

AUDIO == 1
VIDEO == 2

EncodeRcvShakHandPack(user_id) == [Cmd |-> 15, UserID |-> user_id]

\* Mutated form of EncodeRcvLeave: the number TRcvLeave documents.
EncodeRcvLeave17(user_id) == [Cmd |-> 17, UserID |-> user_id]

\* The same number as the handshake, where TRcvLeave documents 17.
EncodeRcvLeave(user_id) == [Cmd |-> 15, UserID |-> user_id]

GetType(p) == p.type

GetId(p) == p.Index

\* Mutated form of IsSmallPack: a frame of two packs is not regrouped.
MoreThanTwo(p) == p.type = VIDEO /\ p.sCount > 2

IsSmallPack(p) == p.type = VIDEO /\ p.sCount > 1

GetSmallId(p) == IF p.type = VIDEO THEN p.sID ELSE p.Index

GetCount(p) == IF p.type = VIDEO THEN p.sCount ELSE 0

\* The bytes after the headers, as the header says.
GetDataSize(p) == IF p.type = VIDEO THEN p.sSize ELSE p.Size

GetFrameSize(p) == IF p.type = VIDEO THEN p.FrameSize ELSE 0

\* What a datagram of each kind may hold.
VideoPacks ==
    [type : {VIDEO}, Index : Nat, sID : Nat, sCount : Nat, sSize : Nat,
     FrameSize : Nat]

AudioPacks == [type : {AUDIO}, Index : Nat, Size : Nat]
=============================================================================
