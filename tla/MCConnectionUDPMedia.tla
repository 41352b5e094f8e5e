------------------------ MODULE MCConnectionUDPMedia ------------------------
(***************************************************************************)
(* A stream with frames of two packs and of one, an audio frame, and one   *)
(* video frame whose size does not fit in VideoPacket::data_len.           *)
(***************************************************************************)
EXTENDS ConnectionUDPMedia

MCFrames ==
    << [type |-> VIDEO, sizes |-> <<2, 1>>],
       [type |-> VIDEO, sizes |-> <<3>>],
       [type |-> AUDIO, sizes |-> <<1>>],
       [type |-> VIDEO, sizes |-> <<2, 2, 1>>] >>
=============================================================================
