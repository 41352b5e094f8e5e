---------------------------- MODULE MCUXSession ----------------------------
(***************************************************************************)
(* UXSession with two Java threads and one media connection.  The hall     *)
(* server and the room server can send to every socket, so each is a third *)
(* party to the other's connection.                                        *)
(***************************************************************************)
EXTENDS UXSession, TLC

CONSTANTS a1, a2

MCServer == [c \in {"hall", "room"} |-> c]
MCEndpoint == {"hall", "room"}
MCApp == {a1, a2}
Threads == Permutations(MCApp)
=============================================================================
