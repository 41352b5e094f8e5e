------------------------------- MODULE MCHive -------------------------------
(***************************************************************************)
(* Hive with two connections, as UX makes them for the hall and the room,  *)
(* and two threads that call Stop and Reset.                               *)
(***************************************************************************)
EXTENDS Hive

CONSTANTS hall, room, java1, java2

MCConn == {hall, room}
MCCaller == {java1, java2}
=============================================================================
