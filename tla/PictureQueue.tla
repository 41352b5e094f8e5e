---------------------------- MODULE PictureQueue ----------------------------
(***************************************************************************)
(* What a decoder with a thread of its own promises the connection that    *)
(* owns it.  It is fed packets, numbered from 1, and hands frames back in  *)
(* the order of their packets, any number for each packet, until it is     *)
(* closed.  A frame on its way while the decoder is being closed may still *)
(* come, one at most; once it is closed, none does.                        *)
(***************************************************************************)
EXTENDS Naturals

VARIABLES fed,     \* the number of packets fed
          shown,   \* the packet of the last frame, 0 for none
          state    \* "open", "last" while one more frame may come, "ending"
                   \* while none does any more, or "closed"

vars == <<fed, shown, state>>

Init ==
    /\ fed = 0
    /\ shown = 0
    /\ state = "open"

Feed ==
    /\ state = "open"
    /\ fed' = fed + 1
    /\ UNCHANGED <<shown, state>>

\* A frame of a packet that was fed, and of none before the last one's.
Show ==
    /\ state \in {"open", "last"}
    /\ shown' \in shown .. fed
    /\ shown' > 0
    /\ state' = IF state = "open" THEN "open" ELSE "ending"
    /\ UNCHANGED fed

Interrupt ==
    /\ state = "open"
    /\ state' \in {"last", "ending"}
    /\ UNCHANGED <<fed, shown>>

Close ==
    /\ state = "ending"
    /\ state' = "closed"
    /\ UNCHANGED <<fed, shown>>

Next == Feed \/ Show \/ Interrupt \/ Close

Spec == Init /\ [][Next]_vars
=============================================================================
