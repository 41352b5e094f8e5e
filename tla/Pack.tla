------------------------------- MODULE Pack -------------------------------
(***************************************************************************)
(* The datagrams of ConnectionUDP (io/pack.h): how a message is cut into   *)
(* packs, and what the accessors of a pack return.  A pack is a record     *)
(* with the fields of TPack or of TAnsPack; the bytes a pack carries are   *)
(* named by the message they come from and their offset in it.            *)
(***************************************************************************)
EXTENDS Integers

CONSTANTS MAX_DATA_SIZE,     \* bytes of a message that one pack carries
          MAX_RESEND_COUNT   \* successful sends after which a pack is dropped

ASSUME PackAssumption ==
    /\ MAX_DATA_SIZE \in Nat \ {0}
    /\ MAX_RESEND_COUNT \in Nat \ {0}

TPack_CMD == 1
TAnsPack_CMD == 2

(***************************************************************************)
(* EncodeData.  One message takes the big-pack id bid == current_id++ and  *)
(* its i-th pack the ID bid+i; sID and eID are the first and the last ID   *)
(* of the message.  NeedAns is always set.                                 *)
(***************************************************************************)
Count(len) == (len + MAX_DATA_SIZE - 1) \div MAX_DATA_SIZE

\* Mutated form of Offset: the pieces counted from 0.
OffsetFromZero(i) == (i - 2) * MAX_DATA_SIZE

Offset(i) == (i - 1) * MAX_DATA_SIZE

PieceSize(len, i) ==
    LET left == len - Offset(i) IN
    IF left > MAX_DATA_SIZE THEN MAX_DATA_SIZE ELSE left

EncodeData(bid, len) ==
    [i \in 1 .. Count(len) |->
        [Cmd     |-> TPack_CMD,
         ID      |-> bid + i,
         NeedAns |-> 1,
         bID     |-> bid,
         sID     |-> bid + 1,
         eID     |-> bid + Count(len),
         Size    |-> PieceSize(len, i),
         Data    |-> Offset(i)]]

EncodeAnsPack(id) == [Cmd |-> TAnsPack_CMD, ID |-> id]

(***************************************************************************)
(* The accessors.  GetId of a data pack is its sID, not its ID.            *)
(***************************************************************************)
IsAnsPack(p) == p.Cmd = TAnsPack_CMD

\* Mutated form of GetId: every piece answers with its own ID.
OwnId(p) == p.ID

GetId(p) == IF p.Cmd = TPack_CMD THEN p.sID ELSE p.ID

GetBigId(p) == IF p.Cmd = TPack_CMD THEN p.bID ELSE p.ID

GetStartId(p) == IF p.Cmd = TPack_CMD THEN p.sID ELSE p.ID

GetEndId(p) == IF p.Cmd = TPack_CMD THEN p.eID ELSE p.ID

needAns(p) == ~IsAnsPack(p) /\ p.NeedAns # 0

\* Mutated form of IsSmallPack: the first piece is taken for the message.
SmallButFirst(p) == ~IsAnsPack(p) /\ p.sID < p.ID

IsSmallPack(p) == ~IsAnsPack(p) /\ p.sID < p.eID

\* The number of packs of the message that p is a piece of.
PiecesOf(p) == GetEndId(p) - GetStartId(p) + 1

\* The bytes body() points at: where they stand in which message.
Body(p) == [of |-> p.bID, from |-> p.Data, size |-> p.Size]

Bodies == [of : Nat, from : Nat, size : Nat]

(***************************************************************************)
(* A send-list entry is a pack with its sended_count_; out_of_resend_count *)
(* decides when it is given up.                                            *)
(***************************************************************************)
\* Mutated form of out_of_resend_count: one send too early.
OutOneEarly(e) == e.sended_count >= MAX_RESEND_COUNT - 1

out_of_resend_count(e) == e.sended_count >= MAX_RESEND_COUNT

\* The entries of a list for which should_resend returns true: those never sent,
\* and of the others those that the wall clock finds RESEND_DELAY old, any.
should_resend(list) ==
    {due \in SUBSET list : \A e \in list : e.sended_count = 0 => e \in due}

(***************************************************************************)
(* The packs that EncodeData and EncodeAnsPack can make.                   *)
(***************************************************************************)
DataPacks ==
    [Cmd : {TPack_CMD}, ID : Nat, NeedAns : {1}, bID : Nat, sID : Nat,
     eID : Nat, Size : Nat, Data : Nat]

AnsPacks == [Cmd : {TAnsPack_CMD}, ID : Nat]

Packs == DataPacks \cup AnsPacks
=============================================================================
