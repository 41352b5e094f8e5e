-------------------------- MODULE RegroupLoopProofs --------------------------
(***************************************************************************)
(* The loop of RegroupPack computes what module Regroup says, for lists of *)
(* every length and messages of any number of packs.                       *)
(***************************************************************************)
EXTENDS RegroupLoop, FiniteSetTheorems, SequenceTheorems, TLAPS

(***************************************************************************)
(* The loop invariant.  While the walk has changed nothing, every pack it  *)
(* went past precedes the new one, and those of the same message are the   *)
(* last of them: they begin at big_pack_start_it and alredy_count counts   *)
(* them.  A call that has inserted the pack inside the list stays in front *)
(* of one and the same later pack, and is one that Regroup says hangs.     *)
(***************************************************************************)
Walked ==
    LET list == recved_uncomplete_list IN
    /\ inserted = FALSE
    /\ list = before /\ list # <<>> /\ data = <<>>
    /\ it \in 1 .. Len(list) + 1
    /\ \A i \in 1 .. it - 1 : Precedes(list[i], pack)
    /\ \/ /\ big_pack_start_it = Len(list) + 1
          /\ alredy_count = 0
          /\ \A i \in 1 .. it - 1 : list[i].big < pack.big
       \/ /\ big_pack_start_it \in 1 .. it - 1
          /\ alredy_count = it - big_pack_start_it
          /\ \A i \in 1 .. big_pack_start_it - 1 : list[i].big < pack.big
          /\ \A i \in big_pack_start_it .. it - 1 : list[i].big = pack.big

Endless ==
    LET list == recved_uncomplete_list IN
    /\ list \in Seq(Pieces)
    /\ it \in 1 .. Len(list)
    /\ alredy_count \in 0 .. MaxList + 1
    /\ big_pack_start_it \in 0 .. Len(list) + 1
    /\ R!Hangs(before, pack)
    /\ \/ inserted = TRUE /\ Here.big = pack.big /\ Len(list) <= MaxList + 1
       \/ inserted = FALSE /\ Here.big > pack.big /\ Len(list) <= MaxList

Entering ==
    /\ recved_uncomplete_list = before
    /\ it = 1
    /\ big_pack_start_it = End
    /\ alredy_count = 0
    /\ inserted = FALSE
    /\ data = <<>>

LoopInv ==
    /\ pack \in Pieces
    /\ before \in Lists
    /\ pc \in {"entry", "loop", "returned"}
    /\ pc = "entry" => Entering
    /\ pc = "loop" => Walked \/ Endless
    /\ pc = "returned" => LoopComputesRegroup /\ TypeOK /\ CountWithinTotal

-----------------------------------------------------------------------------
LEMMA PieceType ==
    ASSUME NEW p \in Pieces
    PROVE  /\ p.big \in DOMAIN Totals /\ p.big \in Nat
           /\ p.small \in Nat
           /\ Totals[p.big] \in Nat /\ Totals[p.big] >= 2
<1>1. PICK b \in DOMAIN Totals : p \in [big : {b}, small : 1 .. Totals[b]]
  BY DEF Pieces
<1>2. p.big = b /\ p.small \in 1 .. Totals[b]
  BY <1>1
<1> QED
  BY <1>2, RegroupLoopAssumption

LEMMA ListType ==
    ASSUME NEW list \in Lists
    PROVE  /\ list \in Seq(Pieces)
           /\ Len(list) \in Nat /\ Len(list) <= MaxHeld
           /\ DOMAIN list = 1 .. Len(list)
           /\ Regular(list)
<1>1. PICK k \in 0 .. MaxHeld : list \in [1 .. k -> Pieces]
  BY DEF Lists
<1>2. k \in Nat /\ k <= MaxHeld
  BY <1>1, RegroupLoopAssumption
<1>3. list \in Seq(Pieces) /\ Len(list) = k
  BY <1>1, <1>2
<1>4. Regular(list)
  BY DEF Lists
<1> QED
  BY <1>2, <1>3, <1>4

\* A number with no smaller one beside it is the minimum.
LEMMA MinIs ==
    ASSUME NEW S \in SUBSET Nat, NEW m \in S, \A y \in S : m <= y
    PROVE  R!Min(S) = m
<1> DEFINE P(x) == x \in S /\ \A y \in S : x <= y
<1>1. P(m)
  OBVIOUS
<1>2. \A x : P(x) => x = m
  <2> SUFFICES ASSUME NEW x, P(x) PROVE x = m
    OBVIOUS
  <2>1. x \in Nat /\ m \in Nat /\ x <= m /\ m <= x
    OBVIOUS
  <2> QED
    BY <2>1
<1>3. R!Min(S) = CHOOSE x \in S : \A y \in S : x <= y
  BY DEF R!Min
<1> QED
  BY <1>1, <1>2, <1>3

LEMMA CountedIs ==
    ASSUME alredy_count \in 0 .. MaxList + 1
    PROVE  /\ Counted \in 0 .. MaxList + 1
           /\ alredy_count <= MaxList => Counted = alredy_count + 1
<1> DEFINE S == {alredy_count + 1, MaxList + 1}
<1>1. MaxList \in Nat
  BY RegroupLoopAssumption
<1>2. Counted = CHOOSE x \in S : \A y \in S : x <= y
  BY DEF Counted, Min
<1> DEFINE m == IF alredy_count <= MaxList THEN alredy_count + 1 ELSE MaxList + 1
<1>3. m \in S /\ \A y \in S : m <= y
  BY <1>1
<1>4. \A x \in S : (\A y \in S : x <= y) => x = m
  BY <1>1
<1>5. Counted = m
  BY <1>2, <1>3, <1>4
<1> QED
  BY <1>1, <1>5

\* Packs that precede the new one are no obstacle.
LEMMA PrecedingNoObstacle ==
    ASSUME NEW list \in Seq(Pieces), NEW p \in Pieces, NEW i \in DOMAIN list
    PROVE  i \in R!Obstacles(list, p) <=> ~Precedes(list[i], p)
<1>1. list[i] \in Pieces
  OBVIOUS
<1>2. /\ list[i].big \in Nat /\ list[i].small \in Nat
      /\ p.big \in Nat /\ p.small \in Nat
  BY <1>1, PieceType
<1> QED
  BY <1>2 DEF R!Obstacles, Precedes, BigId, SmallId

LEMMA WalkedTypes ==
    ASSUME LoopInv, pc = "loop", Walked
    PROVE  /\ recved_uncomplete_list \in Lists
           /\ recved_uncomplete_list \in Seq(Pieces)
           /\ DOMAIN recved_uncomplete_list = 1 .. Len(recved_uncomplete_list)
           /\ Len(recved_uncomplete_list) \in Nat
           /\ Len(recved_uncomplete_list) <= MaxHeld
           /\ MaxHeld \in Nat /\ MaxList \in Nat /\ MaxHeld < MaxList
           /\ it \in 1 .. Len(recved_uncomplete_list) + 1
           /\ alredy_count \in Nat /\ alredy_count <= it - 1
           /\ big_pack_start_it \in 1 .. Len(recved_uncomplete_list) + 1
           /\ Counted = alredy_count + 1
<1> DEFINE n == Len(recved_uncomplete_list)
<1>1. recved_uncomplete_list \in Lists
  BY DEF Walked, LoopInv
<1>2. n \in Nat /\ n <= MaxHeld
  BY <1>1, ListType
<1>3. MaxHeld \in Nat /\ MaxList \in Nat /\ MaxHeld < MaxList
  BY RegroupLoopAssumption
<1> HIDE DEF n
<1>4. /\ it \in 1 .. n + 1
      /\ \/ big_pack_start_it = n + 1 /\ alredy_count = 0
         \/ big_pack_start_it \in 1 .. it - 1 /\ alredy_count = it - big_pack_start_it
  BY DEF Walked, n
<1>5. alredy_count \in Nat /\ alredy_count <= it - 1 /\ big_pack_start_it \in 1 .. n + 1
  BY <1>2, <1>4
<1>6. alredy_count \in 0 .. MaxList + 1 /\ alredy_count <= MaxList
  BY <1>2, <1>3, <1>4, <1>5
<1>7. Counted = alredy_count + 1
  BY <1>6, CountedIs
<1> QED
  BY <1>1, <1>2, <1>3, <1>4, <1>5, <1>7, ListType DEF n

\* What the iterator stands on, inside the list.
LEMMA HerePiece ==
    ASSUME recved_uncomplete_list \in Seq(Pieces),
           it \in 1 .. Len(recved_uncomplete_list), pack \in Pieces
    PROVE  /\ Here \in Pieces
           /\ Here.big \in Nat /\ Here.small \in Nat
           /\ pack.big \in Nat /\ pack.small \in Nat
<1>1. Here \in Pieces
  BY DEF Here
<1> QED
  BY <1>1, PieceType

\* The pack that ends the walk is the first obstacle.
LEMMA FirstObstacle ==
    ASSUME LoopInv, pc = "loop", Walked,
           it \in 1 .. Len(recved_uncomplete_list), ~Precedes(Here, pack)
    PROVE  /\ it \in R!Obstacles(recved_uncomplete_list, pack)
           /\ R!Min(R!Obstacles(recved_uncomplete_list, pack)) = it
<1> DEFINE list == recved_uncomplete_list
           n == Len(list)
           O == R!Obstacles(list, pack)
<1>1. list \in Seq(Pieces) /\ n \in Nat /\ DOMAIN list = 1 .. n /\ pack \in Pieces
  BY WalkedTypes DEF LoopInv
<1>2. it \in O
  BY <1>1, PrecedingNoObstacle DEF Here
<1>3. O \in SUBSET Nat /\ \A y \in O : it <= y
  <2>1. O \in SUBSET (1 .. n)
    BY <1>1 DEF R!Obstacles
  <2>2. \A y \in O : ~Precedes(list[y], pack)
    BY <1>1, <2>1, PrecedingNoObstacle
  <2>3. \A y \in 1 .. it - 1 : Precedes(list[y], pack)
    BY DEF Walked
  <2> HIDE DEF O
  <2> QED
    BY <1>1, <2>1, <2>2, <2>3
<1> HIDE DEF O
<1>4. R!Min(O) = it
  BY <1>2, <1>3, MinIs
<1> QED
  BY <1>2, <1>4 DEF O

\* A later pack in its way, and the call hangs.
LEMMA LaterPackHangs ==
    ASSUME LoopInv, pc = "loop", Walked,
           it \in 1 .. Len(recved_uncomplete_list), ~Precedes(Here, pack),
           ~(Here.big = pack.big /\ Here.small = pack.small)
    PROVE  R!Hangs(before, pack)
<1> DEFINE O == R!Obstacles(recved_uncomplete_list, pack)
<1>1. it \in O /\ R!Min(O) = it
  BY FirstObstacle
<1>2. ~R!IsDuplicateAt(recved_uncomplete_list, pack, it)
  BY DEF R!IsDuplicateAt, BigId, SmallId, Here
<1>3. R!Hangs(recved_uncomplete_list, pack)
  BY <1>1, <1>2 DEF R!Hangs
<1> QED
  BY <1>3 DEF Walked

-----------------------------------------------------------------------------
(***************************************************************************)
(* The branches that go on with the walk.                                  *)
(***************************************************************************)
\* The first pack of the message is where the iterator is, or was noted.
LEMMA NotedInLoop ==
    ASSUME Walked, it \in 1 .. Len(recved_uncomplete_list), it \in Nat,
           Len(recved_uncomplete_list) \in Nat
    PROVE  /\ StartNoted \in 1 .. it
           /\ alredy_count = it - StartNoted
           /\ \A i \in 1 .. StartNoted - 1 : recved_uncomplete_list[i].big < pack.big
           /\ \A i \in StartNoted .. it - 1 : recved_uncomplete_list[i].big = pack.big
<1> DEFINE n == Len(recved_uncomplete_list)
<1>1. CASE big_pack_start_it = n + 1
  <2>1. StartNoted = it
    BY <1>1 DEF StartNoted, End
  <2>2. alredy_count = 0 /\ \A i \in 1 .. it - 1 : recved_uncomplete_list[i].big < pack.big
    BY <1>1 DEF Walked
  <2> QED
    BY <2>1, <2>2
<1>2. CASE big_pack_start_it # n + 1
  <2>1. StartNoted = big_pack_start_it
    BY <1>2 DEF StartNoted, End
  <2> QED
    BY <1>2, <2>1 DEF Walked
<1> QED
  BY <1>1, <1>2

LEMMA PassEarlierPieceInv ==
    ASSUME LoopInv, PassEarlierPiece
    PROVE  LoopInv'
<1> DEFINE list == recved_uncomplete_list
           n == Len(list)
<1>1. pc = "loop" /\ it # End /\ inserted = FALSE
      /\ BigId(Here) = BigId(pack) /\ SmallId(Here) < SmallId(pack)
  BY DEF PassEarlierPiece, InLoop, LoopInv, Walked, Endless
<1>2. Walked
  <2> SUFFICES ASSUME Endless PROVE FALSE
    BY <1>1 DEF LoopInv
  <2>1. Here.big > pack.big /\ Here.big \in Nat /\ pack.big \in Nat
    BY <1>1, HerePiece DEF Endless, LoopInv
  <2> QED
    BY <1>1, <2>1 DEF BigId
<1>3. /\ n \in Nat /\ it \in 1 .. n /\ Counted = alredy_count + 1
  BY <1>1, <1>2, WalkedTypes DEF End
<1>4. /\ StartNoted \in 1 .. it
      /\ alredy_count = it - StartNoted
      /\ \A i \in 1 .. StartNoted - 1 : list[i].big < pack.big
      /\ \A i \in StartNoted .. it - 1 : list[i].big = pack.big
  BY <1>2, <1>3, NotedInLoop
<1>5. list[it].big = pack.big /\ Precedes(list[it], pack)
  BY <1>1 DEF Precedes, Here, BigId, SmallId
<1> DEFINE s == StartNoted
<1> HIDE DEF s
<1>6. /\ UNCHANGED <<list, pack, inserted, pc, data, before>>
      /\ it' = it + 1 /\ big_pack_start_it' = s /\ alredy_count' = alredy_count + 1
  BY <1>3 DEF PassEarlierPiece, s
<1>7. Walked'
  <2>1. it' \in 1 .. n + 1 /\ it' - 1 = it /\ s \in 1 .. it /\ it + 1 - s = alredy_count + 1
    BY <1>3, <1>4, <1>6 DEF s
  <2>2. \A i \in 1 .. it : Precedes(list[i], pack)
    BY <1>2, <1>3, <1>5 DEF Walked
  <2>3. \A i \in s .. it : list[i].big = pack.big
    BY <1>3, <1>4, <1>5 DEF s
  <2> QED
    BY <1>2, <1>4, <1>6, <2>1, <2>2, <2>3 DEF Walked, s
<1> QED
  BY <1>1, <1>6, <1>7 DEF LoopInv

LEMMA PassOtherInv ==
    ASSUME LoopInv, PassOther
    PROVE  LoopInv'
<1> DEFINE list == recved_uncomplete_list
           n == Len(list)
<1>1. pc = "loop" /\ it # End
      /\ BigId(Here) # BigId(pack) /\ (BigId(Here) < BigId(pack) \/ inserted)
  BY DEF PassOther, Other, InLoop
<1>2. Walked
  <2> SUFFICES ASSUME Endless PROVE FALSE
    BY <1>1 DEF LoopInv
  <2>1. Here.big \in Nat /\ pack.big \in Nat
    BY HerePiece DEF Endless, LoopInv
  <2>2. \/ inserted = TRUE /\ Here.big = pack.big
        \/ inserted = FALSE /\ Here.big > pack.big
    BY DEF Endless
  <2> QED
    BY <1>1, <2>1, <2>2 DEF BigId
<1>3. /\ list \in Lists /\ list \in Seq(Pieces)
      /\ n \in Nat /\ DOMAIN list = 1 .. n /\ it \in 1 .. n /\ pack \in Pieces
  BY <1>1, <1>2, WalkedTypes DEF End, LoopInv
<1>4. list[it].big < pack.big /\ Precedes(list[it], pack)
  <2>1. inserted = FALSE
    BY <1>2 DEF Walked
  <2> QED
    BY <1>1, <2>1 DEF Precedes, Here, BigId, SmallId
\* Nothing of the message has been met: the list is ordered.
<1>5. big_pack_start_it = n + 1
  <2> SUFFICES ASSUME big_pack_start_it # n + 1 PROVE FALSE
    OBVIOUS
  <2>1. big_pack_start_it \in 1 .. it - 1 /\ \A i \in big_pack_start_it .. it - 1 : list[i].big = pack.big
    BY <1>2 DEF Walked
  <2>2. it - 1 \in 1 .. n /\ it - 1 \in big_pack_start_it .. it - 1
    BY <1>3, <2>1
  <2>3. list[it - 1].big = pack.big
    BY <2>1, <2>2
  <2>4. Precedes(list[it - 1], list[it])
    <3>1. it - 1 < it
      BY <1>3
    <3> QED
      BY <1>3, <2>2, <3>1, ListType DEF Regular
  <2>5. list[it].big \in Nat /\ pack.big \in Nat
    BY <1>3, PieceType
  <2> QED
    BY <1>4, <2>3, <2>4, <2>5 DEF Precedes
<1>6. /\ UNCHANGED <<list, pack, big_pack_start_it, alredy_count, inserted, pc, data, before>>
      /\ it' = it + 1
  BY DEF PassOther
<1>7. alredy_count = 0 /\ \A i \in 1 .. it - 1 : list[i].big < pack.big
  BY <1>2, <1>3, <1>5 DEF Walked
<1>8. Walked'
  <2>1. it' \in 1 .. n + 1 /\ it' - 1 = it
    BY <1>3, <1>6
  <2>2. \A i \in 1 .. it : Precedes(list[i], pack)
    BY <1>2, <1>3, <1>4 DEF Walked
  <2>3. \A i \in 1 .. it : list[i].big < pack.big
    BY <1>3, <1>4, <1>7
  <2> QED
    BY <1>2, <1>5, <1>6, <1>7, <2>1, <2>2, <2>3 DEF Walked
<1> QED
  BY <1>1, <1>6, <1>8 DEF LoopInv

-----------------------------------------------------------------------------
(***************************************************************************)
(* The branches that never come to the end of the list.                    *)
(***************************************************************************)
LEMMA InsertedAtIs ==
    ASSUME NEW list \in Seq(Pieces), NEW i \in 1 .. Len(list), NEW p \in Pieces
    PROVE  /\ InsertedAt(list, i, p) \in Seq(Pieces)
           /\ Len(InsertedAt(list, i, p)) = Len(list) + 1
           /\ InsertedAt(list, i, p)[i + 1] = list[i]
<1> DEFINE n == Len(list)
           k == i - 1
           left == SubSeq(list, 1, k)
           right == SubSeq(list, i, n)
           front == left \o <<p>>
<1>1. n \in Nat /\ i \in Nat /\ k \in Nat /\ k <= n /\ 1 <= i /\ i <= n
      /\ \A j \in 1 .. n : list[j] \in Pieces
  OBVIOUS
<1>2. left \in Seq(Pieces) /\ Len(left) = k
  <2> HIDE DEF k, n
  <2> QED
    BY <1>1, SubSeqProperties
<1>3. right \in Seq(Pieces) /\ Len(right) = n + 1 - i /\ right[1] = list[i]
  <2> HIDE DEF n
  <2>1. /\ right \in Seq(Pieces) /\ Len(right) = n + 1 - i
        /\ \A j \in 1 .. n + 1 - i : right[j] = list[i + j - 1]
    BY <1>1, SubSeqProperties
  <2>2. 1 \in 1 .. n + 1 - i /\ i + 1 - 1 = i
    BY <1>1
  <2> QED
    BY <2>1, <2>2
<1> HIDE DEF left, right, n, k
<1>4. front \in Seq(Pieces) /\ Len(front) = k + 1
  BY <1>1, <1>2
<1> HIDE DEF front
<1>5. InsertedAt(list, i, p) = front \o right
  BY DEF InsertedAt, front, left, right, n, k
<1>6. k + 1 = i
  BY <1>1 DEF k
<1>7. front \o right \in Seq(Pieces) /\ Len(front \o right) = n + 1
  BY <1>1, <1>3, <1>4, <1>6
<1>8. (front \o right)[i + 1] = list[i]
  <2> DEFINE j == i + 1
             f == Len(front)
             m == Len(right)
  <2>1. /\ f \in Nat /\ m \in Nat
        /\ j \in 1 .. f + m /\ ~(j <= f) /\ j - f = 1
    BY <1>1, <1>3, <1>4, <1>6
  <2>2. \A x \in 1 .. f + m :
           (front \o right)[x] = IF x <= f THEN front[x] ELSE right[x - f]
    BY <1>3, <1>4, ConcatProperties
  <2> HIDE DEF j, f, m
  <2>3. (front \o right)[j] = right[j - f]
    BY <2>1, <2>2
  <2>4. right[j - f] = list[i]
    BY <1>3, <2>1, Zenon
  <2> QED
    BY <2>3, <2>4 DEF j
<1> QED
  BY <1>5, <1>7, <1>8 DEF n

\* Inside the list, a state of the loop is walking or endless; either way:
LEMMA LoopTypes ==
    ASSUME LoopInv, InLoop
    PROVE  /\ recved_uncomplete_list \in Seq(Pieces)
           /\ Len(recved_uncomplete_list) \in Nat /\ MaxList \in Nat
           /\ it \in 1 .. Len(recved_uncomplete_list)
           /\ alredy_count \in 0 .. MaxList + 1
           /\ big_pack_start_it \in 0 .. Len(recved_uncomplete_list) + 1
           /\ inserted = FALSE => Len(recved_uncomplete_list) <= MaxList
           /\ inserted = TRUE => Len(recved_uncomplete_list) <= MaxList + 1
           /\ inserted = TRUE => Here.big = pack.big
           /\ inserted \in BOOLEAN
           /\ pack \in Pieces
<1>1. pack \in Pieces /\ pc = "loop" /\ it # Len(recved_uncomplete_list) + 1
  BY DEF LoopInv, InLoop, End
<1>2. CASE Walked
  <2>1. inserted = FALSE /\ inserted # TRUE
    BY <1>2 DEF Walked
  <2> DEFINE n == Len(recved_uncomplete_list)
  <2>2. /\ recved_uncomplete_list \in Seq(Pieces)
        /\ n \in Nat /\ n <= MaxHeld
        /\ MaxHeld \in Nat /\ MaxList \in Nat /\ MaxHeld < MaxList
        /\ it \in 1 .. n + 1
        /\ alredy_count \in Nat /\ alredy_count <= it - 1
        /\ big_pack_start_it \in 1 .. n + 1
    BY <1>1, <1>2, WalkedTypes
  <2>3. it # n + 1
    BY <1>1
  <2> HIDE DEF n
  <2>4. /\ it \in 1 .. n /\ alredy_count \in 0 .. MaxList + 1
        /\ big_pack_start_it \in 0 .. n + 1 /\ n <= MaxList
    BY <2>2, <2>3
  <2> QED
    BY <1>1, <2>1, <2>2, <2>4 DEF n
<1>3. CASE Endless
  <2> DEFINE n == Len(recved_uncomplete_list)
  <2>1. /\ recved_uncomplete_list \in Seq(Pieces)
        /\ it \in 1 .. n
        /\ alredy_count \in 0 .. MaxList + 1
        /\ big_pack_start_it \in 0 .. n + 1
    BY <1>3 DEF Endless
  <2>2. n \in Nat /\ MaxList \in Nat
    BY <2>1, RegroupLoopAssumption
  <2>3. \/ inserted = TRUE /\ Here.big = pack.big /\ n <= MaxList + 1
        \/ inserted = FALSE /\ n <= MaxList
    BY <1>3 DEF Endless
  <2> HIDE DEF n
  <2> QED
    BY <1>1, <2>1, <2>2, <2>3 DEF n
<1> QED
  BY <1>1, <1>2, <1>3 DEF LoopInv

LEMMA InsertInMessageInv ==
    ASSUME LoopInv, InsertInMessage
    PROVE  LoopInv'
<1> DEFINE list == recved_uncomplete_list
           n == Len(list)
<1>1. InLoop /\ inserted = FALSE /\ BigId(Here) = BigId(pack) /\ pc = "loop"
  BY LoopTypes DEF InsertInMessage, InLoop
<1>2. /\ list \in Seq(Pieces) /\ n \in Nat /\ it \in 1 .. n /\ pack \in Pieces
      /\ n <= MaxList /\ MaxList \in Nat
      /\ alredy_count \in 0 .. MaxList + 1
      /\ big_pack_start_it \in 0 .. n + 1
  BY <1>1, LoopTypes
<1>3. /\ list' = InsertedAt(list, it, pack) /\ it' = it + 1 /\ inserted' = TRUE
      /\ alredy_count' = Counted
      /\ UNCHANGED <<pack, pc, data, before>>
  BY DEF InsertInMessage
<1>4. list' \in Seq(Pieces) /\ Len(list') = n + 1 /\ list'[it'] = list[it]
  BY <1>2, <1>3, InsertedAtIs
<1>5. alredy_count' \in 0 .. MaxList + 1
  BY <1>2, <1>3, CountedIs
<1> DEFINE s == StartNoted
<1>6. s \in 0 .. n
  BY <1>2 DEF StartNoted, End
<1>7. big_pack_start_it' = (IF s >= it THEN s + 1 ELSE s) - 1
  BY DEF InsertInMessage
<1> HIDE DEF s
<1>8. big_pack_start_it' \in 0 .. n + 2 \/ (s = 0 /\ big_pack_start_it' = 0 - 1)
  BY <1>2, <1>6, <1>7
<1>9. s # 0
  <2> SUFFICES ASSUME s = 0 PROVE FALSE
    OBVIOUS
  <2>1. CASE Walked
    <3>1. StartNoted \in 1 .. it
      BY <1>2, <2>1, NotedInLoop
    <3> QED
      BY <1>2, <3>1 DEF s
  <2>2. CASE Endless
    <3>1. Here.big > pack.big
      BY <1>1, <2>2 DEF Endless
    <3>2. Here.big \in Nat /\ pack.big \in Nat
      BY <1>2, HerePiece
    <3> QED
      BY <1>1, <3>1, <3>2 DEF BigId
  <2> QED
    BY <1>1, <2>1, <2>2 DEF LoopInv
<1>10. R!Hangs(before, pack)
  <2>1. Walked
    <3> SUFFICES ASSUME Endless PROVE FALSE
      BY <1>1 DEF LoopInv
    <3>1. Here.big > pack.big
      BY <1>1 DEF Endless
    <3>2. Here.big \in Nat /\ pack.big \in Nat
      BY <1>2, HerePiece
    <3> QED
      BY <1>1, <3>1, <3>2 DEF BigId
  <2>2. /\ Here.small > pack.small /\ Here.big = pack.big
        /\ Here.small \in Nat /\ pack.small \in Nat /\ pack.big \in Nat
    BY <1>1, <1>2, HerePiece DEF InsertInMessage, SmallId, BigId
  <2>3. ~Precedes(Here, pack) /\ ~(Here.big = pack.big /\ Here.small = pack.small)
    BY <2>2 DEF Precedes
  <2> QED
    BY <1>1, <1>2, <2>1, <2>3, LaterPackHangs
<1>11. R!Hangs(before, pack)'
  <2>1. before' = before /\ pack' = pack
    BY <1>3
  <2>2. R!Hangs(before', pack')
    BY <1>10, <2>1
  <2> QED
    BY <2>2
<1>12. Endless'
  <2>1. Here' = Here
    BY <1>4 DEF Here
  <2>2. Here'.big = pack'.big
    BY <1>1, <1>3, <2>1 DEF BigId
  <2>3. it' \in 1 .. Len(list') /\ Len(list') <= MaxList + 1
    BY <1>2, <1>3, <1>4
  <2>4. big_pack_start_it' \in 0 .. Len(list') + 1
    BY <1>2, <1>4, <1>8, <1>9
  <2> QED
    BY <1>3, <1>4, <1>5, <1>11, <2>2, <2>3, <2>4 DEF Endless
<1> QED
  BY <1>1, <1>3, <1>12 DEF LoopInv

LEMMA CountOnlyInv ==
    ASSUME LoopInv, CountOnly
    PROVE  LoopInv'
<1> DEFINE list == recved_uncomplete_list
           n == Len(list)
<1>1. InLoop /\ inserted = TRUE /\ BigId(Here) = BigId(pack) /\ pc = "loop"
  BY LoopTypes DEF CountOnly, InLoop
<1>2. /\ list \in Seq(Pieces) /\ n \in Nat /\ it \in 1 .. n
      /\ n <= MaxList + 1 /\ MaxList \in Nat
      /\ alredy_count \in 0 .. MaxList + 1
      /\ big_pack_start_it \in 0 .. n + 1
      /\ Here.big = pack.big
  BY <1>1, LoopTypes
<1>3. /\ UNCHANGED <<list, pack, it, inserted, pc, data, before>>
      /\ alredy_count' = Counted /\ big_pack_start_it' = StartNoted
  BY DEF CountOnly
<1>4. alredy_count' \in 0 .. MaxList + 1
  BY <1>2, <1>3, CountedIs
<1>5. big_pack_start_it' \in 0 .. n + 1
  BY <1>2, <1>3 DEF StartNoted, End
<1>6. Here' = Here
  BY <1>3 DEF Here
<1>7. R!Hangs(before', pack')
  <2>1. R!Hangs(before, pack)
    BY <1>1 DEF LoopInv, Walked, Endless
  <2> QED
    BY <1>3, <2>1
<1>8. Endless'
  BY <1>1, <1>2, <1>3, <1>4, <1>5, <1>6, <1>7 DEF Endless
<1> QED
  BY <1>1, <1>3, <1>8 DEF LoopInv

LEMMA InsertBeforeMessageInv ==
    ASSUME LoopInv, InsertBeforeMessage
    PROVE  LoopInv'
<1> DEFINE list == recved_uncomplete_list
           n == Len(list)
<1>1. InLoop /\ inserted = FALSE /\ BigId(Here) > BigId(pack) /\ pc = "loop"
  BY LoopTypes DEF InsertBeforeMessage, InLoop
<1>2. /\ list \in Seq(Pieces) /\ n \in Nat /\ it \in 1 .. n /\ pack \in Pieces
      /\ n <= MaxList /\ MaxList \in Nat
      /\ alredy_count \in 0 .. MaxList + 1
      /\ big_pack_start_it \in 0 .. n + 1
  BY <1>1, LoopTypes
<1>3. /\ UNCHANGED <<pack, inserted, pc, data, before>>
      /\ alredy_count' = Counted
  BY DEF InsertBeforeMessage
<1>4. alredy_count' \in 0 .. MaxList + 1
  BY <1>2, <1>3, CountedIs
<1>7. R!Hangs(before', pack')
  <2>1. CASE Walked
    <3>1. Here.big > pack.big /\ Here.big \in Nat /\ pack.big \in Nat
      BY <1>1, <1>2, HerePiece DEF BigId
    <3>2. ~Precedes(Here, pack) /\ Here.big # pack.big
      BY <3>1 DEF Precedes
    <3>3. R!Hangs(before, pack)
      BY <1>1, <1>2, <2>1, <3>2, LaterPackHangs
    <3> QED
      BY <1>3, <3>3
  <2>2. CASE Endless
    <3>1. R!Hangs(before, pack)
      BY <2>2 DEF Endless
    <3> QED
      BY <1>3, <3>1
  <2> QED
    BY <1>1, <2>1, <2>2 DEF LoopInv
<1>5. CASE n < MaxList
  <2>1. /\ list' = InsertedAt(list, it, pack) /\ it' = it + 1
        /\ big_pack_start_it' = IF big_pack_start_it >= it THEN big_pack_start_it + 1
                                ELSE big_pack_start_it
    BY <1>5 DEF InsertBeforeMessage
  <2>2. list' \in Seq(Pieces) /\ Len(list') = n + 1 /\ list'[it'] = list[it]
    BY <1>2, <2>1, InsertedAtIs
  <2>3. Here' = Here
    BY <2>2 DEF Here
  <2>4. it' \in 1 .. Len(list') /\ Len(list') <= MaxList
        /\ big_pack_start_it' \in 0 .. Len(list') + 1
    BY <1>2, <1>5, <2>1, <2>2
  <2>5. Here'.big > pack'.big
    BY <1>1, <1>3, <2>3 DEF BigId
  <2> QED
    BY <1>1, <1>3, <1>4, <1>7, <2>2, <2>4, <2>5 DEF Endless, LoopInv
<1>6. CASE ~(n < MaxList)
  <2>1. UNCHANGED <<list, it, big_pack_start_it>>
    BY <1>6 DEF InsertBeforeMessage
  <2>2. Here' = Here
    BY <2>1 DEF Here
  <2>3. Here'.big > pack'.big
    BY <1>1, <1>3, <2>2 DEF BigId
  <2> QED
    BY <1>1, <1>2, <1>3, <1>4, <1>7, <2>1, <2>3 DEF Endless, LoopInv
<1> QED
  BY <1>5, <1>6

-----------------------------------------------------------------------------
(***************************************************************************)
(* The branches that return.                                               *)
(***************************************************************************)
\* The packs of the message in the list are fewer than it has.
LEMMA HeldFewer ==
    ASSUME NEW list \in Lists, NEW p \in Pieces
    PROVE  /\ R!SameMessage(list, p) = {i \in DOMAIN list : list[i].big = p.big}
           /\ IsFiniteSet(R!SameMessage(list, p))
           /\ R!Cardinality(R!SameMessage(list, p)) = Cardinality(R!SameMessage(list, p))
           /\ Cardinality(R!SameMessage(list, p)) < Totals[p.big]
<1> DEFINE same == R!SameMessage(list, p)
<1>1. same = {i \in DOMAIN list : list[i].big = p.big}
  BY DEF R!SameMessage, BigId
<1>2. IsFiniteSet(same)
  <2>1. same \in SUBSET (1 .. Len(list)) /\ Len(list) \in Nat
    BY <1>1, ListType
  <2>2. IsFiniteSet(1 .. Len(list))
    BY <2>1, FS_Interval
  <2> QED
    BY <2>1, <2>2, FS_Subset
<1>3. Cardinality(same) < Totals[p.big]
  BY <1>1, ListType, PieceType DEF Regular
<1>4. R!Cardinality(same) = Cardinality(same)
  BY DEF R!Cardinality, Cardinality
<1> QED
  BY <1>1, <1>2, <1>3, <1>4

LEMMA SameIdsInv ==
    ASSUME LoopInv, SameIds
    PROVE  LoopInv'
<1> DEFINE list == recved_uncomplete_list
           n == Len(list)
<1>1. /\ InLoop /\ pc = "loop" /\ inserted = FALSE
      /\ BigId(Here) = BigId(pack) /\ SmallId(Here) = SmallId(pack)
  BY LoopTypes DEF SameIds, InLoop
<1>2. Walked
  <2> SUFFICES ASSUME Endless PROVE FALSE
    BY <1>1 DEF LoopInv
  <2>1. Here.big > pack.big /\ Here.big \in Nat /\ pack.big \in Nat
    BY <1>1, HerePiece DEF Endless, LoopInv
  <2> QED
    BY <1>1, <2>1 DEF BigId
<1>3. /\ list \in Lists /\ list \in Seq(Pieces)
      /\ n \in Nat /\ DOMAIN list = 1 .. n /\ it \in 1 .. n /\ it \in Nat
      /\ pack \in Pieces /\ list = before /\ data = <<>>
      /\ n <= MaxHeld /\ MaxHeld < MaxList /\ MaxHeld \in Nat /\ MaxList \in Nat
  <2>1. it \in 1 .. n /\ pack \in Pieces
    BY <1>1, LoopTypes
  <2>2. list = before /\ data = <<>>
    BY <1>2 DEF Walked
  <2>3. /\ list \in Lists /\ list \in Seq(Pieces)
        /\ n \in Nat /\ DOMAIN list = 1 .. n
        /\ n <= MaxHeld /\ MaxHeld < MaxList /\ MaxHeld \in Nat /\ MaxList \in Nat
    BY <1>1, <1>2, WalkedTypes
  <2> HIDE DEF n
  <2> QED
    BY <2>1, <2>2, <2>3
<1>4. /\ UNCHANGED <<list, pack, it, alredy_count, inserted, data, before>>
      /\ pc' = "returned"
  BY DEF SameIds
<1>5. /\ list[it].big = pack.big /\ list[it].small = pack.small
      /\ pack.big \in Nat /\ pack.small \in Nat
  BY <1>1, <1>3, PieceType DEF Here, BigId, SmallId
\* The first obstacle is this pack.
<1> DEFINE O == R!Obstacles(list, pack)
<1>8. it \in O /\ R!Min(O) = it
  <2>1. ~Precedes(Here, pack)
    BY <1>5 DEF Precedes, Here
  <2> QED
    BY <1>1, <1>2, <1>3, <2>1, FirstObstacle
<1>9. R!IsDuplicateAt(list, pack, it)
  BY <1>5 DEF R!IsDuplicateAt, BigId, SmallId
<1>10. ~R!Hangs(list, pack) /\ ~R!Appends(list, pack)
  BY <1>8, <1>9 DEF R!Hangs, R!Appends
<1>11. ~R!Completes(list, pack) /\ R!ListAfter(list, pack) = list
  BY <1>10 DEF R!Completes, R!ListAfter
<1>12. LoopComputesRegroup'
  <2>1. list = R!ListAfter(before, pack) /\ ~R!Hangs(before, pack)
        /\ ~R!Completes(before, pack)
    BY <1>3, <1>10, <1>11
  <2> HIDE DEF list
  <2>2. /\ ~R!Hangs(before, pack)'
        /\ list' = R!ListAfter(before, pack)'
        /\ data' = IF R!Completes(before, pack)' THEN R!Assembled(before, pack)' ELSE <<>>
    BY <1>3, <1>4, <2>1
  <2> QED
    BY <2>2 DEF LoopComputesRegroup, list
\* The packs counted so far are among those of the message in the list.
<1>13. alredy_count <= TotalCount(pack)
  <2> DEFINE same == R!SameMessage(list, pack)
             s == StartNoted
  <2>1. /\ s \in 1 .. it /\ alredy_count = it - s
        /\ \A i \in s .. it - 1 : list[i].big = pack.big
    BY <1>2, <1>3, NotedInLoop
  <2> HIDE DEF s
  <2>2. same = {i \in DOMAIN list : list[i].big = pack.big}
    BY <1>3, HeldFewer
  <2>3. IsFiniteSet(same) /\ Cardinality(same) < Totals[pack.big]
    BY <1>3, HeldFewer
  <2> HIDE DEF same
  <2>4. s .. it - 1 \in SUBSET same
    <3>1. \A i \in s .. it - 1 : i \in DOMAIN list
      BY ONLY <1>3, <2>1
    <3> QED
      BY ONLY <2>1, <2>2, <3>1
  <2>5. Cardinality(s .. it - 1) <= Cardinality(same)
    BY <2>3, <2>4, FS_Subset
  <2>6. Cardinality(s .. it - 1) = it - s
    BY <1>3, <2>1, FS_Interval
  <2>7. Cardinality(same) \in Nat /\ Totals[pack.big] \in Nat
    BY <1>3, <2>3, FS_CardinalityType, PieceType
  <2> QED
    BY <1>3, <2>1, <2>3, <2>5, <2>6, <2>7 DEF TotalCount
<1>14. TypeOK' /\ CountWithinTotal'
  <2>1. alredy_count \in Nat /\ alredy_count <= it - 1
    BY <1>1, <1>2, WalkedTypes
  <2> QED
    BY <1>3, <1>4, <1>13, <2>1 DEF TypeOK, CountWithinTotal, TotalCount
<1> QED
  BY <1>3, <1>4, <1>12, <1>14 DEF LoopInv

LEMMA EmptyListInv ==
    ASSUME LoopInv, EmptyList
    PROVE  LoopInv'
<1> DEFINE list == recved_uncomplete_list
<1>1. /\ list = <<>> /\ before = <<>> /\ data = <<>> /\ alredy_count = 0
      /\ pack \in Pieces
  BY DEF EmptyList, LoopInv, Entering
<1>2. /\ list' = <<pack>> /\ pc' = "returned"
      /\ UNCHANGED <<pack, it, big_pack_start_it, alredy_count, inserted, data, before>>
  BY DEF EmptyList
<1>3. R!Obstacles(<<>>, pack) = {}
  BY DEF R!Obstacles
<1>4. ~R!Hangs(<<>>, pack) /\ R!Appends(<<>>, pack) /\ ~R!Completes(<<>>, pack)
  BY <1>3 DEF R!Hangs, R!Appends, R!Completes
<1>5. R!ListAfter(<<>>, pack) = <<pack>>
  <2>1. Append(<<>>, pack) = <<pack>>
    OBVIOUS
  <2> QED
    BY <1>4, <2>1 DEF R!ListAfter
<1>6. LoopComputesRegroup'
  <2>1. before' = <<>> /\ pack' = pack /\ data' = <<>> /\ list' = <<pack>>
    BY <1>1, <1>2
  <2> HIDE DEF list
  <2>2. /\ ~R!Hangs(before', pack')
        /\ list' = R!ListAfter(before', pack')
        /\ data' = IF R!Completes(before', pack') THEN R!Assembled(before', pack') ELSE <<>>
    BY <1>4, <1>5, <2>1
  <2> QED
    BY <2>2 DEF LoopComputesRegroup, list
<1>7. TypeOK' /\ CountWithinTotal'
  <2>1. MaxList \in Nat /\ Totals[pack.big] \in Nat
    BY <1>1, RegroupLoopAssumption, PieceType
  <2>2. <<pack>> \in Seq(Pieces) /\ Len(<<pack>>) = 1
    BY <1>1
  <2> QED
    BY <1>1, <1>2, <2>1, <2>2 DEF TypeOK, CountWithinTotal, TotalCount
<1> QED
  BY <1>1, <1>2, <1>6, <1>7 DEF LoopInv

LEMMA EnterLoopInv ==
    ASSUME LoopInv, EnterLoop
    PROVE  LoopInv'
<1> DEFINE n == Len(recved_uncomplete_list)
<1>1. /\ recved_uncomplete_list = before /\ before \in Lists
      /\ it = 1 /\ big_pack_start_it = n + 1 /\ alredy_count = 0
      /\ inserted = FALSE /\ data = <<>> /\ recved_uncomplete_list # <<>>
  BY DEF EnterLoop, LoopInv, Entering, End
<1>2. /\ pc' = "loop"
      /\ UNCHANGED <<recved_uncomplete_list, pack, it, big_pack_start_it,
                     alredy_count, inserted, data, before>>
  BY DEF EnterLoop
<1>3. n \in Nat /\ 1 \in 1 .. n + 1 /\ 1 .. 1 - 1 = {}
  BY <1>1, ListType
<1>4. Walked
  BY <1>1, <1>3 DEF Walked
<1>5. Walked'
  BY <1>2, <1>4 DEF Walked
<1> QED
  BY <1>2, <1>5 DEF LoopInv

LEMMA FinishInv ==
    ASSUME LoopInv, Finish
    PROVE  LoopInv'
<1> DEFINE list == recved_uncomplete_list
           n == Len(list)
           all == Append(list, pack)
           s == big_pack_start_it
           count == alredy_count + 1
           last == s + count - 1
<1>1. pc = "loop" /\ it = n + 1 /\ pack \in Pieces
  BY DEF Finish, End, LoopInv
<1>2. Walked
  <2> SUFFICES ASSUME Endless PROVE FALSE
    BY <1>1 DEF LoopInv
  <2>1. it \in 1 .. n /\ n \in Nat
    BY DEF Endless
  <2> QED
    BY <1>1, <2>1
<1>3. /\ list \in Lists /\ list \in Seq(Pieces)
      /\ n \in Nat /\ DOMAIN list = 1 .. n
      /\ n <= MaxHeld /\ MaxHeld < MaxList /\ MaxHeld \in Nat /\ MaxList \in Nat
      /\ alredy_count \in Nat
  BY <1>1, <1>2, WalkedTypes
<1>4. inserted = FALSE /\ list = before /\ list # <<>> /\ data = <<>>
  BY <1>2 DEF Walked
<1>5. /\ IF count = TotalCount(pack)
         THEN /\ data' = SubSeq(all, s, last)
              /\ list' = SubSeq(all, 1, s - 1) \o SubSeq(all, last + 1, Len(all))
         ELSE list' = all /\ data' = data
      /\ alredy_count' = count /\ pc' = "returned"
      /\ UNCHANGED <<pack, it, big_pack_start_it, inserted, before>>
  BY <1>4 DEF Finish
\* The packs of the message are the last of the list.
<1>6. /\ s \in 1 .. n + 1 /\ alredy_count = n + 1 - s
      /\ \A i \in 1 .. s - 1 : list[i].big # pack.big
      /\ \A i \in s .. n : list[i].big = pack.big
  <2>1. \A i \in 1 .. n : list[i].big \in Nat /\ pack.big \in Nat
    <3> SUFFICES ASSUME NEW i \in 1 .. n PROVE list[i].big \in Nat /\ pack.big \in Nat
      OBVIOUS
    <3>1. list[i] \in Pieces
      BY <1>3
    <3> QED
      BY <1>1, <3>1, PieceType
  <2> HIDE DEF n, list
  <2>2. \/ /\ s = n + 1 /\ alredy_count = 0
           /\ \A i \in 1 .. n : list[i].big < pack.big
        \/ /\ s \in 1 .. n /\ alredy_count = n + 1 - s
           /\ \A i \in 1 .. s - 1 : list[i].big < pack.big
           /\ \A i \in s .. n : list[i].big = pack.big
    <3>1. n + 1 - 1 = n
      BY <1>3
    <3> QED
      BY <1>1, <1>2, <3>1 DEF Walked, n, list
  <2> QED
    BY <1>3, <2>1, <2>2
<1>7. R!Appends(list, pack) /\ ~R!Hangs(list, pack)
  <2> DEFINE O == R!Obstacles(list, pack)
  <2>1. O \in SUBSET (1 .. n)
    BY <1>3 DEF R!Obstacles
  <2>2. \A i \in 1 .. n : i \notin O
    <3> SUFFICES ASSUME NEW i \in 1 .. n PROVE i \notin O
      OBVIOUS
    <3>1. i \in 1 .. it - 1
      BY <1>1, <1>3
    <3>2. Precedes(list[i], pack)
      BY <1>2, <3>1 DEF Walked
    <3> QED
      BY <1>1, <1>3, <3>2, PrecedingNoObstacle
  <2> HIDE DEF O
  <2>3. O = {}
    BY <2>1, <2>2
  <2> QED
    BY <2>3 DEF O, R!Appends, R!Hangs
<1> DEFINE same == R!SameMessage(list, pack)
<1>8. Cardinality(same) = alredy_count
  <2>1. same = {i \in 1 .. n : list[i].big = pack.big}
    BY <1>1, <1>3, HeldFewer
  <2> HIDE DEF same, n, s, list
  <2>2. same = s .. n
    BY <1>3, <1>6, <2>1
  <2>3. Cardinality(s .. n) = IF s > n THEN 0 ELSE n - s + 1
    <3>1. s \in Int /\ n \in Int
      BY <1>3, <1>6
    <3> QED
      BY <3>1, FS_Interval
  <2>4. Cardinality(s .. n) = alredy_count
    BY <1>3, <1>6, <2>3
  <2> QED
    BY <2>2, <2>4
<1>9. /\ R!Completes(list, pack) <=> count = TotalCount(pack)
      /\ count <= TotalCount(pack)
  <2>1. R!Cardinality(same) = Cardinality(same) /\ Cardinality(same) < Totals[pack.big]
    BY <1>1, <1>3, HeldFewer
  <2>2. Totals[pack.big] \in Nat
    BY <1>1, PieceType
  <2> HIDE DEF same
  <2>3. R!Completes(list, pack) <=> count = TotalCount(pack)
    BY <1>4, <1>7, <1>8, <2>1 DEF R!Completes, same
  <2> QED
    BY <1>3, <1>8, <2>1, <2>2, <2>3 DEF TotalCount
<1> HIDE DEF same
<1>10. /\ all \in Seq(Pieces) /\ Len(all) = n + 1 /\ all[n + 1] = pack
       /\ \A i \in 1 .. n : all[i] = list[i]
  BY <1>1, <1>3, AppendProperties
<1>11. R!Min(R!SameMessage(all, pack)) = s
  <2> DEFINE T == R!SameMessage(all, pack)
  <2>1. T = {i \in 1 .. n + 1 : all[i].big = pack.big}
    <3>1. DOMAIN all = 1 .. n + 1
      BY <1>10
    <3> HIDE DEF all
    <3> QED
      BY <3>1 DEF R!SameMessage, BigId
  <2> HIDE DEF T, all, n, s, list
  <2>2. s \in T
    <3>1. CASE s = n + 1
      BY <1>3, <1>10, <2>1, <3>1
    <3>2. CASE s # n + 1
      <4>1. s \in 1 .. n /\ s \in s .. n
        BY <1>3, <1>6, <3>2
      <4>2. all[s] = list[s] /\ list[s].big = pack.big
        BY <1>6, <1>10, <4>1
      <4> QED
        BY <1>3, <2>1, <4>1, <4>2
    <3> QED
      BY <3>1, <3>2
  <2>3. \A y \in T : s <= y
    <3> SUFFICES ASSUME NEW y \in T, ~(s <= y) PROVE FALSE
      OBVIOUS
    <3>1. y \in 1 .. s - 1 /\ y \in 1 .. n /\ all[y].big = pack.big
      BY <1>3, <1>6, <2>1
    <3> QED
      BY <1>6, <1>10, <3>1
  <2>4. T \in SUBSET Nat
    BY <1>3, <2>1
  <2>5. R!Min(T) = s
    BY <2>2, <2>3, <2>4, MinIs
  <2> QED
    BY <2>5 DEF T
<1>12. ASSUME count = TotalCount(pack)
       PROVE  /\ R!ListAfter(list, pack) = list'
              /\ R!Assembled(list, pack) = data'
  <2>1. last + 1 = s + TotalCount(pack) /\ last = s + TotalCount(pack) - 1
    BY <1>3, <1>6, <1>12
  <2> HIDE DEF all, s, last, count, list
  <2>2. /\ R!Assembled(list, pack) = SubSeq(all, s, last)
        /\ R!Remaining(list, pack)
             = SubSeq(all, 1, s - 1) \o SubSeq(all, last + 1, Len(all))
    BY <1>11, <2>1 DEF R!Assembled, R!Remaining, all
  <2> QED
    BY <1>5, <1>9, <1>12, <2>2 DEF R!ListAfter
<1>13. ASSUME count # TotalCount(pack)
       PROVE  R!ListAfter(list, pack) = list' /\ data' = <<>>
  BY <1>4, <1>5, <1>7, <1>9, <1>13 DEF R!ListAfter
<1>14. LoopComputesRegroup'
  <2>1. list = before
    BY <1>4
  <2> HIDE DEF list, count
  <2>2. /\ ~R!Hangs(before, pack)
        /\ list' = R!ListAfter(before, pack)
        /\ data' = IF R!Completes(before, pack) THEN R!Assembled(before, pack) ELSE <<>>
    <3>1. CASE count = TotalCount(pack)
      BY <1>7, <1>9, <1>12, <2>1, <3>1
    <3>2. CASE count # TotalCount(pack)
      BY <1>7, <1>9, <1>13, <2>1, <3>2
    <3> QED
      BY <3>1, <3>2
  <2>3. before' = before /\ pack' = pack
    BY <1>5
  <2>4. /\ ~R!Hangs(before', pack')
        /\ list' = R!ListAfter(before', pack')
        /\ data' = IF R!Completes(before', pack') THEN R!Assembled(before', pack') ELSE <<>>
    BY <2>2, <2>3
  <2> QED
    BY <2>4 DEF LoopComputesRegroup, list
<1>15. list' \in Seq(Pieces) /\ Len(list') <= n + 1
  <2>1. CASE count # TotalCount(pack)
    BY <1>3, <1>5, <1>10, <2>1
  <2>2. CASE count = TotalCount(pack)
    <3> DEFINE k == s - 1
               left == SubSeq(all, 1, k)
               right == SubSeq(all, last + 1, Len(all))
    <3>1. k \in Int /\ 0 <= k /\ k <= n /\ last = n + 1
      BY <1>3, <1>6
    <3>2. list' = left \o right
      BY <1>5, <2>2
    <3>3. right = <<>>
      <4>1. last + 1 \in Int /\ Len(all) \in Int /\ last + 1 > Len(all)
        BY <1>3, <1>10, <3>1
      <4> HIDE DEF all, last
      <4> QED
        BY <4>1, SubSeqEmpty
    <3> HIDE DEF k, all
    <3>4. left \in Seq(Pieces) /\ Len(left) = k
      <4>1. \A i \in 1 .. k : all[i] \in Pieces
        BY <1>3, <1>10, <3>1
      <4> QED
        BY <3>1, <4>1, SubSeqProperties
    <3> HIDE DEF left, right
    <3>5. left \o right = left
      BY <3>3, <3>4, ConcatEmptySeq
    <3> QED
      BY <1>3, <3>1, <3>2, <3>4, <3>5
  <2> QED
    BY <2>1, <2>2
<1>16. TypeOK' /\ CountWithinTotal'
  <2> HIDE DEF n, count
  <2>1. count \in 0 .. MaxList + 1 /\ Len(list') <= MaxList + 1
    <3>1. count \in Nat /\ count <= n + 1
      BY <1>3, <1>6 DEF count
    <3>2. Len(list') \in Nat
      BY <1>15
    <3> QED
      BY <1>3, <1>15, <3>1, <3>2
  <2> QED
    BY <1>5, <1>9, <1>15, <2>1 DEF TypeOK, CountWithinTotal, TotalCount
<1> QED
  BY <1>3, <1>4, <1>5, <1>14, <1>16, <1>1 DEF LoopInv

-----------------------------------------------------------------------------
LEMMA LoopInvInit == Init => LoopInv
  BY DEF Init, LoopInv, Entering, End

LEMMA LoopInvNext == LoopInv /\ [Next]_vars => LoopInv'
<1> SUFFICES ASSUME LoopInv, [Next]_vars PROVE LoopInv'
  OBVIOUS
<1>1. CASE EmptyList
  BY <1>1, EmptyListInv
<1>2. CASE EnterLoop
  BY <1>2, EnterLoopInv
<1>3. CASE SameIds
  BY <1>3, SameIdsInv
<1>4. CASE InsertInMessage
  BY <1>4, InsertInMessageInv
<1>5. CASE PassEarlierPiece
  BY <1>5, PassEarlierPieceInv
<1>6. CASE CountOnly
  BY <1>6, CountOnlyInv
<1>7. CASE InsertBeforeMessage
  BY <1>7, InsertBeforeMessageInv
<1>8. CASE PassOther
  BY <1>8, PassOtherInv
<1>9. CASE Finish
  BY <1>9, FinishInv
<1>10. CASE UNCHANGED vars
  BY <1>10 DEF vars, LoopInv, Entering, Walked, Endless, End, Here, TypeOK,
               LoopComputesRegroup, CountWithinTotal
<1> QED
  BY <1>1, <1>2, <1>3, <1>4, <1>5, <1>6, <1>7, <1>8, <1>9, <1>10 DEF Next, Loop

LEMMA LoopInvariant == Spec => []LoopInv
  BY LoopInvInit, LoopInvNext, PTL DEF Spec

\* The iterator never leaves the list, in whatever branch the call is, and
\* the list grows by at most one pack beyond its bound.
THEOREM LoopTypeCorrect == Spec => []TypeOK
<1>1. LoopInv => TypeOK
  <2> SUFFICES ASSUME LoopInv PROVE TypeOK
    OBVIOUS
  <2> DEFINE n == Len(recved_uncomplete_list)
  <2>1. MaxHeld \in Nat /\ MaxList \in Nat /\ MaxHeld < MaxList
    BY RegroupLoopAssumption
  <2>2. CASE pc = "entry"
    <3>1. recved_uncomplete_list \in Lists /\ alredy_count = 0
      BY <2>2 DEF LoopInv, Entering
    <3>2. recved_uncomplete_list \in Seq(Pieces) /\ n \in Nat /\ n <= MaxHeld
      BY <3>1, ListType
    <3> QED
      BY <2>1, <2>2, <3>1, <3>2 DEF TypeOK
  <2>3. CASE pc = "loop" /\ Walked
    <3>1. /\ recved_uncomplete_list \in Seq(Pieces) /\ n \in Nat /\ n <= MaxHeld
          /\ it \in 1 .. n + 1 /\ alredy_count \in Nat /\ alredy_count <= it - 1
          /\ big_pack_start_it \in 1 .. n + 1
      BY <2>3, WalkedTypes
    <3> HIDE DEF n
    <3>2. /\ n <= MaxList + 1 /\ alredy_count \in 0 .. MaxList + 1
          /\ big_pack_start_it \in 0 .. n + 1
      BY <2>1, <3>1
    <3> QED
      BY <3>1, <3>2 DEF TypeOK, End, n
  <2>4. CASE pc = "loop" /\ Endless
    <3>1. /\ recved_uncomplete_list \in Seq(Pieces) /\ n \in Nat
          /\ it \in 1 .. n /\ alredy_count \in 0 .. MaxList + 1
          /\ big_pack_start_it \in 0 .. n + 1
          /\ n <= MaxList + 1 \/ n <= MaxList
      BY <2>4 DEF Endless
    <3> HIDE DEF n
    <3>2. n <= MaxList + 1 /\ it \in 1 .. n + 1
      BY <2>1, <3>1
    <3> QED
      BY <3>1, <3>2 DEF TypeOK, End, n
  <2>5. CASE pc = "returned"
    BY <2>5 DEF LoopInv
  <2> QED
    BY <2>2, <2>3, <2>4, <2>5 DEF LoopInv
<1> QED
  BY <1>1, LoopInvariant, PTL

\* For every list a connection may hold and every piece, a call of
\* RegroupPack that returns has done what module Regroup says, and one that
\* Regroup says hangs does not return.
THEOREM RegroupIsTheLoop == Spec => []LoopComputesRegroup
<1>1. LoopInv => LoopComputesRegroup
  BY DEF LoopInv, LoopComputesRegroup
<1> QED
  BY <1>1, LoopInvariant, PTL

\* The assertion after the loop holds: it counts no more packs than the
\* message has.
THEOREM LoopCountsWithinTotal == Spec => []CountWithinTotal
<1>1. LoopInv => CountWithinTotal
  BY DEF LoopInv, CountWithinTotal
<1> QED
  BY <1>1, LoopInvariant, PTL

\* What ends a call that does not hang: a step of its loop returns, or takes
\* the iterator on by one and leaves the list as it is.
MovesOn ==
    pc = "loop" /\ ~R!Hangs(before, pack) =>
        \/ pc' = "returned"
        \/ it' = it + 1 /\ UNCHANGED <<recved_uncomplete_list, pc>>

\* Every step of the loop moves on so, unless Regroup says that the call hangs:
\* for a list of finite length it then returns.
THEOREM LoopMovesOn == Spec => [][MovesOn]_vars
<1>1. LoopInv /\ [Next]_vars => [MovesOn]_vars
  <2> SUFFICES ASSUME LoopInv, Next, pc = "loop", ~R!Hangs(before, pack)
               PROVE  \/ pc' = "returned"
                      \/ it' = it + 1 /\ UNCHANGED <<recved_uncomplete_list, pc>>
    BY DEF MovesOn
  <2>1. Walked /\ ~Endless
    BY DEF LoopInv, Endless
  <2>2. CASE EmptyList \/ EnterLoop
    BY <2>2 DEF EmptyList, EnterLoop
  <2>3. CASE SameIds \/ Finish
    BY <2>3 DEF SameIds, Finish
  <2>4. CASE PassEarlierPiece \/ PassOther
    BY <2>4 DEF PassEarlierPiece, PassOther
  <2>5. CASE InsertInMessage
    <3>1. LoopInv'
      BY <2>5, InsertInMessageInv
    <3>2. pc' = "loop" /\ inserted' = TRUE /\ before' = before /\ pack' = pack
      BY <2>5 DEF InsertInMessage
    <3>3. R!Hangs(before', pack')
      BY <3>1, <3>2 DEF LoopInv, Walked, Endless
    <3> QED
      BY <3>2, <3>3
  <2>6. CASE CountOnly
    BY <2>1, <2>6 DEF CountOnly, Walked
  <2>7. CASE InsertBeforeMessage
    <3>1. InLoop /\ BigId(Here) > BigId(pack)
      BY <2>7 DEF InsertBeforeMessage
    <3>2. it \in 1 .. Len(recved_uncomplete_list)
      BY <3>1, LoopTypes
    <3>3. Here.big > pack.big /\ Here.big \in Nat /\ pack.big \in Nat
      BY <2>1, <3>1, <3>2, WalkedTypes, HerePiece DEF BigId, LoopInv
    <3>4. ~Precedes(Here, pack) /\ Here.big # pack.big
      BY <3>3 DEF Precedes
    <3> QED
      BY <2>1, <3>2, <3>4, LaterPackHangs
  <2> QED
    BY <2>2, <2>3, <2>4, <2>5, <2>6, <2>7 DEF Next, Loop
<1> QED
  BY <1>1, LoopInvariant, PTL DEF Spec
=============================================================================
