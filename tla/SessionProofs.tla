--------------------------- MODULE SessionProofs ---------------------------
(***************************************************************************)
(* Theorems of UXSession, for any number of Java threads, of media         *)
(* connections, of messages and of callbacks.                              *)
(***************************************************************************)
EXTENDS UXSession, TLAPS

-----------------------------------------------------------------------------
(***************************************************************************)
(* The socket of the hall: once it is open it sends to the hall server or  *)
(* to who wrote to it last.                                                *)
(***************************************************************************)
Asked == {Server["hall"]} \cup wrote

SocketInv ==
    /\ wrote \subseteq Endpoint
    /\ "hall" \in timers => remote_ep \in Asked
    /\ \A data \in sent : data[2] \in Asked

LEMMA SocketInit == Init => SocketInv
BY DEF Init, SocketInv, Asked

LEMMA SocketNext == SocketInv /\ [Next]_vars => SocketInv'
<1> SUFFICES ASSUME SocketInv, [Next]_vars PROVE SocketInv'
  OBVIOUS
<1> USE DEF SocketInv, Asked
<1>1. ASSUME NEW c, NEW endpoint, Open(c, endpoint),
             c = "hall" => endpoint = Server["hall"]
      PROVE  SocketInv'
  BY <1>1 DEF Open, sendVars
<1>2. ASSUME NEW t, NEW what, SendData(t, what) PROVE SocketInv'
  BY <1>2 DEF SendData, netVars
<1>3. ASSUME NEW t, PostSend(t) \/ Exit(t) \/ ExitReturns(t) PROVE SocketInv'
  BY <1>3 DEF PostSend, Exit, ExitReturns, netVars, sendVars
<1>11. ASSUME NEW t, NEW m, AddMedia(t, m) \/ PushBack(t, m) PROVE SocketInv'
  BY <1>11 DEF AddMedia, PushBack, netVars, sendVars
<1>4. ASSUME NEW t, NEW k, Register(t, k) \/ Registered(t, k) PROVE SocketInv'
  BY <1>4 DEF Register, Registered, netVars, sendVars
<1>5. ASSUME NEW t, NEW m \in posted, StartSend(t, m) PROVE SocketInv'
  BY <1>5 DEF StartSend, Send, netVars
<1>6. ASSUME NEW t, NEW c, HandleOpen(t, c) PROVE SocketInv'
  BY <1>6 DEF HandleOpen, sendVars
<1>7. ASSUME NEW t, NEW c, HandleTimer(t, c) PROVE SocketInv'
  BY <1>7 DEF HandleTimer, Resend, Send, netVars
<1>8. ASSUME NEW t, NEW c, HandleRecv(t, c) PROVE SocketInv'
  BY <1>8 DEF HandleRecv
<1>9. ASSUME NEW t, NEW from \in Endpoint, Arrive(t, from) PROVE SocketInv'
  BY <1>9 DEF Arrive, sendVars
<1>10. CASE RunOut \/ HallDataCallback \/ UNCHANGED vars
  BY <1>10 DEF RunOut, HallDataCallback, NotFound, GetObjectClass, CallVoidMethod,
               UseNull, Detach, Advance, Return, vars, netVars, sendVars
<1>12. ASSUME NEW m \in Media PROVE m # "hall"
  BY <1>12, SessionAssumption
<1> QED
  BY <1>1, <1>2, <1>3, <1>4, <1>5, <1>6, <1>7, <1>8, <1>9, <1>10, <1>11, <1>12
     DEF Next, StartHall, StartRoom, OpenMedia, SendHallData, SendRoomData

\* Hall and room messages go to the hall server or to someone who has sent to
\* the hall socket: SendRoomData posts on the hall connection, whose remote_ep
\* async_receive_from overwrites.
THEOREM DataStaysOnHallSocket == Spec => []DataFollowsHallSocket
<1>1. Init => SocketInv
  BY SocketInit
<1>2. SocketInv /\ [Next]_vars => SocketInv'
  BY SocketNext
<1>3. SocketInv => DataFollowsHallSocket
  BY DEF SocketInv, Asked, DataFollowsHallSocket
<1> QED
  BY <1>1, <1>2, <1>3, PTL DEF Spec

-----------------------------------------------------------------------------
(***************************************************************************)
(* Types.                                                                  *)
(***************************************************************************)
LEMMA CallTypes ==
  ASSUME call \in [Thread -> Calls], NEW t \in Thread,
         NEW op \in {"none", "hall", "room", "encode", "exit"} \cup Media,
         NEW msg \in Messages
  PROVE  /\ Leave(t) => call' \in [Thread -> Calls]
         /\ Enter(t, op, msg) => call' \in [Thread -> Calls]
<1>1. NoCall \in Calls /\ NoMessage \in Messages
  BY DEF NoCall, Calls, NoMessage, Messages, Kinds
<1>2. [op |-> op, msg |-> msg] \in Calls
  BY DEF Calls
<1> QED
  BY <1>1, <1>2 DEF Leave, Enter

LEMMA NoMessageType == NoMessage \in Messages
BY DEF NoMessage, Messages, Kinds

LEMMA TypeInit == Init => TypeOK
<1> SUFFICES ASSUME Init PROVE TypeOK
  OBVIOUS
<1>1. NoCall \in Calls
  BY NoMessageType DEF NoCall, Calls
<1> QED
  BY <1>1 DEF Init, TypeOK, Thread

LEMMA TypeNext == TypeOK /\ SocketInv /\ [Next]_vars => TypeOK'
<1> SUFFICES ASSUME TypeOK, SocketInv, [Next]_vars PROVE TypeOK'
  OBVIOUS
<1> USE SessionAssumption DEF TypeOK
<1>1. "hall" \in timers => remote_ep \in Endpoint
  BY DEF SocketInv, Asked
<1>2. ASSUME NEW c \in Connections, NEW endpoint, Open(c, endpoint),
             c = "hall" => endpoint \in Endpoint, call' \in [Thread -> Calls]
      PROVE  TypeOK'
  BY <1>2 DEF Open, hiveVars, vectorVars, sendVars, javaVars
<1>3. ASSUME NEW t \in Thread, NEW what \in Kinds, SendData(t, what) PROVE TypeOK'
  <2>1. [n |-> calls + 1, id |-> current_id, what |-> what] \in Messages
    BY DEF Messages
  <2>2. call' \in [Thread -> Calls]
    BY <1>3, <2>1, CallTypes DEF SendData
  <2> QED
    BY <1>3, <2>2 DEF SendData, netVars, hiveVars, vectorVars, javaVars
<1>4. ASSUME NEW t \in Thread, PostSend(t) PROVE TypeOK'
  <2>1. call[t].msg \in Messages
    BY DEF Calls
  <2>2. NextId(call[t].msg.id) \in Nat
    BY <2>1 DEF NextId, Messages
  <2>3. call' \in [Thread -> Calls]
    BY <1>4, NoMessageType, CallTypes DEF PostSend
  <2> QED
    BY <1>4, <2>1, <2>2, <2>3 DEF PostSend, netVars, hiveVars, vectorVars, javaVars
<1>5. ASSUME NEW t \in Thread, NEW k \in Kinds, Register(t, k) PROVE TypeOK'
  <2>1. call' \in [Thread -> Calls]
    BY <1>5, NoMessageType, CallTypes DEF Register, Kinds
  <2>2. live' \subseteq live
    BY <1>5, Zenon DEF Register, Forget
  <2>3. live' \subseteq Nat
    BY <2>2
  <2>4. calls' \in Nat
    BY <1>5 DEF Register
  <2> QED
    BY <1>5, <2>1, <2>3, <2>4 DEF Register, netVars, hiveVars, vectorVars
<1>6. ASSUME NEW t \in Thread, NEW k \in Kinds, Registered(t, k) PROVE TypeOK'
  <2>1. call' \in [Thread -> Calls]
    BY <1>6, NoMessageType, CallTypes DEF Registered
  <2>2. refs' \in Nat /\ live' \subseteq Nat
    <3>1. refs + 1 \in Nat
      OBVIOUS
    <3> QED
      BY <1>6, <3>1 DEF Registered
  <2>3. g_data_callback' \in [Kinds -> Nat]
    <3>1. \E ref \in Nat : g_data_callback' = [g_data_callback EXCEPT ![k] = ref]
      BY <1>6, <2>2 DEF Registered
    <3> QED
      BY <3>1
  <2> QED
    BY <1>6, <2>1, <2>2, <2>3 DEF Registered, netVars, sendVars, hiveVars, vectorVars
<1>7. ASSUME NEW t \in Thread, Exit(t) \/ ExitReturns(t) PROVE TypeOK'
  <2>1. call' \in [Thread -> Calls]
    BY <1>7, NoMessageType, CallTypes DEF Exit, ExitReturns
  <2>2. /\ media_connect_vector' \subseteq Media
        /\ pushing' = pushing /\ raced' \in BOOLEAN
    <3>1. CASE Clear
      BY <3>1, SMT DEF Clear, Leaves
    <3>2. CASE UNCHANGED vectorVars
      BY <3>2 DEF vectorVars
    <3> QED
      BY <1>7, <3>1, <3>2 DEF Exit, ExitReturns
  <2>3. m_shutdown' \in BOOLEAN /\ stopped' \in BOOLEAN
    BY <1>7 DEF Exit, ExitReturns
  <2> QED
    BY <1>7, <2>1, <2>2, <2>3 DEF Exit, ExitReturns, netVars, sendVars, javaVars
<1>8. ASSUME NEW t \in Thread, NEW m \in posted, StartSend(t, m) PROVE TypeOK'
  <2>1. m.what \in Kinds
    BY DEF Messages
  <2> QED
    BY <1>1, <1>8, <2>1 DEF StartSend, Send, netVars, hiveVars, vectorVars, javaVars
<1>9. ASSUME NEW t \in Thread, NEW c \in Connections, HandleTimer(t, c) PROVE TypeOK'
  <2>1. \A m \in send_pending_list : m.what \in Kinds
    BY DEF Messages
  <2>2. /\ sent' \subseteq Kinds \X Endpoint
        /\ send_pending_list' \subseteq send_pending_list
    BY <1>1, <1>9, <2>1 DEF HandleTimer, Resend, Send
  <2> QED
    BY <1>9, <2>2 DEF HandleTimer, netVars, hiveVars, vectorVars, javaVars
<1>10. ASSUME NEW t \in Thread, NEW c \in Connections,
              HandleOpen(t, c) \/ HandleRecv(t, c)
       PROVE  TypeOK'
  <2>1. CASE HandleOpen(t, c)
    BY <2>1 DEF HandleOpen, hiveVars, vectorVars, sendVars, javaVars
  <2>2. CASE HandleRecv(t, c)
    <3>1. /\ recv' \in [Connections -> {"none", "opening", "waiting", "arrived", "handling"}]
          /\ stage' \in {"none", "class", "call", "java", "dead"}
          /\ runner' \in Thread \cup {Nobody}
      BY <2>2 DEF HandleRecv, RecvQuiet, RecvHallData, javaVars
    <3>2. attached' \subseteq Thread /\ send_pending_list' \subseteq Messages
      BY <2>2 DEF HandleRecv, RecvQuiet, RecvHallData, javaVars
    <3> QED
      BY <2>2, <3>1, <3>2 DEF HandleRecv, RecvQuiet, RecvHallData, hiveVars, vectorVars, javaVars
  <2> QED
    BY <1>10, <2>1, <2>2
<1>11. ASSUME NEW t \in Thread, NEW from \in Endpoint, Arrive(t, from) PROVE TypeOK'
  BY <1>11 DEF Arrive, hiveVars, vectorVars, sendVars, javaVars
<1>12. CASE RunOut \/ HallDataCallback \/ UNCHANGED vars
  BY <1>12 DEF RunOut, HallDataCallback, NotFound, GetObjectClass, CallVoidMethod,
               UseNull, Detach, Advance, Return, vars, netVars, sendVars, hiveVars,
               vectorVars, javaVars
<1>13. ASSUME NEW t \in Thread, NEW m \in Media, AddMedia(t, m) PROVE TypeOK'
  <2>1. call' \in [Thread -> Calls]
    BY <1>13, NoMessageType, CallTypes DEF AddMedia
  <2>2. pushing' \subseteq Media /\ raced' \in BOOLEAN
    BY <1>13 DEF AddMedia
  <2> QED
    BY <1>13, <2>1, <2>2 DEF AddMedia, netVars, sendVars, javaVars
<1>14. ASSUME NEW t \in Thread, NEW m \in Media, PushBack(t, m) PROVE TypeOK'
  <2>1. media_connect_vector' \subseteq Media /\ pushing' \subseteq Media
    BY <1>14 DEF PushBack, Leaves
  <2> QED
    BY <1>14, <2>1 DEF PushBack, netVars, sendVars, javaVars
<1> QED
  <2>1. ASSUME NEW t \in Thread,
               StartHall(t) \/ StartRoom(t) \/ \E m \in Media : OpenMedia(t, m)
        PROVE  TypeOK'
    <3>1. Media \subseteq Connections /\ "hall" \in Connections /\ "room" \in Connections
      BY DEF Connections
    <3>2. CASE StartHall(t)
      BY <1>2, <3>1, <3>2 DEF StartHall
    <3>3. CASE StartRoom(t)
      BY <1>2, <3>1, <3>3 DEF StartRoom
    <3>4. ASSUME NEW m \in Media, OpenMedia(t, m) PROVE TypeOK'
      <4>1. call' \in [Thread -> Calls]
        BY <3>4, NoMessageType, CallTypes DEF OpenMedia
      <4>2. m # "hall"
        OBVIOUS
      <4> QED
        BY <1>2, <3>1, <3>4, <4>1, <4>2 DEF OpenMedia
    <3> QED
      BY <2>1, <3>2, <3>3, <3>4
  <2>2. "hall" \in Kinds /\ "room" \in Kinds
    BY DEF Kinds
  <2> HIDE DEF TypeOK
  <2> QED
    BY <1>3, <1>4, <1>5, <1>6, <1>7, <1>8, <1>9, <1>10, <1>11, <1>12, <1>13, <1>14,
       <2>1, <2>2 DEF Next, SendHallData, SendRoomData

\* All values stay in their types; in particular nothing is sent before the
\* hall connection has been given an endpoint.
THEOREM SessionTypeCorrect == Spec => []TypeOK
<1>1. Init => TypeOK /\ SocketInv
  BY TypeInit, SocketInit
<1>2. TypeOK /\ SocketInv /\ [Next]_vars => (TypeOK /\ SocketInv)'
  BY TypeNext, SocketNext
<1> QED
  BY <1>1, <1>2, PTL DEF Spec

-----------------------------------------------------------------------------
(***************************************************************************)
(* The lifetime of a connection: its timer is armed from Open on, and the  *)
(* handler bound to the timer owns the connection; until then AddMedia     *)
(* does.                                                                   *)
(***************************************************************************)
Adding(m) == \E t \in Thread : call[t].op = m

HeldInv ==
    /\ \A m \in media_connect_vector : m \in timers \/ Adding(m)
    /\ \A c \in Connections : recv[c] # "none" => c \in timers
    /\ stage # "none" => "hall" \in timers

LEMMA HeldInit == Init => HeldInv
BY DEF Init, HeldInv

\* The timers of the connections are never disarmed.
LEMMA TimersKept == [Next]_vars => timers \subseteq timers'
BY DEF Next, StartHall, StartRoom, OpenMedia, Open, AddMedia, PushBack,
       SendHallData, SendRoomData, SendData, PostSend, Register, Registered, Exit,
       ExitReturns, StartSend, HandleOpen, HandleTimer, HandleRecv, Arrive, RunOut,
       HallDataCallback, NotFound, GetObjectClass, CallVoidMethod, UseNull, Detach,
       Advance, Return, netVars, vars

\* AddMedia lets go of a connection only by opening it.
LEMMA AddingKept ==
  ASSUME TypeOK, [Next]_vars, NEW m \in Media, Adding(m)
  PROVE  Adding(m)' \/ m \in timers'
<1>1. PICK u \in Thread : call[u].op = m
  BY DEF Adding
<1>2. m \notin {"none", "hall", "room", "encode", "exit"}
  BY SessionAssumption
<1>3. call \in [Thread -> Calls]
  BY DEF TypeOK
<1>4. CASE \E t \in Thread, n \in Media : OpenMedia(t, n)
  <2>1. PICK t \in Thread, n \in Media : OpenMedia(t, n)
    BY <1>4
  <2>2. CASE u = t
    BY <1>1, <2>1, <2>2 DEF OpenMedia, Open
  <2>3. CASE u # t
    BY <1>1, <1>3, <2>1, <2>3 DEF OpenMedia, Leave, Adding
  <2> QED
    BY <2>2, <2>3
<1>5. CASE ~(\E t \in Thread, n \in Media : OpenMedia(t, n))
  <2> DEFINE Other(t) ==
        /\ call[t].op \in {"none", "hall", "room", "encode", "exit"}
        /\ \A v \in Thread : v # t => call'[v] = call[v]
  <2>1. ASSUME NEW t \in Thread,
               \/ \E n \in Media : AddMedia(t, n)
               \/ SendHallData(t) \/ SendRoomData(t) \/ PostSend(t)
        PROVE  Other(t)
    BY <1>3, <2>1 DEF AddMedia, SendHallData, SendRoomData, SendData, PostSend,
                      MayCall, Enter, Leave
  <2>2. ASSUME NEW t \in Thread,
               \/ \E k \in Kinds : Register(t, k) \/ Registered(t, k)
               \/ ExitReturns(t)
        PROVE  Other(t)
    BY <1>3, <2>2 DEF Register, Registered, ExitReturns, MayCall, Enter, Leave, Kinds
  <2>3. ASSUME NEW t \in Thread, Exit(t) PROVE Other(t) \/ call' = call
    BY <1>3, <2>3 DEF Exit, MayCall, Enter
  <2>4. ASSUME NEW t \in Thread,
               \/ StartHall(t) \/ StartRoom(t) \/ \E n \in Media : PushBack(t, n)
               \/ \E n \in posted : StartSend(t, n)
               \/ \E c \in Connections :
                    HandleOpen(t, c) \/ HandleTimer(t, c) \/ HandleRecv(t, c)
               \/ \E from \in Endpoint : Arrive(t, from)
        PROVE  call' = call
    BY <2>4 DEF StartHall, StartRoom, PushBack, StartSend, HandleOpen, HandleTimer,
                HandleRecv, Arrive
  <2>5. ASSUME RunOut \/ HallDataCallback \/ UNCHANGED vars PROVE call' = call
    BY <2>5 DEF RunOut, HallDataCallback, NotFound, GetObjectClass, CallVoidMethod,
                UseNull, Detach, Advance, Return, vars
  <2>6. \/ call' = call
        \/ \E t \in Thread : Other(t)
    <3> HIDE DEF Other
    <3> QED
      BY <1>5, <2>1, <2>2, <2>3, <2>4, <2>5 DEF Next
  <2>7. call'[u] = call[u]
    BY <1>1, <1>2, <2>6
  <2> QED
    BY <1>1, <2>7 DEF Adding
<1> QED
  BY <1>4, <1>5

\* The vector has no connection that is not being added or open.
LEMMA HeldNext == TypeOK /\ HeldInv /\ [Next]_vars => HeldInv'
<1> SUFFICES ASSUME TypeOK, HeldInv, [Next]_vars PROVE HeldInv'
  OBVIOUS
<1>0. recv \in [Connections -> {"none", "opening", "waiting", "arrived", "handling"}]
      /\ media_connect_vector \subseteq Media
  BY DEF TypeOK
<1>a. ASSUME NEW m \in media_connect_vector PROVE m \in timers' \/ Adding(m)'
  BY <1>0, <1>a, TimersKept, AddingKept DEF HeldInv
<1>b. ASSUME media_connect_vector' \subseteq media_connect_vector,
             \A c \in Connections : recv'[c] # "none" => c \in timers',
             stage' # "none" => "hall" \in timers'
      PROVE  HeldInv'
  BY <1>a, <1>b DEF HeldInv
<1>c. \A c \in Connections : recv[c] # "none" => c \in timers'
  BY TimersKept DEF HeldInv
<1>d. stage # "none" => "hall" \in timers'
  BY TimersKept DEF HeldInv
<1>1. ASSUME NEW c \in Connections, NEW endpoint, Open(c, endpoint) PROVE HeldInv'
  BY <1>1, <1>0, <1>b, <1>c, <1>d DEF Open, javaVars, hiveVars, vectorVars
<1>2. ASSUME NEW t \in Thread, NEW m \in Media, PushBack(t, m) PROVE HeldInv'
  <2>1. Adding(m)'
    BY <1>2 DEF PushBack, Adding
  <2>2. media_connect_vector' \subseteq media_connect_vector \cup {m}
    BY <1>2 DEF PushBack, Leaves
  <2>3. \A n \in media_connect_vector' : n \in timers' \/ Adding(n)'
    BY <1>a, <2>1, <2>2
  <2>4. recv' = recv /\ stage' = stage
    BY <1>2 DEF PushBack, netVars, javaVars
  <2> QED
    BY <1>c, <1>d, <2>3, <2>4 DEF HeldInv
<1>3. ASSUME NEW t, Exit(t) \/ ExitReturns(t) PROVE HeldInv'
  <2>1. media_connect_vector' \subseteq media_connect_vector
    BY <1>3 DEF Exit, ExitReturns, Clear, Leaves, vectorVars
  <2>2. recv' = recv /\ stage' = stage
    BY <1>3 DEF Exit, ExitReturns, netVars, javaVars
  <2> QED
    BY <1>b, <1>c, <1>d, <2>1, <2>2
<1>4. ASSUME NEW t, NEW m, AddMedia(t, m) PROVE HeldInv'
  BY <1>4, <1>b, <1>c, <1>d DEF AddMedia, netVars, javaVars
<1>5. ASSUME NEW t, NEW what, SendData(t, what) \/ PostSend(t) PROVE HeldInv'
  BY <1>5, <1>b, <1>c, <1>d DEF SendData, PostSend, netVars, hiveVars, vectorVars,
                                javaVars
<1>6. ASSUME NEW t, NEW k, Register(t, k) \/ Registered(t, k) PROVE HeldInv'
  BY <1>6, <1>b, <1>c, <1>d DEF Register, Registered, netVars, hiveVars, vectorVars
<1>7. ASSUME NEW t, NEW m, StartSend(t, m) PROVE HeldInv'
  BY <1>7, <1>b, <1>c, <1>d DEF StartSend, netVars, hiveVars, vectorVars, javaVars
<1>8. ASSUME NEW t, NEW c \in Connections, HandleOpen(t, c) PROVE HeldInv'
  BY <1>8, <1>0, <1>b, <1>c, <1>d DEF HandleOpen, hiveVars, vectorVars, javaVars
<1>9. ASSUME NEW t, NEW c \in Connections, HandleTimer(t, c) PROVE HeldInv'
  BY <1>9, <1>b, <1>c, <1>d DEF HandleTimer, netVars, hiveVars, vectorVars, javaVars
<1>10. ASSUME NEW t, NEW c \in Connections, HandleRecv(t, c) PROVE HeldInv'
  <2>1. recv[c] # "none" /\ \A d \in Connections : d # c => recv'[d] = recv[d]
    BY <1>10, <1>0 DEF HandleRecv, Received, RecvQuiet, RecvHallData
  <2>2. \A d \in Connections : recv'[d] # "none" => d \in timers'
    BY <1>c, <2>1
  <2>3. stage' # "none" => "hall" \in timers'
    BY <1>10, <1>c, <1>d, <2>1 DEF HandleRecv, RecvQuiet, RecvHallData, javaVars,
                                    Connections
  <2>4. media_connect_vector' = media_connect_vector
    BY <1>10 DEF HandleRecv, hiveVars, vectorVars
  <2> QED
    BY <1>b, <2>2, <2>3, <2>4
<1>11. ASSUME NEW t, NEW from, Arrive(t, from) PROVE HeldInv'
  BY <1>11, <1>0, <1>b, <1>c, <1>d DEF Arrive, hiveVars, vectorVars, javaVars,
                                       Connections
<1>12. CASE RunOut \/ UNCHANGED vars
  BY <1>12, <1>b, <1>c, <1>d DEF RunOut, vars, netVars, hiveVars, vectorVars,
                                 javaVars
<1>13. CASE HallDataCallback
  BY <1>13, <1>0, <1>b, <1>c, <1>d
     DEF HallDataCallback, NotFound, GetObjectClass, CallVoidMethod, UseNull,
         Detach, Advance, Return, netVars, hiveVars, vectorVars, Connections
<1> QED
  BY <1>1, <1>2, <1>3, <1>4, <1>5, <1>6, <1>7, <1>8, <1>9, <1>10, <1>11, <1>12,
     <1>13 DEF Next, StartHall, StartRoom, OpenMedia, SendHallData, SendRoomData,
               Connections

\* No media connection is destroyed under its worker: clearing the vector, in
\* whichever call of Exit, leaves the connection to AddMedia, or to the timer's
\* handler, which arms the timer again for ever.
THEOREM ConnectionsOutliveWorkers == Spec => OutlivesWorker
<1>1. Init => TypeOK /\ SocketInv /\ HeldInv
  BY TypeInit, SocketInit, HeldInit
<1>2. TypeOK /\ SocketInv /\ HeldInv /\ [Next]_vars
        => (TypeOK /\ SocketInv /\ HeldInv)'
  BY TypeNext, SocketNext, HeldNext
<1>3. TypeOK /\ HeldInv /\ [Next]_vars
        => [\A m \in Media : Held(m) => Held(m)' \/ raced']_vars
  <2> SUFFICES ASSUME TypeOK, HeldInv, [Next]_vars, NEW m \in Media, Held(m)
               PROVE  Held(m)'
    OBVIOUS
  <2>1. m \in timers \/ Adding(m)
    BY DEF HeldInv, Held, Adding, Connections
  <2>2. m \in timers' \/ Adding(m)'
    BY <2>1, TimersKept, AddingKept
  <2> QED
    BY <2>2 DEF Held, Adding
<1> QED
  BY <1>1, <1>2, <1>3, PTL DEF Spec, OutlivesWorker

-----------------------------------------------------------------------------
(***************************************************************************)
(* The callback into Java.  It starts only while m_shutdown is not set,    *)
(* when no thread is in Exit, so the thread it starts on is a worker.      *)
(***************************************************************************)
CallbackInv ==
    /\ \A k \in Kinds : g_data_callback[k] # 0 => g_data_callback[k] \in live
    /\ 0 \notin live
    /\ stage # "none" => runner \in Connections
    /\ \A t \in Thread : call[t].op = "exit" => m_shutdown
    /\ App \subseteq attached

LEMMA CallbackInit == Init => CallbackInv
BY DEF Init, CallbackInv, NoCall

LEMMA CallbackNext == TypeOK /\ CallbackInv /\ [Next]_vars => CallbackInv'
<1> SUFFICES ASSUME TypeOK, CallbackInv, [Next]_vars PROVE CallbackInv'
  OBVIOUS
<1> USE SessionAssumption DEF CallbackInv, TypeOK
<1>1. ASSUME NEW t, StartHall(t) \/ StartRoom(t) PROVE CallbackInv'
  BY <1>1 DEF StartHall, StartRoom, Open, hiveVars, javaVars
<1>13. ASSUME NEW t \in Thread, NEW m \in Media, AddMedia(t, m) PROVE CallbackInv'
  <2>1. \A u \in Thread : call'[u].op = "exit" => call[u].op = "exit"
    BY <1>13 DEF AddMedia, Enter
  <2> QED
    BY <1>13, <2>1 DEF AddMedia, javaVars
<1>14. ASSUME NEW t \in Thread, NEW m \in Media, OpenMedia(t, m) PROVE CallbackInv'
  <2>1. \A u \in Thread : call'[u].op = "exit" => call[u].op = "exit"
    BY <1>14 DEF OpenMedia, Leave, NoCall
  <2> QED
    BY <1>14, <2>1 DEF OpenMedia, Open, hiveVars, javaVars
<1>15. ASSUME NEW t \in Thread, NEW m \in Media, PushBack(t, m) PROVE CallbackInv'
  BY <1>15 DEF PushBack, javaVars
<1>2. ASSUME NEW t \in Thread, NEW what, SendData(t, what) PROVE CallbackInv'
  <2>1. \A u \in Thread : call'[u].op = "exit" => call[u].op = "exit"
    BY <1>2 DEF SendData, Enter
  <2> QED
    BY <1>2, <2>1 DEF SendData, hiveVars, javaVars
<1>3. ASSUME NEW t \in Thread, PostSend(t) \/ ExitReturns(t) PROVE CallbackInv'
  <2>1. \A u \in Thread : call'[u].op = "exit" => call[u].op = "exit"
    BY <1>3 DEF PostSend, ExitReturns, Leave, NoCall
  <2> QED
    BY <1>3, <2>1 DEF PostSend, ExitReturns, hiveVars, javaVars
<1>4. ASSUME NEW t \in Thread, NEW k \in Kinds, Register(t, k) PROVE CallbackInv'
  <2>1. \A u \in Thread : call'[u].op = "exit" => call[u].op = "exit"
    BY <1>4 DEF Register, Enter, Kinds
  <2>2. live' = live
    BY <1>4 DEF Register, Forget
  <2> QED
    BY <1>4, <2>1, <2>2 DEF Register, hiveVars
<1>5. ASSUME NEW t \in Thread, NEW k \in Kinds, Registered(t, k) PROVE CallbackInv'
  <2>1. \A u \in Thread : call'[u].op = "exit" => call[u].op = "exit"
    BY <1>5 DEF Registered, Leave, NoCall
  <2>2. refs + 1 \in Nat /\ refs + 1 # 0
    OBVIOUS
  <2>3. "hall" \in Kinds
    BY DEF Kinds
  <2> QED
    BY <1>5, <2>1, <2>2, <2>3 DEF Registered, hiveVars
<1>6. ASSUME NEW t \in Thread, Exit(t) PROVE CallbackInv'
  BY <1>6 DEF Exit, javaVars
<1>7. ASSUME NEW t, NEW m, StartSend(t, m) PROVE CallbackInv'
  BY <1>7 DEF StartSend, hiveVars, javaVars
<1>8. ASSUME NEW t, NEW c, HandleOpen(t, c) \/ HandleTimer(t, c) PROVE CallbackInv'
  BY <1>8 DEF HandleOpen, HandleTimer, hiveVars, javaVars
<1>9. ASSUME NEW t \in Thread, NEW c, HandleRecv(t, c) PROVE CallbackInv'
  <2>1. CASE m_shutdown \/ RecvQuiet(t, c)
    BY <1>9, <2>1 DEF HandleRecv, RecvQuiet, RecvHallData, hiveVars, javaVars
  <2>2. CASE ~m_shutdown /\ RecvHallData(t, c)
    <3>1. t \in Connections
      BY <1>9, <2>2 DEF HandleRecv, Handler, Runs, Connections
    <3> QED
      BY <1>9, <2>2, <3>1 DEF HandleRecv, RecvHallData, hiveVars
  <2> QED
    BY <1>9, <2>1, <2>2 DEF HandleRecv
<1>10. ASSUME NEW t, NEW from, Arrive(t, from) PROVE CallbackInv'
  BY <1>10 DEF Arrive, hiveVars, javaVars
<1>11. CASE RunOut \/ UNCHANGED vars
  BY <1>11 DEF RunOut, vars, hiveVars, javaVars
<1>12. CASE HallDataCallback
  <2>1. stage # "none" => runner \notin App
    OBVIOUS
  <2> QED
    BY <1>12, <2>1 DEF HallDataCallback, NotFound, GetObjectClass, CallVoidMethod,
               UseNull, Detach, Advance, Return, hiveVars
<1> QED
  BY <1>1, <1>2, <1>3, <1>4, <1>5, <1>6, <1>7, <1>8, <1>9, <1>10, <1>11, <1>12,
     <1>13, <1>14, <1>15 DEF Next, SendHallData, SendRoomData

LEMMA CallbackInvariant == Spec => [](TypeOK /\ CallbackInv)
<1>1. Init => TypeOK /\ SocketInv /\ CallbackInv
  BY TypeInit, SocketInit, CallbackInit
<1>2. TypeOK /\ SocketInv /\ CallbackInv /\ [Next]_vars
        => (TypeOK /\ SocketInv /\ CallbackInv)'
  BY TypeNext, SocketNext, CallbackNext
<1> QED
  BY <1>1, <1>2, PTL DEF Spec

\* Between its reads of g_hall_data_callback, HallDataCallback never finds a
\* deleted reference, wherever other threads are in registerOnHallDataCallback.
THEOREM CallbackUsesNoDeletedReference == Spec => []UsesNoDeletedReference
<1>1. CallbackInv => UsesNoDeletedReference
  BY DEF CallbackInv, UsesNoDeletedReference, Kinds
<1> QED
  BY <1>1, CallbackInvariant, PTL

\* HallDataCallback detaches no thread of the application, though Exit makes
\* such a thread run handlers: by then HandleRecv calls nothing back.
THEOREM AppThreadsStayAttached == Spec => []AppStaysAttached
<1>1. CallbackInv => AppStaysAttached
  BY DEF CallbackInv, AppStaysAttached
<1> QED
  BY <1>1, CallbackInvariant, PTL

-----------------------------------------------------------------------------
(***************************************************************************)
(* Ids: until two calls of EncodeData overlap, the one that is between its *)
(* read and its write has read the current value, which is above all ids.  *)
(***************************************************************************)
Waiting == posted \cup send_pending_list

IdInv ==
    \/ overlapped
    \/ /\ \A t1, t2 \in Encoding : t1 = t2
       /\ \A t \in Encoding : call[t].msg.id = current_id
       /\ \A m \in Waiting : m.id < current_id
       /\ \A m1, m2 \in Waiting : m1.id = m2.id => m1 = m2

LEMMA IdInit == Init => IdInv
BY DEF Init, IdInv, Encoding, Waiting, NoCall

\* Steps that encode nothing and post nothing.
LEMMA IdKept ==
  ASSUME IdInv, UNCHANGED <<current_id, overlapped>>,
         Encoding' \subseteq Encoding, \A t \in Encoding' : call'[t] = call[t],
         Waiting' \subseteq Waiting
  PROVE  IdInv'
BY DEF IdInv

LEMMA IdNext == TypeOK /\ IdInv /\ [Next]_vars => IdInv'
<1> SUFFICES ASSUME TypeOK, IdInv, [Next]_vars PROVE IdInv'
  OBVIOUS
<1> USE DEF TypeOK
<1>1. ASSUME NEW t \in Thread, NEW what \in Kinds, SendData(t, what) PROVE IdInv'
  <2> SUFFICES ASSUME ~overlapped' PROVE IdInv'
    BY DEF IdInv
  <2>1. ~overlapped /\ Encoding = {}
    BY <1>1 DEF SendData
  <2>2. Encoding' \subseteq {t}
    BY <1>1, <2>1 DEF SendData, Enter, Encoding
  <2>3. call'[t].msg.id = current_id
    BY <1>1 DEF SendData, Enter
  <2> QED
    BY <1>1, <2>1, <2>2, <2>3 DEF SendData, IdInv, Waiting
<1>2. ASSUME NEW t \in Thread, PostSend(t) PROVE IdInv'
  <2> SUFFICES ASSUME ~overlapped' PROVE IdInv'
    BY DEF IdInv
  <2>1. ~overlapped /\ t \in Encoding
    BY <1>2 DEF PostSend, Encoding
  <2>2. Encoding' = {}
    BY <1>2, <2>1 DEF PostSend, Leave, Encoding, IdInv, NoCall
  <2>3. current_id' = current_id + 1 /\ call[t].msg.id = current_id
    BY <1>2, <2>1 DEF PostSend, NextId, IdInv
  <2>4. Waiting' = Waiting \cup {call[t].msg}
    BY <1>2 DEF PostSend, Waiting
  <2>5. \A m \in Waiting : m.id \in Nat
    BY DEF Waiting, Messages
  <2> QED
    BY <2>1, <2>2, <2>3, <2>4, <2>5 DEF IdInv
<1>3. ASSUME NEW t, NEW m \in posted, StartSend(t, m) PROVE IdInv'
  BY <1>3, IdKept DEF StartSend, Encoding, Waiting
<1>4. ASSUME NEW t, NEW c, HandleTimer(t, c) PROVE IdInv'
  BY <1>4, IdKept DEF HandleTimer, Resend, Encoding, Waiting
<1>5. ASSUME NEW t, NEW c, HandleOpen(t, c) \/ HandleRecv(t, c) PROVE IdInv'
  BY <1>5, IdKept DEF HandleOpen, HandleRecv, RecvQuiet, RecvHallData, Encoding,
                      Waiting, sendVars
<1>6. ASSUME NEW t \in Thread, NEW k \in Kinds, Register(t, k) \/ Registered(t, k)
      PROVE  IdInv'
  <2> DEFINE Fewer == /\ Encoding' \subseteq Encoding
                      /\ \A u \in Encoding' : call'[u] = call[u]
  <2>1. ASSUME Register(t, k) PROVE Fewer
    BY <2>1 DEF Register, Enter, Encoding, Kinds
  <2>2. ASSUME Registered(t, k) PROVE Fewer
    BY <2>2 DEF Registered, Leave, Encoding, NoCall
  <2> QED
    BY <1>6, <2>1, <2>2, IdKept DEF Register, Registered, Waiting, sendVars
<1>7. ASSUME NEW t \in Thread, Exit(t) \/ ExitReturns(t) PROVE IdInv'
  <2> DEFINE Fewer == /\ Encoding' \subseteq Encoding
                      /\ \A u \in Encoding' : call'[u] = call[u]
  <2>1. ASSUME Exit(t) PROVE Fewer
    BY <2>1 DEF Exit, Enter, Encoding
  <2>2. ASSUME ExitReturns(t) PROVE Fewer
    BY <2>2 DEF ExitReturns, Leave, Encoding, NoCall
  <2> QED
    BY <1>7, <2>1, <2>2, IdKept DEF Exit, ExitReturns, Waiting, sendVars
<1>8. ASSUME NEW t, StartHall(t) \/ StartRoom(t) PROVE IdInv'
  BY <1>8, IdKept DEF StartHall, StartRoom, Open, Encoding, Waiting, sendVars
<1>11. ASSUME NEW t \in Thread, NEW m \in Media,
              AddMedia(t, m) \/ PushBack(t, m) \/ OpenMedia(t, m)
       PROVE  IdInv'
  <2> DEFINE Fewer == /\ Encoding' \subseteq Encoding
                      /\ \A u \in Encoding' : call'[u] = call[u]
  <2>1. ASSUME AddMedia(t, m) PROVE Fewer
    BY <2>1, SessionAssumption DEF AddMedia, Enter, Encoding
  <2>2. ASSUME OpenMedia(t, m) PROVE Fewer
    BY <2>2 DEF OpenMedia, Leave, Encoding, NoCall
  <2>3. ASSUME PushBack(t, m) PROVE Fewer
    BY <2>3 DEF PushBack, Encoding
  <2> QED
    BY <1>11, <2>1, <2>2, <2>3, IdKept
       DEF AddMedia, PushBack, OpenMedia, Open, Waiting, sendVars
<1>9. ASSUME NEW t, NEW from, Arrive(t, from) PROVE IdInv'
  BY <1>9, IdKept DEF Arrive, Encoding, Waiting, sendVars
<1>10. CASE RunOut \/ HallDataCallback \/ UNCHANGED vars
  BY <1>10, IdKept DEF RunOut, HallDataCallback, NotFound, GetObjectClass,
     CallVoidMethod, UseNull, Detach, Advance, Return, Encoding, Waiting, vars,
     sendVars
<1> QED
  BY <1>1, <1>2, <1>3, <1>4, <1>5, <1>6, <1>7, <1>8, <1>9, <1>10, <1>11
     DEF Next, SendHallData, SendRoomData, Kinds

\* Two messages share an id, and so one answer, only after a race on the
\* unguarded current_id++.
THEOREM IdsDistinctWithoutRace == Spec => []IdsRepeatOnlyOnRace
<1>1. Init => TypeOK /\ SocketInv /\ IdInv
  BY TypeInit, SocketInit, IdInit
<1>2. TypeOK /\ SocketInv /\ IdInv /\ [Next]_vars => (TypeOK /\ SocketInv /\ IdInv)'
  BY TypeNext, SocketNext, IdNext
<1>3. IdInv => IdsRepeatOnlyOnRace
  BY DEF IdInv, Waiting, IdsRepeatOnlyOnRace
<1> QED
  BY <1>1, <1>2, <1>3, PTL DEF Spec
=============================================================================
