----------------------------- MODULE UXSession -----------------------------
(***************************************************************************)
(* UX (ux.cc) and its JNI glue (ux_jni.cc): the hall, the room and the     *)
(* media connections of one UX object, the Java threads that call it, the  *)
(* worker thread of each connection, and the calls back into Java.         *)
(*                                                                         *)
(* Every thread here can be the one that runs a handler: a worker polls    *)
(* the hive all three kinds of connection share, and a thread in Exit runs *)
(* it (Hive).  A worker has the name of its connection.  One whose unset   *)
(* `exited` holds TRUE never polls, which is a worker that takes no step.  *)
(*                                                                         *)
(* Of a connection the module keeps what the session depends on: the       *)
(* operations that hold it, and of the hall connection the endpoint and    *)
(* the messages it sends; ConnectionUDP has the rest.  A send that has     *)
(* been started is taken to complete before it matters.                    *)
(*                                                                         *)
(* media_connect_vector has no lock either.  When push_back and another    *)
(* push_back or clear overlap, any of the elements may be lost, then and   *)
(* later; that one of them is released twice is left out, and so is a      *)
(* heap that is damaged.                                                   *)
(***************************************************************************)
EXTENDS Naturals

CONSTANTS App,        \* the Java threads
          Media,      \* the media connections AddMedia makes
          Endpoint,   \* who can send to a socket of the process
          Server,     \* the endpoints StartHall and StartRoom are given
          MaxCalls    \* bound: messages sent and callbacks registered

Connections == {"hall", "room"} \cup Media

Thread == App \cup Connections

Nobody == "nobody"

ASSUME SessionAssumption ==
    /\ {"hall", "room", "none", "encode", "exit", Nobody} \cap Media = {}
    /\ App \cap (Connections \cup {Nobody}) = {}
    /\ Server \in [{"hall", "room"} -> Endpoint]
    /\ MaxCalls \in Nat

VARIABLES
    m_shutdown,             \* Hive::m_shutdown
    stopped,                \* of the io_service: it runs no handler any more
    media_connect_vector,
    pushing,                \* the connections that push_back is adding to it
    raced,                  \* history: two threads were in the vector at once
    timers,                 \* the connections whose m_timer is armed
    recv,                   \* what each connection has asked of its socket
    remote_ep,              \* of the hall connection
    current_id,             \* Pack::current_id
    posted,                 \* StartSend calls queued on the hall's strand
    send_pending_list,      \* of the hall connection
    call,                   \* the call of the API each thread is in
    g_data_callback,        \* g_hall_data_callback and g_room_data_callback
    live,                   \* the global references that are not deleted
    refs,                   \* how many were created; also the last of them
    attached,               \* the threads attached to the JVM
    stage,                  \* how far HallDataCallback has come
    runner,                 \* the thread it runs on
    calls,                  \* counts against MaxCalls
    overlapped,             \* history: two threads were in current_id++ at once
    wrote,                  \* history: who has sent to the hall socket
    sent                    \* history: <<what, to whom>> of the last sends on it

netVars == <<timers, recv, remote_ep, wrote>>
sendVars == <<current_id, posted, send_pending_list, calls, overlapped, sent>>
javaVars == <<g_data_callback, live, refs, attached, stage, runner>>
vectorVars == <<media_connect_vector, pushing, raced>>
hiveVars == <<m_shutdown, stopped, vectorVars>>

vars == <<hiveVars, netVars, sendVars, javaVars, call>>

Kinds == {"hall", "room"}

\* A message, told apart from the others by n, and the id of its pack.
Messages == [n : Nat, id : Nat, what : Kinds]

NoMessage == [n |-> 0, id |-> 0, what |-> "hall"]

NoCall == [op |-> "none", msg |-> NoMessage]

Calls == [op : {"none", "hall", "room", "encode", "exit"} \cup Media,
          msg : Messages]

TypeOK ==
    /\ m_shutdown \in BOOLEAN /\ stopped \in BOOLEAN
    /\ media_connect_vector \subseteq Media
    /\ pushing \subseteq Media /\ raced \in BOOLEAN
    /\ timers \subseteq Connections
    /\ recv \in [Connections -> {"none", "opening", "waiting", "arrived", "handling"}]
    /\ remote_ep \in Endpoint \cup {Nobody}
    /\ current_id \in Nat /\ calls \in Nat /\ refs \in Nat
    /\ posted \subseteq Messages /\ send_pending_list \subseteq Messages
    /\ call \in [Thread -> Calls]
    /\ g_data_callback \in [Kinds -> Nat]
    /\ live \subseteq Nat
    /\ attached \subseteq Thread
    /\ stage \in {"none", "class", "call", "java", "dead"}
    /\ runner \in Thread \cup {Nobody}
    /\ overlapped \in BOOLEAN
    /\ wrote \subseteq Endpoint
    /\ sent \subseteq Kinds \X Endpoint

\* UX::UX, after which only the hall connection has a data callback.
Init ==
    /\ m_shutdown = FALSE /\ stopped = FALSE
    /\ media_connect_vector = {} /\ pushing = {} /\ raced = FALSE
    /\ timers = {}
    /\ recv = [c \in Connections |-> "none"]
    /\ remote_ep = Nobody
    /\ current_id = 1 /\ calls = 0
    /\ posted = {} /\ send_pending_list = {}
    /\ call = [t \in Thread |-> NoCall]
    /\ g_data_callback = [k \in Kinds |-> 0]
    /\ live = {} /\ refs = 0
    /\ attached = App
    /\ stage = "none" /\ runner = Nobody
    /\ overlapped = FALSE
    /\ wrote = {} /\ sent = {}

\* Java code calls the API from its own threads and from the callback.
MayCall(t) ==
    /\ call[t].op = "none"
    /\ t \in App \/ (stage = "java" /\ runner = t)

Enter(t, op, msg) == call' = [call EXCEPT ![t] = [op |-> op, msg |-> msg]]

Leave(t) == call' = [call EXCEPT ![t] = NoCall]

\* What keeps a media connection: AddMedia, the vector, its operations.
Held(m) ==
    \/ \E t \in Thread : call[t].op = m
    \/ m \in media_connect_vector
    \/ m \in timers
    \/ recv[m] # "none"

\* The threads that may run a handler next.
Runs(t) ==
    /\ ~stopped
    /\ \/ /\ t \in {"hall", "room"} \/ (t \in Media /\ Held(t))
          /\ runner # t
       \/ call[t].op = "exit"

-----------------------------------------------------------------------------
(***************************************************************************)
(* StartHall, StartRoom and AddMedia.  Each connection is opened once.     *)
(***************************************************************************)
Open(c, endpoint) ==
    /\ recv[c] = "none" /\ c \notin timers
    /\ recv' = [recv EXCEPT ![c] = "opening"]
    /\ timers' = timers \cup {c}
    /\ remote_ep' = IF c = "hall" THEN endpoint ELSE remote_ep
    /\ UNCHANGED <<hiveVars, wrote, sendVars, javaVars>>

StartHall(t) == MayCall(t) /\ Open("hall", Server["hall"]) /\ UNCHANGED call

\* Mutated form of StartRoom: as SendRoomData does, it takes the hall connection.
StartRoomOnHall(t) == MayCall(t) /\ Open("hall", Server["room"]) /\ UNCHANGED call

StartRoom(t) == MayCall(t) /\ Open("room", Server["room"]) /\ UNCHANGED call

\* The call makes the connection, whose worker starts, and enters push_back.
AddMedia(t, m) ==
    /\ MayCall(t)
    /\ ~Held(m)
    /\ Enter(t, m, NoMessage)
    /\ pushing' = pushing \cup {m}
    /\ raced' = (raced \/ pushing # {})
    /\ UNCHANGED <<m_shutdown, stopped, media_connect_vector, netVars, sendVars,
                   javaVars>>

\* The vector after an operation that should leave connections in it.
Leaves(connections) ==
    IF raced' THEN media_connect_vector' \in SUBSET (media_connect_vector \cup connections)
    ELSE media_connect_vector' = connections

PushBack(t, m) ==
    /\ call[t].op = m
    /\ m \in pushing
    /\ pushing' = pushing \ {m}
    /\ UNCHANGED raced
    /\ Leaves(media_connect_vector \cup {m})
    /\ UNCHANGED <<m_shutdown, stopped, netVars, sendVars, javaVars, call>>

OpenMedia(t, m) ==
    /\ call[t].op = m
    /\ m \notin pushing
    /\ Open(m, Nobody)
    /\ Leave(t)

Clear ==
    /\ raced' = (raced \/ pushing # {})
    /\ Leaves({})
    /\ UNCHANGED pushing

-----------------------------------------------------------------------------
(***************************************************************************)
(* SendHallData and SendRoomData: both post on the hall connection.        *)
(* EncodeData's current_id++ is a read and a write with no lock around     *)
(* them, so two threads can be between the two at once.                    *)
(***************************************************************************)
Encoding == {t \in Thread : call[t].op = "encode"}

SendData(t, what) ==
    /\ MayCall(t)
    /\ calls < MaxCalls
    /\ calls' = calls + 1
    /\ Enter(t, "encode", [n |-> calls + 1, id |-> current_id, what |-> what])
    /\ overlapped' = (overlapped \/ Encoding # {})
    /\ UNCHANGED <<hiveVars, netVars, current_id, posted, send_pending_list, sent,
                   javaVars>>

SendHallData(t) == SendData(t, "hall")
SendRoomData(t) == SendData(t, "room")

\* Mutated form of NextId: the id is not counted.
SameId(id) == id

NextId(id) == id + 1

PostSend(t) ==
    /\ call[t].op = "encode"
    /\ current_id' = NextId(call[t].msg.id)
    /\ posted' = posted \cup {call[t].msg}
    /\ Leave(t)
    /\ UNCHANGED <<hiveVars, netVars, send_pending_list, calls, overlapped, sent,
                   javaVars>>

-----------------------------------------------------------------------------
(***************************************************************************)
(* registerOnHallDataCallback and registerOnRoomDataCallback: first the    *)
(* old global reference, then the new one, which is stored in the global   *)
(* variable that HallDataCallback reads and registered with the UX.        *)
(***************************************************************************)
\* Mutated form of Forget: the reference there is is deleted, as was meant.
ForgetOld(k) == live \ {g_data_callback[k]}

\* DeleteGlobalRef is called only for the NULL there is at first.
Forget(k) ==
    IF g_data_callback[k] = 0 THEN live \ {g_data_callback[k]} ELSE live

Register(t, k) ==
    /\ MayCall(t)
    /\ calls < MaxCalls
    /\ calls' = calls + 1
    /\ live' = Forget(k)
    /\ Enter(t, k, NoMessage)
    /\ UNCHANGED <<hiveVars, netVars, current_id, posted, send_pending_list,
                   overlapped, sent, g_data_callback, refs, attached, stage,
                   runner>>

\* NewGlobalRef makes a reference, or none: for a null callback, or when it
\* fails.
Registered(t, k) ==
    /\ call[t].op = k
    /\ \/ /\ refs' = refs + 1
          /\ live' = live \cup {refs + 1}
          /\ g_data_callback' = [g_data_callback EXCEPT ![k] = refs + 1]
       \/ /\ g_data_callback' = [g_data_callback EXCEPT ![k] = 0]
          /\ UNCHANGED <<refs, live>>
    /\ Leave(t)
    /\ UNCHANGED <<hiveVars, netVars, sendVars, attached, stage, runner>>

-----------------------------------------------------------------------------
(***************************************************************************)
(* Exit.  Only the first call gets past the compare-and-swap of Stop and   *)
(* runs the io_service; any other goes straight on to clear the vector.    *)
(***************************************************************************)
Exit(t) ==
    /\ MayCall(t)
    /\ m_shutdown' = TRUE
    /\ IF m_shutdown
       THEN Clear /\ UNCHANGED call
       ELSE Enter(t, "exit", NoMessage) /\ UNCHANGED vectorVars
    /\ UNCHANGED <<stopped, netVars, sendVars, javaVars>>

\* The work object is gone and the last operation over: the io_service stops.
RunOut ==
    /\ m_shutdown /\ ~stopped
    /\ posted = {} /\ timers = {}
    /\ \A c \in Connections : recv[c] = "none"
    /\ stopped' = TRUE
    /\ UNCHANGED <<m_shutdown, vectorVars, netVars, sendVars, javaVars, call>>

ExitReturns(t) ==
    /\ call[t].op = "exit"
    /\ stopped
    /\ Clear
    /\ Leave(t)
    /\ UNCHANGED <<m_shutdown, stopped, netVars, sendVars, javaVars>>

-----------------------------------------------------------------------------
(***************************************************************************)
(* Handlers.  Those of the hall wait for its strand, which HallDataCallback*)
(* keeps until it returns.                                                 *)
(***************************************************************************)
Handler(t, c) == Runs(t) /\ (c = "hall" => stage = "none")

HandleOpen(t, c) ==
    /\ Handler(t, c)
    /\ recv[c] = "opening"
    /\ recv' = [recv EXCEPT ![c] = "waiting"]
    /\ UNCHANGED <<hiveVars, timers, remote_ep, wrote, sendVars, javaVars, call>>

\* Mutated form of Send: a socket that was never opened sends as well.
SendUnopened(msgs) == sent' = {<<m.what, remote_ep>> : m \in msgs}

\* What is sent goes to whoever remote_ep names now.
Send(msgs) ==
    sent' = IF "hall" \in timers
            THEN {<<m.what, remote_ep>> : m \in msgs} ELSE sent

StartSend(t, m) ==
    /\ Handler(t, "hall")
    /\ m \in posted
    /\ posted' = posted \ {m}
    /\ send_pending_list' = send_pending_list \cup {m}
    /\ Send({m})
    /\ UNCHANGED <<hiveVars, netVars, current_id, calls, overlapped, javaVars, call>>

\* Any of the messages may have used up its resends, any of the others be due.
Resend(c) ==
    IF c = "hall"
    THEN \E kept \in SUBSET send_pending_list :
           \E due \in SUBSET kept : send_pending_list' = kept /\ Send(due)
    ELSE UNCHANGED <<send_pending_list, sent>>

\* Mutated form of HandleTimer: it looks at HasStopped as HandleRecv does.
HandleTimerUnlessStopped(t, c) ==
    /\ Handler(t, c)
    /\ c \in timers
    /\ timers' = IF m_shutdown THEN timers \ {c} ELSE timers
    /\ Resend(c)
    /\ UNCHANGED <<hiveVars, recv, remote_ep, wrote, current_id, posted, calls,
                   overlapped, javaVars, call>>

\* The timer is armed again whatever HasStopped says.
HandleTimer(t, c) ==
    /\ Handler(t, c)
    /\ c \in timers
    /\ Resend(c)
    /\ UNCHANGED <<hiveVars, netVars, current_id, posted, calls, overlapped,
                   javaVars, call>>

\* async_receive_from ends: it writes the sender into remote_ep before the
\* handler gets the strand.
Arrive(t, from) ==
    /\ Runs(t)
    /\ recv["hall"] = "waiting"
    /\ recv' = [recv EXCEPT !["hall"] = "arrived"]
    /\ remote_ep' = from
    /\ wrote' = wrote \cup {from}
    /\ UNCHANGED <<hiveVars, timers, sendVars, javaVars, call>>

\* A datagram for the handler.  Only the hall's remote_ep is used again.
Received(c) == recv[c] = IF c = "hall" THEN "arrived" ELSE "waiting"

\* Nothing is handed over: an ans pack, which takes every message with its id
\* out of the list, or any other datagram, data for a null callback included.
RecvQuiet(t, c) ==
    /\ recv' = [recv EXCEPT ![c] = "waiting"]
    /\ IF c = "hall"
       THEN \E id \in 0 .. current_id :
              send_pending_list' = {m \in send_pending_list : m.id # id}
       ELSE UNCHANGED send_pending_list
    /\ UNCHANGED javaVars

\* Data for the hall: OnDataCallback calls HallDataCallback, if there is one,
\* which attaches the thread it is on.
RecvHallData(t, c) ==
    /\ c = "hall"
    /\ g_data_callback["hall"] # 0
    /\ recv' = [recv EXCEPT ![c] = "handling"]
    /\ stage' = "class" /\ runner' = t
    /\ attached' = attached \cup {t}
    /\ UNCHANGED <<send_pending_list, g_data_callback, live, refs>>

\* Mutated form of HandleRecv: HasStopped is not asked.
HandleRecvAlways(t, c) ==
    /\ Handler(t, c)
    /\ Received(c)
    /\ RecvQuiet(t, c) \/ RecvHallData(t, c)
    /\ UNCHANGED <<hiveVars, timers, remote_ep, wrote, current_id, posted, calls,
                   overlapped, sent, call>>

\* After Stop a receive that ends is the last.
HandleRecv(t, c) ==
    /\ Handler(t, c)
    /\ Received(c)
    /\ IF m_shutdown
       THEN /\ recv' = [recv EXCEPT ![c] = "none"]
            /\ UNCHANGED <<send_pending_list, javaVars>>
       ELSE RecvQuiet(t, c) \/ RecvHallData(t, c)
    /\ UNCHANGED <<hiveVars, timers, remote_ep, wrote, current_id, posted, calls,
                   overlapped, sent, call>>

-----------------------------------------------------------------------------
(***************************************************************************)
(* HallDataCallback: GetObjectClass and CallVoidMethod each read the       *)
(* global variable anew.                                                   *)
(***************************************************************************)
\* The handler goes on to receive the next datagram.
Return ==
    /\ stage' = "none" /\ runner' = Nobody
    /\ recv' = [recv EXCEPT !["hall"] = "waiting"]
    /\ UNCHANGED <<hiveVars, timers, remote_ep, wrote, sendVars, g_data_callback,
                   live, refs, call>>

\* The class or the method is not found: the thread stays attached.
NotFound ==
    /\ stage = "class" /\ g_data_callback["hall"] # 0
    /\ Return
    /\ UNCHANGED attached

Advance(from, to) ==
    /\ stage = from
    /\ stage' = to
    /\ UNCHANGED <<hiveVars, netVars, sendVars, g_data_callback, live, refs,
                   attached, runner, call>>

GetObjectClass == g_data_callback["hall"] # 0 /\ Advance("class", "call")

CallVoidMethod == g_data_callback["hall"] # 0 /\ Advance("call", "java")

\* The null reference that was registered since line 19 is used: the VM aborts
\* the process.
UseNull ==
    /\ g_data_callback["hall"] = 0
    /\ Advance("class", "dead") \/ Advance("call", "dead")

\* A call that the Java code made on a worker has to return first; the Exit of
\* a Java thread would be below HallDataCallback, not above it.
Detach ==
    /\ stage = "java"
    /\ runner \in App \/ call[runner].op = "none"
    /\ Return
    /\ attached' = attached \ {runner}

HallDataCallback ==
    NotFound \/ GetObjectClass \/ CallVoidMethod \/ UseNull \/ Detach

-----------------------------------------------------------------------------
Next ==
    /\ stage # "dead"
    /\ \/ \E t \in Thread :
            \/ StartHall(t) \/ StartRoom(t)
            \/ \E m \in Media : AddMedia(t, m) \/ PushBack(t, m) \/ OpenMedia(t, m)
            \/ SendHallData(t) \/ SendRoomData(t) \/ PostSend(t)
            \/ \E k \in Kinds : Register(t, k) \/ Registered(t, k)
            \/ Exit(t) \/ ExitReturns(t)
            \/ \E m \in posted : StartSend(t, m)
            \/ \E c \in Connections :
                 HandleOpen(t, c) \/ HandleTimer(t, c) \/ HandleRecv(t, c)
            \/ \E from \in Endpoint : Arrive(t, from)
       \/ RunOut
       \/ HallDataCallback

Spec == Init /\ [][Next]_vars

-----------------------------------------------------------------------------
(***************************************************************************)
(* Properties.                                                             *)
(***************************************************************************)
\* HallDataCallback never uses a deleted reference: between its reads of
\* g_hall_data_callback another thread can be anywhere in
\* registerOnHallDataCallback.  It is the wrong test of line 117, which never
\* deletes anything, that makes it so.  A null reference it does use, when one
\* is registered after the test of line 19.
UsesNoDeletedReference ==
    stage \in {"class", "call"} => g_data_callback["hall"] \in live \cup {0}

\* The DetachCurrentThread of HallDataCallback never detaches a thread of the
\* application, though Exit makes such a thread run the handlers.
AppStaysAttached == App \subseteq attached

\* A connection is never destroyed under its worker, which polls through a
\* plain reference to it, as long as no two threads have been in the vector at
\* once: when Exit clears the vector, a handler to come holds every connection
\* that was opened, and AddMedia every one that is not.
OutlivesWorker == [][\A m \in Media : Held(m) => Held(m)' \/ raced']_vars

\* Hall and room messages go to the hall server or to someone who has sent to
\* the hall socket, as async_receive_from sets remote_ep: never unasked to the
\* server that StartRoom was given.
DataFollowsHallSocket ==
    \A data \in sent : data[2] \in {Server["hall"]} \cup wrote

\* Two messages that wait for their answers have the same id, so that one
\* answer takes both out of the list, only after two calls of EncodeData have
\* been in current_id++ at the same time.
IdsRepeatOnlyOnRace ==
    \A m1, m2 \in posted \cup send_pending_list :
        m1.id = m2.id => m1 = m2 \/ overlapped
=============================================================================
