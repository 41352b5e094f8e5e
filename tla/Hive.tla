-------------------------------- MODULE Hive --------------------------------
(***************************************************************************)
(* Hive (io/hive.cc): the io_service that all connections of a UX share,   *)
(* its Stop and its Reset, and the worker threads of the connections, each *)
(* of which polls it.  Of a connection the module keeps the operations     *)
(* that are outstanding on the io_service, as they are what keeps it       *)
(* running; ConnectionUDP has what they do.                                *)
(*                                                                         *)
(* boost::asio is external: an io_service counts the work objects and the  *)
(* outstanding operations, and whoever brings the count to zero, or polls  *)
(* or runs it when it is zero, stops it.  A stopped one runs no handler.   *)
(***************************************************************************)
EXTENDS Naturals

CONSTANTS Conn,       \* the connections of the hive
          Caller,     \* the threads that call Stop and Reset
          MaxPosts,   \* bound: calls of PostSend and Close in a behaviour
          MaxSends,   \* bound: sends of a connection that are outstanding
          MaxResets   \* bound: calls of Reset in a behaviour

ASSUME HiveAssumption ==
    MaxPosts \in Nat /\ MaxSends \in Nat /\ MaxResets \in Nat

\* Operations of a connection: handlers posted to the strand, and what the
\* socket and the timer have been asked for.
Op == {"open", "post", "close", "send", "recv", "timer"}

VARIABLES
    m_shutdown,
    m_work_ptr,   \* it points to a work object
    works,        \* how many work objects are alive
    stopped,      \* of the io_service: nothing runs until it is reset
    ops,          \* ops[c][op]: how many operations are outstanding
    opened,       \* the connections whose Open has been called
    exited,       \* of each connection; never assigned, so either value
    pc,           \* of each thread that calls Stop and Reset
    posts,        \* counts against MaxPosts
    resets,       \* counts against MaxResets
    returned,     \* history: a Stop has returned and no Reset begun since
    overlapped    \* history: two calls were past their compare-and-swap

hive == <<m_shutdown, m_work_ptr, works, pc, resets, returned, overlapped>>

vars == <<hive, stopped, ops, opened, exited, posts>>

InStop == {"swapped", "run", "ran"}
InReset == {"cleared", "reset"}

TypeOK ==
    /\ m_shutdown \in BOOLEAN
    /\ m_work_ptr \in BOOLEAN
    /\ works \in Nat
    /\ stopped \in BOOLEAN
    /\ ops \in [Conn -> [Op -> Nat]]
    /\ opened \subseteq Conn
    /\ exited \in [Conn -> BOOLEAN]
    /\ pc \in [Caller -> {"idle"} \cup InStop \cup InReset]
    /\ posts \in 0 .. MaxPosts
    /\ resets \in 0 .. MaxResets
    /\ returned \in BOOLEAN
    /\ overlapped \in BOOLEAN

Init ==
    /\ m_shutdown = FALSE
    /\ m_work_ptr = TRUE
    /\ works = 1
    /\ stopped = FALSE
    /\ ops = [c \in Conn |-> [op \in Op |-> 0]]
    /\ opened = {}
    /\ exited \in [Conn -> BOOLEAN]
    /\ pc = [t \in Caller |-> "idle"]
    /\ posts = 0
    /\ resets = 0
    /\ returned = FALSE
    /\ overlapped = FALSE

Idle(pending) == \A c \in Conn : \A op \in Op : pending[c][op] = 0

NoWork(count, pending) == count = 0 /\ Idle(pending)

\* One operation of the kind less, and one more of each of the kinds.
Taken(counts, op) == [counts EXCEPT ![op] = @ - 1]

Started(counts, kinds) ==
    [op \in Op |-> IF op \in kinds THEN counts[op] + 1 ELSE counts[op]]

\* The threads that may run a handler: the worker of a connection, in Poll,
\* and a thread that is in Stop, in run().
WorkerRuns == ~stopped /\ \E c \in Conn : ~exited[c]
StopRuns == ~stopped /\ \E t \in Caller : pc[t] = "run"

-----------------------------------------------------------------------------
(***************************************************************************)
(* Stop and Reset, statement by statement: the worker threads and other    *)
(* calls of Stop and Reset get in between.  Only a caller whose            *)
(* compare-and-swap succeeds goes on.  The flag is all that keeps calls    *)
(* apart, and each of them changes it first of all.                        *)
(***************************************************************************)
At(t, from, to) == pc[t] = from /\ pc' = [pc EXCEPT ![t] = to]

Others == <<ops, opened, exited, posts>>

\* What m_work_ptr holds on to: one work object or none.
Held(pointer) == IF pointer THEN 1 ELSE 0

\* The compare-and-swap succeeds while another call may still be under way.
Swap(t, shutdown, to) ==
    /\ At(t, "idle", to)
    /\ m_shutdown = ~shutdown
    /\ m_shutdown' = shutdown
    /\ overlapped' = (overlapped \/ \E u \in Caller : pc[u] # "idle")
    /\ UNCHANGED <<m_work_ptr, works, stopped, Others>>

StopSwap(t) == Swap(t, TRUE, "swapped") /\ UNCHANGED <<resets, returned>>

\* Stop when the flag is set already: it returns at once, whatever the Stop
\* that set it is doing.
StopLoses(t) ==
    /\ pc[t] = "idle"
    /\ m_shutdown
    /\ returned' = TRUE
    /\ UNCHANGED <<m_shutdown, m_work_ptr, works, pc, resets, overlapped,
                   stopped, Others>>

\* Mutated form of StopWork: the work object is kept.
WorkKept(t) ==
    /\ At(t, "swapped", "run")
    /\ UNCHANGED <<m_shutdown, m_work_ptr, works, resets, returned, overlapped,
                   stopped, Others>>

\* Mutated form of StopWork: a work object is released whether there is one or
\* not.
WorkReleasedAnyway(t) ==
    /\ At(t, "swapped", "run")
    /\ m_work_ptr' = FALSE
    /\ works' = works - 1
    /\ stopped' = (stopped \/ NoWork(works', ops))
    /\ UNCHANGED <<m_shutdown, resets, returned, overlapped, Others>>

\* The work object goes, if there is one; run() looks at what is left.
StopWork(t) ==
    /\ At(t, "swapped", "run")
    /\ m_work_ptr' = FALSE
    /\ works' = works - Held(m_work_ptr)
    /\ stopped' = (stopped \/ NoWork(works', ops))
    /\ UNCHANGED <<m_shutdown, resets, returned, overlapped, Others>>

\* Mutated form of StopRun: run() is not called.
StopAtOnce(t) ==
    /\ At(t, "run", "ran")
    /\ UNCHANGED <<m_shutdown, m_work_ptr, works, resets, returned, overlapped,
                   stopped, Others>>

\* Mutated form of StopRun: neither run() nor stop() is called.
StopSkipped(t) ==
    /\ At(t, "run", "idle")
    /\ returned' = TRUE
    /\ UNCHANGED <<m_shutdown, m_work_ptr, works, resets, overlapped, stopped,
                   Others>>

\* run() returns when the thread finds the io_service stopped.
StopRun(t) ==
    /\ At(t, "run", "ran")
    /\ stopped
    /\ UNCHANGED <<m_shutdown, m_work_ptr, works, resets, returned, overlapped,
                   stopped, Others>>

\* stop(), whatever has become of the io_service since, and the return.
StopEnd(t) ==
    /\ At(t, "ran", "idle")
    /\ stopped' = TRUE
    /\ returned' = TRUE
    /\ UNCHANGED <<m_shutdown, m_work_ptr, works, resets, overlapped, Others>>

ResetSwap(t) ==
    /\ resets < MaxResets
    /\ resets' = resets + 1
    /\ returned' = FALSE
    /\ Swap(t, FALSE, "cleared")

ResetService(t) ==
    /\ At(t, "cleared", "reset")
    /\ stopped' = FALSE
    /\ UNCHANGED <<m_shutdown, m_work_ptr, works, resets, returned, overlapped,
                   Others>>

\* The new work object is made before the pointer lets go of the old one.
ResetWork(t) ==
    /\ At(t, "reset", "idle")
    /\ m_work_ptr' = TRUE
    /\ works' = works + 1 - Held(m_work_ptr)
    /\ UNCHANGED <<m_shutdown, stopped, resets, returned, overlapped, Others>>

\* A data race: two threads are in m_work_ptr.reset at once, have both read
\* the same old pointer, and t writes last.  The object that u has made is
\* lost and stays alive; the old one is released twice, and the second
\* release is taken to find a count of zero.
WorkRace(t, u) ==
    LET AtPointer == {"swapped", "reset"}
        made == Held(pc[t] = "reset") + Held(pc[u] = "reset")
        After(v) == IF pc[v] = "reset" THEN "idle" ELSE "run"
    IN
    /\ t # u
    /\ pc[t] \in AtPointer /\ pc[u] \in AtPointer
    /\ m_work_ptr' = (pc[t] = "reset")
    /\ works' = works + made - Held(m_work_ptr)
    /\ stopped' = (stopped \/ NoWork(works', ops))
    /\ pc' = [pc EXCEPT ![t] = After(t), ![u] = After(u)]
    /\ UNCHANGED <<m_shutdown, resets, returned, overlapped, Others>>

-----------------------------------------------------------------------------
(***************************************************************************)
(* Calls of the application on a connection.                               *)
(***************************************************************************)
\* Posts HandleOpen and arms the timer.
Open(c) ==
    /\ c \notin opened
    /\ opened' = opened \cup {c}
    /\ ops' = [ops EXCEPT ![c] = Started(@, {"open", "timer"})]
    /\ UNCHANGED <<hive, stopped, exited, posts>>

Post(c, op) ==
    /\ posts < MaxPosts
    /\ posts' = posts + 1
    /\ ops' = [ops EXCEPT ![c] = Started(@, {op})]
    /\ UNCHANGED <<hive, stopped, opened, exited>>

PostSend(c) == Post(c, "post")

\* Posts HandleClose.  The caller then joins the worker of the connection,
\* which ends only if exited was set from the beginning.
Close(c) == c \in opened /\ Post(c, "close")

-----------------------------------------------------------------------------
(***************************************************************************)
(* Handlers.  Each runs to its end before another of its connection does.  *)
(***************************************************************************)
\* The operation is over and the others it started, if any, are outstanding.
Run(c, op, started) ==
    LET pending == [ops EXCEPT ![c] = Started(Taken(@, op), started)] IN
    /\ WorkerRuns \/ StopRuns
    /\ ops[c][op] > 0
    /\ pending[c]["send"] <= MaxSends
    /\ ops' = pending
    /\ stopped' = NoWork(works, pending)
    /\ UNCHANGED <<hive, opened, exited, posts>>

\* The handlers may also send, each as the state of its connection demands.
MaySend == {{}, {"send"}}

HandleOpen(c) ==
    \E sends \in MaySend : Run(c, "open", {"recv"} \cup sends)

StartSend(c) == Run(c, "post", {"send"})

HandleSend(c) == Run(c, "send", {})

\* StartRecv is called again unless the hive HasStopped.
HandleRecv(c) ==
    IF m_shutdown
    THEN Run(c, "recv", {})
    ELSE \E sends \in MaySend : Run(c, "recv", {"recv"} \cup sends)

\* Mutated form of HandleTimer: it looks at HasStopped as HandleRecv does.
HandleTimerUnlessStopped(c) ==
    IF m_shutdown
    THEN Run(c, "timer", {})
    ELSE \E sends \in MaySend : Run(c, "timer", {"timer"} \cup sends)

\* The timer is armed again whatever the error code and the shutdown flag.
HandleTimer(c) ==
    \E sends \in MaySend : Run(c, "timer", {"timer"} \cup sends)

\* A closed socket ends the receive and the cancelled timer its wait: both
\* handlers run and start them again.
HandleClose(c) == Run(c, "close", {})

Handler(c) ==
    \/ HandleOpen(c) \/ StartSend(c) \/ HandleSend(c)
    \/ HandleRecv(c) \/ HandleTimer(c) \/ HandleClose(c)

\* A poll, or a run that begins, finds nothing to wait for: it stops the
\* io_service.
PollIdle ==
    /\ WorkerRuns \/ StopRuns
    /\ NoWork(works, ops)
    /\ stopped' = TRUE
    /\ UNCHANGED <<hive, ops, opened, exited, posts>>

-----------------------------------------------------------------------------
\* The steps of a call that is past its compare-and-swap.
GoesOn(t) ==
    StopWork(t) \/ StopRun(t) \/ StopEnd(t) \/ ResetService(t) \/ ResetWork(t)

HiveStep(t) == StopSwap(t) \/ StopLoses(t) \/ ResetSwap(t) \/ GoesOn(t)

Next ==
    \/ \E t \in Caller : HiveStep(t)
    \/ \E t, u \in Caller : WorkRace(t, u)
    \/ PollIdle
    \/ \E c \in Conn : Open(c) \/ PostSend(c) \/ Close(c) \/ Handler(c)

Spec == Init /\ [][Next]_vars

(***************************************************************************)
(* Fairness: a thread that is in Stop or Reset goes on, the workers poll   *)
(* every millisecond, and sends and posted handlers complete.  A receive   *)
(* need not: no datagram may ever come.                                    *)
(***************************************************************************)
Fairness ==
    /\ \A t \in Caller : WF_vars(GoesOn(t))
    /\ \A c \in Conn :
         /\ WF_vars(HandleOpen(c)) /\ WF_vars(StartSend(c))
         /\ WF_vars(HandleSend(c)) /\ WF_vars(HandleTimer(c))
         /\ WF_vars(HandleClose(c))

FairSpec == Spec /\ Fairness

-----------------------------------------------------------------------------
(***************************************************************************)
(* Properties.  A Reset is meant for a hive whose Stop is over, and none   *)
(* of them is promised once two calls that passed their compare-and-swap   *)
(* have overlapped.  Calls of Stop on a hive that is being stopped are     *)
(* not such a case: all but one of them lose.                              *)
(***************************************************************************)
\* "No more IOing interactions will be possible afterwards until Reset is
\* called": when a Stop has returned no thread can run a handler - unless it
\* returned because another Stop was first, which is still under way.
StopLeavesStopped ==
    returned /\ ~overlapped => stopped \/ \E t \in Caller : pc[t] \in InStop

\* "All work is finished": the io_service stops only when no operation of any
\* connection is outstanding, whichever thread brings it to its end, and only
\* inside a Stop or in the gap of a Reset that has not made its work object.
StopsOnlyWhenIdle ==
    [][~overlapped' /\ ~stopped /\ stopped'
          => Idle(ops') /\ \E t \in Caller : pc'[t] \in {"run", "reset"}]_vars

\* The other side of it: a running hive with one armed timer never stops, as
\* HandleTimer arms the timer again for ever, after Stop and after Close too.
\* A Stop that returns then is one that lost, and handlers go on running.
TimerKeepsHive ==
    [][~overlapped' => \A c \in Conn :
          ~stopped /\ ops[c]["timer"] > 0
              => ~stopped' /\ ops'[c]["timer"] > 0]_vars

\* A Stop that is under way comes to its end as long as no connection has been
\* opened, whatever the workers and the other callers do.
StopReturnsUnopened ==
    \A t \in Caller :
        pc[t] \in InStop ~> pc[t] = "idle" \/ opened # {} \/ overlapped
=============================================================================
