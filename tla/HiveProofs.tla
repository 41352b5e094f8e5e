----------------------------- MODULE HiveProofs -----------------------------
(***************************************************************************)
(* Hive for any number of connections and of threads that call Stop and    *)
(* Reset: the type invariant, what a Stop that has returned leaves, when   *)
(* the io_service stops, and why an armed timer keeps it running.          *)
(***************************************************************************)
EXTENDS Hive, TLAPS

\* The work object that m_work_ptr points to is alive.
PointerAlive == m_work_ptr => works > 0

\* One call at most is past its compare-and-swap, and the flag tells which.
OneCall ==
    /\ \A t, u \in Caller : pc[t] # "idle" /\ pc[u] # "idle" => t = u
    /\ \A t \in Caller : pc[t] \in InStop => m_shutdown
    /\ \A t \in Caller : pc[t] \in InReset => ~m_shutdown
    /\ returned => m_shutdown

\* What the calls have made of the io_service so far.  A running one without
\* a work object is in a run() of Stop or in the gap of Reset.
ServiceKept ==
    /\ works = Held(m_work_ptr)
    /\ \A t \in Caller : pc[t] = "ran" => stopped
    /\ m_work_ptr \/ stopped \/ \E t \in Caller : pc[t] \in {"run", "reset"}
    /\ m_shutdown => stopped \/ \E t \in Caller : pc[t] \in InStop

Separate == ~overlapped => OneCall /\ ServiceKept

HiveInv == TypeOK /\ PointerAlive /\ Separate

-----------------------------------------------------------------------------
\* A handler takes one operation away and adds some, so the counts stay
\* natural numbers and no other kind becomes fewer.
LEMMA StartedTyped ==
    ASSUME NEW counts \in [Op -> Nat], NEW kinds \in SUBSET Op
    PROVE  /\ Started(counts, kinds) \in [Op -> Nat]
           /\ \A op \in Op : Started(counts, kinds)[op] >= counts[op]
           /\ \A op \in kinds : Started(counts, kinds)[op] > 0
  BY DEF Started

LEMMA RunCounts ==
    ASSUME TypeOK, NEW c \in Conn, NEW op \in Op, NEW started \in SUBSET Op,
           Run(c, op, started)
    PROVE  /\ ops' \in [Conn -> [Op -> Nat]]
           /\ \A d \in Conn : \A k \in Op :
                ops[d][k] > 0 /\ k # op => ops'[d][k] > 0
           /\ \A d \in Conn : d # c => ops'[d] = ops[d]
           /\ \A k \in started : ops'[c][k] > 0
  <1> DEFINE taken == Taken(ops[c], op)
  <1>1. ops[c] \in [Op -> Nat] /\ ops[c][op] > 0
    BY DEF TypeOK, Run
  <1>2. taken \in [Op -> Nat] /\ \A k \in Op : k # op => taken[k] = ops[c][k]
    BY <1>1 DEF Taken
  <1>3. ops' = [ops EXCEPT ![c] = Started(taken, started)]
    BY DEF Run
  <1> HIDE DEF taken
  <1>4. /\ Started(taken, started) \in [Op -> Nat]
        /\ \A k \in Op : Started(taken, started)[k] >= taken[k]
        /\ \A k \in started : Started(taken, started)[k] > 0
    BY <1>2, StartedTyped
  <1>5. ops'[c] = Started(taken, started) /\ \A d \in Conn : d # c => ops'[d] = ops[d]
    BY <1>3 DEF TypeOK
  <1>6. ASSUME NEW d \in Conn, NEW k \in Op, ops[d][k] > 0, k # op
        PROVE  ops'[d][k] > 0
    <2>1. CASE d = c
      BY <1>1, <1>2, <1>4, <1>5, <1>6, <2>1
    <2>2. CASE d # c
      BY <1>5, <1>6, <2>2
    <2> QED BY <2>1, <2>2
  <1>7. ops' \in [Conn -> [Op -> Nat]]
    BY <1>3, <1>4 DEF TypeOK
  <1> QED BY <1>4, <1>5, <1>6, <1>7

\* Every handler is a Run of some operation, and HandleTimer, the only one
\* of the timer, arms it again.
LEMMA HandlerRuns ==
    ASSUME NEW c \in Conn, Handler(c)
    PROVE  \E op \in Op, started \in SUBSET Op :
              Run(c, op, started) /\ (op = "timer" => "timer" \in started)
  <1>1. CASE HandleOpen(c)
    BY <1>1 DEF HandleOpen, MaySend, Op
  <1>2. CASE StartSend(c)
    BY <1>2 DEF StartSend, Op
  <1>3. CASE HandleSend(c)
    BY <1>3 DEF HandleSend, Op
  <1>4. CASE HandleRecv(c)
    <2>1. CASE m_shutdown
      BY <1>4, <2>1 DEF HandleRecv, Op
    <2>2. CASE ~m_shutdown
      BY <1>4, <2>2 DEF HandleRecv, MaySend, Op
    <2> QED BY <2>1, <2>2
  <1>5. CASE HandleTimer(c)
    BY <1>5 DEF HandleTimer, MaySend, Op
  <1>6. CASE HandleClose(c)
    BY <1>6 DEF HandleClose, Op
  <1> QED BY <1>1, <1>2, <1>3, <1>4, <1>5, <1>6 DEF Handler

-----------------------------------------------------------------------------
LEMMA HiveInitInv == Init => HiveInv
  <1> SUFFICES ASSUME Init PROVE HiveInv
    OBVIOUS
  <1>1. /\ ops \in [Conn -> [Op -> Nat]] /\ posts \in 0 .. MaxPosts
        /\ resets \in 0 .. MaxResets /\ works \in Nat
    BY HiveAssumption DEF Init
  <1>2. TypeOK
    BY <1>1 DEF Init, TypeOK
  <1>3. PointerAlive
    BY DEF Init, PointerAlive
  <1>4. OneCall
    BY DEF Init, OneCall, InStop, InReset
  <1>5. ServiceKept
    <2>1. works = Held(m_work_ptr)
      BY DEF Init, Held
    <2> QED BY <2>1 DEF Init, ServiceKept
  <1> QED BY <1>2, <1>3, <1>4, <1>5 DEF HiveInv, Separate

LEMMA CallsTyped ==
    ASSUME TypeOK, NEW c \in Conn, Open(c) \/ PostSend(c) \/ Close(c)
    PROVE  /\ TypeOK'
           /\ \A d \in Conn : \A k \in Op : ops[d][k] > 0 => ops'[d][k] > 0
           /\ UNCHANGED <<hive, stopped, exited>>
  <1>1. ASSUME NEW kinds \in SUBSET Op,
               ops' = [ops EXCEPT ![c] = Started(@, kinds)]
        PROVE  /\ ops' \in [Conn -> [Op -> Nat]]
               /\ \A d \in Conn : \A k \in Op : ops[d][k] > 0 => ops'[d][k] > 0
    <2>1. ops[c] \in [Op -> Nat]
      BY DEF TypeOK
    <2>2. /\ Started(ops[c], kinds) \in [Op -> Nat]
          /\ \A k \in Op : Started(ops[c], kinds)[k] >= ops[c][k]
      BY <2>1, StartedTyped
    <2> QED BY <1>1, <2>1, <2>2 DEF TypeOK
  <1>2. CASE Open(c)
    <2>1. {"open", "timer"} \in SUBSET Op
      BY DEF Op
    <2> QED BY <1>1, <1>2, <2>1 DEF Open, TypeOK, hive
  <1>3. ASSUME NEW op \in Op, Post(c, op)
        PROVE  /\ TypeOK'
               /\ \A d \in Conn : \A k \in Op : ops[d][k] > 0 => ops'[d][k] > 0
               /\ UNCHANGED <<hive, stopped, exited>>
    <2>1. /\ ops' \in [Conn -> [Op -> Nat]]
          /\ \A d \in Conn : \A k \in Op : ops[d][k] > 0 => ops'[d][k] > 0
      BY <1>1, <1>3 DEF Post
    <2>2. posts' \in 0 .. MaxPosts
      BY <1>3, HiveAssumption DEF Post, TypeOK
    <2>3. UNCHANGED <<hive, stopped, opened, exited>>
      BY <1>3 DEF Post
    <2> QED BY <2>1, <2>2, <2>3 DEF TypeOK, hive
  <1>4. CASE PostSend(c)
    BY <1>3, <1>4 DEF PostSend, Op
  <1>5. CASE Close(c)
    BY <1>3, <1>5 DEF Close, Op
  <1> QED BY <1>2, <1>4, <1>5

\* Every step of a call leaves the connections alone and the types right.
LEMMA StepTyped ==
    ASSUME TypeOK, PointerAlive, NEW t \in Caller, HiveStep(t)
    PROVE  TypeOK' /\ PointerAlive' /\ UNCHANGED Others
  <1> USE DEF At, Others, TypeOK, PointerAlive, InStop, InReset
  <1>1. CASE StopSwap(t)
    BY <1>1 DEF StopSwap, Swap
  <1>2. CASE StopLoses(t)
    BY <1>2 DEF StopLoses
  <1>3. CASE StopWork(t)
    <2>1. works' \in Nat
      BY <1>3 DEF StopWork, Held
    <2>2. stopped' \in BOOLEAN
      BY <1>3 DEF StopWork, NoWork, Idle
    <2> QED BY <1>3, <2>1, <2>2 DEF StopWork
  <1>4. CASE StopRun(t)
    BY <1>4 DEF StopRun
  <1>5. CASE StopEnd(t)
    BY <1>5 DEF StopEnd
  <1>6. CASE ResetSwap(t)
    <2>1. resets' \in 0 .. MaxResets
      BY <1>6, HiveAssumption DEF ResetSwap
    <2> QED BY <1>6, <2>1 DEF ResetSwap, Swap
  <1>7. CASE ResetService(t)
    BY <1>7 DEF ResetService
  <1>8. CASE ResetWork(t)
    <2>1. works' \in Nat /\ works' > 0
      BY <1>8 DEF ResetWork, Held
    <2> QED BY <1>8, <2>1 DEF ResetWork
  <1> QED BY <1>1, <1>2, <1>3, <1>4, <1>5, <1>6, <1>7, <1>8 DEF HiveStep, GoesOn

LEMMA RaceTyped ==
    ASSUME TypeOK, PointerAlive, NEW t \in Caller, NEW u \in Caller,
           WorkRace(t, u)
    PROVE  TypeOK' /\ PointerAlive' /\ UNCHANGED Others
  <1> DEFINE made == Held(pc[t] = "reset") + Held(pc[u] = "reset")
  <1>1. made \in Nat /\ (pc[t] = "reset" => made > 0)
    BY DEF Held
  <1>2. works' = works + made - Held(m_work_ptr) /\ m_work_ptr' = (pc[t] = "reset")
    BY DEF WorkRace
  <1>3. works \in Nat /\ Held(m_work_ptr) \in 0 .. 1 /\ (Held(m_work_ptr) = 1 => works > 0)
    BY DEF TypeOK, PointerAlive, Held
  <1> HIDE DEF made
  <1>4. works' \in Nat /\ (pc[t] = "reset" => works' > 0)
    BY <1>1, <1>2, <1>3
  <1>5. stopped' \in BOOLEAN
    BY DEF WorkRace, NoWork, Idle, TypeOK
  <1>6. pc' \in [Caller -> {"idle"} \cup InStop \cup InReset]
    BY DEF WorkRace, TypeOK, InStop, InReset
  <1>7. UNCHANGED <<m_shutdown, resets, returned, overlapped, Others>>
    BY DEF WorkRace
  <1>8. m_work_ptr' \in BOOLEAN
    BY <1>2
  <1> QED BY <1>2, <1>4, <1>5, <1>6, <1>7, <1>8 DEF TypeOK, PointerAlive, Others

\* As long as two calls never overlap, each step of a call finds all others
\* idle.
LEMMA StepSeparate ==
    ASSUME HiveInv, NEW t \in Caller, HiveStep(t), ~overlapped'
    PROVE  (OneCall /\ ServiceKept)'
  <1>1. ~overlapped
    BY DEF HiveStep, GoesOn, StopSwap, StopLoses, StopWork, StopRun, StopEnd,
           ResetSwap, ResetService, ResetWork, Swap
  <1>2. OneCall /\ ServiceKept
    BY <1>1 DEF HiveInv, Separate
  <1>3. pc \in [Caller -> {"idle"} \cup InStop \cup InReset]
    BY DEF HiveInv, TypeOK
  <1> USE <1>2, <1>3 DEF OneCall, At, InStop, InReset
  <1>4. CASE StopSwap(t)
    <2>1. \A u \in Caller : pc[u] = "idle"
      BY <1>4 DEF StopSwap, Swap
    <2>2. pc' = [pc EXCEPT ![t] = "swapped"] /\ m_shutdown' /\ ~m_shutdown
      BY <1>4, Zenon DEF StopSwap, Swap
    <2>3. UNCHANGED <<works, m_work_ptr, stopped, returned>>
      BY <1>4 DEF StopSwap, Swap
    <2> QED BY <2>1, <2>2, <2>3 DEF ServiceKept
  <1>5. CASE StopLoses(t)
    <2>1. UNCHANGED <<works, m_work_ptr, stopped, pc, m_shutdown>> /\ m_shutdown
      BY <1>5 DEF StopLoses
    <2> QED BY <2>1 DEF ServiceKept
  <1>6. CASE StopWork(t)
    <2>1. /\ UNCHANGED <<m_shutdown, returned>> /\ pc[t] = "swapped"
          /\ pc' = [pc EXCEPT ![t] = "run"]
      BY <1>6 DEF StopWork
    <2>2. works' = Held(m_work_ptr')
      BY <1>6 DEF StopWork, ServiceKept, Held
    <2> QED BY <2>1, <2>2 DEF ServiceKept
  <1>7. CASE StopRun(t)
    <2>1. /\ UNCHANGED <<m_shutdown, m_work_ptr, works, returned, stopped>>
          /\ stopped /\ pc[t] = "run" /\ pc' = [pc EXCEPT ![t] = "ran"]
      BY <1>7 DEF StopRun
    <2> QED BY <2>1 DEF ServiceKept
  <1>8. CASE StopEnd(t)
    <2>1. UNCHANGED <<m_shutdown, m_work_ptr, works>> /\ pc[t] = "ran"
      BY <1>8 DEF StopEnd
    <2>2. stopped' /\ pc' = [pc EXCEPT ![t] = "idle"]
      BY <1>8, Zenon DEF StopEnd
    <2> QED BY <2>1, <2>2 DEF ServiceKept
  <1>9. CASE ResetSwap(t)
    <2>1. \A u \in Caller : pc[u] = "idle"
      BY <1>9 DEF ResetSwap, Swap
    <2>2. pc' = [pc EXCEPT ![t] = "cleared"] /\ ~m_shutdown' /\ ~returned'
      BY <1>9, Zenon DEF ResetSwap, Swap
    <2>3. UNCHANGED <<works, m_work_ptr, stopped>>
      BY <1>9 DEF ResetSwap, Swap
    <2> QED BY <2>1, <2>2, <2>3 DEF ServiceKept
  <1>10. CASE ResetService(t)
    <2>1. /\ UNCHANGED <<m_shutdown, m_work_ptr, works, returned>>
          /\ pc[t] = "cleared" /\ pc' = [pc EXCEPT ![t] = "reset"]
      BY <1>10 DEF ResetService
    <2> QED BY <2>1 DEF ServiceKept
  <1>11. CASE ResetWork(t)
    <2>1. /\ UNCHANGED <<m_shutdown, stopped, returned>>
          /\ pc[t] = "reset" /\ pc' = [pc EXCEPT ![t] = "idle"]
      BY <1>11 DEF ResetWork
    <2>2. works' = Held(m_work_ptr') /\ m_work_ptr'
      BY <1>11 DEF ResetWork, ServiceKept, Held
    <2> QED BY <2>1, <2>2 DEF ServiceKept
  <1> QED BY <1>4, <1>5, <1>6, <1>7, <1>8, <1>9, <1>10, <1>11 DEF HiveStep, GoesOn

LEMMA HiveNextInv == HiveInv /\ [Next]_vars => HiveInv'
  <1> SUFFICES ASSUME HiveInv, [Next]_vars PROVE HiveInv'
    OBVIOUS
  <1>0. TypeOK /\ PointerAlive /\ Separate
    BY DEF HiveInv
  <1>1. ASSUME NEW t \in Caller, HiveStep(t) PROVE HiveInv'
    BY <1>0, <1>1, StepTyped, StepSeparate DEF HiveInv, Separate
  <1>2. ASSUME NEW t \in Caller, NEW u \in Caller, WorkRace(t, u)
        PROVE  HiveInv'
    <2>1. TypeOK' /\ PointerAlive'
      BY <1>0, <1>2, RaceTyped
    <2>2. overlapped
      <3>1. t # u /\ pc[t] # "idle" /\ pc[u] # "idle"
        BY <1>2 DEF WorkRace
      <3> QED BY <1>0, <3>1 DEF Separate, OneCall
    <2>3. overlapped'
      BY <1>2, <2>2, Zenon DEF WorkRace
    <2> QED BY <2>1, <2>3 DEF HiveInv, Separate
  <1>3. CASE PollIdle
    <2>1. UNCHANGED <<hive, ops, opened, exited, posts>> /\ stopped'
      BY <1>3, Zenon DEF PollIdle
    <2>2. UNCHANGED <<m_shutdown, m_work_ptr, works, pc, resets, returned, overlapped>>
      BY <2>1 DEF hive
    <2>3. (OneCall /\ ServiceKept)' \/ overlapped'
      BY <1>0, <2>1, <2>2 DEF Separate, OneCall, ServiceKept
    <2> QED BY <1>0, <2>1, <2>2, <2>3 DEF TypeOK, PointerAlive, HiveInv, Separate
  <1>4. ASSUME NEW c \in Conn, Open(c) \/ PostSend(c) \/ Close(c)
        PROVE  HiveInv'
    <2>1. TypeOK' /\ UNCHANGED <<hive, stopped>>
      BY <1>0, <1>4, CallsTyped
    <2> QED BY <1>0, <2>1 DEF HiveInv, Separate, PointerAlive, OneCall,
                              ServiceKept, hive
  <1>5. ASSUME NEW c \in Conn, Handler(c) PROVE HiveInv'
    <2>1. PICK op \in Op, started \in SUBSET Op : Run(c, op, started)
      BY <1>5, HandlerRuns
    <2>2. ops' \in [Conn -> [Op -> Nat]]
      BY <1>0, <2>1, RunCounts
    <2>3. stopped' \in BOOLEAN
      BY <2>1 DEF Run, NoWork, Idle
    <2>4. UNCHANGED <<hive, opened, exited, posts>>
      BY <2>1 DEF Run
    <2>5. TypeOK' /\ PointerAlive'
      BY <1>0, <2>2, <2>3, <2>4 DEF TypeOK, PointerAlive, hive
    <2>6. ~stopped
      BY <2>1 DEF Run, WorkerRuns, StopRuns
    <2>7. (OneCall /\ ServiceKept)' \/ overlapped'
      BY <1>0, <2>4, <2>6 DEF Separate, OneCall, ServiceKept, hive
    <2> QED BY <2>5, <2>7 DEF HiveInv, Separate
  <1>6. CASE UNCHANGED vars
    BY <1>0, <1>6 DEF vars, hive, TypeOK, PointerAlive, HiveInv, Separate,
                      OneCall, ServiceKept
  <1> QED BY <1>1, <1>2, <1>3, <1>4, <1>5, <1>6 DEF Next

LEMMA HiveInvariant == Spec => []HiveInv
  BY HiveInitInv, HiveNextInv, PTL DEF Spec

-----------------------------------------------------------------------------
\* The counts of outstanding operations and of work objects never fall below
\* zero: every handler that runs has been asked for, and no work object goes
\* twice, also when threads race for m_work_ptr.
THEOREM HiveTypeCorrect == Spec => []TypeOK
  BY HiveInvariant, PTL DEF HiveInv

\* When a Stop has returned no thread can run a handler until Reset is called,
\* or there is another Stop that was first and is still under way: for any
\* number of threads, as long as no Reset overlaps a Stop.
THEOREM StopIsFinal == Spec => []StopLeavesStopped
  <1>1. HiveInv => StopLeavesStopped
    BY DEF HiveInv, Separate, OneCall, ServiceKept, StopLeavesStopped
  <1> QED BY <1>1, HiveInvariant, PTL

-----------------------------------------------------------------------------
\* The steps that stop the io_service leave it without work, and are those of
\* a Stop in its run() or of a Reset in its gap.
LEMMA StopsWhere ==
    ASSUME HiveInv, [Next]_vars, ~overlapped', ~stopped, stopped'
    PROVE  Idle(ops') /\ \E t \in Caller : pc'[t] \in {"run", "reset"}
  <1>0. pc \in [Caller -> {"idle"} \cup InStop \cup InReset]
    BY DEF HiveInv, TypeOK
  <1>1. ASSUME NEW t \in Caller, HiveStep(t)
        PROVE  Idle(ops') /\ pc'[t] \in {"run", "reset"}
    <2>1. CASE StopWork(t)
      <3>1. NoWork(works', ops) /\ ops' = ops
        BY <2>1, Zenon DEF StopWork, Others
      <3>2. pc'[t] = "run"
        BY <1>0, <2>1 DEF StopWork, At
      <3> QED BY <3>1, <3>2 DEF NoWork
    <2>2. CASE StopEnd(t)
      <3>1. ~overlapped /\ pc[t] = "ran"
        BY <2>2 DEF StopEnd, At
      <3>2. stopped
        BY <3>1 DEF HiveInv, Separate, ServiceKept
      <3> QED BY <3>2
    <2>3. CASE ~StopWork(t) /\ ~StopEnd(t)
      BY <1>1, <2>3, Zenon DEF HiveStep, GoesOn, StopSwap, StopLoses, StopRun,
                               ResetSwap, ResetService, ResetWork, Swap
    <2> QED BY <2>1, <2>2, <2>3
  <1>2. ASSUME NEW t \in Caller, NEW u \in Caller, WorkRace(t, u)
        PROVE  FALSE
    <2>1. t # u /\ pc[t] # "idle" /\ pc[u] # "idle" /\ ~overlapped
      BY <1>2 DEF WorkRace
    <2> QED BY <2>1 DEF HiveInv, Separate, OneCall
  <1>3. ASSUME UNCHANGED hive, NoWork(works, ops')
        PROVE  Idle(ops') /\ \E t \in Caller : pc'[t] \in {"run", "reset"}
    <2>1. ~overlapped /\ works = 0 /\ pc' = pc
      BY <1>3 DEF hive, NoWork
    <2>2. ~m_work_ptr
      BY <2>1 DEF HiveInv, PointerAlive
    <2>3. \E t \in Caller : pc[t] \in {"run", "reset"}
      BY <2>1, <2>2 DEF HiveInv, Separate, ServiceKept
    <2> QED BY <1>3, <2>1, <2>3 DEF NoWork
  <1>4. CASE PollIdle
    BY <1>3, <1>4 DEF PollIdle
  <1>5. ASSUME NEW c \in Conn, Open(c) \/ PostSend(c) \/ Close(c)
        PROVE  FALSE
    BY <1>5, Zenon DEF Open, PostSend, Close, Post
  <1>6. ASSUME NEW c \in Conn, Handler(c)
        PROVE  Idle(ops') /\ \E t \in Caller : pc'[t] \in {"run", "reset"}
    <2>1. PICK op \in Op, started \in SUBSET Op : Run(c, op, started)
      BY <1>6, HandlerRuns
    <2>2. NoWork(works, ops') /\ UNCHANGED hive
      BY <2>1, Zenon DEF Run
    <2> QED BY <1>3, <2>2
  <1>7. CASE UNCHANGED vars
    BY <1>7 DEF vars
  <1> QED BY <1>1, <1>2, <1>4, <1>5, <1>6, <1>7 DEF Next

\* As long as no Reset overlaps a Stop, the io_service stops only when nothing
\* is outstanding, inside a Stop or in the gap that a Reset leaves.
THEOREM NothingLeftBehind == Spec => StopsOnlyWhenIdle
  <1>1. HiveInv /\ [Next]_vars =>
          [~overlapped' /\ ~stopped /\ stopped'
             => Idle(ops') /\ \E t \in Caller : pc'[t] \in {"run", "reset"}]_vars
    BY StopsWhere
  <1> QED BY <1>1, HiveInvariant, PTL DEF Spec, StopsOnlyWhenIdle

-----------------------------------------------------------------------------
\* No step takes the timer of a connection away, whatever overlaps: a handler
\* of the timer starts it again.
LEMMA TimerStays ==
    ASSUME TypeOK, [Next]_vars, NEW c \in Conn, ops[c]["timer"] > 0
    PROVE  ops'[c]["timer"] > 0
  <1>0. "timer" \in Op
    BY DEF Op
  <1>1. ASSUME UNCHANGED ops PROVE ops'[c]["timer"] > 0
    BY <1>1
  <1>2. ASSUME NEW t \in Caller, HiveStep(t) PROVE UNCHANGED ops
    BY <1>2, Zenon DEF HiveStep, GoesOn, StopSwap, StopLoses, StopWork, StopRun,
           StopEnd, ResetSwap, ResetService, ResetWork, Swap, Others
  <1>3. ASSUME NEW t \in Caller, NEW u \in Caller, WorkRace(t, u)
        PROVE  UNCHANGED ops
    BY <1>3 DEF WorkRace, Others
  <1>4. CASE PollIdle \/ UNCHANGED vars
    BY <1>1, <1>4 DEF PollIdle, vars
  <1>5. ASSUME NEW d \in Conn, Open(d) \/ PostSend(d) \/ Close(d)
        PROVE  ops'[c]["timer"] > 0
    BY <1>0, <1>5, CallsTyped
  <1>6. ASSUME NEW d \in Conn, Handler(d)
        PROVE  ops'[c]["timer"] > 0
    <2>1. PICK op \in Op, started \in SUBSET Op :
             Run(d, op, started) /\ (op = "timer" => "timer" \in started)
      BY <1>6, HandlerRuns
    <2>2. /\ \A e \in Conn : \A k \in Op :
               ops[e][k] > 0 /\ k # op => ops'[e][k] > 0
          /\ \A e \in Conn : e # d => ops'[e] = ops[e]
          /\ \A k \in started : ops'[d][k] > 0
      BY <2>1, RunCounts
    <2>3. CASE op # "timer"
      BY <1>0, <2>2, <2>3
    <2>4. CASE op = "timer" /\ d # c
      BY <2>2, <2>4
    <2>5. CASE op = "timer" /\ d = c
      BY <2>1, <2>2, <2>5
    <2> QED BY <2>3, <2>4, <2>5
  <1> QED BY <1>1, <1>2, <1>3, <1>4, <1>5, <1>6 DEF Next

LEMMA TimerStep ==
    ASSUME HiveInv, [Next]_vars, ~overlapped', NEW c \in Conn, ~stopped,
           ops[c]["timer"] > 0
    PROVE  ~stopped' /\ ops'[c]["timer"] > 0
  <1>1. ops'[c]["timer"] > 0
    BY TimerStays DEF HiveInv
  <1>2. ~Idle(ops')
    BY <1>1 DEF Idle, Op
  <1>3. stopped' \in BOOLEAN
    BY HiveNextInv DEF HiveInv, TypeOK
  <1> QED BY <1>1, <1>2, <1>3, StopsWhere

\* As long as no Reset overlaps a Stop, a timer that is armed while the hive
\* runs stays armed and keeps it running for ever.
THEOREM TimerNeverEnds == Spec => TimerKeepsHive
  <1>1. HiveInv /\ [Next]_vars =>
          [~overlapped' => \A c \in Conn : ~stopped /\ ops[c]["timer"] > 0
              => ~stopped' /\ ops'[c]["timer"] > 0]_vars
    BY TimerStep
  <1> QED BY <1>1, HiveInvariant, PTL DEF Spec, TimerKeepsHive

-----------------------------------------------------------------------------
\* Open arms the timer of a connection, and it stays armed for good.
OpenedArmed == \A c \in opened : ops[c]["timer"] > 0

LEMMA OpenedGrows ==
    ASSUME [Next]_vars
    PROVE  /\ opened \subseteq opened'
           /\ \A c \in opened' : c \notin opened => c \in Conn /\ Open(c)
  <1>1. ASSUME NEW t \in Caller, HiveStep(t) PROVE UNCHANGED opened
    BY <1>1, Zenon DEF HiveStep, GoesOn, StopSwap, StopLoses, StopWork, StopRun,
           StopEnd, ResetSwap, ResetService, ResetWork, Swap, Others
  <1>2. ASSUME NEW t \in Caller, NEW u \in Caller, WorkRace(t, u)
        PROVE  UNCHANGED opened
    BY <1>2 DEF WorkRace, Others
  <1>3. CASE PollIdle \/ UNCHANGED vars
    BY <1>3 DEF PollIdle, vars
  <1>4. ASSUME NEW d \in Conn, Open(d)
        PROVE  opened' = opened \cup {d}
    BY <1>4 DEF Open
  <1>5. ASSUME NEW d \in Conn, PostSend(d) \/ Close(d)
        PROVE  UNCHANGED opened
    BY <1>5 DEF PostSend, Close, Post
  <1>6. ASSUME NEW d \in Conn, Handler(d)
        PROVE  UNCHANGED opened
    <2>1. PICK op \in Op, started \in SUBSET Op : Run(d, op, started)
      BY <1>6, HandlerRuns
    <2> QED BY <2>1 DEF Run
  <1> QED BY <1>1, <1>2, <1>3, <1>4, <1>5, <1>6 DEF Next

LEMMA ArmedNext ==
    ASSUME TypeOK, OpenedArmed, [Next]_vars
    PROVE  OpenedArmed'
  <1>1. SUFFICES ASSUME NEW c \in opened' PROVE ops'[c]["timer"] > 0
    BY DEF OpenedArmed
  <1>2. CASE c \in opened
    <2>1. c \in Conn /\ ops[c]["timer"] > 0
      BY <1>2 DEF OpenedArmed, TypeOK
    <2> QED BY <2>1, TimerStays
  <1>3. CASE c \notin opened
    <2>1. c \in Conn /\ Open(c)
      BY <1>1, <1>3, OpenedGrows
    <2>2. ops'[c] = Started(ops[c], {"open", "timer"})
      BY <2>1 DEF Open, TypeOK
    <2>3. ops[c]["timer"] \in Nat /\ "timer" \in Op
      BY <2>1 DEF TypeOK, Op
    <2> QED BY <2>2, <2>3 DEF Started
  <1> QED BY <1>2, <1>3

\* A Stop that runs handlers of a connection that has been opened, and no
\* Reset has overlapped it.
StopHeldUp ==
    /\ ~overlapped /\ ~stopped /\ opened # {}
    /\ \E t \in Caller : pc[t] = "run"

LEMMA HeldUpNext ==
    ASSUME HiveInv, OpenedArmed, StopHeldUp, [Next]_vars, ~overlapped'
    PROVE  StopHeldUp'
  <1>1. PICK c \in opened : c \in Conn /\ ops[c]["timer"] > 0
    BY DEF StopHeldUp, OpenedArmed, HiveInv, TypeOK
  <1>2. ~stopped'
    BY <1>1, TimerStep DEF StopHeldUp
  <1>3. opened' # {}
    BY OpenedGrows DEF StopHeldUp
  <1>4. PICK t \in Caller : pc[t] = "run"
    BY DEF StopHeldUp
  <1>5. pc \in [Caller -> {"idle"} \cup InStop \cup InReset]
    BY DEF HiveInv, TypeOK
  <1>6. pc'[t] = "run"
    <2>1. ASSUME NEW u \in Caller, HiveStep(u) PROVE pc'[t] = "run"
      <3>1. CASE u = t
        BY <1>4, <2>1, <3>1 DEF StopHeldUp, HiveStep, GoesOn, StopSwap, StopLoses,
              StopWork, StopRun, StopEnd, ResetSwap, ResetService, ResetWork,
              Swap, At
      <3>2. CASE u # t
        BY <1>4, <1>5, <2>1, <3>2 DEF HiveStep, GoesOn, StopSwap, StopLoses,
              StopWork, StopRun, StopEnd, ResetSwap, ResetService, ResetWork,
              Swap, At
      <3> QED BY <3>1, <3>2
    <2>2. ASSUME NEW u \in Caller, NEW v \in Caller, WorkRace(u, v) PROVE FALSE
      <3>1. u # v /\ pc[u] # "idle" /\ pc[v] # "idle"
        BY <2>2 DEF WorkRace
      <3> QED BY <3>1 DEF HiveInv, Separate, OneCall, StopHeldUp
    <2>3. ASSUME UNCHANGED hive PROVE pc'[t] = "run"
      BY <1>4, <2>3 DEF hive
    <2>4. CASE PollIdle \/ UNCHANGED vars
      BY <2>3, <2>4 DEF PollIdle, vars
    <2>5. ASSUME NEW d \in Conn, Open(d) \/ PostSend(d) \/ Close(d)
          PROVE  UNCHANGED hive
      BY <2>5, Zenon DEF Open, PostSend, Close, Post
    <2>6. ASSUME NEW d \in Conn, Handler(d) PROVE UNCHANGED hive
      <3>1. PICK op \in Op, started \in SUBSET Op : Run(d, op, started)
        BY <2>6, HandlerRuns
      <3> QED BY <3>1, Zenon DEF Run
    <2> QED BY <2>1, <2>2, <2>3, <2>4, <2>5, <2>6 DEF Next
  <1> QED BY <1>2, <1>3, <1>6 DEF StopHeldUp

LEMMA OverlapStays ==
    ASSUME [Next]_vars, overlapped PROVE overlapped'
  <1>1. ASSUME UNCHANGED overlapped PROVE overlapped'
    BY <1>1
  <1>2. ASSUME NEW t \in Caller, HiveStep(t) PROVE overlapped'
    BY <1>2, Zenon DEF HiveStep, GoesOn, StopSwap, StopLoses, StopWork, StopRun,
           StopEnd, ResetSwap, ResetService, ResetWork, Swap
  <1>3. ASSUME NEW t \in Caller, NEW u \in Caller, WorkRace(t, u)
        PROVE  overlapped'
    BY <1>3, Zenon DEF WorkRace
  <1>4. CASE PollIdle \/ UNCHANGED vars
    BY <1>1, <1>4 DEF PollIdle, vars, hive
  <1>5. ASSUME NEW d \in Conn, Open(d) \/ PostSend(d) \/ Close(d)
        PROVE  overlapped'
    BY <1>1, <1>5 DEF Open, PostSend, Close, Post, hive
  <1>6. ASSUME NEW d \in Conn, Handler(d) PROVE overlapped'
    <2>1. PICK op \in Op, started \in SUBSET Op : Run(d, op, started)
      BY <1>6, HandlerRuns
    <2> QED BY <1>1, <2>1 DEF Run, hive
  <1> QED BY <1>2, <1>3, <1>4, <1>5, <1>6 DEF Next

\* A Stop that has come to its run() while the io_service runs, and finds a
\* connection open or sees one being opened, stays there for ever unless a
\* Reset overlaps it; every other Stop returns at once and finds handlers
\* running.
THEOREM StopNeverReturns ==
    Spec => [](StopHeldUp => [](StopHeldUp \/ overlapped))
  <1>1. Init => OpenedArmed
    BY DEF Init, OpenedArmed
  <1>2. TypeOK /\ OpenedArmed /\ [Next]_vars => OpenedArmed'
    BY ArmedNext
  <1>3. HiveInv /\ OpenedArmed /\ (StopHeldUp \/ overlapped) /\ [Next]_vars
           => (StopHeldUp \/ overlapped)'
    BY HeldUpNext, OverlapStays
  <1>4. HiveInv => TypeOK
    BY DEF HiveInv
  <1> QED BY <1>1, <1>2, <1>3, <1>4, HiveInvariant, PTL DEF Spec
=============================================================================
