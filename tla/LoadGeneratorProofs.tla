------------------------- MODULE LoadGeneratorProofs -------------------------
(***************************************************************************)
(* Proofs about LoadGenerator, for every number of nodes, writers, values  *)
(* and reads and for every database, faulty or not, slow or not.           *)
(***************************************************************************)
EXTENDS LoadGenerator, CheckerProofs

\* A writer between taking a value and logging its outcome has a value; a
\* read in progress has a number.
InRange ==
  /\ \A w \in Writers : wpc[w] \in {"invoke", "call", "wait", "record"} => wval[w] \in Values
  /\ mpc \in {"read_call", "read_wait"} => nodeIndex \in 1 .. MaxReads

-----------------------------------------------------------------------------
LEMMA EventTypes ==
  /\ \A v \in Table, type \in EventType : AddEvent(type, v) \in Event(Table)
  /\ \A vs \in SUBSET Table, type \in EventType : ReadEvent(type, vs) \in Event(Table)
BY DEF AddEvent, ReadEvent, Event, Table, Phantom

LEMMA OpTypes ==
  /\ \A v \in Values : Add(v) \in Ops
  /\ \A n \in 1 .. MaxReads : Read(n) \in Ops
  /\ Values \subseteq Table
  /\ Phantom \in Table
BY DEF Ops, Table

\* Every variable stays in its type (the fields of LoadGenerator, the log, the
\* states of its threads, the database).
THEOREM TypeCorrect == Spec => [](TypeOK /\ InRange)
<1>1. Init => TypeOK /\ InRange
  <2> SUFFICES ASSUME Init PROVE TypeOK /\ InRange
    OBVIOUS
  <2>1. stopEvent \in BOOLEAN /\ timeUp \in BOOLEAN
    BY Zenon DEF Init
  <2>2. /\ wpc \in [Writers -> WriterState]
        /\ wval \in [Writers -> Table]
    BY OpTypes DEF Init, WriterState
  <2> QED
    BY <2>1, <2>2, ConstantsAssumption DEF Init, TypeOK, InRange, MainState
<1>2. TypeOK /\ InRange /\ [Next]_vars => (TypeOK /\ InRange)'
  <2> SUFFICES ASSUME TypeOK, InRange, [Next]_vars
               PROVE  TypeOK' /\ InRange'
    OBVIOUS
  <2> USE ConstantsAssumption, EventTypes, OpTypes
          DEF TypeOK, InRange, progVars, mainVars, writerVars, dbVars, Log
  <2>1. ASSUME NEW w \in Writers, Writer(w)
        PROVE  TypeOK' /\ InRange'
    <3>1. CASE TakeValue(w)
      <4>1. counter + 1 \in Values
        BY <3>1 DEF TakeValue, Values
      <4> QED
        BY <3>1, <4>1 DEF TakeValue, WriterState, Values
    <3>2. CASE Invoke(w)
      BY <3>2 DEF Invoke, WriterState, EventType
    <3>3. CASE Call(w)
      BY <3>3 DEF Call, WriterState
    <3>4. CASE Answer(w)
      <4>1. thread[Add(wval[w])] \in {"ok", "definite", "error"}
        BY <3>4 DEF Answer, Finished
      <4> QED
        BY <3>4, <4>1 DEF Answer, WriterState
    <3>5. CASE TimeOut(w)
      BY <3>5 DEF TimeOut, WriterState
    <3>6. CASE Record(w)
      <4>1. LoggedType(outcome[wval[w]]) \in EventType
        BY DEF LoggedType, EventType
      <4> QED
        BY <3>6, <4>1 DEF Record, WriterState
    <3>7. CASE LeaveLoop(w)
      BY <3>7 DEF LeaveLoop, WriterState
    <3> QED
      BY <2>1, <3>1, <3>2, <3>3, <3>4, <3>5, <3>6, <3>7 DEF Writer
  <2>2. CASE Main
    <3>1. CASE Setup \/ SpawnWriters \/ EndWrites \/ JoinWriters
      <4>1. stopEvent' \in BOOLEAN
        BY <3>1, Zenon DEF Setup, SpawnWriters, EndWrites, JoinWriters
      <4>2. CASE Setup \/ EndWrites \/ JoinWriters
        BY <4>1, <4>2 DEF Setup, EndWrites, JoinWriters, MainState, ReadPhase, Over
      <4>3. CASE SpawnWriters
        BY <4>1, <4>3 DEF SpawnWriters, MainState, ReadPhase, Over, WriterState
      <4> QED
        BY <3>1, <4>2, <4>3
    <3>2. CASE DrainTake \/ DrainJoin \/ DrainEnd
      <4>1. CASE DrainTake
        BY <4>1 DEF DrainTake, MainState, ReadPhase, Over
      <4>2. CASE DrainJoin
        BY <4>2 DEF DrainJoin, MainState, ReadPhase, Over
      <4>3. CASE DrainEnd
        BY <4>3 DEF DrainEnd, MainState, ReadPhase, Over
      <4> QED
        BY <3>2, <4>1, <4>2, <4>3
    <3>3. CASE ClearStop
      <4>1. stopEvent' \in BOOLEAN
        BY <3>3, Zenon DEF ClearStop
      <4> QED
        BY <3>3, <4>1 DEF ClearStop, MainState, ReadPhase, Over
    <3>4. CASE ReadInvoke
      BY <3>4 DEF ReadInvoke, MainState, ReadPhase, Over, EventType
    <3>5. CASE ReadCall
      BY <3>5 DEF ReadCall, MainState, ReadPhase, Over
    <3>6. CASE ReadAnswer \/ ReadTimeOut
      <4>1. CASE ReadAnswer
        <5>1. ReadEvent("ok", snapshot[nodeIndex]) \in Event(Table)
          BY <4>1 DEF ReadAnswer, EventType
        <5>2. ReadEvent("fail", {}) \in Event(Table)
          BY DEF EventType
        <5> QED
          BY <4>1, <5>1, <5>2 DEF ReadAnswer, MainState, ReadPhase, Over
      <4>2. CASE ReadTimeOut
        BY <4>2 DEF ReadTimeOut, MainState, ReadPhase, Over, EventType
      <4> QED
        BY <3>6, <4>1, <4>2
    <3>7. CASE EndReads
      <4>1. stopEvent' \in BOOLEAN
        BY <3>7, Zenon DEF EndReads
      <4> QED
        BY <3>7, <4>1 DEF EndReads, MainState, ReadPhase, Over
    <3> QED
      BY <2>2, <3>1, <3>2, <3>3, <3>4, <3>5, <3>6, <3>7 DEF Main
  <2>3. CASE Database
    <3>1. CASE WorkerEnds
      BY <3>1 DEF WorkerEnds, AddReturns, AddFails, AddErrors, ReadReturns, ReadErrors,
                  Finish
    <3>2. ASSUME NEW v \in Values, DbApply(v) \/ DbReject(v) \/ DbLose(v)
          PROVE  TypeOK' /\ InRange'
      BY <3>2 DEF DbApply, DbReject, DbLose, NoteFault
    <3>3. CASE DbPhantom
      BY <3>3 DEF DbPhantom, NoteFault
    <3> QED
      BY <2>3, <3>1, <3>2, <3>3 DEF Database
  <2>4. CASE Elapse \/ Stop \/ Terminated \/ UNCHANGED vars
    <3>1. stopEvent' \in BOOLEAN /\ timeUp' \in BOOLEAN
      BY <2>4, Zenon DEF Elapse, Stop, Terminated, vars
    <3> QED
      BY <2>4, <3>1 DEF Elapse, Stop, Terminated, vars
  <2> QED
    BY <2>1, <2>2, <2>3, <2>4 DEF Next
<1> QED
  BY <1>1, <1>2, PTL DEF Spec

-----------------------------------------------------------------------------
(* The verdict is never wrong about the database.  NoFalseAlarm speaks of  *)
(* the end of a run; what makes it true is an invariant of every state.    *)

\* The writers have been joined.
AfterJoin == {"drain", "drain_join", "clear"} \cup ReadPhase \cup {"closed"}

\* Nothing is read before every writer is done.
Phases ==
  /\ mpc \in AfterJoin => \A w \in Writers : wpc[w] = "done"
  /\ \A n \in 1 .. MaxReads : thread[Read(n)] # "none" => mpc \in AfterJoin
  /\ OkReads(opsLog) # {} => mpc \in AfterJoin

\* Whatever reaches the database, or comes back from it, was logged as invoked
\* before, unless the database made it up.
Attempts ==
  /\ \A w \in Writers :
       wpc[w] \in {"call", "wait", "record"} => wval[w] \in Attempted(opsLog)
  /\ inflight \cup Applied \subseteq Attempted(opsLog)
  /\ \A n \in 1 .. MaxReads : snapshot[n] \subseteq Attempted(opsLog) \cup {Phantom}
  /\ FinalRead(opsLog) \subseteq Attempted(opsLog) \cup {Phantom}

\* A confirmed value has been applied; it is in every later read, or lost.
Confirmations ==
  /\ \A v \in Values : "ok" \in {thread[Add(v)], outcome[v]} => v \in Applied
  /\ Successful(opsLog) \subseteq Applied
  /\ \A n \in 1 .. MaxReads :
       thread[Read(n)] = "ok" => Successful(opsLog) \subseteq snapshot[n] \cup dropped
  /\ OkReads(opsLog) # {} => Successful(opsLog) \subseteq FinalRead(opsLog) \cup dropped

IInv == HasLast(opsLog) /\ Phases /\ Attempts /\ Confirmations

LEMMA OpsDistinct ==
  /\ \A u, v \in Values : Add(u) = Add(v) => u = v
  /\ \A m, n \in 1 .. MaxReads : Read(m) = Read(n) => m = n
  /\ \A v \in Values, n \in 1 .. MaxReads : Add(v) # Read(n)
  /\ Phantom \notin Values
BY DEF Add, Read, Values, Phantom

\* What the events of add() do to the verdict.
LEMMA LogsAdd ==
  ASSUME TypeOK, HasLast(opsLog),
         NEW v \in Values, NEW type \in EventType, Log(AddEvent(type, v))
  PROVE  /\ HasLast(opsLog')
         /\ OkReads(opsLog') # {} <=> OkReads(opsLog) # {}
         /\ FinalRead(opsLog') = FinalRead(opsLog)
         /\ Attempted(opsLog') = Attempted(opsLog) \cup (IF type = "invoke" THEN {v} ELSE {})
         /\ Successful(opsLog') = Successful(opsLog) \cup (IF type = "ok" THEN {v} ELSE {})
<1> DEFINE e == AddEvent(type, v)
<1>1. e \in Event(Table) /\ opsLog \in Seq(Event(Table)) /\ opsLog' = Append(opsLog, e)
  BY EventTypes, OpTypes DEF TypeOK, Log
<1>2. /\ IsAdd(e, "invoke") <=> type = "invoke"
      /\ IsAdd(e, "ok") <=> type = "ok"
      /\ e.value = v
      /\ ~IsOkRead(e)
  BY DEF AddEvent, IsAdd, IsOkRead
<1> HIDE DEF e
<1>3. \A t : AddsOf(opsLog', t) = AddsOf(opsLog, t) \cup (IF IsAdd(e, t) THEN {e.value} ELSE {})
  BY <1>1, AddsOfAppend
<1>4. /\ HasLast(opsLog')
      /\ OkReads(opsLog') # {} <=> OkReads(opsLog) # {}
      /\ FinalRead(opsLog') = FinalRead(opsLog)
  BY <1>1, <1>2, FinalReadAppend
<1> QED
  BY <1>2, <1>3, <1>4 DEF Attempted, Successful

\* What the events of read() do to it.
LEMMA LogsRead ==
  ASSUME TypeOK, HasLast(opsLog),
         NEW vs \in SUBSET Table, NEW type \in EventType, Log(ReadEvent(type, vs))
  PROVE  /\ HasLast(opsLog')
         /\ OkReads(opsLog') # {} <=> OkReads(opsLog) # {} \/ type = "ok"
         /\ FinalRead(opsLog') = IF type = "ok" THEN vs ELSE FinalRead(opsLog)
         /\ Attempted(opsLog') = Attempted(opsLog)
         /\ Successful(opsLog') = Successful(opsLog)
<1> DEFINE e == ReadEvent(type, vs)
<1>1. e \in Event(Table) /\ opsLog \in Seq(Event(Table)) /\ opsLog' = Append(opsLog, e)
  BY EventTypes DEF TypeOK, Log
<1>2. /\ ~IsAdd(e, "invoke")
      /\ ~IsAdd(e, "ok")
      /\ e.values = vs
      /\ IsOkRead(e) <=> type = "ok"
  BY DEF ReadEvent, IsAdd, IsOkRead
<1> HIDE DEF e
<1>3. \A t : AddsOf(opsLog', t) = AddsOf(opsLog, t) \cup (IF IsAdd(e, t) THEN {e.value} ELSE {})
  BY <1>1, AddsOfAppend
<1>4. /\ HasLast(opsLog')
      /\ OkReads(opsLog') # {} <=> OkReads(opsLog) # {} \/ type = "ok"
      /\ FinalRead(opsLog') = IF type = "ok" THEN vs ELSE FinalRead(opsLog)
  BY <1>1, <1>2, FinalReadAppend
<1> QED
  BY <1>2, <1>3, <1>4 DEF Attempted, Successful

\* The invariant holds of the empty log.
LEMMA InvInit == Init => IInv
<1> SUFFICES ASSUME Init PROVE IInv
  OBVIOUS
<1>1. OkReads(opsLog) = {} /\ \A t : AddsOf(opsLog, t) = {}
  BY DEF Init, OkReads, AddsOf
<1>2. \A op \in Ops : thread[op] = "none"
  BY DEF Init
<1> QED
  BY <1>1, <1>2, OpTypes DEF Init, IInv, HasLast, Phases, Attempts, Confirmations, AfterJoin,
     ReadPhase, FinalRead, Attempted, Successful, Applied

\* A writer does not disturb the invariant: what it hands to the database it
\* has logged before, and what it confirms the database has applied.
LEMMA InvWriter ==
  ASSUME TypeOK, InRange, IInv, NEW w \in Writers, Writer(w)
  PROVE  IInv'
<1> USE OpTypes, OpsDistinct DEF progVars, mainVars, writerVars, dbVars, Applied
<1>1. mpc \notin AfterJoin /\ mpc' = mpc
  <2>1. wpc[w] # "done" /\ mpc' = mpc
    BY DEF Writer, TakeValue, Invoke, Call, Answer, TimeOut, Record, LeaveLoop
  <2> QED
    BY <2>1 DEF IInv, Phases
<1>2. OkReads(opsLog) = {} /\ \A n \in 1 .. MaxReads : thread[Read(n)] = "none"
  BY <1>1 DEF IInv, Phases
<1>3. CASE TakeValue(w)
  BY <1>1, <1>2, <1>3 DEF TakeValue, TypeOK, IInv, Phases, Attempts, Confirmations
<1>4. CASE Invoke(w)
  <2>1. wval[w] \in Values /\ "invoke" \in EventType
    BY <1>4 DEF Invoke, InRange, EventType
  <2>2. /\ HasLast(opsLog')
        /\ OkReads(opsLog') = {}
        /\ FinalRead(opsLog') = FinalRead(opsLog)
        /\ Attempted(opsLog') = Attempted(opsLog) \cup {wval[w]}
        /\ Successful(opsLog') = Successful(opsLog)
    BY <1>2, <1>4, <2>1, LogsAdd DEF Invoke, IInv
  <2> QED
    BY <1>1, <1>2, <1>4, <2>2 DEF Invoke, TypeOK, IInv, Phases, Attempts, Confirmations
<1>5. CASE Call(w)
  <2>1. wval[w] \in Values
    BY <1>5 DEF Call, InRange
  <2> QED
    BY <1>1, <1>2, <1>5, <2>1 DEF Call, TypeOK, IInv, Phases, Attempts, Confirmations
<1>6. CASE Answer(w)
  <2>1. wval[w] \in Values
    BY <1>6 DEF Answer, InRange
  <2> QED
    BY <1>1, <1>2, <1>6, <2>1 DEF Answer, TypeOK, IInv, Phases, Attempts, Confirmations
<1>7. CASE TimeOut(w)
  <2>1. wval[w] \in Values
    BY <1>7 DEF TimeOut, InRange
  <2> QED
    BY <1>1, <1>2, <1>7, <2>1 DEF TimeOut, TypeOK, IInv, Phases, Attempts, Confirmations
<1>8. CASE Record(w)
  <2> DEFINE type == LoggedType(outcome[wval[w]])
  <2>1. /\ wval[w] \in Values
        /\ type \in EventType \ {"invoke"}
        /\ type = "ok" <=> outcome[wval[w]] = "ok"
    BY <1>8 DEF Record, InRange, LoggedType, EventType
  <2>2. Log(AddEvent(type, wval[w]))
    BY <1>8 DEF Record
  <2> HIDE DEF type
  <2>3. /\ HasLast(opsLog')
        /\ OkReads(opsLog') = {}
        /\ FinalRead(opsLog') = FinalRead(opsLog)
        /\ Attempted(opsLog') = Attempted(opsLog)
        /\ Successful(opsLog') = Successful(opsLog)
                                   \cup (IF type = "ok" THEN {wval[w]} ELSE {})
    BY <1>2, <2>1, <2>2, LogsAdd DEF IInv
  <2>4. Successful(opsLog') \subseteq Applied
    BY <2>1, <2>3 DEF IInv, Confirmations
  <2> QED
    BY <1>1, <1>2, <1>8, <2>3, <2>4
       DEF Record, TypeOK, IInv, Phases, Attempts, Confirmations
<1>9. CASE LeaveLoop(w)
  BY <1>1, <1>2, <1>9 DEF LeaveLoop, TypeOK, IInv, Phases, Attempts, Confirmations
<1> QED
  BY <1>3, <1>4, <1>5, <1>6, <1>7, <1>8, <1>9 DEF Writer

\* The main thread reads only after it has joined the writers, so what was
\* confirmed by then has been applied before the read began.
LEMMA InvMain ==
  ASSUME TypeOK, InRange, IInv, Main
  PROVE  IInv'
<1> USE OpTypes, OpsDistinct DEF progVars, mainVars, writerVars, dbVars, Applied
<1>1. CASE Setup \/ SpawnWriters \/ EndWrites
  <2>1. mpc \notin AfterJoin /\ mpc' \notin AfterJoin
    BY <1>1 DEF Setup, SpawnWriters, EndWrites, AfterJoin, ReadPhase
  <2>2. /\ \A w \in Writers : wpc'[w] = wpc[w] \/ wpc'[w] = "loop"
        /\ UNCHANGED <<opsLog, wval, outcome, thread, snapshot, db, inflight, dropped>>
    BY <1>1 DEF Setup, SpawnWriters, EndWrites
  <2> QED
    BY <2>1, <2>2 DEF TypeOK, IInv, Phases, Attempts, Confirmations
<1>2. CASE JoinWriters \/ DrainTake \/ DrainJoin \/ DrainEnd \/ ClearStop \/ EndReads
  <2>1. mpc' \in AfterJoin /\ \A w \in Writers : wpc[w] = "done"
    BY <1>2 DEF JoinWriters, DrainTake, DrainJoin, DrainEnd, ClearStop, EndReads,
                AfterJoin, ReadPhase, IInv, Phases
  <2>2. UNCHANGED <<opsLog, wpc, wval, outcome, thread, snapshot, db, inflight, dropped>>
    BY <1>2 DEF JoinWriters, DrainTake, DrainJoin, DrainEnd, ClearStop, EndReads
  <2> QED
    BY <2>1, <2>2 DEF TypeOK, IInv, Phases, Attempts, Confirmations
<1>3. CASE ReadInvoke \/ ReadCall \/ ReadAnswer \/ ReadTimeOut
  <2>1. /\ mpc \in AfterJoin
        /\ mpc' \in AfterJoin
        /\ UNCHANGED <<wpc, wval, outcome, snapshot, db, inflight, dropped>>
    BY <1>3 DEF ReadInvoke, ReadCall, ReadAnswer, ReadTimeOut, AfterJoin, ReadPhase
  <2>2. CASE ReadCall
    <3>1. nodeIndex \in 1 .. MaxReads
      BY <2>2 DEF ReadCall, InRange
    <3> QED
      BY <2>1, <2>2, <3>1 DEF ReadCall, TypeOK, IInv, Phases, Attempts, Confirmations
  <2>3. ASSUME NEW vs \in SUBSET Table, NEW type \in EventType, Log(ReadEvent(type, vs)),
               UNCHANGED thread,
               type = "ok" => \E n \in 1 .. MaxReads :
                                thread[Read(n)] = "ok" /\ vs = snapshot[n]
        PROVE  IInv'
    <3>1. /\ HasLast(opsLog')
          /\ OkReads(opsLog') # {} <=> OkReads(opsLog) # {} \/ type = "ok"
          /\ FinalRead(opsLog') = IF type = "ok" THEN vs ELSE FinalRead(opsLog)
          /\ Attempted(opsLog') = Attempted(opsLog)
          /\ Successful(opsLog') = Successful(opsLog)
      BY <2>3, LogsRead DEF IInv
    <3>2. Phases' /\ HasLast(opsLog)'
      BY <2>1, <2>3, <3>1 DEF IInv, Phases
    <3>3. Attempts'
      BY <2>1, <2>3, <3>1 DEF IInv, Attempts
    <3>4. Confirmations'
      BY <2>1, <2>3, <3>1 DEF IInv, Confirmations
    <3> QED
      BY <3>2, <3>3, <3>4 DEF IInv
  <2>4. CASE ReadInvoke \/ ReadTimeOut
    BY <2>3, <2>4 DEF ReadInvoke, ReadTimeOut, EventType
  <2>5. CASE ReadAnswer
    <3>1. nodeIndex \in 1 .. MaxReads /\ snapshot[nodeIndex] \in SUBSET Table
      BY <2>5 DEF ReadAnswer, InRange, TypeOK
    <3>2. CASE thread[Read(nodeIndex)] = "ok"
      BY <2>3, <2>5, <3>1, <3>2 DEF ReadAnswer, EventType
    <3>3. CASE thread[Read(nodeIndex)] # "ok"
      BY <2>3, <2>5, <3>3 DEF ReadAnswer, EventType
    <3> QED
      BY <3>2, <3>3
  <2> QED
    BY <1>3, <2>2, <2>4, <2>5
<1> QED
  BY <1>1, <1>2, <1>3 DEF Main

\* The database applies only what it was handed, and what it forgets is lost.
LEMMA InvDatabase ==
  ASSUME TypeOK, InRange, IInv, Database
  PROVE  IInv'
<1> USE OpTypes, OpsDistinct DEF progVars, mainVars, writerVars, dbVars
<1>1. UNCHANGED <<opsLog, mpc, wpc, wval, outcome>>
  BY DEF Database, WorkerEnds, AddReturns, AddFails, AddErrors, ReadReturns, ReadErrors,
         DbApply, DbReject, DbLose, DbPhantom
<1>2. HasLast(opsLog)'
  BY <1>1 DEF IInv
<1>3. ASSUME NEW v \in Values, AddReturns(v) \/ AddFails(v) \/ AddErrors(v)
      PROVE  IInv'
  <2>1. UNCHANGED <<snapshot, db, inflight, dropped>>
    BY <1>3 DEF AddReturns, AddFails, AddErrors
  <2>2. /\ thread'[Add(v)] = "ok" => v \in Applied
        /\ \A op \in Ops : op # Add(v) => thread'[op] = thread[op]
    BY <1>3 DEF AddReturns, AddFails, AddErrors, Finish, TypeOK
  <2> QED
    BY <1>1, <1>2, <2>1, <2>2
       DEF IInv, Phases, Attempts, Confirmations, Applied
<1>4. ASSUME NEW n \in 1 .. MaxReads, ReadReturns(n) \/ ReadErrors(n)
      PROVE  IInv'
  <2>1. UNCHANGED <<db, inflight, dropped>> /\ thread[Read(n)] = "running"
    BY <1>4 DEF ReadReturns, ReadErrors, Finish
  <2>2. /\ \A op \in Ops : op # Read(n) => thread'[op] = thread[op]
        /\ \A m \in 1 .. MaxReads : m # n => snapshot'[m] = snapshot[m]
        /\ \/ thread'[Read(n)] = "ok" /\ snapshot'[n] = db
           \/ thread'[Read(n)] = "error" /\ snapshot'[n] = snapshot[n]
    BY <1>4 DEF ReadReturns, ReadErrors, Finish, TypeOK
  <2>3. /\ db \subseteq Attempted(opsLog) \cup {Phantom}
        /\ Successful(opsLog) \subseteq db \cup dropped
    BY DEF IInv, Attempts, Confirmations, Applied, TypeOK, Table
  <2>4. Phases'
    BY <1>1, <2>1, <2>2 DEF IInv, Phases
  <2>5. Attempts'
    BY <1>1, <2>1, <2>2, <2>3 DEF IInv, Attempts, Applied
  <2>6. Confirmations'
    BY <1>1, <2>1, <2>2, <2>3 DEF IInv, Confirmations, Applied
  <2> QED
    BY <1>2, <2>4, <2>5, <2>6 DEF IInv
<1>5. ASSUME UNCHANGED <<thread, snapshot>>,
             Applied \subseteq Applied',
             dropped \subseteq dropped',
             (inflight \cup Applied)' \subseteq inflight \cup Applied
      PROVE  IInv'
  BY <1>1, <1>2, <1>5 DEF IInv, Phases, Attempts, Confirmations
<1>6. ASSUME NEW v \in Values, DbApply(v) \/ DbReject(v) \/ DbLose(v)
      PROVE  IInv'
  BY <1>5, <1>6 DEF DbApply, DbReject, DbLose, Applied
<1>7. CASE DbPhantom
  BY <1>5, <1>7 DEF DbPhantom, Applied
<1> QED
  BY <1>3, <1>4, <1>6, <1>7 DEF Database, WorkerEnds

LEMMA Invariance == Spec => []IInv
<1>1. TypeOK /\ InRange /\ IInv /\ [Next]_vars => IInv'
  <2> SUFFICES ASSUME TypeOK, InRange, IInv, [Next]_vars
               PROVE  IInv'
    OBVIOUS
  <2>1. CASE Elapse \/ Stop \/ Terminated \/ UNCHANGED vars
    <3>1. UNCHANGED <<opsLog, wpc, wval, outcome, thread, snapshot, db, inflight,
                      dropped, mpc>>
      BY <2>1 DEF Elapse, Stop, Terminated, vars, progVars, mainVars, writerVars, dbVars
    <3> QED
      BY <3>1 DEF IInv, Phases, Attempts, Confirmations, Applied
  <2> QED
    BY <2>1, InvWriter, InvMain, InvDatabase DEF Next
<1> QED
  BY <1>1, InvInit, TypeCorrect, PTL DEF Spec

\* A lost value in the verdict was lost by the database and an unexpected one
\* was made up by it, for every database, every number of writers and reads and
\* every interleaving (check_consistency over the log of a run).
THEOREM VerdictSound == Spec => []NoFalseAlarm
<1>1. IInv => NoFalseAlarm
  BY DEF IInv, Attempts, Confirmations, NoFalseAlarm, Judged, Verdict, CheckConsistency,
         Lost, Unexpected
<1> QED
  BY <1>1, Invariance, PTL

-----------------------------------------------------------------------------
(* The operations log: that it is well formed, that it follows SetTest,    *)
(* and that the checker finds in it what the database did wrong.  All of   *)
(* it rests on the uniqueness of the values.                               *)

Outcomes == {"ok", "fail", "info"}

Resolved == Successful(opsLog) \cup Failed(opsLog) \cup AddsOf(opsLog, "info")

\* The writer works on a value; its INVOKE line is written.
Begun(w)   == wpc[w] \in {"invoke", "call", "wait", "record"}
Invoked(w) == wpc[w] \in {"call", "wait", "record"}

\* The database has not heard of the value, nor has the log.
Uncalled(v)  == thread[Add(v)] = "none" /\ v \notin inflight \cup Applied
Untouched(v) == Uncalled(v) /\ outcome[v] = "none" /\ v \notin Attempted(opsLog)

\* No two writers work on one value.
Unique ==
  /\ \A w \in Writers : Begun(w) => wval[w] <= counter
  /\ \A w, x \in Writers : Begun(w) /\ Begun(x) /\ wval[w] = wval[x] => w = x

\* A value is new until its writer hands it on.
Fresh ==
  /\ \A v \in Values : v > counter => Untouched(v)
  /\ \A w \in Writers : wpc[w] = "invoke" => Untouched(wval[w])
  /\ \A w \in Writers : wpc[w] = "call" => Uncalled(wval[w])
  /\ \A w \in Writers : wpc[w] \in {"call", "wait"} => outcome[wval[w]] = "none"

\* What the log has of a value that is being written, and of every other.
Open ==
  /\ Resolved \subseteq Attempted(opsLog) /\ Attempted(opsLog) \subseteq Values
  /\ \A w \in Writers : Invoked(w) => wval[w] \in Attempted(opsLog) \ Resolved
  /\ \A v \in Attempted(opsLog) \ Resolved : \E w \in Writers : Invoked(w) /\ wval[w] = v

\* The log has the outcomes, of each value one.
Told ==
  /\ \A w \in Writers : wpc[w] = "record" => outcome[wval[w]] # "none"
  /\ \A v \in Values : outcome[v] # "none" =>
       \/ v \in AddsOf(opsLog, LoggedType(outcome[v]))
       \/ \E w \in Writers : wpc[w] = "record" /\ wval[w] = v
  /\ \A v \in Values, t \in Outcomes : v \in AddsOf(opsLog, t) =>
       outcome[v] # "none" /\ t = LoggedType(outcome[v])

\* No writer is at work before the main thread has started them.
Idle == mpc \in {"setup", "spawn"} => \A w \in Writers : wpc[w] = "new"

Books == Unique /\ Fresh /\ Open /\ Told /\ Idle

-----------------------------------------------------------------------------
LEMMA LoggedTypes ==
  \A o \in {"ok", "definite", "error", "timeout"} : LoggedType(o) \in Outcomes
BY DEF LoggedType, Outcomes

\* What a line of add() adds to the log, and a line of read() does not.
LEMMA AddLine ==
  ASSUME TypeOK, NEW v \in Values, NEW type \in EventType, Log(AddEvent(type, v))
  PROVE  \A t : AddsOf(opsLog', t) = AddsOf(opsLog, t) \cup (IF t = type THEN {v} ELSE {})
<1> DEFINE e == AddEvent(type, v)
<1>1. e \in Event(Table) /\ opsLog \in Seq(Event(Table)) /\ opsLog' = Append(opsLog, e)
  BY EventTypes, OpTypes DEF TypeOK, Log
<1>2. e.value = v /\ \A t : IsAdd(e, t) <=> t = type
  BY DEF AddEvent, IsAdd
<1> HIDE DEF e
<1>3. \A t : AddsOf(opsLog', t) = AddsOf(opsLog, t) \cup (IF IsAdd(e, t) THEN {e.value} ELSE {})
  BY <1>1, AddsOfAppend
<1> QED
  BY <1>2, <1>3

LEMMA ReadLine ==
  ASSUME TypeOK, NEW vs \in SUBSET Table, NEW type \in EventType, Log(ReadEvent(type, vs))
  PROVE  \A t : AddsOf(opsLog', t) = AddsOf(opsLog, t)
<1> DEFINE e == ReadEvent(type, vs)
<1>1. e \in Event(Table) /\ opsLog \in Seq(Event(Table)) /\ opsLog' = Append(opsLog, e)
  BY EventTypes DEF TypeOK, Log
<1>2. \A t : ~IsAdd(e, t)
  BY DEF ReadEvent, IsAdd
<1> HIDE DEF e
<1>3. \A t : AddsOf(opsLog', t) = AddsOf(opsLog, t) \cup (IF IsAdd(e, t) THEN {e.value} ELSE {})
  BY <1>1, AddsOfAppend
<1> QED
  BY <1>2, <1>3

\* The main thread leaves the lines of add() alone.
LEMMA MainLines ==
  ASSUME TypeOK, InRange, Main
  PROVE  \A t : AddsOf(opsLog', t) = AddsOf(opsLog, t)
<1>1. CASE \/ Setup \/ SpawnWriters \/ EndWrites \/ JoinWriters \/ DrainTake \/ DrainJoin
           \/ DrainEnd \/ ClearStop \/ ReadCall \/ EndReads
  <2>1. opsLog' = opsLog
    BY <1>1 DEF Setup, SpawnWriters, EndWrites, JoinWriters, DrainTake, DrainJoin, DrainEnd,
                ClearStop, ReadCall, EndReads, progVars
  <2> QED
    BY <2>1
<1>2. CASE ReadInvoke \/ ReadTimeOut
  BY <1>2, ReadLine DEF ReadInvoke, ReadTimeOut, EventType
<1>3. CASE ReadAnswer
  <2>1. snapshot[nodeIndex] \in SUBSET Table
    BY <1>3 DEF ReadAnswer, InRange, TypeOK
  <2>2. "ok" \in EventType /\ "fail" \in EventType /\ {} \in SUBSET Table
    BY DEF EventType
  <2> QED
    BY <1>3, <2>1, <2>2, ReadLine DEF ReadAnswer
<1> QED
  BY <1>1, <1>2, <1>3 DEF Main

-----------------------------------------------------------------------------
LEMMA BooksInit == Init => Books
<1> SUFFICES ASSUME Init PROVE Books
  OBVIOUS
<1>1. \A t : AddsOf(opsLog, t) = {}
  BY DEF Init, AddsOf
<1>2. \A v \in Values : thread[Add(v)] = "none" /\ outcome[v] = "none"
  BY OpTypes DEF Init
<1> QED
  BY <1>1, <1>2
     DEF Init, Books, Unique, Fresh, Open, Told, Idle, Resolved, Attempted, Successful, Failed,
         Begun, Invoked, Untouched, Uncalled, Applied

\* A writer.
LEMMA BooksWriter ==
  ASSUME TypeOK, InRange, Books, NEW w \in Writers, Writer(w)
  PROVE  Books'
<1> USE OpTypes, OpsDistinct
        DEF progVars, mainVars, writerVars, dbVars, Begun, Invoked, Resolved, Applied
<1>0. /\ \A x \in Writers : x # w => wpc'[x] = wpc[x] /\ wval'[x] = wval[x]
      /\ counter \in Nat
      /\ \A x \in Writers : Begun(x) => wval[x] \in Values
      /\ wpc[w] # "new" /\ mpc' = mpc
  BY ConstantsAssumption
     DEF Writer, TakeValue, Invoke, Call, Answer, TimeOut, Record, LeaveLoop, TypeOK, InRange
<1>i. Idle'
  BY <1>0 DEF Books, Idle
<1>1. CASE TakeValue(w)
  <2>1. /\ wval'[w] = counter + 1 /\ wpc'[w] = "invoke" /\ counter' = counter + 1
        /\ counter + 1 \in Values /\ wpc[w] = "loop"
        /\ UNCHANGED <<opsLog, outcome, thread, db, inflight, dropped>>
    BY <1>1, <1>0, ConstantsAssumption DEF TakeValue, TypeOK, Values
  <2>2. Unique'
    BY <1>0, <2>1 DEF Books, Unique, Values
  <2>3. Fresh'
    BY <1>0, <2>1 DEF Books, Fresh, Untouched, Uncalled, Values
  <2>4. Open' /\ Told'
    BY <1>0, <2>1 DEF Books, Open, Told, Outcomes
  <2> QED
    BY <1>i, <2>2, <2>3, <2>4 DEF Books
<1>2. CASE Invoke(w)
  <2>1. /\ wval'[w] = wval[w] /\ wpc'[w] = "call" /\ wpc[w] = "invoke"
        /\ wval[w] \in Values
        /\ UNCHANGED <<counter, outcome, thread, db, inflight, dropped>>
    BY <1>2 DEF Invoke, TypeOK, InRange
  <2>2. /\ Attempted(opsLog') = Attempted(opsLog) \cup {wval[w]}
        /\ \A t \in Outcomes : AddsOf(opsLog', t) = AddsOf(opsLog, t)
    <3>1. "invoke" \in EventType /\ Log(AddEvent("invoke", wval[w]))
      BY <1>2 DEF Invoke, EventType
    <3>2. \A t : AddsOf(opsLog', t)
                   = AddsOf(opsLog, t) \cup (IF t = "invoke" THEN {wval[w]} ELSE {})
      BY <2>1, <3>1, AddLine
    <3> QED
      BY <3>2 DEF Attempted, Outcomes
  <2>3. Resolved' = Resolved
    BY <2>2 DEF Outcomes, Successful, Failed
  <2>4. Unique'
    BY <1>0, <2>1 DEF Books, Unique
  <2>5. Fresh'
    <3>1. \A v \in Values : v > counter => Untouched(v)'
      BY <1>0, <2>1, <2>2 DEF Books, Unique, Fresh, Untouched, Uncalled, Values
    <3>2. \A x \in Writers : wpc'[x] = "invoke" => Untouched(wval[x])'
      BY <1>0, <2>1, <2>2 DEF Books, Unique, Fresh, Untouched, Uncalled
    <3>3. \A x \in Writers : wpc'[x] = "call" => Uncalled(wval[x])'
      BY <1>0, <2>1 DEF Books, Fresh, Untouched, Uncalled
    <3>4. \A x \in Writers : wpc'[x] \in {"call", "wait"} => outcome'[wval'[x]] = "none"
      BY <1>0, <2>1 DEF Books, Fresh, Untouched
    <3>5. wval' = wval
      BY <1>2 DEF Invoke
    <3> QED
      BY <2>1, <3>1, <3>2, <3>3, <3>4, <3>5 DEF Fresh
  <2>6. Open'
    <3>1. wval[w] \notin Resolved
      BY <2>1 DEF Books, Fresh, Untouched, Open
    <3> QED
      BY <1>0, <2>1, <2>2, <2>3, <3>1 DEF Books, Open
  <2>7. Told'
    BY <1>0, <2>1, <2>2, LoggedTypes DEF Books, Told, TypeOK
  <2> QED
    BY <1>i, <2>4, <2>5, <2>6, <2>7 DEF Books
<1>3. CASE Call(w)
  <2>1. /\ wval' = wval /\ wpc'[w] = "wait" /\ wpc[w] = "call"
        /\ wval[w] \in Values
        /\ UNCHANGED <<counter, opsLog, outcome, db, dropped>>
        /\ inflight' = inflight \cup {wval[w]}
        /\ \A v \in Values : v # wval[w] => thread'[Add(v)] = thread[Add(v)]
    BY <1>3 DEF Call, TypeOK, InRange
  <2>2. Unique'
    BY <1>0, <2>1 DEF Books, Unique
  <2>3. Fresh'
    BY <1>0, <2>1 DEF Books, Unique, Fresh, Untouched, Uncalled, Values
  <2>4. Open' /\ Told'
    BY <1>0, <2>1 DEF Books, Open, Told, Outcomes
  <2> QED
    BY <1>i, <2>2, <2>3, <2>4 DEF Books
<1>4. CASE Answer(w) \/ TimeOut(w)
  <2>1. /\ wval' = wval /\ wpc'[w] = "record" /\ wpc[w] = "wait"
        /\ wval[w] \in Values
        /\ UNCHANGED <<counter, opsLog, thread, db, inflight, dropped>>
        /\ \A v \in Values : v # wval[w] => outcome'[v] = outcome[v]
    BY <1>4 DEF Answer, TimeOut, TypeOK, InRange
  <2>2. outcome'[wval[w]] # "none"
    BY <1>4, <2>1 DEF Answer, TimeOut, TypeOK, Finished
  <2>3. Unique'
    BY <1>0, <2>1 DEF Books, Unique
  <2>4. Fresh'
    BY <1>0, <2>1 DEF Books, Unique, Fresh, Untouched, Uncalled, Values
  <2>5. Open'
    BY <1>0, <2>1 DEF Books, Open
  <2>6. Told'
    <3>1. \A t \in Outcomes : wval[w] \notin AddsOf(opsLog, t)
      BY <2>1 DEF Books, Open, Outcomes, Successful, Failed
    <3> QED
      BY <1>0, <2>1, <2>2, <3>1 DEF Books, Told
  <2> QED
    BY <1>i, <2>3, <2>4, <2>5, <2>6 DEF Books
<1>5. CASE Record(w)
  <2> DEFINE type == LoggedType(outcome[wval[w]])
  <2>1. /\ wval' = wval /\ wpc'[w] = "loop" /\ wpc[w] = "record"
        /\ wval[w] \in Values
        /\ UNCHANGED <<counter, outcome, thread, db, inflight, dropped>>
    BY <1>5 DEF Record, TypeOK, InRange
  <2>2. type \in Outcomes
    <3>1. outcome[wval[w]] \in {"ok", "definite", "error", "timeout"}
      BY <2>1 DEF Books, Told, TypeOK
    <3> QED
      BY <3>1, LoggedTypes
  <2>3. Log(AddEvent(type, wval[w]))
    BY <1>5 DEF Record
  <2>4. /\ Attempted(opsLog') = Attempted(opsLog)
        /\ \A t \in Outcomes : AddsOf(opsLog', t)
                                 = AddsOf(opsLog, t) \cup (IF t = type THEN {wval[w]} ELSE {})
    <3> HIDE DEF type
    <3>1. type \in EventType /\ type # "invoke"
      BY <2>2 DEF Outcomes, EventType
    <3>2. \A t : AddsOf(opsLog', t)
                   = AddsOf(opsLog, t) \cup (IF t = type THEN {wval[w]} ELSE {})
      BY <2>1, <2>3, <3>1, AddLine
    <3> QED
      BY <3>1, <3>2 DEF Attempted
  <2>5. Resolved' = Resolved \cup {wval[w]}
    BY <2>2, <2>4 DEF Outcomes, Successful, Failed
  <2>6. Unique'
    BY <1>0, <2>1 DEF Books, Unique
  <2>7. Fresh'
    <3>1. /\ \A v \in Values : v > counter => Untouched(v)'
          /\ \A x \in Writers : wpc'[x] = "invoke" => Untouched(wval[x])'
      BY <1>0, <2>1, <2>4 DEF Books, Fresh, Untouched, Uncalled
    <3>2. \A x \in Writers : wpc'[x] = "call" => Uncalled(wval[x])'
      BY <1>0, <2>1 DEF Books, Fresh, Uncalled
    <3>3. \A x \in Writers : wpc'[x] \in {"call", "wait"} => outcome'[wval'[x]] = "none"
      BY <1>0, <2>1 DEF Books, Fresh
    <3> QED
      BY <2>1, <3>1, <3>2, <3>3 DEF Fresh
  <2>8. Open'
    BY <1>0, <2>1, <2>4, <2>5 DEF Books, Unique, Open
  <2>9. Told'
    <3>1. \A x \in Writers : wpc'[x] = "record" => outcome'[wval'[x]] # "none"
      BY <1>0, <2>1 DEF Books, Told
    <3>2. ASSUME NEW v \in Values, outcome'[v] # "none"
          PROVE  \/ v \in AddsOf(opsLog', LoggedType(outcome'[v]))
                 \/ \E x \in Writers : wpc'[x] = "record" /\ wval'[x] = v
      <4>1. CASE v = wval[w]
        BY <2>1, <2>2, <2>4, <4>1
      <4>2. CASE v # wval[w]
        <5>1. LoggedType(outcome[v]) \in Outcomes
          BY <2>1, <3>2, LoggedTypes DEF TypeOK
        <5> QED
          BY <1>0, <2>1, <2>4, <3>2, <4>2, <5>1 DEF Books, Told
      <4> QED
        BY <4>1, <4>2
    <3>3. \A v \in Values, t \in Outcomes : v \in AddsOf(opsLog', t) =>
            outcome'[v] # "none" /\ t = LoggedType(outcome'[v])
      BY <2>1, <2>4 DEF Books, Told
    <3> QED
      BY <3>1, <3>2, <3>3 DEF Told
  <2> QED
    BY <1>i, <2>6, <2>7, <2>8, <2>9 DEF Books
<1>6. CASE LeaveLoop(w)
  <2>1. /\ wpc'[w] = "done" /\ wpc[w] = "loop"
        /\ UNCHANGED <<wval, counter, opsLog, outcome, thread, db, inflight, dropped>>
    BY <1>6 DEF LeaveLoop, TypeOK
  <2> QED
    BY <1>0, <1>i, <2>1 DEF Books, Unique, Fresh, Untouched, Uncalled, Open, Told, Outcomes
<1> QED
  BY <1>1, <1>2, <1>3, <1>4, <1>5, <1>6 DEF Writer

\* A step that is no writer's leaves the books in order, if a value the
\* database has not heard of stays so.
LEMMA BooksKept ==
  ASSUME Books, UNCHANGED <<counter, wpc, wval, outcome>>,
         mpc' \in {"setup", "spawn"} => mpc \in {"setup", "spawn"},
         \A t : AddsOf(opsLog', t) = AddsOf(opsLog, t),
         \A v \in Values : Uncalled(v) => Uncalled(v)',
         \A w \in Writers : Begun(w) => wval[w] \in Values
  PROVE  Books'
<1> USE DEF Begun, Invoked
<1>1. Resolved' = Resolved /\ Attempted(opsLog') = Attempted(opsLog)
  BY DEF Resolved, Successful, Failed, Attempted
<1>2. Unique' /\ Idle'
  BY DEF Books, Unique, Idle
<1>3. Fresh'
  BY <1>1 DEF Books, Fresh, Untouched
<1>4. Open'
  BY <1>1 DEF Books, Open
<1>5. Told'
  BY DEF Books, Told
<1> QED
  BY <1>2, <1>3, <1>4, <1>5 DEF Books

LEMMA BooksMain ==
  ASSUME TypeOK, InRange, Books, Main
  PROVE  Books'
<1> USE OpTypes, OpsDistinct DEF progVars, mainVars, writerVars, dbVars
<1>1. \A t : AddsOf(opsLog', t) = AddsOf(opsLog, t)
  BY MainLines
<1>2. \A w \in Writers : Begun(w) => wval[w] \in Values
  BY DEF InRange, Begun
<1>3. CASE SpawnWriters
  <2>1. /\ \A w \in Writers : wpc[w] = "new" /\ wpc'[w] = "loop"
        /\ mpc' = "write"
        /\ UNCHANGED <<counter, opsLog, wval, outcome, thread, db, inflight, dropped>>
    BY <1>3 DEF SpawnWriters, Books, Idle
  <2> QED
    BY <2>1 DEF Books, Unique, Fresh, Open, Told, Idle, Begun, Invoked, Untouched, Uncalled,
                Applied, Resolved
<1>4. CASE ReadCall
  <2>1. /\ UNCHANGED <<counter, wpc, wval, outcome, db, inflight, dropped>>
        /\ mpc' = "read_wait"
        /\ \A v \in Values : thread'[Add(v)] = thread[Add(v)]
    BY <1>4 DEF ReadCall, InRange, TypeOK
  <2> QED
    BY <1>1, <1>2, <2>1, BooksKept DEF Uncalled, Applied
<1>5. CASE \/ Setup \/ EndWrites \/ JoinWriters \/ DrainTake \/ DrainJoin \/ DrainEnd
           \/ ClearStop \/ ReadInvoke \/ ReadAnswer \/ ReadTimeOut \/ EndReads
  <2>1. /\ UNCHANGED <<counter, wpc, wval, outcome, thread, db, inflight, dropped>>
        /\ mpc' \in {"setup", "spawn"} => mpc \in {"setup", "spawn"}
    BY <1>5 DEF Setup, EndWrites, JoinWriters, DrainTake, DrainJoin, DrainEnd, ClearStop,
                ReadInvoke, ReadAnswer, ReadTimeOut, EndReads
  <2> QED
    BY <1>1, <1>2, <2>1, BooksKept DEF Uncalled, Applied
<1> QED
  BY <1>3, <1>4, <1>5 DEF Main

LEMMA BooksDatabase ==
  ASSUME TypeOK, InRange, Books, Database
  PROVE  Books'
<1> USE OpTypes, OpsDistinct DEF progVars, mainVars, writerVars, dbVars
<1>1. UNCHANGED <<counter, mpc, opsLog, wpc, wval, outcome>>
  BY DEF Database, WorkerEnds, AddReturns, AddFails, AddErrors, ReadReturns, ReadErrors,
         DbApply, DbReject, DbLose, DbPhantom
<1>2. \A w \in Writers : Begun(w) => wval[w] \in Values
  BY DEF InRange, Begun
<1>3. \A v \in Values : Uncalled(v) => Uncalled(v)'
  <2>1. CASE WorkerEnds
    <3>1. /\ UNCHANGED <<db, inflight, dropped>>
          /\ \A op \in Ops : thread[op] = "none" => thread'[op] = "none"
      BY <2>1 DEF WorkerEnds, AddReturns, AddFails, AddErrors, ReadReturns, ReadErrors, Finish,
                  TypeOK
    <3> QED
      BY <3>1 DEF Uncalled, Applied
  <2>2. ASSUME NEW v \in Values, DbApply(v) \/ DbReject(v) \/ DbLose(v)
        PROVE  \A u \in Values : Uncalled(u) => Uncalled(u)'
    BY <2>2 DEF DbApply, DbReject, DbLose, Uncalled, Applied
  <2>3. CASE DbPhantom
    BY <2>3 DEF DbPhantom, Uncalled, Applied
  <2> QED
    BY <2>1, <2>2, <2>3 DEF Database
<1> QED
  BY <1>1, <1>2, <1>3, BooksKept

LEMMA BooksNext ==
  TypeOK /\ InRange /\ Books /\ [Next]_vars => Books'
<1> SUFFICES ASSUME TypeOK, InRange, Books, [Next]_vars
             PROVE  Books'
  OBVIOUS
<1>1. CASE Elapse \/ Stop \/ Terminated \/ UNCHANGED vars
  <2>1. UNCHANGED <<counter, mpc, opsLog, wpc, wval, outcome, thread, db, inflight, dropped>>
    BY <1>1 DEF Elapse, Stop, Terminated, vars, progVars, mainVars, writerVars, dbVars
  <2>2. \A w \in Writers : Begun(w) => wval[w] \in Values
    BY DEF InRange, Begun
  <2> QED
    BY <2>1, <2>2, BooksKept DEF Uncalled, Applied
<1> QED
  BY <1>1, BooksWriter, BooksMain, BooksDatabase DEF Next

LEMMA BooksInvariance == Spec => []Books
BY BooksInit, BooksNext, TypeCorrect, PTL DEF Spec

-----------------------------------------------------------------------------
(* The log is well formed: a line of add() is appended only for a value    *)
(* that has none, or for one that has an INVOKE line alone.                *)

\* What the log has of a value.
LEMMA LinesOf ==
  ASSUME TypeOK, NEW i \in DOMAIN opsLog, opsLog[i].action = "add"
  PROVE  /\ opsLog[i].value \in Attempted(opsLog) \cup Resolved
         /\ opsLog[i].value \notin Resolved => opsLog[i].type = "invoke"
<1>1. opsLog[i].type \in EventType /\ opsLog[i].value \in AddsOf(opsLog, opsLog[i].type)
  <2>1. opsLog[i] \in Event(Table)
    BY DEF TypeOK
  <2> QED
    BY <2>1 DEF Event, AddsOf
<1> QED
  BY <1>1 DEF EventType, Resolved, Attempted, Successful, Failed

LEMMA WellFormedAdd ==
  ASSUME TypeOK, WellFormedLog,
         NEW v \in Values, NEW type \in EventType, Log(AddEvent(type, v)),
         v \notin Resolved,
         type = "invoke" <=> v \notin Attempted(opsLog)
  PROVE  WellFormedLog'
<1>1. /\ DOMAIN opsLog' = DOMAIN opsLog \cup {Len(opsLog) + 1}
      /\ \A i \in DOMAIN opsLog : opsLog'[i] = opsLog[i] /\ i < Len(opsLog) + 1
      /\ opsLog'[Len(opsLog) + 1] = AddEvent(type, v)
  BY EventTypes, OpTypes DEF TypeOK, Log
<1>2. /\ AddEvent(type, v).value = v
      /\ AddEvent(type, v).type = type
  BY DEF AddEvent
<1>3. \A i \in DOMAIN opsLog : opsLog[i].action = "add" /\ opsLog[i].value = v =>
        opsLog[i].type = "invoke" /\ type # "invoke"
  BY LinesOf
<1>4. \A i \in DOMAIN opsLog' : ~(Len(opsLog) + 1 < i)
  BY <1>1 DEF TypeOK
<1> QED
  BY <1>1, <1>2, <1>3, <1>4 DEF WellFormedLog

LEMMA WellFormedRead ==
  ASSUME TypeOK, WellFormedLog,
         NEW vs \in SUBSET Table, NEW type \in EventType, Log(ReadEvent(type, vs))
  PROVE  WellFormedLog'
<1>1. /\ DOMAIN opsLog' = DOMAIN opsLog \cup {Len(opsLog) + 1}
      /\ \A i \in DOMAIN opsLog : opsLog'[i] = opsLog[i]
      /\ opsLog'[Len(opsLog) + 1] = ReadEvent(type, vs)
  BY EventTypes DEF TypeOK, Log
<1>2. ReadEvent(type, vs).action # "add"
  BY DEF ReadEvent
<1> QED
  BY <1>1, <1>2 DEF WellFormedLog

\* No value has two INVOKE lines or two outcomes, for any number of writers and
\* under every interleaving (WellFormedLog).
THEOREM LogWellFormed == Spec => []WellFormedLog
<1>1. Init => WellFormedLog
  BY DEF Init, WellFormedLog
<1>2. TypeOK /\ InRange /\ Books /\ WellFormedLog /\ [Next]_vars => WellFormedLog'
  <2> SUFFICES ASSUME TypeOK, InRange, Books, WellFormedLog, [Next]_vars
               PROVE  WellFormedLog'
    OBVIOUS
  <2>1. CASE UNCHANGED opsLog
    BY <2>1 DEF WellFormedLog
  <2>2. ASSUME NEW w \in Writers, Invoke(w)
        PROVE  WellFormedLog'
    <3>1. /\ wval[w] \in Values /\ "invoke" \in EventType
          /\ Log(AddEvent("invoke", wval[w]))
          /\ wval[w] \notin Attempted(opsLog)
      BY <2>2 DEF Invoke, InRange, EventType, Books, Fresh, Untouched
    <3> QED
      BY <3>1, WellFormedAdd DEF Books, Open
  <2>3. ASSUME NEW w \in Writers, Record(w)
        PROVE  WellFormedLog'
    <3> DEFINE type == LoggedType(outcome[wval[w]])
    <3>1. /\ wval[w] \in Values
          /\ Log(AddEvent(type, wval[w]))
          /\ wval[w] \in Attempted(opsLog) \ Resolved
      BY <2>3 DEF Record, InRange, Books, Open, Invoked
    <3>2. type \in EventType /\ type # "invoke"
      BY DEF LoggedType, EventType
    <3> HIDE DEF type
    <3> QED
      BY <3>1, <3>2, WellFormedAdd
  <2>4. CASE ReadInvoke \/ ReadTimeOut
    BY <2>4, WellFormedRead DEF ReadInvoke, ReadTimeOut, EventType
  <2>5. CASE ReadAnswer
    <3>1. snapshot[nodeIndex] \in SUBSET Table
      BY <2>5 DEF ReadAnswer, InRange, TypeOK
    <3>2. "ok" \in EventType /\ "fail" \in EventType /\ {} \in SUBSET Table
      BY DEF EventType
    <3> QED
      BY <2>5, <3>1, <3>2, WellFormedRead DEF ReadAnswer
  <2>6. \/ UNCHANGED opsLog
        \/ \E w \in Writers : Invoke(w) \/ Record(w)
        \/ ReadInvoke \/ ReadAnswer \/ ReadTimeOut
    BY DEF Next, Writer, TakeValue, Call, Answer, TimeOut, LeaveLoop, Main, Setup, SpawnWriters,
           EndWrites, JoinWriters, DrainTake, DrainJoin, DrainEnd, ClearStop, ReadCall,
           EndReads, Elapse, Stop, Database, WorkerEnds, AddReturns, AddFails, AddErrors,
           ReadReturns, ReadErrors, DbApply, DbReject, DbLose, DbPhantom, Terminated,
           vars, progVars
  <2> QED
    BY <2>1, <2>2, <2>3, <2>4, <2>5, <2>6
<1> QED
  BY <1>1, <1>2, BooksInvariance, TypeCorrect, PTL DEF Spec

-----------------------------------------------------------------------------
(* The threads implement SetTest.                                          *)

Reading == mpc \in ReadPhase \cup {"closed"}

\* Nothing changes in the log of what SetTest speaks of.
LEMMA StatusKept ==
  ASSUME \A t : AddsOf(opsLog', t) = AddsOf(opsLog, t)
  PROVE  Status' = Status
<1>1. /\ Attempted(opsLog') = Attempted(opsLog)
      /\ Successful(opsLog') = Successful(opsLog)
      /\ Failed(opsLog') = Failed(opsLog)
  BY DEF Attempted, Successful, Failed
<1> QED
  BY <1>1 DEF Status

LEMMA ReadingAfterJoin == Reading => mpc \in AfterJoin
BY DEF Reading, AfterJoin

LEMMA SetTestWriter ==
  ASSUME TypeOK, InRange, IInv, Books, NEW w \in Writers, Writer(w)
  PROVE  [Abstract!Next]_(Abstract!vars)
<1> USE DEF progVars, mainVars, writerVars, dbVars
<1>0. ~Reading /\ mpc' = mpc
  <2>1. wpc[w] # "done" /\ mpc' = mpc
    BY DEF Writer, TakeValue, Invoke, Call, Answer, TimeOut, Record, LeaveLoop
  <2> QED
    BY <2>1, ReadingAfterJoin DEF IInv, Phases
<1>1. CASE UNCHANGED opsLog
  BY <1>0, <1>1, StatusKept DEF Abstract!vars
<1>2. CASE Invoke(w)
  <2> DEFINE v == wval[w]
  <2>1. v \in Values /\ "invoke" \in EventType /\ Log(AddEvent("invoke", v))
    BY <1>2 DEF Invoke, InRange, EventType
  <2>2. v \notin Attempted(opsLog) /\ v \notin Resolved
    BY <1>2 DEF Invoke, Books, Fresh, Untouched, Open
  <2> HIDE DEF v
  <2>3. \A t : AddsOf(opsLog', t) = AddsOf(opsLog, t) \cup (IF t = "invoke" THEN {v} ELSE {})
    BY <2>1, AddLine
  <2>4. Status[v] = "unused" /\ Status' = [Status EXCEPT ![v] = "invoked"]
    <3>1. /\ Attempted(opsLog') = Attempted(opsLog) \cup {v}
          /\ Successful(opsLog') = Successful(opsLog)
          /\ Failed(opsLog') = Failed(opsLog)
      BY <2>3 DEF Attempted, Successful, Failed
    <3>2. /\ v \notin Successful(opsLog) /\ v \notin Failed(opsLog)
          /\ v \notin AddsOf(opsLog, "info") /\ AddsOf(opsLog', "info") = AddsOf(opsLog, "info")
      BY <2>2, <2>3 DEF Resolved, Successful, Failed
    <3> QED
      BY <2>1, <2>2, <3>1, <3>2 DEF Status
  <2>5. Abstract!Invoke(v)
    BY <1>0, <2>4 DEF Abstract!Invoke, Reading
  <2> QED
    BY <2>1, <2>5 DEF Abstract!Next
<1>3. CASE Record(w)
  <2> DEFINE v == wval[w]
             type == LoggedType(outcome[v])
  <2>1. v \in Values /\ Log(AddEvent(type, v)) /\ v \in Attempted(opsLog) \ Resolved
    BY <1>3 DEF Record, InRange, Books, Open, Invoked
  <2>2. type \in EventType /\ type \in Abstract!Outcomes /\ type # "invoke"
    BY DEF LoggedType, EventType, Abstract!Outcomes
  <2> HIDE DEF v, type
  <2>3. \A t : AddsOf(opsLog', t) = AddsOf(opsLog, t) \cup (IF t = type THEN {v} ELSE {})
    BY <2>1, <2>2, AddLine
  <2>4. Status[v] = "invoked" /\ Status' = [Status EXCEPT ![v] = type]
    <3>1. /\ v \in Attempted(opsLog)
          /\ v \notin Successful(opsLog) \cup Failed(opsLog) \cup AddsOf(opsLog, "info")
      BY <2>1 DEF Resolved
    <3>2. Status[v] = "invoked"
      BY <2>1, <3>1 DEF Status
    <3>3. \A u \in Values : Status'[u] = IF u = v THEN type ELSE Status[u]
      <4>1. CASE type = "ok"
        BY <2>1, <2>3, <3>1, <4>1 DEF Status, Attempted, Successful, Failed
      <4>2. CASE type = "fail"
        BY <2>1, <2>3, <3>1, <4>2 DEF Status, Attempted, Successful, Failed
      <4>3. CASE type = "info"
        BY <2>1, <2>3, <3>1, <4>3 DEF Status, Attempted, Successful, Failed
      <4> QED
        BY <2>2, <4>1, <4>2, <4>3 DEF Abstract!Outcomes
    <3>4. /\ Status = [u \in Values |-> Status[u]]
          /\ Status' = [u \in Values |-> Status'[u]]
      BY DEF Status
    <3> QED
      BY <2>1, <3>2, <3>3, <3>4
  <2>5. Abstract!Resolve(v)
    BY <1>0, <2>2, <2>4 DEF Abstract!Resolve, Reading
  <2> QED
    BY <2>1, <2>5 DEF Abstract!Next
<1> QED
  BY <1>1, <1>2, <1>3 DEF Writer, TakeValue, Call, Answer, TimeOut, LeaveLoop

LEMMA SetTestMain ==
  ASSUME TypeOK, InRange, IInv, Books, Main
  PROVE  [Abstract!Next]_(Abstract!vars)
<1> USE DEF progVars, mainVars, writerVars, dbVars
<1>1. Status' = Status
  BY MainLines, StatusKept
<1>2. CASE ClearStop
  <2>1. mpc = "clear" /\ mpc' = "read"
    BY <1>2 DEF ClearStop
  <2>2. \A w \in Writers : ~Invoked(w)
    BY <2>1 DEF AfterJoin, IInv, Phases, Invoked
  <2>3. Attempted(opsLog) \subseteq Resolved
    BY <2>2 DEF Books, Open
  <2>4. \A v \in Values : Status[v] # "invoked"
    BY <2>3 DEF Status, Resolved
  <2>5. Abstract!StartReads
    BY <1>1, <2>1, <2>4 DEF Abstract!StartReads, ReadPhase
  <2> QED
    BY <2>5 DEF Abstract!Next
<1>3. CASE ~ClearStop
  <2>1. Reading' = Reading
    BY <1>3 DEF Main, Setup, SpawnWriters, EndWrites, JoinWriters, DrainTake, DrainJoin,
                DrainEnd, ReadInvoke, ReadCall, ReadAnswer, ReadTimeOut, EndReads, Reading,
                ReadPhase
  <2> QED
    BY <1>1, <2>1 DEF Abstract!vars, Reading
<1> QED
  BY <1>2, <1>3

\* The writer threads, the main thread and the database together implement
\* SetTest, for any number of writers and values (ImplementsSetTest).
THEOREM SetTestImplemented == Spec => ImplementsSetTest
<1>1. Init => Abstract!Init
  <2> SUFFICES ASSUME Init PROVE Abstract!Init
    OBVIOUS
  <2>1. Attempted(opsLog) = {}
    BY DEF Init, Attempted, AddsOf
  <2> QED
    BY <2>1 DEF Init, Abstract!Init, Status, ReadPhase
<1>2. TypeOK /\ InRange /\ IInv /\ Books /\ [Next]_vars => [Abstract!Next]_(Abstract!vars)
  <2> SUFFICES ASSUME TypeOK, InRange, IInv, Books, [Next]_vars
               PROVE  [Abstract!Next]_(Abstract!vars)
    OBVIOUS
  <2>1. CASE Elapse \/ Stop \/ Database \/ Terminated \/ UNCHANGED vars
    <3>1. UNCHANGED <<opsLog, mpc>>
      BY <2>1 DEF Elapse, Stop, Database, WorkerEnds, AddReturns, AddFails, AddErrors,
                  ReadReturns, ReadErrors, DbApply, DbReject, DbLose, DbPhantom, Terminated,
                  vars, progVars, mainVars
    <3> QED
      BY <3>1 DEF Abstract!vars, Status
  <2> QED
    BY <2>1, SetTestWriter, SetTestMain DEF Next
<1>3. Spec => [][Abstract!Next]_(Abstract!vars)
  BY <1>2, TypeCorrect, Invariance, BooksInvariance, PTL DEF Spec
<1> QED
  BY <1>1, <1>3, PTL DEF Spec, ImplementsSetTest, Abstract!Spec

-----------------------------------------------------------------------------
(* What the log says of the database is true and complete.                 *)

\* A write takes effect once, and what is lost stays lost.
Once == dropped \cap db = {} /\ inflight \cap Applied = {}

\* A write that failed for good has had, and will have, no effect.
Honest ==
  "false_fail" \notin DbFaults =>
    \A v \in Values : "definite" \in {thread[Add(v)], outcome[v]} =>
      v \notin inflight \cup Applied

\* Only what was applied is read.
Seen ==
  /\ \A n \in 1 .. MaxReads : snapshot[n] \cap Values \subseteq Applied
  /\ FinalRead(opsLog) \cap Values \subseteq Applied

\* What the database did wrong before the reads it has not mended.
Early == /\ earlyFaults \cap Values \subseteq dropped
         /\ Phantom \in earlyFaults => Phantom \in db

\* The set of values read shows it.
Shown(vs) == /\ vs \cap Values \cap earlyFaults = {}
             /\ Phantom \in earlyFaults => Phantom \in vs

\* Every read shows it, because none is made before the read phase.
EarlyShown ==
  /\ mpc \notin ReadPhase \cup Over =>
       OkReads(opsLog) = {} /\ \A n \in 1 .. MaxReads : thread[Read(n)] = "none"
  /\ \A n \in 1 .. MaxReads : thread[Read(n)] = "ok" => Shown(snapshot[n])
  /\ OkReads(opsLog) # {} => Shown(FinalRead(opsLog))

Truth == Once /\ Honest /\ Seen /\ Early /\ EarlyShown

LEMMA TruthInit == Init => Truth
<1> SUFFICES ASSUME Init PROVE Truth
  OBVIOUS
<1>1. OkReads(opsLog) = {} /\ FinalRead(opsLog) = {}
  BY DEF Init, OkReads, FinalRead
<1>2. \A op \in Ops : thread[op] = "none"
  BY DEF Init
<1> QED
  BY <1>1, <1>2, OpTypes
     DEF Init, Truth, Once, Honest, Seen, Early, EarlyShown, Applied

\* A writer logs no read.
LEMMA WriterReads ==
  ASSUME TypeOK, InRange, IInv, NEW w \in Writers, Writer(w)
  PROVE  /\ OkReads(opsLog') # {} <=> OkReads(opsLog) # {}
         /\ FinalRead(opsLog') = FinalRead(opsLog)
<1>1. CASE UNCHANGED opsLog
  BY <1>1
<1>2. ASSUME NEW type \in EventType, wval[w] \in Values, Log(AddEvent(type, wval[w]))
      PROVE  /\ OkReads(opsLog') # {} <=> OkReads(opsLog) # {}
             /\ FinalRead(opsLog') = FinalRead(opsLog)
  BY <1>2, LogsAdd DEF IInv
<1>3. CASE Invoke(w)
  BY <1>2, <1>3 DEF Invoke, InRange, EventType
<1>4. CASE Record(w)
  <2>1. LoggedType(outcome[wval[w]]) \in EventType
    BY DEF LoggedType, EventType
  <2> QED
    BY <1>2, <1>4, <2>1 DEF Record, InRange
<1> QED
  BY <1>1, <1>3, <1>4
     DEF Writer, TakeValue, Call, Answer, TimeOut, LeaveLoop, progVars

LEMMA TruthWriter ==
  ASSUME TypeOK, InRange, IInv, Books, Truth, NEW w \in Writers, Writer(w)
  PROVE  Truth'
<1> USE OpTypes, OpsDistinct DEF progVars, mainVars, writerVars, dbVars
<1>1. UNCHANGED <<mpc, snapshot, db, dropped, earlyFaults>>
  BY DEF Writer, TakeValue, Invoke, Call, Answer, TimeOut, Record, LeaveLoop
<1>2. Seen' /\ Early'
  BY <1>1, WriterReads DEF Truth, Seen, Early, Applied
<1>3. CASE Call(w)
  <2>1. /\ wval[w] \in Values /\ Uncalled(wval[w]) /\ outcome[wval[w]] = "none"
        /\ UNCHANGED outcome
        /\ inflight' = inflight \cup {wval[w]}
        /\ thread'[Add(wval[w])] = "running"
        /\ \A op \in Ops : op # Add(wval[w]) => thread'[op] = thread[op]
    BY <1>3 DEF Call, InRange, TypeOK, Books, Fresh
  <2>2. Once'
    BY <1>1, <2>1 DEF Truth, Once, Uncalled, Applied
  <2>3. Honest'
    BY <1>1, <2>1 DEF Truth, Honest, Applied
  <2>4. EarlyShown'
    BY <1>1, <2>1, WriterReads DEF Truth, EarlyShown, Shown
  <2> QED
    BY <1>2, <2>2, <2>3, <2>4 DEF Truth
<1>4. CASE ~Call(w)
  <2>1. UNCHANGED <<thread, inflight>>
    BY <1>4 DEF Writer, TakeValue, Invoke, Answer, TimeOut, Record, LeaveLoop
  <2>2. \A v \in Values : outcome'[v] = "definite" =>
          "definite" \in {thread[Add(v)], outcome[v]}
    BY <1>4 DEF Writer, TakeValue, Invoke, Answer, TimeOut, Record, LeaveLoop, TypeOK
  <2>3. Once' /\ Honest'
    BY <1>1, <2>1, <2>2 DEF Truth, Once, Honest, Applied
  <2>4. EarlyShown'
    BY <1>1, <2>1, WriterReads DEF Truth, EarlyShown, Shown
  <2> QED
    BY <1>2, <2>3, <2>4 DEF Truth
<1> QED
  BY <1>3, <1>4

\* A line of read() says what the database held.
LEMMA TruthRead ==
  ASSUME TypeOK, HasLast(opsLog), Truth,
         NEW vs \in SUBSET Table, NEW type \in EventType, Log(ReadEvent(type, vs)),
         UNCHANGED <<thread, outcome, snapshot, db, inflight, dropped, earlyFaults>>,
         mpc' \in ReadPhase,
         type = "ok" => vs \cap Values \subseteq Applied /\ Shown(vs)
  PROVE  Truth'
<1>1. /\ OkReads(opsLog') # {} <=> OkReads(opsLog) # {} \/ type = "ok"
      /\ FinalRead(opsLog') = IF type = "ok" THEN vs ELSE FinalRead(opsLog)
  BY LogsRead
<1>2. Once' /\ Honest' /\ Early'
  BY DEF Truth, Once, Honest, Early, Applied
<1>3. Seen'
  BY <1>1 DEF Truth, Seen, Applied
<1>4. EarlyShown'
  BY <1>1 DEF Truth, EarlyShown, Shown
<1> QED
  BY <1>2, <1>3, <1>4 DEF Truth

LEMMA TruthMain ==
  ASSUME TypeOK, InRange, IInv, Truth, Main
  PROVE  Truth'
<1> USE OpTypes, OpsDistinct DEF progVars, mainVars, writerVars, dbVars
<1>1. UNCHANGED <<outcome, snapshot, db, inflight, dropped, earlyFaults>>
  BY DEF Main, Setup, SpawnWriters, EndWrites, JoinWriters, DrainTake, DrainJoin, DrainEnd,
         ClearStop, ReadInvoke, ReadCall, ReadAnswer, ReadTimeOut, EndReads
<1>2. CASE \/ Setup \/ SpawnWriters \/ EndWrites \/ JoinWriters \/ DrainTake \/ DrainJoin
           \/ DrainEnd \/ ClearStop \/ EndReads
  <2>1. UNCHANGED <<opsLog, thread>>
    BY <1>2 DEF Setup, SpawnWriters, EndWrites, JoinWriters, DrainTake, DrainJoin, DrainEnd,
                ClearStop, EndReads
  <2>2. mpc' \notin ReadPhase \cup Over => mpc \notin ReadPhase \cup Over
    BY <1>2 DEF Setup, SpawnWriters, EndWrites, JoinWriters, DrainTake, DrainJoin, DrainEnd,
                ClearStop, EndReads, ReadPhase, Over
  <2> QED
    BY <1>1, <2>1, <2>2 DEF Truth, Once, Honest, Seen, Early, EarlyShown, Shown, Applied
<1>3. CASE ReadCall
  <2>1. /\ UNCHANGED opsLog /\ mpc \in ReadPhase /\ mpc' \in ReadPhase
        /\ nodeIndex \in 1 .. MaxReads
        /\ thread'[Read(nodeIndex)] = "running"
        /\ \A op \in Ops : op # Read(nodeIndex) => thread'[op] = thread[op]
    BY <1>3 DEF ReadCall, InRange, TypeOK, ReadPhase
  <2>2. Once' /\ Seen' /\ Early'
    BY <1>1, <2>1 DEF Truth, Once, Seen, Early, Applied
  <2>3. Honest'
    BY <1>1, <2>1 DEF Truth, Honest, Applied
  <2>4. EarlyShown'
    BY <1>1, <2>1 DEF Truth, EarlyShown, Shown
  <2> QED
    BY <2>2, <2>3, <2>4 DEF Truth
<1>4. CASE ReadInvoke \/ ReadTimeOut
  <2>1. /\ mpc' \in ReadPhase /\ UNCHANGED thread
        /\ {} \in SUBSET Table /\ {"invoke", "fail"} \subseteq EventType
        /\ Log(ReadEvent("invoke", {})) \/ Log(ReadEvent("fail", {}))
    BY <1>4 DEF ReadInvoke, ReadTimeOut, ReadPhase, EventType
  <2> QED
    BY <1>1, <2>1, TruthRead DEF IInv
<1>5. CASE ReadAnswer
  <2>1. /\ nodeIndex \in 1 .. MaxReads /\ snapshot[nodeIndex] \in SUBSET Table
        /\ mpc' \in ReadPhase /\ UNCHANGED thread
        /\ {} \in SUBSET Table /\ {"ok", "fail"} \subseteq EventType
    BY <1>5 DEF ReadAnswer, InRange, TypeOK, ReadPhase, EventType
  <2>2. CASE thread[Read(nodeIndex)] = "ok"
    <3>1. Log(ReadEvent("ok", snapshot[nodeIndex]))
      BY <1>5, <2>2 DEF ReadAnswer
    <3>2. /\ snapshot[nodeIndex] \cap Values \subseteq Applied
          /\ Shown(snapshot[nodeIndex])
      BY <2>1, <2>2 DEF Truth, Seen, EarlyShown
    <3> QED
      BY <1>1, <2>1, <3>1, <3>2, TruthRead DEF IInv
  <2>3. CASE thread[Read(nodeIndex)] # "ok"
    <3>1. Log(ReadEvent("fail", {}))
      BY <1>5, <2>3 DEF ReadAnswer
    <3> QED
      BY <1>1, <2>1, <3>1, TruthRead DEF IInv
  <2> QED
    BY <2>2, <2>3
<1> QED
  BY <1>2, <1>3, <1>4, <1>5 DEF Main

LEMMA TruthDatabase ==
  ASSUME TypeOK, InRange, Truth, Database
  PROVE  Truth'
<1> USE OpTypes, OpsDistinct DEF progVars, mainVars, writerVars, dbVars
<1>1. UNCHANGED <<opsLog, mpc, outcome>> /\ mpc \notin Over
  BY DEF Database, WorkerEnds, AddReturns, AddFails, AddErrors, ReadReturns, ReadErrors,
         DbApply, DbReject, DbLose, DbPhantom
<1>2. ASSUME NEW v \in Values, AddReturns(v) \/ AddFails(v) \/ AddErrors(v)
      PROVE  Truth'
  <2>1. /\ UNCHANGED <<snapshot, db, inflight, dropped, earlyFaults>>
        /\ thread'[Add(v)] = "definite" =>
             v \notin inflight \cup Applied \/ "false_fail" \in DbFaults
        /\ \A op \in Ops : op # Add(v) => thread'[op] = thread[op]
    BY <1>2 DEF AddReturns, AddFails, AddErrors, Finish, TypeOK
  <2>2. Once' /\ Seen' /\ Early'
    BY <1>1, <2>1 DEF Truth, Once, Seen, Early, Applied
  <2>3. Honest'
    BY <1>1, <2>1 DEF Truth, Honest, Applied
  <2>4. EarlyShown'
    BY <1>1, <2>1 DEF Truth, EarlyShown, Shown
  <2> QED
    BY <2>2, <2>3, <2>4 DEF Truth
<1>3. ASSUME NEW n \in 1 .. MaxReads, ReadReturns(n) \/ ReadErrors(n)
      PROVE  Truth'
  <2>1. /\ UNCHANGED <<db, inflight, dropped, earlyFaults>> /\ thread[Read(n)] = "running"
        /\ \A op \in Ops : op # Read(n) => thread'[op] = thread[op]
        /\ \A m \in 1 .. MaxReads : m # n => snapshot'[m] = snapshot[m]
        /\ \/ thread'[Read(n)] = "ok" /\ snapshot'[n] = db
           \/ thread'[Read(n)] = "error" /\ snapshot'[n] = snapshot[n]
    BY <1>3 DEF ReadReturns, ReadErrors, Finish, TypeOK
  <2>2. db \cap Values \subseteq Applied /\ Shown(db)
    BY DEF Applied, Truth, Once, Early, Shown
  <2>3. Once' /\ Early'
    BY <2>1 DEF Truth, Once, Early, Applied
  <2>4. Honest'
    BY <1>1, <2>1 DEF Truth, Honest, Applied
  <2>5. Seen'
    BY <1>1, <2>1, <2>2 DEF Truth, Seen, Applied
  <2>6. EarlyShown'
    BY <1>1, <2>1, <2>2 DEF Truth, EarlyShown, Shown
  <2> QED
    BY <2>3, <2>4, <2>5, <2>6 DEF Truth
<1>4. ASSUME NEW v \in Values, DbApply(v) \/ DbReject(v)
      PROVE  Truth'
  <2>1. /\ UNCHANGED <<thread, snapshot, dropped, earlyFaults>>
        /\ v \in inflight /\ inflight' = inflight \ {v}
        /\ db' = db \/ db' = db \cup {v}
    BY <1>4 DEF DbApply, DbReject
  <2>2. Once' /\ Honest'
    BY <1>1, <2>1 DEF Truth, Once, Honest, Applied
  <2>3. Seen' /\ Early'
    BY <1>1, <2>1 DEF Truth, Seen, Early, Applied
  <2>4. EarlyShown'
    BY <1>1, <2>1 DEF Truth, EarlyShown, Shown
  <2> QED
    BY <2>2, <2>3, <2>4 DEF Truth
<1>5. ASSUME NEW v \in Table, NoteFault(v), UNCHANGED thread, UNCHANGED snapshot
      PROVE  EarlyShown'
  BY <1>1, <1>5 DEF NoteFault, Truth, EarlyShown, Shown
<1>6. ASSUME NEW v \in Values, DbLose(v)
      PROVE  Truth'
  <2>1. /\ UNCHANGED <<thread, snapshot, inflight>>
        /\ v \in db /\ db' = db \ {v} /\ dropped' = dropped \cup {v} /\ NoteFault(v)
    BY <1>6 DEF DbLose
  <2>2. Applied' = Applied
    BY <2>1 DEF Applied
  <2>3. Once' /\ Honest' /\ Seen'
    BY <1>1, <2>1, <2>2 DEF Truth, Once, Honest, Seen
  <2>4. Early'
    BY <2>1 DEF Truth, Early, NoteFault
  <2> QED
    BY <1>5, <2>1, <2>3, <2>4 DEF Truth
<1>7. CASE DbPhantom
  <2>1. /\ UNCHANGED <<thread, snapshot, inflight, dropped>>
        /\ db' = db \cup {Phantom} /\ NoteFault(Phantom)
    BY <1>7 DEF DbPhantom
  <2>2. Applied' = Applied
    BY <2>1 DEF Applied
  <2>3. Once' /\ Honest' /\ Seen'
    BY <1>1, <2>1, <2>2 DEF Truth, Once, Honest, Seen, TypeOK
  <2>4. Early'
    BY <2>1 DEF Truth, Early, NoteFault
  <2> QED
    BY <1>5, <2>1, <2>3, <2>4 DEF Truth
<1> QED
  BY <1>2, <1>3, <1>4, <1>6, <1>7 DEF Database, WorkerEnds

LEMMA TruthInvariance == Spec => []Truth
<1>1. TypeOK /\ InRange /\ IInv /\ Books /\ Truth /\ [Next]_vars => Truth'
  <2> SUFFICES ASSUME TypeOK, InRange, IInv, Books, Truth, [Next]_vars
               PROVE  Truth'
    OBVIOUS
  <2>1. CASE Elapse \/ Stop \/ Terminated \/ UNCHANGED vars
    <3>1. UNCHANGED <<opsLog, outcome, thread, snapshot, db, inflight, dropped, earlyFaults>>
      BY <2>1 DEF Elapse, Stop, Terminated, vars, progVars, writerVars, dbVars
    <3>2. mpc' = mpc
      BY <2>1 DEF Elapse, Stop, Terminated, vars, mainVars
    <3> QED
      BY <3>1, <3>2 DEF Truth, Once, Honest, Seen, Early, EarlyShown, Shown, Applied
  <2> QED
    BY <2>1, TruthWriter, TruthMain, TruthDatabase DEF Next
<1> QED
  BY <1>1, TruthInit, TypeCorrect, Invariance, BooksInvariance, PTL DEF Spec

\* At the end of a run the log has the outcome of every value.
LEMMA AllTold ==
  ASSUME Books, IInv, mpc = "closed"
  PROVE  /\ Confirmed \subseteq Successful(opsLog)
         /\ \A v \in Attempted(opsLog) : v \in Values /\ outcome[v] # "none"
<1>1. \A w \in Writers : wpc[w] # "record" /\ ~Invoked(w)
  BY DEF IInv, Phases, AfterJoin, Invoked
<1>2. Confirmed \subseteq Successful(opsLog)
  BY <1>1 DEF Books, Told, Confirmed, LoggedType, Successful
<1>3. Attempted(opsLog) \subseteq Resolved /\ Attempted(opsLog) \subseteq Values
  BY <1>1 DEF Books, Open
<1> QED
  BY <1>2, <1>3 DEF Resolved, Books, Told, Outcomes, Successful, Failed

\* What the database lost, of the confirmed values, or made up before the read
\* phase is in the verdict, for every database and every interleaving
\* (FaultsDetected).
THEOREM DetectsFaults == Spec => []FaultsDetected
<1>1. TypeOK /\ IInv /\ Books /\ Truth => FaultsDetected
  <2> SUFFICES ASSUME TypeOK, IInv, Books, Truth, Judged
               PROVE  /\ Confirmed \cap earlyFaults \subseteq Verdict.lost
                      /\ earlyFaults \cap {Phantom} \subseteq Verdict.unexpected
                      /\ Verdict.valid => (Confirmed \cup {Phantom}) \cap earlyFaults = {}
    BY DEF FaultsDetected
  <2>1. /\ Verdict.lost = Successful(opsLog) \ FinalRead(opsLog)
        /\ Verdict.unexpected = FinalRead(opsLog) \ Attempted(opsLog)
        /\ Verdict.valid <=> Verdict.lost = {} /\ Verdict.unexpected = {}
    BY DEF Judged, Verdict, CheckConsistency, Lost, Unexpected
  <2>2. Shown(FinalRead(opsLog)) /\ mpc = "closed"
    BY DEF Judged, Truth, EarlyShown
  <2>3. Confirmed \cap earlyFaults \subseteq Verdict.lost
    BY <2>1, <2>2, AllTold DEF Shown, Confirmed
  <2>4. earlyFaults \cap {Phantom} \subseteq Verdict.unexpected
    BY <2>1, <2>2, AllTold, OpsDistinct DEF Shown
  <2> QED
    BY <2>1, <2>3, <2>4
<1> QED
  BY <1>1, TypeCorrect, Invariance, BooksInvariance, TruthInvariance, PTL

\* If the client's definite failures are definite, a recovered value is one
\* whose write timed out or failed without a reason (RecoveredAreIndeterminate).
THEOREM RecoveredIndeterminate ==
  ASSUME "false_fail" \notin DbFaults
  PROVE  Spec => []RecoveredAreIndeterminate
<1>1. TypeOK /\ IInv /\ Books /\ Truth => RecoveredAreIndeterminate
  <2> SUFFICES ASSUME TypeOK, IInv, Books, Truth, Judged, NEW v \in Verdict.recovered
               PROVE  outcome[v] \in {"timeout", "error"}
    BY DEF RecoveredAreIndeterminate
  <2>1. v \in FinalRead(opsLog) \cap Attempted(opsLog) /\ v \notin Successful(opsLog)
    BY DEF Judged, Verdict, CheckConsistency, Recovered
  <2>2. v \in Values /\ outcome[v] # "none" /\ v \notin Confirmed
    BY <2>1, AllTold DEF Judged
  <2>3. v \in Applied
    BY <2>1, <2>2 DEF Truth, Seen
  <2>4. outcome[v] # "definite"
    BY <2>2, <2>3 DEF Truth, Honest
  <2> QED
    BY <2>2, <2>4 DEF Confirmed, TypeOK
<1> QED
  BY <1>1, TypeCorrect, Invariance, BooksInvariance, TruthInvariance, PTL
=============================================================================
