------------------------ MODULE LocalTransportProofs ------------------------
(***************************************************************************)
(* For any number of calls: the local transport leaves no process behind,  *)
(* and is a Transport.  A process is alive only in the stages between its  *)
(* start and the end of the wait for it.                                   *)
(***************************************************************************)
EXTENDS LocalTransport, TLAPS

Alive ==
    \A c \in Calls :
        /\ process[c] = "alive" => pc[c] \in {"communicating", "timed_out"}
        /\ pc[c] = "spawning" => process[c] = "none"
        /\ pc[c] \notin Pending \ {"spawning"} => ran[c] = 0

LocalInv == TypeOK /\ Alive

Steps(c) ==
    Begin(c) \/ Execute(c) \/ script_runs(c) \/ exits(c)

\* Every step of a call leaves the others alone and keeps the types.
LEMMA StepType ==
    ASSUME TypeOK, NEW c \in Calls, Steps(c)
    PROVE  /\ TypeOK'
           /\ \A d \in Calls \ {c} :
                pc'[d] = pc[d] /\ process'[d] = process[d] /\ ran'[d] = ran[d]
<1>1. CASE Begin(c) \/ script_runs(c) \/ exits(c)
  BY <1>1 DEF TypeOK, Begin, script_runs, exits, Pending, Answered
<1>2. CASE spawn(c) \/ communicate_times_out(c) \/ kill(c)
  BY <1>2 DEF TypeOK, spawn, communicate_times_out, kill, Pending, Answered
<1>3. CASE spawn_fails(c) \/ communicate_returns(c) \/ reraise(c)
  BY <1>3 DEF TypeOK, spawn_fails, communicate_returns, reraise, Answer, Pending, Answered
<1> QED
  BY <1>1, <1>2, <1>3 DEF Steps, Execute

\* A step of one call leaves Alive true, of that call and of the others.
LEMMA StepAlive ==
    ASSUME LocalInv, NEW c \in Calls, Steps(c)
    PROVE  Alive'
<1>1. \A d \in Calls \ {c} :
        pc'[d] = pc[d] /\ process'[d] = process[d] /\ ran'[d] = ran[d]
  BY StepType DEF LocalInv
<1>2. /\ process'[c] = "alive" => pc'[c] \in {"communicating", "timed_out"}
      /\ pc'[c] = "spawning" => process'[c] = "none"
      /\ pc'[c] \notin Pending \ {"spawning"} => ran'[c] = 0
  <2>1. CASE Begin(c) \/ script_runs(c) \/ exits(c)
    BY <2>1 DEF LocalInv, Alive, TypeOK, Begin, script_runs, exits, Pending, Answered
  <2>2. CASE spawn(c) \/ communicate_times_out(c) \/ kill(c)
    BY <2>2 DEF LocalInv, Alive, TypeOK, spawn, communicate_times_out, kill, Pending
  <2>3. CASE spawn_fails(c) \/ communicate_returns(c) \/ reraise(c)
    BY <2>3 DEF LocalInv, Alive, TypeOK, spawn_fails, communicate_returns, reraise, Answer,
                Pending, Answered
  <2>4. QED
    BY <2>1, <2>2, <2>3 DEF Steps, Execute
<1> QED
  BY <1>1, <1>2 DEF LocalInv, Alive

\* The inductive invariant of the local transport holds in every state.
LEMMA LocalInvariant == Spec => []LocalInv
<1>1. Init => LocalInv
  BY DEF Init, LocalInv, TypeOK, Alive, Pending
<1>2. LocalInv /\ [Next]_vars => LocalInv'
  <2> SUFFICES ASSUME LocalInv, [Next]_vars PROVE LocalInv'
    OBVIOUS
  <2>1. CASE UNCHANGED vars
    BY <2>1 DEF vars, LocalInv, TypeOK, Alive
  <2>2. ASSUME NEW c \in Calls, Steps(c) PROVE LocalInv'
    BY <2>2, StepType, StepAlive DEF LocalInv
  <2>3. QED
    BY <2>1, <2>2 DEF Next, Steps
<1>3. QED
  BY <1>1, <1>2, PTL DEF Spec

-----------------------------------------------------------------------------
(* Theorems *)

\* A call that times out has its process killed before it is answered, so that
\* no script of the local transport runs after its request.
THEOREM NoLateScript == Spec => []NothingRunsLate
<1>1. LocalInv => NothingRunsLate
  BY DEF LocalInv, Alive, NothingRunsLate, Pending
<1>2. QED
  BY <1>1, LocalInvariant, PTL

\* A step of a call is one of the transport, or none that can be seen.
LEMMA StepMaps ==
    ASSUME LocalInv, NEW c \in Calls, Steps(c), TypeOK'
    PROVE  T!Next \/ UNCHANGED T!vars
<1> DEFINE state == [d \in Calls |-> IF pc[d] \in Pending THEN "pending" ELSE pc[d]]
           late == [d \in Calls |-> 0]
<1> USE DEF LocalInv, TypeOK, Alive
<1>1. CASE Begin(c)
  <2>1. T!Begin(c)
    BY <1>1 DEF Begin, T!Begin, Pending, Answered
  <2>2. QED
    BY <2>1 DEF T!Next
<1>2. CASE spawn(c) \/ communicate_times_out(c) \/ kill(c) \/ exits(c)
  BY <1>2 DEF spawn, communicate_times_out, kill, exits, T!vars, Pending
<1>3. CASE script_runs(c)
  <2>1. T!Run(c)
    BY <1>3 DEF script_runs, T!Run, T!MayRun, Pending
  <2>2. QED
    BY <2>1 DEF T!Next
<1>4. ASSUME NEW outcome \in Answered, Answer(c, outcome), pc[c] \in Pending,
             outcome = "result" => ran[c] = 1
      PROVE  T!Next
  <2>1. state[c] = "pending" /\ state' = [state EXCEPT ![c] = outcome]
    <3>1. \A d \in Calls : pc'[d] = IF d = c THEN outcome ELSE pc[d]
      BY <1>4 DEF Answer
    <3>2. outcome \notin Pending
      BY DEF Pending, Answered
    <3>3. \A d \in Calls : state'[d] = IF d = c THEN outcome ELSE state[d]
      BY <3>1, <3>2
    <3>4. QED
      BY <1>4, <3>3
  <2>2. ran' = [ran EXCEPT ![c] = 0]
    BY <1>4 DEF Answer
  <2>3. late' = late
    OBVIOUS
  <2>4. T!Answer(c, outcome)
    <3>1. outcome = "result" => ran[c] > 0
      BY <1>4
    <3>2. QED
      BY <2>1, <2>2, <2>3, <3>1 DEF T!Answer
  <2>5. QED
    BY <2>4 DEF T!Next, Answered
<1>5. CASE spawn_fails(c) \/ communicate_returns(c) \/ reraise(c)
  <2>1. \E outcome \in Answered :
          /\ Answer(c, outcome)
          /\ outcome = "result" => ran[c] = 1
    BY <1>5 DEF spawn_fails, communicate_returns, reraise, Answered
  <2>2. pc[c] \in Pending
    BY <1>5 DEF spawn_fails, communicate_returns, reraise, Pending
  <2>3. QED
    BY <2>1, <2>2, <1>4
<1> QED
  BY <1>1, <1>2, <1>3, <1>5 DEF Steps, Execute

\* The local transport implements Transport: what ScopeService takes a script
\* to be able to do covers both ways of running one.
THEOREM LocalImplementsTransport == Spec => ImplementsTransport
<1>1. Init => T!Init
  BY DEF Init, T!Init, Pending
<1>2. LocalInv /\ LocalInv' /\ [Next]_vars => [T!Next]_(T!vars)
  <2> SUFFICES ASSUME LocalInv, LocalInv', [Next]_vars PROVE [T!Next]_(T!vars)
    OBVIOUS
  <2>1. CASE UNCHANGED vars
    BY <2>1 DEF vars, T!vars
  <2>2. ASSUME NEW c \in Calls, Steps(c) PROVE [T!Next]_(T!vars)
    BY <2>2, StepMaps DEF LocalInv
  <2>3. QED
    BY <2>1, <2>2 DEF Next, Steps
<1>3. QED
  BY <1>1, <1>2, LocalInvariant, PTL DEF Spec, T!Spec, ImplementsTransport
=============================================================================
