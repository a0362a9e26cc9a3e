--------------------------- MODULE EnvGuardProofs ---------------------------
(***************************************************************************)
(* For any number of callers and any TTL, through failing hosts and raised *)
(* probes: one probe at a time, no refusal older than the TTL, no probe    *)
(* sooner.                                                                 *)
(*                                                                         *)
(* The invariant adds that the prober heads the queue of the lock, that    *)
(* each pending call is in it once, and how the two clocks go together:    *)
(* what is left of the TTL is what has not passed since the failure.       *)
(***************************************************************************)
EXTENDS EnvGuard, TLAPS

DataType ==
    /\ setup \in {"psrp", "windows", "other"}
    /\ up \in BOOLEAN
    /\ checks \in Seq(Check)
    /\ cache \in {"unset", "ok", "failed"}
    /\ ttl \in 0 .. TTL
    /\ age \in 0 .. TTL

CallType ==
    /\ queue \in Seq(Callers)
    /\ pc \in [Callers -> {"idle"} \cup Pending \cup Answered]

Queued ==
    /\ \A c \in Callers : pc[c] \in Pending <=> \E i \in 1 .. Len(queue) : queue[i] = c
    /\ \A i, j \in 1 .. Len(queue) : queue[i] = queue[j] => i = j

ProberHeadsQueue ==
    \A c \in Callers : pc[c] = "probing" => queue # << >> /\ Head(queue) = c

\* A probe checks something, and has begun by forgetting what was cached.
Probing ==
    (\E c \in Callers : pc[c] = "probing") => checks # << >> /\ cache = "unset"

Clock ==
    /\ ttl + age = TTL
    /\ cache # "failed" => age = TTL

Calls == CallType /\ Queued /\ ProberHeadsQueue

GuardInv == DataType /\ Calls /\ Probing /\ Clock

-----------------------------------------------------------------------------
(* The queue of the lock *)

\* A caller that is not in the queue joins at its end, and the head stays.
LEMMA JoinFacts ==
    ASSUME NEW q \in Seq(Callers), NEW c \in Callers,
           \A i \in 1 .. Len(q) : q[i] # c,
           \A i, j \in 1 .. Len(q) : q[i] = q[j] => i = j
    PROVE  /\ Append(q, c) \in Seq(Callers)
           /\ Append(q, c) # << >>
           /\ q # << >> => Head(Append(q, c)) = Head(q)
           /\ \A d \in Callers :
                (\E i \in 1 .. Len(Append(q, c)) : Append(q, c)[i] = d)
                  <=> d = c \/ \E i \in 1 .. Len(q) : q[i] = d
           /\ \A i, j \in 1 .. Len(Append(q, c)) :
                Append(q, c)[i] = Append(q, c)[j] => i = j
<1> DEFINE n == Len(q)
           p == Append(q, c)
<1>1. n \in Nat /\ Len(p) = n + 1 /\ p \in Seq(Callers)
  OBVIOUS
<1>2. p[n + 1] = c /\ \A i \in 1 .. n : p[i] = q[i]
  OBVIOUS
<1>3. \A i \in 1 .. n + 1 : i = n + 1 \/ i \in 1 .. n
  BY <1>1
<1>4. p # << >> /\ (q # << >> => Head(p) = Head(q))
  BY <1>1, <1>2
<1>5. \A d \in Callers :
        (\E i \in 1 .. Len(p) : p[i] = d) <=> d = c \/ \E i \in 1 .. n : q[i] = d
  <2>1. 1 .. n \subseteq 1 .. Len(p) /\ n + 1 \in 1 .. Len(p)
    BY <1>1
  <2>2. QED
    BY <2>1, <1>1, <1>2, <1>3
<1>6. \A i, j \in 1 .. Len(p) : p[i] = p[j] => i = j
  BY <1>1, <1>2, <1>3
<1> QED
  BY <1>1, <1>4, <1>5, <1>6

\* The head leaves, and everybody else stays, in the same order.
LEMMA LeaveFacts ==
    ASSUME NEW q \in Seq(Callers), q # << >>,
           \A i, j \in 1 .. Len(q) : q[i] = q[j] => i = j
    PROVE  /\ Tail(q) \in Seq(Callers)
           /\ \A d \in Callers :
                (\E i \in 1 .. Len(Tail(q)) : Tail(q)[i] = d)
                  <=> d # Head(q) /\ \E i \in 1 .. Len(q) : q[i] = d
           /\ \A i, j \in 1 .. Len(Tail(q)) : Tail(q)[i] = Tail(q)[j] => i = j
<1> DEFINE n == Len(q)
           p == Tail(q)
<1>1. n \in Nat \ {0} /\ Len(p) = n - 1 /\ p \in Seq(Callers)
  OBVIOUS
<1>2. Head(q) = q[1] /\ \A i \in 1 .. n - 1 : p[i] = q[i + 1] /\ i + 1 \in 1 .. n
  BY <1>1
<1>3. \A i \in 1 .. n : i = 1 \/ (i - 1 \in 1 .. n - 1 /\ p[i - 1] = q[i])
  BY <1>1, <1>2
<1>4. \A d \in Callers :
        (\E i \in 1 .. n - 1 : p[i] = d)
          <=> d # Head(q) /\ \E i \in 1 .. n : q[i] = d
  <2> SUFFICES ASSUME NEW d \in Callers
               PROVE  (\E i \in 1 .. n - 1 : p[i] = d)
                        <=> d # Head(q) /\ \E i \in 1 .. n : q[i] = d
    OBVIOUS
  <2>1. ASSUME NEW i \in 1 .. n - 1, p[i] = d
        PROVE  d # Head(q) /\ \E k \in 1 .. n : q[k] = d
    <3>1. i + 1 \in 1 .. n /\ q[i + 1] = d /\ i + 1 # 1 /\ 1 \in 1 .. n
      BY <2>1, <1>1, <1>2
    <3>2. QED
      BY <3>1, <1>2
  <2>2. ASSUME NEW i \in 1 .. n, q[i] = d, d # Head(q)
        PROVE  \E k \in 1 .. n - 1 : p[k] = d
    BY <2>2, <1>2, <1>3
  <2>3. QED
    BY <2>1, <2>2
<1>5. \A i, j \in 1 .. n - 1 : p[i] = p[j] => i = j
  <2> SUFFICES ASSUME NEW i \in 1 .. n - 1, NEW j \in 1 .. n - 1, p[i] = p[j]
               PROVE  i = j
    OBVIOUS
  <2>1. i + 1 = j + 1
    BY <1>2
  <2>2. QED
    BY <2>1
<1> QED
  BY <1>1, <1>4, <1>5

-----------------------------------------------------------------------------
(* The calls *)

\* A call joins the queue.
LEMMA BeginCalls ==
    ASSUME Calls, NEW c \in Callers, Begin(c)
    PROVE  Calls'
<1>1. \A i \in 1 .. Len(queue) : queue[i] # c
  BY DEF Calls, Queued, Begin
<1>2. /\ queue' \in Seq(Callers)
      /\ queue' # << >>
      /\ queue # << >> => Head(queue') = Head(queue)
      /\ \A d \in Callers :
           (\E i \in 1 .. Len(queue') : queue'[i] = d)
             <=> d = c \/ \E i \in 1 .. Len(queue) : queue[i] = d
      /\ \A i, j \in 1 .. Len(queue') : queue'[i] = queue'[j] => i = j
  <2>1. queue \in Seq(Callers) /\ \A i, j \in 1 .. Len(queue) : queue[i] = queue[j] => i = j
    BY DEF Calls, CallType, Queued
  <2>2. queue' = Append(queue, c)
    BY DEF Begin
  <2>3. QED
    BY <1>1, <2>1, <2>2, JoinFacts
<1>3. CallType'
  BY <1>2 DEF Calls, CallType, Begin, Pending, Answered
<1>4. \A d \in Callers : pc'[d] = IF d = c THEN "waiting" ELSE pc[d]
  BY DEF Calls, CallType, Begin
<1>5. Queued'
  BY <1>2, <1>4 DEF Calls, Queued, Pending
<1>6. ProberHeadsQueue'
  BY <1>2, <1>4 DEF Calls, ProberHeadsQueue
<1> QED
  BY <1>3, <1>5, <1>6 DEF Calls

\* The head of the queue is answered.
LEMMA LeaveCalls ==
    ASSUME Calls, NEW c \in Callers, NEW outcome \in Answered, locked(c),
           Leave(c, outcome)
    PROVE  Calls'
<1>1. /\ queue' \in Seq(Callers)
      /\ \A d \in Callers :
           (\E i \in 1 .. Len(queue') : queue'[i] = d)
             <=> d # c /\ \E i \in 1 .. Len(queue) : queue[i] = d
      /\ \A i, j \in 1 .. Len(queue') : queue'[i] = queue'[j] => i = j
  <2>1. /\ queue \in Seq(Callers) /\ queue # << >> /\ Head(queue) = c
        /\ \A i, j \in 1 .. Len(queue) : queue[i] = queue[j] => i = j
    BY DEF Calls, CallType, Queued, locked
  <2>2. queue' = Tail(queue)
    BY DEF Leave
  <2>3. QED
    BY <2>1, <2>2, LeaveFacts
<1>2. CallType'
  BY <1>1 DEF Calls, CallType, Leave, Pending, Answered
<1>3. \A d \in Callers : pc'[d] = IF d = c THEN outcome ELSE pc[d]
  BY DEF Calls, CallType, Leave
<1>4. Queued'
  BY <1>1, <1>3 DEF Calls, Queued, Pending, Answered
<1>5. ProberHeadsQueue'
  <2>1. \A d \in Callers : pc'[d] # "probing"
    BY <1>3 DEF Calls, ProberHeadsQueue, locked, Answered
  <2>2. QED
    BY <2>1 DEF ProberHeadsQueue
<1> QED
  BY <1>2, <1>4, <1>5 DEF Calls

\* The call that begins to probe keeps the checks of the other calls in order.
LEMMA ProbeCalls ==
    ASSUME Calls, NEW c \in Callers, begin_checks(c)
    PROVE  Calls'
<1>1. queue' = queue /\ \A d \in Callers : pc'[d] = IF d = c THEN "probing" ELSE pc[d]
  BY DEF Calls, CallType, begin_checks
<1>2. CallType'
  BY <1>1 DEF Calls, CallType, begin_checks, Pending
<1>3. Queued'
  BY <1>1 DEF Calls, Queued, begin_checks, Pending
<1>4. ProberHeadsQueue'
  BY <1>1 DEF Calls, ProberHeadsQueue, begin_checks, locked
<1> QED
  BY <1>2, <1>3, <1>4 DEF Calls

\* A prober holds the lock.
LEMMA ProberLocks ==
    ASSUME Calls, NEW c \in Callers, pc[c] = "probing"
    PROVE  locked(c)
  BY DEF Calls, ProberHeadsQueue, locked

-----------------------------------------------------------------------------
(* The invariant *)

LEMMA InitInv ==
    ASSUME TTLAssumption, Init
    PROVE  GuardInv
<1>1. DataType /\ CallType
  BY DEF TTLAssumption, Init, DataType, CallType
<1>2. Queued /\ ProberHeadsQueue /\ Probing
  <2>1. Len(queue) = 0 /\ \A c \in Callers : pc[c] = "idle"
    BY DEF Init
  <2>2. QED
    BY <2>1 DEF Queued, ProberHeadsQueue, Probing, Pending
<1>3. Clock
  BY DEF TTLAssumption, Init, Clock
<1> QED
  BY <1>1, <1>2, <1>3 DEF GuardInv, Calls

\* One step per action; the calls are the lemmas above.
LEMMA StepInv ==
    ASSUME TTLAssumption, GuardInv, [Next]_vars
    PROVE  GuardInv'
<1> USE DEF GuardInv
<1>1. CASE UNCHANGED vars
  BY <1>1 DEF vars, DataType, Calls, CallType, Queued, ProberHeadsQueue, Probing, Clock
<1>2. ASSUME NEW c \in Callers, Begin(c) PROVE GuardInv'
  <2>1. Calls'
    BY <1>2, BeginCalls
  <2>2. DataType' /\ Clock'
    BY <1>2 DEF Begin, DataType, Clock
  <2>3. Probing'
    BY <1>2 DEF Begin, Probing, Calls, CallType
  <2>4. QED
    BY <2>1, <2>2, <2>3
<1>3. ASSUME NEW c \in Callers, return_cached(c) \/ raise_cached(c) PROVE GuardInv'
  <2>1. Calls'
    BY <1>3, LeaveCalls DEF return_cached, raise_cached, Answered
  <2>2. DataType' /\ Clock'
    BY <1>3 DEF return_cached, raise_cached, DataType, Clock
  <2>3. Probing'
    BY <1>3 DEF return_cached, raise_cached, Leave, Probing, Calls, CallType
  <2>4. QED
    BY <2>1, <2>2, <2>3
<1>4. ASSUME NEW c \in Callers, begin_checks(c) PROVE GuardInv'
  <2>1. Calls'
    BY <1>4, ProbeCalls
  <2>2. Checks \in Seq(Check) /\ Checks # << >>
    <3>1. /\ <<"target">> \in Seq(Check) /\ <<"target">> # << >>
          /\ <<"os", "powershell", "cmdlets">> \in Seq(Check)
          /\ <<"os", "powershell", "cmdlets">> # << >>
      BY DEF Check
    <3>2. QED
      BY <3>1 DEF Checks
  <2>3. DataType' /\ Probing'
    BY <1>4, <2>2 DEF begin_checks, DataType, Probing
  <2>4. Clock'
    BY <1>4 DEF begin_checks, DataType, Clock, negative_cache_expired, TTLAssumption
  <2>5. QED
    BY <2>1, <2>3, <2>4
<1>5. ASSUME NEW c \in Callers, check_passes(c) PROVE GuardInv'
  <2>1. Calls'
    BY <1>5 DEF check_passes, Calls, CallType, Queued, ProberHeadsQueue
  <2>2. Tail(checks) \in Seq(Check)
    BY <1>5 DEF check_passes, DataType, Probing
  <2>3. DataType' /\ Probing' /\ Clock'
    BY <1>5, <2>2 DEF check_passes, DataType, Probing, Clock
  <2>4. QED
    BY <2>1, <2>3
<1>6. ASSUME NEW c \in Callers, NEW outcome \in Answered, pc[c] = "probing",
             Leave(c, outcome), checks' = << >>
      PROVE  Calls' /\ Probing' /\ checks' \in Seq(Check)
  <2>1. Calls'
    BY <1>6, ProberLocks, LeaveCalls
  <2>2. \A d \in Callers : pc'[d] # "probing"
    BY <1>6 DEF Leave, Calls, CallType, ProberHeadsQueue, Answered
  <2>3. QED
    BY <1>6, <2>1, <2>2 DEF Probing
<1>7. ASSUME NEW c \in Callers, checks_pass(c) \/ checks_fail(c) \/ checks_raise(c)
      PROVE  GuardInv'
  <2>1. Calls' /\ Probing' /\ checks' \in Seq(Check)
    BY <1>6, <1>7 DEF checks_pass, checks_fail, checks_raise, Answered
  <2>2. CASE checks_pass(c)
    <3>1. age = TTL
      BY <2>2 DEF checks_pass, Clock, Probing
    <3>2. QED
      BY <2>1, <2>2, <3>1 DEF checks_pass, DataType, Clock
  <2>3. CASE checks_fail(c)
    BY <2>1, <2>3 DEF checks_fail, DataType, Clock, TTLAssumption
  <2>4. CASE checks_raise(c)
    BY <2>1, <2>4 DEF checks_raise, DataType, Clock
  <2>5. QED
    BY <1>7, <2>2, <2>3, <2>4
<1>8. ASSUME host_fails \/ host_recovers \/ tick PROVE GuardInv'
  <2>1. Calls' /\ Probing'
    BY <1>8 DEF host_fails, host_recovers, tick, Calls, CallType, Queued,
               ProberHeadsQueue, Probing
  <2>2. DataType' /\ Clock'
    <3>1. CASE host_fails \/ host_recovers
      BY <3>1 DEF host_fails, host_recovers, DataType, Clock
    <3>2. CASE tick
      <4>1. TTL \in Nat /\ ttl \in 0 .. TTL /\ age \in 0 .. TTL /\ ttl + age = TTL
        BY DEF DataType, Clock, TTLAssumption
      <4>2. ttl > 0 /\ age < TTL /\ ttl' = ttl - 1 /\ age' = age + 1
        BY <4>1, <3>2 DEF tick
      <4>3. ttl' \in 0 .. TTL /\ age' \in 0 .. TTL /\ ttl' + age' = TTL
        BY <4>1, <4>2
      <4>4. cache # "failed" => FALSE
        BY <4>2 DEF Clock
      <4>5. QED
        BY <3>2, <4>3, <4>4 DEF tick, DataType, Clock
    <3>3. QED
      BY <1>8, <3>1, <3>2
  <2>3. QED
    BY <2>1, <2>2
<1> QED
  BY <1>1, <1>2, <1>3, <1>4, <1>5, <1>7, <1>8 DEF Next, Step

-----------------------------------------------------------------------------
(* Theorems *)

\* Whoever calls, fails or raises, the guard's state is well-formed; in
\* particular the calls in the queue of the lock are those that wait or probe.
THEOREM TypeCorrect == Spec => []TypeOK
<1>1. GuardInv => TypeOK
  <2> SUFFICES ASSUME GuardInv PROVE TypeOK
    OBVIOUS
  <2>1. DOMAIN queue = 1 .. Len(queue)
    BY DEF GuardInv, Calls, CallType
  <2>2. QED
    BY <2>1 DEF GuardInv, DataType, Calls, CallType, Queued, TypeOK
<1>2. QED
  BY <1>1, InitInv, StepInv, TTLAssumption, PTL DEF Spec

\* One probe at a time, for any number of callers.
THEOREM OneProbe == Spec => []OneProbeAtATime
<1>1. GuardInv => OneProbeAtATime
  BY DEF GuardInv, Calls, ProberHeadsQueue, OneProbeAtATime
<1>2. QED
  BY <1>1, InitInv, StepInv, TTLAssumption, PTL DEF Spec

\* The steps that answer with a refusal, and those that begin a probe.
LEMMA CallStep ==
    ASSUME GuardInv, [Next]_vars, NEW c \in Callers
    PROVE  /\ pc[c] \in Pending /\ pc'[c] = "refused" =>
                raise_cached(c) \/ checks_fail(c)
           /\ pc[c] = "waiting" /\ pc'[c] = "probing" => begin_checks(c)
<1>1. CASE UNCHANGED vars \/ host_fails \/ host_recovers \/ tick
  BY <1>1 DEF vars, host_fails, host_recovers, tick, Pending
<1>2. ASSUME NEW d \in Callers, Begin(d) \/ Step(d)
      PROVE  d = c \/ pc'[c] = pc[c]
  BY <1>2 DEF GuardInv, Calls, CallType, Begin, Step, return_cached, raise_cached,
              begin_checks, check_passes, checks_pass, checks_fail, checks_raise, Leave
<1>3. CASE Begin(c) \/ Step(c)
  BY <1>3 DEF GuardInv, Calls, CallType, Begin, Step, return_cached, raise_cached,
              begin_checks, check_passes, checks_pass, checks_fail, checks_raise, Leave,
              Pending
<1> QED
  BY <1>1, <1>2, <1>3 DEF Next, Pending

\* A refusal rests on a failure younger than the TTL, for any TTL.
THEOREM FreshRefusals == Spec => RefusalsAreFresh
<1>1. ASSUME GuardInv, [Next]_vars
      PROVE  [\A c \in Callers :
                pc[c] \in Pending /\ pc'[c] = "refused" => age < TTL \/ age' = 0]_vars
  <2> SUFFICES ASSUME NEW c \in Callers, pc[c] \in Pending, pc'[c] = "refused"
               PROVE  age < TTL \/ age' = 0
    OBVIOUS
  <2>1. CASE raise_cached(c)
    BY <1>1, <2>1 DEF raise_cached, negative_cache_expired, GuardInv, DataType, Clock,
                      TTLAssumption
  <2>2. CASE checks_fail(c)
    BY <2>2 DEF checks_fail
  <2>3. QED
    BY <1>1, <2>1, <2>2, CallStep
<1>2. QED
  BY <1>1, InitInv, StepInv, TTLAssumption, PTL DEF Spec, RefusalsAreFresh

\* No probe begins before the TTL of the last cached failure has passed.
THEOREM ProbesBackOff == Spec => BacksOff
<1>1. ASSUME GuardInv, [Next]_vars
      PROVE  [\A c \in Callers :
                pc[c] = "waiting" /\ pc'[c] = "probing" => age = TTL]_vars
  <2> SUFFICES ASSUME NEW c \in Callers, pc[c] = "waiting", pc'[c] = "probing"
               PROVE  age = TTL
    OBVIOUS
  <2>1. begin_checks(c)
    BY <1>1, CallStep
  <2>2. QED
    BY <1>1, <2>1, TTLAssumption
       DEF begin_checks, negative_cache_expired, GuardInv, DataType, Clock, TTLAssumption
<1>2. QED
  BY <1>1, InitInv, StepInv, TTLAssumption, PTL DEF Spec, BacksOff
=============================================================================
