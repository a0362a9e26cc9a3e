--------------------------- MODULE PsrpPoolProofs ---------------------------
(***************************************************************************)
(* For any number of calls, sessions and slots: a session has one user,    *)
(* none is forgotten but by an open or a close that failed, the pool is    *)
(* ordered and bounded, and it implements Transport.                       *)
(*                                                                         *)
(* What makes these inductive is which stages hold a session (Holds), that *)
(* every session in some place has a shell (Backed), that a late script is *)
(* on a session given up (LateAlone), and how often the script of a call   *)
(* may have run, and may run yet, by each stage (Runs).                    *)
(***************************************************************************)
EXTENDS PsrpPoolProperties, FiniteSetTheorems, TLAPS

Types ==
    /\ gate \in Seq(Calls)
    /\ pc \in [Calls -> {"idle", "waiting"} \cup Active \cup Answered]
    /\ local \in [Calls -> Local]
    /\ idle \in Seq(Parked)
    /\ shells \in SUBSET Sessions
    /\ closing \in SUBSET Sessions
    /\ strays \in SUBSET Sessions
    /\ ran \in [Calls -> Nat]
    /\ late \in [Sessions -> Calls \cup {None}]

\* Only waiting calls queue at the semaphore, each in one place.
Queued ==
    /\ \A i \in 1 .. Len(gate) : pc[gate[i]] = "waiting"
    /\ \A i, j \in 1 .. Len(gate) : gate[i] = gate[j] => i = j

\* A call has a session exactly in the stages that use one.
Holds == \A c \in Calls : on(c) # None <=> pc[c] \in Holding

\* The sessions given up.
Gone == closing \cup strays

\* A session has one place: a call, a place in the pool, or the way out, which
\* is a thread's or the server's to end.
OnePlace ==
    /\ \A c, d \in Calls : on(c) = on(d) /\ on(c) # None => c = d
    /\ \A i, j \in 1 .. Len(idle) : idle[i].session = idle[j].session => i = j
    /\ \A i \in 1 .. Len(idle), c \in Calls : idle[i].session # on(c)
    /\ \A i \in 1 .. Len(idle) : idle[i].session \notin Gone
    /\ \A c \in Calls : on(c) \notin Gone

\* One that a thread is about to close is not forgotten.
Apart == closing \cap strays = {}

\* A session in some place has a shell, which the server may have dropped.
Backed ==
    /\ \A c \in Calls : on(c) # None => on(c) \in shells
    /\ \A i \in 1 .. Len(idle) : idle[i].session \in shells
    /\ Gone \subseteq shells

\* A shell has a session in some place.
Placed ==
    \A s \in shells :
        \/ \E c \in Calls : on(c) = s
        \/ \E i \in 1 .. Len(idle) : idle[i].session = s
        \/ s \in Gone

\* A late script is on a session given up.
LateAlone == \A s \in Sessions : late[s] # None => s \in Gone

\* The sessions given up on which the script of a call may still run.
LateOn(c) == {s \in Sessions : late[s] = c}

\* One run on a pooled session at most, one more on a fresh one: `runs` have
\* happened by some stage, and `more` may happen late.
RunsBy(stage, executed, runs, more) ==
    /\ stage \notin Active => runs = 0
    /\ stage \notin Holding => ~executed
    /\ stage \in {"idle", "waiting", "pooled", "dead"} => more = 0
    /\ stage \in {"pooled", "dead"} => runs = IF executed THEN 1 ELSE 0
    /\ stage = "opening" => runs + more <= 1
    /\ stage \in {"fresh", "broken"} =>
         /\ executed => runs > 0
         /\ runs + more + (IF executed THEN 0 ELSE 1) <= 2

Runs ==
    \A c \in Calls :
        /\ IsFiniteSet(LateOn(c))
        /\ RunsBy(pc[c], local[c].executed, ran[c], Cardinality(LateOn(c)))

Ordered ==
    \A i, j \in 1 .. Len(idle) : i < j => idle[i].age >= idle[j].age

ActiveCalls == {c \in Calls : pc[c] \in Active}

\* A parked session leaves room for the call that will take it.
Room ==
    /\ IsFiniteSet(ActiveCalls)
    /\ Len(idle) + Cardinality(ActiveCalls) <= MaxConcurrency

Places == Types /\ Queued /\ Holds /\ OnePlace /\ Apart /\ Backed

PoolInv == Places /\ Placed /\ Runs /\ LateAlone /\ Ordered /\ Room

-----------------------------------------------------------------------------
(* Facts about the pool's sequence *)

LEMMA CheckinFacts ==
    ASSUME PoolAssumption, NEW parked \in Seq(Parked), NEW s \in Sessions
    PROVE  /\ _checkin(parked, s) \in Seq(Parked)
           /\ Len(_checkin(parked, s)) = Len(parked) + 1
           /\ \A i \in 1 .. Len(parked) : _checkin(parked, s)[i] = parked[i]
           /\ _checkin(parked, s)[Len(parked) + 1] = [session |-> s, age |-> 0]
  BY DEF _checkin, Parked, PoolAssumption

\* What a prefix of the parked sessions is, place by place.
LEMMA PrefixFacts ==
    ASSUME NEW parked \in Seq(Parked), NEW n \in 0 .. Len(parked)
    PROVE  /\ SubSeq(parked, 1, n) \in Seq(Parked)
           /\ Len(SubSeq(parked, 1, n)) = n
           /\ \A i \in 1 .. n : SubSeq(parked, 1, n)[i] = parked[i]
  OBVIOUS

\* Below place 0 there is nothing.
LEMMA EmptyPrefix ==
    ASSUME NEW parked \in Seq(Parked)
    PROVE  SubSeq(parked, 1, -1) = << >>
  OBVIOUS

\* The sessions of a suffix of the parked sessions.
LEMMA SuffixFacts ==
    ASSUME NEW parked \in Seq(Parked), NEW n \in 0 .. Len(parked)
    PROVE  SessionsOf(SubSeq(parked, n + 1, Len(parked))) =
             {parked[i].session : i \in n + 1 .. Len(parked)}
  <1> DEFINE rest == SubSeq(parked, n + 1, Len(parked))
  <1>1. /\ rest \in Seq(Parked)
        /\ Len(rest) = Len(parked) - n
        /\ \A i \in 1 .. Len(parked) - n : rest[i] = parked[n + i]
    OBVIOUS
  <1>2. DOMAIN rest = 1 .. Len(parked) - n
    BY <1>1
  <1> HIDE DEF rest
  <1>3. ASSUME NEW s PROVE s \in SessionsOf(rest)
            <=> s \in {parked[i].session : i \in n + 1 .. Len(parked)}
    <2>1. ASSUME s \in SessionsOf(rest)
          PROVE  s \in {parked[i].session : i \in n + 1 .. Len(parked)}
      <3>1. PICK i \in 1 .. Len(parked) - n : s = rest[i].session
        BY <1>2, <2>1 DEF SessionsOf
      <3>2. n + i \in n + 1 .. Len(parked)
        OBVIOUS
      <3> QED BY <1>1, <3>1, <3>2
    <2>2. ASSUME NEW i \in n + 1 .. Len(parked), s = parked[i].session
          PROVE  s \in SessionsOf(rest)
      <3>1. i - n \in 1 .. Len(parked) - n /\ n + (i - n) = i
        OBVIOUS
      <3> QED BY <1>1, <1>2, <2>2, <3>1 DEF SessionsOf
    <2> QED BY <2>1, <2>2
  <1> QED BY <1>3 DEF rest

\* The parked sessions, place by place.
LEMMA IdleSessions ==
    ASSUME NEW parked \in Seq(Parked)
    PROVE  /\ DOMAIN parked = 1 .. Len(parked)
           /\ SessionsOf(parked) = {parked[i].session : i \in 1 .. Len(parked)}
           /\ \A i \in 1 .. Len(parked) :
                /\ parked[i] \in Parked
                /\ parked[i].session \in Sessions
                /\ parked[i].age \in 0 .. MaxIdle
  <1>1. DOMAIN parked = 1 .. Len(parked)
    OBVIOUS
  <1>2. \A i \in 1 .. Len(parked) : parked[i] \in Parked
    OBVIOUS
  <1> QED BY <1>1, <1>2 DEF SessionsOf, Parked

\* What a queue, its head and its tail are.
LEMMA QueueFacts ==
    ASSUME NEW S, NEW q \in Seq(S)
    PROVE  /\ DOMAIN q = 1 .. Len(q)
           /\ \A i \in 1 .. Len(q) : q[i] \in S
           /\ q # << >> =>
                /\ Head(q) = q[1]
                /\ Len(q) \in Nat \ {0}
                /\ Tail(q) \in Seq(S)
                /\ Len(Tail(q)) = Len(q) - 1
                /\ \A i \in 1 .. Len(q) - 1 : Tail(q)[i] = q[i + 1]
  OBVIOUS

\* What appending to a queue adds, and what it leaves alone.
LEMMA AppendFacts ==
    ASSUME NEW S, NEW q \in Seq(S), NEW x \in S
    PROVE  /\ Append(q, x) \in Seq(S)
           /\ Len(Append(q, x)) = Len(q) + 1
           /\ \A i \in 1 .. Len(q) : Append(q, x)[i] = q[i]
           /\ Append(q, x)[Len(q) + 1] = x
  OBVIOUS

\* What a step may change of the run of a call: its session,
LEMMA SessionFacts ==
    ASSUME NEW f \in [Calls -> Local], NEW c \in Calls,
           NEW s \in Sessions \cup {None}
    PROVE  /\ [f EXCEPT ![c].session = s] \in [Calls -> Local]
           /\ [f EXCEPT ![c].session = s] =
                [f EXCEPT ![c] = [session |-> s, executed |-> f[c].executed]]
  <1>1. f[c] \in Local
    OBVIOUS
  <1>2. [f[c] EXCEPT !.session = s] = [session |-> s, executed |-> f[c].executed]
    BY <1>1 DEF Local
  <1>3. [session |-> s, executed |-> f[c].executed] \in Local
    BY <1>1 DEF Local
  <1> QED BY <1>2, <1>3

\* whether its script took effect,
LEMMA ExecutedFacts ==
    ASSUME NEW f \in [Calls -> Local], NEW c \in Calls, NEW b \in BOOLEAN
    PROVE  /\ [f EXCEPT ![c].executed = b] \in [Calls -> Local]
           /\ [f EXCEPT ![c].executed = b] =
                [f EXCEPT ![c] = [session |-> f[c].session, executed |-> b]]
  <1>1. f[c] \in Local
    OBVIOUS
  <1>2. [f[c] EXCEPT !.executed = b] = [session |-> f[c].session, executed |-> b]
    BY <1>1 DEF Local
  <1>3. [session |-> f[c].session, executed |-> b] \in Local
    BY <1>1 DEF Local
  <1> QED BY <1>2, <1>3

\* or both.
LEMMA NoLocalFacts ==
    /\ NoLocal \in Local
    /\ NoLocal.session = None
    /\ ~NoLocal.executed
  BY DEF NoLocal, Local

-----------------------------------------------------------------------------
(* What the steps do to the pool *)

\* Some sessions are taken off the top: all, or those above one that is used.
LEMMA ExecuteFacts ==
    ASSUME PoolAssumption, Types, NEW c \in Calls, execute(c)
    PROVE  \E place \in 0 .. Len(idle), n \in 0 .. Len(idle) :
             /\ place = 0 => n = 0 /\ pc' = [pc EXCEPT ![c] = "opening"]
                                   /\ local' = local
             /\ place > 0 =>
                  /\ n = place - 1
                  /\ pc' = [pc EXCEPT ![c] = "pooled"]
                  /\ local' = [local EXCEPT ![c].session = idle[place].session]
             /\ closing' = closing \cup
                  {idle[i].session : i \in place + 1 .. Len(idle)}
             /\ idle' \in Seq(Parked)
             /\ Len(idle') = n
             /\ \A i \in 1 .. n : idle'[i] = idle[i]
  <1>1. PICK place \in 0 .. Len(idle) :
          /\ closing' = closing \cup SessionsOf(SubSeq(idle, place + 1, Len(idle)))
          /\ idle' = SubSeq(idle, 1, place - 1)
          /\ place = 0 => pc' = [pc EXCEPT ![c] = "opening"] /\ local' = local
          /\ place > 0 =>
               /\ pc' = [pc EXCEPT ![c] = "pooled"]
               /\ local' = [local EXCEPT ![c].session = idle[place].session]
    BY DEF execute
  <1>2. idle \in Seq(Parked)
    BY DEF Types
  <1>3. SessionsOf(SubSeq(idle, place + 1, Len(idle))) =
          {idle[i].session : i \in place + 1 .. Len(idle)}
    BY <1>2, SuffixFacts
  <1>4. CASE place = 0
    <2>1. idle' = << >>
      BY <1>1, <1>2, <1>4, EmptyPrefix
    <2> QED BY <1>1, <1>3, <1>4, <2>1
  <1>5. CASE place > 0
    <2>1. place - 1 \in 0 .. Len(idle)
      BY <1>2, <1>5
    <2>2. /\ idle' \in Seq(Parked)
          /\ Len(idle') = place - 1
          /\ \A i \in 1 .. place - 1 : idle'[i] = idle[i]
      BY <1>1, <1>2, <2>1, PrefixFacts
    <2>3. closing' = closing \cup {idle[i].session : i \in place + 1 .. Len(idle)}
      BY <1>1, <1>3
    <2> QED BY <1>1, <1>5, <2>1, <2>2, <2>3
  <1>6. place = 0 \/ place > 0
    BY <1>2
  <1> QED BY <1>4, <1>5, <1>6

\* A tick ages every parked session and moves none of them.
LEMMA TickFacts ==
    ASSUME PoolAssumption, Types, tick
    PROVE  /\ idle' \in Seq(Parked)
           /\ Len(idle') = Len(idle)
           /\ \A i \in 1 .. Len(idle) :
                /\ idle'[i].session = idle[i].session
                /\ idle'[i].age =
                     IF idle[i].age < MaxIdle THEN idle[i].age + 1 ELSE idle[i].age
  <1>1. idle \in Seq(Parked) /\ DOMAIN idle = 1 .. Len(idle) /\ Len(idle) \in Nat
    BY DEF Types
  <1>2. \A i \in 1 .. Len(idle) : idle[i] \in Parked
    BY <1>1
  <1>3. idle' = [i \in 1 .. Len(idle) |->
                  [idle[i] EXCEPT !.age =
                     IF idle[i].age < MaxIdle THEN idle[i].age + 1 ELSE idle[i].age]]
    BY <1>1 DEF tick
  <1>4. \A i \in 1 .. Len(idle) :
          /\ idle'[i] \in Parked
          /\ idle'[i].session = idle[i].session
          /\ idle'[i].age =
               IF idle[i].age < MaxIdle THEN idle[i].age + 1 ELSE idle[i].age
    BY <1>2, <1>3 DEF Parked, PoolAssumption
  <1>5. idle' \in [1 .. Len(idle) -> Parked]
    BY <1>3, <1>4
  <1>6. idle' \in Seq(Parked) /\ Len(idle') = Len(idle)
    BY <1>1, <1>5
  <1> QED BY <1>4, <1>6

\* A session that goes back to the pool is the call's, and lies on top.
LEMMA ReturnFacts ==
    ASSUME PoolAssumption, Types, Holds, NEW c \in Calls, run_returns(c)
    PROVE  /\ on(c) \in Sessions
           /\ idle' \in Seq(Parked)
           /\ Len(idle') = Len(idle) + 1
           /\ \A i \in 1 .. Len(idle) : idle'[i] = idle[i]
           /\ idle'[Len(idle) + 1].session = on(c)
           /\ idle'[Len(idle) + 1].age = 0
  <1>1. on(c) \in Sessions
    BY DEF run_returns, Holds, Holding, Types, Local, on
  <1>2. idle \in Seq(Parked) /\ idle' = _checkin(idle, on(c))
    BY DEF Types, run_returns
  <1>3. /\ idle' \in Seq(Parked)
        /\ Len(idle') = Len(idle) + 1
        /\ \A i \in 1 .. Len(idle) : idle'[i] = idle[i]
        /\ idle'[Len(idle) + 1] = [session |-> on(c), age |-> 0]
    BY <1>1, <1>2, CheckinFacts
  <1> QED BY <1>1, <1>3

-----------------------------------------------------------------------------
(* Places *)

\* The call recorded for a session given up is one of the calls, or none.
LEMMA LeftType ==
    ASSUME NEW c \in Calls
    PROVE  Left(c) \in Calls \cup {None}
  BY DEF Left

\* A close leaves the records of the sessions well-typed.
LEMMA CloseTypes ==
    ASSUME Types, NEW s \in Sessions, NEW script \in Calls \cup {None},
           Close(s, script)
    PROVE  /\ shells' \in SUBSET Sessions
           /\ strays' \in SUBSET Sessions
           /\ late' \in [Sessions -> Calls \cup {None}]
  BY DEF Types, Close

\* Every step keeps the types.
LEMMA TypesStep ==
    ASSUME PoolAssumption, Types, Holds, [Next]_vars
    PROVE  Types'
  <1>1. ASSUME NEW c \in Calls, Begin(c) PROVE Types'
    BY <1>1, AppendFacts DEF Types, Begin, Answered
  <1>2. ASSUME NEW c \in Calls, execute(c) PROVE Types'
    <2>1. gate' \in Seq(Calls) /\ UNCHANGED <<shells, strays, ran, late>>
      BY <1>2, QueueFacts DEF execute, Types
    <2>2. PICK place \in 0 .. Len(idle) :
            /\ place = 0 => pc' = [pc EXCEPT ![c] = "opening"] /\ local' = local
            /\ place > 0 =>
                 /\ pc' = [pc EXCEPT ![c] = "pooled"]
                 /\ local' = [local EXCEPT ![c].session = idle[place].session]
            /\ closing' = closing \cup
                 {idle[i].session : i \in place + 1 .. Len(idle)}
            /\ idle' \in Seq(Parked)
      BY <1>2, ExecuteFacts
    <2>3. Len(idle) \in Nat /\ \A i \in 1 .. Len(idle) : idle[i].session \in Sessions
      BY IdleSessions DEF Types
    <2>4. local' \in [Calls -> Local]
      <3>1. CASE place = 0
        BY <2>2, <3>1 DEF Types
      <3>2. CASE place > 0
        <4>1. idle[place].session \in Sessions \cup {None}
          BY <2>3, <3>2
        <4>2. local \in [Calls -> Local]
          BY DEF Types
        <4>3. local' = [local EXCEPT ![c].session = idle[place].session]
          BY <2>2, <3>2
        <4> QED BY <4>1, <4>2, <4>3, SessionFacts
      <3> QED BY <3>1, <3>2
    <2>5. closing' \in SUBSET Sessions
      BY <2>2, <2>3 DEF Types
    <2>6. pc' \in [Calls -> {"idle", "waiting"} \cup Active \cup Answered]
      <3>1. CASE place = 0
        BY <2>2, <3>1 DEF Types, Active
      <3>2. CASE place > 0
        BY <2>2, <3>2 DEF Types, Active, Holding
      <3> QED BY <3>1, <3>2
    <2> QED BY <2>1, <2>2, <2>4, <2>5, <2>6 DEF Types
  <1>3. ASSUME NEW c \in Calls, open(c) PROVE Types'
    <2>1. PICK s \in Sessions :
            /\ shells' = shells \cup {s}
            /\ local' = [local EXCEPT ![c].session = s]
      BY <1>3 DEF open
    <2>2. local' \in [Calls -> Local]
      BY <2>1, SessionFacts DEF Types
    <2> QED BY <1>3, <2>1, <2>2 DEF Types, open, Active, Holding
  <1>4. ASSUME NEW c \in Calls, open_fails(c) PROVE Types'
    BY <1>4 DEF Types, open_fails, Leave, NoLocal, Local, Answered
  <1>5. ASSUME NEW c \in Calls, run(c) PROVE Types'
    <2>1. local' \in [Calls -> Local]
      BY <1>5, ExecutedFacts DEF Types, run
    <2> QED BY <1>5, <2>1 DEF Types, run
  <1>6. ASSUME NEW c \in Calls, run_returns(c) PROVE Types'
    BY <1>6, ReturnFacts DEF Types, run_returns, Leave, NoLocal, Local, Answered
  <1>7. ASSUME NEW c \in Calls, run_raises(c) PROVE Types'
    BY <1>7 DEF Types, run_raises, Active, Holding
  <1>8. ASSUME NEW c \in Calls, run_times_out(c) PROVE Types'
    BY <1>8 DEF Types, Holds, Holding, on, run_times_out, Leave, NoLocal, Local,
       Answered, Left
  <1>9. ASSUME NEW c \in Calls, _discard_idle(c) PROVE Types'
    <2>1. SessionsOf(idle) \subseteq Sessions
      <3>1. idle \in Seq(Parked)
        BY DEF Types
      <3> QED BY <3>1, IdleSessions
    <2>2. << >> \in Seq(Parked)
      OBVIOUS
    <2>3. on(c) \in Sessions
      BY <1>9 DEF _discard_idle, Types, Holds, Holding, Local, on
    <2>4. /\ shells' \in SUBSET Sessions /\ strays' \in SUBSET Sessions
          /\ late' \in [Sessions -> Calls \cup {None}]
      BY <1>9, <2>3, CloseTypes, LeftType DEF _discard_idle
    <2> QED BY <1>9, <2>1, <2>2, <2>4
            DEF Types, _discard_idle, NoLocal, Local, Active
  <1>10. ASSUME NEW c \in Calls, report(c) PROVE Types'
    <2>1. on(c) \in Sessions
      BY <1>10 DEF report, Types, Holds, Holding, Local, on
    <2>2. /\ shells' \in SUBSET Sessions /\ strays' \in SUBSET Sessions
          /\ late' \in [Sessions -> Calls \cup {None}]
      BY <1>10, <2>1, CloseTypes, LeftType DEF report
    <2> QED BY <1>10, <2>2 DEF Types, report, Leave, NoLocal, Local, Answered
  <1>11. ASSUME NEW s \in Sessions, run_late(s) PROVE Types'
    BY <1>11 DEF Types, run_late
  <1>12. ASSUME NEW s \in Sessions, close(s) PROVE Types'
    BY <1>12 DEF Types, close, Close
  <1>13. ASSUME NEW s \in Sessions, expire(s) PROVE Types'
    BY <1>13 DEF Types, expire
  <1>14. CASE tick
    BY <1>14, TickFacts DEF Types, tick
  <1>15. CASE UNCHANGED vars
    BY <1>15 DEF Types, vars
  <1> QED BY <1>1, <1>2, <1>3, <1>4, <1>5, <1>6, <1>7, <1>8, <1>9, <1>10,
             <1>11, <1>12, <1>13, <1>14, <1>15 DEF Next, Step

\* Every step of the pool keeps its gate in order.
LEMMA QueuedStep ==
    ASSUME PoolAssumption, Types, Queued, [Next]_vars
    PROVE  Queued'
  <1>0. gate \in Seq(Calls) /\ Len(gate) \in Nat
    BY DEF Types
  <1>1. ASSUME NEW c \in Calls, Begin(c) PROVE Queued'
    <2>1. pc[c] # "waiting" /\ pc' = [pc EXCEPT ![c] = "waiting"]
      BY <1>1 DEF Begin, Answered
    <2>2. /\ Len(gate') = Len(gate) + 1
          /\ \A i \in 1 .. Len(gate) : gate'[i] = gate[i]
          /\ gate'[Len(gate) + 1] = c
      BY <1>0, <1>1, AppendFacts DEF Begin
    <2>3. \A i \in 1 .. Len(gate) : gate[i] \in Calls /\ gate[i] # c
      BY <1>0, <2>1 DEF Queued
    <2>4. \A i \in 1 .. Len(gate') : i = Len(gate) + 1 \/ i \in 1 .. Len(gate)
      BY <1>0, <2>2
    <2>5. \A i \in 1 .. Len(gate') : pc'[gate'[i]] = "waiting"
      <3>1. \A i \in 1 .. Len(gate) : pc'[gate[i]] = "waiting"
        BY <2>1, <2>3 DEF Queued, Types
      <3>2. pc'[c] = "waiting"
        BY <2>1 DEF Types
      <3> QED BY <2>2, <2>4, <3>1, <3>2
    <2>6. \A i, j \in 1 .. Len(gate') : gate'[i] = gate'[j] => i = j
      BY <1>0, <2>2, <2>3, <2>4 DEF Queued
    <2> QED BY <2>5, <2>6 DEF Queued
  <1>2. ASSUME NEW c \in Calls, execute(c) PROVE Queued'
    <2>1. PICK stage \in {"opening", "pooled"} : pc' = [pc EXCEPT ![c] = stage]
      BY <1>2, ExecuteFacts
    <2>2. /\ gate # << >> /\ Len(gate) \in Nat \ {0}
          /\ c = gate[1]
          /\ Len(gate') = Len(gate) - 1
          /\ \A i \in 1 .. Len(gate) - 1 : gate'[i] = gate[i + 1]
      BY <1>0, <1>2, QueueFacts DEF execute
    <2>3. \A i \in 1 .. Len(gate') :
            /\ i + 1 \in 1 .. Len(gate)
            /\ gate'[i] = gate[i + 1]
            /\ gate[i + 1] # c
            /\ gate[i + 1] \in Calls
      BY <1>0, <2>2 DEF Queued
    <2>4. \A i \in 1 .. Len(gate') : pc'[gate'[i]] = "waiting"
      <3>1. ASSUME NEW i \in 1 .. Len(gate')
            PROVE  pc'[gate'[i]] = pc[gate[i + 1]] /\ pc[gate[i + 1]] = "waiting"
        BY <2>1, <2>3 DEF Queued, Types
      <3> QED BY <3>1
    <2>5. \A i, j \in 1 .. Len(gate') : gate'[i] = gate'[j] => i = j
      <3>1. ASSUME NEW i \in 1 .. Len(gate'), NEW j \in 1 .. Len(gate'),
                   gate'[i] = gate'[j]
            PROVE  i = j
        BY <1>0, <2>2, <2>3, <3>1 DEF Queued
      <3> QED BY <3>1
    <2> QED BY <2>4, <2>5 DEF Queued
  <1>3. ASSUME NEW c \in Calls, pc[c] # "waiting", gate' = gate,
               \E stage : pc' = [pc EXCEPT ![c] = stage]
        PROVE  Queued'
    BY <1>0, <1>3 DEF Queued, Types
  <1>4. ASSUME UNCHANGED <<gate, pc>> PROVE Queued'
    BY <1>4 DEF Queued
  <1>5. ASSUME NEW c \in Calls, Step(c) PROVE Queued'
    <2>1. CASE open(c) \/ open_fails(c) \/ _discard_idle(c) \/ report(c)
      BY <1>3, <2>1 DEF open, open_fails, _discard_idle, report, Leave
    <2>2. CASE run(c)
      BY <1>4, <2>2 DEF run
    <2>3. CASE run_returns(c) \/ run_times_out(c)
      BY <1>3, <2>3 DEF run_returns, run_times_out, Leave
    <2>4. CASE run_raises(c)
      BY <1>3, <2>4 DEF run_raises
    <2> QED BY <1>2, <1>5, <2>1, <2>2, <2>3, <2>4 DEF Step
  <1>7. ASSUME NEW s \in Sessions, close(s) \/ run_late(s) \/ expire(s)
        PROVE  Queued'
    BY <1>4, <1>7 DEF close, run_late, expire
  <1>8. CASE tick \/ UNCHANGED vars
    BY <1>4, <1>8 DEF tick, vars
  <1> QED BY <1>1, <1>5, <1>7, <1>8 DEF Next

\* The step a call takes to enter execute() is the first of its gate.
LEMMA HeadWaits ==
    ASSUME Types, Queued, NEW c \in Calls, execute(c)
    PROVE  pc[c] = "waiting"
  <1>1. gate \in Seq(Calls) /\ gate # << >> /\ c = gate[1] /\ 1 \in 1 .. Len(gate)
    BY QueueFacts DEF Types, execute
  <1> QED BY <1>1 DEF Queued

\* Giving call c another session changes nothing else that calls hold.
LEMMA SessionChanges ==
    ASSUME Types, NEW c \in Calls, NEW s \in Sessions \cup {None},
           local' = [local EXCEPT ![c].session = s]
    PROVE  /\ on(c)' = s
           /\ local'[c].executed = local[c].executed
           /\ \A d \in Calls \ {c} : local'[d] = local[d]
  BY SessionFacts DEF Types, on

\* Clearing what call c holds takes its session from it, and from no other.
LEMMA SessionLeft ==
    ASSUME Types, NEW c \in Calls, local' = [local EXCEPT ![c] = NoLocal]
    PROVE  /\ on(c)' = None
           /\ ~local'[c].executed
           /\ \A d \in Calls \ {c} : local'[d] = local[d]
  BY NoLocalFacts DEF Types, on

\* Recording that a script ran leaves every call its session.
LEMMA SessionKept ==
    ASSUME Types, NEW c \in Calls, local' = [local EXCEPT ![c].executed = TRUE]
    PROVE  /\ on(c)' = on(c)
           /\ local'[c].executed
           /\ \A d \in Calls \ {c} : local'[d] = local[d]
  BY ExecutedFacts DEF Types, on

\* The calls other than c hold what they held.
OthersKeep(c) ==
    \A d \in Calls \ {c} : pc'[d] = pc[d] /\ local'[d] = local[d]

\* Where a step leaves its call: in which stage, with which session.
LEMMA CallSteps ==
    ASSUME PoolAssumption, Types, Queued, Holds, NEW c \in Calls
    PROVE  /\ Begin(c) => /\ OthersKeep(c) /\ pc[c] \in {"idle"} \cup Answered
                          /\ pc'[c] = "waiting" /\ local' = local
           /\ execute(c) =>
                /\ OthersKeep(c) /\ pc[c] = "waiting"
                /\ \/ pc'[c] = "opening" /\ local' = local
                   \/ /\ pc'[c] = "pooled" /\ on(c)' \in Sessions
                      /\ local'[c].executed = local[c].executed
           /\ open(c) =>
                /\ OthersKeep(c) /\ pc[c] = "opening"
                /\ pc'[c] = "fresh" /\ on(c)' \in Sessions
                /\ local'[c].executed = local[c].executed
           /\ run(c) =>
                /\ OthersKeep(c) /\ pc[c] \in Holding
                /\ ~local[c].executed /\ local'[c].executed
                /\ pc' = pc /\ on(c)' = on(c)
           /\ run_raises(c) =>
                /\ OthersKeep(c) /\ local' = local
                /\ \/ pc[c] = "pooled" /\ pc'[c] = "dead"
                   \/ pc[c] = "fresh" /\ pc'[c] = "broken"
           /\ _discard_idle(c) =>
                /\ OthersKeep(c) /\ pc[c] = "dead" /\ pc'[c] = "opening"
                /\ on(c)' = None /\ ~local'[c].executed
           /\ open_fails(c) \/ run_returns(c) \/ run_times_out(c) \/ report(c) =>
                /\ OthersKeep(c) /\ pc[c] \in Active
                /\ pc'[c] \in Answered
                /\ on(c)' = None /\ ~local'[c].executed
  <1>1. ASSUME Begin(c)
        PROVE  /\ OthersKeep(c) /\ pc[c] \in {"idle"} \cup Answered
               /\ pc'[c] = "waiting" /\ local' = local
    BY <1>1 DEF Begin, Types, OthersKeep
  <1>2. ASSUME execute(c)
        PROVE  /\ OthersKeep(c) /\ pc[c] = "waiting"
               /\ \/ pc'[c] = "opening" /\ local' = local
                  \/ /\ pc'[c] = "pooled" /\ on(c)' \in Sessions
                     /\ local'[c].executed = local[c].executed
    <2>1. PICK place \in 0 .. Len(idle) :
            /\ place = 0 => pc' = [pc EXCEPT ![c] = "opening"] /\ local' = local
            /\ place > 0 =>
                 /\ pc' = [pc EXCEPT ![c] = "pooled"]
                 /\ local' = [local EXCEPT ![c].session = idle[place].session]
      BY <1>2, ExecuteFacts
    <2>2. pc[c] = "waiting"
      BY <1>2, HeadWaits
    <2>3. CASE place = 0
      BY <2>1, <2>2, <2>3 DEF Types, OthersKeep
    <2>4. CASE place > 0
      <3>1. PICK s \in Sessions : s = idle[place].session
        <4>1. idle \in Seq(Parked) /\ Len(idle) \in Nat
          BY DEF Types
        <4>2. place \in 1 .. Len(idle)
          BY <2>4, <4>1
        <4> QED BY <4>1, <4>2, IdleSessions
      <3>2. local' = [local EXCEPT ![c].session = s]
        BY <2>1, <2>4, <3>1
      <3>3. /\ on(c)' = s
            /\ local'[c].executed = local[c].executed
            /\ \A d \in Calls \ {c} : local'[d] = local[d]
        BY <3>2, SessionChanges
      <3>4. pc' = [pc EXCEPT ![c] = "pooled"]
        BY <2>1, <2>4
      <3> QED BY <2>2, <3>3, <3>4 DEF Types, OthersKeep
    <2> QED BY <2>3, <2>4
  <1>3. ASSUME open(c)
        PROVE  /\ OthersKeep(c) /\ pc[c] = "opening"
               /\ pc'[c] = "fresh" /\ on(c)' \in Sessions
               /\ local'[c].executed = local[c].executed
    <2>1. PICK s \in Sessions : local' = [local EXCEPT ![c].session = s]
      BY <1>3 DEF open
    <2>2. /\ on(c)' = s
          /\ local'[c].executed = local[c].executed
          /\ \A d \in Calls \ {c} : local'[d] = local[d]
      BY <2>1, SessionChanges
    <2> QED BY <1>3, <2>2 DEF open, Types, OthersKeep
  <1>4. ASSUME run(c)
        PROVE  /\ OthersKeep(c) /\ pc[c] \in Holding
               /\ ~local[c].executed /\ local'[c].executed
               /\ pc' = pc /\ on(c)' = on(c)
    BY <1>4, SessionKept DEF run, OthersKeep
  <1>5. ASSUME run_raises(c)
        PROVE  /\ OthersKeep(c) /\ local' = local
               /\ \/ pc[c] = "pooled" /\ pc'[c] = "dead"
                  \/ pc[c] = "fresh" /\ pc'[c] = "broken"
    BY <1>5 DEF run_raises, Types, OthersKeep
  <1>6. ASSUME _discard_idle(c)
        PROVE  /\ OthersKeep(c) /\ pc[c] = "dead" /\ pc'[c] = "opening"
               /\ on(c)' = None /\ ~local'[c].executed
    BY <1>6, SessionLeft DEF _discard_idle, Types, OthersKeep
  <1>7. ASSUME open_fails(c) \/ run_returns(c) \/ run_times_out(c) \/ report(c)
        PROVE  /\ OthersKeep(c) /\ pc[c] \in Active
               /\ pc'[c] \in Answered
               /\ on(c)' = None /\ ~local'[c].executed
    <2>1. PICK outcome \in Answered : Leave(c, outcome)
      BY <1>7 DEF open_fails, run_returns, run_times_out, report, Answered
    <2>2. pc[c] \in Active
      BY <1>7 DEF open_fails, run_returns, run_times_out, report, Active, Holding
    <2>3. /\ on(c)' = None /\ ~local'[c].executed
          /\ \A d \in Calls \ {c} : local'[d] = local[d]
      BY <2>1, SessionLeft DEF Leave
    <2> QED BY <2>1, <2>2, <2>3 DEF Leave, Types, OthersKeep
  <1> QED BY <1>1, <1>2, <1>3, <1>4, <1>5, <1>6, <1>7

\* Every step keeps a session with exactly the calls that are using one.
LEMMA HoldsStep ==
    ASSUME PoolAssumption, Types, Queued, Holds, [Next]_vars
    PROVE  Holds'
  <1>1. ASSUME NEW c \in Calls, OthersKeep(c),
               on(c)' # None <=> pc'[c] \in Holding
        PROVE  Holds'
    BY <1>1 DEF Holds, OthersKeep, on
  <1>2. ASSUME UNCHANGED <<pc, local>> PROVE Holds'
    BY <1>2 DEF Holds, on
  <1>3. ASSUME NEW c \in Calls, Begin(c) \/ Step(c) PROVE Holds'
    <2>1. on(c) # None <=> pc[c] \in Holding
      BY DEF Holds
    <2>2. None \notin Sessions
      BY DEF PoolAssumption
    <2>3. local' = local => on(c)' = on(c)
      BY DEF on
    <2>4. OthersKeep(c) /\ (on(c)' # None <=> pc'[c] \in Holding)
      BY <1>3, <2>1, <2>2, <2>3, CallSteps DEF Step, Holding, Active, Answered
    <2> QED BY <1>1, <2>4
  <1>4. ASSUME NEW s \in Sessions, close(s) \/ run_late(s) \/ expire(s)
        PROVE  Holds'
    BY <1>2, <1>4 DEF close, run_late, expire
  <1>6. CASE tick \/ UNCHANGED vars
    BY <1>2, <1>6 DEF tick, vars
  <1> QED BY <1>3, <1>4, <1>6 DEF Next

-----------------------------------------------------------------------------
(* Where the sessions go *)

\* Every session stays where it is.
Still ==
    /\ \A d \in Calls : on(d)' = on(d)
    /\ Len(idle') = Len(idle)
    /\ \A i \in 1 .. Len(idle) : idle'[i].session = idle[i].session
    /\ closing' = closing /\ strays' = strays /\ shells' = shells

\* The call alone lets go of its session.
Vacates(c) == \A d \in Calls : on(d)' = IF d = c THEN None ELSE on(d)

\* A step of the pool moves no session, or is one of those that move one.
LEMMA StepKinds ==
    ASSUME PoolAssumption, Types, Queued, Holds, [Next]_vars
    PROVE  \/ Still
           \/ \E c \in Calls : \/ execute(c) \/ open(c) \/ open_fails(c)
                               \/ run_returns(c) \/ run_times_out(c)
                               \/ _discard_idle(c) \/ report(c)
           \/ \E s \in Sessions : close(s) \/ expire(s)
  <1>1. ASSUME local' = local, idle' = idle,
               UNCHANGED <<closing, strays, shells>>
        PROVE  Still
    BY <1>1 DEF Still, on
  <1>2. ASSUME NEW c \in Calls, Begin(c) \/ run_raises(c) PROVE Still
    BY <1>1, <1>2 DEF Begin, run_raises
  <1>3. ASSUME NEW c \in Calls, run(c) PROVE Still
    <2>1. OthersKeep(c) /\ on(c)' = on(c)
      BY <1>3, CallSteps
    <2> QED BY <1>3, <2>1 DEF Still, OthersKeep, on, run
  <1>4. ASSUME NEW s \in Sessions, run_late(s) PROVE Still
    BY <1>1, <1>4 DEF run_late
  <1>5. CASE tick
    BY <1>5, TickFacts DEF tick, Still, on
  <1>6. CASE UNCHANGED vars
    BY <1>1, <1>6 DEF vars
  <1> QED BY <1>2, <1>3, <1>4, <1>5, <1>6 DEF Next, Step

\* A call enters execute() with the youngest session that is left, if any.
LEMMA ExecuteTakes ==
    ASSUME PoolAssumption, Types, Queued, Holds, NEW c \in Calls, execute(c)
    PROVE  /\ shells' = shells
           /\ \A d \in Calls \ {c} : on(d)' = on(d)
           /\ \E n \in 0 .. Len(idle) :
                /\ Len(idle') = n
                /\ \A i \in 1 .. n : idle'[i] = idle[i]
                /\ \/ /\ on(c)' = None /\ n = 0
                      /\ Gone' = Gone \cup
                           {idle[i].session : i \in 1 .. Len(idle)}
                   \/ /\ n + 1 \in 1 .. Len(idle)
                      /\ on(c)' = idle[n + 1].session
                      /\ Gone' = Gone \cup
                           {idle[i].session : i \in n + 2 .. Len(idle)}
  <1>1. PICK place \in 0 .. Len(idle), n \in 0 .. Len(idle) :
             /\ place = 0 => n = 0 /\ pc' = [pc EXCEPT ![c] = "opening"]
                                   /\ local' = local
             /\ place > 0 =>
                  /\ n = place - 1
                  /\ pc' = [pc EXCEPT ![c] = "pooled"]
                  /\ local' = [local EXCEPT ![c].session = idle[place].session]
             /\ closing' = closing \cup
                  {idle[i].session : i \in place + 1 .. Len(idle)}
             /\ Len(idle') = n
             /\ \A i \in 1 .. n : idle'[i] = idle[i]
    BY ExecuteFacts
  <1>2. /\ shells' = shells /\ strays' = strays
        /\ \A d \in Calls \ {c} : on(d)' = on(d)
    BY CallSteps DEF execute, OthersKeep, on
  <1>3. Len(idle) \in Nat
    BY DEF Types
  <1>4. CASE place = 0
    <2>1. on(c)' = on(c) /\ on(c) = None
      BY <1>1, <1>4, HeadWaits DEF on, Holds, Holding
    <2>2. n = 0 /\ on(c)' = None
      BY <1>1, <1>4, <2>1
    <2>3. closing' = closing \cup {idle[i].session : i \in 1 .. Len(idle)}
      BY <1>1, <1>4
    <2>4. Gone' = Gone \cup {idle[i].session : i \in 1 .. Len(idle)}
      BY <1>2, <2>3 DEF Gone
    <2> QED BY <1>1, <1>2, <2>2, <2>4
  <1>5. CASE place > 0
    <2>1. n = place - 1 /\ n + 1 = place /\ n + 2 = place + 1
          /\ place \in 1 .. Len(idle)
      BY <1>1, <1>3, <1>5
    <2>2. PICK s \in Sessions : s = idle[place].session
      BY <2>1, IdleSessions DEF Types
    <2>3. local' = [local EXCEPT ![c].session = s]
      BY <1>1, <1>5, <2>2
    <2>4. on(c)' = idle[n + 1].session
      BY <2>1, <2>2, <2>3, SessionChanges
    <2>5. closing' = closing \cup {idle[i].session : i \in n + 2 .. Len(idle)}
      BY <1>1, <1>5, <2>1
    <2>6. Gone' = Gone \cup {idle[i].session : i \in n + 2 .. Len(idle)}
      BY <1>2, <2>5 DEF Gone
    <2> QED BY <1>1, <1>2, <2>1, <2>4, <2>6
  <1>6. place = 0 \/ place > 0
    BY <1>3
  <1> QED BY <1>4, <1>5, <1>6

\* A step that ends the use of a session takes it from that call only.
LEMMA Vacating ==
    ASSUME PoolAssumption, Types, Queued, Holds, NEW c \in Calls,
           run_returns(c) \/ run_times_out(c) \/ _discard_idle(c) \/ report(c)
    PROVE  Vacates(c) /\ on(c) \in Sessions
  <1>1. OthersKeep(c) /\ on(c)' = None
    BY CallSteps
  <1>2. pc[c] \in Holding
    BY DEF run_returns, run_times_out, _discard_idle, report, Holding
  <1>3. on(c) \in Sessions
    BY <1>2 DEF Holds, Types, Local, on
  <1> QED BY <1>1, <1>3 DEF Vacates, OthersKeep, on

\* Opening takes a session that has no shell.
LEMMA Opening ==
    ASSUME PoolAssumption, Types, NEW c \in Calls, open(c)
    PROVE  \E s \in Sessions :
             /\ on(c)' = s /\ s \notin shells
             /\ \A d \in Calls \ {c} : on(d)' = on(d)
             /\ shells' = shells \cup {s}
  <1>1. PICK s \in Sessions \ shells :
          /\ shells' = shells \cup {s}
          /\ local' = [local EXCEPT ![c].session = s]
    BY DEF open
  <1>2. on(c)' = s /\ \A d \in Calls \ {c} : local'[d] = local[d]
    BY <1>1, SessionChanges
  <1> QED BY <1>1, <1>2 DEF on

\* An open that fails leaves every session with whom it was, and the server
\* perhaps with a shell that nobody knows of.
LEMMA OpeningFails ==
    ASSUME PoolAssumption, Types, Queued, Holds, NEW c \in Calls, open_fails(c)
    PROVE  /\ \A d \in Calls : on(d)' = on(d)
           /\ idle' = idle /\ closing' = closing
           /\ \/ shells' = shells /\ strays' = strays
              \/ \E s \in Sessions \ shells :
                   shells' = shells \cup {s} /\ strays' = strays \cup {s}
  <1>1. on(c) = None
    BY DEF open_fails, Holds, Holding
  <1>2. OthersKeep(c) /\ on(c)' = None
    BY CallSteps
  <1>3. \A d \in Calls : on(d)' = on(d)
    BY <1>1, <1>2 DEF OthersKeep, on
  <1> QED BY <1>3 DEF open_fails

\* What a close makes of the sessions given up, and of the shells.
LEMMA CloseFacts ==
    ASSUME NEW s, NEW script, Close(s, script)
    PROVE  \/ shells' = shells \ {s} /\ strays' = strays
           \/ shells' = shells /\ strays' = strays \cup {s}
  BY DEF Close

\* A call that closes its own session leaves it to the server at most, and the
\* parked ones, if it discards them, to the threads.
LEMMA CallCloses ==
    ASSUME PoolAssumption, Types, Queued, Holds, NEW c \in Calls,
           _discard_idle(c) \/ report(c)
    PROVE  /\ Vacates(c) /\ on(c) \in Sessions
           /\ \/ idle' = idle /\ closing' = closing
              \/ /\ Len(idle') = 0
                 /\ closing' = closing \cup
                      {idle[i].session : i \in 1 .. Len(idle)}
           /\ \/ shells' = shells \ {on(c)} /\ strays' = strays
              \/ shells' = shells /\ strays' = strays \cup {on(c)}
  <1>1. Vacates(c) /\ on(c) \in Sessions
    BY Vacating
  <1>2. \/ shells' = shells \ {on(c)} /\ strays' = strays
        \/ shells' = shells /\ strays' = strays \cup {on(c)}
    BY CloseFacts DEF _discard_idle, report
  <1>3. \/ idle' = idle /\ closing' = closing
        \/ Len(idle') = 0 /\ closing' = closing \cup SessionsOf(idle)
    BY DEF _discard_idle, report
  <1>4. SessionsOf(idle) = {idle[i].session : i \in 1 .. Len(idle)}
    BY IdleSessions DEF Types
  <1> QED BY <1>1, <1>2, <1>3, <1>4

\* Every step keeps each session in one place.
LEMMA OnePlaceStep ==
    ASSUME PoolAssumption, Places, [Next]_vars
    PROVE  OnePlace'
  <1>1. /\ Types /\ Queued /\ Holds /\ OnePlace /\ Backed
        /\ None \notin Sessions /\ Gone \subseteq Sessions
        /\ Len(idle) \in Nat
        /\ \A i \in 1 .. Len(idle) : idle[i].session \in Sessions
    <2>1. Types /\ Queued /\ Holds /\ OnePlace /\ Backed
      BY DEF Places
    <2>2. idle \in Seq(Parked) /\ closing \subseteq Sessions
          /\ strays \subseteq Sessions
      BY <2>1 DEF Types
    <2>3. None \notin Sessions /\ Gone \subseteq Sessions
      BY <2>2 DEF PoolAssumption, Gone
    <2> QED BY <2>1, <2>2, <2>3, IdleSessions
  <1>2. CASE Still
    BY <1>1, <1>2 DEF OnePlace, Still, Gone
  <1>3. ASSUME NEW c \in Calls, execute(c) PROVE OnePlace'
    <2>1. PICK n \in 0 .. Len(idle) :
            /\ Len(idle') = n
            /\ \A i \in 1 .. n : idle'[i] = idle[i]
            /\ \/ /\ on(c)' = None /\ n = 0
                  /\ Gone' = Gone \cup
                       {idle[i].session : i \in 1 .. Len(idle)}
               \/ /\ n + 1 \in 1 .. Len(idle)
                  /\ on(c)' = idle[n + 1].session
                  /\ Gone' = Gone \cup
                       {idle[i].session : i \in n + 2 .. Len(idle)}
      BY <1>1, <1>3, ExecuteTakes
    <2>2. \A d \in Calls \ {c} : on(d)' = on(d)
      BY <1>1, <1>3, ExecuteTakes
    <2>3. CASE on(c)' = None /\ n = 0
      <3>1. \A d \in Calls : on(d)' # None => d # c /\ on(d)' = on(d)
        BY <2>2, <2>3
      <3>2. \A d \in Calls : on(d)' \notin Gone'
        <4>1. None \notin Gone'
          BY <1>1, <2>1, <2>3
        <4>2. \A d \in Calls \ {c} : on(d) \notin Gone'
          BY <1>1, <2>1, <2>3 DEF OnePlace
        <4> QED BY <2>2, <2>3, <4>1, <4>2
      <3>3. Len(idle') = 0
        BY <2>1, <2>3
      <3> QED BY <1>1, <3>1, <3>2, <3>3 DEF OnePlace
    <2>4. CASE n + 1 \in 1 .. Len(idle) /\ on(c)' = idle[n + 1].session
      <3>1. Gone' = Gone \cup {idle[i].session : i \in n + 2 .. Len(idle)}
        BY <1>1, <2>1, <2>4
      <3>2. \A d, e \in Calls : on(d)' = on(e)' /\ on(d)' # None => d = e
        BY <1>1, <2>2, <2>4 DEF OnePlace
      <3>3. \A i \in 1 .. Len(idle') :
              /\ i \in 1 .. Len(idle) /\ i # n + 1 /\ i \notin n + 2 .. Len(idle)
              /\ idle'[i] = idle[i]
        BY <1>1, <2>1
      <3>4. \A i \in 1 .. Len(idle'), d \in Calls : idle'[i].session # on(d)'
        <4>1. \A i \in 1 .. Len(idle') : idle'[i].session # on(c)'
          BY <1>1, <2>4, <3>3 DEF OnePlace
        <4>2. \A i \in 1 .. Len(idle'), d \in Calls \ {c} : idle'[i].session # on(d)'
          BY <1>1, <2>2, <3>3 DEF OnePlace
        <4> QED BY <4>1, <4>2
      <3>5. \A i \in 1 .. Len(idle') : idle'[i].session \notin Gone'
        BY <1>1, <3>1, <3>3 DEF OnePlace
      <3>6. \A d \in Calls : on(d)' \notin Gone'
        <4>1. on(c)' \notin Gone'
          BY <1>1, <2>4, <3>1 DEF OnePlace
        <4>2. \A d \in Calls \ {c} : on(d)' \notin Gone'
          BY <1>1, <2>2, <3>1 DEF OnePlace
        <4> QED BY <4>1, <4>2
      <3>7. \A i, j \in 1 .. Len(idle') :
              idle'[i].session = idle'[j].session => i = j
        BY <1>1, <3>3 DEF OnePlace
      <3> QED BY <3>2, <3>4, <3>5, <3>6, <3>7 DEF OnePlace
    <2> QED BY <2>1, <2>3, <2>4
  <1>4. ASSUME NEW c \in Calls, open(c) PROVE OnePlace'
    <2>1. PICK s \in Sessions :
            /\ on(c)' = s /\ s \notin shells
            /\ \A d \in Calls \ {c} : on(d)' = on(d)
      BY <1>1, <1>4, Opening
    <2>2. /\ \A d \in Calls \ {c} : on(d) # s
          /\ \A i \in 1 .. Len(idle) : idle[i].session # s
      BY <1>1, <2>1 DEF Backed
    <2>3. idle' = idle /\ Gone' = Gone /\ s \notin Gone
      BY <1>1, <1>4, <2>1 DEF open, Gone, Backed
    <2> QED BY <1>1, <2>1, <2>2, <2>3 DEF OnePlace
  <1>5. ASSUME NEW c \in Calls, run_returns(c) PROVE OnePlace'
    <2>1. Vacates(c) /\ on(c) \in Sessions
      BY <1>1, <1>5, Vacating
    <2>2. /\ Len(idle') = Len(idle) + 1
          /\ \A i \in 1 .. Len(idle) : idle'[i] = idle[i]
          /\ idle'[Len(idle) + 1].session = on(c)
      BY <1>1, <1>5, ReturnFacts
    <2>3. Gone' = Gone
      BY <1>5 DEF run_returns, Gone
    <2>4. \A i \in 1 .. Len(idle') : i \in 1 .. Len(idle) \/ i = Len(idle) + 1
      BY <1>1, <2>2
    <2>5. \A d, e \in Calls : on(d)' = on(e)' /\ on(d)' # None => d = e
      BY <1>1, <2>1 DEF OnePlace, Vacates
    <2>6. \A i, j \in 1 .. Len(idle') :
            idle'[i].session = idle'[j].session => i = j
      <3>1. \A i \in 1 .. Len(idle) : idle'[i].session # on(c)
        BY <1>1, <2>2 DEF OnePlace
      <3> QED BY <1>1, <2>2, <2>4, <3>1 DEF OnePlace
    <2>7. \A i \in 1 .. Len(idle'), d \in Calls : idle'[i].session # on(d)'
      <3>1. \A i \in 1 .. Len(idle') : idle'[i].session \in Sessions
        BY <1>1, <2>1, <2>2, <2>4
      <3>2. \A i \in 1 .. Len(idle'), d \in Calls \ {c} : idle'[i].session # on(d)
        BY <1>1, <2>1, <2>2, <2>4 DEF OnePlace
      <3> QED BY <1>1, <2>1, <3>1, <3>2 DEF Vacates
    <2>8. \A i \in 1 .. Len(idle') : idle'[i].session \notin Gone'
      BY <1>1, <2>2, <2>3, <2>4 DEF OnePlace
    <2>9. \A d \in Calls : on(d)' \notin Gone'
      BY <1>1, <2>1, <2>3 DEF OnePlace, Vacates
    <2> QED BY <2>5, <2>6, <2>7, <2>8, <2>9 DEF OnePlace
  <1>6. ASSUME NEW c \in Calls, run_times_out(c) PROVE OnePlace'
    <2>1. Vacates(c) /\ on(c) \in Sessions
      BY <1>1, <1>6, Vacating
    <2>2. Gone' = Gone \cup {on(c)} /\ idle' = idle
      BY <1>6 DEF run_times_out, Gone
    <2> QED BY <1>1, <2>1, <2>2 DEF OnePlace, Vacates
  <1>7. ASSUME NEW c \in Calls, _discard_idle(c) \/ report(c) PROVE OnePlace'
    <2>1. /\ Vacates(c) /\ on(c) \in Sessions
          /\ Gone' \subseteq Gone \cup {on(c)}
               \cup {idle[i].session : i \in 1 .. Len(idle)}
          /\ \/ Len(idle') = 0
             \/ idle' = idle /\ Gone' \subseteq Gone \cup {on(c)}
      <3>1. /\ Vacates(c) /\ on(c) \in Sessions
            /\ \/ idle' = idle /\ closing' = closing
               \/ /\ Len(idle') = 0
                  /\ closing' = closing \cup
                       {idle[i].session : i \in 1 .. Len(idle)}
            /\ \/ shells' = shells \ {on(c)} /\ strays' = strays
               \/ shells' = shells /\ strays' = strays \cup {on(c)}
        BY <1>1, <1>7, CallCloses
      <3>2. strays' \subseteq strays \cup {on(c)}
        BY <3>1
      <3>3. CASE idle' = idle /\ closing' = closing
        BY <3>1, <3>2, <3>3 DEF Gone
      <3>4. CASE /\ Len(idle') = 0
                 /\ closing' = closing \cup
                      {idle[i].session : i \in 1 .. Len(idle)}
        BY <3>1, <3>2, <3>4 DEF Gone
      <3> QED BY <3>1, <3>3, <3>4
    <2>2. \A d \in Calls : on(d)' \notin Gone'
      BY <1>1, <2>1 DEF OnePlace, Vacates
    <2>3. \A d, e \in Calls : on(d)' = on(e)' /\ on(d)' # None => d = e
      BY <1>1, <2>1 DEF OnePlace, Vacates
    <2>4. CASE Len(idle') = 0
      BY <2>2, <2>3, <2>4 DEF OnePlace
    <2>5. CASE idle' = idle /\ Gone' \subseteq Gone \cup {on(c)}
      <3>1. \A i \in 1 .. Len(idle) : idle[i].session \notin Gone'
        BY <1>1, <2>5 DEF OnePlace
      <3>2. \A i \in 1 .. Len(idle), d \in Calls : idle[i].session # on(d)'
        BY <1>1, <2>1 DEF OnePlace, Vacates
      <3> QED BY <1>1, <2>2, <2>3, <2>5, <3>1, <3>2 DEF OnePlace
    <2> QED BY <2>1, <2>4, <2>5
  <1>8. ASSUME NEW c \in Calls, open_fails(c) PROVE OnePlace'
    <2>1. /\ \A d \in Calls : on(d)' = on(d)
          /\ idle' = idle
          /\ \/ Gone' = Gone
             \/ \E s \in Sessions \ shells : Gone' = Gone \cup {s}
      BY <1>1, <1>8, OpeningFails DEF Gone
    <2> QED BY <1>1, <2>1 DEF OnePlace, Backed
  <1>9. ASSUME NEW s \in Sessions, close(s) \/ expire(s) PROVE OnePlace'
    <2>1. /\ idle' = idle /\ Gone' \subseteq Gone
          /\ \A d \in Calls : on(d)' = on(d)
      BY <1>9, CloseFacts DEF close, expire, Gone, on
    <2> QED BY <1>1, <2>1 DEF OnePlace
  <1> QED BY <1>1, <1>2, <1>3, <1>4, <1>5, <1>6, <1>7, <1>8, <1>9, StepKinds

\* No step forgets a session that a thread is about to close.
LEMMA ApartStep ==
    ASSUME PoolAssumption, Places, [Next]_vars
    PROVE  Apart'
  <1>1. /\ Types /\ Queued /\ Holds /\ OnePlace /\ Apart /\ Backed
        /\ Len(idle) \in Nat
    BY DEF Places, Types
  <1>2. ASSUME strays' \subseteq strays,
               \A s \in closing' : s \notin closing => s \notin strays
        PROVE  Apart'
    BY <1>1, <1>2 DEF Apart
  <1>3. CASE Still
    BY <1>2, <1>3 DEF Still
  <1>4. ASSUME NEW c \in Calls, execute(c) PROVE Apart'
    <2>1. PICK place \in 0 .. Len(idle) :
            closing' = closing \cup
              {idle[i].session : i \in place + 1 .. Len(idle)}
      BY <1>1, <1>4, ExecuteFacts
    <2>2. strays' = strays
      BY <1>4 DEF execute
    <2>3. \A i \in place + 1 .. Len(idle) : idle[i].session \notin strays
      BY <1>1 DEF OnePlace, Gone
    <2> QED BY <1>2, <2>1, <2>2, <2>3
  <1>5. ASSUME NEW c \in Calls, open(c) \/ run_returns(c) PROVE Apart'
    BY <1>2, <1>5 DEF open, run_returns
  <1>6. ASSUME NEW c \in Calls, open_fails(c) PROVE Apart'
    <2>1. /\ closing' = closing
          /\ \/ strays' = strays
             \/ \E s \in Sessions \ shells : strays' = strays \cup {s}
      BY <1>1, <1>6, OpeningFails
    <2> QED BY <1>1, <2>1 DEF Apart, Backed, Gone
  <1>7. ASSUME NEW c \in Calls, run_times_out(c) PROVE Apart'
    <2>1. closing' = closing \cup {on(c)} /\ strays' = strays
      BY <1>7 DEF run_times_out
    <2>2. on(c) \notin strays
      BY <1>1 DEF OnePlace, Gone
    <2> QED BY <1>2, <2>1, <2>2
  <1>8. ASSUME NEW c \in Calls, _discard_idle(c) \/ report(c) PROVE Apart'
    <2>1. /\ strays' \subseteq strays \cup {on(c)}
          /\ closing' \subseteq closing \cup {idle[i].session : i \in 1 .. Len(idle)}
      BY <1>1, <1>8, CallCloses
    <2>2. \A i \in 1 .. Len(idle) :
            idle[i].session \notin strays /\ idle[i].session # on(c)
      BY <1>1 DEF OnePlace, Gone
    <2>3. on(c) \notin closing
      BY <1>1 DEF OnePlace, Gone
    <2> QED BY <1>1, <2>1, <2>2, <2>3 DEF Apart
  <1>9. ASSUME NEW s \in Sessions, close(s) \/ expire(s) PROVE Apart'
    <2>1. \/ closing' = closing \ {s} /\ strays' \subseteq strays \cup {s}
          \/ closing' = closing /\ strays' \subseteq strays
      BY <1>9, CloseFacts DEF close, expire
    <2> QED BY <1>1, <2>1 DEF Apart
  <1> QED BY <1>1, <1>3, <1>4, <1>5, <1>6, <1>7, <1>8, <1>9, StepKinds

\* Every step keeps a shell behind each session that has a place.
LEMMA BackedStep ==
    ASSUME PoolAssumption, Places, [Next]_vars
    PROVE  Backed'
  <1>1. /\ Types /\ Queued /\ Holds /\ OnePlace /\ Apart /\ Backed
        /\ None \notin Sessions
        /\ Len(idle) \in Nat
        /\ \A i \in 1 .. Len(idle) : idle[i].session \in Sessions
        /\ \A c \in Calls : on(c) # None => on(c) \in Sessions
    <2>1. /\ Types /\ Queued /\ Holds /\ OnePlace /\ Apart /\ Backed
          /\ None \notin Sessions
      BY DEF Places, PoolAssumption
    <2>2. Len(idle) \in Nat /\ \A i \in 1 .. Len(idle) : idle[i].session \in Sessions
      BY <2>1, IdleSessions DEF Types
    <2>3. \A c \in Calls : on(c) # None => on(c) \in Sessions
      BY <2>1 DEF Types, Local, on
    <2> QED BY <2>1, <2>2, <2>3
  <1>2. CASE Still
    BY <1>1, <1>2 DEF Backed, Still, Gone
  <1>3. ASSUME NEW c \in Calls, execute(c) PROVE Backed'
    <2>1. /\ shells' = shells
          /\ \A d \in Calls \ {c} : on(d)' = on(d)
      BY <1>1, <1>3, ExecuteTakes
    <2>2. PICK n \in 0 .. Len(idle) :
            /\ Len(idle') = n
            /\ \A i \in 1 .. n : idle'[i] = idle[i]
            /\ \/ /\ on(c)' = None /\ n = 0
                  /\ Gone' = Gone \cup
                       {idle[i].session : i \in 1 .. Len(idle)}
               \/ /\ n + 1 \in 1 .. Len(idle)
                  /\ on(c)' = idle[n + 1].session
                  /\ Gone' = Gone \cup
                       {idle[i].session : i \in n + 2 .. Len(idle)}
      BY <1>1, <1>3, ExecuteTakes
    <2>3. Gone' \subseteq shells
      <3>1. Gone' \subseteq Gone \cup {idle[i].session : i \in 1 .. Len(idle)}
        BY <1>1, <2>2
      <3> QED BY <1>1, <3>1 DEF Backed
    <2>4. \A d \in Calls : on(d)' # None => on(d)' \in shells
      BY <1>1, <2>1, <2>2 DEF Backed
    <2>5. \A i \in 1 .. Len(idle') : idle'[i].session \in shells
      <3>1. \A i \in 1 .. Len(idle') :
              i \in 1 .. Len(idle) /\ idle'[i] = idle[i]
        BY <1>1, <2>2
      <3> QED BY <1>1, <3>1 DEF Backed
    <2> QED BY <2>1, <2>3, <2>4, <2>5 DEF Backed
  <1>4. ASSUME NEW c \in Calls, open(c) PROVE Backed'
    <2>1. PICK s \in Sessions :
            /\ on(c)' = s
            /\ \A d \in Calls \ {c} : on(d)' = on(d)
            /\ shells' = shells \cup {s}
      BY <1>1, <1>4, Opening
    <2>2. idle' = idle /\ Gone' = Gone
      BY <1>4 DEF open, Gone
    <2> QED BY <1>1, <2>1, <2>2 DEF Backed
  <1>5. ASSUME NEW c \in Calls, open_fails(c) PROVE Backed'
    <2>1. /\ \A d \in Calls : on(d)' = on(d)
          /\ idle' = idle
          /\ \/ shells' = shells /\ Gone' = Gone
             \/ \E s \in Sessions \ shells :
                  shells' = shells \cup {s} /\ Gone' = Gone \cup {s}
      BY <1>1, <1>5, OpeningFails DEF Gone
    <2> QED BY <1>1, <2>1 DEF Backed
  <1>6. ASSUME NEW c \in Calls, run_returns(c) PROVE Backed'
    <2>1. /\ Vacates(c) /\ on(c) \in Sessions /\ shells' = shells /\ Gone' = Gone
      BY <1>1, <1>6, Vacating DEF run_returns, Gone
    <2>2. /\ Len(idle') = Len(idle) + 1
          /\ \A i \in 1 .. Len(idle) : idle'[i] = idle[i]
          /\ idle'[Len(idle) + 1].session = on(c)
      BY <1>1, <1>6, ReturnFacts
    <2>3. \A i \in 1 .. Len(idle') : i \in 1 .. Len(idle) \/ i = Len(idle) + 1
      BY <1>1, <2>2
    <2>4. on(c) \in shells
      BY <1>1, <2>1 DEF Backed
    <2> QED BY <1>1, <2>1, <2>2, <2>3, <2>4 DEF Backed, Vacates
  <1>7. ASSUME NEW c \in Calls, run_times_out(c) PROVE Backed'
    <2>1. Vacates(c) /\ on(c) \in Sessions
      BY <1>1, <1>7, Vacating
    <2>2. Gone' = Gone \cup {on(c)} /\ idle' = idle /\ shells' = shells
      BY <1>7 DEF run_times_out, Gone
    <2> QED BY <1>1, <2>1, <2>2 DEF Backed, Vacates
  <1>8. ASSUME NEW c \in Calls, _discard_idle(c) \/ report(c) PROVE Backed'
    <2>1. /\ Vacates(c) /\ on(c) \in Sessions
          /\ \/ idle' = idle /\ closing' = closing
             \/ /\ Len(idle') = 0
                /\ closing' = closing \cup
                     {idle[i].session : i \in 1 .. Len(idle)}
          /\ \/ shells' = shells \ {on(c)} /\ strays' = strays
             \/ shells' = shells /\ strays' = strays \cup {on(c)}
      BY <1>1, <1>8, CallCloses
    <2>2. \A i \in 1 .. Len(idle) :
            idle[i].session \in shells /\ idle[i].session # on(c)
      BY <1>1 DEF Backed, OnePlace
    <2>3. on(c) \in shells /\ on(c) \notin Gone
      BY <1>1, <2>1 DEF Backed, OnePlace
    <2>4. shells \ {on(c)} \subseteq shells'
      BY <2>1
    <2>5. \A i \in 1 .. Len(idle') : idle'[i].session \in shells'
      BY <1>1, <2>1, <2>2, <2>4
    <2>6. Gone' \subseteq shells'
      BY <1>1, <2>1, <2>2, <2>3 DEF Gone, Backed
    <2>7. \A d \in Calls : on(d)' # None => on(d)' \in shells'
      BY <1>1, <2>1, <2>4 DEF Backed, OnePlace, Vacates
    <2> QED BY <2>5, <2>6, <2>7 DEF Backed
  <1>9. ASSUME NEW s \in Sessions, close(s) \/ expire(s) PROVE Backed'
    <2>1. /\ idle' = idle /\ s \in Gone
          /\ \A d \in Calls : on(d)' = on(d)
          /\ \/ shells' = shells \ {s} /\ Gone' = Gone \ {s}
             \/ shells' = shells /\ Gone' = Gone
      <3>1. CASE close(s)
        BY <1>1, <3>1, CloseFacts DEF close, Gone, Apart, on
      <3>2. CASE expire(s)
        BY <1>1, <3>2 DEF expire, Gone, Apart, on
      <3> QED BY <1>9, <3>1, <3>2
    <2> QED BY <1>1, <2>1 DEF OnePlace, Backed
  <1> QED BY <1>1, <1>2, <1>3, <1>4, <1>5, <1>6, <1>7, <1>8, <1>9, StepKinds

\* Every step keeps a place for each session that has a shell.
LEMMA PlacedStep ==
    ASSUME PoolAssumption, Places, Placed, [Next]_vars
    PROVE  Placed'
  <1>1. /\ Types /\ Queued /\ Holds
        /\ None \notin Sessions
        /\ Len(idle) \in Nat
        /\ shells \subseteq Sessions
    BY DEF Places, Types, PoolAssumption
  <1>2. CASE Still
    BY <1>1, <1>2 DEF Placed, Still, Gone
  <1>3. ASSUME NEW c \in Calls, execute(c) PROVE Placed'
    <2>1. /\ shells' = shells
          /\ \A d \in Calls \ {c} : on(d)' = on(d)
      BY <1>1, <1>3, ExecuteTakes
    <2>2. on(c) = None
      BY <1>1, <1>3, HeadWaits DEF Holds, Holding
    <2>3. PICK n \in 0 .. Len(idle) :
            /\ Len(idle') = n
            /\ \A i \in 1 .. n : idle'[i] = idle[i]
            /\ \/ /\ on(c)' = None /\ n = 0
                  /\ Gone' = Gone \cup
                       {idle[i].session : i \in 1 .. Len(idle)}
               \/ /\ n + 1 \in 1 .. Len(idle)
                  /\ on(c)' = idle[n + 1].session
                  /\ Gone' = Gone \cup
                       {idle[i].session : i \in n + 2 .. Len(idle)}
      BY <1>1, <1>3, ExecuteTakes
    <2>4. ASSUME NEW i \in 1 .. Len(idle)
          PROVE  \/ i \in 1 .. Len(idle') /\ idle'[i] = idle[i]
                 \/ on(c)' = idle[i].session
                 \/ idle[i].session \in Gone'
      BY <1>1, <2>3
    <2>5. Gone \subseteq Gone'
      BY <2>3
    <2> QED BY <1>1, <2>1, <2>2, <2>4, <2>5 DEF Placed
  <1>4. ASSUME NEW c \in Calls, open(c) PROVE Placed'
    <2>1. PICK s \in Sessions :
            /\ on(c)' = s
            /\ \A d \in Calls \ {c} : on(d)' = on(d)
            /\ shells' = shells \cup {s}
      BY <1>1, <1>4, Opening
    <2>2. idle' = idle /\ Gone' = Gone /\ on(c) = None
      BY <1>1, <1>4 DEF open, Holds, Holding, Gone
    <2> QED BY <1>1, <2>1, <2>2 DEF Placed
  <1>5. ASSUME NEW c \in Calls, open_fails(c) PROVE Placed'
    <2>1. /\ \A d \in Calls : on(d)' = on(d)
          /\ idle' = idle
          /\ \/ shells' = shells /\ Gone' = Gone
             \/ \E s \in Sessions \ shells :
                  shells' = shells \cup {s} /\ Gone' = Gone \cup {s}
      BY <1>1, <1>5, OpeningFails DEF Gone
    <2> QED BY <1>1, <2>1 DEF Placed
  <1>6. ASSUME NEW c \in Calls, run_returns(c) PROVE Placed'
    <2>1. Vacates(c) /\ shells' = shells /\ Gone' = Gone
      BY <1>1, <1>6, Vacating DEF run_returns, Gone
    <2>2. /\ Len(idle') = Len(idle) + 1
          /\ \A i \in 1 .. Len(idle) : i \in 1 .. Len(idle') /\ idle'[i] = idle[i]
          /\ Len(idle) + 1 \in 1 .. Len(idle')
          /\ idle'[Len(idle) + 1].session = on(c)
      BY <1>1, <1>6, ReturnFacts
    <2> QED BY <1>1, <2>1, <2>2 DEF Placed, Vacates
  <1>7. ASSUME NEW c \in Calls, run_times_out(c) PROVE Placed'
    <2>1. Vacates(c)
      BY <1>1, <1>7, Vacating
    <2>2. Gone' = Gone \cup {on(c)} /\ idle' = idle /\ shells' = shells
      BY <1>7 DEF run_times_out, Gone
    <2> QED BY <1>1, <2>1, <2>2 DEF Placed, Vacates
  <1>8. ASSUME NEW c \in Calls, _discard_idle(c) \/ report(c) PROVE Placed'
    <2>1. /\ Vacates(c)
          /\ \/ idle' = idle /\ closing' = closing
             \/ closing' = closing \cup
                  {idle[i].session : i \in 1 .. Len(idle)}
          /\ \/ shells' = shells \ {on(c)} /\ strays' = strays
             \/ shells' = shells /\ strays' = strays \cup {on(c)}
      BY <1>1, <1>8, CallCloses
    <2>2. Gone \subseteq Gone'
      BY <2>1 DEF Gone
    <2>3. \A i \in 1 .. Len(idle) :
            idle' = idle \/ idle[i].session \in Gone'
      BY <2>1 DEF Gone
    <2>4. shells' \subseteq shells /\ (on(c) \in shells' => on(c) \in Gone')
      BY <2>1 DEF Gone
    <2>5. \A s \in shells' : \/ \E d \in Calls : on(d)' = s
                             \/ \E i \in 1 .. Len(idle') : idle'[i].session = s
                             \/ s \in Gone'
      BY <1>1, <2>1, <2>2, <2>3, <2>4 DEF Placed, Vacates
    <2> QED BY <2>5 DEF Placed
  <1>9. ASSUME NEW s \in Sessions, close(s) \/ expire(s) PROVE Placed'
    <2>1. /\ idle' = idle
          /\ \A d \in Calls : on(d)' = on(d)
          /\ \/ shells' = shells \ {s} /\ Gone \ {s} \subseteq Gone'
             \/ shells' = shells /\ Gone \subseteq Gone'
      <3>1. CASE close(s)
        BY <3>1, CloseFacts DEF close, Gone, on
      <3>2. CASE expire(s)
        BY <3>2 DEF expire, Gone, on
      <3> QED BY <1>9, <3>1, <3>2
    <2> QED BY <1>1, <2>1 DEF Placed
  <1> QED BY <1>1, <1>2, <1>3, <1>4, <1>5, <1>6, <1>7, <1>8, <1>9, StepKinds

-----------------------------------------------------------------------------
(* Runs, late scripts, order and room *)

\* What a change of one late script makes of the sets of them: one is taken
\* away, or one is added.
LEMMA LateMoves ==
    ASSUME PoolAssumption, Types, NEW s \in Sessions,
           \A c \in Calls : IsFiniteSet(LateOn(c))
    PROVE  /\ late' = [late EXCEPT ![s] = None] =>
                \A c \in Calls :
                  /\ IsFiniteSet(LateOn(c))'
                  /\ Cardinality(LateOn(c))' =
                       IF late[s] = c THEN Cardinality(LateOn(c)) - 1
                       ELSE Cardinality(LateOn(c))
           /\ \A d \in Calls :
                late' = [late EXCEPT ![s] = d] /\ late[s] = None =>
                  \A c \in Calls :
                    /\ IsFiniteSet(LateOn(c))'
                    /\ Cardinality(LateOn(c))' =
                         IF d = c THEN Cardinality(LateOn(c)) + 1
                         ELSE Cardinality(LateOn(c))
  <1>1. None \notin Calls /\ late \in [Sessions -> Calls \cup {None}]
    BY DEF PoolAssumption, Types
  <1>2. ASSUME late' = [late EXCEPT ![s] = None], NEW c \in Calls
        PROVE  /\ IsFiniteSet(LateOn(c))'
               /\ Cardinality(LateOn(c))' =
                    IF late[s] = c THEN Cardinality(LateOn(c)) - 1
                    ELSE Cardinality(LateOn(c))
    <2>1. CASE late[s] = c
      <3>1. LateOn(c)' = LateOn(c) \ {s} /\ s \in LateOn(c)
        BY <1>1, <1>2, <2>1 DEF LateOn
      <3> QED BY <2>1, <3>1, FS_RemoveElement
    <2>2. CASE late[s] # c
      <3>1. LateOn(c)' = LateOn(c)
        BY <1>1, <1>2, <2>2 DEF LateOn
      <3> QED BY <2>2, <3>1
    <2> QED BY <2>1, <2>2
  <1>3. ASSUME NEW d \in Calls, late' = [late EXCEPT ![s] = d], late[s] = None,
               NEW c \in Calls
        PROVE  /\ IsFiniteSet(LateOn(c))'
               /\ Cardinality(LateOn(c))' =
                    IF d = c THEN Cardinality(LateOn(c)) + 1
                    ELSE Cardinality(LateOn(c))
    <2>1. CASE d = c
      <3>1. LateOn(c)' = LateOn(c) \cup {s} /\ s \notin LateOn(c)
        BY <1>1, <1>3, <2>1 DEF LateOn
      <3> QED BY <2>1, <3>1, FS_AddElement
    <2>2. CASE d # c
      <3>1. LateOn(c)' = LateOn(c)
        BY <1>1, <1>3, <2>2 DEF LateOn
      <3> QED BY <2>2, <3>1
    <2> QED BY <2>1, <2>2
  <1> QED BY <1>2, <1>3

\* A session in use or parked carries no late script.
LEMMA HeldIsClear ==
    ASSUME PoolAssumption, Places, LateAlone, NEW c \in Calls, on(c) \in Sessions
    PROVE  late[on(c)] = None
  BY DEF Places, OnePlace, LateAlone

\* A call that gives its session up leaves its own script there, if any; a close
\* or an expiry ends at most the script that is there.
LateKept == late' = late

LateEnds(s) == late' = [late EXCEPT ![s] = None]

LateLeft(c) == ~local[c].executed /\ late' = [late EXCEPT ![on(c)] = c]

\* What each step makes of the late scripts.
LEMMA LateSteps ==
    ASSUME PoolAssumption, Places, LateAlone
    PROVE  /\ \A c \in Calls :
                /\ (\/ Begin(c) \/ execute(c) \/ open(c) \/ open_fails(c) \/ run(c)
                    \/ run_returns(c) \/ run_raises(c)) => LateKept
                /\ run_times_out(c) \/ _discard_idle(c) \/ report(c) =>
                     on(c) \in Sessions /\ (LateKept \/ LateLeft(c))
           /\ \A s \in Sessions :
                /\ close(s) => LateKept \/ LateEnds(s)
                /\ expire(s) => LateEnds(s)
  <1>1. /\ Types /\ Queued /\ Holds
        /\ late \in [Sessions -> Calls \cup {None}]
    BY DEF Places, Types
  <1>2. ASSUME NEW c \in Calls,
               \/ Begin(c) \/ execute(c) \/ open(c) \/ open_fails(c) \/ run(c)
               \/ run_returns(c) \/ run_raises(c)
        PROVE  LateKept
    BY <1>2 DEF LateKept, Begin, execute, open, open_fails, run, run_returns,
       run_raises
  <1>3. ASSUME NEW c \in Calls, run_times_out(c) \/ _discard_idle(c) \/ report(c)
        PROVE  on(c) \in Sessions /\ (LateKept \/ LateLeft(c))
    <2>1. on(c) \in Sessions
      BY <1>1, <1>3, Vacating
    <2>2. late[on(c)] = None
      BY <2>1, HeldIsClear
    <2>3. \/ late' = [late EXCEPT ![on(c)] = None]
          \/ late' = [late EXCEPT ![on(c)] = Left(c)]
      BY <1>3 DEF run_times_out, _discard_idle, report, Close
    <2>4. late' = [late EXCEPT ![on(c)] = None] => LateKept
      BY <1>1, <2>1, <2>2 DEF LateKept
    <2>5. CASE local[c].executed
      <3>1. late' = [late EXCEPT ![on(c)] = None]
        BY <2>3, <2>5 DEF Left
      <3> QED BY <2>1, <2>4, <3>1
    <2>6. CASE ~local[c].executed
      <3>1. \/ late' = [late EXCEPT ![on(c)] = None]
            \/ late' = [late EXCEPT ![on(c)] = c]
        BY <2>3, <2>6 DEF Left
      <3> QED BY <2>1, <2>4, <2>6, <3>1 DEF LateLeft
    <2> QED BY <2>5, <2>6
  <1>4. ASSUME NEW s \in Sessions, close(s) PROVE LateKept \/ LateEnds(s)
    <2>1. \/ late' = [late EXCEPT ![s] = None]
          \/ late' = [late EXCEPT ![s] = late[s]]
      BY <1>4 DEF close, Close
    <2> QED BY <1>1, <2>1 DEF LateKept, LateEnds
  <1>5. ASSUME NEW s \in Sessions, expire(s) PROVE LateEnds(s)
    BY <1>5 DEF expire, LateEnds
  <1> QED BY <1>2, <1>3, <1>4, <1>5

\* Every step keeps late scripts to the sessions given up.
LEMMA LateAloneStep ==
    ASSUME PoolAssumption, Places, LateAlone, [Next]_vars
    PROVE  LateAlone'
  <1>1. /\ Types /\ Queued /\ Holds /\ OnePlace /\ Apart
        /\ late \in [Sessions -> Calls \cup {None}]
    BY DEF Places, Types
  <1>2. ASSUME LateKept, Gone \subseteq Gone' PROVE LateAlone'
    BY <1>2 DEF LateAlone, LateKept
  <1>3. ASSUME NEW s \in Sessions, LateEnds(s), Gone \ {s} \subseteq Gone'
        PROVE  LateAlone'
    BY <1>1, <1>3 DEF LateAlone, LateEnds
  <1>4. ASSUME NEW c \in Calls,
               \/ Begin(c) \/ execute(c) \/ open(c) \/ open_fails(c) \/ run(c)
               \/ run_returns(c) \/ run_raises(c)
        PROVE  LateAlone'
    <2>1. LateKept
      BY <1>4, LateSteps
    <2>2. Gone \subseteq Gone'
      BY <1>4 DEF Gone, Begin, execute, open, open_fails, run, run_returns,
         run_raises
    <2> QED BY <1>2, <2>1, <2>2
  <1>5. ASSUME NEW c \in Calls, run_times_out(c) \/ _discard_idle(c) \/ report(c)
        PROVE  LateAlone'
    <2>1. on(c) \in Sessions /\ (LateKept \/ LateLeft(c))
      BY <1>5, LateSteps
    <2>2. late[on(c)] = None
      BY <2>1, HeldIsClear
    <2>3. /\ Gone \subseteq Gone'
          /\ \/ on(c) \in Gone'
             \/ late' = [late EXCEPT ![on(c)] = None]
      BY <1>5 DEF Gone, run_times_out, _discard_idle, report, Close
    <2>4. \A s \in Sessions : late'[s] # None => late'[s] = late[s] \/ s = on(c)
      BY <1>1, <2>1 DEF LateKept, LateLeft
    <2>5. late' = [late EXCEPT ![on(c)] = None] => late'[on(c)] = None
      BY <1>1, <2>1
    <2> QED BY <2>2, <2>3, <2>4, <2>5 DEF LateAlone
  <1>6. ASSUME NEW s \in Sessions, close(s) PROVE LateAlone'
    <2>1. CASE LateEnds(s)
      <3>1. Gone \ {s} \subseteq Gone'
        BY <1>6 DEF close, Close, Gone
      <3> QED BY <1>3, <2>1, <3>1
    <2>2. CASE late' # [late EXCEPT ![s] = None]
      <3>1. Gone \subseteq Gone' /\ late' = [late EXCEPT ![s] = late[s]]
        BY <1>6, <2>2 DEF close, Close, Gone
      <3>2. LateKept
        BY <1>1, <3>1 DEF LateKept
      <3> QED BY <1>2, <3>1, <3>2
    <2> QED BY <2>1, <2>2 DEF LateEnds
  <1>7. ASSUME NEW s \in Sessions, expire(s) PROVE LateAlone'
    <2>1. LateEnds(s) /\ Gone \ {s} \subseteq Gone'
      BY <1>7 DEF expire, LateEnds, Gone
    <2> QED BY <1>3, <2>1
  <1>8. ASSUME NEW s \in Sessions, run_late(s) PROVE LateAlone'
    <2>1. LateEnds(s) /\ Gone' = Gone
      BY <1>8 DEF run_late, LateEnds, Gone
    <2> QED BY <1>3, <2>1
  <1>9. CASE tick \/ UNCHANGED vars
    BY <1>2, <1>9 DEF tick, vars, LateKept, Gone
  <1> QED BY <1>4, <1>5, <1>6, <1>7, <1>8, <1>9 DEF Next, Step

\* By the numbers: what a step makes of a call's stage keeps its runs in bounds.
LEMMA RunsByFacts ==
    ASSUME NEW e \in BOOLEAN, NEW runs \in Nat, NEW more \in Nat
    PROVE  /\ \A stage \in {"idle"} \cup Answered :
                RunsBy(stage, e, runs, more) /\ more = 0
                  => RunsBy("waiting", e, runs, more)
           /\ RunsBy("waiting", e, runs, more) =>
                /\ RunsBy("opening", e, runs, more)
                /\ RunsBy("pooled", e, runs, more)
           /\ RunsBy("opening", e, runs, more) => RunsBy("fresh", e, runs, more)
           /\ RunsBy("pooled", e, runs, more) => RunsBy("dead", e, runs, more)
           /\ RunsBy("fresh", e, runs, more) => RunsBy("broken", e, runs, more)
           /\ RunsBy("dead", e, runs, more) =>
                /\ RunsBy("opening", FALSE, runs, more)
                /\ ~e => RunsBy("opening", FALSE, runs, more + 1)
           /\ \A stage \in Holding :
                RunsBy(stage, FALSE, runs, more) => RunsBy(stage, TRUE, runs + 1, more)
           /\ \A outcome \in Answered : RunsBy(outcome, FALSE, 0, more)
           /\ \A stage \in {"idle", "waiting"} \cup Active \cup Answered :
                RunsBy(stage, e, runs, more) /\ more > 0 =>
                  /\ RunsBy(stage, e, runs, more - 1)
                  /\ stage \in Active => RunsBy(stage, e, runs + 1, more - 1)
  BY DEF RunsBy, Active, Holding, Answered

\* Every step keeps the runs of a call, those that may come late counted in,
\* within two.
LEMMA RunsStep ==
    ASSUME PoolAssumption, Places, LateAlone, Runs, [Next]_vars
    PROVE  Runs'
  <1> DEFINE more(c) == Cardinality(LateOn(c))
  <1>1. /\ Types /\ Queued /\ Holds
        /\ ran \in [Calls -> Nat]
        /\ pc \in [Calls -> {"idle", "waiting"} \cup Active \cup Answered]
        /\ late \in [Sessions -> Calls \cup {None}]
        /\ None \notin Calls
        /\ \A c \in Calls : local[c].executed \in BOOLEAN
    BY DEF Places, Types, Local, PoolAssumption
  <1>2. \A c \in Calls :
          /\ IsFiniteSet(LateOn(c)) /\ more(c) \in Nat
          /\ RunsBy(pc[c], local[c].executed, ran[c], more(c))
    BY FS_CardinalityType DEF Runs
  <1>3. LateKept => \A c \in Calls : LateOn(c)' = LateOn(c)
    BY DEF LateKept, LateOn
  <1>4. ASSUME NEW c \in Calls, LateKept, OthersKeep(c),
               \A d \in Calls \ {c} : ran'[d] = ran[d],
               RunsBy(pc'[c], local'[c].executed, ran'[c], more(c))
        PROVE  Runs'
    <2>1. \A d \in Calls :
            /\ IsFiniteSet(LateOn(d)') /\ Cardinality(LateOn(d)') = more(d)
            /\ RunsBy(pc'[d], local'[d].executed, ran'[d], more(d))
      BY <1>2, <1>3, <1>4 DEF OthersKeep
    <2> QED BY <2>1 DEF Runs
  <1>5. ASSUME NEW c \in Calls, Begin(c) PROVE Runs'
    <2>1. /\ OthersKeep(c) /\ pc[c] \in {"idle"} \cup Answered
          /\ pc'[c] = "waiting" /\ local' = local
      BY <1>1, <1>5, CallSteps
    <2>2. LateKept /\ ran' = ran
      BY <1>5 DEF Begin, LateKept
    <2>3. more(c) = 0
      <3>1. LateOn(c) = {}
        BY <1>5 DEF Begin, LateOn
      <3> QED BY <3>1, FS_EmptySet
    <2>4. RunsBy("waiting", local[c].executed, ran[c], more(c))
      BY <1>1, <1>2, <2>1, <2>3, RunsByFacts
    <2> QED BY <1>4, <2>1, <2>2, <2>4
  <1>6. ASSUME NEW c \in Calls, execute(c) \/ open(c) \/ run_raises(c) PROVE Runs'
    <2>1. OthersKeep(c) /\ local'[c].executed = local[c].executed
      BY <1>1, <1>6, CallSteps
    <2>2. \/ pc[c] = "waiting" /\ pc'[c] \in {"opening", "pooled"}
          \/ pc[c] = "opening" /\ pc'[c] = "fresh"
          \/ pc[c] = "pooled" /\ pc'[c] = "dead"
          \/ pc[c] = "fresh" /\ pc'[c] = "broken"
      BY <1>1, <1>6, CallSteps
    <2>3. LateKept /\ ran' = ran
      <3>1. LateKept
        BY <1>6, LateSteps
      <3>2. ran' = ran
        BY <1>6 DEF execute, open, run_raises
      <3> QED BY <3>1, <3>2
    <2>4. RunsBy(pc'[c], local[c].executed, ran[c], more(c))
      <3>1. /\ local[c].executed \in BOOLEAN /\ ran[c] \in Nat
            /\ more(c) \in Nat
            /\ RunsBy(pc[c], local[c].executed, ran[c], more(c))
        BY <1>1, <1>2
      <3> HIDE DEF more
      <3>2. CASE pc[c] = "waiting"
        BY <2>2, <3>1, <3>2, RunsByFacts
      <3>3. CASE pc[c] # "waiting"
        BY <2>2, <3>1, <3>3, RunsByFacts
      <3> QED BY <3>2, <3>3
    <2> QED BY <1>4, <2>1, <2>3, <2>4
  <1>7. ASSUME NEW c \in Calls, run(c) PROVE Runs'
    <2>1. /\ OthersKeep(c) /\ pc[c] \in Holding
          /\ ~local[c].executed /\ local'[c].executed /\ pc' = pc
      BY <1>1, <1>7, CallSteps
    <2>2. LateKept /\ ran' = [ran EXCEPT ![c] = ran[c] + 1]
      BY <1>7 DEF run, LateKept
    <2>3. local[c].executed = FALSE /\ local'[c].executed = TRUE
      <3>1. Types'
        BY <1>1, TypesStep
      <3>2. local'[c].executed \in BOOLEAN
        BY <3>1 DEF Types, Local
      <3> QED BY <1>1, <2>1, <3>2
    <2>4. RunsBy(pc[c], TRUE, ran[c] + 1, more(c))
      BY <1>1, <1>2, <2>1, <2>3, RunsByFacts
    <2> QED BY <1>1, <1>4, <2>1, <2>2, <2>3, <2>4
  <1>8. ASSUME NEW c \in Calls, LateLeft(c), on(c) \in Sessions, OthersKeep(c),
               \A d \in Calls \ {c} : ran'[d] = ran[d],
               RunsBy(pc'[c], local'[c].executed, ran'[c], more(c) + 1)
        PROVE  Runs'
    <2>1. late[on(c)] = None /\ late' = [late EXCEPT ![on(c)] = c]
      BY <1>8, HeldIsClear DEF LateLeft
    <2>2. \A d \in Calls :
            /\ IsFiniteSet(LateOn(d))'
            /\ Cardinality(LateOn(d))' = IF c = d THEN more(d) + 1 ELSE more(d)
      BY <1>1, <1>2, <1>8, <2>1, LateMoves
    <2>3. \A d \in Calls :
            RunsBy(pc'[d], local'[d].executed, ran'[d], Cardinality(LateOn(d))')
      BY <1>2, <1>8, <2>2 DEF OthersKeep
    <2> QED BY <2>2, <2>3 DEF Runs
  <1>9. ASSUME NEW c \in Calls,
               open_fails(c) \/ run_returns(c) \/ run_times_out(c) \/ report(c)
        PROVE  Runs'
    <2>1. OthersKeep(c) /\ pc'[c] \in Answered /\ ~local'[c].executed
      BY <1>1, <1>9, CallSteps
    <2>2. local'[c].executed = FALSE
      <3>1. Types'
        BY <1>1, TypesStep
      <3>2. local'[c].executed \in BOOLEAN
        BY <3>1 DEF Types, Local
      <3> QED BY <2>1, <3>2
    <2>3. ran' = [ran EXCEPT ![c] = 0]
      BY <1>9 DEF open_fails, run_returns, run_times_out, report, Leave
    <2>4. ran'[c] = 0 /\ \A d \in Calls \ {c} : ran'[d] = ran[d]
      BY <1>1, <2>3
    <2>5. \A n \in Nat : RunsBy(pc'[c], FALSE, 0, n)
      BY <2>1, RunsByFacts
    <2>6. LateKept \/ (LateLeft(c) /\ on(c) \in Sessions)
      BY <1>9, LateSteps
    <2>7. more(c) \in Nat /\ more(c) + 1 \in Nat
      BY <1>2
    <2> QED BY <1>4, <1>8, <2>1, <2>2, <2>4, <2>5, <2>6, <2>7
  <1>10. ASSUME NEW c \in Calls, _discard_idle(c) PROVE Runs'
    <2>1. /\ OthersKeep(c) /\ pc[c] = "dead" /\ pc'[c] = "opening"
          /\ ~local'[c].executed
      BY <1>1, <1>10, CallSteps
    <2>2. local'[c].executed = FALSE
      <3>1. Types'
        BY <1>1, TypesStep
      <3>2. local'[c].executed \in BOOLEAN
        BY <3>1 DEF Types, Local
      <3> QED BY <2>1, <3>2
    <2>3. ran' = ran
      BY <1>10 DEF _discard_idle
    <2>4. /\ RunsBy("opening", FALSE, ran[c], more(c))
          /\ ~local[c].executed => RunsBy("opening", FALSE, ran[c], more(c) + 1)
      BY <1>1, <1>2, <2>1, RunsByFacts
    <2>5. on(c) \in Sessions /\ (LateKept \/ LateLeft(c))
      BY <1>10, LateSteps
    <2>6. CASE LateKept
      BY <1>4, <2>1, <2>2, <2>3, <2>4, <2>6
    <2>7. CASE LateLeft(c)
      <3>1. ~local[c].executed
        BY <2>7 DEF LateLeft
      <3> QED BY <1>8, <2>1, <2>2, <2>3, <2>4, <2>5, <2>7, <3>1
    <2> QED BY <2>5, <2>6, <2>7
  <1>11. ASSUME NEW s \in Sessions, LateEnds(s), pc' = pc, local' = local,
                \A d \in Calls : \/ ran'[d] = ran[d]
                                 \/ /\ d = late[s] /\ pc[d] \in Active
                                    /\ ran'[d] = ran[d] + 1
         PROVE  Runs'
    <2>1. \A d \in Calls :
            /\ IsFiniteSet(LateOn(d))'
            /\ Cardinality(LateOn(d))' = IF late[s] = d THEN more(d) - 1 ELSE more(d)
      BY <1>1, <1>2, <1>11, LateMoves DEF LateEnds
    <2>2. ASSUME NEW d \in Calls
          PROVE  RunsBy(pc'[d], local'[d].executed, ran'[d], Cardinality(LateOn(d))')
      <3>1. CASE late[s] = d
        <4>1. s \in LateOn(d)
          BY <3>1 DEF LateOn
        <4>2. LateOn(d) # {}
          BY <4>1
        <4>3. more(d) # 0
          BY <1>2, <4>2, FS_EmptySet
        <4>4. /\ more(d) \in Nat /\ more(d) > 0
              /\ RunsBy(pc[d], local[d].executed, ran[d], more(d))
          BY <1>2, <4>3
        <4>5. /\ RunsBy(pc[d], local[d].executed, ran[d], more(d) - 1)
              /\ pc[d] \in Active =>
                   RunsBy(pc[d], local[d].executed, ran[d] + 1, more(d) - 1)
          BY <1>1, <4>4, RunsByFacts
        <4>6. Cardinality(LateOn(d))' = more(d) - 1
          BY <2>1, <3>1
        <4> QED BY <1>11, <4>5, <4>6
      <3>2. CASE late[s] # d
        <4>1. Cardinality(LateOn(d))' = more(d)
          BY <2>1, <3>2
        <4> QED BY <1>2, <1>11, <3>2, <4>1
      <3> QED BY <3>1, <3>2
    <2> QED BY <2>1, <2>2 DEF Runs
  <1>12. ASSUME LateKept, UNCHANGED <<pc, local, ran>> PROVE Runs'
    <2>1. \A d \in Calls :
            /\ IsFiniteSet(LateOn(d)') /\ Cardinality(LateOn(d)') = more(d)
            /\ RunsBy(pc'[d], local'[d].executed, ran'[d], more(d))
      BY <1>2, <1>3, <1>12
    <2> QED BY <2>1 DEF Runs
  <1>13. ASSUME NEW s \in Sessions, run_late(s) PROVE Runs'
    <2>1. LateEnds(s) /\ pc' = pc /\ local' = local
      BY <1>13 DEF run_late, LateEnds
    <2>2. ran' = [ran EXCEPT ![late[s]] =
                    IF pc[late[s]] \in Active THEN ran[late[s]] + 1
                    ELSE ran[late[s]]]
      BY <1>13 DEF run_late
    <2>3. \A d \in Calls : \/ ran'[d] = ran[d]
                           \/ /\ d = late[s] /\ pc[d] \in Active
                              /\ ran'[d] = ran[d] + 1
      BY <1>1, <2>2
    <2> QED BY <1>11, <2>1, <2>3
  <1>14. ASSUME NEW s \in Sessions, close(s) \/ expire(s) PROVE Runs'
    <2>1. UNCHANGED <<pc, local, ran>>
      BY <1>14 DEF close, expire
    <2>2. LateKept \/ LateEnds(s)
      BY <1>14, LateSteps
    <2> QED BY <1>11, <1>12, <2>1, <2>2
  <1>15. CASE tick \/ UNCHANGED vars
    BY <1>12, <1>15 DEF tick, vars, LateKept
  <1> QED BY <1>5, <1>6, <1>7, <1>9, <1>10, <1>13, <1>14, <1>15 DEF Next, Step

\* Every step keeps the parked sessions oldest first.
LEMMA OrderedStep ==
    ASSUME PoolAssumption, Places, Ordered, [Next]_vars
    PROVE  Ordered'
  <1>1. /\ Types /\ Queued /\ Holds
        /\ Len(idle) \in Nat /\ MaxIdle \in Nat
        /\ \A i \in 1 .. Len(idle) : idle[i].age \in 0 .. MaxIdle
    BY IdleSessions DEF Places, Types, PoolAssumption
  <1>2. CASE idle' = idle
    BY <1>2 DEF Ordered
  <1>3. ASSUME NEW c \in Calls, execute(c) PROVE Ordered'
    <2>1. PICK n \in 0 .. Len(idle) :
            Len(idle') = n /\ \A i \in 1 .. n : idle'[i] = idle[i]
      BY <1>1, <1>3, ExecuteTakes
    <2> QED BY <1>1, <2>1 DEF Ordered
  <1>4. ASSUME NEW c \in Calls, run_returns(c) PROVE Ordered'
    <2>1. /\ Len(idle') = Len(idle) + 1
          /\ \A i \in 1 .. Len(idle) : idle'[i] = idle[i]
          /\ idle'[Len(idle) + 1].age = 0
      BY <1>1, <1>4, ReturnFacts
    <2>2. \A i \in 1 .. Len(idle') : i \in 1 .. Len(idle) \/ i = Len(idle) + 1
      BY <1>1, <2>1
    <2> QED BY <1>1, <2>1, <2>2 DEF Ordered
  <1>5. ASSUME NEW c \in Calls, _discard_idle(c) PROVE Ordered'
    BY <1>5 DEF _discard_idle, Ordered
  <1>6. CASE tick
    BY <1>1, <1>6, TickFacts DEF Ordered
  <1>7. ASSUME NEW c \in Calls,
               Begin(c) \/ open(c) \/ open_fails(c) \/ run(c)
                 \/ run_raises(c) \/ run_times_out(c) \/ report(c)
        PROVE  idle' = idle
    BY <1>7 DEF Begin, open, open_fails, run, run_raises, run_times_out, report
  <1>8. ASSUME NEW s \in Sessions, close(s) \/ run_late(s) \/ expire(s)
        PROVE  idle' = idle
    BY <1>8 DEF close, run_late, expire
  <1>9. CASE UNCHANGED vars
    BY <1>2, <1>9 DEF vars
  <1> QED BY <1>2, <1>3, <1>4, <1>5, <1>6, <1>7, <1>8, <1>9 DEF Next, Step

\* Every step keeps room for the sessions in use to be parked.
LEMMA RoomStep ==
    ASSUME PoolAssumption, Places, Room, [Next]_vars
    PROVE  Room'
  <1>1. /\ Types /\ Queued /\ Holds
        /\ Len(idle) \in Nat /\ MaxConcurrency \in Nat
        /\ IsFiniteSet(ActiveCalls) /\ Cardinality(ActiveCalls) \in Nat
        /\ Len(idle) + Cardinality(ActiveCalls) <= MaxConcurrency
    BY FS_CardinalityType DEF Places, Types, PoolAssumption, Room
  <1>2. ASSUME pc' = pc, Len(idle') = Len(idle) PROVE Room'
    BY <1>2 DEF Room, ActiveCalls
  <1>3. ASSUME NEW c \in Calls, OthersKeep(c), Len(idle') <= Len(idle),
               Len(idle') \in Nat, pc'[c] \in Active => pc[c] \in Active
        PROVE  Room'
    <2>1. ActiveCalls' \in SUBSET ActiveCalls
      BY <1>3 DEF ActiveCalls, OthersKeep
    <2>2. /\ IsFiniteSet(ActiveCalls')
          /\ Cardinality(ActiveCalls') <= Cardinality(ActiveCalls)
      BY <1>1, <2>1, FS_Subset
    <2>3. Cardinality(ActiveCalls') \in Nat
      BY <2>2, FS_CardinalityType
    <2> QED BY <1>1, <1>3, <2>2, <2>3 DEF Room
  <1>4. ASSUME NEW c \in Calls, Begin(c) PROVE Room'
    <2>1. OthersKeep(c) /\ pc'[c] = "waiting"
      BY <1>1, <1>4, CallSteps
    <2>2. pc'[c] \notin Active
      BY <2>1 DEF Active, Holding
    <2>3. idle' = idle
      BY <1>4 DEF Begin
    <2> QED BY <1>1, <1>3, <2>1, <2>2, <2>3
  <1>5. ASSUME NEW c \in Calls, execute(c) PROVE Room'
    <2>1. OthersKeep(c) /\ pc[c] = "waiting" /\ pc'[c] \in Active
      BY <1>1, <1>5, CallSteps DEF Active, Holding
    <2>2. PICK n \in 0 .. Len(idle) :
            Len(idle') = n /\ (n = 0 \/ n + 1 \in 1 .. Len(idle))
      BY <1>1, <1>5, ExecuteTakes
    <2>3. Cardinality(ActiveCalls) < MaxConcurrency
      BY <1>5 DEF execute, slot_free, ActiveCalls
    <2>4. ActiveCalls' = ActiveCalls \cup {c} /\ c \notin ActiveCalls
      BY <2>1 DEF ActiveCalls, OthersKeep, Active, Holding
    <2>5. /\ IsFiniteSet(ActiveCalls')
          /\ Cardinality(ActiveCalls') = Cardinality(ActiveCalls) + 1
      BY <1>1, <2>4, FS_AddElement
    <2> QED BY <1>1, <2>2, <2>3, <2>5 DEF Room
  <1>6. ASSUME NEW c \in Calls,
               open(c) \/ open_fails(c) \/ run(c) \/ run_raises(c)
                 \/ run_times_out(c) \/ report(c)
        PROVE  Room'
    <2>1. idle' = idle
      BY <1>6 DEF open, open_fails, run, run_raises, run_times_out, report
    <2>2. OthersKeep(c) /\ pc[c] \in Active
      BY <1>1, <1>6, CallSteps DEF Active, Holding
    <2> QED BY <1>1, <1>3, <2>1, <2>2
  <1>7. ASSUME NEW c \in Calls, _discard_idle(c) PROVE Room'
    <2>1. Len(idle') = 0
      BY <1>7 DEF _discard_idle
    <2>2. OthersKeep(c) /\ pc[c] \in Active
      BY <1>1, <1>7, CallSteps DEF Active, Holding
    <2> QED BY <1>1, <1>3, <2>1, <2>2
  <1>8. ASSUME NEW c \in Calls, run_returns(c) PROVE Room'
    <2>1. /\ OthersKeep(c) /\ pc[c] \in Active
          /\ pc'[c] \in Answered
      BY <1>1, <1>8, CallSteps
    <2>2. Len(idle') = Len(idle) + 1
      BY <1>1, <1>8, ReturnFacts
    <2>3. ActiveCalls' = ActiveCalls \ {c} /\ c \in ActiveCalls
      BY <2>1 DEF ActiveCalls, OthersKeep, Active, Holding, Answered
    <2>4. /\ IsFiniteSet(ActiveCalls')
          /\ Cardinality(ActiveCalls') = Cardinality(ActiveCalls) - 1
      BY <1>1, <2>3, FS_RemoveElement
    <2> QED BY <1>1, <2>2, <2>4 DEF Room
  <1>10. ASSUME NEW s \in Sessions, close(s) \/ run_late(s) \/ expire(s)
         PROVE  Room'
    BY <1>2, <1>10 DEF close, run_late, expire
  <1>11. CASE tick
    BY <1>1, <1>2, <1>11, TickFacts DEF tick
  <1>12. CASE UNCHANGED vars
    BY <1>2, <1>12 DEF vars
  <1> QED BY <1>4, <1>5, <1>6, <1>7, <1>8, <1>10, <1>11, <1>12 DEF Next, Step

-----------------------------------------------------------------------------
(* The invariant *)

LEMMA PoolInvInit == Init => PoolInv
  <1> SUFFICES ASSUME Init PROVE PoolInv
    OBVIOUS
  <1>1. Types
    BY NoLocalFacts DEF Init, Types
  <1>2. \A c \in Calls : on(c) = None /\ ~local[c].executed
    BY NoLocalFacts DEF Init, on
  <1>3. Len(idle) = 0 /\ Len(gate) = 0
    BY DEF Init
  <1>4. /\ Queued /\ Holds /\ OnePlace /\ Apart /\ Backed /\ Placed
        /\ LateAlone /\ Ordered
    BY <1>2, <1>3 DEF Init, Queued, Holds, Holding, OnePlace, Apart, Gone, Backed,
       Placed, LateAlone, Ordered
  <1>5. Runs
    <2>1. \A c \in Calls : LateOn(c) = {}
      BY PoolAssumption DEF Init, LateOn, PoolAssumption
    <2>2. \A c \in Calls : IsFiniteSet(LateOn(c)) /\ Cardinality(LateOn(c)) = 0
      BY <2>1, FS_EmptySet
    <2>3. \A c \in Calls : pc[c] = "idle" /\ ran[c] = 0 /\ ~local[c].executed
      BY <1>2 DEF Init
    <2> QED BY <2>2, <2>3 DEF Runs, RunsBy, Active, Holding
  <1>6. Room
    <2>1. ActiveCalls = {}
      BY DEF Init, ActiveCalls, Active, Holding
    <2> QED BY <1>3, <2>1, FS_EmptySet, PoolAssumption DEF Room, PoolAssumption
  <1> QED BY <1>1, <1>4, <1>5, <1>6 DEF PoolInv, Places

\* Every step keeps the inductive invariant of the pool.
LEMMA PoolInvNext == PoolInv /\ [Next]_vars => PoolInv'
  <1> SUFFICES ASSUME PoolInv, [Next]_vars PROVE PoolInv'
    OBVIOUS
  <1>1. PoolAssumption /\ Places /\ Types /\ Queued /\ Holds
    BY PoolAssumption DEF PoolInv, Places
  <1>2. Types' /\ Queued' /\ Holds' /\ OnePlace' /\ Apart' /\ Backed'
    BY <1>1, TypesStep, QueuedStep, HoldsStep, OnePlaceStep, ApartStep, BackedStep
  <1>3. Placed' /\ Runs' /\ LateAlone' /\ Ordered' /\ Room'
    BY <1>1, PlacedStep, RunsStep, LateAloneStep, OrderedStep, RoomStep DEF PoolInv
  <1> QED BY <1>2, <1>3 DEF PoolInv, Places

\* The inductive invariant of the pool holds in every state.
LEMMA PoolInvariant == Spec => []PoolInv
  BY PoolInvInit, PoolInvNext, PTL DEF Spec

-----------------------------------------------------------------------------
(* The properties *)

LEMMA ParkedAndHeld ==
    ASSUME Types
    PROVE  /\ DOMAIN idle = 1 .. Len(idle) /\ Len(idle) \in Nat
           /\ SessionsOf(idle) = {idle[i].session : i \in 1 .. Len(idle)}
           /\ SessionsOf(idle) \subseteq Sessions
           /\ \A s : s \in Held <=> s # None /\ \E c \in Calls : on(c) = s
  <1>1. idle \in Seq(Parked) /\ Len(idle) \in Nat
    BY DEF Types
  <1>2. /\ DOMAIN idle = 1 .. Len(idle)
        /\ SessionsOf(idle) = {idle[i].session : i \in 1 .. Len(idle)}
        /\ \A i \in 1 .. Len(idle) : idle[i].session \in Sessions
    BY <1>1, IdleSessions
  <1>3. SessionsOf(idle) \subseteq Sessions
    BY <1>2
  <1>4. \A s : s \in Held <=> s # None /\ \E c \in Calls : on(c) = s
    BY DEF Held
  <1> QED BY <1>1, <1>2, <1>3, <1>4

\* The state is well-formed, and the script of a call runs at most twice.
THEOREM TypeCorrect == Spec => []TypeOK
  <1>1. PoolInv => TypeOK
    <2> SUFFICES ASSUME PoolInv PROVE TypeOK
      OBVIOUS
    <2>1. Types /\ Runs
      BY DEF PoolInv, Places
    <2>2. \A c \in Calls : /\ pc[c] \in {"idle", "waiting"} \cup Active \cup Answered
                           /\ ran[c] \in Nat
                           /\ Cardinality(LateOn(c)) \in Nat
      BY <2>1, FS_CardinalityType DEF Types, Runs
    <2>3. \A c \in Calls : ran[c] \in 0 .. 2
      BY <2>1, <2>2 DEF Runs, RunsBy, Active, Holding
    <2> QED BY <2>1, <2>3 DEF Types, TypeOK
  <1> QED BY <1>1, PoolInvariant, PTL

\* A session is never in two hands: not of two calls, not of a call and the
\* pool, not of either and the thread that closes it.
THEOREM SessionsUnshared == Spec => []NoSharedSession
  <1>1. PoolInv => NoSharedSession
    <2> SUFFICES ASSUME PoolInv PROVE NoSharedSession
      OBVIOUS
    <2>1. Types /\ OnePlace /\ Apart
      BY DEF PoolInv, Places
    <2>2. SessionsOf(idle) \cap Held = {}
      BY <2>1, ParkedAndHeld DEF OnePlace, Held
    <2>3. Gone \cap (SessionsOf(idle) \cup Held) = {}
      BY <2>1, ParkedAndHeld DEF OnePlace, Held
    <2> QED BY <2>1, <2>2, <2>3, ParkedAndHeld
            DEF NoSharedSession, OnePlace, Apart, Gone
  <1> QED BY <1>1, PoolInvariant, PTL

\* No path through a failure, a retry, an expiry or a timeout forgets a shell
\* on the DHCP server, but for an open or a close that itself failed.
THEOREM ShellsAccounted == Spec => []NothingStranded
  <1>1. PoolInv => NothingStranded
    <2>1. SUFFICES ASSUME PoolInv, NEW s \in shells
                   PROVE  s \in SessionsOf(idle) \cup Held \cup closing \cup strays
      BY DEF NothingStranded
    <2>2. Types /\ Placed /\ s # None
      BY <2>1, PoolAssumption DEF PoolInv, Places, Types, PoolAssumption
    <2> QED BY <2>1, <2>2, ParkedAndHeld DEF Placed, Gone
  <1> QED BY <1>1, PoolInvariant, PTL

\* _checkout may stop looking at the first session that is young enough.
THEOREM PoolOrdered == Spec => []OldestFirst
  <1>1. PoolInv => OldestFirst
    BY ParkedAndHeld DEF PoolInv, Places, Ordered, OldestFirst
  <1> QED BY <1>1, PoolInvariant, PTL

\* The sessions the process keeps never outnumber the semaphore's slots.
THEOREM PoolBounded == Spec => []PoolWithinLimit
  <1>1. PoolInv => PoolWithinLimit
    <2> SUFFICES ASSUME PoolInv PROVE PoolWithinLimit
      OBVIOUS
    <2>1. /\ Types /\ Holds /\ Room
          /\ Len(idle) \in Nat /\ MaxConcurrency \in Nat
          /\ SessionsOf(idle) = {idle[i].session : i \in 1 .. Len(idle)}
      BY ParkedAndHeld, PoolAssumption DEF PoolInv, Places, PoolAssumption
    <2> DEFINE place == [i \in 1 .. Len(idle) |-> idle[i].session]
               Holders == {c \in Calls : on(c) # None}
               holds == [c \in Holders |-> on(c)]
    <2>2. /\ IsFiniteSet(SessionsOf(idle))
          /\ Cardinality(SessionsOf(idle)) <= Len(idle)
      <3>1. place \in Surjection(1 .. Len(idle), SessionsOf(idle))
        BY <2>1 DEF Surjection
      <3>2. IsFiniteSet(1 .. Len(idle)) /\ Cardinality(1 .. Len(idle)) = Len(idle)
        <4>1. 1 \in Int /\ Len(idle) \in Int /\ (1 > Len(idle) => Len(idle) = 0)
          BY <2>1
        <4>2. /\ IsFiniteSet(1 .. Len(idle))
              /\ Cardinality(1 .. Len(idle)) =
                   IF 1 > Len(idle) THEN 0 ELSE Len(idle) - 1 + 1
          BY <4>1, FS_Interval
        <4> QED BY <2>1, <4>1, <4>2
      <3> HIDE DEF place
      <3> QED BY <3>1, <3>2, FS_Surjection
    <2>3. /\ IsFiniteSet(Held)
          /\ Cardinality(Held) <= Cardinality(ActiveCalls)
      <3>1. Holders \in SUBSET ActiveCalls
        BY <2>1 DEF Holds, ActiveCalls, Active
      <3>2. /\ IsFiniteSet(Holders)
            /\ Cardinality(Holders) <= Cardinality(ActiveCalls)
        BY <2>1, <3>1, FS_Subset DEF Room
      <3>3. holds \in Surjection(Holders, Held)
        BY DEF Surjection, Held
      <3> HIDE DEF holds, Holders
      <3>4. IsFiniteSet(Held) /\ Cardinality(Held) <= Cardinality(Holders)
        BY <3>2, <3>3, FS_Surjection
      <3>5. /\ Cardinality(Held) \in Nat
            /\ Cardinality(Holders) \in Nat
            /\ Cardinality(ActiveCalls) \in Nat
        BY <2>1, <3>2, <3>4, FS_CardinalityType DEF Room
      <3> QED BY <3>2, <3>4, <3>5
    <2>4. Cardinality(SessionsOf(idle) \cup Held) <=
            Cardinality(SessionsOf(idle)) + Cardinality(Held)
      <3>1. IsFiniteSet(SessionsOf(idle) \cap Held)
        BY <2>3, FS_Intersection
      <3>2. /\ Cardinality(SessionsOf(idle)) \in Nat
            /\ Cardinality(Held) \in Nat
            /\ Cardinality(SessionsOf(idle) \cap Held) \in Nat
        BY <2>2, <2>3, <3>1, FS_CardinalityType
      <3>3. Cardinality(SessionsOf(idle) \cup Held) =
              Cardinality(SessionsOf(idle)) + Cardinality(Held)
                - Cardinality(SessionsOf(idle) \cap Held)
        BY <2>2, <2>3, FS_Union
      <3> QED BY <3>2, <3>3
    <2>5. /\ Cardinality(SessionsOf(idle) \cup Held) \in Nat
          /\ Cardinality(SessionsOf(idle)) \in Nat
          /\ Cardinality(Held) \in Nat
          /\ Cardinality(ActiveCalls) \in Nat
      BY <2>1, <2>2, <2>3, FS_Union, FS_CardinalityType DEF Room
    <2> QED BY <2>1, <2>2, <2>3, <2>4, <2>5 DEF Room, PoolWithinLimit
  <1> QED BY <1>1, PoolInvariant, PTL

-----------------------------------------------------------------------------
(* The refinement *)

\* What Transport sees of a call.
phase(c) == IF pc[c] \in {"waiting"} \cup Active THEN "pending" ELSE pc[c]

phases == [c \in Calls |-> phase(c)]

lates == [c \in Calls |-> Cardinality({s \in Sessions : late[s] = c})]

\* The call's answer, or its next stage, leaves the others' phases alone.
LEMMA PhaseFacts ==
    ASSUME Types, NEW c \in Calls, NEW stage,
           pc' = [pc EXCEPT ![c] = stage]
    PROVE  phases' = [phases EXCEPT ![c] =
                        IF stage \in {"waiting"} \cup Active
                        THEN "pending" ELSE stage]
  BY DEF Types, phases, phase

\* The steps of Transport, in terms of the pool's phases and late scripts.
LEMMA TransportSteps ==
    /\ UNCHANGED <<phases, ran, lates>> => UNCHANGED T!vars
    /\ \A c \in Calls :
         /\ /\ phases[c] # "pending" /\ lates[c] = 0
            /\ phases' = [phases EXCEPT ![c] = "pending"]
            /\ UNCHANGED <<ran, lates>>
            => T!Next
         /\ /\ phases[c] = "pending" /\ ran[c] + lates[c] < 2
            /\ ran' = [ran EXCEPT ![c] = ran[c] + 1]
            /\ UNCHANGED <<phases, lates>>
            => T!Next
         /\ /\ phases[c] = "pending" /\ ran[c] + lates[c] < 2
            /\ lates' = [lates EXCEPT ![c] = lates[c] + 1]
            /\ UNCHANGED <<phases, ran>>
            => T!Next
         /\ /\ lates[c] > 0 /\ lates' = [lates EXCEPT ![c] = lates[c] - 1]
            /\ \/ UNCHANGED ran
               \/ phases[c] = "pending" /\ ran' = [ran EXCEPT ![c] = ran[c] + 1]
            /\ UNCHANGED phases
            => T!Next
         /\ \A outcome \in Answered :
              /\ phases[c] = "pending"
              /\ outcome = "result" => ran[c] > 0
              /\ phases' = [phases EXCEPT ![c] = outcome]
              /\ ran' = [ran EXCEPT ![c] = 0]
              /\ \/ UNCHANGED lates
                 \/ /\ outcome # "result" /\ ran[c] + lates[c] < 2
                    /\ lates' = [lates EXCEPT ![c] = lates[c] + 1]
              => T!Next
  <1>1. UNCHANGED <<phases, ran, lates>> => UNCHANGED T!vars
    BY DEF T!vars, phases, phase, lates
  <1>2. ASSUME NEW c \in Calls,
               phases[c] # "pending", lates[c] = 0,
               phases' = [phases EXCEPT ![c] = "pending"],
               UNCHANGED <<ran, lates>>
        PROVE  T!Begin(c)
    BY <1>2 DEF T!Begin, phases, phase, lates
  <1>3. ASSUME NEW c \in Calls,
               phases[c] = "pending", ran[c] + lates[c] < 2,
               ran' = [ran EXCEPT ![c] = ran[c] + 1],
               UNCHANGED <<phases, lates>>
        PROVE  T!Run(c)
    BY <1>3 DEF T!Run, T!MayRun, phases, phase, lates
  <1>4. ASSUME NEW c \in Calls,
               phases[c] = "pending", ran[c] + lates[c] < 2,
               lates' = [lates EXCEPT ![c] = lates[c] + 1],
               UNCHANGED <<phases, ran>>
        PROVE  T!Abandon(c)
    BY <1>4 DEF T!Abandon, T!MayRun, phases, phase, lates
  <1>5. ASSUME NEW c \in Calls,
               lates[c] > 0, lates' = [lates EXCEPT ![c] = lates[c] - 1],
               \/ UNCHANGED ran
               \/ phases[c] = "pending" /\ ran' = [ran EXCEPT ![c] = ran[c] + 1],
               UNCHANGED phases
        PROVE  T!EndLate(c)
    BY <1>5 DEF T!EndLate, phases, phase, lates
  <1>6. ASSUME NEW c \in Calls, NEW outcome \in Answered,
               phases[c] = "pending",
               outcome = "result" => ran[c] > 0,
               phases' = [phases EXCEPT ![c] = outcome],
               ran' = [ran EXCEPT ![c] = 0],
               \/ UNCHANGED lates
               \/ /\ outcome # "result" /\ ran[c] + lates[c] < 2
                  /\ lates' = [lates EXCEPT ![c] = lates[c] + 1]
        PROVE  T!Answer(c, outcome)
    BY <1>6 DEF T!Answer, T!MayRun, phases, phase, lates
  <1> QED BY <1>1, <1>2, <1>3, <1>4, <1>5, <1>6 DEF T!Next, Answered

\* Every step of the pool is a step of Transport or changes nothing of it.
LEMMA StepsMap ==
    ASSUME PoolInv, [Next]_vars
    PROVE  [T!Next]_(T!vars)
  <1>1. /\ PoolAssumption /\ Places /\ Types /\ Queued /\ Holds /\ Runs /\ LateAlone
        /\ ran \in [Calls -> Nat]
        /\ late \in [Sessions -> Calls \cup {None}] /\ None \notin Calls
    BY PoolAssumption DEF PoolInv, Places, Types, PoolAssumption
  <1>2. ASSUME NEW c \in Calls
        PROVE  /\ phases[c] = "pending" <=> pc[c] \in {"waiting"} \cup Active
               /\ lates[c] = Cardinality(LateOn(c)) /\ lates[c] \in Nat
               /\ IsFiniteSet(LateOn(c))
               /\ RunsBy(pc[c], local[c].executed, ran[c], lates[c])
    <2>1. phases[c] = "pending" <=> pc[c] \in {"waiting"} \cup Active
      BY <1>1 DEF phases, phase, Types, Active, Holding, Answered
    <2>2. lates[c] = Cardinality(LateOn(c))
      BY DEF lates, LateOn
    <2> QED BY <1>1, <2>1, <2>2, FS_CardinalityType DEF Runs
  <1>3. /\ pc' = pc => phases' = phases
        /\ LateKept => lates' = lates
    BY DEF phases, phase, lates, LateKept
  <1>4. ASSUME NEW c \in Calls, LateLeft(c), on(c) \in Sessions
        PROVE  lates' = [lates EXCEPT ![c] = lates[c] + 1]
    <2>1. late[on(c)] = None /\ late' = [late EXCEPT ![on(c)] = c]
      BY <1>1, <1>4, HeldIsClear DEF LateLeft
    <2>2. \A d \in Calls : IsFiniteSet(LateOn(d))
      BY <1>2
    <2>3. \A d \in Calls :
            Cardinality(LateOn(d))' =
              IF c = d THEN Cardinality(LateOn(d)) + 1 ELSE Cardinality(LateOn(d))
      BY <1>1, <1>4, <2>1, <2>2, LateMoves
    <2>4. lates' = [d \in Calls |-> Cardinality(LateOn(d))']
      BY DEF lates, LateOn
    <2>5. lates = [d \in Calls |-> Cardinality(LateOn(d))]
      BY DEF lates, LateOn
    <2> QED BY <2>3, <2>4, <2>5
  <1>5. ASSUME NEW s \in Sessions, LateEnds(s), late[s] # None
        PROVE  /\ late[s] \in Calls /\ lates[late[s]] > 0
               /\ lates' = [lates EXCEPT ![late[s]] = lates[late[s]] - 1]
    <2>1. PICK c \in Calls : late[s] = c
      BY <1>1, <1>5
    <2>2. \A d \in Calls : IsFiniteSet(LateOn(d))
      BY <1>2
    <2>3. \A d \in Calls :
            Cardinality(LateOn(d))' =
              IF late[s] = d THEN Cardinality(LateOn(d)) - 1
              ELSE Cardinality(LateOn(d))
      BY <1>1, <1>5, <2>2, LateMoves DEF LateEnds
    <2>4. lates' = [d \in Calls |-> Cardinality(LateOn(d))']
      BY DEF lates, LateOn
    <2>5. lates = [d \in Calls |-> Cardinality(LateOn(d))]
      BY DEF lates, LateOn
    <2>6. lates' = [lates EXCEPT ![c] = lates[c] - 1]
      BY <2>1, <2>3, <2>4, <2>5
    <2>7. s \in LateOn(c)
      BY <2>1 DEF LateOn
    <2>8. LateOn(c) # {}
      BY <2>7
    <2>9. lates[c] > 0
      BY <1>2, <2>8, FS_EmptySet
    <2> QED BY <2>1, <2>6, <2>9
  <1>6. ASSUME NEW s \in Sessions, LateEnds(s), late[s] = None PROVE LateKept
    BY <1>1, <1>6 DEF LateEnds, LateKept
  <1>7. ASSUME NEW c \in Calls, Begin(c) PROVE T!Next
    <2>1. pc[c] \notin {"waiting"} \cup Active
      BY <1>7 DEF Begin, Answered, Active, Holding
    <2>2. phases' = [phases EXCEPT ![c] = "pending"]
      BY <1>1, <1>7, PhaseFacts DEF Begin
    <2>3. lates[c] = 0
      <3>1. LateOn(c) = {}
        BY <1>7 DEF Begin, LateOn
      <3> QED BY <1>2, <3>1, FS_EmptySet
    <2>4. ran' = ran /\ LateKept
      BY <1>7 DEF Begin, LateKept
    <2> QED BY <1>2, <1>3, <2>1, <2>2, <2>3, <2>4, TransportSteps
  <1>8. ASSUME NEW c \in Calls, pc[c] \in {"waiting"} \cup Active,
               NEW stage \in Active, pc' = [pc EXCEPT ![c] = stage]
        PROVE  phases' = phases
    <2>1. phases[c] = "pending" /\ phases' = [phases EXCEPT ![c] = "pending"]
      BY <1>1, <1>2, <1>8, PhaseFacts
    <2> QED BY <2>1 DEF phases
  <1>9. ASSUME NEW c \in Calls, execute(c) \/ open(c) \/ run_raises(c)
        PROVE  UNCHANGED T!vars
    <2>1. PICK stage \in Active : pc' = [pc EXCEPT ![c] = stage]
      <3>1. CASE execute(c)
        BY <3>1 DEF execute, Active, Holding
      <3>2. CASE open(c) \/ run_raises(c)
        BY <3>2 DEF open, run_raises, Active, Holding
      <3> QED BY <1>9, <3>1, <3>2
    <2>2. pc[c] \in {"waiting"} \cup Active
      BY <1>1, <1>9, HeadWaits DEF open, run_raises, Active, Holding
    <2>3. ran' = ran /\ LateKept
      BY <1>1, <1>9, LateSteps DEF execute, open, run_raises
    <2> QED BY <1>3, <1>8, <2>1, <2>2, <2>3, TransportSteps
  <1>10. ASSUME NEW c \in Calls, run(c) PROVE T!Next
    <2>1. /\ pc[c] \in Holding /\ ~local[c].executed
          /\ pc' = pc /\ LateKept
          /\ ran' = [ran EXCEPT ![c] = ran[c] + 1]
      BY <1>10 DEF run, LateKept
    <2>2. RunsBy(pc[c], local[c].executed, ran[c], lates[c])
          /\ ran[c] \in Nat /\ lates[c] \in Nat
      BY <1>1, <1>2
    <2>3. ran[c] + lates[c] < 2
      BY <2>1, <2>2 DEF RunsBy, Holding
    <2>4. phases[c] = "pending"
      BY <1>2, <2>1 DEF Active
    <2> QED BY <1>3, <2>1, <2>3, <2>4, TransportSteps
  <1>11. ASSUME NEW c \in Calls, _discard_idle(c) PROVE [T!Next]_(T!vars)
    <2>1. /\ pc[c] = "dead" /\ pc' = [pc EXCEPT ![c] = "opening"]
          /\ ran' = ran
      BY <1>11 DEF _discard_idle
    <2>2. phases' = phases /\ phases[c] = "pending"
      BY <1>2, <1>8, <2>1 DEF Active, Holding
    <2>3. on(c) \in Sessions /\ (LateKept \/ LateLeft(c))
      BY <1>1, <1>11, LateSteps
    <2>4. CASE LateKept
      BY <1>3, <2>1, <2>2, <2>4, TransportSteps
    <2>5. CASE LateLeft(c)
      <3>1. lates' = [lates EXCEPT ![c] = lates[c] + 1]
        BY <1>4, <2>3, <2>5
      <3>2. /\ RunsBy("dead", local[c].executed, ran[c], lates[c])
            /\ ~local[c].executed /\ ran[c] \in Nat /\ lates[c] \in Nat
        BY <1>1, <1>2, <2>1, <2>5 DEF LateLeft
      <3>3. ran[c] + lates[c] < 2
        BY <3>2 DEF RunsBy
      <3> QED BY <2>1, <2>2, <3>1, <3>3, TransportSteps
    <2> QED BY <2>3, <2>4, <2>5
  <1>12. ASSUME NEW c \in Calls, NEW outcome \in Answered,
                Leave(c, outcome), pc[c] \in Active,
                outcome = "result" => ran[c] > 0,
                \/ LateKept
                \/ /\ LateLeft(c) /\ on(c) \in Sessions
                   /\ outcome # "result" /\ pc[c] \in Holding
         PROVE  T!Next
    <2>1. phases[c] = "pending"
      BY <1>2, <1>12
    <2>2. phases' = [phases EXCEPT ![c] = outcome]
      BY <1>1, <1>12, PhaseFacts DEF Leave, Answered, Active, Holding
    <2>3. ran' = [ran EXCEPT ![c] = 0]
      BY <1>12 DEF Leave
    <2>4. \/ UNCHANGED lates
          \/ /\ outcome # "result" /\ ran[c] + lates[c] < 2
             /\ lates' = [lates EXCEPT ![c] = lates[c] + 1]
      <3>1. CASE LateKept
        BY <1>3, <3>1
      <3>2. CASE /\ LateLeft(c) /\ on(c) \in Sessions
                 /\ outcome # "result" /\ pc[c] \in Holding
        <4>1. lates' = [lates EXCEPT ![c] = lates[c] + 1]
          BY <1>4, <3>2
        <4>2. /\ RunsBy(pc[c], local[c].executed, ran[c], lates[c])
              /\ ~local[c].executed /\ ran[c] \in Nat /\ lates[c] \in Nat
          BY <1>1, <1>2, <3>2 DEF LateLeft
        <4>3. ran[c] + lates[c] < 2
          BY <3>2, <4>2 DEF RunsBy, Holding
        <4> QED BY <3>2, <4>1, <4>3
      <3> QED BY <1>12, <3>1, <3>2
    <2> QED BY <1>12, <2>1, <2>2, <2>3, <2>4, TransportSteps
  <1>13. ASSUME NEW c \in Calls, run_returns(c) PROVE T!Next
    <2>1. pc[c] \in {"pooled", "fresh"} /\ local[c].executed
      BY <1>13 DEF run_returns
    <2>2. /\ RunsBy(pc[c], local[c].executed, ran[c], lates[c])
          /\ ran[c] \in Nat /\ lates[c] \in Nat
      BY <1>1, <1>2
    <2>3. ran[c] > 0
      BY <2>1, <2>2 DEF RunsBy
    <2>4. pc[c] \in Active /\ LateKept /\ Leave(c, "result")
      BY <1>13 DEF run_returns, Active, Holding, LateKept
    <2>5. "result" \in Answered
      BY DEF Answered
    <2> QED BY <1>12, <2>3, <2>4, <2>5
  <1>14. ASSUME NEW c \in Calls, open_fails(c) PROVE T!Next
    <2>1. pc[c] \in Active /\ LateKept /\ Leave(c, "error")
      BY <1>14 DEF open_fails, Active, LateKept
    <2>2. "error" \in Answered
      BY DEF Answered
    <2> QED BY <1>12, <2>1, <2>2
  <1>15. ASSUME NEW c \in Calls, report(c) \/ run_times_out(c) PROVE T!Next
    <2>1. PICK outcome \in {"error", "timeout"} : Leave(c, outcome)
      BY <1>15 DEF report, run_times_out
    <2>2. pc[c] \in Holding /\ pc[c] \in Active
      BY <1>15 DEF report, run_times_out, Holding, Active
    <2>3. on(c) \in Sessions /\ (LateKept \/ LateLeft(c))
      BY <1>1, <1>15, LateSteps
    <2>4. outcome \in Answered /\ outcome # "result"
      BY <2>1 DEF Answered
    <2> QED BY <1>12, <2>1, <2>2, <2>3, <2>4
  <1>16. ASSUME NEW s \in Sessions, close(s) \/ expire(s)
         PROVE  [T!Next]_(T!vars)
    <2>1. phases' = phases /\ ran' = ran
      BY <1>3, <1>16 DEF close, expire
    <2>2. CASE LateKept
      BY <1>3, <2>1, <2>2, TransportSteps
    <2>3. CASE LateEnds(s) /\ late[s] # None
      <3>1. /\ late[s] \in Calls /\ lates[late[s]] > 0
            /\ lates' = [lates EXCEPT ![late[s]] = lates[late[s]] - 1]
        BY <1>5, <2>3
      <3> QED BY <2>1, <3>1, TransportSteps
    <2> QED BY <1>1, <1>6, <1>16, <2>2, <2>3, LateSteps
  <1>17. ASSUME NEW s \in Sessions, run_late(s) PROVE T!Next
    <2>1. LateEnds(s) /\ late[s] # None /\ pc' = pc
      BY <1>17 DEF run_late, LateEnds
    <2>2. PICK c \in Calls : c = late[s]
      BY <1>1, <2>1
    <2>3. lates[c] > 0 /\ lates' = [lates EXCEPT ![c] = lates[c] - 1]
      BY <1>5, <2>1, <2>2
    <2>4. ran' = [ran EXCEPT ![c] = IF pc[c] \in Active THEN ran[c] + 1 ELSE ran[c]]
      BY <1>17, <2>2 DEF run_late
    <2>5. \/ UNCHANGED ran
          \/ phases[c] = "pending" /\ ran' = [ran EXCEPT ![c] = ran[c] + 1]
      <3>1. CASE pc[c] \in Active
        BY <1>2, <2>4, <3>1
      <3>2. CASE pc[c] \notin Active
        BY <1>1, <2>4, <3>2
      <3> QED BY <3>1, <3>2
    <2> QED BY <1>3, <2>1, <2>3, <2>5, TransportSteps
  <1>18. CASE tick \/ UNCHANGED vars
    <2>1. pc' = pc /\ ran' = ran /\ LateKept
      BY <1>18 DEF tick, vars, LateKept
    <2> QED BY <1>3, <2>1, TransportSteps
  <1> QED BY <1>7, <1>9, <1>10, <1>11, <1>13, <1>14, <1>15, <1>16, <1>17, <1>18
          DEF Next, Step

\* To run_ps the pool is Transport: a script runs at most twice, the runs given
\* up and still to come counted in, and a result means it has run.
THEOREM PoolImplementsTransport == Spec => ImplementsTransport
  <1>1. Init => T!Init
    <2> SUFFICES ASSUME Init PROVE T!Init
      OBVIOUS
    <2>1. \A c \in Calls : {s \in Sessions : late[s] = c} = {}
      BY PoolAssumption DEF Init, PoolAssumption
    <2>2. \A c \in Calls : Cardinality({s \in Sessions : late[s] = c}) = 0
      BY <2>1, FS_EmptySet
    <2> QED BY <2>2 DEF Init, T!Init, Active, Holding
  <1>2. PoolInv /\ [Next]_vars => [T!Next]_(T!vars)
    BY StepsMap
  <1> QED BY <1>1, <1>2, PoolInvariant, PTL DEF Spec, ImplementsTransport, T!Spec
=============================================================================
