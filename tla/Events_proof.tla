---------------------------- MODULE Events_proof ----------------------------
(***************************************************************************)
(* What the scores of an event keep, for any number of players, requests   *)
(* in flight, points, limits and stops, and in every environment that a    *)
(* theorem does not exclude.                                               *)
(***************************************************************************)
EXTENDS Events, FiniteSetTheorems, SequenceTheorems, TLAPS

(* The steps of the event, one by one: what every proof below splits into.   *)
StepOf(t) == \/ ActivateSave(t) \/ ActivatePublish(t)
             \/ EndSave(t) \/ EndPublish(t) \/ EndRead(t) \/ EndInsert(t)
             \/ EndDel(t) \/ EndKeys(t) \/ EndUnrate(t) \/ PgFails(t)
RequestStep(r) == \/ AdminActivate(r) \/ AdminEnd(r) \/ \E p \in Players : ScoreStart(r, p)
                  \/ Incr(r) \/ Expire(r) \/ Cap(r) \/ Log(r) \/ Zincrby(r)
SystemStep == \/ Create \/ RemoveStart \/ RemoveEnd \/ AddStart \/ AddEnd \/ ScheduleFails
              \/ StartDue \/ EndDue \/ Broadcast \/ \E c \in Clients : Connect(c) \/ Disconnect(c)
              \/ Tick \/ Stop \/ ResetTables \/ ResetKeys \/ Boot \/ Requeue

(* Next makes those steps and no other.                                      *)
LEMMA NextIsSteps ==
  Next <=> \/ \E t \in Threads : StepOf(t)
           \/ \E r \in Requests : RequestStep(r)
           \/ SystemStep
  BY DEF Next, StepOf, RequestStep, SystemStep, Call, ScoreStep, FlipStep, ScheduleStep

-----------------------------------------------------------------------------
(* Typing. *)

(* The first state is typed.                                                 *)
LEMMA InitTyped == Init => TypeOK
  <1> SUFFICES ASSUME Init PROVE TypeOK
    OBVIOUS
  <1>1. Zero \in [Players -> Nat] /\ Zero \in [Players -> 0..Window]
    BY ConfigAssumption DEF Zero
  <1>2. feed \in Seq({"active", "ended"}) /\ Len(feed) <= MaxFeed
    BY TimeAssumption DEF Init
  <1>3. /\ status \in {"none", "scheduled", "active", "ended"}
        /\ server \in {"up", "down", "booting", "resetting"}
        /\ startJob \in JobStates /\ endJob \in JobStates
        /\ sched \in {"idle"} \cup SchedulePoints
        /\ clock \in 0..Horizon /\ stops \in 0..MaxStops
    BY TimeAssumption DEF Init, JobStates
  <1>4. /\ told \in [Clients -> {"away", "nothing", "active", "ended"}]
        /\ pc \in [Threads -> {"idle"} \cup ScorePoints \cup ActivatePoints \cup EndPoints]
        /\ player \in [Requests -> Players \cup {NoPlayer}]
        /\ snap \in [Threads -> [Players -> Nat]]
    BY <1>1 DEF Init
  <1> QED
    BY <1>1, <1>2, <1>3, <1>4 DEF Init, TypeOK

(* Leaving a thread, and the points a thread goes to, are typed.             *)
LEMMA LeaveTyped ==
  ASSUME TypeOK, NEW t \in Threads, NEW outcome \in {"none", "failed"}, Leave(t, outcome)
  PROVE  /\ pc' \in [Threads -> {"idle"} \cup ScorePoints \cup ActivatePoints \cup EndPoints]
         /\ player' \in [Requests -> Players \cup {NoPlayer}]
         /\ snap' \in [Threads -> [Players -> Nat]]
         /\ startJob' \in JobStates /\ endJob' \in JobStates
  <1>1. Zero \in [Players -> Nat]
    BY DEF Zero
  <1> QED
    BY <1>1 DEF Leave, Goto, TypeOK, JobStates

(* A message is one of the two, and the channel is bounded.                  *)
LEMMA PublishTyped ==
  ASSUME TypeOK, NEW m \in {"active", "ended"}, Publish(m)
  PROVE  /\ feed' \in Seq({"active", "ended"}) /\ Len(feed') <= MaxFeed
         /\ told' = told
  <1>1. /\ feed \in Seq({"active", "ended"}) /\ Len(feed) <= MaxFeed
        /\ Len(feed) \in Nat /\ MaxFeed \in Nat
    BY TimeAssumption DEF TypeOK
  <1>2. CASE Len(feed) < MaxFeed /\ feed' = Append(feed, m)
    <2>1. feed' \in Seq({"active", "ended"}) /\ Len(feed') = Len(feed) + 1
      BY <1>1, <1>2
    <2> QED
      BY <1>1, <1>2, <2>1 DEF Publish
  <1>3. CASE feed' = feed
    BY <1>1, <1>3 DEF Publish
  <1> QED
    BY <1>2, <1>3 DEF Publish

(* A thread that activates or ends the event, or whose statement fails.      *)
LEMMA StepTyped ==
  ASSUME TypeOK, NEW t \in Threads, StepOf(t)
  PROVE  TypeOK'
  <1> USE DEF TypeOK, postgres, redis, queue, channel, threads
  <1> USE LeaveTyped
  <1>1. CASE ActivateSave(t)
    BY <1>1 DEF ActivateSave, Save, Fail, Goto, ActivatePoints, queue
  <1>2. CASE ActivatePublish(t)
    BY <1>2, PublishTyped DEF ActivatePublish, Done
  <1>3. CASE EndSave(t)
    BY <1>3 DEF EndSave, Save, Fail, Goto, EndPoints
  <1>4. CASE EndPublish(t)
    BY <1>4, PublishTyped DEF EndPublish, Goto, EndPoints
  <1>5. CASE EndRead(t)
    BY <1>5 DEF EndRead, Goto, EndPoints
  <1>6. CASE EndInsert(t)
    <2>1. rows' \in [Players -> Nat]
      <3>1. rows \in [Players -> Nat] /\ snap[t] \in [Players -> Nat]
        OBVIOUS
      <3>2. CASE UNCHANGED rows
        BY <3>1, <3>2
      <3>3. CASE rows' = [p \in Players |-> IF snap[t][p] > 0 THEN snap[t][p] ELSE rows[p]]
        BY <3>1, <3>3
      <3> QED
        BY <1>6, <3>2, <3>3 DEF EndInsert
    <2> QED
      BY <1>6, <2>1 DEF EndInsert, Fail, Goto, EndPoints
  <1>7. CASE EndDel(t)
    BY <1>7 DEF EndDel, Goto, EndPoints, Zero
  <1>8. CASE EndKeys(t)
    BY <1>8 DEF EndKeys, Goto, EndPoints
  <1>9. CASE EndUnrate(t)
    <2>1. used' \in [Players -> Nat] /\ window' \in [Players -> 0..Window]
      BY <1>9, ConfigAssumption DEF EndUnrate
    <2> QED
      BY <1>9, <2>1 DEF EndUnrate, Done
  <1>10. CASE PgFails(t)
    BY <1>10 DEF PgFails, Fail
  <1> QED
    BY <1>1, <1>2, <1>3, <1>4, <1>5, <1>6, <1>7, <1>8, <1>9, <1>10 DEF StepOf

(* A request enters or scores.                                               *)
LEMMA RequestTyped ==
  ASSUME TypeOK, Serving, NEW r \in Requests, RequestStep(r)
  PROVE  TypeOK'
  <1> r \in Threads
    BY DEF Threads
  <1> USE DEF TypeOK, postgres, redis, queue, channel, threads
  <1>1. ASSUME pc[r] \in ScorePoints
        PROVE  /\ player[r] \in Players /\ logs[player[r]] \in Nat
               /\ board[player[r]] \in Nat /\ used[player[r]] \in Nat
    BY <1>1 DEF Serving
  <1>2. CASE AdminActivate(r)
    BY <1>2 DEF AdminActivate, Goto, ActivatePoints
  <1>3. CASE AdminEnd(r)
    BY <1>3 DEF AdminEnd, Goto, EndPoints
  <1>4. ASSUME NEW p \in Players, ScoreStart(r, p)
        PROVE  TypeOK'
    BY <1>4 DEF ScoreStart, Goto, ScorePoints
  <1>5. CASE Incr(r)
    <2>1. used' \in [Players -> Nat]
      BY <1>1, <1>5 DEF Incr, ScorePoints
    <2> QED
      BY <1>5, <2>1, LeaveTyped DEF Incr, Done, Goto, ScorePoints
  <1>6. CASE Expire(r)
    <2>1. window' \in [Players -> 0..Window]
      BY <1>1, <1>6, ConfigAssumption DEF Expire, ScorePoints
    <2> QED
      BY <1>6, <2>1 DEF Expire, Goto, ScorePoints
  <1>7. CASE Cap(r)
    BY <1>7, LeaveTyped DEF Cap, Done, Goto, ScorePoints
  <1>8. CASE Log(r)
    <2>1. logs' \in [Players -> Nat]
      BY <1>1, <1>8 DEF Log, ScorePoints
    <2> QED
      BY <1>8, <2>1 DEF Log, Goto, ScorePoints
  <1>9. CASE Zincrby(r)
    <2>1. board' \in [Players -> Nat]
      BY <1>1, <1>9, ConfigAssumption DEF Zincrby, ScorePoints
    <2> QED
      BY <1>9, <2>1, LeaveTyped DEF Zincrby, Done
  <1> QED
    BY <1>2, <1>3, <1>4, <1>5, <1>6, <1>7, <1>8, <1>9 DEF RequestStep

(* The process goes away and leaves typed variables.                         *)
LEMMA HaltTyped ==
  Halt => /\ server' = "down" /\ sched' = "idle"
          /\ pc' \in [Threads -> {"idle"}]
          /\ player' \in [Requests -> Players \cup {NoPlayer}]
          /\ snap' \in [Threads -> [Players -> Nat]]
          /\ feed' = <<>> /\ told' \in [Clients -> {"away"}]
  <1>1. Zero \in [Players -> Nat]
    BY DEF Zero
  <1> QED
    BY <1>1 DEF Halt

(* The schedule, the jobs, the channel, the clock and the process.           *)
LEMMA SystemTyped ==
  ASSUME TypeOK, SystemStep
  PROVE  TypeOK'
  <1> USE DEF TypeOK, postgres, redis, queue, channel, threads
  <1>1. CASE Create \/ RemoveStart \/ RemoveEnd \/ AddStart \/ AddEnd
    BY <1>1 DEF Create, RemoveStart, RemoveEnd, AddStart, AddEnd, Remove, Add, JobStates,
                SchedulePoints
  <1>2. CASE ScheduleFails
    <2>1. CASE Halt
      <3>1. feed' \in Seq({"active", "ended"}) /\ Len(feed') <= MaxFeed
        BY <2>1, HaltTyped, TimeAssumption
      <3> QED
        BY <1>2, <2>1, <3>1, HaltTyped DEF ScheduleFails
    <2>2. CASE sched' = "idle" /\ UNCHANGED <<server, channel, threads>>
      BY <1>2, <2>2 DEF ScheduleFails
    <2> QED
      BY <1>2, <2>1, <2>2 DEF ScheduleFails
  <1>3. CASE StartDue \/ EndDue
    BY <1>3 DEF StartDue, EndDue, Goto, Threads, JobStates, ActivatePoints, EndPoints
  <1>4. CASE Broadcast
    <2>1. /\ feed' \in Seq({"active", "ended"}) /\ Head(feed) \in {"active", "ended"}
          /\ Len(feed') <= MaxFeed
      <3>1. /\ feed \in Seq({"active", "ended"}) /\ feed # <<>> /\ feed' = Tail(feed)
            /\ Len(feed) \in Nat /\ Len(feed) <= MaxFeed /\ MaxFeed \in Nat
        BY <1>4, TimeAssumption DEF Broadcast
      <3> QED
        BY <3>1
    <2>2. told' \in [Clients -> {"away", "nothing", "active", "ended"}]
      BY <1>4, <2>1 DEF Broadcast
    <2> QED
      BY <1>4, <2>1, <2>2 DEF Broadcast
  <1>5. ASSUME NEW c \in Clients, Connect(c) \/ Disconnect(c)
        PROVE  TypeOK'
    BY <1>5 DEF Connect, Disconnect
  <1>6. CASE Tick
    <2>1. clock' \in 0..Horizon
      BY <1>6, TimeAssumption DEF Tick
    <2>2. window' \in [Players -> 0..Window] /\ used' \in [Players -> Nat]
      BY <1>6, ConfigAssumption DEF Tick
    <2> QED
      BY <1>6, <2>1, <2>2 DEF Tick
  <1>7. CASE Stop
    <2>1. stops' \in 0..MaxStops
      BY <1>7, TimeAssumption DEF Stop
    <2>2. feed' \in Seq({"active", "ended"}) /\ Len(feed') <= MaxFeed
      BY <1>7, HaltTyped, TimeAssumption DEF Stop
    <2> QED
      BY <1>7, <2>1, <2>2, HaltTyped DEF Stop
  <1>8. CASE ResetTables \/ ResetKeys
    <2>1. Zero \in [Players -> Nat] /\ Zero \in [Players -> 0..Window]
      BY ConfigAssumption DEF Zero
    <2> QED
      BY <1>8, <2>1 DEF ResetTables, ResetKeys
  <1>9. CASE Boot
    BY <1>9 DEF Boot, SchedulePoints
  <1>10. CASE Requeue
    BY <1>10 DEF Requeue, Stalled, JobStates
  <1> QED
    BY <1>1, <1>2, <1>3, <1>4, <1>5, <1>6, <1>7, <1>8, <1>9, <1>10 DEF SystemStep

-----------------------------------------------------------------------------
(* Serving: requests know their players, a stopped server does nothing. *)

(* A thread that ends or activates the event moves on there, or leaves.      *)
LEMMA StepKeepsServing ==
  ASSUME TypeOK, Serving, NEW t \in Threads, StepOf(t)
  PROVE  Serving'
  <1> USE DEF TypeOK, Serving, threads, Goto, Leave, Done, Fail, ScorePoints, ActivatePoints,
              EndPoints, Threads
  <1>1. server' = server
    BY DEF StepOf, ActivateSave, Save, ActivatePublish, EndSave, EndPublish, EndRead,
           EndInsert, EndDel, EndKeys, EndUnrate, PgFails
  <1>2. pc[t] # "idle"
    BY DEF StepOf, ActivateSave, ActivatePublish, EndSave, EndPublish, EndRead,
           EndInsert, EndDel, EndKeys, EndUnrate, PgFails
  <1>3. \/ Leave(t, "none") \/ Leave(t, "failed")
        \/ /\ \E point \in ActivatePoints \cup EndPoints : Goto(t, point)
           /\ player' = player
    BY DEF StepOf, ActivateSave, Save, ActivatePublish, EndSave, EndPublish, EndRead,
           EndInsert, EndDel, EndKeys, EndUnrate, PgFails
  <1> QED
    BY <1>1, <1>2, <1>3

(* A request that starts to score knows its player until it is answered.     *)
LEMMA RequestKeepsServing ==
  ASSUME TypeOK, Serving, NEW r \in Requests, RequestStep(r)
  PROVE  Serving'
  <1> USE DEF TypeOK, Serving, threads, Goto, Leave, Done, ScorePoints, Threads
  <1>1. server' = server /\ (pc[r] = "idle" => server = "up")
    BY DEF RequestStep, AdminActivate, AdminEnd, ScoreStart, Incr, Expire, Cap, Log, Zincrby
  <1>2. \/ Leave(r, "none")
        \/ /\ \E point \in {"activate_save", "end_save"} : Goto(r, point)
           /\ player' = player
        \/ /\ \E p \in Players : player' = [player EXCEPT ![r] = p]
           /\ Goto(r, "incr")
        \/ /\ pc[r] \in ScorePoints
           /\ \E point \in ScorePoints : Goto(r, point)
           /\ player' = player
    BY DEF RequestStep, AdminActivate, AdminEnd, ScoreStart, Incr, Expire, Cap, Log, Zincrby
  <1> QED
    BY <1>1, <1>2

(* A halt stops every thread, and a boot starts no request.                  *)
LEMMA SystemKeepsServing ==
  ASSUME TypeOK, Serving, SystemStep
  PROVE  Serving'
  <1> USE DEF TypeOK, Serving, threads, Threads
  <1>1. CASE Halt
    BY <1>1 DEF Halt, ScorePoints
  <1>2. CASE StartDue \/ EndDue
    BY <1>2, ThreadAssumption DEF StartDue, EndDue, Goto
  <1>4. CASE Create \/ RemoveStart \/ RemoveEnd \/ AddStart \/ Broadcast
             \/ (\E c \in Clients : Connect(c) \/ Disconnect(c)) \/ Tick \/ Requeue
    BY <1>4 DEF Create, RemoveStart, RemoveEnd, AddStart, Broadcast, Connect, Disconnect,
                Tick, Requeue
  <1>5. CASE ResetTables \/ ResetKeys \/ Boot
    BY <1>5 DEF ResetTables, ResetKeys, Boot
  <1>6. CASE ScheduleFails /\ ~Halt
    BY <1>6 DEF ScheduleFails
  <1>7. CASE AddEnd
    BY <1>7 DEF AddEnd
  <1>8. CASE Stop
    BY <1>1, <1>8 DEF Stop
  <1> QED
    BY <1>1, <1>2, <1>4, <1>5, <1>6, <1>7, <1>8 DEF SystemStep

(* Types and Serving hold from the beginning and through every step.         *)
LEMMA NextKeepsServing == TypeOK /\ Serving /\ [Next]_vars => TypeOK' /\ Serving'
  <1> SUFFICES ASSUME TypeOK, Serving, [Next]_vars PROVE TypeOK' /\ Serving'
    OBVIOUS
  <1>1. CASE UNCHANGED vars
    BY <1>1 DEF vars, postgres, redis, queue, channel, threads, TypeOK, Serving
  <1> QED
    BY <1>1, NextIsSteps, StepTyped, RequestTyped, SystemTyped, StepKeepsServing,
       RequestKeepsServing, SystemKeepsServing

(* At first nobody is served.                                                *)
LEMMA InitServing == Init => TypeOK /\ Serving
  BY InitTyped DEF Init, Serving, ScorePoints, Threads

(* Every variable keeps its type.                                            *)
THEOREM TypeCorrect == Spec => []TypeOK
  BY InitServing, NextKeepsServing, PTL DEF Spec

-----------------------------------------------------------------------------
(* Logs lead points. *)

(* What n actions are worth grows with n, by the points of one action.       *)
LEMMA WorthGrows ==
  /\ \A a \in Nat : Worth(a) \in Nat
  /\ \A a, b \in Nat : a <= b => Worth(a) <= Worth(b)
  /\ \A a \in Nat : Worth(a + 1) = Worth(a) + Points
  /\ Worth(0) = 0
  BY ConfigAssumption DEF Worth

(* What most steps do to the scores: no log row is made, points leave the    *)
(* board all at once or not at all, a row of the final table comes from a    *)
(* copy and a copy from the board.                                           *)
Carried ==
  /\ logs' = logs
  /\ server' # "resetting" => server # "resetting" \/ board' = Zero
  /\ \A p \in Players : board'[p] \in {board[p], 0}
  /\ \A r \in Requests : pc'[r] = "zincrby" => pc[r] = "zincrby" /\ player'[r] = player[r]
  /\ \A p \in Players :
       \/ rows'[p] = rows[p]
       \/ \E t \in Threads : pc[t] = "end_insert" /\ rows'[p] = snap[t][p]
  /\ \A t \in Threads : pc'[t] = "end_insert" =>
       \/ pc[t] = "end_insert" /\ snap'[t] = snap[t]
       \/ pc[t] = "end_read" /\ snap'[t] = board

(* Those whose points are on their way to the board are counted.             *)
LEMMA LoggedIsFinite ==
  \A p : IsFiniteSet(Logged(p)) /\ Cardinality(Logged(p)) \in Nat
  <1>1. \A p : Logged(p) \subseteq Requests
    BY DEF Logged
  <1> QED
    BY <1>1, ThreadAssumption, FS_Subset, FS_CardinalityType

(* A step that only carries scores along keeps the logs ahead of them.       *)
LEMMA CarryingKeepsLogs ==
  ASSUME TypeOK, TypeOK', Serving, LogsLead, Carried
  PROVE  LogsLead'
  <1> SUFFICES ASSUME NEW p \in Players
               PROVE  /\ server' # "resetting" =>
                           board'[p] + Worth(Cardinality(Logged(p)')) <= Worth(logs'[p])
                      /\ rows'[p] <= Worth(logs'[p])
                      /\ \A t \in Threads :
                           pc'[t] = "end_insert" => snap'[t][p] <= Worth(logs'[p])
    BY DEF LogsLead
  <1>1. /\ board[p] \in Nat /\ board'[p] \in Nat /\ logs[p] \in Nat /\ logs'[p] = logs[p]
        /\ Worth(logs[p]) \in Nat
    BY WorthGrows DEF TypeOK, Carried
  <1>2. /\ Cardinality(Logged(p)) \in Nat /\ Cardinality(Logged(p)') \in Nat
        /\ Cardinality(Logged(p)') <= Cardinality(Logged(p))
    <2>1. Logged(p)' \subseteq Logged(p)
      BY DEF Logged, Carried
    <2> QED
      BY <2>1, LoggedIsFinite, FS_Subset, FS_CardinalityType
  <1>3. /\ Worth(Cardinality(Logged(p)')) <= Worth(Cardinality(Logged(p)))
        /\ Worth(Cardinality(Logged(p)')) \in Nat /\ Worth(Cardinality(Logged(p))) \in Nat
    BY <1>2, WorthGrows
  <1>4. server # "resetting" => board[p] + Worth(Cardinality(Logged(p))) <= Worth(logs[p])
    BY DEF LogsLead
  <1>5. server' # "resetting" =>
          board'[p] + Worth(Cardinality(Logged(p)')) <= Worth(logs'[p])
    <2>1. CASE server # "resetting"
      BY <1>1, <1>3, <1>4, <2>1 DEF Carried
    <2>2. CASE server = "resetting"
      <3>1. Logged(p) = {}
        BY <2>2 DEF Serving, Logged, Threads
      <3>2. Cardinality(Logged(p)') = 0
        BY <1>2, <3>1, FS_EmptySet
      <3>3. server' # "resetting" => board'[p] = 0
        BY <2>2 DEF Carried, Zero
      <3> QED
        BY <1>1, <3>2, <3>3, WorthGrows
    <2> QED
      BY <2>1, <2>2
  <1>6. rows'[p] <= Worth(logs'[p])
    BY <1>1 DEF Carried, LogsLead
  <1>7. ASSUME NEW t \in Threads, pc'[t] = "end_insert"
        PROVE  snap'[t][p] <= Worth(logs'[p])
    <2>1. CASE pc[t] = "end_insert" /\ snap'[t] = snap[t]
      BY <1>1, <2>1 DEF LogsLead
    <2>2. CASE pc[t] = "end_read" /\ snap'[t] = board
      <3>1. server # "resetting"
        BY <2>2 DEF Serving
      <3> QED
        BY <1>1, <1>3, <1>4, <2>2, <3>1
    <2> QED
      BY <1>7, <2>1, <2>2 DEF Carried
  <1> QED
    BY <1>5, <1>6, <1>7

(* Activating and ending carry.                                              *)
LEMMA StepCarries ==
  ASSUME TypeOK, Serving, NEW t \in Threads, StepOf(t)
  PROVE  Carried
  <1> USE DEF TypeOK, Carried, postgres, redis, queue, channel, threads, Goto, Leave, Done, Fail
  <1>1. CASE ActivateSave(t) \/ EndSave(t)
    BY <1>1 DEF ActivateSave, EndSave, Save, Threads
  <1>2. CASE ActivatePublish(t) \/ EndPublish(t)
    BY <1>2 DEF ActivatePublish, EndPublish, Threads
  <1>3. CASE EndRead(t)
    BY <1>3 DEF EndRead, Threads
  <1>4. CASE EndInsert(t)
    BY <1>4 DEF EndInsert, Threads
  <1>5. CASE EndDel(t)
    BY <1>5 DEF EndDel, Zero, Threads
  <1>6. CASE EndKeys(t)
    BY <1>6 DEF EndKeys, Threads
  <1>7. CASE EndUnrate(t)
    BY <1>7 DEF EndUnrate, Threads
  <1>8. CASE PgFails(t)
    BY <1>8 DEF PgFails, Threads
  <1> QED
    BY <1>1, <1>2, <1>3, <1>4, <1>5, <1>6, <1>7, <1>8 DEF StepOf

(* So do requests until they write.                                          *)
LEMMA RequestCarries ==
  ASSUME TypeOK, Serving, NEW r \in Requests, RequestStep(r), ~Log(r), ~Zincrby(r)
  PROVE  Carried
  <1> USE DEF TypeOK, Carried, postgres, redis, queue, channel, threads, Goto, Leave, Done, Threads
  <1>1. CASE AdminActivate(r) \/ AdminEnd(r) \/ \E p \in Players : ScoreStart(r, p)
    BY <1>1 DEF AdminActivate, AdminEnd, ScoreStart
  <1>2. CASE Incr(r) \/ Expire(r) \/ Cap(r)
    BY <1>2 DEF Incr, Expire, Cap
  <1> QED
    BY <1>1, <1>2 DEF RequestStep

(* And everything around them, except for db:reset.                          *)
LEMMA SystemCarries ==
  ASSUME TypeOK, Serving, SystemStep, ~ResetTables
  PROVE  Carried
  <1> USE DEF TypeOK, Carried, postgres, redis, queue, channel, threads
  <1>1. CASE Create \/ RemoveStart \/ RemoveEnd \/ AddStart \/ AddEnd
    BY <1>1 DEF Create, RemoveStart, RemoveEnd, AddStart, AddEnd, Serving, SchedulePoints
  <1>5. CASE Broadcast \/ \E c \in Clients : Connect(c) \/ Disconnect(c)
    BY <1>5 DEF Broadcast, Connect, Disconnect
  <1>6. CASE Tick \/ Boot \/ Requeue
    BY <1>6 DEF Tick, Boot, Requeue
  <1>2. CASE ScheduleFails
    BY <1>2 DEF ScheduleFails, Halt, Threads
  <1>7. CASE Stop
    BY <1>7 DEF Stop, Halt, Threads
  <1>3. CASE StartDue \/ EndDue
    <2>1. UNCHANGED <<logs, rows, board, server, player, snap>>
      BY <1>3 DEF StartDue, EndDue
    <2>2. \E t \in Threads, point \in {"activate_save", "end_save"} : Goto(t, point)
      BY <1>3 DEF StartDue, EndDue, Threads
    <2>3. \A t \in Threads : pc'[t] \in {"zincrby", "end_insert"} => pc[t] = pc'[t]
      BY <2>2 DEF Goto
    <2> QED
      BY <2>1, <2>3 DEF Threads
  <1>4. CASE ResetKeys
    BY <1>4 DEF ResetKeys, Zero
  <1> QED
    BY <1>1, <1>2, <1>3, <1>4, <1>5, <1>6, <1>7 DEF SystemStep

(* A log row comes with the promise of its points, which the board then gets. *)
LEMMA WritingKeepsLogs ==
  ASSUME TypeOK, TypeOK', Serving, LogsLead, NEW r \in Requests, Log(r) \/ Zincrby(r)
  PROVE  LogsLead'
  <1> SUFFICES ASSUME NEW p \in Players
               PROVE  /\ server' # "resetting" =>
                           board'[p] + Worth(Cardinality(Logged(p)')) <= Worth(logs'[p])
                      /\ rows'[p] <= Worth(logs'[p])
                      /\ \A t \in Threads :
                           pc'[t] = "end_insert" => snap'[t][p] <= Worth(logs'[p])
    BY DEF LogsLead
  <1>1. /\ r \in Threads /\ pc[r] \in ScorePoints /\ player[r] \in Players
        /\ server # "resetting" /\ rows'[p] = rows[p]
        /\ \A t \in Threads : pc'[t] = "end_insert" => pc[t] = "end_insert" /\ snap'[t] = snap[t]
    BY DEF Log, Zincrby, Serving, ScorePoints, Threads, TypeOK, Goto, Done, Leave, postgres
  <1>2. /\ board[p] \in Nat /\ board'[p] \in Nat /\ logs[p] \in Nat /\ logs'[p] \in Nat
        /\ logs[p] <= logs'[p] /\ rows[p] \in Nat
    <2>1. /\ board[p] \in Nat /\ board'[p] \in Nat /\ logs[p] \in Nat /\ logs'[p] \in Nat
          /\ rows[p] \in Nat
      BY DEF TypeOK
    <2>2. CASE Log(r)
      <3>1. logs \in [Players -> Nat] /\ logs' = [logs EXCEPT ![player[r]] = @ + 1]
        BY <2>2 DEF TypeOK, Log
      <3>2. logs'[p] = logs[p] \/ logs'[p] = logs[p] + 1
        BY <3>1
      <3> QED
        BY <2>1, <3>2
    <2>3. CASE Zincrby(r)
      BY <2>1, <2>3 DEF Zincrby, postgres
    <2> QED
      BY <2>1, <2>2, <2>3
  <1>3. Worth(logs[p]) \in Nat /\ Worth(logs'[p]) \in Nat /\ Worth(logs[p]) <= Worth(logs'[p])
    BY <1>2, WorthGrows
  <1>4. board[p] + Worth(Cardinality(Logged(p))) <= Worth(logs[p])
    BY <1>1 DEF LogsLead
  <1>5. /\ IsFiniteSet(Logged(p)) /\ Cardinality(Logged(p)) \in Nat
        /\ Worth(Cardinality(Logged(p))) \in Nat
    BY LoggedIsFinite, WorthGrows
  <1>6. board'[p] + Worth(Cardinality(Logged(p)')) <= Worth(logs'[p])
    <2>1. CASE player[r] # p
      <3>1. Logged(p)' = Logged(p) /\ board'[p] = board[p]
        <4>1. CASE Log(r)
          BY <2>1, <4>1 DEF Logged, Log, Goto, TypeOK, Threads, redis
        <4>2. CASE Zincrby(r)
          BY <2>1, <4>2 DEF Logged, Zincrby, Goto, Done, Leave, TypeOK, Threads
        <4> QED
          BY <4>1, <4>2
      <3> QED
        BY <1>2, <1>3, <1>4, <1>5, <3>1
    <2>2. CASE Log(r) /\ player[r] = p
      <3>1. Logged(p)' = Logged(p) \cup {r} /\ r \notin Logged(p)
        BY <2>2 DEF Logged, Log, Goto, TypeOK, Threads
      <3>2. Cardinality(Logged(p)') = Cardinality(Logged(p)) + 1
        BY <1>5, <3>1, FS_AddElement
      <3>3. logs'[p] = logs[p] + 1 /\ board'[p] = board[p]
        BY <2>2 DEF Log, TypeOK, redis
      <3>4. /\ Worth(Cardinality(Logged(p)')) = Worth(Cardinality(Logged(p))) + Points
            /\ Worth(logs'[p]) = Worth(logs[p]) + Points
        BY <1>2, <1>5, <3>2, <3>3, WorthGrows
      <3> QED
        BY <1>2, <1>3, <1>4, <1>5, <3>3, <3>4, ConfigAssumption
    <2>3. CASE Zincrby(r) /\ player[r] = p
      <3>1. Logged(p)' = Logged(p) \ {r} /\ r \in Logged(p)
        BY <2>3 DEF Logged, Zincrby, Done, Leave, Goto, TypeOK, Threads
      <3>2. /\ Cardinality(Logged(p)') = Cardinality(Logged(p)) - 1
            /\ Cardinality(Logged(p)') \in Nat
        BY <1>5, <3>1, FS_RemoveElement, FS_CardinalityType
      <3>3. logs'[p] = logs[p] /\ board'[p] = board[p] + Points
        BY <2>3 DEF Zincrby, TypeOK, postgres
      <3>4. Worth(Cardinality(Logged(p))) = Worth(Cardinality(Logged(p)')) + Points
        <4>1. Cardinality(Logged(p)') + 1 = Cardinality(Logged(p))
          BY <1>5, <3>2
        <4> QED
          BY <3>2, <4>1, WorthGrows
      <3>5. Worth(Cardinality(Logged(p)')) \in Nat
        BY <3>2, WorthGrows
      <3> QED
        BY <1>2, <1>3, <1>4, <1>5, <3>3, <3>4, <3>5, ConfigAssumption
    <2> QED
      BY <2>1, <2>2, <2>3
  <1>7. rows'[p] <= Worth(logs'[p])
    BY <1>1, <1>2, <1>3 DEF LogsLead
  <1>8. ASSUME NEW t \in Threads, pc'[t] = "end_insert"
        PROVE  snap'[t][p] <= Worth(logs'[p])
    <2>1. snap[t][p] \in Nat /\ snap[t][p] <= Worth(logs[p])
      BY <1>1, <1>8 DEF LogsLead, TypeOK
    <2> QED
      BY <1>1, <1>3, <1>8, <2>1
  <1> QED
    BY <1>6, <1>7, <1>8

(* db:reset drops the rows while nothing is under way.                       *)
LEMMA ResetKeepsLogs ==
  ASSUME TypeOK, Serving, ResetTables
  PROVE  LogsLead'
  <1>1. \A p \in Players : Worth(Zero[p]) = 0 /\ Zero[p] = 0
    BY WorthGrows DEF Zero
  <1> QED
    BY <1>1 DEF ResetTables, LogsLead, Serving, threads

(* Every step keeps the logs ahead of the scores.                            *)
LEMMA NextKeepsLogs ==
  TypeOK /\ Serving /\ LogsLead /\ [Next]_vars => LogsLead'
  <1> SUFFICES ASSUME TypeOK, Serving, LogsLead, [Next]_vars PROVE LogsLead'
    OBVIOUS
  <1>1. TypeOK'
    BY NextKeepsServing
  <1>2. CASE UNCHANGED vars
    <2>1. Carried
      BY <1>2 DEF Carried, vars, postgres, redis, threads
    <2> QED
      BY <1>1, <2>1, CarryingKeepsLogs
  <1>3. ASSUME NEW t \in Threads, StepOf(t) PROVE LogsLead'
    BY <1>1, <1>3, StepCarries, CarryingKeepsLogs
  <1>4. ASSUME NEW r \in Requests, RequestStep(r) PROVE LogsLead'
    BY <1>1, <1>4, RequestCarries, WritingKeepsLogs, CarryingKeepsLogs
  <1>5. CASE SystemStep
    BY <1>1, <1>5, SystemCarries, ResetKeepsLogs, CarryingKeepsLogs
  <1> QED
    BY <1>2, <1>3, <1>4, <1>5, NextIsSteps

(* At first there are no scores.                                             *)
LEMMA InitLogs == Init => LogsLead
  <1> SUFFICES ASSUME Init PROVE LogsLead
    OBVIOUS
  <1>1. \A p \in Players : Logged(p) = {}
    BY DEF Init, Logged, Threads
  <1>2. \A p \in Players : Cardinality(Logged(p)) = 0 /\ Zero[p] = 0
    BY <1>1, FS_EmptySet DEF Zero
  <1>3. ASSUME NEW p \in Players
        PROVE  /\ board[p] + Worth(Cardinality(Logged(p))) <= Worth(logs[p])
               /\ rows[p] <= Worth(logs[p])
    <2>1. board[p] = 0 /\ logs[p] = 0 /\ rows[p] = 0 /\ Cardinality(Logged(p)) = 0
      BY <1>2 DEF Init
    <2> QED
      BY <2>1, WorthGrows
  <1> QED
    BY <1>3 DEF Init, LogsLead

(* Whatever overlaps, fails, crashes or is reset: no point without its log.  *)
THEOREM PointsAreLogged == Spec => []EveryPointIsLogged
  <1>1. TypeOK /\ LogsLead => EveryPointIsLogged
    <2> SUFFICES ASSUME TypeOK, LogsLead, NEW p \in Players, server # "resetting"
                 PROVE  board[p] <= Worth(logs[p]) /\ rows[p] <= Worth(logs[p])
      BY DEF EveryPointIsLogged
    <2>1. board[p] + Worth(Cardinality(Logged(p))) <= Worth(logs[p]) /\ rows[p] <= Worth(logs[p])
      BY DEF LogsLead
    <2>2. /\ board[p] \in Nat /\ logs[p] \in Nat /\ Worth(logs[p]) \in Nat
          /\ Worth(Cardinality(Logged(p))) \in Nat
      BY LoggedIsFinite, WorthGrows DEF TypeOK
    <2> QED
      BY <2>1, <2>2
  <1> QED
    BY <1>1, InitServing, InitLogs, NextKeepsServing, NextKeepsLogs, PTL DEF Spec

-----------------------------------------------------------------------------
(* The ceiling. *)

(* Those that passed the ceiling's check are counted.                        *)
LEMMA InFlightIsFinite ==
  \A p : /\ IsFiniteSet(InFlight(p)) /\ Cardinality(InFlight(p)) \in Nat
         /\ Cardinality(InFlight(p)) <= Cardinality(Requests)
  <1>1. \A p : InFlight(p) \subseteq Requests
    BY DEF InFlight
  <1> QED
    BY <1>1, ThreadAssumption, FS_Subset, FS_CardinalityType

(* There is a request beside which the others overshoot.                     *)
LEMMA SomeRequests == Cardinality(Requests) - 1 \in Nat
  <1>1. Cardinality(Requests) # 0 /\ Cardinality(Requests) \in Nat
    BY ThreadAssumption, FS_EmptySet, FS_CardinalityType
  <1> QED
    BY <1>1

(* Most steps let no further request through the ceiling's check, and add    *)
(* nothing to the board.                                                     *)
Lowered == /\ \A p \in Players : board'[p] \in {board[p], 0}
           /\ \A r \in Requests : pc'[r] \in {"log", "zincrby"} =>
                pc[r] \in {"log", "zincrby"} /\ player'[r] = player[r]

(* A step that only lowers scores, or answers requests, keeps the ceiling.   *)
LEMMA LoweringKeepsCap ==
  ASSUME TypeOK, TypeOK', CapLeads, Lowered
  PROVE  CapLeads'
  <1> SUFFICES ASSUME NEW p \in Players
               PROVE  /\ board'[p] + Worth(Cardinality(InFlight(p)'))
                            <= MaxScore + Worth(Cardinality(Requests) - 1)
                      /\ InFlight(p)' # {} => Points <= MaxScore
    BY DEF CapLeads, OvershootBounded
  <1>1. InFlight(p)' \subseteq InFlight(p)
    BY DEF Lowered, InFlight
  <1>2. /\ Cardinality(InFlight(p)') \in Nat /\ Cardinality(InFlight(p)) \in Nat
        /\ Cardinality(InFlight(p)') <= Cardinality(InFlight(p))
    BY <1>1, InFlightIsFinite, FS_Subset, FS_CardinalityType
  <1>3. /\ Worth(Cardinality(InFlight(p)')) <= Worth(Cardinality(InFlight(p)))
        /\ Worth(Cardinality(InFlight(p)')) \in Nat /\ Worth(Cardinality(InFlight(p))) \in Nat
        /\ Worth(Cardinality(Requests) - 1) \in Nat
    BY <1>2, WorthGrows, SomeRequests
  <1>4. board[p] \in Nat /\ board'[p] \in Nat /\ board'[p] <= board[p]
    <2>1. board[p] \in Nat /\ board'[p] \in {board[p], 0}
      BY DEF TypeOK, Lowered
    <2> QED
      BY <2>1
  <1>5. board[p] + Worth(Cardinality(InFlight(p))) <= MaxScore + Worth(Cardinality(Requests) - 1)
    BY DEF CapLeads, OvershootBounded
  <1>6. InFlight(p)' # {} => Points <= MaxScore
    BY <1>1 DEF CapLeads
  <1> QED
    BY <1>3, <1>4, <1>5, <1>6, ConfigAssumption

(* The steps of an activation or an end are such steps.                      *)
LEMMA StepLowers ==
  ASSUME TypeOK, Serving, NEW t \in Threads, StepOf(t)
  PROVE  Lowered
  <1> USE DEF TypeOK, Lowered, redis, threads, Goto, Leave, Done, Fail, Threads
  <1>1. CASE ActivateSave(t) \/ EndSave(t)
    BY <1>1 DEF ActivateSave, EndSave, Save
  <1>2. CASE ActivatePublish(t) \/ EndPublish(t)
    BY <1>2 DEF ActivatePublish, EndPublish
  <1>3. CASE EndRead(t) \/ EndInsert(t)
    BY <1>3 DEF EndRead, EndInsert
  <1>4. CASE EndDel(t)
    BY <1>4 DEF EndDel, Zero
  <1>5. CASE EndKeys(t) \/ EndUnrate(t)
    BY <1>5 DEF EndKeys, EndUnrate
  <1>6. CASE PgFails(t)
    BY <1>6 DEF PgFails
  <1> QED
    BY <1>1, <1>2, <1>3, <1>4, <1>5, <1>6 DEF StepOf

(* So are a request's, but the check and the ZINCRBY.                        *)
LEMMA RequestLowers ==
  ASSUME TypeOK, Serving, NEW r \in Requests, RequestStep(r), ~Cap(r), ~Zincrby(r)
  PROVE  Lowered
  <1> USE DEF TypeOK, Lowered, redis, threads, Goto, Leave, Done, Threads
  <1>1. CASE AdminActivate(r) \/ AdminEnd(r) \/ \E p \in Players : ScoreStart(r, p)
    BY <1>1 DEF AdminActivate, AdminEnd, ScoreStart
  <1>2. CASE Incr(r) \/ Expire(r)
    BY <1>2 DEF Incr, Expire
  <1>3. CASE Log(r)
    BY <1>3 DEF Log
  <1> QED
    BY <1>1, <1>2, <1>3 DEF RequestStep

(* So are the schedule's, the channel's and the environment's.               *)
LEMMA SystemLowers ==
  ASSUME TypeOK, SystemStep
  PROVE  Lowered
  <1> USE DEF TypeOK, Lowered, redis, threads
  <1>1. CASE Create \/ RemoveStart \/ RemoveEnd \/ AddStart \/ AddEnd
    BY <1>1 DEF Create, RemoveStart, RemoveEnd, AddStart, AddEnd
  <1>2. CASE Broadcast \/ \E c \in Clients : Connect(c) \/ Disconnect(c)
    BY <1>2 DEF Broadcast, Connect, Disconnect
  <1>3. CASE Tick \/ Boot \/ Requeue
    BY <1>3 DEF Tick, Boot, Requeue
  <1>4. CASE ScheduleFails
    BY <1>4 DEF ScheduleFails, Halt, Threads
  <1>5. CASE Stop
    BY <1>5 DEF Stop, Halt, Threads
  <1>6. CASE StartDue \/ EndDue
    <2>1. UNCHANGED <<board, player>>
      BY <1>6 DEF StartDue, EndDue
    <2>2. \E t \in Threads, point \in {"activate_save", "end_save"} : Goto(t, point)
      BY <1>6 DEF StartDue, EndDue, Threads
    <2>3. \A r \in Requests : pc'[r] \in {"log", "zincrby"} => pc[r] = pc'[r]
      BY <2>2 DEF Goto, Threads
    <2> QED
      BY <2>1, <2>3
  <1>7. CASE ResetTables \/ ResetKeys
    BY <1>7 DEF ResetTables, ResetKeys, Zero
  <1> QED
    BY <1>1, <1>2, <1>3, <1>4, <1>5, <1>6, <1>7 DEF SystemStep

(* The check admits a request when there is room; it was not in flight.      *)
LEMMA CheckingKeepsCap ==
  ASSUME TypeOK, TypeOK', Serving, CapLeads, NEW r \in Requests, Cap(r)
  PROVE  CapLeads'
  <1> r \in Threads
    BY DEF Threads
  <1>1. CASE Done(r)
    <2>1. Lowered
      BY <1>1 DEF Cap, Done, Leave, Goto, Lowered, Threads, TypeOK, redis
    <2> QED
      BY <2>1, LoweringKeepsCap
  <1>2. CASE board[player[r]] + Points <= MaxScore /\ Goto(r, "log")
    <2> SUFFICES ASSUME NEW p \in Players
                 PROVE  /\ board'[p] + Worth(Cardinality(InFlight(p)'))
                              <= MaxScore + Worth(Cardinality(Requests) - 1)
                        /\ InFlight(p)' # {} => Points <= MaxScore
      BY DEF CapLeads, OvershootBounded
    <2>1. player[r] \in Players /\ pc[r] = "cap" /\ player' = player /\ board' = board
      BY <1>2 DEF Cap, Serving, ScorePoints, redis, Done, Leave, Goto, TypeOK
    <2>2. CASE p # player[r]
      <3>1. ASSUME NEW q \in Requests
            PROVE  q \in InFlight(p)' <=> q \in InFlight(p)
        <4>1. CASE q = r
          BY <2>1, <2>2, <4>1 DEF InFlight
        <4>2. CASE q # r
          <5>1. pc'[q] = pc[q]
            BY <1>2, <4>2 DEF Goto, TypeOK, Threads
          <5> QED
            BY <2>1, <5>1 DEF InFlight
        <4> QED
          BY <4>1, <4>2
      <3>2. InFlight(p)' = InFlight(p)
        BY <3>1 DEF InFlight
      <3> QED
        BY <2>1, <3>2 DEF CapLeads, OvershootBounded
    <2>3. CASE p = player[r]
      <3>1. InFlight(p)' = InFlight(p) \cup {r} /\ r \notin InFlight(p)
        BY <1>2, <2>1, <2>3 DEF InFlight, Goto, TypeOK, Threads
      <3>2. Cardinality(InFlight(p)') = Cardinality(InFlight(p)) + 1
        BY <3>1, InFlightIsFinite, FS_AddElement
      <3>3. Cardinality(InFlight(p)') <= Cardinality(Requests)
        <4>1. InFlight(p)' \subseteq Requests
          BY DEF InFlight
        <4> QED
          BY <4>1, ThreadAssumption, FS_Subset
      <3>4. /\ Cardinality(InFlight(p)) \in Nat
            /\ Cardinality(InFlight(p)) <= Cardinality(Requests) - 1
        <4>1. Cardinality(InFlight(p)) \in Nat /\ Cardinality(Requests) \in Nat
          BY InFlightIsFinite, ThreadAssumption, FS_CardinalityType
        <4>2. Cardinality(InFlight(p)) + 1 <= Cardinality(Requests)
          BY <3>2, <3>3
        <4> QED
          BY <4>1, <4>2
      <3>5. /\ Worth(Cardinality(InFlight(p)')) = Worth(Cardinality(InFlight(p))) + Points
            /\ Worth(Cardinality(InFlight(p))) <= Worth(Cardinality(Requests) - 1)
            /\ Worth(Cardinality(InFlight(p))) \in Nat
            /\ Worth(Cardinality(Requests) - 1) \in Nat
        BY <3>2, <3>4, SomeRequests, WorthGrows
      <3>6. board[p] \in Nat /\ board[p] + Points <= MaxScore
        BY <1>2, <2>3 DEF TypeOK
      <3> QED
        BY <2>1, <3>5, <3>6, ConfigAssumption
    <2> QED
      BY <2>2, <2>3
  <1>3. Done(r) \/ (board[player[r]] + Points <= MaxScore /\ Goto(r, "log"))
    <2>1. board[player[r]] \in Nat
      BY DEF Cap, Serving, ScorePoints, TypeOK
    <2>2. CASE board[player[r]] + Points > MaxScore
      BY <2>2 DEF Cap
    <2>3. CASE ~(board[player[r]] + Points > MaxScore)
      <3>1. Goto(r, "log")
        BY <2>3 DEF Cap
      <3>2. board[player[r]] + Points <= MaxScore
        BY <2>1, <2>3, ConfigAssumption
      <3> QED
        BY <3>1, <3>2
    <2> QED
      BY <2>2, <2>3
  <1> QED
    BY <1>1, <1>2, <1>3

(* The points arrive, and are in flight no more.                             *)
LEMMA ScoringKeepsCap ==
  ASSUME TypeOK, TypeOK', Serving, CapLeads, NEW r \in Requests, Zincrby(r)
  PROVE  CapLeads'
  <1> SUFFICES ASSUME NEW p \in Players
               PROVE  /\ board'[p] + Worth(Cardinality(InFlight(p)'))
                            <= MaxScore + Worth(Cardinality(Requests) - 1)
                      /\ InFlight(p)' # {} => Points <= MaxScore
    BY DEF CapLeads, OvershootBounded
  <1>1. r \in Threads /\ player[r] \in Players /\ pc[r] = "zincrby"
    BY DEF Zincrby, Serving, ScorePoints, Threads
  <1>2. CASE p # player[r]
    <2>1. InFlight(p)' = InFlight(p) /\ board'[p] = board[p]
      BY <1>1, <1>2 DEF InFlight, Zincrby, Done, Leave, Goto, TypeOK, Threads
    <2> QED
      BY <2>1 DEF CapLeads, OvershootBounded
  <1>3. CASE p = player[r]
    <2>1. InFlight(p)' = InFlight(p) \ {r} /\ r \in InFlight(p)
      BY <1>1, <1>3 DEF InFlight, Zincrby, Done, Leave, Goto, TypeOK, Threads
    <2>2. /\ Cardinality(InFlight(p)') + 1 = Cardinality(InFlight(p))
          /\ Cardinality(InFlight(p)') \in Nat
      <3>1. Cardinality(InFlight(p)') = Cardinality(InFlight(p)) - 1
        BY <2>1, InFlightIsFinite, FS_RemoveElement
      <3>2. IsFiniteSet(InFlight(p)')
        BY <2>1, InFlightIsFinite, FS_RemoveElement
      <3>3. Cardinality(InFlight(p)) \in Nat /\ Cardinality(InFlight(p)') \in Nat
        BY <3>2, InFlightIsFinite, FS_CardinalityType
      <3> QED
        BY <3>1, <3>3
    <2>3. /\ Worth(Cardinality(InFlight(p))) = Worth(Cardinality(InFlight(p)')) + Points
          /\ Worth(Cardinality(InFlight(p)')) \in Nat
          /\ Worth(Cardinality(Requests) - 1) \in Nat
      BY <2>2, SomeRequests, WorthGrows
    <2>4. board[p] \in Nat /\ board'[p] = board[p] + Points
      BY <1>3 DEF Zincrby, TypeOK
    <2>5. /\ board[p] + Worth(Cardinality(InFlight(p)))
               <= MaxScore + Worth(Cardinality(Requests) - 1)
          /\ Points <= MaxScore
      BY <2>1 DEF CapLeads, OvershootBounded
    <2> QED
      BY <2>3, <2>4, <2>5, ConfigAssumption
  <1> QED
    BY <1>2, <1>3

(* Every step keeps the ceiling, with what is on its way to the board.       *)
LEMMA NextKeepsCap ==
  TypeOK /\ Serving /\ CapLeads /\ [Next]_vars => CapLeads'
  <1> SUFFICES ASSUME TypeOK, Serving, CapLeads, [Next]_vars PROVE CapLeads'
    OBVIOUS
  <1>1. TypeOK'
    BY NextKeepsServing
  <1>2. CASE UNCHANGED vars
    <2>1. Lowered
      BY <1>2 DEF Lowered, vars, redis, threads
    <2> QED
      BY <1>1, <2>1, LoweringKeepsCap
  <1>3. ASSUME NEW t \in Threads, StepOf(t) PROVE CapLeads'
    BY <1>1, <1>3, StepLowers, LoweringKeepsCap
  <1>4. ASSUME NEW r \in Requests, RequestStep(r) PROVE CapLeads'
    BY <1>1, <1>4, RequestLowers, CheckingKeepsCap, ScoringKeepsCap, LoweringKeepsCap
  <1>5. CASE SystemStep
    BY <1>1, <1>5, SystemLowers, LoweringKeepsCap
  <1> QED
    BY <1>2, <1>3, <1>4, <1>5, NextIsSteps

(* At first there are no scores, and none on their way.                      *)
LEMMA InitCap == Init => CapLeads
  <1> SUFFICES ASSUME Init, NEW p \in Players
               PROVE  /\ board[p] + Worth(Cardinality(InFlight(p)))
                            <= MaxScore + Worth(Cardinality(Requests) - 1)
                      /\ InFlight(p) = {}
    BY DEF CapLeads, OvershootBounded
  <1>1. InFlight(p) = {}
    BY DEF Init, InFlight, Threads
  <1>2. Cardinality(InFlight(p)) = 0 /\ board[p] = 0
    BY <1>1, FS_EmptySet DEF Init, Zero
  <1>3. Worth(Cardinality(Requests) - 1) \in Nat /\ Worth(Cardinality(InFlight(p))) = 0
    BY <1>2, SomeRequests, WorthGrows
  <1> QED
    BY <1>1, <1>2, <1>3, ConfigAssumption

(* With n requests served at a time a score passes the ceiling by at most    *)
(* n - 1 increments, for every n, whatever else goes on.                     *)
THEOREM OvershootIsBounded == Spec => []OvershootBounded
  <1>1. CapLeads => OvershootBounded
    BY DEF CapLeads
  <1> QED
    BY <1>1, InitServing, InitCap, NextKeepsServing, NextKeepsCap, PTL DEF Spec

-----------------------------------------------------------------------------
(* The rate counters, when the server does not stop in the middle of a       *)
(* request.                                                                  *)

(* What most steps do to them: nothing, and to a pending EXPIRE neither.     *)
Steady == /\ UNCHANGED <<used, window>>
          /\ \A r \in Requests : pc[r] = "expire" =>
               pc'[r] = "expire" /\ player'[r] = player[r]

(* Such a step keeps each counter's expiry.                                  *)
LEMMA SteadyKeepsRate ==
  ASSUME RateHasExpiry, Steady
  PROVE  RateHasExpiry'
  BY DEF RateHasExpiry, Steady

(* The steps of a thread, but the DEL of the counters, are such steps.       *)
LEMMA StepIsSteady ==
  ASSUME TypeOK, NEW t \in Threads, StepOf(t), ~EndUnrate(t)
  PROVE  Steady
  <1> USE DEF TypeOK, Steady, redis, threads, Goto, Leave, Done, Fail, Threads
  <1>1. CASE ActivateSave(t) \/ EndSave(t)
    BY <1>1 DEF ActivateSave, EndSave, Save
  <1>2. CASE ActivatePublish(t) \/ EndPublish(t)
    BY <1>2 DEF ActivatePublish, EndPublish
  <1>3. CASE EndRead(t) \/ EndInsert(t)
    BY <1>3 DEF EndRead, EndInsert
  <1>4. CASE EndDel(t) \/ EndKeys(t)
    BY <1>4 DEF EndDel, EndKeys
  <1>5. CASE PgFails(t)
    BY <1>5 DEF PgFails
  <1> QED
    BY <1>1, <1>2, <1>3, <1>4, <1>5 DEF StepOf

(* The DEL takes a counter and its life together, and no pending EXPIRE.     *)
LEMMA UnratingKeepsRate ==
  ASSUME TypeOK, RateHasExpiry, NEW t \in Threads, EndUnrate(t)
  PROVE  RateHasExpiry'
  <1> SUFFICES ASSUME NEW p \in Players, used'[p] > 0
               PROVE  \/ window'[p] > 0
                      \/ \E r \in Requests : player'[r] = p /\ pc'[r] = "expire"
    BY DEF RateHasExpiry
  <1>1. used'[p] = used[p] /\ window'[p] = window[p]
    BY DEF EndUnrate, TypeOK
  <1>2. \A r \in Requests : pc[r] = "expire" => pc'[r] = "expire" /\ player'[r] = player[r]
    BY DEF EndUnrate, Done, Leave, Goto, TypeOK, Threads
  <1> QED
    BY <1>1, <1>2 DEF RateHasExpiry

(* Of a request's commands only INCR and EXPIRE touch a counter.             *)
LEMMA RequestIsSteady ==
  ASSUME TypeOK, NEW r \in Requests, RequestStep(r), ~Incr(r), ~Expire(r)
  PROVE  Steady
  <1> USE DEF TypeOK, Steady, redis, threads, Goto, Leave, Done, Threads
  <1>1. CASE AdminActivate(r) \/ AdminEnd(r) \/ \E p \in Players : ScoreStart(r, p)
    BY <1>1 DEF AdminActivate, AdminEnd, ScoreStart
  <1>2. CASE Cap(r)
    BY <1>2 DEF Cap
  <1>3. CASE Log(r) \/ Zincrby(r)
    BY <1>3 DEF Log, Zincrby
  <1> QED
    BY <1>1, <1>2, <1>3 DEF RequestStep

(* The request that counts one goes on to give the counter its minute; any   *)
(* later one finds it given, or about to be.                                 *)
LEMMA CountingKeepsRate ==
  ASSUME TypeOK, Serving, RateHasExpiry, NEW r \in Requests, Incr(r)
  PROVE  RateHasExpiry'
  <1> SUFFICES ASSUME NEW p \in Players, used'[p] > 0
               PROVE  \/ window'[p] > 0
                      \/ \E q \in Requests : player'[q] = p /\ pc'[q] = "expire"
    BY DEF RateHasExpiry
  <1>1. r \in Threads /\ player[r] \in Players /\ pc[r] = "incr" /\ window' = window
    BY DEF Incr, Serving, ScorePoints, Threads
  <1>2. \A q \in Requests : pc[q] = "expire" => pc'[q] = "expire" /\ player'[q] = player[q]
    BY <1>1 DEF Incr, Done, Leave, Goto, TypeOK, Threads
  <1>3. CASE used[p] > 0
    BY <1>1, <1>2, <1>3 DEF RateHasExpiry
  <1>4. CASE ~(used[p] > 0)
    <2>1. used[p] = 0
      BY <1>4 DEF TypeOK
    <2>2. player[r] = p /\ used'[player[r]] = 1
      BY <1>1, <2>1 DEF Incr, TypeOK
    <2>3. ~(used'[player[r]] > PerMinute)
      BY <2>2, ConfigAssumption
    <2>4. Goto(r, "expire") /\ player' = player
      BY <2>2, <2>3 DEF Incr
    <2>5. pc'[r] = "expire" /\ player'[r] = p
      BY <1>1, <2>2, <2>4 DEF Goto, TypeOK
    <2> QED
      BY <2>5
  <1> QED
    BY <1>3, <1>4

(* EXPIRE gives its minute to a counter that is there.                       *)
LEMMA ExpiringKeepsRate ==
  ASSUME TypeOK, Serving, RateHasExpiry, NEW r \in Requests, Expire(r)
  PROVE  RateHasExpiry'
  <1> SUFFICES ASSUME NEW p \in Players, used'[p] > 0
               PROVE  \/ window'[p] > 0
                      \/ \E q \in Requests : player'[q] = p /\ pc'[q] = "expire"
    BY DEF RateHasExpiry
  <1>1. r \in Threads /\ player[r] \in Players /\ used' = used /\ player' = player
    BY DEF Expire, Serving, ScorePoints, Threads
  <1>2. CASE p = player[r]
    BY <1>1, <1>2, ConfigAssumption DEF Expire, TypeOK
  <1>3. CASE p # player[r]
    <2>1. window'[p] = window[p]
      BY <1>1, <1>3 DEF Expire, TypeOK
    <2>2. \A q \in Requests : q # r => pc'[q] = pc[q]
      BY DEF Expire, Goto, TypeOK, Threads
    <2> QED
      BY <1>1, <1>3, <2>1, <2>2 DEF RateHasExpiry
  <1> QED
    BY <1>2, <1>3

(* A counter and its life end together; db:reset drops both.                 *)
LEMMA SystemKeepsRate ==
  ASSUME TypeOK, Serving, RateHasExpiry, SystemStep, "crash" \notin Environment
  PROVE  RateHasExpiry'
  <1> USE DEF TypeOK, Steady, redis, threads
  <1>1. CASE Create \/ RemoveStart \/ RemoveEnd \/ AddStart \/ AddEnd
    <2>1. Steady
      BY <1>1 DEF Create, RemoveStart, RemoveEnd, AddStart, AddEnd
    <2> QED
      BY <2>1, SteadyKeepsRate
  <1>2. CASE Broadcast \/ \E c \in Clients : Connect(c) \/ Disconnect(c)
    <2>1. Steady
      BY <1>2 DEF Broadcast, Connect, Disconnect
    <2> QED
      BY <2>1, SteadyKeepsRate
  <1>3. CASE Boot \/ Requeue \/ ResetTables
    <2>1. Steady
      BY <1>3 DEF Boot, Requeue, ResetTables
    <2> QED
      BY <2>1, SteadyKeepsRate
  <1>4. CASE ScheduleFails
    <2>1. Steady
      BY <1>4 DEF ScheduleFails, Halt, Serving, Threads
    <2> QED
      BY <2>1, SteadyKeepsRate
  <1>5. CASE Stop
    <2>1. Steady
      BY <1>5 DEF Stop, Halt, Quiet, Threads
    <2> QED
      BY <2>1, SteadyKeepsRate
  <1>6. CASE StartDue \/ EndDue
    <2>1. /\ UNCHANGED <<used, window, player>>
          /\ \E t \in Threads : pc[t] = "idle" /\ \A q \in Threads : q # t => pc'[q] = pc[q]
      BY <1>6 DEF StartDue, EndDue, Goto, Threads
    <2>2. Steady
      BY <2>1 DEF Threads
    <2> QED
      BY <2>2, SteadyKeepsRate
  <1>7. CASE ResetKeys
    BY <1>7 DEF ResetKeys, RateHasExpiry, Zero
  <1>8. CASE Tick
    <2> SUFFICES ASSUME NEW p \in Players, used'[p] > 0
                 PROVE  window'[p] > 0
      BY DEF RateHasExpiry
    <2>1. window[p] # 1 /\ used[p] > 0
      BY <1>8 DEF Tick
    <2>2. window[p] > 0
      BY <1>8, <2>1 DEF Tick, Quiet, RateHasExpiry, Threads
    <2> QED
      BY <1>8, <2>1, <2>2, ConfigAssumption DEF Tick
  <1> QED
    BY <1>1, <1>2, <1>3, <1>4, <1>5, <1>6, <1>7, <1>8 DEF SystemStep

(* Every step keeps the expiry of each counter.                              *)
LEMMA NextKeepsRate ==
  ASSUME "crash" \notin Environment
  PROVE  TypeOK /\ Serving /\ RateHasExpiry /\ [Next]_vars => RateHasExpiry'
  <1> SUFFICES ASSUME TypeOK, Serving, RateHasExpiry, [Next]_vars PROVE RateHasExpiry'
    OBVIOUS
  <1>1. CASE UNCHANGED vars
    BY <1>1 DEF RateHasExpiry, vars, redis, threads
  <1>2. ASSUME NEW t \in Threads, StepOf(t) PROVE RateHasExpiry'
    BY <1>2, StepIsSteady, SteadyKeepsRate, UnratingKeepsRate
  <1>3. ASSUME NEW r \in Requests, RequestStep(r) PROVE RateHasExpiry'
    BY <1>3, RequestIsSteady, SteadyKeepsRate, CountingKeepsRate, ExpiringKeepsRate
  <1>4. CASE SystemStep
    BY <1>4, SystemKeepsRate
  <1> QED
    BY <1>1, <1>2, <1>3, <1>4, NextIsSteps

(* A rate counter has its minute, or is about to get it, as long as the      *)
(* server stops only between requests: whatever Postgres, the queue, the     *)
(* jobs and the administrators do meanwhile.                                 *)
THEOREM CountersExpire ==
  ASSUME "crash" \notin Environment
  PROVE  Spec => []RateHasExpiry
  <1>1. Init => RateHasExpiry
    BY DEF Init, RateHasExpiry, Zero
  <1>2. TypeOK /\ Serving /\ RateHasExpiry /\ [Next]_vars => RateHasExpiry'
    BY NextKeepsRate
  <1> QED
    BY <1>1, <1>2, InitServing, NextKeepsServing, PTL DEF Spec

-----------------------------------------------------------------------------
(* The final table, when ends of the event do not race and no score request  *)
(* is late.                                                                  *)

(* One thread at a time ends the event, nobody scores meanwhile, and what    *)
(* the thread carries, and then what it wrote, is the board.                 *)
Copying == /\ \A t, u \in Threads : pc[t] \in EndPoints /\ pc[u] \in EndPoints => t = u
           /\ \A r \in Requests, t \in Threads : ~(pc[r] \in ScorePoints /\ pc[t] \in EndPoints)
           /\ \A t \in Threads : pc[t] = "end_insert" => snap[t] = board
           /\ \A t \in Threads, p \in Players :
                pc[t] = "end_del" /\ board[p] > 0 => rows[p] = board[p]

(* What most steps do: nobody begins to score or to end.                     *)
Quieter == /\ UNCHANGED <<board, rows>>
           /\ \A t \in Threads :
                \/ pc'[t] = pc[t] /\ snap'[t] = snap[t]
                \/ pc'[t] \notin ScorePoints \cup EndPoints
                \/ pc[t] \in ScorePoints /\ pc'[t] \in ScorePoints

(* Such a step leaves the copies as they are.                                *)
LEMMA QuieterKeepsCopying ==
  ASSUME Copying, Quieter
  PROVE  Copying'
  <1>1. ASSUME NEW t \in Threads, pc'[t] \in EndPoints
        PROVE  pc'[t] = pc[t] /\ snap'[t] = snap[t]
    BY <1>1 DEF Quieter, EndPoints, ScorePoints
  <1>2. ASSUME NEW r \in Requests, pc'[r] \in ScorePoints
        PROVE  pc[r] \in ScorePoints
    BY <1>2 DEF Quieter, EndPoints, ScorePoints, Threads
  <1>3. board' = board /\ rows' = rows
    BY DEF Quieter
  <1>4. /\ \A t, u \in Threads : pc'[t] \in EndPoints /\ pc'[u] \in EndPoints => t = u
        /\ \A r \in Requests, t \in Threads : ~(pc'[r] \in ScorePoints /\ pc'[t] \in EndPoints)
    BY <1>1, <1>2 DEF Copying
  <1>5. \A t \in Threads : pc'[t] = "end_insert" => snap'[t] = board'
    BY <1>1, <1>3 DEF Copying, EndPoints
  <1>6. \A t \in Threads, p \in Players :
          pc'[t] = "end_del" /\ board'[p] > 0 => rows'[p] = board'[p]
    BY <1>1, <1>3 DEF Copying, EndPoints
  <1> QED
    BY <1>4, <1>5, <1>6 DEF Copying

(* Once nobody ends the event there is no copy.                              *)
LEMMA NoEndNoCopy ==
  ASSUME \A t \in Threads : pc[t] \notin EndPoints
  PROVE  Copying
  BY DEF Copying, EndPoints

(* The commands of end(), each with its effect on the copy.                  *)
LEMMA StepKeepsCopying ==
  ASSUME TypeOK, Copying, NEW t \in Threads, StepOf(t)
  PROVE  Copying'
  <1>1. CASE ActivateSave(t) \/ ActivatePublish(t)
    <2>1. Quieter
      BY <1>1 DEF ActivateSave, ActivatePublish, Save, Fail, Done, Leave, Goto, Quieter, TypeOK,
                  postgres, redis, ScorePoints, EndPoints
    <2> QED
      BY <2>1, QuieterKeepsCopying
  <1>2. CASE PgFails(t)
    <2>1. Quieter
      BY <1>2 DEF PgFails, Fail, Leave, Goto, Quieter, TypeOK, redis, postgres,
                  ScorePoints, EndPoints
    <2> QED
      BY <2>1, QuieterKeepsCopying
  <1>3. ASSUME pc[t] \in EndPoints, \A u \in Threads : u # t => pc'[u] = pc[u],
               pc'[t] \notin ScorePoints,
               pc'[t] = "end_insert" => snap'[t] = board',
               pc'[t] = "end_del" => \A p \in Players : board'[p] > 0 => rows'[p] = board'[p]
        PROVE  Copying'
    <2>1. \A u \in Threads : u # t => pc'[u] \notin EndPoints
      BY <1>3 DEF Copying
    <2>2. \A r \in Requests : pc'[r] \notin ScorePoints
      BY <1>3 DEF Copying, Threads
    <2> QED
      BY <1>3, <2>1, <2>2 DEF Copying, EndPoints
  <1>4. CASE EndSave(t) \/ EndPublish(t)
    BY <1>3, <1>4 DEF EndSave, EndPublish, Save, Fail, Leave, Goto, TypeOK, ScorePoints, EndPoints
  <1>5. CASE EndRead(t)
    BY <1>3, <1>5 DEF EndRead, Goto, TypeOK, ScorePoints, EndPoints, redis
  <1>6. CASE EndInsert(t)
    <2>1. pc[t] = "end_insert" /\ snap[t] = board /\ board' = board
      BY <1>6 DEF EndInsert, Copying, redis
    <2>2. \A u \in Threads : u # t => pc'[u] = pc[u]
      BY <1>6 DEF EndInsert, Fail, Leave, Goto, TypeOK
    <2>3. pc'[t] \in {"idle", "end_del"}
      BY <1>6 DEF EndInsert, Fail, Leave, Goto, TypeOK
    <2>4. ASSUME pc'[t] = "end_del", NEW p \in Players, board'[p] > 0
          PROVE  rows'[p] = board'[p]
      <3>1. rows' = [q \in Players |-> IF snap[t][q] > 0 THEN snap[t][q] ELSE rows[q]]
        BY <1>6, <2>4 DEF EndInsert, Fail, Leave, Goto, TypeOK
      <3> QED
        BY <2>1, <2>4, <3>1
    <2> QED
      BY <1>3, <2>1, <2>2, <2>3, <2>4 DEF ScorePoints, EndPoints
  <1>7. CASE EndDel(t) \/ EndKeys(t)
    BY <1>3, <1>7 DEF EndDel, EndKeys, Goto, TypeOK, ScorePoints, EndPoints
  <1>8. CASE EndUnrate(t)
    BY <1>3, <1>8 DEF EndUnrate, Done, Leave, Goto, TypeOK, ScorePoints, EndPoints
  <1> QED
    BY <1>1, <1>2, <1>4, <1>5, <1>6, <1>7, <1>8 DEF StepOf

(* A score request does not start, nor reach the board, while the event ends;*)
(* an end starts when none is under way and nobody scores.                   *)
LEMMA RequestKeepsCopying ==
  ASSUME TypeOK, Copying, {"race", "late"} \cap Environment = {},
         NEW r \in Requests, RequestStep(r)
  PROVE  Copying'
  <1> r \in Threads
    BY DEF Threads
  <1>1. CASE AdminActivate(r)
    <2>1. Quieter
      BY <1>1 DEF AdminActivate, Goto, Quieter, TypeOK, postgres, redis, ScorePoints, EndPoints
    <2> QED
      BY <2>1, QuieterKeepsCopying
  <1>2. CASE AdminEnd(r)
    <2>1. \A t \in Threads : pc[t] \notin EndPoints
      BY <1>2 DEF AdminEnd, MayEnd, MayFlip, Ending
    <2>2. \A q \in Requests : pc[q] \notin ScorePoints
      BY <1>2 DEF AdminEnd, MayEnd, Scoring
    <2>3. pc'[r] = "end_save" /\ \A t \in Threads : t # r => pc'[t] = pc[t]
      BY <1>2 DEF AdminEnd, Goto, TypeOK
    <2> QED
      BY <2>1, <2>2, <2>3 DEF Copying, EndPoints, ScorePoints, Threads
  <1>3. CASE \E p \in Players : ScoreStart(r, p)
    <2>1. \A t \in Threads : pc[t] \notin EndPoints
      BY <1>3 DEF ScoreStart, Ending
    <2>2. \A t \in Threads : pc'[t] \notin EndPoints
      BY <1>3, <2>1 DEF ScoreStart, Goto, TypeOK, EndPoints
    <2> QED
      BY <2>2 DEF Copying, EndPoints
  <1>4. CASE Incr(r) \/ Expire(r)
    <2>1. Quieter
      BY <1>4 DEF Incr, Expire, Done, Leave, Goto, Quieter, TypeOK, postgres,
                  ScorePoints, EndPoints
    <2> QED
      BY <2>1, QuieterKeepsCopying
  <1>5. CASE Cap(r) \/ Log(r)
    <2>1. Quieter
      BY <1>5 DEF Cap, Log, Done, Leave, Goto, Quieter, TypeOK, postgres, redis,
                  ScorePoints, EndPoints
    <2> QED
      BY <2>1, QuieterKeepsCopying
  <1>6. CASE Zincrby(r)
    <2>1. \A t \in Threads : pc[t] \notin EndPoints
      BY <1>6 DEF Zincrby, Copying, ScorePoints
    <2>2. \A t \in Threads : pc'[t] \notin EndPoints
      BY <1>6, <2>1 DEF Zincrby, Done, Leave, Goto, TypeOK, EndPoints
    <2> QED
      BY <2>2 DEF Copying, EndPoints
  <1> QED
    BY <1>1, <1>2, <1>3, <1>4, <1>5, <1>6 DEF RequestStep

(* The jobs end the event as the administrators do; a halt ends every end.   *)
LEMMA SystemKeepsCopying ==
  ASSUME TypeOK, Serving, Copying, {"race", "late"} \cap Environment = {}, SystemStep
  PROVE  Copying'
  <1> USE DEF Quieter, TypeOK, postgres, redis, threads
  <1>1. CASE Create \/ RemoveStart \/ RemoveEnd \/ AddStart \/ AddEnd
    <2>1. Quieter
      BY <1>1 DEF Create, RemoveStart, RemoveEnd, AddStart, AddEnd
    <2> QED
      BY <2>1, QuieterKeepsCopying
  <1>2. CASE Broadcast \/ \E c \in Clients : Connect(c) \/ Disconnect(c)
    <2>1. Quieter
      BY <1>2 DEF Broadcast, Connect, Disconnect
    <2> QED
      BY <2>1, QuieterKeepsCopying
  <1>3. CASE Tick \/ Boot \/ Requeue
    <2>1. Quieter
      BY <1>3 DEF Tick, Boot, Requeue
    <2> QED
      BY <2>1, QuieterKeepsCopying
  <1>4. CASE ScheduleFails
    <2>1. Quieter
      BY <1>4 DEF ScheduleFails, Halt, ScorePoints, EndPoints
    <2> QED
      BY <2>1, QuieterKeepsCopying
  <1>5. CASE Stop
    <2>1. Quieter
      BY <1>5 DEF Stop, Halt, ScorePoints, EndPoints
    <2> QED
      BY <2>1, QuieterKeepsCopying
  <1>6. CASE StartDue
    <2>1. Quieter
      BY <1>6 DEF StartDue, Goto, ScorePoints, EndPoints, Threads
    <2> QED
      BY <2>1, QuieterKeepsCopying
  <1>7. CASE EndDue
    <2>1. \A t \in Threads : pc[t] \notin EndPoints
      BY <1>7 DEF EndDue, MayEnd, MayFlip, Ending
    <2>2. \A q \in Requests : pc[q] \notin ScorePoints
      BY <1>7 DEF EndDue, MayEnd, Scoring
    <2>3. pc'[EndWorker] = "end_save" /\ \A t \in Threads : t # EndWorker => pc'[t] = pc[t]
      BY <1>7 DEF EndDue, Goto, Threads
    <2>4. EndWorker \notin Requests
      BY ThreadAssumption
    <2> QED
      BY <2>1, <2>2, <2>3, <2>4 DEF Copying, EndPoints, ScorePoints, Threads
  <1>8. CASE ResetTables \/ ResetKeys
    <2>1. \A t \in Threads : pc'[t] \notin EndPoints
      BY <1>8 DEF ResetTables, ResetKeys, Serving, EndPoints
    <2> QED
      BY <2>1 DEF Copying, EndPoints
  <1> QED
    BY <1>1, <1>2, <1>3, <1>4, <1>5, <1>6, <1>7, <1>8 DEF SystemStep

(* Only end()'s DEL, and db:reset, take a score off the board.               *)
LEMMA OnlyDelTakes ==
  ASSUME TypeOK, Serving, Copying, Next, server # "resetting",
         NEW p \in Players, board[p] > 0, board'[p] = 0
  PROVE  rows[p] = board[p]
  <1>1. board' # board
    OBVIOUS
  <1>2. ASSUME NEW t \in Threads, StepOf(t) PROVE rows[p] = board[p]
    <2>1. CASE EndDel(t)
      BY <2>1 DEF EndDel, Copying
    <2>2. CASE ~EndDel(t)
      BY <1>1, <1>2, <2>2 DEF StepOf, ActivateSave, ActivatePublish, EndSave, Save, EndPublish,
           EndRead, EndInsert, EndKeys, EndUnrate, PgFails, redis
    <2> QED
      BY <2>1, <2>2
  <1>3. ASSUME NEW r \in Requests, RequestStep(r) PROVE FALSE
    <2>1. CASE Zincrby(r)
      <3>1. board[p] \in Nat /\ board[p] + Points # 0
        BY ConfigAssumption DEF TypeOK
      <3> QED
        BY <2>1, <3>1 DEF Zincrby, TypeOK
    <2>2. CASE ~Zincrby(r)
      BY <1>1, <1>3, <2>2 DEF RequestStep, AdminActivate, AdminEnd, ScoreStart, Incr, Expire,
           Cap, Log, redis
    <2> QED
      BY <2>1, <2>2
  <1>4. CASE SystemStep
    <2>1. ~ResetKeys
      BY DEF ResetKeys
    <2> QED
      BY <1>1, <1>4, <2>1 DEF SystemStep, Create, RemoveStart, RemoveEnd, AddStart, AddEnd,
           ScheduleFails, StartDue, EndDue, Broadcast, Connect, Disconnect, Tick, Stop,
           ResetTables, Boot, Requeue, redis
  <1> QED
    BY <1>2, <1>3, <1>4, NextIsSteps

(* Every step keeps the copies.                                              *)
LEMMA NextKeepsCopying ==
  ASSUME {"race", "late"} \cap Environment = {}
  PROVE  TypeOK /\ Serving /\ Copying /\ [Next]_vars => Copying'
  <1> SUFFICES ASSUME TypeOK, Serving, Copying, [Next]_vars PROVE Copying'
    OBVIOUS
  <1>1. CASE UNCHANGED vars
    <2>1. Quieter
      BY <1>1 DEF Quieter, vars, postgres, redis, threads
    <2> QED
      BY <2>1, QuieterKeepsCopying
  <1> QED
    BY <1>1, StepKeepsCopying, RequestKeepsCopying, SystemKeepsCopying, NextIsSteps

(* A score leaves Redis only when Postgres holds it: whatever fails, stops   *)
(* and is retried between the commands of end(), if ends do not race and no  *)
(* score is late.                                                            *)
THEOREM FinalTableIsTheBoard ==
  ASSUME {"race", "late"} \cap Environment = {}
  PROVE  Spec => SnapshotIsFinal
  <1>1. Init => Copying
    BY DEF Init, Copying, EndPoints
  <1>2. TypeOK /\ Serving /\ Copying /\ [Next]_vars => Copying'
    BY NextKeepsCopying
  <1>3. TypeOK /\ Serving /\ Copying /\ [Next]_vars =>
          [\A p \in Players : server # "resetting" /\ board[p] > 0 /\ board'[p] = 0
                                => rows[p] = board[p]]_vars
    BY OnlyDelTakes
  <1> QED
    BY <1>1, <1>2, <1>3, InitServing, NextKeepsServing, PTL DEF Spec, SnapshotIsFinal
-----------------------------------------------------------------------------
(* Who changes the status, and what the clients hear. *)

(* How threads move: they stay or leave, or one of them goes on within what  *)
(* it does, or begins to activate, to end, or to score where that is allowed.*)
Stay == \A t \in Threads : pc'[t] \in {pc[t], "idle"}
Turn(t) == /\ \A u \in Threads \ {t} : pc'[u] = pc[u]
           /\ \/ \E stage \in {ScorePoints, ActivatePoints, EndPoints} :
                   pc[t] \in stage /\ pc'[t] \in stage
              \/ pc'[t] = "activate_save" /\ MayFlip
              \/ pc'[t] = "end_save" /\ MayEnd
              \/ pc'[t] = "incr" /\ ("late" \in Environment \/ ~Ending)

(* Threads move in no other way.                                             *)
LEMMA ThreadsTurn ==
  ASSUME TypeOK, [Next]_vars
  PROVE  Stay \/ \E t \in Threads : Turn(t)
  <1> USE DEF TypeOK, threads, Goto, Leave, Done, Fail
  <1>1. CASE UNCHANGED vars
    BY <1>1 DEF vars, Stay
  <1>2. ASSUME NEW t \in Threads, StepOf(t) PROVE Stay \/ Turn(t)
    <2>1. CASE ActivateSave(t) \/ EndSave(t)
      BY <2>1 DEF ActivateSave, EndSave, Save, Stay, Turn, ActivatePoints, EndPoints
    <2>2. CASE ActivatePublish(t) \/ EndUnrate(t) \/ PgFails(t)
      BY <2>2 DEF ActivatePublish, EndUnrate, PgFails, Stay
    <2>3. CASE EndPublish(t) \/ EndRead(t) \/ EndDel(t) \/ EndKeys(t)
      BY <2>3 DEF EndPublish, EndRead, EndDel, EndKeys, Turn, EndPoints
    <2>4. CASE EndInsert(t)
      BY <2>4 DEF EndInsert, Stay, Turn, EndPoints
    <2> QED
      BY <1>2, <2>1, <2>2, <2>3, <2>4 DEF StepOf
  <1>3. ASSUME NEW r \in Requests, RequestStep(r) PROVE Stay \/ Turn(r)
    <2> r \in Threads
      BY DEF Threads
    <2>1. CASE AdminActivate(r) \/ AdminEnd(r) \/ \E p \in Players : ScoreStart(r, p)
      BY <2>1 DEF AdminActivate, AdminEnd, ScoreStart, Turn
    <2>2. CASE Incr(r) \/ Expire(r) \/ Cap(r) \/ Log(r) \/ Zincrby(r)
      BY <2>2 DEF Incr, Expire, Cap, Log, Zincrby, Stay, Turn, ScorePoints
    <2> QED
      BY <1>3, <2>1, <2>2 DEF RequestStep
  <1>4. CASE SystemStep
    <2>1. CASE StartDue
      BY <2>1 DEF StartDue, Turn, Threads
    <2>2. CASE EndDue
      BY <2>2 DEF EndDue, Turn, Threads
    <2>3. CASE Halt
      BY <2>3 DEF Halt, Stay
    <2>4. CASE ~StartDue /\ ~EndDue /\ ~Halt
      BY <1>4, <2>4 DEF SystemStep, Create, RemoveStart, RemoveEnd, AddStart, AddEnd,
           ScheduleFails, Broadcast, Connect, Disconnect, Tick, Stop, ResetTables, ResetKeys,
           Boot, Requeue, Stay
    <2> QED
      BY <2>1, <2>2, <2>3, <2>4
  <1> QED
    BY <1>1, <1>2, <1>3, <1>4, NextIsSteps DEF Threads

(* Without races one thread at a time activates or ends the event.           *)
OneFlips == "race" \notin Environment => \A t, u \in Flippers : t = u

(* It stays so, because whoever begins does so alone.                        *)
LEMMA NextKeepsOneFlip == TypeOK /\ OneFlips /\ [Next]_vars => OneFlips'
  <1> SUFFICES ASSUME TypeOK, OneFlips, [Next]_vars, "race" \notin Environment,
                      NEW t \in Threads, NEW u \in Threads,
                      pc'[t] \in ActivatePoints \cup EndPoints,
                      pc'[u] \in ActivatePoints \cup EndPoints
               PROVE  t = u
    BY DEF OneFlips, Flippers
  <1> USE DEF ScorePoints, ActivatePoints, EndPoints
  <1>1. CASE Stay
    BY <1>1 DEF Stay, OneFlips, Flippers
  <1>2. ASSUME NEW v \in Threads, Turn(v) PROVE t = u
    <2>1. CASE pc[v] \in ActivatePoints \cup EndPoints
      BY <1>2, <2>1 DEF Turn, OneFlips, Flippers
    <2>2. CASE MayFlip
      BY <1>2, <2>2 DEF Turn, MayFlip, Ending, Activating
    <2>3. CASE pc[v] \notin ActivatePoints \cup EndPoints /\ ~MayFlip
      BY <1>2, <2>3 DEF Turn, MayEnd, OneFlips, Flippers
    <2> QED
      BY <2>1, <2>2, <2>3
  <1> QED
    BY <1>1, <1>2, ThreadsTurn

(* Without lateness nobody scores while the event ends.                      *)
Apart == "late" \notin Environment => ~(Scoring /\ Ending)

(* It stays so, because each waits for the other.                            *)
LEMMA NextKeepsApart == TypeOK /\ Apart /\ [Next]_vars => Apart'
  <1> SUFFICES ASSUME TypeOK, Apart, [Next]_vars, "late" \notin Environment,
                      NEW r \in Requests, pc'[r] \in ScorePoints,
                      NEW t \in Threads, pc'[t] \in EndPoints
               PROVE  FALSE
    BY DEF Apart, Scoring, Ending
  <1> USE DEF ScorePoints, ActivatePoints, EndPoints, Threads
  <1>1. CASE Stay
    BY <1>1 DEF Stay, Apart, Scoring, Ending
  <1>2. ASSUME NEW v \in Threads, Turn(v) PROVE FALSE
    BY <1>2 DEF Turn, MayEnd, Apart, Scoring, Ending
  <1> QED
    BY <1>1, <1>2, ThreadsTurn

(* A step without news: nothing is said, saved to be said, or heard.         *)
Hushed == /\ UNCHANGED <<feed, told>>
          /\ \A t \in Threads : pc[t] # pc'[t] =>
               {pc[t], pc'[t]} \cap {"activate_publish", "end_publish"} = {}
          /\ server' \in {"down", "resetting"} => server \in {"down", "resetting"}

(* Such a step leaves the news as they are.                                  *)
LEMMA HushKeepsNews ==
  ASSUME NewsInv, OneFlips', Hushed, UNCHANGED status
  PROVE  NewsInv'
  <1> SUFFICES ASSUME "race" \notin Environment PROVE NewsInv'
    BY DEF NewsInv
  <1>1. \A t \in Threads : \A p \in {"activate_publish", "end_publish"} : pc'[t] = p <=> pc[t] = p
    BY DEF Hushed
  <1>2. Announcing' <=> Announcing
    BY <1>1 DEF Announcing
  <1>3. LastNews' <=> LastNews
    BY DEF LastNews, Hushed
  <1> QED
    BY <1>1, <1>2, <1>3 DEF NewsInv, OneFlips, Hushed

(* A status is saved by the one thread that publishes it next.               *)
LEMMA SaveKeepsNews ==
  ASSUME TypeOK, NewsInv, OneFlips', "race" \notin Environment,
         NEW t \in Threads, ActivateSave(t) \/ EndSave(t)
  PROVE  NewsInv'
  <1> USE DEF TypeOK, channel, Goto, Leave, Fail
  <1>1. UNCHANGED <<feed, told, server>> /\ \A u \in Threads \ {t} : pc'[u] = pc[u]
    BY DEF ActivateSave, EndSave, Save
  <1>2. t \in Flippers
    BY DEF ActivateSave, EndSave, Flippers, ActivatePoints, EndPoints
  <1>3. \A u \in Threads \ {t} : pc[u] \notin {"activate_publish", "end_publish"}
    BY <1>2 DEF NewsInv, Flippers, ActivatePoints, EndPoints
  <1>4. CASE status = "none"
    <2>1. Hushed /\ UNCHANGED status
      BY <1>1, <1>4 DEF ActivateSave, EndSave, Save, Hushed
    <2> QED
      BY <2>1, HushKeepsNews
  <1>5. CASE status # "none"
    <2>1. \/ pc'[t] = "activate_publish" /\ status' = "active"
          \/ pc'[t] = "end_publish" /\ status' = "ended"
      BY <1>5 DEF ActivateSave, EndSave, Save
    <2>2. Announcing'
      BY <2>1 DEF Announcing
    <2> QED
      BY <1>1, <1>3, <2>1, <2>2 DEF NewsInv, OneFlips
  <1> QED
    BY <1>4, <1>5

(* What is published is the status, and is the last message from then on.    *)
LEMMA PublishKeepsNews ==
  ASSUME TypeOK, Serving, NewsInv, OneFlips', "race" \notin Environment,
         NEW t \in Threads, ActivatePublish(t) \/ EndPublish(t)
  PROVE  NewsInv'
  <1> USE DEF TypeOK, Goto, Leave, Done
  <1>1. PICK m \in {"active", "ended"} : Publish(m) /\ status = m
    BY DEF ActivatePublish, EndPublish, NewsInv
  <1>2. UNCHANGED <<status, server>> /\ \A u \in Threads \ {t} : pc'[u] = pc[u]
    BY DEF ActivatePublish, EndPublish, postgres
  <1>3. server \notin {"down", "resetting"}
    BY DEF ActivatePublish, EndPublish, Serving
  <1>4. pc'[t] \in {"idle", "end_read"}
    BY DEF ActivatePublish, EndPublish
  <1>5. ASSUME "deaf" \notin Environment PROVE LastNews'
    <2>1. feed' = Append(feed, m)
      BY <1>1, <1>5 DEF Publish
    <2>2. Len(feed') = Len(feed) + 1 /\ feed'[Len(feed) + 1] = m
      BY <1>1, <2>1
    <2>3. feed' # <<>> /\ feed'[Len(feed')] = m
      BY <2>2
    <2> QED
      BY <1>1, <1>2, <2>3 DEF LastNews
  <1> QED
    BY <1>2, <1>3, <1>4, <1>5 DEF NewsInv, OneFlips

(* The messages after the oldest one.                                        *)
LEMMA TailOfNews ==
  ASSUME NEW S, NEW s \in Seq(S), s # <<>>
  PROVE  /\ Len(s) \in Nat \ {0} /\ Head(s) = s[1]
         /\ Len(s) = 1 => Tail(s) = <<>>
         /\ Len(s) > 1 => Tail(s) # <<>> /\ Tail(s)[Len(Tail(s))] = s[Len(s)]
  <1>1. Len(s) \in Nat \ {0} /\ Head(s) = s[1]
    BY EmptySeq
  <1>2. Tail(s) \in Seq(S) /\ Len(Tail(s)) = Len(s) - 1
    OBVIOUS
  <1>3. \A i \in 1..Len(s) - 1 : Tail(s)[i] = s[i + 1]
    OBVIOUS
  <1>4. Len(<<>>) = 0 /\ (Tail(s) # <<>> => Len(Tail(s)) \in Nat \ {0})
    BY <1>2, EmptySeq
  <1>5. ASSUME Len(s) = 1 PROVE Tail(s) = <<>>
    <2>1. Len(Tail(s)) = 0
      BY <1>2, <1>5
    <2> QED
      BY <1>4, <2>1
  <1>6. ASSUME Len(s) > 1 PROVE Tail(s) # <<>> /\ Tail(s)[Len(Tail(s))] = s[Len(s)]
    <2>1. Len(Tail(s)) \in 1..Len(s) - 1
      BY <1>1, <1>2, <1>6
    <2>2. Len(Tail(s)) # 0 /\ Len(Tail(s)) + 1 = Len(s)
      BY <1>1, <1>2, <2>1
    <2> QED
      BY <1>3, <1>4, <2>1, <2>2
  <1> QED
    BY <1>1, <1>5, <1>6

(* What is heard is the oldest message; the newest remains to be heard.      *)
LEMMA BroadcastKeepsNews ==
  ASSUME TypeOK, NewsInv, OneFlips', "race" \notin Environment, Broadcast
  PROVE  NewsInv'
  <1> USE DEF TypeOK, postgres, threads
  <1>1. UNCHANGED <<status, server, pc>> /\ feed # <<>> /\ feed' = Tail(feed)
    BY DEF Broadcast
  <1>2. server \notin {"down", "resetting"}
    BY <1>1 DEF NewsInv
  <1>3. ASSUME LastNews PROVE LastNews'
    <2>1. feed[Len(feed)] = status
      BY <1>1, <1>3 DEF LastNews
    <2>2. CASE Len(feed) = 1
      <3>1. feed' = <<>> /\ Head(feed) = status
        BY <1>1, <2>1, <2>2, TailOfNews
      <3>2. \A c \in Clients : told'[c] \in {"away", status}
        BY <3>1 DEF Broadcast
      <3> QED
        BY <1>1, <3>1, <3>2 DEF LastNews
    <2>3. CASE Len(feed) > 1
      <3>1. feed' # <<>> /\ feed'[Len(feed')] = feed[Len(feed)]
        BY <1>1, <2>3, TailOfNews
      <3> QED
        BY <1>1, <2>1, <3>1 DEF LastNews
    <2>4. Len(feed) \in Nat \ {0}
      BY <1>1, TailOfNews
    <2>5. \A n \in Nat \ {0} : n = 1 \/ n > 1
      OBVIOUS
    <2> QED
      BY <2>2, <2>3, <2>4, <2>5
  <1>4. Announcing' <=> Announcing
    BY <1>1 DEF Announcing
  <1> QED
    BY <1>1, <1>2, <1>3, <1>4 DEF NewsInv, OneFlips

(* Who comes has been told nothing, and who goes hears nothing.              *)
LEMMA VisitKeepsNews ==
  ASSUME TypeOK, NewsInv, OneFlips', "race" \notin Environment,
         NEW c \in Clients, Connect(c) \/ Disconnect(c)
  PROVE  NewsInv'
  <1>1. UNCHANGED <<status, server, pc, feed>>
    BY DEF Connect, Disconnect, postgres, threads
  <1>2. \A d \in Clients : told'[d] \in {told[d], "nothing", "away"}
    BY DEF Connect, Disconnect, TypeOK
  <1>3. server \in {"down", "resetting"} => \A d \in Clients : told'[d] = "away"
    BY DEF Connect, Disconnect, NewsInv, TypeOK
  <1>4. LastNews => LastNews'
    BY <1>1, <1>2 DEF LastNews
  <1>5. Announcing' <=> Announcing
    BY <1>1 DEF Announcing
  <1> QED
    BY <1>1, <1>3, <1>4, <1>5 DEF NewsInv, OneFlips

(* Before an event is created nobody was told of it, and whoever stops the   *)
(* server leaves nobody who was told; the tables are reset while it is down. *)
LEMMA NewLifeKeepsNews ==
  ASSUME TypeOK, Serving, NewsInv, OneFlips', "race" \notin Environment,
         Create \/ (Halt /\ UNCHANGED status) \/ ResetTables \/ ResetKeys
  PROVE  NewsInv'
  <1> USE DEF TypeOK
  <1>1. CASE Create
    <2>1. UNCHANGED <<server, pc, feed, told>> /\ status = "none"
      BY <1>1 DEF Create, channel, threads
    <2>2. ~Announcing
      BY <2>1 DEF Announcing, NewsInv
    <2>3. ASSUME LastNews PROVE LastNews'
      <3>1. feed = <<>>
        <4> SUFFICES ASSUME feed # <<>> PROVE FALSE
          OBVIOUS
        <4>1. feed[Len(feed)] \in {"active", "ended"}
          OBVIOUS
        <4> QED
          BY <2>1, <2>3, <4>1 DEF LastNews
      <3> QED
        BY <2>1, <2>3, <3>1 DEF LastNews
    <2> QED
      BY <2>1, <2>2, <2>3 DEF NewsInv, OneFlips, Announcing
  <1>2. ASSUME server' = "down" \/ server' = "resetting", feed' = <<>>,
               \A c \in Clients : told'[c] = "away", \A t \in Threads : pc'[t] = "idle"
        PROVE  NewsInv'
    BY <1>2 DEF NewsInv, OneFlips, LastNews
  <1>3. CASE Halt
    BY <1>2, <1>3 DEF Halt
  <1>4. CASE ResetTables \/ ResetKeys
    BY <1>2, <1>4 DEF ResetTables, ResetKeys, Serving, NewsInv, channel, threads
  <1> QED
    BY <1>1, <1>3, <1>4

(* The other steps change neither the status nor what is heard of it.        *)
LEMMA RestIsHushed ==
  ASSUME TypeOK, Serving, [Next]_vars
  PROVE  \/ Hushed /\ UNCHANGED status
         \/ \E t \in Threads : \/ ActivateSave(t) \/ EndSave(t)
                               \/ ActivatePublish(t) \/ EndPublish(t)
         \/ Broadcast \/ \E c \in Clients : Connect(c) \/ Disconnect(c)
         \/ Create \/ (Halt /\ UNCHANGED status) \/ ResetTables \/ ResetKeys
  <1> USE DEF TypeOK, Hushed, postgres, channel, threads, Goto, Leave, Done, Fail
  <1>1. CASE UNCHANGED vars
    BY <1>1 DEF vars
  <1>2. ASSUME NEW t \in Threads,
               EndRead(t) \/ EndInsert(t) \/ EndDel(t) \/ EndKeys(t) \/ EndUnrate(t) \/ PgFails(t)
        PROVE  Hushed /\ UNCHANGED status
    BY <1>2 DEF EndRead, EndInsert, EndDel, EndKeys, EndUnrate, PgFails
  <1>3. ASSUME NEW r \in Requests, RequestStep(r) PROVE Hushed /\ UNCHANGED status
    <2>1. CASE AdminActivate(r) \/ AdminEnd(r) \/ \E p \in Players : ScoreStart(r, p)
      BY <2>1 DEF AdminActivate, AdminEnd, ScoreStart
    <2>2. CASE Incr(r) \/ Expire(r) \/ Cap(r)
      BY <2>2 DEF Incr, Expire, Cap
    <2>3. CASE Log(r) \/ Zincrby(r)
      BY <2>3 DEF Log, Zincrby
    <2> QED
      BY <1>3, <2>1, <2>2, <2>3 DEF RequestStep
  <1>4. ASSUME StartDue \/ EndDue PROVE Hushed /\ UNCHANGED status
    BY <1>4 DEF StartDue, EndDue
  <1>5. ASSUME RemoveStart \/ RemoveEnd \/ AddStart \/ AddEnd \/ Tick \/ Boot \/ Requeue
        PROVE  Hushed /\ UNCHANGED status
    BY <1>5 DEF RemoveStart, RemoveEnd, AddStart, AddEnd, Tick, Boot, Requeue
  <1>6. ASSUME ScheduleFails \/ Stop PROVE (Hushed \/ Halt) /\ UNCHANGED status
    BY <1>6 DEF ScheduleFails, Stop
  <1>7. ASSUME NEW t \in Threads, StepOf(t)
        PROVE  \/ ActivateSave(t) \/ EndSave(t) \/ ActivatePublish(t) \/ EndPublish(t)
               \/ Hushed /\ UNCHANGED status
    BY <1>2, <1>7 DEF StepOf
  <1>8. ASSUME SystemStep
        PROVE  \/ Hushed /\ UNCHANGED status
               \/ Broadcast \/ \E c \in Clients : Connect(c) \/ Disconnect(c)
               \/ Create \/ (Halt /\ UNCHANGED status) \/ ResetTables \/ ResetKeys
    BY <1>4, <1>5, <1>6, <1>8 DEF SystemStep
  <1> QED
    BY <1>1, <1>3, <1>7, <1>8, NextIsSteps

(* Every step keeps the news.                                                *)
LEMMA NextKeepsNews ==
  TypeOK /\ Serving /\ OneFlips /\ NewsInv /\ [Next]_vars => NewsInv'
  <1> SUFFICES ASSUME TypeOK, Serving, OneFlips, NewsInv, [Next]_vars,
                      "race" \notin Environment
               PROVE  NewsInv'
    BY DEF NewsInv
  <1>1. OneFlips'
    BY NextKeepsOneFlip
  <1> QED
    BY <1>1, RestIsHushed, HushKeepsNews, SaveKeepsNews, PublishKeepsNews,
       BroadcastKeepsNews, VisitKeepsNews, NewLifeKeepsNews

(* At first nobody was told anything.                                        *)
LEMMA InitNews == Init => NewsInv
  BY DEF Init, NewsInv, Flippers, LastNews, Announcing, Threads, ActivatePoints, EndPoints

-----------------------------------------------------------------------------
(* An undisturbed event ends on time. *)

(* What the two times and the clock are.                                     *)
LEMMA TimesAreNumbers ==
  ASSUME TypeOK
  PROVE  /\ clock \in Nat /\ StartAt \in Nat /\ EndAt \in Nat /\ Horizon \in Nat
         /\ StartWorker # EndWorker /\ StartWorker \in Threads /\ EndWorker \in Threads
         /\ Requests \subseteq Threads \ {StartWorker, EndWorker}
  BY TimeAssumption, ThreadAssumption DEF TypeOK, Threads

(* Who flips the status does so in time.                                     *)
LEMMA FlippersAreTimely ==
  ASSUME OnTime, Undisturbed, NEW t \in Threads, pc[t] \in ActivatePoints \cup EndPoints
  PROVE  /\ status # "none" /\ ~(clock > EndAt)
         /\ pc[t] \in ActivatePoints => t # EndWorker /\ ~(clock > StartAt)
         /\ pc[t] \in EndPoints => t # StartWorker
  BY DEF OnTime, Flippers, Activating, ActivatePoints, EndPoints

(* A step that is about scores or clients.                                   *)
Aside == /\ UNCHANGED <<status, server, queue, sched, clock>>
         /\ feed' = feed \/ feed # <<>>
         /\ \A t \in Threads :
              pc'[t] # pc[t] => /\ t \in Requests
                                /\ {pc[t], pc'[t]} \subseteq ScorePoints \cup {"idle"}

(* Such a step does not touch the event's life.                              *)
LEMMA AsideKeepsTime ==
  ASSUME TypeOK, OnTime, Undisturbed, Aside
  PROVE  OnTime'
  <1> USE DEF Aside, queue
  <1>1. pc'[StartWorker] = pc[StartWorker] /\ pc'[EndWorker] = pc[EndWorker]
    BY TimesAreNumbers
  <1>2. Flippers' = Flippers /\ Activating' = Activating
    BY DEF Flippers, Activating, ScorePoints, ActivatePoints, EndPoints
  <1>3. feed = <<>> => feed' = <<>>
    OBVIOUS
  <1> QED
    BY <1>1, <1>2, <1>3 DEF OnTime, Undisturbed

(* Scores, messages and clients are such steps.                              *)
LEMMA ScoringIsAside ==
  ASSUME TypeOK,
         \/ \E r \in Requests : \/ \E p \in Players : ScoreStart(r, p)
                               \/ Incr(r) \/ Expire(r) \/ Cap(r) \/ Log(r) \/ Zincrby(r)
         \/ Broadcast \/ \E c \in Clients : Connect(c) \/ Disconnect(c)
  PROVE  Aside
  <1> USE TimesAreNumbers DEF TypeOK, Aside, postgres, channel, queue, threads, Goto, Leave, Done,
        ScorePoints
  <1>1. ASSUME NEW r \in Requests, \E p \in Players : ScoreStart(r, p) PROVE Aside
    BY <1>1 DEF ScoreStart
  <1>2. ASSUME NEW r \in Requests, Incr(r) \/ Expire(r) PROVE Aside
    BY <1>2 DEF Incr, Expire
  <1>3. ASSUME NEW r \in Requests, Cap(r) \/ Log(r) \/ Zincrby(r) PROVE Aside
    BY <1>3 DEF Cap, Log, Zincrby
  <1>4. CASE Broadcast \/ \E c \in Clients : Connect(c) \/ Disconnect(c)
    BY <1>4 DEF Broadcast, Connect, Disconnect
  <1> QED
    BY <1>1, <1>2, <1>3, <1>4

(* Threads that flip the status do so in time, and then have done it.        *)
LEMMA FlippingKeepsTime ==
  ASSUME TypeOK, NewsInv, OnTime, Undisturbed, NEW t \in Threads, StepOf(t)
  PROVE  OnTime'
  <1> USE TimesAreNumbers DEF TypeOK, Undisturbed, Goto, Leave, Done, Fail
  <1>1. pc[t] \in ActivatePoints \cup EndPoints
    BY DEF StepOf, ActivateSave, ActivatePublish, EndSave, EndPublish, EndRead, EndInsert, EndDel,
           EndKeys, EndUnrate, PgFails, ActivatePoints, EndPoints
  <1>2. /\ status # "none" /\ ~(clock > EndAt)
        /\ pc[t] \in ActivatePoints => t # EndWorker /\ ~(clock > StartAt)
        /\ pc[t] \in EndPoints => t # StartWorker
    BY <1>1, FlippersAreTimely
  <1>3. UNCHANGED <<server, sched, clock>> /\ \A u \in Threads \ {t} : pc'[u] = pc[u]
    BY DEF StepOf, ActivateSave, ActivatePublish, EndSave, EndPublish, EndRead, EndInsert, EndDel,
           EndKeys, EndUnrate, PgFails, Save
  <1>4. pc'[t] \in ActivatePoints => pc[t] \in ActivatePoints
    BY DEF StepOf, ActivateSave, ActivatePublish, EndSave, EndPublish, EndRead, EndInsert, EndDel,
           EndKeys, EndUnrate, PgFails, Save, ActivatePoints
  <1>5. Activating' => Activating
    BY <1>3, <1>4 DEF Activating
  <1> USE DEF ActivatePoints, EndPoints
  <1>6. CASE ActivateSave(t)
    <2>1. status' = "active" /\ pc'[t] = "activate_publish" /\ UNCHANGED queue
      BY <1>2, <1>6 DEF ActivateSave, Save
    <2> QED
      BY <1>2, <1>3, <1>5, <1>6, <2>1 DEF OnTime, ActivateSave, queue
  <1>7. CASE ActivatePublish(t)
    <2>1. /\ status = "active" /\ UNCHANGED status /\ pc'[t] = "idle" /\ endJob' = endJob
          /\ startJob' = IF t = StartWorker THEN "none" ELSE startJob
      BY <1>2, <1>7 DEF ActivatePublish, postgres, NewsInv
    <2> QED
      BY <1>2, <1>3, <1>5, <1>7, <2>1 DEF OnTime, ActivatePublish
  <1>8. CASE EndSave(t)
    <2>1. status' = "ended" /\ pc'[t] = "end_publish" /\ UNCHANGED queue
      BY <1>2, <1>8 DEF EndSave, Save
    <2> QED
      BY <1>2, <1>3, <1>5, <1>8, <2>1 DEF OnTime, EndSave, queue
  <1>9. CASE /\ pc[t] \in EndPoints \ {"end_save"} /\ pc'[t] \in EndPoints \ {"end_save"}
             /\ UNCHANGED <<status, startJob, endJob>>
    BY <1>2, <1>3, <1>5, <1>9 DEF OnTime
  <1>10. CASE /\ pc[t] \in EndPoints \ {"end_save"} /\ pc'[t] = "idle"
              /\ UNCHANGED <<status, startJob>>
              /\ IF t = EndWorker THEN endJob' \in {"none", "failed"} ELSE endJob' = endJob
    BY <1>2, <1>3, <1>5, <1>10 DEF OnTime
  <1>11. CASE EndPublish(t) \/ EndRead(t) \/ EndDel(t) \/ EndKeys(t)
    BY <1>9, <1>11 DEF EndPublish, EndRead, EndDel, EndKeys, postgres, queue
  <1>12. CASE EndInsert(t) \/ EndUnrate(t)
    BY <1>2, <1>9, <1>10, <1>12 DEF EndInsert, EndUnrate, postgres, queue
  <1> QED
    BY <1>6, <1>7, <1>8, <1>11, <1>12 DEF StepOf, PgFails

(* Whoever begins to flip the status begins in time.                         *)
LEMMA BeginningKeepsTime ==
  ASSUME TypeOK, OnTime, Undisturbed,
         \/ \E r \in Requests : AdminActivate(r) \/ AdminEnd(r)
         \/ StartDue \/ EndDue
  PROVE  OnTime'
  <1> USE TimesAreNumbers DEF TypeOK, Undisturbed, Goto, postgres, channel, queue, threads,
        ActivatePoints, EndPoints
  <1>1. ASSUME NEW r \in Requests, AdminActivate(r) PROVE OnTime'
    <2>1. /\ UNCHANGED <<status, server, sched, clock, feed, startJob, endJob>>
          /\ status = "scheduled" /\ pc[r] = "idle" /\ pc' = [pc EXCEPT ![r] = "activate_save"]
      BY <1>1 DEF AdminActivate
    <2>2. ~(clock > StartAt) /\ ~(clock > EndAt)
      BY <2>1 DEF OnTime
    <2> QED
      BY <2>1, <2>2 DEF OnTime
  <1>2. ASSUME NEW r \in Requests, AdminEnd(r) PROVE OnTime'
    <2>1. /\ UNCHANGED <<status, server, sched, clock, feed, startJob, endJob>>
          /\ status = "active" /\ pc[r] = "idle" /\ pc' = [pc EXCEPT ![r] = "end_save"]
      BY <1>2 DEF AdminEnd
    <2>2. ~(clock > EndAt) /\ (Activating' => Activating)
      BY <2>1 DEF OnTime, Activating
    <2> QED
      BY <2>1, <2>2 DEF OnTime
  <1>3. CASE StartDue
    <2>1. /\ UNCHANGED <<status, server, sched, clock, feed, endJob>>
          /\ startJob = "delayed" /\ clock >= StartAt /\ startJob' = "active"
          /\ pc[StartWorker] = "idle" /\ pc' = [pc EXCEPT ![StartWorker] = "activate_save"]
      BY <1>3 DEF StartDue
    <2>2. status # "none" /\ ~(clock > StartAt) /\ sched = "idle"
      BY <2>1 DEF OnTime
    <2> QED
      BY <2>1, <2>2 DEF OnTime
  <1>4. CASE EndDue
    <2>1. /\ UNCHANGED <<status, server, sched, clock, feed, startJob>>
          /\ endJob = "delayed" /\ clock >= EndAt /\ endJob' = "active"
          /\ pc[EndWorker] = "idle" /\ pc' = [pc EXCEPT ![EndWorker] = "end_save"]
      BY <1>4 DEF EndDue
    <2>2. /\ status # "none" /\ ~(clock > EndAt) /\ sched = "idle"
          /\ (Activating' => Activating)
      BY <2>1 DEF OnTime, Activating
    <2> QED
      BY <2>1, <2>2 DEF OnTime
  <1> QED
    BY <1>1, <1>2, <1>3, <1>4

(* The jobs are made before they are due; the clock waits for those that are.*)
LEMMA SchedulingKeepsTime ==
  ASSUME TypeOK, Serving, OnTime, Undisturbed,
         \/ Create \/ RemoveStart \/ RemoveEnd \/ AddStart \/ AddEnd \/ ScheduleFails
         \/ Tick \/ Stop \/ ResetTables \/ ResetKeys \/ Boot \/ Requeue
  PROVE  OnTime'
  <1> USE TimesAreNumbers DEF TypeOK, Undisturbed, postgres, channel, queue, threads
  <1>1. UNCHANGED pc => Flippers' = Flippers /\ Activating' = Activating
    BY DEF Flippers, Activating
  <1>2. CASE Create
    BY <1>1, <1>2 DEF Create, OnTime, Flippers, Activating
  <1>3. CASE RemoveStart
    BY <1>1, <1>3 DEF RemoveStart, Remove, OnTime, Flippers, Activating
  <1>4. CASE RemoveEnd
    BY <1>1, <1>4 DEF RemoveEnd, Remove, OnTime, Flippers, Activating
  <1>5. CASE AddStart
    BY <1>1, <1>5 DEF AddStart, Add, OnTime, Flippers, Activating
  <1>6. CASE AddEnd
    BY <1>1, <1>6 DEF AddEnd, Add, OnTime, Flippers, Activating
  <1>7. CASE Tick
    <2>1. /\ UNCHANGED <<status, server, sched, feed, startJob, endJob, pc>>
          /\ clock' \in {clock, clock + 1}
      BY <1>7 DEF Tick
    <2>2. /\ sched = "idle" /\ feed = <<>> /\ \A t \in Threads : pc[t] = "idle"
          /\ ~(startJob = "delayed" /\ clock >= StartAt)
          /\ ~(endJob = "delayed" /\ clock >= EndAt)
      BY <1>7 DEF Tick, Quiet, OnTime
    <2>3. Flippers' = {} /\ ~Activating'
      BY <2>1, <2>2 DEF Flippers, Activating, ActivatePoints, EndPoints
    <2> QED
      BY <2>1, <2>2, <2>3 DEF OnTime
  <1>8. ~(ScheduleFails \/ Stop \/ ResetTables \/ ResetKeys \/ Boot)
    BY DEF ScheduleFails, Stop, ResetTables, ResetKeys, Boot, OnTime
  <1>9. ~Requeue
    BY DEF Requeue, OnTime
  <1> QED
    BY <1>2, <1>3, <1>4, <1>5, <1>6, <1>7, <1>8, <1>9

(* Every step keeps an undisturbed event on time.                            *)
LEMMA NextKeepsTime ==
  TypeOK /\ Serving /\ NewsInv /\ OnTime /\ [Next]_vars => OnTime'
  <1> SUFFICES ASSUME TypeOK, Serving, NewsInv, OnTime, [Next]_vars, Undisturbed PROVE OnTime'
    BY DEF OnTime, Undisturbed
  <1>1. CASE UNCHANGED vars
    BY <1>1, AsideKeepsTime
       DEF vars, postgres, channel, queue, threads, Aside
  <1>2. ASSUME NEW r \in Requests, RequestStep(r) PROVE OnTime'
    BY <1>2, ScoringIsAside, AsideKeepsTime, BeginningKeepsTime DEF RequestStep
  <1>3. CASE SystemStep
    BY <1>3, ScoringIsAside, AsideKeepsTime, BeginningKeepsTime, SchedulingKeepsTime
       DEF SystemStep
  <1> QED
    BY <1>1, <1>2, <1>3, FlippingKeepsTime, NextIsSteps

(* Every part of the invariant, in every environment.                        *)
THEOREM EventIsKept == Spec => []EventInv
  <1> DEFINE Plain == {"race", "late"} \cap Environment = {}
             Good == OneFlips /\ Apart /\ (Plain => Copying) /\ NewsInv /\ OnTime
             Whole == TypeOK /\ Serving /\ LogsLead /\ CapLeads /\ Good
  <1>1. Init => Whole
    BY InitServing, InitLogs, InitCap, InitNews
       DEF Init, OneFlips, Flippers, Apart, Scoring, Copying, OnTime, Threads,
           ScorePoints, ActivatePoints, EndPoints
  <1>2. Whole /\ [Next]_vars => Whole'
    BY NextKeepsServing, NextKeepsLogs, NextKeepsCap, NextKeepsOneFlip, NextKeepsApart,
       NextKeepsCopying, NextKeepsNews, NextKeepsTime
  <1>3. Whole => EventInv
    <2> SUFFICES ASSUME Whole PROVE CopyIsBoard
      BY DEF EventInv
    <2>1. ASSUME "race" \notin Environment
          PROVE  \A t, u \in Threads : pc[t] \in EndPoints /\ pc[u] \in EndPoints => t = u
      BY <2>1 DEF OneFlips, Flippers
    <2>2. ASSUME Plain
          PROVE  /\ \A t \in Threads : pc[t] = "end_insert" => snap[t] = board
                 /\ \A t \in Threads, p \in Players :
                      pc[t] = "end_del" /\ board[p] > 0 => rows[p] = board[p]
      BY <2>2 DEF Copying
    <2> QED
      BY <2>1, <2>2 DEF CopyIsBoard, Apart
  <1> QED
    BY <1>1, <1>2, <1>3, PTL DEF Spec

(* When nothing is in flight, whoever was told of the event was told last    *)
(* what it is: any number of clients, requests, stops and messages under     *)
(* way, if activations and ends do not overlap.                              *)
THEOREM LastToldIsStatus ==
  ASSUME "race" \notin Environment
  PROVE  Spec => []ToldIsStatus
  <1>1. EventInv => ToldIsStatus
    BY DEF EventInv, NewsInv, Announcing, LastNews, ToldIsStatus, Idle
  <1> QED
    BY <1>1, EventIsKept, PTL

(* An event that nothing disturbs is ended when its end has passed, and no   *)
(* client believes otherwise, for any times, requests, scores and clients.   *)
THEOREM EventEndsOnTime == Spec => []EndsOnTime
  <1>1. EventInv => EndsOnTime
    <2> SUFFICES ASSUME EventInv, Undisturbed, clock > EndAt, status # "none"
                 PROVE  /\ status = "ended"
                        /\ "deaf" \notin Environment => \A c \in Clients : told[c] # "active"
      BY DEF EndsOnTime
    <2>1. status = "ended" /\ Flippers = {} /\ feed = <<>>
      BY DEF EventInv, OnTime
    <2>2. ~Announcing
      BY <2>1 DEF Announcing, Flippers, ActivatePoints, EndPoints
    <2> QED
      BY <2>1, <2>2 DEF EventInv, NewsInv, LastNews, Undisturbed
  <1> QED
    BY <1>1, EventIsKept, PTL
=============================================================================
