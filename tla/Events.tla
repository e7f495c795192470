------------------------------- MODULE Events -------------------------------
(***************************************************************************)
(* One game event: EventsService and EventsProcessor on Postgres (the      *)
(* event row, event_logs, leaderboards), Redis (the sorted set of scores,  *)
(* the rate counters, the channel events:broadcast to which the gateway is *)
(* subscribed) and the BullMQ queue `events` with its start and end jobs.  *)
(* Keys, jobs and rows carry the event's id, so events do not interact.  A *)
(* step is one command; requests interleave at every await.                *)
(* Environment names what a run allows:                                    *)
(*   "admin"       POST /events/:id/activate and /end, in the order of the *)
(*                 event's life                                            *)
(*   "revive"      the same calls in any state of the event                *)
(*   "concurrent"  two score requests of one player overlap                *)
(*   "late"        a score request overlaps the end of the event           *)
(*   "race"        activations and ends of the event overlap               *)
(*   "backdated"   an event may be created after its start, or its end     *)
(*   "pgdown"      Postgres commands may fail                              *)
(*   "queuedown"   BullMQ commands of scheduleEvent may fail               *)
(*   "restart"     the server stops while nothing is in flight, for any    *)
(*                 time, and boots again                                   *)
(*   "crash"       the same at any point of its handlers                   *)
(*   "deaf"        Redis has no connection of the gateway to deliver to    *)
(*   "reset"       db:reset is run while the server is down                *)
(* A definition X_Y is a variant of X with a plausible mistake Y, there to *)
(* see that a property notices; the specification does not use it.         *)
(***************************************************************************)
EXTENDS Integers, Sequences, FiniteSets

CONSTANTS Players, NoPlayer,
          Clients,                \* WebSocket clients
          Requests,               \* HTTP requests that can be in flight
          StartWorker, EndWorker, \* the workers that execute the two jobs
          Points,                 \* config.points
          MaxScore, PerMinute,    \* config.maxScore, maxActionsPerMinute
          Window,                 \* life of a rate counter, in ticks
          StartAt, EndAt,
          Horizon,                \* bound: the clock stops counting here
          MaxActions,             \* bound: a player with as many logs stops calling
          MaxStops,               \* bound: stops of the server
          MaxFeed,                \* bound: messages under way to the gateway
          Environment

ASSUME ThreadAssumption == /\ StartWorker # EndWorker
                           /\ {StartWorker, EndWorker} \cap Requests = {}
                           /\ NoPlayer \notin Players
                           /\ Requests # {} /\ IsFiniteSet(Requests)
ASSUME ConfigAssumption == /\ Points \in Nat \ {0} /\ PerMinute \in Nat \ {0}
                           /\ MaxScore \in Nat /\ Window \in Nat \ {0}
ASSUME TimeAssumption == /\ {StartAt, EndAt, Horizon, MaxActions, MaxStops, MaxFeed} \subseteq Nat
                         /\ StartAt <= Horizon /\ EndAt <= Horizon
ASSUME EnvironmentAssumption ==
         Environment \subseteq {"admin", "revive", "concurrent", "late", "race",
                                "backdated", "pgdown", "queuedown", "restart", "crash",
                                "deaf", "reset"}

VARIABLES
  status,    \* the row's status; "none" before it is created
  feed,      \* messages of events:broadcast on their way to the gateway
  told,      \* what each client was told last, "nothing", or "away"
  logs,      \* rows of event_logs per player
  rows,      \* the player's score in table leaderboards, 0 without a row
  board,     \* score in the sorted set leaderboard:<id>, 0 when not a member
  used,      \* the counter event:rate:<id>:<player>, 0 when absent
  window,    \* its remaining life, 0 when absent or without expiry
  startJob, endJob, \* "none", "delayed", "active" or "failed"
  clock,
  stops,     \* how often the server stopped so far
  server,    \* "up", "down", "booting" (onModuleInit) or "resetting" (down,
             \* and db:reset has not come to Redis yet)
  sched,     \* the next command of scheduleEvent
  pc,        \* the next command of each thread
  player,    \* who a score request is for
  snap       \* what a thread carries: the scores, or the counters, it read

postgres == <<status, logs, rows>>
redis == <<board, used, window>>
queue == <<startJob, endJob>>
channel == <<feed, told>>
threads == <<pc, player, snap>>
vars == <<postgres, channel, redis, queue, clock, stops, server, sched, threads>>

Threads == Requests \cup {StartWorker, EndWorker}
Zero == [p \in Players |-> 0]

ScorePoints == {"incr", "expire", "cap", "log", "zincrby"}
ActivatePoints == {"activate_save", "activate_publish"}
EndPoints == {"end_save", "end_publish", "end_read", "end_insert", "end_del",
              "end_keys", "end_unrate"}
SchedulePoints == {"remove_start", "remove_end", "add_start", "add_end"}
JobStates == {"none", "delayed", "active", "failed"}

TypeOK == /\ status \in {"none", "scheduled", "active", "ended"}
          /\ feed \in Seq({"active", "ended"}) /\ Len(feed) <= MaxFeed
          /\ told \in [Clients -> {"away", "nothing", "active", "ended"}]
          /\ logs \in [Players -> Nat] /\ rows \in [Players -> Nat]
          /\ board \in [Players -> Nat] /\ used \in [Players -> Nat]
          /\ window \in [Players -> 0..Window]
          /\ startJob \in JobStates /\ endJob \in JobStates
          /\ clock \in 0..Horizon /\ stops \in 0..MaxStops
          /\ server \in {"up", "down", "booting", "resetting"}
          /\ sched \in {"idle"} \cup SchedulePoints
          /\ pc \in [Threads -> {"idle"} \cup ScorePoints \cup ActivatePoints \cup EndPoints]
          /\ player \in [Requests -> Players \cup {NoPlayer}]
          /\ snap \in [Threads -> [Players -> Nat]]

-----------------------------------------------------------------------------
(* Threads. *)

Goto(t, point) == pc' = [pc EXCEPT ![t] = point]

(* The thread is done: an answered request is free; the job of a worker is    *)
(* removed when it completed and kept when it failed.                         *)
Leave(t, outcome) ==
  /\ Goto(t, "idle")
  /\ player' = [r \in Requests |-> IF r = t THEN NoPlayer ELSE player[r]]
  /\ snap' = [snap EXCEPT ![t] = Zero]
  /\ startJob' = (IF t = StartWorker THEN outcome ELSE startJob)
  /\ endJob' = (IF t = EndWorker THEN outcome ELSE endJob)
Done(t) == Leave(t, "none")
Fail(t) == Leave(t, "failed")

(* The process is gone, and with it what it was doing and its connections.   *)
Halt == /\ server' = "down" /\ sched' = "idle"
        /\ pc' = [t \in Threads |-> "idle"]
        /\ player' = [r \in Requests |-> NoPlayer]
        /\ snap' = [t \in Threads |-> Zero]
        /\ feed' = <<>> /\ told' = [c \in Clients |-> "away"]

Scoring == \E r \in Requests : pc[r] \in ScorePoints
Ending == \E t \in Threads : pc[t] \in EndPoints
Activating == \E t \in Threads : pc[t] \in ActivatePoints
MayFlip == "race" \in Environment \/ ~(Ending \/ Activating)

-----------------------------------------------------------------------------
(* PUBLISH; the gateway's subscriber, which sends to every open socket.      *)

Publish(m) == /\ UNCHANGED told
              /\ \/ Len(feed) < MaxFeed /\ feed' = Append(feed, m)
                 \/ "deaf" \in Environment /\ UNCHANGED feed
Broadcast_OnlyNew == /\ feed # <<>>
                     /\ feed' = Tail(feed)
                     /\ told' = [c \in Clients |-> IF told[c] = "nothing" THEN Head(feed)
                                                                    ELSE told[c]]
                     /\ UNCHANGED <<postgres, redis, queue, clock, stops, server, sched, threads>>
Broadcast == /\ feed # <<>>
             /\ feed' = Tail(feed)
             /\ told' = [c \in Clients |-> IF told[c] = "away" THEN "away" ELSE Head(feed)]
             /\ UNCHANGED <<postgres, redis, queue, clock, stops, server, sched, threads>>
Connect(c) == /\ server = "up" /\ told[c] = "away"
              /\ told' = [told EXCEPT ![c] = "nothing"]
              /\ UNCHANGED <<postgres, feed, redis, queue, clock, stops, server, sched, threads>>
Disconnect(c) == /\ told[c] # "away"
                 /\ told' = [told EXCEPT ![c] = "away"]
                 /\ UNCHANGED <<postgres, feed, redis, queue, clock, stops, server, sched, threads>>

-----------------------------------------------------------------------------
(* create and scheduleEvent. *)

Create == /\ server = "up"
          /\ status = "none"
          /\ "backdated" \in Environment \/ clock < StartAt
          /\ status' = "scheduled"
          /\ sched' = "remove_start"
          /\ UNCHANGED <<logs, rows, channel, redis, queue, clock, stops, server, threads>>

(* queue.remove leaves a job that is executing; queue.add with the id of a   *)
(* job that exists is ignored.                                               *)
Remove(j) == IF j = "active" THEN j ELSE "none"
Add(j) == IF j = "none" THEN "delayed" ELSE j

RemoveStart == /\ sched = "remove_start"
               /\ sched' = "remove_end"
               /\ startJob' = Remove(startJob)
               /\ UNCHANGED <<postgres, channel, redis, endJob, clock, stops, server, threads>>
RemoveEnd == /\ sched = "remove_end"
             /\ sched' = "add_start"
             /\ endJob' = Remove(endJob)
             /\ UNCHANGED <<postgres, channel, redis, startJob, clock, stops, server, threads>>
AddStart == /\ sched = "add_start"
            /\ sched' = "add_end"
            /\ startJob' = (IF StartAt > clock THEN Add(startJob) ELSE startJob)
            /\ UNCHANGED <<postgres, channel, redis, endJob, clock, stops, server, threads>>
AddEnd_Never == /\ sched = "add_end"
                /\ sched' = "idle"
                /\ server' = "up"
                /\ UNCHANGED <<postgres, channel, redis, queue, clock, stops, threads>>
AddEnd == /\ sched = "add_end"
          /\ sched' = "idle"
          /\ server' = "up"
          /\ endJob' = (IF EndAt > clock THEN Add(endJob) ELSE endJob)
          /\ UNCHANGED <<postgres, channel, redis, startJob, clock, stops, threads>>
(* create() answers `scheduled: false`; on boot the exception stops the app. *)
ScheduleFails ==
  /\ "queuedown" \in Environment
  /\ sched # "idle"
  /\ IF server = "booting"
       THEN Halt
       ELSE sched' = "idle" /\ UNCHANGED <<server, channel, threads>>
  /\ UNCHANGED <<postgres, redis, queue, clock, stops>>

-----------------------------------------------------------------------------
(* activate: whatever the status was, it becomes active, then told.  *)

AdminActivate(r) == /\ server = "up"
                    /\ pc[r] = "idle"
                    /\ \/ "revive" \in Environment /\ status # "none"
                       \/ "admin" \in Environment /\ status = "scheduled"
                    /\ MayFlip
                    /\ Goto(r, "activate_save")
                    /\ UNCHANGED <<postgres, channel, redis, queue, clock, stops, server,
                                   sched, player, snap>>
StartDue == /\ startJob = "delayed" /\ clock >= StartAt
            /\ server \in {"up", "booting"}
            /\ pc[StartWorker] = "idle"
            /\ MayFlip
            /\ startJob' = "active"
            /\ Goto(StartWorker, "activate_save")
            /\ UNCHANGED <<postgres, channel, redis, endJob, clock, stops, server, sched,
                           player, snap>>
(* An old job may find no event: "Event không tồn tại".  findOne and the save *)
(* of the status are one step: nothing else writes the row of an event, and  *)
(* an activation and an end that overlap save in either order as it is.      *)
Save(t, s, next) ==
  /\ IF status = "none"
       THEN Fail(t) /\ UNCHANGED status
       ELSE status' = s /\ Goto(t, next) /\ UNCHANGED <<queue, player, snap>>
  /\ UNCHANGED <<logs, rows, channel, redis, clock, stops, server, sched>>
ActivateSave(t) == pc[t] = "activate_save" /\ Save(t, "active", "activate_publish")
ActivatePublish(t) == /\ pc[t] = "activate_publish"
                      /\ Publish("active")
                      /\ Done(t)
                      /\ UNCHANGED <<postgres, redis, clock, stops, server, sched>>

-----------------------------------------------------------------------------
(* end: save, publish, copy the scores to Postgres, drop the Redis keys. *)

MayEnd == MayFlip /\ ("late" \in Environment \/ ~Scoring)

AdminEnd(r) == /\ server = "up"
               /\ pc[r] = "idle"
               /\ \/ "revive" \in Environment /\ status # "none"
                  \/ "admin" \in Environment /\ status = "active"
               /\ MayEnd
               /\ Goto(r, "end_save")
               /\ UNCHANGED <<postgres, channel, redis, queue, clock, stops, server, sched,
                              player, snap>>
EndDue == /\ endJob = "delayed" /\ clock >= EndAt
          /\ server \in {"up", "booting"}
          /\ pc[EndWorker] = "idle"
          /\ MayEnd
          /\ endJob' = "active"
          /\ Goto(EndWorker, "end_save")
          /\ UNCHANGED <<postgres, channel, redis, startJob, clock, stops, server, sched,
                         player, snap>>
EndSave(t) == pc[t] = "end_save" /\ Save(t, "ended", "end_publish")
EndPublish_Silent(t) == /\ pc[t] = "end_publish"
                        /\ Goto(t, "end_read")
                        /\ UNCHANGED <<postgres, channel, redis, queue, clock, stops, server,
                                       sched, player, snap>>
EndPublish(t) == /\ pc[t] = "end_publish"
                 /\ Publish("ended")
                 /\ Goto(t, "end_read")
                 /\ UNCHANGED <<postgres, redis, queue, clock, stops, server, sched, player, snap>>
EndRead(t) == /\ pc[t] = "end_read"
              /\ Goto(t, "end_insert")
              /\ snap' = [snap EXCEPT ![t] = board]
              /\ UNCHANGED <<postgres, channel, redis, queue, clock, stops, server, sched, player>>
(* A second row for a player violates the unique index of leaderboards: the  *)
(* transaction fails and with it the rest of end().                          *)
EndInsert_Skip(t) == /\ pc[t] = "end_insert"
                     /\ Goto(t, "end_del")
                     /\ UNCHANGED <<postgres, channel, redis, queue, clock, stops, server, sched,
                                    player, snap>>
EndInsert(t) == /\ pc[t] = "end_insert"
                /\ IF \E p \in Players : snap[t][p] > 0 /\ rows[p] > 0
                     THEN Fail(t) /\ UNCHANGED rows
                     ELSE /\ rows' = [p \in Players |-> IF snap[t][p] > 0 THEN snap[t][p]
                                                                         ELSE rows[p]]
                          /\ Goto(t, "end_del")
                          /\ UNCHANGED <<queue, player, snap>>
                /\ UNCHANGED <<status, logs, channel, redis, clock, stops, server, sched>>
EndDel(t) == /\ pc[t] = "end_del"
             /\ Goto(t, "end_keys")
             /\ board' = Zero
             /\ UNCHANGED <<postgres, channel, used, window, queue, clock, stops, server, sched,
                            player, snap>>
(* KEYS event:rate:<id>:*, then DEL of what it listed. *)
EndKeys(t) == /\ pc[t] = "end_keys"
              /\ Goto(t, "end_unrate")
              /\ snap' = [snap EXCEPT ![t] = used]
              /\ UNCHANGED <<postgres, channel, redis, queue, clock, stops, server, sched, player>>
EndUnrate(t) == /\ pc[t] = "end_unrate"
                /\ Done(t)
                /\ used' = [p \in Players |-> IF snap[t][p] > 0 THEN 0 ELSE used[p]]
                /\ window' = [p \in Players |-> IF snap[t][p] > 0 THEN 0 ELSE window[p]]
                /\ UNCHANGED <<postgres, channel, board, clock, stops, server, sched>>

-----------------------------------------------------------------------------
(* scoreEvent: the status is read once, then the rate counter, the cap, the  *)
(* log and the score are commands of their own.  Requests beyond the first   *)
(* rejected one of a window change nothing and are left out.                 *)

ScoreStart(r, p) == /\ server = "up"
                    /\ pc[r] = "idle"
                    /\ status = "active"
                    /\ used[p] <= PerMinute /\ logs[p] < MaxActions
                    /\ "late" \in Environment \/ ~Ending
                    /\ \/ "concurrent" \in Environment
                       \/ \A other \in Requests : player[other] # p
                    /\ Goto(r, "incr")
                    /\ player' = [player EXCEPT ![r] = p]
                    /\ UNCHANGED <<postgres, channel, redis, queue, clock, stops, server,
                                   sched, snap>>
Incr(r) == /\ pc[r] = "incr"
           /\ used' = [used EXCEPT ![player[r]] = @ + 1]
           /\ IF used'[player[r]] > PerMinute
                THEN Done(r)
                ELSE /\ Goto(r, IF used'[player[r]] = 1 THEN "expire" ELSE "cap")
                     /\ UNCHANGED <<queue, player, snap>>
           /\ UNCHANGED <<postgres, channel, board, window, clock, stops, server, sched>>
Expire_Never(r) == /\ pc[r] = "expire"
                   /\ Goto(r, "cap")
                   /\ UNCHANGED <<postgres, channel, redis, queue, clock, stops, server, sched,
                                  player, snap>>
Expire(r) == /\ pc[r] = "expire"
             /\ window' = [window EXCEPT ![player[r]] = IF used[player[r]] > 0 THEN Window ELSE 0]
             /\ Goto(r, "cap")
             /\ UNCHANGED <<postgres, channel, board, used, queue, clock, stops, server, sched,
                            player, snap>>
Cap_Never(r) == /\ pc[r] = "cap"
                /\ Goto(r, "log")
                /\ UNCHANGED <<postgres, channel, redis, queue, clock, stops, server, sched,
                               player, snap>>
Cap(r) == /\ pc[r] = "cap"
          /\ IF board[player[r]] + Points > MaxScore
               THEN Done(r)
               ELSE Goto(r, "log") /\ UNCHANGED <<queue, player, snap>>
          /\ UNCHANGED <<postgres, channel, redis, clock, stops, server, sched>>
Log_Skip(r) == /\ pc[r] = "log"
               /\ Goto(r, "zincrby")
               /\ UNCHANGED <<postgres, channel, redis, queue, clock, stops, server, sched,
                              player, snap>>
Log(r) == /\ pc[r] = "log"
          /\ logs' = [logs EXCEPT ![player[r]] = @ + 1]
          /\ Goto(r, "zincrby")
          /\ UNCHANGED <<status, rows, channel, redis, queue, clock, stops, server, sched,
                         player, snap>>
Zincrby(r) == /\ pc[r] = "zincrby"
              /\ board' = [board EXCEPT ![player[r]] = @ + Points]
              /\ Done(r)
              /\ UNCHANGED <<postgres, channel, used, window, clock, stops, server, sched>>

(* A Postgres command throws: the request gets a 500, a job without          *)
(* `attempts` fails for good.                                                *)
PgFails(t) == /\ "pgdown" \in Environment
              /\ pc[t] \in {"activate_save", "end_save", "end_insert", "log"}
              /\ Fail(t)
              /\ UNCHANGED <<postgres, channel, redis, clock, stops, server, sched>>

-----------------------------------------------------------------------------
(* The environment. *)

(* Commands take no time while the server is up, and neither does a due job. *)
Quiet == /\ sched = "idle"
         /\ \A t \in Threads : pc[t] = "idle"
         /\ server \in {"up", "down"} /\ feed = <<>>
         /\ server = "up" => /\ startJob # "active" /\ endJob # "active"
                             /\ ~(startJob = "delayed" /\ clock >= StartAt)
                             /\ ~(endJob = "delayed" /\ clock >= EndAt)
Tick == /\ Quiet
        /\ clock' = (IF clock < Horizon THEN clock + 1 ELSE clock)
        /\ window' = [p \in Players |-> IF window[p] > 0 THEN window[p] - 1 ELSE 0]
        /\ used' = [p \in Players |-> IF window[p] = 1 THEN 0 ELSE used[p]]
        /\ UNCHANGED <<postgres, channel, board, queue, stops, server, sched, threads>>

Stop == /\ server \in {"up", "booting"}
        /\ "crash" \in Environment \/ ("restart" \in Environment /\ Quiet)
        /\ stops < MaxStops
        /\ stops' = stops + 1
        /\ Halt
        /\ UNCHANGED <<postgres, redis, queue, clock>>

(* db:reset drops the tables, so that ids start again, then the keys of      *)
(* Redis; the jobs remain.  The script does not ask whether a server runs,   *)
(* it only says to restart one afterwards (reset.ts:47): that the server is  *)
(* down is an assumption, and a reset under a running one is not modelled.   *)
ResetTables == /\ "reset" \in Environment
               /\ server = "down"
               /\ server' = "resetting"
               /\ status' = "none" /\ logs' = Zero /\ rows' = Zero
               /\ UNCHANGED <<channel, redis, queue, clock, stops, sched, threads>>
ResetKeys == /\ server = "resetting"
             /\ server' = "down"
             /\ board' = Zero /\ used' = Zero /\ window' = Zero
             /\ UNCHANGED <<postgres, channel, queue, clock, stops, sched, threads>>

(* onModuleInit: an event that is scheduled or active is scheduled again. *)
Boot == /\ server = "down"
        /\ IF status \in {"scheduled", "active"}
             THEN server' = "booting" /\ sched' = "remove_start"
             ELSE server' = "up" /\ UNCHANGED sched
        /\ UNCHANGED <<postgres, channel, redis, queue, clock, stops, threads>>

(* BullMQ finds a job whose worker is gone: it waits again, or has failed.   *)
Stalled(j) == IF j = "active" THEN {"delayed", "failed"} ELSE {j}
Requeue == /\ server \in {"up", "booting"}
           /\ \/ startJob = "active" /\ pc[StartWorker] = "idle"
              \/ endJob = "active" /\ pc[EndWorker] = "idle"
           /\ startJob' \in IF pc[StartWorker] = "idle" THEN Stalled(startJob) ELSE {startJob}
           /\ endJob' \in IF pc[EndWorker] = "idle" THEN Stalled(endJob) ELSE {endJob}
           /\ UNCHANGED <<postgres, channel, redis, clock, stops, server, sched, threads>>

-----------------------------------------------------------------------------
Init == /\ status = "none"
        /\ feed = <<>> /\ told = [c \in Clients |-> "away"]
        /\ logs = Zero /\ rows = Zero
        /\ board = Zero /\ used = Zero /\ window = Zero
        /\ startJob = "none" /\ endJob = "none"
        /\ clock = 0 /\ stops = 0 /\ server = "up" /\ sched = "idle"
        /\ pc = [t \in Threads |-> "idle"]
        /\ player = [r \in Requests |-> NoPlayer]
        /\ snap = [t \in Threads |-> Zero]

ScheduleStep == RemoveStart \/ RemoveEnd \/ AddStart \/ AddEnd \/ ScheduleFails
FlipStep(t) == \/ ActivateSave(t) \/ ActivatePublish(t)
               \/ EndSave(t) \/ EndPublish(t) \/ EndRead(t) \/ EndInsert(t)
               \/ EndDel(t) \/ EndKeys(t) \/ EndUnrate(t)
ScoreStep(r) == Incr(r) \/ Expire(r) \/ Cap(r) \/ Log(r) \/ Zincrby(r)
Call(r) == AdminActivate(r) \/ AdminEnd(r) \/ \E p \in Players : ScoreStart(r, p)

Next == \/ Create \/ ScheduleStep \/ StartDue \/ EndDue
        \/ \E r \in Requests : Call(r) \/ ScoreStep(r)
        \/ \E t \in Threads : FlipStep(t) \/ PgFails(t)
        \/ Broadcast \/ \E c \in Clients : Connect(c) \/ Disconnect(c)
        \/ Tick \/ Stop \/ ResetTables \/ ResetKeys \/ Boot \/ Requeue

Spec == Init /\ [][Next]_vars

(* The event loop, the workers and the clock run, messages arrive, and a     *)
(* stopped server is started again; nobody is obliged to call or connect.    *)
Fairness == /\ \A t \in Threads : WF_vars(FlipStep(t))
            /\ \A r \in Requests : WF_vars(ScoreStep(r))
            /\ WF_vars(ScheduleStep) /\ WF_vars(StartDue) /\ WF_vars(EndDue)
            /\ WF_vars(Broadcast) /\ WF_vars(Tick)
            /\ WF_vars(ResetKeys) /\ WF_vars(Boot) /\ WF_vars(Requeue)
FairSpec == Spec /\ Fairness

-----------------------------------------------------------------------------
(* What is wanted of an event. *)

(* The points of n actions. *)
Worth(n) == Points * n

Idle == sched = "idle" /\ \A t \in Threads : pc[t] = "idle"
InFlight(p) == {r \in Requests : player[r] = p /\ pc[r] \in {"log", "zincrby"}}

(* "hai cái trần cứng ... tổng điểm tối đa cho cả sự kiện"                   *)
(* (events.service.ts:147-148): a hard ceiling on a player's total score.    *)
ScoreCap == \A p \in Players : board[p] <= MaxScore

(* The ceiling is passed at most by the requests that read the score before  *)
(* the others wrote it: with n requests served at a time, a player's score   *)
(* and what is on its way never exceed it by more than n - 1 increments.     *)
OvershootBounded ==
  \A p \in Players : board[p] + Worth(Cardinality(InFlight(p)))
                       <= MaxScore + Worth(Cardinality(Requests) - 1)

(* Each point on the board, or in the final table, has a row in event_logs;  *)
(* also after db:reset, which drops the logs and must not leave a new event  *)
(* the scores of an old one (reset.ts:10-11).                                *)
EveryPointIsLogged ==
  server # "resetting" =>
    \A p \in Players : board[p] <= Worth(logs[p]) /\ rows[p] <= Worth(logs[p])

(* "số lần ghi điểm mỗi phút" (events.service.ts:148): a rate counter is     *)
(* about to get its minute, or has it; otherwise it never counts anew.       *)
RateHasExpiry ==
  \A p \in Players : used[p] > 0 =>
    window[p] > 0 \/ \E r \in Requests : player[r] = p /\ pc[r] = "expire"

(* A score leaves Redis only when Postgres holds exactly that score; only    *)
(* db:reset, which gives up both, is exempt.                                 *)
SnapshotIsFinal ==
  [][\A p \in Players : server # "resetting" /\ board[p] > 0 /\ board'[p] = 0
                          => rows[p] = board[p]]_vars

(* "Queue BullMQ jobs to flip status at startAt/endAt" (events.service.ts:69):*)
(* an event that was created before its start and starts before its end is   *)
(* ended once its end has passed, and no client still believes it goes on,   *)
(* if nothing stops or fails and nobody revives it by hand.                  *)
Undisturbed ==
  /\ {"revive", "race", "backdated", "pgdown", "queuedown", "restart", "crash", "reset"}
       \cap Environment = {}
  /\ StartAt < EndAt
EndsOnTime ==
  Undisturbed /\ clock > EndAt /\ status # "none" =>
    /\ status = "ended"
    /\ "deaf" \notin Environment => \A c \in Clients : told[c] # "active"

(* Why these hold, in inductive form.  A score request knows its player; a   *)
(* stopped server does nothing, and a booting one serves no requests yet.    *)
Serving == /\ \A r \in Requests : pc[r] \in ScorePoints => player[r] \in Players
           /\ server \in {"down", "resetting"} =>
                sched = "idle" /\ \A t \in Threads : pc[t] = "idle"
           /\ server = "booting" => \A r \in Requests : pc[r] = "idle"

(* A log row is there before its points are, on the board, on their way to   *)
(* it, or in the copy of the board that end() carries to Postgres.           *)
Logged(p) == {r \in Requests : player[r] = p /\ pc[r] = "zincrby"}
LogsLead ==
  \A p \in Players :
    /\ server # "resetting" => board[p] + Worth(Cardinality(Logged(p))) <= Worth(logs[p])
    /\ rows[p] <= Worth(logs[p])
    /\ \A t \in Threads : pc[t] = "end_insert" => snap[t][p] <= Worth(logs[p])

(* Whoever passed the ceiling's check found room for its points.             *)
CapLeads == OvershootBounded /\ \A p \in Players : InFlight(p) # {} => Points <= MaxScore

(* Without races one thread at a time ends the event, and without lateness   *)
(* none scores meanwhile, so that the copy is the board until it is dropped. *)
CopyIsBoard ==
  /\ "race" \notin Environment =>
       \A t, u \in Threads : pc[t] \in EndPoints /\ pc[u] \in EndPoints => t = u
  /\ "late" \notin Environment => ~(Scoring /\ Ending)
  /\ {"race", "late"} \cap Environment = {} =>
       /\ \A t \in Threads : pc[t] = "end_insert" => snap[t] = board
       /\ \A t \in Threads, p \in Players :
            pc[t] = "end_del" /\ board[p] > 0 => rows[p] = board[p]

(* Without races one thread at a time changes the status, it publishes what  *)
(* it saved, and the last message, heard or under way, is the status;        *)
(* whoever stops the server cuts off the clients with it.                    *)
Flippers == {t \in Threads : pc[t] \in ActivatePoints \cup EndPoints}
Announcing == \E t \in Threads : pc[t] \in {"activate_publish", "end_publish"}
LastNews == IF feed = <<>>
              THEN \A c \in Clients : told[c] \in {"active", "ended"} => told[c] = status
              ELSE feed[Len(feed)] = status
NewsInv ==
  "race" \notin Environment =>
    /\ \A t, u \in Flippers : t = u
    /\ \A t \in Threads : /\ pc[t] = "activate_publish" => status = "active"
                          /\ pc[t] = "end_publish" => status = "ended"
    /\ server \in {"down", "resetting"} => feed = <<>> /\ \A c \in Clients : told[c] = "away"
    /\ "deaf" \notin Environment /\ ~Announcing => LastNews

(* While nothing disturbs them, the jobs are made in time, each waits or is  *)
(* executed until it has flipped the status, and it is not flipped back.     *)
OnTime ==
  Undisturbed =>
    /\ server = "up"
    /\ pc[StartWorker] \in {"idle"} \cup ActivatePoints /\ pc[EndWorker] \in {"idle"} \cup EndPoints
    /\ startJob = "active" <=> pc[StartWorker] # "idle"
    /\ endJob = "active" <=> pc[EndWorker] # "idle"
    /\ status = "none" => /\ sched = "idle" /\ Flippers = {}
                          /\ startJob = "none" /\ endJob = "none"
    /\ sched # "idle" => /\ clock < StartAt /\ endJob = "none"
                         /\ startJob = IF sched = "add_end" THEN "delayed" ELSE "none"
    /\ status = "scheduled" /\ sched = "idle" =>
         startJob = "delayed" \/ pc[StartWorker] = "activate_save"
    /\ clock > StartAt /\ status # "none" =>
         status # "scheduled" /\ startJob # "delayed" /\ ~Activating
    /\ status # "none" /\ sched = "idle" =>
         \/ endJob = "delayed" \/ (pc[EndWorker] = "end_save" /\ clock >= EndAt)
         \/ status = "ended" /\ clock >= EndAt
    /\ clock > EndAt /\ status # "none" =>
         status = "ended" /\ endJob # "delayed" /\ Flippers = {} /\ feed = <<>>

EventInv == TypeOK /\ Serving /\ LogsLead /\ CapLeads /\ CopyIsBoard /\ NewsInv /\ OnTime

(* "Dọn key Redis sau khi đã snapshot" (events.service.ts:125): when nothing *)
(* is in flight, an ended event has no scores left in Redis.                 *)
NoLeftovers == Idle /\ status = "ended" => board = Zero

(* When nothing is in flight, a client that was told of the event (README    *)
(* .md:268-269) was told last what its status is, unless Redis had nobody to *)
(* deliver to.                                                               *)
ToldIsStatus ==
  Idle /\ feed = <<>> /\ "deaf" \notin Environment =>
    \A c \in Clients : told[c] \in {"active", "ended"} => told[c] = status

(* reset.ts:47 has a restart of the server clear the jobs it left.           *)
NoOrphanJobs == Idle /\ server = "up" /\ status = "none" => startJob = "none" /\ endJob = "none"

(* "event_end: Event kết thúc (broadcast)" (README.md:269): a client that was *)
(* told that the event started, and stays, is told that it ended.            *)
EndIsTold == \A c \in Clients : told[c] = "active" ~> told[c] # "active"

(* "Queue BullMQ jobs to flip status at startAt/endAt" (events.service.ts:69):*)
(* an event whose end has passed is ended at some time.                      *)
EventuallyEnded == (status # "none" /\ clock >= EndAt) ~> (status = "ended")
=============================================================================
