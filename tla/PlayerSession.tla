--------------------------- MODULE PlayerSession ----------------------------
(***************************************************************************)
(* The session of one player: the WebSocket handlers of RealtimeGateway,   *)
(* SessionService on Redis, the delayed flush job on the BullMQ queue      *)
(* `session` with SessionFlushProcessor, and the player's profile row.     *)
(* Every key, job and row is named by the userId, so players do not        *)
(* interact and one is enough.                                             *)
(*                                                                         *)
(* A step is one command to Redis, BullMQ or Postgres: every `await` of    *)
(* the code is a point where other handlers run.  Time is counted in       *)
(* units by Tick.  Environment names the circumstances a run allows:       *)
(*   "pipeline"  messages of one socket overlap each other and its close   *)
(*   "overlap"   a new socket authenticates while an old one, or its       *)
(*               close handler, is still alive on the server               *)
(*   "race"      a player authenticates while the flush job is executing   *)
(*   "reauth"    `auth` is sent again on an authenticated socket           *)
(*   "idle"      a connected player is silent for longer than the TTL      *)
(*   "http"      PATCH /users/me is used beside the socket                 *)
(*   "pgdown"    Postgres queries may fail                                 *)
(*   "crash"     the server process may crash and restart                  *)
(*   "lag"       time passes while handlers or a due job are unfinished    *)
(* A definition X_Y is a variant of X with a plausible mistake Y, there to   *)
(* see that a property notices; the specification does not use it.           *)
(***************************************************************************)
EXTENDS Integers

CONSTANTS Keys,           \* keys of the session object
          TransientKeys,  \* those stripTransient drops
          LastSavedAt,    \* the transient key that saveToDb stamps
          Sockets, NoSocket,
          Handlers,       \* handler invocations that can be in flight
          Worker,         \* the flush worker
          MaxPatches,     \* bound: client writes
          SessionTtl, Grace, FlushBuffer,
          GraceIsText,    \* GRACE_PERIOD_SECONDS comes from the environment
          Environment

ASSUME KeysAssumption == LastSavedAt \in TransientKeys /\ TransientKeys \subseteq Keys
ASSUME ThreadAssumption == Worker \notin Handlers /\ NoSocket \notin Sockets
ASSUME BoundAssumption == MaxPatches \in Nat \ {0}
ASSUME TtlAssumption == /\ Grace \in Nat \ {0}
                        /\ FlushBuffer \in 1..999
                        /\ SessionTtl \in Nat \ {0}
ASSUME ConfigAssumption == /\ GraceIsText \in BOOLEAN
                           /\ Environment \subseteq
                                {"pipeline", "overlap", "race", "reauth", "idle",
                                 "http", "pgdown", "crash", "lag"}

VARIABLES
  sockets,  \* client.data of each connection: "closed", "new" or "authed"
  pc,       \* the next command of each thread
  sock,     \* the socket a handler serves
  local,    \* the object a thread carries across an await
  session,  \* value of the Redis key session:<uid>, Blank when absent
  ttl,      \* its remaining life; the key exists iff ttl > 0
  online,   \* uid is a member of session:online
  job,      \* the flush job: "none", "delayed", "active" or "failed"
  delay,    \* time until the delayed job is due
  stalls,   \* how often the job was found stalled
  db,       \* user_profiles.data
  patches   \* client writes so far: the value the next one carries

redis == <<session, ttl, online>>
queue == <<job, delay, stalls>>
threads == <<pc, sock, local>>
vars == <<sockets, threads, redis, queue, db, patches>>

Threads == Handlers \cup {Worker}
Absent == 0
Contents == [Keys -> 0..MaxPatches]
Blank == [k \in Keys |-> Absent]

ClosePoints == {"close_exists", "close_expire", "close_remove", "close_add"}
AuthPoints == {"auth_get", "auth_load", "auth_set", "auth_expire", "auth_online"}
SavePoints == {"save_persist", "patch_get", "patch_set"}
DestroyPoints == {"destroy_del", "destroy_srem"}
HandlerPoints == {"idle"} \cup ClosePoints \cup AuthPoints \cup SavePoints
WorkerPoints == {"idle", "flush_get", "finish"} \cup SavePoints \cup DestroyPoints

TypeOK == /\ sockets \in [Sockets -> {"closed", "new", "authed"}]
          /\ pc \in [Threads -> HandlerPoints \cup WorkerPoints]
          /\ \A h \in Handlers : pc[h] \in HandlerPoints
          /\ pc[Worker] \in WorkerPoints
          /\ sock \in [Handlers -> Sockets \cup {NoSocket}]
          /\ local \in [Threads -> Contents]
          /\ session \in Contents
          /\ ttl \in Nat
          /\ online \in BOOLEAN
          /\ job \in {"none", "delayed", "active", "failed"}
          /\ delay \in 0..Grace
          /\ stalls \in 0..1
          /\ db \in Contents
          /\ patches \in 0..MaxPatches

-----------------------------------------------------------------------------
(* Values. *)

(* stripTransient *)
Strip(c) == [k \in Keys |-> IF k \in TransientKeys THEN Absent ELSE c[k]]

(* { ...cur, ...partial } *)
Merge(cur, partial) ==
  [k \in Keys |-> IF partial[k] = Absent THEN cur[k] ELSE partial[k]]

(* { lastSavedAt: Date.now() }: clock values are not told apart. *)
Stamp == [k \in Keys |-> IF k = LastSavedAt THEN 1 ELSE Absent]

(* The client's next write to the keys in `changed`. *)
NextWrite(changed) == [k \in Keys |-> IF k \in changed THEN patches + 1 ELSE Absent]

(* Redis commands on the session key. *)
SetKey(c) == session' = c /\ ttl' = SessionTtl
ExpireKey(t) == ttl' = (IF ttl > 0 THEN t ELSE 0) /\ UNCHANGED session
DelKey == session' = Blank /\ ttl' = 0

(* The TTL disconnect() sets.  `grace + 60` is a sum when grace is a number,  *)
(* and a concatenation of digits when it is the text read from the            *)
(* environment: "300" + 60 is "30060".                                        *)
Shift == IF FlushBuffer < 10 THEN 10 ELSE IF FlushBuffer < 100 THEN 100 ELSE 1000
DisconnectTtl_NoBuffer == Grace
DisconnectTtl == IF GraceIsText THEN Grace * Shift + FlushBuffer
                                ELSE Grace + FlushBuffer

(* BullMQ: an executing job is locked, remove() leaves it; add() with the id *)
(* of a job that still exists is ignored.                                    *)
RemoveJob_OtherId == UNCHANGED queue
RemoveJob == IF job = "active"
               THEN UNCHANGED queue
               ELSE job' = "none" /\ delay' = 0 /\ stalls' = 0
AddJob == IF job = "none"
            THEN job' = "delayed" /\ delay' = Grace /\ stalls' = 0
            ELSE UNCHANGED queue

-----------------------------------------------------------------------------
(* Threads. *)

Goto(t, point) == pc' = [pc EXCEPT ![t] = point]

(* A handler that is done is free again; the worker goes on to destroy(). *)
Free(h) == /\ Goto(h, "idle")
           /\ sock' = [sock EXCEPT ![h] = NoSocket]
           /\ local' = [local EXCEPT ![h] = Blank]
Return(t) == IF t = Worker
               THEN /\ Goto(t, "destroy_del")
                    /\ local' = [local EXCEPT ![t] = Blank]
                    /\ UNCHANGED sock
               ELSE Free(t)

Busy(s) == \E h \in Handlers : pc[h] # "idle" /\ sock[h] = s
Connected == \E s \in Sockets : sockets[s] = "authed"

(* Handler h takes a message, or the close, of socket s. *)
Accept(h, s, point, arg) ==
  /\ pc[h] = "idle"
  /\ "pipeline" \in Environment \/ ~Busy(s)
  /\ Goto(h, point)
  /\ sock' = [sock EXCEPT ![h] = s]
  /\ local' = [local EXCEPT ![h] = arg]

-----------------------------------------------------------------------------
(* Connections. *)

(* handleConnection: the socket is known, nobody is authenticated on it. *)
Connect(s) == /\ sockets[s] = "closed"
              /\ ~Busy(s)
              /\ sockets' = [sockets EXCEPT ![s] = "new"]
              /\ UNCHANGED <<threads, redis, queue, db, patches>>

(* handleDisconnect without a userId returns at once. *)
CloseNew(s) == /\ sockets[s] = "new"
               /\ sockets' = [sockets EXCEPT ![s] = "closed"]
               /\ UNCHANGED <<threads, redis, queue, db, patches>>

(* handleDisconnect of an authenticated socket: disconnect() leaves the      *)
(* online set, then shortens the TTL of the session if there is one; the     *)
(* gateway replaces the flush job.                                           *)
Close(h, s) == /\ sockets[s] = "authed"
               /\ Accept(h, s, "close_exists", Blank)
               /\ sockets' = [sockets EXCEPT ![s] = "closed"]
               /\ online' = FALSE
               /\ UNCHANGED <<session, ttl, queue, db, patches>>
CloseExists(h) == /\ pc[h] = "close_exists"
                  /\ Goto(h, IF ttl > 0 THEN "close_expire" ELSE "close_remove")
                  /\ UNCHANGED <<sockets, sock, local, redis, queue, db, patches>>
CloseExpire(h) == /\ pc[h] = "close_expire"
                  /\ Goto(h, "close_remove")
                  /\ ExpireKey(DisconnectTtl)
                  /\ UNCHANGED <<sockets, sock, local, online, queue, db, patches>>
CloseRemove(h) == /\ pc[h] = "close_remove"
                  /\ Goto(h, "close_add")
                  /\ RemoveJob
                  /\ UNCHANGED <<sockets, sock, local, redis, db, patches>>
CloseAdd(h) == /\ pc[h] = "close_add"
               /\ Free(h)
               /\ AddJob
               /\ UNCHANGED <<sockets, redis, db, patches>>

-----------------------------------------------------------------------------
(* onAuth: the guard writes client.data, the waiting flush job is removed,   *)
(* then resume() keeps what Redis holds, or start() loads the profile.       *)
AuthStart(h, s) ==
  /\ sockets[s] = "new" \/ ("reauth" \in Environment /\ sockets[s] = "authed")
  /\ "race" \in Environment \/ job # "active"
  /\ \/ "overlap" \in Environment
     \/ \A other \in Sockets \ {s} : sockets[other] # "authed" /\ ~Busy(other)
  /\ Accept(h, s, "auth_get", Blank)
  /\ sockets' = [sockets EXCEPT ![s] = "authed"]
  /\ RemoveJob
  /\ UNCHANGED <<redis, db, patches>>
AuthGet_AlwaysLoad(h) == /\ pc[h] = "auth_get"
                         /\ Goto(h, "auth_load")
                         /\ UNCHANGED <<sockets, sock, local, redis, queue, db, patches>>
AuthGet(h) == /\ pc[h] = "auth_get"
              /\ Goto(h, IF ttl > 0 THEN "auth_expire" ELSE "auth_load")
              /\ UNCHANGED <<sockets, sock, local, redis, queue, db, patches>>
AuthLoad_NoInitial(h) == /\ pc[h] = "auth_load"
                         /\ Goto(h, "auth_set")
                         /\ local' = [local EXCEPT ![h] = Stamp]
                         /\ UNCHANGED <<sockets, sock, redis, queue, db, patches>>
AuthLoad(h) == /\ pc[h] = "auth_load"
               /\ Goto(h, "auth_set")
               /\ local' = [local EXCEPT ![h] = Merge(Stamp, Strip(db))]
               /\ UNCHANGED <<sockets, sock, redis, queue, db, patches>>
(* getProfile throws: the socket stays authenticated, without a session. *)
AuthFails(h) == /\ "pgdown" \in Environment
                /\ pc[h] = "auth_load"
                /\ Free(h)
                /\ UNCHANGED <<sockets, redis, queue, db, patches>>
AuthSet(h) == /\ pc[h] = "auth_set"
              /\ Goto(h, "auth_online")
              /\ SetKey(local[h])
              /\ local' = [local EXCEPT ![h] = Blank]
              /\ UNCHANGED <<sockets, sock, online, queue, db, patches>>
AuthExpire(h) == /\ pc[h] = "auth_expire"
                 /\ Goto(h, "auth_online")
                 /\ ExpireKey(SessionTtl)
                 /\ UNCHANGED <<sockets, sock, local, online, queue, db, patches>>
AuthOnline(h) == /\ pc[h] = "auth_online"
                 /\ Free(h)
                 /\ online' = TRUE
                 /\ UNCHANGED <<sockets, session, ttl, queue, db, patches>>

-----------------------------------------------------------------------------
(* onPatch and onSave of an authenticated socket.  A handler runs as far as  *)
(* its first command, the GET of the session, when the message arrives;      *)
(* without a session it answers at once and changes nothing.                 *)
PatchStart(h, s) == /\ sockets[s] = "authed"
                    /\ patches < MaxPatches
                    /\ ttl > 0
                    /\ \E changed \in SUBSET Keys :
                         Accept(h, s, "patch_set", Merge(session, NextWrite(changed)))
                    /\ patches' = patches + 1
                    /\ UNCHANGED <<sockets, redis, queue, db>>
SaveStart(h, s) == /\ sockets[s] = "authed"
                   /\ ttl > 0
                   /\ Accept(h, s, "save_persist", session)
                   /\ UNCHANGED <<sockets, redis, queue, db, patches>>

(* SessionService.patch ends with the SET of what it merged. *)
PatchSet(t) == /\ pc[t] = "patch_set"
               /\ SetKey(local[t])
               /\ Return(t)
               /\ UNCHANGED <<sockets, online, queue, db, patches>>

(* saveToDb persists what it read, without the transient keys, then patches  *)
(* lastSavedAt: it reads the session again, and writes nothing if it is gone. *)
SavePersist(t) == /\ pc[t] = "save_persist"
                  /\ db' = Strip(local[t])
                  /\ Goto(t, "patch_get")
                  /\ local' = [local EXCEPT ![t] = Stamp]
                  /\ UNCHANGED <<sockets, sock, redis, queue, patches>>
PatchGet(t) == /\ pc[t] = "patch_get"
               /\ IF ttl > 0
                    THEN /\ Goto(t, "patch_set")
                         /\ local' = [local EXCEPT ![t] = Merge(session, local[t])]
                         /\ UNCHANGED sock
                    ELSE Return(t)
               /\ UNCHANGED <<sockets, redis, queue, db, patches>>
(* patchProfile throws: the client gets an error; a job without `attempts`   *)
(* fails for good.                                                           *)
SaveFails(h) == /\ "pgdown" \in Environment
                /\ pc[h] = "save_persist"
                /\ Free(h)
                /\ UNCHANGED <<sockets, redis, queue, db, patches>>

-----------------------------------------------------------------------------
(* SessionFlushProcessor.process: saveToDb, then destroy() if it saved. *)
FlushStart_NoSave == /\ job = "delayed"
                     /\ delay = 0
                     /\ job' = "active"
                     /\ Goto(Worker, "destroy_del")
                     /\ UNCHANGED <<sockets, sock, local, redis, delay, stalls, db, patches>>
FlushStart == /\ job = "delayed"
              /\ delay = 0
              /\ job' = "active"
              /\ Goto(Worker, "flush_get")
              /\ UNCHANGED <<sockets, sock, local, redis, delay, stalls, db, patches>>
FlushGet == /\ pc[Worker] = "flush_get"
            /\ Goto(Worker, IF ttl > 0 THEN "save_persist" ELSE "finish")
            /\ local' = [local EXCEPT ![Worker] = session]
            /\ UNCHANGED <<sockets, sock, redis, queue, db, patches>>
FlushFails == /\ "pgdown" \in Environment
              /\ pc[Worker] = "save_persist"
              /\ job' = "failed"
              /\ Goto(Worker, "idle")
              /\ local' = [local EXCEPT ![Worker] = Blank]
              /\ UNCHANGED <<sockets, sock, redis, delay, stalls, db, patches>>
DestroyDel == /\ pc[Worker] = "destroy_del"
              /\ Goto(Worker, "destroy_srem")
              /\ DelKey
              /\ UNCHANGED <<sockets, sock, local, online, queue, db, patches>>
DestroySrem_Skip == /\ pc[Worker] = "destroy_srem"
                    /\ Goto(Worker, "finish")
                    /\ UNCHANGED <<sockets, sock, local, redis, queue, db, patches>>
DestroySrem == /\ pc[Worker] = "destroy_srem"
               /\ Goto(Worker, "finish")
               /\ online' = FALSE
               /\ UNCHANGED <<sockets, sock, local, session, ttl, queue, db, patches>>
(* removeOnComplete *)
FlushDone == /\ pc[Worker] = "finish"
             /\ Goto(Worker, "idle")
             /\ job' = "none" /\ delay' = 0 /\ stalls' = 0
             /\ UNCHANGED <<sockets, sock, local, redis, db, patches>>

-----------------------------------------------------------------------------
(* The environment. *)

(* PATCH /users/me replaces the blob, transient keys included. *)
HttpPatch == /\ "http" \in Environment
             /\ patches < MaxPatches
             /\ \E changed \in SUBSET Keys : db' = NextWrite(changed)
             /\ patches' = patches + 1
             /\ UNCHANGED <<sockets, threads, redis, queue>>

(* One unit of time: the key loses life, the delayed job comes closer.  Unless *)
(* the run allows a lag, commands take no time: a unit passes only when no     *)
(* handler is in flight and no job is due or executing.                        *)
Quiet == /\ \A t \in Threads : pc[t] = "idle"
         /\ job # "active"
         /\ ~(job = "delayed" /\ delay = 0)
Tick == /\ "lag" \in Environment \/ Quiet
        /\ "idle" \in Environment \/ ~(Connected /\ ttl = 1)
        /\ IF ttl > 1 THEN ttl' = ttl - 1 /\ UNCHANGED session ELSE DelKey
        /\ delay' = (IF delay > 0 THEN delay - 1 ELSE 0)
        /\ UNCHANGED <<sockets, threads, online, job, stalls, db, patches>>

(* The process dies: every socket is gone without its handleDisconnect. *)
Crash == /\ "crash" \in Environment
         /\ sockets' = [s \in Sockets |-> "closed"]
         /\ pc' = [t \in Threads |-> "idle"]
         /\ sock' = [h \in Handlers |-> NoSocket]
         /\ local' = [t \in Threads |-> Blank]
         /\ UNCHANGED <<redis, queue, db, patches>>

(* BullMQ finds an executing job whose worker is gone: it is tried once more *)
(* (maxStalledCount 1), then it fails.                                       *)
Requeue == /\ job = "active"
           /\ pc[Worker] = "idle"
           /\ IF stalls = 0 THEN job' = "delayed" /\ stalls' = 1
                            ELSE job' = "failed" /\ UNCHANGED stalls
           /\ UNCHANGED <<sockets, threads, redis, delay, db, patches>>

-----------------------------------------------------------------------------
Init == /\ sockets = [s \in Sockets |-> "closed"]
        /\ pc = [t \in Threads |-> "idle"]
        /\ sock = [h \in Handlers |-> NoSocket]
        /\ local = [t \in Threads |-> Blank]
        /\ session = Blank /\ ttl = 0 /\ online = FALSE
        /\ job = "none" /\ delay = 0 /\ stalls = 0
        /\ db = Blank
        /\ patches = 0

SaveStep(t) == SavePersist(t) \/ PatchGet(t) \/ PatchSet(t)
CloseStep(h) == CloseExists(h) \/ CloseExpire(h) \/ CloseRemove(h) \/ CloseAdd(h)
AuthStep(h) == \/ AuthGet(h) \/ AuthLoad(h) \/ AuthFails(h) \/ AuthSet(h)
               \/ AuthExpire(h) \/ AuthOnline(h)
HandlerStep(h) == CloseStep(h) \/ AuthStep(h) \/ SaveStep(h) \/ SaveFails(h)
WorkerStep == \/ FlushStart \/ FlushGet \/ SaveStep(Worker) \/ FlushFails
              \/ DestroyDel \/ DestroySrem \/ FlushDone
Message(h, s) == AuthStart(h, s) \/ SaveStart(h, s) \/ PatchStart(h, s) \/ Close(h, s)

Next == \/ \E s \in Sockets : Connect(s) \/ CloseNew(s)
        \/ \E h \in Handlers, s \in Sockets : Message(h, s)
        \/ \E h \in Handlers : HandlerStep(h)
        \/ WorkerStep
        \/ HttpPatch \/ Tick \/ Crash \/ Requeue

Spec == Init /\ [][Next]_vars

(* The event loop runs every handler it started, the worker serves the queue *)
(* and clocks run; nobody is obliged to connect, play or save.               *)
Fairness == /\ \A h \in Handlers : WF_vars(HandlerStep(h))
            /\ WF_vars(WorkerStep)
            /\ WF_vars(Tick)
            /\ WF_vars(Requeue)
FairSpec == Spec /\ Fairness

-----------------------------------------------------------------------------
(* What is wanted of the session. *)

Closing == \E h \in Handlers : pc[h] \in ClosePoints

(* The state the player would see after authenticating again. *)
Latest == IF ttl > 0 THEN Strip(session) ELSE Strip(db)

(* The safety net of session-flush.processor.ts:17-24.  Once a player's      *)
(* sockets are gone and their close handlers are done, a session left in     *)
(* Redis always has a waiting flush job, due while the key still lives.      *)
SafetyNet == ttl > 0 /\ ~Connected /\ ~Closing /\ job # "active"
               => job = "delayed" /\ delay < ttl

(* Why the net holds, as an inductive invariant of the environments without  *)
(* failures, races and lag: a step that could disturb one part is ruled out  *)
(* by another.                                                               *)
HandlerBusy == \E h \in Handlers : pc[h] # "idle"
OneSocket == \A s, r \in Sockets : sockets[s] = "authed" /\ sockets[r] = "authed" => s = r
BusyHasSocket == \A h \in Handlers : pc[h] # "idle" => sock[h] \in Sockets
NewIsQuiet == \A s \in Sockets : sockets[s] = "new" => ~Busy(s)
WorkerAlone == /\ job = "active" <=> pc[Worker] # "idle"
               /\ job = "active" => ~Connected /\ ~HandlerBusy
ConnectedHasNoJob == Connected => job = "none" /\ ~Closing
BusyJobIsFresh == HandlerBusy => \/ job = "none" /\ (Connected \/ Closing)
                                 \/ job = "delayed" /\ delay = Grace
CloseHasTtl == \A h \in Handlers :
                 pc[h] \in {"close_remove", "close_add"} /\ ttl > 0 => ttl > Grace
FlushedIsGone == pc[Worker] \in {"destroy_srem", "finish"} => ttl = 0
NeverFailed == job # "failed"
ConnectedIsListed == Connected /\ ~online => \E h \in Handlers : pc[h] \in AuthPoints
ListedHasSession ==
  /\ \A h \in Handlers : pc[h] \in {"auth_expire", "auth_online"} => ttl > 0
  /\ online /\ ttl = 0 => Connected \/ pc[Worker] = "destroy_srem"
NetInv == /\ TypeOK /\ OneSocket /\ BusyHasSocket /\ NewIsQuiet
          /\ WorkerAlone /\ ConnectedHasNoJob /\ BusyJobIsFresh
          /\ CloseHasTtl /\ FlushedIsGone /\ NeverFailed /\ SafetyNet
          /\ ConnectedIsListed /\ ListedHasSession

(* What SessionService.isOnline tells when no handler or job is at work.      *)
(* Whoever is connected is in session:online.  Whoever is in it without a    *)
(* socket, because the SADD of an auth came after the SREM of the close      *)
(* (session.service.ts:45, 58 and 91), has a flush job that will find the    *)
(* session and so reach the SREM of destroy(): the entry does not stay.      *)
AllDone == \A t \in Threads : pc[t] = "idle"
PresenceIsRepaired ==
  AllDone => /\ Connected => online
             /\ online /\ ~Connected => job = "delayed" /\ delay < ttl

(* It does not simply tell who is connected: the last writer wins.           *)
PresenceSettles == AllDone => online = Connected

(* "If user reconnects before grace expires, session is still intact"        *)
(* (session.service.ts:83): no step takes the session away from a player who *)
(* has an authenticated socket.                                              *)
LiveSessionKept == [][ttl > 0 /\ ttl' = 0 => ~Connected]_vars

(* The flush job does not "delete the session right in the middle of play"   *)
(* (realtime.gateway.ts:142-143): when nothing is in progress, a player with *)
(* an authenticated socket has a session.                                    *)
PlayerHasSession == AllDone /\ Connected => ttl > 0

(* A key of the profile row never goes back to an earlier value: no save or  *)
(* flush writes a state older than what is stored, across expiry, failed     *)
(* saves, crashes and a job that is run twice.                               *)
StoredNeverRegresses == [][\A k \in Keys : db'[k] >= db[k]]_vars

(* What the player would see after authenticating again never goes back:     *)
(* a write the server has answered with `patched` is not undone.             *)
PatchesNeverUndone == [][\A k \in Keys : Latest'[k] >= Latest[k]]_vars

(* "TTL dài hơn grace một khoảng đệm" (session.service.ts:94): disconnect()  *)
(* leaves the session the grace period plus the buffer.                      *)
DisconnectTtlIsGracePlusBuffer ==
  [][\A h \in Handlers : pc[h] = "close_expire" /\ pc'[h] = "close_remove"
       => ttl' \in {0, Grace + FlushBuffer}]_vars

(* A player who leaves and stays away has the last state in Postgres:        *)
(* the close handler, the delay and the flush get there before the key dies. *)
EventuallyStored ==
  \A k \in Keys : \A v \in 1..MaxPatches :
    (Latest[k] = v /\ ~Connected) ~> (db[k] >= v \/ Connected)

(* The session implements the ledger: it is the latest state while it        *)
(* exists, the stored blob is the latest state otherwise.                    *)
Ledger == INSTANCE ProgressLedger WITH latest <- Latest, stored <- db
LedgerSpec == Ledger!Spec

(* Why progress is kept where messages of one player do not overlap, in      *)
(* inductive form.  One thread works at a time: a handler for the            *)
(* authenticated socket, a close handler when there is none, or the job when *)
(* nobody is there.                                                          *)
Alone == {"pipeline", "overlap", "race"} \cap Environment = {}
SoloInv ==
  /\ OneSocket /\ BusyHasSocket
  /\ \A t, u \in Threads : pc[t] # "idle" /\ pc[u] # "idle" => t = u
  /\ \A h \in Handlers : /\ pc[h] \in AuthPoints \cup SavePoints => sockets[sock[h]] = "authed"
                         /\ pc[h] \in ClosePoints => ~Connected
  /\ Connected \/ HandlerBusy => job = "none"
  /\ pc[Worker] # "idle" => job = "active"

(* Every copy of the object, in Redis or carried across an await, is at      *)
(* least as new as what is stored, and none is newer than the client.        *)
AtLeast(c, d) == \A k \in Keys : c[k] >= d[k]
Known(c) == \A k \in Keys \ TransientKeys : c[k] <= patches
CopiesLead ==
  /\ Known(session) /\ Known(db) /\ \A t \in Threads : Known(local[t])
  /\ db = Strip(db)
  /\ ttl > 0 => AtLeast(Strip(session), db)
  /\ \A t \in Threads :
       /\ pc[t] \in {"auth_set", "save_persist", "patch_set"} => AtLeast(Strip(local[t]), db)
       /\ pc[t] = "save_persist" /\ ttl > 0 => session = local[t]
       /\ pc[t] = "patch_get" => local[t] = Stamp

(* Nobody loads a session that exists or saves one that is gone, a patch     *)
(* builds on the session, and what the job drops is what it stored.          *)
NothingIsLost ==
  /\ \A t \in Threads :
       /\ pc[t] \in {"auth_load", "auth_set"} => ttl = 0
       /\ pc[t] = "save_persist" => ttl > 0
       /\ pc[t] = "patch_set" /\ ttl > 0 => AtLeast(Strip(local[t]), Strip(session))
  /\ pc[Worker] \in {"patch_get", "destroy_del"} /\ ttl > 0 => Strip(session) = db
  /\ pc[Worker] = "patch_set" => Strip(local[Worker]) = db

ProgressInv ==
  /\ TypeOK
  /\ Alone => /\ SoloInv
              /\ "http" \notin Environment => CopiesLead
              /\ Environment \subseteq {"reauth"} => NothingIsLost
=============================================================================
