------------------------- MODULE PlayerSession_proof -------------------------
(* Theorems about PlayerSession, for every number of sockets, handlers, keys *)
(* and writes, every TTL, and the environments each theorem names.           *)
EXTENDS PlayerSession, TLAPS

-----------------------------------------------------------------------------
(* Values are contents of a session object. *)
LEMMA ValueTypes ==
  /\ Blank \in Contents
  /\ Stamp \in Contents
  /\ \A c \in Contents : Strip(c) \in Contents
  /\ \A c, d \in Contents : Merge(c, d) \in Contents
  /\ patches \in 0..MaxPatches /\ patches < MaxPatches
       => \A changed \in SUBSET Keys : NextWrite(changed) \in Contents
  BY BoundAssumption DEF Blank, Stamp, Contents, Strip, Merge, NextWrite, Absent

(* The TTL that disconnect() sets outlives the grace period, be it a sum or  *)
(* the concatenation of two texts.                                           *)
LEMMA DisconnectOutlivesGrace == DisconnectTtl \in Nat /\ DisconnectTtl > Grace
  BY TtlAssumption DEF DisconnectTtl, Shift

-----------------------------------------------------------------------------
(* Typing. *)
LEMMA InitTyped == Init => TypeOK
<1> SUFFICES ASSUME Init PROVE TypeOK
  OBVIOUS
<1>1. Blank \in Contents /\ 0 \in 0..Grace /\ 0 \in 0..1 /\ 0 \in 0..MaxPatches
  BY ValueTypes, TtlAssumption, BoundAssumption
<1>2. "idle" \in HandlerPoints /\ "idle" \in WorkerPoints
  BY DEF HandlerPoints, WorkerPoints
<1> QED  BY <1>1, <1>2 DEF Init, TypeOK, Threads

(* A message keeps the types.                                                *)
LEMMA MessageTyped ==
  ASSUME TypeOK, NEW h \in Handlers, NEW s \in Sockets, Message(h, s)
  PROVE  TypeOK'
<1> USE ValueTypes, ThreadAssumption, TtlAssumption
<1> USE DEF TypeOK, Threads, redis, queue, Goto, Accept,
            HandlerPoints, WorkerPoints, AuthPoints, ClosePoints, SavePoints, DestroyPoints
<1>1. CASE AuthStart(h, s)
  <2>1. job' \in {"none", "delayed", "active", "failed"} /\ delay' \in 0..Grace /\ stalls' \in 0..1
    BY <1>1 DEF AuthStart, RemoveJob
  <2>2. pc' \in [Threads -> HandlerPoints \cup WorkerPoints] /\ pc' = [pc EXCEPT ![h] = "auth_get"]
    BY <1>1 DEF AuthStart
  <2>3. (\A g \in Handlers : pc'[g] \in HandlerPoints) /\ pc'[Worker] \in WorkerPoints
    BY <2>2
  <2>4. /\ sockets' \in [Sockets -> {"closed", "new", "authed"}]
        /\ sock' \in [Handlers -> Sockets \cup {NoSocket}]
        /\ local' \in [Threads -> Contents]
    BY <1>1 DEF AuthStart
  <2>5. UNCHANGED <<session, ttl, online, db, patches>>
    BY <1>1 DEF AuthStart
  <2> QED  BY <2>1, <2>2, <2>3, <2>4, <2>5
<1>2. CASE PatchStart(h, s)
  <2>1. PICK changed \in SUBSET Keys :
          Accept(h, s, "patch_set", Merge(session, NextWrite(changed)))
    BY <1>2 DEF PatchStart
  <2>2. Merge(session, NextWrite(changed)) \in Contents
    BY <1>2 DEF PatchStart
  <2>3. patches' \in 0..MaxPatches
    BY <1>2, BoundAssumption DEF PatchStart
  <2> QED  BY <1>2, <2>1, <2>2, <2>3 DEF PatchStart
<1>3. CASE SaveStart(h, s)
  BY <1>3 DEF SaveStart
<1>4. CASE Close(h, s)
  BY <1>4 DEF Close
<1> QED  BY <1>1, <1>2, <1>3, <1>4 DEF Message

(* A step of a handler keeps the types.                                      *)
LEMMA HandlerTyped ==
  ASSUME TypeOK, NEW h \in Handlers, HandlerStep(h)
  PROVE  TypeOK'
<1> USE ValueTypes, DisconnectOutlivesGrace, ThreadAssumption, TtlAssumption
<1> USE DEF TypeOK, Threads, redis, queue, Goto, Free, Return, SetKey, ExpireKey,
            HandlerPoints, WorkerPoints, AuthPoints, ClosePoints, SavePoints, DestroyPoints
<1>1. CASE CloseExists(h)  BY <1>1 DEF CloseExists
<1>2. CASE CloseExpire(h)  BY <1>2 DEF CloseExpire
<1>3. CASE CloseRemove(h)  BY <1>3 DEF CloseRemove, RemoveJob
<1>4. CASE CloseAdd(h)     BY <1>4 DEF CloseAdd, AddJob
<1>5. CASE AuthGet(h)      BY <1>5 DEF AuthGet
<1>6. CASE AuthLoad(h)     BY <1>6 DEF AuthLoad
<1>7. CASE AuthFails(h)    BY <1>7 DEF AuthFails
<1>8. CASE AuthSet(h)      BY <1>8 DEF AuthSet
<1>9. CASE AuthExpire(h)   BY <1>9 DEF AuthExpire
<1>10. CASE AuthOnline(h)  BY <1>10 DEF AuthOnline
<1>11. CASE SavePersist(h) BY <1>11 DEF SavePersist
<1>12. CASE PatchGet(h)    BY <1>12 DEF PatchGet
<1>13. CASE PatchSet(h)    BY <1>13 DEF PatchSet
<1>14. CASE SaveFails(h)   BY <1>14 DEF SaveFails
<1> QED  BY <1>1, <1>2, <1>3, <1>4, <1>5, <1>6, <1>7, <1>8, <1>9, <1>10, <1>11,
            <1>12, <1>13, <1>14 DEF HandlerStep, CloseStep, AuthStep, SaveStep

(* A step of the flush worker keeps the types.                               *)
LEMMA WorkerTyped ==
  ASSUME TypeOK, WorkerStep
  PROVE  TypeOK'
<1> USE ValueTypes, ThreadAssumption, TtlAssumption
<1> USE DEF TypeOK, Threads, redis, queue, Goto, Return, SetKey, DelKey,
            HandlerPoints, WorkerPoints, AuthPoints, ClosePoints, SavePoints, DestroyPoints
<1>1. CASE FlushStart           BY <1>1 DEF FlushStart
<1>2. CASE FlushGet             BY <1>2 DEF FlushGet
<1>3. CASE SavePersist(Worker)  BY <1>3 DEF SavePersist
<1>4. CASE PatchGet(Worker)     BY <1>4 DEF PatchGet
<1>5. CASE PatchSet(Worker)     BY <1>5 DEF PatchSet
<1>6. CASE FlushFails           BY <1>6 DEF FlushFails
<1>7. CASE DestroyDel           BY <1>7 DEF DestroyDel
<1>8. CASE DestroySrem          BY <1>8 DEF DestroySrem
<1>9. CASE FlushDone            BY <1>9 DEF FlushDone
<1> QED  BY <1>1, <1>2, <1>3, <1>4, <1>5, <1>6, <1>7, <1>8, <1>9 DEF WorkerStep, SaveStep

(* Every step keeps the types.                                               *)
LEMMA NextTyped == TypeOK /\ [Next]_vars => TypeOK'
<1> SUFFICES ASSUME TypeOK, [Next]_vars PROVE TypeOK'
  OBVIOUS
<1> USE ValueTypes, ThreadAssumption, TtlAssumption
<1>1. ASSUME NEW s \in Sockets, Connect(s) \/ CloseNew(s) PROVE TypeOK'
  BY <1>1 DEF TypeOK, Connect, CloseNew, threads, redis, queue
<1>2. ASSUME NEW h \in Handlers, NEW s \in Sockets, Message(h, s) PROVE TypeOK'
  BY <1>2, MessageTyped
<1>3. ASSUME NEW h \in Handlers, HandlerStep(h) PROVE TypeOK'
  BY <1>3, HandlerTyped
<1>4. CASE WorkerStep
  BY <1>4, WorkerTyped
<1>5. CASE HttpPatch
  BY <1>5, BoundAssumption DEF TypeOK, HttpPatch, threads, redis, queue
<1>6. CASE Tick
  BY <1>6 DEF TypeOK, Tick, threads, DelKey
<1>7. CASE Crash
  BY <1>7 DEF TypeOK, Crash, redis, queue, Threads, HandlerPoints, WorkerPoints
<1>8. CASE Requeue
  BY <1>8 DEF TypeOK, Requeue, threads, redis
<1>9. CASE UNCHANGED vars
  BY <1>9 DEF TypeOK, vars, threads, redis, queue
<1> QED  BY <1>1, <1>2, <1>3, <1>4, <1>5, <1>6, <1>7, <1>8, <1>9 DEF Next

(* Every variable keeps its type, in every environment: among others, a job  *)
(* is never due later than the grace period, and every object the handlers   *)
(* carry across an await is a session object.                                *)
THEOREM TypeCorrect == Spec => []TypeOK
  BY InitTyped, NextTyped, PTL DEF Spec

-----------------------------------------------------------------------------
(* The safety net. *)

(* Nothing fails, every wait is over before time passes, and a player is    *)
(* back only after the old socket is gone and before the job executes.      *)
(* The code reads the TTL and the grace period from the environment and     *)
(* compares nothing (session.service.ts:33-34): it takes the first for the  *)
(* longer one, as their defaults are.                                       *)
NetEnvironment == /\ Environment \subseteq {"pipeline", "http", "idle", "reauth"}
                  /\ SessionTtl > Grace

(* At first there is no session, no job and nobody connected.                *)
LEMMA InitNet == Init => NetInv
<1> SUFFICES ASSUME Init PROVE NetInv
  OBVIOUS
<1>1. TypeOK
  BY InitTyped
<1>2. /\ \A t \in Threads : pc[t] = "idle"
      /\ \A s \in Sockets : sockets[s] = "closed"
      /\ job = "none" /\ ttl = 0 /\ online = FALSE
  BY DEF Init
<1> QED  BY <1>1, <1>2 DEF NetInv, OneSocket, BusyHasSocket, NewIsQuiet,
       WorkerAlone,
         ConnectedHasNoJob, BusyJobIsFresh, CloseHasTtl, FlushedIsGone, NeverFailed,
         SafetyNet, ConnectedIsListed, ListedHasSession, Connected, Closing,
         HandlerBusy, Busy, Threads, ClosePoints

(* A handler in flight: the worker rests, and the job is new or absent. *)
LEMMA InFlight ==
  ASSUME NetInv, NEW h \in Handlers, pc[h] # "idle"
  PROVE  /\ HandlerBusy /\ job # "active" /\ pc[Worker] = "idle"
         /\ sock[h] \in Sockets
         /\ \/ job = "none" /\ (Connected \/ Closing)
            \/ job = "delayed" /\ delay = Grace
  BY DEF NetInv, HandlerBusy, WorkerAlone, BusyHasSocket, BusyJobIsFresh

(* A close handler's commands keep the net: the TTL comes before the job.    *)
LEMMA CloseNet ==
  ASSUME NetInv, NEW h \in Handlers, CloseStep(h)
  PROVE  NetInv'
<1>1. TypeOK'
  BY HandlerTyped DEF NetInv, HandlerStep
<1> USE InFlight, <1>1, DisconnectOutlivesGrace, ThreadAssumption, TtlAssumption
<1> USE DEF NetInv, TypeOK, Threads, OneSocket, BusyHasSocket, NewIsQuiet,
       WorkerAlone,
            ConnectedHasNoJob, BusyJobIsFresh, CloseHasTtl, FlushedIsGone, NeverFailed,
            SafetyNet, ConnectedIsListed, ListedHasSession, Connected, Closing,
            HandlerBusy, Busy, ClosePoints, AuthPoints, redis, queue, Goto, Free
<1>2. CASE CloseExists(h)  BY <1>2 DEF CloseExists
<1>3. CASE CloseExpire(h)  BY <1>3 DEF CloseExpire, ExpireKey
<1>4. CASE CloseRemove(h)  BY <1>4 DEF CloseRemove, RemoveJob
<1>5. CASE CloseAdd(h)     BY <1>5 DEF CloseAdd, AddJob
<1> QED  BY <1>2, <1>3, <1>4, <1>5 DEF CloseStep

(* The commands of an auth handler keep the safety net.                      *)
LEMMA AuthNet ==
  ASSUME NetInv, NetEnvironment, NEW h \in Handlers, AuthStep(h)
  PROVE  NetInv'
<1>1. TypeOK'
  BY HandlerTyped DEF NetInv, HandlerStep
<1> USE InFlight, <1>1, ThreadAssumption, TtlAssumption
<1> USE DEF NetEnvironment, NetInv, TypeOK, Threads, OneSocket, BusyHasSocket, NewIsQuiet,
       WorkerAlone,
            ConnectedHasNoJob, BusyJobIsFresh, CloseHasTtl, FlushedIsGone, NeverFailed,
            SafetyNet, ConnectedIsListed, ListedHasSession, Connected, Closing,
            HandlerBusy, Busy, ClosePoints, AuthPoints, redis, queue, Goto, Free
<1>2. CASE AuthGet(h)     BY <1>2 DEF AuthGet
<1>3. CASE AuthLoad(h)    BY <1>3 DEF AuthLoad
<1>4. CASE AuthFails(h)   BY <1>4 DEF AuthFails
<1>5. CASE AuthSet(h)     BY <1>5 DEF AuthSet, SetKey
<1>6. CASE AuthExpire(h)  BY <1>6 DEF AuthExpire, ExpireKey
<1>7. CASE AuthOnline(h)  BY <1>7 DEF AuthOnline
<1> QED  BY <1>2, <1>3, <1>4, <1>5, <1>6, <1>7 DEF AuthStep

(* The commands of a patch or save handler keep the safety net.              *)
LEMMA SaveNet ==
  ASSUME NetInv, NetEnvironment, NEW h \in Handlers, SaveStep(h) \/ SaveFails(h)
  PROVE  NetInv'
<1>1. TypeOK'
  BY HandlerTyped DEF NetInv, HandlerStep
<1> USE InFlight, <1>1, ThreadAssumption, TtlAssumption
<1> USE DEF NetEnvironment, NetInv, TypeOK, Threads, OneSocket, BusyHasSocket, NewIsQuiet,
       WorkerAlone,
            ConnectedHasNoJob, BusyJobIsFresh, CloseHasTtl, FlushedIsGone, NeverFailed,
            SafetyNet, ConnectedIsListed, ListedHasSession, Connected, Closing,
            HandlerBusy, Busy, ClosePoints, AuthPoints, redis, queue, Goto, Free, Return
<1>2. CASE SavePersist(h)  BY <1>2 DEF SavePersist
<1>3. CASE PatchGet(h)     BY <1>3 DEF PatchGet
<1>4. CASE PatchSet(h)     BY <1>4 DEF PatchSet, SetKey
<1>5. CASE SaveFails(h)    BY <1>5 DEF SaveFails
<1> QED  BY <1>2, <1>3, <1>4, <1>5 DEF SaveStep

(* The worker executes only while nobody is connected and no handler is in   *)
(* flight; when its job ends, the session is gone.                           *)
LEMMA WorkerNet ==
  ASSUME NetInv, NetEnvironment, WorkerStep
  PROVE  NetInv'
<1>1. TypeOK'
  BY WorkerTyped DEF NetInv
<1> USE <1>1, ThreadAssumption, TtlAssumption
<1> USE DEF NetEnvironment, NetInv, TypeOK, Threads, OneSocket, BusyHasSocket, NewIsQuiet,
       WorkerAlone,
            ConnectedHasNoJob, BusyJobIsFresh, CloseHasTtl, FlushedIsGone, NeverFailed,
            SafetyNet, ConnectedIsListed, ListedHasSession, Connected, Closing,
            HandlerBusy, Busy, ClosePoints, AuthPoints, redis, queue, Goto, Return
<1>2. CASE FlushStart           BY <1>2 DEF FlushStart
<1>3. CASE FlushGet             BY <1>3 DEF FlushGet
<1>4. CASE SavePersist(Worker)  BY <1>4 DEF SavePersist
<1>5. CASE PatchGet(Worker)     BY <1>5 DEF PatchGet
<1>6. CASE PatchSet(Worker)     BY <1>6 DEF PatchSet, SetKey
<1>7. CASE FlushFails           BY <1>7 DEF FlushFails
<1>8. CASE DestroyDel           BY <1>8 DEF DestroyDel, DelKey
<1>9. CASE DestroySrem          BY <1>9 DEF DestroySrem
<1>10. CASE FlushDone           BY <1>10 DEF FlushDone
<1> QED  BY <1>2, <1>3, <1>4, <1>5, <1>6, <1>7, <1>8, <1>9, <1>10 DEF WorkerStep, SaveStep

(* A message keeps the safety net when it begins a handler.                  *)
LEMMA MessageNet ==
  ASSUME NetInv, NetEnvironment, NEW h \in Handlers, NEW s \in Sockets, Message(h, s)
  PROVE  NetInv'
<1>1. TypeOK'
  BY MessageTyped DEF NetInv
<1> USE <1>1, ThreadAssumption, TtlAssumption
<1> USE DEF NetEnvironment, NetInv, TypeOK, Threads, OneSocket, BusyHasSocket, NewIsQuiet,
       WorkerAlone,
            ConnectedHasNoJob, BusyJobIsFresh, CloseHasTtl, FlushedIsGone, NeverFailed,
            SafetyNet, ConnectedIsListed, ListedHasSession, Connected, Closing,
            HandlerBusy, Busy, ClosePoints, AuthPoints, redis, queue, Goto, Accept
<1>2. CASE AuthStart(h, s)   BY <1>2 DEF AuthStart, RemoveJob
<1>3. CASE PatchStart(h, s)  BY <1>3 DEF PatchStart
<1>4. CASE SaveStart(h, s)   BY <1>4 DEF SaveStart
<1>5. CASE Close(h, s)       BY <1>5 DEF Close
<1> QED  BY <1>2, <1>3, <1>4, <1>5 DEF Message

(* Every step keeps the safety net.                                          *)
LEMMA NextNet ==
  ASSUME NetEnvironment
  PROVE  NetInv /\ [Next]_vars => NetInv'
<1> SUFFICES ASSUME NetInv, [Next]_vars PROVE NetInv'
  OBVIOUS
<1>1. TypeOK'
  BY NextTyped DEF NetInv
<1> USE <1>1
<1>2. ASSUME NEW h \in Handlers, NEW s \in Sockets, Message(h, s) PROVE NetInv'
  BY <1>2, MessageNet
<1>3. ASSUME NEW h \in Handlers, HandlerStep(h) PROVE NetInv'
  BY <1>3, CloseNet, AuthNet, SaveNet DEF HandlerStep
<1>4. CASE WorkerStep
  BY <1>4, WorkerNet
<1> USE TtlAssumption
<1> USE DEF NetEnvironment, NetInv, TypeOK, Threads, OneSocket, BusyHasSocket, NewIsQuiet,
       WorkerAlone,
            ConnectedHasNoJob, BusyJobIsFresh, CloseHasTtl, FlushedIsGone, NeverFailed,
            SafetyNet, ConnectedIsListed, ListedHasSession, Connected, Closing,
            HandlerBusy, Busy, ClosePoints, AuthPoints, redis, queue, threads
<1>5. ASSUME NEW s \in Sockets, Connect(s) \/ CloseNew(s) PROVE NetInv'
  <2>1. CASE Connect(s)   BY <2>1 DEF Connect
  <2>2. CASE CloseNew(s)  BY <2>2 DEF CloseNew
  <2> QED  BY <1>5, <2>1, <2>2
<1>6. CASE HttpPatch
  BY <1>6 DEF HttpPatch
<1>7. CASE Tick
  BY <1>7, ThreadAssumption DEF Tick, Quiet, DelKey
<1>8. CASE Crash
  BY <1>8 DEF Crash
<1>9. CASE Requeue
  BY <1>9 DEF Requeue
<1>10. CASE UNCHANGED vars
  BY <1>10 DEF vars
<1> QED  BY <1>2, <1>3, <1>4, <1>5, <1>6, <1>7, <1>8, <1>9, <1>10 DEF Next

(* One player, one socket, one job: the parts of NetInv rule out each other's *)
(* disturbances, however messages, commands and jobs interleave.             *)
THEOREM NetIsKept ==
  ASSUME NetEnvironment
  PROVE  Spec => []NetInv
  BY InitNet, NextNet, PTL DEF Spec

(* A session without a player is always covered by a flush job that is due   *)
(* before the session expires: no crash, no failure and no race, but any     *)
(* interleaving of the messages of the player's socket with its close.       *)
THEOREM SafetyNetHolds ==
  ASSUME NetEnvironment
  PROVE  Spec => []SafetyNet
<1>1. NetInv => SafetyNet
  BY DEF NetInv
<1> QED  BY <1>1, NetIsKept, PTL

(* When no handler or job is at work, whoever has an authenticated socket is *)
(* in session:online, and an entry left without one, as an auth that overlaps *)
(* the close of its socket leaves it, is covered by a flush job that will    *)
(* still find the session and go on to remove the entry.                     *)
THEOREM PresenceHeals ==
  ASSUME NetEnvironment
  PROVE  Spec => []PresenceIsRepaired
<1>1. NetInv => PresenceIsRepaired
  <2> SUFFICES ASSUME NetInv, AllDone
               PROVE  /\ Connected => online
                      /\ online /\ ~Connected => job = "delayed" /\ delay < ttl
    BY DEF PresenceIsRepaired
  <2> USE DEF NetInv, AllDone, Threads
  <2>1. Connected => online
    BY DEF ConnectedIsListed, AuthPoints
  <2>2. ASSUME online, ~Connected
        PROVE  job = "delayed" /\ delay < ttl
    <3>1. ttl > 0
      BY <2>2 DEF ListedHasSession, TypeOK
    <3>2. job # "active" /\ ~Closing
      BY DEF WorkerAlone, Closing, ClosePoints
    <3> QED  BY <2>2, <3>1, <3>2 DEF SafetyNet
  <2> QED  BY <2>1, <2>2
<1> QED  BY <1>1, NetIsKept, PTL

-----------------------------------------------------------------------------
(* The session of a connected player. *)
LEMMA StepKeepsLiveSession ==
  ASSUME NetEnvironment, "idle" \notin Environment, NetInv, Next, ttl > 0, ttl' = 0
  PROVE  ~Connected
<1> USE TtlAssumption, DisconnectOutlivesGrace
<1> USE DEF NetInv, TypeOK, redis
<1>1. ASSUME NEW h \in Handlers, NEW s \in Sockets, Message(h, s) PROVE FALSE
  BY <1>1 DEF Message, AuthStart, PatchStart, SaveStart, Close
<1>2. ASSUME NEW h \in Handlers, HandlerStep(h) PROVE FALSE
  <2>1. ttl' \in {ttl, SessionTtl, DisconnectTtl}
    BY <1>2 DEF HandlerStep, CloseStep, AuthStep, SaveStep, SaveFails, CloseExists,
      CloseExpire, CloseRemove, CloseAdd, AuthGet, AuthLoad, AuthFails, AuthSet,
      AuthExpire, AuthOnline, SavePersist, PatchGet, PatchSet, SetKey, ExpireKey
  <2> QED  BY <2>1
<1>3. CASE WorkerStep
  <2>1. CASE DestroyDel
    BY <2>1 DEF DestroyDel, WorkerAlone
  <2>2. CASE ~DestroyDel
    <3>1. ttl' \in {ttl, SessionTtl}
      BY <1>3, <2>2 DEF WorkerStep, SaveStep, FlushStart, FlushGet, FlushFails,
        DestroySrem, FlushDone, SavePersist, PatchGet, PatchSet, SetKey
    <3> QED  BY <3>1
  <2> QED  BY <2>1, <2>2
<1>4. CASE Tick
  BY <1>4 DEF Tick, DelKey
<1>5. ASSUME \/ \E s \in Sockets : Connect(s) \/ CloseNew(s)
             \/ HttpPatch \/ Crash \/ Requeue
      PROVE  FALSE
  BY <1>5 DEF Connect, CloseNew, HttpPatch, Crash, Requeue
<1> QED  BY <1>1, <1>2, <1>3, <1>4, <1>5 DEF Next

(* No step takes the session from a player with an authenticated socket, as  *)
(* long as the player is not silent for the whole TTL.                       *)
THEOREM LiveSessionIsKept ==
  ASSUME NetEnvironment, "idle" \notin Environment
  PROVE  Spec => LiveSessionKept
<1>1. NetInv /\ [Next]_vars => [ttl > 0 /\ ttl' = 0 => ~Connected]_vars
  BY StepKeepsLiveSession
<1> QED  BY <1>1, InitNet, NextNet, PTL DEF Spec, LiveSessionKept
=============================================================================
