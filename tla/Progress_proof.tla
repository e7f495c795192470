---------------------------- MODULE Progress_proof ----------------------------
(***************************************************************************)
(* Saved progress: what one player's session, flush job and profile row do *)
(* together where the messages of the player do not overlap, for any keys, *)
(* writes, sockets, handlers and TTLs.  The circumstances are those each   *)
(* theorem names.                                                          *)
(***************************************************************************)
EXTENDS PlayerSession_proof

-----------------------------------------------------------------------------
(* One thread at a time. *)

(* At first everything is idle.                                              *)
LEMMA InitSolo == Init => SoloInv
  BY DEF Init, SoloInv, OneSocket, BusyHasSocket, Connected, HandlerBusy, Threads,
         ClosePoints, AuthPoints, SavePoints

(* A busy thread is the only one; a busy handler keeps the job away.         *)
LEMMA OnlyOne ==
  ASSUME TypeOK, SoloInv, NEW t \in Threads, pc[t] # "idle"
  PROVE  /\ \A u \in Threads \ {t} : pc[u] = "idle"
         /\ t \in Handlers => /\ job = "none" /\ pc[Worker] = "idle" /\ sock[t] \in Sockets
         /\ t = Worker => job = "active" /\ ~Connected /\ ~HandlerBusy
  <1>1. \A u \in Threads \ {t} : pc[u] = "idle"
    BY DEF SoloInv
  <1>2. ASSUME t \in Handlers
        PROVE  job = "none" /\ pc[Worker] = "idle" /\ sock[t] \in Sockets
    BY <1>1, <1>2, ThreadAssumption DEF SoloInv, HandlerBusy, BusyHasSocket, Threads
  <1>3. ASSUME t = Worker PROVE job = "active" /\ ~Connected /\ ~HandlerBusy
    BY <1>3 DEF SoloInv
  <1> QED
    BY <1>1, <1>2, <1>3

(* A handler goes on within what it does until it is free; the close handler *)
(* adds its job with its last command.                                       *)
LEMMA HandlerSolo ==
  ASSUME TypeOK, SoloInv, NEW h \in Handlers, HandlerStep(h)
  PROVE  SoloInv'
  <1> USE ThreadAssumption DEF TypeOK, Threads, redis, queue, Goto, Free, Return,
          HandlerPoints, WorkerPoints, ClosePoints, AuthPoints, SavePoints, DestroyPoints
  <1>1. pc[h] # "idle"
    BY DEF HandlerStep, CloseStep, AuthStep, SaveStep, SaveFails, CloseExists, CloseExpire,
           CloseRemove, CloseAdd, AuthGet, AuthLoad, AuthFails, AuthSet, AuthExpire, AuthOnline,
           SavePersist, PatchGet, PatchSet
  <1>2. /\ \A u \in Threads \ {h} : pc[u] = "idle" /\ pc'[u] = "idle"
        /\ sockets' = sockets
        /\ \A g \in Handlers \ {h} : sock'[g] = sock[g]
    BY <1>1, OnlyOne
       DEF HandlerStep, CloseStep, AuthStep, SaveStep, SaveFails, CloseExists, CloseExpire,
           CloseRemove, CloseAdd, AuthGet, AuthLoad, AuthFails, AuthSet, AuthExpire, AuthOnline,
           SavePersist, PatchGet, PatchSet
  <1>3. CASE CloseAdd(h)
    <2>1. \A u \in Threads : pc'[u] = "idle"
      BY <1>2, <1>3 DEF CloseAdd
    <2>2. ~Connected
      BY <1>3 DEF CloseAdd, SoloInv
    <2> QED
      BY <1>2, <2>1, <2>2 DEF SoloInv, OneSocket, BusyHasSocket, Connected, HandlerBusy
  <1>4. CASE ~CloseAdd(h)
    <2>1. job = "none" /\ job' = "none"
      BY <1>1, <1>4, OnlyOne
         DEF HandlerStep, CloseStep, AuthStep, SaveStep, SaveFails, CloseExists, CloseExpire,
             CloseRemove, RemoveJob, AuthGet, AuthLoad, AuthFails, AuthSet, AuthExpire,
             AuthOnline, SavePersist, PatchGet, PatchSet
    <2>2. \/ pc'[h] = "idle"
          \/ /\ sock'[h] = sock[h]
             /\ \E stage \in {ClosePoints, AuthPoints, SavePoints} :
                  pc[h] \in stage /\ pc'[h] \in stage
      BY <1>4
         DEF HandlerStep, CloseStep, AuthStep, SaveStep, SaveFails, CloseExists, CloseExpire,
             CloseRemove, AuthGet, AuthLoad, AuthFails, AuthSet, AuthExpire,
             AuthOnline, SavePersist, PatchGet, PatchSet
    <2> QED
      BY <1>2, <2>1, <2>2 DEF SoloInv, OneSocket, BusyHasSocket, Connected, HandlerBusy
  <1> QED
    BY <1>3, <1>4

(* The job starts when nobody is there, and its worker alone works then.     *)
LEMMA WorkerSolo ==
  ASSUME TypeOK, SoloInv, WorkerStep
  PROVE  SoloInv'
  <1> USE ThreadAssumption DEF TypeOK, Threads, Goto, Return, queue
  <1>1. /\ UNCHANGED <<sockets, sock>>
        /\ \A h \in Handlers : pc'[h] = pc[h]
    BY DEF WorkerStep, SaveStep, FlushStart, FlushGet, SavePersist, PatchGet, PatchSet,
           FlushFails, DestroyDel, DestroySrem, FlushDone
  <1>2. ~HandlerBusy /\ ~Connected
    <2>1. CASE FlushStart
      BY <2>1 DEF FlushStart, SoloInv
    <2>2. CASE pc[Worker] # "idle"
      BY <2>2, OnlyOne
    <2> QED
      BY <2>1, <2>2 DEF WorkerStep, SaveStep, FlushGet, SavePersist, PatchGet, PatchSet,
           FlushFails, DestroyDel, DestroySrem, FlushDone
  <1>3. pc'[Worker] # "idle" => job' = "active"
    BY DEF SoloInv, WorkerStep, SaveStep, FlushStart, FlushGet, SavePersist, PatchGet, PatchSet,
           FlushFails, DestroyDel, DestroySrem, FlushDone
  <1>4. ~HandlerBusy' /\ ~Connected'
    BY <1>1, <1>2 DEF HandlerBusy, Connected
  <1>5. \A h \in Handlers : pc'[h] = "idle"
    BY <1>4 DEF HandlerBusy
  <1> QED
    BY <1>1, <1>3, <1>4, <1>5
       DEF SoloInv, OneSocket, BusyHasSocket, Connected, AuthPoints, SavePoints, ClosePoints

(* A message is taken when its socket has no handler, so that no handler is  *)
(* in flight at all.                                                         *)
LEMMA MessageIsFirst ==
  ASSUME TypeOK, SoloInv, Alone, NEW h \in Handlers, NEW s \in Sockets, Message(h, s)
  PROVE  /\ \A u \in Threads : pc[u] = "idle"
         /\ \A u \in Threads \ {h} : pc'[u] = "idle"
         /\ sock'[h] = s /\ sockets' \in {[sockets EXCEPT ![s] = x] : x \in {"authed", "closed"}}
         /\ \A r \in Sockets \ {s} : sockets[r] # "authed"
         /\ job' = "none"
  <1> USE DEF TypeOK, Accept, Goto, Message
  <1>1. pc[h] = "idle" /\ ~Busy(s) /\ sock'[h] = s
    BY DEF AuthStart, PatchStart, SaveStart, Close, Alone
  <1>2. CASE AuthStart(h, s)
    <2>1. \A r \in Sockets \ {s} : sockets[r] # "authed" /\ ~Busy(r)
      BY <1>2 DEF AuthStart, Alone
    <2>2. \A g \in Handlers : pc[g] = "idle"
      BY <1>1, <2>1 DEF SoloInv, BusyHasSocket, Busy
    <2>3. job # "active" /\ job' = "none"
      BY <1>2 DEF AuthStart, Alone, RemoveJob, queue
    <2> QED
      BY <1>1, <1>2, <2>1, <2>2, <2>3 DEF AuthStart, SoloInv, Threads
  <1>3. CASE PatchStart(h, s) \/ SaveStart(h, s) \/ Close(h, s)
    <2>1. sockets[s] = "authed" /\ Connected
      BY <1>3 DEF PatchStart, SaveStart, Close, Connected
    <2>2. \A r \in Sockets \ {s} : sockets[r] # "authed"
      BY <2>1 DEF SoloInv, OneSocket
    <2>3. ASSUME NEW g \in Handlers, pc[g] # "idle" PROVE FALSE
      <3>1. pc[g] \in AuthPoints \cup SavePoints
        BY <2>1, <2>3 DEF SoloInv, HandlerPoints
      <3>2. sock[g] = s
        BY <2>2, <2>3, <3>1 DEF SoloInv, BusyHasSocket
      <3> QED
        BY <1>1, <2>3, <3>2 DEF Busy
    <2>4. job = "none" /\ job' = job
      BY <1>3, <2>1 DEF SoloInv, PatchStart, SaveStart, Close, queue
    <2>5. sockets' = sockets \/ sockets' = [sockets EXCEPT ![s] = "closed"]
      BY <1>3 DEF PatchStart, SaveStart, Close
    <2>6. sockets = [sockets EXCEPT ![s] = "authed"]
      BY <2>1
    <2>7. \A u \in Threads : pc[u] = "idle"
      BY <2>3, <2>4 DEF SoloInv, Threads
    <2> QED
      BY <1>1, <1>3, <2>2, <2>4, <2>5, <2>6, <2>7 DEF PatchStart, SaveStart, Close
  <1> QED
    BY <1>2, <1>3

(* So a message keeps one thread at a time.                                  *)
LEMMA MessageSolo ==
  ASSUME TypeOK, SoloInv, Alone, NEW h \in Handlers, NEW s \in Sockets, Message(h, s)
  PROVE  SoloInv'
  <1> USE ThreadAssumption DEF TypeOK, Threads
  <1>1. /\ \A u \in Threads \ {h} : pc'[u] = "idle"
        /\ \A r \in Sockets \ {s} : sockets'[r] # "authed"
        /\ sock'[h] = s /\ job' = "none"
    BY MessageIsFirst
  <1>2. \/ sockets'[s] = "authed" /\ pc'[h] \in AuthPoints \cup SavePoints
        \/ sockets'[s] = "closed" /\ pc'[h] \in ClosePoints
    BY DEF Message, AuthStart, PatchStart, SaveStart, Close, Accept, Goto,
           AuthPoints, SavePoints, ClosePoints
  <1>3. AuthPoints \cap ClosePoints = {} /\ SavePoints \cap ClosePoints = {}
    BY DEF AuthPoints, SavePoints, ClosePoints
  <1> QED
    BY <1>1, <1>2, <1>3
       DEF SoloInv, OneSocket, BusyHasSocket, Connected, AuthPoints, SavePoints, ClosePoints

(* Every step keeps one thread at a time, through crashes and failures.      *)
LEMMA NextSolo ==
  ASSUME Alone, TypeOK, SoloInv, [Next]_vars
  PROVE  SoloInv'
  <1> USE ThreadAssumption DEF TypeOK, Threads, threads
  <1>1. ASSUME NEW s \in Sockets, Connect(s) \/ CloseNew(s) PROVE SoloInv'
    <2>1. \A r \in Sockets : sockets'[r] = "authed" <=> sockets[r] = "authed"
      BY <1>1 DEF Connect, CloseNew
    <2>2. UNCHANGED <<pc, sock, job>>
      BY <1>1 DEF Connect, CloseNew, queue
    <2> QED
      BY <2>1, <2>2 DEF SoloInv, OneSocket, BusyHasSocket, Connected, HandlerBusy, AuthPoints,
                        SavePoints
  <1>2. CASE UNCHANGED <<sockets, pc, sock, job>>
    BY <1>2 DEF SoloInv, OneSocket, BusyHasSocket, Connected, HandlerBusy
  <1>3. CASE HttpPatch \/ Tick \/ UNCHANGED vars
    BY <1>2, <1>3 DEF HttpPatch, Tick, vars, queue
  <1>4. CASE Crash
    BY <1>4 DEF Crash, SoloInv, OneSocket, BusyHasSocket, Connected, HandlerBusy,
                AuthPoints, SavePoints, ClosePoints
  <1>5. CASE Requeue
    BY <1>5 DEF Requeue, SoloInv, OneSocket, BusyHasSocket, Connected, HandlerBusy
  <1> QED
    BY <1>1, <1>3, <1>4, <1>5, HandlerSolo, WorkerSolo, MessageSolo DEF Next

-----------------------------------------------------------------------------
(* Newer and older objects. *)

(* Transient keys apart, a loaded session is the stored blob and a stamped   *)
(* one is itself; a client's write makes it newer.                           *)
LEMMA ValueOrder ==
  /\ \A c \in Contents : AtLeast(c, c) /\ Strip(Strip(c)) = Strip(c)
  /\ \A c, d, e \in Contents : AtLeast(c, d) /\ AtLeast(d, e) => AtLeast(c, e)
  /\ \A c \in Contents : /\ Strip(Merge(c, Stamp)) = Strip(c)
                          /\ Strip(Merge(Stamp, Strip(c))) = Strip(c)
  /\ Strip(Blank) = Blank
  <1> USE BoundAssumption, KeysAssumption
          DEF AtLeast, Strip, Merge, Stamp, Blank, Contents, Absent
  <1>1. \A c \in Contents : AtLeast(c, c) /\ Strip(Strip(c)) = Strip(c)
    OBVIOUS
  <1>2. ASSUME NEW c \in Contents, NEW d \in Contents, NEW e \in Contents,
               AtLeast(c, d), AtLeast(d, e), NEW k \in Keys
        PROVE  c[k] >= e[k]
    <2>1. c[k] \in Nat /\ d[k] \in Nat /\ e[k] \in Nat
      OBVIOUS
    <2>2. c[k] >= d[k] /\ d[k] >= e[k]
      BY <1>2
    <2> QED
      BY <2>1, <2>2
  <1>3. ASSUME NEW c \in Contents
        PROVE  Strip(Merge(c, Stamp)) = Strip(c) /\ Strip(Merge(Stamp, Strip(c))) = Strip(c)
    OBVIOUS
  <1>4. Strip(Blank) = Blank
    OBVIOUS
  <1> QED
    BY <1>1, <1>2, <1>3, <1>4 DEF AtLeast

(* What a client adds to a session it knows is newer than the session.       *)
LEMMA WriteIsNewer ==
  ASSUME TypeOK, NEW c \in Contents, Known(c), NEW changed \in SUBSET Keys
  PROVE  /\ AtLeast(Strip(Merge(c, NextWrite(changed))), Strip(c))
         /\ \A k \in Keys \ TransientKeys : Merge(c, NextWrite(changed))[k] <= patches + 1
  BY BoundAssumption DEF TypeOK, Known, AtLeast, Strip, Merge, NextWrite, Contents, Absent

(* Copies other than the ones the client writes stay known.                  *)
LEMMA KnownValues ==
  ASSUME TypeOK
  PROVE  /\ Known(Blank) /\ Known(Stamp)
         /\ \A c \in Contents : Known(c) =>
              Known(Strip(c)) /\ Known(Merge(c, Stamp)) /\ Known(Merge(Stamp, Strip(c)))
  BY KeysAssumption, BoundAssumption
     DEF TypeOK, Known, Strip, Merge, Stamp, Blank, Contents, Absent

(* CopiesLead, when one thread at most is busy after a step.                 *)
LEMMA OneCopyLeads ==
  ASSUME NEW t \in Threads, \A u \in Threads \ {t} : pc'[u] = "idle",
         Known(session)', Known(db)', \A u \in Threads : Known(local[u])',
         (db = Strip(db))',
         (ttl > 0 => AtLeast(Strip(session), db))',
         (pc[t] \in {"auth_set", "save_persist", "patch_set"} => AtLeast(Strip(local[t]), db))',
         (pc[t] = "save_persist" /\ ttl > 0 => session = local[t])',
         (pc[t] = "patch_get" => local[t] = Stamp)'
  PROVE  CopiesLead'
  BY DEF CopiesLead

-----------------------------------------------------------------------------
(* The copies lead. *)

(* A message takes the session as it is, or with a newer write.              *)
LEMMA MessageKeepsCopies ==
  ASSUME TypeOK, SoloInv, Alone, CopiesLead,
         NEW h \in Handlers, NEW s \in Sockets, Message(h, s)
  PROVE  CopiesLead'
  <1> USE DEF TypeOK, Message, Accept, Goto, redis
  <1>1. /\ \A u \in Threads \ {h} : pc'[u] = "idle" /\ local'[u] = local[u]
        /\ UNCHANGED <<session, ttl, db>>
    BY MessageIsFirst DEF AuthStart, PatchStart, SaveStart, Close
  <1>2. Known(session) /\ Known(db) /\ \A u \in Threads : Known(local[u])
    BY DEF CopiesLead
  <1>3. h \in Threads
    BY DEF Threads
  <1>4. CASE AuthStart(h, s) \/ Close(h, s)
    <2>1. pc'[h] \in {"auth_get", "close_exists"} /\ local'[h] = Blank /\ patches' = patches
      BY <1>3, <1>4 DEF AuthStart, Close
    <2>2. Known(session)' /\ Known(db)' /\ \A u \in Threads : Known(local[u])'
      BY <1>1, <1>2, <2>1, KnownValues DEF Known
    <2> QED
      BY <1>1, <1>3, <2>1, <2>2, OneCopyLeads DEF CopiesLead
  <1>5. CASE SaveStart(h, s)
    <2>1. pc'[h] = "save_persist" /\ local'[h] = session /\ patches' = patches /\ ttl > 0
      BY <1>3, <1>5 DEF SaveStart
    <2>2. Known(session)' /\ Known(db)' /\ \A u \in Threads : Known(local[u])'
      BY <1>1, <1>2, <2>1 DEF Known
    <2> QED
      BY <1>1, <1>3, <2>1, <2>2, OneCopyLeads DEF CopiesLead
  <1>6. CASE PatchStart(h, s)
    <2>1. PICK changed \in SUBSET Keys :
            Accept(h, s, "patch_set", Merge(session, NextWrite(changed)))
      BY <1>6 DEF PatchStart
    <2>2. /\ pc'[h] = "patch_set" /\ local'[h] = Merge(session, NextWrite(changed))
          /\ patches' = patches + 1 /\ ttl > 0 /\ patches < MaxPatches
      BY <1>3, <1>6, <2>1 DEF PatchStart
    <2>3. /\ AtLeast(Strip(local'[h]), Strip(session))
          /\ \A k \in Keys \ TransientKeys : local'[h][k] <= patches'
      BY <1>2, <2>2, WriteIsNewer
    <2>4. local'[h] \in Contents /\ Strip(local'[h]) \in Contents /\ Strip(session) \in Contents
      BY <2>2, ValueTypes
    <2>5. AtLeast(Strip(local'[h]), db)
      BY <2>2, <2>3, <2>4, ValueOrder DEF CopiesLead
    <2>6. Known(session)' /\ Known(db)' /\ \A u \in Threads : Known(local[u])'
      <3>1. ASSUME NEW c \in Contents, Known(c)
            PROVE  \A k \in Keys \ TransientKeys : c[k] <= patches'
        BY <2>2, <3>1 DEF Known, Contents
      <3>2. \A u \in Threads \ {h} : local'[u] = local[u] /\ local[u] \in Contents
        BY <1>1
      <3> QED
        BY <1>1, <1>2, <2>3, <3>1, <3>2 DEF Known
    <2> QED
      BY <1>1, <1>3, <2>2, <2>5, <2>6, OneCopyLeads DEF CopiesLead
  <1> QED
    BY <1>4, <1>5, <1>6

(* A step of saveToDb or of the SET that ends a patch: what is stored is the *)
(* session, or what it was when it was read.                                 *)
LEMMA SaveKeepsCopies ==
  ASSUME TypeOK, SoloInv, CopiesLead, NEW t \in Threads, SaveStep(t)
  PROVE  CopiesLead'
  <1> USE DEF TypeOK, Goto, redis, queue
  <1>1. pc[t] # "idle"
    BY DEF SaveStep, SavePersist, PatchGet, PatchSet
  <1>2. \A u \in Threads \ {t} : pc[u] = "idle" /\ pc'[u] = "idle" /\ local'[u] = local[u]
    BY <1>1, OnlyOne DEF SaveStep, SavePersist, PatchGet, PatchSet, Return, Free
  <1>3. Known(session) /\ Known(db) /\ \A u \in Threads : Known(local[u])
    BY DEF CopiesLead
  <1>4. patches' = patches
    BY DEF SaveStep, SavePersist, PatchGet, PatchSet
  <1>5. Strip(local[t]) \in Contents /\ Strip(session) \in Contents
    BY ValueTypes
  <1>6. CASE SavePersist(t)
    <2>1. /\ pc'[t] = "patch_get" /\ local'[t] = Stamp /\ db' = Strip(local[t])
          /\ UNCHANGED <<session, ttl>>
      BY <1>6 DEF SavePersist
    <2>2. db' = Strip(db')
      BY <2>1, ValueOrder
    <2>3. ttl > 0 => AtLeast(Strip(session), db')
      BY <1>5, <1>6, <2>1, ValueOrder DEF SavePersist, CopiesLead
    <2>4. Known(session)' /\ Known(db)' /\ \A u \in Threads : Known(local[u])'
      BY <1>2, <1>3, <1>4, <2>1, KnownValues DEF Known
    <2> QED
      BY <1>2, <2>1, <2>2, <2>3, <2>4, OneCopyLeads
  <1>7. CASE PatchGet(t) /\ ttl > 0
    <2>1. /\ pc'[t] = "patch_set" /\ local'[t] = Merge(session, Stamp)
          /\ UNCHANGED <<session, ttl, db>>
      BY <1>7 DEF PatchGet, CopiesLead
    <2>2. Strip(local'[t]) = Strip(session)
      BY <2>1, ValueOrder
    <2>3. Known(session)' /\ Known(db)' /\ \A u \in Threads : Known(local[u])'
      BY <1>2, <1>3, <1>4, <2>1, KnownValues DEF Known
    <2> QED
      BY <1>2, <1>7, <2>1, <2>2, <2>3, OneCopyLeads DEF CopiesLead
  <1>8. ASSUME pc'[t] \in {"idle", "destroy_del"}, local'[t] = Blank, db' = db,
               session' \in {session, local[t]}, ttl' > 0 => AtLeast(Strip(session'), db)
        PROVE  CopiesLead'
    <2>1. Known(session)' /\ Known(db)' /\ \A u \in Threads : Known(local[u])'
      BY <1>2, <1>3, <1>4, <1>8, KnownValues DEF Known
    <2> QED
      BY <1>2, <1>8, <2>1, OneCopyLeads DEF CopiesLead
  <1>9. CASE PatchGet(t) /\ ~(ttl > 0)
    <2>1. /\ pc'[t] \in {"idle", "destroy_del"} /\ local'[t] = Blank
          /\ UNCHANGED <<session, ttl, db>>
      BY <1>9 DEF PatchGet, Return, Free
    <2> QED
      BY <1>8, <1>9, <2>1
  <1>10. CASE PatchSet(t)
    <2>1. /\ pc'[t] \in {"idle", "destroy_del"} /\ local'[t] = Blank
          /\ session' = local[t] /\ db' = db
      BY <1>10 DEF PatchSet, SetKey, Return, Free
    <2>2. AtLeast(Strip(local[t]), db)
      BY <1>10 DEF PatchSet, CopiesLead
    <2> QED
      BY <1>8, <2>1, <2>2
  <1> QED
    BY <1>6, <1>7, <1>9, <1>10 DEF SaveStep

(* The commands of close and auth handlers, SaveFails included: only start() *)
(* writes the session, with the blob it loaded.                              *)
LEMMA HandlerKeepsCopies ==
  ASSUME TypeOK, SoloInv, CopiesLead, NEW h \in Handlers,
         CloseStep(h) \/ AuthStep(h) \/ SaveFails(h)
  PROVE  CopiesLead'
  <1> USE DEF TypeOK, Goto, Free, redis, queue
  <1> h \in Threads
    BY DEF Threads
  <1>1. pc[h] # "idle"
    BY DEF CloseStep, AuthStep, SaveFails, CloseExists, CloseExpire, CloseRemove, CloseAdd,
           AuthGet, AuthLoad, AuthFails, AuthSet, AuthExpire, AuthOnline
  <1>2. \A u \in Threads \ {h} : pc[u] = "idle" /\ pc'[u] = "idle" /\ local'[u] = local[u]
    BY <1>1, OnlyOne
       DEF CloseStep, AuthStep, SaveFails, CloseExists, CloseExpire, CloseRemove, CloseAdd,
           AuthGet, AuthLoad, AuthFails, AuthSet, AuthExpire, AuthOnline
  <1>3. Known(session) /\ Known(db) /\ \A u \in Threads : Known(local[u])
    BY DEF CopiesLead
  <1>4. patches' = patches /\ db' = db
    BY DEF CloseStep, AuthStep, SaveFails, CloseExists, CloseExpire, CloseRemove, CloseAdd,
           AuthGet, AuthLoad, AuthFails, AuthSet, AuthExpire, AuthOnline
  <1>5. CASE AuthLoad(h)
    <2>1. pc'[h] = "auth_set" /\ local'[h] = Merge(Stamp, Strip(db)) /\ UNCHANGED <<session, ttl>>
      BY <1>5 DEF AuthLoad
    <2>2. Strip(local'[h]) = db /\ AtLeast(db, db)
      BY <2>1, ValueOrder DEF CopiesLead
    <2>3. Known(session)' /\ Known(db)' /\ \A u \in Threads : Known(local[u])'
      BY <1>2, <1>3, <1>4, <2>1, KnownValues DEF Known
    <2> QED
      BY <1>2, <1>4, <2>1, <2>2, <2>3, OneCopyLeads DEF CopiesLead
  <1>6. CASE AuthSet(h)
    <2>1. pc'[h] = "auth_online" /\ local'[h] = Blank /\ session' = local[h]
      BY <1>6 DEF AuthSet, SetKey
    <2>2. AtLeast(Strip(local[h]), db)
      BY <1>6 DEF AuthSet, CopiesLead
    <2>3. Known(session)' /\ Known(db)' /\ \A u \in Threads : Known(local[u])'
      BY <1>2, <1>3, <1>4, <2>1, KnownValues DEF Known
    <2> QED
      BY <1>2, <1>4, <2>1, <2>2, <2>3, OneCopyLeads DEF CopiesLead
  <1>7. CASE ~AuthLoad(h) /\ ~AuthSet(h)
    <2>1. /\ pc'[h] \notin {"auth_set", "save_persist", "patch_set", "patch_get"}
          /\ local'[h] \in {local[h], Blank}
          /\ session' = session /\ (ttl' > 0 => ttl > 0)
      BY <1>7, DisconnectOutlivesGrace
         DEF CloseStep, AuthStep, SaveFails, CloseExists, CloseExpire, CloseRemove, CloseAdd,
             AuthGet, AuthFails, AuthExpire, AuthOnline, ExpireKey
    <2>2. Known(session)' /\ Known(db)' /\ \A u \in Threads : Known(local[u])'
      BY <1>2, <1>3, <1>4, <2>1, KnownValues DEF Known
    <2> QED
      BY <1>2, <1>4, <2>1, <2>2, OneCopyLeads DEF CopiesLead
  <1> QED
    BY <1>5, <1>6, <1>7

(* The job reads the session to save it, and drops it.                       *)
LEMMA WorkerKeepsCopies ==
  ASSUME TypeOK, SoloInv, CopiesLead, WorkerStep
  PROVE  CopiesLead'
  <1> USE DEF TypeOK, Goto, redis, queue
  <1> Worker \in Threads
    BY DEF Threads
  <1>1. CASE SaveStep(Worker)
    BY <1>1, SaveKeepsCopies
  <1> SUFFICES ASSUME ~SaveStep(Worker) PROVE CopiesLead'
    BY <1>1
  <1>2. FlushStart \/ pc[Worker] # "idle"
    BY DEF WorkerStep, FlushGet, FlushFails, DestroyDel, DestroySrem, FlushDone
  <1>3. \A u \in Threads \ {Worker} : pc[u] = "idle"
    <2>1. CASE FlushStart
      BY <2>1 DEF FlushStart, SoloInv, HandlerBusy, Threads
    <2> QED
      BY <1>2, <2>1, OnlyOne
  <1>4. \A u \in Threads \ {Worker} : pc'[u] = "idle" /\ local'[u] = local[u]
    BY <1>3 DEF WorkerStep, FlushStart, FlushGet, FlushFails, DestroyDel, DestroySrem, FlushDone
  <1>5. Known(session) /\ Known(db) /\ \A u \in Threads : Known(local[u])
    BY DEF CopiesLead
  <1>6. /\ UNCHANGED <<patches, db>>
        /\ session' \in {session, Blank} /\ (ttl' > 0 => ttl > 0 /\ session' = session)
        /\ local'[Worker] \in {local[Worker], Blank, session}
    BY DEF WorkerStep, FlushStart, FlushGet, FlushFails, DestroyDel, DestroySrem, FlushDone,
           DelKey
  <1>7. \/ pc'[Worker] \notin {"auth_set", "save_persist", "patch_set", "patch_get"}
        \/ pc'[Worker] = "save_persist" /\ local'[Worker] = session' /\ ttl > 0
    BY DEF WorkerStep, FlushStart, FlushGet, FlushFails, DestroyDel, DestroySrem, FlushDone
  <1>8. Known(session)' /\ Known(db)' /\ \A u \in Threads : Known(local[u])'
    BY <1>4, <1>5, <1>6, KnownValues DEF Known
  <1>9. pc'[Worker] = "save_persist" => session' = session
    BY DEF WorkerStep, FlushStart, FlushGet, FlushFails, DestroyDel, DestroySrem, FlushDone
  <1> QED
    BY <1>4, <1>6, <1>7, <1>8, <1>9, OneCopyLeads DEF CopiesLead

(* Every step keeps the copies, through crashes, failures, expiry and a job  *)
(* that is run twice.                                                        *)
LEMMA NextKeepsCopies ==
  ASSUME Alone, "http" \notin Environment, TypeOK, SoloInv, CopiesLead, [Next]_vars
  PROVE  CopiesLead'
  <1> USE DEF TypeOK, threads, redis, queue
  <1>1. ASSUME \A u \in Threads : pc'[u] \in {pc[u], "idle"} /\ local'[u] \in {local[u], Blank},
               \A u \in Threads : pc'[u] # "idle" => local'[u] = local[u],
               UNCHANGED <<patches, db>>, session' \in {session, Blank},
               ttl' > 0 => ttl > 0 /\ session' = session
        PROVE  CopiesLead'
    <2>1. Known(session)' /\ Known(db)' /\ \A u \in Threads : Known(local[u])'
      BY <1>1, KnownValues DEF Known, CopiesLead
    <2> QED
      BY <1>1, <2>1 DEF CopiesLead
  <1>2. CASE UNCHANGED vars \/ \E s \in Sockets : Connect(s) \/ CloseNew(s)
    BY <1>1, <1>2 DEF vars, Connect, CloseNew
  <1>3. CASE Tick
    BY <1>1, <1>3 DEF Tick, DelKey
  <1>4. CASE Crash
    BY <1>1, <1>4 DEF Crash
  <1>5. CASE Requeue
    BY <1>1, <1>5 DEF Requeue
  <1>6. ~HttpPatch
    BY DEF HttpPatch
  <1>7. ASSUME NEW h \in Handlers, HandlerStep(h) PROVE CopiesLead'
    BY <1>7, HandlerKeepsCopies, SaveKeepsCopies DEF HandlerStep, Threads
  <1> QED
    BY <1>2, <1>3, <1>4, <1>5, <1>6, <1>7, WorkerKeepsCopies, MessageKeepsCopies DEF Next

(* At first everything is blank.                                             *)
LEMMA InitCopies == Init => CopiesLead
  <1> SUFFICES ASSUME Init PROVE CopiesLead
    OBVIOUS
  <1>1. /\ session = Blank /\ db = Blank /\ ttl = 0
        /\ \A t \in Threads : pc[t] = "idle" /\ local[t] = Blank
    BY DEF Init
  <1>2. Known(Blank)
    BY InitTyped, KnownValues
  <1> QED
    BY <1>1, <1>2, ValueOrder DEF CopiesLead

(* Only a save stores, PATCH /users/me apart.                                *)
LEMMA OnlySavesStore ==
  ASSUME [Next]_vars, "http" \notin Environment
  PROVE  db' = db \/ \E t \in Threads : SavePersist(t)
  <1>1. ASSUME NEW h \in Handlers, HandlerStep(h) PROVE db' = db \/ SavePersist(h)
    BY <1>1 DEF HandlerStep, CloseStep, AuthStep, SaveStep, SaveFails, CloseExists,
      CloseExpire, CloseRemove, CloseAdd, AuthGet, AuthLoad, AuthFails, AuthSet,
      AuthExpire, AuthOnline, PatchGet, PatchSet
  <1>2. ASSUME WorkerStep PROVE db' = db \/ SavePersist(Worker)
    BY <1>2 DEF WorkerStep, SaveStep, FlushStart, FlushGet, FlushFails, DestroyDel,
      DestroySrem, FlushDone, PatchGet, PatchSet
  <1>3. ASSUME NEW h \in Handlers, NEW s \in Sockets, Message(h, s) PROVE db' = db
    BY <1>3 DEF Message, AuthStart, PatchStart, SaveStart, Close
  <1>4. ASSUME \/ UNCHANGED vars \/ Tick \/ Crash \/ Requeue
               \/ \E s \in Sockets : Connect(s) \/ CloseNew(s)
        PROVE  db' = db
    BY <1>4 DEF vars, Tick, Crash, Requeue, Connect, CloseNew
  <1> QED
    BY <1>1, <1>2, <1>3, <1>4 DEF Next, HttpPatch, Threads

(* No key of the profile row goes back to an earlier value: whatever saves   *)
(* fail, sessions expire, servers crash and jobs run again, for any number   *)
(* of keys, writes, sockets and handlers.                                    *)
THEOREM StoredIsMonotone ==
  ASSUME Alone, "http" \notin Environment
  PROVE  Spec => StoredNeverRegresses
  <1> DEFINE Good == TypeOK /\ SoloInv /\ CopiesLead
  <1>1. Init => Good
    BY InitTyped, InitSolo, InitCopies
  <1>2. Good /\ [Next]_vars => Good'
    BY NextTyped, NextSolo, NextKeepsCopies
  <1>3. ASSUME Good, [Next]_vars PROVE \A k \in Keys : db'[k] >= db[k]
    <2>1. CASE db' = db
      BY <1>3, <2>1, ValueOrder DEF TypeOK, AtLeast
    <2>2. CASE \E t \in Threads : SavePersist(t)
      BY <1>3, <2>2 DEF CopiesLead, SavePersist, AtLeast
    <2> QED
      BY <1>3, <2>1, <2>2, OnlySavesStore
  <1> QED
    BY <1>1, <1>2, <1>3, PTL DEF Spec, StoredNeverRegresses

-----------------------------------------------------------------------------
(* The ledger: no failures, no silence and no lag. *)

Steady == Environment \subseteq {"reauth"}

(* Time passes only when nothing is in flight.                               *)
LEMMA NoTickInFlight ==
  ASSUME Steady, Tick, NEW t \in Threads
  PROVE  pc[t] = "idle" /\ pc'[t] = "idle"
  BY DEF Steady, Tick, Quiet, threads

(* What a single busy thread must see to it that nothing is lost.            *)
LEMMA OneLosesNothing ==
  ASSUME NEW t \in Threads, \A u \in Threads \ {t} : pc'[u] = "idle",
         (pc[t] \in {"auth_load", "auth_set"} => ttl = 0)',
         (pc[t] = "save_persist" => ttl > 0)',
         (pc[t] = "patch_set" /\ ttl > 0 => AtLeast(Strip(local[t]), Strip(session)))',
         (t = Worker /\ pc[t] \in {"patch_get", "destroy_del"} /\ ttl > 0 => Strip(session) = db)',
         (t = Worker /\ pc[t] = "patch_set" => Strip(local[t]) = db)'
  PROVE  NothingIsLost'
  BY DEF NothingIsLost, Threads

(* A message finds the session it needs.                                     *)
LEMMA MessageLosesNothing ==
  ASSUME TypeOK, SoloInv, Alone, CopiesLead,
         NEW h \in Handlers, NEW s \in Sockets, Message(h, s)
  PROVE  NothingIsLost'
  <1> USE DEF TypeOK, Message, Accept, Goto, redis
  <1> h \in Threads /\ h # Worker
    BY ThreadAssumption DEF Threads
  <1>1. \A u \in Threads \ {h} : pc'[u] = "idle"
    BY MessageIsFirst
  <1>2. CASE AuthStart(h, s) \/ Close(h, s) \/ SaveStart(h, s)
    BY <1>1, <1>2, OneLosesNothing DEF AuthStart, Close, SaveStart
  <1>3. CASE PatchStart(h, s)
    <2>1. PICK changed \in SUBSET Keys :
            Accept(h, s, "patch_set", Merge(session, NextWrite(changed)))
      BY <1>3 DEF PatchStart
    <2>2. pc'[h] = "patch_set" /\ local'[h] = Merge(session, NextWrite(changed))
      BY <2>1
    <2>3. AtLeast(Strip(local'[h]), Strip(session)) /\ session' = session
      BY <1>3, <2>2, WriteIsNewer DEF PatchStart, CopiesLead
    <2> QED
      BY <1>1, <2>2, <2>3, OneLosesNothing
  <1> QED
    BY <1>2, <1>3

(* saveToDb stores the session it read, and its stamp adds nothing to it.    *)
LEMMA SaveLosesNothing ==
  ASSUME TypeOK, SoloInv, CopiesLead, NothingIsLost, NEW t \in Threads, SaveStep(t)
  PROVE  NothingIsLost'
  <1> USE ThreadAssumption DEF TypeOK, Goto, redis, queue
  <1>1. \A u \in Threads \ {t} : pc'[u] = "idle"
    <2>1. pc[t] # "idle"
      BY DEF SaveStep, SavePersist, PatchGet, PatchSet
    <2> QED
      BY <2>1, OnlyOne DEF SaveStep, SavePersist, PatchGet, PatchSet, Return, Free
  <1>2. CASE SavePersist(t)
    <2>1. pc'[t] = "patch_get" /\ UNCHANGED <<session, ttl>>
      BY <1>2 DEF SavePersist
    <2>2. db' = Strip(session)
      BY <1>2 DEF SavePersist, CopiesLead, NothingIsLost
    <2> QED
      BY <1>1, <2>1, <2>2, OneLosesNothing
  <1>3. CASE PatchGet(t) /\ ttl > 0
    <2>1. /\ pc'[t] = "patch_set" /\ local'[t] = Merge(session, Stamp)
          /\ UNCHANGED <<session, ttl, db>>
      BY <1>3 DEF PatchGet, CopiesLead
    <2>2. Strip(local'[t]) = Strip(session)
      BY <2>1, ValueOrder
    <2>3. AtLeast(Strip(session), Strip(session)) /\ (t = Worker => Strip(session) = db)
      BY <1>3, ValueTypes, ValueOrder DEF NothingIsLost, PatchGet
    <2> QED
      BY <1>1, <2>1, <2>2, <2>3, OneLosesNothing
  <1>4. CASE PatchGet(t) /\ ~(ttl > 0)
    <2>1. pc'[t] \in {"idle", "destroy_del"} /\ ttl' = ttl
      BY <1>4 DEF PatchGet, Return, Free
    <2> QED
      BY <1>1, <1>4, <2>1, OneLosesNothing
  <1>5. CASE PatchSet(t)
    <2>1. /\ pc'[t] = (IF t = Worker THEN "destroy_del" ELSE "idle")
          /\ session' = local[t] /\ db' = db
      BY <1>5 DEF PatchSet, SetKey, Return, Free
    <2>2. t = Worker => Strip(local[t]) = db
      BY <1>5 DEF PatchSet, NothingIsLost
    <2> QED
      BY <1>1, <2>1, <2>2, OneLosesNothing
  <1> QED
    BY <1>2, <1>3, <1>4, <1>5 DEF SaveStep

(* The commands of close and auth handlers: who loads has found no session.  *)
LEMMA HandlerLosesNothing ==
  ASSUME TypeOK, SoloInv, NothingIsLost, NEW h \in Handlers,
         CloseStep(h) \/ AuthStep(h) \/ SaveFails(h)
  PROVE  NothingIsLost'
  <1> USE DEF TypeOK, Goto, Free, redis
  <1> h \in Threads /\ h # Worker
    BY ThreadAssumption DEF Threads
  <1>1. pc[h] # "idle"
    BY DEF CloseStep, AuthStep, SaveFails, CloseExists, CloseExpire, CloseRemove, CloseAdd,
           AuthGet, AuthLoad, AuthFails, AuthSet, AuthExpire, AuthOnline
  <1>2. \A u \in Threads \ {h} : pc'[u] = "idle"
    BY <1>1, OnlyOne
       DEF CloseStep, AuthStep, SaveFails, CloseExists, CloseExpire, CloseRemove, CloseAdd,
           AuthGet, AuthLoad, AuthFails, AuthSet, AuthExpire, AuthOnline
  <1>3. pc'[h] \notin {"save_persist", "patch_get", "patch_set", "destroy_del"}
    BY DEF CloseStep, AuthStep, SaveFails, CloseExists, CloseExpire, CloseRemove, CloseAdd,
           AuthGet, AuthLoad, AuthFails, AuthSet, AuthExpire, AuthOnline
  <1>4. pc'[h] \in {"auth_load", "auth_set"} => ttl' = 0
    BY DEF CloseStep, AuthStep, SaveFails, CloseExists, CloseExpire, CloseRemove, CloseAdd,
           AuthGet, AuthLoad, AuthFails, AuthSet, AuthExpire, AuthOnline, NothingIsLost
  <1> QED
    BY <1>2, <1>3, <1>4, OneLosesNothing

(* The job saves a session that is there, and drops what it stored.          *)
LEMMA WorkerLosesNothing ==
  ASSUME TypeOK, SoloInv, CopiesLead, NothingIsLost, WorkerStep
  PROVE  NothingIsLost'
  <1> USE ThreadAssumption DEF TypeOK, Goto, redis, queue
  <1> Worker \in Threads
    BY DEF Threads
  <1>1. CASE SaveStep(Worker)
    BY <1>1, SaveLosesNothing
  <1> SUFFICES ASSUME ~SaveStep(Worker) PROVE NothingIsLost'
    BY <1>1
  <1>2. \A u \in Threads \ {Worker} : pc'[u] = "idle"
    <2>1. ~HandlerBusy
      BY OnlyOne DEF WorkerStep, FlushStart, FlushGet, FlushFails, DestroyDel, DestroySrem,
                     FlushDone, SoloInv
    <2> QED
      BY <2>1 DEF WorkerStep, FlushStart, FlushGet, FlushFails, DestroyDel, DestroySrem,
                  FlushDone, HandlerBusy, Threads
  <1>3. /\ pc'[Worker] \in {"idle", "flush_get", "save_persist", "finish", "destroy_srem"}
        /\ pc'[Worker] = "save_persist" => ttl' > 0
    BY DEF WorkerStep, FlushStart, FlushGet, FlushFails, DestroyDel, DestroySrem, FlushDone
  <1> QED
    BY <1>2, <1>3, OneLosesNothing

(* Every step loses nothing.                                                 *)
LEMMA NextLosesNothing ==
  ASSUME Steady, TypeOK, SoloInv, CopiesLead, NothingIsLost, [Next]_vars
  PROVE  NothingIsLost'
  <1> USE DEF TypeOK, threads, redis
  <1>1. Alone
    BY DEF Steady, Alone
  <1>2. CASE UNCHANGED <<pc, local, session, ttl, db>>
    BY <1>2 DEF NothingIsLost
  <1>3. CASE UNCHANGED vars \/ Requeue \/ \E s \in Sockets : Connect(s) \/ CloseNew(s)
    BY <1>2, <1>3 DEF vars, Requeue, Connect, CloseNew
  <1>4. CASE Tick
    BY <1>4, NoTickInFlight DEF NothingIsLost, Threads
  <1>5. ~HttpPatch /\ ~Crash
    BY DEF Steady, HttpPatch, Crash
  <1>6. ASSUME NEW h \in Handlers, HandlerStep(h) PROVE NothingIsLost'
    BY <1>6, HandlerLosesNothing, SaveLosesNothing DEF HandlerStep, Threads
  <1> QED
    BY <1>1, <1>3, <1>4, <1>5, <1>6, WorkerLosesNothing, MessageLosesNothing DEF Next

(* The session and the row, seen as the ledger's two states.                 *)
LEMMA LatestValues ==
  ASSUME TypeOK, CopiesLead
  PROVE  /\ Latest \in Contents /\ AtLeast(Latest, Latest)
         /\ Latest = IF ttl > 0 THEN Strip(session) ELSE db
  BY ValueTypes, ValueOrder DEF Latest, TypeOK, CopiesLead

(* The steps that replace the session are the player's: what they write is   *)
(* at least as new as what the player would have seen.                       *)
LEMMA SettingPlays ==
  ASSUME TypeOK, TypeOK', CopiesLead, CopiesLead', NothingIsLost,
         NEW t \in Threads, AuthSet(t) \/ PatchSet(t)
  PROVE  Ledger!Play
  <1> USE TtlAssumption DEF TypeOK
  <1>1. session' = local[t] /\ ttl' > 0 /\ db' = db
    BY DEF AuthSet, PatchSet, SetKey
  <1>2. AtLeast(Strip(local[t]), Latest)
    <2>1. CASE ttl > 0
      BY <2>1, LatestValues DEF AuthSet, PatchSet, NothingIsLost
    <2>2. CASE ~(ttl > 0)
      BY <2>2, LatestValues DEF AuthSet, PatchSet, CopiesLead
    <2> QED
      BY <2>1, <2>2
  <1>3. Latest' = Strip(local[t])
    BY <1>1 DEF Latest
  <1>4. Latest' \in Contents
    BY <1>3, ValueTypes
  <1> QED
    BY <1>1, <1>2, <1>3, <1>4 DEF Ledger!Play, Ledger!States, Contents, AtLeast

(* The first command of saveToDb is the ledger's save.                       *)
LEMMA PersistSaves ==
  ASSUME TypeOK, CopiesLead, NothingIsLost, NEW t \in Threads, SavePersist(t)
  PROVE  Ledger!Save
  <1>1. ttl > 0 /\ session = local[t]
    BY DEF SavePersist, CopiesLead, NothingIsLost
  <1>2. db' = Strip(session) /\ UNCHANGED <<session, ttl>>
    BY <1>1 DEF SavePersist, redis
  <1>3. Latest = Strip(session) /\ Latest' = Strip(session)
    BY <1>1, <1>2 DEF Latest
  <1> QED
    BY <1>2, <1>3 DEF Ledger!Save

(* A session ends when it is stored, and time alone ends none.               *)
LEMMA EndingStutters ==
  ASSUME Steady, NetInv, CopiesLead, NothingIsLost, DestroyDel \/ Tick
  PROVE  Latest' = Latest /\ db' = db
  <1> USE DEF NetInv, TypeOK
  <1>1. db' = db
    BY DEF DestroyDel, Tick
  <1>2. CASE ~(ttl > 0)
    <2>1. ttl' = 0
      BY <1>2 DEF DestroyDel, Tick, DelKey
    <2> QED
      BY <1>1, <1>2, <2>1 DEF Latest
  <1>3. CASE ttl > 0 /\ DestroyDel
    <2>1. Strip(session) = db /\ Strip(db) = db
      BY <1>3 DEF DestroyDel, NothingIsLost, CopiesLead
    <2>2. ttl' = 0
      BY <1>3 DEF DestroyDel, DelKey
    <2> QED
      BY <1>1, <1>3, <2>1, <2>2 DEF Latest
  <1>4. CASE ttl > 0 /\ Tick
    <2>1. Quiet /\ ~(Connected /\ ttl = 1)
      BY <1>4 DEF Tick, Steady
    <2>2. ~Closing
      BY <2>1 DEF Quiet, Closing, ClosePoints, Threads
    <2>3. ttl # 1
      BY <1>4, <2>1, <2>2 DEF Quiet, SafetyNet
    <2>4. ttl' > 0 /\ session' = session
      BY <1>4, <2>3 DEF Tick
    <2> QED
      BY <1>1, <1>4, <2>4 DEF Latest
  <1> QED
    BY <1>2, <1>3, <1>4

(* The ledger sees nothing of the other steps.                               *)
LEMMA RestStutters ==
  ASSUME Steady, TypeOK, TypeOK', [Next]_vars, ~DestroyDel, ~Tick,
         \A t \in Threads : ~AuthSet(t) /\ ~PatchSet(t) /\ ~SavePersist(t)
  PROVE  Latest' = Latest /\ db' = db
  <1> USE TtlAssumption, DisconnectOutlivesGrace DEF TypeOK, redis
  <1> SUFFICES session' = session /\ db' = db /\ (ttl' > 0 <=> ttl > 0)
    BY DEF Latest
  <1>1. ASSUME NEW h \in Handlers, HandlerStep(h)
        PROVE  session' = session /\ db' = db /\ (ttl' > 0 <=> ttl > 0)
    BY <1>1 DEF HandlerStep, CloseStep, AuthStep, SaveStep, SaveFails, CloseExists, CloseExpire,
      CloseRemove, CloseAdd, AuthGet, AuthLoad, AuthFails, AuthExpire, AuthOnline, PatchGet,
      ExpireKey, Threads
  <1>2. ASSUME WorkerStep PROVE UNCHANGED <<session, ttl, db>>
    BY <1>2 DEF WorkerStep, SaveStep, FlushStart, FlushGet, FlushFails, DestroySrem, FlushDone,
      PatchGet, Threads
  <1>3. ASSUME NEW h \in Handlers, NEW s \in Sockets, Message(h, s)
        PROVE  UNCHANGED <<session, ttl, db>>
    BY <1>3 DEF Message, AuthStart, PatchStart, SaveStart, Close
  <1>4. ASSUME UNCHANGED vars \/ Requeue \/ \E s \in Sockets : Connect(s) \/ CloseNew(s)
        PROVE  UNCHANGED <<session, ttl, db>>
    BY <1>4 DEF vars, Requeue, Connect, CloseNew
  <1>5. ~HttpPatch /\ ~Crash
    BY DEF Steady, HttpPatch, Crash
  <1> QED
    BY <1>1, <1>2, <1>3, <1>4, <1>5 DEF Next

(* The session implements the ledger: from a client's message to Postgres,   *)
(* through Redis, the close handler, the TTL and the flush job, the player   *)
(* sees a state that only grows, and only the latest state is ever stored.   *)
(* A TTL longer than the grace period is what the code's defaults give.      *)
THEOREM SessionIsALedger ==
  ASSUME Steady, SessionTtl > Grace
  PROVE  Spec => LedgerSpec
  <1> DEFINE Good == NetInv /\ SoloInv /\ CopiesLead /\ NothingIsLost
  <1>1. Alone /\ NetEnvironment /\ "http" \notin Environment
    BY DEF Steady, Alone, NetEnvironment
  <1>2. Init => Good
    BY InitNet, InitSolo, InitCopies DEF Init, NothingIsLost, Threads
  <1>3. Good => TypeOK
    BY DEF NetInv
  <1>4. Good /\ [Next]_vars => Good'
    BY <1>1, <1>3, NextNet, NextSolo, NextKeepsCopies, NextLosesNothing
  <1>5. Init => Ledger!Init
    <2> SUFFICES ASSUME Init PROVE Ledger!Init
      OBVIOUS
    <2>1. Latest = Blank /\ db = Blank
      BY ValueOrder DEF Init, Latest
    <2> QED
      BY <2>1 DEF Ledger!Init, Blank, Absent
  <1>6. Good /\ [Next]_vars => [Ledger!Next]_<<Latest, db>>
    <2> SUFFICES ASSUME Good, [Next]_vars
                 PROVE  Ledger!Play \/ Ledger!Save \/ (Latest' = Latest /\ db' = db)
      BY DEF Ledger!Next
    <2>1. TypeOK /\ TypeOK' /\ CopiesLead'
      BY <1>1, <1>3, NextTyped, NextKeepsCopies
    <2>2. CASE \E t \in Threads : AuthSet(t) \/ PatchSet(t)
      BY <2>1, <2>2, SettingPlays
    <2>3. CASE \E t \in Threads : SavePersist(t)
      BY <2>1, <2>3, PersistSaves
    <2>4. CASE DestroyDel \/ Tick
      BY <2>4, EndingStutters
    <2> QED
      BY <2>1, <2>2, <2>3, <2>4, RestStutters
  <1> QED
    BY <1>2, <1>4, <1>5, <1>6, PTL DEF Spec, LedgerSpec, Ledger!Spec

(* The parts of the invariant hold together, each where its circumstances do.*)
THEOREM ProgressIsKept == Spec => []ProgressInv
  <1> DEFINE Copies == "http" \notin Environment => CopiesLead
             Good == TypeOK /\ (Alone => SoloInv /\ Copies) /\ (Steady => NothingIsLost)
  <1>1. Steady => Alone /\ "http" \notin Environment
    BY DEF Steady, Alone
  <1>2. Init => Good
    BY InitTyped, InitSolo, InitCopies DEF Init, NothingIsLost, Threads
  <1>3. Good /\ [Next]_vars => Good'
    BY <1>1, NextTyped, NextSolo, NextKeepsCopies, NextLosesNothing
  <1>4. Good => ProgressInv
    BY DEF ProgressInv, Steady
  <1> QED
    BY <1>2, <1>3, <1>4, PTL DEF Spec
=============================================================================
