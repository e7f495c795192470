# AvatarServer: specification and proofs

This directory specifies the server logic of AvatarServer in TLA+, checks it with TLC on
small instances, and proves its safety with TLAPS for every instance. Paths are
relative to the repository; `gateway` below is `src/modules/realtime/realtime.gateway.ts`,
and so on by file name.

    tlc -config PlayerSession_net.cfg MCPlayerSession     # one run
    tlapm PlayerSession_proof.tla                         # the proofs, about a minute

## 1. The system

A NestJS game server with Postgres (TypeORM), Redis and BullMQ. Players come in over HTTP
and a WebSocket; the game is a Godot client.

| component | state | operations | talks to |
|---|---|---|---|
| realtime gateway and session (`realtime.gateway`, `session.service`, `session-state.util`, `ws-jwt.guard`) | `client.data` of each socket; Redis `session:<uid>` with a TTL, set `session:online` | connect, `auth`, `patch`, `save`, close | users, queue `session` |
| session flush (`session-flush.processor`) | one delayed BullMQ job per player | execute: save, then destroy | session, users |
| users (`users.service`, `users.controller`) | `user_profiles.data` | get, patch | Postgres |
| events (`events.service`, `events.processor`) | event row, `event_logs`, `leaderboards`; Redis sorted set and rate counters; a start and an end job | create, schedule, boot, activate, end, score | queue `events`, pub/sub to the gateway, which broadcasts to every socket |
| device codes (`device-code.service`, `auth.controller`, `oauth.controller`) | Redis `auth:device:<code>` with a TTL | start, poll, OAuth callback | accounts |
| accounts (`auth.service`) | `users`, `user_profiles`, `auth_identities` | register, login, OAuth sign-in, link, unlink | Postgres |
| access (`admin.guard`, `jwt.strategy`, `grant-admin`) | `users.active`, `users.is_admin`; the life of tokens | guard an admin request, grant, revoke, ban | Postgres |
| scripts (`reset`) | all tables, some Redis keys | drop them | Postgres, Redis |
| inventory (`inventory.service`) | `inventories` | add, remove, list | Postgres |

Nothing in the server holds a lock, and there is no transaction except the one around the
leaderboard rows and those TypeORM makes around one `save`. Every `await` is therefore a
point where other handlers run, and this is where the hard behaviour is:

* **Sessions.** The session lives in Redis under a TTL; a delayed job with the fixed id of
  the player is meant to carry it to Postgres before the key dies. `auth` cancels the job,
  a close plants it, the job itself saves and then deletes. Patches are read-modify-write.
  Correct means: what was patched gets stored, nothing old is stored over it, a player who
  is connected keeps the session, and `session:online` becomes right again.
* **Events.** Score requests check a rate, then a cap, then write a log and the score, each
  a command of its own, while jobs and administrators flip the status and `end` copies the
  scores away. Correct means: the caps bound the score, points are logged, scores are
  dropped only after they are copied, an event ends, and the players are told so.
* **Device flow.** A poll reads and deletes the entry; a callback reads and sets it; the key
  expires. Correct means: one hand-out, only of what was granted, and a final answer.
* **Accounts.** Users, profiles and identities are saved one by one; unique indexes are the
  only guard against races. Correct means: one person is one user, with a profile and a way
  to sign in.
* **Access.** A sign-in and the script read a row and save it some statements later; TypeORM
  writes every column in which the copy differs by then. Correct means: what the operator said
  stands, a revoked admin is refused at once, a banned user is out in the end.
* **Inventory.** Read, compute, save. Correct means: nothing is lost or conjured.

`PROJECT.json` lists these hazards at their lines with the properties that cover them.

## 2. Modules

| module | models | composed with |
|---|---|---|
| `ProgressLedger` | abstract: `latest` and `stored` progress of a player | implemented by `PlayerSession` |
| `PlayerSession` | gateway, session service, flush job, profile row of one player | `INSTANCE ProgressLedger WITH latest <- Latest, stored <- db` |
| `Events` | one event: service, jobs, boot, reset, and the gateway's broadcast | |
| `DeviceCode` | one code: controller, service, callback, client timer | |
| `Accounts` | the three tables and the requests on them | |
| `Access` | the row of one user, its guards and its writers | |
| `Inventory` | one row and the requests on it | |
| `MC...` | symmetry sets, profiles and worlds for TLC | extend the module of that name |
| `..._proof` | the theorems about the six components | extend the module of that name, `TLAPS` |
| `Progress_proof` | progress is kept: the refinement of `ProgressLedger` and what it rests on | extends `PlayerSession_proof` |

Conventions. One action is one command sent to Redis, Postgres or BullMQ together with the
synchronous code up to the next `await`; `pc[t] = "x"` says that thread `t` is about to send
command `x`. Keys, jobs and rows carry the id of the player, event, code or item, so
different ids do not interact and one of each is modelled (`Accounts` excepted, where the
interaction of users is the point). Time is a `Tick` that takes life from keys and delay
from jobs. A constant `Environment` (in `Accounts`, the `allowed` of a world) names the
circumstances a run lets happen. It only ever adds guards, never changes what a handler does,
and a property that holds in one environment and fails in a larger one says exactly what the
code relies on. An operator `X_Y` is `X` with the plausible mistake `Y`, and no specification
uses it. The invariant that a proof module shows to be inductive stands in the module itself
(`NetInv`, `ProgressInv`, `EventInv`, `FlowInv`, `AccountsInv`, `RowInv`, `StockInv`), and TLC
checks it too; `TypeOK` is the first conjunct of each, and is listed in a run of its own only
where a mistake in the code can break it and nothing else.

### PlayerSession

`sockets` is `client.data` (`"authed"` once the guard wrote `userId`), `session`/`ttl` the
Redis key, `online` the membership, `job`/`delay`/`stalls` the BullMQ job, `db` the blob.
A blob maps `Keys` to the number of the client write it came from, so that "older" means
smaller. `lastSavedAt` is the transient key `saveToDb` stamps.

| code | actions |
|---|---|
| `handleConnection`, `handleDisconnect` | `Connect`; `CloseNew`, `Close`, `CloseExists`, `CloseExpire`, `CloseRemove`, `CloseAdd` |
| `onAuth` with `resume` / `start` / `getProfile` | `AuthStart` (removes the job), `AuthGet`, then `AuthExpire` or `AuthLoad`, `AuthSet`; `AuthOnline`; `AuthFails` |
| `onPatch`, `SessionService.patch` | `PatchStart`, `PatchSet` |
| `onSave`, `saveToDb` | `SaveStart`, `SavePersist`, `PatchGet`, `PatchSet`; `SaveFails` |
| `SessionFlushProcessor.process`, `destroy` | `FlushStart`, `FlushGet`, the save steps by `Worker`, `DestroyDel`, `DestroySrem`, `FlushDone`; `FlushFails` |
| `PATCH /users/me` | `HttpPatch` |
| clock, process, BullMQ stall check | `Tick`, `Crash`, `Requeue` |

Abstractions. The first GET of a `patch` or `save` is fused with the arrival of the message
(nothing of the handler runs before it). `patchProfile` loads the row and saves it; `data` is the only
column it changes and the value does not depend on the row, so it is one write. BullMQ
`remove` of an executing job does nothing and `add` with the id of an existing job is
ignored; these two facts about the library are external. `DisconnectTtl` keeps the
arithmetic of `session.service.ts:96`: a number read with `cfg.get` is text, and `grace + 60`
concatenates (`GraceIsText`). Commands of different handlers may reach Redis in any order,
more orders than the single connection of the server produces. The environment's variables
`SESSION_TTL_SECONDS` and `GRACE_PERIOD_SECONDS` are any positive numbers: the code compares
them with nothing, so `SessionTtl > Grace`, which the defaults satisfy, is an assumption of the
theorems that need it and not of the module.

### Events

`status`, `logs`, `rows` are in Postgres; `board`, `used`, `window` in Redis; `startJob` and
`endJob` in BullMQ. `sched` is the position in `scheduleEvent`, which `create` and
`onModuleInit` (`Boot`) share. `activate` is `ActivateSave`, `ActivatePublish`; `end` is
`EndSave`, `EndPublish`, `EndRead`, `EndInsert` (the transaction, which fails on a second
row of a player), `EndDel`, `EndKeys`, `EndUnrate`; `scoreEvent` is `ScoreStart`, `Incr`,
`Expire`, `Cap`, `Log`, `Zincrby`. `Publish` puts a message on `feed`, the channel
`events:broadcast`, from which the gateway's subscriber (`Broadcast`) sends it to every open
socket; `told` is what each client heard last. A client comes and goes by `Connect` and
`Disconnect`; Redis delivers to whoever is subscribed and to nobody else (`"deaf"`).

`PgFails`, `ScheduleFails`, `Stop` are the failures; failed jobs stay failed because no
`attempts` is configured. A server that stops (`Halt`) loses its handlers, its sockets and
its subscription. `ResetTables` and `ResetKeys` are `db:reset`, run while the server is down.
The script does not check that; it tells the operator to restart a server afterwards
(`reset.ts:47`), and a reset under a running one is outside the model. `findOne` and `save` of
`activate` and `end` (`events.service.ts:102-105`, `114-117`) are one step: the row of an event
has no other writer, and two flips that overlap save in either order as it is.
Rejected score requests beyond the first of a window only count up a counter that is already
over the limit, and are left out.

### DeviceCode

`entry`/`ttl` is the key. A poll is `PollStart` (the client's timer), `PollGet`,
`PollDelete`; a callback is `CallbackStart`, `AccountDone` or `AccountFails`, `MarkGet`,
`MarkSet`. `PollLost` is a poll that comes to nothing for the client: refused by the
throttler, lost on the way, or answered when nobody hears, in which case the key is gone all
the same. The client finds no `status` in what it has for an answer and goes on polling. The
account work is one step here and many in `Accounts`. `seen` remembers which
circumstances of `Environment` came to pass in this behaviour, so that one run explores them
all while a property can say under which of them it is promised.

### Accounts

One action per SQL statement. A unique index is the guard of the statement, and the exception
its other outcome; `users` is a sequence because ids are never reused. A profile is (provider,
subject, e-mail). A behaviour lives in one of the `Worlds`, a set of profiles with the
circumstances that may come to pass, so that one run covers unlike populations without their
product. `findOrCreateOAuthUser` is `SignIn`, `FindIdentity`, `FindOwner` and `Refresh` (the
save of a row that the provider has news for), or `FindEmail`, `FindLinked`, `AutoLink`, or
`CreateUser`, `CreateProfile`, `CreateIdentity`; `register` is `SignIn` of a local profile
and the last three. `linkProviderToUser` is `Link`, `FindTaken`, `FindSame`, `Attach`;
`unlinkProvider` is `Unlink`, `DeleteRow`. `crossed` is a history variable: the users of whom
one request was to delete an identity when another counted them and chose a different one.
Display names and avatars are left out except that
they are why a row may be saved.

### Access

`row` holds the columns `active` and `is_admin`, `token` the life left of the youngest token.
`login` is `Login`, `LoginUser`; an OAuth sign-in `SignIn`, `FindOwner` and, when the provider
has a new avatar or name, `SaveReload` and `SaveUpdate`, the two statements of
`repository.save`: it reads the row again and writes every column in which the entity differs.
`grant-admin` is `Script`, `ScriptFind`, `ScriptReload`, `ScriptUpdate`; `ByHand` the `UPDATE`
that a comment in `user.entity.ts` tells the operator to send. An admin request is
`AdminCall`, `AdminGuard`, `AdminAct`. `ordered` is a history variable, the operator's last word on
each column; `stale` collects the columns that changed under a copy which will be saved, and
`entitled` the requests during which the word allowed them.

### Inventory

One action per SQL statement. TypeORM's `save` of a loaded row first reads it again by id
(`SaveLoad`), writes nothing when nothing changed, and inserts when the row has gone; the
answers given are added up in `added` and `removed`, and `seen` remembers which kind of
overlap came to pass.

## 3. Runs

| run | environment and bounds | shows |
|---|---|---|
| `session_ledger` | 2 sockets, 1 handler, 3 writes, `reauth` | `PlayerSession` implements `ProgressLedger` (`LedgerSpec`), `EventuallyStored`, `ProgressInv` |
| `session_net` | 2 sockets, 3 handlers, 1 write, `pipeline`, `http`, `reauth`, numbers read as text | `SafetyNet`, its inductive form `NetInv`, `LiveSessionKept`, `PresenceIsRepaired` |
| `session_regress` | 2 sockets, 1 handler, 2 writes, `crash`, `pgdown`, `idle`, `reauth`, `lag` | `StoredNeverRegresses`, and why: `ProgressInv` |
| `events_score` | 1 player, 2 requests, cap 2, rate 2, 3 logs, 1 stop; all but `late` and `race` | `OvershootBounded`, `EveryPointIsLogged`, `SnapshotIsFinal`, `EventInv` |
| `events_ends` | 1 player, 1 client, 2 requests, cap 1, rate 2, 2 logs, 2 messages, no stops; `admin`, `concurrent`, `late` | `ToldIsStatus`, `RateHasExpiry`, `EndsOnTime`, `EventInv`, `EventuallyEnded`, `EndIsTold` |
| `device_flow` | 2 polls, 2 callbacks, 1 account, life 2; `tabs`, `overlap`, `lag`, `loss`, `failure` | `UsedOnce`, `SuccessIsNotExpired`, `HandedOutWasGranted`, `FlowInv`, `TypeOK`, `EventuallyAnswered` |
| `accounts_people` | 2 requests; worlds `Linking` (2 users, 3 profiles: `register`, `link`), `TwoWays` (2 users, 2 profiles: and `unlink`), `ThreeWays` (1 user, 3 profiles: and `unlink`) and `Rough` (2 users, 3 profiles: `ban`, `pgdown`) | `IdentityHasProfile`, `NameIsUsable`, `OneUserPerEmail`, `SameAccountSameUser`, `OnlyCrossedUnlinksLockOut`, `AccountsInv`, `TypeOK` |
| `access_row` | 2 requests, tokens live 2 ticks; everything | `OperatorsWordStands`, `RevokedIsRefused`, `BanEndsAccess`, `RowInv` |
| `inventory_stock` | 3 requests, quantities 1 and 2, column limit 4 | `NothingConjured`, `StockIsOwed`, `StockInv`, `TypeOK` |

`session_overlap`, `session_silent` and `events_boot`, in section 5, have TLC find a violation each;
so have thirteen more configurations that stand beside the modules and are not listed runs.

**Why the bounds are enough.** Two sockets are what an "old" and a "new" connection need, two
handlers what an overlap needs; a third in `session_net` lets a close overlap two messages. One
write distinguishes present from absent, two an older from a newer one. The TTL (4) exceeds grace
(2) plus buffer (1) as the defaults do, so expiry before, at and after the flush all occur. In
`events_score` the cap is reached by one request and passed by two overlapping ones, and the rate
limit is reached; a second player has counters and scores of their own. Clients do not interact,
so one, with two messages under way, sees every order of connecting, start and end. A life of two
ticks lets a code or a token expire before, between and after the commands of a request. Two
account requests are the smallest race, and two users what it could wrongly make; two identities
are the fewest that two unlinks can take away, and a third is one that stays; two requests on a
user's row are a copy and the write that makes it stale. With one account `device_flow` tells a
code that was granted from one that was not; that nobody else's account is handed out,
`OnlyGrantedIsHandedOut` proves for any number of accounts. A column limit of 4 is reached by two
adds. Where a theorem of section 4 states the property, these choices do not matter.

Deadlock is not checked where the modelled life really ends, or stops at a bound: a consumed code,
accounts whose users and requests have nothing left to do, an inventory whose bound on moved
items is reached. Everywhere else TLC checks for deadlock.

**Bounds by name.** `MaxPatches` client writes; `Horizon`, where the event's clock stops counting;
`MaxActions` log rows of a player; `MaxStops` stops of the server; `MaxFeed` messages under
way to the gateway; `MaxUsers` rows of users, which each world sets, `MaxRows` ids of identities in use at a time
(seven never runs out in `accounts_people`); `MaxMoved` items added and removed. `TokenLife`,
`Window` and `Ttl` are the configured lives, in ticks. In `DeviceCode`, `delivered` stops at
2, "more than once".

**Fairness**, used only for the five liveness properties (`EventuallyStored`,
`EventuallyEnded`, `EndIsTold`, `EventuallyAnswered`, `BanEndsAccess`). Handlers that started
are run by the event loop (`WF` of each handler's steps); a due job is executed by its worker
and a stalled one found again (`WF`); a message on the channel reaches the subscriber (`WF` of
`Broadcast`); the clock advances (`WF`); a stopped server is started and a reset that began is
finished (`WF` of `Boot`, `ResetKeys`). In `DeviceCode` the client's timer polls as long as no
answer is final (`WF`), and not each poll is lost (`SF` of `PollGet` and `PollDelete`: a poll
that could be lost each time is served some time, which is what a client that retries relies
on). The always-possible next poll would put time off for ever in runs without a lag; time
passes however often a client polls, hence `SF(Tick)`. Callbacks have no fairness: the browser
may never come back. Nobody is obliged to connect, play, score or sign in.

## 4. Proofs

Seven modules, checked to the last leaf. Each component has type correctness in every
environment (so that no handler ever carries what it should not, for any number of requests)
and then safety, from an invariant whose preservation is shown action by action. Every
invariant and every action property that a passing run checks is proved, and so is the
refinement.

| module | theorem | states | assuming of the environment |
|---|---|---|---|
| `PlayerSession_proof` | `SafetyNetHolds` | `SafetyNet` | within `pipeline`, `http`, `idle`, `reauth`; `SessionTtl > Grace` |
| | `PresenceHeals` | `PresenceIsRepaired` | the same |
| | `LiveSessionIsKept` | `LiveSessionKept` | the same without `idle` |
| `Progress_proof` | `SessionIsALedger` | `LedgerSpec` | at most `reauth`; `SessionTtl > Grace` |
| | `StoredIsMonotone` | `StoredNeverRegresses` | no `pipeline`, `overlap`, `race`, `http` |
| `Events_proof` | `PointsAreLogged` | `EveryPointIsLogged` | nothing |
| | `OvershootIsBounded` | `OvershootBounded` | nothing |
| | `CountersExpire` | `RateHasExpiry` | no `crash` |
| | `FinalTableIsTheBoard` | `SnapshotIsFinal` | no `race`, no `late` |
| | `LastToldIsStatus` | `ToldIsStatus` | no `race` |
| | `EventEndsOnTime` | `EndsOnTime` | nothing (the property names it) |
| `DeviceCode_proof` | `OnlyGrantedIsHandedOut` | `HandedOutWasGranted` | nothing |
| | `CodeIsUsedOnce` | `UsedOnce` | nothing (the property names them) |
| | `SuccessReachesDevice` | `SuccessIsNotExpired` | nothing (the property names them) |
| `Accounts_proof` | `AccountHasOneUser` | `SameAccountSameUser` | nothing (the property names it) |
| | `ProfileIsThere` | `IdentityHasProfile` | nothing (the property names it) |
| | `NamesAreUsable` | `NameIsUsable` | nothing (the property names it: `pgdown`, `crossed`) |
| | `AddressHasOneUser` | `OneUserPerEmail` | nothing (the property names it) |
| | `OnlyCrossedLockOut` | `OnlyCrossedUnlinksLockOut` | nothing (the property names it: `crossed`) |
| `Access_proof` | `OrdersStand` | `OperatorsWordStands` | nothing (the property names it: `stale`) |
| | `GuardObeys` | `RevokedIsRefused` | nothing (the property names it: `stale = {}`) |
| `Inventory_proof` | `NothingIsConjured` | `NothingConjured` | nothing |
| | `OwedIsThere` | `StockIsOwed` | nothing (the property names it) |

Each component also has `TypeCorrect`, which states `TypeOK`, and a theorem that its inductive
invariant is one: `NetIsKept`, `ProgressIsKept`, `EventIsKept`, `FlowIsKept`, `AccountsAreKept`,
`RowIsKept`, `StockIsKept`. The constants are arbitrary within
the `ASSUME`s of the modules: any `SessionTtl > 0`, `Grace > 0` and `FlushBuffer \in
1..999`, any caps, windows and times, any finite set of score requests and of item requests,
any sets of sockets, handlers, polls, callbacks and account requests, any worlds.

*The safety net.* `SafetyNet` says that a session left behind has a waiting job that is due while
the key lives. It is not inductive: a close sets the TTL three commands before it plants the
job, and an `auth` removes the job before it is connected in Redis. `NetInv` adds what makes
each step safe: at most one socket is authenticated and a `new` one has no handler; the worker
is alone while a job executes; a connected player has no job and no close in flight; while
any handler runs, a job that exists is fresh (its delay is still `Grace`, because no time
passes) and, without one, somebody is connected or closing; a close that has shortened the
TTL left more than `Grace`; and the flushed key is gone when the worker cleans up. That the
shortened TTL exceeds `Grace` is a lemma about `DisconnectTtl` that covers the sum and the
concatenation of digits. `LiveSessionKept` then follows: the key dies only
by `Tick`, which does not let a player be silent that long, or by `DestroyDel`, when nobody
is connected. `PresenceIsRepaired` follows as well: an `auth` that connects puts the name in
`session:online` after its close could take it out only if the close is still to plant its job,
and the job, when it runs, ends with the name removed.

*Progress.* Where messages of a player do not overlap (`Alone`), `SoloInv` says that one thread
works at a time: a handler of the authenticated socket, a close handler when there is none, or
the worker when nobody is there. That is what the queue, the guard and the order of the commands
in `auth` and in a close come to together, and it survives crashes, failures and jobs that run
twice. From it, `CopiesLead`: every copy of the object, in Redis or carried across an `await`,
is at least as new as the row. It is what makes `StoredNeverRegresses` inductive, because a save
writes such a copy; `PATCH /users/me` is left out because it writes past the session. Without
failures and silence `NothingIsLost` adds that nobody saves a session that is gone or loads one
that exists, and that what the job deletes is what it stored. Then each step of the server is a
step of the ledger or a stutter: `AuthSet` and `PatchSet` play (`SettingPlays`), `SavePersist`
stores the latest state (`PersistSaves`), deletion and expiry change nothing a player would see
(`EndingStutters`), and nothing else touches session or row (`RestStutters`).

*Scores.* `EventInv` counts requests. `LogsLead` says that the board plus the points of the
requests past their log row is at most what the log rows are worth, also in the copy that
`end` carries; `CapLeads` that the board plus the points of all requests past the check
exceeds the ceiling by at most those of all requests but one: the check itself is what makes
this inductive, because a request that passes it leaves one increment less to the others.
`CopyIsBoard` says that, alone, `end` carries the board and then has written it. The lemmas
`CarryingKeepsLogs` and `LoweringKeepsCap` treat all steps that change neither side upwards
at once, which leaves the two or three steps that do. `Serving` links handlers, players and
the state of the server.

*News.* `NewsInv`, also part of `EventInv`, follows a message from the row to the client: without
races one thread at a time flips the status (`Flippers`), and what it is about to announce is the
status; unless one has flipped it and is about to announce that (`Announcing`), the last message
(`LastNews`), still under way or already told, is the status; and a server that is down has
neither messages nor clients. Messages join `feed` at its end and are delivered from its head,
so the lemmas speak of its last element.

*On time.* `OnTime`, the last part of `EventInv`, is about an event that nothing disturbs
(`Undisturbed`: no failure, no stop, created before its start, `StartAt < EndAt`, revived by
nobody). Both jobs are made before they are due; each then waits or is executed until it has
flipped the status; after the start nothing activates the event again. The model's clock waits
for jobs that are due and for messages under way (`Quiet`), so past `EndAt` the event is ended
and everybody has heard it. This is what the liveness property `EventuallyEnded` rests on,
stated as safety and therefore within TLAPS's reach: that the clock and the workers do go on is
left to TLC.

*One code, one hand-out.* `FlowInv`: every completed entry, wherever it is carried (the key, a
poll, a callback), was granted or reports an error; without overlap one poll is under way;
with one round trip the callback that is under way finds nothing completed, and after the
hand-out nobody is left to set the key again; and where things are
`Fine` a round trip finds the code alive or its device answered (`CodeOutlivesWork`), an error is
nowhere before a failure, and a failure was the only round trip (`ErrorIsFailure`), so that a
success stays in the entry, with life left, until the device has it (`SuccessStays`).

*Accounts.* `AccountsInv`: the unique indexes make an account's identity, and a row's id,
single (`Single`); while none is taken away, every sign-in that was answered, or is about to
be, is by an identity of its user (`Known`); a user without a profile is in the hands of a
request that will make it (`Equipped`); and the row to be
deleted belongs to the user who asked, who has another one, and whose other requests, unless
they crossed, are about the same row (`Spare`): what one of them leaves the others leave too.
`Distinct` has the unique names and addresses, and that a local identity is of the user with that
name; `Founded`, that a user whom `register` has not finished with is known to nobody else, so
that the identity, the last of its three inserts, cannot be refused. Hence `Named`: a taken name
has an identity or is about to, its user's crossed unlinks excepted. `Addressed` carries an
address from account to user: where accounts keep their addresses, whoever an account leads to,
is answered for or acted for has its address, and `users.email` is unique.

*The row.* `RowInv`: a copy agrees with the row in the columns that did not change under it,
and an `UPDATE` writes none of them, except for what a script is about to say; and every
request at the guard has heard the operator's word.

*Stock.* `StockInv`: no request writes more than will have been added when it is answered; a
remove that nobody overlapped is alone, on the row it read; without any overlap the one request
under way knows row and stock.

*Only model-checked*: the five liveness properties; fairness and `ENABLED` are outside the
prover. The proofs assume what the table says, and section 5 shows runs in which a property
fails when an assumption is dropped.

## 5. Where code and text disagree

Each row is a configuration under which TLC finds the property violated, on a small instance
that allows what is named and nothing else. The first three are listed runs (`session_overlap`,
`session_silent`, `events_boot`), where the finding is quoted; the others are seen with, for example,
`tlc -config DeviceCode_twice.cfg MCDeviceCode`.

| configuration | allows | violates | code | text |
|---|---|---|---|---|
| `PlayerSession_overlap.cfg` | `overlap` | `LiveSessionKept` | `gateway:113`: a close does not ask whether the player is back on another socket | `session.service.ts:83` |
| `PlayerSession_silent.cfg` | `idle` | `PatchesNeverUndone` | `gateway:103`: only a close makes the flush job; what a socket patched that died silently expires | `README.md:342-343` |
| `Events_boot.cfg` | `restart` | `EventuallyEnded` | `events.service.ts:92`: an end missed while the server was down is never made up for | `:35`, `:69` |
| `PlayerSession_race.cfg` | `race` | `PlayerHasSession` | `gateway:144`: removing a job that executes does nothing, and it deletes the session that `auth` resumed | `gateway:142-143` |
| `PlayerSession_pipeline.cfg` | `pipeline` | `PatchesNeverUndone` | `session.service.ts:74`, `:123`: the trailing patch of a save writes back what it read | `README.md:342-343` |
| `Events_rate.cfg` | `crash` | `RateHasExpiry` | `events.service.ts:154`: INCR and EXPIRE are apart | `:148-149` |
| `Events_late.cfg` | `admin`, `late` | `SnapshotIsFinal` | `events.service.ts:125`: a late score is deleted uncopied | `:125` |
| `Events_cap.cfg` | `concurrent` | `ScoreCap` | `events.service.ts:163`: check and increment are apart | `:147-148` |
| `DeviceCode_twice.cfg` | `overlap` | `HandedOutOnce` | `auth.controller.ts:117`: read and delete are apart | `:115` |
| `DeviceCode_back.cfg` | `tabs` | `ConsumedIsGone` | `device-code.service.ts:81`: a marking sets a consumed key again | `auth.controller.ts:115-116` |
| `DeviceCode_retry.cfg` | `tabs`, `failure` | `SuccessWaits` | `device-code.service.ts:80`: an earlier `error` stays in the entry | `auth-views.ts:67` |
| `DeviceCode_late.cfg` | `lag` | `SuccessWaits` | `oauth.controller.ts:126`: the answer of the marking is ignored | `auth-views.ts:67` |
| `Accounts_unlinks.cfg` | world `TwoWays` | `LastWayIsKept` | `auth.service.ts:217`: count and delete are apart | `:212` |
| `Accounts_profile.cfg` | world `Rough` | `WhoeverSignsInHasProfile` | `auth.service.ts:159`: a half-made user is linked and never gets a profile | `README.md:184` |
| `Inventory_lost.cfg` | 2 requests | `NothingIsLost` | `inventory.service.ts:31`: lost update | `README.md:13` |
| `Access_writeback.cfg` | everything | `RevocationIsImmediate` | `auth.service.ts:110`: a sign-in that only has a new avatar to save writes `is_admin` back | `admin.guard.ts:11-12` |

What remains of each promise is what the passing runs check: `OvershootBounded` for the cap,
`UsedOnce` and `SuccessIsNotExpired` for the code, `OnlyCrossedUnlinksLockOut` for the last
identity, `IdentityHasProfile`, `NothingConjured`, `RevokedIsRefused`.

These were met as well, and can be seen by changing a run as said. Some concern definitions
that are in the modules and in no listed run.

| change | violated | code | text |
|---|---|---|---|
| `session_net` with `SessionTtl` 1 or 2 | `SafetyNet` | `session.service.ts:33-34`: nothing compares the TTL with the grace period; a patch or an `auth` late in the close sets a TTL that ends before the job runs | `README.md:342-343` |
| `session_net` | `PresenceSettles` | `session.service.ts:45`: an `auth` that overlaps the close of its socket adds the name after the close took it out; the flush job takes it out again (`PresenceIsRepaired`) | |
| `session_net` | `DisconnectTtlIsGracePlusBuffer` | `session.service.ts:96`: text is concatenated | `session.service.ts:94` |
| `events_ends` | `NoLeftovers` | `events.service.ts:177`: a late score makes the set again | `:125` |
| `events_ends` with `StartAt = 2`, `EndAt = 1`, `EndsOnTime` without `StartAt < EndAt` | `EndsOnTime` | `events/dto/event.dto.ts:32`: nothing compares the two times | `events.service.ts:69` |
| `events_ends` with only `admin`, `deaf` | `EndIsTold` | `gateway:77`: nothing is repeated to a subscriber that was away | `README.md:269` |
| `events_ends` with only `reset`, `restart` | `NoOrphanJobs` | `events.service.ts:34-43`: boot looks at events only, not at jobs without one | `reset.ts:47` |
| `SuccessIsNotExpired` without its condition | `SuccessIsNotExpired` | also `auth.controller.ts:117` (a lost answer) | `auth-views.ts:67` |
| `NameIsUsable` without its condition, a world with `register` and `pgdown` | `NameIsUsable` | `auth.service.ts:49`: a half-made registration holds the name | `:38` |
| `OneUserPerEmail` without its condition, `Linking` | `OneUserPerEmail` | `auth.service.ts:45`: register stores no e-mail | `README.md:189` |
| `OneUserPerEmail` without `AddressesStay`, a world in which `g1` has two addresses | `OneUserPerEmail` | `auth.service.ts:97`: a known identity signs in whatever address it comes with, and the row keeps the old one | `README.md:189` |
| a world with `TwoGoogles` and nothing allowed | `SignInFindsUser` | `auth.service.ts:149`: the address is taken by a user with another account of the provider | `:87` |
| `OperatorsWordStands` without `stale` | `OperatorsWordStands` | `auth.service.ts:110`, `grant-admin.ts:44`: the copy is written back | `user.entity.ts:39-41` |

## 6. Not modelled

The Passport strategies of Google and Facebook (they rename the fields of a profile, which
the models take as input); the throttler as such (a request may always not be made, and a
refused poll is a lost one) and the error filter; HTML pages (only which page was shown);
`db:reset` on the keys of sessions and codes (they expire by themselves), or stopped half-way,
and `admin:list`;
foreign keys and cascades (nothing deletes users or events); item metadata; collisions of
device codes (they are random over a space that makes them negligible); queries that only
read. `Accounts` treats the SELECT and the UPDATE by which `save` refreshes a row as one step;
`Access` takes them apart. The Godot client is modelled as what it sends and its poll timer.

## 7. Plan

Done: all components that change state, each with its runs; the proofs of section 4. No
module declares a `RECURSIVE` operator, so all of them can be proved about.

Left: an abstract specification of an event (points that are logged, bounded and handed over
once) with `Events` shown to implement it, as `PlayerSession` implements `ProgressLedger`; one
of a device code (asked for, granted, handed out once); a sign-in that composes `DeviceCode` and
`Accounts` (a code's result is the user the tables give it, also across an unlink).
