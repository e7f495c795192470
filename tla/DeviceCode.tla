----------------------------- MODULE DeviceCode -----------------------------
(***************************************************************************)
(* The device flow of one code: AuthController.startDevice and pollDevice, *)
(* OAuthController.handleOAuth, and DeviceCodeService on the Redis key     *)
(* auth:device:<code>.  Codes are random and never used twice, so they do  *)
(* not interact.  The device is the Godot client, which polls on a timer;  *)
(* what happens to accounts on the way is left to module Accounts.         *)
(* Environment names what a run allows:                                    *)
(*   "tabs"     the OAuth round trip is made more than once for the code   *)
(*   "failure"  the account work of a round trip fails                     *)
(*   "overlap"  the device polls again before the last poll is answered    *)
(*   "lag"      time passes while requests are unfinished                  *)
(*   "loss"     a poll is refused (the throttler) or lost, or its answer is *)
(* A definition X_Y is a variant of X with a plausible mistake Y, there to *)
(* see that a property notices; the specification does not use it.         *)
(***************************************************************************)
EXTENDS Integers

CONSTANTS Polls, Callbacks,  \* requests that can be in flight
          Accounts, Nobody,  \* provider accounts a browser signs in with
          Ttl, Environment

ASSUME AccountAssumption == Nobody \notin Accounts
ASSUME TtlAssumption == Ttl \in Nat \ {0}
ASSUME EnvironmentAssumption ==
  Environment \subseteq {"tabs", "failure", "overlap", "lag", "loss"}

VARIABLES
  mode,      \* "none" before startDevice, then "login" or "link"
  entry,     \* the value of the key
  ttl,       \* its remaining life; the key exists iff ttl > 0
  device,    \* "off", "polling", or what the client was told last
  delivered, \* answers `ready` or `linked` sent; 2 is two or more
  poll,      \* the next command of each poll
  polled,    \* the entry a poll carries
  tab,       \* the next command of each callback
  marking,   \* the entry a callback carries
  account,   \* who a callback is for
  outcome,   \* how its account work ended: "none", "ok" or "error"
  granted,   \* accounts that signed in or were linked through this code
  tabs,      \* a round trip was made
  seen,      \* those of Environment that have come to pass
  success    \* a browser showed the page "you can return to the game"

requests == <<poll, polled>>
browsers == <<tab, marking, account, outcome>>
vars == <<mode, entry, ttl, device, delivered, requests, browsers, granted, tabs, seen,
          success>>

(* The result is the account whose token, or whose link, the entry reports. *)
Entries == [status: {"pending", "completed"}, result: Accounts \cup {Nobody}, error: BOOLEAN]
Pending == [status |-> "pending", result |-> Nobody, error |-> FALSE]

TypeOK == /\ mode \in {"none", "login", "link"}
          /\ entry \in Entries
          /\ ttl \in 0..Ttl
          /\ device \in {"off", "polling", "ready", "linked", "expired"}
          /\ delivered \in 0..2
          /\ poll \in [Polls -> {"idle", "get", "delete"}]
          /\ polled \in [Polls -> Entries]
          /\ tab \in [Callbacks -> {"idle", "account", "mark_get", "mark_set"}]
          /\ marking \in [Callbacks -> Entries]
          /\ account \in [Callbacks -> Accounts \cup {Nobody}]
          /\ \A b \in Callbacks : tab[b] # "idle" => account[b] \in Accounts
          /\ outcome \in [Callbacks -> {"none", "ok", "error"}]
          /\ granted \subseteq Accounts
          /\ tabs \in BOOLEAN /\ success \in BOOLEAN
          /\ seen \subseteq Environment

(* Circumstance c, if it is one, is allowed and remembered. *)
Note(c, occurs) == /\ occurs => c \in Environment
                   /\ seen' = (IF occurs THEN seen \cup {c} ELSE seen)

SetKey(e) == entry' = e /\ ttl' = Ttl
DelKey == entry' = Pending /\ ttl' = 0

-----------------------------------------------------------------------------
(* startDevice: the client asks for a code and starts its poll timer.  Link  *)
(* mode needs a signed-in user, who is then the one the account is linked to. *)
StartDevice(m) == /\ mode = "none"
                  /\ mode' = m
                  /\ SetKey(Pending)
                  /\ device' = "polling"
                  /\ UNCHANGED <<delivered, requests, browsers, granted, tabs, seen, success>>

-----------------------------------------------------------------------------
(* pollDevice. *)

PollStart(q) == /\ device = "polling"
                /\ poll[q] = "idle"
                /\ Note("overlap", \E r \in Polls : poll[r] # "idle")
                /\ poll' = [poll EXCEPT ![q] = "get"]
                /\ UNCHANGED <<mode, entry, ttl, device, delivered, polled, browsers,
                               granted, tabs, success>>

Another(n) == IF n < 2 THEN n + 1 ELSE n

(* The answer to poll q reaches the client: the last answer that is not      *)
(* `pending` is what the player sees.                                        *)
Answer(q, status) ==
  /\ poll' = [poll EXCEPT ![q] = "idle"]
  /\ polled' = [polled EXCEPT ![q] = Pending]
  /\ device' = (IF status = "pending" THEN device ELSE status)
  /\ delivered' = (IF status \in {"ready", "linked"} THEN Another(delivered) ELSE delivered)

PollGet_MissingIsPending(q) ==
  /\ poll[q] = "get"
  /\ entry.status = "pending" /\ Answer(q, "pending")
  /\ UNCHANGED <<mode, entry, ttl, browsers, granted, tabs, seen, success>>
PollGet(q) == /\ poll[q] = "get"
              /\ \/ ttl = 0 /\ Answer(q, "expired")
                 \/ ttl > 0 /\ entry.status = "pending" /\ Answer(q, "pending")
                 \/ /\ ttl > 0 /\ entry.status = "completed"
                    /\ poll' = [poll EXCEPT ![q] = "delete"]
                    /\ polled' = [polled EXCEPT ![q] = entry]
                    /\ UNCHANGED <<device, delivered>>
              /\ UNCHANGED <<mode, entry, ttl, browsers, granted, tabs, seen, success>>
Verdict(e) == IF e.error THEN "expired" ELSE IF mode = "link" THEN "linked" ELSE "ready"
PollDelete_Keep(q) == /\ poll[q] = "delete"
                      /\ Answer(q, Verdict(polled[q]))
                      /\ UNCHANGED <<mode, entry, ttl, browsers, granted, tabs, seen, success>>
PollDelete(q) == /\ poll[q] = "delete"
                 /\ DelKey
                 /\ Answer(q, Verdict(polled[q]))
                 /\ UNCHANGED <<mode, browsers, granted, tabs, seen, success>>

(* A poll that comes to nothing: the client, which finds no status in what   *)
(* it has for an answer, goes on polling, also when the code is gone.         *)
PollLost(q) ==
  /\ poll[q] # "idle"
  /\ Note("loss", TRUE)
  /\ poll' = [poll EXCEPT ![q] = "idle"]
  /\ polled' = [polled EXCEPT ![q] = Pending]
  /\ IF poll[q] = "delete"
       THEN DelKey /\ delivered' = (IF polled[q].error THEN delivered ELSE Another(delivered))
       ELSE UNCHANGED <<entry, ttl, delivered>>
  /\ UNCHANGED <<mode, device, browsers, granted, tabs, success>>

-----------------------------------------------------------------------------
(* handleOAuth: the browser is back from the provider as account a. *)

CallbackStart(b, a) ==
  /\ mode # "none" /\ ttl > 0
  /\ tab[b] = "idle"
  /\ Note("tabs", tabs)
  /\ tabs' = TRUE
  /\ tab' = [tab EXCEPT ![b] = "account"]
  /\ account' = [account EXCEPT ![b] = a]
  /\ UNCHANGED <<mode, entry, ttl, device, delivered, requests, marking, outcome,
                 granted, success>>

(* findOrCreateOAuthUser and issueToken, or linkProviderToUser: done, or an  *)
(* exception (a conflict, an outage).                                        *)
AccountDone(b) == /\ tab[b] = "account"
                  /\ tab' = [tab EXCEPT ![b] = "mark_get"]
                  /\ outcome' = [outcome EXCEPT ![b] = "ok"]
                  /\ granted' = granted \cup {account[b]}
                  /\ UNCHANGED <<mode, entry, ttl, device, delivered, requests, marking,
                                 account, tabs, seen, success>>
AccountFails(b) == /\ tab[b] = "account"
                   /\ Note("failure", TRUE)
                   /\ tab' = [tab EXCEPT ![b] = "mark_get"]
                   /\ outcome' = [outcome EXCEPT ![b] = "error"]
                   /\ UNCHANGED <<mode, entry, ttl, device, delivered, requests, marking,
                                  account, granted, tabs, success>>

(* markCompleted, markLinkCompleted or markError on an entry. *)
Marked(e, b) == IF outcome[b] = "ok"
                  THEN [e EXCEPT !.status = "completed", !.result = account[b]]
                  ELSE [e EXCEPT !.status = "completed", !.error = TRUE]
(* The redirect to /auth/done does not depend on what the marking returned. *)
Redirect(b) == /\ tab' = [tab EXCEPT ![b] = "idle"]
               /\ marking' = [marking EXCEPT ![b] = Pending]
               /\ account' = [account EXCEPT ![b] = Nobody]
               /\ outcome' = [outcome EXCEPT ![b] = "none"]
               /\ success' = (success \/ outcome[b] = "ok")
MarkGet_NoResult(b) ==
  /\ tab[b] = "mark_get"
  /\ tab' = [tab EXCEPT ![b] = "mark_set"]
  /\ marking' = [marking EXCEPT ![b] = [entry EXCEPT !.status = "completed"]]
  /\ UNCHANGED <<mode, entry, ttl, device, delivered, requests, account, outcome, granted,
                 tabs, seen, success>>
MarkGet(b) == /\ tab[b] = "mark_get"
              /\ \/ ttl = 0 /\ Redirect(b)
                 \/ /\ ttl > 0
                    /\ tab' = [tab EXCEPT ![b] = "mark_set"]
                    /\ marking' = [marking EXCEPT ![b] = Marked(entry, b)]
                    /\ UNCHANGED <<account, outcome, success>>
              /\ UNCHANGED <<mode, entry, ttl, device, delivered, requests, granted, tabs, seen>>
MarkSet_AddsTtl(b) == /\ tab[b] = "mark_set"
                      /\ entry' = marking[b] /\ ttl' = ttl + Ttl
                      /\ Redirect(b)
                      /\ UNCHANGED <<mode, device, delivered, requests, granted, tabs, seen>>
MarkSet_Lost(b) == /\ tab[b] = "mark_set"
                   /\ Redirect(b)
                   /\ UNCHANGED <<mode, entry, ttl, device, delivered, requests, granted,
                                  tabs, seen>>
MarkSet(b) == /\ tab[b] = "mark_set"
              /\ SetKey(marking[b])
              /\ Redirect(b)
              /\ UNCHANGED <<mode, device, delivered, requests, granted, tabs, seen>>

-----------------------------------------------------------------------------
(* Unless the run allows a lag, requests take no time, and a polling device  *)
(* polls at least once per unit of time.                                     *)
Prompt == /\ \A q \in Polls : poll[q] = "idle"
          /\ \A b \in Callbacks : tab[b] = "idle"
          /\ ~(device = "polling" /\ entry.status = "completed")
Tick == /\ ttl > 0
        /\ Note("lag", ~Prompt)
        /\ IF ttl > 1 THEN ttl' = ttl - 1 /\ UNCHANGED entry ELSE DelKey
        /\ UNCHANGED <<mode, device, delivered, requests, browsers, granted, tabs, success>>

Init == /\ mode = "none" /\ entry = Pending /\ ttl = 0
        /\ device = "off" /\ delivered = 0
        /\ poll = [q \in Polls |-> "idle"]
        /\ polled = [q \in Polls |-> Pending]
        /\ tab = [b \in Callbacks |-> "idle"]
        /\ marking = [b \in Callbacks |-> Pending]
        /\ account = [b \in Callbacks |-> Nobody]
        /\ outcome = [b \in Callbacks |-> "none"]
        /\ granted = {} /\ tabs = FALSE /\ seen = {} /\ success = FALSE

PollStep(q) == PollGet(q) \/ PollDelete(q)
CallbackStep(b) == AccountFails(b) \/ AccountDone(b) \/ MarkGet(b) \/ MarkSet(b)

Next == \/ \E m \in {"login", "link"} : StartDevice(m)
        \/ \E q \in Polls : PollStart(q) \/ PollStep(q) \/ PollLost(q)
        \/ \E b \in Callbacks, a \in Accounts : CallbackStart(b, a)
        \/ \E b \in Callbacks : CallbackStep(b)
        \/ Tick

Spec == Init /\ [][Next]_vars

(* The client's timer polls, not every poll is lost, and time passes however *)
(* often the client polls in between; nobody is obliged to sign in, or to    *)
(* finish when they began.                                                   *)
Fairness == /\ WF_vars(\E q \in Polls : PollStart(q))
            /\ SF_vars(\E q \in Polls : PollGet(q))
            /\ SF_vars(\E q \in Polls : PollDelete(q))
            /\ SF_vars(Tick)
FairSpec == Spec /\ Fairness

-----------------------------------------------------------------------------
(* What is wanted of the device flow. *)

(* "code chỉ dùng được đúng một lần" (auth.controller.ts:115): a completed   *)
(* code is handed out once, and the key is gone from then on, as long as     *)
(* polls do not overlap and one round trip is made for the code; nor does a  *)
(* poll that was lost make the code good for another.                        *)
UsedOnce ==
  {"overlap", "tabs"} \cap seen = {} => delivered <= 1 /\ (delivered = 1 => ttl = 0)

(* The comment itself, without exceptions: two polls that read the entry     *)
(* before either deletes it (auth.controller.ts:106-117) are both given it.  *)
HandedOutOnce == delivered <= 1

(* "Không xoá thì nó còn sống hết 10 phút TTL" (auth.controller.ts:115-116): *)
(* a code that was handed out is gone.  A round trip that read the entry     *)
(* before the hand-out sets it again (device-code.service.ts:77-81).         *)
ConsumedIsGone == delivered > 0 => ttl = 0

(* Whatever a poll hands out was granted: a `ready` always has a token and a *)
(* `linked` an account that was linked through this very code, however       *)
(* polls, callbacks and expiry interleave.                                   *)
HandedOutWasGranted ==
  \A q \in Polls : poll[q] = "delete" =>
    /\ polled[q].status = "completed"
    /\ polled[q].error \/ polled[q].result \in granted

(* "Bạn có thể quay lại game rồi." (auth-views.ts:67): after that page the   *)
(* device is not told that its sign-in has expired.  It holds through any    *)
(* number of round trips for the code, of polls and of expiries, except when *)
(* polls overlap, a request outlasts its unit of time, a poll is lost, or    *)
(* one of several round trips fails.                                         *)
Fine == {"overlap", "lag", "loss"} \cap seen = {} /\ ~({"tabs", "failure"} \subseteq seen)
SuccessIsNotExpired == Fine /\ success => device # "expired"

(* The same promise without exceptions, seen from the code: while the device *)
(* is still polling and nothing is in flight, the success that a browser has *)
(* shown is in the entry for the next poll.                                  *)
AllIdle(at) == \A x \in DOMAIN at : at[x] = "idle"
SuccessWaits == success /\ device = "polling" /\ AllIdle(tab) /\ AllIdle(poll)
                  => ttl > 0 /\ entry.status = "completed" /\ ~entry.error

(* Why the three hold, in inductive form.  A completed entry, wherever it is *)
(* carried, was granted or reports an error.                                 *)
WasGranted(e) == e.status = "completed" => e.error \/ e.result \in granted
OnlyGranted ==
  /\ WasGranted(entry)
  /\ \A q \in Polls : WasGranted(polled[q])
  /\ \A q \in Polls : poll[q] = "delete" => polled[q].status = "completed"
  /\ \A b \in Callbacks : WasGranted(marking[b])
  /\ \A b \in Callbacks : outcome[b] = "ok" => /\ tab[b] \in {"mark_get", "mark_set"}
                                               /\ account[b] \in granted

(* Without overlaps one poll is under way.  Without a second round trip one  *)
(* callback is, before the entry is completed, and none after; what was      *)
(* handed out is gone, and nobody is left to bring it back.                  *)
Alone(at) == \A x, y \in DOMAIN at : at[x] # "idle" /\ at[y] # "idle" => x = y
Completed == entry.status = "completed" \/ \E q \in Polls : poll[q] = "delete"
OneAtATime ==
  /\ mode = "none" => delivered = 0 /\ device = "off" /\ AllIdle(poll)
  /\ ttl = 0 => entry = Pending
  /\ "overlap" \notin seen => Alone(poll)
  /\ "tabs" \notin seen => /\ Alone(tab)
                           /\ ~AllIdle(tab) => tabs /\ ~Completed
                           /\ Completed => tabs
  /\ {"overlap", "tabs"} \cap seen = {} /\ delivered > 0 =>
       /\ delivered = 1 /\ ttl = 0 /\ tabs
       /\ AllIdle(tab) /\ \A q \in Polls : poll[q] # "delete"

(* While things are fine, a round trip finds the code alive or its device    *)
(* answered; an error is nowhere before a failure, and a failure was the     *)
(* only round trip; and a success waits in the entry for the device.         *)
CodeOutlivesWork ==
  /\ mode = "none" => ttl = 0 /\ AllIdle(tab) /\ ~tabs
  /\ device # "polling" => AllIdle(poll)
  /\ device = "expired" => ttl = 0 /\ AllIdle(tab)
  /\ ~AllIdle(tab) => ttl > 0 \/ device \in {"ready", "linked"}
ErrorIsFailure ==
  /\ "failure" \notin seen =>
       /\ ~entry.error
       /\ \A q \in Polls : ~polled[q].error
       /\ \A b \in Callbacks : ~marking[b].error
       /\ \A b \in Callbacks : tab[b] \in {"mark_get", "mark_set"} => outcome[b] = "ok"
  /\ "failure" \in seen =>
       /\ tabs /\ ~success
       /\ \A b \in Callbacks : tab[b] # "idle" => tab[b] # "account" /\ outcome[b] = "error"
SuccessStays ==
  /\ \A b \in Callbacks : tab[b] = "mark_set" => marking[b].status = "completed"
  /\ ~AllIdle(tab) => tabs /\ ("tabs" \notin seen => ~success)
  /\ success => /\ tabs /\ device # "expired"
                /\ device = "polling" => ttl > 0 /\ entry.status = "completed"
SuccessIsWaiting == Fine => CodeOutlivesWork /\ ErrorIsFailure /\ SuccessStays

FlowInv == TypeOK /\ OnlyGranted /\ OneAtATime /\ SuccessIsWaiting

(* A device that keeps polling gets a final answer, whatever polls are lost.  *)
EventuallyAnswered == (device = "polling") ~> (device \in {"ready", "linked", "expired"})
=============================================================================
