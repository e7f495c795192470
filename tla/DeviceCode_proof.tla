-------------------------- MODULE DeviceCode_proof --------------------------
(***************************************************************************)
(* What the device flow keeps, for any number of polls and round trips and *)
(* any life of the code: FlowInv is inductive.                             *)
(***************************************************************************)
EXTENDS DeviceCode, TLAPS

(* The steps of the flow, one by one: what every proof below splits into.    *)
Flow == \/ \E m \in {"login", "link"} : StartDevice(m)
        \/ \E q \in Polls : PollStart(q) \/ PollGet(q) \/ PollDelete(q) \/ PollLost(q)
        \/ \E b \in Callbacks, a \in Accounts : CallbackStart(b, a)
        \/ \E b \in Callbacks : AccountDone(b) \/ AccountFails(b) \/ MarkGet(b) \/ MarkSet(b)
        \/ Tick

(* Next makes those steps and no other.                                      *)
LEMMA NextIsFlow == Next => Flow
  BY DEF Next, Flow, PollStep, CallbackStep

(* The flow begins with every variable in its type.                          *)
LEMMA InitTyped == Init => TypeOK
  <1>1. Pending \in Entries /\ 0 \in 0..Ttl
    BY TtlAssumption DEF Pending, Entries
  <1> SUFFICES ASSUME Init PROVE TypeOK
    OBVIOUS
  <1>2. /\ mode \in {"none", "login", "link"}
        /\ device \in {"off", "polling", "ready", "linked", "expired"}
        /\ entry \in Entries /\ ttl \in 0..Ttl /\ delivered \in 0..2
    BY <1>1 DEF Init
  <1>3. /\ poll \in [Polls -> {"idle", "get", "delete"}]
        /\ polled \in [Polls -> Entries]
        /\ tab \in [Callbacks -> {"idle", "account", "mark_get", "mark_set"}]
        /\ marking \in [Callbacks -> Entries]
        /\ account \in [Callbacks -> Accounts \cup {Nobody}]
        /\ outcome \in [Callbacks -> {"none", "ok", "error"}]
    BY <1>1 DEF Init
  <1>4. \A b \in Callbacks : tab[b] = "idle"
    BY DEF Init
  <1> QED
    BY <1>2, <1>3, <1>4 DEF Init, TypeOK

(* A poll moves values of their types about.                                 *)
LEMMA PollTyped ==
  ASSUME TypeOK, NEW q \in Polls, PollStart(q) \/ PollGet(q) \/ PollDelete(q) \/ PollLost(q)
  PROVE  TypeOK'
  <1>1. Pending \in Entries
    BY DEF Pending, Entries
  <1>2. CASE PollStart(q)
    BY <1>2 DEF PollStart, Note, TypeOK, browsers
  <1>3. CASE PollGet(q)
    BY <1>1, <1>3 DEF PollGet, Answer, Another, TypeOK, browsers
  <1>4. CASE PollDelete(q)
    <2>1. Verdict(polled[q]) \in {"ready", "linked", "expired"}
      BY DEF Verdict
    <2> QED
      BY <1>1, <1>4, <2>1, TtlAssumption DEF PollDelete, DelKey, Answer, Another, TypeOK, browsers
  <1>5. CASE PollLost(q)
    BY <1>1, <1>5, TtlAssumption DEF PollLost, Note, DelKey, Another, TypeOK, browsers
  <1> QED
    BY <1>2, <1>3, <1>4, <1>5

(* So does a callback.                                                       *)
LEMMA CallbackTyped ==
  ASSUME TypeOK, NEW b \in Callbacks,
         \/ \E a \in Accounts : CallbackStart(b, a)
         \/ AccountDone(b) \/ AccountFails(b) \/ MarkGet(b) \/ MarkSet(b)
  PROVE  TypeOK'
  <1>1. Pending \in Entries /\ Marked(entry, b) \in Entries
    BY DEF Pending, Entries, Marked, TypeOK
  <1>2. ASSUME NEW a \in Accounts, CallbackStart(b, a)
        PROVE  TypeOK'
    BY <1>2 DEF CallbackStart, Note, TypeOK, requests
  <1>3. CASE AccountDone(b)
    BY <1>3 DEF AccountDone, TypeOK, requests
  <1>4. CASE AccountFails(b)
    BY <1>4 DEF AccountFails, Note, TypeOK, requests
  <1>5. CASE MarkGet(b)
    <2>1. CASE ttl = 0 /\ Redirect(b)
      BY <1>1, <1>5, <2>1 DEF MarkGet, Redirect, TypeOK, requests
    <2>2. CASE ttl > 0 /\ tab' = [tab EXCEPT ![b] = "mark_set"]
      BY <1>1, <1>5, <2>2 DEF MarkGet, TypeOK, requests
    <2> QED
      BY <1>5, <2>1, <2>2 DEF MarkGet
  <1>6. CASE MarkSet(b)
    BY <1>1, <1>6, TtlAssumption DEF MarkSet, Redirect, SetKey, TypeOK, requests
  <1> QED
    BY <1>2, <1>3, <1>4, <1>5, <1>6

(* Every step keeps the types.                                               *)
LEMMA NextTyped == TypeOK /\ [Next]_vars => TypeOK'
  <1> SUFFICES ASSUME TypeOK, [Next]_vars PROVE TypeOK'
    OBVIOUS
  <1>1. CASE Tick
    <2>1. Pending \in Entries
      BY DEF Pending, Entries
    <2> QED
      BY <1>1, <2>1, TtlAssumption DEF Tick, DelKey, Note, TypeOK, requests, browsers
  <1>2. ASSUME NEW m \in {"login", "link"}, StartDevice(m)
        PROVE  TypeOK'
    <2>1. Pending \in Entries
      BY DEF Pending, Entries
    <2> QED
      BY <1>2, <2>1, TtlAssumption DEF StartDevice, SetKey, TypeOK, requests, browsers
  <1>3. CASE UNCHANGED vars
    BY <1>3 DEF vars, TypeOK, requests, browsers
  <1> QED
    BY <1>1, <1>2, <1>3, NextIsFlow, PollTyped, CallbackTyped DEF Flow

(* Every variable keeps its type.                                            *)
THEOREM TypeCorrect == Spec => []TypeOK
  BY InitTyped, NextTyped, PTL DEF Spec

-----------------------------------------------------------------------------
(* What is handed out was granted. *)

(* Polls carry entries from the key to the answer and change none.           *)
LEMMA PollKeepsGranted ==
  ASSUME TypeOK, OnlyGranted, NEW q \in Polls,
         PollStart(q) \/ PollGet(q) \/ PollDelete(q) \/ PollLost(q)
  PROVE  OnlyGranted'
  <1> USE DEF OnlyGranted, TypeOK, browsers
  <1>1. UNCHANGED granted /\ UNCHANGED browsers
    BY DEF PollStart, PollGet, PollDelete, PollLost
  <1>3. WasGranted(Pending)'
    BY DEF WasGranted, Pending
  <1>4. entry' \in {entry, Pending}
    BY DEF PollStart, PollGet, PollDelete, PollLost, DelKey
  <1>5. polled' \in {polled, [polled EXCEPT ![q] = Pending], [polled EXCEPT ![q] = entry]}
    BY DEF PollStart, PollGet, PollDelete, PollLost, Answer
  <1>6. \A r \in Polls : poll'[r] = "delete" => polled'[r].status = "completed"
    BY DEF PollStart, PollGet, PollDelete, PollLost, Answer
  <1>7. WasGranted(entry)' /\ \A r \in Polls : WasGranted(polled[r])'
    BY <1>1, <1>3, <1>4, <1>5 DEF WasGranted
  <1> QED
    BY <1>1, <1>6, <1>7 DEF WasGranted

(* A callback puts into the entry what its account work granted, or an error. *)
LEMMA CallbackKeepsGranted ==
  ASSUME TypeOK, OnlyGranted, NEW b \in Callbacks,
         \/ \E a \in Accounts : CallbackStart(b, a)
         \/ AccountDone(b) \/ AccountFails(b) \/ MarkGet(b) \/ MarkSet(b)
  PROVE  OnlyGranted'
  <1> USE DEF OnlyGranted, TypeOK, requests
  <1>1. WasGranted(Pending)'
    BY DEF WasGranted, Pending
  <1>2. ASSUME NEW a \in Accounts, CallbackStart(b, a)
        PROVE  OnlyGranted'
    BY <1>2 DEF CallbackStart, WasGranted
  <1>3. CASE AccountDone(b)
    BY <1>3 DEF AccountDone, WasGranted
  <1>4. CASE AccountFails(b)
    BY <1>4 DEF AccountFails, WasGranted
  <1>5. CASE MarkGet(b)
    <2>1. WasGranted(Marked(entry, b))
      BY DEF WasGranted, Marked, Entries
    <2>2. UNCHANGED <<entry, polled, poll, granted>>
      BY <1>5 DEF MarkGet
    <2>3. marking' \in {[marking EXCEPT ![b] = Pending], [marking EXCEPT ![b] = Marked(entry, b)]}
      BY <1>5 DEF MarkGet, Redirect
    <2>4. \A x \in Callbacks : WasGranted(marking[x])'
      BY <1>1, <1>5, <2>1, <2>2, <2>3 DEF MarkGet, WasGranted
    <2>5. \A x \in Callbacks : outcome'[x] = "ok" => /\ tab'[x] \in {"mark_get", "mark_set"}
                                                   /\ account'[x] \in granted'
      BY <1>5 DEF MarkGet, Redirect
    <2> QED
      BY <2>2, <2>4, <2>5 DEF WasGranted
  <1>6. CASE MarkSet(b)
    <2>1. UNCHANGED <<polled, poll, granted>> /\ entry' = marking[b]
      BY <1>6 DEF MarkSet, SetKey
    <2>2. \A x \in Callbacks : WasGranted(marking[x])'
      BY <1>1, <1>6, <2>1 DEF MarkSet, Redirect, WasGranted
    <2>3. \A x \in Callbacks : outcome'[x] = "ok" => /\ tab'[x] \in {"mark_get", "mark_set"}
                                                   /\ account'[x] \in granted'
      BY <1>6 DEF MarkSet, Redirect
    <2> QED
      BY <2>1, <2>2, <2>3 DEF WasGranted
  <1> QED
    BY <1>2, <1>3, <1>4, <1>5, <1>6

-----------------------------------------------------------------------------
(* A code is used once. *)

(* Polls keep each other company only in an overlap, and delete what they    *)
(* hand out.                                                                 *)
LEMMA PollKeepsOne ==
  ASSUME TypeOK, OneAtATime, NEW q \in Polls,
         PollStart(q) \/ PollGet(q) \/ PollDelete(q) \/ PollLost(q)
  PROVE  OneAtATime'
  <1> USE DEF OneAtATime, TypeOK, Alone, AllIdle, Completed, browsers, Note
  <1>1. CASE PollStart(q)
    BY <1>1 DEF PollStart
  <1>2. CASE PollGet(q)
    BY <1>2 DEF PollGet, Answer, Another
  <1>3. CASE PollDelete(q)
    BY <1>3 DEF PollDelete, DelKey, Answer, Another
  <1>4. CASE PollLost(q)
    BY <1>4 DEF PollLost, DelKey, Another
  <1> QED
    BY <1>1, <1>2, <1>3, <1>4

(* One round trip completes the entry once.                                  *)
LEMMA CallbackKeepsOne ==
  ASSUME TypeOK, OneAtATime, NEW b \in Callbacks,
         \/ \E a \in Accounts : CallbackStart(b, a)
         \/ AccountDone(b) \/ AccountFails(b) \/ MarkGet(b) \/ MarkSet(b)
  PROVE  OneAtATime'
  <1> USE DEF OneAtATime, TypeOK, Alone, AllIdle, Completed, requests, Note
  <1>1. ASSUME NEW a \in Accounts, CallbackStart(b, a)
        PROVE  OneAtATime'
    BY <1>1 DEF CallbackStart
  <1>2. CASE AccountDone(b)
    BY <1>2 DEF AccountDone
  <1>3. CASE AccountFails(b)
    BY <1>3 DEF AccountFails
  <1>4. CASE MarkGet(b)
    BY <1>4 DEF MarkGet, Redirect
  <1>5. CASE MarkSet(b)
    BY <1>5, TtlAssumption DEF MarkSet, Redirect, SetKey
  <1> QED
    BY <1>1, <1>2, <1>3, <1>4, <1>5

-----------------------------------------------------------------------------
(* A success reaches the device. *)

(* A poll finds the success in the entry, or nothing yet.                    *)
LEMMA PollKeepsSuccess ==
  ASSUME TypeOK, OneAtATime, SuccessIsWaiting, NEW q \in Polls,
         PollStart(q) \/ PollGet(q) \/ PollDelete(q) \/ PollLost(q)
  PROVE  SuccessIsWaiting'
  <1> SUFFICES ASSUME Fine' PROVE SuccessIsWaiting'
    BY DEF SuccessIsWaiting
  <1> USE DEF TypeOK, Alone, AllIdle, browsers
  <1>1. /\ Fine /\ CodeOutlivesWork /\ ErrorIsFailure /\ SuccessStays
        /\ "overlap" \notin seen /\ ~("tabs" \in seen /\ "failure" \in seen)
    BY DEF Fine, SuccessIsWaiting, PollStart, PollGet, PollDelete, PollLost, Note
  <1>2. UNCHANGED <<mode, tab, marking, account, outcome, tabs, success>>
    BY DEF PollStart, PollGet, PollDelete, PollLost
  <1>3. Alone(poll)
    BY <1>1 DEF OneAtATime
  <1>4. CASE PollStart(q)
    <2>1. UNCHANGED <<entry, ttl, device, polled>> /\ seen' = seen
      BY <1>1, <1>4 DEF PollStart, Note, Fine
    <2>2. device = "polling"
      BY <1>4 DEF PollStart
    <2> QED
      BY <1>1, <1>2, <2>1, <2>2
         DEF SuccessIsWaiting, CodeOutlivesWork, ErrorIsFailure, SuccessStays
  <1>5. CASE PollGet(q)
    <2>1. UNCHANGED <<entry, ttl, seen>> /\ poll[q] = "get"
      BY <1>5 DEF PollGet
    <2>2. device = "polling"
      BY <1>1, <2>1 DEF CodeOutlivesWork
    <2>3. \/ ttl = 0 /\ device' = "expired" /\ poll' = [poll EXCEPT ![q] = "idle"]
          \/ ttl > 0 /\ device' = device
      BY <1>5 DEF PollGet, Answer
    <2>4. polled' \in {polled, [polled EXCEPT ![q] = Pending], [polled EXCEPT ![q] = entry]}
      BY <1>5 DEF PollGet, Answer
    <2>5. ErrorIsFailure'
      BY <1>1, <1>2, <2>1, <2>4 DEF ErrorIsFailure, Pending
    <2>6. CodeOutlivesWork' /\ SuccessStays'
      BY <1>1, <1>2, <1>3, <2>1, <2>2, <2>3 DEF CodeOutlivesWork, SuccessStays
    <2> QED
      BY <2>5, <2>6 DEF SuccessIsWaiting
  <1>6. CASE PollDelete(q)
    <2>1. /\ ttl' = 0 /\ entry' = Pending /\ poll[q] = "delete" /\ seen' = seen
          /\ polled' = [polled EXCEPT ![q] = Pending] /\ poll' = [poll EXCEPT ![q] = "idle"]
          /\ device' = Verdict(polled[q])
      BY <1>6 DEF PollDelete, Answer, DelKey, Verdict
    <2>2. CASE polled[q].error
      <3>1. "failure" \in seen /\ "tabs" \notin seen
        BY <1>1, <2>2 DEF ErrorIsFailure
      <3>2. AllIdle(tab) /\ ~success
        BY <1>1, <2>1, <3>1 DEF OneAtATime, Completed, ErrorIsFailure
      <3> QED
        BY <1>1, <1>2, <1>3, <2>1, <2>2, <3>1, <3>2
           DEF SuccessIsWaiting, CodeOutlivesWork, ErrorIsFailure, SuccessStays, Verdict
    <2>3. CASE ~polled[q].error
      <3>1. device' \in {"ready", "linked"}
        BY <2>1, <2>3 DEF Verdict
      <3>2. mode # "none"
        BY <2>1 DEF OneAtATime
      <3>3. ErrorIsFailure'
        BY <1>1, <1>2, <2>1 DEF ErrorIsFailure, Pending
      <3>4. CodeOutlivesWork' /\ SuccessStays'
        BY <1>1, <1>2, <1>3, <2>1, <3>1, <3>2 DEF CodeOutlivesWork, SuccessStays
      <3> QED
        BY <3>3, <3>4 DEF SuccessIsWaiting
    <2> QED
      BY <2>2, <2>3
  <1>7. ~PollLost(q)
    BY DEF PollLost, Fine, Note
  <1> QED
    BY <1>4, <1>5, <1>6, <1>7

(* A callback that redirects leaves its entry, or its device, behind.        *)
LEMMA AfterRedirect ==
  ASSUME TypeOK, OneAtATime, CodeOutlivesWork, ErrorIsFailure, SuccessStays,
         NEW b \in Callbacks, tab[b] \in {"mark_get", "mark_set"}, Redirect(b),
         UNCHANGED <<mode, device, poll, polled, tabs, seen>>,
         \/ entry' = entry /\ ttl' = ttl /\ device \in {"ready", "linked"}
         \/ entry' = marking[b] /\ marking[b].status = "completed" /\ ttl' > 0
  PROVE  CodeOutlivesWork' /\ ErrorIsFailure' /\ SuccessStays'
  <1> USE DEF TypeOK, AllIdle, Alone, Redirect
  <1>1. tab' = [tab EXCEPT ![b] = "idle"] /\ ~AllIdle(tab)
    OBVIOUS
  <1>2. CodeOutlivesWork'
    BY <1>1 DEF CodeOutlivesWork
  <1>3. ErrorIsFailure'
    BY <1>1 DEF ErrorIsFailure, Pending
  <1>4. device # "expired" /\ tabs
    BY <1>1 DEF CodeOutlivesWork, SuccessStays
  <1>5. "tabs" \notin seen => AllIdle(tab)'
    BY <1>1 DEF OneAtATime
  <1>6. SuccessStays'
    BY <1>1, <1>4, <1>5 DEF SuccessStays
  <1> QED
    BY <1>2, <1>3, <1>6

(* A round trip that succeeds leaves the success in the entry, and one that  *)
(* fails was the only one.                                                   *)
LEMMA CallbackKeepsSuccess ==
  ASSUME TypeOK, OneAtATime, SuccessIsWaiting, NEW b \in Callbacks,
         \/ \E a \in Accounts : CallbackStart(b, a)
         \/ AccountDone(b) \/ AccountFails(b) \/ MarkGet(b) \/ MarkSet(b)
  PROVE  SuccessIsWaiting'
  <1> SUFFICES ASSUME Fine' PROVE SuccessIsWaiting'
    BY DEF SuccessIsWaiting
  <1> USE DEF TypeOK, Alone, AllIdle, requests
  <1>1. /\ Fine /\ CodeOutlivesWork /\ ErrorIsFailure /\ SuccessStays
        /\ ~("tabs" \in seen' /\ "failure" \in seen')
    BY DEF Fine, SuccessIsWaiting, CallbackStart, AccountDone, AccountFails, MarkGet, MarkSet,
           Note
  <1>2. UNCHANGED <<mode, device, poll, polled>>
    BY DEF CallbackStart, AccountDone, AccountFails, MarkGet, MarkSet
  <1>3. ASSUME NEW a \in Accounts, CallbackStart(b, a)
        PROVE  SuccessIsWaiting'
    <2>1. /\ mode # "none" /\ ttl > 0 /\ tabs' = TRUE /\ tab[b] = "idle"
          /\ tab' = [tab EXCEPT ![b] = "account"]
          /\ UNCHANGED <<entry, ttl, marking, outcome, success>>
          /\ seen' = IF tabs THEN seen \cup {"tabs"} ELSE seen
      BY <1>3 DEF CallbackStart, Note
    <2>2. "failure" \notin seen'
      BY <1>1, <2>1 DEF ErrorIsFailure
    <2>3. ErrorIsFailure' /\ CodeOutlivesWork' /\ SuccessStays'
      BY <1>1, <1>2, <2>1, <2>2 DEF ErrorIsFailure, CodeOutlivesWork, SuccessStays
    <2> QED
      BY <2>3 DEF SuccessIsWaiting
  <1>4. CASE AccountDone(b)
    <2>1. /\ tab[b] = "account" /\ tab' = [tab EXCEPT ![b] = "mark_get"]
          /\ outcome' = [outcome EXCEPT ![b] = "ok"]
          /\ UNCHANGED <<entry, ttl, marking, tabs, seen, success>>
      BY <1>4 DEF AccountDone
    <2>2. "failure" \notin seen
      BY <1>1, <2>1 DEF ErrorIsFailure
    <2>3. ErrorIsFailure' /\ CodeOutlivesWork' /\ SuccessStays'
      BY <1>1, <1>2, <2>1, <2>2 DEF ErrorIsFailure, CodeOutlivesWork, SuccessStays
    <2> QED
      BY <2>3 DEF SuccessIsWaiting
  <1>5. CASE AccountFails(b)
    <2>1. /\ tab[b] = "account" /\ tab' = [tab EXCEPT ![b] = "mark_get"]
          /\ outcome' = [outcome EXCEPT ![b] = "error"]
          /\ UNCHANGED <<entry, ttl, marking, tabs, success>>
          /\ seen' = seen \cup {"failure"}
      BY <1>5 DEF AccountFails, Note
    <2>2. "tabs" \notin seen
      BY <1>1, <2>1
    <2>3. tabs /\ ~success /\ \A x \in Callbacks \ {b} : tab[x] = "idle"
      BY <1>1, <2>1, <2>2 DEF OneAtATime, SuccessStays
    <2>4. ErrorIsFailure' /\ CodeOutlivesWork' /\ SuccessStays'
      BY <1>1, <1>2, <2>1, <2>3 DEF ErrorIsFailure, CodeOutlivesWork, SuccessStays
    <2> QED
      BY <2>4 DEF SuccessIsWaiting
  <1>6. CASE MarkGet(b)
    <2>1. tab[b] = "mark_get" /\ UNCHANGED <<entry, ttl, tabs, seen>>
      BY <1>6 DEF MarkGet
    <2>2. CASE ttl = 0 /\ Redirect(b)
      <3>1. device \in {"ready", "linked"}
        BY <1>1, <2>1, <2>2 DEF CodeOutlivesWork
      <3> QED
        BY <1>1, <1>2, <2>1, <2>2, <3>1, AfterRedirect DEF SuccessIsWaiting
    <2>3. CASE ttl > 0 /\ tab' = [tab EXCEPT ![b] = "mark_set"]
      <3>1. /\ marking' = [marking EXCEPT ![b] = Marked(entry, b)]
            /\ UNCHANGED <<outcome, success>>
        BY <1>6, <2>3 DEF MarkGet
      <3>2. Marked(entry, b).status = "completed"
        BY DEF Marked, Entries
      <3>3. "failure" \notin seen => ~Marked(entry, b).error
        BY <1>1, <2>1 DEF Marked, Entries, ErrorIsFailure
      <3>4. ErrorIsFailure'
        BY <1>1, <1>2, <2>1, <2>3, <3>1, <3>3 DEF ErrorIsFailure
      <3>5. CodeOutlivesWork' /\ SuccessStays'
        BY <1>1, <1>2, <2>1, <2>3, <3>1, <3>2 DEF CodeOutlivesWork, SuccessStays
      <3> QED
        BY <3>4, <3>5 DEF SuccessIsWaiting
    <2> QED
      BY <1>6, <2>2, <2>3 DEF MarkGet
  <1>7. CASE MarkSet(b)
    <2>1. /\ tab[b] = "mark_set" /\ Redirect(b) /\ entry' = marking[b] /\ ttl' > 0
          /\ UNCHANGED <<tabs, seen>>
      BY <1>7, TtlAssumption DEF MarkSet, SetKey
    <2>2. device # "expired" /\ mode # "none" /\ entry'.status = "completed"
      BY <1>1, <2>1 DEF CodeOutlivesWork, SuccessStays
    <2> QED
      BY <1>1, <1>2, <2>1, <2>2, AfterRedirect DEF SuccessIsWaiting
  <1> QED
    BY <1>3, <1>4, <1>5, <1>6, <1>7

-----------------------------------------------------------------------------
(* All together. *)

(* The client asks for its code when nothing is under way.                   *)
LEMMA StartKeepsInv ==
  ASSUME FlowInv, NEW m \in {"login", "link"}, StartDevice(m)
  PROVE  OnlyGranted' /\ OneAtATime' /\ SuccessIsWaiting'
  <1> USE DEF FlowInv, TypeOK, StartDevice, SetKey, requests, browsers
  <1>1. OnlyGranted'
    BY DEF OnlyGranted, WasGranted, Pending
  <1>2. OneAtATime'
    BY TtlAssumption DEF OneAtATime, Alone, AllIdle, Completed, Pending
  <1>3. SuccessIsWaiting'
    BY TtlAssumption DEF SuccessIsWaiting, CodeOutlivesWork, ErrorIsFailure, SuccessStays,
                         OneAtATime, Fine, AllIdle, Pending
  <1> QED
    BY <1>1, <1>2, <1>3

(* Time takes the entry; without a lag not while anybody is at work on it.   *)
LEMMA TickKeepsInv ==
  ASSUME FlowInv, Tick
  PROVE  OnlyGranted' /\ OneAtATime' /\ SuccessIsWaiting'
  <1> USE DEF FlowInv, TypeOK, Tick, DelKey, Note, requests, browsers
  <1>1. OnlyGranted'
    BY DEF OnlyGranted, WasGranted, Pending
  <1>2. OneAtATime'
    BY DEF OneAtATime, Alone, AllIdle, Completed, Pending
  <1>3. SuccessIsWaiting'
    <2> SUFFICES ASSUME Fine' PROVE SuccessIsWaiting'
      BY DEF SuccessIsWaiting
    <2>1. Fine /\ Prompt
      BY DEF Fine
    <2> QED
      BY <2>1 DEF SuccessIsWaiting, CodeOutlivesWork, ErrorIsFailure, SuccessStays,
                  OneAtATime, Prompt, AllIdle, Completed, Pending
  <1> QED
    BY <1>1, <1>2, <1>3

(* FlowInv is inductive.                                                     *)
LEMMA NextKeepsInv == FlowInv /\ [Next]_vars => FlowInv'
  <1> SUFFICES ASSUME FlowInv, [Next]_vars PROVE FlowInv'
    OBVIOUS
  <1>1. TypeOK'
    BY NextTyped DEF FlowInv
  <1>2. ASSUME NEW q \in Polls,
               PollStart(q) \/ PollGet(q) \/ PollDelete(q) \/ PollLost(q)
        PROVE  FlowInv'
    BY <1>1, <1>2, PollKeepsGranted, PollKeepsOne, PollKeepsSuccess DEF FlowInv
  <1>3. ASSUME NEW b \in Callbacks,
               \/ \E a \in Accounts : CallbackStart(b, a)
               \/ AccountDone(b) \/ AccountFails(b) \/ MarkGet(b) \/ MarkSet(b)
        PROVE  FlowInv'
    BY <1>1, <1>3, CallbackKeepsGranted, CallbackKeepsOne, CallbackKeepsSuccess DEF FlowInv
  <1>4. ASSUME NEW m \in {"login", "link"}, StartDevice(m)
        PROVE  FlowInv'
    BY <1>1, <1>4, StartKeepsInv DEF FlowInv
  <1>5. CASE Tick
    BY <1>1, <1>5, TickKeepsInv DEF FlowInv
  <1>6. CASE UNCHANGED vars
    BY <1>1, <1>6 DEF vars, requests, browsers, FlowInv, OnlyGranted, WasGranted, OneAtATime,
                      Alone, AllIdle, Completed, SuccessIsWaiting, CodeOutlivesWork,
                      ErrorIsFailure, SuccessStays, Fine
  <1> QED
    BY <1>2, <1>3, <1>4, <1>5, <1>6, NextIsFlow DEF Flow

(* It holds when the flow begins.                                            *)
LEMMA InitInv == Init => FlowInv
  <1> SUFFICES ASSUME Init PROVE FlowInv
    OBVIOUS
  <1>1. TypeOK
    BY InitTyped
  <1>2. OnlyGranted
    BY DEF Init, OnlyGranted, WasGranted, Pending
  <1>3. OneAtATime
    BY DEF Init, OneAtATime, Alone, AllIdle, Completed, Pending
  <1>4. SuccessIsWaiting
    BY DEF Init, SuccessIsWaiting, CodeOutlivesWork, ErrorIsFailure, SuccessStays, AllIdle,
           Pending
  <1> QED
    BY <1>1, <1>2, <1>3, <1>4 DEF FlowInv

(* What polls and callbacks hold fits together, in every environment.        *)
THEOREM FlowIsKept == Spec => []FlowInv
  BY InitInv, NextKeepsInv, PTL DEF Spec


(* Whatever overlaps, expires or is lost: what a poll hands out was granted  *)
(* through this code.                                                        *)
THEOREM OnlyGrantedIsHandedOut == Spec => []HandedOutWasGranted
  <1>1. FlowInv => HandedOutWasGranted
    BY DEF FlowInv, OnlyGranted, WasGranted, HandedOutWasGranted
  <1> QED
    BY <1>1, FlowIsKept, PTL

(* With one poll and one round trip at a time a code is handed out once,     *)
(* however late requests are and whatever polls are lost.                    *)
THEOREM CodeIsUsedOnce == Spec => []UsedOnce
  <1>1. FlowInv => UsedOnce
    BY DEF FlowInv, TypeOK, OneAtATime, UsedOnce
  <1> QED
    BY <1>1, FlowIsKept, PTL

(* A device whose browser showed success is not told that its sign-in has    *)
(* expired, through any number of round trips, as long as polls do not       *)
(* overlap, no request outlasts its unit of time, no poll is lost, and no    *)
(* round trip fails unless it is the only one.                               *)
THEOREM SuccessReachesDevice == Spec => []SuccessIsNotExpired
  <1>1. FlowInv => SuccessIsNotExpired
    BY DEF FlowInv, SuccessIsWaiting, SuccessStays, SuccessIsNotExpired
  <1> QED
    BY <1>1, FlowIsKept, PTL
=============================================================================
