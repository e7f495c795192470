--------------------------- MODULE Accounts_proof ---------------------------
(***************************************************************************)
(* What the accounts keep, for any requests, worlds and bounds.            *)
(***************************************************************************)
EXTENDS Accounts, FiniteSetTheorems, TLAPS

(* Every step of a request, one by one: what the proofs below split into.    *)
Enter(r) == \/ /\ \E p \in Profiles : SignIn(r, p) \/ \E u \in Ids : Link(r, u, p)
               /\ UNCHANGED crossed
            \/ \E u \in Ids, q \in Providers : Unlink(r, u, q)
Look(r) == /\ \/ FindIdentity(r) \/ FindOwner(r) \/ FindEmail(r) \/ FindLinked(r)
              \/ FindTaken(r) \/ FindSame(r) \/ PgFails(r)
           /\ UNCHANGED crossed
Write(r) == /\ \/ Refresh(r) \/ AutoLink(r) \/ CreateUser(r) \/ CreateProfile(r)
               \/ CreateIdentity(r) \/ Attach(r) \/ DeleteRow(r)
            /\ UNCHANGED crossed

(* Next makes those steps, and the operator's, in one world.                 *)
LEMMA NextIsSteps ==
  Next <=> /\ world' = world
           /\ \/ \E r \in Requests : Enter(r) \/ Look(r) \/ Write(r)
              \/ \E u \in Ids : Ban(u) /\ UNCHANGED crossed
  BY DEF Next, Step, Enter, Look, Write

-----------------------------------------------------------------------------
(* Typing. *)

UserRows == [username : Subjects \cup {NoEmail}, email : Emails, active : BOOLEAN]
RequestRows == [pc : Steps, of : Profiles, user : Ids \cup {Nobody}, row : RowIds \cup {Nobody}]

(* A request that is idle remembers nothing.                                 *)
LEMMA IdleIsTyped ==
  ASSUME TypeOK
  PROVE  Idle \in RequestRows /\ Idle.pc = "idle" /\ Idle.user = Nobody /\ Idle.row = Nobody
  <1>1. Profiles # {}
    BY WorldAssumption DEF TypeOK, Profiles
  <1> QED
    BY <1>1 DEF Idle, RequestRows, Steps

(* Requests, and what they were answered, stay typed when they move on.      *)
LEMMA MovesAreTyped ==
  ASSUME TypeOK, NEW r \in Requests, UNCHANGED <<world, users>>
  PROVE  /\ \A step \in Steps : Go(r, step) => req' \in [Requests -> RequestRows']
         /\ \A step \in Steps, u \in Ids \cup {Nobody} :
              GoFor(r, step, u) => req' \in [Requests -> RequestRows']
         /\ Leave(r) => req' \in [Requests -> RequestRows']
         /\ \A u \in Ids \cup {Nobody} : SignedIn(r, u) =>
              /\ req' \in [Requests -> RequestRows']
              /\ answers' \subseteq [of : Profiles, user : Ids \cup {Nobody}]
  <1> USE DEF TypeOK
  <1>1. RequestRows' = RequestRows /\ req \in [Requests -> RequestRows]
    BY DEF RequestRows, Profiles, Ids
  <1>2. ASSUME NEW step \in Steps, Go(r, step) PROVE req' \in [Requests -> RequestRows']
    BY <1>1, <1>2 DEF Go, RequestRows
  <1>3. ASSUME NEW step \in Steps, NEW u \in Ids \cup {Nobody}, GoFor(r, step, u)
        PROVE  req' \in [Requests -> RequestRows']
    BY <1>1, <1>3 DEF GoFor, RequestRows
  <1>4. ASSUME Leave(r) PROVE req' \in [Requests -> RequestRows']
    BY <1>1, <1>4, IdleIsTyped DEF Leave
  <1>5. ASSUME NEW u \in Ids \cup {Nobody}, SignedIn(r, u)
        PROVE  /\ req' \in [Requests -> RequestRows']
               /\ answers' \subseteq [of : Profiles, user : Ids \cup {Nobody}]
    BY <1>1, <1>4, <1>5 DEF SignedIn, RequestRows
  <1> QED
    BY <1>2, <1>3, <1>4, <1>5

(* An inserted row is typed.                                                 *)
LEMMA InsertIsTyped ==
  ASSUME TypeOK, NEW u \in Ids, NEW p \in Profiles, Insert(u, p)
  PROVE  identities' \subseteq [id : RowIds, user : Ids, provider : Providers,
                                subject : Subjects]
  <1>1. (CHOOSE n \in FreshRows : TRUE) \in RowIds
    BY DEF Insert, FreshRows
  <1>2. NewRow(u, p) \in [id : RowIds, user : Ids, provider : Providers, subject : Subjects]
    BY <1>1 DEF NewRow, Providers, Subjects
  <1> QED
    BY <1>2 DEF Insert, TypeOK

(* A user whose unlink requests crossed is remembered.                       *)
LEMMA CrossedGrows ==
  ASSUME TypeOK, NEW r \in Requests, Enter(r) \/ Look(r) \/ Write(r)
  PROVE  crossed \subseteq crossed' /\ crossed' \subseteq Ids
  <1>1. CASE UNCHANGED crossed
    BY <1>1 DEF TypeOK
  <1>2. CASE \E u \in Ids, q \in Providers : Unlink(r, u, q)
    BY <1>2 DEF Unlink, Cross, TypeOK
  <1> QED
    BY <1>1, <1>2 DEF Enter, Look, Write

(* What is typed, as one step leaves it.                                     *)
LEMMA TypedAgain ==
  ASSUME TypeOK, UNCHANGED <<world, users>>, crossed' \subseteq Ids,
         req' \in [Requests -> RequestRows'],
         answers' \subseteq [of : Profiles, user : Ids \cup {Nobody}],
         profiles' \subseteq Ids,
         identities' \subseteq [id : RowIds, user : Ids, provider : Providers,
                                subject : Subjects]
  PROVE  TypeOK'
  BY DEF TypeOK, RequestRows, Profiles, MaxUsers, Ids, Providers, Subjects, Emails

(* A request that enters knows whom it is for.                               *)
LEMMA EnterIsTyped ==
  ASSUME TypeOK, NEW r \in Requests, world' = world, Enter(r)
  PROVE  TypeOK'
  <1>1. UNCHANGED <<users, profiles, identities, answers>>
    BY DEF Enter, SignIn, Link, Unlink, tables
  <1>2. RequestRows' = RequestRows /\ req \in [Requests -> RequestRows]
    BY <1>1 DEF RequestRows, Profiles, Ids, TypeOK
  <1>3. req' \in [Requests -> RequestRows]
    <2>1. CASE \E p \in Profiles : SignIn(r, p)
      <3>1. PICK p \in Profiles : req' = [req EXCEPT ![r] = [Idle EXCEPT !.pc = "find", !.of = p]]
        BY <2>1 DEF SignIn
      <3>2. [Idle EXCEPT !.pc = "find", !.of = p] \in RequestRows
        BY IdleIsTyped DEF RequestRows, Steps
      <3> QED
        BY <1>2, <3>1, <3>2
    <2>2. CASE \E p \in Profiles, u \in Ids : Link(r, u, p)
      <3>1. PICK p \in Profiles, u \in Ids :
              req' = [req EXCEPT ![r] = [Idle EXCEPT !.pc = "has", !.of = p, !.user = u]]
        BY <2>2 DEF Link
      <3>2. [Idle EXCEPT !.pc = "has", !.of = p, !.user = u] \in RequestRows
        BY IdleIsTyped DEF RequestRows, Steps
      <3> QED
        BY <1>2, <3>1, <3>2
    <2>3. CASE \E u \in Ids, q \in Providers : Unlink(r, u, q)
      <3>1. PICK u \in Ids, i \in identities :
              req' = [req EXCEPT ![r] = [Idle EXCEPT !.pc = "delete", !.user = u, !.row = i.id]]
        BY <2>3 DEF Unlink, Ways
      <3>2. i.id \in RowIds
        BY DEF TypeOK
      <3>3. [Idle EXCEPT !.pc = "delete", !.user = u, !.row = i.id] \in RequestRows
        BY <3>2, IdleIsTyped DEF RequestRows, Steps
      <3> QED
        BY <1>2, <3>1, <3>3
    <2> QED
      BY <2>1, <2>2, <2>3 DEF Enter
  <1> QED
    BY <1>1, <1>2, <1>3, TypedAgain, CrossedGrows DEF TypeOK

(* A request that looks something up moves on, is answered or gives up.      *)
LEMMA LookIsTyped ==
  ASSUME TypeOK, NEW r \in Requests, world' = world, Look(r)
  PROVE  TypeOK'
  <1>1. UNCHANGED <<users, profiles, identities>>
    BY DEF Look, FindIdentity, FindOwner, FindEmail, FindLinked, FindTaken, FindSame, PgFails,
           tables
  <1>2. req[r].user \in Ids \cup {Nobody} /\ Nobody \in Ids \cup {Nobody}
    BY DEF TypeOK
  <1>3. ByEmail(req[r].of) \in Steps
    BY DEF ByEmail, Steps
  <1>4. \A i \in identities : i.user \in Ids \cup {Nobody}
    BY DEF TypeOK
  <1>5. /\ req' \in [Requests -> RequestRows']
        /\ answers' \subseteq [of : Profiles, user : Ids \cup {Nobody}]
    <2> USE <1>1, <1>2, <1>3, <1>4, MovesAreTyped
    <2>1. CASE FindIdentity(r)
      BY <2>1 DEF FindIdentity, Refused, Of, Steps, TypeOK
    <2>2. CASE FindOwner(r)
      BY <2>2 DEF FindOwner, MayRefresh, Steps, TypeOK
    <2>3. CASE FindEmail(r)
      BY <2>3 DEF FindEmail, WithEmail, Steps, TypeOK
    <2>4. CASE FindLinked(r)
      BY <2>4 DEF FindLinked, Steps, TypeOK
    <2>5. CASE FindTaken(r) \/ FindSame(r)
      BY <2>5 DEF FindTaken, FindSame, Steps, TypeOK
    <2>6. CASE PgFails(r)
      BY <2>6 DEF PgFails, Done, Refused, TypeOK
    <2> QED
      BY <2>1, <2>2, <2>3, <2>4, <2>5, <2>6 DEF Look
  <1> QED
    BY <1>1, <1>5, TypedAgain, CrossedGrows DEF TypeOK

(* A row of users whose active flag is set or cleared is typed.              *)
LEMMA FlagIsTyped ==
  ASSUME TypeOK, NEW u, NEW flag \in BOOLEAN,
         users' = [users EXCEPT ![u].active = flag], world' = world
  PROVE  /\ users' \in Seq(UserRows') /\ Len(users') = Len(users) /\ Ids' = Ids
  <1>1. users \in Seq(UserRows) /\ UserRows' = UserRows
    BY DEF TypeOK, UserRows, Profiles, Subjects, Emails
  <1>2. users \in [1..Len(users) -> UserRows] /\ Len(users) \in Nat
    BY <1>1
  <1>3. \A i \in 1..Len(users) : [users[i] EXCEPT !.active = flag] \in UserRows
    BY <1>2 DEF UserRows
  <1>4. users' \in [1..Len(users) -> UserRows]
    BY <1>2, <1>3
  <1>5. users' \in Seq(UserRows) /\ Len(users') = Len(users)
    BY <1>2, <1>4
  <1> QED
    BY <1>1, <1>5 DEF Ids

(* The flag is all that a sign-in, and the operator, write in a user's row.  *)
LEMMA ActivityIsTyped ==
  ASSUME TypeOK, UNCHANGED <<world, profiles, identities, crossed>>, NEW u, NEW flag \in BOOLEAN,
         users' = [users EXCEPT ![u].active = flag],
         UNCHANGED <<req, answers>>
         \/ \E r \in Requests, v \in Ids \cup {Nobody} : SignedIn(r, v)
  PROVE  TypeOK'
  <1>1. users' \in Seq(UserRows') /\ Len(users') = Len(users) /\ Ids' = Ids
    BY FlagIsTyped
  <1>2. RequestRows' = RequestRows /\ req \in [Requests -> RequestRows]
    BY <1>1 DEF RequestRows, Profiles, TypeOK
  <1>3. /\ req' \in [Requests -> RequestRows]
        /\ answers' \subseteq [of : Profiles, user : Ids \cup {Nobody}]
    <2>1. CASE UNCHANGED <<req, answers>>
      BY <1>2, <2>1 DEF TypeOK
    <2>2. CASE \E r \in Requests, v \in Ids \cup {Nobody} : SignedIn(r, v)
      BY <1>2, <2>2, IdleIsTyped DEF SignedIn, Leave, RequestRows, TypeOK
    <2> QED
      BY <2>1, <2>2
  <1> QED
    BY <1>1, <1>2, <1>3 DEF TypeOK, RequestRows, UserRows, Profiles, MaxUsers, Providers,
         Subjects, Emails

(* A new row of users is typed, and widens the ids.                          *)
LEMMA AppendIsTyped ==
  ASSUME TypeOK, UNCHANGED <<world, profiles, identities, answers, crossed>>, NEW r \in Requests,
         Len(users) < MaxUsers, users' = Append(users, NewUser(req[r].of)),
         GoFor(r, "profile", Len(users) + 1)
  PROVE  TypeOK'
  <1>1. users \in Seq(UserRows) /\ UserRows' = UserRows /\ Len(users) \in Nat
    BY DEF TypeOK, UserRows, Profiles, Subjects, Emails
  <1>2. req[r].of \in Profiles
    BY DEF TypeOK
  <1>3. NewUser(req[r].of) \in UserRows
    BY <1>2 DEF NewUser, UserRows, Subjects, Emails
  <1>4. users' \in Seq(UserRows) /\ Len(users') = Len(users) + 1
    BY <1>1, <1>3
  <1>5. Ids \subseteq Ids' /\ Len(users) + 1 \in Ids' /\ Len(users') <= MaxUsers
    <2>1. MaxUsers \in Nat
      BY WorldAssumption DEF MaxUsers, TypeOK
    <2> QED
      BY <1>1, <1>4, <2>1 DEF Ids
  <1>6. RequestRows \subseteq RequestRows'
    BY <1>5 DEF RequestRows, Profiles
  <1>7. req' \in [Requests -> RequestRows']
    <2>1. req \in [Requests -> RequestRows']
      BY <1>6 DEF TypeOK, RequestRows
    <2> QED
      BY <1>5, <2>1 DEF GoFor, RequestRows, Steps
  <1> QED
    BY <1>1, <1>4, <1>5, <1>7 DEF TypeOK, RequestRows, UserRows, Profiles, MaxUsers, Providers,
         Subjects, Emails

(* A request that writes, writes typed rows.                                 *)
LEMMA WriteIsTyped ==
  ASSUME TypeOK, Acting, NEW r \in Requests, world' = world, Write(r)
  PROVE  TypeOK'
  <1>1. req[r].user \in Ids \cup {Nobody} /\ Nobody \in Ids \cup {Nobody}
    BY DEF TypeOK
  <1>2. req[r].of \in Profiles
    BY DEF TypeOK
  <1>3. req[r].pc \in {"autolink", "profile", "identity", "attach"} => req[r].user \in Ids
    BY <1>1 DEF Acting
  <1>4. CASE AutoLink(r)
    <2>1. identities' \subseteq [id : RowIds, user : Ids, provider : Providers,
                                 subject : Subjects]
      BY <1>2, <1>3, <1>4, InsertIsTyped DEF AutoLink, TypeOK
    <2> QED
      BY <1>1, <1>4, <2>1, MovesAreTyped, CrossedGrows, TypedAgain
         DEF AutoLink, MayRefresh, Refused, Steps, TypeOK
  <1>5. CASE CreateIdentity(r)
    <2>1. identities' \subseteq [id : RowIds, user : Ids, provider : Providers,
                                 subject : Subjects]
      BY <1>2, <1>3, <1>5, InsertIsTyped DEF CreateIdentity, TypeOK
    <2> QED
      BY <1>1, <1>5, <2>1, MovesAreTyped, CrossedGrows, TypedAgain
         DEF CreateIdentity, Refused, TypeOK
  <1>6. CASE Attach(r)
    <2>1. identities' \subseteq [id : RowIds, user : Ids, provider : Providers,
                                 subject : Subjects]
      BY <1>2, <1>3, <1>6, InsertIsTyped DEF Attach, TypeOK
    <2> QED
      BY <1>6, <2>1, MovesAreTyped, CrossedGrows, TypedAgain DEF Attach, Done, TypeOK
  <1>7. CASE DeleteRow(r)
    <2>1. identities' \subseteq identities
      BY <1>7 DEF DeleteRow
    <2> QED
      BY <1>7, <2>1, MovesAreTyped, CrossedGrows, TypedAgain DEF DeleteRow, Done, TypeOK
  <1>8. CASE CreateProfile(r)
    <2>1. profiles' \subseteq Ids /\ UNCHANGED <<users, identities, answers>>
      BY <1>3, <1>8 DEF CreateProfile, TypeOK
    <2>2. Go(r, "identity") /\ "identity" \in Steps
      BY <1>8 DEF CreateProfile, Steps
    <2> QED
      BY <2>1, <2>2, MovesAreTyped, CrossedGrows, TypedAgain DEF TypeOK
  <1>9. CASE Refresh(r)
    <2>1. users' = [users EXCEPT ![req[r].user].active = TRUE]
      BY <1>9 DEF Refresh
    <2> QED
      BY <1>1, <1>9, <2>1, ActivityIsTyped DEF Refresh, Write
  <1>10. CASE CreateUser(r)
    <2>1. CASE Taken(NewUser(req[r].of)) /\ Refused(r) /\ UNCHANGED users
      BY <1>1, <1>10, <2>1, MovesAreTyped, CrossedGrows, TypedAgain DEF CreateUser, Refused, TypeOK
    <2>2. CASE /\ Len(users) < MaxUsers
               /\ users' = Append(users, NewUser(req[r].of))
               /\ GoFor(r, "profile", Len(users) + 1) /\ UNCHANGED answers
      BY <1>10, <2>2, AppendIsTyped DEF CreateUser, Write
    <2> QED
      BY <1>10, <2>1, <2>2 DEF CreateUser
  <1> QED
    BY <1>4, <1>5, <1>6, <1>7, <1>8, <1>9, <1>10 DEF Write

-----------------------------------------------------------------------------
(* Requests. *)

Others(r) == \A q \in Requests : q # r => req'[q] = req[q]

(* What a request remembers when it moves on, and that no other is disturbed.*)
LEMMA Moves ==
  ASSUME TypeOK, NEW r \in Requests
  PROVE  /\ \A step : Go(r, step) =>
              /\ req'[r].pc = step /\ req'[r].of = req[r].of
              /\ req'[r].user = req[r].user /\ req'[r].row = req[r].row
              /\ Others(r)
         /\ \A step, u : GoFor(r, step, u) =>
              /\ req'[r].pc = step /\ req'[r].of = req[r].of
              /\ req'[r].user = u /\ req'[r].row = req[r].row
              /\ Others(r)
         /\ Leave(r) => /\ req'[r].pc = "idle" /\ req'[r].user = Nobody
                        /\ req'[r].row = Nobody /\ Others(r)
  BY IdleIsTyped DEF TypeOK, Go, GoFor, Leave, Others

(* What a request remembers when it enters.                                  *)
LEMMA Enters ==
  ASSUME TypeOK, NEW r \in Requests, Enter(r)
  PROVE  /\ req[r].pc = "idle" /\ UNCHANGED <<tables, answers>> /\ Others(r)
         /\ \/ req'[r].pc = "find" /\ req'[r].row = Nobody
            \/ req'[r].pc = "has" /\ req'[r].user \in Ids /\ req'[r].row = Nobody
            \/ \E u \in Ids : \E i \in Ways(u) :
                 /\ req'[r].pc = "delete" /\ req'[r].user = u /\ req'[r].row = i.id
                 /\ May("unlink") /\ Cardinality(Ways(u)) > 1
                 /\ Cross(u, i.id)
  <1>1. /\ "pc" \in DOMAIN Idle /\ "of" \in DOMAIN Idle /\ "user" \in DOMAIN Idle
        /\ "row" \in DOMAIN Idle
        /\ Idle.pc = "idle" /\ Idle.user = Nobody /\ Idle.row = Nobody
    BY IdleIsTyped DEF Idle
  <1>2. CASE \E p \in Profiles : SignIn(r, p)
    BY <1>1, <1>2 DEF SignIn, TypeOK, Others
  <1>3. CASE \E p \in Profiles, u \in Ids : Link(r, u, p)
    BY <1>1, <1>3 DEF Link, TypeOK, Others
  <1>4. CASE \E u \in Ids, q \in Providers : Unlink(r, u, q)
    <2>1. PICK u \in Ids, q \in Providers : Unlink(r, u, q)
      BY <1>4
    <2>2. PICK i \in Ways(u) :
            /\ May("unlink") /\ req[r].pc = "idle" /\ Cardinality(Ways(u)) > 1
            /\ Cross(u, i.id)
            /\ req' = [req EXCEPT ![r] = [Idle EXCEPT !.pc = "delete", !.user = u, !.row = i.id]]
            /\ UNCHANGED <<tables, answers>>
      BY <2>1 DEF Unlink
    <2>3. /\ req'[r].pc = "delete" /\ req'[r].user = u /\ req'[r].row = i.id
          /\ Others(r)
      BY <1>1, <2>2 DEF TypeOK, Others
    <2> QED
      BY <2>2, <2>3
  <1> QED
    BY <1>2, <1>3, <1>4 DEF Enter

(* A request that looks something up changes no table.                       *)
LEMMA Looks ==
  ASSUME TypeOK, Acting, NEW r \in Requests, Look(r)
  PROVE  /\ UNCHANGED tables /\ Others(r)
         /\ req[r].pc # "idle"
         /\ req[r].pc = "profile" \/ req[r].pc = "delete" =>
              req'[r].pc = "idle" /\ May("pgdown")
         /\ \/ req'[r].pc \in {"idle", "email", "create"}
            \/ req'[r].pc \in {"linked", "autolink", "same", "attach"} /\ req'[r].user # Nobody
            \/ req'[r].pc \in {"owner", "refresh"} /\ req'[r].user # Nobody
               /\ (Known /\ Without("unlink") => Leads(req'[r].of, req'[r].user))
         /\ \A a \in answers' \ answers : a.user # Nobody =>
              (Known /\ Without("unlink") => Leads(a.of, a.user))
  <1> USE Moves DEF Others
  <1>1. \A i \in identities : i.user # Nobody
    BY DEF TypeOK, Ids, Nobody
  <1>2. ByEmail(req[r].of) \in {"email", "create"}
    BY DEF ByEmail
  <1>3. CASE FindIdentity(r)
    <2>1. CASE Of(req[r].of) = {} /\ Go(r, ByEmail(req[r].of)) /\ UNCHANGED answers
      BY <1>2, <1>3, <2>1 DEF FindIdentity
    <2>2. CASE Local(req[r].of) /\ Of(req[r].of) # {} /\ Refused(r)
      BY <1>3, <2>2 DEF FindIdentity, Refused, SignedIn
    <2>3. CASE (\E i \in Of(req[r].of) : GoFor(r, "owner", i.user)) /\ UNCHANGED answers
      <3>1. PICK i \in Of(req[r].of) : GoFor(r, "owner", i.user)
        BY <2>3
      <3>2. /\ req'[r].pc = "owner" /\ req'[r].user = i.user /\ req'[r].of = req[r].of
            /\ i.user # Nobody
        BY <1>1, <3>1 DEF Of
      <3> QED
        BY <1>3, <2>3, <3>1, <3>2 DEF FindIdentity, Leads
    <2> QED
      BY <1>3, <2>1, <2>2, <2>3 DEF FindIdentity
  <1>4. CASE FindOwner(r)
    <2>1. /\ req[r].pc = "owner" /\ req[r].user # Nobody
          /\ Known /\ Without("unlink") => Leads(req[r].of, req[r].user)
      BY <1>4 DEF FindOwner, Acting, Known
    <2>2. CASE SignedIn(r, req[r].user)
      BY <1>4, <2>1, <2>2 DEF FindOwner, SignedIn
    <2>3. CASE Go(r, "refresh") /\ UNCHANGED answers
      BY <1>4, <2>1, <2>3 DEF FindOwner
    <2>4. CASE GoFor(r, ByEmail(req[r].of), Nobody) /\ UNCHANGED answers
      BY <1>2, <1>4, <2>1, <2>4 DEF FindOwner
    <2> QED
      BY <1>4, <2>2, <2>3, <2>4 DEF FindOwner, MayRefresh
  <1>5. CASE FindEmail(r)
    <2>1. \A u \in WithEmail(req[r].of.email) : u # Nobody
      BY DEF WithEmail, Ids, Nobody
    <2> QED
      BY <1>5, <2>1 DEF FindEmail
  <1>6. CASE FindLinked(r)
    BY <1>6 DEF FindLinked, Acting
  <1>7. CASE FindTaken(r) \/ FindSame(r)
    BY <1>7 DEF FindTaken, FindSame, Acting
  <1>8. CASE PgFails(r)
    BY <1>8 DEF PgFails, Done, Refused, SignedIn
  <1> QED
    BY <1>3, <1>4, <1>5, <1>6, <1>7, <1>8 DEF Look

(* Leads, after a step.                                                      *)
WillLead(p, u) ==
  \E i \in identities' : i.provider = p.provider /\ i.subject = p.subject /\ i.user = u

(* An inserted row leads from the account to the user.                       *)
LEMMA InsertLeads ==
  ASSUME NEW u, NEW p, Insert(u, p)
  PROVE  WillLead(p, u) /\ identities \subseteq identities'
  <1>1. NewRow(u, p) \in identities' /\ identities \subseteq identities'
    BY DEF Insert
  <1>2. /\ NewRow(u, p).user = u /\ NewRow(u, p).provider = p.provider
        /\ NewRow(u, p).subject = p.subject
    BY DEF NewRow
  <1> QED
    BY <1>1, <1>2 DEF WillLead

(* A request that writes: how it moves on, and what each table gains.        *)
LEMMA Writes ==
  ASSUME TypeOK, Acting, NEW r \in Requests, world' = world, Write(r)
  PROVE  /\ Others(r)
         /\ \/ req'[r].pc = "idle"
            \/ req'[r].pc \in {"refresh", "profile", "identity"} /\ req'[r].user # Nobody
         /\ req[r].pc # "idle" /\ (req[r].pc = "delete" => DeleteRow(r))
         /\ Known /\ Without("unlink") =>
              /\ identities \subseteq identities'
              /\ req'[r].pc = "refresh" => WillLead(req'[r].of, req'[r].user)
              /\ \A a \in answers' \ answers : a.user # Nobody => WillLead(a.of, a.user)
         /\ \/ identities' = identities
            \/ \E u \in Ids, p \in Profiles : Insert(u, p)
            \/ DeleteRow(r)
         /\ profiles \subseteq profiles'
         /\ req[r].pc = "profile" => req[r].user \in profiles'
         /\ \A u \in Ids' \ Ids : req'[r].pc = "profile" /\ req'[r].user = u
  <1> USE Moves DEF Others
  <1>1. req[r].of \in Profiles /\ (req[r].user # Nobody => req[r].user \in Ids)
    BY DEF TypeOK
  <1>2. users' = users => Ids' = Ids
    BY DEF Ids
  <1>3. CASE Refresh(r)
    <2>1. /\ req[r].pc = "refresh" /\ SignedIn(r, req[r].user)
          /\ UNCHANGED <<profiles, identities>>
          /\ users' = [users EXCEPT ![req[r].user].active = TRUE]
      BY <1>3 DEF Refresh
    <2>2. Ids' = Ids
      BY <2>1, FlagIsTyped
    <2>3. answers' = answers \cup {[of |-> req[r].of, user |-> req[r].user]}
      BY <2>1 DEF SignedIn
    <2>4. Known /\ Without("unlink") => WillLead(req[r].of, req[r].user)
      BY <2>1 DEF Known, Leads, WillLead, Of
    <2>5. req'[r].pc = "idle" /\ Others(r)
      BY <2>1 DEF SignedIn
    <2> QED
      BY <2>1, <2>2, <2>3, <2>4, <2>5
  <1>4. CASE AutoLink(r)
    <2>1. req[r].pc = "autolink" /\ UNCHANGED <<users, profiles>> /\ req[r].user \in Ids
      BY <1>1, <1>4 DEF AutoLink, Acting
    <2>2. CASE Insert(req[r].user, req[r].of) /\ SignedIn(r, req[r].user)
      BY <1>1, <1>2, <2>1, <2>2, InsertLeads DEF SignedIn
    <2>3. CASE Insert(req[r].user, req[r].of) /\ Go(r, "refresh") /\ UNCHANGED answers
      <3>1. req'[r].pc = "refresh" /\ req'[r].user = req[r].user /\ req'[r].of = req[r].of
        BY <2>3
      <3>2. WillLead(req'[r].of, req'[r].user) /\ identities \subseteq identities'
        BY <2>3, <3>1, InsertLeads
      <3> QED
        BY <1>1, <1>2, <2>1, <2>3, <3>1, <3>2 DEF Nobody, Ids
    <2>4. CASE Refused(r) /\ UNCHANGED identities
      BY <1>2, <2>1, <2>4 DEF Refused, SignedIn
    <2> QED
      BY <1>4, <2>2, <2>3, <2>4 DEF AutoLink, MayRefresh
  <1>5. CASE CreateUser(r)
    <2>1. CASE Refused(r) /\ UNCHANGED users
      BY <1>2, <1>5, <2>1 DEF CreateUser, Refused, SignedIn
    <2>2. CASE /\ users' = Append(users, NewUser(req[r].of))
               /\ GoFor(r, "profile", Len(users) + 1) /\ UNCHANGED answers
      <3>1. users \in Seq(UserRows) /\ Len(users) \in Nat
        BY DEF TypeOK, UserRows
      <3>2. Len(users') = Len(users) + 1
        BY <2>2, <3>1
      <3>3. Ids' \ Ids \subseteq {Len(users) + 1} /\ Len(users) + 1 # Nobody
        BY <3>1, <3>2 DEF Ids, Nobody
      <3> QED
        BY <1>5, <2>2, <3>3 DEF CreateUser
    <2> QED
      BY <1>5, <2>1, <2>2 DEF CreateUser
  <1>6. CASE CreateProfile(r)
    BY <1>2, <1>6 DEF CreateProfile, Acting
  <1>7. CASE CreateIdentity(r)
    <2>1. req[r].pc = "identity" /\ UNCHANGED <<users, profiles>> /\ req[r].user \in Ids
      BY <1>1, <1>7 DEF CreateIdentity, Acting
    <2>2. CASE Insert(req[r].user, req[r].of) /\ SignedIn(r, req[r].user)
      BY <1>1, <1>2, <2>1, <2>2, InsertLeads DEF SignedIn
    <2>3. CASE Refused(r) /\ UNCHANGED identities
      BY <1>2, <2>1, <2>3 DEF Refused, SignedIn
    <2> QED
      BY <1>7, <2>2, <2>3 DEF CreateIdentity
  <1>8. CASE Attach(r)
    <2>1. req[r].pc = "attach" /\ UNCHANGED <<users, profiles>> /\ Done(r) /\ req[r].user \in Ids
      BY <1>1, <1>8 DEF Attach, Acting
    <2>2. CASE Insert(req[r].user, req[r].of)
      BY <1>1, <1>2, <2>1, <2>2, InsertLeads DEF Done
    <2>3. CASE UNCHANGED identities
      BY <1>2, <2>1, <2>3 DEF Done
    <2> QED
      BY <1>8, <2>2, <2>3 DEF Attach
  <1>9. CASE DeleteRow(r)
    <2>1. req[r].pc = "delete" /\ UNCHANGED <<users, profiles>> /\ Done(r)
      BY <1>9 DEF DeleteRow
    <2>2. ~(Known /\ Without("unlink"))
      BY <2>1 DEF Known
    <2> QED
      BY <1>2, <1>9, <2>1, <2>2 DEF Done
  <1> QED
    BY <1>3, <1>4, <1>5, <1>6, <1>7, <1>8, <1>9 DEF Write

-----------------------------------------------------------------------------
(* The invariant. *)

(* A step of a request, or of the operator, keeps what is typed and acting.  *)
LEMMA StepKeepsActing ==
  ASSUME TypeOK, Acting, NEW r \in Requests, world' = world, Enter(r) \/ Look(r) \/ Write(r)
  PROVE  TypeOK' /\ Acting'
  <1>1. TypeOK'
    BY EnterIsTyped, LookIsTyped, WriteIsTyped
  <1>2. Others(r)
    BY Enters, Looks, Writes
  <1>3. req'[r].user = Nobody => req'[r].pc \in {"idle", "find", "email", "create"}
    <2>1. \A u \in Ids : u # Nobody
      BY DEF Ids, Nobody
    <2> QED
      BY <2>1, Enters, Looks, Writes
  <1> QED
    BY <1>1, <1>2, <1>3 DEF Acting, Others

(* An inserted row has an id of its own, and is the only one of its account. *)
LEMMA InsertKeepsSingle ==
  ASSUME Single, NEW u, NEW p, Insert(u, p)
  PROVE  Single'
  <1>1. (CHOOSE n \in FreshRows : TRUE) \in FreshRows
    BY DEF Insert
  <1>2. /\ \A i \in identities : i.id # NewRow(u, p).id
        /\ \A i \in identities : ~(i.provider = NewRow(u, p).provider
                                   /\ i.subject = NewRow(u, p).subject)
    BY <1>1 DEF FreshRows, NewRow, Insert, Unique, Of
  <1>3. identities' = identities \cup {NewRow(u, p)}
    BY DEF Insert
  <1> QED
    BY <1>2, <1>3 DEF Single

(* A row and an account stay single.                                         *)
LEMMA StepKeepsSingle ==
  ASSUME TypeOK, Acting, Single, NEW r \in Requests, world' = world,
         Enter(r) \/ Look(r) \/ Write(r)
  PROVE  Single'
  <1>1. CASE identities' \subseteq identities
    BY <1>1 DEF Single
  <1>2. CASE \E u \in Ids, p \in Profiles : Insert(u, p)
    BY <1>2, InsertKeepsSingle
  <1>3. DeleteRow(r) => identities' \subseteq identities
    BY DEF DeleteRow
  <1> QED
    BY <1>1, <1>2, <1>3, Enters, Looks, Writes DEF tables

(* While nothing is unlinked, a sign-in is by an identity of its user.       *)
LEMMA StepKeepsKnown ==
  ASSUME TypeOK, Acting, Known, NEW r \in Requests, world' = world,
         Enter(r) \/ Look(r) \/ Write(r)
  PROVE  Known'
  <1> SUFFICES ASSUME Without("unlink")
               PROVE  /\ \A a \in answers' : a.user # Nobody => WillLead(a.of, a.user)
                      /\ \A q \in Requests : req'[q].pc \in {"owner", "refresh"} =>
                           WillLead(req'[q].of, req'[q].user)
                      /\ \A q \in Requests : req'[q].pc # "delete"
    BY DEF Known, Leads, WillLead, Of, Without, May
  <1>1. identities \subseteq identities'
    BY Enters, Looks, Writes DEF tables
  <1>2. \A p, u : Leads(p, u) => WillLead(p, u)
    BY <1>1 DEF Leads, WillLead, Of
  <1>3. \A a \in answers' \ answers : a.user # Nobody => WillLead(a.of, a.user)
    BY <1>2, Enters, Looks, Writes
  <1>4. req'[r].pc \in {"owner", "refresh"} => WillLead(req'[r].of, req'[r].user)
    BY <1>2, Enters, Looks, Writes
  <1>5. req'[r].pc # "delete"
    BY Enters, Looks, Writes DEF Without
  <1>6. Others(r)
    BY Enters, Looks, Writes
  <1> QED
    BY <1>2, <1>3, <1>4, <1>5, <1>6 DEF Known, Others

(* A user's profile follows the user, unless the statement failed.           *)
LEMMA StepKeepsEquipped ==
  ASSUME TypeOK, Acting, Equipped, NEW r \in Requests, world' = world,
         Enter(r) \/ Look(r) \/ Write(r)
  PROVE  Equipped'
  <1> SUFFICES ASSUME Without("pgdown"), NEW u \in Ids'
               PROVE  u \in profiles'
                      \/ \E q \in Requests : req'[q].pc = "profile" /\ req'[q].user = u
    BY DEF Equipped, Without, May
  <1>1. Others(r)
    BY Enters, Looks, Writes
  <1>2. CASE u \in Ids
    <2>1. profiles \subseteq profiles'
      BY Enters, Looks, Writes DEF tables
    <2>2. req[r].pc = "profile" => req[r].user \in profiles'
      BY Enters, Looks, Writes DEF Without
    <2> QED
      BY <1>1, <1>2, <2>1, <2>2 DEF Equipped, Others
  <1>3. CASE u \notin Ids
    <2>1. ~(users' = users)
      BY <1>3 DEF Ids
    <2> QED
      BY <1>3, <2>1, Enters, Looks, Writes DEF tables
  <1> QED
    BY <1>2, <1>3

(* Who may unlink an identity has another one.                               *)
LEMMA UnlinkLeavesAnother ==
  ASSUME Single, NEW u, NEW i \in Ways(u), Cardinality(Ways(u)) > 1
  PROVE  \E j \in Ways(u) : j.id # i.id
  <1>1. Ways(u) # {i}
    BY FS_Singleton
  <1>2. PICK j \in Ways(u) : j # i
    BY <1>1
  <1> QED
    BY <1>2 DEF Single, Ways

(* A request to unlink leaves alone those it does not cross.                 *)
LEMMA UnlinkKeepsSpare ==
  ASSUME TypeOK, Single, Spare, NEW r \in Requests, Others(r), UNCHANGED identities,
         req[r].pc = "idle",
         NEW u \in Ids, NEW k \in Ways(u), Cardinality(Ways(u)) > 1, Cross(u, k.id),
         req'[r].pc = "delete", req'[r].user = u, req'[r].row = k.id
  PROVE  Spare'
  <1> DEFINE Will(q, i) == req'[q].pc = "delete" /\ req'[q].row = i.id
  <1> SUFFICES ASSUME NEW q \in Requests, NEW i \in identities, Will(q, i)
               PROVE  /\ i.user = req'[q].user
                      /\ i.user \notin crossed' =>
                           /\ \E j \in identities : j.user = i.user /\ j # i
                           /\ \A s \in Requests : \A j \in identities :
                                j.user = i.user /\ Will(s, j) => i = j
    BY DEF Spare, Ways, Deleting
  <1>1. crossed \subseteq crossed'
    BY DEF Cross
  <1>2. k \in identities /\ k.user = u /\ \A j \in identities : Will(r, j) => j = k
    BY DEF Ways, Single
  <1>3. ASSUME NEW s \in Requests, NEW j \in identities, Will(s, j), s # r
        PROVE  Deleting(s, j) /\ req'[s] = req[s]
    BY <1>3 DEF Others, Deleting
  <1>4. ASSUME NEW s \in Requests, NEW j \in identities, Will(s, j), j.user = u,
               u \notin crossed'
        PROVE  j = k
    BY <1>2, <1>3, <1>4 DEF Cross, Ways, Single
  <1>5. CASE q = r
    <2>1. i = k /\ i.user = req'[q].user
      BY <1>2, <1>5
    <2>2. \E j \in identities : j.user = u /\ j # k
      BY UnlinkLeavesAnother DEF Ways
    <2> QED
      BY <1>2, <1>4, <2>1, <2>2
  <1>6. CASE q # r
    <2>1. /\ i.user = req'[q].user
          /\ i.user \notin crossed =>
               /\ \E j \in identities : j.user = i.user /\ j # i
               /\ \A s \in Requests : \A j \in identities :
                    j.user = i.user /\ Deleting(s, j) => i = j
      BY <1>3, <1>6 DEF Spare, Ways
    <2>2. ASSUME i.user \notin crossed', NEW s \in Requests, NEW j \in identities,
                 j.user = i.user, Will(s, j)
          PROVE  i = j
      <3>1. CASE s # r
        BY <1>1, <1>3, <2>1, <2>2, <3>1
      <3>2. CASE s = r
        BY <1>2, <1>4, <2>2, <3>2
      <3> QED
        BY <3>1, <3>2
    <2> QED
      BY <1>1, <2>1, <2>2
  <1> QED
    BY <1>5, <1>6

(* Unless requests crossed, whoever loses a way has a spare.                 *)
LEMMA StepKeepsSpare ==
  ASSUME TypeOK, Acting, Single, Spare, NEW r \in Requests, world' = world,
         Enter(r) \/ Look(r) \/ Write(r)
  PROVE  Spare'
  <1>1. Others(r) /\ crossed \subseteq crossed'
    BY Enters, Looks, Writes, CrossedGrows
  <1>2. CASE Enter(r) /\ req'[r].pc = "delete"
    <2>1. /\ req[r].pc = "idle" /\ UNCHANGED identities
          /\ \E u \in Ids : \E k \in Ways(u) :
               /\ req'[r].user = u /\ req'[r].row = k.id
               /\ Cardinality(Ways(u)) > 1 /\ Cross(u, k.id)
      BY <1>2, Enters DEF tables
    <2> QED
      BY <1>1, <1>2, <2>1, UnlinkKeepsSpare
  <1>3. CASE req'[r].pc # "delete"
    <2> DEFINE Will(q, i) == req'[q].pc = "delete" /\ req'[q].row = i.id
    <2>1. SUFFICES ASSUME NEW q \in Requests, NEW i \in identities', Will(q, i)
                   PROVE  /\ i.user = req'[q].user
                          /\ i.user \notin crossed =>
                               /\ \E j \in identities' : j.user = i.user /\ j # i
                               /\ \A s \in Requests : \A j \in identities' :
                                    j.user = i.user /\ Will(s, j) => i = j
      BY <1>1 DEF Spare, Ways, Deleting
    <2>2. \A s \in Requests, j \in identities : Will(s, j) => Deleting(s, j) /\ req'[s] = req[s]
      BY <1>1, <1>3 DEF Others, Deleting
    <2>3. CASE identities' = identities
      BY <2>1, <2>2, <2>3 DEF Spare, Ways
    <2>4. CASE \E u \in Ids, p \in Profiles : Insert(u, p)
      <3>1. PICK u \in Ids, p \in Profiles : Insert(u, p)
        BY <2>4
      <3>2. (CHOOSE n \in FreshRows : TRUE) \in FreshRows
        BY <3>1 DEF Insert
      <3>3. \A s \in Requests : ~Will(s, NewRow(u, p))
        BY <1>1, <1>3, <3>2 DEF FreshRows, NewRow, Others
      <3>4. identities' = identities \cup {NewRow(u, p)}
        BY <3>1 DEF Insert
      <3> QED
        BY <2>1, <2>2, <3>3, <3>4 DEF Spare, Ways
    <2>5. CASE DeleteRow(r)
      <3>1. req[r].pc = "delete" /\ identities' = {j \in identities : j.id # req[r].row}
        BY <2>5 DEF DeleteRow
      <3>2. ASSUME i.user \notin crossed
            PROVE  \E j \in identities' : j.user = i.user /\ j # i
        <4>1. Deleting(q, i) /\ i \in identities
          BY <2>1, <2>2, <3>1
        <4>2. PICK j \in identities : j.user = i.user /\ j # i
          BY <3>2, <4>1 DEF Spare, Ways
        <4>3. ~Deleting(r, j)
          BY <3>2, <4>1, <4>2 DEF Spare, Ways
        <4> QED
          BY <3>1, <4>2, <4>3 DEF Deleting
      <3> QED
        BY <2>1, <2>2, <3>1, <3>2 DEF Spare, Ways
    <2> QED
      BY <2>3, <2>4, <2>5, Enters, Looks, Writes DEF tables
  <1> QED
    BY <1>2, <1>3, Looks, Writes

-----------------------------------------------------------------------------
(* Names and addresses: what a step does to them. *)

(* The rows of users stay what they are, but for the flag.                   *)
SameRows == \A u \in Ids : /\ u \in Ids'
                           /\ users'[u].username = users[u].username
                           /\ users'[u].email = users[u].email

(* Setting or clearing the flag leaves names and addresses alone.            *)
LEMMA FlagKeepsRows ==
  ASSUME TypeOK, NEW u, NEW flag \in BOOLEAN,
         users' = [users EXCEPT ![u].active = flag], world' = world
  PROVE  SameRows /\ Ids' = Ids
  <1>1. Ids' = Ids
    BY FlagIsTyped
  <1>2. users \in [Ids -> UserRows]
    <2>1. users \in Seq(UserRows)
      BY DEF TypeOK, UserRows
    <2> QED
      BY <2>1 DEF Ids
  <1>3. \A v \in Ids : users'[v] \in {users[v], [users[v] EXCEPT !.active = flag]}
    BY <1>2
  <1> QED
    BY <1>1, <1>2, <1>3 DEF SameRows, UserRows

(* A new row comes after the others.                                         *)
LEMMA AppendKeepsRows ==
  ASSUME TypeOK, NEW row, row \in UserRows, users' = Append(users, row)
  PROVE  /\ SameRows
         /\ Ids' = Ids \cup {Len(users) + 1} /\ Len(users) + 1 \notin Ids
         /\ users'[Len(users) + 1] = row
  <1>1. users \in Seq(UserRows) /\ Len(users) \in Nat
    BY DEF TypeOK, UserRows
  <1>2. /\ Len(users') = Len(users) + 1 /\ users'[Len(users) + 1] = row
        /\ \A v \in 1..Len(users) : users'[v] = users[v]
    BY <1>1
  <1>3. Ids' = Ids \cup {Len(users) + 1} /\ Len(users) + 1 \notin Ids
    BY <1>1, <1>2 DEF Ids
  <1> QED
    BY <1>2, <1>3 DEF SameRows, Ids

(* A user is created by the request that acts for it next.                   *)
Creates(r) ==
  LET n == Len(users) + 1
  IN /\ Ids' = Ids \cup {n} /\ n \notin Ids
     /\ ~Taken(NewUser(req[r].of)) /\ users'[n] = NewUser(req[r].of)
     /\ req[r].pc = "create" /\ req'[r].pc = "profile"
     /\ req'[r].user = n /\ req'[r].of = req[r].of
     /\ UNCHANGED <<identities, answers>>

(* A step keeps every name and address, and may create one user.             *)
LEMMA StepKeepsRows ==
  ASSUME TypeOK, Acting, NEW r \in Requests, world' = world, Enter(r) \/ Look(r) \/ Write(r)
  PROVE  SameRows /\ (Ids' = Ids \/ Creates(r))
  <1>1. CASE UNCHANGED users
    BY <1>1 DEF SameRows, Ids
  <1>2. CASE Refresh(r)
    BY <1>2, FlagKeepsRows DEF Refresh
  <1>3. CASE CreateUser(r)
    <2>1. CASE UNCHANGED users
      BY <1>1, <2>1
    <2>2. CASE /\ req[r].pc = "create" /\ ~Taken(NewUser(req[r].of))
               /\ users' = Append(users, NewUser(req[r].of))
               /\ GoFor(r, "profile", Len(users) + 1) /\ UNCHANGED <<identities, answers>>
      <3>1. NewUser(req[r].of) \in UserRows
        BY DEF TypeOK, NewUser, UserRows, Subjects, Emails
      <3>2. /\ req'[r].pc = "profile" /\ req'[r].user = Len(users) + 1
            /\ req'[r].of = req[r].of
        BY <2>2, Moves
      <3> QED
        BY <2>2, <3>1, <3>2, AppendKeepsRows DEF Creates
    <2> QED
      BY <1>3, <2>1, <2>2 DEF CreateUser
  <1>4. Enter(r) \/ Look(r) => UNCHANGED users
    BY Enters, Looks DEF tables
  <1> QED
    BY <1>1, <1>2, <1>3, <1>4 DEF Write, AutoLink, CreateProfile, CreateIdentity, Attach,
         DeleteRow

(* An identity is inserted for the user and the account of the request.      *)
LEMMA StepAddsIdentity ==
  ASSUME TypeOK, Acting, NEW r \in Requests, world' = world, Enter(r) \/ Look(r) \/ Write(r),
         NEW i \in identities' \ identities
  PROVE  /\ req[r].pc \in {"autolink", "identity", "attach"}
         /\ i.user = req[r].user /\ req[r].user \in Ids
         /\ i.provider = req[r].of.provider /\ i.subject = req[r].of.subject
  <1>1. ASSUME Insert(req[r].user, req[r].of)
        PROVE  /\ i.user = req[r].user
               /\ i.provider = req[r].of.provider /\ i.subject = req[r].of.subject
    BY <1>1 DEF Insert, NewRow
  <1>2. req[r].pc \in {"autolink", "identity", "attach"} => req[r].user \in Ids
    BY DEF Acting, TypeOK
  <1>3. ~(Enter(r) \/ Look(r))
    BY Enters, Looks DEF tables
  <1> QED
    BY <1>1, <1>2, <1>3 DEF Write, Refresh, AutoLink, CreateUser, CreateProfile, CreateIdentity,
         Attach, DeleteRow

(* An answer is for the account and the user of the request.                 *)
LEMMA StepAnswers ==
  ASSUME NEW r \in Requests, Enter(r) \/ Look(r) \/ Write(r), NEW a \in answers' \ answers
  PROVE  /\ a.of = req[r].of
         /\ \/ a.user = Nobody
            \/ /\ a.user = req[r].user
               /\ req[r].pc \in {"owner", "refresh", "autolink", "identity"}
  <1>1. \A u : SignedIn(r, u) => a.of = req[r].of /\ a.user = u
    BY DEF SignedIn
  <1>2. CASE Enter(r)
    BY <1>2 DEF Enter, SignIn, Link, Unlink
  <1>3. CASE Look(r)
    BY <1>1, <1>3 DEF Look, FindIdentity, FindOwner, FindEmail, FindLinked, FindTaken, FindSame,
         PgFails, MayRefresh, Refused, Done
  <1>4. CASE Write(r)
    BY <1>1, <1>4 DEF Write, Refresh, AutoLink, CreateUser, CreateProfile, CreateIdentity,
         Attach, DeleteRow, MayRefresh, Refused, Done
  <1> QED
    BY <1>2, <1>3, <1>4

(* What a request remembers, and how it came to that.                        *)
Continues(r) ==
  <<req[r].pc, req'[r].pc>> \in
    {<<"owner", "refresh">>, <<"linked", "autolink">>, <<"autolink", "refresh">>,
     <<"profile", "identity">>, <<"has", "same">>, <<"same", "attach">>}
Turn(r) ==
  \/ req'[r].pc = "idle" /\ req'[r].user = Nobody
  \/ /\ req[r].pc = "idle" /\ req'[r].pc = "find" /\ req'[r].user = Nobody
     /\ Local(req'[r].of) => May("register")
  \/ /\ req[r].pc = "idle" /\ req'[r].pc = "has" /\ May("link")
     /\ ~Local(req'[r].of) /\ \E a \in answers : a.user = req'[r].user
  \/ req[r].pc = "idle" /\ req'[r].pc = "delete" /\ Ways(req'[r].user) # {}
  \/ /\ req'[r].of = req[r].of
     /\ \/ req'[r].user = req[r].user /\ Continues(r)
        \/ req[r].pc = "find" /\ req'[r].pc = "owner" /\ ~Local(req[r].of)
           /\ \E i \in Of(req[r].of) : req'[r].user = i.user
        \/ req[r].pc \in {"find", "owner"} /\ req'[r].pc = "email" /\ ~Local(req[r].of)
           /\ req[r].of.email # NoEmail /\ req'[r].user \in {Nobody, req[r].user}
        \/ req[r].pc \in {"find", "owner", "email", "linked"} /\ req'[r].pc = "create"
           /\ req'[r].user \in {Nobody, req[r].user}
        \/ req[r].pc = "email" /\ req'[r].pc = "linked"
           /\ req'[r].user \in WithEmail(req[r].of.email)
        \/ Creates(r)

(* A request takes one of those turns, and leaves the others alone.          *)
LEMMA StepTurns ==
  ASSUME TypeOK, Acting, NEW r \in Requests, world' = world, Enter(r) \/ Look(r) \/ Write(r)
  PROVE  Turn(r) /\ Others(r)
  <1> USE Moves DEF Turn, Others
  <1>0. Others(r)
    BY Enters, Looks, Writes
  <1>1. \A u : SignedIn(r, u) => req'[r].pc = "idle" /\ req'[r].user = Nobody
    BY DEF SignedIn
  <1>2. CASE Enter(r)
    <2>1. /\ "pc" \in DOMAIN Idle /\ "of" \in DOMAIN Idle /\ "user" \in DOMAIN Idle
          /\ "row" \in DOMAIN Idle
          /\ Idle.pc = "idle" /\ Idle.user = Nobody /\ Idle.row = Nobody
      BY IdleIsTyped DEF Idle
    <2>2. CASE \E p \in Profiles : SignIn(r, p)
      BY <1>0, <2>1, <2>2 DEF SignIn, TypeOK
    <2>3. CASE \E p \in Profiles, u \in Ids : Link(r, u, p)
      BY <1>0, <2>1, <2>3 DEF Link, TypeOK
    <2>4. CASE \E u \in Ids, q \in Providers : Unlink(r, u, q)
      <3>1. PICK u \in Ids, q \in Providers : Unlink(r, u, q)
        BY <2>4
      <3>2. PICK i \in Ways(u) :
              /\ req[r].pc = "idle"
              /\ req' = [req EXCEPT ![r] =
                          [Idle EXCEPT !.pc = "delete", !.user = u, !.row = i.id]]
        BY <3>1 DEF Unlink
      <3>3. req'[r].pc = "delete" /\ req'[r].user = u
        BY <2>1, <3>2 DEF TypeOK
      <3> QED
        BY <1>0, <3>2, <3>3
    <2> QED
      BY <1>2, <2>2, <2>3, <2>4 DEF Enter
  <1>3. CASE FindIdentity(r)
    BY <1>0, <1>1, <1>3 DEF FindIdentity, ByEmail, Refused
  <1>4. CASE FindOwner(r)
    BY <1>0, <1>1, <1>4 DEF FindOwner, ByEmail, MayRefresh, Continues
  <1>5. CASE FindEmail(r)
    BY <1>0, <1>5 DEF FindEmail
  <1>6. CASE FindLinked(r)
    BY <1>0, <1>6 DEF FindLinked, Continues
  <1>7. CASE FindTaken(r) \/ FindSame(r)
    BY <1>0, <1>7 DEF FindTaken, FindSame, Continues
  <1>8. CASE PgFails(r)
    BY <1>0, <1>1, <1>8 DEF PgFails, Done, Refused
  <1>9. CASE Refresh(r) \/ Attach(r) \/ DeleteRow(r) \/ CreateIdentity(r)
    BY <1>0, <1>1, <1>9 DEF Refresh, Attach, DeleteRow, CreateIdentity, Done, Refused
  <1>10. CASE AutoLink(r)
    BY <1>0, <1>1, <1>10 DEF AutoLink, MayRefresh, Refused, Continues
  <1>11. CASE CreateProfile(r)
    BY <1>0, <1>11 DEF CreateProfile, Continues
  <1>12. CASE CreateUser(r)
    <2>1. CASE Refused(r)
      BY <1>0, <1>1, <2>1 DEF Refused
    <2>2. CASE users' = Append(users, NewUser(req[r].of))
      <3>1. NewUser(req[r].of) \in UserRows
        BY DEF TypeOK, NewUser, UserRows, Subjects, Emails
      <3>2. Len(users) + 1 \in Ids' /\ Len(users) + 1 \notin Ids
        BY <2>2, <3>1, AppendKeepsRows
      <3>3. Creates(r)
        BY <1>12, <3>2, StepKeepsRows DEF Write
      <3> QED
        BY <1>0, <3>3 DEF Creates
    <2> QED
      BY <1>12, <2>1, <2>2 DEF CreateUser
  <1> QED
    BY <1>2, <1>3, <1>4, <1>5, <1>6, <1>7, <1>8, <1>9, <1>10, <1>11, <1>12 DEF Look, Write

-----------------------------------------------------------------------------
(* Names and addresses: what a step keeps of them. *)

(* Names and addresses stay unique, and local identities with their names.   *)
LEMMA StepKeepsDistinct ==
  ASSUME TypeOK, Acting, Distinct, Founded, NEW r \in Requests, world' = world,
         Enter(r) \/ Look(r) \/ Write(r)
  PROVE  Distinct'
  <1>1. Turn(r) /\ Others(r) /\ SameRows
    BY StepTurns, StepKeepsRows
  <1>2. /\ req'[r].pc \notin {"idle", "find", "create", "profile", "identity", "delete"}
             => ~Local(req'[r].of)
        /\ req'[r].pc \in {"email", "linked", "autolink"} => req'[r].of.email # NoEmail
    BY <1>1 DEF Turn, Continues, Creates, Distinct
  <1>3. ASSUME NEW u \in Ids', NEW v \in Ids',
               \/ users'[u].username = users'[v].username /\ users'[u].username # NoEmail
               \/ users'[u].email = users'[v].email /\ users'[u].email # NoEmail
        PROVE  u = v
    <2>1. CASE u \in Ids /\ v \in Ids
      BY <1>1, <1>3, <2>1 DEF SameRows, Distinct
    <2>2. CASE ~(u \in Ids /\ v \in Ids)
      <3>1. Creates(r)
        BY <2>2, StepKeepsRows
      <3>2. \A w \in Ids :
              /\ users'[w].username = NewUser(req[r].of).username
                   => users'[w].username = NoEmail
              /\ users'[w].email = NewUser(req[r].of).email => users'[w].email = NoEmail
        BY <1>1, <3>1 DEF Creates, Taken, SameRows
      <3> QED
        BY <1>3, <2>2, <3>1, <3>2 DEF Creates
    <2> QED
      BY <2>1, <2>2
  <1>4. ASSUME NEW i \in identities', Local(i)
        PROVE  users'[i.user].username = i.subject
    <2>1. CASE i \in identities
      BY <1>1, <1>4, <2>1 DEF Distinct, SameRows, TypeOK
    <2>2. CASE i \notin identities
      <3>1. /\ req[r].pc \in {"autolink", "identity", "attach"}
            /\ i.user = req[r].user /\ req[r].user \in Ids /\ Local(req[r].of)
            /\ i.subject = req[r].of.subject
        BY <1>4, <2>2, StepAddsIdentity DEF Local
      <3>2. Founding(r)
        BY <3>1 DEF Distinct, Founding
      <3> QED
        BY <1>1, <3>1, <3>2 DEF Founded, SameRows
    <2> QED
      BY <2>1, <2>2
  <1> QED
    BY <1>1, <1>2, <1>3, <1>4 DEF Distinct, Others, Local

(* A user that register has not finished with is nobody else's.              *)
LEMMA StepKeepsFounded ==
  ASSUME TypeOK, Acting, Distinct, Founded, NEW r \in Requests, world' = world,
         Enter(r) \/ Look(r) \/ Write(r)
  PROVE  Founded'
  <1> DEFINE Alone(q, u) == /\ \A i \in identities' : i.user # u
                            /\ \A a \in answers' : a.user # u
                            /\ \A s \in Requests : req'[s].user = u => s = q
  <1>1. Turn(r) /\ Others(r) /\ SameRows
    BY StepTurns, StepKeepsRows
  <1>2. Nobody \notin Ids /\ \A i \in identities : i.user \in Ids
    BY DEF Nobody, Ids, TypeOK
  <1>3. ASSUME NEW q \in Requests, q # r, Founding(q)'
        PROVE  /\ users'[req'[q].user].username = req'[q].of.subject
               /\ users'[req'[q].user].email = NoEmail
               /\ Alone(q, req'[q].user)
    <2>1. req'[q] = req[q] /\ Founding(q)
      BY <1>1, <1>3 DEF Others, Founding, Local
    <2>2. req[q].user \in Ids
      BY <2>1 DEF Founding, Acting, TypeOK
    <2>3. req[r].user # req[q].user
      BY <1>3, <2>1 DEF Founded
    <2>4. \A i \in identities' : i.user # req[q].user
      BY <2>1, <2>3, StepAddsIdentity DEF Founded, Ways
    <2>5. \A a \in answers' : a.user # req[q].user
      BY <1>2, <2>1, <2>2, <2>3, StepAnswers DEF Founded
    <2>6. req'[r].user # req[q].user
      <3>1. /\ Ways(req[q].user) = {} /\ \A i \in identities : i.user # req[q].user
            /\ \A a \in answers : a.user # req[q].user
            /\ users[req[q].user].email = NoEmail
        BY <2>1 DEF Founded, Ways
      <3>2. Creates(r) => req'[r].user \notin Ids
        BY DEF Creates
      <3>3. req[r].pc = "email" => req[q].user \notin WithEmail(req[r].of.email)
        BY <3>1 DEF WithEmail, Distinct
      <3> QED
        BY <1>1, <1>2, <2>2, <2>3, <3>1, <3>2, <3>3 DEF Turn, Of
    <2>7. \A s \in Requests : req'[s].user = req[q].user => s = q
      BY <1>1, <2>1, <2>6 DEF Others, Founded
    <2> QED
      BY <1>1, <2>1, <2>2, <2>4, <2>5, <2>7 DEF Founded, SameRows
  <1>4. ASSUME Founding(r)'
        PROVE  /\ users'[req'[r].user].username = req'[r].of.subject
               /\ users'[req'[r].user].email = NoEmail
               /\ Alone(r, req'[r].user)
    <2>1. CASE Creates(r)
      <3>1. req'[r].user \notin Ids /\ req'[r].user # Nobody
        BY <2>1 DEF Creates, Ids, TypeOK, Nobody
      <3>2. /\ \A i \in identities : i.user \in Ids
            /\ \A a \in answers : a.user \in Ids \cup {Nobody}
            /\ \A s \in Requests : req[s].user \in Ids \cup {Nobody}
        BY DEF TypeOK
      <3>3. Local(req[r].of)
        BY <1>4, <2>1 DEF Founding, Creates, Local
      <3> QED
        BY <1>1, <2>1, <3>1, <3>2, <3>3 DEF Creates, NewUser, Others
    <2>2. CASE ~Creates(r)
      <3>1. /\ req'[r].of = req[r].of /\ req'[r].user = req[r].user
            /\ req[r].pc = "profile"
        BY <1>1, <1>4, <2>2 DEF Turn, Continues, Founding
      <3>2. Founding(r) /\ req[r].user \in Ids
        BY <1>4, <3>1 DEF Founding, Local, Acting, TypeOK
      <3>3. \A i \in identities' : i.user # req[r].user
        BY <3>1, <3>2, StepAddsIdentity DEF Founded, Ways
      <3>4. \A a \in answers' : a.user # req[r].user
        BY <1>2, <3>1, <3>2, StepAnswers DEF Founded
      <3> QED
        BY <1>1, <3>1, <3>2, <3>3, <3>4 DEF Founded, SameRows, Others
    <2> QED
      BY <2>1, <2>2
  <1> QED
    BY <1>3, <1>4 DEF Founded, Ways

(* A row is deleted only under a user who has another one.                   *)
LEMMA StepKeepsAWay ==
  ASSUME TypeOK, Acting, Single, Spare, NEW r \in Requests, world' = world,
         Enter(r) \/ Look(r) \/ Write(r), NEW u, u \notin crossed, Ways(u) # {}
  PROVE  Ways(u)' # {}
  <1>1. CASE identities \subseteq identities'
    BY <1>1 DEF Ways
  <1>2. CASE DeleteRow(r)
    <2>1. req[r].pc = "delete" /\ identities' = {i \in identities : i.id # req[r].row}
      BY <1>2 DEF DeleteRow
    <2>2. CASE \E i \in Ways(u) : i.id = req[r].row
      <3>1. PICK i \in Ways(u) : i.id = req[r].row
        BY <2>2
      <3>2. PICK j \in Ways(u) : j # i
        BY <2>1, <3>1 DEF Spare, Deleting, Ways
      <3>3. j.id # req[r].row
        BY <3>1, <3>2 DEF Single, Ways
      <3> QED
        BY <2>1, <3>2, <3>3 DEF Ways
    <2>3. CASE \A i \in Ways(u) : i.id # req[r].row
      BY <2>1, <2>3 DEF Ways
    <2> QED
      BY <2>2, <2>3
  <1>3. identities \subseteq identities' \/ DeleteRow(r)
    BY Enters, Looks, Writes, InsertLeads DEF tables
  <1> QED
    BY <1>1, <1>2, <1>3

(* The identity of a name that register took cannot be refused.              *)
LEMMA FoundingSucceeds ==
  ASSUME TypeOK, Acting, Distinct, Founded, Without("pgdown"), NEW r \in Requests,
         world' = world, Enter(r) \/ Look(r) \/ Write(r),
         Founding(r), req[r].of.subject # NoEmail
  PROVE  \/ \E i \in identities' : i.user = req[r].user
         \/ Founding(r)' /\ req'[r].user = req[r].user
  <1>1. CASE CreateIdentity(r)
    <2>1. Of(req[r].of) = {}
      <3>1. SUFFICES ASSUME NEW i \in Of(req[r].of) PROVE FALSE
        OBVIOUS
      <3>2. i.user \in Ids /\ req[r].user \in Ids
        BY DEF Of, TypeOK, Founding, Acting
      <3>3. users[i.user].username = users[req[r].user].username
        <4>1. i \in identities /\ i.provider = "local" /\ i.subject = req[r].of.subject
          BY DEF Of, Local, Founding
        <4> QED
          BY <4>1 DEF Local, Founded, Distinct
      <3>4. i.user = req[r].user
        BY <3>2, <3>3 DEF Distinct, Founded
      <3> QED
        BY <3>4 DEF Founded, Ways, Of
    <2>2. Unique(req[r].user, req[r].of)
      BY <2>1 DEF Founded, Unique
    <2>3. Insert(req[r].user, req[r].of)
      BY <1>1, <2>2 DEF CreateIdentity
    <2> QED
      BY <2>3, InsertLeads DEF WillLead
  <1>2. CASE CreateProfile(r)
    BY <1>2, Moves DEF CreateProfile, Founding, Local
  <1> QED
    BY <1>1, <1>2 DEF Founding, Enter, SignIn, Link, Unlink, Look, FindIdentity, FindOwner,
         FindEmail, FindLinked, FindTaken, FindSame, PgFails, Without, Write, Refresh, AutoLink,
         CreateUser, Attach, DeleteRow

(* A name that is taken stays one that can be used.                          *)
LEMMA StepKeepsNamed ==
  ASSUME TypeOK, Acting, Single, Spare, Distinct, Founded, Named, NEW r \in Requests,
         world' = world, Enter(r) \/ Look(r) \/ Write(r)
  PROVE  Named'
  <1> SUFFICES ASSUME Without("pgdown"), NEW u \in Ids' \ crossed',
                      users'[u].username # NoEmail
               PROVE  \/ Ways(u)' # {}
                      \/ \E q \in Requests : Founding(q)' /\ req'[q].user = u
    BY DEF Named, Without, May, Ways, Founding, Local
  <1>1. SameRows /\ Others(r) /\ u \notin crossed
    BY StepKeepsRows, StepTurns, CrossedGrows
  <1>2. CASE u \in Ids /\ Ways(u) # {}
    BY <1>1, <1>2, StepKeepsAWay
  <1>3. CASE u \in Ids /\ Ways(u) = {}
    <2>1. PICK q \in Requests : Founding(q) /\ req[q].user = u
      BY <1>1, <1>3 DEF Named, SameRows
    <2>2. CASE q = r
      <3>1. req[r].of.subject # NoEmail
        BY <1>1, <1>3, <2>1, <2>2 DEF Founded, SameRows
      <3> QED
        BY <2>1, <2>2, <3>1, FoundingSucceeds DEF Ways
    <2>3. CASE q # r
      <3>1. req'[q] = req[q]
        BY <1>1, <2>3 DEF Others
      <3>2. Founding(q)' /\ req'[q].user = u
        BY <2>1, <3>1 DEF Founding, Local
      <3> QED
        BY <3>2
    <2> QED
      BY <2>2, <2>3
  <1>4. CASE u \notin Ids
    <2>1. Creates(r) /\ u = Len(users) + 1
      BY <1>4, StepKeepsRows DEF Creates
    <2>2. Local(req[r].of)
      BY <2>1 DEF Creates, NewUser
    <2>3. Founding(r)' /\ req'[r].user = u
      BY <2>1, <2>2 DEF Creates, Founding, Local
    <2> QED
      BY <2>3
  <1> QED
    BY <1>2, <1>3, <1>4

(* Where accounts keep their addresses, whoever signs in by an account has   *)
(* its address.                                                              *)
LEMMA StepKeepsAddressed ==
  ASSUME TypeOK, Acting, Addressed, NEW r \in Requests, world' = world,
         Enter(r) \/ Look(r) \/ Write(r)
  PROVE  Addressed'
  <1> DEFINE Has(u, p) == p.email = NoEmail \/ users'[u].email = p.email
  <1> SUFFICES ASSUME ByAddress
               PROVE  /\ \A q \in Requests :
                           /\ req'[q].pc \notin {"has", "same", "attach"}
                           /\ req'[q].pc \notin {"idle", "delete"} =>
                                /\ ~Local(req'[q].of)
                                /\ req'[q].user # Nobody => Has(req'[q].user, req'[q].of)
                      /\ \A p \in Profiles : \A i \in identities' :
                           i.provider = p.provider /\ i.subject = p.subject => Has(i.user, p)
                      /\ \A a \in answers' : a.user # Nobody => Has(a.user, a.of)
    BY DEF Addressed, ByAddress, AddressesStay, Without, May, Profiles, Of, Local
  <1>1. Turn(r) /\ Others(r) /\ SameRows
    BY StepTurns, StepKeepsRows
  <1>2. /\ \A q \in Requests : req[q].of \in Profiles /\ req[q].user \in Ids \cup {Nobody}
        /\ \A i \in identities : i.user \in Ids
        /\ \A a \in answers : a.user \in Ids \cup {Nobody}
    BY DEF TypeOK
  <1>3. ASSUME NEW u \in Ids, NEW p, p.email \in {NoEmail, users[u].email}
        PROVE  Has(u, p)
    BY <1>1, <1>3 DEF SameRows
  <1>4. ASSUME NEW q \in Requests, q # r
        PROVE  /\ req'[q].pc \notin {"has", "same", "attach"}
               /\ req'[q].pc \notin {"idle", "delete"} =>
                    /\ ~Local(req'[q].of)
                    /\ req'[q].user # Nobody => Has(req'[q].user, req'[q].of)
    BY <1>1, <1>2, <1>3, <1>4 DEF Others, Addressed
  <1>5. /\ req'[r].pc \notin {"has", "same", "attach"}
        /\ req'[r].pc \notin {"idle", "delete"} => ~Local(req'[r].of)
    BY <1>1 DEF Turn, Continues, Creates, Addressed, ByAddress, Without
  <1>6. ASSUME req'[r].pc \notin {"idle", "delete"}, req'[r].user # Nobody
        PROVE  Has(req'[r].user, req'[r].of)
    <2>1. CASE Creates(r)
      BY <1>5, <1>6, <2>1 DEF Creates, NewUser
    <2>2. CASE ~Creates(r)
      <3>1. /\ req'[r].of = req[r].of /\ req[r].pc \notin {"idle", "delete"}
            /\ \/ req'[r].user = req[r].user
               \/ \E i \in Of(req[r].of) : req'[r].user = i.user
               \/ req'[r].user \in WithEmail(req[r].of.email)
        BY <1>1, <1>5, <1>6, <2>2 DEF Turn, Continues
      <3>2. CASE req'[r].user = req[r].user
        BY <1>2, <1>3, <1>6, <3>1, <3>2 DEF Addressed
      <3>3. CASE \E i \in Of(req[r].of) : req'[r].user = i.user
        BY <1>2, <1>3, <3>1, <3>3 DEF Addressed, Of
      <3>4. CASE req'[r].user \in WithEmail(req[r].of.email)
        BY <1>3, <3>1, <3>4 DEF WithEmail
      <3> QED
        BY <3>1, <3>2, <3>3, <3>4
    <2> QED
      BY <2>1, <2>2
  <1>7. ASSUME NEW p \in Profiles, NEW i \in identities',
               i.provider = p.provider, i.subject = p.subject
        PROVE  Has(i.user, p)
    <2>1. CASE i \in identities
      BY <1>2, <1>3, <1>7, <2>1 DEF Addressed, Of
    <2>2. CASE i \notin identities
      <3>1. /\ req[r].pc \in {"autolink", "identity", "attach"}
            /\ i.user = req[r].user /\ req[r].user \in Ids
            /\ i.provider = req[r].of.provider /\ i.subject = req[r].of.subject
        BY <2>2, StepAddsIdentity
      <3>2. p.email = req[r].of.email
        BY <1>2, <1>7, <3>1 DEF ByAddress, AddressesStay
      <3>3. req[r].user # Nobody
        BY <3>1 DEF Ids, Nobody
      <3> QED
        BY <1>3, <3>1, <3>2, <3>3 DEF Addressed
    <2> QED
      BY <2>1, <2>2
  <1>8. ASSUME NEW a \in answers', a.user # Nobody
        PROVE  Has(a.user, a.of)
    <2>1. CASE a \in answers
      BY <1>2, <1>3, <1>8, <2>1 DEF Addressed
    <2>2. CASE a \notin answers
      <3>1. /\ a.of = req[r].of /\ a.user = req[r].user
            /\ req[r].pc \in {"owner", "refresh", "autolink", "identity"}
        BY <1>8, <2>2, StepAnswers
      <3> QED
        BY <1>2, <1>3, <1>8, <3>1 DEF Addressed
    <2> QED
      BY <2>1, <2>2
  <1> QED
    BY <1>4, <1>5, <1>6, <1>7, <1>8

-----------------------------------------------------------------------------
(* The whole invariant. *)

(* The invariant holds at first.                                             *)
LEMMA InitAccounts == Init => AccountsInv
  <1> SUFFICES ASSUME Init PROVE AccountsInv
    OBVIOUS
  <1>1. Profiles # {}
    BY WorldAssumption DEF Init, Profiles
  <1>2. Idle \in RequestRows /\ Idle.pc = "idle"
    BY <1>1 DEF Idle, RequestRows, Steps
  <1>3. users \in Seq(UserRows) /\ Len(users) = 0
    BY DEF Init
  <1>4. TypeOK
    BY <1>2, <1>3, WorldAssumption DEF Init, TypeOK, MaxUsers, RequestRows, UserRows
  <1>5. \A r \in Requests : req[r].pc = "idle"
    BY <1>2 DEF Init
  <1>6. Ids = {}
    BY <1>3 DEF Ids
  <1> QED
    BY <1>4, <1>5, <1>6 DEF Init, AccountsInv, Acting, Single, Known, Equipped, Spare,
         Distinct, Founding, Founded, Named, Addressed, Of

(* Every step keeps it.                                                      *)
LEMMA NextKeepsAccounts == AccountsInv /\ [Next]_vars => AccountsInv'
  <1> SUFFICES ASSUME AccountsInv, [Next]_vars PROVE AccountsInv'
    OBVIOUS
  <1> USE DEF AccountsInv
  <1>1. CASE UNCHANGED vars
    <2>1. TypeOK' /\ Acting' /\ Single' /\ Known' /\ Equipped' /\ Spare'
      BY <1>1 DEF vars, tables, TypeOK, Acting, Single, Known, Equipped, Spare, Deleting, Leads,
           Of, Ways, Ids, Profiles, MaxUsers, Providers, Subjects, Emails, Without, May
    <2>2. Distinct' /\ Founded' /\ Named' /\ Addressed'
      BY <1>1 DEF vars, tables, Distinct, Founding, Founded, Named, Addressed, ByAddress,
           AddressesStay, Local, Of, Ways, Ids, Profiles, Without, May
    <2> QED
      BY <2>1, <2>2
  <1>2. ASSUME NEW r \in Requests, world' = world, Enter(r) \/ Look(r) \/ Write(r)
        PROVE  AccountsInv'
    <2>1. TypeOK' /\ Acting' /\ Single' /\ Known' /\ Equipped' /\ Spare'
      BY <1>2, StepKeepsActing, StepKeepsSingle, StepKeepsKnown, StepKeepsEquipped,
         StepKeepsSpare
    <2>2. Distinct' /\ Founded' /\ Named' /\ Addressed'
      BY <1>2, StepKeepsDistinct, StepKeepsFounded, StepKeepsNamed, StepKeepsAddressed
    <2> QED
      BY <2>1, <2>2
  <1>3. ASSUME NEW u \in Ids, world' = world, Ban(u), UNCHANGED crossed
        PROVE  AccountsInv'
    <2>1. /\ users' = [users EXCEPT ![u].active = FALSE]
          /\ UNCHANGED <<world, profiles, identities, req, answers, crossed>>
      BY <1>3 DEF Ban
    <2>2. TypeOK' /\ SameRows /\ Ids' = Ids
      BY <2>1, ActivityIsTyped, FlagKeepsRows
    <2>3. Acting' /\ Single' /\ Known' /\ Equipped' /\ Spare'
      BY <2>1, <2>2 DEF Acting, Single, Known, Equipped, Spare, Deleting, Leads, Of, Ways,
         Without, May
    <2>4. /\ \A r \in Requests : req[r].user \in Ids \cup {Nobody}
          /\ \A r \in Requests : Founding(r) => req[r].user # Nobody
          /\ \A i \in identities : i.user \in Ids
          /\ \A a \in answers : a.user \in Ids \cup {Nobody}
      BY DEF TypeOK, Founding, Acting
    <2>5. Distinct' /\ Founded' /\ Named'
      BY <2>1, <2>2, <2>4 DEF SameRows, Distinct, Founding, Founded, Named, Local, Ways, Without,
         May
    <2>6. Addressed'
      BY <2>1, <2>2, <2>4 DEF SameRows, Addressed, ByAddress, AddressesStay, Local, Of, Profiles,
         Without, May
    <2> QED
      BY <2>2, <2>3, <2>5, <2>6
  <1> QED
    BY <1>1, <1>2, <1>3, NextIsSteps

-----------------------------------------------------------------------------
(* Theorems. *)

(* Rows, requests in flight and answers fit together, in every world.        *)
THEOREM AccountsAreKept == Spec => []AccountsInv
  BY InitAccounts, NextKeepsAccounts, PTL DEF Spec

(* Rows are of the tables' types, and refer to users that exist.             *)
THEOREM TypeCorrect == Spec => []TypeOK
  <1>1. AccountsInv => TypeOK
    BY DEF AccountsInv
  <1> QED
    BY <1>1, AccountsAreKept, PTL

(* However first sign-ins race, one account leads to one user.               *)
THEOREM AccountHasOneUser == Spec => []SameAccountSameUser
  <1>1. AccountsInv => SameAccountSameUser
    BY DEF AccountsInv, Known, Single, Leads, Of, SameAccountSameUser
  <1> QED
    BY <1>1, AccountsAreKept, PTL

(* Whoever has a way to sign in has a profile, once nothing is in progress.  *)
THEOREM ProfileIsThere == Spec => []IdentityHasProfile
  <1>1. AccountsInv => IdentityHasProfile
    BY DEF AccountsInv, Equipped, Settled, IdentityHasProfile, TypeOK
  <1> QED
    BY <1>1, AccountsAreKept, PTL

(* A name that register refuses belongs to someone who can sign in, or whose *)
(* requests to unlink crossed.                                               *)
THEOREM NamesAreUsable == Spec => []NameIsUsable
  <1>1. AccountsInv => NameIsUsable
    BY DEF AccountsInv, Named, Founding, Settled, NameIsUsable
  <1> QED
    BY <1>1, AccountsAreKept, PTL

(* However they race, sign-ins with one address lead to one user.            *)
THEOREM AddressHasOneUser == Spec => []OneUserPerEmail
  <1>1. AccountsInv => OneUserPerEmail
    BY DEF AccountsInv, TypeOK, Distinct, Addressed, OneUserPerEmail
  <1> QED
    BY <1>1, AccountsAreKept, PTL

(* "tài khoản phải còn ít nhất 1 cách đăng nhập" (auth.service.ts:212),      *)
(* in every world: only requests that counted before either deleted break it. *)
THEOREM OnlyCrossedLockOut == Spec => OnlyCrossedUnlinksLockOut
  <1>1. AccountsInv /\ [Next]_vars
          => [\A u \in Ids \ crossed : Ways(u) # {} => Ways(u)' # {}]_vars
    <2>1. \A u \in Ids : Ban(u) => identities' = identities
      BY DEF Ban
    <2> QED
      BY <2>1, NextIsSteps, StepKeepsAWay DEF AccountsInv, Ways
  <1> QED
    BY <1>1, AccountsAreKept, PTL DEF Spec, OnlyCrossedUnlinksLockOut
=============================================================================
