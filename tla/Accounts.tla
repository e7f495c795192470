------------------------------ MODULE Accounts ------------------------------
(***************************************************************************)
(* AuthService on the tables users, user_profiles and auth_identities:     *)
(* register, findOrCreateOAuthUser, linkProviderToUser and unlinkProvider, *)
(* one action per statement sent to Postgres, since none of them runs in a *)
(* transaction.  listProviders only reads; login is in module Access.      *)
(* A profile is what a sign-in presents: a provider, the id there, and an  *)
(* e-mail address (for "local" the person's address: register is not told). *)
(* A behaviour lives in one of the Worlds: the profiles people sign in     *)
(* with, a bound on the users, and the circumstances that may come to pass: *)
(*   "register", "link", "unlink"  requests of that kind                   *)
(*   "ban"      the operator clears users.active by hand                   *)
(*   "pgdown"   Postgres fails a statement                                 *)
(* A definition X_Y is a variant of X with a plausible mistake Y, there to *)
(* see that a property notices; the specification does not use it.         *)
(***************************************************************************)
EXTENDS Integers, Sequences, FiniteSets

CONSTANTS Requests, Worlds, NoEmail,
          MaxRows       \* bound: ids of rows of auth_identities in use at a time

Circumstances == {"register", "link", "unlink", "ban", "pgdown"}
ASSUME WorldAssumption ==
  \A w \in Worlds :
    /\ w.allowed \subseteq Circumstances /\ w.profiles # {} /\ w.maxUsers \in Nat
    /\ \A p \in w.profiles : {"provider", "subject", "email"} \subseteq DOMAIN p
ASSUME BoundAssumption == MaxRows \in Nat

VARIABLES world,      \* the one of Worlds this behaviour lives in; it never changes
          users,      \* the rows of users, in the order of their ids
          profiles,   \* ids with a row in user_profiles
          identities, \* the rows of auth_identities
          req,        \* requests in flight
          answers,    \* sign-ins answered: the user, or Nobody after an error
          crossed     \* users who unlinked two identities at the same time

tables == <<users, profiles, identities>>
vars == <<world, tables, req, answers, crossed>>

Profiles == world.profiles
MaxUsers == world.maxUsers  \* bound: rows of users
May(c) == c \in world.allowed
Without(c) == ~May(c)

Nobody == 0
Ids == 1..Len(users)
Providers == {p.provider : p \in Profiles}
Subjects == {p.subject : p \in Profiles}
Emails == {p.email : p \in Profiles} \cup {NoEmail}
Steps == {"idle", "find", "owner", "refresh", "email", "linked", "autolink", "create",
          "profile", "identity", "has", "same", "attach", "delete"}
RowIds == 1..MaxRows

TypeOK == /\ world \in Worlds
          /\ users \in Seq([username : Subjects \cup {NoEmail}, email : Emails,
                            active : BOOLEAN])
          /\ Len(users) <= MaxUsers
          /\ profiles \subseteq Ids
          /\ identities \subseteq [id : RowIds, user : Ids, provider : Providers,
                                   subject : Subjects]
          /\ req \in [Requests -> [pc : Steps, of : Profiles,
                                   user : Ids \cup {Nobody},
                                   row : RowIds \cup {Nobody}]]
          /\ answers \subseteq [of : Profiles, user : Ids \cup {Nobody}]
          /\ crossed \subseteq Ids

Idle == [pc |-> "idle", of |-> CHOOSE p \in Profiles : TRUE, user |-> Nobody, row |-> Nobody]

-----------------------------------------------------------------------------
Of(p) == {i \in identities : i.provider = p.provider /\ i.subject = p.subject}
Ways(u) == {i \in identities : i.user = u}
WithEmail(e) == {u \in Ids : users[u].email = e}
Local(p) == p.provider = "local"

Go(r, step) == req' = [req EXCEPT ![r].pc = step]
GoFor(r, step, u) == req' = [req EXCEPT ![r].pc = step, ![r].user = u]
Leave(r) == req' = [req EXCEPT ![r] = Idle]
(* A sign-in ends with a token for u, or with an exception. *)
SignedIn(r, u) == /\ answers' = answers \cup {[of |-> req[r].of, user |-> u]}
                  /\ Leave(r)
Refused(r) == SignedIn(r, Nobody)
Done(r) == Leave(r) /\ UNCHANGED answers

(* The indexes uq_auth_provider_user and uq_auth_user_provider. *)
Unique(u, p) == Of(p) = {} /\ ~\E i \in Ways(u) : i.provider = p.provider
(* Ids of the sequence that no row has and no request remembers.             *)
FreshRows == {n \in RowIds : /\ \A i \in identities : i.id # n
                             /\ \A r \in Requests : req[r].row # n}
NewRow(u, p) == [id |-> CHOOSE n \in FreshRows : TRUE, user |-> u,
                 provider |-> p.provider, subject |-> p.subject]
Insert_NoIndex(u, p) == FreshRows # {} /\ identities' = identities \cup {NewRow(u, p)}
Insert(u, p) == /\ Unique(u, p)
                /\ FreshRows # {} /\ identities' = identities \cup {NewRow(u, p)}

-----------------------------------------------------------------------------
(* register and findOrCreateOAuthUser. *)

SignIn(r, p) == /\ req[r].pc = "idle"
                /\ Local(p) => May("register")
                /\ req' = [req EXCEPT ![r] = [Idle EXCEPT !.pc = "find", !.of = p]]
                /\ UNCHANGED <<tables, answers>>

(* A name that has an identity is refused; an account that has one leads to  *)
(* its user.  Otherwise the search goes on by e-mail, if there is one.       *)
ByEmail(p) == IF Local(p) \/ p.email = NoEmail THEN "create" ELSE "email"
FindIdentity(r) ==
  LET p == req[r].of
  IN /\ req[r].pc = "find"
     /\ \/ Of(p) = {} /\ Go(r, ByEmail(p)) /\ UNCHANGED answers
        \/ Local(p) /\ Of(p) # {} /\ Refused(r)
        \/ ~Local(p) /\ (\E i \in Of(p) : GoFor(r, "owner", i.user)) /\ UNCHANGED answers
     /\ UNCHANGED tables

(* The sign-in is for user u, and saves its row first when the provider has  *)
(* an avatar or a display name for it.                                       *)
MayRefresh(r, u) == SignedIn(r, u) \/ (Go(r, "refresh") /\ UNCHANGED answers)
FindOwner(r) == /\ req[r].pc = "owner"
                /\ IF users[req[r].user].active
                     THEN MayRefresh(r, req[r].user)
                     ELSE GoFor(r, ByEmail(req[r].of), Nobody) /\ UNCHANGED answers
                /\ UNCHANGED tables
(* users.save writes each column in which the row differs from what was read *)
(* before, when the user was active.  The SELECT by which it finds them and  *)
(* the UPDATE are one step: what changes in between is not written over.     *)
Refresh(r) == /\ req[r].pc = "refresh"
              /\ users' = [users EXCEPT ![req[r].user].active = TRUE]
              /\ SignedIn(r, req[r].user)
              /\ UNCHANGED <<profiles, identities>>

FindEmail(r) ==
  LET active == {u \in WithEmail(req[r].of.email) : users[u].active}
  IN /\ req[r].pc = "email"
     /\ \/ active = {} /\ Go(r, "create")
        \/ \E u \in active : GoFor(r, "linked", u)
     /\ UNCHANGED <<tables, answers>>

FindLinked(r) == /\ req[r].pc = "linked"
                 /\ IF \E i \in Ways(req[r].user) : i.provider = req[r].of.provider
                      THEN GoFor(r, "create", Nobody) ELSE Go(r, "autolink")
                 /\ UNCHANGED <<tables, answers>>
AutoLink(r) == /\ req[r].pc = "autolink"
               /\ \/ Insert(req[r].user, req[r].of) /\ MayRefresh(r, req[r].user)
                  \/ ~Unique(req[r].user, req[r].of) /\ Refused(r) /\ UNCHANGED identities
               /\ UNCHANGED <<users, profiles>>

(* users.save: username and email are unique; register stores no email. *)
NewUser(p) == [username |-> IF Local(p) THEN p.subject ELSE NoEmail,
               email |-> IF Local(p) THEN NoEmail ELSE p.email,
               active |-> TRUE]
Taken_EmailOnly(row) == \E u \in Ids : row.email # NoEmail /\ users[u].email = row.email
Taken_NameOnly(row) ==
  \E u \in Ids : row.username # NoEmail /\ users[u].username = row.username
Taken(row) ==
  \E u \in Ids : \/ row.username # NoEmail /\ users[u].username = row.username
                 \/ row.email # NoEmail /\ users[u].email = row.email
CreateUser(r) ==
  LET row == NewUser(req[r].of)
  IN /\ req[r].pc = "create"
     /\ \/ Taken(row) /\ Refused(r) /\ UNCHANGED users
        \/ /\ ~Taken(row) /\ Len(users) < MaxUsers
           /\ users' = Append(users, row)
           /\ GoFor(r, "profile", Len(users) + 1) /\ UNCHANGED answers
     /\ UNCHANGED <<profiles, identities>>

CreateProfile_Skip(r) ==
  /\ req[r].pc = "profile" /\ Go(r, "identity") /\ UNCHANGED <<tables, answers>>
CreateProfile(r) == /\ req[r].pc = "profile"
                    /\ profiles' = profiles \cup {req[r].user}
                    /\ Go(r, "identity")
                    /\ UNCHANGED <<users, identities, answers>>

CreateIdentity(r) ==
  /\ req[r].pc = "identity"
  /\ \/ Insert(req[r].user, req[r].of) /\ SignedIn(r, req[r].user)
     \/ ~Unique(req[r].user, req[r].of) /\ Refused(r) /\ UNCHANGED identities
  /\ UNCHANGED <<users, profiles>>

-----------------------------------------------------------------------------
(* linkProviderToUser: u was signed in when it asked for the device code. *)
Link_Anonymous(r, u, p) ==
  /\ May("link") /\ req[r].pc = "idle" /\ ~Local(p)
  /\ req' = [req EXCEPT ![r] = [Idle EXCEPT !.pc = "has", !.of = p]]
  /\ UNCHANGED <<tables, answers>>
Link(r, u, p) == /\ May("link")
                 /\ req[r].pc = "idle"
                 /\ ~Local(p) /\ \E a \in answers : a.user = u
                 /\ req' = [req EXCEPT ![r] = [Idle EXCEPT !.pc = "has", !.of = p, !.user = u]]
                 /\ UNCHANGED <<tables, answers>>
FindTaken(r) == /\ req[r].pc = "has"
                /\ IF Of(req[r].of) = {} THEN Go(r, "same") ELSE Leave(r)
                /\ UNCHANGED <<tables, answers>>
FindSame(r) == /\ req[r].pc = "same"
               /\ IF \E i \in Ways(req[r].user) : i.provider = req[r].of.provider
                    THEN Leave(r) ELSE Go(r, "attach")
               /\ UNCHANGED <<tables, answers>>
Attach(r) == /\ req[r].pc = "attach"
             /\ \/ Insert(req[r].user, req[r].of)
                \/ ~Unique(req[r].user, req[r].of) /\ UNCHANGED identities
             /\ Done(r)
             /\ UNCHANGED <<users, profiles>>

-----------------------------------------------------------------------------
(* unlinkProvider: read the user's identities, then delete one row.  Of      *)
(* requests that overlap it is remembered when they are about two rows.      *)
Deleting(r, i) == req[r].pc = "delete" /\ req[r].row = i.id
Cross(u, row) ==
  crossed' = IF \E i \in Ways(u) : i.id # row /\ \E q \in Requests : Deleting(q, i)
               THEN crossed \cup {u} ELSE crossed
Unlink_OffByOne(r, u, provider) ==
  \E i \in Ways(u) :
    /\ May("unlink") /\ req[r].pc = "idle" /\ i.provider = provider
    /\ req' = [req EXCEPT ![r] = [Idle EXCEPT !.pc = "delete", !.user = u, !.row = i.id]]
    /\ Cross(u, i.id)
    /\ UNCHANGED <<tables, answers>>
Unlink(r, u, provider) ==
  \E i \in Ways(u) :
    /\ May("unlink") /\ req[r].pc = "idle" /\ i.provider = provider
    /\ \E a \in answers : a.user = u
    /\ Cardinality(Ways(u)) > 1
    /\ req' = [req EXCEPT ![r] = [Idle EXCEPT !.pc = "delete", !.user = u, !.row = i.id]]
    /\ Cross(u, i.id)
    /\ UNCHANGED <<tables, answers>>
DeleteRow(r) == /\ req[r].pc = "delete"
                /\ identities' = {i \in identities : i.id # req[r].row}
                /\ Done(r)
                /\ UNCHANGED <<users, profiles>>

-----------------------------------------------------------------------------
(* By hand: UPDATE users SET active = false. *)
Ban(u) == /\ May("ban")
          /\ users[u].active
          /\ users' = [users EXCEPT ![u].active = FALSE]
          /\ UNCHANGED <<profiles, identities, req, answers>>

(* Postgres fails the next statement of request r: what was saved remains. *)
PgFails(r) == /\ May("pgdown")
              /\ req[r].pc # "idle"
              /\ IF req[r].pc \in {"has", "same", "attach", "delete"}
                   THEN Done(r) ELSE Refused(r)
              /\ UNCHANGED tables

Init == /\ world \in Worlds
        /\ users = <<>> /\ profiles = {} /\ identities = {}
        /\ req = [r \in Requests |-> Idle]
        /\ answers = {} /\ crossed = {}

Step(r) == \/ FindIdentity(r) \/ FindOwner(r) \/ Refresh(r)
           \/ FindEmail(r) \/ FindLinked(r) \/ AutoLink(r)
           \/ CreateUser(r) \/ CreateProfile(r) \/ CreateIdentity(r)
           \/ FindTaken(r) \/ FindSame(r) \/ Attach(r) \/ DeleteRow(r)

Next == /\ \/ \E r \in Requests, u \in Ids, q \in Providers : Unlink(r, u, q)
           \/ /\ \/ \E r \in Requests, p \in Profiles : SignIn(r, p)
                 \/ \E r \in Requests, u \in Ids, p \in Profiles : Link(r, u, p)
                 \/ \E r \in Requests : Step(r) \/ PgFails(r)
                 \/ \E u \in Ids : Ban(u)
              /\ UNCHANGED crossed
        /\ UNCHANGED world

Spec == Init /\ [][Next]_vars

-----------------------------------------------------------------------------
(* What is wanted of the accounts. *)

(* "xong! connect WS như bình thường" (README.md:184): whoever can sign in   *)
(* can load a session.  A user with an identity has a profile, without which *)
(* getProfile throws (users.service.ts:20), once nothing is in progress and  *)
(* unless a statement failed.                                                *)
Settled == \A r \in Requests : req[r].pc = "idle"
IdentityHasProfile ==
  Settled /\ Without("pgdown") => \A i \in identities : i.user \in profiles

(* The same without exceptions.  A first sign-in that fails after users.save *)
(* leaves a user without a profile; the next one finds that user by e-mail   *)
(* and links it (auth.service.ts:117-146), and nothing makes the profile.    *)
WhoeverSignsInHasProfile == Settled => \A i \in identities : i.user \in profiles

(* "Username đã tồn tại" (auth.service.ts:38) is told only of a name whose   *)
(* account can be used: once nothing is in progress, and unless a statement  *)
(* failed, a row that holds a name has an identity to sign in with; the      *)
(* exception is a user who unlinked two identities at the same time.         *)
NameIsUsable ==
  Settled /\ Without("pgdown") =>
    \A u \in Ids \ crossed : users[u].username # NoEmail => Ways(u) # {}

(* One provider account always signs in the same user while none is unlinked, *)
(* also when its first sign-ins race.                                        *)
SameAccountSameUser ==
  Without("unlink") =>
    \A a, b \in answers :
      /\ a.of.provider = b.of.provider /\ a.of.subject = b.of.subject
      /\ a.user # Nobody /\ b.user # Nobody
      => a.user = b.user

(* "tự động liên kết Google vào cùng user" (README.md:189): sign-ins with    *)
(* one e-mail address lead to one user, whatever the providers, as long as   *)
(* nobody registers by name (register stores no address) or links by hand,   *)
(* and an account keeps its address: a sign-in by an identity that exists    *)
(* does not compare addresses (auth.service.ts:97).                         *)
AddressesStay ==
  \A p, q \in Profiles : p.provider = q.provider /\ p.subject = q.subject => p.email = q.email
ByAddress == Without("register") /\ Without("link") /\ AddressesStay
OneUserPerEmail ==
  ByAddress =>
    \A a, b \in answers :
      /\ a.of.email = b.of.email /\ a.of.email # NoEmail
      /\ a.user # Nobody /\ b.user # Nobody
      => a.user = b.user

(* "tài khoản phải còn ít nhất 1 cách đăng nhập" (auth.service.ts:212): no   *)
(* step takes a user's last identity away.                                   *)
LastWayIsKept == [][\A u \in Ids : Ways(u) # {} => Ways(u)' # {}]_vars

(* Two requests that count the identities before either deletes its own are  *)
(* the only way to break that promise: no other interleaving of unlinks with *)
(* each other (of one identity, say by a double click, included), with links *)
(* and with sign-ins leaves a user without an identity.                      *)
OnlyCrossedUnlinksLockOut ==
  [][\A u \in Ids \ crossed : Ways(u) # {} => Ways(u)' # {}]_vars

(* Why these hold, in inductive form.  A request that acts for a user has    *)
(* one; an account has one identity, and a row its own id.                   *)
Acting == \A r \in Requests :
            req[r].user = Nobody => req[r].pc \in {"idle", "find", "email", "create"}
Single == \A i, j \in identities :
            \/ i.id = j.id
            \/ i.provider = j.provider /\ i.subject = j.subject
            => i = j

(* While no identity is taken away, each sign-in with a user, answered or    *)
(* about to be, is by an identity of that user.                              *)
Leads(p, u) == \E i \in Of(p) : i.user = u
Known ==
  Without("unlink") =>
    /\ \A a \in answers : a.user # Nobody => Leads(a.of, a.user)
    /\ \A r \in Requests : req[r].pc \in {"owner", "refresh"} => Leads(req[r].of, req[r].user)
    /\ \A r \in Requests : req[r].pc # "delete"

(* While no statement fails, a user has a profile or is about to have it.    *)
Equipped ==
  Without("pgdown") =>
    \A u \in Ids : u \in profiles \/ \E r \in Requests : req[r].pc = "profile" /\ req[r].user = u

(* A row about to be deleted is of the user who asked.  Unless the user's    *)
(* requests crossed, they are about one row, and another one stays.          *)
Spare ==
  \A r \in Requests : \A i \in identities : Deleting(r, i) =>
    /\ i.user = req[r].user
    /\ i.user \notin crossed =>
         /\ \E j \in Ways(i.user) : j # i
         /\ \A q \in Requests : \A j \in Ways(i.user) : Deleting(q, j) => i = j

(* Only register acts for a local account, and only an account with an       *)
(* address is searched for by it.  Names and addresses are unique, and a     *)
(* local identity is of the user with that name.                             *)
Distinct ==
  /\ \A r \in Requests :
       /\ req[r].pc \notin {"idle", "find", "create", "profile", "identity", "delete"}
            => ~Local(req[r].of)
       /\ req[r].pc \in {"email", "linked", "autolink"} => req[r].of.email # NoEmail
  /\ \A u, v \in Ids :
       \/ users[u].username = users[v].username /\ users[u].username # NoEmail
       \/ users[u].email = users[v].email /\ users[u].email # NoEmail
       => u = v
  /\ \A i \in identities : Local(i) => users[i.user].username = i.subject

(* Until register has stored the identity, nobody else knows the new user.   *)
Founding(r) == req[r].pc \in {"profile", "identity"} /\ Local(req[r].of)
Founded ==
  \A r \in Requests : Founding(r) =>
    /\ users[req[r].user].username = req[r].of.subject
    /\ users[req[r].user].email = NoEmail
    /\ Ways(req[r].user) = {}
    /\ \A a \in answers : a.user # req[r].user
    /\ \A q \in Requests : req[q].user = req[r].user => q = r

(* While no statement fails, whoever has a name can sign in or is about to,  *)
(* unless unlink requests crossed.                                           *)
Named ==
  Without("pgdown") =>
    \A u \in Ids \ crossed : users[u].username # NoEmail =>
      Ways(u) # {} \/ \E r \in Requests : Founding(r) /\ req[r].user = u

(* Where accounts keep their addresses, a user that an account leads to, is  *)
(* answered for or is acted for has the address of that account.             *)
Addressed ==
  ByAddress =>
    /\ \A r \in Requests :
         /\ req[r].pc \notin {"has", "same", "attach"}
         /\ req[r].pc \notin {"idle", "delete"} =>
              /\ ~Local(req[r].of)
              /\ req[r].user # Nobody => req[r].of.email \in {NoEmail, users[req[r].user].email}
    /\ \A p \in Profiles : \A i \in Of(p) : p.email \in {NoEmail, users[i.user].email}
    /\ \A a \in answers : a.user # Nobody => a.of.email \in {NoEmail, users[a.user].email}

AccountsInv == /\ TypeOK /\ Acting /\ Single /\ Known /\ Equipped /\ Spare
               /\ Distinct /\ Founded /\ Named /\ Addressed

(* "Find an existing user for this OAuth profile, or create one"             *)
(* (auth.service.ts:87): a sign-in ends with a user.                         *)
SignInFindsUser == \A a \in answers : a.user # Nobody
=============================================================================
