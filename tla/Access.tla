------------------------------- MODULE Access -------------------------------
(***************************************************************************)
(* The row of one user in table users, and who may do what because of it:  *)
(* login and OAuth sign-ins that read it and may save it again, the script *)
(* grant-admin, the UPDATE statements the operator sends by hand, and the  *)
(* requests to admin endpoints, behind JwtAuthGuard and AdminGuard.  The   *)
(* user has a name and an identity at a provider.  An action is one        *)
(* statement sent to Postgres.  Columns that no guard reads (avatar,       *)
(* display name) are left out: they are why a sign-in saves the row.       *)
(* A definition X_Y is a variant of X with a plausible mistake Y, there to *)
(* see that a property notices; the specification does not use it.         *)
(***************************************************************************)
EXTENDS Integers, FiniteSets

CONSTANTS Requests,   \* HTTP requests, and runs of the script, under way
          Operator,   \* who writes by hand
          TokenLife   \* life of a token, in ticks

ASSUME TokenAssumption == TokenLife \in Nat \ {0}
ASSUME RequestAssumption == Operator \notin Requests

Columns == {"active", "admin"}
Rows == [Columns -> BOOLEAN]
NewRow == [c \in Columns |-> c = "active"]

VARIABLES
  row,      \* the two columns of the row
  ordered,  \* what the operator last said they are to be
  token,    \* remaining life of the youngest token, 0 when none is valid
  pc,       \* the next statement of each request
  entity,   \* the row a request read, as it wants it
  changed,  \* the columns its UPDATE will write
  entitled, \* admin requests during which the operator's word allowed them
  stale     \* columns changed while a request held a copy to save, and not
            \* written by the operator since

vars == <<row, ordered, token, pc, entity, changed, entitled, stale>>

ScriptSteps == {"script_reload", "script_update"}
SignInSteps == {"reload", "update"}
Holding == ScriptSteps \cup SignInSteps
Steps == {"idle", "login", "owner", "grant", "revoke", "guard", "act"} \cup Holding

TypeOK == /\ row \in Rows /\ ordered \in Rows
          /\ token \in 0..TokenLife
          /\ pc \in [Requests -> Steps]
          /\ entity \in [Requests -> Rows]
          /\ changed \in [Requests -> SUBSET Columns]
          /\ entitled \subseteq {r \in Requests : pc[r] = "guard"}
          /\ stale \subseteq Columns

-----------------------------------------------------------------------------
Goto(r, step) == pc' = [pc EXCEPT ![r] = step]
Leave(r) == /\ Goto(r, "idle")
            /\ entity' = [entity EXCEPT ![r] = NewRow]
            /\ changed' = [changed EXCEPT ![r] = {}]
Issue == token' = TokenLife

IsAdmin(columns) == columns["active"] /\ columns["admin"]

(* The row gets new values, by request r or by hand; those of `said` are the *)
(* operator's.                                                               *)
Holders == {q \in Requests : pc[q] \in Holding}
Write(r, columns, said) ==
  /\ row' = columns
  /\ stale' = (IF Holders \subseteq {r} THEN stale \ said
              ELSE stale \cup {c \in Columns : columns[c] # row[c]})
(* The operator's word: admin requests under way may be judged by it. *)
Order(columns) ==
  /\ ordered' = columns
  /\ entitled' = entitled \cup {q \in Requests : pc[q] = "guard" /\ IsAdmin(columns)}

-----------------------------------------------------------------------------
(* login: the user is read after the password was compared. *)
Login(r) == /\ pc[r] = "idle" /\ Goto(r, "login")
            /\ UNCHANGED <<row, ordered, token, entity, changed, entitled, stale>>
LoginUser_NoActive(r) ==
  /\ pc[r] = "login" /\ Issue /\ Leave(r)
  /\ UNCHANGED <<row, ordered, entitled, stale>>
LoginUser(r) == /\ pc[r] = "login"
                /\ IF row["active"] THEN Issue ELSE UNCHANGED token
                /\ Leave(r)
                /\ UNCHANGED <<row, ordered, entitled, stale>>

-----------------------------------------------------------------------------
(* findOrCreateOAuthUser for an identity that exists.  A user who is not     *)
(* active is not signed in.                                                  *)
SignIn(r) == /\ pc[r] = "idle" /\ Goto(r, "owner")
             /\ UNCHANGED <<row, ordered, token, entity, changed, entitled, stale>>
Hold(r, step, columns) == /\ Goto(r, step)
                          /\ entity' = [entity EXCEPT ![r] = columns]
                          /\ UNCHANGED changed
FindOwner_Reactivates(r) ==
  /\ pc[r] = "owner"
  /\ Hold(r, "reload", [row EXCEPT !["active"] = TRUE])
  /\ UNCHANGED <<row, ordered, token, entitled, stale>>
FindOwner(r) == /\ pc[r] = "owner"
                /\ \/ ~row["active"] /\ Leave(r) /\ UNCHANGED token
                   \/ row["active"] /\ Leave(r) /\ Issue
                   \/ row["active"] /\ Hold(r, "reload", row) /\ UNCHANGED token
                /\ UNCHANGED <<row, ordered, entitled, stale>>

(* repository.save of an entity reads the row again, and writes the columns  *)
(* in which the entity differs from it.                                      *)
Reload(r, step, next) ==
  /\ pc[r] = step
  /\ changed' = [changed EXCEPT ![r] = {c \in Columns : entity[r][c] # row[c]}]
  /\ Goto(r, next)
  /\ UNCHANGED <<row, ordered, token, entity, entitled, stale>>
Saved(r) == [c \in Columns |-> IF c \in changed[r] THEN entity[r][c] ELSE row[c]]
SaveReload(r) == Reload(r, "reload", "update")
SaveUpdate(r) == /\ pc[r] = "update"
                 /\ Write(r, Saved(r), {})
                 /\ Issue /\ Leave(r)
                 /\ UNCHANGED <<ordered, entitled>>

-----------------------------------------------------------------------------
(* grant-admin: find the user by name, set isAdmin, save. *)
Script(r, action) == /\ pc[r] = "idle" /\ Goto(r, action)
                     /\ UNCHANGED <<row, ordered, token, entity, changed, entitled, stale>>
ScriptFind(r) == /\ pc[r] \in {"grant", "revoke"}
                 /\ Hold(r, "script_reload", [row EXCEPT !["admin"] = pc[r] = "grant"])
                 /\ UNCHANGED <<row, ordered, token, entitled, stale>>
ScriptReload(r) == Reload(r, "script_reload", "script_update")
ScriptUpdate(r) == /\ pc[r] = "script_update"
                   /\ Write(r, Saved(r), changed[r] \cap {"admin"})
                   /\ Order([ordered EXCEPT !["admin"] = entity[r]["admin"]])
                   /\ Leave(r)
                   /\ UNCHANGED token
(* By hand: UPDATE users SET active = ..., or is_admin = ... *)
ByHand(c) == /\ Write(Operator, [row EXCEPT ![c] = ~@], {c})
             /\ Order([ordered EXCEPT ![c] = ~row[c]])
             /\ UNCHANGED <<token, pc, entity, changed>>

-----------------------------------------------------------------------------
(* A request to an admin endpoint: the token is verified, then AdminGuard    *)
(* reads the row, then the handler runs.                                     *)
AdminCall(r) == /\ pc[r] = "idle" /\ token > 0
                /\ Goto(r, "guard")
                /\ entitled' = (IF IsAdmin(ordered) THEN entitled \cup {r} ELSE entitled)
                /\ UNCHANGED <<row, ordered, token, entity, changed, stale>>
AdminGuard_NoActive(r) ==
  /\ pc[r] = "guard" /\ row["admin"] /\ Goto(r, "act")
  /\ entitled' = entitled \ {r}
  /\ UNCHANGED <<row, ordered, token, entity, changed, stale>>
AdminGuard(r) == /\ pc[r] = "guard"
                 /\ IF IsAdmin(row) THEN Goto(r, "act") /\ UNCHANGED <<entity, changed>>
                                    ELSE Leave(r)
                 /\ entitled' = entitled \ {r}
                 /\ UNCHANGED <<row, ordered, token, stale>>
AdminAct(r) == /\ pc[r] = "act"
               /\ Leave(r)
               /\ UNCHANGED <<row, ordered, token, entitled, stale>>

(* Postgres fails the next statement of a request: it changed nothing. *)
PgFails(r) == /\ pc[r] \notin {"idle", "act"}
              /\ Leave(r) /\ entitled' = entitled \ {r}
              /\ UNCHANGED <<row, ordered, token, stale>>

Tick == /\ token > 0 /\ token' = token - 1
        /\ UNCHANGED <<row, ordered, pc, entity, changed, entitled, stale>>

Init == /\ row = NewRow /\ ordered = NewRow
        /\ token = 0
        /\ pc = [r \in Requests |-> "idle"]
        /\ entity = [r \in Requests |-> NewRow]
        /\ changed = [r \in Requests |-> {}]
        /\ entitled = {} /\ stale = {}

Step(r) == \/ LoginUser(r) \/ FindOwner(r) \/ SaveReload(r) \/ SaveUpdate(r)
           \/ ScriptFind(r) \/ ScriptReload(r) \/ ScriptUpdate(r)
           \/ AdminGuard(r) \/ AdminAct(r)

Next == \/ \E r \in Requests :
             \/ Login(r) \/ SignIn(r) \/ AdminCall(r)
             \/ \E action \in {"grant", "revoke"} : Script(r, action)
             \/ Step(r) \/ PgFails(r)
        \/ \E c \in Columns : ByHand(c)
        \/ Tick

Spec == Init /\ [][Next]_vars

(* Requests that started are served, and time passes. *)
FairSpec == Spec /\ WF_vars(Tick) /\ \A r \in Requests : WF_vars(Step(r))

-----------------------------------------------------------------------------
(* What is wanted of the row. *)

(* What the operator wrote stands (user.entity.ts:39-41), whoever signs in   *)
(* and whatever fails, except where it was written while somebody held a     *)
(* copy of the row to save.                                                  *)
OperatorsWordStands == \A c \in Columns \ stale : row[c] = ordered[c]

(* Its inductive form.  Where the row was not changed under them, copies     *)
(* agree with it, except for what a script is about to change, and an UPDATE *)
(* has that to write; and admin requests have heard the operator's word.     *)
CopiesAreCurrent ==
  /\ \A r \in Holders, c \in Columns \ stale :
       pc[r] \in SignInSteps \/ c = "active" => entity[r][c] = row[c] /\ c \notin changed[r]
  /\ \A r \in Requests :
       pc[r] = "script_update" /\ "admin" \notin stale /\ entity[r]["admin"] # row["admin"]
         => "admin" \in changed[r]
OnlyUpdatesChange == \A r \in Requests : changed[r] # {} => pc[r] \in {"update", "script_update"}
WordIsHeard == \A r \in Requests : pc[r] = "guard" /\ IsAdmin(ordered) => r \in entitled
RowInv == TypeOK /\ OperatorsWordStands /\ CopiesAreCurrent /\ OnlyUpdatesChange /\ WordIsHeard

(* "thu quyền admin có hiệu lực ngay" (admin.guard.ts:11): the guard lets a  *)
(* request through only if, at some time since it was made, the operator's   *)
(* word made the user an active admin, with the same exception.              *)
RevokedIsRefused ==
  [][\A r \in Requests : pc[r] = "guard" /\ pc'[r] = "act" /\ stale = {}
                           => r \in entitled]_vars

(* The same promise without the exception, for a user who is not banned; the *)
(* code does not keep it.  A sign-in that read the row before the revocation *)
(* and saves it afterwards for a new avatar (auth.service.ts:98-110) writes  *)
(* is_admin back, and the guard lets the user through again.                 *)
RevocationIsImmediate ==
  [][\A r \in Requests : pc[r] = "guard" /\ pc'[r] = "act" /\ ordered["active"]
                           => r \in entitled]_vars

(* "Tài khoản đã bị khoá" (auth.service.ts:79): who stays banned is out once *)
(* the last token has expired, because no sign-in makes a new one.           *)
BanEndsAccess == <>[](~row["active"]) => <>[](token = 0)
=============================================================================
