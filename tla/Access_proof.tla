---------------------------- MODULE Access_proof ----------------------------
(* Theorems about Access, for any number of requests and any life of tokens. *)
EXTENDS Access, TLAPS

-----------------------------------------------------------------------------
(* Typing. *)
LEMMA RowTypes ==
  /\ NewRow \in Rows
  /\ \A columns \in Rows, c \in Columns, v \in BOOLEAN : [columns EXCEPT ![c] = v] \in Rows
  /\ TypeOK => \A r \in Requests : Saved(r) \in Rows
  BY DEF NewRow, Rows, Columns, Saved, TypeOK

(* A step of a request, and a failing statement, keep the types.             *)
LEMMA StepTyped ==
  ASSUME TypeOK, NEW r \in Requests, Step(r) \/ PgFails(r)
  PROVE  TypeOK'
<1> USE RowTypes, TokenAssumption
<1> USE DEF TypeOK, Steps, Holding, ScriptSteps, SignInSteps, Goto, Leave, Hold
<1>1. CASE LoginUser(r)     BY <1>1 DEF LoginUser, Issue
<1>2. CASE FindOwner(r)     BY <1>2 DEF FindOwner, Issue
<1>3. CASE SaveReload(r)    BY <1>3 DEF SaveReload, Reload
<1>4. CASE SaveUpdate(r)    BY <1>4 DEF SaveUpdate, Write, Issue
<1>5. CASE ScriptFind(r)
  <2>1. [row EXCEPT !["admin"] = pc[r] = "grant"] \in Rows
    BY DEF Columns
  <2> QED  BY <1>5, <2>1 DEF ScriptFind
<1>6. CASE ScriptReload(r)  BY <1>6 DEF ScriptReload, Reload
<1>7. CASE ScriptUpdate(r)
  <2>1. row' \in Rows /\ stale' \subseteq Columns
    BY <1>7 DEF ScriptUpdate, Write
  <2>2. [ordered EXCEPT !["admin"] = entity[r]["admin"]] \in Rows
    BY DEF Rows, Columns
  <2>3. ordered' \in Rows
    BY <1>7, <2>2 DEF ScriptUpdate, Order
  <2>4. entitled' \subseteq {q \in Requests : pc'[q] = "guard"}
    BY <1>7 DEF ScriptUpdate, Order
  <2> QED  BY <1>7, <2>1, <2>3, <2>4 DEF ScriptUpdate
<1>8. CASE AdminGuard(r)    BY <1>8 DEF AdminGuard
<1>9. CASE AdminAct(r)      BY <1>9 DEF AdminAct
<1>10. CASE PgFails(r)      BY <1>10 DEF PgFails
<1> QED  BY <1>1, <1>2, <1>3, <1>4, <1>5, <1>6, <1>7, <1>8, <1>9, <1>10 DEF Step

(* An UPDATE by hand keeps the types.                                        *)
LEMMA ByHandTyped ==
  ASSUME TypeOK, NEW c \in Columns, ByHand(c)
  PROVE  TypeOK'
<1>1. row[c] \in BOOLEAN
  BY DEF TypeOK, Rows
<1>2. [row EXCEPT ![c] = ~@] \in Rows /\ [ordered EXCEPT ![c] = ~row[c]] \in Rows
  BY DEF TypeOK, Rows
<1>3. row' \in Rows /\ ordered' \in Rows /\ stale' \subseteq Columns
  BY <1>2 DEF ByHand, Write, Order, TypeOK
<1>4. entitled' \subseteq {q \in Requests : pc'[q] = "guard"}
  BY DEF ByHand, Order, TypeOK
<1> QED  BY <1>3, <1>4 DEF ByHand, TypeOK

(* A request or a script that begins keeps the types.                        *)
LEMMA ArrivalTyped ==
  ASSUME TypeOK, NEW r \in Requests,
         \/ Login(r) \/ SignIn(r) \/ AdminCall(r)
         \/ \E action \in {"grant", "revoke"} : Script(r, action)
  PROVE  TypeOK'
  BY DEF TypeOK, Steps, Goto, Login, SignIn, AdminCall, Script

(* Every step keeps the types.                                               *)
LEMMA NextTyped == TypeOK /\ [Next]_vars => TypeOK'
<1> SUFFICES ASSUME TypeOK, [Next]_vars PROVE TypeOK'
  OBVIOUS
<1>1. CASE Tick
  BY <1>1, TokenAssumption DEF TypeOK, Tick
<1>2. CASE UNCHANGED vars
  BY <1>2 DEF TypeOK, vars
<1> QED  BY <1>1, <1>2, StepTyped, ByHandTyped, ArrivalTyped DEF Next

(* The first state is typed.                                                 *)
LEMMA InitTyped == Init => TypeOK
  BY RowTypes, TokenAssumption DEF Init, TypeOK, Steps

(* Every variable keeps its type. *)
THEOREM TypeCorrect == Spec => []TypeOK
<1> QED  BY InitTyped, NextTyped, PTL DEF Spec

-----------------------------------------------------------------------------
(* The operator's word stands. *)

(* Steps that leave the row and the word alone. *)
LEMMA ReadingKeepsInv ==
  ASSUME RowInv, NEW r \in Requests,
         LoginUser(r) \/ FindOwner(r) \/ SaveReload(r) \/ ScriptFind(r) \/ ScriptReload(r)
           \/ AdminGuard(r) \/ AdminAct(r) \/ PgFails(r)
  PROVE  OperatorsWordStands' /\ CopiesAreCurrent' /\ OnlyUpdatesChange' /\ WordIsHeard'
<1> USE DEF RowInv, TypeOK, Rows, Columns, Holders, Holding, SignInSteps, ScriptSteps,
            Goto, Leave, Hold, Reload
<1> USE DEF LoginUser, FindOwner, SaveReload, ScriptFind, ScriptReload, AdminGuard, AdminAct,
            PgFails
<1>1. UNCHANGED <<row, ordered, stale>>
  OBVIOUS
<1>2. OperatorsWordStands'
  BY <1>1 DEF OperatorsWordStands
<1>3. WordIsHeard'
  BY <1>1 DEF WordIsHeard, IsAdmin
<1>4. OnlyUpdatesChange'
  BY DEF OnlyUpdatesChange
<1>5. CopiesAreCurrent'
  BY <1>1 DEF CopiesAreCurrent, OnlyUpdatesChange
<1> QED  BY <1>2, <1>3, <1>4, <1>5

(* A sign-in writes only columns that are stale already. *)
LEMMA SignInSaveKeepsInv ==
  ASSUME RowInv, NEW r \in Requests, SaveUpdate(r)
  PROVE  OperatorsWordStands' /\ CopiesAreCurrent' /\ OnlyUpdatesChange' /\ WordIsHeard'
<1> USE DEF RowInv, TypeOK, Rows, Columns, Holders, Holding, SignInSteps, ScriptSteps,
            Goto, Leave, SaveUpdate, Write, Saved
<1>1. \A c \in Columns \ stale : row'[c] = row[c]
  BY DEF CopiesAreCurrent
<1>2. stale \subseteq stale' /\ \A c \in Columns \ stale' : row'[c] = row[c]
  BY <1>1
<1>3. OperatorsWordStands'
  BY <1>2 DEF OperatorsWordStands
<1>4. OnlyUpdatesChange' /\ WordIsHeard'
  BY DEF OnlyUpdatesChange, WordIsHeard, IsAdmin
<1>5. CopiesAreCurrent'
  BY <1>2 DEF CopiesAreCurrent
<1> QED  BY <1>3, <1>4, <1>5

(* A script writes its column, or finds it as it wants it; other columns     *)
(* only where they are stale.  Whoever else holds a copy sees them stale.    *)
LEMMA ScriptSaveKeepsInv ==
  ASSUME RowInv, NEW r \in Requests, ScriptUpdate(r)
  PROVE  OperatorsWordStands' /\ CopiesAreCurrent' /\ OnlyUpdatesChange' /\ WordIsHeard'
<1> USE DEF RowInv, TypeOK, Rows, Columns, Holders, Holding, SignInSteps, ScriptSteps,
            Goto, Leave, ScriptUpdate, Write, Order, Saved
<1>1. r \in Holders
  OBVIOUS
<1>2. "admin" \notin stale' => row'["admin"] = ordered'["admin"]
  BY <1>1 DEF CopiesAreCurrent
<1>3. "active" \notin stale' => row'["active"] = row["active"] /\ "active" \notin stale
  BY <1>1 DEF CopiesAreCurrent
<1>4. OperatorsWordStands'
  BY <1>2, <1>3 DEF OperatorsWordStands
<1>5. OnlyUpdatesChange' /\ WordIsHeard'
  BY DEF OnlyUpdatesChange, WordIsHeard, IsAdmin
<1>6. CopiesAreCurrent'
  <2>1. \A q \in Holders' : q # r /\ q \in Holders /\ pc'[q] = pc[q]
                            /\ entity'[q] = entity[q] /\ changed'[q] = changed[q]
    OBVIOUS
  <2>2. Holders' # {} => stale \subseteq stale' /\ \A c \in Columns \ stale' : row'[c] = row[c]
    BY <2>1
  <2> QED  BY <2>1, <2>2 DEF CopiesAreCurrent
<1> QED  BY <1>4, <1>5, <1>6

(* An UPDATE by hand leaves the row as ordered, and every copy of it stale.  *)
LEMMA ByHandKeepsInv ==
  ASSUME RowInv, NEW c \in Columns, ByHand(c)
  PROVE  OperatorsWordStands' /\ CopiesAreCurrent' /\ OnlyUpdatesChange' /\ WordIsHeard'
<1> USE RequestAssumption
<1> USE DEF RowInv, TypeOK, Rows, Columns, Holders, Holding, SignInSteps, ScriptSteps,
            ByHand, Write, Order
<1>1. row'[c] = ordered'[c] /\ \A d \in Columns \ {c} : row'[d] = row[d] /\ ordered'[d] = ordered[d]
  OBVIOUS
<1>2. OperatorsWordStands'
  BY <1>1 DEF OperatorsWordStands
<1>3. OnlyUpdatesChange' /\ WordIsHeard'
  BY DEF OnlyUpdatesChange, WordIsHeard, IsAdmin
<1>4. CopiesAreCurrent'
  <2>1. Holders # {} => stale \subseteq stale' /\ \A d \in Columns \ stale' : row'[d] = row[d]
    OBVIOUS
  <2> QED  BY <2>1 DEF CopiesAreCurrent
<1> QED  BY <1>2, <1>3, <1>4

(* Whoever begins holds no copy of the row yet.                              *)
LEMMA ArrivalKeepsInv ==
  ASSUME RowInv, NEW r \in Requests,
         \/ Login(r) \/ SignIn(r) \/ AdminCall(r)
         \/ \E action \in {"grant", "revoke"} : Script(r, action)
  PROVE  OperatorsWordStands' /\ CopiesAreCurrent' /\ OnlyUpdatesChange' /\ WordIsHeard'
<1> USE DEF RowInv, TypeOK, Rows, Columns, Holders, Holding, SignInSteps, ScriptSteps, Goto
<1> USE DEF Login, SignIn, AdminCall, Script
<1>1. OperatorsWordStands' /\ OnlyUpdatesChange'
  BY DEF OperatorsWordStands, OnlyUpdatesChange
<1>2. WordIsHeard'
  BY DEF WordIsHeard, IsAdmin
<1>3. CopiesAreCurrent'
  BY DEF CopiesAreCurrent
<1> QED  BY <1>1, <1>2, <1>3

(* Every step keeps the invariant of the row.                                *)
LEMMA NextKeepsInv == RowInv /\ [Next]_vars => RowInv'
<1> SUFFICES ASSUME RowInv, [Next]_vars PROVE RowInv'
  OBVIOUS
<1>1. TypeOK'
  BY NextTyped DEF RowInv
<1>2. CASE Tick \/ UNCHANGED vars
  BY <1>1, <1>2 DEF RowInv, Tick, vars, OperatorsWordStands, CopiesAreCurrent, OnlyUpdatesChange,
                    WordIsHeard, IsAdmin, Holders
<1>3. ASSUME NEW r \in Requests, Step(r) \/ PgFails(r) PROVE RowInv'
  BY <1>1, <1>3, ReadingKeepsInv, SignInSaveKeepsInv, ScriptSaveKeepsInv DEF RowInv, Step
<1>4. ASSUME NEW c \in Columns, ByHand(c) PROVE RowInv'
  BY <1>1, <1>4, ByHandKeepsInv DEF RowInv
<1>5. ASSUME NEW r \in Requests,
             Login(r) \/ SignIn(r) \/ AdminCall(r)
               \/ \E action \in {"grant", "revoke"} : Script(r, action)
      PROVE  RowInv'
  BY <1>1, <1>5, ArrivalKeepsInv DEF RowInv
<1> QED  BY <1>2, <1>3, <1>4, <1>5 DEF Next

(* The first row is as ordered.                                              *)
LEMMA InitInv == Init => RowInv
<1> SUFFICES ASSUME Init PROVE RowInv
  OBVIOUS
<1>1. TypeOK
  BY InitTyped
<1> QED  BY <1>1 DEF Init, RowInv, OperatorsWordStands, CopiesAreCurrent, OnlyUpdatesChange,
                     WordIsHeard, Holders, Holding, SignInSteps, ScriptSteps

(* What the row, the copies and the operator's word have to do with each     *)
(* other, through every sign-in, script run and edit by hand.                *)
THEOREM RowIsKept == Spec => []RowInv
<1> QED  BY InitInv, NextKeepsInv, PTL DEF Spec

(* Except in columns changed under a copy (stale), the row is what the       *)
(* operator last said.                                                       *)
THEOREM OrdersStand == Spec => []OperatorsWordStands
<1>1. RowInv => OperatorsWordStands
  BY DEF RowInv
<1> QED  BY <1>1, RowIsKept, PTL

(* While no column was changed under a copy, the guard lets through only     *)
(* whom the operator allowed.                                                *)
THEOREM GuardObeys == Spec => RevokedIsRefused
<1> DEFINE Obeys == \A r \in Requests : pc[r] = "guard" /\ pc'[r] = "act" /\ stale = {}
                                          => r \in entitled
<1>1. ASSUME RowInv, [Next]_vars PROVE Obeys
  <2> SUFFICES ASSUME NEW r \in Requests, pc[r] = "guard", pc'[r] = "act", stale = {}
               PROVE  r \in entitled
    OBVIOUS
  <2>1. IsAdmin(row)
    BY <1>1 DEF RowInv, TypeOK, Next, vars, Step, Goto, Leave, Hold, Reload, Login, SignIn,
                Script, AdminCall, LoginUser, FindOwner, SaveReload, SaveUpdate, ScriptFind,
                ScriptReload, ScriptUpdate, AdminGuard, AdminAct, PgFails, ByHand, Tick
  <2>2. IsAdmin(ordered)
    BY <1>1, <2>1 DEF RowInv, OperatorsWordStands, IsAdmin, Columns
  <2> QED  BY <1>1, <2>2 DEF RowInv, WordIsHeard
<1> QED  BY <1>1, InitInv, NextKeepsInv, PTL DEF Spec, RevokedIsRefused
=============================================================================
