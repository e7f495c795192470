----------------------------- MODULE Inventory ------------------------------
(***************************************************************************)
(* InventoryService.add and InventoryService.remove on the row of one user *)
(* and one item (the index on userId and itemId keeps it single).  Each    *)
(* reads the row, computes in memory and saves; repo.save of a row with an *)
(* id loads it by that id, and updates it when it is there and inserts it  *)
(* again, with its id, when it is not.                                     *)
(* A definition X_Y is a variant of X with a plausible mistake Y, there to *)
(* see that a property notices; the specification does not use it.         *)
(***************************************************************************)
EXTENDS Integers, FiniteSets

CONSTANTS Requests,
          Amounts,    \* quantities that a request names
          MaxInt,     \* the largest value of the int4 column
          MaxMoved    \* bound: requests stop once more was moved

ASSUME RequestsAssumption == IsFiniteSet(Requests)
ASSUME AmountAssumption == Amounts \subseteq Nat \ {0}
ASSUME MaxIntAssumption == MaxInt \in Nat
ASSUME MaxMovedAssumption == MaxMoved \in Nat

VARIABLES row,            \* the row of inventories
          req,            \* requests in flight
          added, removed, \* totals, by the answers given
          seen            \* overlaps that came to pass: "adds" of adds only, or "removes"

vars == <<row, req, added, removed, seen>>

RowIds == 1..(Cardinality(Requests) + 1)
None == [id |-> 0, quantity |-> 0]
Idle == [pc |-> "idle", id |-> 0, quantity |-> 0, change |-> 0]

TypeOK == /\ row \in {None} \cup [id : RowIds, quantity : 1..MaxInt]
          /\ req \in [Requests -> [pc : {"idle", "save", "update", "insert", "delete"},
                                   id : RowIds \cup {0}, quantity : Nat, change : Int]]
          /\ added \in Nat /\ removed \in Nat
          /\ seen \subseteq {"adds", "removes"}

FreshRow == CHOOSE n \in RowIds : n # row.id /\ \A r \in Requests : req[r].id # n
InFlight == {req[r].change : r \in {q \in Requests : req[q].pc # "idle"}}
(* A request enters, is remembered to overlap others, and reads the row. *)
Start(r, step, n, change) ==
  /\ req[r].pc = "idle" /\ added + removed <= MaxMoved
  /\ req' = [req EXCEPT ![r] = [pc |-> step, id |-> row.id, quantity |-> n, change |-> change]]
  /\ seen' = seen \cup (IF InFlight = {} THEN {}
                       ELSE IF \E c \in InFlight \cup {change} : c < 0
                         THEN {"removes"} ELSE {"adds"})
  /\ UNCHANGED <<row, added, removed>>
Ok(r) == /\ req' = [req EXCEPT ![r] = Idle]
         /\ IF req[r].change > 0
              THEN added' = added + req[r].change /\ UNCHANGED removed
              ELSE removed' = removed - req[r].change /\ UNCHANGED added
Error(r) == req' = [req EXCEPT ![r] = Idle] /\ UNCHANGED <<added, removed>>

-----------------------------------------------------------------------------
Add_Sets(r, n) == Start(r, IF row = None THEN "insert" ELSE "save", n, n)
Add(r, n) == Start(r, IF row = None THEN "insert" ELSE "save", row.quantity + n, n)

Remove_NoDelete(r, n) ==
  row # None /\ row.quantity >= n /\ Start(r, "save", row.quantity - n, -n)
Remove(r, n) ==
  /\ row # None /\ row.quantity >= n
  /\ Start(r, IF row.quantity = n THEN "delete" ELSE "save", row.quantity - n, -n)

(* repo.save, on a row with an id: what it would change is decided here. *)
SaveLoad(r) == /\ req[r].pc = "save"
               /\ IF row.id = req[r].id /\ row.quantity = req[r].quantity
                    THEN Ok(r)
                    ELSE /\ req' = [req EXCEPT ![r].pc =
                                      IF row.id = req[r].id THEN "update" ELSE "insert"]
                         /\ UNCHANGED <<added, removed>>
               /\ UNCHANGED <<row, seen>>
SaveUpdate_Adds(r) ==
  /\ req[r].pc = "update"
  /\ row' = (IF row.id = req[r].id THEN [row EXCEPT !.quantity = @ + req[r].quantity] ELSE row)
  /\ Ok(r) /\ UNCHANGED seen
SaveUpdate(r) == /\ req[r].pc = "update"
                 /\ IF req[r].quantity > MaxInt
                      THEN Error(r) /\ UNCHANGED row
                      ELSE /\ Ok(r)
                           /\ row' = (IF row.id = req[r].id
                                        THEN [row EXCEPT !.quantity = req[r].quantity]
                                        ELSE row)
                 /\ UNCHANGED seen
SaveInsert(r) == /\ req[r].pc = "insert"
                 /\ IF row # None \/ req[r].quantity > MaxInt
                      THEN Error(r) /\ UNCHANGED row
                      ELSE /\ Ok(r)
                           /\ row' = [id |-> IF req[r].id = 0 THEN FreshRow ELSE req[r].id,
                                      quantity |-> req[r].quantity]
                 /\ UNCHANGED seen
DeleteRow(r) == /\ req[r].pc = "delete"
                /\ row' = (IF row.id = req[r].id THEN None ELSE row)
                /\ Ok(r) /\ UNCHANGED seen

Init == /\ row = None /\ req = [r \in Requests |-> Idle]
        /\ added = 0 /\ removed = 0 /\ seen = {}

Next == \E r \in Requests :
          \/ \E n \in Amounts : Add(r, n) \/ Remove(r, n)
          \/ SaveLoad(r) \/ SaveUpdate(r) \/ SaveInsert(r) \/ DeleteRow(r)

Spec == Init /\ [][Next]_vars

-----------------------------------------------------------------------------
(* What is wanted of an inventory. *)

Settled == \A r \in Requests : req[r].pc = "idle"

(* "transactional add/remove" (README.md:13): once nothing is in progress,   *)
(* the stock is what the accepted requests add up to, if none overlapped.    *)
StockIsOwed == Settled /\ seen = {} => row.quantity = added - removed

(* The same promise for requests that overlap, which read, compute and save  *)
(* without a transaction (inventory.service.ts:20-33, 37-49).                *)
NothingIsLost == Settled => row.quantity = added - removed

(* Overlapping adds may lose items but conjure none; and when removes        *)
(* overlap too, a row that was deleted and inserted again, or a remove that  *)
(* was overwritten, never leaves more than was ever added.                   *)
NothingConjured == /\ row.quantity <= added
                   /\ "removes" \notin seen => row.quantity <= added - removed

(* Why these hold, in inductive form.  A request that is to save a row       *)
(* leaves something in it, one that is to delete it leaves nothing, it knows *)
(* the row unless it inserts a new one, and it writes no more than will have *)
(* been added when it is answered.                                           *)
Running(r) == req[r].pc # "idle"
Planned ==
  \A r \in Requests : Running(r) =>
    /\ req[r].change # 0 /\ (req[r].quantity = 0 <=> req[r].pc = "delete")
    /\ req[r].id = 0 => req[r].pc = "insert"
    /\ req[r].quantity <= added + IF req[r].change > 0 THEN req[r].change ELSE 0

(* While no remove overlapped, it is alone, on the row that it read; and no  *)
(* request writes more than will be owed when it is answered.                    *)
Read(r) == row.id = req[r].id /\ req[r].quantity = row.quantity + req[r].change
RemovesAlone ==
  "removes" \notin seen =>
    \A r \in Requests : Running(r) =>
      /\ req[r].quantity <= added - removed + req[r].change
      /\ req[r].change < 0 =>
           Read(r) /\ \A q \in Requests : Running(q) => q = r

(* While nothing overlapped, there is one request at most, on what it read,  *)
(* and the stock is owed also when it is under way.                          *)
OneAtATime ==
  seen = {} =>
    /\ row.quantity = added - removed
    /\ \A r \in Requests : Running(r) =>
         Read(r) /\ \A q \in Requests : Running(q) => q = r

StockInv == TypeOK /\ Planned /\ RemovesAlone /\ OneAtATime /\ NothingConjured
=============================================================================
