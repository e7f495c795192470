-------------------------- MODULE Inventory_proof --------------------------
(***************************************************************************)
(* What the stock keeps, for any finite number of overlapping requests and *)
(* any quantities.                                                         *)
(***************************************************************************)
EXTENDS Inventory, FiniteSetTheorems, TLAPS

-----------------------------------------------------------------------------
(* Typing. *)

(* There is an id for a row to be inserted: each request remembers one.      *)
LEMMA FreshRowIsTyped ==
  ASSUME TypeOK, row = None
  PROVE  FreshRow \in RowIds
  <1> DEFINE held == {req[r].id : r \in Requests}
  <1> DEFINE idOf == [r \in Requests |-> req[r].id]
  <1>1. idOf \in Surjection(Requests, held)
    BY DEF Surjection
  <1>2. IsFiniteSet(held) /\ Cardinality(held) <= Cardinality(Requests)
    BY <1>1, RequestsAssumption, FS_Surjection
  <1>3. Cardinality(held) \in Nat /\ Cardinality(Requests) \in Nat
    BY <1>2, RequestsAssumption, FS_CardinalityType
  <1>4. Cardinality(RowIds) = Cardinality(Requests) + 1
    BY <1>3, FS_Interval DEF RowIds
  <1>5. ASSUME RowIds \subseteq held PROVE FALSE
    <2>1. Cardinality(RowIds) <= Cardinality(held)
      BY <1>2, <1>5, FS_Subset
    <2> QED
      BY <1>2, <1>3, <1>4, <2>1
  <1>6. PICK n \in RowIds : n \notin held
    BY <1>5
  <1>7. n # row.id /\ \A r \in Requests : req[r].id # n
    BY <1>3, <1>6 DEF RowIds, None
  <1> QED
    BY <1>7 DEF FreshRow

(* A request remembers the id of the row that it read.                       *)
LEMMA StartTyped ==
  ASSUME TypeOK, NEW r \in Requests, NEW step \in {"save", "insert", "delete"},
         NEW n \in Nat, NEW change \in Int, Start(r, step, n, change)
  PROVE  TypeOK'
  <1>1. row.id \in RowIds \cup {0}
    BY DEF TypeOK, None
  <1> QED
    BY <1>1 DEF Start, TypeOK

(* The answers are counted.                                                  *)
LEMMA OkTyped ==
  ASSUME TypeOK, NEW r \in Requests, Ok(r)
  PROVE  /\ req' \in [Requests -> [pc : {"idle", "save", "update", "insert", "delete"},
                                   id : RowIds \cup {0}, quantity : Nat, change : Int]]
         /\ added' \in Nat /\ removed' \in Nat
  BY DEF Ok, TypeOK, Idle

(* The row that is read holds a natural number.                              *)
LEMMA RowIsTyped ==
  ASSUME TypeOK
  PROVE  row.id \in RowIds \cup {0} /\ row.quantity \in Nat
  BY MaxIntAssumption DEF TypeOK, None

(* A request saves what is left of the stock, and deletes what is not.       *)
LEMMA RequestTyped ==
  ASSUME TypeOK, NEW r \in Requests, NEW n \in Amounts, Add(r, n) \/ Remove(r, n)
  PROVE  TypeOK'
  <1>1. n \in Nat \ {0} /\ row.quantity \in Nat
    BY RowIsTyped, AmountAssumption
  <1>2. CASE Add(r, n)
    BY <1>1, <1>2, StartTyped DEF Add
  <1>3. CASE Remove(r, n)
    <2>1. row.quantity - n \in Nat /\ -n \in Int
      BY <1>1, <1>3 DEF Remove
    <2> QED
      BY <1>3, <2>1, StartTyped DEF Remove
  <1> QED
    BY <1>2, <1>3

(* A row is written with a quantity that the column can hold, and that is    *)
(* not zero.                                                                 *)
LEMMA WriteTyped ==
  ASSUME TypeOK, Planned, NEW r \in Requests,
         SaveLoad(r) \/ SaveUpdate(r) \/ SaveInsert(r) \/ DeleteRow(r)
  PROVE  TypeOK'
  <1> USE DEF TypeOK
  <1>1. req[r].quantity \in Nat /\ req[r].id \in RowIds \cup {0} /\ RowIds \subseteq Nat
    BY RequestsAssumption, FS_CardinalityType DEF RowIds
  <1>2. CASE SaveLoad(r)
    BY <1>2, OkTyped DEF SaveLoad
  <1>3. CASE SaveUpdate(r)
    <2>1. req[r].quantity > 0
      BY <1>1, <1>3 DEF SaveUpdate, Planned, Running
    <2>2. CASE req[r].quantity > MaxInt
      BY <1>3, <2>2 DEF SaveUpdate, Error, Idle
    <2>3. CASE ~(req[r].quantity > MaxInt)
      <3>1. req[r].quantity \in 1..MaxInt /\ Ok(r)
        BY <1>1, <1>3, <2>1, <2>3, MaxIntAssumption DEF SaveUpdate
      <3>2. row' \in {None} \cup [id : RowIds, quantity : 1..MaxInt]
        <4>1. CASE row.id = req[r].id /\ row # None
          BY <1>3, <2>3, <3>1, <4>1 DEF SaveUpdate
        <4>2. CASE row.id = req[r].id /\ row = None
          BY <1>3, <4>2 DEF SaveUpdate, None, Planned, Running
        <4>3. CASE row.id # req[r].id
          BY <1>3, <2>3, <4>3 DEF SaveUpdate
        <4> QED
          BY <4>1, <4>2, <4>3
      <3> QED
        BY <1>3, <3>1, <3>2, OkTyped DEF SaveUpdate
    <2> QED
      BY <2>2, <2>3
  <1>4. CASE SaveInsert(r)
    <2>1. req[r].quantity > 0
      BY <1>1, <1>4 DEF SaveInsert, Planned, Running
    <2>2. CASE row # None \/ req[r].quantity > MaxInt
      BY <1>4, <2>2 DEF SaveInsert, Error, Idle
    <2>3. CASE ~(row # None \/ req[r].quantity > MaxInt)
      <3>1. req[r].quantity \in 1..MaxInt /\ Ok(r) /\ row = None
        BY <1>1, <1>4, <2>1, <2>3, MaxIntAssumption DEF SaveInsert
      <3>2. row' = [id |-> IF req[r].id = 0 THEN FreshRow ELSE req[r].id,
                    quantity |-> req[r].quantity]
        BY <1>4, <2>3 DEF SaveInsert
      <3>3. row'.id \in RowIds
        BY <1>1, <3>1, <3>2, FreshRowIsTyped
      <3> QED
        BY <1>4, <3>1, <3>2, <3>3, OkTyped DEF SaveInsert
    <2> QED
      BY <2>2, <2>3
  <1>5. CASE DeleteRow(r)
    BY <1>5, OkTyped DEF DeleteRow
  <1> QED
    BY <1>2, <1>3, <1>4, <1>5

-----------------------------------------------------------------------------
(* Plans. *)

(* A request that starts plans to write what it read and its change.         *)
LEMMA RequestPlans ==
  ASSUME TypeOK, NEW r \in Requests, NEW n \in Amounts, Add(r, n) \/ Remove(r, n)
  PROVE  /\ req[r].pc = "idle"
         /\ \E step \in {"save", "insert", "delete"}, m \in Nat, change \in Int :
              /\ Start(r, step, m, change)
              /\ change # 0 /\ m = row.quantity + change
              /\ (m = 0 <=> step = "delete")
              /\ row.id = 0 => step = "insert"
              /\ change < 0 => row # None
  <1>1. n \in Nat \ {0} /\ row.quantity \in Nat
    BY RowIsTyped, AmountAssumption
  <1>2. row.id = 0 => row = None
    BY RequestsAssumption, FS_CardinalityType DEF TypeOK, RowIds
  <1>3. CASE Add(r, n)
    <2>1. row.quantity + n \in Nat /\ row.quantity + n # 0
      BY <1>1
    <2>2. PICK step \in {"insert", "save"} :
            /\ Start(r, step, row.quantity + n, n)
            /\ row = None => step = "insert"
      BY <1>3 DEF Add
    <2>3. req[r].pc = "idle"
      BY <2>2 DEF Start
    <2> QED
      BY <1>1, <1>2, <2>1, <2>2, <2>3
  <1>4. CASE Remove(r, n)
    <2>1. /\ row.quantity - n \in Nat /\ -n \in Int /\ -n # 0 /\ -n < 0
          /\ row.quantity - n = row.quantity + (-n)
      BY <1>1, <1>4 DEF Remove
    <2>2. row # None
      BY <1>4 DEF Remove
    <2>3. PICK step \in {"delete", "save"} :
            /\ Start(r, step, row.quantity - n, -n)
            /\ step = "delete" <=> row.quantity = n
      BY <1>4 DEF Remove
    <2>4. req[r].pc = "idle"
      BY <2>3 DEF Start
    <2>5. row.quantity - n = 0 <=> step = "delete"
      BY <1>1, <2>3
    <2> QED
      BY <1>2, <2>1, <2>2, <2>3, <2>4, <2>5
  <1> QED
    BY <1>3, <1>4

(* What the requests in flight are to write stays bounded by what was added. *)
LEMMA NextKeepsPlanned ==
  ASSUME TypeOK, NothingConjured, Planned, NEW r \in Requests,
         \/ \E n \in Amounts : Add(r, n) \/ Remove(r, n)
         \/ SaveLoad(r) \/ SaveUpdate(r) \/ SaveInsert(r) \/ DeleteRow(r)
  PROVE  Planned'
  <1>1. ASSUME Ok(r) PROVE Planned'
    <2>1. added' \in Nat /\ added' >= added /\ added \in Nat
      BY <1>1 DEF Ok, TypeOK
    <2>2. \A q \in Requests : q # r => req'[q] = req[q]
      BY <1>1 DEF Ok, TypeOK
    <2>3. ~Running(r)'
      BY <1>1 DEF Ok, TypeOK, Running, Idle
    <2> QED
      BY <2>1, <2>2, <2>3 DEF Planned, Running, TypeOK
  <1>2. ASSUME Error(r) PROVE Planned'
    BY <1>2 DEF Error, Idle, Planned, Running, TypeOK
  <1>3. CASE \E n \in Amounts : Add(r, n) \/ Remove(r, n)
    <2>1. PICK step \in {"save", "insert", "delete"}, m \in Nat, change \in Int :
            /\ Start(r, step, m, change)
            /\ change # 0 /\ m = row.quantity + change
            /\ (m = 0 <=> step = "delete")
            /\ row.id = 0 => step = "insert"
      BY <1>3, RequestPlans
    <2>2. row.quantity \in Nat /\ added \in Nat /\ row.quantity <= added
      BY RowIsTyped DEF TypeOK, NothingConjured
    <2>3. m <= added + IF change > 0 THEN change ELSE 0
      BY <2>1, <2>2
    <2>4. /\ req'[r] = [pc |-> step, id |-> row.id, quantity |-> m, change |-> change]
          /\ \A q \in Requests : q # r => req'[q] = req[q]
          /\ added' = added
      BY <2>1 DEF Start, TypeOK
    <2> QED
      BY <2>1, <2>3, <2>4 DEF Planned, Running
  <1>4. CASE SaveLoad(r)
    <2>1. CASE Ok(r)
      BY <1>1, <2>1
    <2>2. CASE ~Ok(r)
      <3>1. PICK point \in {"update", "insert"} :
              req' = [req EXCEPT ![r].pc = point] /\ added' = added
        BY <1>4, <2>2 DEF SaveLoad
      <3>2. req[r].pc = "save"
        BY <1>4 DEF SaveLoad
      <3>3. /\ req'[r] = [req[r] EXCEPT !.pc = point]
            /\ \A q \in Requests : q # r => req'[q] = req[q]
        BY <3>1 DEF TypeOK
      <3>4. /\ req'[r].pc = point /\ req'[r].id = req[r].id
            /\ req'[r].quantity = req[r].quantity /\ req'[r].change = req[r].change
        BY <3>3 DEF TypeOK
      <3> QED
        BY <3>1, <3>2, <3>3, <3>4 DEF Planned, Running
    <2> QED
      BY <2>1, <2>2
  <1>5. CASE SaveUpdate(r) \/ SaveInsert(r) \/ DeleteRow(r)
    BY <1>1, <1>2, <1>5 DEF SaveUpdate, SaveInsert, DeleteRow
  <1> QED
    BY <1>3, <1>4, <1>5

-----------------------------------------------------------------------------
(* Stock. *)

(* A request that starts leaves the stock as it is, and what it overlaps is  *)
(* remembered.                                                               *)
LEMMA StartIsSeen ==
  ASSUME TypeOK, NEW r \in Requests, NEW step \in {"save", "insert", "delete"},
         NEW m \in Nat, NEW change \in Int, Start(r, step, m, change)
  PROVE  /\ req'[r] = [pc |-> step, id |-> row.id, quantity |-> m, change |-> change]
         /\ \A q \in Requests : q # r => req'[q] = req[q]
         /\ UNCHANGED <<row, added, removed>>
         /\ ~Running(r) /\ seen \subseteq seen'
         /\ "removes" \notin seen' =>
              \A q \in Requests : Running(q) => change >= 0 /\ req[q].change >= 0
         /\ seen' = {} => seen = {} /\ \A q \in Requests : ~Running(q)
  <1>1. \A q \in Requests : Running(q) => req[q].change \in InFlight
    BY DEF InFlight, Running
  <1>2. \A q \in Requests : req[q].change \in Int
    BY DEF TypeOK
  <1>3. ASSUME "removes" \notin seen', NEW q \in Requests, Running(q)
        PROVE  change >= 0 /\ req[q].change >= 0
    <2>1. ~ \E c \in InFlight \cup {change} : c < 0
      BY <1>1, <1>3 DEF Start
    <2>2. ~(change < 0) /\ ~(req[q].change < 0)
      BY <1>1, <1>3, <2>1
    <2> QED
      BY <1>2, <2>2
  <1>4. ASSUME seen' = {} PROVE seen = {} /\ InFlight = {}
    BY <1>4 DEF Start
  <1>5. /\ req'[r] = [pc |-> step, id |-> row.id, quantity |-> m, change |-> change]
        /\ \A q \in Requests : q # r => req'[q] = req[q]
        /\ UNCHANGED <<row, added, removed>>
        /\ ~Running(r) /\ seen \subseteq seen'
    BY DEF Start, TypeOK, Running
  <1> QED
    BY <1>1, <1>3, <1>4, <1>5

(* What a request that is answered, refused or still at it did to the row.   *)
Answered(r) == Ok(r) /\ row'.quantity = req[r].quantity
Missed(r) == Ok(r) /\ row' = row /\ row.id # req[r].id
Failed(r) == Error(r) /\ row' = row
Loaded(r) == /\ row' = row /\ UNCHANGED <<added, removed>> /\ Running(r)'
             /\ \A q \in Requests : q # r => req'[q] = req[q]
             /\ req'[r].id = req[r].id /\ req'[r].quantity = req[r].quantity
             /\ req'[r].change = req[r].change

(* Each command of save and of remove is one of the four.                    *)
LEMMA WriteOutcomes ==
  ASSUME TypeOK, Planned, NEW r \in Requests,
         SaveLoad(r) \/ SaveUpdate(r) \/ SaveInsert(r) \/ DeleteRow(r)
  PROVE  /\ Running(r) /\ seen' = seen
         /\ Answered(r) \/ Missed(r) \/ Failed(r) \/ Loaded(r)
  <1>1. CASE SaveLoad(r)
    <2>1. CASE row.id = req[r].id /\ row.quantity = req[r].quantity
      BY <1>1, <2>1 DEF SaveLoad, Answered, Running
    <2>2. CASE ~(row.id = req[r].id /\ row.quantity = req[r].quantity)
      <3>1. PICK point \in {"update", "insert"} :
              req' = [req EXCEPT ![r].pc = point] /\ UNCHANGED <<row, added, removed, seen>>
        BY <1>1, <2>2 DEF SaveLoad
      <3>2. /\ req'[r] = [req[r] EXCEPT !.pc = point]
            /\ \A q \in Requests : q # r => req'[q] = req[q]
        BY <3>1 DEF TypeOK
      <3>3. /\ req'[r].pc = point /\ req'[r].id = req[r].id
            /\ req'[r].quantity = req[r].quantity /\ req'[r].change = req[r].change
        BY <3>2 DEF TypeOK
      <3> QED
        BY <1>1, <3>1, <3>2, <3>3 DEF SaveLoad, Loaded, Running
    <2> QED
      BY <2>1, <2>2
  <1>2. CASE SaveUpdate(r)
    <2>1. CASE req[r].quantity > MaxInt
      BY <1>2, <2>1 DEF SaveUpdate, Failed, Running
    <2>2. CASE ~(req[r].quantity > MaxInt)
      <3>1. /\ Ok(r) /\ Running(r) /\ seen' = seen
            /\ row' = (IF row.id = req[r].id THEN [row EXCEPT !.quantity = req[r].quantity]
                                             ELSE row)
        BY <1>2, <2>2 DEF SaveUpdate, Running
      <3>2. (row' = row /\ row.id # req[r].id) \/ row'.quantity = req[r].quantity
        BY <3>1 DEF TypeOK, None
      <3> QED
        BY <3>1, <3>2 DEF Answered, Missed
    <2> QED
      BY <2>1, <2>2
  <1>3. CASE SaveInsert(r)
    BY <1>3 DEF SaveInsert, Answered, Failed, Running
  <1>4. CASE DeleteRow(r)
    <2>1. Running(r) /\ req[r].quantity = 0
      BY <1>4 DEF DeleteRow, Planned, Running
    <2> QED
      BY <1>4, <2>1 DEF DeleteRow, Answered, Missed, None
  <1> QED
    BY <1>1, <1>2, <1>3, <1>4

(* An answer is counted, and frees the request and no other.                 *)
LEMMA OkCounts ==
  ASSUME TypeOK, NEW r \in Requests, Ok(r)
  PROVE  /\ added' - removed' = added - removed + req[r].change
         /\ req[r].change > 0 => added' = added + req[r].change
         /\ ~(req[r].change > 0) => added' = added
         /\ ~Running(r)'
         /\ \A q \in Requests : q # r => req'[q] = req[q]
  <1>1. added \in Nat /\ removed \in Nat /\ req[r].change \in Int
    BY DEF TypeOK
  <1>2. ~Running(r)' /\ \A q \in Requests : q # r => req'[q] = req[q]
    BY DEF Ok, TypeOK, Running, Idle
  <1>3. CASE req[r].change > 0
    <2>1. added' = added + req[r].change /\ removed' = removed
      BY <1>3 DEF Ok
    <2> QED
      BY <1>1, <1>2, <1>3, <2>1
  <1>4. CASE ~(req[r].change > 0)
    <2>1. added' = added /\ removed' = removed - req[r].change
      BY <1>4 DEF Ok
    <2> QED
      BY <1>1, <1>2, <1>4, <2>1
  <1> QED
    BY <1>3, <1>4

(* The stock is bounded by what was added, and removed if nothing overlapped *)
(* a remove.                                                                 *)
LEMMA WriteKeepsBound ==
  ASSUME StockInv, NEW r \in Requests,
         SaveLoad(r) \/ SaveUpdate(r) \/ SaveInsert(r) \/ DeleteRow(r)
  PROVE  NothingConjured'
  <1> USE DEF StockInv
  <1>1. /\ Running(r) /\ seen' = seen
        /\ Answered(r) \/ Missed(r) \/ Failed(r) \/ Loaded(r)
    BY WriteOutcomes
  <1>2. /\ added \in Nat /\ removed \in Nat /\ row.quantity \in Nat
        /\ req[r].quantity \in Nat /\ req[r].change \in Int
    BY RowIsTyped DEF TypeOK
  <1>3. CASE Failed(r) \/ Loaded(r)
    BY <1>1, <1>3 DEF Failed, Loaded, Error, NothingConjured
  <1>4. CASE Answered(r)
    <2>1. req[r].quantity <= added + IF req[r].change > 0 THEN req[r].change ELSE 0
      BY <1>1 DEF Planned
    <2>2. req[r].quantity <= added'
      BY <1>2, <1>4, <2>1, OkCounts DEF Answered
    <2>3. "removes" \notin seen => req[r].quantity <= added' - removed'
      BY <1>1, <1>2, <1>4, OkCounts DEF Answered, RemovesAlone
    <2> QED
      BY <1>1, <1>4, <2>2, <2>3 DEF Answered, NothingConjured
  <1>5. CASE Missed(r)
    <2>1. row' = row /\ Ok(r)
      BY <1>5 DEF Missed
    <2>2. added' >= added
      BY <1>2, <2>1, OkCounts
    <2>3. "removes" \notin seen => ~(req[r].change < 0)
      BY <1>1, <1>5 DEF Missed, RemovesAlone, Read
    <2>4. "removes" \notin seen => row.quantity <= added - removed + req[r].change
      BY <1>2, <2>3 DEF NothingConjured
    <2>5. row.quantity <= added' /\ ("removes" \notin seen => row.quantity <= added' - removed')
      <3>1. added' \in Nat
        BY <2>1, OkTyped
      <3> QED
        BY <1>2, <2>1, <2>2, <2>4, <3>1, OkCounts DEF NothingConjured
    <2> QED
      BY <1>1, <2>1, <2>5 DEF NothingConjured
  <1> QED
    BY <1>1, <1>3, <1>4, <1>5

(* What overlaps a write is unchanged, and still bounded.                    *)
LEMMA WriteKeepsAlone ==
  ASSUME StockInv, NEW r \in Requests,
         SaveLoad(r) \/ SaveUpdate(r) \/ SaveInsert(r) \/ DeleteRow(r)
  PROVE  RemovesAlone'
  <1> USE DEF StockInv
  <1>1. /\ Running(r) /\ seen' = seen
        /\ Answered(r) \/ Missed(r) \/ Failed(r) \/ Loaded(r)
    BY WriteOutcomes
  <1>2. added \in Nat /\ removed \in Nat
    BY DEF TypeOK
  <1> SUFFICES ASSUME "removes" \notin seen, NEW q \in Requests, Running(q)'
               PROVE  /\ req'[q].quantity <= added' - removed' + req'[q].change
                      /\ req'[q].change < 0 =>
                           Read(q)' /\ \A u \in Requests : Running(u)' => u = q
    BY <1>1 DEF RemovesAlone
  <1>3. CASE Answered(r) \/ Missed(r)
    <2>1. Ok(r) /\ q # r /\ req'[q] = req[q] /\ Running(q)
      BY <1>3, OkCounts DEF Answered, Missed, Running
    <2>2. req[q].change \in Int /\ req[r].change \in Int /\ req[q].quantity \in Nat
      BY DEF TypeOK
    <2>3. ~(req[q].change < 0) /\ ~(req[r].change < 0)
      BY <1>1, <2>1 DEF RemovesAlone
    <2>4. req[q].quantity <= added - removed + req[q].change
      BY <2>1 DEF RemovesAlone
    <2>5. added' - removed' >= added - removed
      BY <1>2, <2>1, <2>2, <2>3, OkCounts
    <2>6. added' \in Nat /\ removed' \in Nat
      BY <2>1, OkTyped
    <2>7. req[q].quantity <= added' - removed' + req[q].change
      <3> DEFINE before == added - removed
      <3> DEFINE after == added' - removed'
      <3>1. before \in Int
        BY <1>2
      <3>2. after \in Int
        BY <2>6
      <3>3. after >= before /\ req[q].quantity <= before + req[q].change
        BY <2>4, <2>5
      <3> HIDE DEF before, after
      <3>4. req[q].quantity <= after + req[q].change
        BY <2>2, <3>1, <3>2, <3>3
      <3> QED
        BY <3>4 DEF after
    <2>8. req'[q].quantity = req[q].quantity /\ req'[q].change = req[q].change
      BY <2>1
    <2> QED
      BY <2>3, <2>7, <2>8
  <1>4. CASE Failed(r)
    <2>1. /\ ~Running(r)' /\ row' = row /\ UNCHANGED <<added, removed>>
          /\ \A u \in Requests : u # r => req'[u] = req[u]
      BY <1>4 DEF Failed, Error, TypeOK, Running, Idle
    <2> QED
      BY <2>1 DEF RemovesAlone, Read, Running
  <1>5. CASE Loaded(r)
    BY <1>1, <1>5 DEF Loaded, RemovesAlone, Read, Running
  <1> QED
    BY <1>1, <1>3, <1>4, <1>5

(* A single request leaves the stock that is owed.                           *)
LEMMA WriteKeepsOwed ==
  ASSUME StockInv, NEW r \in Requests,
         SaveLoad(r) \/ SaveUpdate(r) \/ SaveInsert(r) \/ DeleteRow(r)
  PROVE  OneAtATime'
  <1> USE DEF StockInv
  <1>1. /\ Running(r) /\ seen' = seen
        /\ Answered(r) \/ Missed(r) \/ Failed(r) \/ Loaded(r)
    BY WriteOutcomes
  <1> SUFFICES ASSUME seen = {}
               PROVE  /\ row'.quantity = added' - removed'
                      /\ \A q \in Requests : Running(q)' =>
                           Read(q)' /\ \A u \in Requests : Running(u)' => u = q
    BY <1>1 DEF OneAtATime
  <1>2. /\ row.quantity = added - removed /\ Read(r)
        /\ \A q \in Requests : Running(q) => q = r
    BY <1>1 DEF OneAtATime
  <1>3. CASE Answered(r)
    <2>1. \A q \in Requests : ~Running(q)'
      BY <1>2, <1>3, OkCounts DEF Answered, Running
    <2>2. row'.quantity = row.quantity + req[r].change
      BY <1>2, <1>3 DEF Answered, Read
    <2> QED
      BY <1>2, <1>3, <2>1, <2>2, OkCounts DEF Answered
  <1>4. CASE Missed(r)
    BY <1>2, <1>4 DEF Missed, Read
  <1>5. CASE Failed(r)
    <2>1. /\ ~Running(r)' /\ row' = row /\ UNCHANGED <<added, removed>>
          /\ \A u \in Requests : u # r => req'[u] = req[u]
      BY <1>5 DEF Failed, Error, TypeOK, Running, Idle
    <2> QED
      BY <1>2, <2>1 DEF Running
  <1>6. CASE Loaded(r)
    BY <1>1, <1>2, <1>6 DEF Loaded, Read, Running
  <1> QED
    BY <1>1, <1>3, <1>4, <1>5, <1>6

(* A request that starts overlaps what is remembered, and plans for what the *)
(* stock was.                                                                *)
LEMMA RequestKeepsStock ==
  ASSUME StockInv, NEW r \in Requests, NEW n \in Amounts, Add(r, n) \/ Remove(r, n)
  PROVE  RemovesAlone' /\ OneAtATime' /\ NothingConjured'
  <1> USE DEF StockInv
  <1>1. PICK step \in {"save", "insert", "delete"}, m \in Nat, change \in Int :
          Start(r, step, m, change) /\ m = row.quantity + change
    BY RequestPlans
  <1>2. /\ req'[r] = [pc |-> step, id |-> row.id, quantity |-> m, change |-> change]
        /\ \A q \in Requests : q # r => req'[q] = req[q]
        /\ UNCHANGED <<row, added, removed>>
        /\ ~Running(r) /\ seen \subseteq seen'
        /\ "removes" \notin seen' =>
             \A q \in Requests : Running(q) => change >= 0 /\ req[q].change >= 0
        /\ seen' = {} => seen = {} /\ \A q \in Requests : ~Running(q)
    BY <1>1, StartIsSeen
  <1>3. /\ added \in Nat /\ removed \in Nat /\ row.quantity \in Nat
        /\ \A q \in Requests : req[q].change \in Int
    BY RowIsTyped DEF TypeOK
  <1>4. NothingConjured'
    BY <1>2 DEF NothingConjured
  <1>5. Read(r)'
    BY <1>1, <1>2 DEF Read
  <1>6. RemovesAlone'
    <2> SUFFICES ASSUME "removes" \notin seen', NEW q \in Requests, Running(q)'
                 PROVE  /\ req'[q].quantity <= added' - removed' + req'[q].change
                        /\ req'[q].change < 0 =>
                             Read(q)' /\ \A u \in Requests : Running(u)' => u = q
      BY DEF RemovesAlone
    <2>1. "removes" \notin seen
      BY <1>2
    <2>2. CASE q # r
      <3>1. Running(q) /\ req'[q] = req[q]
        BY <1>2, <2>2 DEF Running
      <3>2. ~(req[q].change < 0)
        BY <1>2, <1>3, <3>1
      <3> QED
        BY <1>2, <2>1, <3>1, <3>2 DEF RemovesAlone
    <2>3. CASE q = r
      <3>1. m <= added - removed + change
        BY <1>1, <1>3, <2>1 DEF NothingConjured
      <3>2. change < 0 => \A u \in Requests : Running(u)' => u = r
        <4>1. change < 0 => \A u \in Requests : ~Running(u)
          BY <1>2
        <4> QED
          BY <1>2, <4>1 DEF Running
      <3> QED
        BY <1>2, <1>5, <2>3, <3>1, <3>2
    <2> QED
      BY <2>2, <2>3
  <1>7. OneAtATime'
    <2> SUFFICES ASSUME seen' = {}
                 PROVE  /\ row'.quantity = added' - removed'
                        /\ \A q \in Requests : Running(q)' =>
                             Read(q)' /\ \A u \in Requests : Running(u)' => u = q
      BY DEF OneAtATime
    <2>1. seen = {} /\ \A q \in Requests : q # r => ~Running(q)'
      BY <1>2 DEF Running
    <2> QED
      BY <1>2, <1>5, <2>1 DEF OneAtATime
  <1> QED
    BY <1>4, <1>6, <1>7

(* The stock's invariant holds at first, and every step keeps it.            *)
LEMMA InitStock == Init => StockInv
  <1> SUFFICES ASSUME Init PROVE StockInv
    OBVIOUS
  <1>1. Idle \in [pc : {"idle", "save", "update", "insert", "delete"},
                  id : RowIds \cup {0}, quantity : Nat, change : Int]
    BY DEF Idle
  <1>2. TypeOK
    BY <1>1 DEF Init, TypeOK
  <1>3. \A r \in Requests : ~Running(r)
    BY DEF Init, Running, Idle
  <1> QED
    BY <1>2, <1>3 DEF Init, StockInv, Planned, RemovesAlone, OneAtATime, NothingConjured, None

(* Every step keeps the invariant of the stock.                              *)
LEMMA NextKeepsStock == StockInv /\ [Next]_vars => StockInv'
  <1> SUFFICES ASSUME StockInv, [Next]_vars PROVE StockInv'
    OBVIOUS
  <1>1. CASE UNCHANGED vars
    BY <1>1 DEF vars, StockInv, TypeOK, Planned, RemovesAlone, OneAtATime, NothingConjured,
         Running, Read
  <1>2. ASSUME NEW r \in Requests, NEW n \in Amounts, Add(r, n) \/ Remove(r, n)
        PROVE  StockInv'
    <2>1. TypeOK' /\ Planned'
      BY <1>2, RequestTyped, NextKeepsPlanned DEF StockInv
    <2> QED
      BY <1>2, <2>1, RequestKeepsStock DEF StockInv
  <1>3. ASSUME NEW r \in Requests,
               SaveLoad(r) \/ SaveUpdate(r) \/ SaveInsert(r) \/ DeleteRow(r)
        PROVE  StockInv'
    <2>1. TypeOK' /\ Planned'
      BY <1>3, WriteTyped, NextKeepsPlanned DEF StockInv
    <2>2. RemovesAlone' /\ OneAtATime' /\ NothingConjured'
      BY <1>3, WriteKeepsAlone, WriteKeepsOwed, WriteKeepsBound
    <2> QED
      BY <2>1, <2>2 DEF StockInv
  <1> QED
    BY <1>1, <1>2, <1>3 DEF Next

(* The row, the requests that read it and what is owed fit together.         *)
THEOREM StockIsKept == Spec => []StockInv
  BY InitStock, NextKeepsStock, PTL DEF Spec


(* The row is none or holds what the column can, and totals are naturals.    *)
THEOREM TypeCorrect == Spec => []TypeOK
  <1>1. StockInv => TypeOK
    BY DEF StockInv
  <1> QED
    BY <1>1, StockIsKept, PTL

(* However adds and removes overlap, the stock is never more than was added, *)
(* nor more than is owed if no remove overlapped.                            *)
THEOREM NothingIsConjured == Spec => []NothingConjured
  <1>1. StockInv => NothingConjured
    BY DEF StockInv
  <1> QED
    BY <1>1, StockIsKept, PTL

(* If none overlapped, what the accepted requests add up to is there.        *)
THEOREM OwedIsThere == Spec => []StockIsOwed
  <1>1. StockInv => StockIsOwed
    BY DEF StockInv, OneAtATime, StockIsOwed
  <1> QED
    BY <1>1, StockIsKept, PTL
=============================================================================
