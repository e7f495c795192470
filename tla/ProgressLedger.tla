--------------------------- MODULE ProgressLedger ---------------------------
(***************************************************************************)
(* What the game server promises one player about saved progress, with no  *)
(* sockets, no Redis and no jobs: `latest` is the state the player sees    *)
(* after reconnecting, `stored` is the state in Postgres.  Progress only   *)
(* grows (each client write carries a later value than the one before),    *)
(* and the only thing that is ever stored is the latest state.             *)
(***************************************************************************)
EXTENDS Integers

CONSTANTS Keys, MaxPatches

VARIABLES latest, stored

States == [Keys -> 0..MaxPatches]

Init == /\ latest = [k \in Keys |-> 0]
        /\ stored = latest

(* The player writes: some keys take a later value, none an earlier one. *)
Play == /\ latest' \in States
        /\ \A k \in Keys : latest'[k] >= latest[k]
        /\ UNCHANGED stored

(* A save makes the whole latest state durable, never a part or an old one. *)
Save == /\ stored' = latest
        /\ UNCHANGED latest

Next == Play \/ Save

Spec == Init /\ [][Next]_<<latest, stored>>
=============================================================================
