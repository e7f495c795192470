----------------------------- MODULE MCAccounts -----------------------------
(* Instances of Accounts for TLC. *)
EXTENDS Accounts, TLC

Profile(provider, subject, email) ==
  [provider |-> provider, subject |-> subject, email |-> email]

(* Two people; one of them has accounts at two providers under one address,  *)
(* and an account at the first provider without an address.                  *)
TwoPeople == {Profile("google", "g1", "ann@x"), Profile("facebook", "f1", "ann@x"),
              Profile("google", "g2", NoEmail)}
(* The same person signs up by name. *)
WithLocal == {Profile("local", "ann", "ann@x"), Profile("google", "g1", "ann@x"),
              Profile("facebook", "f1", NoEmail)}
(* One person with two Google accounts, under one name and a Facebook account. *)
TwoGoogles == {Profile("google", "g1", "ann@x"), Profile("facebook", "f1", "ann@x"),
               Profile("google", "g2", "ann@y")}

(* The same person without Facebook. *)
NameAndGoogle == WithLocal \ {Profile("facebook", "f1", NoEmail)}

(* Nothing fails: two people link three accounts, two people link and unlink *)
(* two accounts, one person links and unlinks three.  Or Postgres fails and  *)
(* users are banned while people sign in for the first time.                 *)
Linking == [profiles |-> WithLocal, maxUsers |-> 2, allowed |-> {"register", "link"}]
TwoWays == [profiles |-> NameAndGoogle, maxUsers |-> 2,
            allowed |-> {"register", "link", "unlink"}]
ThreeWays == [profiles |-> WithLocal, maxUsers |-> 1,
              allowed |-> {"register", "link", "unlink"}]
Rough == [profiles |-> TwoPeople, maxUsers |-> 2, allowed |-> {"ban", "pgdown"}]
AllWorlds == {Linking, TwoWays, ThreeWays, Rough}
Unlinking == {TwoWays}
Failing == {Rough}

Symmetry == Permutations(Requests)
=============================================================================
