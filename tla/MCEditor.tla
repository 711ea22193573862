------------------------------ MODULE MCEditor ------------------------------
(***************************************************************************)
(* Instances of Editor for TLC: two hosts that plain rules give a key each *)
(* and coarse ones the same, both on one server.                           *)
(***************************************************************************)
EXTENDS Editor, TLC

CONSTANTS web, db, plain, coarse, na, nb, host1, job, home, flat, team

RulesFor ==
    (plain :> ((web :> na) @@ (db :> nb))) @@ (coarse :> ((web :> na) @@ (db :> na)))
OneServer == (web :> host1) @@ (db :> host1)

\* One profile has both hosts, and the other is still to come.
BothInOne ==
    [hosts |-> [a \in Alias |-> [profile |-> job, name |-> None]],
     scope |-> (job :> "own") @@ (home :> "gone"),
     category |-> [p \in Profile |-> flat],
     keys |-> [r \in Refs |-> "no"],
     rule |-> plain]

\* web is wired to a key its profile declares, and db is in a profile whose
\* hosts share a key.
Wiring ==
    [hosts |-> (web :> [profile |-> job, name |-> nb]) @@ (db :> [profile |-> home, name |-> None]),
     scope |-> (job :> "own") @@ (home :> na),
     category |-> [p \in Profile |-> flat],
     keys |-> [r \in Refs |-> IF r = <<job, nb>> THEN "yes" ELSE "no"],
     rule |-> plain]

Starts == {BothInOne, Wiring}
=============================================================================
