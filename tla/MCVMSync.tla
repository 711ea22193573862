------------------------------ MODULE MCVMSync ------------------------------
(***************************************************************************)
(* Instances of VMSync for TLC: a VM host that is known and a devbox that  *)
(* is still to become one.                                                 *)
(***************************************************************************)
EXTENDS VMSync, TLC

CONSTANTS web, dev, vm1, vm2, g1, g2

Wired == (web :> vm1) @@ (dev :> vm2)

ProbingOpts == {[repin |-> r, prune |-> TRUE, probe |-> TRUE] : r \in BOOLEAN}

Guests0 == (vm1 :> [state |-> "running", guest |-> g1, lets |-> {"derived"}])
             @@ (vm2 :> [state |-> "running", guest |-> g2, lets |-> {"loose"}])

\* web is a host that is pinned; dev is declared with a key that lies in ~/.ssh.
Ready ==
    [vms |-> Guests0,
     contexts |-> [a \in Alias |-> None],
     hosts |-> (web :> [vm |-> TRUE, named |-> TRUE, key |-> "derived"]) @@ (dev :> None),
     devboxes |-> (web :> "no") @@ (dev :> "key"),
     loose |-> (web :> FALSE) @@ (dev :> TRUE),
     pins |-> {<<<<web, "alias">>, g1, "ours">>}]

\* dev is a host of its own address, whose devbox has been declared since.
Drifted ==
    [Ready EXCEPT !.hosts[dev] = [vm |-> FALSE, named |-> FALSE, key |-> "derived"],
                  !.contexts[web] = [marker |-> TRUE, here |-> TRUE]]

Homes == {Ready, Drifted}
=============================================================================
