----------------------------- MODULE SafeSwitch -----------------------------
(***************************************************************************)
(* What a zero-downtime rotation promises to somebody who only logs in:    *)
(* there is one active key, targets learn and forget keys one at a time,   *)
(* and the active key changes only to one that every target already lets   *)
(* in. The active key itself is never forgotten.                           *)
(***************************************************************************)
CONSTANTS Key, Targets

VARIABLES active, trusts

switchVars == <<active, trusts>>

SwitchInit ==
    /\ active \in Key
    /\ trusts = [t \in Targets |-> {active}]

Learn(t, k) ==
    /\ trusts' = [trusts EXCEPT ![t] = @ \cup {k}]
    /\ UNCHANGED active

Forget(t, k) ==
    /\ k # active
    /\ trusts' = [trusts EXCEPT ![t] = @ \ {k}]
    /\ UNCHANGED active

Switch(k) ==
    /\ \A t \in Targets : k \in trusts[t]
    /\ active' = k
    /\ UNCHANGED trusts

SwitchNext ==
    \/ \E t \in Targets, k \in Key : Learn(t, k) \/ Forget(t, k)
    \/ \E k \in Key : Switch(k)

SwitchSpec == SwitchInit /\ [][SwitchNext]_switchVars
=============================================================================
