----------------------------- MODULE KeyTargets -----------------------------
(***************************************************************************)
(* The state one managed key is spread over, and the two kinds of          *)
(* primitive the key verbs are built from.                                 *)
(*                                                                         *)
(*  - On this machine: the private and the public half of the key in each  *)
(*    of the four places a half can be (canonical path, old/, .staging/    *)
(*    and old/<key>.rolled-back), and the inventory record of every key.   *)
(*  - On the targets: the public keys each target lets in.                 *)
(*                                                                         *)
(* A key is one generated pair, so a file half is the Key it belongs to.   *)
(***************************************************************************)
EXTENDS FiniteSets

CONSTANTS
    Key,        \* key pairs that can be minted, the initial one included
    None,       \* "no file", "no text", "no fingerprint"
    Targets,    \* hosts of the manifest that use the key
    Kind,       \* [Targets -> {"server", "api", "panel"}], see TargetKinds
    SharedWith, \* targets whose authorized_keys holds keys of other origin
    SelfNamed,  \* targets whose alias is also the name ssh connects to
    FsFaults,   \* TRUE when a rename, a link or a write may fail
    LostPub     \* TRUE when the initial key's .pub may have gone missing

TargetKinds == {"server", "api", "panel"}
Slots == {"canonical", "old", "staging", "rolledBack"}

ASSUME KeyTargetsAssumption ==
    /\ None \notin Key
    /\ Kind \in [Targets -> TargetKinds]
    /\ SharedWith \subseteq Targets
    /\ SelfNamed \subseteq Targets
    /\ FsFaults \in BOOLEAN
    /\ LostPub \in BOOLEAN

VARIABLES
    priv,       \* private halves on disk: [Slots -> Key or None]
    pub,        \* public halves on disk
    minted,     \* keys generated so far
    trusts,     \* [Targets -> SUBSET Key]: authorized_keys, account keys
    path,       \* inventory.json: where each key's record says it is
    deployments \* inventory.json: what each record says of each target

fileVars == <<priv, pub>>
inventoryVars == <<path, deployments>>

Half == [Slots -> Key \cup {None}]
DeploymentStatus == {"none", "unverified", "verified"}

KeyTargetsTypeOK ==
    /\ priv \in Half
    /\ pub \in Half
    /\ minted \subseteq Key
    /\ trusts \in [Targets -> SUBSET Key]
    /\ path \in [Key -> {"none", "canonical", "old"}]
    /\ deployments \in [Key -> [Targets -> DeploymentStatus]]

NotDeployed == [t \in Targets |-> "none"]

(***************************************************************************)
(* A key that reconcile minted and deploy installed on every target. Its   *)
(* .pub may have been lost since (regen-pub exists for that).              *)
(***************************************************************************)
KeyTargetsInit ==
    \E k \in Key, lostPub \in {FALSE, LostPub} :
        /\ minted = {k}
        /\ priv = [s \in Slots |-> IF s = "canonical" THEN k ELSE None]
        /\ pub = [s \in Slots |-> IF s = "canonical" /\ ~lostPub THEN k ELSE None]
        /\ trusts = [t \in Targets |-> {k}]
        /\ path = [j \in Key |-> IF j = k THEN "canonical" ELSE "none"]
        /\ deployments = [j \in Key |->
                            IF j = k THEN [t \in Targets |-> "verified"] ELSE NotDeployed]

-----------------------------------------------------------------------------
(***************************************************************************)
(* Files. A rename replaces the destination, except that rename(2) of two  *)
(* hard links to one file does nothing at all and reports success. Halves  *)
(* of one key in two slots are links of one file, or copies where the file *)
(* system refused the link, so both outcomes are possible.                 *)
(***************************************************************************)
Moved(half, from, to) == [half EXCEPT ![to] = half[from], ![from] = None]

Renames(half, from, to) ==
    IF half[from] = half[to] THEN {Moved(half, from, to), half} ELSE {Moved(half, from, to)}

\* os.Remove, and os.RemoveAll of a directory that holds one half of each kind.
Without(half, slot) == [half EXCEPT ![slot] = None]

\* Mutant of Linked: nothing is archived.
Linked_Nothing(half, to) == half

\* Mutant of Linked: the outgoing half is renamed away instead of linked.
Linked_Moved(half, to) == Moved(half, "canonical", to)

\* os.Link, or the atomic copy that stands in for it.
Linked(half, to) == [half EXCEPT ![to] = half["canonical"]]

-----------------------------------------------------------------------------
(***************************************************************************)
(* Providers. Every call may be lost on the way there or on the way back.  *)
(*   server  ssh-copy-id, an ssh login, and a remote edit that refuses to  *)
(*           leave authorized_keys empty (the lockout guard)               *)
(*   api     a git host or a cloud provider through its API; without a     *)
(*           token its deploy is "manual" and its remove does nothing      *)
(*   panel   a web panel a person pastes keys into; nothing is removed     *)
(***************************************************************************)

(* What Deploy can do: whether the key landed, and the outcome reported.   *)
(* A manual deploy is one a person finishes, or does not.                  *)
ServerDeploys == {[landed |-> TRUE, outcome |-> "confirmed"]}
                    \cup [landed : BOOLEAN, outcome : {"failed"}]
PanelDeploys == [landed : BOOLEAN, outcome : {"manual"}]
ApiDeploys == ServerDeploys \cup PanelDeploys

Deploys(t) ==
    CASE Kind[t] = "server" -> ServerDeploys
      [] Kind[t] = "api"    -> ApiDeploys
      [] Kind[t] = "panel"  -> PanelDeploys

(* What Verify can answer of key k. A login offers the key under test and, *)
(* where ssh_config's Host block for the alias applies to the connection,  *)
(* the canonical private half that block names as well.                    *)
Offered(t, k) == IF t \in SelfNamed THEN {k, priv["canonical"]} ELSE {k}

Verdicts(t, keys, k) == {proven \in BOOLEAN : proven => Offered(t, k) \cap keys # {}}

(* A server does not let its last key be removed.                          *)
Lockout(t, keys, k) == Kind[t] = "server" /\ keys \ {k} = {} /\ t \notin SharedWith

(* Key lists a target can have after Remove of k's public text from keys.  *)
Removals(t, keys, k) ==
    IF Kind[t] = "panel" \/ k = None \/ Lockout(t, keys, k)
    THEN {keys} ELSE {keys, keys \ {k}}
=============================================================================
