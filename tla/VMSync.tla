------------------------------- MODULE VMSync -------------------------------
(***************************************************************************)
(* `vm sync` (services/vmsync): VM hosts kept in step with the hypervisor  *)
(* that runs them, as the terminal, `doctor --fix`, the daily schedule and *)
(* the web run it, with `vm adopt-key`, which makes the same steps.        *)
(*                                                                         *)
(*   ask    plan, ask, lock, plan again and compare, run                   *)
(*   yes    lock, plan, run                                                *)
(*   fix    as ask (--yes too), then remove the stale pins                 *)
(*   run    backup, manifest steps, plan again, steps outside              *)
(*   web    as ask, but the steps outside come first and the manifest      *)
(*          steps follow a plan of their own, made without a probe         *)
(*                                                                         *)
(* Meanwhile the person starts, stops, deletes and rebuilds VMs, and other *)
(* commands change the home whenever the lock is free.                     *)
(***************************************************************************)
EXTENDS Naturals, Sequences, FiniteSets

CONSTANTS
    Alias, VM,
    VMOf,         \* [Alias -> VM]: the VM of each VM host, one to one
    Guest,        \* host keys a guest may have
    Docker,       \* the VMs whose guests run Docker
    ListsRunning, \* the hypervisor lists running VMs only, and is an Exister
    Opts,         \* the options a sync may have
    Starts,       \* what the home and the hypervisor may be like to begin with
    None,
    MaxRuns, MaxEvents, MaxTroubles

Names == {"declared", "derived"}     \* the name its devbox gives a key, or the rules'
Keys == {"loose"} \cup Names         \* the pair of ~/.ssh, and those authama mints
Tokens == Alias \X {"alias", "address"}

ASSUME VMSyncAssumption ==
    /\ VMOf \in [Alias -> VM] /\ \A a, b \in Alias : VMOf[a] = VMOf[b] => a = b
    /\ Docker \subseteq VM /\ ListsRunning \in BOOLEAN
    /\ Opts \subseteq [repin : BOOLEAN, prune : BOOLEAN, probe : BOOLEAN]
    /\ None \notin Alias \cup Guest
    /\ {MaxRuns, MaxEvents, MaxTroubles} \subseteq Nat

VARIABLES
    vms,        \* what each VM is doing, and its guest: host key, keys let in
    answers,    \* the hypervisor answers
    contexts,   \* Docker contexts, by name
    current,    \* the current one, or None
    hosts,      \* hosts of the manifest
    devboxes,   \* what authama.json declares
    files,      \* the key each host's profile holds under either name
    loose,      \* the pairs that lie in ~/.ssh, one per devbox
    reserved,   \* those the manifest reserves
    recorded,   \* keys of profiles with a record in the inventory
    pins,       \* known_hosts: token, host key, whose line it is
    run,        \* the command under way
    undisturbed,\* nothing else has moved, and nothing failed, since it began
    wasGone,    \* VMs that have been gone at some time since then
    runs, events, troubles

outside == <<vms, answers, contexts, current>>
keyVars == <<files, loose, recorded>>
home == <<hosts, devboxes, keyVars, reserved>>
ghosts == <<undisturbed, wasGone>>
bounds == <<runs, events, troubles>>
vmsyncVars == <<outside, home, pins, run, ghosts, bounds>>

HostRecords == [vm : BOOLEAN, named : BOOLEAN, key : Names]
Contexts == [marker : BOOLEAN, here : BOOLEAN]
Idle == [mode |-> "none", opt |-> None, steps |-> <<>>, view |-> None, look |-> {}, at |-> None,
         plan |-> {}, shown |-> {}, backup |-> [a \in Alias |-> None], installed |-> FALSE]

IsVMHost(hs, a) == hs[a] # None /\ hs[a].vm
State(a) == vms[VMOf[a]].state
Guests(a) == vms[VMOf[a]].guest
PubOnDisk(a, n) == files[a][n] \in Keys

\* HostToken(h.Alias): what a pin of sync names. liveTokens: what ssh looks up,
\* the HostName of a host.
Token(a) == <<a, "alias">>
LiveTokens(hs) == {<<a, IF hs[a].named THEN "alias" ELSE "address">> : a \in {b \in Alias : hs[b] # None}}
Pruned(hs) == {p \in pins : p[3] = "ours" => p[1] \in LiveTokens(hs)}
PinsOf(a) == {p \in pins : p[1] = Token(a)}
OurPins(a) == {p \in PinsOf(a) : p[3] = "ours"}

-----------------------------------------------------------------------------
(* Planning: what one look at the world says                               *)

Action(kind, a, detail) == [kind |-> kind, alias |-> a, detail |-> detail, key |-> None]
Lines(plan) == {<<x.kind, x.alias, x.detail>> : x \in plan}
Inside == {"remove-host", "add-devbox", "adopt-key", "update-devbox"}
ManifestSteps(plan) == {x \in plan : x.kind \in Inside}
OutsideSteps(plan) == plan \ ManifestSteps(plan)

Managed(c) == c.marker \/ c.here

\* Mutant of Gone: a VM that is not listed is gone.
Gone_Unlisted(a) == State(a) # "running"

\* A VM is gone when the hypervisor answers and does not have it: where only
\* running VMs are listed the VM's file is looked for, and elsewhere a list
\* without any VM says nothing.
Gone(a) ==
    /\ State(a) = "gone"
    /\ ListsRunning \/ \E v \in VM : vms[v].state # "gone"

Declared(d) == d \in {"plain", "key"}

\* planHost of a VM that is gone.
PlanGone(a, opt, cs) ==
    IF ~opt.prune \/ devboxes[a] # "no" THEN {}
    ELSE {Action("remove-host", a, None)}
         \cup (IF cs[a] # None /\ Managed(cs[a]) /\ current # a
               THEN {Action("docker-remove", a, None)} ELSE {})

\* planDevboxDrift
Drift(h, d) ==
    (IF h.vm THEN {} ELSE {"vm"})
        \cup (IF d = "key" /\ h.key # "declared" THEN {"key"} ELSE {})

\* planDevboxes, with the manifest as it was loaded.
PlanDevbox(a, hs) ==
    IF ~Declared(devboxes[a]) THEN {}
    ELSE IF hs[a] # None
    THEN IF Drift(hs[a], devboxes[a]) = {} THEN {}
         ELSE {Action("update-devbox", a, Drift(hs[a], devboxes[a]))}
    ELSE {Action("add-devbox", a, None)}
         \cup (IF devboxes[a] = "key" /\ files[a]["declared"] = "none" /\ loose[a]
               THEN {Action("adopt-key", a, None)} ELSE {})

\* Contexts authama made whose host is gone from the manifest.
Stray(hs, cs, plan) ==
    {Action("docker-remove", a, None) :
        a \in {b \in Alias : /\ hs[b] = None /\ cs[b] # None
                             /\ cs[b].marker /\ cs[b].here
                             /\ devboxes[b] = "no" /\ current # b
                             /\ Action("docker-remove", b, None) \notin plan}}

\* PinState of the token for the key that was scanned.
PinState(a, guest) ==
    IF PinsOf(a) = {} THEN "unpinned"
    ELSE IF \E p \in PinsOf(a) : p[2] = guest THEN "pinned" ELSE "changed"

\* Mutant of PlanPin: a changed pin is replaced without being asked to.
PlanPin_Always(a, guest, opt) ==
    IF PinState(a, guest) = "pinned" THEN {} ELSE {Action("repin", a, guest)}

PlanPin(a, guest, opt) ==
    CASE PinState(a, guest) = "unpinned" -> {Action("pin", a, guest)}
      [] PinState(a, guest) = "changed" /\ opt.repin -> {Action("repin", a, guest)}
      [] OTHER -> {}

\* planKeyInstall, with the text of the .pub as it is now.
PlanInstall(a, h, outcome) ==
    IF outcome = "refused" /\ PubOnDisk(a, h.key)
    THEN {[Action("install-key", a, None) EXCEPT !.key = files[a][h.key]]} ELSE {}

\* planDocker: a context of somebody else's is left alone.
PlanDocker(a, outcome, c) ==
    IF c = None
    THEN IF outcome = "ok" /\ VMOf[a] \in Docker THEN {Action("docker-create", a, None)} ELSE {}
    ELSE IF Managed(c) /\ ~(c.marker /\ c.here) THEN {Action("docker-update", a, None)} ELSE {}

\* ssh to the alias in batch mode, trusting the host key that was scanned.
Probed(a, h, guest) ==
    IF State(a) # "running" \/ Guests(a) # guest THEN "unreachable"
    ELSE IF files[a][h.key] \in vms[VMOf[a]].lets THEN "ok"
    ELSE "refused"

-----------------------------------------------------------------------------
(* The command                                                             *)

Locked == run.steps # <<>> /\ \A i \in DOMAIN run.steps : run.steps[i] # "ask"
Doing(step) == run.steps # <<>> /\ Head(run.steps) = step

\* Mutant of RunSteps: the plan is not made again.
RunSteps_Once(plan) ==
    (IF ManifestSteps(plan) # {} THEN <<"backup", "manifest">> ELSE <<>>) \o <<"outside">>

\* The steps of the run that follows a plan that was agreed to (runVMSync).
RunSteps(plan) ==
    IF ManifestSteps(plan) # {} THEN <<"backup", "manifest", "plan", "outside">> ELSE <<"outside">>
WebSteps(plan) ==
    (IF ManifestSteps(plan) # {} THEN <<"backup">> ELSE <<>>) \o <<"outside", "plan", "manifest">>

Asking == <<"plan", "ask", "plan", "agree">>
Sequel ==
    [ask |-> Asking \o <<"run">>, yes |-> <<"plan", "run">>,
     fix |-> Asking \o <<"run", "prune">>,
     web |-> Asking \o <<"plan", "web">>]

\* On to the next step. What an undisturbed run was asked for is remembered after
\* it, for the properties.
Advance(r) ==
    run' = IF Len(r.steps) = 1
           THEN IF undisturbed
                THEN [Idle EXCEPT !.mode = r.mode, !.opt = r.opt, !.installed = r.installed]
                ELSE Idle
           ELSE [r EXCEPT !.steps = Tail(@)]

StartSync(mode, opt) ==
    /\ run.steps = <<>>
    /\ runs < MaxRuns
    /\ run' = [Idle EXCEPT !.mode = mode, !.opt = opt, !.steps = Sequel[mode]]
    /\ undisturbed' = TRUE
    /\ wasGone' = {VMOf[a] : a \in {b \in Alias : State(b) = "gone"}}
    /\ runs' = runs + 1
    /\ UNCHANGED <<outside, home, pins, events, troubles>>

\* Plan loads the manifest, lists the contexts and the VMs. The manifest half of
\* a web change looks at nothing else: no probe, no Docker.
Quick == run.mode = "web" /\ run.steps = <<"plan", "manifest">>

Listing ==
    LET vmHosts == {a \in Alias : IsVMHost(hosts, a)}
        gone == {a \in vmHosts : Gone(a)}
        cs == IF Quick THEN [a \in Alias |-> None] ELSE contexts
    IN  [plan |-> IF answers THEN UNION {PlanGone(a, run.opt, cs) : a \in gone} ELSE {},
         look |-> IF answers /\ run.opt.probe /\ ~Quick
                  THEN {a \in vmHosts : State(a) = "running"} ELSE {},
         contexts |-> cs]

BeginPlan ==
    /\ Doing("plan") /\ run.view = None
    /\ run' = [run EXCEPT !.view = [hosts |-> hosts, contexts |-> Listing.contexts],
                          !.look = Listing.look, !.plan = Listing.plan]
    /\ UNCHANGED <<outside, home, pins, ghosts, bounds>>

\* planRunning: the address is asked for, and the host key scanned there.
Scan(a) ==
    /\ Doing("plan") /\ run.view # None
    /\ run.at = None /\ a \in run.look
    /\ run' = IF State(a) = "running"
              THEN [run EXCEPT !.at = [alias |-> a, guest |-> Guests(a)],
                               !.plan = @ \cup PlanPin(a, Guests(a), run.opt)]
              ELSE [run EXCEPT !.look = @ \ {a}]
    /\ UNCHANGED <<outside, home, pins, ghosts, bounds>>

\* The probe goes through `vm proxy`, which starts a VM that has been stopped in
\* the meantime.
Probe ==
    LET a == run.at.alias
        outcome == Probed(a, run.view.hosts[a], run.at.guest)
    IN  /\ Doing("plan") /\ run.at # None
        /\ run' = [run EXCEPT !.at = None, !.look = @ \ {a},
                              !.plan = @ \cup PlanInstall(a, run.view.hosts[a], outcome)
                                         \cup PlanDocker(a, outcome, run.view.contexts[a])]
        /\ vms' = IF State(a) = "stopped" THEN [vms EXCEPT ![VMOf[a]].state = "running"] ELSE vms
        /\ UNCHANGED <<answers, contexts, current, home, pins, ghosts, bounds>>

\* A plan that changes nothing ends a sync, and a doctor that has no pins to
\* remove either.
EndPlan ==
    LET hs == run.view.hosts
        cs == run.view.contexts
        plan == run.plan \cup UNION {PlanDevbox(a, hs) : a \in Alias} \cup Stray(hs, cs, run.plan)
        rest == [run EXCEPT !.plan = plan, !.view = None]
    IN  /\ Doing("plan") /\ run.view # None /\ run.at = None /\ run.look = {}
        /\ IF plan = {} /\ (\/ run.steps \in {Sequel.ask, Sequel.yes}
                            \/ run.steps = Sequel.fix /\ Pruned(hosts) = pins)
           THEN Advance([rest EXCEPT !.steps = <<"plan">>])
           ELSE Advance(IF run.steps[2] = "ask" THEN [rest EXCEPT !.shown = Lines(plan)] ELSE rest)
        /\ UNCHANGED <<outside, home, pins, ghosts, bounds>>

Answer(yes) ==
    /\ Doing("ask")
    /\ IF yes THEN Advance([run EXCEPT !.plan = {}]) ELSE run' = Idle
    /\ UNCHANGED <<outside, home, pins, ghosts, bounds>>

\* recheck: the plan made under the lock reads as the one that was shown.
Agreed == Lines(run.plan) = run.shown

Agree ==
    /\ Doing("agree")
    /\ IF Agreed THEN Advance(run) ELSE run' = Idle
    /\ UNCHANGED <<outside, home, pins, ghosts, bounds>>

Run ==
    /\ Doing("run") \/ Doing("web")
    /\ run' = [run EXCEPT !.steps =
                  (IF Doing("run") THEN RunSteps(run.plan) ELSE WebSteps(run.plan)) \o Tail(@)]
    /\ UNCHANGED <<outside, home, pins, ghosts, bounds>>

\* BackupManifest; nothing changes when it fails.
Backup ==
    /\ Doing("backup")
    /\ Advance([run EXCEPT !.backup = hosts])
    /\ UNCHANGED <<outside, home, pins, ghosts, bounds>>

-----------------------------------------------------------------------------
(* ApplyManifest                                                           *)

\* One step of the plan, in its order: a devbox is added before its key is
\* adopted.
Due(x) ==
    /\ Doing("manifest")
    /\ x \in run.plan
    /\ x.kind = "adopt-key" => Action("add-devbox", x.alias, None) \notin run.plan

Taking(x) ==
    /\ Due(x)
    /\ run' = [run EXCEPT !.plan = @ \ {x}]

\* lifecycle.DeleteHost: the key's record and the stale pins go with the host,
\* the key files stay.
WithoutHost(a) ==
    /\ hosts' = [hosts EXCEPT ![a] = None]
    /\ recorded' = recorded \ {<<a, hosts[a].key>>}
    /\ pins' = Pruned(hosts')

RemoveHost(a) ==
    /\ Taking(Action("remove-host", a, None))
    /\ WithoutHost(a)
    /\ UNCHANGED <<outside, devboxes, files, loose, reserved, ghosts, bounds>>

AddVMHost(a) ==
    /\ Taking(Action("add-devbox", a, None))
    /\ hosts' = [hosts EXCEPT ![a] =
          [vm |-> TRUE, named |-> TRUE,
           key |-> IF run.mode = "adopt" \/ devboxes[a] = "key" THEN "declared" ELSE "derived"]]
    /\ UNCHANGED <<outside, devboxes, keyVars, reserved, pins, ghosts, bounds>>

\* EditHost with the user, the VM and the key: the HostName stays.
UpdateDevbox(a) ==
    /\ \E diffs \in SUBSET {"vm", "key"} : Taking(Action("update-devbox", a, diffs))
    /\ hosts' = [hosts EXCEPT ![a] =
          [@ EXCEPT !.vm = TRUE, !.key = IF devboxes[a] = "key" THEN "declared" ELSE @]]
    /\ UNCHANGED <<outside, devboxes, keyVars, reserved, pins, ghosts, bounds>>

\* AdoptKey goes this far: none of it, or the private key alone is copied, or
\* the pair, or it is recorded as well, or the original is removed (--move).
AdoptedSoFar(a, reach, move) ==
    /\ files' = IF reach = "none" THEN files
                ELSE [files EXCEPT ![a]["declared"] = IF reach = "half" THEN "half" ELSE "loose"]
    /\ recorded' = IF reach \in {"recorded", "moved"} THEN recorded \cup {<<a, "declared">>} ELSE recorded
    /\ loose' = [loose EXCEPT ![a] = ~(move /\ reach = "moved")]

Adoptable(a) == loose[a] /\ files[a]["declared"] = "none"

\* ReleaseReservation, after an adoption that went through.
Released(a) == reserved' = reserved \ {a}

Moves == {FALSE} \cup {run.mode = "adopt"}

Adopt(a) ==
    /\ Taking(Action("adopt-key", a, None))
    /\ Adoptable(a)
    /\ \E move \in Moves : AdoptedSoFar(a, "moved", move)
    /\ Released(a)
    /\ UNCHANGED <<outside, hosts, devboxes, pins, ghosts, bounds>>

\* A copy that fails is taken back; a pair that cannot be recorded stays, and so
\* does the reservation. A sync goes on to its next step, adopt-key stops.
AdoptFails(a) ==
    /\ troubles < MaxTroubles
    /\ Taking(Action("adopt-key", a, None))
    /\ Adoptable(a)
    /\ \E reach \in {"none", "copied", "recorded", "moved"}, move \in Moves :
           AdoptedSoFar(a, reach, move)
    /\ troubles' = troubles + 1
    /\ undisturbed' = FALSE
    /\ UNCHANGED <<outside, hosts, devboxes, reserved, pins, wasGone, runs, events>>

\* The process dies on its way through AdoptKey.
AdoptCutShort(a) ==
    /\ troubles < MaxTroubles
    /\ Due(Action("adopt-key", a, None))
    /\ Adoptable(a)
    /\ \E reach \in {"half", "copied", "recorded", "moved"}, move \in Moves :
           AdoptedSoFar(a, reach, move)
    /\ run' = Idle
    /\ troubles' = troubles + 1
    /\ undisturbed' = FALSE
    /\ UNCHANGED <<outside, hosts, devboxes, reserved, pins, wasGone, runs, events>>

\* There is a key in the profile already.
AdoptRefused(a) ==
    /\ Taking(Action("adopt-key", a, None))
    /\ ~Adoptable(a)
    /\ undisturbed' = FALSE
    /\ UNCHANGED <<outside, home, pins, wasGone, bounds>>

\* A step that fails is reported and the rest still run; adopt-key stops.
StepFails(x) ==
    /\ troubles < MaxTroubles
    /\ Doing("manifest") \/ Doing("outside")
    /\ x \in run.plan /\ (x.kind \in Inside <=> Doing("manifest"))
    /\ x.kind # "adopt-key"
    /\ run' = [run EXCEPT !.plan = IF run.mode = "adopt" THEN {} ELSE @ \ {x}]
    /\ troubles' = troubles + 1
    /\ undisturbed' = FALSE
    /\ UNCHANGED <<outside, home, pins, wasGone, runs, events>>

\* ApplyManifestEdit: the config is rendered, and the next plan is made.
ManifestDone ==
    /\ Doing("manifest")
    /\ ManifestSteps(run.plan) = {}
    /\ Advance([run EXCEPT !.plan = {}])
    /\ UNCHANGED <<outside, home, pins, ghosts, bounds>>

-----------------------------------------------------------------------------
(* ApplyOutside: each step on its own, in the plan's order within a host.  *)

Take(x) ==
    /\ Doing("outside") /\ x \in run.plan
    /\ run' = [run EXCEPT !.plan = @ \ {x}, !.installed = @ \/ x.kind = "install-key"]

Pin(x) ==
    /\ x.kind = "pin" /\ Take(x)
    /\ pins' = IF \E p \in PinsOf(x.alias) : p[2] = x.detail THEN pins
               ELSE pins \cup {<<Token(x.alias), x.detail, "ours">>}
    /\ UNCHANGED <<outside, home, ghosts, bounds>>

\* UnpinTagged, then PinAs unless lines that authama did not write are left.
Repin(x) ==
    LET theirs == PinsOf(x.alias) \ OurPins(x.alias)
    IN  /\ x.kind = "repin" /\ Take(x)
        /\ pins' = (pins \ OurPins(x.alias))
                     \cup (IF theirs = {} THEN {<<Token(x.alias), x.detail, "ours">>} ELSE {})
        /\ undisturbed' = (undisturbed /\ theirs = {})
        /\ UNCHANGED <<outside, home, wasGone, bounds>>

InstallKey(x) ==
    /\ x.kind = "install-key" /\ Take(x)
    /\ vms' = IF State(x.alias) = "running"
              THEN [vms EXCEPT ![VMOf[x.alias]].lets = @ \cup {x.key}] ELSE vms
    /\ undisturbed' = (undisturbed /\ State(x.alias) = "running")
    /\ UNCHANGED <<answers, contexts, current, home, pins, wasGone, bounds>>

DockerApply(x) ==
    /\ x.kind \in {"docker-create", "docker-update"} /\ Take(x)
    /\ contexts' = [contexts EXCEPT ![x.alias] = [marker |-> TRUE, here |-> TRUE]]
    /\ UNCHANGED <<vms, answers, current, home, pins, ghosts, bounds>>

\* docker itself does not remove the current context.
DockerRemove(x) ==
    /\ x.kind = "docker-remove" /\ Take(x)
    /\ contexts' = IF current = x.alias THEN contexts ELSE [contexts EXCEPT ![x.alias] = None]
    /\ undisturbed' = (undisturbed /\ current # x.alias)
    /\ UNCHANGED <<vms, answers, current, home, pins, wasGone, bounds>>

OutsideDone ==
    /\ Doing("outside")
    /\ OutsideSteps(run.plan) = {}
    /\ Advance([run EXCEPT !.plan = {}])
    /\ UNCHANGED <<outside, home, pins, ghosts, bounds>>

\* doctor --fix removes the tagged pins no host of the manifest uses.
Prune ==
    /\ Doing("prune")
    /\ pins' = Pruned(hosts)
    /\ Advance([run EXCEPT !.plan = {}])
    /\ UNCHANGED <<outside, home, ghosts, bounds>>

\* vm adopt-key: backup, host, key, reservation.
StartAdopt(a) ==
    /\ run.steps = <<>> /\ runs < MaxRuns
    /\ hosts[a] = None /\ loose[a]
    /\ run' = [Idle EXCEPT !.mode = "adopt", !.steps = <<"backup", "manifest">>,
                           !.plan = {Action("add-devbox", a, None), Action("adopt-key", a, None)}]
    /\ undisturbed' = FALSE /\ wasGone' = {}
    /\ runs' = runs + 1
    /\ UNCHANGED <<outside, home, pins, events, troubles>>

Crash ==
    /\ run.steps # <<>> /\ troubles < MaxTroubles
    /\ run' = Idle
    /\ troubles' = troubles + 1
    /\ undisturbed' = FALSE
    /\ UNCHANGED <<outside, home, pins, wasGone, runs, events>>

-----------------------------------------------------------------------------
(* Everybody else                                                          *)

Event ==
    /\ events < MaxEvents
    /\ events' = events + 1
    /\ undisturbed' = FALSE
    /\ UNCHANGED <<run, runs, troubles>>

\* The person and the hypervisor.
PowerOn(v) ==
    /\ Event /\ vms[v].state = "stopped"
    /\ vms' = [vms EXCEPT ![v].state = "running"]
    /\ UNCHANGED <<answers, contexts, current, home, pins, wasGone>>

PowerOff(v) ==
    /\ Event /\ vms[v].state = "running"
    /\ vms' = [vms EXCEPT ![v].state = "stopped"]
    /\ UNCHANGED <<answers, contexts, current, home, pins, wasGone>>

DeleteVM(v) ==
    /\ Event /\ vms[v].state # "gone"
    /\ vms' = [vms EXCEPT ![v].state = "gone"]
    /\ wasGone' = wasGone \cup {v}
    /\ UNCHANGED <<answers, contexts, current, home, pins>>

\* A VM of the same name, with a host key of its own, that lets nobody in yet.
Rebuild(v, guest) ==
    /\ Event /\ guest # vms[v].guest
    /\ vms' = [vms EXCEPT ![v] = [state |-> "running", guest |-> guest, lets |-> {}]]
    /\ UNCHANGED <<answers, contexts, current, home, pins, wasGone>>

Hypervisor ==
    /\ Event /\ answers' = ~answers
    /\ UNCHANGED <<vms, contexts, current, home, pins, wasGone>>

MakeContext(a, here) ==
    /\ Event
    /\ contexts' = [contexts EXCEPT ![a] = [marker |-> FALSE, here |-> here]]
    /\ UNCHANGED <<vms, answers, current, home, pins, wasGone>>

UseContext(a) ==
    /\ Event /\ contexts[a] # None /\ current # a
    /\ current' = a
    /\ UNCHANGED <<vms, answers, contexts, home, pins, wasGone>>

\* ssh's own question, answered by the person.
Accept(a) ==
    /\ Event /\ IsVMHost(hosts, a) /\ State(a) = "running" /\ PinsOf(a) = {}
    /\ pins' = pins \cup {<<Token(a), Guests(a), "theirs">>}
    /\ UNCHANGED <<outside, home, wasGone>>

\* authama.json
Declare(a, d) ==
    /\ Event /\ run.steps = <<>> /\ devboxes[a] # d
    /\ devboxes' = [devboxes EXCEPT ![a] = d]
    /\ UNCHANGED <<outside, hosts, keyVars, reserved, pins, wasGone>>

\* Other commands, when they get the lock: host add, host delete, key reserve,
\* and reconcile, which mints the key that is missing.
AddHost(a, vm) ==
    /\ Event /\ ~Locked /\ hosts[a] = None
    /\ hosts' = [hosts EXCEPT ![a] = [vm |-> vm, named |-> vm, key |-> "derived"]]
    /\ UNCHANGED <<outside, devboxes, keyVars, reserved, pins, wasGone>>

DeleteHost(a) ==
    /\ Event /\ ~Locked /\ hosts[a] # None
    /\ WithoutHost(a)
    /\ UNCHANGED <<outside, devboxes, files, loose, reserved, wasGone>>

Reserve(a) ==
    /\ Event /\ ~Locked /\ loose[a] /\ a \notin reserved
    /\ reserved' = reserved \cup {a}
    /\ UNCHANGED <<outside, hosts, devboxes, keyVars, pins, wasGone>>

Reconcile(a) ==
    /\ Event /\ ~Locked /\ hosts[a] # None
    /\ files[a][hosts[a].key] = "none"
    /\ files' = [files EXCEPT ![a][hosts[a].key] = hosts[a].key]
    /\ recorded' = recorded \cup {<<a, hosts[a].key>>}
    /\ UNCHANGED <<outside, hosts, devboxes, loose, reserved, pins, wasGone>>

Init ==
    /\ \E s \in Starts :
        /\ vms = s.vms /\ contexts = s.contexts /\ hosts = s.hosts
        /\ devboxes = s.devboxes /\ loose = s.loose /\ pins = s.pins
    /\ files = [a \in Alias |-> [n \in Names |->
                   IF hosts[a] # None /\ hosts[a].key = n THEN n ELSE "none"]]
    /\ recorded = {<<a, n>> \in Alias \X Names : files[a][n] # "none"}
    /\ answers = TRUE /\ current = None /\ reserved = {}
    /\ run = Idle
    /\ undisturbed = FALSE /\ wasGone = {}
    /\ runs = 0 /\ events = 0 /\ troubles = 0

Sync ==
    \/ \E mode \in DOMAIN Sequel, opt \in Opts : StartSync(mode, opt)
    \/ BeginPlan \/ Probe \/ EndPlan \/ Agree \/ Run \/ Backup
    \/ ManifestDone \/ OutsideDone \/ Prune \/ Crash
    \/ \E yes \in BOOLEAN : Answer(yes)
    \/ \E a \in Alias :
        \/ Scan(a) \/ RemoveHost(a) \/ AddVMHost(a) \/ UpdateDevbox(a) \/ StartAdopt(a)
        \/ Adopt(a) \/ AdoptFails(a) \/ AdoptCutShort(a) \/ AdoptRefused(a)
    \/ \E x \in run.plan :
        \/ StepFails(x) \/ Pin(x) \/ Repin(x) \/ InstallKey(x)
        \/ DockerApply(x) \/ DockerRemove(x)

Others ==
    \/ \E v \in VM : PowerOn(v) \/ PowerOff(v) \/ DeleteVM(v) \/ \E g \in Guest : Rebuild(v, g)
    \/ Hypervisor
    \/ \E a \in Alias :
        \/ \E b \in BOOLEAN : MakeContext(a, b) \/ AddHost(a, b)
        \/ \E d \in {"no", "plain", "key"} : Declare(a, d)
        \/ UseContext(a) \/ Accept(a) \/ DeleteHost(a) \/ Reserve(a) \/ Reconcile(a)

Next == Sync \/ Others

VMSyncSpec == Init /\ [][Next]_vmsyncVars

-----------------------------------------------------------------------------
(* Properties                                                              *)

\* Everything has its type. A guest lets in keys only, so that a sync installs
\* the text of a .pub it has found, and each VM host has one pin of authama's.
VMSyncTypeOK ==
    /\ vms \in [VM -> [state : {"running", "stopped", "gone"}, guest : Guest, lets : SUBSET Keys]]
    /\ answers \in BOOLEAN /\ undisturbed \in BOOLEAN
    /\ contexts \in [Alias -> Contexts \cup {None}] /\ current \in Alias \cup {None}
    /\ hosts \in [Alias -> HostRecords \cup {None}] /\ run.backup \in [Alias -> HostRecords \cup {None}]
    /\ devboxes \in [Alias -> {"no", "plain", "key"}]
    /\ files \in [Alias -> [Names -> Keys \cup {"none", "half"}]]
    /\ loose \in [Alias -> BOOLEAN] /\ reserved \subseteq Alias
    /\ recorded \subseteq Alias \X Names /\ wasGone \subseteq VM
    /\ pins \subseteq Tokens \X Guest \X {"ours", "theirs"}
    /\ \A a \in Alias : Cardinality(OurPins(a)) <= 1
    /\ run.look \subseteq Alias /\ (run.view = None => run.look = {} /\ run.at = None)

\* A sync takes a host off the manifest only when its VM has been gone at some
\* time while the sync was at work, though others delete and rebuild VMs between
\* its plans, the hypervisor may not answer, and it may list running VMs only.
HostOutlivesItsVM ==
    [][\A a \in Alias :
          hosts[a] # None /\ hosts'[a] = None /\ Doing("manifest") => VMOf[a] \in wasGone]_vmsyncVars

\* What a sync of the terminal changes in the manifest is in the copy it made
\* first, as it was just before. (The web's copy is made from another plan, and
\* may be missing.)
ChangedHostIsBackedUp ==
    [][\A a \in Alias :
          hosts'[a] # hosts[a] /\ Doing("manifest") /\ run.mode # "web" => run.backup[a] = hosts[a]]_vmsyncVars

\* What is pinned for a host that stays is taken away only by a run that was
\* asked to (--repin), whatever the guest at its address offers; and a run that
\* nothing disturbs adds no second key to it. (One whose scan is stale does, when
\* the person has accepted another key in the meantime.)
ChangedKeyNeedsRepin ==
    [][\A a \in Alias :
          hosts'[a] # None /\ hosts'[a].named /\ PinsOf(a) # {} /\ PinsOf(a)' # PinsOf(a)
              => \/ run.opt # None /\ run.opt.repin
                 \/ PinsOf(a) \subseteq PinsOf(a)' /\ ~undisturbed]_vmsyncVars

\* What is carried out after a question, up to the plan that follows the changes
\* of the manifest, is what was shown with the question, although the world has
\* moved between the question and the answer.
AppliedWasShown ==
    [][run.mode \in {"ask", "fix"} /\ run'.steps # <<>>
         /\ (Doing("manifest") \/ (Doing("outside") /\ \A l \in run.shown : l[1] \notin Inside))
       => Lines(run.plan \ run'.plan) \subseteq run.shown]_vmsyncVars

\* Both: a sync does to pins and hosts what the person asked for and was shown.
OnlyWhatWasAskedFor == ChangedKeyNeedsRepin /\ AppliedWasShown

\* The original of an adopted key goes (--move), and its reservation too, only
\* once the pair lies in the profile and is recorded, wherever the adoption is
\* cut short.
AdoptionKeepsTheKey ==
    [][\A a \in Alias :
          (loose[a] /\ ~loose'[a]) \/ (a \in reserved /\ a \notin reserved')
              => files'[a]["declared"] = "loose" /\ <<a, "declared">> \in recorded']_vmsyncVars

\* The three of them: nothing a sync takes away is lost.
SyncLosesNothing == HostOutlivesItsVM /\ ChangedHostIsBackedUp /\ AdoptionKeepsTheKey

\* What a plan would hold now, made in one go.
PlanNow(opt) ==
    LET vmHosts == {a \in Alias : IsVMHost(hosts, a)}
        gone == UNION {PlanGone(a, opt, contexts) : a \in {b \in vmHosts : Gone(b)}}
        running == {a \in vmHosts : opt.probe /\ State(a) = "running"}
        outcome(a) == Probed(a, hosts[a], Guests(a))
    IN  (IF answers
         THEN gone \cup UNION {PlanPin(a, Guests(a), opt) \cup PlanInstall(a, hosts[a], outcome(a))
                                  \cup PlanDocker(a, outcome(a), contexts[a]) : a \in running}
         ELSE {})
        \cup UNION {PlanDevbox(a, hosts) : a \in Alias} \cup Stray(hosts, contexts, gone)

\* "Running it twice changes nothing the second time": after a run of the
\* terminal that nothing disturbed there is nothing left to do, new devboxes
\* included. Two runs are left out, which do leave something: one that installed
\* a key (the guest is asked for Docker only once the key works), and a doctor's
\* run with a VM host that has an address of its own, whose pin it removes.
SecondRunChangesNothing ==
    (/\ run.steps = <<>> /\ run.mode \in {"ask", "yes", "fix"}
     /\ undisturbed /\ ~run.installed
     /\ run.mode = "fix" => \A a \in Alias : hosts[a] # None => hosts[a].named)
    => PlanNow(run.opt) = {}
=============================================================================
