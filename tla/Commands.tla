------------------------------ MODULE Commands ------------------------------
(***************************************************************************)
(* The commands of the terminal, the changes of a page and the jobs of the *)
(* server, side by side, file by file. Guard has the lock and the slot     *)
(* themselves; here is what is read and written around them.               *)
(*                                                                         *)
(* A file's content is the set of changes it holds, so that a save made    *)
(* from an old reading loses one. A change of the manifest that the config *)
(* is made of is told from the others.                                     *)
(***************************************************************************)
EXTENDS TerminalCommands, WebChanges, Integers, TLC

CONSTANTS
    Actor,      \* terminals and browsers, each with one command to give
    LeftOut,    \* commands nobody gives
    None

Terminal ==
    [host_add |-> host_add, host_edit |-> host_edit, host_delete |-> host_delete,
     host_apply |-> host_apply, reconcile |-> reconcile, profile_add |-> profile_add,
     profile_edit |-> profile_edit, profile_delete |-> profile_delete,
     naming_set |-> naming_set, naming_key_template |-> naming_key_template,
     key_delete |-> key_delete, key_add |-> key_add, key_regen_pub |-> key_regen_pub,
     key_adopt |-> key_adopt, key_lifetime |-> key_lifetime, key_revoke |-> key_revoke,
     key_root |-> key_root, key_reserve |-> key_reserve, key_unreserve |-> key_unreserve,
     keygen |-> keygen, deploy |-> deploy, rotateOne |-> rotateOne, rotateMany |-> rotateMany,
     rollback |-> rollback, config_render |-> config_render,
     knownhosts_init |-> knownhosts_init, knownhosts_pin |-> knownhosts_pin,
     git_use |-> git_use, clean |-> clean, doctor_fix |-> doctor_fix, repair |-> repair,
     vm_add |-> vm_add, vm_docker_context |-> vm_docker_context, vm_sync |-> vm_sync,
     vmSchedule |-> vmSchedule, vm_adopt_key |-> vm_adopt_key,
     snapshots_restore |-> snapshots_restore, snapshots_prune |-> snapshots_prune,
     bundle |-> bundle, restore |-> restore, import |-> import, migrate |-> migrate,
     init |-> init, token_set |-> token_set, token_delete |-> token_delete,
     token_apply |-> token_apply, token_examples |-> token_examples, token_init |-> token_init,
     token_import |-> token_import, token_shell_aliases |-> token_shell_aliases,
     token_reveal |-> token_reveal, providers_export |-> providers_export,
     notify_install |-> notify_install, settings_init |-> settings_init,
     export_selections_save |-> export_selections_save,
     export_selections_delete |-> export_selections_delete,
     export_schedule_add |-> export_schedule_add,
     export_schedule_remove |-> export_schedule_remove,
     export_schedule_run |-> export_schedule_run,
     export_schedule_install |-> export_schedule_install, history_import |-> history_import,
     owner_init |-> owner_init, owner_reseal |-> owner_reseal, owner_forget |-> owner_forget,
     owner_pin |-> owner_pin, owner_biometric |-> owner_biometric]

Programs == UNION {Terminal[c] : c \in DOMAIN Terminal \ LeftOut}
    \union Reviewed(EditChanges \union ServiceChanges) \union Jobs

-----------------------------------------------------------------------------
(***************************************************************************)
(* The discipline of the guard (mutation/guard.go), of what a program has  *)
(* still to do: q is that, holds that it has the lock, fresh the files it  *)
(* has read since it got it, agreed that nothing that was shown may have   *)
(* changed. A position is one of q.                                        *)
(***************************************************************************)
Word == {"slot", "free", "lock", "load", "confirm", "show", "recheck", "compare",
         "save", "hosts", "put", "create", "render", "tell", "reach"}
Writing == {"save", "hosts", "put", "create", "render"}
Acting == Writing \union {"reach"}
StepRecord == [does : Word, files : SUBSET File]

\* All but the selections a person keeps to themselves, a file each, which are
\* replaced without the lock and never shown.
Guarded == File \ {"selections"}

Holds(q, holds, i) == holds \/ \E k \in 1..(i - 1) : q[k].does = "lock"

Knows(q, holds, fresh, i, f) ==
    \/ f \in fresh
    \/ /\ f \in Guarded
       /\ \E k \in 1..(i - 1) : /\ q[k].does \in {"load", "recheck"}
                              /\ f \in q[k].files
                              /\ Holds(q, holds, k)

\* From here nothing that was shown before matters: it was looked at again, or acted on.
Settles(q, holds, i) ==
    \/ q[i].does \in {"recheck", "compare"} /\ Holds(q, holds, i)
    \/ q[i].does \in Acting

\* A file is written, and looked at again, with the lock,
WritesLocked(q, holds) ==
    \A i \in DOMAIN q :
        /\ q[i].does \in Writing => /\ Holds(q, holds, i) \/ q[i].files \intersect Guarded = {}
                                  /\ \E f \in File : q[i].files = {f}
        /\ q[i].does = "recheck" => Holds(q, holds, i)

\* from what was read with the lock,
WritesFresh(q, holds, fresh) ==
    \A i \in DOMAIN q :
        /\ q[i].does \in {"save", "hosts"} => \A f \in q[i].files : Knows(q, holds, fresh, i, f)
        /\ q[i].does = "render" => Knows(q, holds, fresh, i, "manifest")

\* and not on a "yes" to what may have changed since.
ActsAsAgreed(q, holds, fresh, agreed) ==
    \A i \in DOMAIN q : q[i].does \in Acting =>
        /\ agreed \/ \E m \in 1..(i - 1) : Settles(q, holds, m)
        /\ \A j \in 1..(i - 1) : q[j].does = "show" =>
              \/ Holds(q, holds, j) /\ \A f \in q[j].files : Knows(q, holds, fresh, j, f)
              \/ \E m \in (j + 1)..(i - 1) : Settles(q, holds, m)

\* A change of the manifest is rendered, or the person is told to, and no check comes between.
RendersAfter(q) ==
    \A i \in DOMAIN q :
        q[i].does = "hosts" \/ (q[i].does = "put" /\ q[i].files = {"manifest"})
        => \E k \in (i + 1)..Len(q) :
              /\ q[k].does \in {"render", "tell"}
              /\ \A m \in (i + 1)..k : q[m].does \notin {"recheck", "compare"}

\* Which files a step is about, where its effect does not say.
NamesItsFiles(q) ==
    \A i \in DOMAIN q :
        /\ q[i].does = "hosts" => q[i].files = {"manifest"}
        /\ q[i].does = "render" => q[i].files = {"config"}
        /\ q[i].does \in {"show", "recheck", "compare"} => q[i].files \subseteq Guarded

KeepsToTheLock(p) ==
    /\ WritesLocked(p, FALSE)
    /\ WritesFresh(p, FALSE, {})
    /\ ActsAsAgreed(p, FALSE, {}, TRUE)
    /\ RendersAfter(p)
    /\ NamesItsFiles(p)

\* So does every command but those left out.
ASSUME EveryProgramKeepsToTheLock ==
    \A p \in Programs : p \in Seq(StepRecord) /\ KeepsToTheLock(p)

-----------------------------------------------------------------------------
VARIABLES
    stage,      \* of an actor: "idle", "running", "ended"
    left,       \* the steps a running command has left
    lock, slot, \* who holds them, or None
    disk,       \* of a file, the changes it holds
    mem,        \* what a command last read of a file
    shown,      \* what a person was shown and agreed to, until the first write; or None
    adrift      \* changes the config may lack: a command cut short, a person told to render

vars == <<stage, left, lock, slot, disk, mem, shown, adrift>>

\* A change, and whether the config is made of it.
Change == Actor \X BOOLEAN
Nothing == [f \in File |-> {}]

\* None is nobody, and nothing that can be shown.
ASSUME CommandsAssumption ==
    None \notin Actor /\ \A fs \in SUBSET File : None \notin [fs -> SUBSET Change]

Init ==
    /\ stage = [a \in Actor |-> "idle"]
    /\ left = [a \in Actor |-> <<>>]
    /\ lock = None
    /\ slot = None
    /\ disk = Nothing
    /\ mem = [a \in Actor |-> Nothing]
    /\ shown = [a \in Actor |-> None]
    /\ adrift = {}

-----------------------------------------------------------------------------

Doing(a, does) ==
    /\ stage[a] = "running"
    /\ left[a] # <<>>
    /\ Head(left[a]).does = does

Files(a) == Head(left[a]).files
Reading(a) == [f \in File |-> IF f \in Files(a) THEN disk[f] ELSE mem[a][f]]
Seen(content, files) == [f \in files |-> content[f]]

GoOn(a) ==
    /\ left' = [left EXCEPT ![a] = Tail(@)]
    /\ UNCHANGED stage

\* The process is gone, or Scoped and Exclusive have let go.
Leave(a) ==
    /\ stage' = [stage EXCEPT ![a] = "ended"]
    /\ left' = [left EXCEPT ![a] = <<>>]
    /\ lock' = IF lock = a THEN None ELSE lock
    /\ slot' = IF slot = a THEN None ELSE slot
    /\ mem' = [mem EXCEPT ![a] = Nothing]
    /\ shown' = [shown EXCEPT ![a] = None]

Start(a) ==
    /\ stage[a] = "idle"
    /\ stage' = [stage EXCEPT ![a] = "running"]
    /\ \E p \in Programs : left' = [left EXCEPT ![a] = p]
    /\ UNCHANGED <<lock, slot, disk, mem, shown, adrift>>

Finished(a) ==
    /\ stage[a] = "running"
    /\ left[a] = <<>>
    /\ Leave(a)
    /\ UNCHANGED <<disk, adrift>>

\* A "no", an error, a busy server or the end of the process, before any step.
CutShort(a) ==
    /\ stage[a] = "running"
    /\ left[a] # <<>>
    /\ Leave(a)
    /\ adrift' = adrift \union {<<a, TRUE>>}
    /\ UNCHANGED disk

TakeSlot(a) ==
    /\ Doing(a, "slot")
    /\ slot = None
    /\ slot' = a
    /\ GoOn(a)
    /\ UNCHANGED <<lock, disk, mem, shown, adrift>>

FreeSlot(a) ==
    /\ Doing(a, "free")
    /\ slot' = None
    /\ GoOn(a)
    /\ UNCHANGED <<lock, disk, mem, shown, adrift>>

\* As LockForMutation, whoever has the lock not waited for.
LockForMutation_NotWaiting(a) ==
    /\ Doing(a, "lock")
    /\ lock' = a
    /\ GoOn(a)
    /\ UNCHANGED <<slot, disk, mem, shown, adrift>>

LockForMutation(a) ==
    /\ Doing(a, "lock")
    /\ lock \in {None, a}
    /\ lock' = a
    /\ GoOn(a)
    /\ UNCHANGED <<slot, disk, mem, shown, adrift>>

Read(a) ==
    /\ Doing(a, "load")
    /\ mem' = [mem EXCEPT ![a] = Reading(a)]
    /\ GoOn(a)
    /\ UNCHANGED <<lock, slot, disk, shown, adrift>>

Ask(a) ==
    /\ Doing(a, "confirm")
    /\ GoOn(a)
    /\ UNCHANGED <<lock, slot, disk, mem, shown, adrift>>

AskWhatIsShown(a) ==
    /\ Doing(a, "show")
    /\ shown' = [shown EXCEPT ![a] = Seen(mem[a], Files(a))]
    /\ GoOn(a)
    /\ UNCHANGED <<lock, slot, disk, mem, adrift>>

\* The text may be the same though a file is not: it is then as agreed.
RecheckAgrees(a) ==
    /\ Doing(a, "recheck")
    /\ mem' = [mem EXCEPT ![a] = Reading(a)]
    /\ shown' = [shown EXCEPT ![a] = Seen(disk, Files(a))]
    /\ GoOn(a)
    /\ UNCHANGED <<lock, slot, disk, adrift>>

RecheckDiffers(a) ==
    /\ Doing(a, "recheck")
    /\ shown[a] # Seen(disk, Files(a))
    /\ Leave(a)
    /\ UNCHANGED <<disk, adrift>>

\* As HashAgrees, the hash not looked at.
HashAgrees_Unread(a) ==
    /\ Doing(a, "compare")
    /\ GoOn(a)
    /\ UNCHANGED <<lock, slot, disk, mem, shown, adrift>>

\* The hash covers every file that was shown, whole.
HashAgrees(a) ==
    /\ Doing(a, "compare")
    /\ shown[a] = Seen(disk, Files(a))
    /\ GoOn(a)
    /\ UNCHANGED <<lock, slot, disk, mem, shown, adrift>>

Stale(a) ==
    /\ Doing(a, "compare")
    /\ shown[a] # Seen(disk, Files(a))
    /\ Leave(a)
    /\ UNCHANGED <<disk, adrift>>

-----------------------------------------------------------------------------

Writes(a, f, content) ==
    /\ disk' = [disk EXCEPT ![f] = content]
    /\ mem' = [mem EXCEPT ![a][f] = content]
    /\ shown' = [shown EXCEPT ![a] = None]
    /\ GoOn(a)
    /\ UNCHANGED <<lock, slot>>

SaveFile(a) ==
    /\ Doing(a, "save")
    /\ \A f \in Files(a) : Writes(a, f, mem[a][f] \union {<<a, FALSE>>})
    /\ UNCHANGED adrift

SaveManifest(a) ==
    /\ Doing(a, "hosts")
    /\ Writes(a, "manifest", mem[a]["manifest"] \union {<<a, TRUE>>})
    /\ UNCHANGED adrift

\* A config put back is older than the manifest.
PutFile(a) ==
    /\ Doing(a, "put")
    /\ \A f \in Files(a) : Writes(a, f, {<<a, TRUE>>})
    /\ adrift' = IF Files(a) = {"config"} THEN adrift \union disk["manifest"] ELSE adrift

CreateFile(a) ==
    /\ Doing(a, "create")
    /\ \A f \in Files(a) : disk[f] = {} /\ Writes(a, f, {<<a, FALSE>>})
    /\ UNCHANGED adrift

\* As Render, a config that is there already left as it is.
Render_Once(a) ==
    /\ Doing(a, "render")
    /\ Writes(a, "config", IF disk["config"] = {} THEN mem[a]["manifest"] ELSE disk["config"])
    /\ UNCHANGED adrift

Render(a) ==
    /\ Doing(a, "render")
    /\ Writes(a, "config", mem[a]["manifest"])
    /\ UNCHANGED adrift

Tell(a) ==
    /\ Doing(a, "tell")
    /\ adrift' = adrift \union {<<a, TRUE>>}
    /\ GoOn(a)
    /\ UNCHANGED <<lock, slot, disk, mem, shown>>

ActOutside(a) ==
    /\ Doing(a, "reach")
    /\ shown' = [shown EXCEPT ![a] = None]
    /\ GoOn(a)
    /\ UNCHANGED <<lock, slot, disk, mem, adrift>>

\* Every command has been given and has ended.
Over ==
    /\ \A a \in Actor : stage[a] = "ended"
    /\ UNCHANGED vars

Next ==
    \/ \E a \in Actor :
          \/ Start(a) \/ Finished(a) \/ CutShort(a)
          \/ TakeSlot(a) \/ FreeSlot(a) \/ LockForMutation(a)
          \/ Read(a) \/ Ask(a) \/ AskWhatIsShown(a)
          \/ RecheckAgrees(a) \/ RecheckDiffers(a) \/ HashAgrees(a) \/ Stale(a)
          \/ SaveFile(a) \/ SaveManifest(a) \/ PutFile(a) \/ CreateFile(a) \/ Render(a)
          \/ Tell(a) \/ ActOutside(a)
    \/ Over

Spec == Init /\ [][Next]_vars

-----------------------------------------------------------------------------

CommandsTypeOK ==
    /\ stage \in [Actor -> {"idle", "running", "ended"}]
    /\ left \in [Actor -> Seq(StepRecord)]
    /\ {lock, slot} \subseteq Actor \union {None}
    /\ disk \in [File -> SUBSET Change]
    /\ mem \in [Actor -> [File -> SUBSET Change]]
    /\ DOMAIN shown = Actor
    /\ \A a \in Actor : shown[a] # None => DOMAIN shown[a] \subseteq File
    /\ adrift \subseteq Change

Replaces(f) == \E a \in Actor : Doing(a, "put") /\ f \in Files(a) /\ left'[a] = Tail(left[a])

\* No command, change or job takes another's change out of a file, unless it is one
\* that replaces the file: whatever it saves was read after the last change of it.
NoUpdateIsLost ==
    [][\A f \in File \ {"config"} : disk[f] \subseteq disk'[f] \/ Replaces(f)]_vars

\* Once nobody is changing anything, ~/.ssh/config has what the manifest has, save for
\* what a command cut short or one that says to render has left for the person to do.
ConfigFollowsManifest ==
    lock = None => {c \in disk["manifest"] : c[2]} \subseteq disk["config"] \union adrift

\* What a person was shown and said yes to is how things are when the first change is made.
ConfirmedIsCurrent ==
    [][\A a \in Actor :
          shown[a] # None /\ shown'[a] = None /\ stage'[a] = "running"
          => shown[a] = Seen(disk, DOMAIN shown[a])]_vars

=============================================================================
