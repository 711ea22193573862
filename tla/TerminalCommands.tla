-------------------------- MODULE TerminalCommands --------------------------
(***************************************************************************)
(* The commands of internal/cli that change something, each as the set of  *)
(* programs it may run as. A command's process keeps the lock, once taken, *)
(* until it ends. Flags that only choose what is printed, and dry runs,    *)
(* change nothing and are left out.                                        *)
(***************************************************************************)
EXTENDS Steps

-----------------------------------------------------------------------------
(* Hosts and profiles                                                      *)

\* An alias nobody typed is worked out from the manifest, before the lock.
host_add == {named \o Lock \o EditHosts \o ApplyManifestEdit :
             named \in {<<>>, Load({"manifest"})}}

host_edit == {Lock \o EditHosts \o ApplyManifestEdit}

host_delete == {Confirm \o Confirm \o Lock \o DeleteHost}

\* The reconciling of newReconcileCmd, and of host apply --reconcile.
reconcileApply(willAsk, pins) ==
    Opening(willAsk, State) \o Reconciled \o (IF pins THEN Edit("pins") ELSE <<>>)

reconcile == {reconcileApply(willAsk, pins) : willAsk, pins \in BOOLEAN}

\* With --reconcile the second question is asked with the lock held.
host_apply ==
    {Opening(willAsk, {"manifest"}) \o ApplyHosts(creates) \o ApplyManifestEdit \o after :
       willAsk, creates \in BOOLEAN,
       after \in {<<>>} \union {reconcileApply(TRUE, TRUE), reconcileApply(FALSE, FALSE)}}

profile_add == {Lock \o EditHosts \o more \o ApplyManifestEdit :
                more \in {<<>>, MoveHosts \o EditHosts}}

profile_edit == {Lock \o edits \o ApplyManifestEdit :
                 edits \in {EditHosts, MoveHosts, MoveHosts \o EditHosts}}

profile_delete == {Confirm \o Confirm \o Lock \o DeleteHost}

naming_set == {Lock \o Edit("manifest")}

naming_key_template == {Confirm \o Lock \o Edit("manifest")}

-----------------------------------------------------------------------------
(* Keys                                                                    *)

key_delete == AskedOrNot({"manifest"}, DeleteKey)

\* The passphrase is asked for with the lock held.
key_add == {Lock \o asks \o EditHosts \o Load(State) \o Save("inventory") \o ApplyManifestEdit :
            asks \in {<<>>, Confirm}}

key_regen_pub == AskedOrNot(State, Save("inventory"))

key_adopt == {Confirm \o Lock \o EditHosts \o Load(State) \o Save("inventory") \o TellToRender}

key_lifetime == {read \o Confirm \o Lock \o EditRecords : read \in {<<>>, Load({"manifest"})}}

key_revoke == {Load({"manifest"}) \o Confirm \o Lock \o RevokeKey}

key_root == {Load({"manifest"}) \o Confirm \o Lock \o MoveHosts \o ApplyManifestEdit}

key_reserve == {Load({"manifest"}) \o Confirm \o Lock \o Edit("manifest")}

key_unreserve == {Load({"manifest"}) \o Confirm \o Lock \o Edit("manifest")}

\* Overwriting is asked for key by key, minting once: both before the lock.
keygen == AskedOrNot(State, Save("inventory") \o Edit("pins"))

deploy == {Lock \o Confirm \o Load(State) \o Save("inventory")}

rotateOne == {Confirm \o Lock \o Load(State) \o Save("inventory")}

\* The lock is held while the person is asked, and a save follows each key.
rotateMany == {Lock \o Load(State) \o Confirm \o Save("inventory") \o Save("inventory")}

rollback == {Confirm \o Lock \o Load(State) \o Save("inventory")}

-----------------------------------------------------------------------------
(* The rendered files                                                      *)

\* What is rendered is the manifest read again under the lock.
config_render == {Load({"manifest"}) \o Confirm \o Lock \o Load({"manifest"}) \o pins \o WriteConfig :
                  pins \in {<<>>, Edit("pins")}}

knownhosts_init == {Confirm \o Lock \o Load({"manifest"}) \o Edit("pins")}

\* Scans and asks with the lock held.
knownhosts_pin == {Lock \o Load({"manifest"}) \o Confirm \o Edit("pins")}

git_use == {Load({"manifest"}) \o Confirm \o Lock \o Reach}

clean == {Confirm \o Lock \o CleanerRun}

\* Upkeep is agreed to from a plan, and only done while the plan is the same.
doctor_fix ==
    {Show({"manifest", "pins"}) \o Recheck({"manifest", "pins"}) \o sync
       \o Load({"manifest"}) \o Edit("pins") : sync \in {<<>>, RunVMSync}}
    \union {Load({"manifest"}) \o Lock \o Reach}

\* What was found, and what fixes it, is from before the lock.
repair == {Show(State) \o Lock \o fix :
           fix \in {Save("inventory"), WriteConfig, Save("inventory") \o WriteConfig}}

-----------------------------------------------------------------------------
(* Virtual machines                                                        *)

vm_add == {Confirm \o Lock \o AddVMHost \o ApplyManifestEdit}

vm_docker_context == {Load({"manifest"}) \o Lock \o Reach}

\* runVMSync plans again between the manifest and what is outside it.
vm_sync == UNION {AskedOrNot({"manifest", "pins"}, run) : run \in {RunVMSync, ApplyOutside}}

vmSchedule == {Confirm \o Lock \o Reach}

vm_adopt_key == {read \o Confirm \o Lock \o AddVMHost \o AdoptKeyOfVM :
                 read \in {<<>>, Load({"manifest"})}}

-----------------------------------------------------------------------------
(* Archives, imports and the first home                                    *)

snapshots_restore == {Confirm \o Lock \o RestoreByID}
snapshots_prune == {Lock \o Reach}

bundle == {Lock \o Reach}
restore == {Confirm \o Lock \o LayDown}

import == {Confirm \o Lock \o Load({"manifest"}) \o ImportRun \o TellToRender}

\* The old home is copied over, or moved in place of the one there.
migrate == {Confirm \o Lock \o Put("manifest") \o Put("inventory") \o TellToRender}

\* --force replaces what is there; without it only what is missing is made.
init == {Lock \o Put("manifest") \o Put("inventory") \o TellToRender,
         Lock \o Create("manifest") \o Create("inventory")}

-----------------------------------------------------------------------------
(* Tokens                                                                  *)

token_set == {Lock \o Edit("credentials")}

token_delete == {Load({"credentials"}) \o Confirm \o Lock \o Edit("credentials")}

\* What is written comes from the config as it was before the lock.
token_apply == {Load({"tokens"}) \o Lock \o asks \o Edit("credentials") : asks \in {<<>>, Confirm}}

token_examples == {Lock \o Edit("credentials")}

token_init == {Lock \o Create("tokens")}

token_import == {Lock \o Create("tokens")}

token_shell_aliases == {Lock \o Reach}

token_reveal == {Load({"credentials"}) \o Confirm \o Lock \o Reach}

-----------------------------------------------------------------------------
(* Catalogues, settings, selections and schedules                          *)

providers_export == {Lock \o Create("providers"), Lock \o Put("providers")}

notify_install == {Confirm \o Lock \o Reach}

settings_init == {Create("settings"), Put("settings")}

\* The manifest's selections are guarded; the user's own are a file each, and are not.
export_selections_save == {Confirm \o Lock \o Edit("manifest"), Put("selections")}

export_selections_delete == {Load({"manifest"}) \o delete : delete \in export_selections_save}

\* schedules.json is read and written without the lock.
export_schedule_add == {Load({"manifest"}) \o Edit("schedules")}

export_schedule_remove == {Edit("schedules")}

export_schedule_run == {Load({"schedules"}) \o Load({"manifest"}) \o Reach}

export_schedule_install == {Reach}

\* A list of operations: an empty history is filled from the logs, under the lock.
history_import == {Lock \o Reach}

-----------------------------------------------------------------------------
(* The owner, whose files are Owner's                                      *)

owner_init == {Confirm \o Lock \o Reach}
owner_reseal == {Confirm \o Reach}
owner_forget == {Confirm \o Lock \o Reach}
owner_pin == {confirm \o Lock \o Reach : confirm \in {<<>>, Confirm}}
owner_biometric == {Lock \o Reach}

=============================================================================
