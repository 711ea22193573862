----------------------------- MODULE WebChanges -----------------------------
(***************************************************************************)
(* The changes of a page (internal/services/change), each under its Go     *)
(* name as the set of runs it may be, and what a page makes of a run: a    *)
(* preview that is shown, and an apply that previews again and compares.   *)
(* Then the jobs of the server (internal/web), which hold the slot and the *)
(* lock from start to end.                                                 *)
(***************************************************************************)
EXTENDS Steps

-----------------------------------------------------------------------------
(* Preview, and Apply with the hash that was shown                         *)

Preview == Slot \o Show(Captured) \o Free

\* Scoped locks before it previews again; ErrStale where the hash is another.
Apply(run) == Slot \o Lock \o Step("compare", Captured) \o run

Reviewed(runs) == {Preview \o Confirm \o Apply(run) : run \in runs}

-----------------------------------------------------------------------------
(* Profiles, hosts and keys                                                *)

ProfileAddIn == {EditHosts \o more \o ApplyManifestEdit : more \in {<<>>, MoveHosts \o EditHosts}}
ProfileEdit == {EditHosts \o ApplyManifestEdit}
ProfileKeyComment == {EditHosts \o ApplyManifestEdit}
ProfileCode == {Edit("manifest") \o ApplyManifestEdit}
ProfileCategory == {MoveHosts \o ApplyManifestEdit}
ProfileDelete == {DeleteHost}
ProfilePurge == {Reach \o DeleteHost}

HostAdd == {EditHosts \o ApplyManifestEdit}
HostEdit == {EditHosts \o ApplyManifestEdit}
HostDelete == {DeleteHost}
HostApply == {Load({"manifest"}) \o ApplyHosts(creates) \o ApplyManifestEdit : creates \in BOOLEAN}

NamingSet == {Edit("manifest")}
NamingKeyTemplate == {Edit("manifest")}

KeyDelete == {DeleteKey}
KeyLifetime == {EditRecords}
KeyRoot == {MoveHosts \o ApplyManifestEdit}
KeyReserve == {Edit("manifest")}
KeyUnreserve == {Edit("manifest")}
KeyRegenPub == {Load(State) \o Save("inventory")}

-----------------------------------------------------------------------------
(* Minting, upkeep and archives                                            *)

Reconcile == {Load(State) \o Reconciled}
Keygen == {Load(State) \o Save("inventory")}
KeyAdd == {Load({"manifest"}) \o EditHosts \o Load(State) \o Save("inventory") \o ApplyManifestEdit}

ConfigRender == {Load({"manifest"}) \o pins \o WriteConfig : pins \in {<<>>, Edit("pins")}}
Clean == {CleanerRun}

\* What is fixable is worked out again, with the lock.
Repair == {Load(State) \o fix :
           fix \in {Save("inventory"), WriteConfig, Save("inventory") \o WriteConfig}}

SnapshotsPrune == {Reach}
SnapshotRestore == {RestoreByID}
Bundle == {Reach}
SSHImport == {Load({"manifest"}) \o ImportRun \o TellToRender}

-----------------------------------------------------------------------------
(* Virtual machines, the outside, selections, tokens and settings          *)

VMAdd == {AddVMHost \o ApplyManifestEdit}

\* What is outside the manifest first, as a preview cannot show it.
VMSync == {ApplyOutside, ApplyOutside \o EditHosts \o ApplyManifestEdit}

\* The same, and the pins no host needs are pruned.
DoctorFix == {sync \o Load({"manifest"}) \o Edit("pins") : sync \in VMSync}

VMAdoptKey == {AddVMHost \o AdoptKeyOfVM}
VMSchedule == {Reach}
VMDockerContext == {Load({"manifest"}) \o Reach}

NotifyTest == {Load({"manifest"}) \o Reach}
AuditNotify == {Load({"manifest"}) \o Reach}

ExportSelectionSave == {Edit("manifest")}
ExportSelectionDelete == {Edit("manifest")}

TokenDelete == {Edit("credentials")}
TokenSet == {Edit("credentials")}
TokenApply == {Load({"tokens"}) \o Edit("credentials")}
TokenInit == {Create("tokens")}
TokenImport == {Create("tokens")}
TokenConfigEdit == {Put("tokens")}

ProvidersExport == {Create("providers"), Put("providers")}
SettingsInit == {Create("settings"), Put("settings")}

\* The owner's own files are Owner's.
OwnerInit == {Reach}
OwnerPINSet == {Reach}
OwnerPINRemove == {Reach}
OwnerReseal == {Reach}
OwnerForget == {Reach}
OwnerFingerprint == {Reach}

\* buildChange, in its order.
EditChanges == UNION {
    ProfileAddIn, ProfileKeyComment, ProfileEdit, ProfilePurge, ProfileDelete, ProfileCategory,
    HostAdd, HostEdit, HostDelete, KeyDelete, VMAdd, ConfigRender, Reconcile, Keygen, KeyAdd,
    KeyReserve, KeyUnreserve, ProvidersExport, SettingsInit, ExportSelectionSave,
    ExportSelectionDelete, SnapshotsPrune}

ServiceChanges == UNION {
    DoctorFix, VMSync, VMAdoptKey, VMSchedule, HostApply, Clean, Bundle, VMDockerContext,
    SnapshotRestore, NotifyTest, Repair, OwnerInit, OwnerPINSet, OwnerPINRemove, OwnerReseal,
    OwnerForget, OwnerFingerprint, AuditNotify, TokenDelete, TokenApply, TokenSet, TokenInit,
    KeyLifetime, KeyRegenPub, KeyRoot, SSHImport, NamingSet, NamingKeyTemplate, ProfileCode,
    TokenConfigEdit, TokenImport}

-----------------------------------------------------------------------------
(* Jobs                                                                    *)

Job(run) == Slot \o Lock \o run

deployJob == {Load(State) \o Save("inventory")}
rotateJob == {Load(State) \o Save("inventory"), Load(State) \o Confirm \o Save("inventory")}
rollbackJob == {Load(State) \o Save("inventory")}
rotateKeysJob == {Load(State) \o Save("inventory") \o Save("inventory")}
revokeJob == {RevokeKey}
bundleRestoreJob == {LayDown}
knownhostsInitJob == {Load({"manifest"}) \o Edit("pins")}

\* The job asks whether to trust what it scanned, with the slot and the lock held.
knownhostsPinJob == {Confirm \o Edit("pins")}

Jobs == {Job(run) : run \in UNION {deployJob, rotateJob, rollbackJob, rotateKeysJob, revokeJob,
                                   bundleRestoreJob, knownhostsInitJob, knownhostsPinJob}}

=============================================================================
