-------------------------------- MODULE Steps --------------------------------
(***************************************************************************)
(* The words the programs of TerminalCommands and WebChanges are written   *)
(* in: what a command reads, asks, checks and writes, in the order it does *)
(* so. A program is a sequence of steps; Commands gives them their effect. *)
(*                                                                         *)
(* What a command does to keys, servers, vaults and archives is in the     *)
(* modules about those. Here a program says so (Reach) only where it       *)
(* changes none of the files below.                                        *)
(***************************************************************************)
EXTENDS Sequences, FiniteSets

File == {"manifest", "inventory", "revoked", "pins", "config", "providers", "tokens",
         "credentials", "settings", "schedules", "selections"}

\* What a preview reads, and its hash covers.
Captured == {"manifest", "inventory", "pins", "config", "providers", "tokens", "settings"}

State == {"manifest", "inventory"}

Step(does, files) == <<[does |-> does, files |-> files]>>

-----------------------------------------------------------------------------
(* The lock, the slot and the questions                                    *)

Slot == Step("slot", {})
Free == Step("free", {})
Lock == Step("lock", {})

Load(files) == Step("load", files)

\* A question about what was typed: nothing is held against it later.
Confirm == Step("confirm", {})

\* A question that shows what was read: that is what is agreed to.
Show(files) == Load(files) \o Step("show", files)

\* recheck: reads again with the lock, and gives up if the text would be another.
Recheck(files) == Lock \o Step("recheck", files)

\* willAsk: a person is asked before the lock, or nobody is and it is taken first.
Opening(willAsk, files) ==
    IF willAsk THEN Show(files) \o Recheck(files) ELSE Lock \o Load(files)

AskedOrNot(files, run) == {Opening(willAsk, files) \o run : willAsk \in BOOLEAN}

-----------------------------------------------------------------------------
(* Writing                                                                 *)

\* Writes what was read of the file, changed.
Save(file) == Step("save", {file})
Edit(file) == Load({file}) \o Save(file)

\* The manifest, changed in what the config is made of.
SaveHosts == Step("hosts", {"manifest"})
EditHosts == Load({"manifest"}) \o SaveHosts

\* Replaces the file whatever it holds, or makes one that is not there.
Put(file) == Step("put", {file})
Create(file) == Step("create", {file})

\* ~/.ssh/config from the manifest that was read.
WriteConfig == Step("render", {"config"})

\* Tells the person to render: from here the config is theirs to mend.
TellToRender == Step("tell", {"manifest"})

Reach == Step("reach", {})

ApplyManifestEdit == Load({"manifest"}) \o WriteConfig

-----------------------------------------------------------------------------
(* The editor's and the services' operations, in the files they touch      *)

EditRecords == Load(State) \o Save("manifest") \o Save("inventory")

MoveHosts == Load(State) \o SaveHosts \o Save("inventory")
RevokeKey == Load(State \union {"revoked"}) \o Save("inventory") \o Save("revoked")

\* finish: the config and the pins follow the manifest.
Finish == ApplyManifestEdit \o Edit("pins")
DeleteHost == MoveHosts \o Finish
DeleteKey == EditRecords

ApplyHosts(creates) == IF creates THEN EditHosts \o MoveHosts \o EditHosts ELSE EditHosts

Reconciled == Save("inventory") \o WriteConfig

ApplyOutside == Edit("pins") \o Reach
RunVMSync == EditHosts \o ApplyManifestEdit \o ApplyOutside

AddVMHost == EditHosts
AdoptKeyOfVM == Edit("inventory") \o Edit("manifest") \o ApplyManifestEdit

CleanerRun == Load(State) \o Edit("pins") \o Save("inventory")

\* What a snapshot holds: the config and the pins as they were.
RestoreByID == Put("config") \o Put("pins")

\* A bundle brings its own manifest, inventory and pins, and is rendered after.
LayDown == Put("manifest") \o Put("inventory") \o Put("pins") \o ApplyManifestEdit

\* The importer's: a new manifest, a new inventory.
ImportRun == Put("manifest") \o Put("inventory")

=============================================================================
