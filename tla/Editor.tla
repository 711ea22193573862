------------------------------- MODULE Editor -------------------------------
(***************************************************************************)
(* Edits of the manifest (services/editor) with what each command does     *)
(* after them: the inventory, the ssh config, the known_hosts pins and the *)
(* key files follow (services/lifecycle, change.ApplyManifestEdit).        *)
(*                                                                         *)
(*   host add, host edit, profile edit   manifest -> render                *)
(*   naming, key template                manifest                          *)
(*   category     rename -> manifest -> inventory -> render                *)
(*   key add      manifest -> mint -> render                               *)
(*   key adopt    manifest -> mint                                         *)
(*   reconcile    mint ... -> render                                       *)
(*   delete of a host or profile                                           *)
(*        revoke ... -> manifest -> inventory -> render -> pins -> purge   *)
(*   key delete   revoke ... -> manifest -> inventory -> purge             *)
(*                                                                         *)
(* Every command holds the advisory lock. A write may fail, and the        *)
(* process may die between two steps. A key is its pair: halves are the    *)
(* business of Archives, rotation's old/ that of Rotate.                   *)
(***************************************************************************)
EXTENDS Naturals, Sequences, FiniteSets

CONSTANTS
    Profile, Alias, Name, Category,
    Rule,       \* what the naming rules may say
    Derived,    \* [Rule -> [Alias -> Name]]: the key name they give a host
    FirstCategory,
    Manifests0, \* manifests to start from
    Server,
    ServerOf,   \* [Alias -> Server]: where each host is
    Loose,      \* files of ~/.ssh, outside every profile, that hold a key
    Adoptable,  \* paths somebody may want to adopt
    Key, None,
    MaxOps,     \* commands run, at most
    MaxTroubles \* failures and deaths, at most

Refs == Profile \X Name
Paths == (Profile \X Category \X Name) \cup Loose

ASSUME EditorAssumption ==
    /\ Derived \in [Rule -> [Alias -> Name]] /\ ServerOf \in [Alias -> Server]
    /\ FirstCategory \in Category
    /\ Adoptable \subseteq Paths
    /\ Loose \cap (Profile \X Category \X Name) = {}
    /\ None \notin Alias \cup Name \cup Key \cup Paths \cup (Profile \X Category)
    /\ {"gone", "own"} \cap Name = {} /\ {"no", "yes"} \cap Adoptable = {}
    /\ MaxOps \in Nat /\ MaxTroubles \in Nat

VARIABLES
    manifest,   \* manifest.json
    inv,        \* inventory.json: what it records of each key, or None
    files,      \* the key at each path of ~/.ssh, or None
    dirs,       \* the profile directories that exist
    trusts,     \* the keys each server lets in
    config,     \* the file each Host block of ~/.ssh/config names, or None
    pins,       \* servers with a pin of ours in known_hosts
    work,       \* the command that holds the lock
    mishap,     \* a command was cut short after its first effect
    ops, troubles

diskVars == <<files, dirs>>
outsideVars == <<trusts, config, pins>>
bounds == <<ops, troubles>>
editorVars == <<manifest, inv, diskVars, outsideVars, work, mishap, bounds>>

-----------------------------------------------------------------------------
(* The manifest                                                            *)

\* A host names its key itself or leaves it to the rules. A profile that is
\* shared has one key name for all its hosts; one of its own has none.
Hosts == [profile : Profile, name : Name \cup {None}]
Manifests == [hosts : [Alias -> Hosts \cup {None}],
              scope : [Profile -> Name \cup {"gone", "own"}],
              category : [Profile -> Category],
              keys : [Refs -> {"no", "yes"} \cup Adoptable],
              rule : Rule]

HostsOf(m, p) == {a \in Alias : m.hosts[a] # None /\ m.hosts[a].profile = p}
Declared(m, a) == m.hosts[a] # None
Exists(m, p) == m.scope[p] # "gone"

ResolvedKeyName(m, a) ==
    LET h == m.hosts[a]
        shared == m.scope[h.profile]
    IN  IF shared # "own" THEN shared
        ELSE IF h.name # None THEN h.name
        ELSE Derived[m.rule][a]

RefOf(m, a) == <<m.hosts[a].profile, ResolvedKeyName(m, a)>>
HostsForKey(m, r) == {a \in Alias : Declared(m, a) /\ RefOf(m, a) = r}
KeySpecFor(m, r) == m.keys[r] # "no"

KeyRefs(m) == {r \in Refs : HostsForKey(m, r) # {} \/ KeySpecFor(m, r)}

ProfileDir(m, p) == <<p, m.category[p]>>

\* IdentityFile, KeyPath: an adopted key is where it was.
IdentityFile(m, r) ==
    IF m.keys[r] \in {"no", "yes"} THEN <<r[1], m.category[r[1]], r[2]>> ELSE m.keys[r]

Owned(m) == {IdentityFile(m, r) : r \in KeyRefs(m)}

\* checkAdoptedUnique, and the hosts and keys of a profile go with it.
Valid(m) == \A q, r \in Refs : m.keys[q] \notin {"no", "yes"} /\ m.keys[q] = m.keys[r] => q = r

\* A profile that is gone has left no host and no key (DeleteProfile).
Tidy(m) ==
    \A p \in Profile : ~Exists(m, p) =>
        HostsOf(m, p) = {} /\ \A n \in Name : ~KeySpecFor(m, <<p, n>>)

Rendered(m) ==
    [a \in Alias |-> IF Declared(m, a) THEN IdentityFile(m, RefOf(m, a)) ELSE None]

-----------------------------------------------------------------------------
(* The inventory                                                           *)

Records == [path : Paths, profile : Profile, deployments : SUBSET Alias]
NotDeployed(r, path) == [path |-> path, profile |-> r[1], deployments |-> {}]

\* The home to start from has keys enough for all of its files.
ASSUME HomeAssumption ==
    /\ None \notin Hosts \cup Records
    /\ \A m \in Manifests0 :
          /\ m \in Manifests /\ Valid(m) /\ Tidy(m)
          /\ \E at \in [Owned(m) \cup Loose -> Key] :
                \A x, y \in Owned(m) \cup Loose : at[x] = at[y] => x = y

Recorded == {k \in Key : inv[k] # None}
RecordedAt(i, path) == {k \in Key : i[k] # None /\ i[k].path = path}
Dropped(i, ks) == [k \in Key |-> IF k \in ks THEN None ELSE i[k]]

\* The key that a host's block makes ssh offer.
Uses(a) == IF Declared(manifest, a) THEN files[IdentityFile(manifest, RefOf(manifest, a))] ELSE None

Fresh == {k \in Key : /\ k \notin Recorded
                      /\ \A x \in Paths : files[x] # k
                      /\ \A s \in Server : k \notin trusts[s]}

\* Keys are all alike, so it does not matter which one ssh-keygen makes.
NewKey == CHOOSE k \in Fresh : TRUE

-----------------------------------------------------------------------------
(* A command: what it is going to do, worked out when it loads the home.   *)

Idle == [op |-> "none", steps |-> <<>>, done |-> FALSE, manifest |-> None, inv |-> None,
         ask |-> {}, failed |-> {}, from |-> None, to |-> None,
         mint |-> {}, purge |-> {}, revoke |-> FALSE, edits |-> {}, held |-> [a \in Alias |-> None]]

\* held and edits say, for the properties, which key each host had before the
\* command, and which hosts the command is there to give another one.
Start(op, steps, m) ==
    [Idle EXCEPT !.op = op, !.steps = steps, !.manifest = m, !.inv = inv,
                 !.held = [a \in Alias |-> Uses(a)]]

Begin(w) ==
    /\ work.steps = <<>>
    /\ ops < MaxOps
    /\ Valid(w.manifest)
    /\ ops' = ops + 1
    /\ work' = w
    /\ UNCHANGED <<manifest, inv, diskVars, outsideVars, mishap, troubles>>

Doing(step) == work.steps # <<>> /\ Head(work.steps) = step

Advance(w) ==
    work' = IF Len(w.steps) = 1 THEN Idle
            ELSE [w EXCEPT !.steps = Tail(@), !.done = TRUE]

-----------------------------------------------------------------------------
(* The commands that change only the manifest                              *)

\* Mutant of Edited: the config is left for the next reconcile.
Edited_NotRendered == <<"manifest">>

Edited == <<"manifest", "render">>

AddProfile(p, scope) ==
    /\ ~Exists(manifest, p)
    /\ Begin(Start("profile add", Edited, [manifest EXCEPT !.scope[p] = scope]))

EditProfile(p, scope) ==
    /\ Exists(manifest, p) /\ scope # manifest.scope[p]
    /\ Begin([Start("profile edit", Edited, [manifest EXCEPT !.scope[p] = scope])
                EXCEPT !.edits = HostsOf(manifest, p)])

AddHost(a, p, n) ==
    /\ Exists(manifest, p) /\ ~Declared(manifest, a)
    /\ Begin(Start("host add", Edited,
                   [manifest EXCEPT !.hosts[a] = [profile |-> p, name |-> n]]))

EditHost(a, n) ==
    /\ Declared(manifest, a) /\ manifest.hosts[a].name # n
    /\ Begin([Start("host edit", Edited, [manifest EXCEPT !.hosts[a].name = n])
                EXCEPT !.edits = {a}])

\* Mutant of KeptNames: the change of rules is all there is.
KeptNames_Not(m) == m

\* keepKeyNames: a host whose derived name the change would alter gets the name
\* it had as its own, in a profile that is not shared.
KeptNames(m) ==
    [m EXCEPT !.hosts = [a \in Alias |->
        IF /\ Declared(m, a) /\ m.hosts[a].name = None
           /\ m.scope[m.hosts[a].profile] = "own"
           /\ ResolvedKeyName(m, a) # ResolvedKeyName(manifest, a)
        THEN [m.hosts[a] EXCEPT !.name = ResolvedKeyName(manifest, a)]
        ELSE m.hosts[a]]]

\* SetNaming, SetKeyTemplate, SetProfileCode. No block changes, so none is
\* rendered.
SetNaming(rule) ==
    /\ rule # manifest.rule
    /\ Begin(Start("naming", <<"manifest">>, KeptNames([manifest EXCEPT !.rule = rule])))

-----------------------------------------------------------------------------
(* SetCategory: the profile's directory is renamed, and undone when the    *)
(* manifest cannot be saved after it.                                      *)

DirOf(path) == <<path[1], path[2]>>

Repointed(i, from, to) ==
    [k \in Key |->
        IF i[k] # None /\ i[k].profile = from[1] /\ i[k].path \notin Loose /\ DirOf(i[k].path) = from
        THEN [i[k] EXCEPT !.path = <<to[1], to[2], i[k].path[3]>>]
        ELSE i[k]]

SetCategory(p, c) ==
    LET m == [manifest EXCEPT !.category[p] = c]
        from == ProfileDir(manifest, p)
        to == ProfileDir(m, p)
        rename == IF from \in dirs THEN <<"rename">> ELSE <<>>
        i == Repointed(inv, from, to)
        record == IF i # inv THEN <<"inventory">> ELSE <<>>
    IN  /\ Exists(manifest, p) /\ from # to
        /\ ~({from, to} \subseteq dirs)
        /\ Begin([Start("category", rename \o <<"manifest">> \o record \o <<"render">>, m)
                    EXCEPT !.inv = i, !.from = from, !.to = to])

Renamed(from, to) ==
    /\ dirs' = (dirs \ {from}) \cup {to}
    /\ files' = [x \in Paths |->
           IF x \in Loose THEN files[x]
           ELSE IF DirOf(x) = to THEN files[<<from[1], from[2], x[3]>>]
           ELSE IF DirOf(x) = from THEN None
           ELSE files[x]]

Rename ==
    /\ Doing("rename")
    /\ Renamed(work.from, work.to)
    /\ Advance(work)
    /\ UNCHANGED <<manifest, inv, outsideVars, mishap, bounds>>

-----------------------------------------------------------------------------
(* The saves                                                               *)

SaveManifest ==
    /\ Doing("manifest")
    /\ manifest' = work.manifest
    /\ Advance(work)
    /\ UNCHANGED <<inv, diskVars, outsideVars, mishap, bounds>>

\* undo: the directory goes back.
Undone ==
    IF work.op = "category" /\ work.done THEN Renamed(work.to, work.from)
    ELSE UNCHANGED diskVars

SaveManifestFails ==
    /\ Doing("manifest")
    /\ troubles < MaxTroubles
    /\ troubles' = troubles + 1
    /\ Undone
    /\ mishap' = (mishap \/ (work.done /\ work.op # "category"))
    /\ work' = Idle
    /\ UNCHANGED <<manifest, inv, outsideVars, ops>>

SaveInventory ==
    /\ Doing("inventory")
    /\ inv' = work.inv
    /\ Advance(work)
    /\ UNCHANGED <<manifest, diskVars, outsideVars, mishap, bounds>>

RenderConfig ==
    /\ Doing("render")
    /\ config' = Rendered(manifest)
    /\ Advance(work)
    /\ UNCHANGED <<manifest, inv, diskVars, trusts, pins, mishap, bounds>>

\* The servers of the hosts that are left.
LiveTokens(m) == {ServerOf[a] : a \in {b \in Alias : Declared(m, b)}}

Prune ==
    /\ Doing("pins")
    /\ pins' = pins \cap LiveTokens(manifest)
    /\ Advance(work)
    /\ UNCHANGED <<manifest, inv, diskVars, trusts, config, mishap, bounds>>

-----------------------------------------------------------------------------
(* Keys: reconcile, key add, key adopt                                     *)

Covered(path) == RecordedAt(inv, path) # {}

\* mintOne for a key that is missing; its record replaces whatever claims the
\* path. recordExisting for one that is there without a record.
Mint(r) ==
    LET path == IdentityFile(manifest, r)
    IN  /\ Doing("mint")
        /\ r \in work.mint
        /\ \/ /\ files[path] = None
              /\ Fresh # {}
              /\ files' = [files EXCEPT ![path] = NewKey]
              /\ inv' = [Dropped(inv, RecordedAt(inv, path)) EXCEPT ![NewKey] = NotDeployed(r, path)]
              /\ dirs' = dirs \cup {ProfileDir(manifest, r[1])}
           \/ /\ files[path] # None
              /\ inv' = IF work.op # "key add" /\ ~Covered(path) /\ files[path] \notin Recorded
                        THEN [inv EXCEPT ![files[path]] = NotDeployed(r, path)]
                        ELSE inv
              /\ UNCHANGED diskVars
        /\ IF work.mint = {r} THEN Advance([work EXCEPT !.mint = {}])
           ELSE work' = [work EXCEPT !.mint = @ \ {r}, !.done = TRUE]
        /\ UNCHANGED <<manifest, outsideVars, mishap, bounds>>

Reconcile ==
    /\ KeyRefs(manifest) # {}
    /\ Begin([Start("reconcile", <<"mint", "render">>, manifest) EXCEPT !.mint = KeyRefs(manifest)])

\* AddKey and AdoptKey: the profile declares one more key, and a host of it is
\* wired to it, unless the profile is shared.
Wired(m, r, a) ==
    IF a = None THEN m ELSE [m EXCEPT !.hosts[a].name = r[2]]

MayDeclare(r, a) ==
    /\ Exists(manifest, r[1]) /\ ~KeySpecFor(manifest, r)
    /\ a # None => a \in HostsOf(manifest, r[1]) /\ manifest.scope[r[1]] = "own"

AddKey(r, a) ==
    /\ MayDeclare(r, a)
    /\ Begin([Start("key add", <<"manifest", "mint", "render">>,
                    Wired([manifest EXCEPT !.keys[r] = "yes"], r, a))
                EXCEPT !.mint = {r}, !.edits = {a} \ {None}])

\* A key a host has by that name already is another one from now on.
AdoptKey(r, path, a) ==
    /\ MayDeclare(r, a)
    /\ files[path] # None
    /\ Begin([Start("key adopt", <<"manifest", "mint">>,
                    Wired([manifest EXCEPT !.keys[r] = path], r, a))
                EXCEPT !.mint = {r}, !.edits = ({a} \ {None}) \cup HostsForKey(manifest, r)])

\* deploy: the key of a host's block, when the inventory knows it.
Deploy(a) ==
    LET k == Uses(a)
    IN  /\ work.steps = <<>> /\ ops < MaxOps
        /\ k # None /\ k \in Recorded
        /\ a \notin inv[k].deployments
        /\ trusts' = [trusts EXCEPT ![ServerOf[a]] = @ \cup {k}]
        /\ inv' = [inv EXCEPT ![k].deployments = @ \cup {a}]
        /\ pins' = pins \cup {ServerOf[a]}
        /\ ops' = ops + 1
        /\ UNCHANGED <<manifest, diskVars, config, work, mishap, troubles>>

-----------------------------------------------------------------------------
(* Deletions                                                               *)

\* pruneIdents
Pruned(i, m, affected) ==
    Dropped(i, {k \in Key : i[k] # None /\ i[k].path \in affected \ Owned(m)})

\* revokeHost: the deployments on these hosts go, with the hosts' keys.
Undeployed(hosts) ==
    [k \in Key |->
        IF inv[k] = None THEN None
        ELSE [inv[k] EXCEPT !.deployments =
                @ \ {a \in hosts : IdentityFile(manifest, RefOf(manifest, a)) = inv[k].path}]]

\* ... and their servers are asked first.
Asked(hosts) ==
    {x \in hosts \X Recorded :
        /\ IdentityFile(manifest, RefOf(manifest, x[1])) = inv[x[2]].path
        /\ x[1] \in inv[x[2]].deployments}

Steps(ask, rest, purge) ==
    (IF ask = {} THEN <<>> ELSE <<"revoke">>) \o rest \o (IF purge THEN <<"purge">> ELSE <<>>)

\* keyFiles: an adopted key is the user's own file, no purge lists it.
KeyFiles(refs) == {IdentityFile(manifest, r) : r \in refs} \ Adoptable

Deleted == <<"manifest", "inventory", "render", "pins">>

\* classify: the files go only when no host uses the key and nothing declares it.
DeleteHost(a, revoke, purge) ==
    LET m == [manifest EXCEPT !.hosts[a] = None]
        r == RefOf(manifest, a)
        ask == IF revoke THEN Asked({a}) ELSE {}
    IN  /\ Declared(manifest, a)
        /\ Begin([Start("host delete", Steps(ask, Deleted, purge), m)
                    EXCEPT !.inv = Pruned(Undeployed({a}), m, {IdentityFile(manifest, r)}),
                           !.ask = ask, !.revoke = revoke,
                           !.purge = IF purge /\ r \notin KeyRefs(m) THEN KeyFiles({r}) ELSE {}])

WithoutProfile(p) ==
    [manifest EXCEPT !.scope[p] = "gone", !.category[p] = FirstCategory,
                     !.hosts = [a \in Alias |-> IF a \in HostsOf(manifest, p) THEN None ELSE @[a]],
                     !.keys = [r \in Refs |-> IF r[1] = p THEN "no" ELSE @[r]]]

DeleteProfile(p, revoke, purge) ==
    LET m == WithoutProfile(p)
        refs == {r \in KeyRefs(manifest) : r[1] = p}
        ask == IF revoke THEN Asked(HostsOf(manifest, p)) ELSE {}
    IN  /\ Exists(manifest, p)
        /\ Begin([Start("profile delete", Steps(ask, Deleted, purge), m)
                    EXCEPT !.inv = Pruned(Undeployed(HostsOf(manifest, p)), m,
                                          {IdentityFile(manifest, r) : r \in refs}),
                           !.ask = ask, !.revoke = revoke,
                           !.from = IF purge THEN ProfileDir(manifest, p) ELSE None,
                           !.purge = IF purge THEN KeyFiles(refs) ELSE {}])

\* Mutant of NotAsked: a deployment whose host is no more is passed over.
NotAsked_PassedOver(deployed, ask) == {}

\* The deployments of which the host is not declared any more.
NotAsked(deployed, ask) == {x[1] : x \in deployed \ ask}

\* DeleteKey: refused while a host uses the key; every deployment is asked for.
\* The path is looked up when the declaration is gone from the manifest, so that
\* of an adopted key is not found.
DeleteKey(r, revoke, purge) ==
    LET m == [manifest EXCEPT !.keys[r] = "no"]
        path == IdentityFile(m, r)
        gone == RecordedAt(inv, path)
        deployed == {x \in Alias \X gone : x[1] \in inv[x[2]].deployments}
        ask == IF revoke THEN {x \in deployed : Declared(manifest, x[1])} ELSE {}
    IN  /\ KeySpecFor(manifest, r) /\ HostsForKey(manifest, r) = {}
        /\ Begin([Start("key delete", Steps(ask, <<"manifest", "inventory">>, purge), m)
                    EXCEPT !.inv = Dropped(inv, gone),
                           !.ask = ask, !.revoke = revoke,
                           !.failed = IF revoke THEN NotAsked(deployed, ask) ELSE {},
                           !.from = IF purge THEN ProfileDir(manifest, r[1]) ELSE None,
                           !.purge = IF purge THEN KeyFiles({r}) ELSE {}])

\* removeFromTarget, with the text of the public half on disk. The answer may
\* be lost; a key that is not there is not reported as removed.
Revoke(a, k) ==
    LET s == ServerOf[a]
        rest == [work EXCEPT !.ask = @ \ {<<a, k>>}]
    IN  /\ Doing("revoke")
        /\ <<a, k>> \in work.ask
        /\ \E removed, reported \in BOOLEAN :
            /\ removed => files[inv[k].path] = k
            /\ reported => removed /\ k \in trusts[s]
            /\ trusts' = [trusts EXCEPT ![s] = IF removed THEN @ \ {k} ELSE @]
            /\ LET w == IF reported THEN rest ELSE [rest EXCEPT !.failed = @ \cup {a}]
               IN  IF rest.ask = {} THEN Advance(w) ELSE work' = [w EXCEPT !.done = TRUE]
        /\ UNCHANGED <<manifest, inv, diskVars, config, pins, mishap, bounds>>

RemoveFile(path) ==
    /\ Doing("purge")
    /\ path \in work.purge
    /\ files' = [files EXCEPT ![path] = None]
    /\ work' = [work EXCEPT !.purge = @ \ {path}]
    /\ UNCHANGED <<manifest, inv, dirs, outsideVars, mishap, bounds>>

\* The directory goes with its last file, where the profile's is the command's
\* to remove.
RemoveDir ==
    /\ Doing("purge")
    /\ work.purge = {}
    /\ dirs' = IF work.from # None /\ \A n \in Name : files[<<work.from[1], work.from[2], n>>] = None
               THEN dirs \ {work.from} ELSE dirs
    /\ Advance(work)
    /\ UNCHANGED <<manifest, inv, files, outsideVars, mishap, bounds>>

-----------------------------------------------------------------------------
\* Any other step that fails, and the death of the process.
CutShort ==
    /\ work.steps # <<>>
    /\ troubles < MaxTroubles
    /\ troubles' = troubles + 1
    /\ mishap' = (mishap \/ work.done)
    /\ work' = Idle
    /\ UNCHANGED <<manifest, inv, diskVars, outsideVars, ops>>

Keyed(paths) == CHOOSE at \in [paths -> Key] : \A x, y \in paths : at[x] = at[y] => x = y

\* A home that has been reconciled: every key of the manifest is minted and
\* recorded, and some of the hosts' keys are deployed.
Init ==
    /\ manifest \in Manifests0
    /\ \E at \in {Keyed(Owned(manifest) \cup Loose)}, deployed \in SUBSET Alias :
        /\ \A a \in deployed : Declared(manifest, a)
        /\ files = [x \in Paths |-> IF x \in DOMAIN at THEN at[x] ELSE None]
        /\ inv = [k \in Key |->
              IF \E r \in KeyRefs(manifest) : at[IdentityFile(manifest, r)] = k
              THEN LET r == CHOOSE q \in KeyRefs(manifest) : at[IdentityFile(manifest, q)] = k
                   IN  [path |-> IdentityFile(manifest, r), profile |-> r[1],
                        deployments |-> deployed \cap HostsForKey(manifest, r)]
              ELSE None]
        /\ trusts = [s \in Server |-> {at[IdentityFile(manifest, RefOf(manifest, a))] :
                                        a \in {b \in deployed : ServerOf[b] = s}}]
        /\ pins = {ServerOf[a] : a \in deployed}
    /\ dirs = {ProfileDir(manifest, r[1]) : r \in KeyRefs(manifest)}
    /\ config = Rendered(manifest)
    /\ work = Idle
    /\ mishap = FALSE
    /\ ops = 0 /\ troubles = 0

Edit ==
    \/ \E p \in Profile, scope \in Name \cup {"own"} : AddProfile(p, scope) \/ EditProfile(p, scope)
    \/ \E a \in Alias, n \in Name \cup {None} :
          EditHost(a, n) \/ \E p \in Profile : AddHost(a, p, n)
    \/ \E rule \in Rule : SetNaming(rule)
    \/ \E p \in Profile, c \in Category : SetCategory(p, c)

KeyCommand ==
    \/ Reconcile
    \/ \E r \in Refs, a \in Alias \cup {None} :
          AddKey(r, a) \/ \E path \in Adoptable : AdoptKey(r, path, a)
    \/ \E a \in Alias : Deploy(a)

Delete ==
    \E revoke, purge \in BOOLEAN :
        \/ \E a \in Alias : DeleteHost(a, revoke, purge)
        \/ \E p \in Profile : DeleteProfile(p, revoke, purge)
        \/ \E r \in Refs : DeleteKey(r, revoke, purge)

Step ==
    \/ Rename \/ SaveManifest \/ SaveManifestFails \/ SaveInventory \/ RenderConfig \/ Prune
    \/ \E r \in Refs : Mint(r)
    \/ \E a \in Alias, k \in Key : Revoke(a, k)
    \/ \E path \in Paths : RemoveFile(path)
    \/ RemoveDir

Next == Edit \/ KeyCommand \/ Delete \/ Step \/ CutShort

EditorSpec == Init /\ [][Next]_editorVars

-----------------------------------------------------------------------------
(***************************************************************************)
(* Properties                                                              *)
(***************************************************************************)

(* Type correctness of every variable; no edit leaves a manifest that is   *)
(* not valid or untidy, and no key lies in a directory that is not there.  *)
EditorTypeOK ==
    /\ manifest \in Manifests /\ Valid(manifest) /\ Tidy(manifest)
    /\ inv \in [Key -> Records \cup {None}]
    /\ files \in [Paths -> Key \cup {None}]
    /\ \A x \in Paths \ Loose : files[x] # None => DirOf(x) \in dirs
    /\ dirs \subseteq Profile \X Category
    /\ trusts \in [Server -> SUBSET Key]
    /\ config \in [Alias -> Paths \cup {None}]
    /\ pins \subseteq Server
    /\ mishap \in BOOLEAN

Settled == work.steps = <<>> /\ ~mishap

(* A command gives another key only to the hosts it is about: a change of  *)
(* the naming rules, a move of a directory, a purge, another host deleted, *)
(* or a save that failed and was undone leave every other host with the    *)
(* very key file it had.                                                   *)
HostsKeepTheirKeys ==
    [][work.steps # <<>> /\ Settled' =>
        \A a \in Alias \ work.edits :
            work.held[a] # None /\ Declared(manifest', a) => Uses(a)' = work.held[a]]_editorVars

(* ~/.ssh/config never lags behind the manifest once a command is over: it *)
(* is rendered by whatever changes a block. Only key adopt leaves the      *)
(* render to the person.                                                   *)
ConfigIsCurrent ==
    Settled => \A a \in Alias :
        config[a] = Rendered(manifest)[a] \/ Rendered(manifest)[a] \in Adoptable

(* A record names the file its key is in, after renames, purges and        *)
(* deletions of any kind.                                                  *)
RecordsPointAtTheirKeys ==
    Settled => \A k \in Recorded : files[inv[k].path] = k

(* Both: the files that are written after the manifest say what it says.   *)
FilesFollowTheManifest == ConfigIsCurrent /\ RecordsPointAtTheirKeys

(* A key the manifest still owns keeps its record, whatever is deleted     *)
(* around it (pruneIdents: a key that had merely become unwired lost the   *)
(* record that expiry and rotation go by).                                 *)
OwnedKeyKeepsItsRecord ==
    [][\A k \in Recorded :
        /\ files[inv[k].path] = k
        /\ \E r \in KeyRefs(manifest) : IdentityFile(manifest, r) = inv[k].path
        => inv'[k] # None]_editorVars

(* "Reference-counted known_hosts pins": no host that is left loses the    *)
(* pin of its server.                                                      *)
NeededPinStays ==
    [][\A a \in Alias : Declared(manifest', a) /\ ServerOf[a] \in pins
            => ServerOf[a] \in pins']_editorVars

(* Both: what somebody else still needs outlives a deletion.               *)
SharedThingsStay == OwnedKeyKeepsItsRecord /\ NeededPinStays

(* What a command is not about keeps its key, its record and its pin.      *)
OthersKeepTheirs == HostsKeepTheirKeys /\ SharedThingsStay

(* A key deleted with --revoke has left every target its record named, or  *)
(* the person is told which one it is still on.                            *)
RevokedOrReported ==
    \A k \in Key : inv[k] # None /\ inv'[k] = None /\ work.inv[k] = None =>
        \A a \in inv[k].deployments : k \notin trusts[ServerOf[a]] \/ a \in work.failed

DeletedKeyIsRevokedOrReported ==
    [][work.op = "key delete" /\ Doing("inventory") /\ work.revoke => RevokedOrReported]_editorVars

(* Not so, and in no run: DeleteResult.NotRevoked names the "targets the   *)
(* key is deployed to that could not be revoked from", so that no key      *)
(* leaves the inventory on a delete with --revoke while a target its       *)
(* record names lets it in and nobody is told. Deleting a host or a        *)
(* profile prunes the records of keys it has never asked about.            *)
PrunedKeyIsRevokedOrReported ==
    [][Doing("inventory") /\ work.revoke => RevokedOrReported]_editorVars

(* Not so, and in no run: "DeleteKey removes a key's declaration from its  *)
(* profile and drops its inventory record". The record of an adopted key   *)
(* is looked for where the key would be had it not been adopted, and stays *)
(* behind, with every target that lets the key in.                         *)
DeletedKeyLosesItsRecord ==
    [][\A r \in Refs : KeySpecFor(manifest, r) /\ ~KeySpecFor(manifest', r) =>
        \A k \in RecordedAt(inv, IdentityFile(manifest, r)) : work.inv[k] = None]_editorVars
=============================================================================
