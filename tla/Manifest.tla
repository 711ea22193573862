------------------------------ MODULE Manifest ------------------------------
(***************************************************************************)
(* The manifest: what makes one valid (internal/core/manifest), and what   *)
(* the other parts read from it: which key a host uses and where that key  *)
(* lies in ~/.ssh.                                                         *)
(*                                                                         *)
(* A manifest is a record. Names and keywords are in lower case, as the    *)
(* code folds case wherever ssh does. "" is a field that is not set, a     *)
(* path is the sequence of its segments below ~/.ssh, and an option is a   *)
(* pair of a keyword and a value.                                          *)
(***************************************************************************)
EXTENDS Integers, SequencesExt

CONSTANTS
    Refused,        \* words with a character ssh, or a path, reads as something else
    RunsCommands,   \* options ssh runs a command for
    SSHOwn,         \* names of ssh's own files in ~/.ssh
    Hypervisors     \* those a host may be a VM of

DefaultPort == 22

-----------------------------------------------------------------------------
(* Reading it                                                              *)

ProfileNames(m) == [i \in DOMAIN m.profiles |-> m.profiles[i].name]
Named(m, name) == {p \in ToSet(m.profiles) : p.name = name}
Profile(m, name) == CHOOSE p \in ToSet(m.profiles) : p.name = name
AllHosts(m) == FlattenSeq([i \in DOMAIN m.profiles |-> m.profiles[i].hosts])

KeyRoot(m) == IF m.root = "" THEN "profiles" ELSE m.root
InOnePassword(p) == p.store = "1password"
UsesOnePassword(m) == \E p \in ToSet(m.profiles) : InOnePassword(p)

\* A key is named after its profile and its host where nobody names it.
DeriveKeyName(profile, alias) == profile \o "_" \o alias

ResolvedKeyName(p, h) ==
    IF p.scope = "shared" THEN p.key ELSE IF h.key # "" THEN h.key ELSE DeriveKeyName(p.name, h.alias)

KeySpecFor(m, ref) == SelectSeq(Profile(m, ref.profile).keys, LAMBDA k : k.name = ref.key)
AdoptedPath(m, ref) ==
    IF KeySpecFor(m, ref) = <<>> THEN <<>> ELSE Head(KeySpecFor(m, ref)).path

KeyTypeFor(m, ref) ==
    IF KeySpecFor(m, ref) # <<>> /\ Head(KeySpecFor(m, ref)).type # ""
    THEN Head(KeySpecFor(m, ref)).type ELSE m.type

ProfileRel(m, name) ==
    LET category == Profile(m, name).category
    IN  IF category = "" THEN <<KeyRoot(m), name>> ELSE <<KeyRoot(m), category, name>>

KeyPath(m, ref) ==
    IF AdoptedPath(m, ref) # <<>> THEN AdoptedPath(m, ref)
    ELSE Append(ProfileRel(m, ref.profile), ref.key)

\* What a Host block names; the profile may keep its keys elsewhere than on disk.
IdentityFile(m, ref) == KeyPath(m, ref)

PublicOf(path) == Append(Front(path), Last(path) \o ".pub")

ArchiveDir(m, ref) == Append(ProfileRel(m, ref.profile), "old")

RefOf(p, h) == [profile |-> p.name, key |-> ResolvedKeyName(p, h)]

\* Every host with the key it uses, in the order of the file.
IterResolved(m) ==
    FlattenSeq([i \in DOMAIN m.profiles |->
        LET p == m.profiles[i]
        IN  [j \in DOMAIN p.hosts |-> [host |-> p.hosts[j], ref |-> RefOf(p, p.hosts[j])]]])

\* The keys that hosts use and the keys that are declared, hosts or not.
KeyRefs(m) ==
    UNION {{RefOf(p, h) : h \in ToSet(p.hosts)}
             \union {[profile |-> p.name, key |-> k.name] : k \in ToSet(p.keys)}
           : p \in ToSet(m.profiles)}

HostsForKey(m, ref) ==
    LET using == SelectSeq(IterResolved(m), LAMBDA r : r.ref = ref)
    IN  [i \in DOMAIN using |-> using[i].host]

Categories(m) ==
    FoldLeft(LAMBDA seen, p : IF p.category \in {""} \union ToSet(seen) THEN seen
                              ELSE Append(seen, p.category),
             <<>>, m.profiles)

GitHubHostOf(p) == SelectSeq(p.hosts, LAMBDA h : h.hostname = "github.com")

\* Lines that look as if they counted: the renderer writes its own in their place, or,
\* for the port, ssh uses what the pins and the deploys do not.
ManagedHostOptions == {"hostname", "user", "port", "userknownhostsfile"}
RawOptionOverlaps(m) ==
    {h.alias : h \in {h \in ToSet(AllHosts(m)) : \E o \in ToSet(h.raw) : o[1] \in ManagedHostOptions}}

\* What init and import begin with where there is no keychain.
Starter(root) ==
    [profiles |-> <<>>, root |-> root, git |-> [mode |-> "", profile |-> ""],
     global |-> <<<<"addkeystoagent", "yes">>, <<"ignoreunknown", "usekeychain">>,
                  <<"identitiesonly", "yes">>, <<"serveraliveinterval", "60">>>>,
     type |-> "ed25519", reserved |-> {}]

-----------------------------------------------------------------------------
(* Valid manifests                                                         *)

IsSafe(word) == word \notin Refused \union {"", ".", ".."}

checkOptions(options) == \A o \in ToSet(options) : o[1] \notin RunsCommands \union Refused

checkKeyScope(p) == p.scope \in {"per_service", "shared"}

\* A shared profile that names no key has none for its hosts.
HasItsKey(p) == p.scope = "shared" /\ p.hosts # <<>> => p.key # ""

\* All Host blocks are read as one file: only the first of a name would count.
checkAliasCollisions(m) ==
    \A i, j \in DOMAIN AllHosts(m) : AllHosts(m)[i].alias = AllHosts(m)[j].alias => i = j

\* No two owners of one directory below the key root.
checkCategories(m) ==
    \A p \in ToSet(m.profiles) :
        p.category # "" =>
            /\ IsSafe(p.category)
            /\ p.name \notin {"config", "old"}
            /\ \A other \in Named(m, p.category) : other.category # ""

checkKeyStores(m) ==
    \A p \in ToSet(m.profiles) :
        \/ p.store \in {"", "file"} /\ p.vault = ""
        \/ p.store = "1password" /\ p.vault # ""

\* One vault keeps one item of a name, and makes keys of one type.
checkOnePasswordKeys(m) ==
    \A r \in KeyRefs(m) :
        InOnePassword(Profile(m, r.profile)) =>
            /\ KeyTypeFor(m, r) = "ed25519"
            /\ \A other \in KeyRefs(m) :
                  /\ InOnePassword(Profile(m, other.profile))
                  /\ Profile(m, other.profile).vault = Profile(m, r.profile).vault
                  /\ other.key = r.key
                  => other = r

CheckAdoptedPath(path) ==
    /\ \A i \in DOMAIN path : IsSafe(path[i])
    /\ ~ (Len(path) = 1 /\ path[1] \in SSHOwn)

checkDeclaredKeys(p) ==
    /\ \A i, j \in DOMAIN p.keys : p.keys[i].name = p.keys[j].name => i = j
    /\ \A k \in ToSet(p.keys) :
          /\ IsSafe(k.name)
          /\ k.path # <<>> => ~InOnePassword(p) /\ CheckAdoptedPath(k.path)

checkAdoptedUnique(m) ==
    \A p, q \in ToSet(m.profiles) : \A k \in ToSet(p.keys), l \in ToSet(q.keys) :
        k.path # <<>> /\ k.path = l.path => p = q /\ k = l

\* The profile whose key a bare github.com uses has a host to take it from.
checkGit(m) ==
    /\ m.git.mode = "ssh" => m.git.profile # ""
    /\ m.git.profile # "" =>
          /\ \E p \in Named(m, m.git.profile) : GitHubHostOf(p) # <<>>
          /\ \A h \in ToSet(AllHosts(m)) : h.alias # "github.com"

checkReserved(m) == \A name \in m.reserved : IsSafe(name) /\ name \notin SSHOwn \union {"profiles"}

CheckKeyRoot(root) == root = "" \/ (IsSafe(root) /\ root \notin SSHOwn)
checkKeyRootFor(m) == CheckKeyRoot(m.root) /\ KeyRoot(m) \notin m.reserved

checkVM(h) == h.vm = "" \/ h.vm \in Hypervisors
checkProxy(h) == h.proxy = "" \/ (h.proxy = "cloudflared" /\ h.vm = "")

validateHost(h) ==
    /\ IsSafe(h.alias)
    /\ h.key # "" => IsSafe(h.key)
    /\ h.hostname \notin Refused
    /\ h.user \notin Refused
    /\ checkOptions(h.raw)
    /\ checkVM(h)
    /\ checkProxy(h)

validate(m) ==
    /\ checkOptions(m.global)
    /\ checkAliasCollisions(m)
    /\ checkCategories(m)
    /\ checkAdoptedUnique(m)
    /\ checkKeyStores(m)
    /\ checkGit(m)
    /\ checkReserved(m)
    /\ checkKeyRootFor(m)
    /\ \A p \in ToSet(m.profiles) :
          /\ IsSafe(p.name)
          /\ checkKeyScope(p)
          /\ p.key # "" => IsSafe(p.key)
          /\ HasItsKey(p)
          /\ checkDeclaredKeys(p)
          /\ \A h \in ToSet(p.hosts) : validateHost(h)
    /\ checkOnePasswordKeys(m)

=============================================================================
