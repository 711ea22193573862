------------------------------- MODULE Doctor -------------------------------
(***************************************************************************)
(* What is wrong with the keys, the pins and the configuration, and what   *)
(* may be put right: the rows of the keys (internal/services/keysvc), the  *)
(* audit of the keys nobody uses or has (keyaudit), the public halves      *)
(* (pubkeys), the report (doctor), the repairs (repair) and the clean-up   *)
(* (cleaner).                                                              *)
(*                                                                         *)
(* A home is a record: files and pins as in SSHConfig and KnownHosts,      *)
(* pairs (of a path the key in its private file and the one in its public  *)
(* file, "" where there is no such file), records (of a fingerprint the    *)
(* path it is kept for) and loose (the files whose mode is wrong).         *)
(***************************************************************************)
EXTENDS KnownHosts

CONSTANTS
    Tools,      \* the commands this machine has
    Vaults,     \* the vaults its 1Password agent serves
    Items,      \* the keys in them: <<vault, name, public key>>
    Locked      \* private keys with a passphrase

NoPair == [private |-> "", public |-> ""]
PairAt(h, path) == IF path \in DOMAIN h.pairs THEN h.pairs[path] ELSE NoPair
FileOf(path, half) == IF half = "private" THEN path ELSE PublicOf(path)

-----------------------------------------------------------------------------
(* The keys of the manifest                                                *)

row(m, h, ref) ==
    LET path == KeyPath(m, ref)
    IN  [ref |-> ref, path |-> path, vault |-> Profile(m, ref.profile).vault,
         private |-> PairAt(h, path).private # "", public |-> PairAt(h, path).public # "",
         recorded |-> \E fp \in DOMAIN h.records : h.records[fp] = path,
         hosts |-> {host.alias : host \in ToSet(HostsForKey(m, ref))}]

Rows(m, h) == {row(m, h, ref) : ref \in KeyRefs(m)}

matches(word, r) == word \in {r.ref.profile, r.ref.key} \union r.hosts

\* {} where a word names nothing: a selection is all or nothing.
Select(m, h, words, category) ==
    IF \E word \in words : \A r \in Rows(m, h) : ~matches(word, r) THEN {}
    ELSE {r \in Rows(m, h) :
             \/ category # "" /\ Profile(m, r.ref.profile).category = category
             \/ \E word \in words : matches(word, r)}

-----------------------------------------------------------------------------
(* The audit                                                               *)

Notes(r) ==
    LET there == IF r.vault # "" THEN r.public ELSE r.private
    IN  (IF ~r.private /\ ~r.public THEN {"missing"}
         ELSE IF r.vault # "" THEN IF r.public THEN {} ELSE {"missing"}
         ELSE IF r.private /\ r.public THEN {} ELSE {"half-pair"})
        \union (IF there /\ ~r.recorded THEN {"unrecorded"} ELSE {})
        \union (IF r.hosts = {} THEN {"unwired"} ELSE {})

\* The files of keys in the directories of profiles, in a category or not.
GlobKeyTree(m, h) ==
    {p \in DOMAIN h.pairs : /\ p[1] = KeyRoot(m)
                            /\ Len(p) = 3 \/ (Len(p) = 4 /\ p[3] # "old")}

IsArchived(m, p) == Len(p) > 2 /\ p[1] = KeyRoot(m) /\ p[Len(p) - 1] = "old"

untracked(m, h) ==
    {p \in GlobKeyTree(m, h) :
        LET ref == [profile |-> p[Len(p) - 1], key |-> Last(p)]
        IN  ref \in KeyRefs(m) => Front(KeyPath(m, ref)) # Front(p)}

staleInventory(m, h) ==
    {fp \in DOMAIN h.records :
        /\ h.records[fp] \notin {IdentityFile(m, ref) : ref \in KeyRefs(m)}
        /\ ~IsArchived(m, h.records[fp])}

\* A key is one by its public half.
LooseKeysIn(h) == {p \in DOMAIN h.pairs : Len(p) = 1 /\ h.pairs[p].public # ""}
Adopted(m) == UNION {{k.path : k \in ToSet(p.keys)} : p \in ToSet(m.profiles)}
loose(m, h) == {p \in LooseKeysIn(h) : p[1] \notin m.reserved /\ p \notin Adopted(m)}

CopyOf(m, h, p) ==
    {q \in DOMAIN h.pairs : /\ q[1] = KeyRoot(m) /\ ~IsArchived(m, q)
                            /\ h.pairs[q].public = PairAt(h, p).public}

\* A reserved key is gone, or in use after all.
ReservedProblems(m, h) ==
    {name \in m.reserved :
        \/ PairAt(h, <<name>>).private = ""
        \/ <<name>> \in LooseKeysIn(h) /\ CopyOf(m, h, <<name>>) # {}}

Findings(m, h) ==
    UNION {{<<note, r.ref>> : note \in Notes(r)} : r \in Rows(m, h)}
    \union ({"untracked"} \X untracked(m, h))
    \union ({"stale-inventory"} \X staleInventory(m, h))
    \union ({"loose"} \X loose(m, h))

Blocking == {"untracked", "unwired", "half-pair"}
AuditOK(m, h, strict) == \A f \in Findings(m, h) : ~strict /\ f[1] \notin Blocking

-----------------------------------------------------------------------------
(* The report                                                              *)

ManagedPaths(m, h) ==
    (DOMAIN h.files \intersect {RootConfig})
    \union {<<"known_hosts">>}
    \union {f \in DOMAIN h.files : f[1] = KeyRoot(m)}
    \union {FileOf(p, half) : p \in {p \in DOMAIN h.pairs : p[1] = KeyRoot(m)},
                              half \in {"private", "public"}}

permIssues(m, h) == h.loose \intersect ManagedPaths(m, h)

\* At most one predecessor of a key is kept.
archivedKeys(m, h) ==
    LET named(p) == <<p[Len(p) - 2], Last(p)>>
        old == {p \in DOMAIN h.pairs : /\ Len(p) \in {4, 5} /\ IsArchived(m, p)
                                       /\ h.pairs[p].private # ""}
    IN  {named(p) : p \in {p \in old : \E q \in old \ {p} : named(p) = named(q)}}

strandedKeyRoot(m, h) ==
    KeyRoot(m) # "profiles" /\ \E p \in DOMAIN h.pairs \union DOMAIN h.files : p[1] = "profiles"

duplicateKeys(m, h) ==
    {<<p, q>> \in GlobKeyTree(m, h) \X GlobKeyTree(m, h) :
        p # q /\ h.pairs[p].public # "" /\ h.pairs[p].public = h.pairs[q].public}

unpinnedHosts(m, h) ==
    {r.host.alias : r \in {r \in ToSet(IterResolved(m)) : ~HostInKnownHosts(h.pins, hostToken(r.host))}}

onePasswordIssues(m) ==
    UsesOnePassword(m) /\
        \/ "op" \notin Tools
        \/ \E p \in ToSet(m.profiles) : InOnePassword(p) /\ p.vault \notin Vaults

\* A program that a file names for the way to a host, and that is not there.
staleProxies(m, h) ==
    \E f \in {RootConfig} \union {CategoryConfig(m, c) : c \in ToSet(Categories(m))} :
        \E line \in ToSet(Content(h.files, f)) :
            Is("option", line) /\ line.option = "proxycommand" /\ Head(line.value) \notin Tools

neededTools(m) ==
    ({host.vm : host \in ToSet(AllHosts(m))} \ {""})
    \union (IF m.git.mode # "" THEN {"git"} ELSE {})

Dirs(h) == UNION {{SubSeq(p, 1, n) : n \in 1..(Len(p) - 1)} : p \in DOMAIN h.pairs \union DOMAIN h.files}

Errors(m, h, strict) ==
    \/ permIssues(m, h) # {}
    \/ ~BlockInSync(m, h.files, Dirs(h))
    \/ onePasswordIssues(m)
    \/ staleProxies(m, h)
    \/ findShadows(m, h.files) # {}
    \/ ~(neededTools(m) \subseteq Tools)
    \/ ~AuditOK(m, h, strict)
    \/ archivedKeys(m, h) # {}

Warnings(m, h) ==
    \/ unpinnedHosts(m, h) # {}
    \/ ReservedProblems(m, h) # {}
    \/ duplicateKeys(m, h) # {}
    \/ strandedKeyRoot(m, h)

\* Without a valid manifest what it says is not looked at.
OK(m, h, strict) ==
    IF validate(m) THEN ~Errors(m, h, strict) /\ (strict => ~Warnings(m, h))
    ELSE permIssues(m, h) = {} /\ archivedKeys(m, h) = {} /\ ~(strict /\ strandedKeyRoot(m, h))

-----------------------------------------------------------------------------
(* Repairs                                                                 *)

\* The key that the public half is made from; "" where there is none to be had.
source(r, h) ==
    IF r.vault = ""
    THEN IF PairAt(h, r.path).private \in Locked THEN "" ELSE PairAt(h, r.path).private
    ELSE IF \E item \in Items : item[1] = r.vault /\ item[2] = r.ref.key
         THEN (CHOOSE item \in Items : item[1] = r.vault /\ item[2] = r.ref.key)[3] ELSE ""

\* The record of the key at the path goes over to the key that is there now.
rekey(records, path, fp) ==
    LET old == {f \in DOMAIN records : records[f] = path /\ f # fp}
    IN  IF old = {} THEN records
        ELSE LET gone == CHOOSE f \in old : TRUE
             IN  [f \in (DOMAIN records \ {gone}) \union {fp} |->
                     IF f = fp THEN path ELSE records[f]]

RegenerateOne(h, r) ==
    LET key == source(r, h)
    IN  IF key \in {"", PairAt(h, r.path).public} THEN h
        ELSE [h EXCEPT !.pairs = [p \in DOMAIN @ \union {r.path} |->
                                     IF p = r.path THEN [PairAt(h, p) EXCEPT !.public = key] ELSE @[p]],
                       !.records = rekey(@, r.path, key),
                       !.loose = @ \ {FileOf(r.path, "public")}]

Regenerate(h, rows) == FoldLeft(RegenerateOne, h, SetToSeq(rows))

\* What repair finds in ~/.ssh that it can put right.
HalfPairs(m, h) == {r \in Rows(m, h) : r.private /\ ~r.public}
Check(m, h) ==
    (IF permIssues(m, h) # {} THEN {"modes"} ELSE {})
    \union (IF validate(m) /\ HalfPairs(m, h) # {} THEN {"public"} ELSE {})
    \union (IF validate(m) /\ ~BlockInSync(m, h.files, Dirs(h)) THEN {"config"} ELSE {})

SetModes(m, h) == [h EXCEPT !.loose = @ \ ManagedPaths(m, h)]
Replaced(h, files) ==
    [h EXCEPT !.files = files,
              !.loose = {f \in @ : f \in DOMAIN h.files => f \in DOMAIN files /\ files[f] = h.files[f]}]
Render(m, h) == Replaced(h, Write(m, h.files, Dirs(h)))

FixFound(m, h, found) ==
    LET modes == SetModes(m, h)
        public == IF "public" \in found THEN Regenerate(modes, HalfPairs(m, modes)) ELSE modes
    IN  IF "config" \in found THEN Render(m, public) ELSE public
Fix(m, h) == FixFound(m, h, Check(m, h))

\* clean: the pins and the records of what there is no longer.
Clean(m, h, adopt) ==
    [h EXCEPT !.pins = Prune(m, IF adopt THEN Adopt(m, @) ELSE @),
              !.records = [fp \in DOMAIN @ \ staleInventory(m, h) |-> @[fp]]]

=============================================================================
