------------------------------- MODULE Tokens -------------------------------
(***************************************************************************)
(* What the token commands do with the credential files                    *)
(* (internal/services/tokensvc and the rules of internal/core/tokens they  *)
(* go by): the config that names variables and what is made of it, the     *)
(* writing of one tool's file after another, deleting, the modes, and the  *)
(* block of aliases in a shell's startup file.                             *)
(*                                                                         *)
(* What is there is a record: the files by tool (git has two places), the  *)
(* files others may read, what Docker's credential store holds, the        *)
(* configs by place, the startup file, and what the person has at hand:    *)
(* the credentials to give, and the environment. A person with none to     *)
(* give runs none of the commands.                                         *)
(***************************************************************************)
EXTENDS CredentialFiles

CONSTANTS
    Catalog         \* the tools in their order, the services with their mechanisms,
                    \* the mechanisms that store one token, and the config built in

VARIABLE tokens

CredentialTools == ToSet(Catalog.targets)

-----------------------------------------------------------------------------
(* A set of credentials: one for a host of a tool                          *)

AddTo(set, c) ==
    IF complete(c)
    THEN Append(SelectSeq(set, LAMBDA d : d.target # c.target \/ d.host # c.host), c)
    ELSE set

EntriesOf(set, t) == SelectSeq(set, LAMBDA c : c.target = t)
TargetsOf(set) == SelectSeq(Catalog.targets, LAMBDA t : EntriesOf(set, t) # <<>>)

-----------------------------------------------------------------------------
(* The config: for a host the variables its credential is in               *)

\* Grouped by tool, or from before there was more than one: Composer's hosts, in a group
\* of their own or at the top.
Specs(config) ==
    LET of(t) == SelectSeq(config.entries, LAMBDA s : s.target = t)
        hosts == SelectSeq(config.entries, LAMBDA s : s.host.name # "_help")
    IN  IF config.shape = "v2" THEN FlattenSeq([i \in DOMAIN Catalog.targets |-> of(Catalog.targets[i])])
        ELSE [i \in DOMAIN hosts |-> [hosts[i] EXCEPT !.target = "composer"]]

Mechanism(s) ==
    IF s.type # "" THEN s.type
    ELSE IF s.service \in DOMAIN Catalog.services THEN Catalog.services[s.service] ELSE ""

IsTokenMechanism(mechanism) == mechanism \in Catalog.tokenMechanisms
Mechanisms == Catalog.tokenMechanisms \union {"http-basic", "bitbucket-oauth", "custom-headers"}

Value(env, var) == IF var \in DOMAIN env THEN env[var] ELSE ""

CredentialOf(s, env) ==
    [target |-> s.target, host |-> s.host,
     mechanism |-> IF s.target = "composer" THEN Mechanism(s) ELSE "",
     user |-> Value(env, s.user), secret |-> Value(env, s.secret),
     scope |-> IF s.target = "npm" THEN s.scope ELSE "",
     always |-> s.target = "npm" /\ s.always]

\* An entry whose variables are not set, or that cannot be written, is skipped.
resolveOne(set, s, env) ==
    LET c == CredentialOf(s, env)
    IN  IF \/ s.malformed
           \/ s.target = "composer" /\ c.mechanism \notin Mechanisms
           \/ complete(c) /\ Unsafe(c)
        THEN set ELSE AddTo(set, c)

Resolve(config, env) == FoldLeft(LAMBDA set, s : resolveOne(set, s, env), <<>>, Specs(config))

\* The first that is there of: the one a variable names, the directory's, the home's, and
\* those of the tool before.
Places == <<"named", "local", "home", "legacyNamed", "legacyLocal", "legacy">>
LegacyPlaces == {"legacyNamed", "legacyLocal", "legacy"}
FirstOf(places, configs) ==
    LET there == SelectSeq(places, LAMBDA p : p \in DOMAIN configs)
    IN  IF there = <<>> THEN "" ELSE Head(there)
FindConfig(configs) == FirstOf(Places, configs)
legacyCandidate(configs) == FirstOf(SelectSeq(Places, LAMBDA p : p \in LegacyPlaces), configs)

Unparsed == [shape |-> "", entries |-> <<>>]
ResolveConfig(configs) ==
    LET p == FindConfig(configs) IN IF p = "" THEN Catalog.defaultConfig ELSE configs[p]

\* token init and token import: never over what is there.
WithConfig(at, config) ==
    IF "home" \in DOMAIN at.configs THEN at ELSE [at EXCEPT !.configs = ("home" :> config) @@ @]
Scaffold(at, template) == WithConfig(at, template)
ImportConfig(at) ==
    LET p == legacyCandidate(at.configs)
    IN  IF p = "" \/ at.configs[p] = Unparsed THEN at ELSE WithConfig(at, at.configs[p])

-----------------------------------------------------------------------------
(* The files                                                               *)

\* Git's own file, or the one in the config directory where that alone is there.
TargetPath(t, files) ==
    IF t = "git" /\ "git" \notin DOMAIN files /\ "xdg git" \in DOMAIN files THEN "xdg git" ELSE t

FileAt(t, at) == LET p == TargetPath(t, at.files) IN IF p \in DOMAIN at.files THEN at.files[p] ELSE <<>>
Inventory(t, at) == Scan(t, FileAt(t, at))

\* In place of what is there, owner-only.
writeSecret(at, t, content) ==
    LET p == TargetPath(t, at.files)
    IN  [at EXCEPT !.files = (p :> content) @@ @, !.loose = @ \ {p}]

WriteTarget(at, set, t) ==
    IF Refuses(t, EntriesOf(set, t), FileAt(t, at)) THEN at
    ELSE writeSecret(at, t, Rendered(t, EntriesOf(set, t), FileAt(t, at)))

\* Docker reads a registry from a helper or the store before it reads the file.
Delegated(file, h) ==
    \E e \in ToSet(file) : "store" \in DOMAIN e \/ ("helper" \in DOMAIN e /\ e.helper = h)
HasDockerDelegation(set, file) == \E c \in ToSet(EntriesOf(set, "docker")) : Delegated(file, c.host)

\* docker login for each in turn, of which the last may fail, or skipping, as a flag, the
\* config or a person says: the rest goes into the file.
Modes == {"refuse", "login", "login fails"}
SyncDocker(at, set, mode) ==
    LET file == FileAt("docker", at)
        entries == EntriesOf(set, "docker")
        given == SelectSeq(entries, LAMBDA c : Delegated(file, c.host))
        inline == SelectSeq(entries, LAMBDA c : ~Delegated(file, c.host))
        through == IF mode = "refuse" THEN <<>> ELSE IF mode = "login" \/ given = <<>> THEN given ELSE Front(given)
        loggedIn == [at EXCEPT !.stored = FoldLeft(LAMBDA held, c : (c.host :> <<c.user, c.secret>>) @@ held, @, through)]
    IN  IF inline = <<>> \/ (mode = "login fails" /\ given # <<>>) THEN loggedIn
        ELSE WriteTarget(loggedIn, inline, "docker")

WriteOne(at, set, t, mode) == IF t = "docker" THEN SyncDocker(at, set, mode) ELSE WriteTarget(at, set, t)

\* One tool after another, as far as the first that fails.
Fails(at, set, t, mode) ==
    LET file == FileAt(t, at)
        inline == SelectSeq(EntriesOf(set, t), LAMBDA c : t # "docker" \/ ~Delegated(file, c.host))
    IN  \/ t = "docker" /\ mode = "login fails" /\ HasDockerDelegation(set, file)
        \/ inline # <<>> /\ Refuses(t, inline, file)

WriteUpTo(at, set, targets, mode, n) ==
    LET last == Min({n, Len(targets)} \union {i \in DOMAIN targets : Fails(at, set, targets[i], mode)})
    IN  FoldLeft(LAMBDA a, t : WriteOne(a, set, t, mode), at, SubSeq(targets, 1, last))
WriteAll(at, set, targets, mode) == WriteUpTo(at, set, targets, mode, Len(targets))

\* token set: one credential, checked before its secret is asked for.
SpecOK(c) ==
    /\ c.target \in CredentialTools
    /\ c.target = "composer" => IsTokenMechanism(c.mechanism) \/ c.mechanism = "http-basic"
    /\ NeedsUser(c) => c.user # ""
SetToken(at, c, mode) ==
    IF SpecOK(c) /\ AddTo(<<>>, c) # <<>> THEN WriteAll(at, AddTo(<<>>, c), <<c.target>>, mode) ELSE at

\* token apply, for some of the tools or all, and cut off after n of them.
ApplyUpTo(at, chosen, mode, n) ==
    LET set == Resolve(ResolveConfig(at.configs), at.env)
    IN  WriteUpTo(at, set, SelectSeq(TargetsOf(set), LAMBDA t : t \in chosen), mode, n)
Apply(at, chosen, mode) == ApplyUpTo(at, chosen, mode, Len(Catalog.targets))

Forget(at, t, h) ==
    LET host == CanonicalHost(t, h)
    IN  IF \E it \in Inventory(t, at) : it.host = host
        THEN writeSecret(at, t, Purge(t, host, FileAt(t, at))) ELSE at

\* doctor --fix
HomeFiles(at) == [at EXCEPT !.loose = @ \ {TargetPath(t, at.files) : t \in CredentialTools}]

-----------------------------------------------------------------------------
(* The block of aliases                                                    *)

Mark(which) == [mark |-> which]
AliasBlock == <<Mark("begin"), [alias |-> "token"], Mark("end")>>
EndOf(line) == IF line = Mark("begin") THEN Mark("end") ELSE Mark("legacy end")
IsBegin(line) == line \in {Mark("begin"), Mark("legacy begin")}

\* From a beginning to its own end, or to the last line where it has none.
StripAliasBlock(lines) ==
    LET \* the line the block a line is in begins with, 0 outside
        in[i \in 0..Len(lines)] ==
            IF i = 0 THEN 0
            ELSE IF in[i - 1] > 0 /\ (i - 1 = in[i - 1] \/ lines[i - 1] # EndOf(lines[in[i - 1]])) THEN in[i - 1]
            ELSE IF IsBegin(lines[i]) THEN i ELSE 0
        kept == SetToSortSeq({i \in DOMAIN lines : in[i] = 0}, <)
    IN  [n \in DOMAIN kept |-> lines[kept[n]]]

HasAliasBlock(lines) == \E line \in ToSet(lines) : IsBegin(line)
InstallAliases(at) == [at EXCEPT !.startup = StripAliasBlock(@) \o AliasBlock]
RemoveAliases(at) == IF HasAliasBlock(at.startup) THEN [at EXCEPT !.startup = StripAliasBlock(@)] ELSE at

-----------------------------------------------------------------------------
(* The commands                                                            *)

Given == tokens.offered
ToolsGiven == {c.target : c \in Given}
Becomes(at) == Given # {} /\ tokens' = at

TokenSet == \E c \in Given, mode \in Modes : Becomes(SetToken(tokens, c, mode))

\* The process may die after any of the tools.
TokenApply ==
    \E chosen \in {CredentialTools} \union {{t} : t \in ToolsGiven}, mode \in Modes :
        \E n \in 0..Len(Resolve(ResolveConfig(tokens.configs), tokens.env)) :
            Becomes(ApplyUpTo(tokens, chosen, mode, n))

TokenDelete == \E c \in Given : Becomes(Forget(tokens, c.target, c.host))
TokenInit == Becomes(Scaffold(tokens, Catalog.defaultConfig))
TokenImport == Becomes(ImportConfig(tokens))
\* What is in the tools' files has nothing to do with the aliases: only who has a startup
\* file takes them.
AliasInstall == tokens.startup # <<>> /\ Becomes(InstallAliases(tokens))
AliasRemove == tokens.startup # <<>> /\ Becomes(RemoveAliases(tokens))

TokensNext == TokenSet \/ TokenApply \/ TokenDelete \/ TokenInit \/ TokenImport \/ AliasInstall \/ AliasRemove

-----------------------------------------------------------------------------
(* Properties                                                              *)

\* The host a listing has for what is written for a host.
AsListed(t, h) ==
    CASE t \in {"git", "yarn"} -> GitKey(h)
      [] t = "npm" -> npmRegistry(h)
      [] t = "gem" -> [gemKey(h) EXCEPT !.scheme = ""]
      [] t = "pypi" -> pypiHost(pypiSection(h), IF pypiSection(h) = h THEN h ELSE Server(""))
      [] OTHER -> h

\* Where the code departs from what is stated below: an entry that is listed under a host
\* is not the one a write or a delete finds for it, or the other way around; a registry
\* is there twice in .yarnrc.yml; or a machine of .netrc is not one whole line.
Departs(t, file, h) ==
    LET listed(e) == IF t = "npm" THEN e.registry ELSE ListedHost(t, e)
        entries == {i \in DOMAIN file : IF t = "npm" THEN "setting" \in DOMAIN file[i] ELSE IsEntry(file[i])}
    IN  IF t = "netrc"
        THEN \E line \in ToSet(file) :
                \/ line # <<>> /\ Head(line) \notin {"machine", "default", "#"}
                \/ \E i \in 2..Len(line) : line[i] \in BlockWords
        ELSE \/ \E i \in entries : IsFor(t, file[i], h) # (listed(file[i]) = AsListed(t, h))
             \/ t = "yarn" /\ \E i, j \in entries : i # j /\ IsFor(t, file[i], h) /\ IsFor(t, file[j], h)

OfOthers(t, at, host) == {l \in Inventory(t, at) : l.host # host}

\* What is written is what the tool then has for the host, in its file or in Docker's store,
\* it has all it had for other hosts, and writing it again changes nothing.
WritesArrive(at) ==
    LET arrives(c, host, after) ==
            /\ IF c.target = "docker" /\ Delegated(FileAt("docker", at), c.host)
               THEN after.stored[c.host] = <<c.user, c.secret>> /\ after.files = at.files
               ELSE [host |-> host, user |-> c.user, secret |-> c.secret] \in Inventory(c.target, after)
            /\ OfOthers(c.target, after, host) = OfOthers(c.target, at, host)
            /\ SetToken(after, c, "login") = after
        written(c, file) ==
            /\ SpecOK(c)
            /\ ~Refuses(c.target, <<c>>, file)
            /\ ~LeftAsItWas(c.target, file)
    IN  \A c \in at.offered :
            /\ written(c, FileAt(c.target, at))
            /\ ~Departs(c.target, FileAt(c.target, at), c.host)
            => arrives(c, AsListed(c.target, c.host), SetToken(at, c, "login"))

\* What is deleted is listed no longer, and what others have is.
DeletesRemove(at) ==
    \A t \in {c.target : c \in at.offered} : \A l \in Inventory(t, at) :
        ~Departs(t, FileAt(t, at), l.host) =>
            LET after == Forget(at, t, l.host)
            IN  Inventory(t, after) = OfOthers(t, at, l.host)

\* An apply that died or failed part of the way, run again, ends where it would have ended.
ApplyResumes(at) ==
    \A n \in DOMAIN Resolve(ResolveConfig(at.configs), at.env), cut \in Modes :
        Apply(ApplyUpTo(at, CredentialTools, cut, n), CredentialTools, "login") = Apply(at, CredentialTools, "login")

\* A credential that is written, deleted or applied reaches the file its tool reads, and
\* nothing of another host is lost on the way (core/tokens/merge.go:5-7: everything else
\* in the file is kept).
TokensReachTheirTools == WritesArrive(tokens) /\ DeletesRemove(tokens) /\ ApplyResumes(tokens)
=============================================================================
