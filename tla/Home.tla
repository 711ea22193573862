-------------------------------- MODULE Home --------------------------------
(***************************************************************************)
(* A person's ~/.ssh beside the program's: the manifest, the files ssh     *)
(* reads, the pins and the keys. The person edits any of them by hand, the *)
(* program renders, pins, repairs, cleans up and imports, and may be cut   *)
(* off between two files. The credential files of other tools lie beside   *)
(* it; only doctor --fix goes over both.                                   *)
(***************************************************************************)
EXTENDS Import, Tokens

CONSTANTS
    Manifests,      \* what a person may write into the manifest, valid or not
    Starts,         \* what the manifest and the home are at first: <<manifest, home>>
    Serves,         \* of a token the keys its server shows
    Blocks,         \* what a person may write into ~/.ssh/config
    Lines,          \* and into known_hosts
    TokenStarts,    \* what the credential files are at first, for who has any
    Strays,         \* <<path, pair>>: keys a person may put somewhere
    NoTokens, NoManifest,   \* neither credentials nor hosts
    MaxEdits        \* how much a person does

VARIABLES manifest, home, edits

sshVars == <<manifest, home, edits>>
vars == <<manifest, home, edits, tokens>>

\* Either is looked at by itself: what is rendered for ssh does not depend on the
\* credential files, nor these on it. Who has credentials has edited enough.
Init ==
    \/ /\ \E start \in Starts : manifest = start[1] /\ home = start[2]
       /\ edits = 0
       /\ tokens = NoTokens
    \/ /\ manifest = NoManifest[1] /\ home = NoManifest[2]
       /\ edits = MaxEdits
       /\ tokens \in TokenStarts

-----------------------------------------------------------------------------
(* The person                                                              *)

Edit(m, h) ==
    /\ edits < MaxEdits
    /\ edits' = edits + 1
    /\ manifest' = m
    /\ home' = h
    /\ UNCHANGED tokens

EditManifest == \E m \in Manifests \ {manifest} : Edit(m, home)

Config == Content(home.files, RootConfig)
WithFile(f, lines) ==
    [home EXCEPT !.files = [g \in DOMAIN @ \union {f} |-> IF g = f THEN lines ELSE @[g]]]

EditConfig ==
    \E lines \in Blocks :
        \/ Edit(manifest, WithFile(RootConfig, lines \o Config))
        \/ Edit(manifest, WithFile(RootConfig, Config \o lines))

\* A file for hosts of a category, which the manifest need not know.
WriteCategoryConfig ==
    \E lines \in {lines \in Blocks : Is("host", Head(lines))} :
        Edit(manifest, WithFile(CategoryConfig(manifest, "acme"), lines))

EditPins == \E line \in Lines : Edit(manifest, [home EXCEPT !.pins = Append(@, line)])

LoseHalf ==
    \E p \in DOMAIN home.pairs, half \in {"private", "public"} :
        LET left == [home.pairs[p] EXCEPT ![half] = ""]
        IN  Edit(manifest,
                 [home EXCEPT !.pairs = [q \in {q \in DOMAIN @ : q # p \/ left # NoPair} |->
                                            IF q = p THEN left ELSE @[q]]])

PutKey ==
    \E s \in Strays :
        Edit(manifest, [home EXCEPT !.pairs = [q \in DOMAIN @ \union {s[1]} |->
                                                  IF q = s[1] THEN s[2] ELSE @[q]]])

LoosenModes == Edit(manifest, [home EXCEPT !.loose = @ \union ManagedPaths(manifest, home)])

-----------------------------------------------------------------------------
(* The program                                                             *)

\* Nothing is done with a manifest that does not load.
Do(h) ==
    /\ validate(manifest)
    /\ home' = h
    /\ UNCHANGED <<manifest, edits, tokens>>

\* config render: what is left of the stores of the profiles goes in first.
Migrated == [home EXCEPT !.pins = Add(@, home.legacy), !.legacy = <<>>]
RenderConfig == Do(Render(manifest, Migrated))

\* The store is there still, or some of the files are not written.
CutOff ==
    \/ Do([Migrated EXCEPT !.legacy = home.legacy])
    \/ \E n \in 1..(Cardinality(DOMAIN RenderAll(manifest)) - 1) :
           Do([Migrated EXCEPT !.files = WrittenUpTo(RenderAll(manifest), @, n)])

PinHosts ==
    \E force \in BOOLEAN :
        Do([home EXCEPT !.pins = InitPins(@, Serves, TokensOf(manifest, ToSet(ProfileNames(manifest))), force)])

\* doctor --fix: the modes, those of the credential files too, and the stale pins if one
\* agrees.
FixPerms ==
    /\ \E agreed \in BOOLEAN :
          LET h == SetModes(manifest, home)
          IN  home' = IF agreed /\ validate(manifest) THEN [h EXCEPT !.pins = Prune(manifest, @)] ELSE h
    /\ tokens' = HomeFiles(tokens)
    /\ UNCHANGED <<manifest, edits>>

Repair == Do(Fix(manifest, home))
CleanUp == \E adopt \in BOOLEAN : Do(Clean(manifest, home, adopt))

PublicKeys ==
    \E r \in Rows(manifest, home) : Do(Regenerate(home, Select(manifest, home, {r.ref.key}, "")))

\* A host that names a public half is left to the code: what is imported is a pair.
NamesPublicHalf ==
    \E line \in UNION {ToSet(home.files[f]) : f \in DOMAIN home.files} :
        Is("option", line) /\ line.option = "identityagent"

Import_ ==
    /\ RootConfig \in DOMAIN home.files
    /\ ~NamesPublicHalf
    /\ \E new \in {ImportedManifest(manifest, home.files)} :
           /\ validate(new)
           /\ manifest' = new
           /\ home' = Imported(new, home)
    /\ UNCHANGED <<edits, tokens>>

Next ==
    \/ EditManifest \/ EditConfig \/ WriteCategoryConfig \/ EditPins \/ LoseHalf \/ PutKey \/ LoosenModes
    \/ RenderConfig \/ CutOff \/ PinHosts \/ FixPerms \/ Repair \/ CleanUp \/ PublicKeys \/ Import_
    \/ TokensNext /\ UNCHANGED sshVars

Spec == Init /\ [][Next]_vars

-----------------------------------------------------------------------------
(* Properties                                                              *)

\* Every block of the program's has its end: a person has not cut into one.
Intact(files) ==
    LET lines == Content(files, RootConfig)
    IN  ManagedHeader \in ToSet(lines) => ManagedEnd \in ToSet(lines)

Above(files) == Around(Content(files, RootConfig)).above
NothingOpaque(files) == \A line \in ToSet(Above(files)) : Is("match", line) => line = MatchAll

\* Where the file is in sync and nothing stands before it, ssh gives every host the values
\* the manifest has for it, however the person's lines, the categories' files and the
\* shared names of the git profile lie around and between the blocks.
SSHReadsTheManifest ==
    LET f == home.files
    IN  /\ validate(manifest)
        /\ BlockInSync(manifest, f, Dirs(home))
        /\ findShadows(manifest, f) = {}
        /\ NothingOpaque(f)
        => \A r \in ToSet(IterResolved(manifest)) :
              LET read == Read(f, r.host.alias) IN
              \A line \in ToSet(writeHostBlock(manifest, r.host, r.ref)) :
                  /\ Is("option", line)
                  /\ ~HasOption(r.host.raw, line.option)
                  => SSHValue(read, line.option) = line.value

\* What the strict report passes can be used: ssh finds the key it is told to offer, in a
\* file of the right mode, finds the server pinned under the name it looks for, and has
\* the program it is to go through. A host on the default port, which no line is written
\* for, may get another from a line of the person's or from its own raw options.
StrictDoctorMeansUsable ==
    /\ validate(manifest)
    /\ OK(manifest, home, TRUE)
    /\ NothingOpaque(home.files)
    => \A r \in ToSet(IterResolved(manifest)) :
          LET read == Read(home.files, r.host.alias)
              value(keyword) == SSHValue(read, keyword)
              path == value("identityfile")
              token == <<Head(value("hostname")),
                         IF value("port") = <<>> THEN DefaultPort ELSE PortOf(value("port"))>>
          IN  /\ \E p \in DOMAIN home.pairs :
                    \/ path = p /\ home.pairs[p].private # "" /\ p \notin home.loose
                    \/ path = PublicOf(p) /\ home.pairs[p].public # ""
              /\ (~PortIsWritten(r.host) /\ value("port") # <<>>) \/
                    \E line \in ToSet(home.pins) :
                        IsPin(line) /\ line.marker # "revoked" /\ token \in line.names
              /\ value("proxycommand") # <<>> => Head(value("proxycommand")) \in Tools

Closed(startup) ==
    \A i \in DOMAIN startup : IsBegin(startup[i]) => \E j \in (i + 1)..Len(startup) : startup[j] = EndOf(startup[i])
OwnLines(startup) == SelectSeq(startup, LAMBDA line : "other" \in DOMAIN line)

\* No command takes a line of the person's out of a file, a key off the disk, a pin that a
\* host of the manifest is verified by, or a token config or a credential file that it
\* cannot read.
WhatIsNotOursStays ==
    [][edits' = edits =>
        LET outside(files) == LET around == Around(Content(files, RootConfig))
                              IN  around.above \o around.below
            inPlace(files) == SelectSeq(outside(files), LAMBDA line : Is("host", line) \/ Is("option", line))
        IN  /\ Intact(home.files) =>
                  /\ ToSet(outside(home.files)) \subseteq ToSet(outside(home.files'))
                  /\ inPlace(home.files') = inPlace(home.files)
            /\ \A p \in DOMAIN home.pairs : PairAt(home', p).private = home.pairs[p].private
                                             \/ home.pairs[p].private = ""
            /\ \A line \in ToSet(home.pins) :
                  ~IsPin(line) \/ ~line.tagged \/ IsLive(manifest, line)
                  => \E kept \in ToSet(home.pins') : lineKey(kept) = lineKey(line)
            /\ Closed(tokens.startup) => OwnLines(tokens'.startup) = OwnLines(tokens.startup)
            /\ \A p \in DOMAIN tokens.configs : tokens'.configs[p] = tokens.configs[p]
            /\ \A t \in DOMAIN tokens.files : tokens.files[t] = Unreadable => tokens'.files[t] = Unreadable
      ]_vars

\* A second repair finds nothing that the first could have put right, whatever state a
\* person or a crash left the home in, and no host is in the program's lines twice; only a
\* key with a passphrase keeps it from its public half.
FixesSettle ==
    LET settled(after) ==
            /\ Check(manifest, after) \subseteq
                  (IF \E r \in HalfPairs(manifest, home) : source(r, home) = "" THEN {"public"} ELSE {})
            /\ Fix(manifest, after) = after
            /\ findDuplicates(RenderAll(manifest), after.files) = {}
    IN  validate(manifest) => settled(Fix(manifest, home))

\* The importer reads a file as ssh does: what it makes of a host is what ssh has for it,
\* where nothing is behind an Include, in a Match or above the first Host of another file.
ImportReadsWhatSSHReads ==
    LET f == home.files
        simple(lines) == ~\E i \in DOMAIN lines :
            /\ Is("option", lines[i])
            /\ \/ OpenedBy(lines, i) > 0 /\ Is("match", lines[OpenedBy(lines, i)])
               \/ \E n \in Includes(lines) : OpenedBy(lines, i) < n /\ n < i
        below(lines) == \A i \in DOMAIN lines : Is("option", lines[i]) => OpenedBy(lines, i) > 0
    IN  /\ \A g \in DOMAIN f : simple(f[g]) /\ (g # RootConfig => below(f[g]))
        /\ ~NamesPublicHalf
        =>
            \A p \in ToSet(ParsedHosts(manifest, f)) :
                LET read == Read(f, p.alias)
                    value(keyword) == SSHValue(read, keyword)
                    or(given, otherwise) == IF given = <<>> THEN otherwise ELSE Head(given)
                IN  /\ p.hostname = or(value("hostname"), p.alias)
                    /\ p.user = or(value("user"), Me)
                    /\ ToString(p.port) = or(value("port"), ToString(DefaultPort))
                    /\ p.identity = value("identityfile")

HomeTypeOK ==
    /\ DOMAIN tokens = {"files", "loose", "stored", "configs", "startup", "env", "offered"}
    /\ DOMAIN home = {"files", "pins", "legacy", "pairs", "records", "loose"}
    /\ edits \in 0..MaxEdits
    /\ RootConfig \in DOMAIN home.files => home.files[RootConfig] # <<>>

=============================================================================
