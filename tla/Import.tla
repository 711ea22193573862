------------------------------- MODULE Import -------------------------------
(***************************************************************************)
(* Taking an ssh configuration into a manifest (internal/services/         *)
(* importer): the importer reads the lines by itself, as ssh would, and    *)
(* what it makes of them replaces the manifest and the inventory.          *)
(***************************************************************************)
EXTENDS Doctor

CONSTANTS
    Ports,      \* the ports a line may name
    Me          \* who runs the program

-----------------------------------------------------------------------------
(* Blocks                                                                  *)

Includes(lines) == {i \in DOMAIN lines : Is("include", lines[i])}

\* The options below line j, or of the top for 0; an Include or a Match ends them.
OptionsUnder(lines, j) ==
    FlattenSeq([i \in DOMAIN lines |->
        If(/\ Is("option", lines[i]) /\ OpenedBy(lines, i) = j
           /\ \A n \in Includes(lines) : ~(j < n /\ n < i),
           <<lines[i]>>)])

block(lines, j) == [patterns |-> lines[j].host, all |-> FALSE, opts |-> OptionsUnder(lines, j)]

\* An included file's lines above its first Host belong to no block.
BlocksOf(lines) ==
    FlattenSeq([j \in DOMAIN lines |-> If(Is("host", lines[j]), <<block(lines, j)>>)])

\* A file is read where it is included first.
IncludedAt(files, lines, i) ==
    IF \E n \in Includes(lines) : n < i /\ lines[n] = lines[i] THEN <<>>
    ELSE BlocksOf(Included(files, lines[i]))

collectBlocks(files, lines) ==
    <<[patterns |-> <<>>, all |-> TRUE, opts |-> OptionsUnder(lines, 0)]>>
    \o FlattenSeq([j \in DOMAIN lines |->
           If(Is("host", lines[j]), <<block(lines, j)>>)
           \o IncludedAt(files, lines, j)])

\* Mutant of blockMatches: what a pattern leaves out is not left out.
SomePatternMatches(b, alias) == b.all \/ \E p \in ToSet(b.patterns) : ~p.not /\ alias \in p.matches

blockMatches(b, alias) == b.all \/ hostMatches(b.patterns, alias)
blockNames(b, alias) == Exactly(alias) \in ToSet(b.patterns)

Aliases(blocks) ==
    LET named == FlattenSeq([i \in DOMAIN blocks |-> blocks[i].patterns])
    IN  FoldLeft(LAMBDA all, p : IF p.not \/ Cardinality(p.matches) > 1 THEN all
                                 ELSE LET alias == CHOOSE a \in p.matches : TRUE
                                      IN  IF alias \in ToSet(all) THEN all ELSE Append(all, alias),
                 <<>>, named)

-----------------------------------------------------------------------------
(* Hosts                                                                   *)

Fields == {"hostname", "user", "port", "identityfile"}

\* The profile and the category whose directory a key is in.
profileFromIdentityIn(path, root) ==
    LET at == {i \in 1..(Len(path) - 1) : path[i] = root}
        below == SubSeq(path, Min(at) + 1, Len(path))
    IN  IF at = {} THEN [profile |-> "imported", category |-> ""]
        ELSE IF Len(below) = 3 /\ below[2] # "old"
        THEN [profile |-> below[2], category |-> below[1]]
        ELSE [profile |-> below[1], category |-> ""]

\* The root of the keys, or where it is when nobody says.
profileFrom(path, root) ==
    LET here == profileFromIdentityIn(path, root)
    IN  IF here.profile # "imported" THEN here ELSE profileFromIdentityIn(path, "profiles")

PortOf(value) == CHOOSE n \in Ports : <<ToString(n)>> = value

\* The first value of every field, whoever's block it is in, and what else stands in the
\* first block that names the host. A repeated option keeps its last value.
resolveHost(alias, blocks, root) ==
    LET mine == SelectSeq(blocks, LAMBDA b : blockMatches(b, alias))
        own == SelectSeq(mine, LAMBDA b : blockNames(b, alias))[1]
        lines == FlattenSeq([i \in DOMAIN mine |-> mine[i].opts])
        first(field) == LET given == SelectSeq(lines, LAMBDA l : l.option = field)
                        IN  IF given = <<>> THEN <<>> ELSE Head(given).value
        extra == SelectSeq(own.opts, LAMBDA l : l.option \notin Fields \union RunsCommands)
        last(i) == CHOOSE j \in DOMAIN extra : /\ extra[j].option = extra[i].option
                                               /\ \A n \in (j + 1)..Len(extra) :
                                                     extra[n].option # extra[i].option
        under == profileFrom(first("identityfile"), root)
    IN  [alias |-> alias,
         hostname |-> IF first("hostname") = <<>> THEN alias ELSE Head(first("hostname")),
         user |-> IF first("user") = <<>> THEN Me ELSE Head(first("user")),
         port |-> IF first("port") = <<>> THEN DefaultPort ELSE PortOf(first("port")),
         identity |-> first("identityfile"), profile |-> under.profile, category |-> under.category,
         raw |-> FlattenSeq([i \in DOMAIN extra |->
                     If(\A n \in 1..(i - 1) : extra[n].option # extra[i].option,
                        <<<<extra[i].option, Head(extra[last(i)].value)>>>>)])]

underProfile(p, root) ==
    p.identity # <<>> /\ profileFromIdentityIn(p.identity, root).profile = p.profile
                      /\ root \in ToSet(p.identity)

\* A key in the profile's directory keeps its name, another gets one to be copied to.
resolveKey(p, root) ==
    IF underProfile(p, root) THEN Last(p.identity) ELSE DeriveKeyName(p.profile, p.alias)

HostOf(p, root) ==
    [alias |-> p.alias, hostname |-> p.hostname, user |-> p.user, port |-> p.port,
     key |-> resolveKey(p, root), raw |-> p.raw, vm |-> "", proxy |-> ""]

ParsedHosts(m, files) ==
    LET blocks == collectBlocks(files, Content(files, RootConfig))
        aliases == Aliases(blocks)
        parsed == [i \in DOMAIN aliases |-> resolveHost(aliases[i], blocks, KeyRoot(m))]
    IN  SelectSeq(parsed, LAMBDA p : validateHost(HostOf(p, KeyRoot(m))))

-----------------------------------------------------------------------------
(* The manifest                                                            *)

Collected(m, parsed) ==
    LET names == FoldLeft(LAMBDA all, p : IF p.profile \in ToSet(all) THEN all
                                          ELSE Append(all, p.profile), <<>>, parsed)
        of(name) == SelectSeq(parsed, LAMBDA p : p.profile = name)
        category(name) == LET some == SelectSeq(of(name), LAMBDA p : p.category # "")
                          IN  IF some = <<>> THEN "" ELSE Head(some).category
        profile(name) ==
            [name |-> name, category |-> category(name), store |-> "", vault |-> "",
             scope |-> "per_service", key |-> "", keys |-> <<>>,
             hosts |-> [i \in DOMAIN of(name) |-> HostOf(of(name)[i], KeyRoot(m))]]
    IN  [Starter(m.root) EXCEPT !.profiles = [i \in DOMAIN names |-> profile(names[i])]]
ImportedManifest(m, files) == Collected(m, ParsedHosts(m, files))

\* A key from elsewhere is copied, unless one is there; what there is goes on the record.
ImportKey(m, h, p) ==
    LET from == PairAt(h, p.identity)
        path == KeyPath(m, [profile |-> p.profile, key |-> resolveKey(p, KeyRoot(m))])
        probe == IF from.public # "" THEN from.public ELSE from.private
    IN  [h EXCEPT
            !.pairs = IF \/ underProfile(p, KeyRoot(m)) \/ from.private = ""
                         \/ PairAt(h, path).private # ""
                      THEN @
                      ELSE [q \in DOMAIN @ \union {path} |->
                               IF q # path THEN @[q]
                               ELSE [private |-> from.private,
                                     public |-> IF from.public # "" THEN from.public
                                                ELSE PairAt(h, path).public]],
            !.records = IF probe = "" THEN @
                        ELSE [fp \in DOMAIN @ \union {probe} |-> IF fp = probe THEN path ELSE @[fp]]]

\* m is what the files were made into.
Imported(m, h) ==
    FoldLeft(LAMBDA home, p : ImportKey(m, home, p), [h EXCEPT !.records = <<>>], ParsedHosts(m, h.files))

=============================================================================
