----------------------------- MODULE SSHConfig -----------------------------
(***************************************************************************)
(* ~/.ssh/config: the block the manifest is rendered to and the files of   *)
(* the categories (internal/core/renderer), how they are put among the     *)
(* lines a person keeps there, and what the check of them looks for        *)
(* (internal/services/configsvc). Last, how ssh reads the result.          *)
(*                                                                         *)
(* A file is the sequence of its lines, blank ones left out. A pattern is  *)
(* what it matches. Files are a function from the paths that exist.        *)
(***************************************************************************)
EXTENDS Manifest, TLC

CONSTANTS Alias     \* the names ssh may be asked for

-----------------------------------------------------------------------------
(* Lines                                                                   *)

ManagedHeader == [marker |-> "header"]
ManagedEnd == [marker |-> "end"]
MatchAll == [match |-> "all"]
Exactly(alias) == [not |-> FALSE, matches |-> {alias}]
Everyone == [not |-> FALSE, matches |-> Alias]
HostLine(patterns) == [host |-> patterns]
Include(file) == [include |-> file]
Option(keyword, value) == [option |-> keyword, value |-> value]

Is(kind, line) == kind \in DOMAIN line
Opens(line) == Is("host", line) \/ Is("match", line)

\* The Host or Match line that line i stands under; 0 at the top of the file.
OpenedBy(lines, i) == LET above == {j \in 1..(i - 1) : Opens(lines[j])}
                      IN  IF above = {} THEN 0 ELSE Max(above)

-----------------------------------------------------------------------------
(* Rendering                                                               *)

RootConfig == <<"config">>
CategoryConfig(m, category) == <<KeyRoot(m), category, "config">>

HasOption(options, keyword) == \E o \in ToSet(options) : o[1] = keyword
OptionOr(options, keyword, otherwise) ==
    IF HasOption(options, keyword)
    THEN (CHOOSE o \in ToSet(options) : o[1] = keyword)[2] ELSE otherwise

If(condition, lines) == IF condition THEN lines ELSE <<>>

proxyFor(h) ==
    IF h.proxy = "cloudflared" THEN <<"cloudflared">>
    ELSE If(h.vm # "", <<"authama", h.alias>>)

PortIsWritten(h) == h.port \notin {0, DefaultPort}

\* Raw options but those that would repeat a line written above.
RawLines(h) ==
    LET kept == SelectSeq(h.raw, LAMBDA o :
                    /\ o[1] # "identitiesonly"
                    /\ o[1] \in ManagedHostOptions => o[1] = "port" /\ ~PortIsWritten(h))
    IN  [i \in DOMAIN kept |-> Option(kept[i][1], <<kept[i][2]>>)]

\* The key, or its public half where an agent has the private one.
identityFor(m, ref) ==
    IF InOnePassword(Profile(m, ref.profile)) THEN PublicOf(IdentityFile(m, ref))
    ELSE IdentityFile(m, ref)

writeHostBlock(m, h, ref) ==
    <<HostLine(<<Exactly(h.alias)>>), Option("hostname", <<h.hostname>>), Option("user", <<h.user>>)>>
    \o If(PortIsWritten(h), <<Option("port", <<ToString(h.port)>>)>>)
    \o <<Option("identityfile", identityFor(m, ref))>>
    \o If(InOnePassword(Profile(m, ref.profile)) /\ ~HasOption(h.raw, "identityagent"),
          <<Option("identityagent", <<"1password">>)>>)
    \o <<Option("identitiesonly", <<OptionOr(h.raw, "identitiesonly", "yes")>>),
         Option("userknownhostsfile", <<"known_hosts">>)>>
    \o If(proxyFor(h) # <<>>, <<Option("proxycommand", proxyFor(h))>>)
    \o RawLines(h)

hostsByProfile(m, name) == SelectSeq(IterResolved(m), LAMBDA r : r.ref.profile = name)
writeProfile(m, name) ==
    LET hosts == hostsByProfile(m, name)
    IN  FlattenSeq([i \in DOMAIN hosts |-> writeHostBlock(m, hosts[i].host, hosts[i].ref)])

\* What a bare github.com is: the git profile's host, under that name.
gitHubBlock(m) ==
    IF m.git.profile = "" \/ \E h \in ToSet(AllHosts(m)) : h.alias = "github.com" THEN <<>>
    ELSE LET p == Profile(m, m.git.profile)
             h == Head(GitHubHostOf(p))
             bare == [h EXCEPT !.alias = "github.com", !.user = "git", !.vm = "", !.proxy = ""]
         IN  writeHostBlock(m, bare, RefOf(p, h))

gitCategory(m) == IF m.git.profile = "" THEN "" ELSE Profile(m, m.git.profile).category

ProfilesIn(m, category) ==
    LET in == SelectSeq(m.profiles, LAMBDA p : p.category = category)
    IN  FlattenSeq([i \in DOMAIN in |-> writeProfile(m, in[i].name)])

\* Last, as ssh takes the first value it finds.
writeGlobalBlock(m) ==
    <<HostLine(<<Everyone>>)>>
    \o [i \in DOMAIN m.global |-> Option(m.global[i][1], <<m.global[i][2]>>)]
    \o If(~HasOption(m.global, "hashknownhosts"), <<Option("hashknownhosts", <<"yes">>)>>)

\* Mutant of RenderRootConfig: the Includes stand under whatever Host is above the block.
IncludesInPlace(m) ==
    <<ManagedHeader>>
    \o [i \in DOMAIN Categories(m) |-> Include(CategoryConfig(m, Categories(m)[i]))]
    \o ProfilesIn(m, "")
    \o If(gitCategory(m) = "", gitHubBlock(m))
    \o writeGlobalBlock(m)
    \o <<ManagedEnd>>

RenderRootConfig(m) ==
    <<ManagedHeader>>
    \o If(Categories(m) # <<>>,
          <<MatchAll>> \o [i \in DOMAIN Categories(m) |->
                              Include(CategoryConfig(m, Categories(m)[i]))])
    \o ProfilesIn(m, "")
    \o If(gitCategory(m) = "", gitHubBlock(m))
    \o writeGlobalBlock(m)
    \o <<ManagedEnd>>

RenderCategoryConfig(m, category) ==
    <<ManagedHeader>>
    \o ProfilesIn(m, category)
    \o If(gitCategory(m) = category, gitHubBlock(m))

RenderAll(m) ==
    [f \in {RootConfig} \union {CategoryConfig(m, c) : c \in ToSet(Categories(m))} |->
        IF f = RootConfig THEN RenderRootConfig(m) ELSE RenderCategoryConfig(m, f[2])]

-----------------------------------------------------------------------------
(* Among a person's lines                                                  *)

\* An Include that only works at the top of the file.
TopInclude == Include(<<"orbstack">>)

\* Moves the first of them, with the comment above it, from below to the top.
HoistOne(around) ==
    LET below == around.below
        i == SelectInSeq(below, LAMBDA line : line = TopInclude)
        from == CHOOSE j \in 1..i : /\ \A n \in j..(i - 1) : Is("comment", below[n])
                                    /\ j > 1 => ~Is("comment", below[j - 1])
    IN  IF i = 0 THEN around
        ELSE [above |-> SubSeq(below, from, i) \o around.above,
              below |-> SubSeq(below, 1, from - 1) \o SubSeq(below, i + 1, Len(below))]

hoistTopIncludes(around) == FoldLeft(LAMBDA found, line : HoistOne(found), around, around.below)

\* Mutant of Around: the header is taken to be a person's.
AroundWithHeader(lines) ==
    LET start == SelectInSeq(lines, LAMBDA line : line = ManagedHeader)
        ends == {i \in (start + 1)..Len(lines) : lines[i] = ManagedEnd}
    IN  IF start = 0 THEN [above |-> lines, below |-> <<>>]
        ELSE [above |-> SubSeq(lines, 1, start),
              below |-> If(ends # {}, SubSeq(lines, Min(ends) + 1, Len(lines)))]

\* What is a person's: the lines above the block and those below its end.
Around(lines) ==
    LET start == SelectInSeq(lines, LAMBDA line : line = ManagedHeader)
        ends == {i \in (start + 1)..Len(lines) : lines[i] = ManagedEnd}
    IN  IF start = 0 THEN [above |-> lines, below |-> <<>>]
        ELSE [above |-> SubSeq(lines, 1, start - 1),
              below |-> If(ends # {}, SubSeq(lines, Min(ends) + 1, Len(lines)))]

ComposeRootConfig(existing, managed) ==
    LET around == hoistTopIncludes(Around(existing))
    IN  around.above \o managed \o around.below

Content(files, f) == IF f \in DOMAIN files THEN files[f] ELSE <<>>

Target(rendered, files, f) ==
    IF f = RootConfig THEN ComposeRootConfig(Content(files, f), rendered[f]) ELSE rendered[f]

-----------------------------------------------------------------------------
(* Write and Check                                                         *)

\* A category's file somebody wrote before there was a category is not pruned: beside
\* the directories of profiles only a managed header makes a config the program's.
ownsConfigFile(files, dirs, f) ==
    \/ files[f] # <<>> /\ Head(files[f]) = ManagedHeader
    \/ \A d \in dirs : Front(d) = Front(f) => Last(d) = "old"

configFilesOnDisk(m, files, dirs) ==
    {f \in DOMAIN files :
        \/ f = RootConfig
        \/ Len(f) = 3 /\ f[1] = KeyRoot(m) /\ ownsConfigFile(files, dirs, f)}

\* The root's config first, as files are written in the order of their names, then what
\* is not rendered goes.
WriteOrder(rendered) == <<RootConfig>> \o SetToSeq(DOMAIN rendered \ {RootConfig})

WrittenUpTo(rendered, files, n) ==
    LET written == ToSet(SubSeq(WriteOrder(rendered), 1, n))
    IN  [f \in DOMAIN files \union written |->
            IF f \in written THEN Target(rendered, files, f) ELSE files[f]]
Written(rendered, files) == WrittenUpTo(rendered, files, Cardinality(DOMAIN rendered))

Pruned(m, files, dirs) == configFilesOnDisk(m, files, dirs) \ DOMAIN RenderAll(m)

Write(m, files, dirs) ==
    Restrict(Written(RenderAll(m), files),
             (DOMAIN RenderAll(m) \union DOMAIN files) \ Pruned(m, files, dirs))

BlockInSync(m, files, dirs) ==
    LET holds(rendered) == /\ DOMAIN rendered \subseteq DOMAIN files
                           /\ \A f \in DOMAIN rendered : files[f] = Target(rendered, files, f)
    IN  holds(RenderAll(m)) /\ Pruned(m, files, dirs) = {}

hostMatches(patterns, alias) ==
    /\ \A p \in ToSet(patterns) : p.not => alias \notin p.matches
    /\ \E p \in ToSet(patterns) : ~p.not /\ alias \in p.matches

\* The keywords that line j opens, at the top level those before any Host or Match.
Keywords(lines, j) ==
    {lines[i].option : i \in {i \in DOMAIN lines : Is("option", lines[i]) /\ OpenedBy(lines, i) = j}}

managedKeywords(rendered, alias) ==
    UNION {UNION {Keywords(rendered[f], j) :
                      j \in {j \in DOMAIN rendered[f] : rendered[f][j] = HostLine(<<Exactly(alias)>>)}}
           : f \in DOMAIN rendered}

\* A Match that is not "Match all" is beyond the check: it is not evaluated.
Applies(lines, j, alias) ==
    \/ j = 0
    \/ j > 0 /\ lines[j] = MatchAll
    \/ j > 0 /\ Is("host", lines[j]) /\ hostMatches(lines[j].host, alias)

\* Who is overruled by a line above the block.
findShadows(m, files) ==
    LET above == Around(Content(files, RootConfig)).above
    IN  {alias \in Alias : \E j \in 0..Len(above) :
            /\ Applies(above, j, alias)
            /\ \E k \in Keywords(above, j) : k \in managedKeywords(RenderAll(m), alias)}

findDuplicates(rendered, files) ==
    LET region == [f \in DOMAIN rendered \intersect DOMAIN files |->
                      IF f = RootConfig
                      THEN LET around == Around(files[f])
                           IN  SubSeq(files[f], Len(around.above) + 1, Len(files[f]) - Len(around.below))
                      ELSE files[f]]
        naming(alias) == UNION {{<<f, i>> : i \in {i \in DOMAIN region[f] :
                                    region[f][i] = HostLine(<<Exactly(alias)>>)}} : f \in DOMAIN region}
    IN  {alias \in Alias : Cardinality(naming(alias)) > 1}

-----------------------------------------------------------------------------
(* ssh                                                                     *)

\* A pattern list is decided by the first negated pattern that matches, if there is one.
\* What a Match asks for is taken to be so.
SSHMatches(line, alias) ==
    IF Is("match", line) THEN TRUE
    ELSE LET hits == SelectSeq(line.host, LAMBDA p : alias \in p.matches)
         IN  hits # <<>> /\ SelectInSeq(hits, LAMBDA p : p.not) = 0

Governed(lines, i, alias) == OpenedBy(lines, i) = 0 \/ SSHMatches(lines[OpenedBy(lines, i)], alias)

Included(files, line) == IF Is("include", line) THEN Content(files, line.include) ELSE <<>>

\* The options that count for an alias, in the order they are read: an Include is read
\* where it stands, and what it opens ends with it.
Read(files, alias) ==
    LET root == Content(files, RootConfig)
        counting(lines) == FlattenSeq([i \in DOMAIN lines |->
            If(Is("option", lines[i]) /\ Governed(lines, i, alias), <<lines[i]>>)])
    IN  FlattenSeq([i \in DOMAIN root |->
            If(Governed(root, i, alias),
               If(Is("option", root[i]), <<root[i]>>)
               \o counting(Included(files, root[i])))])

\* The first value counts.
SSHValue(read, keyword) ==
    LET given == SelectSeq(read, LAMBDA line : line.option = keyword)
    IN  IF given = <<>> THEN <<>> ELSE Head(given).value

=============================================================================
