--------------------------- MODULE CredentialFiles ---------------------------
(***************************************************************************)
(* The files fourteen tools keep their credentials in                      *)
(* (internal/core/tokens): what is listed of each, how a credential is     *)
(* written into one beside what is there, and how one is taken out.        *)
(*                                                                         *)
(* A file is the sequence of its entries, in the form its tool has for     *)
(* them; a record without a host is a line or a key the program leaves     *)
(* alone. Only .netrc is a sequence of lines of words, as what a line      *)
(* belongs to depends on the lines before. <<>> is a file with nothing in  *)
(* it, and a host is written in one of several ways: with a scheme, a port *)
(* or a slash at its end, or by its name alone, path included.             *)
(***************************************************************************)
EXTENDS Integers, SequencesExt, TLC

CONSTANTS
    Identifiers,    \* names of letters, digits and _, as Cargo and Gradle have them
    Spaced          \* values with a space in them, and their words

Server(name) == [scheme |-> "", name |-> name, port |-> 0, slash |-> FALSE]
Bare(h) == [h EXCEPT !.scheme = "", !.slash = FALSE]
IsName(h) == h = Server(h.name)

\* Content that is not what the tool's files are: a JSON array, YAML that is no mapping.
Unreadable == <<[other |-> "unreadable"]>>

InPlace == {"composer", "docker", "helm-oci", "yarn", "helm", "gh"}

NeedsUser(c) == \/ c.target \in {"docker", "git", "netrc", "pypi", "gradle", "maven", "helm", "helm-oci", "gh"}
                \/ c.target = "composer" /\ c.mechanism \in {"http-basic", "bitbucket-oauth"}

complete(c) == c.secret # "" /\ (NeedsUser(c) => c.user # "")

\* Why a credential cannot be written: what would be read as more than one word or one name.
Unsafe(c) ==
    \/ c.target \in {"npm", "netrc", "pypi", "cargo", "yarn", "gh"} /\ c.secret \in DOMAIN Spaced
    \/ c.target \in {"netrc", "pypi", "gh"} /\ c.user \in DOMAIN Spaced
    \/ c.target \in {"maven", "gh"} /\ ~IsName(c.host)
    \/ c.target \in {"pypi", "helm-oci"} /\ (c.host.scheme # "" \/ c.host.slash)
    \/ c.target \in {"cargo", "gradle"} /\ ~IsName(c.host)
    \/ c.target \in {"cargo", "gradle"} /\ c.host.name \notin Identifiers
          /\ ~(c.target = "cargo" /\ c.host.name = "crates.io")
    \/ c.target = "gem" /\ c.host.scheme # "https" /\ (c.host.scheme # "" \/ c.host.port # 0)
    \/ c.target = "helm" /\ c.host.scheme = ""

-----------------------------------------------------------------------------
(* What names a host in a file                                             *)

Setting(registry, key, value) == [registry |-> registry, setting |-> key, value |-> value]
npmRegistry(h) == Bare(h)

\* A line is a registry's when it begins with its name and a colon.
npmLineFor(line, registry) ==
    /\ "setting" \in DOMAIN line
    /\ line.registry.name = registry.name
    /\ registry.port \in {0, line.registry.port}

GitKey(h) == Bare(h)
yarnKey(h) == Bare(h)
sameURL(g, h) == [g EXCEPT !.slash = FALSE] = [h EXCEPT !.slash = FALSE]
gemKey(h) == IF h = Server("rubygems.org") THEN h ELSE [h EXCEPT !.scheme = "https", !.slash = FALSE]

pypiSection(h) ==
    IF h \in {Server("upload.pypi.org"), Server("pypi.org"), Server("pypi")} THEN Server("pypi")
    ELSE IF h \in {Server("test.pypi.org"), Server("testpypi")} THEN Server("testpypi")
    ELSE h

pypiHost(section, repository) ==
    IF section = Server("pypi") THEN Server("upload.pypi.org")
    ELSE IF section = Server("testpypi") THEN Server("test.pypi.org")
    ELSE IF repository = Server("") THEN section
    ELSE Server(repository.name)

IsEntry(e) == "host" \in DOMAIN e

\* The entry a write for the host, or a delete of it, finds.
IsFor(t, e, h) ==
    CASE t = "npm" -> npmLineFor(e, npmRegistry(h))
      [] t # "npm" /\ ~IsEntry(e) -> FALSE
      [] OTHER -> CASE t = "git" -> GitKey(e.host) = GitKey(h)
                    [] t = "yarn" -> yarnKey(e.host) = yarnKey(h)
                    [] t = "helm" -> sameURL(e.host, h)
                    [] t = "gem" -> e.host = gemKey(h)
                    [] t = "pypi" -> e.host = pypiSection(h)
                    [] t = "cargo" -> e.host = h /\ ~e.quoted
                    [] OTHER -> e.host = h

-----------------------------------------------------------------------------
(* .netrc: what the words of all its lines together say                    *)

BlockWords == {"machine", "default", "macdef"}

NetrcParse(lines) ==
    LET w == FlattenSeq(lines)
        opens[i \in 0..Len(w)] ==
            i > 0 /\ w[i] \in {"machine", "default"} /\ ~(opens[i - 1] /\ w[i - 1] = "machine")
        isName(i) == opens[i - 1] /\ w[i - 1] = "machine"
        starts == {i \in DOMAIN w : w[i] \in BlockWords /\ ~isName(i)}
        key[i \in 0..Len(w)] ==
            /\ i > 0 /\ i < Len(w)
            /\ w[i] \in {"login", "password", "account"} /\ ~isName(i)
            /\ w[i + 1] \notin BlockWords
            /\ ~key[i - 1]
        block(i) == LET next == {j \in starts : j > i} \union {Len(w) + 1}
                    IN  {j \in (i + 1)..(Min(next) - 1) : key[j]}
        value(i, keyword) ==
            LET js == {j \in block(i) : w[j] = keyword} IN IF js = {} THEN "" ELSE w[Max(js) + 1]
        pairs(i) == FlattenSeq([n \in DOMAIN w |-> IF n \in block(i) THEN <<w[n], w[n + 1]>> ELSE <<>>])
        at == SetToSortSeq({i \in DOMAIN w : opens[i] /\ (w[i] = "machine" => i < Len(w))}, <)
        read(i) == [name |-> IF w[i] = "machine" THEN <<w[i + 1]>> ELSE <<>>,
                    user |-> value(i, "login"), secret |-> value(i, "password"), pairs |-> pairs(i)]
    IN  [n \in DOMAIN at |-> read(at[n])]

WordsOf(v) == IF v \in DOMAIN Spaced THEN Spaced[v] ELSE <<v>>

IsMachineLine(line, h) == Len(line) >= 2 /\ line[1] = "machine" /\ line[2] = h.name
IsComment(line) == line # <<>> /\ line[1] = "#"

scanNetrc(lines) ==
    {[host |-> Server(b.name[1]), user |-> b.user, secret |-> b.secret] :
        b \in {b \in ToSet(NetrcParse(lines)) : b.name # <<>>}}

\* Line by line, wherever the rest of a machine's block is.
mergeNetrc(cs, lines) ==
    SelectSeq(lines, LAMBDA line : ~\E c \in ToSet(cs) : IsMachineLine(line, c.host))
        \o [i \in DOMAIN cs |-> <<"machine", cs[i].host.name, "login">> \o WordsOf(cs[i].user)
                                   \o <<"password">> \o WordsOf(cs[i].secret)]

\* Comments and macros are not in what is parsed: with one of them, whole lines go.
purgeNetrc(h, lines) ==
    IF \E line \in ToSet(lines) : IsComment(line) \/ "macdef" \in ToSet(line)
    THEN SelectSeq(lines, LAMBDA line : ~IsMachineLine(line, h))
    ELSE LET kept == SelectSeq(NetrcParse(lines), LAMBDA b : b.name # <<h.name>>)
             line(b) == (IF b.name = <<>> THEN <<"default">> ELSE <<"machine">> \o b.name) \o b.pairs
         IN  [n \in DOMAIN kept |-> line(kept[n])]

-----------------------------------------------------------------------------
(* What is listed of a file                                                *)

ListedHost(t, e) ==
    CASE t = "git" -> GitKey(e.host)
      [] t \in {"gem", "yarn"} -> [e.host EXCEPT !.scheme = ""]
      [] t = "pypi" -> pypiHost(e.host, e.repository)
      [] OTHER -> e.host

\* A key that is there twice has the value of the later one.
IsRepeated(t, file, i) ==
    /\ t \in {"pypi", "cargo", "gem", "gradle"}
    /\ \E j \in DOMAIN file : /\ j > i /\ IsEntry(file[j]) /\ file[j].host = file[i].host
                              /\ t = "cargo" => file[j].quoted = file[i].quoted

\* The user and the secret that stand in an entry.
Held(t, e) ==
    CASE t \in {"docker", "helm-oci"} -> <<e.user, IF e.secret # "" THEN e.secret ELSE e.identity>>
      [] t = "yarn" -> IF e.token # "" THEN <<"", e.token>> ELSE e.ident
      [] t = "gh" -> <<e.user, IF e.secret = "" /\ e.user \in DOMAIN e.users THEN e.users[e.user] ELSE e.secret>>
      [] OTHER -> <<e.user, e.secret>>

IsListed(t, e) ==
    CASE t \in {"cargo", "gh"} -> Held(t, e)[2] # ""
      [] t \in {"pypi", "yarn", "helm"} -> Held(t, e) # <<"", "">>
      [] OTHER -> TRUE

\* A token or a login in one line of a registry's, or a login in two.
scanNPM(lines) ==
    LET settings == {i \in DOMAIN lines : "setting" \in DOMAIN lines[i]}
        of(key) == {i \in settings : lines[i].setting = key}
        seen == {lines[i].registry : i \in of("_authToken") \union of("_auth")}
        last(registry, key) ==
            LET at == {i \in of(key) : lines[i].registry = registry} IN IF at = {} THEN "" ELSE lines[Max(at)].value
    IN  {[host |-> lines[i].registry, user |-> "", secret |-> lines[i].value] : i \in of("_authToken")}
        \union {[host |-> lines[i].registry, user |-> lines[i].value[1], secret |-> lines[i].value[2]] : i \in of("_auth")}
        \union {[host |-> r, user |-> last(r, "username"), secret |-> last(r, "_password")] :
                    r \in {lines[i].registry : i \in of("username") \union of("_password")} \ seen}

Scan(t, file) ==
    CASE t = "netrc" -> scanNetrc(file)
      [] t = "npm" -> scanNPM(file)
      [] OTHER -> {[host |-> ListedHost(t, file[i]), user |-> Held(t, file[i])[1], secret |-> Held(t, file[i])[2]] :
                      i \in {i \in DOMAIN file : /\ IsEntry(file[i]) /\ ~IsRepeated(t, file, i)
                                                 /\ IsListed(t, file[i])}}

\* The host a listing has for one that a person types.
CanonicalHost(t, h) == IF t = "git" THEN GitKey(h) ELSE h

-----------------------------------------------------------------------------
(* Writing one                                                             *)

NPMRC(c) ==
    (IF c.scope = "" THEN <<>> ELSE <<[scope |-> c.scope, url |-> c.host]>>)
        \o <<Setting(npmRegistry(c.host), "_authToken", c.secret)>>
        \o (IF c.always THEN <<Setting(npmRegistry(c.host), "always-auth", "true")>> ELSE <<>>)

Entry(c) == [host |-> c.host, user |-> c.user, secret |-> c.secret]

\* What is appended for a credential in the formats whose entries stand on their own.
Fresh(c) ==
    CASE c.target = "npm" -> NPMRC(c)
      [] c.target = "pypi" -> <<[Entry(c) EXCEPT !.host = pypiSection(c.host)]
                                 @@ [repository |-> IF c.host = pypiSection(c.host) THEN c.host ELSE Server("")]>>
      [] c.target = "cargo" -> <<Entry(c) @@ [quoted |-> FALSE]>>
      [] c.target = "gem" -> <<[Entry(c) EXCEPT !.host = gemKey(c.host)]>>
      [] OTHER -> <<Entry(c)>>

\* The line that says which registry has a scope.
IsScope(e, c) == c.target = "npm" /\ "scope" \in DOMAIN e /\ e.scope = c.scope

\* Mutant of Superseded: a host at another port is taken for the same.
SupersededByName(e, c) ==
    IsFor(c.target, e, c.host) \/ IsScope(e, c) \/ (IsEntry(e) /\ e.host.name = c.host.name)

Superseded(e, c) == IsFor(c.target, e, c.host) \/ IsScope(e, c)

Others(cs, file) == SelectSeq(file, LAMBDA e : ~\E c \in ToSet(cs) : Superseded(e, c))
FreshOf(cs) == FlattenSeq([i \in DOMAIN cs |-> Fresh(cs[i])])

\* .pypirc lists its sections, in the place of the list that was there or before all else.
IsIndex(e) == "servers" \in DOMAIN e
distutilsServers(file) ==
    LET index == [servers |-> {e.host : e \in {e \in ToSet(file) : IsEntry(e)}}]
    IN  IF \E e \in ToSet(file) : IsIndex(e)
        THEN [i \in DOMAIN file |-> IF IsIndex(file[i]) THEN index ELSE file[i]]
        ELSE <<index>> \o file

\* settings.xml: before the end of the servers, or of the settings.
IsEnd(e, of) == "end" \in DOMAIN e /\ e.end = of
End(of) == [end |-> of]
mergeMaven(left, new) ==
    LET at(of) == {i \in DOMAIN left : IsEnd(left[i], of)}
        before(i, more) == SubSeq(left, 1, i - 1) \o more \o SubSeq(left, i, Len(left))
    IN  IF left = <<>> THEN new \o <<End("servers"), End("settings")>>
        ELSE IF at("servers") # {} THEN before(Max(at("servers")), new)
        ELSE before(Max(at("settings")), Append(new, End("servers")))

\* A repository gets a name no other has.
helmName(file, h) ==
    LET name(n) == [base |-> Bare(h), n |-> n]
        taken == {e.name : e \in {e \in ToSet(file) : IsEntry(e)}}
    IN  name(Min({n \in 1..(Len(file) + 1) : name(n) \notin taken}))

\* An entry of the in-place formats, with the credential in it.
Blank(c, file) ==
    CASE c.target = "composer" -> Entry(c) @@ [section |-> c.mechanism]
      [] c.target \in {"docker", "helm-oci"} -> Entry(c) @@ [identity |-> ""]
      [] c.target = "yarn" -> [host |-> yarnKey(c.host), token |-> "", ident |-> <<"", "">>, always |-> FALSE, more |-> FALSE]
      [] c.target = "helm" -> Entry(c) @@ [name |-> helmName(file, c.host)]
      [] c.target = "gh" -> Entry(c) @@ [users |-> <<>>]

Updated(e, c) ==
    CASE c.target = "yarn" -> [e EXCEPT !.token = c.secret, !.ident = <<"", "">>, !.always = TRUE]
      [] c.target \in {"docker", "helm-oci"} -> [e EXCEPT !.user = c.user, !.secret = c.secret, !.identity = ""]
      [] c.target = "gh" -> [e EXCEPT !.user = c.user, !.secret = c.secret, !.users = (c.user :> c.secret) @@ @]
      [] OTHER -> [e EXCEPT !.user = c.user, !.secret = c.secret]

Put(file, c) ==
    LET at == {i \in DOMAIN file : /\ IsFor(c.target, file[i], c.host)
                                   /\ c.target = "composer" => file[i].section = c.mechanism}
        i == IF c.target = "helm" THEN Max(at) ELSE Min(at)
    IN  IF at = {} THEN Append(file, Updated(Blank(c, file), c)) ELSE [file EXCEPT ![i] = Updated(@, c)]

\* What the formats added later do with content they cannot read: nothing.
LeftAsItWas(t, file) ==
    \/ t \in {"yarn", "helm", "helm-oci", "gh"} /\ file = Unreadable
    \/ t = "maven" /\ file # <<>> /\ ~\E e \in ToSet(file) : IsEnd(e, "servers") \/ IsEnd(e, "settings")

Refuses(t, cs, file) ==
    \/ \E c \in ToSet(cs) : Unsafe(c)
    \/ t \in {"composer", "docker"} /\ file = Unreadable

Rendered(t, cs, file) ==
    IF LeftAsItWas(t, file) \/ cs = <<>> THEN file
    ELSE CASE t = "netrc" -> mergeNetrc(cs, file)
           [] t = "maven" -> mergeMaven(Others(cs, file), FreshOf(cs))
           [] t = "pypi" -> distutilsServers(Others(cs, file) \o FreshOf(cs))
           [] t = "gem" -> LET left == Others(cs, file)
                           IN  (IF left # <<>> /\ Head(left) = [other |-> "---"] THEN <<>> ELSE <<[other |-> "---"]>>)
                                   \o left \o FreshOf(cs)
           [] t \in InPlace -> FoldLeft(Put, file, cs)
           [] OTHER -> Others(cs, file) \o FreshOf(cs)

-----------------------------------------------------------------------------
(* Taking one out                                                          *)

purgeYarn(h, file) ==
    LET at == {i \in DOMAIN file : IsFor("yarn", file[i], h)}
        bare == [file[Min(at)] EXCEPT !.token = "", !.ident = <<"", "">>, !.always = FALSE]
    IN  IF at = {} THEN file
        ELSE IF bare.more THEN [file EXCEPT ![Min(at)] = bare] ELSE RemoveAt(file, Min(at))

\* The account in use loses its token; what is kept of other accounts stays.
purgeGH(h, file) ==
    [i \in DOMAIN file |->
        IF ~IsFor("gh", file[i], h) THEN file[i]
        ELSE [file[i] EXCEPT !.secret = "",
                             !.users = [u \in DOMAIN @ |-> IF u = file[i].user THEN "" ELSE @[u]]]]

Purge(t, h, file) ==
    CASE t = "netrc" -> purgeNetrc(h, file)
      [] t = "yarn" -> purgeYarn(h, file)
      [] t = "gh" -> purgeGH(h, file)
      [] t = "helm" -> [i \in DOMAIN file |-> IF IsFor(t, file[i], h) THEN [file[i] EXCEPT !.user = "", !.secret = ""]
                                              ELSE file[i]]
      [] t = "npm" -> SelectSeq(file, LAMBDA e : /\ ~IsFor(t, e, h)
                                                 /\ "scope" \in DOMAIN e => npmRegistry(e.url) # npmRegistry(h))
      [] t = "pypi" -> distutilsServers(SelectSeq(file, LAMBDA e : ~IsFor(t, e, h)))
      [] OTHER -> SelectSeq(file, LAMBDA e : ~IsFor(t, e, h))
=============================================================================
