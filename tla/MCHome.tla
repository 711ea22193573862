------------------------------- MODULE MCHome -------------------------------
(***************************************************************************)
(* Instances of Home for TLC: two hosts in two profiles, one of them in a  *)
(* category and the other the one a bare github.com stands for; two in one *)
(* profile, reached through proxies, one by an adopted key; a profile with *)
(* its keys in 1Password; and a manifest that does not load.               *)
(***************************************************************************)
EXTENDS Home

MCAlias == {"web", "db", "github.com"}

Host(alias, hostname, port) ==
    [alias |-> alias, hostname |-> hostname, user |-> "me", port |-> port, key |-> "",
     raw |-> <<>>, vm |-> "", proxy |-> ""]
Web == Host("web", "server", 22)
Db == Host("db", "server", 2222)
GitHub == Host("db", "github.com", 22)

Of(name, hosts) ==
    [name |-> name, category |-> "", store |-> "", vault |-> "", scope |-> "per_service",
     key |-> "", keys |-> <<>>, hosts |-> hosts]

With(profiles) ==
    [profiles |-> profiles, root |-> "", git |-> [mode |-> "", profile |-> ""],
     global |-> <<<<"user", "other">>>>, type |-> "ed25519", reserved |-> {}]

Git ==
    [With(<<[Of("job", <<Web>>) EXCEPT !.category = "acme"], Of("home", <<GitHub>>)>>)
        EXCEPT !.git = [mode |-> "ssh", profile |-> "home"]]
Proxies ==
    With(<<[Of("job", <<[Web EXCEPT !.proxy = "cloudflared"],
                        [Db EXCEPT !.vm = "lima", !.key = "adopted",
                                   !.raw = <<<<"port", "22">>, <<"identitiesonly", "no">>>>]>>)
               EXCEPT !.keys = <<[name |-> "adopted", path |-> <<"loose">>, type |-> ""]>>]>>)
Vaulted ==
    [With(<<[Of("job", <<[Web EXCEPT !.raw = <<<<"port", "2222">>>>]>>)
                EXCEPT !.store = "1password", !.vault = "ops"],
            [Of("home", <<Db>>) EXCEPT !.scope = "shared", !.key = "all"]>>)
        EXCEPT !.root = "keys", !.reserved = {"loose"}]
Twice == With(<<Of("job", <<Web>>), Of("home", <<Web>>)>>)

MCManifests == {Git, Proxies, Vaulted, Twice}

\* Every key of the manifest is there and on the record, and the reserved ones.
Pair(k) == [private |-> k, public |-> k]
Reconciled(m) ==
    LET refs == SetToSeq(KeyRefs(m))
        key(i) == "k" \o ToString(i)
        at(i) == KeyPath(m, refs[i])
        paths == {at(i) : i \in DOMAIN refs}
        number(p) == CHOOSE i \in DOMAIN refs : at(i) = p
    IN  [files |-> <<>>, pins |-> <<>>, legacy |-> <<Pin({<<"server", 22>>}, "old")>>,
         pairs |-> [p \in paths \union {<<name>> : name \in m.reserved} |->
                       IF p \notin paths THEN Pair("k0")
                       ELSE IF InOnePassword(Profile(m, refs[number(p)].profile))
                       THEN [Pair(key(number(p))) EXCEPT !.private = ""] ELSE Pair(key(number(p)))],
         records |-> [fp \in {key(i) : i \in DOMAIN refs} |-> at(CHOOSE i \in DOMAIN refs : key(i) = fp)],
         loose |-> {}]

MCStarts == {<<Git, Reconciled(Git)>>, <<Proxies, Reconciled(Proxies)>>, <<Vaulted, Reconciled(Vaulted)>>}

MCItems == {<<"ops", "job_web", Reconciled(Vaulted).pairs[<<"keys", "job", "job_web">>].public>>}

MCServes == [t \in (MCAlias \union {"server"}) \X {22, 2222} |-> IF t[2] = 22 THEN {"s1"} ELSE {"s2"}]

User(u) == Option("user", <<u>>)
MCBlocks ==
    {<<HostLine(<<Exactly("web")>>), User("root"), Option("identityfile", <<"loose">>)>>,
     <<HostLine(<<[not |-> TRUE, matches |-> {"web"}], Everyone>>), Option("port", <<"2222">>)>>,
     <<[match |-> "exec"], User("root")>>,
     <<[comment |-> "orbstack"], TopInclude>>,
     <<ManagedHeader, HostLine(<<Exactly("db")>>)>>}

MCLines ==
    {Pin({<<"server", 22>>}, "s1"),
     [Pin({<<"server", 22>>}, "s2") EXCEPT !.marker = "revoked"],
     [Pin({}, "ca") EXCEPT !.covers = {<<"server", 22>>}],
     [Pin({<<"gone", 22>>}, "s3") EXCEPT !.tagged = TRUE]}

MCStrays ==
    {<<<<"profiles", "job", "stray">>, Pair("k1")>>,
     <<<<"profiles", "acme", "job", "job_web">>, [private |-> "locked", public |-> ""]>>}

MCNoManifest == <<Twice, Reconciled(With(<<>>))>>

-----------------------------------------------------------------------------
(* The credential files: for each tool what other tools and people have    *)
(* put there, and credentials for one host or two                          *)

MCSpaced == [phrase |-> <<"pass", "phrase">>]

Acme == Server("acme")
Acme8 == [Acme EXCEPT !.port = 8080]
Globex == Server("globex")
Https(h) == [h EXCEPT !.scheme = "https"]
Slash(h) == [h EXCEPT !.slash = TRUE]

Cred(t, h, user, secret) ==
    [target |-> t, host |-> h, mechanism |-> IF t = "composer" THEN "http-basic" ELSE "", user |-> user,
     secret |-> secret, scope |-> "", always |-> FALSE]
Theirs(h) == [host |-> h, user |-> "them", secret |-> "theirs"]
Comment == [other |-> "comment"]
Index(hosts) == [servers |-> hosts]

Var(t, h, user, secret) ==
    [target |-> t, host |-> h, type |-> "", service |-> "", user |-> user, secret |-> secret, scope |-> "",
     always |-> FALSE, malformed |-> FALSE]
Vars(shape, entries) == [shape |-> shape, entries |-> entries]

MCCatalog ==
    [targets |-> <<"composer", "docker", "npm", "git", "netrc", "pypi", "cargo", "gem", "gradle", "maven", "yarn",
                   "helm", "helm-oci", "gh">>,
     services |-> [github |-> "github-oauth", packagist |-> "http-basic"],
     tokenMechanisms |-> {"github-oauth", "bearer"},
     defaultConfig |-> Vars("v2", <<[Var("composer", Server("github.com"), "", "GH_TOKEN") EXCEPT !.service = "github"]>>)]

MCNoTokens ==
    [files |-> <<>>, loose |-> {}, stored |-> <<>>, configs |-> [home |-> MCCatalog.defaultConfig], startup |-> <<>>, env |-> <<>>, offered |-> {}]
Holding(files, offered) == [MCNoTokens EXCEPT !.files = files, !.loose = DOMAIN files, !.offered = offered]

Yarn(h, token, more) == [host |-> h, token |-> token, ident |-> <<"", "">>, always |-> FALSE, more |-> more]

MCTokenStarts ==
    {Holding([npm |-> <<Setting(Acme8, "_authToken", "theirs"), Setting(Globex, "username", "them"),
                        Setting(Globex, "_password", "theirs"), [scope |-> "@acme", url |-> Globex], Comment>>],
             {[Cred("npm", Https(Acme), "", "s1") EXCEPT !.scope = "@acme", !.always = TRUE],
              Cred("npm", Acme8, "", "s2"), Cred("npm", Globex, "", "phrase")}),
     Holding([netrc |-> <<<<"#">>, <<"machine", "globex", "login", "them", "password", "theirs">>, <<"default", "login", "any">>>>],
             {Cred("netrc", Acme, "me", "s1"), Cred("netrc", Globex, "me", "s2")}),
     Holding([netrc |-> <<<<"machine", "globex", "login", "them">>, <<"password", "theirs">>, <<"machine", "acme">>>>],
             {Cred("netrc", Acme, "me", "s1"), Cred("netrc", Globex, "me", "s2")}),
     Holding(("xdg git" :> <<Theirs(Https(Acme8)), Comment>>) @@
             [docker |-> <<[helper |-> Globex], Theirs(Acme) @@ [identity |-> "token"]>>],
             {Cred("git", Https(Acme), "me", "s1"), Cred("git", Acme8, "me", "s2"),
              Cred("docker", Acme, "me", "s1"), Cred("docker", Globex, "me", "s2")}),
     Holding([pypi |-> <<Index({}), Theirs(Server("pypi")) @@ [repository |-> Server("")],
                         Theirs(Globex) @@ [repository |-> Https(Acme)]>>,
              docker |-> Unreadable],
             {Cred("pypi", Acme, "me", "s1"), Cred("pypi", Acme8, "me", "s2"),
              Cred("pypi", Server("upload.pypi.org"), "me", "s3"), Cred("docker", Acme, "me", "s1")}),
     Holding([gem |-> <<Theirs(Server("rubygems.org")), Comment>>,
              cargo |-> <<Theirs(Acme) @@ [quoted |-> TRUE], Theirs(Globex) @@ [quoted |-> FALSE]>>],
             {Cred("gem", Https(Slash(Acme)), "", "s1"), Cred("gem", Server("rubygems.org"), "", "s2"),
              Cred("cargo", Acme, "", "s1"), Cred("cargo", Server("crates.io"), "", "s2"),
              Cred("cargo", Server("not a name"), "", "s3")}),
     Holding([gradle |-> <<Comment, Theirs(Globex)>>, maven |-> <<Theirs(Globex), Comment, End("settings")>>],
             {Cred("gradle", Acme, "me", "s1"), Cred("gradle", Globex, "me", "s2"),
              Cred("maven", Acme, "me", "s1"), Cred("maven", Globex, "me", "s2")}),
     Holding([composer |-> <<Theirs(Acme) @@ [section |-> "bearer"], Theirs(Globex) @@ [section |-> "http-basic"]>>,
              yarn |-> <<Yarn(Https(Acme), "theirs", TRUE), Yarn(Globex, "theirs", FALSE), Comment>>],
             {Cred("composer", Acme, "me", "s1"), [Cred("composer", Globex, "", "s2") EXCEPT !.mechanism = "bearer"],
              Cred("yarn", Acme, "", "s1"), Cred("yarn", Slash(Globex), "", "s2")}),
     Holding([helm |-> <<Theirs(Https(Globex)) @@ [name |-> [base |-> Https(Acme), n |-> 1]], Comment>>,
              gh |-> <<[Theirs(Acme) EXCEPT !.secret = ""] @@ [users |-> [them |-> "theirs", other |-> "kept"]]>>],
             {Cred("helm", Https(Slash(Globex)), "me", "s1"), Cred("helm", Https(Acme), "me", "s2"),
              Cred("gh", Acme, "me", "s1"), Cred("gh", Globex, "me", "s2")}),
     [Holding(("helm-oci" :> <<[store |-> "desktop"], Theirs(Acme) @@ [identity |-> ""]>>) @@
              [docker |-> <<[store |-> "desktop"]>>, yarn |-> Unreadable],
              {Cred("helm-oci", Acme, "me", "s1"), Cred("yarn", Acme, "", "s1"), Cred("docker", Globex, "me", "s2")})
        EXCEPT !.configs = [local |-> Vars("v2", <<Var("npm", Acme, "", "NPM"), Var("helm-oci", Globex, "USER", "NPM"),
                                                   Var("docker", Acme, "USER", "NPM"), Var("docker", Globex, "USER", "NPM")>>),
                            legacy |-> Unparsed],
               !.env = [NPM |-> "s1", USER |-> "me"],
               !.startup = <<Comment, Mark("legacy begin"), [alias |-> "old"], Mark("legacy end"), Comment>>],
     [Holding([composer |-> <<Theirs(Globex) @@ [section |-> "http-basic"]>>],
              {[Cred("composer", Acme, "", "s1") EXCEPT !.mechanism = "bearer"]})
        EXCEPT !.configs = [legacy |-> Vars("v1", <<Var("", Server("_help"), "", ""),
                                                    [Var("", Acme, "USER", "NPM") EXCEPT !.type = "http-basic"],
                                                    [Var("", Globex, "", "NPM") EXCEPT !.type = "bearer"]>>)],
               !.env = [NPM |-> "s1", USER |-> "me", GH_TOKEN |-> "s2"],
               !.startup = <<Comment, Mark("begin"), Comment>>]}
=============================================================================
