----------------------------- MODULE KnownHosts -----------------------------
(***************************************************************************)
(* ~/.ssh/known_hosts: the pins of the hosts, the program's among other    *)
(* people's (internal/services/knownhosts). Every operation is what it     *)
(* makes of the lines of the file.                                         *)
(*                                                                         *)
(* A pin names hosts outright (names) or by patterns, of which is kept     *)
(* what ssh takes them to cover (covers). salt tells a hashed line from    *)
(* another of the same host, and is "" for one in clear. A line that is no *)
(* pin is a comment. A token is a host's name and port.                    *)
(***************************************************************************)
EXTENDS SSHConfig

hostToken(h) == <<h.hostname, IF h.port \in {0, DefaultPort} THEN DefaultPort ELSE h.port>>

Pin(names, key) ==
    [marker |-> "", names |-> names, covers |-> {}, salt |-> "", key |-> key, tagged |-> FALSE]

IsPin(line) == Is("names", line)
hostFieldMatches(line, token) == token \in line.names
hashable(line) == line.marker = "" /\ line.salt = "" /\ line.covers = {}

\* Mutant of HostInKnownHosts: a revoked key pins a host as well.
NamedInKnownHosts(lines, token) ==
    \E line \in ToSet(lines) : IsPin(line) /\ hostFieldMatches(line, token)

\* A host is not verified by a key that is revoked.
HostInKnownHosts(lines, token) ==
    \E line \in ToSet(lines) :
        IsPin(line) /\ line.marker \in {"", "cert-authority"} /\ hostFieldMatches(line, token)

EntriesFor(lines, token) ==
    SelectSeq(lines, LAMBDA line : IsPin(line) /\ hostFieldMatches(line, token))

Targets(m) == {<<r.ref.profile, hostToken(r.host)>> : r \in ToSet(IterResolved(m))}
liveTokens(m) == {hostToken(h) : h \in ToSet(AllHosts(m))}

-----------------------------------------------------------------------------
(* Adding                                                                  *)

isPinned(lines, token, key) ==
    \E line \in ToSet(lines) : IsPin(line) /\ line.key = key /\ hostFieldMatches(line, token)

\* The owner's tag makes no other line of one.
lineKey(line) == IF IsPin(line) THEN [line EXCEPT !.tagged = FALSE] ELSE line
Verbatim(lines, line) ==
    If(lineKey(line) \notin {lineKey(l) : l \in ToSet(lines)},
       <<IF IsPin(line) THEN [line EXCEPT !.tagged = TRUE] ELSE line>>)

\* One hashed line for each name that has not got the key yet.
Hashed(lines, line) ==
    LET fresh == {t \in line.names : ~isPinned(lines, t, line.key)}
    IN  SetToSeq({[Pin({t}, line.key) EXCEPT !.salt = "authama", !.tagged = TRUE] : t \in fresh})

Add(lines, more) ==
    FoldLeft(LAMBDA all, line :
                 all \o IF IsPin(line) /\ hashable(line) THEN Hashed(all, line) ELSE Verbatim(all, line),
             lines, more)

-----------------------------------------------------------------------------
(* Pinning what a server shows                                             *)

\* serves: of a token the keys its server has; none where nobody answers.
ScanChecked(serves, token) == SetToSeq({Pin({token}, k) : k \in serves[token]})

\* Trust on first use: who is pinned is never asked again, unless that is forced.
initOne(lines, serves, token, force) ==
    IF ~force /\ HostInKnownHosts(lines, token) THEN lines
    ELSE Add(lines, ScanChecked(serves, token))

InitPins(lines, serves, tokens, force) ==
    FoldLeft(LAMBDA all, token : initOne(all, serves, token, force), lines, SetToSeq(tokens))

TokensOf(m, profiles) == {t[2] : t \in {t \in Targets(m) : t[1] \in profiles}}

\* AutoPin: what a render pins by the way.
AutoPin(lines, serves, m, profiles) == InitPins(lines, serves, TokensOf(m, profiles), FALSE)

-----------------------------------------------------------------------------
(* Pruning, adopting, migrating                                            *)

IsLive(m, line) == \E token \in liveTokens(m) : hostFieldMatches(line, token)
\* Mutant of Prunable: whose a pin is is not looked at.
AnyPrunable(m, line) == IsPin(line) /\ ~IsLive(m, line)

Prunable(m, line) == IsPin(line) /\ line.tagged /\ ~IsLive(m, line)
Adoptable(m, line) == IsPin(line) /\ ~line.tagged /\ IsLive(m, line)

PruneCandidates(m, lines) == SelectSeq(lines, LAMBDA line : Prunable(m, line))
AdoptCandidates(m, lines) == SelectSeq(lines, LAMBDA line : Adoptable(m, line))

Prune(m, lines) == SelectSeq(lines, LAMBDA line : ~Prunable(m, line))

Adopt(m, lines) ==
    [i \in DOMAIN lines |->
        IF Adoptable(m, lines[i]) THEN [lines[i] EXCEPT !.tagged = TRUE] ELSE lines[i]]

-----------------------------------------------------------------------------
(* ssh                                                                     *)

\* A revoked key is refused whatever else the file has.
SSHTrusts(lines, token, key) ==
    LET about(marker) == {line \in ToSet(lines) :
                             /\ IsPin(line) /\ line.marker = marker
                             /\ token \in line.names \union line.covers}
    IN  /\ \E line \in about("") \union about("cert-authority") : line.key = key
        /\ \A line \in about("revoked") : line.key # key

=============================================================================
