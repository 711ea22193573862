---------------------------- MODULE Editor_proofs ----------------------------
(***************************************************************************)
(* Proofs about Editor, for any profiles, hosts, names, categories, rules, *)
(* servers and number of commands, whatever fails or dies: the config and  *)
(* the inventory follow the manifest, a command leaves the keys, records   *)
(* and pins of everybody else alone, and a key is revoked or reported.     *)
(*                                                                         *)
(* A command works out what it will do when it begins, and then does it    *)
(* step by step. For each command there is a lemma that its plan is a good *)
(* one (PlanFits), and for each step one that it keeps to such a plan.     *)
(***************************************************************************)
EXTENDS Editor, SequenceTheorems, TLAPS

\* A command adopts files of ~/.ssh outside the profiles only. Without it a
\* category that moves takes adopted files of other profiles along, which the
\* manifest does not learn of.
AdoptsOutside == Adoptable \subseteq Loose

(***************************************************************************)
(* The inductive invariant                                                 *)
(***************************************************************************)

GoodManifests == {m \in Manifests : Valid(m) /\ Tidy(m)}

\* A record of a key in a profile's directory is of that profile.
FitRecords == {x \in Records : x.path \in Loose \/ x.path[1] = x.profile}
Inventories == [Key -> FitRecords \cup {None}]
Dirs == Profile \X Category

\* What may be left of a command, first step first.
StepLists ==
    {<<>>, <<"manifest">>, <<"render">>, <<"manifest", "render">>,
     <<"inventory", "render">>, <<"manifest", "inventory", "render">>,
     <<"rename", "manifest", "render">>, <<"rename", "manifest", "inventory", "render">>,
     <<"mint">>, <<"mint", "render">>, <<"manifest", "mint">>, <<"manifest", "mint", "render">>,
     <<"purge">>, <<"pins">>, <<"pins", "purge">>, <<"render", "pins">>,
     <<"render", "pins", "purge">>, <<"inventory", "render", "pins">>,
     <<"inventory", "render", "pins", "purge">>, <<"manifest", "inventory", "render", "pins">>,
     <<"manifest", "inventory", "render", "pins", "purge">>,
     <<"revoke", "manifest", "inventory", "render", "pins">>,
     <<"revoke", "manifest", "inventory", "render", "pins", "purge">>,
     <<"inventory">>, <<"inventory", "purge">>, <<"manifest", "inventory">>,
     <<"manifest", "inventory", "purge">>, <<"revoke", "manifest", "inventory">>,
     <<"revoke", "manifest", "inventory", "purge">>}

AllOf(list) == {list[i] : i \in DOMAIN list}
Ahead == AllOf(work.steps)
Busy == work.steps # <<>>

HomeTypeInv ==
    /\ manifest \in GoodManifests /\ inv \in Inventories
    /\ files \in [Paths -> Key \cup {None}] /\ dirs \subseteq Dirs
    /\ trusts \in [Server -> SUBSET Key]
    /\ config \in [Alias -> Paths \cup {None}]
    /\ pins \subseteq Server /\ mishap \in BOOLEAN

\* No key lies in a directory that is not there.
TreeInv == \A x \in Paths \ Loose : files[x] # None => DirOf(x) \in dirs

Ops == {"none", "profile add", "profile edit", "host add", "host edit", "naming", "category",
        "reconcile", "key add", "key adopt", "host delete", "profile delete", "key delete"}

Works ==
    [op : Ops, steps : StepLists, done : BOOLEAN, manifest : GoodManifests \cup {None},
     inv : Inventories \cup {None}, ask : SUBSET (Alias \X Key), failed : SUBSET Alias,
     from : Dirs \cup {None}, to : Dirs \cup {None},
     mint : SUBSET Refs, purge : SUBSET Paths, revoke : BOOLEAN,
     edits : SUBSET Alias, held : [Alias -> Key \cup {None}]]

\* What a command under way has worked out, and how it stands to the home.
Smaller(i, j) ==
    \A k \in Key : i[k] # None => j[k] # None /\ i[k].path = j[k].path

SavesInv(w) ==
    /\ "manifest" \notin AllOf(w.steps) => manifest = w.manifest
    /\ "inventory" \in AllOf(w.steps) /\ w.op # "category" =>
          /\ Smaller(w.inv, inv)
          /\ \A k \in Key :
                /\ w.inv[k] # None => w.inv[k].path \notin w.purge
                /\ inv[k] # None /\ w.inv[k] = None => inv[k].path \notin Owned(w.manifest)
    /\ "purge" \in AllOf(w.steps) =>
          /\ w.purge \cap Owned(w.manifest) = {}
          /\ "inventory" \notin AllOf(w.steps) =>
                \A k \in Key : inv[k] # None => inv[k].path \notin w.purge

MovesInv(w) ==
    /\ "rename" \in AllOf(w.steps) => w.op = "category"
    /\ w.op = "category" =>
          /\ AllOf(w.steps) \cap {"mint", "revoke", "pins", "purge"} = {}
          /\ w.from \in Dirs /\ w.to \in Dirs /\ w.from[1] = w.to[1] /\ w.from # w.to
          /\ "manifest" \notin AllOf(w.steps) => w.done
          /\ "manifest" \in AllOf(w.steps) =>
                /\ w.manifest = [manifest EXCEPT !.category[w.from[1]] = w.to[2]]
                /\ w.from = ProfileDir(manifest, w.from[1])
                /\ w.inv = Repointed(inv, w.from, w.to)
                /\ "inventory" \notin AllOf(w.steps) => w.inv = inv
                /\ IF "rename" \in AllOf(w.steps)
                   THEN ~w.done /\ w.from \in dirs /\ w.to \notin dirs
                   ELSE w.from \notin dirs
          /\ "inventory" \in AllOf(w.steps) => \A k \in Key : w.inv[k] = None <=> inv[k] = None

WorkInv ==
    /\ work \in Works
    /\ ~Busy => ~work.done
    /\ Busy => /\ work.manifest \in GoodManifests /\ work.inv \in Inventories
               /\ SavesInv(work) /\ MovesInv(work)

\* The config follows the manifest, but for adopted keys.
Follows(m) == \A a \in Alias : config[a] = Rendered(m)[a] \/ Rendered(m)[a] \in Adoptable

ConfigPlan(w) ==
    /\ "manifest" \in AllOf(w.steps) \/ ~w.done => Follows(manifest)
    /\ "render" \notin AllOf(w.steps) => Follows(w.manifest)
ConfigInv == ~mishap => IF Busy THEN ConfigPlan(work) ELSE Follows(manifest)

\* Records are of the keys that lie where they say; from the rename of a
\* directory until they are saved, those that are going to be.
InPlace(i) == \A k \in Key : i[k] # None => files[i[k].path] = k
Moved(w) == w.op = "category" /\ w.done
RecordsPlan(w) ==
    /\ ~(Moved(w) /\ AllOf(w.steps) \cap {"manifest", "inventory"} # {}) => InPlace(inv)
    /\ Moved(w) /\ AllOf(w.steps) \cap {"manifest", "inventory"} # {} =>
          /\ InPlace(w.inv)
          /\ "manifest" \in AllOf(w.steps) =>
                \A k \in Key : inv[k] # None /\ inv[k].path \notin Loose => DirOf(inv[k].path) # w.to
RecordsInv == ~mishap => IF Busy THEN RecordsPlan(work) ELSE InPlace(inv)

\* The hosts a command is not about have the key they had, going by the manifest
\* until it is saved and by the one to be saved once the keys lie where it says.
Kept(m, w) ==
    \A a \in Alias \ w.edits :
        w.held[a] # None /\ Declared(m, a) => files[IdentityFile(m, RefOf(m, a))] = w.held[a]
HostsPlan(w) ==
    /\ "manifest" \in AllOf(w.steps) /\ ~Moved(w) => Kept(manifest, w)
    /\ "rename" \notin AllOf(w.steps) => Kept(w.manifest, w)
HostsInv == ~mishap /\ Busy => HostsPlan(work)

\* A deletion of a key asks every target its record names, or tells.
AskPlan(w) ==
    /\ "revoke" \notin AllOf(w.steps) => w.ask = {}
    /\ w.op = "key delete" /\ w.revoke /\ "inventory" \in AllOf(w.steps) =>
          \A k \in Key : inv[k] # None /\ w.inv[k] = None =>
              \A a \in inv[k].deployments :
                  k \notin trusts[ServerOf[a]] \/ a \in w.failed \/ <<a, k>> \in w.ask
AskInv == Busy => AskPlan(work)

IInv ==
    /\ HomeTypeInv /\ TreeInv /\ WorkInv
    /\ ConfigInv /\ RecordsInv /\ HostsInv /\ AskInv

-----------------------------------------------------------------------------
(***************************************************************************)
(* The steps that are left                                                 *)
(***************************************************************************)

LEMMA NoStep == AllOf(<<>>) = {}
BY DEF AllOf

LEMMA Rests ==
  /\ \A a : Tail(<<a>>) = <<>>
  /\ \A a, b : Tail(<<a, b>>) = <<b>>
  /\ \A a, b, c : Tail(<<a, b, c>>) = <<b, c>>
  /\ \A a, b, c, d : Tail(<<a, b, c, d>>) = <<b, c, d>>
  /\ \A a, b, c, d, e : Tail(<<a, b, c, d, e>>) = <<b, c, d, e>>
  /\ \A a, b, c, d, e, f : Tail(<<a, b, c, d, e, f>>) = <<b, c, d, e, f>>
OBVIOUS

LEMMA Alls ==
  /\ \A a : AllOf(<<a>>) = {a}
  /\ \A a, b : AllOf(<<a, b>>) = {a, b}
  /\ \A a, b, c : AllOf(<<a, b, c>>) = {a, b, c}
  /\ \A a, b, c, d : AllOf(<<a, b, c, d>>) = {a, b, c, d}
  /\ \A a, b, c, d, e : AllOf(<<a, b, c, d, e>>) = {a, b, c, d, e}
  /\ \A a, b, c, d, e, f : AllOf(<<a, b, c, d, e, f>>) = {a, b, c, d, e, f}
BY DEF AllOf

LEMMA FirstStep ==
  ASSUME NEW s \in StepLists, s # <<>>
  PROVE  /\ Tail(s) \in StepLists
         /\ Head(s) \in AllOf(s) /\ AllOf(Tail(s)) = AllOf(s) \ {Head(s)}
         /\ Len(s) = 1 <=> Tail(s) = <<>>
<1>1. CASE s = <<"manifest">>
  BY <1>1, Rests, Alls, NoStep DEF StepLists
<1>2. CASE s = <<"render">>
  BY <1>2, Rests, Alls, NoStep DEF StepLists
<1>3. CASE s = <<"manifest", "render">>
  BY <1>3, Rests, Alls, NoStep DEF StepLists
<1>4. CASE s = <<"inventory", "render">>
  BY <1>4, Rests, Alls, NoStep DEF StepLists
<1>5. CASE s = <<"manifest", "inventory", "render">>
  BY <1>5, Rests, Alls, NoStep DEF StepLists
<1>6. CASE s = <<"rename", "manifest", "render">>
  BY <1>6, Rests, Alls, NoStep DEF StepLists
<1>7. CASE s = <<"rename", "manifest", "inventory", "render">>
  BY <1>7, Rests, Alls, NoStep DEF StepLists
<1>8. CASE s = <<"mint">>
  BY <1>8, Rests, Alls, NoStep DEF StepLists
<1>9. CASE s = <<"mint", "render">>
  BY <1>9, Rests, Alls, NoStep DEF StepLists
<1>10. CASE s = <<"manifest", "mint">>
  BY <1>10, Rests, Alls, NoStep DEF StepLists
<1>11. CASE s = <<"manifest", "mint", "render">>
  BY <1>11, Rests, Alls, NoStep DEF StepLists
<1>12. CASE s = <<"purge">>
  BY <1>12, Rests, Alls, NoStep DEF StepLists
<1>13. CASE s = <<"pins">>
  BY <1>13, Rests, Alls, NoStep DEF StepLists
<1>14. CASE s = <<"pins", "purge">>
  BY <1>14, Rests, Alls, NoStep DEF StepLists
<1>15. CASE s = <<"render", "pins">>
  BY <1>15, Rests, Alls, NoStep DEF StepLists
<1>16. CASE s = <<"render", "pins", "purge">>
  BY <1>16, Rests, Alls, NoStep DEF StepLists
<1>17. CASE s = <<"inventory", "render", "pins">>
  BY <1>17, Rests, Alls, NoStep DEF StepLists
<1>18. CASE s = <<"inventory", "render", "pins", "purge">>
  BY <1>18, Rests, Alls, NoStep DEF StepLists
<1>19. CASE s = <<"manifest", "inventory", "render", "pins">>
  BY <1>19, Rests, Alls, NoStep DEF StepLists
<1>20. CASE s = <<"manifest", "inventory", "render", "pins", "purge">>
  BY <1>20, Rests, Alls, NoStep DEF StepLists
<1>21. CASE s = <<"revoke", "manifest", "inventory", "render", "pins">>
  BY <1>21, Rests, Alls, NoStep DEF StepLists
<1>22. CASE s = <<"revoke", "manifest", "inventory", "render", "pins", "purge">>
  BY <1>22, Rests, Alls, NoStep DEF StepLists
<1>23. CASE s = <<"inventory">>
  BY <1>23, Rests, Alls, NoStep DEF StepLists
<1>24. CASE s = <<"inventory", "purge">>
  BY <1>24, Rests, Alls, NoStep DEF StepLists
<1>25. CASE s = <<"manifest", "inventory">>
  BY <1>25, Rests, Alls, NoStep DEF StepLists
<1>26. CASE s = <<"manifest", "inventory", "purge">>
  BY <1>26, Rests, Alls, NoStep DEF StepLists
<1>27. CASE s = <<"revoke", "manifest", "inventory">>
  BY <1>27, Rests, Alls, NoStep DEF StepLists
<1>28. CASE s = <<"revoke", "manifest", "inventory", "purge">>
  BY <1>28, Rests, Alls, NoStep DEF StepLists
<1> QED  BY <1>1, <1>2, <1>3, <1>4, <1>5, <1>6, <1>7, <1>8, <1>9, <1>10, <1>11, <1>12, <1>13, <1>14,
      <1>15, <1>16, <1>17, <1>18, <1>19, <1>20, <1>21, <1>22, <1>23, <1>24, <1>25, <1>26, <1>27, <1>28 DEF StepLists

\* The order of the steps that the proofs go by.
LEMMA StepOrder ==
  ASSUME NEW s \in StepLists, s # <<>>
  PROVE  /\ Head(s) = "manifest" => AllOf(s) \cap {"rename", "revoke"} = {}
         /\ Head(s) \in {"inventory", "render", "mint", "pins", "purge"} =>
               AllOf(s) \cap {"manifest", "rename", "revoke"} = {}
         /\ Head(s) \in {"render", "mint", "pins", "purge"} => "inventory" \notin AllOf(s)
         /\ Head(s) \in {"pins", "purge"} => "render" \notin AllOf(s)
         /\ Head(s) = "revoke" => "rename" \notin AllOf(s) /\ {"manifest", "inventory"} \subseteq AllOf(s)
         /\ "rename" \in AllOf(s) => "manifest" \in AllOf(s)
         /\ Head(s) = "mint" => "purge" \notin AllOf(s)
         /\ AllOf(s) \subseteq {"rename", "revoke", "manifest", "inventory", "mint", "render", "pins", "purge"}
BY SMTT(60) DEF StepLists, AllOf

-----------------------------------------------------------------------------
(***************************************************************************)
(* Lists of steps put together                                             *)
(***************************************************************************)

Joint(s, t, u) ==
    /\ Len(u) = Len(s) + Len(t)
    /\ \A i \in 1 .. Len(s) : u[i] = s[i]
    /\ \A i \in 1 .. Len(t) : u[Len(s) + i] = t[i]

LEMMA Joined ==
  ASSUME NEW S, NEW s \in Seq(S), NEW t \in Seq(S), NEW u \in Seq(S), Joint(s, t, u)
  PROVE  s \o t = u
<1> USE DEF Joint
<1>1. s \o t \in Seq(S) /\ Len(s \o t) = Len(u)
  BY ConcatProperties
<1>2. ASSUME NEW i \in 1 .. Len(u)
      PROVE  (s \o t)[i] = u[i]
  <2>1. CASE i <= Len(s)
    BY <2>1, ConcatProperties
  <2>2. CASE i > Len(s)
    <3>1. i - Len(s) \in 1 .. Len(t) /\ i = Len(s) + (i - Len(s))
      BY <2>2, LenProperties
    <3> QED  BY <2>2, <3>1, ConcatProperties
  <2> QED  BY <2>1, <2>2, LenProperties
<1> QED  BY <1>1, <1>2, SeqEqual

StepNames == {"rename", "manifest", "inventory", "render", "revoke", "pins", "purge"}

LEMMA Joins ==
  /\ \A a, b \in StepNames : <<a>> \o <<b>> = <<a, b>>
  /\ \A a, b, c \in StepNames : <<a, b>> \o <<c>> = <<a, b, c>>
  /\ \A a, b, c, d \in StepNames : <<a, b, c>> \o <<d>> = <<a, b, c, d>>
  /\ \A a, b, c, d, e \in StepNames : <<a, b, c, d>> \o <<e>> = <<a, b, c, d, e>>
  /\ \A a, b, c, d, e, f \in StepNames : <<a, b, c, d, e>> \o <<f>> = <<a, b, c, d, e, f>>
  /\ \A a, b, c \in StepNames : <<a>> \o <<b, c>> = <<a, b, c>>
  /\ \A a, b, c, d, e \in StepNames : <<a>> \o <<b, c, d, e>> = <<a, b, c, d, e>>
<1>1. ASSUME NEW a \in StepNames, NEW b \in StepNames
      PROVE  <<a>> \o <<b>> = <<a, b>>
  <2> DEFINE s == <<a>>  t == <<b>>  u == <<a, b>>
  <2>1. /\ s \in Seq(StepNames) /\ t \in Seq(StepNames) /\ u \in Seq(StepNames)
        /\ Len(s) = 1 /\ Len(t) = 1 /\ Len(u) = 2
        /\ s[1] = a
        /\ t[1] = b
        /\ u[1] = a /\ u[2] = b
    OBVIOUS
  <2> HIDE DEF s, t, u
  <2>2. Joint(s, t, u)
    BY <2>1 DEF Joint
  <2>3. s \o t = u
    BY <2>1, <2>2, Joined
  <2> QED  BY <2>3 DEF s, t, u
<1>2. ASSUME NEW a \in StepNames, NEW b \in StepNames, NEW c \in StepNames
      PROVE  <<a, b>> \o <<c>> = <<a, b, c>>
  <2> DEFINE s == <<a, b>>  t == <<c>>  u == <<a, b, c>>
  <2>1. /\ s \in Seq(StepNames) /\ t \in Seq(StepNames) /\ u \in Seq(StepNames)
        /\ Len(s) = 2 /\ Len(t) = 1 /\ Len(u) = 3
        /\ s[1] = a /\ s[2] = b
        /\ t[1] = c
        /\ u[1] = a /\ u[2] = b /\ u[3] = c
    OBVIOUS
  <2> HIDE DEF s, t, u
  <2>2. Joint(s, t, u)
    BY <2>1 DEF Joint
  <2>3. s \o t = u
    BY <2>1, <2>2, Joined
  <2> QED  BY <2>3 DEF s, t, u
<1>3. ASSUME NEW a \in StepNames, NEW b \in StepNames, NEW c \in StepNames, NEW d \in StepNames
      PROVE  <<a, b, c>> \o <<d>> = <<a, b, c, d>>
  <2> DEFINE s == <<a, b, c>>  t == <<d>>  u == <<a, b, c, d>>
  <2>1. /\ s \in Seq(StepNames) /\ t \in Seq(StepNames) /\ u \in Seq(StepNames)
        /\ Len(s) = 3 /\ Len(t) = 1 /\ Len(u) = 4
        /\ s[1] = a /\ s[2] = b /\ s[3] = c
        /\ t[1] = d
        /\ u[1] = a /\ u[2] = b /\ u[3] = c /\ u[4] = d
    OBVIOUS
  <2> HIDE DEF s, t, u
  <2>2. Joint(s, t, u)
    BY <2>1 DEF Joint
  <2>3. s \o t = u
    BY <2>1, <2>2, Joined
  <2> QED  BY <2>3 DEF s, t, u
<1>4. ASSUME NEW a \in StepNames, NEW b \in StepNames, NEW c \in StepNames, NEW d \in StepNames, NEW e \in StepNames
      PROVE  <<a, b, c, d>> \o <<e>> = <<a, b, c, d, e>>
  <2> DEFINE s == <<a, b, c, d>>  t == <<e>>  u == <<a, b, c, d, e>>
  <2>1. /\ s \in Seq(StepNames) /\ t \in Seq(StepNames) /\ u \in Seq(StepNames)
        /\ Len(s) = 4 /\ Len(t) = 1 /\ Len(u) = 5
        /\ s[1] = a /\ s[2] = b /\ s[3] = c /\ s[4] = d
        /\ t[1] = e
        /\ u[1] = a /\ u[2] = b /\ u[3] = c /\ u[4] = d /\ u[5] = e
    OBVIOUS
  <2> HIDE DEF s, t, u
  <2>2. Joint(s, t, u)
    BY <2>1 DEF Joint
  <2>3. s \o t = u
    BY <2>1, <2>2, Joined
  <2> QED  BY <2>3 DEF s, t, u
<1>5. ASSUME NEW a \in StepNames, NEW b \in StepNames, NEW c \in StepNames, NEW d \in StepNames, NEW e \in StepNames, NEW f \in StepNames
      PROVE  <<a, b, c, d, e>> \o <<f>> = <<a, b, c, d, e, f>>
  <2> DEFINE s == <<a, b, c, d, e>>  t == <<f>>  u == <<a, b, c, d, e, f>>
  <2>1. /\ s \in Seq(StepNames) /\ t \in Seq(StepNames) /\ u \in Seq(StepNames)
        /\ Len(s) = 5 /\ Len(t) = 1 /\ Len(u) = 6
        /\ s[1] = a /\ s[2] = b /\ s[3] = c /\ s[4] = d /\ s[5] = e
        /\ t[1] = f
        /\ u[1] = a /\ u[2] = b /\ u[3] = c /\ u[4] = d /\ u[5] = e /\ u[6] = f
    OBVIOUS
  <2> HIDE DEF s, t, u
  <2>2. Joint(s, t, u)
    BY <2>1 DEF Joint
  <2>3. s \o t = u
    BY <2>1, <2>2, Joined
  <2> QED  BY <2>3 DEF s, t, u
<1>6. ASSUME NEW a \in StepNames, NEW b \in StepNames, NEW c \in StepNames
      PROVE  <<a>> \o <<b, c>> = <<a, b, c>>
  <2> DEFINE s == <<a>>  t == <<b, c>>  u == <<a, b, c>>
  <2>1. /\ s \in Seq(StepNames) /\ t \in Seq(StepNames) /\ u \in Seq(StepNames)
        /\ Len(s) = 1 /\ Len(t) = 2 /\ Len(u) = 3
        /\ s[1] = a
        /\ t[1] = b /\ t[2] = c
        /\ u[1] = a /\ u[2] = b /\ u[3] = c
    OBVIOUS
  <2> HIDE DEF s, t, u
  <2>2. Joint(s, t, u)
    BY <2>1 DEF Joint
  <2>3. s \o t = u
    BY <2>1, <2>2, Joined
  <2> QED  BY <2>3 DEF s, t, u
<1>7. ASSUME NEW a \in StepNames, NEW b \in StepNames, NEW c \in StepNames, NEW d \in StepNames, NEW e \in StepNames
      PROVE  <<a>> \o <<b, c, d, e>> = <<a, b, c, d, e>>
  <2> DEFINE s == <<a>>  t == <<b, c, d, e>>  u == <<a, b, c, d, e>>
  <2>1. /\ s \in Seq(StepNames) /\ t \in Seq(StepNames) /\ u \in Seq(StepNames)
        /\ Len(s) = 1 /\ Len(t) = 4 /\ Len(u) = 5
        /\ s[1] = a
        /\ t[1] = b /\ t[2] = c /\ t[3] = d /\ t[4] = e
        /\ u[1] = a /\ u[2] = b /\ u[3] = c /\ u[4] = d /\ u[5] = e
    OBVIOUS
  <2> HIDE DEF s, t, u
  <2>2. Joint(s, t, u)
    BY <2>1 DEF Joint
  <2>3. s \o t = u
    BY <2>1, <2>2, Joined
  <2> QED  BY <2>3 DEF s, t, u
<1> QED  BY <1>1, <1>2, <1>3, <1>4, <1>5, <1>6, <1>7

LEMMA NothingJoined ==
  /\ \A a \in StepNames : <<>> \o <<a>> = <<a>> /\ <<a>> \o <<>> = <<a>>
  /\ \A a, b \in StepNames : <<a, b>> \o <<>> = <<a, b>> /\ <<>> \o <<a, b>> = <<a, b>>
  /\ \A a, b, c \in StepNames : <<a, b, c>> \o <<>> = <<a, b, c>>
  /\ \A a, b, c, d \in StepNames :
        <<a, b, c, d>> \o <<>> = <<a, b, c, d>> /\ <<>> \o <<a, b, c, d>> = <<a, b, c, d>>
  /\ \A a, b, c, d, e \in StepNames : <<a, b, c, d, e>> \o <<>> = <<a, b, c, d, e>>
<1>1. /\ \A a \in StepNames : <<a>> \in Seq(StepNames)
      /\ \A a, b \in StepNames : <<a, b>> \in Seq(StepNames)
      /\ \A a, b, c \in StepNames : <<a, b, c>> \in Seq(StepNames)
      /\ \A a, b, c, d \in StepNames : <<a, b, c, d>> \in Seq(StepNames)
      /\ \A a, b, c, d, e \in StepNames : <<a, b, c, d, e>> \in Seq(StepNames)
  OBVIOUS
<1>2. \A s \in Seq(StepNames) : s \o <<>> = s /\ <<>> \o s = s
  BY ConcatEmptySeq
<1> QED  BY <1>1, <1>2

LEMMA CategoryLists ==
  ASSUME NEW s \in {<<"manifest", "render">>, <<"rename", "manifest", "render">>,
                    <<"manifest", "inventory", "render">>,
                    <<"rename", "manifest", "inventory", "render">>}
  PROVE  /\ s \in StepLists /\ s # <<>>
         /\ AllOf(s) \subseteq {"rename", "manifest", "inventory", "render"}
         /\ {"manifest", "render"} \subseteq AllOf(s)
         /\ "rename" \in AllOf(s) <=>
               s \in {<<"rename", "manifest", "render">>, <<"rename", "manifest", "inventory", "render">>}
         /\ "inventory" \in AllOf(s) <=>
               s \in {<<"manifest", "inventory", "render">>, <<"rename", "manifest", "inventory", "render">>}
<1>1. CASE s = <<"manifest", "render">>
  BY <1>1, Alls DEF StepLists
<1>2. CASE s = <<"rename", "manifest", "render">>
  BY <1>2, Alls DEF StepLists
<1>3. CASE s = <<"manifest", "inventory", "render">>
  BY <1>3, Alls DEF StepLists
<1>4. CASE s = <<"rename", "manifest", "inventory", "render">>
  BY <1>4, Alls DEF StepLists
<1> QED  BY <1>1, <1>2, <1>3, <1>4

LEMMA CategorySteps ==
  ASSUME NEW first \in {<<>>, <<"rename">>}, NEW record \in {<<>>, <<"inventory">>},
         NEW s, s = first \o <<"manifest">> \o record \o <<"render">>
  PROVE  /\ s \in StepLists /\ s # <<>>
         /\ AllOf(s) \subseteq {"rename", "manifest", "inventory", "render"}
         /\ {"manifest", "render"} \subseteq AllOf(s)
         /\ "rename" \in AllOf(s) <=> first = <<"rename">>
         /\ "inventory" \in AllOf(s) <=> record = <<"inventory">>
<1>1. {"rename", "manifest", "inventory", "render"} \subseteq StepNames
  BY DEF StepNames
<1>2. <<"rename">> # <<>> /\ <<"inventory">> # <<>>
  OBVIOUS
<1>3. CASE first = <<>> /\ record = <<>>
  <2>1. s = <<"manifest", "render">>
    <3>1. <<>> \o <<"manifest">> = <<"manifest">> /\ <<"manifest">> \o <<>> = <<"manifest">>
      BY <1>1, NothingJoined
    <3>2. <<"manifest">> \o <<"render">> = <<"manifest", "render">>
      BY <1>1, Joins
    <3> QED  BY <1>3, <3>1, <3>2
  <2> QED  BY <1>2, <1>3, <2>1, CategoryLists
<1>4. CASE first = <<"rename">> /\ record = <<>>
  <2>1. s = <<"rename", "manifest", "render">>
    <3>1. <<"rename">> \o <<"manifest">> = <<"rename", "manifest">>
      BY <1>1, Joins
    <3>2. <<"rename", "manifest">> \o <<>> = <<"rename", "manifest">>
      BY <1>1, NothingJoined
    <3>3. <<"rename", "manifest">> \o <<"render">> = <<"rename", "manifest", "render">>
      BY <1>1, Joins
    <3> QED  BY <1>4, <3>1, <3>2, <3>3
  <2> QED  BY <1>2, <1>4, <2>1, CategoryLists
<1>5. CASE first = <<>> /\ record = <<"inventory">>
  <2>1. s = <<"manifest", "inventory", "render">>
    <3>1. <<>> \o <<"manifest">> = <<"manifest">>
      BY <1>1, NothingJoined
    <3>2. <<"manifest">> \o <<"inventory">> = <<"manifest", "inventory">>
      BY <1>1, Joins
    <3>3. <<"manifest", "inventory">> \o <<"render">> = <<"manifest", "inventory", "render">>
      BY <1>1, Joins
    <3> QED  BY <1>5, <3>1, <3>2, <3>3
  <2> QED  BY <1>2, <1>5, <2>1, CategoryLists
<1>6. CASE first = <<"rename">> /\ record = <<"inventory">>
  <2>1. s = <<"rename", "manifest", "inventory", "render">>
    <3>1. <<"rename">> \o <<"manifest">> = <<"rename", "manifest">>
      BY <1>1, Joins
    <3>2. <<"rename", "manifest">> \o <<"inventory">> = <<"rename", "manifest", "inventory">>
      BY <1>1, Joins
    <3>3. <<"rename", "manifest", "inventory">> \o <<"render">>
            = <<"rename", "manifest", "inventory", "render">>
      BY <1>1, Joins
    <3> QED  BY <1>6, <3>1, <3>2, <3>3
  <2> QED  BY <1>2, <1>6, <2>1, CategoryLists
<1> QED  BY <1>3, <1>4, <1>5, <1>6

-----------------------------------------------------------------------------
(***************************************************************************)
(* The manifest                                                            *)
(***************************************************************************)

LEMMA ManifestParts ==
  ASSUME NEW m \in GoodManifests
  PROVE  /\ m \in Manifests /\ Valid(m) /\ Tidy(m)
         /\ m = [hosts |-> m.hosts, scope |-> m.scope, category |-> m.category,
                 keys |-> m.keys, rule |-> m.rule]
         /\ m.hosts \in [Alias -> Hosts \cup {None}]
         /\ m.scope \in [Profile -> Name \cup {"gone", "own"}]
         /\ m.category \in [Profile -> Category]
         /\ m.keys \in [Refs -> {"no", "yes"} \cup Adoptable]
         /\ m.rule \in Rule
BY DEF GoodManifests, Manifests

LEMMA HostParts ==
  ASSUME NEW m \in GoodManifests, NEW a \in Alias, Declared(m, a)
  PROVE  /\ m.hosts[a] \in Hosts /\ m.hosts[a].profile \in Profile
         /\ m.hosts[a].name \in Name \cup {None}
         /\ m.scope[m.hosts[a].profile] \in Name \cup {"own"}
         /\ a \in HostsOf(m, m.hosts[a].profile)
<1>1. m.hosts[a] \in Hosts /\ m.hosts[a] # None
  BY ManifestParts DEF Declared
<1>2. m.hosts[a].profile \in Profile /\ m.hosts[a].name \in Name \cup {None}
  BY <1>1 DEF Hosts
<1>3. a \in HostsOf(m, m.hosts[a].profile)
  BY <1>1 DEF HostsOf
<1>4. m.scope[m.hosts[a].profile] # "gone"
  BY <1>2, <1>3, ManifestParts DEF Tidy, Exists
<1> QED  BY <1>1, <1>2, <1>3, <1>4, ManifestParts

LEMMA RefOfHost ==
  ASSUME NEW m \in GoodManifests, NEW a \in Alias, Declared(m, a)
  PROVE  /\ RefOf(m, a) \in Refs /\ RefOf(m, a)[1] = m.hosts[a].profile
         /\ a \in HostsForKey(m, RefOf(m, a)) /\ RefOf(m, a) \in KeyRefs(m)
<1>1. ResolvedKeyName(m, a) \in Name
  BY HostParts, ManifestParts, EditorAssumption DEF ResolvedKeyName
<1>2. RefOf(m, a) \in Refs /\ RefOf(m, a)[1] = m.hosts[a].profile
  BY <1>1, HostParts DEF RefOf, Refs
<1>3. a \in HostsForKey(m, RefOf(m, a))
  BY DEF HostsForKey
<1> QED  BY <1>2, <1>3 DEF KeyRefs

LEMMA PathOfRef ==
  ASSUME NEW m \in GoodManifests, NEW r \in Refs
  PROVE  /\ IdentityFile(m, r) \in Paths
         /\ r[1] \in Profile /\ r[2] \in Name /\ m.category[r[1]] \in Category
         /\ <<r[1], m.category[r[1]], r[2]>> \in Paths \ Loose
         /\ m.keys[r] \in {"no", "yes"} => IdentityFile(m, r) = <<r[1], m.category[r[1]], r[2]>>
         /\ m.keys[r] \notin {"no", "yes"} => m.keys[r] \in Adoptable /\ IdentityFile(m, r) = m.keys[r]
<1>1. r[1] \in Profile /\ r[2] \in Name
  BY DEF Refs
<1>2. m.category[r[1]] \in Category /\ m.keys[r] \in {"no", "yes"} \cup Adoptable
  BY <1>1, ManifestParts
<1>3. <<r[1], m.category[r[1]], r[2]>> \in Paths \ Loose
  BY <1>1, <1>2, EditorAssumption DEF Paths
<1>4. Adoptable \subseteq Paths
  BY EditorAssumption
<1> QED  BY <1>1, <1>2, <1>3, <1>4 DEF IdentityFile

LEMMA SameTriple ==
  ASSUME NEW a, NEW b, NEW c, NEW d, NEW e, NEW f, <<a, b, c>> = <<d, e, f>>
  PROVE  a = d /\ c = f
OBVIOUS

\* A file is of one key only.
LEMMA OneRefPerPath ==
  ASSUME AdoptsOutside, NEW m \in GoodManifests, NEW q \in Refs, NEW r \in Refs,
         IdentityFile(m, q) = IdentityFile(m, r)
  PROVE  q = r
<1>1. CASE m.keys[q] \in {"no", "yes"} /\ m.keys[r] \in {"no", "yes"}
  <2>1. IdentityFile(m, q) = <<q[1], m.category[q[1]], q[2]>>
    BY <1>1, PathOfRef
  <2>2. IdentityFile(m, r) = <<r[1], m.category[r[1]], r[2]>>
    BY <1>1, PathOfRef
  <2>3. <<q[1], m.category[q[1]], q[2]>> = <<r[1], m.category[r[1]], r[2]>>
    BY <2>1, <2>2, Zenon
  <2>4. q[1] = r[1] /\ q[2] = r[2]
    BY <2>3, SameTriple, Zenon
  <2> QED  BY <2>4 DEF Refs
<1>2. CASE m.keys[q] \notin {"no", "yes"} /\ m.keys[r] \notin {"no", "yes"}
  <2>1. Valid(m) /\ m.keys[q] = m.keys[r]
    BY <1>2, PathOfRef, ManifestParts
  <2> QED  BY <1>2, <2>1 DEF Valid
<1>3. CASE m.keys[q] \in {"no", "yes"} /\ m.keys[r] \notin {"no", "yes"}
  BY <1>3, PathOfRef DEF AdoptsOutside
<1>4. CASE m.keys[q] \notin {"no", "yes"} /\ m.keys[r] \in {"no", "yes"}
  BY <1>4, PathOfRef DEF AdoptsOutside
<1> QED  BY <1>1, <1>2, <1>3, <1>4

LEMMA OwnedPaths ==
  ASSUME NEW m \in GoodManifests
  PROVE  /\ Owned(m) \subseteq Paths
         /\ \A a \in Alias : Declared(m, a) => IdentityFile(m, RefOf(m, a)) \in Owned(m)
         /\ Rendered(m) \in [Alias -> Paths \cup {None}]
<1>1. KeyRefs(m) \subseteq Refs
  BY DEF KeyRefs
<1>2. Owned(m) \subseteq Paths
  BY <1>1, PathOfRef DEF Owned
<1>3. \A a \in Alias : Declared(m, a) => IdentityFile(m, RefOf(m, a)) \in Owned(m)
  BY RefOfHost DEF Owned
<1> QED  BY <1>2, <1>3 DEF Rendered

\* A key that is neither used nor declared owns no file.
LEMMA NotOwned ==
  ASSUME AdoptsOutside, NEW m \in GoodManifests, NEW r \in Refs, r \notin KeyRefs(m)
  PROVE  IdentityFile(m, r) \notin Owned(m)
<1>1. KeyRefs(m) \subseteq Refs
  BY DEF KeyRefs
<1> QED  BY <1>1, OneRefPerPath DEF Owned

-----------------------------------------------------------------------------
(***************************************************************************)
(* Each command begins with a plan that fits the home                      *)
(***************************************************************************)

PlanFits(w) ==
    /\ w \in Works /\ w.steps # <<>> /\ ~w.done
    /\ w.manifest \in GoodManifests /\ w.inv \in Inventories
    /\ SavesInv(w) /\ MovesInv(w) /\ AskPlan(w)
    /\ ~mishap => ConfigPlan(w) /\ HostsPlan(w)

Begun == \E w : Begin(w) /\ PlanFits(w)

LEMMA SameRef ==
  ASSUME NEW m, NEW n, NEW a, m.hosts[a] = n.hosts[a],
         m.scope[m.hosts[a].profile] = n.scope[m.hosts[a].profile], m.rule = n.rule
  PROVE  RefOf(m, a) = RefOf(n, a) /\ (Declared(m, a) <=> Declared(n, a))
BY DEF RefOf, ResolvedKeyName, Declared

LEMMA SameFile ==
  ASSUME NEW m, NEW n, NEW r, m.category[r[1]] = n.category[r[1]], m.keys[r] = n.keys[r]
  PROVE  IdentityFile(m, r) = IdentityFile(n, r)
BY DEF IdentityFile

\* Where a key is, as far as it has one.
FileOf(m, a) == IdentityFile(m, RefOf(m, a))

LEMMA UsesAKey ==
  ASSUME HomeTypeInv
  PROVE  /\ \A a \in Alias : Uses(a) \in Key \cup {None}
         /\ \A a \in Alias : Declared(manifest, a) => Uses(a) = files[FileOf(manifest, a)]
         /\ \A a \in Alias : ~Declared(manifest, a) => Uses(a) = None
<1>1. ASSUME NEW a \in Alias, Declared(manifest, a)
      PROVE  FileOf(manifest, a) \in Paths
  BY <1>1, OwnedPaths DEF HomeTypeInv, FileOf
<1> QED  BY <1>1 DEF Uses, FileOf, HomeTypeInv

\* A command's plan has all of these, and Start and what is written over it fill them in.
Whole(w) ==
    w = [op |-> w.op, steps |-> w.steps, done |-> w.done, manifest |-> w.manifest, inv |-> w.inv,
         ask |-> w.ask, failed |-> w.failed, from |-> w.from, to |-> w.to, mint |-> w.mint,
         purge |-> w.purge, revoke |-> w.revoke, edits |-> w.edits, held |-> w.held]

\* A plan that takes no file away and moves none.
Plain(w, op, steps, m) ==
    /\ Whole(w) /\ w.op = op /\ w.steps = steps /\ w.manifest = m /\ w.inv = inv
    /\ w.held = [a \in Alias |-> Uses(a)] /\ w.done \in BOOLEAN /\ ~w.done /\ w.revoke \in BOOLEAN /\ ~w.revoke
    /\ w.ask = {} /\ w.failed = {} /\ w.from = None /\ w.to = None /\ w.purge = {}
    /\ w.mint \subseteq Refs /\ w.edits \subseteq Alias


LEMMA PlainStart ==
  ASSUME NEW op, NEW steps, NEW m, NEW w, w = Start(op, steps, m)
  PROVE  Plain(w, op, steps, m) /\ w.edits = {} /\ w.mint = {}
BY DEF Plain, Start, Idle, Whole

LEMMA WholeIsWork ==
  ASSUME NEW w, Whole(w), w.op \in Ops, w.steps \in StepLists, w.done \in BOOLEAN,
         w.manifest \in GoodManifests \cup {None}, w.inv \in Inventories \cup {None},
         w.ask \subseteq Alias \X Key, w.failed \subseteq Alias,
         w.from \in Dirs \cup {None}, w.to \in Dirs \cup {None}, w.mint \subseteq Refs,
         w.purge \subseteq Paths, w.revoke \in BOOLEAN, w.edits \subseteq Alias,
         w.held \in [Alias -> Key \cup {None}]
  PROVE  w \in Works
BY DEF Whole, Works

\* The steps of such a plan.
EditLists ==
    {<<"manifest", "render">>, <<"manifest">>, <<"mint", "render">>,
     <<"manifest", "mint", "render">>, <<"manifest", "mint">>}

LEMMA EditSteps ==
  ASSUME NEW s \in EditLists
  PROVE  /\ s \in StepLists /\ s # <<>>
         /\ AllOf(s) \subseteq {"manifest", "mint", "render"}
         /\ "manifest" \notin AllOf(s) => s = <<"mint", "render">>
         /\ "render" \notin AllOf(s) => s \in {<<"manifest">>, <<"manifest", "mint">>}
<1>1. CASE s = <<"manifest", "render">>
  BY <1>1, Alls DEF StepLists
<1>2. CASE s = <<"manifest">>
  BY <1>2, Alls DEF StepLists
<1>3. CASE s = <<"mint", "render">>
  BY <1>3, Alls DEF StepLists
<1>4. CASE s = <<"manifest", "mint", "render">>
  BY <1>4, Alls DEF StepLists
<1>5. CASE s = <<"manifest", "mint">>
  BY <1>5, Alls DEF StepLists
<1> QED  BY <1>1, <1>2, <1>3, <1>4, <1>5 DEF EditLists

LEMMA PlainPlan ==
  ASSUME IInv, ~Busy, NEW op \in Ops \ {"category"}, NEW steps \in EditLists,
         NEW m \in GoodManifests, NEW w, Plain(w, op, steps, m),
         steps = <<"mint", "render">> => m = manifest,
         steps \in {<<"manifest">>, <<"manifest", "mint">>} /\ ~mishap => Follows(m),
         \A a \in Alias \ w.edits :
             Declared(manifest, a) /\ Declared(m, a)
                 => files[FileOf(m, a)] = files[FileOf(manifest, a)]
  PROVE  PlanFits(w)
<1>1. /\ w.op = op /\ w.steps = steps /\ w.manifest = m /\ w.inv = inv /\ ~w.done
      /\ w.held = [a \in Alias |-> Uses(a)]
  BY DEF Plain
<1>2. inv \in Inventories /\ [a \in Alias |-> Uses(a)] \in [Alias -> Key \cup {None}]
  BY UsesAKey DEF IInv, HomeTypeInv
<1>3. w \in Works
  BY <1>2, EditSteps, WholeIsWork DEF Plain
<1>4. \A a \in Alias \ w.edits :
          w.held[a] # None => w.held[a] = files[FileOf(manifest, a)] /\ Declared(manifest, a)
  BY <1>1, UsesAKey DEF IInv
<1>5. Kept(manifest, w) /\ Kept(m, w)
  BY <1>4 DEF Kept, FileOf
<1>6. HostsPlan(w)
  BY <1>1, <1>5 DEF HostsPlan
<1>7. ~mishap => Follows(manifest)
  BY DEF IInv, ConfigInv
<1>8. ~mishap => ConfigPlan(w)
  BY <1>1, <1>7, EditSteps DEF ConfigPlan
<1>9. SavesInv(w) /\ MovesInv(w)
  BY <1>1, EditSteps DEF SavesInv, MovesInv
<1>10. AskPlan(w)
  BY <1>1, EditSteps DEF AskPlan, Plain
<1> QED  BY <1>1, <1>2, <1>3, <1>6, <1>8, <1>9, <1>10, EditSteps DEF PlanFits

LEMMA FreeToBegin ==
  ASSUME NEW w, Begin(w)
  PROVE  ~Busy /\ Valid(w.manifest)
BY DEF Begin, Busy

LEMMA PlainBegins ==
  ASSUME IInv, NEW op \in Ops, op # "category", NEW steps \in EditLists,
         NEW m \in Manifests, Tidy(m), NEW w, Plain(w, op, steps, m), Begin(w),
         steps = <<"mint", "render">> => m = manifest,
         steps \in {<<"manifest">>, <<"manifest", "mint">>} /\ ~mishap => Follows(m),
         \A a \in Alias \ w.edits :
             Declared(manifest, a) /\ Declared(m, a)
                 => files[FileOf(m, a)] = files[FileOf(manifest, a)]
  PROVE  Begun
<1>1. w.manifest = m
  BY DEF Plain
<1>2. m \in GoodManifests /\ ~Busy
  BY <1>1, FreeToBegin DEF GoodManifests
<1>3. PlanFits(w)
  BY <1>2, PlainPlan
<1> QED  BY <1>3 DEF Begun

LEMMA EditBegins ==
  ASSUME IInv, NEW op \in Ops, op # "category", NEW m \in Manifests, Tidy(m),
         NEW w, Plain(w, op, Edited, m), Begin(w),
         \A a \in Alias \ w.edits :
             Declared(manifest, a) /\ Declared(m, a) => FileOf(m, a) = FileOf(manifest, a)
  PROVE  Begun
<1>1. Edited \in EditLists /\ Edited \notin {<<"manifest">>, <<"manifest", "mint">>, <<"mint", "render">>}
  BY DEF Edited, EditLists
<1>2. /\ Edited = <<"mint", "render">> => m = manifest
      /\ Edited \in {<<"manifest">>, <<"manifest", "mint">>} /\ ~mishap => Follows(m)
  BY <1>1
<1> HIDE DEF Edited
<1> QED  BY <1>1, <1>2, PlainBegins

LEMMA AddProfileBegins ==
  ASSUME IInv, NEW p \in Profile, NEW scope \in Name \cup {"own"}, AddProfile(p, scope)
  PROVE  Begun
<1> DEFINE m == [manifest EXCEPT !.scope[p] = scope]
           w == Start("profile add", Edited, m)
<1>1. Begin(w) /\ ~Exists(manifest, p)
  BY DEF AddProfile
<1>2. manifest \in GoodManifests
  BY DEF IInv, HomeTypeInv
<1>3. /\ m \in Manifests /\ m.hosts = manifest.hosts /\ m.category = manifest.category
      /\ m.keys = manifest.keys /\ m.rule = manifest.rule
      /\ m.scope = [manifest.scope EXCEPT ![p] = scope]
  BY <1>2, ManifestParts DEF Manifests
<1> HIDE DEF m
<1>4. Tidy(m)
  <2> SUFFICES ASSUME NEW q \in Profile, ~Exists(m, q)
               PROVE  HostsOf(m, q) = {} /\ \A n \in Name : ~KeySpecFor(m, <<q, n>>)
    BY DEF Tidy
  <2>1. ~Exists(manifest, q)
    BY <1>1, <1>2, <1>3, ManifestParts, EditorAssumption DEF Exists
  <2> QED  BY <1>2, <1>3, <2>1, ManifestParts DEF Tidy, HostsOf, KeySpecFor
<1>5. Plain(w, "profile add", Edited, m) /\ w.edits = {}
  BY PlainStart
<1> HIDE DEF w
<1>6. ASSUME NEW a \in Alias, Declared(manifest, a)
      PROVE  FileOf(m, a) = FileOf(manifest, a)
  <2>1. manifest.hosts[a].profile # p
    BY <1>1, <1>2, <1>6, HostParts, EditorAssumption DEF Exists
  <2>2. RefOf(m, a) = RefOf(manifest, a)
    BY <1>2, <1>3, <1>6, <2>1, SameRef, HostParts, ManifestParts
  <2> QED  BY <1>3, <2>2, SameFile DEF FileOf
<1> QED  BY <1>1, <1>3, <1>4, <1>5, <1>6, EditBegins DEF Ops

LEMMA EditProfileBegins ==
  ASSUME IInv, NEW p \in Profile, NEW scope \in Name \cup {"own"}, EditProfile(p, scope)
  PROVE  Begun
<1> DEFINE m == [manifest EXCEPT !.scope[p] = scope]
           w == [Start("profile edit", Edited, m) EXCEPT !.edits = HostsOf(manifest, p)]
<1>1. Begin(w) /\ Exists(manifest, p)
  BY DEF EditProfile
<1>2. manifest \in GoodManifests
  BY DEF IInv, HomeTypeInv
<1>3. /\ m \in Manifests /\ m.hosts = manifest.hosts /\ m.category = manifest.category
      /\ m.keys = manifest.keys /\ m.rule = manifest.rule
      /\ m.scope = [manifest.scope EXCEPT ![p] = scope]
  BY <1>2, ManifestParts DEF Manifests
<1> HIDE DEF m
<1>4. Tidy(m)
  <2> SUFFICES ASSUME NEW q \in Profile, ~Exists(m, q)
               PROVE  HostsOf(m, q) = {} /\ \A n \in Name : ~KeySpecFor(m, <<q, n>>)
    BY DEF Tidy
  <2>1. ~Exists(manifest, q)
    BY <1>1, <1>2, <1>3, ManifestParts, EditorAssumption DEF Exists
  <2> QED  BY <1>2, <1>3, <2>1, ManifestParts DEF Tidy, HostsOf, KeySpecFor
<1>5. HostsOf(manifest, p) \in SUBSET Alias
  BY DEF HostsOf
<1>6. w = [Start("profile edit", Edited, m) EXCEPT !.edits = HostsOf(manifest, p)]
  OBVIOUS
<1> HIDE DEF w
<1>7. Plain(w, "profile edit", Edited, m) /\ w.edits = HostsOf(manifest, p)
  BY <1>5, <1>6 DEF Plain, Start, Idle, Whole
<1>8. ASSUME NEW a \in Alias \ HostsOf(manifest, p), Declared(manifest, a)
      PROVE  FileOf(m, a) = FileOf(manifest, a)
  <2>1. manifest.hosts[a].profile # p
    BY <1>2, <1>8, HostParts
  <2>2. RefOf(m, a) = RefOf(manifest, a)
    BY <1>2, <1>3, <1>8, <2>1, SameRef, HostParts, ManifestParts
  <2> QED  BY <1>3, <2>2, SameFile DEF FileOf
<1> QED  BY <1>1, <1>3, <1>4, <1>7, <1>8, EditBegins DEF Ops

LEMMA AddHostBegins ==
  ASSUME IInv, NEW a \in Alias, NEW p \in Profile, NEW n \in Name \cup {None}, AddHost(a, p, n)
  PROVE  Begun
<1> DEFINE h == [profile |-> p, name |-> n]
           m == [manifest EXCEPT !.hosts[a] = h]
           w == Start("host add", Edited, m)
<1>1. Begin(w) /\ Exists(manifest, p) /\ ~Declared(manifest, a)
  BY DEF AddHost
<1>2. manifest \in GoodManifests
  BY DEF IInv, HomeTypeInv
<1>3. h \in Hosts /\ h.profile = p
  BY DEF Hosts
<1> HIDE DEF h
<1>4. /\ m \in Manifests /\ m.scope = manifest.scope /\ m.category = manifest.category
      /\ m.keys = manifest.keys /\ m.rule = manifest.rule
      /\ m.hosts = [manifest.hosts EXCEPT ![a] = h]
  BY <1>2, <1>3, ManifestParts DEF Manifests
<1> HIDE DEF m
<1>5. Tidy(m)
  <2> SUFFICES ASSUME NEW q \in Profile, ~Exists(m, q)
               PROVE  HostsOf(m, q) = {} /\ \A x \in Name : ~KeySpecFor(m, <<q, x>>)
    BY DEF Tidy
  <2>1. ~Exists(manifest, q) /\ q # p
    BY <1>1, <1>4 DEF Exists
  <2>2. HostsOf(manifest, q) = {} /\ \A x \in Name : ~KeySpecFor(manifest, <<q, x>>)
    BY <1>2, <2>1, ManifestParts DEF Tidy
  <2>3. \A b \in Alias : b # a => m.hosts[b] = manifest.hosts[b]
    BY <1>2, <1>4, ManifestParts
  <2>4. m.hosts[a] = h
    BY <1>2, <1>4, ManifestParts
  <2> QED  BY <1>3, <1>4, <2>1, <2>2, <2>3, <2>4 DEF HostsOf, KeySpecFor
<1>6. Plain(w, "host add", Edited, m) /\ w.edits = {}
  BY PlainStart
<1> HIDE DEF w
<1>7. ASSUME NEW b \in Alias, Declared(manifest, b)
      PROVE  FileOf(m, b) = FileOf(manifest, b)
  <2>1. m.hosts[b] = manifest.hosts[b]
    BY <1>1, <1>2, <1>4, <1>7, ManifestParts
  <2>2. RefOf(m, b) = RefOf(manifest, b)
    BY <1>4, <2>1, SameRef
  <2> QED  BY <1>4, <2>2, SameFile DEF FileOf
<1> QED  BY <1>1, <1>4, <1>5, <1>6, <1>7, EditBegins DEF Ops

\* A host that gets another name for its key.
LEMMA Renaming ==
  ASSUME NEW m \in GoodManifests, NEW a \in Alias, Declared(m, a), NEW n \in Name \cup {None}
  PROVE  LET h == [m.hosts[a] EXCEPT !.name = n] IN
         h \in Hosts /\ h.profile = m.hosts[a].profile /\ h.name = n
<1>1. m.hosts[a] \in Hosts
  BY HostParts
<1> QED  BY <1>1 DEF Hosts

LEMMA RenamedHost ==
  ASSUME NEW m \in GoodManifests, NEW a \in Alias, Declared(m, a), NEW n \in Name \cup {None},
         NEW l, l = [m EXCEPT !.hosts[a].name = n]
  PROVE  /\ l \in Manifests /\ Tidy(l)
         /\ l.scope = m.scope /\ l.category = m.category /\ l.keys = m.keys /\ l.rule = m.rule
         /\ \A b \in Alias \ {a} : l.hosts[b] = m.hosts[b]
         /\ l.hosts[a] \in Hosts /\ l.hosts[a].profile = m.hosts[a].profile /\ l.hosts[a].name = n
<1> DEFINE h == [m.hosts[a] EXCEPT !.name = n]
<1>1. h \in Hosts /\ h.profile = m.hosts[a].profile /\ h.name = n
  BY Renaming
<1>2. l = [m EXCEPT !.hosts = [m.hosts EXCEPT ![a] = h]]
  OBVIOUS
<1> HIDE DEF h
<1>3. /\ l \in Manifests /\ l.hosts = [m.hosts EXCEPT ![a] = h]
      /\ l.scope = m.scope /\ l.category = m.category /\ l.keys = m.keys /\ l.rule = m.rule
  BY <1>1, <1>2, ManifestParts DEF Manifests
<1>4. l.hosts[a] = h /\ \A b \in Alias \ {a} : l.hosts[b] = m.hosts[b]
  BY <1>3, ManifestParts
<1>5. \A q \in Profile : HostsOf(l, q) \subseteq HostsOf(m, q)
  BY <1>1, <1>4 DEF HostsOf, Declared
<1>6. Tidy(l)
  BY <1>3, <1>5, ManifestParts DEF Tidy, Exists, KeySpecFor
<1> QED  BY <1>1, <1>3, <1>4, <1>6

LEMMA EditHostBegins ==
  ASSUME IInv, NEW a \in Alias, NEW n \in Name \cup {None}, EditHost(a, n)
  PROVE  Begun
<1> DEFINE m == [manifest EXCEPT !.hosts[a].name = n]
           w == [Start("host edit", Edited, m) EXCEPT !.edits = {a}]
<1>1. Begin(w) /\ Declared(manifest, a)
  BY DEF EditHost
<1>2. manifest \in GoodManifests
  BY DEF IInv, HomeTypeInv
<1>3. m = [manifest EXCEPT !.hosts[a].name = n]
  OBVIOUS
<1>4. w = [Start("host edit", Edited, m) EXCEPT !.edits = {a}]
  OBVIOUS
<1> HIDE DEF m, w
<1>5. /\ m \in Manifests /\ Tidy(m)
      /\ m.scope = manifest.scope /\ m.category = manifest.category
      /\ m.keys = manifest.keys /\ m.rule = manifest.rule
      /\ \A b \in Alias \ {a} : m.hosts[b] = manifest.hosts[b]
  BY <1>1, <1>2, <1>3, RenamedHost
<1>6. Plain(w, "host edit", Edited, m) /\ w.edits = {a}
  BY <1>4 DEF Plain, Start, Idle, Whole
<1>7. ASSUME NEW b \in Alias \ {a}
      PROVE  FileOf(m, b) = FileOf(manifest, b)
  <2>1. RefOf(m, b) = RefOf(manifest, b)
    BY <1>5, SameRef
  <2> QED  BY <1>5, <2>1, SameFile DEF FileOf
<1> QED  BY <1>1, <1>5, <1>6, <1>7, EditBegins DEF Ops

\* Whatever the rules come to say, no host resolves to another key.
LEMMA KeptNamesKeep ==
  ASSUME NEW n \in GoodManifests, n = manifest, NEW rule \in Rule, NEW m,
         m = KeptNames([manifest EXCEPT !.rule = rule])
  PROVE  /\ m \in Manifests /\ Tidy(m)
         /\ \A a \in Alias : Declared(m, a) <=> Declared(n, a)
         /\ \A a \in Alias : Declared(n, a) => FileOf(m, a) = FileOf(n, a)
<1> DEFINE l == [manifest EXCEPT !.rule = rule]
           keeps(a) == /\ Declared(l, a) /\ l.hosts[a].name = None
                       /\ l.scope[l.hosts[a].profile] = "own"
                       /\ ResolvedKeyName(l, a) # ResolvedKeyName(manifest, a)
           kept == [a \in Alias |-> IF keeps(a)
                                    THEN [l.hosts[a] EXCEPT !.name = ResolvedKeyName(manifest, a)]
                                    ELSE l.hosts[a]]
<1>1. m = [l EXCEPT !.hosts = kept]
  BY DEF KeptNames
<1>2. /\ l \in Manifests /\ l.hosts = n.hosts /\ l.scope = n.scope /\ l.category = n.category
      /\ l.keys = n.keys /\ l.rule = rule
  BY ManifestParts DEF Manifests
<1> HIDE DEF l
<1>3. ASSUME NEW a \in Alias, keeps(a)
      PROVE  /\ kept[a] \in Hosts /\ kept[a].profile = n.hosts[a].profile
             /\ kept[a].name = ResolvedKeyName(n, a) /\ kept[a].name \in Name
             /\ n.scope[n.hosts[a].profile] = "own"
  <2>1. Declared(n, a) /\ n.scope[n.hosts[a].profile] = "own"
    BY <1>2, <1>3 DEF Declared
  <2>2. ResolvedKeyName(n, a) \in Name
    BY <2>1, RefOfHost DEF RefOf, Refs
  <2>3. kept[a] = [n.hosts[a] EXCEPT !.name = ResolvedKeyName(n, a)]
    BY <1>2, <1>3
  <2>4. n.hosts[a] \in Hosts
    BY <2>1, HostParts
  <2> QED  BY <2>1, <2>2, <2>3, <2>4 DEF Hosts
<1>4. ASSUME NEW a \in Alias, ~keeps(a)
      PROVE  kept[a] = n.hosts[a]
  BY <1>2, <1>4
<1>5. kept \in [Alias -> Hosts \cup {None}]
  <2>1. \A a \in Alias : kept[a] \in Hosts \cup {None}
    BY <1>3, <1>4, ManifestParts
  <2> QED  BY <2>1
<1> HIDE DEF kept
<1>6. /\ m \in Manifests /\ m.hosts = kept /\ m.scope = n.scope /\ m.category = n.category
      /\ m.keys = n.keys /\ m.rule = rule
  BY <1>1, <1>2, <1>5 DEF Manifests
<1>7. ASSUME NEW a \in Alias
      PROVE  /\ Declared(m, a) <=> Declared(n, a)
             /\ Declared(n, a) => m.hosts[a].profile = n.hosts[a].profile
             /\ Declared(n, a) => ResolvedKeyName(m, a) = ResolvedKeyName(n, a)
  <2>1. CASE keeps(a)
    <3>1. Declared(n, a)
      BY <1>2, <2>1 DEF Declared
    <3>2. m.hosts[a] # None
      BY <1>3, <1>6, <2>1, <3>1, HomeAssumption
    <3> QED  BY <1>3, <1>6, <2>1, <3>1, <3>2, EditorAssumption DEF Declared, ResolvedKeyName
  <2>2. CASE ~keeps(a)
    <3>1. m.hosts[a] = n.hosts[a] /\ l.hosts[a] = n.hosts[a]
      BY <1>2, <1>4, <1>6, <2>2
    <3>2. ResolvedKeyName(m, a) = ResolvedKeyName(l, a)
      BY <1>2, <1>6, <3>1 DEF ResolvedKeyName
    <3>3. Declared(n, a) /\ ResolvedKeyName(l, a) # ResolvedKeyName(n, a)
            => l.hosts[a].name # None \/ l.scope[l.hosts[a].profile] # "own"
      BY <1>2, <2>2 DEF Declared
    <3>4. Declared(n, a) /\ (n.hosts[a].name # None \/ n.scope[n.hosts[a].profile] # "own")
            => ResolvedKeyName(l, a) = ResolvedKeyName(n, a)
      BY <1>2 DEF ResolvedKeyName
    <3> QED  BY <1>2, <3>1, <3>2, <3>3, <3>4 DEF Declared
  <2> QED  BY <2>1, <2>2
<1> HIDE DEF keeps
<1>8. Tidy(m)
  <2>1. \A q \in Profile : HostsOf(m, q) \subseteq HostsOf(n, q)
    BY <1>7 DEF HostsOf, Declared
  <2> QED  BY <1>6, <2>1, ManifestParts DEF Tidy, Exists, KeySpecFor
<1>9. ASSUME NEW a \in Alias, Declared(n, a)
      PROVE  FileOf(m, a) = FileOf(n, a)
  <2>1. RefOf(m, a) = RefOf(n, a)
    BY <1>7, <1>9 DEF RefOf
  <2> QED  BY <1>6, <2>1, SameFile DEF FileOf
<1> QED  BY <1>6, <1>7, <1>8, <1>9

LEMMA SetNamingBegins ==
  ASSUME IInv, NEW rule \in Rule, SetNaming(rule)
  PROVE  Begun
<1> DEFINE m == KeptNames([manifest EXCEPT !.rule = rule])
           w == Start("naming", <<"manifest">>, m)
<1>1. Begin(w)
  BY DEF SetNaming
<1>2. manifest \in GoodManifests
  BY DEF IInv, HomeTypeInv
<1>3. m = KeptNames([manifest EXCEPT !.rule = rule])
  OBVIOUS
<1>4. Plain(w, "naming", <<"manifest">>, m) /\ w.edits = {}
  BY PlainStart
<1> HIDE DEF m, w
<1>5. /\ m \in Manifests /\ Tidy(m)
      /\ \A a \in Alias : Declared(m, a) <=> Declared(manifest, a)
      /\ \A a \in Alias : Declared(manifest, a) => FileOf(m, a) = FileOf(manifest, a)
  BY <1>2, <1>3, KeptNamesKeep
<1>6. ~mishap => Follows(m)
  <2>1. Rendered(m) = Rendered(manifest)
    BY <1>5 DEF Rendered, FileOf
  <2>2. ~mishap => Follows(manifest)
    BY <1>1, FreeToBegin DEF IInv, ConfigInv
  <2> QED  BY <2>1, <2>2 DEF Follows
<1>7. <<"manifest">> \in EditLists /\ <<"manifest">> # <<"mint", "render">>
  BY DEF EditLists
<1> QED  BY <1>1, <1>4, <1>5, <1>6, <1>7, PlainBegins DEF Ops

\* The keys a profile declares, with a host that is wired to one.
LEMMA WiredManifest ==
  ASSUME NEW n \in GoodManifests, NEW r \in Refs, NEW a \in Alias \cup {None},
         NEW v \in {"no", "yes"} \cup Adoptable, Exists(n, r[1]),
         a # None => a \in HostsOf(n, r[1]) /\ n.scope[r[1]] = "own",
         NEW m, m = Wired([n EXCEPT !.keys[r] = v], r, a)
  PROVE  /\ m \in Manifests /\ Tidy(m) /\ m.category = n.category
         /\ m.keys[r] = v /\ \A q \in Refs \ {r} : m.keys[q] = n.keys[q]
         /\ \A b \in Alias : Declared(m, b) <=> Declared(n, b)
         /\ \A b \in Alias \ {a} : RefOf(m, b) = RefOf(n, b)
         /\ a # None => RefOf(m, a) = r
<1> DEFINE l == [n EXCEPT !.keys[r] = v]
<1>1. /\ l \in Manifests /\ l.hosts = n.hosts /\ l.scope = n.scope /\ l.category = n.category
      /\ l.rule = n.rule /\ l.keys = [n.keys EXCEPT ![r] = v]
  BY ManifestParts DEF Manifests
<1>2. m = Wired(l, r, a)
  OBVIOUS
<1> HIDE DEF l
<1>3. r[1] \in Profile /\ r[2] \in Name /\ r = <<r[1], r[2]>>
  BY DEF Refs
<1>4. l.keys[r] = v /\ \A q \in Refs \ {r} : l.keys[q] = n.keys[q]
  BY <1>1, ManifestParts
<1>5. ASSUME NEW q \in Profile, ~Exists(n, q)
      PROVE  HostsOf(n, q) = {} /\ \A x \in Name : l.keys[<<q, x>>] = "no"
  <2>1. q # r[1] /\ HostsOf(n, q) = {} /\ \A x \in Name : ~KeySpecFor(n, <<q, x>>)
    BY <1>5, ManifestParts DEF Tidy
  <2>2. \A x \in Name : <<q, x>> \in Refs /\ <<q, x>> # r
    BY <2>1, <1>3 DEF Refs
  <2> QED  BY <1>4, <2>1, <2>2 DEF KeySpecFor
<1>6. CASE a = None
  <2>1. m = l
    BY <1>2, <1>6 DEF Wired
  <2>2. Tidy(m)
    <3>1. \A q \in Profile : HostsOf(m, q) = HostsOf(n, q) /\ (Exists(m, q) <=> Exists(n, q))
      BY <1>1, <2>1 DEF Exists, HostsOf
    <3>2. \A q \in Profile : ~Exists(n, q) =>
              HostsOf(n, q) = {} /\ \A x \in Name : ~KeySpecFor(m, <<q, x>>)
      BY <1>5, <2>1 DEF KeySpecFor
    <3> QED  BY <3>1, <3>2 DEF Tidy
  <2>3. \A b \in Alias : RefOf(m, b) = RefOf(n, b) /\ (Declared(m, b) <=> Declared(n, b))
    BY <1>1, <2>1, SameRef
  <2> QED  BY <1>1, <1>4, <1>6, <2>1, <2>2, <2>3
<1>7. CASE a # None
  <2>1. m = [l EXCEPT !.hosts[a].name = r[2]] /\ a \in Alias
    BY <1>2, <1>7 DEF Wired
  <2> DEFINE h == [n.hosts[a] EXCEPT !.name = r[2]]
  <2>2. m = [l EXCEPT !.hosts = [n.hosts EXCEPT ![a] = h]]
    BY <1>1, <2>1
  <2>3. n.hosts[a] # None /\ n.hosts[a].profile = r[1] /\ n.hosts[a] \in Hosts
    BY <1>7, <2>1, HostParts DEF HostsOf, Declared
  <2>4. h \in Hosts /\ h.profile = r[1] /\ h.name = r[2]
    BY <1>3, <2>3 DEF Hosts
  <2> HIDE DEF h
  <2>5. /\ m \in Manifests /\ m.scope = n.scope /\ m.category = n.category
        /\ m.rule = n.rule /\ m.keys = l.keys /\ m.hosts = [n.hosts EXCEPT ![a] = h]
    BY <1>1, <2>2, <2>4, ManifestParts DEF Manifests
  <2>6. m.hosts[a] = h /\ \A b \in Alias \ {a} : m.hosts[b] = n.hosts[b]
    BY <2>1, <2>5, ManifestParts
  <2>7. h # None
    BY <2>4, HomeAssumption
  <2>8. \A q \in Profile : HostsOf(m, q) \subseteq HostsOf(n, q)
    BY <2>3, <2>4, <2>6 DEF HostsOf, Declared
  <2>9. Tidy(m)
    BY <1>5, <2>5, <2>8 DEF Tidy, Exists, KeySpecFor
  <2>10. \A b \in Alias : Declared(m, b) <=> Declared(n, b)
    BY <2>3, <2>6, <2>7 DEF Declared
  <2>11. \A b \in Alias \ {a} : RefOf(m, b) = RefOf(n, b)
    BY <2>5, <2>6, SameRef
  <2>12. RefOf(m, a) = <<r[1], r[2]>>
    BY <1>3, <1>7, <2>4, <2>5, <2>6, EditorAssumption DEF RefOf, ResolvedKeyName
  <2> QED  BY <1>3, <1>4, <2>5, <2>9, <2>10, <2>11, <2>12
<1> QED  BY <1>6, <1>7

LEMMA AddKeyBegins ==
  ASSUME IInv, NEW r \in Refs, NEW a \in Alias \cup {None}, AddKey(r, a)
  PROVE  Begun
<1> DEFINE m == Wired([manifest EXCEPT !.keys[r] = "yes"], r, a)
           w == [Start("key add", <<"manifest", "mint", "render">>, m)
                    EXCEPT !.mint = {r}, !.edits = {a} \ {None}]
<1>1. Begin(w) /\ MayDeclare(r, a)
  BY DEF AddKey
<1>2. manifest \in GoodManifests
  BY DEF IInv, HomeTypeInv
<1>3. m = Wired([manifest EXCEPT !.keys[r] = "yes"], r, a)
  OBVIOUS
<1>4. w = [Start("key add", <<"manifest", "mint", "render">>, m)
              EXCEPT !.mint = {r}, !.edits = {a} \ {None}]
  OBVIOUS
<1> HIDE DEF m, w
<1>5. /\ m \in Manifests /\ Tidy(m) /\ m.category = manifest.category
      /\ m.keys[r] = "yes" /\ \A q \in Refs \ {r} : m.keys[q] = manifest.keys[q]
      /\ \A b \in Alias \ {a} : RefOf(m, b) = RefOf(manifest, b)
  BY <1>1, <1>2, <1>3, WiredManifest DEF MayDeclare
<1>6. {a} \ {None} \subseteq Alias /\ {r} \subseteq Refs
  OBVIOUS
<1>7. Plain(w, "key add", <<"manifest", "mint", "render">>, m) /\ w.edits = {a} \ {None}
  BY <1>4, <1>6 DEF Plain, Start, Idle, Whole
<1>8. ASSUME NEW b \in Alias \ ({a} \ {None}), Declared(manifest, b)
      PROVE  FileOf(m, b) = FileOf(manifest, b)
  <2>1. b # a
    BY <1>8, EditorAssumption
  <2>2. RefOf(m, b) = RefOf(manifest, b) /\ RefOf(manifest, b) \in Refs
    BY <1>2, <1>5, <1>8, <2>1, RefOfHost
  <2>3. manifest.keys[r] = "no"
    BY <1>1 DEF MayDeclare, KeySpecFor
  <2> QED  BY <1>5, <2>2, <2>3 DEF FileOf, IdentityFile
<1>9. /\ <<"manifest", "mint", "render">> \in EditLists
      /\ <<"manifest", "mint", "render">> # <<"mint", "render">>
      /\ <<"manifest", "mint", "render">> \notin {<<"manifest">>, <<"manifest", "mint">>}
  BY DEF EditLists
<1> DEFINE s == <<"manifest", "mint", "render">>
<1>10. /\ Plain(w, "key add", s, m) /\ s \in EditLists
       /\ s = <<"mint", "render">> => m = manifest
       /\ s \in {<<"manifest">>, <<"manifest", "mint">>} /\ ~mishap => Follows(m)
  BY <1>7, <1>9
<1> HIDE DEF s
<1> QED  BY <1>1, <1>5, <1>7, <1>8, <1>10, PlainBegins DEF Ops

LEMMA AdoptKeyBegins ==
  ASSUME IInv, NEW r \in Refs, NEW path \in Adoptable, NEW a \in Alias \cup {None},
         AdoptKey(r, path, a)
  PROVE  Begun
<1> DEFINE m == Wired([manifest EXCEPT !.keys[r] = path], r, a)
           e == ({a} \ {None}) \cup HostsForKey(manifest, r)
           w == [Start("key adopt", <<"manifest", "mint">>, m) EXCEPT !.mint = {r}, !.edits = e]
<1>1. Begin(w) /\ MayDeclare(r, a)
  BY DEF AdoptKey
<1>2. manifest \in GoodManifests
  BY DEF IInv, HomeTypeInv
<1>3. m = Wired([manifest EXCEPT !.keys[r] = path], r, a)
  OBVIOUS
<1>4. e \subseteq Alias /\ {r} \subseteq Refs
  BY DEF HostsForKey
<1>5. w = [Start("key adopt", <<"manifest", "mint">>, m) EXCEPT !.mint = {r}, !.edits = e]
  OBVIOUS
<1> HIDE DEF m, w
<1>6. /\ m \in Manifests /\ Tidy(m) /\ m.category = manifest.category
      /\ m.keys[r] = path /\ \A q \in Refs \ {r} : m.keys[q] = manifest.keys[q]
      /\ \A b \in Alias : Declared(m, b) <=> Declared(manifest, b)
      /\ \A b \in Alias \ {a} : RefOf(m, b) = RefOf(manifest, b)
      /\ a # None => RefOf(m, a) = r
  BY <1>1, <1>2, <1>3, WiredManifest DEF MayDeclare
<1>7. Plain(w, "key adopt", <<"manifest", "mint">>, m) /\ w.edits = e
  <2> HIDE DEF e
  <2> QED  BY <1>4, <1>5 DEF Plain, Start, Idle, Whole
<1>8. ASSUME NEW b \in Alias, Declared(manifest, b), FileOf(m, b) # FileOf(manifest, b)
      PROVE  FileOf(m, b) = path /\ (b = a \/ b \in HostsForKey(manifest, r))
  <2>1. path \notin {"no", "yes"}
    BY EditorAssumption
  <2>2. CASE b # a
    <3>1. RefOf(m, b) = RefOf(manifest, b) /\ RefOf(manifest, b) \in Refs
      BY <1>2, <1>6, <1>8, <2>2, RefOfHost
    <3>2. RefOf(manifest, b) = r
      BY <1>6, <1>8, <3>1 DEF FileOf, IdentityFile
    <3> QED  BY <1>6, <1>8, <2>1, <3>1, <3>2 DEF FileOf, IdentityFile, HostsForKey
  <2>3. CASE b = a
    <3>1. RefOf(m, b) = r
      BY <1>6, <2>3, EditorAssumption
    <3> QED  BY <1>6, <2>1, <2>3, <3>1 DEF FileOf, IdentityFile
  <2> QED  BY <2>2, <2>3
<1>9. ~mishap => Follows(m)
  <2> SUFFICES ASSUME ~mishap, NEW b \in Alias
               PROVE  config[b] = Rendered(m)[b] \/ Rendered(m)[b] \in Adoptable
    BY DEF Follows
  <2>1. config[b] = Rendered(manifest)[b] \/ Rendered(manifest)[b] \in Adoptable
    BY <1>1, FreeToBegin DEF IInv, ConfigInv, Follows
  <2>2. Rendered(m)[b] = IF Declared(manifest, b) THEN FileOf(m, b) ELSE None
    BY <1>6 DEF Rendered, FileOf
  <2>3. Rendered(manifest)[b] = IF Declared(manifest, b) THEN FileOf(manifest, b) ELSE None
    BY DEF Rendered, FileOf
  <2> QED  BY <1>8, <2>1, <2>2, <2>3
<1>10. \A b \in Alias \ w.edits : Declared(manifest, b) => FileOf(m, b) = FileOf(manifest, b)
  BY <1>7, <1>8, EditorAssumption
<1>11. <<"manifest", "mint">> \in EditLists /\ <<"manifest", "mint">> # <<"mint", "render">>
  BY DEF EditLists
<1> QED  BY <1>1, <1>6, <1>7, <1>9, <1>10, <1>11, PlainBegins DEF Ops

LEMMA ReconcileBegins ==
  ASSUME IInv, Reconcile
  PROVE  Begun
<1> DEFINE w == [Start("reconcile", <<"mint", "render">>, manifest) EXCEPT !.mint = KeyRefs(manifest)]
<1>1. Begin(w)
  BY DEF Reconcile
<1>2. manifest \in Manifests /\ Tidy(manifest) /\ KeyRefs(manifest) \subseteq Refs
  BY DEF IInv, HomeTypeInv, GoodManifests, KeyRefs
<1>3. w = [Start("reconcile", <<"mint", "render">>, manifest) EXCEPT !.mint = KeyRefs(manifest)]
  OBVIOUS
<1> HIDE DEF w
<1>4. Plain(w, "reconcile", <<"mint", "render">>, manifest) /\ w.edits = {}
  BY <1>2, <1>3 DEF Plain, Start, Idle, Whole
<1>5. <<"mint", "render">> \in EditLists /\ <<"mint", "render">> \notin {<<"manifest">>, <<"manifest", "mint">>}
  BY DEF EditLists
<1> QED  BY <1>1, <1>2, <1>4, <1>5, PlainBegins DEF Ops

-----------------------------------------------------------------------------
(***************************************************************************)
(* Moves of a profile's directory                                          *)
(***************************************************************************)

\* A path in a directory.
LEMMA PathParts ==
  ASSUME NEW x \in Paths \ Loose
  PROVE  /\ x = <<x[1], x[2], x[3]>> /\ x[1] \in Profile /\ x[2] \in Category /\ x[3] \in Name
         /\ DirOf(x) \in Dirs /\ DirOf(x)[1] = x[1] /\ DirOf(x)[2] = x[2]
BY DEF Paths, DirOf, Dirs

\* A file of one directory under another.
Under(dir, x) == <<dir[1], dir[2], x[3]>>

LEMMA UnderParts ==
  ASSUME NEW dir \in Dirs, NEW x \in Paths \ Loose
  PROVE  /\ Under(dir, x) \in Paths \ Loose /\ DirOf(Under(dir, x)) = dir
         /\ Under(dir, x)[1] = dir[1] /\ Under(dir, x)[3] = x[3] /\ Under(DirOf(x), x) = x
<1>1. x[3] \in Name /\ dir[1] \in Profile /\ dir[2] \in Category /\ dir = <<dir[1], dir[2]>>
  BY PathParts DEF Dirs
<1>2. Under(dir, x) \in Paths \ Loose
  BY <1>1, EditorAssumption DEF Under, Paths
<1> QED  BY <1>1, <1>2, PathParts DEF Under, DirOf

LEMMA RecordParts ==
  ASSUME NEW i \in Inventories, NEW k \in Key, i[k] # None
  PROVE  /\ i[k] \in FitRecords /\ i[k] \in Records /\ i[k].path \in Paths
         /\ i[k].profile \in Profile /\ i[k].deployments \subseteq Alias
         /\ i[k].path \notin Loose => i[k].path[1] = i[k].profile
BY DEF Inventories, FitRecords, Records

LEMMA RepointedParts ==
  ASSUME NEW i \in Inventories, NEW from \in Dirs, NEW to \in Dirs, from[1] = to[1]
  PROVE  /\ Repointed(i, from, to) \in Inventories
         /\ \A k \in Key : Repointed(i, from, to)[k] = None <=> i[k] = None
         /\ \A k \in Key : i[k] # None =>
               Repointed(i, from, to)[k].path =
                   IF i[k].path \notin Loose /\ DirOf(i[k].path) = from
                   THEN Under(to, i[k].path) ELSE i[k].path
<1> DEFINE j == Repointed(i, from, to)
<1>1. ASSUME NEW k \in Key, i[k] = None
      PROVE  j[k] = None
  BY <1>1 DEF Repointed
<1>2. ASSUME NEW k \in Key, i[k] # None
      PROVE  /\ j[k] \in FitRecords
             /\ j[k].path = IF i[k].path \notin Loose /\ DirOf(i[k].path) = from
                            THEN Under(to, i[k].path) ELSE i[k].path
  <2>1. CASE i[k].path \notin Loose /\ DirOf(i[k].path) = from
    <3>1. i[k].profile = from[1]
      BY <1>2, <2>1, RecordParts, PathParts
    <3>2. j[k] = [i[k] EXCEPT !.path = Under(to, i[k].path)]
      BY <1>2, <2>1, <3>1 DEF Repointed, Under
    <3>3. Under(to, i[k].path) \in Paths /\ Under(to, i[k].path)[1] = i[k].profile
      BY <1>2, <2>1, <3>1, RecordParts, UnderParts
    <3> QED  BY <1>2, <2>1, <3>2, <3>3, RecordParts DEF FitRecords, Records
  <2>2. CASE ~(i[k].path \notin Loose /\ DirOf(i[k].path) = from)
    BY <1>2, <2>2, RecordParts DEF Repointed
  <2> QED  BY <2>1, <2>2
<1>3. None \notin FitRecords
  BY HomeAssumption DEF FitRecords
<1>4. j = [k \in Key |-> j[k]]
  BY DEF Repointed
<1> HIDE DEF j
<1>5. j \in Inventories
  BY <1>1, <1>2, <1>4 DEF Inventories
<1> QED  BY <1>1, <1>2, <1>3, <1>5 DEF j

LEMMA MovedManifest ==
  ASSUME AdoptsOutside, NEW n \in GoodManifests, NEW p \in Profile, NEW c \in Category,
         NEW m, m = [n EXCEPT !.category[p] = c]
  PROVE  /\ m \in Manifests /\ Tidy(m) /\ ProfileDir(m, p) = <<p, c>>
         /\ \A a \in Alias : RefOf(m, a) = RefOf(n, a) /\ (Declared(m, a) <=> Declared(n, a))
         /\ \A r \in Refs : IdentityFile(m, r) =
               IF IdentityFile(n, r) \notin Loose /\ DirOf(IdentityFile(n, r)) = ProfileDir(n, p)
               THEN Under(<<p, c>>, IdentityFile(n, r)) ELSE IdentityFile(n, r)
<1>1. /\ m \in Manifests /\ m.hosts = n.hosts /\ m.scope = n.scope /\ m.keys = n.keys
      /\ m.rule = n.rule /\ m.category = [n.category EXCEPT ![p] = c]
  BY ManifestParts DEF Manifests
<1>2. Tidy(m)
  BY <1>1, ManifestParts DEF Tidy, Exists, HostsOf, KeySpecFor
<1>3. m.category[p] = c /\ \A q \in Profile \ {p} : m.category[q] = n.category[q]
  BY <1>1, ManifestParts
<1>4. ASSUME NEW r \in Refs
      PROVE  IdentityFile(m, r) =
               IF IdentityFile(n, r) \notin Loose /\ DirOf(IdentityFile(n, r)) = ProfileDir(n, p)
               THEN Under(<<p, c>>, IdentityFile(n, r)) ELSE IdentityFile(n, r)
  <2>1. CASE n.keys[r] \notin {"no", "yes"}
    <3>1. IdentityFile(n, r) = n.keys[r] /\ n.keys[r] \in Loose
      BY <2>1, PathOfRef DEF AdoptsOutside
    <3> QED  BY <1>1, <2>1, <3>1 DEF IdentityFile
  <2>2. CASE n.keys[r] \in {"no", "yes"}
    <3>1. /\ IdentityFile(n, r) = <<r[1], n.category[r[1]], r[2]>> /\ IdentityFile(n, r) \notin Loose
          /\ r[1] \in Profile
      BY <2>2, PathOfRef
    <3>2. IdentityFile(m, r) = <<r[1], m.category[r[1]], r[2]>>
      BY <1>1, <2>2 DEF IdentityFile
    <3>3. CASE r[1] = p
      BY <1>3, <3>1, <3>2, <3>3 DEF Under, DirOf, ProfileDir
    <3>4. CASE r[1] # p
      BY <1>3, <3>1, <3>2, <3>4 DEF Under, DirOf, ProfileDir
    <3> QED  BY <3>3, <3>4
  <2> QED  BY <2>1, <2>2
<1>5. \A a \in Alias : RefOf(m, a) = RefOf(n, a) /\ (Declared(m, a) <=> Declared(n, a))
  BY <1>1, SameRef
<1> QED  BY <1>1, <1>2, <1>3, <1>4, <1>5 DEF ProfileDir

LEMMA SetCategoryBegins ==
  ASSUME IInv, AdoptsOutside, NEW p \in Profile, NEW c \in Category, SetCategory(p, c)
  PROVE  Begun
<1> DEFINE m == [manifest EXCEPT !.category[p] = c]
           from == ProfileDir(manifest, p)
           to == ProfileDir(m, p)
           rename == IF from \in dirs THEN <<"rename">> ELSE <<>>
           i == Repointed(inv, from, to)
           record == IF i # inv THEN <<"inventory">> ELSE <<>>
           s == rename \o <<"manifest">> \o record \o <<"render">>
           w == [Start("category", s, m) EXCEPT !.inv = i, !.from = from, !.to = to]
<1>1. Begin(w) /\ from # to /\ ~({from, to} \subseteq dirs)
  BY DEF SetCategory
<1>2. manifest \in GoodManifests /\ inv \in Inventories /\ ~Busy
  BY <1>1, FreeToBegin DEF IInv, HomeTypeInv
<1>3. m = [manifest EXCEPT !.category[p] = c]
  OBVIOUS
<1>4. /\ rename \in {<<>>, <<"rename">>} /\ record \in {<<>>, <<"inventory">>}
      /\ rename = <<"rename">> <=> from \in dirs
      /\ record = <<"inventory">> <=> i # inv
  OBVIOUS
<1>5. s = rename \o <<"manifest">> \o record \o <<"render">>
  OBVIOUS
<1>6. i = Repointed(inv, from, to)
  OBVIOUS
<1>7. w = [Start("category", s, m) EXCEPT !.inv = i, !.from = from, !.to = to]
  OBVIOUS
<1>8. from = ProfileDir(manifest, p) /\ to = ProfileDir(m, p)
  OBVIOUS
<1> HIDE DEF m, from, to, rename, record, i, s, w
<1>9. /\ m \in Manifests /\ Tidy(m) /\ to = <<p, c>>
      /\ \A a \in Alias : RefOf(m, a) = RefOf(manifest, a) /\ (Declared(m, a) <=> Declared(manifest, a))
      /\ \A r \in Refs : IdentityFile(m, r) =
            IF IdentityFile(manifest, r) \notin Loose /\ DirOf(IdentityFile(manifest, r)) = from
            THEN Under(to, IdentityFile(manifest, r)) ELSE IdentityFile(manifest, r)
  <2>1. /\ m \in Manifests /\ Tidy(m) /\ ProfileDir(m, p) = <<p, c>>
        /\ \A a \in Alias : RefOf(m, a) = RefOf(manifest, a) /\ (Declared(m, a) <=> Declared(manifest, a))
        /\ \A r \in Refs : IdentityFile(m, r) =
               IF IdentityFile(manifest, r) \notin Loose /\ DirOf(IdentityFile(manifest, r)) = ProfileDir(manifest, p)
               THEN Under(<<p, c>>, IdentityFile(manifest, r)) ELSE IdentityFile(manifest, r)
    BY <1>2, <1>3, MovedManifest
  <2> QED  BY <1>8, <2>1
<1>10. /\ from \in Dirs /\ to \in Dirs /\ from[1] = p /\ to[1] = p /\ to[2] = c
  BY <1>2, <1>8, <1>9, ManifestParts DEF ProfileDir, Dirs
<1>11. i \in Inventories /\ \A k \in Key : i[k] = None <=> inv[k] = None
  BY <1>2, <1>6, <1>10, RepointedParts
<1>12. /\ s \in StepLists /\ s # <<>>
       /\ AllOf(s) \subseteq {"rename", "manifest", "inventory", "render"}
       /\ {"manifest", "render"} \subseteq AllOf(s)
       /\ "rename" \in AllOf(s) <=> from \in dirs
       /\ "inventory" \in AllOf(s) <=> i # inv
  BY <1>4, <1>5, CategorySteps
<1>13. /\ Whole(w) /\ w.op = "category" /\ w.steps = s /\ w.manifest = m /\ w.inv = i
       /\ w.from = from /\ w.to = to /\ w.done = FALSE /\ w.revoke = FALSE
       /\ w.held = [a \in Alias |-> Uses(a)]
       /\ w.ask = {} /\ w.failed = {} /\ w.mint = {} /\ w.purge = {} /\ w.edits = {}
  BY <1>7 DEF Start, Idle, Whole
<1>14. m \in GoodManifests
  BY <1>1, <1>9, <1>13, FreeToBegin DEF GoodManifests
<1>15. [a \in Alias |-> Uses(a)] \in [Alias -> Key \cup {None}]
  BY UsesAKey DEF IInv
<1>16. w \in Works
  <2>1. w.op \in Ops
    BY <1>13 DEF Ops
  <2> QED  BY <1>10, <1>11, <1>12, <1>13, <1>14, <1>15, <2>1, WholeIsWork
<1>17. SavesInv(w)
  BY <1>12, <1>13 DEF SavesInv
<1>18. MovesInv(w)
  <2>1. m = [manifest EXCEPT !.category[from[1]] = to[2]] /\ from = ProfileDir(manifest, from[1])
    BY <1>3, <1>8, <1>10
  <2> QED  BY <1>1, <1>6, <1>10, <1>11, <1>12, <1>13, <2>1 DEF MovesInv
<1>19. ~mishap => ConfigPlan(w)
  BY <1>2, <1>12, <1>13 DEF IInv, ConfigInv, ConfigPlan
<1>20. Kept(manifest, w)
  BY <1>13, UsesAKey DEF IInv, Kept, FileOf
<1>21. ASSUME "rename" \notin AllOf(s)
       PROVE  Kept(m, w)
  <2> SUFFICES ASSUME NEW a \in Alias, w.held[a] # None, Declared(m, a)
               PROVE  files[IdentityFile(m, RefOf(m, a))] = w.held[a]
    BY DEF Kept
  <2>1. /\ Declared(manifest, a) /\ RefOf(m, a) = RefOf(manifest, a) /\ RefOf(manifest, a) \in Refs
    BY <1>2, <1>9, RefOfHost
  <2> DEFINE x == IdentityFile(manifest, RefOf(manifest, a))
  <2>2. w.held[a] = files[x] /\ x \in Paths
    BY <1>2, <1>13, <2>1, UsesAKey, PathOfRef DEF IInv, FileOf
  <2>3. ~(x \notin Loose /\ DirOf(x) = from)
    BY <1>12, <1>21, <2>2 DEF IInv, TreeInv
  <2>4. IdentityFile(m, RefOf(m, a)) = x
    BY <1>9, <2>1, <2>3
  <2> QED  BY <2>2, <2>4
<1>22. HostsPlan(w)
  BY <1>13, <1>20, <1>21 DEF HostsPlan
<1>23. AskPlan(w)
  BY <1>13 DEF AskPlan
<1>24. PlanFits(w)
  BY <1>11, <1>12, <1>13, <1>14, <1>16, <1>17, <1>18, <1>19, <1>22, <1>23 DEF PlanFits
<1> QED  BY <1>1, <1>24 DEF Begun

-----------------------------------------------------------------------------
(***************************************************************************)
(* Deletions                                                               *)
(***************************************************************************)

DeleteLists ==
    {<<"manifest", "inventory", "render", "pins">>,
     <<"manifest", "inventory", "render", "pins", "purge">>,
     <<"revoke", "manifest", "inventory", "render", "pins">>,
     <<"revoke", "manifest", "inventory", "render", "pins", "purge">>,
     <<"manifest", "inventory">>, <<"manifest", "inventory", "purge">>,
     <<"revoke", "manifest", "inventory">>, <<"revoke", "manifest", "inventory", "purge">>}

LEMMA DeleteListParts ==
  ASSUME NEW s \in DeleteLists
  PROVE  /\ s \in StepLists /\ s # <<>>
         /\ {"rename", "mint"} \cap AllOf(s) = {}
         /\ {"manifest", "inventory"} \subseteq AllOf(s)
<1>1. CASE s = <<"manifest", "inventory", "render", "pins">>
  BY <1>1, Alls DEF StepLists
<1>2. CASE s = <<"manifest", "inventory", "render", "pins", "purge">>
  BY <1>2, Alls DEF StepLists
<1>3. CASE s = <<"revoke", "manifest", "inventory", "render", "pins">>
  BY <1>3, Alls DEF StepLists
<1>4. CASE s = <<"revoke", "manifest", "inventory", "render", "pins", "purge">>
  BY <1>4, Alls DEF StepLists
<1>5. CASE s = <<"manifest", "inventory">>
  BY <1>5, Alls DEF StepLists
<1>6. CASE s = <<"manifest", "inventory", "purge">>
  BY <1>6, Alls DEF StepLists
<1>7. CASE s = <<"revoke", "manifest", "inventory">>
  BY <1>7, Alls DEF StepLists
<1>8. CASE s = <<"revoke", "manifest", "inventory", "purge">>
  BY <1>8, Alls DEF StepLists
<1> QED  BY <1>1, <1>2, <1>3, <1>4, <1>5, <1>6, <1>7, <1>8 DEF DeleteLists

LEMMA RevokeListed ==
  ASSUME NEW s \in DeleteLists
  PROVE  /\ "revoke" \in AllOf(s) <=>
               s \in {<<"revoke", "manifest", "inventory", "render", "pins">>,
                      <<"revoke", "manifest", "inventory", "render", "pins", "purge">>,
                      <<"revoke", "manifest", "inventory">>,
                      <<"revoke", "manifest", "inventory", "purge">>}
         /\ "render" \in AllOf(s) <=>
               s \in {<<"manifest", "inventory", "render", "pins">>,
                      <<"manifest", "inventory", "render", "pins", "purge">>,
                      <<"revoke", "manifest", "inventory", "render", "pins">>,
                      <<"revoke", "manifest", "inventory", "render", "pins", "purge">>}
<1>1. CASE s = <<"manifest", "inventory", "render", "pins">>
  BY <1>1, Alls
<1>2. CASE s = <<"manifest", "inventory", "render", "pins", "purge">>
  BY <1>2, Alls
<1>3. CASE s = <<"revoke", "manifest", "inventory", "render", "pins">>
  BY <1>3, Alls
<1>4. CASE s = <<"revoke", "manifest", "inventory", "render", "pins", "purge">>
  BY <1>4, Alls
<1>5. CASE s = <<"manifest", "inventory">>
  BY <1>5, Alls
<1>6. CASE s = <<"manifest", "inventory", "purge">>
  BY <1>6, Alls
<1>7. CASE s = <<"revoke", "manifest", "inventory">>
  BY <1>7, Alls
<1>8. CASE s = <<"revoke", "manifest", "inventory", "purge">>
  BY <1>8, Alls
<1> QED  BY <1>1, <1>2, <1>3, <1>4, <1>5, <1>6, <1>7, <1>8 DEF DeleteLists

LEMMA ShortDeletion ==
  ASSUME NEW ask, NEW purge \in BOOLEAN, NEW s, s = Steps(ask, <<"manifest", "inventory">>, purge)
  PROVE  /\ s \in DeleteLists
         /\ ask # {} => s \in {<<"revoke", "manifest", "inventory">>,
                               <<"revoke", "manifest", "inventory", "purge">>}
<1>1. {"manifest", "inventory", "revoke", "purge"} \subseteq StepNames
  BY DEF StepNames
<1>2. <<>> \o <<"manifest", "inventory">> = <<"manifest", "inventory">>
  BY <1>1, NothingJoined
<1>3. <<"manifest", "inventory">> \o <<>> = <<"manifest", "inventory">>
  BY <1>1, NothingJoined
<1>4. <<"manifest", "inventory">> \o <<"purge">> = <<"manifest", "inventory", "purge">>
  BY <1>1, Joins
<1>5. <<"revoke">> \o <<"manifest", "inventory">> = <<"revoke", "manifest", "inventory">>
  BY <1>1, Joins
<1>6. <<"revoke", "manifest", "inventory">> \o <<>> = <<"revoke", "manifest", "inventory">>
  BY <1>1, NothingJoined
<1>7. <<"revoke", "manifest", "inventory">> \o <<"purge">> = <<"revoke", "manifest", "inventory", "purge">>
  BY <1>1, Joins
<1>8. CASE ask = {} /\ purge
  BY <1>2, <1>4, <1>8 DEF Steps, DeleteLists
<1>9. CASE ask = {} /\ ~purge
  BY <1>2, <1>3, <1>9 DEF Steps, DeleteLists
<1>10. CASE ask # {} /\ purge
  BY <1>5, <1>7, <1>10 DEF Steps, DeleteLists
<1>11. CASE ask # {} /\ ~purge
  BY <1>5, <1>6, <1>11 DEF Steps, DeleteLists
<1> QED  BY <1>8, <1>9, <1>10, <1>11

LEMMA LongDeletion ==
  ASSUME NEW ask, NEW purge \in BOOLEAN, NEW s, s = Steps(ask, Deleted, purge)
  PROVE  /\ s \in {<<"manifest", "inventory", "render", "pins">>,
                   <<"manifest", "inventory", "render", "pins", "purge">>,
                   <<"revoke", "manifest", "inventory", "render", "pins">>,
                   <<"revoke", "manifest", "inventory", "render", "pins", "purge">>}
         /\ ask # {} => s \in {<<"revoke", "manifest", "inventory", "render", "pins">>,
                               <<"revoke", "manifest", "inventory", "render", "pins", "purge">>}
<1>1. {"manifest", "inventory", "revoke", "purge", "render", "pins"} \subseteq StepNames
  BY DEF StepNames
<1>2. <<>> \o Deleted = Deleted
  BY <1>1, NothingJoined DEF Deleted
<1>3. Deleted \o <<>> = Deleted
  BY <1>1, NothingJoined DEF Deleted
<1>4. Deleted \o <<"purge">> = <<"manifest", "inventory", "render", "pins", "purge">>
  BY <1>1, Joins DEF Deleted
<1> DEFINE asked == <<"revoke", "manifest", "inventory", "render", "pins">>
<1>5. <<"revoke">> \o Deleted = asked
  BY <1>1, Joins DEF Deleted
<1>6. asked \o <<>> = asked
  BY <1>1, NothingJoined
<1>7. asked \o <<"purge">> = <<"revoke", "manifest", "inventory", "render", "pins", "purge">>
  BY <1>1, Joins
<1>8. Deleted = <<"manifest", "inventory", "render", "pins">>
  BY DEF Deleted
<1> HIDE DEF Deleted, asked
<1>9. CASE ask = {} /\ purge
  BY <1>2, <1>4, <1>9 DEF Steps
<1>10. CASE ask = {} /\ ~purge
  BY <1>2, <1>3, <1>8, <1>10 DEF Steps
<1>11. CASE ask # {} /\ purge
  BY <1>5, <1>7, <1>11 DEF Steps
<1>12. CASE ask # {} /\ ~purge
  BY <1>5, <1>6, <1>12 DEF Steps, asked
<1> QED  BY <1>9, <1>10, <1>11, <1>12

\* What is left of an inventory.
LEMMA DroppedParts ==
  ASSUME NEW i \in Inventories, NEW ks
  PROVE  /\ Dropped(i, ks) \in Inventories
         /\ \A k \in Key : Dropped(i, ks)[k] = IF k \in ks THEN None ELSE i[k]
<1>1. \A k \in Key : Dropped(i, ks)[k] = IF k \in ks THEN None ELSE i[k]
  BY DEF Dropped
<1>2. \A k \in Key : Dropped(i, ks)[k] \in FitRecords \cup {None}
  BY <1>1 DEF Inventories
<1>3. Dropped(i, ks) = [k \in Key |-> Dropped(i, ks)[k]]
  BY DEF Dropped
<1> QED  BY <1>1, <1>2, <1>3 DEF Inventories

LEMMA UndeployedParts ==
  ASSUME HomeTypeInv, NEW hosts
  PROVE  /\ Undeployed(hosts) \in Inventories
         /\ \A k \in Key : Undeployed(hosts)[k] = None <=> inv[k] = None
         /\ \A k \in Key : inv[k] # None => Undeployed(hosts)[k].path = inv[k].path
<1> DEFINE gone(k) == {a \in hosts : IdentityFile(manifest, RefOf(manifest, a)) = inv[k].path}
           j == Undeployed(hosts)
<1>1. inv \in Inventories /\ None \notin FitRecords
  BY HomeAssumption DEF HomeTypeInv, FitRecords
<1>2. ASSUME NEW k \in Key, inv[k] = None
      PROVE  j[k] = None
  BY <1>2 DEF Undeployed
<1>3. ASSUME NEW k \in Key, inv[k] # None
      PROVE  j[k] \in FitRecords /\ j[k].path = inv[k].path
  <2>1. j[k] = [inv[k] EXCEPT !.deployments = inv[k].deployments \ gone(k)]
    BY <1>3 DEF Undeployed
  <2>2. /\ inv[k] \in Records /\ inv[k].path \in Paths /\ inv[k].profile \in Profile
        /\ inv[k].deployments \subseteq Alias
        /\ inv[k].path \notin Loose => inv[k].path[1] = inv[k].profile
    BY <1>1, <1>3, RecordParts
  <2> HIDE DEF gone, j
  <2> QED  BY <2>1, <2>2 DEF FitRecords, Records
<1>4. j = [k \in Key |-> j[k]]
  BY DEF Undeployed
<1> HIDE DEF j
<1>5. j \in Inventories
  BY <1>2, <1>3, <1>4 DEF Inventories
<1> QED  BY <1>1, <1>2, <1>3, <1>5 DEF j

LEMMA PrunedParts ==
  ASSUME NEW i \in Inventories, NEW m, NEW affected, NEW j, j = Pruned(i, m, affected)
  PROVE  /\ j \in Inventories /\ Smaller(j, i)
         /\ \A k \in Key : j[k] # None => j[k] = i[k] /\ j[k].path \notin affected \ Owned(m)
         /\ \A k \in Key : i[k] # None /\ j[k] = None => i[k].path \notin Owned(m)
<1> DEFINE ks == {k \in Key : i[k] # None /\ i[k].path \in affected \ Owned(m)}
<1>1. j = Dropped(i, ks)
  BY DEF Pruned
<1>2. \A k \in Key : k \in ks <=> i[k] # None /\ i[k].path \in affected \ Owned(m)
  OBVIOUS
<1> HIDE DEF ks
<1>3. j \in Inventories /\ \A k \in Key : j[k] = IF k \in ks THEN None ELSE i[k]
  BY <1>1, DroppedParts
<1> QED  BY <1>2, <1>3 DEF Smaller

\* A plan that deletes.
LEMMA RemovalPlan ==
  ASSUME IInv, ~Busy, NEW w, Whole(w), w.op \in {"host delete", "profile delete", "key delete"},
         w.steps \in DeleteLists, w.done = FALSE, w.revoke \in BOOLEAN,
         w.manifest \in GoodManifests, w.inv \in Inventories, w.ask \subseteq Alias \X Key,
         w.failed \subseteq Alias, w.from \in Dirs \cup {None}, w.to = None, w.mint = {},
         w.purge \subseteq Paths, w.edits = {}, w.held = [a \in Alias |-> Uses(a)],
         Smaller(w.inv, inv),
         \A k \in Key : w.inv[k] # None => w.inv[k].path \notin w.purge,
         \A k \in Key : inv[k] # None /\ w.inv[k] = None => inv[k].path \notin Owned(w.manifest),
         w.purge \cap Owned(w.manifest) = {}, AskPlan(w),
         "render" \notin AllOf(w.steps) /\ ~mishap => Follows(w.manifest),
         \A a \in Alias : Declared(w.manifest, a) =>
             Declared(manifest, a) /\ FileOf(w.manifest, a) = FileOf(manifest, a)
  PROVE  PlanFits(w)
<1>1. /\ w.steps \in StepLists /\ w.steps # <<>>
      /\ {"rename", "mint"} \cap AllOf(w.steps) = {}
      /\ {"manifest", "inventory"} \subseteq AllOf(w.steps)
  BY DeleteListParts
<1>2. [a \in Alias |-> Uses(a)] \in [Alias -> Key \cup {None}]
  BY UsesAKey DEF IInv
<1>3. w \in Works
  <2>1. w.op \in Ops
    BY DEF Ops
  <2>2. w.held \in [Alias -> Key \cup {None}] /\ w.done \in BOOLEAN /\ w.to \in Dirs \cup {None}
    BY <1>2
  <2>3. w.manifest \in GoodManifests \cup {None} /\ w.inv \in Inventories \cup {None}
    OBVIOUS
  <2>4. w.mint \subseteq Refs /\ w.edits \subseteq Alias
    OBVIOUS
  <2> QED  BY <1>1, <2>1, <2>2, <2>3, <2>4, WholeIsWork
<1>4. SavesInv(w)
  BY <1>1 DEF SavesInv
<1>5. MovesInv(w)
  BY <1>1 DEF MovesInv
<1>6. ~mishap => ConfigPlan(w)
  BY <1>1 DEF IInv, ConfigInv, ConfigPlan
<1>7. \A a \in Alias : Declared(manifest, a) => w.held[a] = files[FileOf(manifest, a)]
  BY UsesAKey DEF IInv
<1>8. Kept(manifest, w) /\ Kept(w.manifest, w)
  BY <1>7 DEF Kept, FileOf
<1>9. HostsPlan(w)
  BY <1>8 DEF HostsPlan
<1> QED  BY <1>1, <1>3, <1>4, <1>5, <1>6, <1>9 DEF PlanFits

LEMMA HostGone ==
  ASSUME NEW n \in GoodManifests, NEW a \in Alias, NEW m, m = [n EXCEPT !.hosts[a] = None]
  PROVE  /\ m \in Manifests /\ Tidy(m)
         /\ \A b \in Alias : Declared(m, b) => Declared(n, b) /\ RefOf(m, b) = RefOf(n, b)
         /\ \A r \in Refs : IdentityFile(m, r) = IdentityFile(n, r)
<1>1. /\ m \in Manifests /\ m.hosts = [n.hosts EXCEPT ![a] = None] /\ m.scope = n.scope
      /\ m.category = n.category /\ m.keys = n.keys /\ m.rule = n.rule
  BY ManifestParts DEF Manifests
<1>2. m.hosts[a] = None /\ \A b \in Alias \ {a} : m.hosts[b] = n.hosts[b]
  BY <1>1, ManifestParts
<1>3. \A b \in Alias : Declared(m, b) => Declared(n, b) /\ RefOf(m, b) = RefOf(n, b)
  <2> SUFFICES ASSUME NEW b \in Alias, Declared(m, b)
               PROVE  Declared(n, b) /\ RefOf(m, b) = RefOf(n, b)
    OBVIOUS
  <2>1. m.hosts[b] = n.hosts[b]
    BY <1>2 DEF Declared
  <2> QED  BY <1>1, <2>1, SameRef
<1>4. \A q \in Profile : HostsOf(m, q) \subseteq HostsOf(n, q)
  BY <1>2 DEF HostsOf
<1>5. Tidy(m)
  BY <1>1, <1>4, ManifestParts DEF Tidy, Exists, KeySpecFor
<1>6. \A r \in Refs : IdentityFile(m, r) = IdentityFile(n, r)
  BY <1>1 DEF IdentityFile
<1> QED  BY <1>1, <1>3, <1>5, <1>6

LEMMA DeleteHostBegins ==
  ASSUME IInv, AdoptsOutside, NEW a \in Alias, NEW revoke \in BOOLEAN, NEW purge \in BOOLEAN,
         DeleteHost(a, revoke, purge)
  PROVE  Begun
<1> DEFINE m == [manifest EXCEPT !.hosts[a] = None]
           r == RefOf(manifest, a)
           ask == IF revoke THEN Asked({a}) ELSE {}
           s == Steps(ask, Deleted, purge)
           u == Undeployed({a})
           j == Pruned(u, m, {IdentityFile(manifest, r)})
           out == IF purge /\ r \notin KeyRefs(m) THEN KeyFiles({r}) ELSE {}
           w == [Start("host delete", s, m) EXCEPT !.inv = j, !.ask = ask, !.revoke = revoke,
                                                   !.purge = out]
<1>1. Begin(w) /\ Declared(manifest, a)
  BY DEF DeleteHost
<1>2. manifest \in GoodManifests /\ inv \in Inventories /\ ~Busy
  BY <1>1, FreeToBegin DEF IInv, HomeTypeInv
<1>3. m = [manifest EXCEPT !.hosts[a] = None]
  OBVIOUS
<1>4. ask \subseteq Alias \X Key
  BY DEF Asked, Recorded
<1>5. out \subseteq {IdentityFile(manifest, r)} /\ (out # {} => r \notin KeyRefs(m))
  BY DEF KeyFiles
<1>6. s = Steps(ask, Deleted, purge)
  OBVIOUS
<1>7. u \in Inventories /\ (\A k \in Key : u[k] = None <=> inv[k] = None)
      /\ \A k \in Key : inv[k] # None => u[k].path = inv[k].path
  BY UndeployedParts DEF IInv
<1>8. j = Pruned(u, m, {IdentityFile(manifest, r)})
  OBVIOUS
<1>9. w = [Start("host delete", s, m) EXCEPT !.inv = j, !.ask = ask, !.revoke = revoke,
                                             !.purge = out]
  OBVIOUS
<1>10. r \in Refs /\ IdentityFile(manifest, r) \in Paths
  BY <1>1, <1>2, RefOfHost, PathOfRef
<1> HIDE DEF m, r, ask, s, u, j, out, w
<1>11. /\ m \in Manifests /\ Tidy(m)
       /\ \A b \in Alias : Declared(m, b) => Declared(manifest, b) /\ RefOf(m, b) = RefOf(manifest, b)
       /\ \A q \in Refs : IdentityFile(m, q) = IdentityFile(manifest, q)
  BY <1>2, <1>3, HostGone
<1>12. /\ Whole(w) /\ w.op = "host delete" /\ w.steps = s /\ w.manifest = m /\ w.inv = j
       /\ w.done = FALSE /\ w.revoke = revoke /\ w.ask = ask /\ w.failed = {}
       /\ w.from = None /\ w.to = None /\ w.mint = {} /\ w.purge = out /\ w.edits = {}
       /\ w.held = [b \in Alias |-> Uses(b)]
  BY <1>9 DEF Start, Idle, Whole
<1>13. m \in GoodManifests
  BY <1>1, <1>11, <1>12, FreeToBegin DEF GoodManifests
<1>14. s \in DeleteLists /\ "render" \in AllOf(s)
  BY <1>6, LongDeletion, RevokeListed DEF DeleteLists
<1>15. /\ j \in Inventories /\ Smaller(j, u)
       /\ \A k \in Key : j[k] # None => j[k] = u[k] /\ j[k].path \notin {IdentityFile(manifest, r)} \ Owned(m)
       /\ \A k \in Key : u[k] # None /\ j[k] = None => u[k].path \notin Owned(m)
  BY <1>7, <1>8, PrunedParts
<1>16. out \cap Owned(m) = {}
  BY <1>5, <1>10, <1>11, <1>13, NotOwned
<1>17. \A k \in Key : j[k] # None => j[k].path \notin out
  BY <1>5, <1>15, <1>16
<1>18. Smaller(j, inv) /\ \A k \in Key : inv[k] # None /\ j[k] = None => inv[k].path \notin Owned(m)
  BY <1>7, <1>15 DEF Smaller
<1>19. \A b \in Alias : Declared(m, b) => Declared(manifest, b) /\ FileOf(m, b) = FileOf(manifest, b)
  BY <1>2, <1>11, RefOfHost DEF FileOf
<1>20. out \subseteq Paths
  BY <1>5, <1>10
<1>21. AskPlan(w)
  <2>1. "revoke" \notin AllOf(s) => ask = {}
    BY <1>6, <1>14, LongDeletion, RevokeListed
  <2> QED  BY <1>12, <2>1 DEF AskPlan
<1>22. PlanFits(w)
  BY <1>2, <1>4, <1>12, <1>13, <1>14, <1>15, <1>16, <1>17, <1>18, <1>19, <1>20, <1>21, RemovalPlan
<1> QED  BY <1>1, <1>22 DEF Begun

LEMMA ProfileGone ==
  ASSUME NEW n \in GoodManifests, n = manifest, NEW p \in Profile, NEW m, m = WithoutProfile(p)
  PROVE  /\ m \in Manifests /\ Tidy(m)
         /\ \A b \in Alias : Declared(m, b) => Declared(n, b) /\ RefOf(m, b) = RefOf(n, b)
         /\ \A r \in KeyRefs(m) : r \in Refs /\ r[1] # p
         /\ \A r \in Refs : r[1] # p => IdentityFile(m, r) = IdentityFile(n, r)
<1> DEFINE hosts == [a \in Alias |-> IF a \in HostsOf(manifest, p) THEN None ELSE manifest.hosts[a]]
           keys == [r \in Refs |-> IF r[1] = p THEN "no" ELSE manifest.keys[r]]
<1>1. m = [manifest EXCEPT !.scope[p] = "gone", !.category[p] = FirstCategory,
                           !.hosts = hosts, !.keys = keys]
  BY DEF WithoutProfile
<1>2. /\ hosts \in [Alias -> Hosts \cup {None}]
      /\ \A a \in Alias : hosts[a] = IF a \in HostsOf(n, p) THEN None ELSE n.hosts[a]
  BY ManifestParts
<1>3. /\ keys \in [Refs -> {"no", "yes"} \cup Adoptable]
      /\ \A r \in Refs : keys[r] = IF r[1] = p THEN "no" ELSE n.keys[r]
  BY ManifestParts
<1> HIDE DEF hosts, keys
<1>4. /\ m \in Manifests /\ m.hosts = hosts /\ m.keys = keys /\ m.rule = n.rule
      /\ m.scope = [n.scope EXCEPT ![p] = "gone"]
      /\ m.category = [n.category EXCEPT ![p] = FirstCategory]
  <2>1. manifest.scope = n.scope /\ manifest.category = n.category /\ manifest.rule = n.rule
    OBVIOUS
  <2>2. m = [hosts |-> hosts, scope |-> [n.scope EXCEPT ![p] = "gone"],
             category |-> [n.category EXCEPT ![p] = FirstCategory], keys |-> keys, rule |-> n.rule]
    <3>1. n = [hosts |-> n.hosts, scope |-> n.scope, category |-> n.category,
               keys |-> n.keys, rule |-> n.rule]
      BY ManifestParts
    <3>2. m = [n EXCEPT !.scope = [n.scope EXCEPT ![p] = "gone"],
                        !.category = [n.category EXCEPT ![p] = FirstCategory],
                        !.hosts = hosts, !.keys = keys]
      BY <1>1
    <3> QED  BY <3>1, <3>2
  <2>3. [n.scope EXCEPT ![p] = "gone"] \in [Profile -> Name \cup {"gone", "own"}]
    BY ManifestParts
  <2>4. [n.category EXCEPT ![p] = FirstCategory] \in [Profile -> Category]
    BY ManifestParts, EditorAssumption
  <2>5. n.rule \in Rule
    BY ManifestParts
  <2> QED  BY <1>2, <1>3, <2>2, <2>3, <2>4, <2>5 DEF Manifests
<1>5. /\ m.scope[p] = "gone"
      /\ \A q \in Profile \ {p} : m.scope[q] = n.scope[q] /\ m.category[q] = n.category[q]
  BY <1>4, ManifestParts
<1>6. ASSUME NEW b \in Alias, Declared(m, b)
      PROVE  /\ Declared(n, b) /\ m.hosts[b] = n.hosts[b] /\ n.hosts[b].profile \in Profile \ {p}
             /\ RefOf(m, b) = RefOf(n, b)
  <2>1. m.hosts[b] = n.hosts[b] /\ Declared(n, b) /\ b \notin HostsOf(n, p)
    BY <1>2, <1>4, <1>6 DEF Declared
  <2>2. n.hosts[b].profile \in Profile \ {p}
    BY <2>1, HostParts
  <2>3. m.scope[m.hosts[b].profile] = n.scope[m.hosts[b].profile]
    BY <1>5, <2>1, <2>2
  <2>4. RefOf(m, b) = RefOf(n, b)
    BY <1>4, <2>1, <2>3, SameRef
  <2> QED  BY <2>1, <2>2, <2>4
<1>7. Tidy(m)
  <2> SUFFICES ASSUME NEW q \in Profile, ~Exists(m, q)
               PROVE  HostsOf(m, q) = {} /\ \A x \in Name : ~KeySpecFor(m, <<q, x>>)
    BY DEF Tidy
  <2>1. \A x \in Name : <<q, x>> \in Refs /\ <<q, x>>[1] = q
    BY DEF Refs
  <2>2. \A b \in HostsOf(m, q) : b \in HostsOf(n, q) /\ q # p
    BY <1>6 DEF HostsOf, Declared
  <2>3. CASE q = p
    BY <1>3, <1>4, <2>1, <2>2, <2>3 DEF KeySpecFor
  <2>4. CASE q # p
    <3>1. ~Exists(n, q)
      BY <1>5, <2>4 DEF Exists
    <3>2. HostsOf(n, q) = {} /\ \A x \in Name : ~KeySpecFor(n, <<q, x>>)
      BY <3>1, ManifestParts DEF Tidy
    <3>3. \A x \in Name : m.keys[<<q, x>>] = n.keys[<<q, x>>]
      BY <1>3, <1>4, <2>1, <2>4
    <3> QED  BY <2>2, <3>2, <3>3 DEF KeySpecFor
  <2> QED  BY <2>3, <2>4
<1>8. \A r \in KeyRefs(m) : r \in Refs /\ r[1] # p
  <2> SUFFICES ASSUME NEW r \in KeyRefs(m)
               PROVE  r[1] # p
    BY DEF KeyRefs
  <2>1. r \in Refs
    BY DEF KeyRefs
  <2>2. CASE HostsForKey(m, r) # {}
    <3>1. PICK b \in Alias : Declared(m, b) /\ RefOf(m, b) = r
      BY <2>2 DEF HostsForKey
    <3>2. RefOf(n, b) = r /\ Declared(n, b) /\ n.hosts[b].profile # p
      BY <1>6, <3>1
    <3> QED  BY <3>2, RefOfHost
  <2>3. CASE KeySpecFor(m, r)
    BY <1>3, <1>4, <2>1, <2>3 DEF KeySpecFor
  <2> QED  BY <2>1, <2>2, <2>3 DEF KeyRefs
<1>9. \A r \in Refs : r[1] # p => IdentityFile(m, r) = IdentityFile(n, r)
  <2> SUFFICES ASSUME NEW r \in Refs, r[1] # p
               PROVE  IdentityFile(m, r) = IdentityFile(n, r)
    OBVIOUS
  <2>1. r[1] \in Profile
    BY DEF Refs
  <2> QED  BY <1>3, <1>4, <1>5, <2>1 DEF IdentityFile
<1> QED  BY <1>4, <1>6, <1>7, <1>8, <1>9

LEMMA DeleteProfileBegins ==
  ASSUME IInv, AdoptsOutside, NEW p \in Profile, NEW revoke \in BOOLEAN, NEW purge \in BOOLEAN,
         DeleteProfile(p, revoke, purge)
  PROVE  Begun
<1> DEFINE m == WithoutProfile(p)
           refs == {r \in KeyRefs(manifest) : r[1] = p}
           ask == IF revoke THEN Asked(HostsOf(manifest, p)) ELSE {}
           s == Steps(ask, Deleted, purge)
           u == Undeployed(HostsOf(manifest, p))
           paths == {IdentityFile(manifest, r) : r \in refs}
           j == Pruned(u, m, paths)
           from == IF purge THEN ProfileDir(manifest, p) ELSE None
           out == IF purge THEN KeyFiles(refs) ELSE {}
           w == [Start("profile delete", s, m) EXCEPT !.inv = j, !.ask = ask, !.revoke = revoke,
                                                      !.from = from, !.purge = out]
<1>1. Begin(w)
  BY DEF DeleteProfile
<1>2. manifest \in GoodManifests /\ inv \in Inventories /\ ~Busy
  BY <1>1, FreeToBegin DEF IInv, HomeTypeInv
<1>3. m = WithoutProfile(p)
  OBVIOUS
<1>4. ask \subseteq Alias \X Key
  BY DEF Asked, Recorded, HostsOf
<1>5. out \subseteq paths
  BY DEF KeyFiles
<1>6. s = Steps(ask, Deleted, purge)
  OBVIOUS
<1>7. u \in Inventories /\ (\A k \in Key : u[k] = None <=> inv[k] = None)
      /\ \A k \in Key : inv[k] # None => u[k].path = inv[k].path
  BY UndeployedParts DEF IInv
<1>8. j = Pruned(u, m, paths)
  OBVIOUS
<1>9. w = [Start("profile delete", s, m) EXCEPT !.inv = j, !.ask = ask, !.revoke = revoke,
                                                !.from = from, !.purge = out]
  OBVIOUS
<1>10. from \in Dirs \cup {None}
  BY <1>2, ManifestParts DEF ProfileDir, Dirs
<1>11. \A x \in paths : \E r \in Refs : r[1] = p /\ x = IdentityFile(manifest, r)
  BY DEF KeyRefs
<1> HIDE DEF m, refs, ask, s, u, paths, j, from, out, w
<1>12. /\ m \in Manifests /\ Tidy(m)
       /\ \A b \in Alias : Declared(m, b) => Declared(manifest, b) /\ RefOf(m, b) = RefOf(manifest, b)
       /\ \A r \in KeyRefs(m) : r \in Refs /\ r[1] # p
       /\ \A r \in Refs : r[1] # p => IdentityFile(m, r) = IdentityFile(manifest, r)
  BY <1>2, <1>3, ProfileGone
<1>13. /\ Whole(w) /\ w.op = "profile delete" /\ w.steps = s /\ w.manifest = m /\ w.inv = j
       /\ w.done = FALSE /\ w.revoke = revoke /\ w.ask = ask /\ w.failed = {}
       /\ w.from = from /\ w.to = None /\ w.mint = {} /\ w.purge = out /\ w.edits = {}
       /\ w.held = [b \in Alias |-> Uses(b)]
  BY <1>9 DEF Start, Idle, Whole
<1>14. m \in GoodManifests
  BY <1>1, <1>12, <1>13, FreeToBegin DEF GoodManifests
<1>15. s \in DeleteLists /\ "render" \in AllOf(s)
  BY <1>6, LongDeletion, RevokeListed DEF DeleteLists
<1>16. paths \cap Owned(m) = {}
  <2> SUFFICES ASSUME NEW x \in paths, NEW q \in KeyRefs(m), x = IdentityFile(m, q)
               PROVE  FALSE
    BY DEF Owned
  <2>1. PICK r \in Refs : r[1] = p /\ x = IdentityFile(manifest, r)
    BY <1>11
  <2>2. q \in Refs /\ q[1] # p /\ IdentityFile(m, q) = IdentityFile(manifest, q)
    BY <1>12
  <2>3. q = r
    BY <1>2, <2>1, <2>2, OneRefPerPath
  <2> QED  BY <2>1, <2>2, <2>3
<1>17. /\ j \in Inventories /\ Smaller(j, u)
       /\ \A k \in Key : j[k] # None => j[k] = u[k] /\ j[k].path \notin paths \ Owned(m)
       /\ \A k \in Key : u[k] # None /\ j[k] = None => u[k].path \notin Owned(m)
  BY <1>7, <1>8, PrunedParts
<1>18. \A k \in Key : j[k] # None => j[k].path \notin out
  BY <1>5, <1>16, <1>17
<1>19. Smaller(j, inv) /\ \A k \in Key : inv[k] # None /\ j[k] = None => inv[k].path \notin Owned(m)
  BY <1>7, <1>17 DEF Smaller
<1>20. \A b \in Alias : Declared(m, b) => Declared(manifest, b) /\ FileOf(m, b) = FileOf(manifest, b)
  <2> SUFFICES ASSUME NEW b \in Alias, Declared(m, b)
               PROVE  Declared(manifest, b) /\ FileOf(m, b) = FileOf(manifest, b)
    OBVIOUS
  <2>1. RefOf(m, b) \in KeyRefs(m)
    BY <1>14, RefOfHost
  <2> QED  BY <1>12, <2>1 DEF FileOf
<1>21. out \subseteq Paths /\ out \cap Owned(m) = {}
  <2>1. \A x \in paths : x \in Paths
    BY <1>2, <1>11, PathOfRef
  <2> QED  BY <1>5, <1>16, <2>1
<1>22. AskPlan(w)
  <2>1. "revoke" \notin AllOf(s) => ask = {}
    BY <1>6, <1>15, LongDeletion, RevokeListed
  <2> QED  BY <1>13, <2>1 DEF AskPlan
<1>23. PlanFits(w)
  BY <1>2, <1>4, <1>10, <1>13, <1>14, <1>15, <1>17, <1>18, <1>19, <1>20, <1>21, <1>22, RemovalPlan
<1> QED  BY <1>1, <1>23 DEF Begun

LEMMA KeyGone ==
  ASSUME NEW n \in GoodManifests, NEW r \in Refs, HostsForKey(n, r) = {},
         NEW m, m = [n EXCEPT !.keys[r] = "no"]
  PROVE  /\ m \in Manifests /\ Tidy(m) /\ r \notin KeyRefs(m)
         /\ \A b \in Alias : Declared(m, b) <=> Declared(n, b)
         /\ \A b \in Alias : Declared(n, b) => FileOf(m, b) = FileOf(n, b)
         /\ n.keys[r] \notin Adoptable => IdentityFile(m, r) = IdentityFile(n, r)
         /\ n.keys[r] \in Adoptable => IdentityFile(n, r) \in Adoptable
<1>1. /\ m \in Manifests /\ m.keys = [n.keys EXCEPT ![r] = "no"] /\ m.scope = n.scope
      /\ m.category = n.category /\ m.hosts = n.hosts /\ m.rule = n.rule
  BY ManifestParts DEF Manifests
<1>2. m.keys[r] = "no" /\ \A q \in Refs \ {r} : m.keys[q] = n.keys[q]
  BY <1>1, ManifestParts
<1>3. \A q \in Refs : KeySpecFor(m, q) => KeySpecFor(n, q)
  BY <1>2 DEF KeySpecFor
<1>4. Tidy(m)
  <2>1. \A q \in Profile : HostsOf(m, q) = HostsOf(n, q) /\ (Exists(m, q) <=> Exists(n, q))
    BY <1>1 DEF HostsOf, Exists
  <2>2. \A q \in Profile, x \in Name : <<q, x>> \in Refs
    BY DEF Refs
  <2> QED  BY <1>3, <2>1, <2>2, ManifestParts DEF Tidy
<1>5. \A b \in Alias : RefOf(m, b) = RefOf(n, b) /\ (Declared(m, b) <=> Declared(n, b))
  BY <1>1, SameRef
<1>6. HostsForKey(m, r) = {}
  BY <1>5 DEF HostsForKey
<1>7. r \notin KeyRefs(m)
  BY <1>2, <1>6 DEF KeyRefs, KeySpecFor
<1>8. ASSUME NEW b \in Alias, Declared(n, b)
      PROVE  FileOf(m, b) = FileOf(n, b)
  <2>1. RefOf(n, b) \in Refs /\ RefOf(n, b) # r
    BY <1>8, RefOfHost
  <2> QED  BY <1>1, <1>2, <1>5, <2>1 DEF FileOf, IdentityFile
<1>9. n.keys[r] \notin Adoptable => n.keys[r] \in {"no", "yes"}
  BY ManifestParts
<1>10. n.keys[r] \in Adoptable => n.keys[r] \notin {"no", "yes"}
  BY EditorAssumption
<1> QED  BY <1>1, <1>2, <1>4, <1>5, <1>7, <1>8, <1>9, <1>10 DEF IdentityFile

LEMMA DeleteKeyBegins ==
  ASSUME IInv, AdoptsOutside, NEW r \in Refs, NEW revoke \in BOOLEAN, NEW purge \in BOOLEAN,
         DeleteKey(r, revoke, purge)
  PROVE  Begun
<1> DEFINE m == [manifest EXCEPT !.keys[r] = "no"]
           path == IdentityFile(m, r)
           gone == RecordedAt(inv, path)
           deployed == {x \in Alias \X gone : x[1] \in inv[x[2]].deployments}
           ask == IF revoke THEN {x \in deployed : Declared(manifest, x[1])} ELSE {}
           s == Steps(ask, <<"manifest", "inventory">>, purge)
           j == Dropped(inv, gone)
           failed == IF revoke THEN NotAsked(deployed, ask) ELSE {}
           from == IF purge THEN ProfileDir(manifest, r[1]) ELSE None
           out == IF purge THEN KeyFiles({r}) ELSE {}
           w == [Start("key delete", s, m)
                    EXCEPT !.inv = j, !.ask = ask, !.revoke = revoke, !.failed = failed,
                           !.from = from, !.purge = out]
<1>1. Begin(w) /\ HostsForKey(manifest, r) = {}
  BY DEF DeleteKey
<1>2. manifest \in GoodManifests /\ inv \in Inventories /\ ~Busy
  BY <1>1, FreeToBegin DEF IInv, HomeTypeInv
<1>3. m = [manifest EXCEPT !.keys[r] = "no"]
  OBVIOUS
<1>4. ask \subseteq Alias \X Key /\ failed \subseteq Alias
  BY DEF RecordedAt, NotAsked
<1>5. out \subseteq {IdentityFile(manifest, r)} \ Adoptable
  BY DEF KeyFiles
<1>6. s = Steps(ask, <<"manifest", "inventory">>, purge)
  OBVIOUS
<1>7. \A k \in Key : k \in gone <=> inv[k] # None /\ inv[k].path = path
  BY DEF RecordedAt
<1>8. j = Dropped(inv, gone)
  OBVIOUS
<1>9. w = [Start("key delete", s, m)
              EXCEPT !.inv = j, !.ask = ask, !.revoke = revoke, !.failed = failed,
                     !.from = from, !.purge = out]
  OBVIOUS
<1>10. from \in Dirs \cup {None}
  <2>1. r[1] \in Profile
    BY DEF Refs
  <2> QED  BY <1>2, <2>1, ManifestParts DEF ProfileDir, Dirs
<1>11. path = IdentityFile(m, r)
  OBVIOUS
<1>12. ASSUME revoke, NEW k \in gone, NEW a \in Alias, a \in inv[k].deployments
       PROVE  <<a, k>> \in ask \/ a \in failed
  <2>1. <<a, k>> \in deployed
    BY <1>12
  <2>2. <<a, k>>[1] = a
    OBVIOUS
  <2> HIDE DEF deployed
  <2> QED  BY <1>12, <2>1, <2>2 DEF NotAsked
<1> HIDE DEF m, path, gone, deployed, ask, s, j, failed, from, out, w
<1>13. /\ m \in Manifests /\ Tidy(m) /\ r \notin KeyRefs(m)
       /\ \A b \in Alias : Declared(m, b) <=> Declared(manifest, b)
       /\ \A b \in Alias : Declared(manifest, b) => FileOf(m, b) = FileOf(manifest, b)
       /\ manifest.keys[r] \notin Adoptable => IdentityFile(m, r) = IdentityFile(manifest, r)
       /\ manifest.keys[r] \in Adoptable => IdentityFile(manifest, r) \in Adoptable
  BY <1>1, <1>2, <1>3, KeyGone
<1>14. /\ Whole(w) /\ w.op = "key delete" /\ w.steps = s /\ w.manifest = m /\ w.inv = j
       /\ w.done = FALSE /\ w.revoke = revoke /\ w.ask = ask /\ w.failed = failed
       /\ w.from = from /\ w.to = None /\ w.mint = {} /\ w.purge = out /\ w.edits = {}
       /\ w.held = [b \in Alias |-> Uses(b)]
  BY <1>9 DEF Start, Idle, Whole
<1>15. m \in GoodManifests
  BY <1>1, <1>13, <1>14, FreeToBegin DEF GoodManifests
<1>16. s \in DeleteLists
  BY <1>6, ShortDeletion
<1>17. path \notin Owned(m) /\ out \subseteq {path} /\ path \in Paths
  <2>1. path \notin Owned(m)
    BY <1>11, <1>13, <1>15, NotOwned
  <2>2. out \subseteq {path}
    BY <1>5, <1>11, <1>13
  <2> QED  BY <1>11, <1>15, <2>1, <2>2, PathOfRef
<1>18. j \in Inventories /\ \A k \in Key : j[k] = IF k \in gone THEN None ELSE inv[k]
  BY <1>2, <1>8, DroppedParts
<1>19. /\ Smaller(j, inv)
       /\ \A k \in Key : j[k] # None => j[k].path \notin out
       /\ \A k \in Key : inv[k] # None /\ j[k] = None => inv[k].path \notin Owned(m)
  BY <1>7, <1>17, <1>18 DEF Smaller
<1>20. \A b \in Alias : Declared(m, b) => Declared(manifest, b) /\ FileOf(m, b) = FileOf(manifest, b)
  BY <1>13
<1>21. Rendered(m) = Rendered(manifest)
  BY <1>13 DEF Rendered, FileOf
<1>22. ~mishap => Follows(m)
  BY <1>2, <1>21 DEF IInv, ConfigInv, Follows
<1>23. out \subseteq Paths /\ out \cap Owned(m) = {}
  BY <1>17
<1>24. AskPlan(w)
  <2>1. "revoke" \notin AllOf(s) => ask = {}
    BY <1>6, <1>16, ShortDeletion, RevokeListed
  <2>2. ASSUME revoke, NEW k \in Key, inv[k] # None, j[k] = None, NEW a \in inv[k].deployments
        PROVE  a \in failed \/ <<a, k>> \in ask
    <3>1. k \in gone /\ a \in Alias
      BY <1>2, <1>18, <2>2, RecordParts
    <3> QED  BY <1>12, <2>2, <3>1
  <2> QED  BY <1>14, <2>1, <2>2 DEF AskPlan
<1>25. PlanFits(w)
  BY <1>2, <1>4, <1>10, <1>14, <1>15, <1>16, <1>18, <1>19, <1>20, <1>22, <1>23, <1>24, RemovalPlan
<1> QED  BY <1>1, <1>25 DEF Begun

-----------------------------------------------------------------------------
(***************************************************************************)
(* The steps keep to the plan                                              *)
(***************************************************************************)

LEMMA BeginStep ==
  ASSUME IInv, NEW w, Begin(w), PlanFits(w)
  PROVE  IInv'
<1>1. /\ work' = w /\ manifest' = manifest /\ inv' = inv /\ files' = files /\ dirs' = dirs
      /\ trusts' = trusts /\ config' = config /\ pins' = pins /\ mishap' = mishap
  BY DEF Begin, diskVars, outsideVars
<1>2. /\ w \in Works /\ w.steps # <<>> /\ ~w.done
      /\ w.manifest \in GoodManifests /\ w.inv \in Inventories
      /\ SavesInv(w) /\ MovesInv(w) /\ AskPlan(w)
      /\ ~mishap => ConfigPlan(w) /\ HostsPlan(w)
  BY DEF PlanFits
<1>3. ~Busy /\ Busy'
  BY <1>1, <1>2, FreeToBegin DEF Busy
<1>4. HomeTypeInv' /\ TreeInv'
  BY <1>1 DEF IInv, HomeTypeInv, TreeInv
<1>5. WorkInv'
  BY <1>1, <1>2, <1>3 DEF WorkInv, SavesInv, MovesInv
<1>6. ConfigInv'
  BY <1>1, <1>2, <1>3 DEF ConfigInv, ConfigPlan, Follows
<1>7. HostsInv'
  BY <1>1, <1>2, <1>3 DEF HostsInv, HostsPlan, Kept
<1>8. RecordsInv'
  BY <1>1, <1>2, <1>3 DEF IInv, RecordsInv, RecordsPlan, Moved, InPlace
<1>9. AskInv'
  BY <1>1, <1>2 DEF AskInv, AskPlan
<1> QED  BY <1>4, <1>5, <1>6, <1>7, <1>8, <1>9 DEF IInv

LEMMA IdleIsWork == Idle \in Works /\ Idle.steps = <<>> /\ ~Idle.done
<1> DEFINE held == [a \in Alias |-> None]
<1>1. held \in [Alias -> Key \cup {None}]
  OBVIOUS
<1>2. "none" \in Ops /\ <<>> \in StepLists
  BY DEF Ops, StepLists
<1>3. Idle = [op |-> "none", steps |-> <<>>, done |-> FALSE, manifest |-> None, inv |-> None,
              ask |-> {}, failed |-> {}, from |-> None, to |-> None,
              mint |-> {}, purge |-> {}, revoke |-> FALSE, edits |-> {}, held |-> held]
  BY DEF Idle
<1> HIDE DEF held
<1> QED  BY <1>1, <1>2, <1>3 DEF Works

\* What a command has worked out stays, but for what it has done of it.
Going(v, w) ==
    /\ v.op = w.op /\ v.manifest = w.manifest /\ v.inv = w.inv
    /\ v.from = w.from /\ v.to = w.to /\ v.edits = w.edits /\ v.held = w.held
    /\ v.purge \subseteq w.purge /\ (w.done => v.done)
    /\ v.ask \subseteq w.ask /\ w.failed \subseteq v.failed /\ v.revoke = w.revoke

LEMMA Advanced ==
  ASSUME WorkInv, Busy, NEW w \in Works, w.steps = work.steps, Advance(w)
  PROVE  /\ work' \in Works
         /\ \/ ~Busy' /\ work' = Idle /\ Ahead = {Head(work.steps)}
            \/ /\ Busy' /\ AllOf(work'.steps) = Ahead \ {Head(work.steps)}
               /\ Going(work', w) /\ work'.done
<1>1. work.steps \in StepLists /\ work.steps # <<>>
  BY DEF WorkInv, Works, Busy
<1>2. /\ Tail(work.steps) \in StepLists
      /\ Head(work.steps) \in Ahead /\ AllOf(Tail(work.steps)) = Ahead \ {Head(work.steps)}
      /\ Len(work.steps) = 1 <=> Tail(work.steps) = <<>>
  BY <1>1, FirstStep DEF Ahead
<1>3. CASE Len(work.steps) = 1
  <2>1. work' = Idle /\ Tail(work.steps) = <<>>
    BY <1>2, <1>3 DEF Advance
  <2>2. Ahead = {Head(work.steps)}
    BY <1>2, <2>1, NoStep
  <2> QED  BY <2>1, <2>2, IdleIsWork DEF Busy
<1>4. CASE Len(work.steps) # 1
  <2>1. work' = [w EXCEPT !.steps = Tail(work.steps), !.done = TRUE]
    BY <1>4 DEF Advance
  <2> DEFINE rest == Tail(work.steps)
  <2>2. rest \in StepLists /\ rest # <<>> /\ work' = [w EXCEPT !.steps = rest, !.done = TRUE]
    BY <1>2, <1>4, <2>1
  <2>3. AllOf(rest) = Ahead \ {Head(work.steps)}
    BY <1>2
  <2> HIDE DEF rest
  <2>4. work' \in Works /\ work'.steps = rest /\ work'.done = TRUE
    BY <2>2 DEF Works
  <2>5. Going(work', w)
    BY <2>2, <2>4 DEF Going, Works
  <2> QED  BY <2>2, <2>3, <2>4, <2>5 DEF Busy
<1> QED  BY <1>3, <1>4

LEMMA SameWork ==
  ASSUME WorkInv, Busy
  PROVE  /\ work \in Works /\ work.steps \in StepLists /\ work.steps # <<>>
         /\ Going(work, work) /\ work.op \in Ops
         /\ work.manifest \in GoodManifests /\ work.inv \in Inventories
         /\ SavesInv(work) /\ MovesInv(work)
BY DEF WorkInv, Works, Busy, Going

\* Which key each host ends up with.
Ends ==
    Busy /\ ~Busy' /\ ~mishap' =>
        \A a \in Alias \ work.edits :
            work.held[a] # None /\ Declared(manifest', a) =>
                files'[IdentityFile(manifest', RefOf(manifest', a))] = work.held[a]

LEMMA SaveManifestStep ==
  ASSUME IInv, SaveManifest
  PROVE  IInv' /\ Ends
<1>1. /\ manifest' = work.manifest /\ inv' = inv /\ files' = files /\ dirs' = dirs
      /\ trusts' = trusts /\ config' = config /\ pins' = pins /\ mishap' = mishap
      /\ Busy /\ Head(work.steps) = "manifest" /\ Advance(work)
  BY DEF SaveManifest, Doing, Busy, diskVars, outsideVars
<1>2. /\ work \in Works /\ work.steps \in StepLists /\ work.steps # <<>>
      /\ work.manifest \in GoodManifests /\ work.inv \in Inventories
      /\ SavesInv(work) /\ MovesInv(work)
  BY <1>1, SameWork DEF IInv
<1>3. "manifest" \in Ahead /\ "rename" \notin Ahead /\ "revoke" \notin Ahead
  BY <1>1, <1>2, StepOrder, FirstStep DEF Ahead
<1>4. /\ work' \in Works
      /\ \/ ~Busy' /\ work' = Idle /\ Ahead = {"manifest"}
         \/ /\ Busy' /\ AllOf(work'.steps) = Ahead \ {"manifest"}
            /\ Going(work', work) /\ work'.done
  BY <1>1, <1>2, Advanced DEF IInv
<1>5. HomeTypeInv' /\ TreeInv'
  BY <1>1, <1>2 DEF IInv, HomeTypeInv, TreeInv
<1>6. WorkInv'
  <2>1. CASE ~Busy'
    BY <1>4, <2>1, IdleIsWork DEF WorkInv
  <2>2. CASE Busy'
    <3>1. SavesInv(work)'
      BY <1>1, <1>2, <1>4, <2>2 DEF SavesInv, Ahead, Going
    <3>2. MovesInv(work)'
      BY <1>1, <1>2, <1>3, <1>4, <2>2 DEF MovesInv, Ahead, Going
    <3> QED  BY <1>2, <1>4, <2>2, <3>1, <3>2 DEF WorkInv, Going
  <2> QED  BY <2>1, <2>2
<1>7. ConfigInv'
  <2> SUFFICES ASSUME ~mishap
               PROVE  IF Busy' THEN ConfigPlan(work)' ELSE Follows(manifest)'
    BY <1>1 DEF ConfigInv
  <2>1. ConfigPlan(work)
    BY <1>1 DEF IInv, ConfigInv
  <2> QED  BY <1>1, <1>4, <2>1 DEF ConfigPlan, Follows, Ahead, Going
<1>8. HostsInv' /\ Ends
  <2>1. ~mishap => Kept(work.manifest, work)
    BY <1>1, <1>3 DEF IInv, HostsInv, HostsPlan, Ahead
  <2>2. HostsInv'
    BY <1>1, <1>4, <2>1 DEF HostsInv, HostsPlan, Kept, Going
  <2> QED  BY <1>1, <2>1, <2>2 DEF Ends, Kept
<1>9. RecordsInv'
  <2> SUFFICES ASSUME ~mishap
               PROVE  IF Busy' THEN RecordsPlan(work)' ELSE InPlace(inv)'
    BY <1>1 DEF RecordsInv
  <2>1. RecordsPlan(work)
    BY <1>1 DEF IInv, RecordsInv
  <2>2. "inventory" \notin Ahead => InPlace(inv)
    BY <1>2, <1>3, <2>1 DEF RecordsPlan, MovesInv, Moved, Ahead
  <2>3. work.op # "category" => InPlace(inv)
    BY <2>1 DEF RecordsPlan, Moved
  <2>4. work.op = "category" => InPlace(work.inv)
    <3>1. CASE Moved(work)
      BY <1>3, <2>1, <3>1 DEF RecordsPlan, Ahead
    <3>2. CASE work.op = "category" /\ ~work.done
      <4>1. InPlace(inv)
        BY <2>1, <3>2 DEF RecordsPlan, Moved
      <4>2. /\ work.from \in Dirs /\ work.to \in Dirs /\ work.from[1] = work.to[1]
            /\ work.inv = Repointed(inv, work.from, work.to) /\ work.from \notin dirs
        BY <1>2, <1>3, <3>2 DEF MovesInv, Ahead
      <4>3. inv \in Inventories /\ files \in [Paths -> Key \cup {None}]
        BY DEF IInv, HomeTypeInv
      <4> DEFINE i == Repointed(inv, work.from, work.to)
      <4>4. /\ \A k \in Key : i[k] = None <=> inv[k] = None
            /\ \A k \in Key : inv[k] # None =>
                  i[k].path = IF inv[k].path \notin Loose /\ DirOf(inv[k].path) = work.from
                              THEN Under(work.to, inv[k].path) ELSE inv[k].path
        BY <4>2, <4>3, RepointedParts
      <4>5. work.inv = i
        BY <4>2
      <4> HIDE DEF i
      <4>6. ASSUME NEW k \in Key, work.inv[k] # None
            PROVE  files[work.inv[k].path] = k
        <5>1. inv[k] # None /\ inv[k].path \in Paths /\ files[inv[k].path] = k
          BY <4>1, <4>3, <4>6, <4>4, <4>5, RecordParts DEF InPlace
        <5>2. files[inv[k].path] # None
          BY <5>1, EditorAssumption
        <5>3. ~(inv[k].path \notin Loose /\ DirOf(inv[k].path) = work.from)
          BY <4>2, <5>1, <5>2 DEF IInv, TreeInv
        <5>4. work.inv[k].path = inv[k].path
          BY <4>4, <4>5, <5>1, <5>3
        <5> QED  BY <5>1, <5>4
      <4> QED  BY <4>6 DEF InPlace
    <3> QED  BY <3>1, <3>2 DEF Moved
  <2>5. CASE ~Busy'
    BY <1>1, <1>4, <2>2, <2>5 DEF InPlace, Ahead
  <2>6. CASE Busy'
    <3>1. "manifest" \notin AllOf(work'.steps) /\ ("inventory" \in AllOf(work'.steps) <=> "inventory" \in Ahead)
      BY <1>4, <2>6
    <3>2. work'.op = work.op /\ work'.inv = work.inv
      BY <1>4, <2>6 DEF Going
    <3>3. "inventory" \notin AllOf(work'.steps) => InPlace(inv)'
      BY <1>1, <2>2, <3>1 DEF InPlace
    <3>4. work'.op # "category" => InPlace(inv)'
      BY <1>1, <2>3, <3>2 DEF InPlace
    <3>5. work'.op = "category" => InPlace(work.inv)'
      BY <1>1, <2>4, <3>2 DEF InPlace
    <3>6. work'.op = "category" => Moved(work)'
      BY <1>4, <2>6 DEF Moved
    <3> QED  BY <2>6, <3>1, <3>3, <3>4, <3>5, <3>6 DEF RecordsPlan, Moved
  <2> QED  BY <2>5, <2>6
<1>10. AskInv'
  BY <1>1, <1>3, <1>4 DEF IInv, AskInv, AskPlan, Going, Ahead
<1> QED  BY <1>5, <1>6, <1>7, <1>8, <1>9, <1>10 DEF IInv

\* The steps that follow the manifest's have these in common.
LateSteps == {"inventory", "render", "mint", "pins", "purge"}

LEMMA Late ==
  ASSUME IInv, Busy, Head(work.steps) \in LateSteps
  PROVE  /\ {"manifest", "rename", "revoke"} \cap Ahead = {}
         /\ Head(work.steps) # "inventory" => "inventory" \notin Ahead
         /\ Head(work.steps) \in Ahead
         /\ work.manifest = manifest /\ manifest \in GoodManifests
         /\ ~mishap => Kept(manifest, work)
         /\ ~mishap /\ "render" \notin Ahead => Follows(manifest)
         /\ ~mishap /\ "inventory" \notin Ahead => InPlace(inv)
<1>1. /\ work.steps \in StepLists /\ work.steps # <<>> /\ SavesInv(work)
  BY SameWork DEF IInv
<1>2. /\ {"manifest", "rename", "revoke"} \cap Ahead = {}
      /\ Head(work.steps) # "inventory" => "inventory" \notin Ahead
      /\ Head(work.steps) \in Ahead
  BY <1>1, StepOrder, FirstStep DEF LateSteps, Ahead
<1>3. work.manifest = manifest
  BY <1>1, <1>2 DEF SavesInv, Ahead
<1>4. ~mishap => Kept(manifest, work)
  BY <1>2, <1>3 DEF IInv, HostsInv, HostsPlan, Ahead
<1>5. ~mishap /\ "render" \notin Ahead => Follows(manifest)
  BY <1>3 DEF IInv, ConfigInv, ConfigPlan, Ahead
<1>6. ~mishap /\ "inventory" \notin Ahead => InPlace(inv)
  BY <1>2 DEF IInv, RecordsInv, RecordsPlan, Ahead
<1> QED  BY <1>2, <1>3, <1>4, <1>5, <1>6 DEF IInv, HomeTypeInv

LEMMA LateStep ==
  ASSUME IInv, Busy, Head(work.steps) \in LateSteps,
         manifest' = manifest, mishap' = mishap, work' \in Works,
         \/ ~Busy' /\ work' = Idle /\ Ahead = {Head(work.steps)}
         \/ /\ Busy' /\ Going(work', work)
            /\ \/ AllOf(work'.steps) = Ahead \ {Head(work.steps)}
               \/ AllOf(work'.steps) = Ahead /\ Head(work.steps) \in {"mint", "purge"},
         Head(work.steps) # "render" => config' = config,
         Head(work.steps) = "render" => config' = Rendered(manifest),
         "purge" \in Ahead => \A k \in Key : inv'[k] # None => inv'[k].path \notin work.purge,
         ~mishap => InPlace(inv)',
         ~mishap => \A a \in Alias \ work.edits :
             work.held[a] # None /\ Declared(manifest, a) =>
                 files'[IdentityFile(manifest, RefOf(manifest, a))] = work.held[a]
  PROVE  WorkInv' /\ ConfigInv' /\ RecordsInv' /\ HostsInv' /\ AskInv' /\ Ends
<1>1. /\ {"manifest", "rename", "revoke"} \cap Ahead = {}
      /\ Head(work.steps) # "inventory" => "inventory" \notin Ahead
      /\ Head(work.steps) \in Ahead
      /\ work.manifest = manifest
      /\ ~mishap /\ "render" \notin Ahead => Follows(manifest)
  BY Late
<1>2. /\ work.manifest \in GoodManifests /\ work.inv \in Inventories
      /\ SavesInv(work) /\ MovesInv(work)
  BY SameWork DEF IInv
<1>3. CASE ~Busy'
  <2>1. WorkInv'
    BY <1>3, IdleIsWork DEF WorkInv
  <2>2. ConfigInv'
    BY <1>1, <1>3 DEF ConfigInv, Follows
  <2>3. RecordsInv' /\ HostsInv' /\ AskInv' /\ Ends
    BY <1>1, <1>3 DEF IInv, RecordsInv, HostsInv, AskInv, AskPlan, Ends
  <2> QED  BY <2>1, <2>2, <2>3
<1>4. CASE Busy'
  <2>1. /\ Going(work', work) /\ AllOf(work'.steps) \subseteq Ahead
        /\ "inventory" \notin AllOf(work'.steps) /\ "manifest" \notin AllOf(work'.steps)
        /\ "rename" \notin AllOf(work'.steps)
        /\ Head(work.steps) # "render" => ("render" \in AllOf(work'.steps) <=> "render" \in Ahead)
    BY <1>1, <1>4 DEF LateSteps
  <2>2. SavesInv(work)'
    BY <1>1, <1>2, <2>1 DEF SavesInv, Going, Ahead
  <2>3. MovesInv(work)'
    BY <1>1, <1>2, <2>1 DEF MovesInv, Going, Ahead
  <2>4. WorkInv'
    BY <1>2, <1>4, <2>1, <2>2, <2>3 DEF WorkInv, Going
  <2>5. ConfigInv'
    <3> SUFFICES ASSUME ~mishap
                 PROVE  ConfigPlan(work)'
      BY <1>4 DEF ConfigInv
    <3>1. ~work.done /\ "manifest" \notin Ahead => Follows(manifest)
      BY DEF IInv, ConfigInv, ConfigPlan, Ahead
    <3>2. CASE Head(work.steps) = "render"
      BY <1>1, <2>1, <3>2 DEF ConfigPlan, Follows, Going
    <3>3. CASE Head(work.steps) # "render"
      BY <1>1, <2>1, <3>1, <3>3 DEF ConfigPlan, Follows, Going
    <3> QED  BY <3>2, <3>3
  <2>6. RecordsInv'
    BY <1>4, <2>1 DEF RecordsInv, RecordsPlan
  <2>7. HostsInv'
    BY <1>1, <1>4, <2>1 DEF HostsInv, HostsPlan, Kept, Going
  <2>8. AskInv'
    BY <1>1, <2>1 DEF IInv, AskInv, AskPlan, Going, Ahead
  <2> QED  BY <1>4, <2>4, <2>5, <2>6, <2>7, <2>8 DEF Ends
<1> QED  BY <1>3, <1>4

LEMMA SaveInventoryStep ==
  ASSUME IInv, SaveInventory
  PROVE  IInv' /\ Ends
<1>1. /\ manifest' = manifest /\ inv' = work.inv /\ files' = files /\ dirs' = dirs
      /\ trusts' = trusts /\ config' = config /\ pins' = pins /\ mishap' = mishap
      /\ Busy /\ Head(work.steps) = "inventory" /\ Advance(work)
  BY DEF SaveInventory, Doing, Busy, diskVars, outsideVars
<1>2. /\ work \in Works /\ work.inv \in Inventories /\ SavesInv(work) /\ MovesInv(work)
      /\ Going(work, work)
  BY <1>1, SameWork DEF IInv
<1>3. /\ {"manifest", "rename", "revoke"} \cap Ahead = {} /\ "inventory" \in Ahead
      /\ ~mishap => Kept(manifest, work)
  BY <1>1, Late DEF LateSteps
<1>4. /\ work' \in Works
      /\ \/ ~Busy' /\ work' = Idle /\ Ahead = {Head(work.steps)}
         \/ Busy' /\ Going(work', work) /\ AllOf(work'.steps) = Ahead \ {Head(work.steps)}
  BY <1>1, <1>2, Advanced DEF IInv
<1>5. HomeTypeInv' /\ TreeInv'
  BY <1>1, <1>2 DEF IInv, HomeTypeInv, TreeInv
<1>6. "purge" \in Ahead => \A k \in Key : inv'[k] # None => inv'[k].path \notin work.purge
  BY <1>1, <1>2, <1>3 DEF SavesInv, MovesInv, Ahead
<1>7. ~mishap => InPlace(inv)'
  <2> SUFFICES ASSUME ~mishap
               PROVE  InPlace(inv)'
    OBVIOUS
  <2>1. RecordsPlan(work)
    BY <1>1 DEF IInv, RecordsInv
  <2>2. CASE work.op = "category"
    <3>1. work.done
      BY <1>2, <1>3, <2>2 DEF MovesInv, Ahead
    <3>2. InPlace(work.inv)
      BY <1>3, <2>1, <2>2, <3>1 DEF RecordsPlan, Moved, Ahead
    <3> QED  BY <1>1, <3>2 DEF InPlace
  <2>3. CASE work.op # "category"
    <3>1. InPlace(inv) /\ Smaller(work.inv, inv)
      BY <1>2, <1>3, <2>1, <2>3 DEF RecordsPlan, Moved, SavesInv, Ahead
    <3> QED  BY <1>1, <3>1 DEF InPlace, Smaller
  <2> QED  BY <2>2, <2>3
<1>8. ~mishap => \A a \in Alias \ work.edits :
          work.held[a] # None /\ Declared(manifest, a) =>
              files'[IdentityFile(manifest, RefOf(manifest, a))] = work.held[a]
  BY <1>1, <1>3 DEF Kept
<1>9. WorkInv' /\ ConfigInv' /\ RecordsInv' /\ HostsInv' /\ AskInv' /\ Ends
  BY <1>1, <1>4, <1>6, <1>7, <1>8, LateStep DEF LateSteps
<1> QED  BY <1>5, <1>9 DEF IInv

LEMMA RenderConfigStep ==
  ASSUME IInv, RenderConfig
  PROVE  IInv' /\ Ends
<1>1. /\ manifest' = manifest /\ inv' = inv /\ files' = files /\ dirs' = dirs
      /\ trusts' = trusts /\ config' = Rendered(manifest) /\ pins' = pins /\ mishap' = mishap
      /\ Busy /\ Head(work.steps) = "render" /\ Advance(work)
  BY DEF RenderConfig, Doing, Busy, diskVars
<1>2. work \in Works /\ SavesInv(work) /\ Going(work, work)
  BY <1>1, SameWork DEF IInv
<1>3. /\ "inventory" \notin Ahead /\ manifest \in GoodManifests
      /\ ~mishap => Kept(manifest, work) /\ InPlace(inv)
  BY <1>1, Late DEF LateSteps
<1>4. /\ work' \in Works
      /\ \/ ~Busy' /\ work' = Idle /\ Ahead = {Head(work.steps)}
         \/ Busy' /\ Going(work', work) /\ AllOf(work'.steps) = Ahead \ {Head(work.steps)}
  BY <1>1, <1>2, Advanced DEF IInv
<1>5. HomeTypeInv' /\ TreeInv'
  BY <1>1, <1>3, OwnedPaths DEF IInv, HomeTypeInv, TreeInv
<1>6. "purge" \in Ahead => \A k \in Key : inv'[k] # None => inv'[k].path \notin work.purge
  BY <1>1, <1>2, <1>3 DEF SavesInv, Ahead
<1>7. ~mishap => InPlace(inv)'
  BY <1>1, <1>3 DEF InPlace
<1>8. ~mishap => \A a \in Alias \ work.edits :
          work.held[a] # None /\ Declared(manifest, a) =>
              files'[IdentityFile(manifest, RefOf(manifest, a))] = work.held[a]
  BY <1>1, <1>3 DEF Kept
<1>9. WorkInv' /\ ConfigInv' /\ RecordsInv' /\ HostsInv' /\ AskInv' /\ Ends
  BY <1>1, <1>4, <1>6, <1>7, <1>8, LateStep DEF LateSteps
<1> QED  BY <1>5, <1>9 DEF IInv

LEMMA PruneStep ==
  ASSUME IInv, Prune
  PROVE  IInv' /\ Ends
<1>1. /\ manifest' = manifest /\ inv' = inv /\ files' = files /\ dirs' = dirs
      /\ trusts' = trusts /\ config' = config /\ pins' \subseteq pins /\ mishap' = mishap
      /\ Busy /\ Head(work.steps) = "pins" /\ Advance(work)
  BY DEF Prune, Doing, Busy, diskVars
<1>2. work \in Works /\ SavesInv(work) /\ Going(work, work)
  BY <1>1, SameWork DEF IInv
<1>3. /\ "inventory" \notin Ahead
      /\ ~mishap => Kept(manifest, work) /\ InPlace(inv)
  BY <1>1, Late DEF LateSteps
<1>4. /\ work' \in Works
      /\ \/ ~Busy' /\ work' = Idle /\ Ahead = {Head(work.steps)}
         \/ Busy' /\ Going(work', work) /\ AllOf(work'.steps) = Ahead \ {Head(work.steps)}
  BY <1>1, <1>2, Advanced DEF IInv
<1>5. HomeTypeInv' /\ TreeInv'
  BY <1>1 DEF IInv, HomeTypeInv, TreeInv
<1>6. "purge" \in Ahead => \A k \in Key : inv'[k] # None => inv'[k].path \notin work.purge
  BY <1>1, <1>2, <1>3 DEF SavesInv, Ahead
<1>7. ~mishap => InPlace(inv)'
  BY <1>1, <1>3 DEF InPlace
<1>8. ~mishap => \A a \in Alias \ work.edits :
          work.held[a] # None /\ Declared(manifest, a) =>
              files'[IdentityFile(manifest, RefOf(manifest, a))] = work.held[a]
  BY <1>1, <1>3 DEF Kept
<1>9. WorkInv' /\ ConfigInv' /\ RecordsInv' /\ HostsInv' /\ AskInv' /\ Ends
  BY <1>1, <1>4, <1>6, <1>7, <1>8, LateStep DEF LateSteps
<1> QED  BY <1>5, <1>9 DEF IInv

LEMMA RemoveFileStep ==
  ASSUME IInv, NEW path \in Paths, RemoveFile(path)
  PROVE  IInv' /\ Ends
<1>1. /\ manifest' = manifest /\ inv' = inv /\ files' = [files EXCEPT ![path] = None] /\ dirs' = dirs
      /\ trusts' = trusts /\ config' = config /\ pins' = pins /\ mishap' = mishap
      /\ Busy /\ Head(work.steps) = "purge" /\ path \in work.purge
      /\ work' = [work EXCEPT !.purge = @ \ {path}]
  BY DEF RemoveFile, Doing, Busy, outsideVars
<1>2. work \in Works /\ SavesInv(work)
  BY <1>1, SameWork DEF IInv
<1>3. /\ "inventory" \notin Ahead /\ "purge" \in Ahead /\ manifest \in GoodManifests
      /\ work.manifest = manifest
      /\ ~mishap => Kept(manifest, work) /\ InPlace(inv)
  BY <1>1, Late DEF LateSteps
<1>4. /\ work' \in Works /\ Busy' /\ Going(work', work) /\ AllOf(work'.steps) = Ahead
  <2>1. work' \in Works /\ work'.steps = work.steps /\ work'.done = work.done
    BY <1>1, <1>2 DEF Works
  <2>2. Going(work', work)
    BY <1>1, <1>2, <2>1 DEF Going, Works
  <2> QED  BY <1>1, <2>1, <2>2 DEF Busy, Ahead
<1>5. HomeTypeInv' /\ TreeInv'
  BY <1>1 DEF IInv, HomeTypeInv, TreeInv
<1>6. \A k \in Key : inv[k] # None => inv[k].path \notin work.purge
  BY <1>2, <1>3 DEF SavesInv, Ahead
<1>7. \A x \in Paths : x # path => files'[x] = files[x]
  BY <1>1 DEF IInv, HomeTypeInv
<1>8. ~mishap => InPlace(inv)'
  BY <1>1, <1>3, <1>6, <1>7, RecordParts DEF IInv, HomeTypeInv, InPlace
<1>9. path \notin Owned(manifest)
  BY <1>1, <1>2, <1>3 DEF SavesInv, Ahead
<1>10. ~mishap => \A a \in Alias \ work.edits :
          work.held[a] # None /\ Declared(manifest, a) =>
              files'[IdentityFile(manifest, RefOf(manifest, a))] = work.held[a]
  BY <1>3, <1>7, <1>9, OwnedPaths DEF Kept
<1>11. WorkInv' /\ ConfigInv' /\ RecordsInv' /\ HostsInv' /\ AskInv' /\ Ends
  BY <1>1, <1>4, <1>6, <1>8, <1>10, LateStep DEF LateSteps
<1> QED  BY <1>5, <1>11 DEF IInv

LEMMA RemoveDirStep ==
  ASSUME IInv, RemoveDir
  PROVE  IInv' /\ Ends
<1> DEFINE gone == work.from # None /\ \A n \in Name : files[<<work.from[1], work.from[2], n>>] = None
<1>1. /\ manifest' = manifest /\ inv' = inv /\ files' = files
      /\ dirs' = (IF gone THEN dirs \ {work.from} ELSE dirs)
      /\ trusts' = trusts /\ config' = config /\ pins' = pins /\ mishap' = mishap
      /\ Busy /\ Head(work.steps) = "purge" /\ Advance(work)
  BY DEF RemoveDir, Doing, Busy, outsideVars
<1>2. work \in Works /\ SavesInv(work) /\ Going(work, work)
  BY <1>1, SameWork DEF IInv
<1>3. /\ "inventory" \notin Ahead
      /\ ~mishap => Kept(manifest, work) /\ InPlace(inv)
  BY <1>1, Late DEF LateSteps
<1>4. /\ work' \in Works
      /\ \/ ~Busy' /\ work' = Idle /\ Ahead = {Head(work.steps)}
         \/ Busy' /\ Going(work', work) /\ AllOf(work'.steps) = Ahead \ {Head(work.steps)}
  BY <1>1, <1>2, Advanced DEF IInv
<1>5. HomeTypeInv'
  BY <1>1 DEF IInv, HomeTypeInv
<1>6. TreeInv'
  <2> SUFFICES ASSUME NEW x \in Paths \ Loose, files[x] # None
               PROVE  DirOf(x) \in dirs'
    BY <1>1 DEF TreeInv
  <2>1. DirOf(x) \in dirs
    BY DEF IInv, TreeInv
  <2>2. ASSUME gone
        PROVE  DirOf(x) # work.from
    <3>1. x = <<DirOf(x)[1], DirOf(x)[2], x[3]>> /\ x[3] \in Name
      BY PathParts
    <3> QED  BY <2>2, <3>1
  <2> QED  BY <1>1, <2>1, <2>2
<1>7. "purge" \in Ahead => \A k \in Key : inv'[k] # None => inv'[k].path \notin work.purge
  BY <1>1, <1>2, <1>3 DEF SavesInv, Ahead
<1>8. ~mishap => InPlace(inv)'
  BY <1>1, <1>3 DEF InPlace
<1>9. ~mishap => \A a \in Alias \ work.edits :
          work.held[a] # None /\ Declared(manifest, a) =>
              files'[IdentityFile(manifest, RefOf(manifest, a))] = work.held[a]
  BY <1>1, <1>3 DEF Kept
<1>10. WorkInv' /\ ConfigInv' /\ RecordsInv' /\ HostsInv' /\ AskInv' /\ Ends
  BY <1>1, <1>4, <1>7, <1>8, <1>9, LateStep DEF LateSteps
<1> QED  BY <1>5, <1>6, <1>10 DEF IInv

LEMMA MintWork ==
  ASSUME WorkInv, Busy, NEW r \in Refs,
         IF work.mint = {r} THEN Advance([work EXCEPT !.mint = {}])
         ELSE work' = [work EXCEPT !.mint = @ \ {r}, !.done = TRUE]
  PROVE  /\ work' \in Works
         /\ \/ ~Busy' /\ work' = Idle /\ Ahead = {Head(work.steps)}
            \/ /\ Busy' /\ Going(work', work)
               /\ AllOf(work'.steps) \in {Ahead, Ahead \ {Head(work.steps)}}
<1>1. work \in Works
  BY DEF WorkInv
<1>2. CASE work.mint = {r}
  <2> DEFINE w == [work EXCEPT !.mint = {}]
  <2>1. w \in Works /\ w.steps = work.steps /\ Going(w, work)
    BY <1>1 DEF Works, Going
  <2>2. Advance(w)
    BY <1>2
  <2> HIDE DEF w
  <2> QED  BY <2>1, <2>2, Advanced DEF Going
<1>3. CASE work.mint # {r}
  <2>1. work' = [work EXCEPT !.mint = @ \ {r}, !.done = TRUE]
    BY <1>3
  <2>2. work' \in Works /\ work'.steps = work.steps /\ Going(work', work)
    BY <1>1, <2>1 DEF Works, Going
  <2> QED  BY <2>2 DEF Busy, Ahead
<1> QED  BY <1>2, <1>3

LEMMA MintStep ==
  ASSUME IInv, AdoptsOutside, NEW r \in Refs, Mint(r)
  PROVE  IInv' /\ Ends
<1> DEFINE path == IdentityFile(manifest, r)
           dir == ProfileDir(manifest, r[1])
<1>1. /\ manifest' = manifest
      /\ trusts' = trusts /\ config' = config /\ pins' = pins /\ mishap' = mishap
      /\ Busy /\ Head(work.steps) = "mint"
      /\ IF work.mint = {r} THEN Advance([work EXCEPT !.mint = {}])
         ELSE work' = [work EXCEPT !.mint = @ \ {r}, !.done = TRUE]
  BY DEF Mint, Doing, Busy, outsideVars
<1>2. \/ /\ files[path] = None /\ Fresh # {}
         /\ files' = [files EXCEPT ![path] = NewKey]
         /\ inv' = [Dropped(inv, RecordedAt(inv, path)) EXCEPT ![NewKey] = NotDeployed(r, path)]
         /\ dirs' = dirs \cup {dir}
      \/ /\ files[path] # None /\ files' = files /\ dirs' = dirs
         /\ \/ inv' = inv
            \/ inv' = [inv EXCEPT ![files[path]] = NotDeployed(r, path)]
  BY DEF Mint, diskVars
<1>3. /\ {"manifest", "rename", "revoke"} \cap Ahead = {} /\ "inventory" \notin Ahead
      /\ work.manifest = manifest /\ manifest \in GoodManifests
      /\ ~mishap => Kept(manifest, work) /\ InPlace(inv)
  BY <1>1, Late DEF LateSteps
<1>4. "purge" \notin Ahead
  BY <1>1, SameWork, StepOrder DEF IInv, Ahead
<1>5. /\ work' \in Works
      /\ \/ ~Busy' /\ work' = Idle /\ Ahead = {Head(work.steps)}
         \/ /\ Busy' /\ Going(work', work)
            /\ AllOf(work'.steps) \in {Ahead, Ahead \ {Head(work.steps)}}
  BY <1>1, MintWork DEF IInv
<1>6. inv \in Inventories /\ files \in [Paths -> Key \cup {None}] /\ dirs \subseteq Dirs
  BY DEF IInv, HomeTypeInv
<1>7. /\ path \in Paths /\ dir \in Dirs
      /\ path \in Loose \/ (path[1] = r[1] /\ DirOf(path) = dir)
  <2>1. dir \in Dirs
    BY <1>3, PathOfRef DEF ProfileDir, Dirs
  <2>2. CASE manifest.keys[r] \in {"no", "yes"}
    <3>1. path = <<r[1], manifest.category[r[1]], r[2]>>
      BY <1>3, <2>2, PathOfRef
    <3> QED  BY <1>3, <2>1, <3>1, PathOfRef DEF DirOf, ProfileDir
  <2>3. CASE manifest.keys[r] \notin {"no", "yes"}
    <3>1. path = manifest.keys[r] /\ manifest.keys[r] \in Adoptable /\ path \in Paths
      BY <1>3, <2>3, PathOfRef
    <3>2. manifest.keys[r] \in Loose
      BY <3>1 DEF AdoptsOutside
    <3> HIDE DEF path, dir
    <3> QED  BY <2>1, <3>1, <3>2
  <2> QED  BY <2>2, <2>3
<1>8. NotDeployed(r, path) \in FitRecords /\ NotDeployed(r, path).path = path /\ NotDeployed(r, path) # None
  <2>1. r[1] \in Profile
    BY <1>3, PathOfRef
  <2>2. NotDeployed(r, path) \in Records /\ NotDeployed(r, path).path = path /\ NotDeployed(r, path).profile = r[1]
    BY <1>7, <2>1 DEF NotDeployed, Records
  <2> QED  BY <1>7, <2>2, HomeAssumption DEF FitRecords
<1> HIDE DEF path, dir
<1>9. /\ inv' \in Inventories /\ files' \in [Paths -> Key \cup {None}] /\ dirs' \subseteq Dirs
      /\ TreeInv'
      /\ ~mishap => InPlace(inv)'
      /\ \A x \in Paths : files[x] # None => files'[x] = files[x]
  <2>1. CASE /\ files[path] = None /\ Fresh # {}
             /\ files' = [files EXCEPT ![path] = NewKey]
             /\ inv' = [Dropped(inv, RecordedAt(inv, path)) EXCEPT ![NewKey] = NotDeployed(r, path)]
             /\ dirs' = dirs \cup {dir}
    <3>1. NewKey \in Key
      BY <2>1 DEF NewKey, Fresh
    <3> DEFINE i == Dropped(inv, RecordedAt(inv, path))
    <3>2. /\ i \in Inventories
          /\ \A k \in Key : i[k] = IF inv[k] # None /\ inv[k].path = path THEN None ELSE inv[k]
      BY <1>6, DroppedParts DEF RecordedAt
    <3>3. inv' = [i EXCEPT ![NewKey] = NotDeployed(r, path)]
      BY <2>1
    <3> HIDE DEF i
    <3>4. /\ inv' \in Inventories /\ inv'[NewKey] = NotDeployed(r, path)
          /\ \A k \in Key \ {NewKey} : inv'[k] = i[k]
      BY <1>8, <3>1, <3>2, <3>3 DEF Inventories
    <3>5. /\ files' \in [Paths -> Key \cup {None}] /\ files'[path] = NewKey
          /\ \A x \in Paths \ {path} : files'[x] = files[x]
      BY <1>6, <1>7, <2>1, <3>1
    <3>6. dirs' \subseteq Dirs
      BY <1>6, <1>7, <2>1
    <3>7. TreeInv'
      BY <1>7, <2>1, <3>5 DEF IInv, TreeInv
    <3>8. ASSUME ~mishap, NEW k \in Key, inv'[k] # None
          PROVE  files'[inv'[k].path] = k
      <4>1. CASE k = NewKey
        BY <1>8, <3>4, <3>5, <4>1
      <4>2. CASE k # NewKey
        <5>1. inv'[k] = inv[k] /\ inv[k] # None /\ inv[k].path # path
          BY <3>2, <3>4, <3>8, <4>2
        <5>2. inv[k].path \in Paths /\ files[inv[k].path] = k
          BY <1>3, <1>6, <3>8, <5>1, RecordParts DEF InPlace
        <5> QED  BY <3>5, <5>1, <5>2
      <4> QED  BY <4>1, <4>2
    <3>9. \A x \in Paths : files[x] # None => files'[x] = files[x]
      BY <2>1, <3>5
    <3> QED  BY <3>4, <3>5, <3>6, <3>7, <3>8, <3>9 DEF InPlace
  <2>2. CASE files[path] # None /\ files' = files /\ dirs' = dirs /\ inv' = inv
    BY <1>3, <1>6, <2>2 DEF IInv, TreeInv, InPlace
  <2>3. CASE /\ files[path] # None /\ files' = files /\ dirs' = dirs
             /\ inv' = [inv EXCEPT ![files[path]] = NotDeployed(r, path)]
    <3>1. files[path] \in Key
      BY <1>6, <1>7, <2>3
    <3>2. /\ inv' \in Inventories /\ inv'[files[path]] = NotDeployed(r, path)
          /\ \A k \in Key \ {files[path]} : inv'[k] = inv[k]
      BY <1>6, <1>8, <2>3, <3>1 DEF Inventories
    <3>3. ~mishap => InPlace(inv)'
      BY <1>3, <1>8, <2>3, <3>2 DEF InPlace
    <3> QED  BY <1>6, <2>3, <3>2, <3>3 DEF IInv, TreeInv
  <2> QED  BY <1>2, <2>1, <2>2, <2>3
<1>10. HomeTypeInv'
  BY <1>1, <1>9 DEF IInv, HomeTypeInv
<1>11. ~mishap => \A a \in Alias \ work.edits :
          work.held[a] # None /\ Declared(manifest, a) =>
              files'[IdentityFile(manifest, RefOf(manifest, a))] = work.held[a]
  <2> SUFFICES ASSUME ~mishap, NEW a \in Alias \ work.edits, work.held[a] # None, Declared(manifest, a)
               PROVE  files'[IdentityFile(manifest, RefOf(manifest, a))] = work.held[a]
    OBVIOUS
  <2>1. files[IdentityFile(manifest, RefOf(manifest, a))] = work.held[a]
    BY <1>3 DEF Kept
  <2>2. IdentityFile(manifest, RefOf(manifest, a)) \in Paths
    BY <1>3, OwnedPaths
  <2> QED  BY <1>9, <2>1, <2>2
<1>12. WorkInv' /\ ConfigInv' /\ RecordsInv' /\ HostsInv' /\ AskInv' /\ Ends
  BY <1>1, <1>4, <1>5, <1>9, <1>11, LateStep DEF LateSteps
<1> QED  BY <1>9, <1>10, <1>12 DEF IInv

LEMMA RevokeWork ==
  ASSUME IInv, Busy, NEW a \in Alias, NEW k \in Key, Revoke(a, k), Head(work.steps) = "revoke"
  PROVE  /\ work' \in Works /\ Busy' /\ Going(work', work)
         /\ AllOf(work'.steps) \in {Ahead, Ahead \ {"revoke"}}
         /\ {"manifest", "inventory"} \subseteq AllOf(work'.steps)
         /\ "revoke" \notin AllOf(work'.steps) => work'.ask = {}
         /\ \A x \in work.ask : x \in work'.ask \/ x = <<a, k>>
         /\ trusts' \in [Server -> SUBSET Key] /\ \A s \in Server : trusts'[s] \subseteq trusts[s]
         /\ k \notin trusts'[ServerOf[a]] \/ a \in work'.failed
<1> DEFINE asked == <<a, k>>
<1> DEFINE rest == [work EXCEPT !.ask = @ \ {asked}]
<1>1. work \in Works /\ work.steps \in StepLists /\ work.steps # <<>>
  BY SameWork DEF IInv
<1>2. PICK removed, reported \in BOOLEAN :
         /\ reported => removed
         /\ trusts' = [trusts EXCEPT ![ServerOf[a]] = IF removed THEN @ \ {k} ELSE @]
         /\ LET w == IF reported THEN rest ELSE [rest EXCEPT !.failed = @ \cup {a}]
            IN  IF rest.ask = {} THEN Advance(w) ELSE work' = [w EXCEPT !.done = TRUE]
  BY DEF Revoke
<1> HIDE DEF asked
<1>3. /\ rest \in Works /\ rest.steps = work.steps /\ Going(rest, work) /\ rest.failed \subseteq Alias
      /\ \A x \in work.ask : x \in rest.ask \/ x = asked
  BY <1>1 DEF Works, Going
<1> DEFINE w == IF reported THEN rest ELSE [rest EXCEPT !.failed = @ \cup {a}]
<1>4. IF rest.ask = {} THEN Advance(w) ELSE work' = [w EXCEPT !.done = TRUE]
  BY <1>2
<1>5. (w = rest /\ reported) \/ w = [rest EXCEPT !.failed = @ \cup {a}]
  OBVIOUS
<1> HIDE DEF rest, w
<1>6. /\ w \in Works /\ w.steps = work.steps /\ Going(w, work)
      /\ w.ask = rest.ask /\ (reported \/ a \in w.failed)
  BY <1>3, <1>5 DEF Works, Going
<1>7. {"manifest", "inventory"} \subseteq Ahead /\ "revoke" \in Ahead
  BY <1>1, StepOrder, FirstStep DEF Ahead
<1>8. /\ work' \in Works /\ Busy' /\ Going(work', w)
      /\ AllOf(work'.steps) \in {Ahead, Ahead \ {"revoke"}}
      /\ "revoke" \notin AllOf(work'.steps) => rest.ask = {}
      /\ rest.ask # {} => work'.ask = w.ask
  <2>1. CASE rest.ask = {}
    BY <1>4, <1>6, <1>7, <2>1, Advanced DEF IInv
  <2>2. CASE rest.ask # {}
    <3>1. work' = [w EXCEPT !.done = TRUE]
      BY <1>4, <2>2
    <3>2. work' \in Works /\ work'.steps = work.steps /\ Going(work', w) /\ work'.ask = w.ask
      BY <1>6, <3>1 DEF Works, Going
    <3> QED  BY <1>7, <2>2, <3>2 DEF Busy, Ahead
  <2> QED  BY <2>1, <2>2
<1>9. Going(work', work)
  BY <1>6, <1>8 DEF Going
<1>10. /\ "revoke" \notin AllOf(work'.steps) => work'.ask = {}
       /\ \A x \in work.ask : x \in work'.ask \/ x = asked
  BY <1>3, <1>6, <1>8 DEF Going
<1>11. /\ trusts' \in [Server -> SUBSET Key] /\ \A s \in Server : trusts'[s] \subseteq trusts[s]
       /\ reported => k \notin trusts'[ServerOf[a]]
  BY <1>2, EditorAssumption DEF IInv, HomeTypeInv
<1>12. reported \/ a \in work'.failed
  BY <1>6, <1>8 DEF Going
<1>13. {"manifest", "inventory"} \subseteq AllOf(work'.steps)
  BY <1>7, <1>8
<1> QED  BY <1>8, <1>9, <1>10, <1>11, <1>12, <1>13 DEF asked

LEMMA RevokeStep ==
  ASSUME IInv, NEW a \in Alias, NEW k \in Key, Revoke(a, k)
  PROVE  IInv' /\ Ends
<1>1. /\ manifest' = manifest /\ inv' = inv /\ files' = files /\ dirs' = dirs
      /\ config' = config /\ pins' = pins /\ mishap' = mishap
      /\ Busy /\ Head(work.steps) = "revoke"
  BY DEF Revoke, Doing, Busy, diskVars
<1>2. /\ work \in Works /\ work.manifest \in GoodManifests /\ work.inv \in Inventories
      /\ SavesInv(work) /\ MovesInv(work) /\ work.steps \in StepLists /\ work.steps # <<>>
  BY <1>1, SameWork DEF IInv
<1>3. /\ work' \in Works /\ Busy' /\ Going(work', work)
      /\ AllOf(work'.steps) \in {Ahead, Ahead \ {"revoke"}}
      /\ {"manifest", "inventory"} \subseteq AllOf(work'.steps)
      /\ "revoke" \notin AllOf(work'.steps) => work'.ask = {}
      /\ \A x \in work.ask : x \in work'.ask \/ x = <<a, k>>
      /\ trusts' \in [Server -> SUBSET Key] /\ \A s \in Server : trusts'[s] \subseteq trusts[s]
      /\ k \notin trusts'[ServerOf[a]] \/ a \in work'.failed
  BY <1>1, RevokeWork
<1>4. "revoke" \in Ahead /\ "rename" \notin Ahead
  BY <1>1, <1>2, FirstStep, StepOrder DEF Ahead
<1>5. work.op # "category" /\ work'.op = work.op
  BY <1>2, <1>3, <1>4 DEF MovesInv, Ahead, Going
<1>6. HomeTypeInv' /\ TreeInv'
  BY <1>1, <1>3 DEF IInv, HomeTypeInv, TreeInv
<1>7. WorkInv'
  <2>1. SavesInv(work)'
    BY <1>1, <1>2, <1>3, <1>5 DEF SavesInv, Going, Ahead
  <2>2. MovesInv(work)'
    BY <1>3, <1>4, <1>5 DEF MovesInv
  <2> QED  BY <1>2, <1>3, <2>1, <2>2 DEF WorkInv, Going
<1>8. ConfigInv'
  BY <1>1, <1>3 DEF IInv, ConfigInv, ConfigPlan, Follows, Going, Ahead
<1>9. RecordsInv'
  BY <1>1, <1>3, <1>5 DEF IInv, RecordsInv, RecordsPlan, Moved, InPlace
<1>10. HostsInv'
  BY <1>1, <1>3, <1>5 DEF IInv, HostsInv, HostsPlan, Moved, Kept, Going, Ahead
<1>11. AskInv'
  <2> SUFFICES ASSUME work.op = "key delete", work.revoke, NEW j \in Key, inv[j] # None,
                      work.inv[j] = None, NEW b \in inv[j].deployments
               PROVE  j \notin trusts'[ServerOf[b]] \/ b \in work'.failed \/ <<b, j>> \in work'.ask
    BY <1>1, <1>3 DEF AskInv, AskPlan, Going
  <2>1. j \notin trusts[ServerOf[b]] \/ b \in work.failed \/ <<b, j>> \in work.ask
    BY <1>1, <1>3 DEF IInv, AskInv, AskPlan, Ahead
  <2>2. b \in Alias /\ ServerOf[b] \in Server
    BY RecordParts, EditorAssumption DEF IInv, HomeTypeInv
  <2>3. CASE j \notin trusts[ServerOf[b]] \/ b \in work.failed
    BY <1>3, <2>2, <2>3 DEF Going
  <2>4. CASE <<b, j>> \in work.ask
    BY <1>3, <2>4
  <2> QED  BY <2>1, <2>3, <2>4
<1> QED  BY <1>3, <1>6, <1>7, <1>8, <1>9, <1>10, <1>11 DEF IInv, Ends

\* A file of a directory that is renamed is found under the other name.
LEMMA RenamedFiles ==
  ASSUME HomeTypeInv, TreeInv, NEW from \in Dirs, NEW to \in Dirs, from # to, from[1] = to[1],
         Renamed(from, to)
  PROVE  /\ files' \in [Paths -> Key \cup {None}] /\ dirs' \subseteq Dirs /\ TreeInv'
         /\ from \notin dirs'
         /\ \A x \in Paths : x \in Loose => files'[x] = files[x]
         /\ \A x \in Paths \ Loose : DirOf(x) \notin {from, to} => files'[x] = files[x]
         /\ \A x \in Paths \ Loose : DirOf(x) = from => files'[Under(to, x)] = files[x]
<1>1. /\ files \in [Paths -> Key \cup {None}] /\ dirs \subseteq Dirs
      /\ dirs' = (dirs \ {from}) \cup {to}
      /\ files' = [x \in Paths |->
            IF x \in Loose THEN files[x]
            ELSE IF DirOf(x) = to THEN files[Under(from, x)]
            ELSE IF DirOf(x) = from THEN None
            ELSE files[x]]
  BY DEF HomeTypeInv, Renamed, Under
<1>2. \A x \in Paths \ Loose : Under(from, x) \in Paths /\ Under(to, x) \in Paths
  BY UnderParts
<1>3. files' \in [Paths -> Key \cup {None}] /\ dirs' \subseteq Dirs
  <2>1. \A x \in Paths : files'[x] \in Key \cup {None}
    BY <1>1, <1>2
  <2> QED  BY <1>1, <2>1
<1>4. TreeInv'
  BY <1>1 DEF TreeInv
<1>5. /\ \A x \in Paths : x \in Loose => files'[x] = files[x]
      /\ \A x \in Paths \ Loose : DirOf(x) \notin {from, to} => files'[x] = files[x]
  BY <1>1
<1>6. ASSUME NEW x \in Paths \ Loose, DirOf(x) = from
      PROVE  files'[Under(to, x)] = files[x]
  <2>1. /\ Under(to, x) \in Paths \ Loose /\ DirOf(Under(to, x)) = to
        /\ Under(to, x)[3] = x[3] /\ Under(from, x) = x
    BY <1>6, UnderParts
  <2>2. Under(from, Under(to, x)) = Under(from, x)
    BY <2>1 DEF Under
  <2> QED  BY <1>1, <2>1, <2>2
<1> QED  BY <1>1, <1>3, <1>4, <1>5, <1>6

\* What a move of a directory makes of a manifest and an inventory.
LEMMA Move ==
  ASSUME IInv, AdoptsOutside, Busy, work.op = "category", "manifest" \in Ahead
  PROVE  /\ manifest \in GoodManifests /\ inv \in Inventories
         /\ work.from \in Dirs /\ work.to \in Dirs /\ work.from[1] = work.to[1] /\ work.from # work.to
         /\ \A k \in Key : work.inv[k] = None <=> inv[k] = None
         /\ \A k \in Key : inv[k] # None =>
               work.inv[k].path =
                   IF inv[k].path \notin Loose /\ DirOf(inv[k].path) = work.from
                   THEN Under(work.to, inv[k].path) ELSE inv[k].path
         /\ \A a \in Alias :
               /\ Declared(work.manifest, a) <=> Declared(manifest, a)
               /\ Declared(manifest, a) =>
                    /\ FileOf(manifest, a) \in Paths
                    /\ FileOf(manifest, a) \notin Loose => DirOf(FileOf(manifest, a)) # work.to
                    /\ FileOf(work.manifest, a) =
                         IF FileOf(manifest, a) \notin Loose /\ DirOf(FileOf(manifest, a)) = work.from
                         THEN Under(work.to, FileOf(manifest, a)) ELSE FileOf(manifest, a)
<1> DEFINE from == work.from  to == work.to  m == work.manifest
<1>1. /\ from \in Dirs /\ to \in Dirs /\ from[1] = to[1] /\ from # to
      /\ m = [manifest EXCEPT !.category[from[1]] = to[2]]
      /\ from = ProfileDir(manifest, from[1])
      /\ work.inv = Repointed(inv, from, to)
  BY SameWork DEF IInv, MovesInv, Ahead
<1>2. manifest \in GoodManifests /\ inv \in Inventories
  BY DEF IInv, HomeTypeInv
<1> HIDE DEF from, to, m
<1> DEFINE p == from[1]  c == to[2]
<1>3. p \in Profile /\ c \in Category /\ to = <<p, c>>
  BY <1>1 DEF Dirs
<1> DEFINE i == Repointed(inv, from, to)
<1>4. /\ \A k \in Key : i[k] = None <=> inv[k] = None
      /\ \A k \in Key : inv[k] # None =>
            i[k].path = IF inv[k].path \notin Loose /\ DirOf(inv[k].path) = from
                        THEN Under(to, inv[k].path) ELSE inv[k].path
  BY <1>1, <1>2, RepointedParts
<1>5. work.inv = i
  BY <1>1
<1>6. m = [manifest EXCEPT !.category[p] = c]
  BY <1>1
<1> HIDE DEF i, p, c
<1>7. /\ m \in Manifests /\ Tidy(m) /\ ProfileDir(m, p) = <<p, c>>
      /\ \A a \in Alias : RefOf(m, a) = RefOf(manifest, a) /\ (Declared(m, a) <=> Declared(manifest, a))
      /\ \A r \in Refs : IdentityFile(m, r) =
            IF IdentityFile(manifest, r) \notin Loose /\ DirOf(IdentityFile(manifest, r)) = ProfileDir(manifest, p)
            THEN Under(<<p, c>>, IdentityFile(manifest, r)) ELSE IdentityFile(manifest, r)
  BY <1>2, <1>3, <1>6, MovedManifest
<1>8. from = ProfileDir(manifest, p)
  BY <1>1 DEF p
<1>9. ASSUME NEW a \in Alias, Declared(manifest, a)
      PROVE  /\ FileOf(manifest, a) \in Paths
             /\ FileOf(manifest, a) \notin Loose => DirOf(FileOf(manifest, a)) # to
             /\ FileOf(m, a) =
                  IF FileOf(manifest, a) \notin Loose /\ DirOf(FileOf(manifest, a)) = from
                  THEN Under(to, FileOf(manifest, a)) ELSE FileOf(manifest, a)
  <2> DEFINE r == RefOf(manifest, a)
  <2>1. r \in Refs /\ RefOf(m, a) = r
    BY <1>2, <1>7, <1>9, RefOfHost
  <2> HIDE DEF r
  <2>2. FileOf(manifest, a) = IdentityFile(manifest, r) /\ FileOf(m, a) = IdentityFile(m, r)
    BY <2>1 DEF FileOf, r
  <2>3. IdentityFile(manifest, r) \in Paths
    BY <1>2, <2>1, PathOfRef
  <2>4. ASSUME IdentityFile(manifest, r) \notin Loose
        PROVE  DirOf(IdentityFile(manifest, r)) # to
    <3>1. IdentityFile(manifest, r) = <<r[1], manifest.category[r[1]], r[2]>>
      BY <1>2, <2>1, <2>4, PathOfRef DEF AdoptsOutside
    <3>2. DirOf(IdentityFile(manifest, r)) = ProfileDir(manifest, r[1])
      BY <3>1 DEF DirOf, ProfileDir
    <3>3. ASSUME ProfileDir(manifest, r[1]) = to
          PROVE  FALSE
      <4>1. r[1] = p
        BY <1>3, <3>3 DEF ProfileDir
      <4> QED  BY <1>1, <1>8, <3>3, <4>1
    <3> QED  BY <3>2, <3>3
  <2> QED  BY <1>3, <1>7, <1>8, <2>1, <2>2, <2>3, <2>4
<1>10. \A a \in Alias : Declared(m, a) <=> Declared(manifest, a)
  BY <1>7
<1> QED  BY <1>1, <1>2, <1>4, <1>5, <1>9, <1>10 DEF m, i, from, to

LEMMA RenameStep ==
  ASSUME IInv, AdoptsOutside, Rename
  PROVE  IInv' /\ Ends
<1>1. /\ manifest' = manifest /\ inv' = inv /\ Renamed(work.from, work.to)
      /\ trusts' = trusts /\ config' = config /\ pins' = pins /\ mishap' = mishap
      /\ Busy /\ Head(work.steps) = "rename" /\ Advance(work)
  BY DEF Rename, Doing, Busy, outsideVars
<1>2. /\ work \in Works /\ work.steps \in StepLists /\ work.steps # <<>>
      /\ work.manifest \in GoodManifests /\ work.inv \in Inventories
      /\ SavesInv(work) /\ MovesInv(work)
  BY <1>1, SameWork DEF IInv
<1>3. "rename" \in Ahead /\ "manifest" \in Ahead
  BY <1>1, <1>2, FirstStep, StepOrder DEF Ahead
<1>4. work.op = "category" /\ ~work.done /\ work.from \in dirs /\ work.to \notin dirs
  BY <1>2, <1>3 DEF MovesInv, Ahead
<1>5. /\ work' \in Works /\ Busy' /\ AllOf(work'.steps) = Ahead \ {"rename"}
      /\ Going(work', work) /\ work'.done
  BY <1>1, <1>2, <1>3, Advanced DEF IInv
<1> DEFINE from == work.from  to == work.to
<1>6. /\ manifest \in GoodManifests /\ inv \in Inventories
      /\ from \in Dirs /\ to \in Dirs /\ from[1] = to[1] /\ from # to
      /\ \A k \in Key : work.inv[k] = None <=> inv[k] = None
      /\ \A k \in Key : inv[k] # None =>
            work.inv[k].path = IF inv[k].path \notin Loose /\ DirOf(inv[k].path) = from
                               THEN Under(to, inv[k].path) ELSE inv[k].path
      /\ \A a \in Alias :
            /\ Declared(work.manifest, a) <=> Declared(manifest, a)
            /\ Declared(manifest, a) =>
                 /\ FileOf(manifest, a) \in Paths
                 /\ FileOf(manifest, a) \notin Loose => DirOf(FileOf(manifest, a)) # to
                 /\ FileOf(work.manifest, a) =
                      IF FileOf(manifest, a) \notin Loose /\ DirOf(FileOf(manifest, a)) = from
                      THEN Under(to, FileOf(manifest, a)) ELSE FileOf(manifest, a)
  BY <1>1, <1>3, <1>4, Move
<1>7. /\ files' \in [Paths -> Key \cup {None}] /\ dirs' \subseteq Dirs /\ TreeInv'
      /\ from \notin dirs'
      /\ \A x \in Paths : x \in Loose => files'[x] = files[x]
      /\ \A x \in Paths \ Loose : DirOf(x) \notin {from, to} => files'[x] = files[x]
      /\ \A x \in Paths \ Loose : DirOf(x) = from => files'[Under(to, x)] = files[x]
  BY <1>1, <1>6, RenamedFiles DEF IInv
<1>8. \A x \in Paths \ Loose : files[x] # None => DirOf(x) # to
  BY <1>4 DEF IInv, TreeInv
<1>9. HomeTypeInv'
  BY <1>1, <1>7 DEF IInv, HomeTypeInv
<1>10. WorkInv'
  <2>1. SavesInv(work)'
    BY <1>1, <1>2, <1>3, <1>4, <1>5 DEF SavesInv, MovesInv, Going, Ahead
  <2>2. MovesInv(work)'
    BY <1>1, <1>2, <1>3, <1>4, <1>5, <1>7 DEF MovesInv, Going, Ahead
  <2> QED  BY <1>2, <1>5, <2>1, <2>2 DEF WorkInv, Going
<1>11. ConfigInv'
  BY <1>1, <1>3, <1>5 DEF IInv, ConfigInv, ConfigPlan, Follows, Going, Ahead
<1>12. RecordsInv'
  <2> SUFFICES ASSUME ~mishap
               PROVE  RecordsPlan(work)'
    BY <1>1, <1>5 DEF RecordsInv
  <2>1. InPlace(inv)
    BY <1>1, <1>4 DEF IInv, RecordsInv, RecordsPlan, Moved
  <2>2. ASSUME NEW k \in Key, inv[k] # None
        PROVE  /\ inv[k].path \in Paths /\ files[inv[k].path] = k
               /\ inv[k].path \notin Loose => DirOf(inv[k].path) # to
    BY <1>6, <1>8, <2>1, <2>2, RecordParts, EditorAssumption DEF InPlace
  <2>3. InPlace(work.inv)'
    BY <1>5, <1>6, <1>7, <2>2 DEF InPlace, Going
  <2>4. Moved(work)' /\ (AllOf(work.steps) \cap {"manifest", "inventory"} # {})'
    BY <1>3, <1>4, <1>5 DEF Moved, Going
  <2>5. work'.to = to /\ inv' = inv
    BY <1>1, <1>5 DEF Going
  <2> QED  BY <2>2, <2>3, <2>4, <2>5 DEF RecordsPlan
<1>13. HostsInv'
  <2> SUFFICES ASSUME ~mishap
               PROVE  HostsPlan(work)'
    BY <1>1, <1>5 DEF HostsInv
  <2>1. Kept(manifest, work)
    BY <1>1, <1>3, <1>4 DEF IInv, HostsInv, HostsPlan, Moved, Ahead
  <2>2. ASSUME NEW a \in Alias \ work.edits, work.held[a] # None, Declared(work.manifest, a)
        PROVE  files'[FileOf(work.manifest, a)] = work.held[a]
    <3>1. Declared(manifest, a) /\ files[FileOf(manifest, a)] = work.held[a]
      BY <1>6, <2>1, <2>2 DEF Kept, FileOf
    <3> DEFINE x == FileOf(manifest, a)
    <3>2. x \in Paths /\ (x \notin Loose => DirOf(x) # to) /\ files[x] = work.held[a]
      BY <1>6, <3>1
    <3>3. FileOf(work.manifest, a) = IF x \notin Loose /\ DirOf(x) = from THEN Under(to, x) ELSE x
      BY <1>6, <3>1
    <3> HIDE DEF x
    <3> QED  BY <1>7, <3>2, <3>3
  <2>3. Kept(work.manifest, work)'
    BY <1>5, <2>2 DEF Kept, Going, FileOf
  <2>4. Moved(work)'
    BY <1>4, <1>5 DEF Moved, Going
  <2> QED  BY <2>3, <2>4 DEF HostsPlan
<1>14. AskInv'
  BY <1>1, <1>2, <1>3, <1>4, <1>5 DEF IInv, AskInv, AskPlan, MovesInv, Going, Ahead
<1> QED  BY <1>5, <1>7, <1>9, <1>10, <1>11, <1>12, <1>13, <1>14 DEF IInv, Ends

LEMMA CutShortStep ==
  ASSUME IInv, CutShort
  PROVE  IInv' /\ Ends
<1>1. /\ manifest' = manifest /\ inv' = inv /\ files' = files /\ dirs' = dirs
      /\ trusts' = trusts /\ config' = config /\ pins' = pins
      /\ mishap' = (mishap \/ work.done) /\ work' = Idle /\ Busy
  BY DEF CutShort, Busy, diskVars, outsideVars
<1>2. /\ work \in Works /\ work.steps \in StepLists /\ work.steps # <<>> /\ SavesInv(work)
  BY <1>1, SameWork DEF IInv
<1>3. ~Busy' /\ WorkInv' /\ HostsInv' /\ AskInv'
  BY <1>1, IdleIsWork DEF Busy, WorkInv, HostsInv, AskInv
<1>4. HomeTypeInv' /\ TreeInv'
  <2>1. work.done \in BOOLEAN
    BY <1>2 DEF Works
  <2> QED  BY <1>1, <2>1 DEF IInv, HomeTypeInv, TreeInv
<1>5. ConfigInv'
  BY <1>1, <1>3 DEF IInv, ConfigInv, ConfigPlan, Follows
<1>6. RecordsInv'
  BY <1>1, <1>3 DEF IInv, RecordsInv, RecordsPlan, Moved, InPlace
<1>7. Ends
  <2> SUFFICES ASSUME ~mishap, ~work.done
               PROVE  Kept(manifest, work)
    BY <1>1 DEF Ends, Kept
  <2>1. HostsPlan(work)
    BY <1>1 DEF IInv, HostsInv
  <2>2. CASE "manifest" \in Ahead
    BY <2>1, <2>2 DEF HostsPlan, Moved, Ahead
  <2>3. CASE "manifest" \notin Ahead
    <3>1. "rename" \notin Ahead /\ manifest = work.manifest
      BY <1>2, <2>3, StepOrder DEF SavesInv, Ahead
    <3> QED  BY <2>1, <3>1 DEF HostsPlan, Ahead
  <2> QED  BY <2>2, <2>3
<1> QED  BY <1>3, <1>4, <1>5, <1>6, <1>7 DEF IInv

LEMMA SaveManifestFailsStep ==
  ASSUME IInv, AdoptsOutside, SaveManifestFails
  PROVE  IInv' /\ Ends
<1>1. /\ manifest' = manifest /\ inv' = inv /\ Undone
      /\ trusts' = trusts /\ config' = config /\ pins' = pins
      /\ mishap' = (mishap \/ (work.done /\ work.op # "category")) /\ work' = Idle
      /\ Busy /\ Head(work.steps) = "manifest"
  BY DEF SaveManifestFails, Doing, Busy, outsideVars
<1>2. /\ work \in Works /\ work.steps \in StepLists /\ work.steps # <<>> /\ MovesInv(work)
  BY <1>1, SameWork DEF IInv
<1>3. "manifest" \in Ahead /\ "rename" \notin Ahead
  BY <1>1, <1>2, FirstStep, StepOrder DEF Ahead
<1>4. ~Busy' /\ WorkInv' /\ HostsInv' /\ AskInv'
  BY <1>1, IdleIsWork DEF Busy, WorkInv, HostsInv, AskInv
<1>5. mishap' \in BOOLEAN
  BY <1>1, <1>2 DEF IInv, HomeTypeInv, Works
<1>6. ConfigInv'
  BY <1>1, <1>3, <1>4 DEF IInv, ConfigInv, ConfigPlan, Follows, Ahead
<1>7. CASE ~(work.op = "category" /\ work.done)
  <2>1. files' = files /\ dirs' = dirs
    BY <1>1, <1>7 DEF Undone, diskVars
  <2>2. HomeTypeInv' /\ TreeInv'
    BY <1>1, <1>5, <2>1 DEF IInv, HomeTypeInv, TreeInv
  <2>3. ~mishap' => ~mishap /\ ~Moved(work)
    BY <1>1, <1>7 DEF Moved
  <2>4. RecordsInv'
    BY <1>1, <1>4, <2>1, <2>3 DEF IInv, RecordsInv, RecordsPlan, InPlace
  <2>5. Ends
    BY <1>1, <1>3, <2>1, <2>3 DEF IInv, HostsInv, HostsPlan, Ends, Kept, Ahead
  <2> QED  BY <1>4, <1>6, <2>2, <2>4, <2>5 DEF IInv
<1>8. CASE work.op = "category" /\ work.done
  <2> DEFINE from == work.from  to == work.to
  <2>1. Renamed(to, from)
    BY <1>1, <1>8 DEF Undone
  <2>2. /\ manifest \in GoodManifests /\ inv \in Inventories
        /\ from \in Dirs /\ to \in Dirs /\ from[1] = to[1] /\ from # to
        /\ \A k \in Key : work.inv[k] = None <=> inv[k] = None
        /\ \A k \in Key : inv[k] # None =>
              work.inv[k].path = IF inv[k].path \notin Loose /\ DirOf(inv[k].path) = from
                                 THEN Under(to, inv[k].path) ELSE inv[k].path
        /\ \A a \in Alias :
              /\ Declared(work.manifest, a) <=> Declared(manifest, a)
              /\ Declared(manifest, a) =>
                   /\ FileOf(manifest, a) \in Paths
                   /\ FileOf(manifest, a) \notin Loose => DirOf(FileOf(manifest, a)) # to
                   /\ FileOf(work.manifest, a) =
                        IF FileOf(manifest, a) \notin Loose /\ DirOf(FileOf(manifest, a)) = from
                        THEN Under(to, FileOf(manifest, a)) ELSE FileOf(manifest, a)
    BY <1>1, <1>3, <1>8, Move
  <2>3. /\ files' \in [Paths -> Key \cup {None}] /\ dirs' \subseteq Dirs /\ TreeInv'
        /\ \A x \in Paths : x \in Loose => files'[x] = files[x]
        /\ \A x \in Paths \ Loose : DirOf(x) \notin {from, to} => files'[x] = files[x]
        /\ \A x \in Paths \ Loose : DirOf(x) = to => files'[Under(from, x)] = files[x]
    BY <2>1, <2>2, RenamedFiles DEF IInv
  <2>4. ASSUME NEW x \in Paths, x \notin Loose => DirOf(x) # to
        PROVE  files'[x] = files[IF x \notin Loose /\ DirOf(x) = from THEN Under(to, x) ELSE x]
    <3>1. CASE x \notin Loose /\ DirOf(x) = from
      <4>1. /\ Under(to, x) \in Paths \ Loose /\ DirOf(Under(to, x)) = to
            /\ Under(to, x)[3] = x[3] /\ Under(from, x) = x
        BY <2>2, <3>1, UnderParts
      <4>2. Under(from, Under(to, x)) = x
        BY <4>1 DEF Under
      <4> QED  BY <2>3, <3>1, <4>1, <4>2
    <3>2. CASE ~(x \notin Loose /\ DirOf(x) = from)
      BY <2>3, <2>4, <3>2
    <3> QED  BY <3>1, <3>2
  <2>5. HomeTypeInv'
    BY <1>1, <1>5, <2>3 DEF IInv, HomeTypeInv
  <2>6. RecordsInv'
    <3> SUFFICES ASSUME ~mishap, NEW k \in Key, inv[k] # None
                 PROVE  files'[inv[k].path] = k
      BY <1>1, <1>4 DEF RecordsInv, InPlace
    <3>1. RecordsPlan(work) /\ Moved(work)
      BY <1>1, <1>8 DEF IInv, RecordsInv, Moved
    <3>2. InPlace(work.inv) /\ (inv[k].path \notin Loose => DirOf(inv[k].path) # to)
      BY <1>3, <3>1 DEF RecordsPlan, Ahead
    <3>3. inv[k].path \in Paths /\ work.inv[k] # None /\ files[work.inv[k].path] = k
      BY <2>2, <3>2, RecordParts DEF InPlace
    <3> QED  BY <2>2, <2>4, <3>2, <3>3
  <2>7. Ends
    <3> SUFFICES ASSUME ~mishap, NEW a \in Alias \ work.edits, work.held[a] # None, Declared(manifest, a)
                 PROVE  files'[FileOf(manifest, a)] = work.held[a]
      BY <1>1 DEF Ends, FileOf
    <3>1. Kept(work.manifest, work)
      BY <1>1, <1>3 DEF IInv, HostsInv, HostsPlan, Ahead
    <3>2. files[FileOf(work.manifest, a)] = work.held[a]
      BY <2>2, <3>1 DEF Kept, FileOf
    <3> QED  BY <2>2, <2>4, <3>2
  <2> QED  BY <1>4, <1>6, <2>3, <2>5, <2>6, <2>7 DEF IInv
<1> QED  BY <1>7, <1>8

LEMMA DeployStep ==
  ASSUME IInv, NEW a \in Alias, Deploy(a)
  PROVE  IInv' /\ Ends
<1> DEFINE k == Uses(a)
<1>1. /\ ~Busy /\ k # None /\ k \in Key /\ inv[k] # None
      /\ trusts' = [trusts EXCEPT ![ServerOf[a]] = @ \cup {k}]
      /\ inv' = [inv EXCEPT ![k].deployments = @ \cup {a}]
      /\ pins' = pins \cup {ServerOf[a]}
      /\ manifest' = manifest /\ files' = files /\ dirs' = dirs /\ config' = config
      /\ work' = work /\ mishap' = mishap
  BY DEF Deploy, Recorded, Busy, diskVars
<1> HIDE DEF k
<1>2. inv \in Inventories
  BY DEF IInv, HomeTypeInv
<1> DEFINE new == [inv[k] EXCEPT !.deployments = @ \cup {a}]
<1>3. new \in FitRecords /\ new # None /\ new.path = inv[k].path
  <2>1. /\ inv[k] \in Records /\ inv[k].path \in Paths /\ inv[k].profile \in Profile
        /\ inv[k].deployments \subseteq Alias
        /\ inv[k].path \notin Loose => inv[k].path[1] = inv[k].profile
    BY <1>1, <1>2, RecordParts
  <2>2. new \in Records /\ new.path = inv[k].path /\ new.profile = inv[k].profile
    BY <2>1 DEF Records
  <2> HIDE DEF new
  <2> QED  BY <2>1, <2>2, HomeAssumption DEF FitRecords
<1>4. inv' = [inv EXCEPT ![k] = new]
  BY <1>1
<1> HIDE DEF new
<1>5. /\ inv' \in Inventories
      /\ \A j \in Key : inv'[j] = None <=> inv[j] = None
      /\ \A j \in Key : inv[j] # None => inv'[j].path = inv[j].path
  BY <1>1, <1>2, <1>3, <1>4 DEF Inventories
<1>6. HomeTypeInv'
  BY <1>1, <1>5, EditorAssumption DEF IInv, HomeTypeInv
<1>7. ~Busy' /\ WorkInv'
  BY <1>1 DEF IInv, WorkInv, Busy
<1>8. TreeInv' /\ ConfigInv' /\ HostsInv' /\ AskInv'
  BY <1>1, <1>7 DEF IInv, TreeInv, ConfigInv, HostsInv, AskInv, Follows
<1>9. RecordsInv'
  BY <1>1, <1>5, <1>7 DEF IInv, RecordsInv, InPlace
<1> QED  BY <1>1, <1>6, <1>7, <1>8, <1>9 DEF IInv, Ends

LEMMA InitHolds ==
  ASSUME AdoptsOutside, Init
  PROVE  IInv
<1>1. manifest \in GoodManifests
  BY HomeAssumption DEF Init, GoodManifests
<1> DEFINE paths == Owned(manifest) \cup Loose
<1>2. PICK at \in {Keyed(paths)}, deployed \in SUBSET Alias :
         /\ \A a \in deployed : Declared(manifest, a)
         /\ files = [x \in Paths |-> IF x \in DOMAIN at THEN at[x] ELSE None]
         /\ inv = [k \in Key |->
               IF \E r \in KeyRefs(manifest) : at[IdentityFile(manifest, r)] = k
               THEN LET r == CHOOSE q \in KeyRefs(manifest) : at[IdentityFile(manifest, q)] = k
                    IN  [path |-> IdentityFile(manifest, r), profile |-> r[1],
                         deployments |-> deployed \cap HostsForKey(manifest, r)]
               ELSE None]
         /\ trusts = [s \in Server |-> {at[IdentityFile(manifest, RefOf(manifest, a))] :
                                         a \in {b \in deployed : ServerOf[b] = s}}]
         /\ pins = {ServerOf[a] : a \in deployed}
  BY DEF Init
<1>3. at \in [paths -> Key]
  <2>1. \E f \in [paths -> Key] : \A x, y \in paths : f[x] = f[y] => x = y
    BY HomeAssumption DEF Init
  <2> QED  BY <1>2, <2>1 DEF Keyed
<1>4. /\ KeyRefs(manifest) \subseteq Refs
      /\ \A r \in KeyRefs(manifest) : IdentityFile(manifest, r) \in Owned(manifest)
      /\ paths \subseteq Paths
  BY <1>1, OwnedPaths DEF KeyRefs, Owned, Paths
<1>5. /\ \A x \in paths : files[x] = at[x] /\ at[x] \in Key
      /\ \A x \in Paths : files[x] # None => x \in paths
      /\ files \in [Paths -> Key \cup {None}]
  <2> HIDE DEF paths
  <2>1. DOMAIN at = paths
    BY <1>3
  <2> QED  BY <1>2, <1>3, <1>4, <2>1
<1>6. ASSUME NEW r \in KeyRefs(manifest)
      PROVE  /\ r[1] \in Profile /\ ProfileDir(manifest, r[1]) \in Dirs
             /\ IdentityFile(manifest, r) \in Paths
             /\ \/ IdentityFile(manifest, r) \in Loose
                \/ /\ IdentityFile(manifest, r)[1] = r[1]
                   /\ DirOf(IdentityFile(manifest, r)) = ProfileDir(manifest, r[1])
  <2>1. r \in Refs
    BY <1>4
  <2>2. CASE manifest.keys[r] \in {"no", "yes"}
    <3>1. IdentityFile(manifest, r) = <<r[1], manifest.category[r[1]], r[2]>>
      BY <1>1, <2>1, <2>2, PathOfRef
    <3> QED  BY <1>1, <2>1, <3>1, PathOfRef DEF DirOf, ProfileDir, Dirs
  <2>3. CASE manifest.keys[r] \notin {"no", "yes"}
    <3>1. IdentityFile(manifest, r) = manifest.keys[r] /\ manifest.keys[r] \in Adoptable
      BY <1>1, <2>1, <2>3, PathOfRef
    <3>2. IdentityFile(manifest, r) \in Loose
      BY <3>1 DEF AdoptsOutside
    <3> QED  BY <1>1, <2>1, <3>2, PathOfRef DEF ProfileDir, Dirs
  <2> QED  BY <2>2, <2>3
<1>7. ASSUME NEW k \in Key, inv[k] # None
      PROVE  inv[k] \in FitRecords /\ files[inv[k].path] = k
  <2>1. \E r \in KeyRefs(manifest) : at[IdentityFile(manifest, r)] = k
    BY <1>2, <1>7
  <2> DEFINE r == CHOOSE q \in KeyRefs(manifest) : at[IdentityFile(manifest, q)] = k
  <2>2. r \in KeyRefs(manifest) /\ at[IdentityFile(manifest, r)] = k
    BY <2>1
  <2>3. inv[k] = [path |-> IdentityFile(manifest, r), profile |-> r[1],
                  deployments |-> deployed \cap HostsForKey(manifest, r)]
    BY <1>2, <2>1
  <2> HIDE DEF r
  <2>4. inv[k] \in FitRecords /\ inv[k].path = IdentityFile(manifest, r)
    BY <1>2, <1>6, <2>2, <2>3 DEF FitRecords, Records
  <2> QED  BY <1>4, <1>5, <2>2, <2>4
<1>8. inv \in Inventories
  <2>1. inv = [k \in Key |-> inv[k]]
    BY <1>2
  <2>2. \A k \in Key : inv[k] \in FitRecords \cup {None}
    BY <1>7
  <2> QED  BY <2>1, <2>2 DEF Inventories
<1>9. trusts \in [Server -> SUBSET Key]
  <2>1. \A a \in deployed : at[IdentityFile(manifest, RefOf(manifest, a))] \in Key
    BY <1>1, <1>2, <1>5, OwnedPaths
  <2> QED  BY <1>2, <2>1
<1>10. pins \subseteq Server
  BY <1>2, EditorAssumption
<1>11. /\ dirs = {ProfileDir(manifest, r[1]) : r \in KeyRefs(manifest)}
       /\ config = Rendered(manifest) /\ work = Idle /\ mishap = FALSE
  BY DEF Init
<1>12. HomeTypeInv
  BY <1>1, <1>5, <1>6, <1>8, <1>9, <1>10, <1>11, OwnedPaths DEF HomeTypeInv
<1>13. TreeInv
  <2> SUFFICES ASSUME NEW x \in Paths \ Loose, files[x] # None
               PROVE  DirOf(x) \in dirs
    BY DEF TreeInv
  <2>1. x \in Owned(manifest)
    BY <1>5
  <2>2. PICK r \in KeyRefs(manifest) : x = IdentityFile(manifest, r)
    BY <2>1 DEF Owned
  <2> QED  BY <1>6, <1>11, <2>2
<1>14. ~Busy /\ WorkInv
  BY <1>11, IdleIsWork DEF Busy, WorkInv
<1>15. ConfigInv /\ RecordsInv /\ HostsInv /\ AskInv
  BY <1>7, <1>11, <1>14 DEF ConfigInv, Follows, RecordsInv, InPlace, HostsInv, AskInv
<1> QED  BY <1>12, <1>13, <1>14, <1>15 DEF IInv

LEMMA EditStep ==
  ASSUME IInv, AdoptsOutside, Edit \/ Delete \/ KeyCommand
  PROVE  Begun \/ \E a \in Alias : Deploy(a)
<1>1. CASE Edit
  BY <1>1, AddProfileBegins, EditProfileBegins, AddHostBegins, EditHostBegins, SetNamingBegins,
     SetCategoryBegins DEF Edit
<1>2. CASE Delete
  BY <1>2, DeleteHostBegins, DeleteProfileBegins, DeleteKeyBegins DEF Delete
<1>3. CASE KeyCommand
  BY <1>3, ReconcileBegins, AddKeyBegins, AdoptKeyBegins DEF KeyCommand
<1> QED  BY <1>1, <1>2, <1>3

LEMMA NextStep ==
  ASSUME IInv, AdoptsOutside, [Next]_editorVars
  PROVE  IInv' /\ Ends
<1>1. CASE UNCHANGED editorVars
  <2>1. /\ manifest' = manifest /\ inv' = inv /\ files' = files /\ dirs' = dirs /\ work' = work
        /\ trusts' = trusts /\ config' = config /\ pins' = pins /\ mishap' = mishap
    BY <1>1 DEF editorVars, diskVars, outsideVars
  <2>2. HomeTypeInv' /\ TreeInv' /\ WorkInv'
    BY <2>1 DEF IInv, HomeTypeInv, TreeInv, WorkInv, Busy, SavesInv, MovesInv
  <2>3. ConfigInv' /\ RecordsInv'
    BY <2>1 DEF IInv, ConfigInv, ConfigPlan, Follows, RecordsInv, RecordsPlan, Moved, InPlace, Busy
  <2>4. HostsInv' /\ AskInv'
    BY <2>1 DEF IInv, HostsInv, HostsPlan, Kept, Moved, AskInv, AskPlan, Busy
  <2> QED  BY <2>1, <2>2, <2>3, <2>4 DEF IInv, Ends, Busy
<1>2. CASE Edit \/ Delete \/ KeyCommand
  <2>1. CASE Begun
    <3>1. PICK w : Begin(w) /\ PlanFits(w)
      BY <2>1 DEF Begun
    <3> QED  BY <3>1, BeginStep, FreeToBegin DEF Ends
  <2> QED  BY <1>2, <2>1, EditStep, DeployStep
<1>3. CASE Step
  BY <1>3, RenameStep, SaveManifestStep, SaveManifestFailsStep, SaveInventoryStep, RenderConfigStep,
     PruneStep, MintStep, RevokeStep, RemoveFileStep, RemoveDirStep DEF Step
<1>4. CASE CutShort
  BY <1>4, CutShortStep
<1> QED  BY <1>1, <1>2, <1>3, <1>4 DEF Next

\* Every reachable state of the editor has each part of the invariant: together
\* the parts are inductive (services/editor, services/lifecycle).
THEOREM EditorInvariance ==
  ASSUME AdoptsOutside
  PROVE  EditorSpec => []IInv
<1>1. Init => IInv
  BY InitHolds
<1>2. IInv /\ [Next]_editorVars => IInv'
  BY NextStep
<1> QED  BY <1>1, <1>2, PTL DEF EditorSpec

\* Whatever is edited, adopted, moved or deleted, and wherever it fails, the
\* manifest stays valid and without leftovers of a profile that is gone
\* (manifest.Validate, DeleteProfile), and no key lies in a directory that is not
\* there.
THEOREM EditorTypeCorrect ==
  ASSUME AdoptsOutside
  PROVE  EditorSpec => []EditorTypeOK
<1>1. IInv => EditorTypeOK
  <2> SUFFICES ASSUME IInv PROVE EditorTypeOK
    OBVIOUS
  <2>1. manifest \in Manifests /\ Valid(manifest) /\ Tidy(manifest)
    BY DEF IInv, HomeTypeInv, GoodManifests
  <2>2. inv \in [Key -> Records \cup {None}]
    <3>1. FitRecords \subseteq Records
      BY DEF FitRecords
    <3> QED  BY <3>1 DEF IInv, HomeTypeInv, Inventories
  <2> QED  BY <2>1, <2>2 DEF IInv, HomeTypeInv, TreeInv, Dirs, EditorTypeOK
<1> QED  BY <1>1, EditorInvariance, PTL

\* When no command is under way and none was cut short, ~/.ssh/config names the
\* file the manifest gives each host, and each inventory record the file its key
\* is in (change.ApplyManifestEdit, editor.SetCategory, lifecycle).
THEOREM FilesFollow ==
  ASSUME AdoptsOutside
  PROVE  EditorSpec => []FilesFollowTheManifest
<1>1. IInv => FilesFollowTheManifest
  <2> SUFFICES ASSUME IInv, Settled PROVE ConfigIsCurrent /\ RecordsPointAtTheirKeys
    BY DEF FilesFollowTheManifest, ConfigIsCurrent, RecordsPointAtTheirKeys
  <2>1. ~mishap /\ ~Busy
    BY DEF Settled, Busy
  <2>2. Follows(manifest) /\ InPlace(inv)
    BY <2>1 DEF IInv, ConfigInv, RecordsInv
  <2> QED  BY <2>2 DEF ConfigIsCurrent, RecordsPointAtTheirKeys, Follows, InPlace, Recorded
<1> QED  BY <1>1, EditorInvariance, PTL

-----------------------------------------------------------------------------
(***************************************************************************)
(* What a step may not do                                                  *)
(***************************************************************************)

RecordsStay ==
    \A k \in Key : inv[k] # None /\ files[inv[k].path] = k /\ inv[k].path \in Owned(manifest)
        => inv'[k] # None
PinsStay ==
    \A a \in Alias : Declared(manifest', a) /\ ServerOf[a] \in pins => ServerOf[a] \in pins'

LEMMA InventorySaved ==
  ASSUME IInv, SaveInventory
  PROVE  RecordsStay
<1>1. inv' = work.inv /\ Busy /\ Head(work.steps) = "inventory"
  BY DEF SaveInventory, Doing, Busy
<1>2. SavesInv(work) /\ MovesInv(work) /\ work.manifest = manifest /\ "inventory" \in Ahead
  BY <1>1, SameWork, Late DEF IInv, LateSteps
<1>3. CASE work.op = "category"
  BY <1>1, <1>2, <1>3 DEF MovesInv, Ahead, RecordsStay
<1>4. CASE work.op # "category"
  BY <1>1, <1>2, <1>4 DEF SavesInv, Ahead, RecordsStay
<1> QED  BY <1>3, <1>4

LEMMA KeyMinted ==
  ASSUME IInv, NEW r \in Refs, Mint(r)
  PROVE  RecordsStay
<1> DEFINE path == IdentityFile(manifest, r)
           new == NotDeployed(r, path)
<1>1. \/ /\ files[path] = None /\ Fresh # {}
         /\ inv' = [Dropped(inv, RecordedAt(inv, path)) EXCEPT ![NewKey] = new]
      \/ inv' = inv
      \/ inv' = [inv EXCEPT ![files[path]] = new]
  BY DEF Mint
<1>2. inv \in Inventories /\ manifest \in GoodManifests
  BY DEF IInv, HomeTypeInv
<1>3. new # None
  <2>1. path \in Paths /\ r[1] \in Profile
    BY <1>2, PathOfRef
  <2>2. new \in Records
    BY <2>1 DEF NotDeployed, Records
  <2> QED  BY <2>2, HomeAssumption
<1> DEFINE i == Dropped(inv, RecordedAt(inv, path))
<1>4. /\ i \in Inventories
      /\ \A k \in Key : i[k] = IF inv[k] # None /\ inv[k].path = path THEN None ELSE inv[k]
  BY <1>2, DroppedParts DEF RecordedAt
<1>5. CASE files[path] = None /\ inv' = [i EXCEPT ![NewKey] = new]
  <2> HIDE DEF path, new, i
  <2> SUFFICES ASSUME NEW k \in Key, inv[k] # None, files[inv[k].path] = k
               PROVE  inv'[k] # None
    BY DEF RecordsStay
  <2>1. i[k] # None
    BY <1>4, <1>5, EditorAssumption
  <2>2. DOMAIN i = Key
    BY <1>4 DEF Inventories
  <2> QED  BY <1>3, <1>5, <2>1, <2>2
<1>6. CASE inv' = inv
  BY <1>6 DEF RecordsStay
<1>7. CASE inv' = [inv EXCEPT ![files[path]] = new]
  <2> HIDE DEF path, new, i
  <2>1. DOMAIN inv = Key
    BY <1>2 DEF Inventories
  <2> QED  BY <1>3, <1>7, <2>1 DEF RecordsStay
<1> QED  BY <1>1, <1>5, <1>6, <1>7

LEMMA KeyDeployed ==
  ASSUME IInv, NEW a \in Alias, Deploy(a)
  PROVE  RecordsStay
<1> DEFINE k == Uses(a)
           new == [inv[k] EXCEPT !.deployments = @ \cup {a}]
<1>1. k \in Key /\ inv[k] # None /\ inv' = [inv EXCEPT ![k] = new]
  BY DEF Deploy, Recorded
<1> HIDE DEF k
<1>2. inv \in Inventories
  BY DEF IInv, HomeTypeInv
<1>3. new # None
  <2>1. inv[k] \in Records
    BY <1>1, <1>2, RecordParts
  <2>2. new \in Records
    BY <2>1 DEF Records
  <2> QED  BY <2>2, HomeAssumption
<1> HIDE DEF new
<1>4. DOMAIN inv = Key
  BY <1>2 DEF Inventories
<1> QED  BY <1>1, <1>3, <1>4 DEF RecordsStay

LEMMA ThingsStay ==
  ASSUME IInv, [Next]_editorVars
  PROVE  RecordsStay /\ PinsStay
<1>1. CASE inv' = inv /\ pins' = pins
  BY <1>1 DEF RecordsStay, PinsStay
<1>2. CASE SaveInventory
  BY <1>2, InventorySaved DEF SaveInventory, outsideVars, PinsStay
<1>3. ASSUME NEW r \in Refs, Mint(r)
      PROVE  RecordsStay /\ PinsStay
  BY <1>3, KeyMinted DEF Mint, outsideVars, PinsStay
<1>4. ASSUME NEW a \in Alias, Deploy(a)
      PROVE  RecordsStay /\ PinsStay
  BY <1>4, KeyDeployed DEF Deploy, PinsStay
<1>5. CASE Prune
  BY <1>5 DEF Prune, LiveTokens, RecordsStay, PinsStay
<1>6. ASSUME NEW w, Begin(w)
      PROVE  inv' = inv /\ pins' = pins
  BY <1>6 DEF Begin, outsideVars
<1>7. CASE Edit
  BY <1>1, <1>6, <1>7 DEF Edit, AddProfile, EditProfile, AddHost, EditHost, SetNaming, SetCategory
<1>8. CASE Delete
  <2>1. \A a \in Alias, revoke, purge \in BOOLEAN : DeleteHost(a, revoke, purge) => inv' = inv /\ pins' = pins
    BY <1>6 DEF DeleteHost
  <2>2. \A q \in Profile, revoke, purge \in BOOLEAN : DeleteProfile(q, revoke, purge) => inv' = inv /\ pins' = pins
    BY <1>6 DEF DeleteProfile
  <2>3. \A r \in Refs, revoke, purge \in BOOLEAN : DeleteKey(r, revoke, purge) => inv' = inv /\ pins' = pins
    BY <1>6 DEF DeleteKey
  <2> QED  BY <1>1, <1>8, <2>1, <2>2, <2>3 DEF Delete
<1>9. CASE KeyCommand
  BY <1>1, <1>4, <1>6, <1>9 DEF KeyCommand, Reconcile, AddKey, AdoptKey
<1>10. CASE Step
  <2>1. Rename \/ SaveManifest \/ SaveManifestFails \/ RenderConfig \/ RemoveDir => inv' = inv /\ pins' = pins
    BY DEF Rename, SaveManifest, SaveManifestFails, RenderConfig, RemoveDir, outsideVars
  <2>2. \A a \in Alias, k \in Key : Revoke(a, k) => inv' = inv /\ pins' = pins
    BY DEF Revoke
  <2>3. \A path \in Paths : RemoveFile(path) => inv' = inv /\ pins' = pins
    BY DEF RemoveFile, outsideVars
  <2> QED  BY <1>1, <1>2, <1>3, <1>5, <1>10, <2>1, <2>2, <2>3 DEF Step
<1>11. CASE CutShort \/ UNCHANGED editorVars
  BY <1>1, <1>11 DEF CutShort, editorVars, outsideVars
<1> QED  BY <1>7, <1>8, <1>9, <1>10, <1>11 DEF Next

\* A command leaves every host it is not about with the key file it had, every
\* key the manifest still owns with its record (pruneIdents), and every server a
\* host is left on with its pin (known_hosts Prune).
THEOREM OthersKeep ==
  ASSUME AdoptsOutside
  PROVE  EditorSpec => OthersKeepTheirs
<1> DEFINE HostsKeep ==
               work.steps # <<>> /\ Settled' =>
                   \A a \in Alias \ work.edits :
                       work.held[a] # None /\ Declared(manifest', a) => Uses(a)' = work.held[a]
           RecordsKept ==
               \A k \in Recorded :
                   /\ files[inv[k].path] = k
                   /\ \E r \in KeyRefs(manifest) : IdentityFile(manifest, r) = inv[k].path
                   => inv'[k] # None
           PinsKept ==
               \A a \in Alias : Declared(manifest', a) /\ ServerOf[a] \in pins
                   => ServerOf[a] \in pins'
<1>1. IInv /\ [Next]_editorVars => HostsKeep
  <2> SUFFICES ASSUME IInv, [Next]_editorVars, Busy, Settled',
                      NEW a \in Alias \ work.edits, work.held[a] # None, Declared(manifest', a)
               PROVE  Uses(a)' = work.held[a]
    BY DEF Busy
  <2>1. Ends /\ ~Busy' /\ ~mishap'
    BY NextStep DEF Settled, Busy
  <2> QED  BY <2>1 DEF Ends, Uses, Declared
<1>2. IInv /\ [Next]_editorVars => RecordsKept
  BY ThingsStay DEF RecordsStay, Recorded, Owned
<1>3. IInv /\ [Next]_editorVars => PinsKept
  BY ThingsStay DEF PinsStay
<1> HIDE DEF HostsKeep, RecordsKept, PinsKept
<1>4. EditorSpec => [][HostsKeep]_editorVars /\ [][RecordsKept]_editorVars /\ [][PinsKept]_editorVars
  BY <1>1, <1>2, <1>3, EditorInvariance, PTL DEF EditorSpec
<1>5. HostsKeepTheirKeys <=> [][HostsKeep]_editorVars
  BY DEF HostsKeepTheirKeys, HostsKeep
<1>6. OwnedKeyKeepsItsRecord <=> [][RecordsKept]_editorVars
  BY DEF OwnedKeyKeepsItsRecord, RecordsKept
<1>7. NeededPinStays <=> [][PinsKept]_editorVars
  BY DEF NeededPinStays, PinsKept
<1> QED  BY <1>4, <1>5, <1>6, <1>7 DEF OthersKeepTheirs, SharedThingsStay

\* The record of a key deleted with --revoke goes only when each target it named
\* has been asked and has let go of the key, or is named in NotRevoked
\* (lifecycle.DeleteKey).
THEOREM DeletedKeyIsDealtWith ==
  ASSUME AdoptsOutside
  PROVE  EditorSpec => DeletedKeyIsRevokedOrReported
<1> DEFINE DealtWith == work.op = "key delete" /\ Doing("inventory") /\ work.revoke => RevokedOrReported
<1>1. IInv => DealtWith
  <2> SUFFICES ASSUME IInv, work.op = "key delete", Doing("inventory"), work.revoke
               PROVE  RevokedOrReported
    OBVIOUS
  <2>1. Busy /\ Head(work.steps) = "inventory"
    BY DEF Doing, Busy
  <2>2. "revoke" \notin Ahead /\ "inventory" \in Ahead
    BY <2>1, Late DEF LateSteps
  <2>3. work.ask = {}
    BY <2>1, <2>2 DEF IInv, AskInv, AskPlan, Ahead
  <2> QED  BY <2>1, <2>2, <2>3 DEF IInv, AskInv, AskPlan, Ahead, RevokedOrReported
<1> HIDE DEF DealtWith
<1>2. EditorSpec => [][DealtWith]_editorVars
  BY <1>1, EditorInvariance, PTL
<1>3. DeletedKeyIsRevokedOrReported <=> [][DealtWith]_editorVars
  BY DEF DeletedKeyIsRevokedOrReported, DealtWith
<1> QED  BY <1>2, <1>3

=============================================================================
