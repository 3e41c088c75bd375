----------------------------- MODULE Coordinates -----------------------------
(***************************************************************************)
(* From a matrix to the tests it stands for.  A matrix is written with axes *)
(* left loose; it is resolved against the tags that the workers advertise,  *)
(* its moving refs are pinned, it is expanded into jobs, and each job is a  *)
(* test coordinate that names the tags a worker must have.  Meanwhile hosts *)
(* are re-imaged and the workers' tags are edited.                          *)
(*                                                                          *)
(* Versions are numbers in their order, 0 for one that is not given; Blank  *)
(* is a name that is not given, and {} an axis the matrix does not have.    *)
(***************************************************************************)
EXTENDS Integers, FiniteSets

CONSTANTS
  Boxes,      \* the workers
  HostImages, \* what _detect_capability_tags may find on a host: sets of tags
  HandTags,   \* the tags a user gives or takes by hand
  Recipes     \* the matrices that are written

VARIABLES
  image,   \* what each host has
  tags,    \* Worker.tags
  usable,  \* the workers that are enabled
  recipe,  \* the matrix as written
  minted,  \* the snapshot resolved from it, or NotMinted
  byHand,  \* history: the tags of each worker that were given by hand, and not taken since
  seen     \* history: what the last refresh of each worker's tags found

coordVars == <<image, tags, usable, recipe, minted, byHand, seen>>

Blank     == ""
NotMinted == [minted |-> FALSE]
Rejected  == [rejected |-> TRUE]

-----------------------------------------------------------------------------
(* Tags. *)

Tag(axis, name, ver) == [axis |-> axis, name |-> name, ver |-> ver]

AutoAxes == {"os", "distro", "flavor", "arch", "compiler", "podman", "nix"}
AutoManaged(t) == t.axis \in AutoAxes

\* How a tag is written.  The name of an architecture is all that is behind the
\* colon; a tag with no name on its axis says nothing, and is left out here.
TagOK(t) ==
  /\ t = Tag(t.axis, t.name, t.ver) /\ t.ver \in Nat
  /\ t.axis \in {"os", "distro", "compiler", "arch"} => t.name # Blank
  /\ t.axis = "arch" => t.ver = 0

\* How a matrix is written: its axes hold values, some of them with a version.
NamedPair(c) == c = <<c[1], c[2]>> /\ c[1] # Blank

ASSUME CoordAssumption ==
  /\ IsFiniteSet(Boxes) /\ IsFiniteSet(HandTags) /\ \A t \in HandTags : TagOK(t)
  /\ \A h \in HostImages : IsFiniteSet(h) /\ \A t \in h : TagOK(t) /\ AutoManaged(t)
  /\ \A r \in Recipes : /\ \A c \in r.compilers \cup r.os \cup r.distro \cup r.flavor :
                             NamedPair(c)
                        /\ Blank \notin r.arches

\* Mutant: what an earlier refresh found is kept.
ResolveTagsKeeps(base, detected, add, remove) == ((base \cup detected) \cup add) \ remove

\* _resolve_tags: a refresh replaces the tags that detection manages and leaves
\* the others; then the tags to add and to remove.
ResolveTags(base, detected, add, remove) ==
  ((IF detected = {} THEN base ELSE detected \cup {t \in base : ~AutoManaged(t)})
    \cup add) \ remove

-----------------------------------------------------------------------------
(* Platforms: the registry. *)

KnownOs        == {"linux", "windows", "macos"}
DistroOf(f)    == IF f \in {"kubuntu", "xubuntu", "lubuntu"} THEN "ubuntu" ELSE Blank
KnownDistros   == {"ubuntu", "fedora", "debian", "arch", "rhel"}

\* resolve_platform: parents that are implied are filled in, parents that
\* contradict the registry are rejected.
ResolvePlatform(os, distro, flavor) ==
  LET d == IF distro = Blank THEN DistroOf(flavor) ELSE distro
      o == IF os = Blank /\ d # Blank THEN "linux" ELSE os
  IN  IF \/ o \notin KnownOs \cup {Blank}
         \/ flavor # Blank /\ d = Blank
         \/ flavor # Blank /\ DistroOf(flavor) \notin {Blank, d}
         \/ d # Blank /\ o # "linux"
      THEN Rejected
      ELSE [os |-> o, distro |-> d, flavor |-> flavor]

\* A level of the platform hierarchy with its version; Linux has none of its own.
PlatformCell(level, name, ver) ==
  LET At(l) == IF level = l THEN name ELSE Blank
      p == ResolvePlatform(At("os"), At("distro"), At("flavor"))
  IN  IF p = Rejected THEN {}
      ELSE {[os |-> p.os, osver |-> IF level = "os" /\ p.os # "linux" THEN ver ELSE 0,
             distro |-> p.distro, distrover |-> IF level = "distro" THEN ver ELSE 0,
             flavor |-> p.flavor, flavorver |-> IF level = "flavor" THEN ver ELSE 0]}

NoPlatform == [os |-> Blank, osver |-> 0, distro |-> Blank, distrover |-> 0,
               flavor |-> Blank, flavorver |-> 0]

\* _resolve_platform_axis: the levels do not multiply, they unite.
PlatformCells(config) ==
  LET CellsOf(level, entries) == UNION {PlatformCell(level, e[1], e[2]) : e \in entries}
      cells == CellsOf("os", config.os) \cup CellsOf("distro", config.distro)
               \cup CellsOf("flavor", config.flavor)
  IN  IF cells = {} THEN {NoPlatform} ELSE cells

-----------------------------------------------------------------------------
(* Expansion. *)

\* An axis that a matrix does not have contributes its default.
AxisOr(axis, default) == IF axis = {} THEN {default} ELSE axis

ForcedMode(kind) == CASE kind = "coverage"  -> "coverage"
                      [] kind = "sanitizer" -> "sanitize"
                      [] kind = "speed"     -> "profile"
                      [] OTHER -> Blank

FirstMode(config) == CHOOSE m \in AxisOr(config.modes, "release") : TRUE

NixHas(compiler) == compiler[1] \in {Blank, "clang"} \/ compiler = <<"gcc", 7>>

\* Where the source comes from: a ref resolves to commits, a branch or a range
\* only when it is pinned.
IsSha(ref) == ref.kind = "sha"

Points(config) ==
  AxisOr(config.refs, [kind |-> "none", commits |-> {0}]) \X
  config.kinds \X AxisOr(config.modes, "release") \X PlatformCells(config) \X
  AxisOr(config.arches, Blank) \X AxisOr(config.compilers, <<Blank, 0>>) \X
  AxisOr(config.isolations, "none") \X AxisOr(config.toolchains, "none") \X
  AxisOr(config.versions, 0)

\* Mutant: a kind that forces its mode is expanded once for each mode.
EveryPoint(config) == Points(config)

\* The points that become jobs: a kind that forces its mode has one.
JobPoints(config) ==
  {p \in Points(config) : ForcedMode(p[2]) # Blank => p[3] = FirstMode(config)}

\* The coordinate of a job: what identifies its test.  The ref of a branch and
\* the version of the project are no part of it.
CoordinateAt(p) ==
  [commit |-> IF IsSha(p[1]) THEN CHOOSE c \in p[1].commits : TRUE ELSE 0,
   kind |-> p[2], mode |-> IF ForcedMode(p[2]) # Blank THEN ForcedMode(p[2]) ELSE p[3],
   platform |-> p[4], arch |-> p[5], comp |-> p[6][1], compver |-> p[6][2],
   isolation |-> p[7], toolchain |-> p[8]]

\* expand_matrix rejects a matrix with a compiler that opp_env does not have.
ExpandMatrix(config) ==
  IF \E p \in JobPoints(config) : p[8] = "nix" /\ ~NixHas(p[6]) THEN {}
  ELSE {CoordinateAt(p) : p \in JobPoints(config)}

\* describe_expansion, of a matrix without a range: the axes multiplied.
Described(config) ==
  LET N(axis) == IF axis = {} THEN 1 ELSE Cardinality(axis)
  IN  N(config.refs) * N(config.kinds) * N(config.modes) * Cardinality(PlatformCells(config))
      * N(config.arches) * N(config.compilers) * N(config.isolations) * N(config.toolchains)
      * N(config.versions)

\* matrix_is_recipe.
MatrixIsRecipe(config) ==
  \/ config.compilers = {} \/ config.arches = {}
  \/ config.os = {} /\ config.distro = {} /\ config.flavor = {}
  \/ \E r \in config.refs : ~IsSha(r)
  \/ config.deps = "moving"

-----------------------------------------------------------------------------
(* Resolution against a set of tags. *)

Candidates(T, axis) == {<<t.name, t.ver>> : t \in {u \in T : u.axis = axis}}
NamesIn(cand) == {c[1] : c \in cand}

\* Mutant: the newest version of any name.
NewestOfAny(cand, name) ==
  LET vers == {c[2] : c \in cand}
  IN  IF vers = {} THEN 0 ELSE CHOOSE v \in vers : \A u \in vers : u <= v

Newest(cand, name) ==
  LET vers == {c[2] : c \in {x \in cand : x[1] = name}}
  IN  IF vers = {} THEN 0 ELSE CHOOSE v \in vers : \A u \in vers : u <= v

\* The first of the preferred names that is there, or else any fixed one.
PickName(names, order) ==
  LET listed == {i \in DOMAIN order : order[i] \in names}
  IN  IF listed # {} THEN order[CHOOSE i \in listed : \A j \in listed : i <= j]
      ELSE CHOOSE n \in names : TRUE

Preferred == [compiler |-> <<"clang", "gcc", "msvc">>, arch |-> <<"amd64", "aarch64">>,
              os |-> <<"linux", "macos", "windows">>]

Pick(T, axis) == PickName(NamesIn(Candidates(T, axis)), Preferred[axis])

\* Mutant: the newest distro, without its version.
PickPlatformName(T) ==
  LET distros == Candidates(T, "distro")
      d == CHOOSE d \in distros : \A e \in distros : e[2] <= d[2]
  IN  IF distros = {} THEN Rejected ELSE [NoPlatform EXCEPT !.os = "linux", !.distro = d[1]]

\* _resolve_platform_pick: the newest distro, or an OS at its newest version.
PickPlatform(T) ==
  LET distros == Candidates(T, "distro")
      oses    == Candidates(T, "os")
  IN  IF distros # {}
      THEN LET d == CHOOSE d \in distros : \A e \in distros : e[2] <= d[2]
           IN  [NoPlatform EXCEPT !.os = "linux", !.distro = d[1], !.distrover = d[2]]
      ELSE IF oses # {}
      THEN [NoPlatform EXCEPT !.os = Pick(T, "os"), !.osver = Newest(oses, Pick(T, "os"))]
      ELSE Rejected

\* resolve_loose_axes on a platform: one that is not given is picked, a version
\* that is not given is filled in.
ResolveLoosePlatform(p, T) ==
  IF p = NoPlatform THEN PickPlatform(T)
  ELSE IF p.distro # Blank /\ p.distrover = 0
  THEN LET v == Newest(Candidates(T, "distro"), p.distro)
       IN  IF v = 0 THEN Rejected ELSE [p EXCEPT !.distrover = v]
  ELSE IF p.os \notin {Blank, "linux"} /\ p.osver = 0
  THEN LET v == Newest(Candidates(T, "os"), p.os)
       IN  IF v = 0 THEN Rejected ELSE [p EXCEPT !.osver = v]
  ELSE p

\* resolve_loose_axes: an axis that the tags cannot supply rejects the job.
ResolveLooseAxes(c, T) ==
  LET compilers == Candidates(T, "compiler")
      arches    == Candidates(T, "arch")
      comp      == IF c.comp = Blank THEN Pick(T, "compiler") ELSE c.comp
      compver   == IF c.comp = Blank \/ c.compver = 0 THEN Newest(compilers, comp) ELSE c.compver
      platform  == ResolveLoosePlatform(c.platform, T)
  IN  IF \/ c.comp = Blank /\ compilers = {}
         \/ c.comp # Blank /\ compver = 0
         \/ c.arch = Blank /\ arches = {}
         \/ platform = Rejected
      THEN Rejected
      ELSE [c EXCEPT !.comp = comp, !.compver = compver, !.platform = platform,
                     !.arch = IF c.arch = Blank THEN Pick(T, "arch") ELSE c.arch]

\* validate_test_coord: everything that two runs of a test could differ in.
ValidCoord(c) ==
  LET p == c.platform IN
  /\ c.arch # Blank /\ c.comp # Blank /\ c.compver # 0 /\ p.os # Blank
  /\ p.os = "linux" => p.distro # Blank /\ p.distrover # 0 /\ p.osver = 0
  /\ p.os \in {"windows", "macos"} => p.osver # 0 /\ p.distro = Blank /\ p.flavor = Blank

\* A ref stands for a commit, a range for each of its commits.
CommitsOf(ref) == ref.commits

\* pin_matrix_refs, or the commit that was pushed in its place.
PinRefs(refs, pushed) ==
  IF pushed # {} THEN {[kind |-> "sha", commits |-> pushed, of |-> "push"]}
  ELSE UNION {{[kind |-> "sha", commits |-> {c}, of |-> r] : c \in CommitsOf(r)} : r \in refs}

\* pin_matrix_deps: a dependency on a branch is one on its commit.
PinDeps(deps) == IF deps = "moving" THEN "pinned" ELSE deps

\* resolve_loose_matrix_axes, then the pins.
ResolveMatrix(config, T, pushed) ==
  LET compilers == Candidates(T, "compiler")
      family    == Pick(T, "compiler")
      loose     == config.os = {} /\ config.distro = {} /\ config.flavor = {}
      p         == PickPlatform(T)
  IN  IF \/ config.compilers = {} /\ compilers = {}
         \/ config.arches = {} /\ Candidates(T, "arch") = {}
         \/ loose /\ p = Rejected
      THEN NotMinted
      ELSE [minted |-> TRUE, deps |-> PinDeps(config.deps), kinds |-> config.kinds,
            isolations |-> config.isolations, toolchains |-> config.toolchains,
            modes |-> AxisOr(config.modes, "release"), versions |-> config.versions,
            compilers |-> AxisOr(config.compilers, <<family, Newest(compilers, family)>>),
            arches |-> IF config.arches = {} THEN {Pick(T, "arch")} ELSE config.arches,
            os |-> IF loose /\ p.distro = Blank THEN {<<p.os, p.osver>>} ELSE config.os,
            distro |-> IF loose /\ p.distro # Blank THEN {<<p.distro, p.distrover>>}
                       ELSE config.distro,
            flavor |-> config.flavor, refs |-> PinRefs(config.refs, pushed)]

-----------------------------------------------------------------------------
(* Who may run a coordinate. *)

PlatformTag(p) ==
  IF p.flavor # Blank THEN {Tag("flavor", p.flavor, IF p.flavorver # 0 THEN p.flavorver ELSE p.distrover)}
  ELSE IF p.distro # Blank THEN {Tag("distro", p.distro, p.distrover)}
  ELSE IF p.os # Blank THEN {Tag("os", p.os, IF p.os = "linux" THEN 0 ELSE p.osver)}
  ELSE {}

\* required_tags_for_test: a container brings its platform and its compiler.
RequiredTags(c) ==
  (IF c.isolation = "podman" THEN {Tag("podman", Blank, 0)}
   ELSE PlatformTag(c.platform)
        \cup (IF c.toolchain = "nix" THEN {Tag("nix", Blank, 0)} ELSE {})
        \cup (IF c.comp # Blank /\ c.compver # 0 THEN {Tag("compiler", c.comp, c.compver)} ELSE {}))
  \cup (IF c.arch # Blank THEN {Tag("arch", c.arch, 0)} ELSE {})

\* worker_can_serve, of a worker without run-filters.
CanServe(w, c) == RequiredTags(c) \subseteq tags[w]

-----------------------------------------------------------------------------
(* The fleet and the matrix. *)

FleetTags == UNION {tags[w] : w \in usable}

CoordTypeOK ==
  /\ image \in [Boxes -> HostImages] /\ usable \subseteq Boxes
  /\ \A w \in Boxes : tags[w] \subseteq HandTags \cup UNION HostImages
  /\ recipe \in Recipes

CoordInit ==
  /\ image \in [Boxes -> HostImages] /\ tags = image /\ usable = Boxes
  /\ recipe \in Recipes /\ minted = NotMinted
  /\ byHand = [w \in Boxes |-> {}] /\ seen = image

Reimage(w) ==
  /\ image' \in {[image EXCEPT ![w] = h] : h \in HostImages \ {image[w]}}
  /\ UNCHANGED <<tags, usable, recipe, minted, byHand, seen>>

\* `worker update`: --replace, --auto-tags, --add and --remove, together.
EditTags(w) ==
  \E base \in {tags[w], HandTags}, fresh \in {{}, image[w]} :
    \E add, remove \in {{}} \cup {{t} : t \in HandTags} :
      /\ tags' = [tags EXCEPT ![w] = ResolveTags(base, fresh, add, remove)]
      /\ byHand' = [byHand EXCEPT ![w] =
           ((IF base = tags[w] THEN @ ELSE base) \cup add) \ remove]
      /\ seen' = [seen EXCEPT ![w] =
           IF fresh # {} THEN fresh ELSE IF base = tags[w] THEN @ ELSE {}]
      /\ UNCHANGED <<image, usable, recipe, minted>>

SetUsable(w) ==
  /\ usable' = IF w \in usable THEN usable \ {w} ELSE usable \cup {w}
  /\ UNCHANGED <<image, tags, recipe, minted, byHand, seen>>

WriteRecipe ==
  /\ recipe' \in Recipes \ {recipe} /\ minted' = NotMinted
  /\ UNCHANGED <<image, tags, usable, byHand, seen>>

\* resolve_matrix_recipe, by a user or for a pushed commit.
ResolveRecipe ==
  /\ MatrixIsRecipe(recipe)
  /\ \E pushed \in {{}, {1}} : minted' = ResolveMatrix(recipe, FleetTags, pushed)
  /\ minted' # NotMinted
  /\ UNCHANGED <<image, tags, usable, recipe, byHand, seen>>

CoordNext ==
  \/ WriteRecipe \/ ResolveRecipe
  \/ \E w \in Boxes : Reimage(w) \/ EditTags(w) \/ SetUsable(w)

CoordSpec == CoordInit /\ [][CoordNext]_coordVars

-----------------------------------------------------------------------------
\* A worker's tags follow its host: after a refresh, nothing an earlier image
\* had is advertised any longer unless a user gave it, and what a user gave
\* beyond detection's tags is not lost to a refresh.
TagsFollowTheHost ==
  \A w \in Boxes :
    /\ tags[w] \subseteq byHand[w] \cup seen[w]
    /\ {t \in byHand[w] : ~AutoManaged(t)} \subseteq tags[w]

\* Whether an entry of a matrix names its version too.
Versioned(config) ==
  /\ \A c \in config.compilers \cup config.distro : c[2] # 0
  /\ \A o \in config.os : o[1] # "linux" /\ o[2] # 0
  /\ config.flavor = {}

\* A snapshot leaves nothing loose: it is no recipe, and each of its jobs is a
\* valid coordinate as it stands, whatever becomes of the fleet; the versions
\* of what the recipe names itself apart.
SnapshotsDoNotMove ==
  minted # NotMinted /\ Versioned(recipe) =>
    /\ ~MatrixIsRecipe(minted)
    /\ \A c \in ExpandMatrix(minted) : ValidCoord(c)

\* Two entries of an axis name one version: the same, or one of them leaves it open.
Agree(v, u) == v = u \/ v = 0 \/ u = 0

SamePlatform(p, q) ==
  /\ p.os = q.os /\ p.distro = q.distro /\ p.flavor = q.flavor /\ p.flavorver = q.flavorver
  /\ Agree(p.osver, q.osver) /\ Agree(p.distrover, q.distrover)

\* Two points of a matrix that ask for the same, but for the version of the project.
AskTheSame(p, q) ==
  /\ p[1].commits = q[1].commits /\ \A i \in {2, 3, 5, 7, 8} : p[i] = q[i]
  /\ p[6][1] = q[6][1] /\ Agree(p[6][2], q[6][2])
  /\ SamePlatform(p[4], q[4])

\* Which jobs of a snapshot become one test: whenever they are queued, what each of
\* them leaves open is resolved again against the tags of that moment, and two
\* jobs have one coordinate then only if they ask for the same: the same commit,
\* though pinned from two refs; the same in every other axis, though one names the
\* version of its compiler or platform that the other leaves open; and any two
\* versions of the project, which no coordinate tells apart.
JobsAreTests ==
  minted # NotMinted =>
    \A a, b \in {<<p, ResolveLooseAxes(CoordinateAt(p), FleetTags)>> : p \in JobPoints(minted)} :
      a[2] = b[2] /\ a[2] # Rejected => AskTheSame(a[1], b[1])

\* What a host can resolve it can run: resolved against the tags of one worker,
\* as `opp_ci run` does, a job needs no tag that the worker does not have, but
\* for the axes that the job names itself.
OneHostServes ==
  \A w \in Boxes, c \in ExpandMatrix(recipe) :
    LET r == ResolveLooseAxes(c, tags[w]) IN
    r # Rejected =>
      \A t \in RequiredTags(r) \ tags[w] :
        \/ t.axis \in {"podman", "nix"}
        \/ t.axis = "arch" /\ c.arch # Blank
        \/ t.axis = "compiler" /\ c.compver # 0
        \/ t.axis \in {"distro", "os", "flavor"} /\ c.platform # NoPlatform

-----------------------------------------------------------------------------
\* fleet.py: candidates come only from advertised worker tags, so the pinned
\* coordinate is always schedulable.
PinnedIsSchedulable ==
  [][\A c \in IF ResolveRecipe /\ recipe.compilers = {} /\ recipe.arches = {}
                 /\ recipe.os \cup recipe.distro \cup recipe.flavor = {}
              THEN ExpandMatrix(minted') ELSE {} :
       \E w \in usable : CanServe(w, c)]_coordVars

\* describe_expansion: "how many Tests this matrix expands into", multiplied
\* "exactly as `expand_matrix` would".
DescribedIsExpanded ==
  minted # NotMinted => Cardinality(JobPoints(minted)) = Described(minted)
=============================================================================
