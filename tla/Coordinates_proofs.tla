------------------------- MODULE Coordinates_proofs -------------------------
(***************************************************************************)
(* Proofs about tags and matrices, for any workers, images, hand edits and   *)
(* recipes: a worker's tags follow its host, the jobs of a snapshot are      *)
(* tests of their own, a snapshot leaves nothing loose, and what a host      *)
(* resolves it can run.                                                      *)
(*                                                                          *)
(* The snapshot that is kept was resolved from the recipe that is kept,      *)
(* against a set of tags some fleet had: what holds of ResolveMatrix for     *)
(* every set of tags holds of it, whatever became of the fleet since.        *)
(***************************************************************************)
EXTENDS Coordinates, FiniteSetTheorems, WellFoundedInduction, TLAPS

AllTags == HandTags \cup UNION HostImages

\* Hypotheses on what is installed and on what users edit.

\* Linux is advertised with its distribution, and users leave both to detection.
LinuxIsNamed ==
  /\ \A h \in HostImages : (\E t \in h : t.axis = "os" /\ t.name = "linux") =>
                              \E t \in h : t.axis = "distro"
  /\ \A t \in HandTags : t.axis \notin {"os", "distro"}

\* What has versions is advertised with one.
FleetIsVersioned ==
  \A t \in AllTags : t.axis \in {"compiler", "distro"} \/ (t.axis = "os" /\ t.name # "linux")
                        => t.ver # 0

\* Linux itself has no version.
LinuxHasNoVersion == \A t \in AllTags : t.axis = "os" /\ t.name = "linux" => t.ver = 0

HasDistro(T) ==
  (\E t \in T : t.axis = "os" /\ t.name = "linux") => \E t \in T : t.axis = "distro"

ResolvedFrom(m, r) ==
  \E T \in SUBSET AllTags, pushed \in {{}, {1}} :
    /\ IsFiniteSet(T) /\ (LinuxIsNamed => HasDistro(T))
    /\ m = ResolveMatrix(r, T, pushed)

FleetTyped ==
  /\ image \in [Boxes -> HostImages] /\ usable \subseteq Boxes /\ recipe \in Recipes
  /\ tags \in [Boxes -> SUBSET AllTags] /\ byHand \in [Boxes -> SUBSET HandTags]
  /\ seen \in [Boxes -> SUBSET {t \in AllTags : AutoManaged(t)}]

TagsSane == \A w \in Boxes : IsFiniteSet(tags[w]) /\ (LinuxIsNamed => HasDistro(tags[w]))

CoordInv ==
  /\ FleetTyped /\ TagsSane /\ TagsFollowTheHost
  /\ minted # NotMinted => ResolvedFrom(minted, recipe)

-----------------------------------------------------------------------------
(* The tags of a worker. *)

LEMMA TagFacts ==
  /\ \A t \in AllTags : TagOK(t)
  /\ \A h \in HostImages : h \subseteq AllTags /\ IsFiniteSet(h) /\ \A t \in h : AutoManaged(t)
  /\ IsFiniteSet(HandTags) /\ HandTags \subseteq AllTags
  BY CoordAssumption DEF AllTags

LEMMA OsIsManaged ==
  \A t : t.axis \in {"os", "distro"} => AutoManaged(t)
  BY DEF AutoManaged, AutoAxes

-----------------------------------------------------------------------------
(* The invariant. *)

LEMMA FleetIsSane ==
  ASSUME CoordInv
  PROVE  /\ FleetTags \in SUBSET AllTags /\ IsFiniteSet(FleetTags)
         /\ LinuxIsNamed => HasDistro(FleetTags)
<1>1. /\ tags \in [Boxes -> SUBSET AllTags] /\ usable \subseteq Boxes /\ IsFiniteSet(usable)
      /\ \A w \in Boxes : IsFiniteSet(tags[w]) /\ (LinuxIsNamed => HasDistro(tags[w]))
  BY CoordAssumption, FS_Subset DEF CoordInv, FleetTyped, TagsSane
<1> DEFINE sets == {tags[w] : w \in usable}
           f == [w \in usable |-> tags[w]]
<1>2. IsFiniteSet(sets)
  <2>1. f \in Surjection(usable, sets)
    BY DEF Surjection
  <2> HIDE DEF f, sets
  <2> QED BY <1>1, <2>1, FS_Surjection
<1>3. \A T \in sets : IsFiniteSet(T)
  BY <1>1
<1>4. IsFiniteSet(FleetTags)
  <2> HIDE DEF sets
  <2>1. IsFiniteSet(UNION sets)
    BY <1>2, <1>3, FS_UNION
  <2> QED BY <2>1 DEF FleetTags, sets
<1>5. FleetTags \in SUBSET AllTags
  BY <1>1 DEF FleetTags
<1>6. LinuxIsNamed => HasDistro(FleetTags)
  BY <1>1 DEF FleetTags, HasDistro
<1> QED BY <1>4, <1>5, <1>6

LEMMA CoordInitInv ==
  ASSUME CoordInit
  PROVE  CoordInv
<1>1. /\ image \in [Boxes -> HostImages] /\ tags = image /\ seen = image /\ usable = Boxes
      /\ recipe \in Recipes /\ minted = NotMinted /\ byHand = [w \in Boxes |-> {}]
  BY DEF CoordInit
<1>2. \A w \in Boxes : image[w] \in HostImages
  BY <1>1
<1>3. tags \in [Boxes -> SUBSET AllTags]
      /\ seen \in [Boxes -> SUBSET {t \in AllTags : AutoManaged(t)}]
  BY <1>1, <1>2, TagFacts
<1>4. TagsSane
  <2>1. ASSUME LinuxIsNamed, NEW h \in HostImages
        PROVE  HasDistro(h)
    BY <2>1 DEF LinuxIsNamed, HasDistro
  <2> QED BY <1>1, <1>2, <2>1, TagFacts DEF TagsSane
<1> QED BY <1>1, <1>3, <1>4 DEF CoordInv, FleetTyped, TagsFollowTheHost

LEMMA EditTagsInv ==
  ASSUME CoordInv, NEW w \in Boxes, EditTags(w)
  PROVE  CoordInv'
<1>1. PICK base \in {tags[w], HandTags}, fresh \in {{}, image[w]},
           add, remove \in {{}} \cup {{t} : t \in HandTags} :
        /\ tags' = [tags EXCEPT ![w] = ResolveTags(base, fresh, add, remove)]
        /\ byHand' = [byHand EXCEPT ![w] =
             ((IF base = tags[w] THEN byHand[w] ELSE base) \cup add) \ remove]
        /\ seen' = [seen EXCEPT ![w] =
             IF fresh # {} THEN fresh ELSE IF base = tags[w] THEN seen[w] ELSE {}]
        /\ UNCHANGED <<image, usable, recipe, minted>>
  BY DEF EditTags
<1>2. /\ image[w] \in HostImages /\ tags[w] \in SUBSET AllTags /\ byHand[w] \in SUBSET HandTags
      /\ seen[w] \in SUBSET {t \in AllTags : AutoManaged(t)}
      /\ add \in SUBSET HandTags /\ remove \in SUBSET HandTags
      /\ tags[w] \subseteq byHand[w] \cup seen[w]
      /\ {t \in byHand[w] : ~AutoManaged(t)} \subseteq tags[w]
      /\ IsFiniteSet(tags[w]) /\ (LinuxIsNamed => HasDistro(tags[w]))
  BY <1>1 DEF CoordInv, FleetTyped, TagsSane, TagsFollowTheHost
<1> DEFINE now == tags[w]
           given == byHand[w]
           found == seen[w]
           now2 == ResolveTags(base, fresh, add, remove)
           given2 == ((IF base = now THEN given ELSE base) \cup add) \ remove
           found2 == IF fresh # {} THEN fresh ELSE IF base = now THEN found ELSE {}
<1>3. /\ now2 \in SUBSET AllTags /\ given2 \in SUBSET HandTags
      /\ found2 \in SUBSET {t \in AllTags : AutoManaged(t)}
      /\ IsFiniteSet(now2) /\ (LinuxIsNamed => HasDistro(now2))
      /\ now2 \subseteq given2 \cup found2 /\ {t \in given2 : ~AutoManaged(t)} \subseteq now2
  <2>1. /\ base \in {now, HandTags} /\ fresh \in {{}, image[w]}
        /\ now2 = ResolveTags(base, fresh, add, remove)
        /\ given2 = ((IF base = now THEN given ELSE base) \cup add) \ remove
        /\ found2 = IF fresh # {} THEN fresh ELSE IF base = now THEN found ELSE {}
    BY <1>1
  <2>2. /\ image[w] \in HostImages /\ now \in SUBSET AllTags /\ given \in SUBSET HandTags
        /\ found \in SUBSET {t \in AllTags : AutoManaged(t)}
        /\ add \in SUBSET HandTags /\ remove \in SUBSET HandTags
        /\ now \subseteq given \cup found
        /\ {t \in given : ~AutoManaged(t)} \subseteq now
        /\ IsFiniteSet(now) /\ (LinuxIsNamed => HasDistro(now))
    BY <1>2
  <2> HIDE DEF now, given, found, now2, given2, found2
  <2> DEFINE kept == IF fresh = {} THEN base ELSE fresh \cup {t \in base : ~AutoManaged(t)}
  <2>3. now2 = (kept \cup add) \ remove
    BY <2>1 DEF ResolveTags
  <2>4. /\ base \subseteq AllTags /\ fresh \subseteq AllTags /\ \A t \in fresh : AutoManaged(t)
        /\ HandTags \subseteq AllTags
    BY <2>1, <2>2, TagFacts
  <2>5. IsFiniteSet(now2)
    <3>1. IsFiniteSet(base) /\ IsFiniteSet(fresh) /\ IsFiniteSet(add)
      BY <2>1, <2>2, TagFacts, FS_EmptySet, FS_Subset
    <3>2. {t \in base : ~AutoManaged(t)} \in SUBSET base
      OBVIOUS
    <3>3. IsFiniteSet({t \in base : ~AutoManaged(t)})
      BY <3>1, <3>2, FS_Subset
    <3>4. IsFiniteSet(kept)
      BY <3>1, <3>3, FS_Union
    <3>5. IsFiniteSet(kept \cup add)
      BY <3>1, <3>4, FS_Union
    <3>6. now2 \in SUBSET (kept \cup add)
      BY <2>3
    <3> HIDE DEF kept
    <3> QED BY <3>5, <3>6, FS_Subset
  <2>6. now2 \in SUBSET AllTags /\ given2 \in SUBSET HandTags
    BY <2>1, <2>2, <2>3, <2>4
  <2>7. found2 \in SUBSET {t \in AllTags : AutoManaged(t)}
    BY <2>1, <2>2, <2>4
  <2>8. ASSUME LinuxIsNamed
        PROVE  HasDistro(now2)
    <3>1. \A t \in HandTags : t.axis \notin {"os", "distro"}
      BY <2>8 DEF LinuxIsNamed
    <3>2. HasDistro(base) /\ HasDistro(fresh)
      BY <2>1, <2>2, <2>8, <3>1 DEF LinuxIsNamed, HasDistro
    <3>3. SUFFICES ASSUME NEW t \in now2, t.axis = "os", t.name = "linux"
                   PROVE  \E u \in now2 : u.axis = "distro"
      BY DEF HasDistro
    <3>4. t \in kept
      BY <2>2, <2>3, <3>1, <3>3
    <3>5. \E u \in kept : u.axis = "distro"
      <4>1. CASE fresh = {}
        BY <3>2, <3>3, <3>4, <4>1 DEF HasDistro
      <4>2. CASE fresh # {}
        <5>1. t \in fresh
          BY <3>3, <3>4, <4>2, OsIsManaged
        <5> QED BY <3>2, <3>3, <4>2, <5>1 DEF HasDistro
      <4> QED BY <4>1, <4>2
    <3> QED BY <2>2, <2>3, <3>1, <3>5
  <2>9. now2 \subseteq given2 \cup found2
    BY <2>1, <2>2, <2>3, <2>4
  <2>10. {t \in given2 : ~AutoManaged(t)} \subseteq now2
    BY <2>1, <2>2, <2>3, <2>4
  <2> QED BY <2>5, <2>6, <2>7, <2>8, <2>9, <2>10
<1>4. /\ tags' = [tags EXCEPT ![w] = now2] /\ byHand' = [byHand EXCEPT ![w] = given2]
      /\ seen' = [seen EXCEPT ![w] = found2]
  BY <1>1
<1> HIDE DEF now2, given2, found2
<1>5. FleetTyped'
  BY <1>1, <1>3, <1>4 DEF CoordInv, FleetTyped
<1>6. \A v \in Boxes : v # w => tags'[v] = tags[v] /\ byHand'[v] = byHand[v] /\ seen'[v] = seen[v]
  BY <1>4 DEF CoordInv, FleetTyped
<1>7. tags'[w] = now2 /\ byHand'[w] = given2 /\ seen'[w] = found2
  BY <1>4 DEF CoordInv, FleetTyped
<1>8. TagsSane' /\ TagsFollowTheHost'
  BY <1>3, <1>6, <1>7 DEF CoordInv, TagsSane, TagsFollowTheHost
<1> QED BY <1>1, <1>5, <1>8 DEF CoordInv

LEMMA ResolveRecipeInv ==
  ASSUME CoordInv, ResolveRecipe
  PROVE  CoordInv'
<1>1. PICK pushed \in {{}, {1}} : minted' = ResolveMatrix(recipe, FleetTags, pushed)
  BY DEF ResolveRecipe
<1>2. UNCHANGED <<image, tags, usable, recipe, byHand, seen>>
  BY DEF ResolveRecipe
<1>3. ResolvedFrom(minted', recipe)
  BY <1>1, FleetIsSane DEF ResolvedFrom
<1> QED BY <1>2, <1>3 DEF CoordInv, FleetTyped, TagsSane, TagsFollowTheHost

LEMMA CoordStep ==
  ASSUME CoordInv, [CoordNext]_coordVars
  PROVE  CoordInv'
<1>1. CASE WriteRecipe
  <2>1. recipe' \in Recipes /\ minted' = NotMinted /\ UNCHANGED <<image, tags, usable, byHand, seen>>
    BY <1>1 DEF WriteRecipe
  <2> QED BY <2>1 DEF CoordInv, FleetTyped, TagsSane, TagsFollowTheHost, NotMinted
<1>2. ASSUME NEW w \in Boxes, Reimage(w)
      PROVE  CoordInv'
  <2>1. /\ image' \in [Boxes -> HostImages]
        /\ UNCHANGED <<tags, usable, recipe, minted, byHand, seen>>
    BY <1>2 DEF Reimage, CoordInv, FleetTyped
  <2> QED BY <2>1 DEF CoordInv, FleetTyped, TagsSane, TagsFollowTheHost
<1>3. ASSUME NEW w \in Boxes, SetUsable(w)
      PROVE  CoordInv'
  <2>1. usable' \subseteq Boxes /\ UNCHANGED <<image, tags, recipe, minted, byHand, seen>>
    BY <1>3 DEF SetUsable, CoordInv, FleetTyped
  <2> QED BY <2>1 DEF CoordInv, FleetTyped, TagsSane, TagsFollowTheHost
<1>4. CASE UNCHANGED coordVars
  BY <1>4 DEF coordVars, CoordInv, FleetTyped, TagsSane, TagsFollowTheHost
<1> QED BY <1>1, <1>2, <1>3, <1>4, EditTagsInv, ResolveRecipeInv DEF CoordNext

\* The fleet and the matrix, in every reachable state.
THEOREM CoordInvariant == CoordSpec => []CoordInv
  BY CoordInitInv, CoordStep, PTL DEF CoordSpec

\* A worker's tags follow its host: after a refresh nothing an earlier image had
\* is advertised any longer unless a user gave it, and a refresh loses nothing
\* that a user gave; for any images, and any edits in any order.
THEOREM HostTagsFollow == CoordSpec => []TagsFollowTheHost
<1>1. CoordInv => TagsFollowTheHost
  BY DEF CoordInv
<1> QED BY <1>1, CoordInvariant, PTL

-----------------------------------------------------------------------------
(* Picking from what a set of tags offers. *)

LEMMA LeastNumber ==
  ASSUME NEW S \in SUBSET Nat, S # {}
  PROVE  \E n \in S : \A k \in S : n <= k
<1>1. PICK n \in S : \A k \in S : ~ (<<k, n>> \in OpToRel(<, Nat))
  BY WFMin, NatLessThanWellFounded
<1>2. \A k \in S : ~(k < n)
  BY <1>1 DEF OpToRel
<1> QED BY <1>2

\* A finite set of numbers has a greatest one: there would be a smallest set without.
LEMMA GreatestNumber ==
  ASSUME NEW S \in SUBSET Nat, IsFiniteSet(S), S # {}
  PROVE  \E n \in S : \A k \in S : k <= n
<1> DEFINE Bounded(U) == \E n \in U : \A k \in U : k <= n
           Bad(U) == U \in SUBSET S /\ U # {} /\ ~Bounded(U)
           Sizes == {n \in Nat : \E U \in SUBSET S : Bad(U) /\ Cardinality(U) = n}
<1>1. SUFFICES ASSUME Bad(S)
               PROVE  FALSE
  OBVIOUS
<1>2. \A U \in SUBSET S : IsFiniteSet(U) /\ Cardinality(U) \in Nat
  BY FS_Subset, FS_CardinalityType
<1>3. Sizes # {} /\ Sizes \in SUBSET Nat
  BY <1>1, <1>2
<1>4. PICK n \in Sizes : \A k \in Sizes : n <= k
  <2> HIDE DEF Sizes
  <2> QED BY <1>3, LeastNumber
<1>5. PICK U \in SUBSET S : Bad(U) /\ Cardinality(U) = n
  OBVIOUS
<1>6. PICK x \in U : TRUE
  BY <1>5
<1> DEFINE V == U \ {x}
<1>7. V \in SUBSET S /\ Cardinality(V) = n - 1 /\ n \in Nat
  BY <1>2, <1>5, <1>6, FS_RemoveElement
<1>8. V = {} \/ Bounded(V)
  <2>1. Cardinality(V) \notin Sizes
    <3> HIDE DEF Sizes
    <3> QED BY <1>4, <1>7
  <2> QED BY <1>2, <1>7, <2>1
<1>9. CASE V = {}
  <2>1. U = {x} /\ x \in Nat
    BY <1>6, <1>9
  <2>2. x <= x
    BY <2>1
  <2> QED BY <1>5, <2>1, <2>2
<1>10. CASE Bounded(V)
  <2>1. PICK m \in V : \A k \in V : k <= m
    BY <1>10
  <2>2. x \in Nat /\ m \in Nat /\ U \in SUBSET Nat /\ U = V \cup {x}
    BY <1>6, <2>1
  <2>3. CASE x <= m
    BY <1>5, <2>1, <2>2, <2>3
  <2>4. CASE m <= x
    <3>1. \A k \in U : k <= x
      BY <2>1, <2>2, <2>4
    <3> QED BY <1>5, <1>6, <3>1
  <2> QED BY <2>2, <2>3, <2>4
<1> QED BY <1>8, <1>9, <1>10

LEMMA PickNameIn ==
  ASSUME NEW names, names # {}, NEW order, NEW n \in Nat, DOMAIN order = 1..n
  PROVE  PickName(names, order) \in names
<1> DEFINE listed == {i \in DOMAIN order : order[i] \in names}
<1>1. CASE listed # {}
  <2>1. listed \in SUBSET Nat
    OBVIOUS
  <2>2. \E i \in listed : \A j \in listed : i <= j
    <3> HIDE DEF listed
    <3> QED BY <1>1, <2>1, LeastNumber
  <2>3. (CHOOSE i \in listed : \A j \in listed : i <= j) \in listed
    BY <2>2
  <2> QED BY <1>1, <2>3 DEF PickName
<1>2. CASE listed = {}
  BY <1>2 DEF PickName
<1> QED BY <1>1, <1>2

LEMMA PickIn ==
  ASSUME NEW T, NEW axis \in {"compiler", "arch", "os"}, Candidates(T, axis) # {}
  PROVE  Pick(T, axis) \in NamesIn(Candidates(T, axis))
<1>1. DOMAIN Preferred[axis] = 1..3 \/ DOMAIN Preferred[axis] = 1..2
  BY DEF Preferred
<1>2. NamesIn(Candidates(T, axis)) # {}
  BY DEF NamesIn
<1>3. 2 \in Nat /\ 3 \in Nat
  OBVIOUS
<1> QED BY <1>1, <1>2, <1>3, PickNameIn DEF Pick

\* A candidate is a tag, read.
LEMMA CandidateFacts ==
  ASSUME NEW T \in SUBSET AllTags, IsFiniteSet(T), NEW axis
  PROVE  /\ IsFiniteSet(Candidates(T, axis))
         /\ \A c \in Candidates(T, axis) :
              c = <<c[1], c[2]>> /\ c[2] \in Nat /\ Tag(axis, c[1], c[2]) \in T
         /\ \A t \in T : t.axis = axis => Candidates(T, axis) # {}
<1> DEFINE S == {u \in T : u.axis = axis}
           f == [t \in S |-> <<t.name, t.ver>>]
<1>1. Candidates(T, axis) = {<<t.name, t.ver>> : t \in S}
  BY DEF Candidates
<1>2. IsFiniteSet(Candidates(T, axis))
  <2>1. f \in Surjection(S, Candidates(T, axis))
    BY <1>1 DEF Surjection
  <2>2. S \in SUBSET T
    OBVIOUS
  <2>3. IsFiniteSet(S)
    <3> HIDE DEF S
    <3> QED BY <2>2, FS_Subset
  <2> HIDE DEF f, S
  <2> QED BY <2>1, <2>3, FS_Surjection
<1>3. ASSUME NEW c \in Candidates(T, axis)
      PROVE  c = <<c[1], c[2]>> /\ c[2] \in Nat /\ Tag(axis, c[1], c[2]) \in T
  <2>1. PICK t \in S : c = <<t.name, t.ver>>
    BY <1>1
  <2>2. t = Tag(t.axis, t.name, t.ver) /\ t.ver \in Nat /\ t.axis = axis /\ t \in T
    BY <2>1, TagFacts DEF TagOK
  <2> QED BY <2>1, <2>2
<1>4. ASSUME NEW t \in T, t.axis = axis
      PROVE  Candidates(T, axis) # {}
  <2>1. t \in S
    BY <1>4
  <2> HIDE DEF S
  <2> QED BY <2>1, <1>1
<1> HIDE DEF S, f
<1> QED BY <1>2, <1>3, <1>4

LEMMA NewestIs ==
  ASSUME NEW cand, IsFiniteSet(cand), \A c \in cand : c = <<c[1], c[2]>> /\ c[2] \in Nat,
         NEW name
  PROVE  /\ name \in NamesIn(cand) => <<name, Newest(cand, name)>> \in cand
         /\ Newest(cand, name) # 0 => <<name, Newest(cand, name)>> \in cand
<1> DEFINE S == {x \in cand : x[1] = name}
           vers == {c[2] : c \in S}
           f == [c \in S |-> c[2]]
<1>1. vers \in SUBSET Nat /\ \A v \in vers : <<name, v>> \in cand
  OBVIOUS
<1>2. IsFiniteSet(vers)
  <2>1. f \in Surjection(S, vers)
    BY DEF Surjection
  <2>2. S \in SUBSET cand
    OBVIOUS
  <2>3. IsFiniteSet(S)
    <3> HIDE DEF S
    <3> QED BY <2>2, FS_Subset
  <2> HIDE DEF f, S, vers
  <2> QED BY <2>1, <2>3, FS_Surjection
<1>3. Newest(cand, name) = IF vers = {} THEN 0 ELSE CHOOSE v \in vers : \A u \in vers : u <= v
  BY DEF Newest
<1>4. vers # {} => Newest(cand, name) \in vers
  <2> HIDE DEF vers
  <2>1. vers # {} => \E v \in vers : \A u \in vers : u <= v
    BY <1>1, <1>2, GreatestNumber
  <2> QED BY <1>3, <2>1
<1>5. name \in NamesIn(cand) => vers # {}
  BY DEF NamesIn
<1> QED BY <1>1, <1>3, <1>4, <1>5

LEMMA NewestDistroIn ==
  ASSUME NEW cand, IsFiniteSet(cand), cand # {},
         \A c \in cand : c = <<c[1], c[2]>> /\ c[2] \in Nat
  PROVE  (CHOOSE d \in cand : \A e \in cand : e[2] <= d[2]) \in cand
<1> DEFINE vers == {c[2] : c \in cand}
           f == [c \in cand |-> c[2]]
<1>1. vers \in SUBSET Nat /\ vers # {}
  OBVIOUS
<1>2. IsFiniteSet(vers)
  <2>1. f \in Surjection(cand, vers)
    BY DEF Surjection
  <2> HIDE DEF f, vers
  <2> QED BY <2>1, FS_Surjection
<1>3. PICK v \in vers : \A u \in vers : u <= v
  <2> HIDE DEF vers
  <2> QED BY <1>1, <1>2, GreatestNumber
<1>4. \E d \in cand : \A e \in cand : e[2] <= d[2]
  BY <1>3
<1> QED BY <1>4

LEMMA BlankFacts == Blank # "linux" /\ Blank # "windows" /\ Blank # "macos"
  BY Zenon DEF Blank

\* The platform that is picked is one that is advertised.
LEMMA PickPlatformIs ==
  ASSUME NEW T \in SUBSET AllTags, IsFiniteSet(T), PickPlatform(T) # Rejected
  PROVE  \/ \E d : /\ d = <<d[1], d[2]>> /\ Tag("distro", d[1], d[2]) \in T
                   /\ PickPlatform(T) = [NoPlatform EXCEPT !.os = "linux", !.distro = d[1],
                                                          !.distrover = d[2]]
         \/ \E o : /\ o = <<o[1], o[2]>> /\ Tag("os", o[1], o[2]) \in T
                   /\ \A t \in T : t.axis # "distro"
                   /\ PickPlatform(T) = [NoPlatform EXCEPT !.os = o[1], !.osver = o[2]]
<1> DEFINE distros == Candidates(T, "distro")
           oses    == Candidates(T, "os")
           d == CHOOSE d \in distros : \A e \in distros : e[2] <= d[2]
           o == <<Pick(T, "os"), Newest(oses, Pick(T, "os"))>>
<1>1. PickPlatform(T) =
        IF distros # {}
        THEN [NoPlatform EXCEPT !.os = "linux", !.distro = d[1], !.distrover = d[2]]
        ELSE IF oses # {}
        THEN [NoPlatform EXCEPT !.os = Pick(T, "os"), !.osver = Newest(oses, Pick(T, "os"))]
        ELSE Rejected
  BY DEF PickPlatform
<1>2. /\ IsFiniteSet(distros) /\ IsFiniteSet(oses)
      /\ \A c \in distros : c = <<c[1], c[2]>> /\ c[2] \in Nat /\ Tag("distro", c[1], c[2]) \in T
      /\ \A c \in oses : c = <<c[1], c[2]>> /\ c[2] \in Nat /\ Tag("os", c[1], c[2]) \in T
      /\ \A t \in T : t.axis = "distro" => distros # {}
  BY CandidateFacts
<1>3. CASE distros # {}
  <2>1. d \in distros
    <3> HIDE DEF distros
    <3> QED BY <1>2, <1>3, NewestDistroIn
  <2> HIDE DEF distros, oses, d, o
  <2> QED BY <1>1, <1>2, <1>3, <2>1
<1>4. CASE distros = {} /\ oses # {}
  <2>1. o \in oses
    <3>1. Pick(T, "os") \in NamesIn(oses)
      BY <1>4, PickIn
    <3> HIDE DEF oses
    <3> QED BY <1>2, <3>1, NewestIs
  <2>2. o[1] = Pick(T, "os") /\ o[2] = Newest(oses, Pick(T, "os"))
    OBVIOUS
  <2> HIDE DEF distros, oses, d, o
  <2> QED BY <1>1, <1>2, <1>4, <2>1, <2>2
<1> QED BY <1>1, <1>3, <1>4

LEMMA PickCompilerIs ==
  ASSUME NEW T \in SUBSET AllTags, IsFiniteSet(T), Candidates(T, "compiler") # {}
  PROVE  Tag("compiler", Pick(T, "compiler"),
             Newest(Candidates(T, "compiler"), Pick(T, "compiler"))) \in T
<1> DEFINE cand == Candidates(T, "compiler")
           c == <<Pick(T, "compiler"), Newest(cand, Pick(T, "compiler"))>>
<1>1. /\ IsFiniteSet(cand) /\ Pick(T, "compiler") \in NamesIn(cand)
      /\ \A x \in cand : x = <<x[1], x[2]>> /\ x[2] \in Nat /\ Tag("compiler", x[1], x[2]) \in T
  BY CandidateFacts, PickIn
<1>2. c \in cand
  <2> HIDE DEF cand
  <2> QED BY <1>1, NewestIs
<1>3. c[1] = Pick(T, "compiler") /\ c[2] = Newest(cand, Pick(T, "compiler"))
  OBVIOUS
<1> HIDE DEF cand, c
<1>4. Tag("compiler", c[1], c[2]) \in T
  BY <1>1, <1>2
<1> QED BY <1>3, <1>4 DEF cand

LEMMA PickArchIs ==
  ASSUME NEW T \in SUBSET AllTags, IsFiniteSet(T), Candidates(T, "arch") # {}
  PROVE  Tag("arch", Pick(T, "arch"), 0) \in T /\ Pick(T, "arch") # Blank
<1> DEFINE cand == Candidates(T, "arch")
<1>1. PICK c \in cand : c[1] = Pick(T, "arch")
  BY PickIn DEF NamesIn
<1>2. Tag("arch", c[1], c[2]) \in T
  BY CandidateFacts
<1>3. TagOK(Tag("arch", c[1], c[2]))
  BY <1>2, TagFacts
<1> QED BY <1>1, <1>2, <1>3 DEF TagOK, Tag

\* What a job still needs when it is resolved against the tags T is something it
\* asked for itself, or a container.
LEMMA ResolvedNeeds ==
  ASSUME NEW T \in SUBSET AllTags, IsFiniteSet(T), LinuxHasNoVersion,
         NEW p, NEW c, c = CoordinateAt(p),
         NEW r, r = ResolveLooseAxes(c, T), r # Rejected,
         NEW t \in RequiredTags(r) \ T
  PROVE  \/ t.axis \in {"podman", "nix"}
         \/ t.axis = "arch" /\ c.arch # Blank
         \/ t.axis = "compiler" /\ c.compver # 0
         \/ t.axis \in {"distro", "os", "flavor"} /\ c.platform # NoPlatform
<1> DEFINE compilers == Candidates(T, "compiler")
           comp      == IF c.comp = Blank THEN Pick(T, "compiler") ELSE c.comp
           compver   == IF c.comp = Blank \/ c.compver = 0 THEN Newest(compilers, comp) ELSE c.compver
           platform  == ResolveLoosePlatform(c.platform, T)
           arch      == IF c.arch = Blank THEN Pick(T, "arch") ELSE c.arch
<1>1. /\ ~(c.comp = Blank /\ compilers = {}) /\ ~(c.arch = Blank /\ Candidates(T, "arch") = {})
      /\ platform # Rejected
      /\ r = [c EXCEPT !.comp = comp, !.compver = compver, !.platform = platform, !.arch = arch]
  BY DEF ResolveLooseAxes
<1>2. r.comp = comp /\ r.compver = compver /\ r.platform = platform /\ r.arch = arch
  BY <1>1 DEF CoordinateAt
<1>3. \/ t = Tag("podman", Blank, 0) \/ t = Tag("nix", Blank, 0)
      \/ t \in PlatformTag(platform)
      \/ t = Tag("compiler", comp, compver) /\ compver # 0
      \/ t = Tag("arch", arch, 0)
  BY <1>2 DEF RequiredTags
<1>4. CASE t = Tag("compiler", comp, compver) /\ compver # 0 /\ c.compver = 0
  <2>1. compver = Newest(compilers, comp)
    BY <1>4
  <2>2. <<comp, compver>> \in compilers
    <3>1. IsFiniteSet(compilers) /\ \A x \in compilers : x = <<x[1], x[2]>> /\ x[2] \in Nat
      BY CandidateFacts
    <3> HIDE DEF compilers, comp, compver
    <3> QED BY <1>4, <2>1, <3>1, NewestIs
  <2>3. \A x \in compilers : Tag("compiler", x[1], x[2]) \in T
    BY CandidateFacts
  <2> HIDE DEF compilers, comp, compver
  <2> QED BY <1>4, <2>2, <2>3
<1>5. CASE t = Tag("arch", arch, 0) /\ c.arch = Blank
  BY <1>1, <1>5, PickArchIs
<1>6. CASE t \in PlatformTag(platform)
  <2>1. t.axis \in {"distro", "os", "flavor"}
    BY <1>6 DEF PlatformTag, Tag
  <2>2. CASE c.platform = NoPlatform
    <3>1. platform = PickPlatform(T) /\ PickPlatform(T) # Rejected
      BY <1>1, <2>2 DEF ResolveLoosePlatform
    <3> HIDE DEF platform
    <3>2. CASE \E d : /\ d = <<d[1], d[2]>> /\ Tag("distro", d[1], d[2]) \in T
                     /\ platform = [NoPlatform EXCEPT !.os = "linux", !.distro = d[1], !.distrover = d[2]]
      <4>1. PICK d : /\ Tag("distro", d[1], d[2]) \in T
                     /\ platform = [NoPlatform EXCEPT !.os = "linux", !.distro = d[1], !.distrover = d[2]]
        BY <3>2
      <4>2. platform.flavor = Blank /\ platform.distro = d[1] /\ platform.distrover = d[2]
        BY <4>1 DEF NoPlatform
      <4>3. TagOK(Tag("distro", d[1], d[2]))
        BY <4>1, TagFacts
      <4>4. d[1] # Blank
        BY <4>3 DEF TagOK, Tag
      <4> QED BY <1>6, <4>1, <4>2, <4>4 DEF PlatformTag
    <3>3. CASE \E o : /\ o = <<o[1], o[2]>> /\ Tag("os", o[1], o[2]) \in T
                     /\ platform = [NoPlatform EXCEPT !.os = o[1], !.osver = o[2]]
      <4>1. PICK o : /\ Tag("os", o[1], o[2]) \in T
                     /\ platform = [NoPlatform EXCEPT !.os = o[1], !.osver = o[2]]
        BY <3>3
      <4>2. platform.flavor = Blank /\ platform.distro = Blank /\ platform.os = o[1] /\ platform.osver = o[2]
        BY <4>1 DEF NoPlatform
      <4>3. o[1] = "linux" => o[2] = 0
        BY <4>1 DEF LinuxHasNoVersion, Tag
      <4> QED BY <1>6, <4>1, <4>2, <4>3 DEF PlatformTag
    <3> QED BY <3>1, <3>2, <3>3, PickPlatformIs
  <2> QED BY <2>1, <2>2
<1> QED BY <1>3, <1>4, <1>5, <1>6 DEF Tag

\* What a host can resolve it can run: the tags a worker is missing for a job that
\* is resolved against its own tags stand for what the job names itself, or for
\* a container; whatever the worker is, and whatever its tags have become.
THEOREM HostServesWhatItResolves ==
  ASSUME LinuxHasNoVersion
  PROVE  CoordSpec => []OneHostServes
<1>1. CoordInv => OneHostServes
  <2> SUFFICES ASSUME CoordInv, NEW w \in Boxes, NEW c \in ExpandMatrix(recipe),
                      ResolveLooseAxes(c, tags[w]) # Rejected,
                      NEW t \in RequiredTags(ResolveLooseAxes(c, tags[w])) \ tags[w]
               PROVE  \/ t.axis \in {"podman", "nix"}
                      \/ t.axis = "arch" /\ c.arch # Blank
                      \/ t.axis = "compiler" /\ c.compver # 0
                      \/ t.axis \in {"distro", "os", "flavor"} /\ c.platform # NoPlatform
    BY DEF OneHostServes
  <2>1. tags[w] \in SUBSET AllTags /\ IsFiniteSet(tags[w])
    BY DEF CoordInv, FleetTyped, TagsSane
  <2>2. PICK p : c = CoordinateAt(p)
    BY DEF ExpandMatrix
  <2> QED BY <2>1, <2>2, ResolvedNeeds
<1> QED BY <1>1, CoordInvariant, PTL

-----------------------------------------------------------------------------
(* Snapshots. *)

\* What a snapshot m of a recipe r consists of, resolved against the tags T.
SnapshotOf(m, r, T, pushed) ==
  /\ m.deps = PinDeps(r.deps) /\ m.refs = PinRefs(r.refs, pushed) /\ m.flavor = r.flavor
  /\ m.compilers = AxisOr(r.compilers, <<Pick(T, "compiler"),
                            Newest(Candidates(T, "compiler"), Pick(T, "compiler"))>>)
  /\ r.compilers = {} => Candidates(T, "compiler") # {}
  /\ m.arches = IF r.arches = {} THEN {Pick(T, "arch")} ELSE r.arches
  /\ r.arches = {} => Candidates(T, "arch") # {}
  /\ ~(r.os = {} /\ r.distro = {} /\ r.flavor = {}) => m.os = r.os /\ m.distro = r.distro
  /\ r.os = {} /\ r.distro = {} /\ r.flavor = {} =>
       /\ PickPlatform(T) # Rejected
       /\ m.os = IF PickPlatform(T).distro = Blank
                 THEN {<<PickPlatform(T).os, PickPlatform(T).osver>>} ELSE {}
       /\ m.distro = IF PickPlatform(T).distro # Blank
                     THEN {<<PickPlatform(T).distro, PickPlatform(T).distrover>>} ELSE {}

LEMMA SnapshotFields ==
  \A r, T, pushed : ResolveMatrix(r, T, pushed) # NotMinted =>
                      SnapshotOf(ResolveMatrix(r, T, pushed), r, T, pushed)
<1> SUFFICES ASSUME NEW r, NEW T, NEW pushed, NEW m, m = ResolveMatrix(r, T, pushed), m # NotMinted
             PROVE  SnapshotOf(m, r, T, pushed)
  OBVIOUS
<1> QED BY DEF ResolveMatrix, SnapshotOf

\* Every ref of a snapshot is one commit.
Pinned(refs) == \A ref \in refs : ref.kind = "sha" /\ \E c : ref.commits = {c}

LEMMA RefsArePinned ==
  ASSUME NEW refs, NEW pushed \in {{}, {1}}
  PROVE  Pinned(PinRefs(refs, pushed))
<1>1. CASE pushed = {}
  <2>1. PinRefs(refs, pushed)
          = UNION {{[kind |-> "sha", commits |-> {c}, of |-> r] : c \in CommitsOf(r)} : r \in refs}
    BY <1>1 DEF PinRefs
  <2> SUFFICES ASSUME NEW ref \in PinRefs(refs, pushed)
               PROVE  ref.kind = "sha" /\ \E c : ref.commits = {c}
    BY DEF Pinned
  <2>2. PICK r \in refs : \E c \in CommitsOf(r) : ref = [kind |-> "sha", commits |-> {c}, of |-> r]
    BY <2>1
  <2> QED BY <2>2
<1>2. CASE pushed = {1}
  BY <1>2 DEF PinRefs, Pinned
<1> QED BY <1>1, <1>2

LEMMA PointFields ==
  ASSUME NEW m, NEW p \in JobPoints(m)
  PROVE  /\ p = <<p[1], p[2], p[3], p[4], p[5], p[6], p[7], p[8], p[9]>>
         /\ p[1] \in AxisOr(m.refs, [kind |-> "none", commits |-> {0}])
         /\ p[4] \in PlatformCells(m) /\ p[5] \in AxisOr(m.arches, Blank)
         /\ p[6] \in AxisOr(m.compilers, <<Blank, 0>>)
         /\ ForcedMode(p[2]) # Blank => p[3] = FirstMode(m)
<1>1. p \in Points(m) /\ (ForcedMode(p[2]) # Blank => p[3] = FirstMode(m))
  BY DEF JobPoints
<1> QED BY <1>1 DEF Points

\* A platform that is named at some level keeps the names, and the versions it has.
PlatformShape(p) ==
  p = [os |-> p.os, osver |-> p.osver, distro |-> p.distro, distrover |-> p.distrover,
       flavor |-> p.flavor, flavorver |-> p.flavorver]

LEMMA PlatformKept ==
  ASSUME NEW T, NEW p, PlatformShape(p), p # NoPlatform,
         NEW x, x = ResolveLoosePlatform(p, T), x # Rejected
  PROVE  /\ x.os = p.os /\ x.distro = p.distro /\ x.flavor = p.flavor /\ x.flavorver = p.flavorver
         /\ p.osver # 0 => x.osver = p.osver
         /\ p.distrover # 0 => x.distrover = p.distrover
<1>1. \/ x = p
      \/ p.distrover = 0 /\ \E v : x = [p EXCEPT !.distrover = v]
      \/ p.osver = 0 /\ \E v : x = [p EXCEPT !.osver = v]
  BY DEF ResolveLoosePlatform
<1>2. CASE x = p
  BY <1>2
<1>3. CASE p.distrover = 0 /\ \E v : x = [p EXCEPT !.distrover = v]
  BY <1>3 DEF PlatformShape
<1>4. CASE p.osver = 0 /\ \E v : x = [p EXCEPT !.osver = v]
  BY <1>4 DEF PlatformShape
<1> QED BY <1>1, <1>2, <1>3, <1>4

\* What is named with every axis of a matrix.
AxesAreNamed(m) ==
  /\ \A c \in m.compilers : c[1] # Blank
  /\ \A e \in m.os \cup m.distro \cup m.flavor : e[1] # Blank
  /\ m.compilers # {} /\ m.arches # {} /\ Blank \notin m.arches

LEMMA FlavorsHaveDistros ==
  /\ "ubuntu" # Blank /\ "linux" # Blank /\ DistroOf(Blank) = Blank
  /\ \A f : DistroOf(f) \in {"ubuntu", Blank}
  BY Zenon DEF DistroOf, Blank

\* A cell of a named entry has an operating system.
LEMMA CellHasOs ==
  ASSUME NEW level \in {"os", "distro", "flavor"}, NEW name, name # Blank, NEW ver,
         NEW p \in PlatformCell(level, name, ver)
  PROVE  p.os # Blank /\ PlatformShape(p)
<1> DEFINE At(l) == IF level = l THEN name ELSE Blank
           x == ResolvePlatform(At("os"), At("distro"), At("flavor"))
<1>1. /\ x # Rejected
      /\ p = [os |-> x.os, osver |-> IF level = "os" /\ x.os # "linux" THEN ver ELSE 0,
              distro |-> x.distro, distrover |-> IF level = "distro" THEN ver ELSE 0,
              flavor |-> x.flavor, flavorver |-> IF level = "flavor" THEN ver ELSE 0]
  BY DEF PlatformCell
<1>2. x.os # Blank
  <2>1. CASE level = "os"
    BY <1>1, <2>1, FlavorsHaveDistros DEF ResolvePlatform
  <2>2. CASE level = "distro"
    BY <1>1, <2>2, FlavorsHaveDistros DEF ResolvePlatform
  <2>3. CASE level = "flavor"
    BY <1>1, <2>3, FlavorsHaveDistros DEF ResolvePlatform
  <2> QED BY <2>1, <2>2, <2>3
<1> HIDE DEF x
<1>3. PlatformShape(p)
  BY <1>1 DEF PlatformShape
<1> QED BY <1>1, <1>2, <1>3

\* The platform is left open by all jobs of a matrix, or by none.
LEMMA CellsAreNamed ==
  ASSUME NEW m, AxesAreNamed(m)
  PROVE  \/ PlatformCells(m) = {NoPlatform}
         \/ \A p \in PlatformCells(m) : p # NoPlatform /\ PlatformShape(p)
<1> DEFINE CellsOf(level, entries) == UNION {PlatformCell(level, e[1], e[2]) : e \in entries}
           cells == CellsOf("os", m.os) \cup CellsOf("distro", m.distro)
                    \cup CellsOf("flavor", m.flavor)
<1>1. PlatformCells(m) = IF cells = {} THEN {NoPlatform} ELSE cells
  BY DEF PlatformCells
<1>2. \A p \in cells : p.os # Blank /\ PlatformShape(p)
  <2> SUFFICES ASSUME NEW p \in cells
               PROVE  p.os # Blank /\ PlatformShape(p)
    OBVIOUS
  <2>1. PICK level \in {"os", "distro", "flavor"}, e \in m.os \cup m.distro \cup m.flavor :
          p \in PlatformCell(level, e[1], e[2])
    OBVIOUS
  <2> QED BY <2>1, CellHasOs DEF AxesAreNamed
<1>3. NoPlatform.os = Blank
  BY DEF NoPlatform
<1> HIDE DEF cells
<1> QED BY <1>1, <1>2, <1>3

\* What resolving a job of such a matrix does to its coordinate.
LEMMA ResolvedKeeps ==
  ASSUME NEW m, AxesAreNamed(m), NEW p \in JobPoints(m), NEW T,
         NEW x, x = ResolveLooseAxes(CoordinateAt(p), T), x # Rejected
  PROVE  /\ x.commit = CoordinateAt(p).commit /\ x.mode = CoordinateAt(p).mode
         /\ x.kind = p[2] /\ x.arch = p[5] /\ x.isolation = p[7] /\ x.toolchain = p[8]
         /\ x.comp = p[6][1] /\ (p[6][2] # 0 => x.compver = p[6][2])
         /\ x.platform = ResolveLoosePlatform(p[4], T) /\ x.platform # Rejected
<1> DEFINE c        == CoordinateAt(p)
           comp     == IF c.comp = Blank THEN Pick(T, "compiler") ELSE c.comp
           compver  == IF c.comp = Blank \/ c.compver = 0
                       THEN Newest(Candidates(T, "compiler"), comp) ELSE c.compver
           platform == ResolveLoosePlatform(c.platform, T)
           arch     == IF c.arch = Blank THEN Pick(T, "arch") ELSE c.arch
<1>1. /\ platform # Rejected
      /\ x = [c EXCEPT !.comp = comp, !.compver = compver, !.platform = platform, !.arch = arch]
  BY DEF ResolveLooseAxes
<1>2. /\ x.comp = comp /\ x.compver = compver /\ x.platform = platform /\ x.arch = arch
      /\ x.commit = c.commit /\ x.mode = c.mode /\ x.kind = c.kind
      /\ x.isolation = c.isolation /\ x.toolchain = c.toolchain
  BY <1>1 DEF CoordinateAt
<1>3. /\ c.comp = p[6][1] /\ c.compver = p[6][2] /\ c.platform = p[4] /\ c.arch = p[5]
      /\ c.kind = p[2] /\ c.isolation = p[7] /\ c.toolchain = p[8]
  BY DEF CoordinateAt
<1>4. p[6][1] # Blank /\ p[5] # Blank
  BY PointFields DEF AxesAreNamed, AxisOr
<1> QED BY <1>1, <1>2, <1>3, <1>4

\* A coordinate tells jobs apart that do not ask for the same.
LEMMA CoordinatesDiffer ==
  ASSUME NEW m, Pinned(m.refs), AxesAreNamed(m), NEW T,
         NEW p \in JobPoints(m), NEW q \in JobPoints(m),
         ResolveLooseAxes(CoordinateAt(p), T) = ResolveLooseAxes(CoordinateAt(q), T),
         ResolveLooseAxes(CoordinateAt(p), T) # Rejected
  PROVE  AskTheSame(p, q)
<1> DEFINE x == ResolveLooseAxes(CoordinateAt(p), T)
<1>1. /\ x.commit = CoordinateAt(p).commit /\ x.mode = CoordinateAt(p).mode
      /\ x.kind = p[2] /\ x.arch = p[5] /\ x.isolation = p[7] /\ x.toolchain = p[8]
      /\ x.comp = p[6][1] /\ (p[6][2] # 0 => x.compver = p[6][2])
      /\ x.platform = ResolveLoosePlatform(p[4], T) /\ x.platform # Rejected
  BY ResolvedKeeps
<1>2. /\ x.commit = CoordinateAt(q).commit /\ x.mode = CoordinateAt(q).mode
      /\ x.kind = q[2] /\ x.arch = q[5] /\ x.isolation = q[7] /\ x.toolchain = q[8]
      /\ x.comp = q[6][1] /\ (q[6][2] # 0 => x.compver = q[6][2])
      /\ x.platform = ResolveLoosePlatform(q[4], T)
  BY ResolvedKeeps
<1> HIDE DEF x
<1>3. p[3] = q[3]
  <2>1. CASE ForcedMode(p[2]) # Blank
    BY <1>1, <1>2, <2>1, PointFields
  <2>2. CASE ForcedMode(p[2]) = Blank
    BY <1>1, <1>2, <2>2 DEF CoordinateAt
  <2> QED BY <2>1, <2>2
<1>4. p[1].commits = q[1].commits
  <2>1. CASE m.refs = {}
    BY <2>1, PointFields DEF AxisOr
  <2>2. CASE m.refs # {}
    <3>1. p[1] \in m.refs /\ q[1] \in m.refs
      BY <2>2, PointFields DEF AxisOr
    <3>2. \A y \in m.refs : IsSha(y)
      BY DEF Pinned, IsSha
    <3>3. (CHOOSE c \in p[1].commits : TRUE) = (CHOOSE c \in q[1].commits : TRUE)
      BY <1>1, <1>2, <3>1, <3>2 DEF CoordinateAt
    <3>4. PICK c : p[1].commits = {c}
      BY <3>1 DEF Pinned
    <3>5. PICK d : q[1].commits = {d}
      BY <3>1 DEF Pinned
    <3>6. c = d
      BY <3>3, <3>4, <3>5
    <3> QED BY <3>4, <3>5, <3>6
  <2> QED BY <2>1, <2>2
<1>5. SamePlatform(p[4], q[4])
  <2>1. p[4] \in PlatformCells(m) /\ q[4] \in PlatformCells(m)
    BY PointFields
  <2>2. CASE PlatformCells(m) = {NoPlatform}
    BY <2>1, <2>2 DEF SamePlatform, Agree
  <2>3. CASE \A y \in PlatformCells(m) : y # NoPlatform /\ PlatformShape(y)
    <3> DEFINE y == x.platform
    <3>1. /\ y.os = p[4].os /\ y.distro = p[4].distro
          /\ y.flavor = p[4].flavor /\ y.flavorver = p[4].flavorver
          /\ p[4].osver # 0 => y.osver = p[4].osver
          /\ p[4].distrover # 0 => y.distrover = p[4].distrover
      BY <1>1, <2>1, <2>3, PlatformKept
    <3>2. /\ y.os = q[4].os /\ y.distro = q[4].distro
          /\ y.flavor = q[4].flavor /\ y.flavorver = q[4].flavorver
          /\ q[4].osver # 0 => y.osver = q[4].osver
          /\ q[4].distrover # 0 => y.distrover = q[4].distrover
      BY <1>1, <1>2, <2>1, <2>3, PlatformKept
    <3> HIDE DEF y
    <3> QED BY <3>1, <3>2 DEF SamePlatform, Agree
  <2> QED BY <2>2, <2>3, CellsAreNamed
<1>6. p[6][1] = q[6][1] /\ Agree(p[6][2], q[6][2])
  BY <1>1, <1>2 DEF Agree
<1> QED BY <1>1, <1>2, <1>3, <1>4, <1>5, <1>6 DEF AskTheSame

LEMMA RecipeFacts ==
  ASSUME NEW r \in Recipes
  PROVE  /\ \A c \in r.compilers \cup r.os \cup r.distro \cup r.flavor : NamedPair(c)
         /\ Blank \notin r.arches
  BY CoordAssumption

\* The platform that is picked has a name.
LEMMA PickHasName ==
  ASSUME NEW T \in SUBSET AllTags, IsFiniteSet(T), PickPlatform(T) # Rejected
  PROVE  PickPlatform(T).distro # Blank \/ PickPlatform(T).os # Blank
<1>1. CASE \E d : /\ d = <<d[1], d[2]>> /\ Tag("distro", d[1], d[2]) \in T
                  /\ PickPlatform(T) = [NoPlatform EXCEPT !.os = "linux", !.distro = d[1],
                                                          !.distrover = d[2]]
  BY <1>1, FlavorsHaveDistros DEF NoPlatform
<1>2. CASE \E o : /\ o = <<o[1], o[2]>> /\ Tag("os", o[1], o[2]) \in T
                  /\ \A t \in T : t.axis # "distro"
                  /\ PickPlatform(T) = [NoPlatform EXCEPT !.os = o[1], !.osver = o[2]]
  <2>1. PICK o : /\ Tag("os", o[1], o[2]) \in T
                 /\ PickPlatform(T) = [NoPlatform EXCEPT !.os = o[1], !.osver = o[2]]
    BY <1>2
  <2>2. TagOK(Tag("os", o[1], o[2]))
    BY <2>1, TagFacts
  <2>3. o[1] # Blank
    BY <2>2 DEF TagOK, Tag
  <2> QED BY <2>1, <2>3 DEF NoPlatform
<1> QED BY <1>1, <1>2, PickPlatformIs

\* Every axis of a snapshot that a coordinate needs is named.
LEMMA SnapshotIsNamed ==
  ASSUME NEW T \in SUBSET AllTags, IsFiniteSet(T), NEW r \in Recipes, NEW pushed,
         NEW m, SnapshotOf(m, r, T, pushed)
  PROVE  AxesAreNamed(m)
<1>1. m.compilers # {} /\ \A c \in m.compilers : c[1] # Blank
  <2>1. CASE r.compilers = {}
    <3> DEFINE c == <<Pick(T, "compiler"), Newest(Candidates(T, "compiler"), Pick(T, "compiler"))>>
    <3>1. m.compilers = {c} /\ Candidates(T, "compiler") # {}
      BY <2>1 DEF SnapshotOf, AxisOr
    <3>2. Tag("compiler", c[1], c[2]) \in T
      BY <3>1, PickCompilerIs
    <3> HIDE DEF c
    <3>3. TagOK(Tag("compiler", c[1], c[2]))
      BY <3>2, TagFacts
    <3> QED BY <3>1, <3>3 DEF TagOK, Tag
  <2>2. CASE r.compilers # {}
    BY <2>2, RecipeFacts DEF SnapshotOf, AxisOr, NamedPair
  <2> QED BY <2>1, <2>2
<1>2. m.arches # {} /\ Blank \notin m.arches
  BY PickArchIs, RecipeFacts DEF SnapshotOf
<1>3. \A e \in m.flavor : e[1] # Blank
  BY RecipeFacts DEF SnapshotOf, NamedPair
<1>4. \A e \in m.os \cup m.distro : e[1] # Blank
  <2>1. CASE r.os = {} /\ r.distro = {} /\ r.flavor = {}
    <3>1. /\ PickPlatform(T) # Rejected
          /\ m.os = IF PickPlatform(T).distro = Blank
                    THEN {<<PickPlatform(T).os, PickPlatform(T).osver>>} ELSE {}
          /\ m.distro = IF PickPlatform(T).distro # Blank
                        THEN {<<PickPlatform(T).distro, PickPlatform(T).distrover>>} ELSE {}
      BY <2>1 DEF SnapshotOf
    <3> QED BY <3>1, PickHasName
  <2>2. CASE ~(r.os = {} /\ r.distro = {} /\ r.flavor = {})
    BY <2>2, RecipeFacts DEF SnapshotOf, NamedPair
  <2> QED BY <2>1, <2>2
<1> QED BY <1>1, <1>2, <1>3, <1>4 DEF AxesAreNamed

\* Two jobs of a snapshot become one test only if they ask for the same, up to the
\* version of the project and to versions that one of them leaves open: for any
\* recipe, and whatever the fleet advertises when the jobs are resolved again.
THEOREM SnapshotJobsAreTests == CoordSpec => []JobsAreTests
<1>1. CoordInv => JobsAreTests
  <2> SUFFICES ASSUME CoordInv, minted # NotMinted,
                      NEW p \in JobPoints(minted), NEW q \in JobPoints(minted),
                      ResolveLooseAxes(CoordinateAt(p), FleetTags)
                        = ResolveLooseAxes(CoordinateAt(q), FleetTags),
                      ResolveLooseAxes(CoordinateAt(p), FleetTags) # Rejected
               PROVE  AskTheSame(p, q)
    BY DEF JobsAreTests
  <2>1. PICK T \in SUBSET AllTags, pushed \in {{}, {1}} :
          IsFiniteSet(T) /\ minted = ResolveMatrix(recipe, T, pushed)
    BY DEF CoordInv, ResolvedFrom
  <2>2. recipe \in Recipes
    BY DEF CoordInv, FleetTyped
  <2>3. SnapshotOf(minted, recipe, T, pushed)
    BY <2>1, SnapshotFields
  <2>4. Pinned(minted.refs)
    BY ZenonT(60), <2>3, RefsArePinned DEF SnapshotOf
  <2>5. AxesAreNamed(minted)
    BY <2>1, <2>2, <2>3, SnapshotIsNamed
  <2> QED BY <2>4, <2>5, CoordinatesDiffer
<1> QED BY <1>1, CoordInvariant, PTL

-----------------------------------------------------------------------------
(* A snapshot leaves nothing loose. *)

\* A platform that a test may have.
PlatformIsExact(p) ==
  /\ p.os # Blank
  /\ p.os = "linux" => p.distro # Blank /\ p.distrover # 0 /\ p.osver = 0
  /\ p.os \in {"windows", "macos"} => p.osver # 0 /\ p.distro = Blank /\ p.flavor = Blank

OsIsExact(o)     == o[1] \in {"windows", "macos"} /\ o[2] # 0
DistroIsExact(d) == d[1] # Blank /\ d[2] # 0

\* Every axis of a matrix is given, with its versions.
AxesAreExact(m) ==
  /\ m.compilers # {} /\ \A c \in m.compilers : c[1] # Blank /\ c[2] # 0
  /\ m.arches # {} /\ Blank \notin m.arches
  /\ m.os # {} \/ m.distro # {}
  /\ \A o \in m.os : OsIsExact(o)
  /\ \A d \in m.distro : DistroIsExact(d)
  /\ m.flavor = {}

NoFlavor == DistroOf(Blank) = Blank

LEMMA BlankHasNoDistro == NoFlavor
  BY Zenon DEF NoFlavor, DistroOf, Blank

LEMMA OsCell ==
  ASSUME NEW name \in {"windows", "macos"}, NEW ver, ver # 0
  PROVE  \E p : PlatformCell("os", name, ver) = {p} /\ PlatformIsExact(p)
<1>1. ResolvePlatform(name, Blank, Blank) = [os |-> name, distro |-> Blank, flavor |-> Blank]
  BY BlankFacts, BlankHasNoDistro DEF ResolvePlatform, KnownOs, NoFlavor
<1> DEFINE q == [os |-> name, distro |-> Blank, flavor |-> Blank]
           p == [os |-> name, osver |-> ver, distro |-> Blank, distrover |-> 0,
                 flavor |-> Blank, flavorver |-> 0]
<1>2. q # Rejected
  BY DEF Rejected
<1>3. PlatformCell("os", name, ver) = {p}
  BY <1>1, <1>2 DEF PlatformCell
<1>4. PlatformIsExact(p)
  BY BlankFacts DEF PlatformIsExact
<1> QED BY <1>3, <1>4

LEMMA DistroCell ==
  ASSUME NEW name, name # Blank, NEW ver, ver # 0
  PROVE  \E p : PlatformCell("distro", name, ver) = {p} /\ PlatformIsExact(p)
<1>1. ResolvePlatform(Blank, name, Blank) = [os |-> "linux", distro |-> name, flavor |-> Blank]
  BY BlankFacts DEF ResolvePlatform, KnownOs
<1> DEFINE q == [os |-> "linux", distro |-> name, flavor |-> Blank]
           p == [os |-> "linux", osver |-> 0, distro |-> name, distrover |-> ver,
                 flavor |-> Blank, flavorver |-> 0]
<1>2. q # Rejected
  BY DEF Rejected
<1>3. PlatformCell("distro", name, ver) = {p}
  BY <1>1, <1>2 DEF PlatformCell
<1>4. PlatformIsExact(p)
  BY BlankFacts DEF PlatformIsExact
<1> QED BY <1>3, <1>4

LEMMA CellsAreExact ==
  ASSUME NEW m, AxesAreExact(m)
  PROVE  \A p \in PlatformCells(m) : PlatformIsExact(p)
<1> DEFINE osCells == UNION {PlatformCell("os", e[1], e[2]) : e \in m.os}
           distroCells == UNION {PlatformCell("distro", e[1], e[2]) : e \in m.distro}
           flavorCells == UNION {PlatformCell("flavor", e[1], e[2]) : e \in m.flavor}
           cells == osCells \cup distroCells \cup flavorCells
<1>1. \A nv \in m.os : \E p : PlatformCell("os", nv[1], nv[2]) = {p} /\ PlatformIsExact(p)
  BY OsCell DEF AxesAreExact, OsIsExact
<1>2. \A nv \in m.distro : \E p : PlatformCell("distro", nv[1], nv[2]) = {p} /\ PlatformIsExact(p)
  BY DistroCell DEF AxesAreExact, DistroIsExact
<1>3. \A p \in osCells : PlatformIsExact(p)
  BY <1>1
<1>4. \A p \in distroCells : PlatformIsExact(p)
  BY <1>2
<1>5. flavorCells = {}
  BY DEF AxesAreExact
<1>6. cells # {}
  <2>1. CASE m.os # {}
    <3>1. PICK nv \in m.os : TRUE
      BY <2>1
    <3>2. PlatformCell("os", nv[1], nv[2]) # {}
      BY <1>1, <3>1
    <3> QED BY <3>1, <3>2
  <2>2. CASE m.distro # {}
    <3>1. PICK nv \in m.distro : TRUE
      BY <2>2
    <3>2. PlatformCell("distro", nv[1], nv[2]) # {}
      BY <1>2, <3>1
    <3> QED BY <3>1, <3>2
  <2> QED BY <2>1, <2>2 DEF AxesAreExact
<1>7. PlatformCells(m) = IF cells = {} THEN {NoPlatform} ELSE cells
  BY DEF PlatformCells
<1> HIDE DEF osCells, distroCells, flavorCells
<1> QED BY <1>3, <1>4, <1>5, <1>6, <1>7

\* Jobs of a matrix that leaves nothing loose are valid as they stand.
LEMMA ExactJobs ==
  ASSUME NEW m, AxesAreExact(m), NEW c \in ExpandMatrix(m)
  PROVE  ValidCoord(c)
<1>1. PICK p \in JobPoints(m) : c = CoordinateAt(p)
  BY DEF ExpandMatrix
<1>2. p[4] \in PlatformCells(m) /\ p[5] \in m.arches /\ p[6] \in m.compilers
  BY PointFields DEF AxesAreExact, AxisOr
<1>3. PlatformIsExact(p[4]) /\ p[5] # Blank /\ p[6][1] # Blank /\ p[6][2] # 0
  BY <1>2, CellsAreExact DEF AxesAreExact
<1>4. c.platform = p[4] /\ c.arch = p[5] /\ c.comp = p[6][1] /\ c.compver = p[6][2]
  BY <1>1 DEF CoordinateAt
<1> QED BY <1>3, <1>4 DEF ValidCoord, PlatformIsExact

\* What matrices and hosts name is in the registry of operating systems.
OsIsKnown ==
  /\ \A t \in AllTags : t.axis = "os" => t.name \in KnownOs
  /\ \A r \in Recipes : \A o \in r.os : o[1] \in KnownOs

\* The platform that is picked has its versions.
LEMMA PickIsExact ==
  ASSUME FleetIsVersioned, OsIsKnown, NEW T \in SUBSET AllTags, IsFiniteSet(T), HasDistro(T),
         PickPlatform(T) # Rejected
  PROVE  \/ DistroIsExact(<<PickPlatform(T).distro, PickPlatform(T).distrover>>)
         \/ /\ PickPlatform(T).distro = Blank
            /\ OsIsExact(<<PickPlatform(T).os, PickPlatform(T).osver>>)
<1>1. CASE \E d : /\ d = <<d[1], d[2]>> /\ Tag("distro", d[1], d[2]) \in T
                  /\ PickPlatform(T) = [NoPlatform EXCEPT !.os = "linux", !.distro = d[1],
                                                          !.distrover = d[2]]
  <2>1. PICK d : /\ Tag("distro", d[1], d[2]) \in T
                 /\ PickPlatform(T) = [NoPlatform EXCEPT !.os = "linux", !.distro = d[1],
                                                         !.distrover = d[2]]
    BY <1>1
  <2>2. TagOK(Tag("distro", d[1], d[2])) /\ Tag("distro", d[1], d[2]) \in AllTags
    BY <2>1, TagFacts
  <2>3. d[1] # Blank /\ d[2] # 0
    BY <2>2 DEF TagOK, Tag, FleetIsVersioned
  <2>4. PickPlatform(T).distro = d[1] /\ PickPlatform(T).distrover = d[2]
    BY <2>1 DEF NoPlatform
  <2> QED BY <2>3, <2>4 DEF DistroIsExact
<1>2. CASE \E o : /\ o = <<o[1], o[2]>> /\ Tag("os", o[1], o[2]) \in T
                  /\ \A t \in T : t.axis # "distro"
                  /\ PickPlatform(T) = [NoPlatform EXCEPT !.os = o[1], !.osver = o[2]]
  <2>1. PICK o : /\ Tag("os", o[1], o[2]) \in T /\ \A t \in T : t.axis # "distro"
                 /\ PickPlatform(T) = [NoPlatform EXCEPT !.os = o[1], !.osver = o[2]]
    BY <1>2
  <2>2. Tag("os", o[1], o[2]) \in AllTags /\ o[1] \in KnownOs
    BY <2>1 DEF OsIsKnown, Tag
  <2>3. o[1] # "linux"
    BY <2>1 DEF HasDistro, Tag
  <2>4. o[2] # 0
    BY <2>2, <2>3 DEF FleetIsVersioned, Tag
  <2>5. /\ PickPlatform(T).distro = Blank
        /\ PickPlatform(T).os = o[1] /\ PickPlatform(T).osver = o[2]
    BY <2>1 DEF NoPlatform
  <2> QED BY <2>2, <2>3, <2>4, <2>5 DEF OsIsExact, KnownOs
<1> QED BY <1>1, <1>2, PickPlatformIs

LEMMA SnapshotIsExact ==
  ASSUME FleetIsVersioned, OsIsKnown, NEW T \in SUBSET AllTags, IsFiniteSet(T), HasDistro(T),
         NEW r \in Recipes, Versioned(r), NEW pushed, NEW m, SnapshotOf(m, r, T, pushed)
  PROVE  AxesAreExact(m)
<1>1. m.compilers # {} /\ \A c \in m.compilers : c[1] # Blank /\ c[2] # 0
  <2>1. CASE r.compilers = {}
    <3> DEFINE c == <<Pick(T, "compiler"), Newest(Candidates(T, "compiler"), Pick(T, "compiler"))>>
    <3>1. m.compilers = {c} /\ Candidates(T, "compiler") # {}
      BY <2>1 DEF SnapshotOf, AxisOr
    <3>2. Tag("compiler", c[1], c[2]) \in AllTags
      BY <3>1, PickCompilerIs
    <3> HIDE DEF c
    <3>3. TagOK(Tag("compiler", c[1], c[2]))
      BY <3>2, TagFacts
    <3> QED BY <3>1, <3>2, <3>3 DEF TagOK, Tag, FleetIsVersioned
  <2>2. CASE r.compilers # {}
    BY <2>2, RecipeFacts DEF SnapshotOf, AxisOr, Versioned, NamedPair
  <2> QED BY <2>1, <2>2
<1>2. m.arches # {} /\ Blank \notin m.arches
  BY PickArchIs, RecipeFacts DEF SnapshotOf
<1>3. m.flavor = {}
  BY DEF SnapshotOf, Versioned
<1>4. CASE r.os = {} /\ r.distro = {}
  <2>1. /\ PickPlatform(T) # Rejected
        /\ m.os = IF PickPlatform(T).distro = Blank
                  THEN {<<PickPlatform(T).os, PickPlatform(T).osver>>} ELSE {}
        /\ m.distro = IF PickPlatform(T).distro # Blank
                      THEN {<<PickPlatform(T).distro, PickPlatform(T).distrover>>} ELSE {}
    BY <1>4 DEF SnapshotOf, Versioned
  <2>2. CASE DistroIsExact(<<PickPlatform(T).distro, PickPlatform(T).distrover>>)
    BY <1>1, <1>2, <1>3, <2>1, <2>2 DEF AxesAreExact, DistroIsExact
  <2>3. CASE /\ PickPlatform(T).distro = Blank
             /\ OsIsExact(<<PickPlatform(T).os, PickPlatform(T).osver>>)
    BY <1>1, <1>2, <1>3, <2>1, <2>3 DEF AxesAreExact
  <2> QED BY <2>1, <2>2, <2>3, PickIsExact
<1>5. CASE ~(r.os = {} /\ r.distro = {})
  <2>1. m.os = r.os /\ m.distro = r.distro
    BY <1>5 DEF SnapshotOf
  <2>2. \A o \in r.os : OsIsExact(o)
    BY DEF Versioned, OsIsKnown, OsIsExact, KnownOs
  <2>3. \A d \in r.distro : DistroIsExact(d)
    BY RecipeFacts DEF Versioned, NamedPair, DistroIsExact
  <2> QED BY <1>1, <1>2, <1>3, <1>5, <2>1, <2>2, <2>3 DEF AxesAreExact
<1> QED BY <1>4, <1>5

\* A snapshot is no recipe, and every job of it is a valid coordinate as it stands,
\* whatever becomes of the fleet afterwards: for any recipe that gives a version
\* with what it names, against any fleet whose hosts advertise versions and name
\* their Linux distribution.
THEOREM SnapshotIsFixed ==
  ASSUME LinuxIsNamed, FleetIsVersioned, OsIsKnown
  PROVE  CoordSpec => []SnapshotsDoNotMove
<1>1. CoordInv => SnapshotsDoNotMove
  <2> SUFFICES ASSUME CoordInv, minted # NotMinted, Versioned(recipe)
               PROVE  /\ ~MatrixIsRecipe(minted)
                      /\ \A c \in ExpandMatrix(minted) : ValidCoord(c)
    BY DEF SnapshotsDoNotMove
  <2>1. PICK T \in SUBSET AllTags, pushed \in {{}, {1}} :
          IsFiniteSet(T) /\ HasDistro(T) /\ minted = ResolveMatrix(recipe, T, pushed)
    BY DEF CoordInv, ResolvedFrom
  <2>2. recipe \in Recipes
    BY DEF CoordInv, FleetTyped
  <2>3. SnapshotOf(minted, recipe, T, pushed)
    BY <2>1, SnapshotFields
  <2>4. AxesAreExact(minted)
    BY <2>1, <2>2, <2>3, SnapshotIsExact
  <2>5. Pinned(minted.refs) /\ minted.deps # "moving"
    BY <2>3, RefsArePinned DEF SnapshotOf, PinDeps
  <2>6. ~MatrixIsRecipe(minted)
    BY <2>4, <2>5 DEF MatrixIsRecipe, AxesAreExact, Pinned, IsSha
  <2> QED BY <2>4, <2>6, ExactJobs
<1> QED BY <1>1, CoordInvariant, PTL
=============================================================================
