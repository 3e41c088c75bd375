------------------------------- MODULE MCParts -------------------------------
(***************************************************************************)
(* The components of which no more than safety is asked, for TLC: live       *)
(* output, the executor, the runner images, matrices and tags.               *)
(* They share no state: a behaviour is one of one component, named by       *)
(* `part`, and the variables of the others stay at one initial value.       *)
(***************************************************************************)
EXTENDS LiveOutput, Executor, RunnerImages, Coordinates, TLC

CONSTANTS
  Parts,
  b1, b2  \* what is alike: two hosts, two processes

VARIABLE part

Alike == Permutations({b1, b2})

-----------------------------------------------------------------------------
\* Two hosts to be: with and without the newest of each, in both architectures.
Ubuntu24 == {Tag("os", "linux", 0), Tag("distro", "ubuntu", 24), Tag("arch", "amd64", 0),
             Tag("compiler", "gcc", 13), Tag("compiler", "clang", 9)}
Fedora40 == {Tag("os", "linux", 0), Tag("distro", "fedora", 40), Tag("arch", "aarch64", 0),
             Tag("compiler", "gcc", 14)}
TwoImages == {Ubuntu24, Fedora40}
ByHandTags == {Tag("custom", "gpu", 0), Tag("compiler", "gcc", 7)}

\* A matrix that leaves everything open; one with a branch and a range of
\* which it is the head, two versions, and a kind that forces its mode; one with all
\* levels of the platform; one with containers; one for opp_env that depends on a branch.
AllLoose == [kinds |-> {"smoke"}, modes |-> {}, refs |-> {}, os |-> {}, distro |-> {},
             flavor |-> {}, arches |-> {}, compilers |-> {}, isolations |-> {},
             toolchains |-> {}, versions |-> {}, deps |-> "pinned"]
OnBranches == [AllLoose EXCEPT !.kinds = {"smoke", "coverage"}, !.modes = {"release", "debug"},
                 !.refs = {[kind |-> "branch", commits |-> {2}],
                           [kind |-> "range", commits |-> {1, 2}]}, !.versions = {1, 2}]
OnPlatforms == [AllLoose EXCEPT !.compilers = {<<"gcc", 0>>, <<"gcc", 14>>}, !.arches = {"amd64"},
                  !.os = {<<"windows", 11>>, <<"linux", 0>>},
                  !.distro = {<<"ubuntu", 24>>, <<"fedora", 0>>}, !.flavor = {<<"kubuntu", 24>>}]
InContainers == [AllLoose EXCEPT !.os = {<<"windows", 0>>}, !.isolations = {"none", "podman"},
                   !.toolchains = {"nix", "none"}, !.compilers = {<<"clang", 0>>}]
WithOppEnv == [AllLoose EXCEPT !.toolchains = {"nix"}, !.compilers = {<<"gcc", 7>>},
                 !.arches = {"amd64"}, !.distro = {<<"ubuntu", 24>>}, !.deps = "moving"]
FiveRecipes == {AllLoose, OnBranches, OnPlatforms, InContainers, WithOppEnv}

-----------------------------------------------------------------------------
Init ==
  /\ part \in Parts
  /\ OutputInit /\ ExecInit /\ ImageInit /\ CoordInit
  /\ part # "executor"    => task = CHOOSE j \in ExecJobs : TRUE
  /\ part # "coordinates" => image = [w \in Boxes |-> Ubuntu24] /\ recipe = AllLoose

Next ==
  /\ UNCHANGED part
  /\ \/ /\ part = "output" /\ OutputNext
        /\ UNCHANGED <<execVars, imageVars, coordVars>>
     \/ /\ part = "executor" /\ ExecNext
        /\ UNCHANGED <<outputVars, imageVars, coordVars>>
     \/ /\ part = "images" /\ ImageNext
        /\ UNCHANGED <<outputVars, execVars, coordVars>>
     \/ /\ part = "coordinates" /\ CoordNext
        /\ UNCHANGED <<outputVars, execVars, imageVars>>

Spec == Init /\ [][Next]_<<part, outputVars, execVars, imageVars, coordVars>>
=============================================================================
