---------------------------- MODULE RunnerImages ----------------------------
(***************************************************************************)
(* The nix runner image of one platform and one omnetpp version, kept up to *)
(* date before every container run.  Each process resolves the head of the  *)
(* opp_env branch, builds the base image from it, and bakes omnetpp into a  *)
(* container of the base, unless the runner image says that it was baked    *)
(* from this very base.  The tags and the layer cache are shared by all     *)
(* processes of the host, and every podman command takes its time.          *)
(*                                                                          *)
(* A line of the Containerfile is built once: two builds that miss the      *)
(* layer cache together and leave two layers of one line are left out.      *)
(***************************************************************************)
EXTENDS Integers

CONSTANTS
  Bakers,   \* the processes
  MaxHead   \* bound: pushes to the opp_env branch

ASSUME BakerAssumption == MaxHead \in Nat

VARIABLES
  head,    \* the newest commit of the opp_env branch
  layer,   \* the layer cache: what each install line of the Containerfile got
  base,    \* the image that the base tag names
  runner,  \* the image that the runner tag names, and its base-id label
  baker,   \* where each process is: what it builds, read the id of and installs in
  raced    \* history: the processes whose base another one has retagged since

imageVars == <<head, layer, base, runner, baker, raced>>

\* An install line names a commit, or the branch when it cannot be resolved;
\* an image is that line and the commit its cached layer installed.
Branch  == -1
Missing == -1
Lines   == Branch..MaxHead
Images  == [line : Lines, commit : Missing..MaxHead]
NoImage == [line |-> Branch, commit |-> Missing]

Idle == [at |-> "idle", image |-> NoImage, base |-> NoImage, from |-> NoImage]

ImageTypeOK ==
  /\ head \in 0..MaxHead /\ layer \in [Lines -> Missing..MaxHead] /\ base \in Images
  /\ runner \in [from : Images, label : Images] /\ raced \subseteq Bakers
  /\ baker \in [Bakers -> [at : {"idle", "build", "tag", "read", "compare", "bake", "commit"},
                           image : Images, base : Images, from : Images]]

ImageInit ==
  /\ head = 0 /\ layer = [l \in Lines |-> Missing] /\ base = NoImage
  /\ runner = [from |-> NoImage, label |-> NoImage]
  /\ baker = [b \in Bakers |-> Idle] /\ raced = {}

Push ==
  /\ head < MaxHead /\ head' = head + 1
  /\ UNCHANGED <<layer, base, runner, baker, raced>>

\* render_containerfile: the head is resolved, or else the branch is named.
Resolve(b, line) ==
  /\ baker[b].at = "idle" /\ line \in {head, Branch}
  /\ baker' = [baker EXCEPT ![b].at = "build", ![b].image.line = line]
  /\ UNCHANGED <<head, layer, base, runner, raced>>

Installed(line) == IF line = Branch THEN head ELSE line

\* podman build: a line that was built before comes from the layer cache, a new
\* one installs what it names.
BuildImage(b) ==
  LET line == baker[b].image.line IN
  /\ baker[b].at = "build"
  /\ layer' = [layer EXCEPT ![line] = IF @ = Missing THEN Installed(line) ELSE @]
  /\ baker' = [baker EXCEPT ![b].at = "tag", ![b].image.commit = layer'[line]]
  /\ UNCHANGED <<head, base, runner, raced>>

\* The end of podman build -t.
TagBase(b) ==
  /\ baker[b].at = "tag"
  /\ base' = baker[b].image
  /\ raced' = (raced \ {b}) \cup
                {p \in Bakers \ {b} : baker[p].at \in {"read", "compare", "bake"}}
  /\ baker' = [baker EXCEPT ![b].at = "read"]
  /\ UNCHANGED <<head, layer, runner>>

\* The id that the tag has now.
ReadId(b) ==
  /\ baker[b].at = "read"
  /\ baker' = [baker EXCEPT ![b].at = "compare", ![b].base = base]
  /\ UNCHANGED <<head, layer, base, runner, raced>>

\* The bake is skipped if the label of the runner image is that id.
Compare(b) ==
  /\ baker[b].at = "compare"
  /\ baker' = [baker EXCEPT ![b] = IF runner.label = @.base THEN Idle ELSE [@ EXCEPT !.at = "bake"]]
  /\ UNCHANGED <<head, layer, base, runner, raced>>

\* The install runs in a container of what the base tag names by now.
Bake(b) ==
  /\ baker[b].at = "bake"
  /\ baker' = [baker EXCEPT ![b].at = "commit", ![b].from = base]
  /\ UNCHANGED <<head, layer, base, runner, raced>>

\* Mutant: the label is the id that the tag has after the bake.
CommitWithNewId(b) ==
  /\ baker[b].at = "commit"
  /\ runner' = [from |-> baker[b].from, label |-> base]
  /\ baker' = [baker EXCEPT ![b] = Idle]
  /\ UNCHANGED <<head, layer, base, raced>>

Commit(b) ==
  /\ baker[b].at = "commit"
  /\ runner' = [from |-> baker[b].from, label |-> baker[b].base]
  /\ baker' = [baker EXCEPT ![b] = Idle]
  /\ UNCHANGED <<head, layer, base, raced>>

\* A podman command fails: the container is removed and the job is refused.
Refused(b) ==
  /\ baker[b].at \in {"build", "bake", "commit"}
  /\ baker' = [baker EXCEPT ![b] = Idle]
  /\ UNCHANGED <<head, layer, base, runner, raced>>

ImageNext ==
  \/ Push
  \/ \E b \in Bakers :
       \/ \E line \in Lines : Resolve(b, line)
       \/ BuildImage(b) \/ TagBase(b) \/ ReadId(b) \/ Compare(b) \/ Bake(b) \/ Commit(b) \/ Refused(b)

ImageSpec == ImageInit /\ [][ImageNext]_imageVars

-----------------------------------------------------------------------------
Skips(b) == Compare(b) /\ baker'[b].at = "idle"

\* A process that commits or skips, while no other process retagged the base
\* between its own build and its bake, leaves a runner image that was installed
\* in the base it built, with the opp_env its head resolved to, and that says so;
\* a skip over a label that an earlier race made false apart.
UndisturbedIsCurrent ==
  [][\A b \in Bakers \ raced :
       Commit(b) \/ (Skips(b) /\ runner.from = runner.label) =>
         /\ runner'.from = baker[b].image /\ runner'.label = baker[b].image
         /\ baker[b].image.line \in {Branch, baker[b].image.commit}]_imageVars

-----------------------------------------------------------------------------
\* The docstring of _build_nix_runner_image: the bake is skipped when the image
\* was committed from the current base image.
SkippedWhenCurrent == [][\A b \in Bakers : Skips(b) => runner.from = base]_imageVars

\* The same: a new opp_env commit triggers a rebake, so a runner image never has an
\* older opp_env than its label says; unresolved branches apart.
NoOlderThanItsLabel ==
  runner.label.line # Branch /\ runner.from.line # Branch =>
    runner.from.commit >= runner.label.commit
=============================================================================
