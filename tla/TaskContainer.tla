---------------------------- MODULE TaskContainer ----------------------------
(***************************************************************************)
(* The container of one run of scripts/orchestration/run_task.py: who owns  *)
(* and who may read or write what lies under /workspace, from the copying   *)
(* of the task to the judge.  Three identities share it: root prepares, the *)
(* agent works, the scorer runs the checks and, with them, code the agent   *)
(* left.  The agent's processes act at any time while one of them is alive, *)
(* also after docker exec has given up on the agent; every command that     *)
(* prepares or proves the container may fail.                               *)
(***************************************************************************)
EXTENDS Naturals

CONSTANTS
    MaxProcs    \* bound: live processes of the agent

ASSUME ContainerAssumption == MaxProcs \in Nat \ {0}

VARIABLES
    step,       \* next step of run_task
    gated,      \* whether the arm denies the source (should_gate)
    tree,       \* what lies in the container
    top,        \* the directory /workspace itself
    exec,       \* whether docker exec of the agent runs
    procs,      \* live processes of the agent, PID 1 apart
    scorer,     \* whether code runs as the scoring user
    seen,       \* what a process of the agent has read
    outcome     \* what became of the run

containerVars == <<step, gated, tree, top, exec, procs, scorer, seen, outcome>>

\* The sealed grading assets, the instruction, the clones and the agent's output
\* lie in /workspace, the scorer's results beside it.
InWorkspace == {"grader", "instruction", "repo", "answer"}
Trees == InWorkspace \cup {"results"}
Graded == {"grader", "repo", "answer"}
Users == {"agent", "scorer"}

Steps == {"copy", "stage", "chown", "seal", "cli", "readable", "gate", "agent", "assert",
          "reap", "close", "checks", "reopen", "judge", "end"}

TreeState == [there : BOOLEAN, owner : {"root", "agent", "host"},
              group : {"scoring", "other"},
              bits : SUBSET {"g+r", "g+w", "o+r", "o+w"}, version : 0..1]

ContainerTypeOK ==
    /\ step \in Steps /\ gated \in BOOLEAN
    /\ tree \in [Trees -> TreeState]
    /\ top \in [owner : {"root", "agent"}, sticky : BOOLEAN, open : BOOLEAN]
    /\ exec \in BOOLEAN /\ procs \in 0..MaxProcs /\ scorer \in BOOLEAN
    /\ seen \subseteq Trees
    /\ outcome \in {"running", "refused", "violation", "error", "scored"}

Node(there, owner, group, bits) ==
    [there |-> there, owner |-> owner, group |-> group, bits |-> bits, version |-> 0]

\* The image: its last user is the agent, who owns /workspace and the clones.
ContainerInit ==
    /\ step = "copy" /\ gated = FALSE
    /\ tree = [o \in Trees |->
                 IF o = "repo" THEN Node(TRUE, "agent", "other", {"g+r", "o+r"})
                 ELSE Node(FALSE, "root", "other", {})]
    /\ top = [owner |-> "agent", sticky |-> FALSE, open |-> FALSE]
    /\ exec = FALSE /\ procs = 0 /\ scorer = FALSE
    /\ seen = {} /\ outcome = "running"

-----------------------------------------------------------------------------
(***************************************************************************)
(* What the kernel allows.                                                 *)
(***************************************************************************)
InGroup(u, o) == u = "scorer" /\ tree[o].group = "scoring"

CanRead(u, o) ==
    /\ tree[o].there
    /\ \/ tree[o].owner = u
       \/ InGroup(u, o) /\ "g+r" \in tree[o].bits
       \/ ~InGroup(u, o) /\ "o+r" \in tree[o].bits

\* Unlinking or renaming an entry is up to its directory; sticky leaves it to the
\* owners of the entry and of the directory.
CanReplace(u, o) ==
    /\ o \in InWorkspace
    /\ \/ top.owner = u
       \/ top.open /\ (~top.sticky \/ tree[o].owner = u)

CanWrite(u, o) ==
    /\ tree[o].there
    /\ \/ tree[o].owner = u
       \/ InGroup(u, o) /\ "g+w" \in tree[o].bits
       \/ ~InGroup(u, o) /\ "o+w" \in tree[o].bits
       \/ CanReplace(u, o)

Written(o) == [tree EXCEPT ![o].version = 1 - @]

-----------------------------------------------------------------------------
(***************************************************************************)
(* Preparation, as root.  A step that fails ends the run.                  *)
(***************************************************************************)
Ends(how) == step' = "end" /\ outcome' = how

KeepAgent == UNCHANGED <<exec, procs, scorer, seen>>

\* docker cp keeps the host's owner and mode, and the instruction comes from a
\* private temporary file.
CopyInstruction ==
    /\ step = "copy" /\ step' = "stage"
    /\ gated' \in BOOLEAN
    /\ \E writable \in BOOLEAN :
          tree' = [tree EXCEPT
              !["instruction"] = Node(TRUE, "host", "other", {}),
              !["repo"].bits = @ \cup (IF writable THEN {"g+w"} ELSE {})]
    /\ UNCHANGED <<top, outcome>> /\ KeepAgent

\* The checks, test.sh, the library and the ground truth; their directories are
\* made by the image's user.
StageVerifiers ==
    /\ step = "stage" /\ step' = "chown"
    /\ tree' = [tree EXCEPT !["grader"] = Node(TRUE, "agent", "other", {"g+r", "o+r"})]
    /\ UNCHANGED <<gated, top, outcome>> /\ KeepAgent

ChownToAgent(o) == [tree EXCEPT ![o].owner = IF tree[o].there THEN "agent" ELSE @]

\* A failed chown is logged and not more.
ChownInstruction ==
    /\ step = "chown" /\ step' = "seal"
    /\ tree' \in {ChownToAgent("instruction"), tree}
    /\ UNCHANGED <<gated, top, outcome>> /\ KeepAgent

\* /workspace goes to root, sticky and open; the assets go to root and to the
\* scoring group, which may read them.
SealGradingAssets ==
    /\ step = "seal" /\ step' = "cli"
    /\ top' = [owner |-> "root", sticky |-> TRUE, open |-> TRUE]
    /\ tree' = [tree EXCEPT
          !["grader"].owner = "root", !["grader"].group = "scoring",
          !["grader"].bits = {"g+r"},
          !["results"] = Node(TRUE, "root", "scoring", {"g+r", "g+w"})]
    /\ UNCHANGED <<gated, outcome>> /\ KeepAgent

\* The agent's output directory is made and given to it; its home is not shown.
InstallCLI ==
    /\ step = "cli" /\ step' = "readable"
    /\ tree' \in {tree, [tree EXCEPT !["answer"] = Node(TRUE, "agent", "other", {"o+r"})]}
    /\ UNCHANGED <<gated, top, outcome>> /\ KeepAgent

\* The chown is repeated, and what came of it is tested as the agent.
AssertAgentReadable ==
    /\ step = "readable"
    /\ tree' \in {ChownToAgent("instruction"), tree}
    /\ IF CanRead("agent", "instruction")' THEN step' = "gate" /\ UNCHANGED outcome
                                           ELSE Ends("refused")
    /\ UNCHANGED <<gated, top>> /\ KeepAgent

\* The two recursive commands of lockdown_commands, up to the one that fails.
LockedDown(done) ==
    [tree EXCEPT !["repo"].owner = IF done >= 1 THEN "root" ELSE @,
                 !["repo"].group = IF done >= 1 THEN "scoring" ELSE @,
                 !["repo"].bits = IF done >= 2 THEN @ \ {"o+r", "o+w", "g+w"} ELSE @]

(* Mutant: a command of the gate that fails is logged, and nothing is tested. *)
ApplyModeGateUnproved ==
    /\ step = "gate" /\ step' = "agent"
    /\ \E done \in 0..2 :
          tree' = IF gated THEN LockedDown(done) ELSE tree
    /\ UNCHANGED <<gated, top, outcome>> /\ KeepAgent

\* Half of the gate is no gate; the whole of it is tested from both sides.
ApplyModeGate ==
    /\ step = "gate"
    /\ \E done \in 0..2 :
          /\ tree' = IF gated THEN LockedDown(done) ELSE tree
          /\ IF gated => /\ done = 2
                         /\ ~CanRead("agent", "repo")' /\ CanRead("scorer", "repo")'
             THEN step' = "agent" /\ UNCHANGED outcome ELSE Ends("refused")
    /\ UNCHANGED <<gated, top>> /\ KeepAgent

\* A command fails or times out, or a probe gets no answer.
PreparationFails ==
    /\ step \in {"copy", "stage", "seal", "cli", "readable", "gate"}
    /\ Ends("refused")
    /\ UNCHANGED <<gated, tree, top>> /\ KeepAgent

-----------------------------------------------------------------------------
(***************************************************************************)
(* The agent.                                                              *)
(***************************************************************************)
\* docker exec -u agent makes the output directory and starts the command.
StartAgent ==
    /\ step = "agent" /\ ~exec
    /\ exec' = TRUE /\ procs' = 1
    /\ tree' = IF tree["answer"].there THEN tree
               ELSE [tree EXCEPT !["answer"] = Node(TRUE, "agent", "other", {"o+r"})]
    /\ UNCHANGED <<step, gated, top, scorer, seen, outcome>>

AgentReads ==
    /\ procs > 0
    /\ \E o \in Trees : CanRead("agent", o) /\ seen' = seen \cup {o}
    /\ UNCHANGED <<step, gated, tree, top, exec, procs, scorer, outcome>>

\* It writes where it may, and opens what it owns to others.
AgentWrites ==
    /\ procs > 0
    /\ \E o \in Trees :
          \/ CanWrite("agent", o) /\ tree' = Written(o)
          \/ /\ tree[o].there /\ tree[o].owner = "agent"
             /\ tree' = [tree EXCEPT ![o].bits = @ \cup {"g+w", "o+w"}]
    /\ UNCHANGED <<step, gated, top, exec, procs, scorer, seen, outcome>>

AgentForks ==
    /\ procs \in 1..MaxProcs - 1
    /\ procs' = procs + 1
    /\ UNCHANGED <<step, gated, tree, top, exec, scorer, seen, outcome>>

\* The command returns, and what it started in the background may go on.
AgentReturns ==
    /\ exec /\ exec' = FALSE
    /\ procs' \in 0..procs - 1
    /\ step' = "assert"
    /\ UNCHANGED <<gated, tree, top, scorer, seen, outcome>>

\* The timeout ends docker exec and nothing in the container.
AgentTimesOut ==
    /\ exec /\ exec' = FALSE
    /\ step' = "assert"
    /\ UNCHANGED <<gated, tree, top, procs, scorer, seen, outcome>>

BackgroundExits ==
    /\ ~exec /\ procs > 0
    /\ procs' = procs - 1
    /\ UNCHANGED <<step, gated, tree, top, exec, scorer, seen, outcome>>

-----------------------------------------------------------------------------
(***************************************************************************)
(* Scoring.                                                                *)
(***************************************************************************)
Sealed ==
    /\ top.owner = "root" /\ top.sticky
    /\ tree["grader"].there /\ tree["grader"].owner = "root"
    /\ tree["grader"].bits \cap {"g+w", "o+w"} = {}
    /\ ~CanRead("agent", "grader") /\ CanRead("scorer", "grader")

\* Looked at again; a look that fails counts as a broken seal.
AssertGradingAssetsSealed ==
    /\ step = "assert"
    /\ \/ Sealed /\ step' = "reap" /\ UNCHANGED outcome
       \/ Ends("violation")
    /\ UNCHANGED <<gated, tree, top>> /\ KeepAgent

(* Mutant: whoever survives the passes is logged. *)
ReapLeavingSurvivors ==
    /\ step = "reap" /\ step' = "close"
    /\ procs' \in 0..procs
    /\ UNCHANGED <<gated, tree, top, exec, scorer, seen, outcome>>

\* The passes kill every process that is seen, in one step here, or somebody
\* survives them all.
ReapAgentProcesses ==
    /\ step = "reap"
    /\ procs' \in 0..procs
    /\ IF procs' = 0 THEN step' = "close" /\ UNCHANGED outcome ELSE Ends("error")
    /\ UNCHANGED <<gated, tree, top, exec, scorer, seen>>

\* Nothing below /workspace stays writable for the group or for others.
CloseWorkspace ==
    /\ step = "close" /\ step' = "checks"
    /\ top' = [top EXCEPT !.open = FALSE]
    /\ tree' = [o \in Trees |->
                  IF o \in InWorkspace
                  THEN [tree[o] EXCEPT !.bits = @ \ {"g+w", "o+w"}] ELSE tree[o]]
    /\ scorer' = TRUE
    /\ UNCHANGED <<gated, exec, procs, seen, outcome>>

ScoringFails ==
    /\ step \in {"reap", "close"}
    /\ Ends("error")
    /\ UNCHANGED <<gated, tree, top>> /\ KeepAgent

\* A check, or what it runs or left running, writes where the scorer may.
ScorerWrites ==
    /\ scorer
    /\ \E o \in Trees : CanWrite("scorer", o) /\ tree' = Written(o)
    /\ UNCHANGED <<step, gated, top, exec, procs, scorer, seen, outcome>>

\* The checks end or time out; what they started may go on.
ChecksEnd ==
    /\ step = "checks" /\ step' = "reopen"
    /\ outcome' \in {"running", "error"}
    /\ scorer' \in BOOLEAN
    /\ UNCHANGED <<gated, tree, top, exec, procs, seen>>

\* In the finally clause; a failure is logged.
ReopenWorkspace ==
    /\ step = "reopen"
    /\ top' \in {top, [top EXCEPT !.open = TRUE]}
    /\ step' = IF outcome = "running" THEN "judge" ELSE "end"
    /\ UNCHANGED <<gated, tree, outcome>> /\ KeepAgent

\* The judge is shown the answer as it lies in the container now.
JudgeReads ==
    /\ step = "judge"
    /\ Ends("scored")
    /\ UNCHANGED <<gated, tree, top>> /\ KeepAgent

ContainerNext ==
    \/ CopyInstruction \/ StageVerifiers \/ ChownInstruction \/ SealGradingAssets
    \/ InstallCLI \/ AssertAgentReadable \/ ApplyModeGate \/ PreparationFails
    \/ StartAgent \/ AgentReads \/ AgentWrites \/ AgentForks \/ AgentReturns
    \/ AgentTimesOut \/ BackgroundExits
    \/ AssertGradingAssetsSealed \/ ReapAgentProcesses \/ CloseWorkspace
    \/ ScoringFails \/ ScorerWrites \/ ChecksEnd \/ ReopenWorkspace \/ JudgeReads

ContainerSpec == ContainerInit /\ [][ContainerNext]_containerVars

-----------------------------------------------------------------------------
(* What the checks grade stands still from the first check to the judge,    *)
(* whoever is alive by then: the number and the judge's cap speak of the    *)
(* same answer, graded by the scripts that were staged (_run_scoring).      *)
GradedStands ==
    [][(step \in {"checks", "reopen", "judge"} =>
          \A o \in Graded : tree'[o].version = tree[o].version)]_containerVars

(* No process of the agent ever reads the grading assets, nor, in a gated   *)
(* arm, the source; and in an arm with local source it is not denied        *)
(* (_seal_grading_assets, _apply_mode_gate).                                *)
AgentSeesItsArm ==
    /\ seen \subseteq {"instruction", "answer"} \cup (IF gated THEN {} ELSE {"repo"})
    /\ procs > 0 /\ ~gated => CanRead("agent", "repo")

(* The seal that was set holds whatever the agent does before the checks, so *)
(* a broken one is never the verdict on a container that was prepared.       *)
SealHolds == step \in {"agent", "assert", "reap", "close", "checks"} => Sealed
=============================================================================
