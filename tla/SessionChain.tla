----------------------------- MODULE SessionChain -----------------------------
(***************************************************************************)
(* scripts/orchestration/chain_runner.py with session.py, branch_manager.py *)
(* and milestone.py: invocations of the chain runner on one task, one after *)
(* the other, each over a fresh or over the same workspace.  A session      *)
(* branches off the previous one in every repository, an agent or the       *)
(* simulation works there, the work is committed; milestones are scored     *)
(* between sessions and the checkpoints at the end.  git, the work and the  *)
(* verifiers may fail, and the runner may be killed.                        *)
(***************************************************************************)
EXTENDS Naturals, Sequences, FiniteSets

CONSTANTS
    NSessions,      \* session_count of the task
    Milestones,     \* the sessions that declare milestones
    Checkpoints,    \* whether the task declares final checkpoints
    NRepos,         \* its repositories, set up in order
    MaxChainRuns,   \* bound: invocations of the runner
    NoScoreFile

Sessions == 1..NSessions
Repos == 1..NRepos

ASSUME ChainAssumption ==
    /\ NSessions \in Nat \ {0} /\ NRepos \in Nat \ {0} /\ MaxChainRuns \in Nat
    /\ Milestones \subseteq Sessions /\ Checkpoints \in BOOLEAN

VARIABLES
    chainPc,    \* next step of the runner
    chainRun,   \* the invocation, counted from 1
    session,    \* sessions that succeeded so far
    failed,     \* the invalidity channels that fired
    verdicts,   \* what milestones and checkpoints said, with where they looked
    branches,   \* the session branches of each repository of the workspace
    head,       \* the branch checked out there, 0 for the initial one
    commits,    \* the invocation that last committed each session's branch
    scoreFile,  \* results.json of the task directory
    chainExit   \* exit status

chainVars == <<chainPc, chainRun, session, failed, verdicts, branches, head, commits,
               scoreFile, chainExit>>

Channels == {"agent_not_configured", "session_failure", "verifier_infra_error"}
ChainVerdicts == [after : Sessions, scored : BOOLEAN, seen : [Repos -> 0..NSessions]]

ChainTypeOK ==
    /\ chainPc \in {"idle", "session", "milestones", "checkpoints", "total", "save"}
    /\ chainRun \in 0..MaxChainRuns /\ session \in 0..NSessions
    /\ failed \subseteq Channels
    /\ \A i \in DOMAIN verdicts : verdicts[i] \in ChainVerdicts
    /\ branches \in [Repos -> SUBSET Sessions] /\ head \in [Repos -> 0..NSessions]
    /\ commits \in [Repos -> [Sessions -> 0..MaxChainRuns]]
    /\ scoreFile \in [by : 1..MaxChainRuns, score : {"number", "null", "torn"}] \cup {NoScoreFile}
    /\ chainExit \in {"none", "success", "failure", "killed"}

EmptyWorkspace ==
    /\ branches' = [r \in Repos |-> {}] /\ head' = [r \in Repos |-> 0]
    /\ commits' = [r \in Repos |-> [s \in Sessions |-> 0]]

ChainInit ==
    /\ chainPc = "idle" /\ chainRun = 0 /\ session = 0
    /\ failed = {} /\ verdicts = <<>>
    /\ branches = [r \in Repos |-> {}] /\ head = [r \in Repos |-> 0]
    /\ commits = [r \in Repos |-> [s \in Sessions |-> 0]]
    /\ scoreFile = NoScoreFile /\ chainExit = "none"

ChainInvalid == failed # {}

-----------------------------------------------------------------------------
BeginChain(way) ==
    /\ chainRun' = chainRun + 1 /\ session' = 0 /\ verdicts' = <<>>
    /\ failed' = IF way = "bare" THEN {"agent_not_configured"} ELSE {}
    /\ CASE way = "malformed" -> chainPc' = "idle" /\ chainExit' = "failure"
         [] way = "bare"      -> chainPc' = "save" /\ chainExit' = "none"
         [] way = "simulate"  -> chainPc' = "session" /\ chainExit' = "none"
    /\ EmptyWorkspace \/ UNCHANGED <<branches, head, commits>>

(* Mutant: the old score is only ever overwritten. *)
InvokeChainKeepingScore ==
    /\ chainPc = "idle" /\ chainRun < MaxChainRuns
    /\ \E way \in {"malformed", "bare", "simulate"} : BeginChain(way)
    /\ UNCHANGED scoreFile

\* The old score goes first.  A task whose session_count is not the number of
\* its sessions is rejected; without --simulate there is no agent to run; the
\* workspace is a new directory or the one that is named.
InvokeChain ==
    /\ chainPc = "idle" /\ chainRun < MaxChainRuns
    /\ scoreFile' = NoScoreFile
    /\ \E way \in {"malformed", "bare", "simulate"} : BeginChain(way)

\* A dry run says what it would do.
DryRunChain ==
    /\ chainPc = "idle"
    /\ chainExit' = "success"
    /\ UNCHANGED <<chainPc, chainRun, session, failed, verdicts, branches, head, commits,
                   scoreFile>>

\* create_session_branch refuses a branch that exists; checkout_session_branch
\* needs the one of the session before.
CanBranch(r, s) == s \notin branches[r] /\ (s > 1 => s - 1 \in branches[r])

\* Where repositories 1..k were set up for session s.
BranchedUpTo(k, s) ==
    /\ branches' = [r \in Repos |-> IF r <= k THEN branches[r] \cup {s} ELSE branches[r]]
    /\ head' = [r \in Repos |-> IF r <= k THEN s ELSE head[r]]

CommittedUpTo(k, s) ==
    commits' = [r \in Repos |-> IF r <= k THEN [commits[r] EXCEPT ![s] = chainRun]
                                  ELSE commits[r]]

SessionFrame == UNCHANGED <<chainRun, verdicts, scoreFile, chainExit>>

\* A session that succeeds was set up, worked in and committed everywhere.
RunSession ==
    /\ chainPc = "session"
    /\ LET s == session + 1 IN
        /\ \A r \in Repos : CanBranch(r, s)
        /\ BranchedUpTo(NRepos, s) /\ CommittedUpTo(NRepos, s)
        /\ session' = s
        /\ chainPc' = IF s = NSessions THEN "checkpoints"
                      ELSE IF s \in Milestones THEN "milestones" ELSE "session"
    /\ UNCHANGED failed /\ SessionFrame

\* Where a session gives up: setting up a repository, at work, or committing one.
GaveUpAt(s) ==
    \/ \E k \in 0..NRepos - 1 :
          /\ \A r \in 1..k : CanBranch(r, s)
          /\ BranchedUpTo(k, s) /\ UNCHANGED commits
    \/ \E k \in 0..NRepos - 1 :
          /\ \A r \in Repos : CanBranch(r, s)
          /\ BranchedUpTo(NRepos, s) /\ CommittedUpTo(k, s)

\* The exception is recorded and the chain is left.
SessionFails ==
    /\ chainPc = "session"
    /\ GaveUpAt(session + 1)
    /\ failed' = failed \cup {"session_failure"}
    /\ chainPc' = "checkpoints"
    /\ UNCHANGED session /\ SessionFrame

\* A verifier reaches a verdict, or there is no score for what it looked at.
Verify(after) ==
    \E scored \in BOOLEAN :
        verdicts' = Append(verdicts, [after |-> after, scored |-> scored, seen |-> head])

ScoreFrame == UNCHANGED <<chainRun, session, failed, branches, head, commits, scoreFile,
                          chainExit>>

RunMilestones ==
    /\ chainPc = "milestones"
    /\ Verify(session)
    /\ chainPc' = "session"
    /\ ScoreFrame

\* Only once every configured session has succeeded.
RunCheckpoints ==
    /\ chainPc = "checkpoints"
    /\ IF Checkpoints /\ session = NSessions THEN Verify(NSessions)
       ELSE UNCHANGED verdicts
    /\ chainPc' = "total"
    /\ ScoreFrame

\* One missing verdict makes the whole chain invalid.
ComputeTotalScore ==
    /\ chainPc = "total"
    /\ failed' = IF \E i \in DOMAIN verdicts : ~verdicts[i].scored
                 THEN failed \cup {"verifier_infra_error"} ELSE failed
    /\ chainPc' = "save"
    /\ UNCHANGED <<chainRun, session, verdicts, branches, head, commits, scoreFile, chainExit>>

ChainTotal == IF ChainInvalid \/ verdicts = <<>> THEN "null" ELSE "number"

\* The score file is the last thing that is written; an invalid chain fails.
SaveScore ==
    /\ chainPc = "save"
    /\ scoreFile' = [by |-> chainRun, score |-> ChainTotal]
    /\ chainPc' = "idle"
    /\ chainExit' = IF ChainInvalid THEN "failure" ELSE "success"
    /\ UNCHANGED <<chainRun, session, failed, verdicts, branches, head, commits>>

\* The runner is killed, perhaps while it writes.
KillRunner ==
    /\ chainPc # "idle"
    /\ scoreFile' \in {scoreFile} \cup
          (IF chainPc = "save" THEN {[by |-> chainRun, score |-> "torn"]} ELSE {})
    /\ chainPc' = "idle" /\ chainExit' = "killed"
    /\ UNCHANGED <<chainRun, session, failed, verdicts, branches, head, commits>>

ChainNext ==
    \/ InvokeChain \/ DryRunChain \/ RunSession \/ SessionFails \/ RunMilestones
    \/ RunCheckpoints \/ ComputeTotalScore \/ SaveScore \/ KillRunner

ChainSpec == ChainInit /\ [][ChainNext]_chainVars

-----------------------------------------------------------------------------
(* A number on disk is the score of the last invocation, whatever became of *)
(* earlier ones: all its sessions ran and were committed in every           *)
(* repository, every verdict was reached, and the checkpoints looked at the *)
(* last session's branch everywhere (main, run_chain, _compute_total_score).*)
PublishedScoreIsEarned ==
    (scoreFile # NoScoreFile /\ scoreFile.score = "number") =>
        /\ scoreFile.by = chainRun
        /\ session = NSessions
        /\ \A r \in Repos, s \in Sessions : commits[r][s] = chainRun
        /\ \A i \in DOMAIN verdicts :
              /\ verdicts[i].scored
              /\ \A r \in Repos : verdicts[i].seen[r] = verdicts[i].after
=============================================================================
