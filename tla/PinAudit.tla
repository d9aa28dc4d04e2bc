------------------------------ MODULE PinAudit ------------------------------
(***************************************************************************)
(* What pins a task to its revisions, and the audit of a run's trace         *)
(* against that pin (audit_mirror_contamination.py).                         *)
(*                                                                         *)
(* A repository is a mirror of a project at a revision, or its upstream,     *)
(* which moves (rev Unpinned).  Every answer says where its source is from, as   *)
(* Sourcegraph's headers do; what the agent asks and gets is any choice.     *)
(***************************************************************************)
EXTENDS Naturals, FiniteSets

CONSTANTS
    Projects,        \* names of repositories, as a mirror's name has them
    PinnedRevs,      \* revisions there are mirrors of
    Unpinned,            \* no revision at all
    PinSets,         \* what a task may pin
    AgentRepos,      \* the repositories that an agent may come upon
    MaxAgentCalls,   \* bound: calls of a run
    NoFile

ASSUME AuditAssumption ==
    /\ Unpinned \notin PinnedRevs
    /\ \A s \in PinSets : IsFiniteSet(s) /\ s \subseteq Projects \X (PinnedRevs \cup {Unpinned})
    /\ AgentRepos \subseteq Projects \X (PinnedRevs \cup {Unpinned})
    /\ MaxAgentCalls \in Nat

VARIABLES
    mirrorsFile,     \* configs/sg_mirrors/<task>.json
    taskToml,        \* [[repos]] of the task's definition
    preamble,        \* mirrors the run was told to use
    agentTrace,      \* what agent_trace.jsonl says of each call
    torn,            \* it ends in half a line
    context,         \* history: where the source that the agent got was from
    auditedRun        \* "before", "during" or "after" the run

auditVars == <<mirrorsFile, taskToml, preamble, agentTrace, torn, context, auditedRun>>

\* derive_mirror_name, _project_of_mirror
ProjectOf(repo) == repo[1]
IsMirror(repo) == repo[2] # Unpinned

AuditInit ==
    /\ mirrorsFile \in PinSets \cup {NoFile} /\ taskToml \in PinSets \cup {NoFile}
    /\ preamble = {} /\ agentTrace = {} /\ torn = FALSE /\ context = {}
    /\ auditedRun = "before"

\* The task is pinned anew, renamed, or archived after the run (what it was pinned to
\* before is any choice).
EditPin ==
    /\ auditedRun = "after"
    /\ \/ mirrorsFile' \in PinSets \cup {NoFile} /\ UNCHANGED taskToml
       \/ taskToml' \in PinSets \cup {NoFile} /\ UNCHANGED mirrorsFile
    /\ UNCHANGED <<preamble, agentTrace, torn, context, auditedRun>>

-----------------------------------------------------------------------------
(* The run.                                                                 *)

\* The instruction names mirrors of the task's projects; it may be an old file.  A
\* baseline run has none, and no access to a mirror.
TellAgent ==
    /\ auditedRun = "before" /\ taskToml # NoFile
    /\ \E stale \in PinSets \cup {{}} :
          preamble' \in {{pin \in told : IsMirror(pin)} : told \in {taskToml, stale}}
    /\ auditedRun' = "during"
    /\ UNCHANGED <<mirrorsFile, taskToml, agentTrace, torn, context>>

\* The agent asks for a repository, or for none, and gets source from another or none.
CallTool(asked, sources) ==
    /\ auditedRun = "during" /\ preamble # {}
    /\ Cardinality(agentTrace) < MaxAgentCalls
    /\ context' = context \cup sources
    /\ \E cut \in BOOLEAN :
          /\ agentTrace' = IF cut THEN agentTrace \cup {[called |-> asked, cited |-> {}]}
                           ELSE agentTrace \cup {[called |-> asked, cited |-> sources]}
          /\ torn' = cut
          /\ auditedRun' = IF cut THEN "after" ELSE "during"
    /\ UNCHANGED <<mirrorsFile, taskToml, preamble>>

EndRun ==
    /\ auditedRun = "during"
    /\ auditedRun' = "after"
    /\ UNCHANGED <<mirrorsFile, taskToml, preamble, agentTrace, torn, context>>

AuditNext ==
    \/ EditPin \/ TellAgent \/ EndRun
    \/ \E asked, sources \in {{}} \cup {{r} : r \in AgentRepos} : CallTool(asked, sources)

AuditSpec == AuditInit /\ [][AuditNext]_auditVars

-----------------------------------------------------------------------------
(* The audit.                                                               *)

\* _is_pinned: HEAD is not a revision.
PairsFrom(file) == IF file = NoFile THEN {} ELSE {pin \in file : IsMirror(pin)}

\* Mutant: what the agent was told is what it may read.
AuthorizedByPreamble == preamble

\* resolve_authorized_mirrors: the run's own file first, then the task's definition.
AuthorizedMirrors ==
    IF PairsFrom(mirrorsFile) # {} THEN PairsFrom(mirrorsFile) ELSE PairsFrom(taskToml)

PinnedProjects == {ProjectOf(m) : m \in AuthorizedMirrors}

\* Mutant: only mirrors can be of a wrong revision.
ViolatesAsMirror(repo) ==
    repo \notin AuthorizedMirrors /\ IsMirror(repo) /\ ProjectOf(repo) \in PinnedProjects

\* classify_repo: a sibling mirror, or the upstream of an authorized one.
ViolatesPin(repo) == repo \notin AuthorizedMirrors /\ ProjectOf(repo) \in PinnedProjects

PinViolatingCalled == {r \in UNION {c.called : c \in agentTrace} : ViolatesPin(r)}
PinViolatingCited  == {r \in UNION {c.cited : c \in agentTrace} : ViolatesPin(r)}

AmbiguousProjects ==
    {p \in PinnedProjects : Cardinality({m \in AuthorizedMirrors : ProjectOf(m) = p}) > 1}

HasMCP == preamble # {}

\* Only a run that had the tools, of a task whose pin resolves, can be judged.
AuditScores == HasMCP /\ AuthorizedMirrors # {}

\* Mutant: a line that cannot be read is nothing.
TrustworthyThoughTorn == AmbiguousProjects = {} /\ ~(HasMCP /\ AuthorizedMirrors = {})

Trustworthy ==
    AmbiguousProjects = {} /\ ~torn /\ ~(HasMCP /\ AuthorizedMirrors = {})

-----------------------------------------------------------------------------
AuditTypeOK ==
    /\ context \subseteq AgentRepos
    /\ \A m \in preamble : IsMirror(m)
    /\ torn => auditedRun = "after"

(* A clean verdict means something: in a run that is judged and trusted and  *)
(* has no finding, whatever the agent got of a project that the task pins    *)
(* was of the one revision the task pins it at, by the one or the other of   *)
(* the two files that pin it, though the instruction, a reference or a       *)
(* search may have led it elsewhere and the run may have been killed in the  *)
(* middle of a line (audit_run, trustworthy).                                *)
CleanAuditIsSound ==
    (AuditScores /\ Trustworthy /\ PinViolatingCalled = {} /\ PinViolatingCited = {}) =>
        \E pins \in {PairsFrom(mirrorsFile), PairsFrom(taskToml)} \ {{}} :
            \A source \in context :
                LET pinned == {m \in pins : ProjectOf(m) = ProjectOf(source)}
                IN  pinned \in {{}, {source}}
=============================================================================
