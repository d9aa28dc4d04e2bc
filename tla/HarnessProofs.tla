---------------------------- MODULE HarnessProofs -----------------------------
(***************************************************************************)
(* Parts of the harness for every value of their constants: the score file *)
(* of a session chain is earned (SessionChain), an audit that finds        *)
(* nothing has something to say (PinAudit), what is said of mirrors is so  *)
(* (Mirrors), holds and slots outlive the commands that enter them         *)
(* (AccountHealth), an agent reads what its arm shows it and what is       *)
(* graded stands still (TaskContainer), a reported number is the weighted  *)
(* sum of what was measured (Grading), and the calls that a run is judged  *)
(* by are those that were served (FinderEvidence).                         *)
(***************************************************************************)
EXTENDS SessionChain, PinAudit, Mirrors, AccountHealth, TaskContainer, Grading,
        FinderEvidence, UsageCapacity, SumTheorems, SequenceTheorems, FiniteSetTheorems, TLAPS

-----------------------------------------------------------------------------
(* The session chain                                                       *)

\* Types.
ChainTypes ==
    /\ chainRun \in Nat /\ session \in 0..NSessions /\ failed \subseteq Channels
    /\ chainPc \in {"idle", "session", "milestones", "checkpoints", "total", "save"}
    /\ verdicts \in Seq(ChainVerdicts)
    /\ head \in [Repos -> 0..NSessions] /\ commits \in [Repos -> [Sessions -> Nat]]

\* There is no score file while the runner is at work.
NoScoreAtWork == chainPc # "idle" => scoreFile = NoScoreFile

\* Sessions are started only while none has failed, and while one is left.
OnlyWhileSound ==
    chainPc \in {"session", "milestones"} => failed = {} /\ session < NSessions

\* Every session that counts as succeeded was committed by this invocation everywhere.
CommittedSoFar ==
    chainPc # "idle" => \A r \in Repos, s \in Sessions : s <= session => commits[r][s] = chainRun

\* Every verdict looked, in every repository, at the branch it speaks of.
VerdictsLooked ==
    \A i \in DOMAIN verdicts : \A r \in Repos : verdicts[i].seen[r] = verdicts[i].after

\* What is checked out where verifiers look next.
CheckedOut ==
    /\ chainPc = "milestones" => session > 0 /\ \A r \in Repos : head[r] = session
    /\ (chainPc = "checkpoints" /\ session = NSessions) => \A r \in Repos : head[r] = NSessions

\* A chain that was left early has said why.
LeftForAReason ==
    (/\ chainPc \in {"checkpoints", "total", "save"}
     /\ failed \cap {"agent_not_configured", "session_failure"} = {}) => session = NSessions

\* Nor does an unreached verdict go unrecorded.
UnscoredRecorded ==
    (chainPc = "save" /\ failed = {}) => \A i \in DOMAIN verdicts : verdicts[i].scored

ChainInv ==
    /\ ChainTypes /\ NoScoreAtWork /\ OnlyWhileSound /\ CommittedSoFar /\ VerdictsLooked
    /\ CheckedOut /\ LeftForAReason /\ UnscoredRecorded /\ PublishedScoreIsEarned

-----------------------------------------------------------------------------
(* There is no score file before there is an invocation. *)
LEMMA ChainStarts == ChainInit => ChainInv
<1>. SUFFICES ASSUME ChainInit PROVE ChainInv
  OBVIOUS
<1>1. ChainTypes
  BY ChainAssumption, EmptySeq DEF ChainInit, ChainTypes, Sessions, Repos
<1>. QED
  BY <1>1 DEF ChainInit, ChainInv, NoScoreAtWork, OnlyWhileSound, CommittedSoFar, VerdictsLooked,
     CheckedOut, LeftForAReason, UnscoredRecorded, PublishedScoreIsEarned

(* A verdict of what is checked out is one that looked where it says. *)
LEMMA VerdictAdded ==
    ASSUME ChainInv, NEW after \in Sessions, \A r \in Repos : head[r] = after, Verify(after)
    PROVE  verdicts' \in Seq(ChainVerdicts) /\ VerdictsLooked'
<1>1. PICK scored \in BOOLEAN :
        verdicts' = Append(verdicts, [after |-> after, scored |-> scored, seen |-> head])
  BY DEF Verify
<1>. DEFINE v == [after |-> after, scored |-> scored, seen |-> head]
<1>2. v \in ChainVerdicts /\ verdicts \in Seq(ChainVerdicts)
  BY DEF ChainInv, ChainTypes, ChainVerdicts
<1>3. v.after = after /\ \A r \in Repos : v.seen[r] = after
  OBVIOUS
<1>4. verdicts' = Append(verdicts, v)
  BY <1>1
<1>. HIDE DEF v
<1>5. /\ verdicts' \in Seq(ChainVerdicts)
      /\ DOMAIN verdicts' = 1..Len(verdicts) + 1 /\ DOMAIN verdicts = 1..Len(verdicts)
      /\ \A i \in 1..Len(verdicts) : verdicts'[i] = verdicts[i]
      /\ verdicts'[Len(verdicts) + 1] = v /\ Len(verdicts) \in Nat
  BY <1>2, <1>4, AppendProperties, LenProperties
<1>6. ASSUME NEW i \in DOMAIN verdicts', NEW r \in Repos
      PROVE  verdicts'[i].seen[r] = verdicts'[i].after
  <2>1. CASE i \in 1..Len(verdicts)
    BY <2>1, <1>5 DEF ChainInv, VerdictsLooked
  <2>2. CASE i = Len(verdicts) + 1
    BY <2>2, <1>5, <1>3
  <2>. QED
    BY <2>1, <2>2, <1>5
<1>. QED
  BY <1>5, <1>6 DEF VerdictsLooked

(* The invariant is inductive: one step for each step of the runner. *)
LEMMA ChainSteps == ChainInv /\ [ChainNext]_chainVars => ChainInv'
<1>. SUFFICES ASSUME ChainInv, [ChainNext]_chainVars PROVE ChainInv'
  OBVIOUS
<1>. USE DEF ChainInv
<1>1. CASE InvokeChain
  <2>1. PICK way \in {"malformed", "bare", "simulate"} : BeginChain(way)
    BY <1>1 DEF InvokeChain
  <2>2. /\ chainRun' = chainRun + 1 /\ session' = 0 /\ verdicts' = <<>>
        /\ scoreFile' = NoScoreFile
        /\ failed' = IF way = "bare" THEN {"agent_not_configured"} ELSE {}
        /\ chainPc' = IF way = "malformed" THEN "idle" ELSE IF way = "bare" THEN "save" ELSE "session"
    BY <1>1, <2>1 DEF InvokeChain, BeginChain
  <2>3. head' \in [Repos -> 0..NSessions] /\ commits' \in [Repos -> [Sessions -> Nat]]
    <3>1. CASE EmptyWorkspace
      BY <3>1, ChainAssumption DEF EmptyWorkspace
    <3>2. CASE UNCHANGED <<branches, head, commits>>
      BY <3>2 DEF ChainTypes
    <3>. QED
      BY <3>1, <3>2, <2>1 DEF BeginChain
  <2>4. ChainTypes'
    BY <2>2, <2>3, ChainAssumption, EmptySeq DEF ChainTypes, Channels
  <2>. QED
    BY <2>2, <2>4, ChainAssumption DEF NoScoreAtWork, OnlyWhileSound, CommittedSoFar, VerdictsLooked,
       CheckedOut, LeftForAReason, UnscoredRecorded, PublishedScoreIsEarned, Sessions
<1>2. CASE DryRunChain
  BY <1>2 DEF DryRunChain, ChainTypes, NoScoreAtWork, OnlyWhileSound, CommittedSoFar,
     VerdictsLooked, CheckedOut, LeftForAReason, UnscoredRecorded, PublishedScoreIsEarned
<1>3. CASE RunSession
  <2>. DEFINE s == session + 1
  <2>1. /\ session' = s /\ s \in Sessions /\ failed' = failed /\ failed = {}
        /\ chainRun' = chainRun /\ verdicts' = verdicts /\ scoreFile' = scoreFile
        /\ chainPc' = IF s = NSessions THEN "checkpoints"
                      ELSE IF s \in Milestones THEN "milestones" ELSE "session"
    BY <1>3, ChainAssumption DEF RunSession, SessionFrame, OnlyWhileSound, ChainTypes, Sessions
  <2>2. head' = [r \in Repos |-> s]
    BY <1>3, ChainAssumption DEF RunSession, BranchedUpTo, Repos
  <2>3. commits' = [r \in Repos |-> [commits[r] EXCEPT ![s] = chainRun]]
    BY <1>3, ChainAssumption DEF RunSession, CommittedUpTo, Repos
  <2>4. ChainTypes'
    BY <2>1, <2>2, <2>3, ChainAssumption DEF ChainTypes, Sessions
  <2>5. ASSUME NEW r \in Repos, NEW t \in Sessions, t <= session'
        PROVE  commits'[r][t] = chainRun'
    <3>1. commits'[r] = [commits[r] EXCEPT ![s] = chainRun] /\ commits[r] \in [Sessions -> Nat]
      BY <2>3 DEF ChainTypes
    <3>2. CASE t = s
      BY <3>1, <3>2, <2>1
    <3>3. CASE t # s
      <4>1. t <= session /\ chainPc = "session"
        BY <3>3, <2>1, <2>5, <1>3 DEF RunSession, ChainTypes, Sessions
      <4>. QED
        BY <4>1, <3>1, <3>3, <2>1 DEF CommittedSoFar
    <3>. QED
      BY <3>2, <3>3
  <2>6. CommittedSoFar'
    BY <2>5 DEF CommittedSoFar
  <2>7. CheckedOut'
    <3>1. \A r \in Repos : head'[r] = s
      BY <2>2
    <3>2. s > 0
      BY <2>1 DEF Sessions
    <3>. QED
      BY <3>1, <3>2, <2>1 DEF CheckedOut
  <2>8. NoScoreAtWork'
    BY <2>1, <1>3 DEF RunSession, NoScoreAtWork
  <2>9. OnlyWhileSound'
    BY <2>1, ChainAssumption DEF OnlyWhileSound, Sessions
  <2>. QED
    BY <2>1, <2>4, <2>6, <2>7, <2>8, <2>9, <1>3 DEF RunSession, VerdictsLooked, LeftForAReason,
       UnscoredRecorded, PublishedScoreIsEarned, NoScoreAtWork
<1>4. CASE SessionFails
  <2>. DEFINE s == session + 1
  <2>1. /\ session' = session /\ session < NSessions /\ failed' = {"session_failure"}
        /\ chainPc = "session" /\ chainPc' = "checkpoints"
        /\ chainRun' = chainRun /\ verdicts' = verdicts /\ scoreFile' = scoreFile
        /\ s \in Sessions
    BY <1>4, ChainAssumption DEF SessionFails, SessionFrame, OnlyWhileSound, ChainTypes, Sessions
  <2>2. PICK j \in 0..NRepos, k \in 0..NRepos :
          BranchedUpTo(j, s) /\ (CommittedUpTo(k, s) \/ UNCHANGED commits)
    BY <1>4, ChainAssumption DEF SessionFails, GaveUpAt
  <2>3. head' \in [Repos -> 0..NSessions]
    BY <2>1, <2>2, ChainAssumption DEF BranchedUpTo, ChainTypes, Sessions
  <2>4. /\ commits' \in [Repos -> [Sessions -> Nat]]
        /\ \A r \in Repos, t \in Sessions : t <= session => commits'[r][t] = commits[r][t]
    <3>1. CASE CommittedUpTo(k, s)
      BY <2>1, <3>1 DEF CommittedUpTo, ChainTypes, Sessions
    <3>2. CASE UNCHANGED commits
      BY <3>2 DEF ChainTypes
    <3>. QED
      BY <2>2, <3>1, <3>2
  <2>5. ChainTypes'
    BY <2>1, <2>3, <2>4 DEF ChainTypes, Channels
  <2>6. CommittedSoFar'
    BY <2>1, <2>4 DEF CommittedSoFar
  <2>. QED
    BY <2>1, <2>5, <2>6 DEF NoScoreAtWork, OnlyWhileSound, VerdictsLooked, CheckedOut,
       LeftForAReason, UnscoredRecorded, PublishedScoreIsEarned, ChainTypes
<1>5. CASE RunMilestones
  <2>1. /\ session \in Sessions /\ Verify(session) /\ \A r \in Repos : head[r] = session
        /\ chainPc = "milestones" /\ chainPc' = "session"
        /\ UNCHANGED <<chainRun, session, failed, branches, head, commits, scoreFile, chainExit>>
    BY <1>5, ChainAssumption DEF RunMilestones, ScoreFrame, CheckedOut, ChainTypes, Sessions
  <2>2. verdicts' \in Seq(ChainVerdicts) /\ VerdictsLooked'
    BY <2>1, VerdictAdded
  <2>. QED
    BY <2>1, <2>2 DEF ChainTypes, NoScoreAtWork, OnlyWhileSound, CommittedSoFar, CheckedOut,
       LeftForAReason, UnscoredRecorded, PublishedScoreIsEarned
<1>6. CASE RunCheckpoints
  <2>1. /\ chainPc = "checkpoints" /\ chainPc' = "total"
        /\ UNCHANGED <<chainRun, session, failed, branches, head, commits, scoreFile, chainExit>>
    BY <1>6 DEF RunCheckpoints, ScoreFrame
  <2>2. verdicts' \in Seq(ChainVerdicts) /\ VerdictsLooked'
    <3>1. CASE Checkpoints /\ session = NSessions
      <4>1. Verify(NSessions) /\ NSessions \in Sessions /\ \A r \in Repos : head[r] = NSessions
        BY <3>1, <1>6, ChainAssumption DEF RunCheckpoints, CheckedOut, Sessions
      <4>. QED
        BY <4>1, VerdictAdded
    <3>2. CASE ~(Checkpoints /\ session = NSessions)
      BY <3>2, <1>6 DEF RunCheckpoints, VerdictsLooked, ChainTypes
    <3>. QED
      BY <3>1, <3>2
  <2>. QED
    BY <2>1, <2>2 DEF ChainTypes, NoScoreAtWork, OnlyWhileSound, CommittedSoFar, CheckedOut,
       LeftForAReason, UnscoredRecorded, PublishedScoreIsEarned
<1>7. CASE ComputeTotalScore
  BY <1>7 DEF ComputeTotalScore, ChainTypes, Channels, NoScoreAtWork, OnlyWhileSound, CommittedSoFar,
     VerdictsLooked, CheckedOut, LeftForAReason, UnscoredRecorded, PublishedScoreIsEarned
<1>8. CASE SaveScore
  <2>1. /\ chainPc = "save" /\ chainPc' = "idle"
        /\ UNCHANGED <<chainRun, session, failed, verdicts, branches, head, commits>>
        /\ scoreFile' = [by |-> chainRun, score |-> ChainTotal]
    BY <1>8 DEF SaveScore
  <2>2. scoreFile'.by = chainRun /\ scoreFile'.score = ChainTotal
    BY <2>1
  <2>3. ChainTotal = "number" => failed = {}
    BY DEF ChainTotal, ChainInvalid
  <2>4. PublishedScoreIsEarned'
    BY <2>1, <2>2, <2>3 DEF PublishedScoreIsEarned, CommittedSoFar, VerdictsLooked, LeftForAReason,
       UnscoredRecorded, Sessions
  <2>. QED
    BY <2>1, <2>4 DEF ChainTypes, NoScoreAtWork, OnlyWhileSound, CommittedSoFar,
       VerdictsLooked, CheckedOut, LeftForAReason, UnscoredRecorded
<1>9. CASE KillRunner
  <2>1. /\ chainPc # "idle" /\ chainPc' = "idle"
        /\ UNCHANGED <<chainRun, session, failed, verdicts, branches, head, commits>>
        /\ scoreFile' = NoScoreFile \/ scoreFile'.score = "torn"
    BY <1>9 DEF KillRunner, NoScoreAtWork
  <2>. QED
    BY <2>1 DEF ChainTypes, NoScoreAtWork, OnlyWhileSound, CommittedSoFar,
       VerdictsLooked, CheckedOut, LeftForAReason, UnscoredRecorded, PublishedScoreIsEarned
<1>10. CASE UNCHANGED chainVars
  BY <1>10 DEF chainVars, ChainTypes, NoScoreAtWork, OnlyWhileSound, CommittedSoFar,
     VerdictsLooked, CheckedOut, LeftForAReason, UnscoredRecorded, PublishedScoreIsEarned
<1>. QED
  BY <1>1, <1>2, <1>3, <1>4, <1>5, <1>6, <1>7, <1>8, <1>9, <1>10 DEF ChainNext

(* A number on disk is that of the last invocation, all of whose sessions   *)
(* were committed everywhere and all of whose verdicts were reached.        *)
THEOREM ScoreIsEarned == ChainSpec => []PublishedScoreIsEarned
<1>1. ChainInit => ChainInv
  BY ChainStarts
<1>2. ChainInv /\ [ChainNext]_chainVars => ChainInv'
  BY ChainSteps
<1>3. ChainInv => PublishedScoreIsEarned
  BY DEF ChainInv
<1>. QED
  BY <1>1, <1>2, <1>3, PTL DEF ChainSpec

-----------------------------------------------------------------------------
(* The audit                                                               *)

\* Both files hold finitely many pins.
PinTypes ==
    /\ mirrorsFile \in PinSets \cup {NoFile} /\ taskToml \in PinSets \cup {NoFile}
    /\ torn \in BOOLEAN

\* The trace says of everything the agent got where it was from, unless it was cut off,
\* and what was cut off was the end of the run.
TraceTellsAll ==
    /\ torn => auditedRun = "after"
    /\ ~torn => context \subseteq UNION {c.cited : c \in agentTrace}

AuditInv == PinTypes /\ TraceTellsAll

(* There is no call yet. *)
LEMMA AuditStarts == AuditInit => AuditInv
  BY DEF AuditInit, AuditInv, PinTypes, TraceTellsAll

(* A call is told in full or is the last. *)
LEMMA AuditSteps == AuditInv /\ [AuditNext]_auditVars => AuditInv'
<1>. SUFFICES ASSUME AuditInv, [AuditNext]_auditVars PROVE AuditInv'
  OBVIOUS
<1>. USE DEF AuditInv
<1>1. CASE EditPin
  BY <1>1 DEF EditPin, PinTypes, TraceTellsAll
<1>2. CASE TellAgent
  <2>1. UNCHANGED <<mirrorsFile, taskToml, agentTrace, torn, context>> /\ auditedRun = "before"
    BY <1>2 DEF TellAgent
  <2>. QED
    BY <2>1 DEF PinTypes, TraceTellsAll
<1>3. CASE EndRun
  BY <1>3 DEF EndRun, PinTypes, TraceTellsAll
<1>4. ASSUME NEW asked, NEW sources, CallTool(asked, sources)
      PROVE  AuditInv'
  <2>1. PICK cut \in BOOLEAN :
          /\ agentTrace' = IF cut THEN agentTrace \cup {[called |-> asked, cited |-> {}]}
                           ELSE agentTrace \cup {[called |-> asked, cited |-> sources]}
          /\ torn' = cut
          /\ auditedRun' = IF cut THEN "after" ELSE "during"
    BY <1>4 DEF CallTool
  <2>2. context' = context \cup sources /\ UNCHANGED <<mirrorsFile, taskToml>> /\ ~torn
    BY <1>4 DEF CallTool, TraceTellsAll, PinTypes
  <2>3. CASE cut
    BY <2>1, <2>2, <2>3 DEF PinTypes, TraceTellsAll
  <2>4. CASE ~cut
    <3>. DEFINE line == [called |-> asked, cited |-> sources]
    <3>1. agentTrace' = agentTrace \cup {line} /\ ~torn' /\ line.cited = sources
      BY <2>1, <2>4
    <3>2. context \subseteq UNION {c.cited : c \in agentTrace}
      BY <2>2 DEF TraceTellsAll
    <3>. HIDE DEF line
    <3>3. context' \subseteq UNION {c.cited : c \in agentTrace'}
      BY <3>1, <3>2, <2>2
    <3>. QED
      BY <3>1, <3>3, <2>1, <2>2 DEF PinTypes, TraceTellsAll
  <2>. QED
    BY <2>3, <2>4
<1>5. CASE UNCHANGED auditVars
  BY <1>5 DEF auditVars, PinTypes, TraceTellsAll
<1>. QED
  BY <1>1, <1>2, <1>3, <1>4, <1>5 DEF AuditNext

(* There is only one pin of a project that is not ambiguous. *)
LEMMA OnePinOfProject ==
    ASSUME PinTypes, AmbiguousProjects = {}, NEW a \in AuthorizedMirrors, NEW b \in AuthorizedMirrors,
           ProjectOf(a) = ProjectOf(b)
    PROVE  a = b
<1>. DEFINE P == {m \in AuthorizedMirrors : ProjectOf(m) = ProjectOf(a)}
<1>1. \A f \in {mirrorsFile, taskToml} : IsFiniteSet(PairsFrom(f))
  <2>1. \A f \in PinSets : IsFiniteSet({pin \in f : IsMirror(pin)})
    BY AuditAssumption, FS_Subset
  <2>. QED
    BY <2>1, FS_EmptySet DEF PairsFrom, PinTypes
<1>2. IsFiniteSet(AuthorizedMirrors)
  BY <1>1 DEF AuthorizedMirrors
<1>3. IsFiniteSet(P) /\ a \in P /\ b \in P
  BY <1>2, FS_Subset
<1>4. ~(Cardinality(P) > 1) /\ Cardinality(P) \in Nat
  BY <1>3, FS_CardinalityType DEF AmbiguousProjects, PinnedProjects
<1>. HIDE DEF P
<1>. QED
  BY <1>3, <1>4, AtMostOne

(* What an untorn trace cites and no rule objects to is of the one pin or of *)
(* no pinned project.                                                        *)
LEMMA TrustedIsSound == AuditInv => CleanAuditIsSound
<1>. SUFFICES ASSUME AuditInv, AuditScores, Trustworthy, PinViolatingCited = {}
              PROVE  \E pins \in {PairsFrom(mirrorsFile), PairsFrom(taskToml)} \ {{}} :
                         \A source \in context :
                             {m \in pins : ProjectOf(m) = ProjectOf(source)} \in {{}, {source}}
  BY DEF CleanAuditIsSound
<1>1. AuthorizedMirrors \in {PairsFrom(mirrorsFile), PairsFrom(taskToml)} \ {{}}
  BY DEF AuditScores, AuthorizedMirrors
<1>2. ASSUME NEW source \in context
      PROVE  {m \in AuthorizedMirrors : ProjectOf(m) = ProjectOf(source)} \in {{}, {source}}
  <2>1. ~ViolatesPin(source)
    BY DEF Trustworthy, AuditInv, TraceTellsAll, PinViolatingCited
  <2>2. CASE ProjectOf(source) \notin PinnedProjects
    BY <2>2 DEF PinnedProjects
  <2>3. CASE source \in AuthorizedMirrors
    BY <2>3, OnePinOfProject DEF AuditInv, Trustworthy
  <2>. QED
    BY <2>1, <2>2, <2>3 DEF ViolatesPin
<1>. QED
  BY <1>1, <1>2

(* Whatever the task pins, whatever the agent was told, asked for and got,  *)
(* and however its run ended, a clean audit that is trusted is right.       *)
THEOREM CleanMeansPinned == AuditSpec => []CleanAuditIsSound
<1>. QED
  BY AuditStarts, AuditSteps, TrustedIsSound, PTL DEF AuditSpec

-----------------------------------------------------------------------------
(* The mirrors                                                             *)

CreatorSteps == {"idle", "next", "probe", "create", "push", "declined", "pushed", "refused"}

\* Types, and the one mirror that the creator is at is one still to be created.
CreatorTypes ==
    /\ hosted \in [Manifest -> {"absent", "empty", "full"}]
    /\ creator = [at |-> creator.at, mirror |-> creator.mirror, again |-> creator.again]
    /\ creator.at \in CreatorSteps
    /\ creator.at \notin {"idle", "next"} => \E m \in toCreate : creator.mirror = {m}

\* Of every mirror it is known how it stands: still to be created, failed, left out since
\* it was listed, or there with its content.
Accounted(m) ==
    \/ m \in toCreate \cup failedMirrors
    \/ hosted[m] = "full"
    \/ m \in skipped /\ hosted[m] # "absent"

CreatorAccounts ==
    /\ creator.at # "idle" => creatorExit = "none" /\ \A m \in Manifest : Accounted(m)
    /\ creator.at = "pushed" => \A m \in creator.mirror : hosted[m] = "full"

\* A report is of the mirrors in the list, and a finding is something the instance had
\* since the check began.
ReportIsFounded ==
    /\ sgIndex \subseteq Manifest
    /\ instance = [m \in Manifest |-> instance[m]]
    /\ checking \in {"no", "yes", "conclusive", "inconclusive"}
    /\ checking = "no" => DOMAIN indexReport = {}
    /\ checking # "no" => \A m \in Manifest : <<m, instance[m]>> \in onInstance
    /\ DOMAIN indexReport \subseteq Manifest
    /\ \A m \in DOMAIN indexReport :
          indexReport[m] = "UNKNOWN" \/ <<m, indexReport[m]>> \in onInstance
    /\ checking = "conclusive" => DOMAIN indexReport = sgIndex /\ Conclusive

MirrorsInv == CreatorTypes /\ CreatorAccounts /\ MirrorsAreReady /\ ReportIsFounded

(* Nothing is hosted, and nothing checked. *)
LEMMA MirrorsStart == MirrorsInit => MirrorsInv
  BY DEF MirrorsInit, MirrorsInv, CreatorTypes, CreatorSteps, CreatorIdle, CreatorAccounts,
     MirrorsAreReady, ReportIsFounded

(* What the check and the instance do not touch stays founded. *)
LEMMA ReportFrame ==
    ASSUME ReportIsFounded, UNCHANGED <<instance, indexVars, onInstance>>
    PROVE  ReportIsFounded'
  BY DEF ReportIsFounded, indexVars, Conclusive

(* The same of the creator. *)
LEMMA CreatorFrame ==
    ASSUME CreatorTypes, CreatorAccounts, MirrorsAreReady, UNCHANGED <<hosted, creatorVars>>
    PROVE  CreatorTypes' /\ CreatorAccounts' /\ MirrorsAreReady'
  BY DEF CreatorTypes, CreatorAccounts, Accounted, MirrorsAreReady, creatorVars

(* A step of the creator on its mirror: others stand as they stood, and it   *)
(* is still to be created unless it has failed or has its content.          *)
LEMMA CreatorStep ==
    ASSUME MirrorsInv, NEW m \in Manifest, creator.mirror = {m}, creator.at \notin {"idle", "next"},
           hosted' \in [Manifest -> {"absent", "empty", "full"}],
           \A n \in Manifest : n # m => hosted'[n] = hosted[n],
           UNCHANGED <<skipped, creatorExit, creations, instance, indexVars, onInstance>>,
           \/ /\ creator'.at \in CreatorSteps \ {"idle", "next"} /\ creator'.mirror = {m}
              /\ UNCHANGED <<toCreate, failedMirrors>>
           \/ /\ creator' = [CreatorIdle EXCEPT !.at = "next"]
              /\ toCreate' = toCreate \ {m} /\ failedMirrors \subseteq failedMirrors'
              /\ m \in failedMirrors' \/ hosted'[m] = "full",
           creator' = [at |-> creator'.at, mirror |-> creator'.mirror, again |-> creator'.again],
           creator'.at = "pushed" => hosted'[m] = "full"
    PROVE  MirrorsInv'
<1>. USE DEF MirrorsInv
<1>1. ReportIsFounded'
  BY ReportFrame
<1>2. m \in toCreate
  BY DEF CreatorTypes
<1>3. creatorExit = "none" /\ \A n \in Manifest : Accounted(n)
  BY DEF CreatorAccounts
<1>4. CASE creator'.at # "next"
  <2>1. /\ creator'.at \in CreatorSteps \ {"idle", "next"} /\ creator'.mirror = {m}
        /\ UNCHANGED <<toCreate, failedMirrors>>
    BY <1>4 DEF CreatorIdle
  <2>2. CreatorTypes'
    BY <1>2, <2>1 DEF CreatorTypes
  <2>3. \A n \in Manifest : Accounted(n)'
    BY <1>2, <1>3, <2>1 DEF Accounted
  <2>4. CreatorAccounts'
    BY <1>3, <2>1, <2>3 DEF CreatorAccounts
  <2>5. MirrorsAreReady'
    BY <1>3 DEF MirrorsAreReady
  <2>. QED
    BY <1>1, <2>2, <2>4, <2>5
<1>5. CASE creator'.at = "next"
  <2>1. /\ creator'.at = "next" /\ toCreate' = toCreate \ {m} /\ failedMirrors \subseteq failedMirrors'
        /\ m \in failedMirrors' \/ hosted'[m] = "full"
    BY <1>5 DEF CreatorIdle
  <2>2. CreatorTypes'
    BY <2>1 DEF CreatorTypes, CreatorSteps
  <2>3. \A n \in Manifest : Accounted(n)'
    BY <1>3, <2>1 DEF Accounted
  <2>4. CreatorAccounts'
    BY <1>3, <2>1, <2>3 DEF CreatorAccounts
  <2>5. MirrorsAreReady'
    BY <1>3 DEF MirrorsAreReady
  <2>. QED
    BY <1>1, <2>2, <2>4, <2>5
<1>. QED
  BY <1>4, <1>5

(* The invariant is inductive. *)
LEMMA MirrorsSteps == MirrorsInv /\ [MirrorsNext]_mirrorVars => MirrorsInv'
<1>. SUFFICES ASSUME MirrorsInv, [MirrorsNext]_mirrorVars PROVE MirrorsInv'
  OBVIOUS
<1>. USE DEF MirrorsInv
<1>1. CASE StartCreating
  <2>1. PICK existing \in {{}, {m \in Manifest : hosted[m] # "absent"}} :
          skipped' = existing /\ toCreate' = Manifest \ existing
    BY <1>1 DEF StartCreating
  <2>2. /\ creatorExit' = "none" /\ creator' = [CreatorIdle EXCEPT !.at = "next"]
        /\ UNCHANGED <<hosted, instance, indexVars, onInstance>>
    BY <1>1 DEF StartCreating
  <2>3. CreatorTypes'
    BY <2>2 DEF CreatorTypes, CreatorIdle, CreatorSteps
  <2>4. CreatorAccounts'
    BY <2>1, <2>2 DEF CreatorAccounts, Accounted, CreatorIdle
  <2>. QED
    BY <2>2, <2>3, <2>4, ReportFrame DEF MirrorsAreReady
<1>2. CASE TakeMirror
  <2>1. PICK m \in toCreate : creator' = [at |-> "probe", mirror |-> {m}, again |-> FALSE]
    BY <1>2 DEF TakeMirror
  <2>2. UNCHANGED <<hosted, toCreate, failedMirrors, skipped, creatorExit, instance, indexVars,
                    onInstance>> /\ creator.at = "next"
    BY <1>2 DEF TakeMirror
  <2>3. CreatorTypes'
    BY <2>1, <2>2 DEF CreatorTypes, CreatorSteps
  <2>4. CreatorAccounts' /\ MirrorsAreReady'
    BY <2>1, <2>2 DEF CreatorAccounts, Accounted, MirrorsAreReady
  <2>. QED
    BY <2>2, <2>3, <2>4, ReportFrame
<1>3. CASE FinishCreating
  <2>1. /\ creator.at = "next" /\ toCreate = {} /\ creator' = CreatorIdle
        /\ creatorExit' = IF failedMirrors = {} THEN "ok" ELSE "failed"
        /\ UNCHANGED <<hosted, toCreate, failedMirrors, skipped, instance, indexVars, onInstance>>
    BY <1>3 DEF FinishCreating
  <2>2. CreatorTypes' /\ CreatorAccounts'
    BY <2>1 DEF CreatorTypes, CreatorAccounts, CreatorIdle, CreatorSteps
  <2>3. MirrorsAreReady'
    BY <2>1 DEF MirrorsAreReady, CreatorAccounts, Accounted
  <2>. QED
    BY <2>1, <2>2, <2>3, ReportFrame
<1>4. CASE KillCreator
  <2>1. /\ creator.at # "idle" /\ creator' = CreatorIdle
        /\ UNCHANGED <<hosted, creatorExit, instance, indexVars, onInstance>>
    BY <1>4 DEF KillCreator
  <2>2. CreatorTypes' /\ CreatorAccounts'
    BY <2>1 DEF CreatorTypes, CreatorAccounts, CreatorIdle, CreatorSteps
  <2>3. MirrorsAreReady'
    BY <2>1 DEF MirrorsAreReady, CreatorAccounts
  <2>. QED
    BY <2>1, <2>2, <2>3, ReportFrame
<1>5. ASSUME NEW m \in Manifest, ProbeMirror(m) PROVE MirrorsInv'
  <2>1. PICK viewed \in BOOLEAN, counted \in BOOLEAN, deleted \in BOOLEAN :
          LET exists == viewed /\ hosted[m] # "absent"
          IN  \/ /\ exists /\ HasContent(m, counted)
                 /\ Settled(m, TRUE) /\ UNCHANGED <<hosted, private>>
              \/ /\ exists /\ ~HasContent(m, counted) /\ ~deleted
                 /\ Settled(m, FALSE) /\ UNCHANGED <<hosted, private>>
              \/ /\ exists /\ ~HasContent(m, counted) /\ deleted
                 /\ hosted' = [hosted EXCEPT ![m] = "absent"]
                 /\ private' = private \ {m}
                 /\ GoTo("create") /\ UNCHANGED <<toCreate, failedMirrors>>
              \/ /\ ~exists
                 /\ GoTo("create") /\ UNCHANGED <<hosted, private, toCreate, failedMirrors>>
    BY <1>5 DEF ProbeMirror
  <2>2. /\ creator.at = "probe" /\ creator.mirror = {m}
        /\ UNCHANGED <<skipped, creatorExit, creations, instance, indexVars, onInstance>>
    BY <1>5 DEF ProbeMirror, At
  <2>3. /\ hosted' \in [Manifest -> {"absent", "empty", "full"}]
        /\ \A n \in Manifest : n # m => hosted'[n] = hosted[n]
    BY <2>1 DEF CreatorTypes
  <2>4. \/ (hosted[m] = "full" /\ Settled(m, TRUE) /\ hosted' = hosted)
        \/ Settled(m, FALSE)
        \/ (GoTo("create") /\ UNCHANGED <<toCreate, failedMirrors>>)
    BY <2>1 DEF HasContent
  <2>. QED
    BY <2>2, <2>3, <2>4, CreatorStep DEF Settled, GoTo, CreatorIdle, CreatorSteps, CreatorTypes
<1>6. ASSUME NEW m \in Manifest, CreateRepo(m) PROVE MirrorsInv'
  <2>1. /\ creator.at = "create" /\ creator.mirror = {m}
        /\ UNCHANGED <<skipped, creatorExit, creations, instance, indexVars, onInstance>>
    BY <1>6 DEF CreateRepo, At
  <2>2. /\ hosted' \in [Manifest -> {"absent", "empty", "full"}]
        /\ \A n \in Manifest : n # m => hosted'[n] = hosted[n]
    BY <1>6 DEF CreateRepo, CreatorTypes
  <2>3. \/ (GoTo("push") /\ UNCHANGED <<toCreate, failedMirrors>>)
        \/ Settled(m, FALSE)
        \/ (/\ creator' = [creator EXCEPT !.at = "probe", !.again = TRUE]
            /\ UNCHANGED <<toCreate, failedMirrors>>)
    BY <1>6 DEF CreateRepo, AgainOrFail
  <2>. QED
    BY <2>1, <2>2, <2>3, CreatorStep DEF Settled, GoTo, CreatorIdle, CreatorSteps, CreatorTypes
<1>7. ASSUME NEW m \in Manifest, PushContent(m) PROVE MirrorsInv'
  <2>1. /\ creator.at = "push" /\ creator.mirror = {m}
        /\ UNCHANGED <<skipped, creatorExit, creations, instance, indexVars, onInstance>>
    BY <1>7 DEF PushContent, At
  <2>2. /\ hosted' \in [Manifest -> {"absent", "empty", "full"}]
        /\ \A n \in Manifest : n # m => hosted'[n] = hosted[n]
    BY <1>7 DEF PushContent, CreatorTypes
  <2>3. \/ (hosted'[m] = "full" /\ Settled(m, TRUE))
        \/ Settled(m, FALSE)
        \/ (GoTo("declined") /\ UNCHANGED <<toCreate, failedMirrors>>)
    BY <1>7 DEF PushContent, CreatorTypes
  <2>. QED
    BY <2>1, <2>2, <2>3, CreatorStep DEF Settled, GoTo, CreatorIdle, CreatorSteps, CreatorTypes
<1>8. ASSUME NEW m \in Manifest, PushPrivately(m) PROVE MirrorsInv'
  <2>1. /\ creator.at = "declined" /\ creator.mirror = {m}
        /\ UNCHANGED <<toCreate, failedMirrors, skipped, creatorExit, creations, instance,
                       indexVars, onInstance>>
    BY <1>8 DEF PushPrivately, At
  <2>2. PICK pushed \in BOOLEAN :
          /\ hosted' = IF pushed THEN [hosted EXCEPT ![m] = "full"] ELSE hosted
          /\ GoTo(IF pushed THEN "pushed" ELSE "refused")
    BY <1>8 DEF PushPrivately
  <2>3. /\ hosted' \in [Manifest -> {"absent", "empty", "full"}]
        /\ \A n \in Manifest : n # m => hosted'[n] = hosted[n]
        /\ pushed => hosted'[m] = "full"
    BY <2>2 DEF CreatorTypes
  <2>. QED
    BY <2>1, <2>2, <2>3, CreatorStep DEF GoTo, CreatorSteps, CreatorTypes
<1>9. ASSUME NEW m \in Manifest, RestorePublic(m) PROVE MirrorsInv'
  <2>1. /\ creator.at \in {"pushed", "refused"} /\ creator.mirror = {m} /\ hosted' = hosted
        /\ UNCHANGED <<skipped, creatorExit, creations, instance, indexVars, onInstance>>
    BY <1>9 DEF RestorePublic, At
  <2>2. \/ creator.at = "pushed" /\ Settled(m, TRUE)
        \/ Settled(m, FALSE)
    BY <1>9, <2>1 DEF RestorePublic, PushedPrivately, At, Settled
  <2>3. creator.at = "pushed" => hosted[m] = "full"
    BY <2>1 DEF CreatorAccounts
  <2>. QED
    BY <2>1, <2>2, <2>3, CreatorStep DEF Settled, CreatorIdle, CreatorSteps, CreatorTypes
<1>10. ASSUME NEW m \in Manifest, NEW status, SyncInstance(m, status) PROVE MirrorsInv'
  <2>1. /\ instance' = [instance EXCEPT ![m] = status]
        /\ onInstance' = onInstance \cup {<<m, status>>}
        /\ UNCHANGED <<hosted, creatorVars>> /\ UNCHANGED indexVars
    BY <1>10 DEF SyncInstance
  <2>2. ReportIsFounded'
    BY <2>1 DEF ReportIsFounded, indexVars, Conclusive
  <2>. QED
    BY <2>1, <2>2, CreatorFrame
<1>11. CASE GenerateIndex \/ StartCheck
  <2>1. UNCHANGED <<hosted, creatorVars>>
    BY <1>11 DEF GenerateIndex, StartCheck
  <2>2. ReportIsFounded'
    BY <1>11 DEF GenerateIndex, StartCheck, ReportIsFounded, Conclusive
  <2>. QED
    BY <2>1, <2>2, CreatorFrame
<1>12. ASSUME NEW m \in Manifest, NEW answer \in InstanceAnswers, CheckOne(m, answer) PROVE MirrorsInv'
  <2>1. /\ checking = "yes" /\ UNCHANGED <<hosted, creatorVars>>
        /\ UNCHANGED <<instance, sgIndex, checking, onInstance>>
        /\ indexReport' = [n \in DOMAIN indexReport \cup {m} |->
                             IF n = m THEN CheckRepoIndex(m, answer) ELSE indexReport[n]]
    BY <1>12 DEF CheckOne
  <2>2. CheckRepoIndex(m, answer) \in {instance[m], "UNKNOWN"}
    BY DEF CheckRepoIndex
  <2>3. ReportIsFounded'
    BY <2>1, <2>2 DEF ReportIsFounded
  <2>. QED
    BY <2>1, <2>3, CreatorFrame
<1>13. CASE EndCheck
  <2>1. /\ checking = "yes" /\ DOMAIN indexReport = sgIndex
        /\ checking' = IF Conclusive THEN "conclusive" ELSE "inconclusive"
        /\ UNCHANGED <<hosted, creatorVars>> /\ UNCHANGED <<instance, sgIndex, indexReport, onInstance>>
    BY <1>13 DEF EndCheck
  <2>2. ReportIsFounded'
    BY <2>1 DEF ReportIsFounded, Conclusive
  <2>. QED
    BY <2>1, <2>2, CreatorFrame
<1>14. CASE UNCHANGED mirrorVars
  <2>1. UNCHANGED <<hosted, creatorVars>> /\ UNCHANGED <<instance, indexVars, onInstance>>
    BY <1>14 DEF mirrorVars
  <2>. QED
    BY <2>1, CreatorFrame, ReportFrame
<1>. QED
  BY <1>1, <1>2, <1>3, <1>4, <1>5, <1>6, <1>7, <1>8, <1>9, <1>10, <1>11, <1>12, <1>13, <1>14
     DEF MirrorsNext

(* However calls fail, creators die and the instance changes, what the      *)
(* creator and the check say of the mirrors is so.                          *)
THEOREM MirrorClaimsAreSo == MirrorsSpec => []MirrorClaimsHold
<1>1. MirrorsInv => MirrorClaimsHold
  BY DEF MirrorsInv, MirrorClaimsHold, IndexReportIsTrue, ReportIsFounded, Conclusive
<1>. QED
  BY <1>1, MirrorsStart, MirrorsSteps, PTL DEF MirrorsSpec

-----------------------------------------------------------------------------
(* The accounts                                                            *)

CommandStates ==
    [at : {"none", "loaded", "writing", "writing the state", "written"},
     op : {"none", "status", "begin", "end", "hold", "release", "limit"},
     home : SUBSET Homes, who : SUBSET Launchers, draft : AccountStates, stale : BOOLEAN]

LauncherStates ==
    [at : {"new", "starting", "begun", "ending", "ended", "dead"}, home : SUBSET Homes]

HealthTypes ==
    /\ health \in AccountStates \cup {Torn} /\ tempFile \in AccountStates \cup {Torn, NoTemp}
    /\ command \in [Commands -> CommandStates] /\ launched \in [Launchers -> LauncherStates]
    /\ operatorHolds \subseteq Homes /\ overwrote \in BOOLEAN

\* A state has the holds and the launchers that it should have.
Faithful(state, launchers, holds) ==
    /\ \A h \in holds : state[h].held
    /\ \A l \in Launchers, h \in Homes :
          launchers[l].at = "begun" /\ launchers[l].home = {h} => l \in state[h].active

\* A command that has not read or shared what has been replaced since.
UpToDate(k) == command[k].at # "none" /\ ~command[k].stale

StateIsFaithful == ~overwrote => health # Torn /\ Faithful(health, launched, operatorHolds)

DraftsAreFaithful ==
    ~overwrote => \A k \in Commands :
        UpToDate(k) => Faithful(command[k].draft, launched, operatorHolds)

\* Of the commands that are up to date only one is at the temporary file, alone, which
\* holds what it has written.
TempIsItsOwn ==
    ~overwrote => \A k \in Commands : UpToDate(k) =>
        /\ command[k].at \in {"loaded", "writing", "written"}
        /\ command[k].at = "written" => tempFile = command[k].draft
        /\ command[k].at # "loaded" =>
              \A j \in Commands \ {k} : command[j].at \notin {"writing", "written"}

\* A draft has what its command is to enter.
DraftsEnter ==
    \A k \in Commands : command[k].at # "none" =>
        /\ command[k].op = "hold" => \A h \in command[k].home : command[k].draft[h].held
        /\ command[k].op = "begin" => \A l \in command[k].who :
              /\ launched[l].at # "new"
              /\ \A h \in Homes : launched[l].home = {h} => l \in command[k].draft[h].active

HealthInv ==
    /\ HealthTypes /\ StateIsFaithful /\ DraftsAreFaithful /\ TempIsItsOwn /\ DraftsEnter
    /\ misreported = {}

-----------------------------------------------------------------------------
(* Fewer holds and fewer launchers ask no more of a state. *)
LEMMA FaithfulToFewer ==
    ASSUME NEW state, NEW launchers, NEW holds, Faithful(state, launchers, holds),
           NEW fewer, NEW kept \in SUBSET holds,
           \A l \in Launchers : fewer[l].at = "begun" =>
               launchers[l].at = "begun" /\ fewer[l].home = launchers[l].home
    PROVE  Faithful(state, fewer, kept)
  BY DEF Faithful

(* Cleaning a state takes only the dead from it. *)
LEMMA NormalizedStates ==
    ASSUME NEW state \in AccountStates, NEW homes
    PROVE  /\ Normalized(state, homes) \in AccountStates
           /\ \A h \in Homes :
                 /\ Normalized(state, homes)[h].held = state[h].held
                 /\ \A l \in state[h].active : Live(l) => l \in Normalized(state, homes)[h].active
           /\ \A holds : holds \subseteq Homes /\ Faithful(state, launched, holds)
                 => Faithful(Normalized(state, homes), launched, holds)
<1>. DEFINE N == Normalized(state, homes)
<1>1. ASSUME NEW h \in Homes
      PROVE  /\ N[h] \in [held : BOOLEAN, active : SUBSET Launchers]
             /\ N[h].held = state[h].held
             /\ \A l \in state[h].active : Live(l) => l \in N[h].active
  <2>1. state[h] \in [held : BOOLEAN, active : SUBSET Launchers]
    BY DEF AccountStates
  <2>2. N[h] = IF h \in homes THEN [state[h] EXCEPT !.active = {l \in state[h].active : Live(l)}]
               ELSE state[h]
    BY DEF Normalized
  <2>3. CASE h \in homes
    <3>1. N[h] = [state[h] EXCEPT !.active = {l \in state[h].active : Live(l)}]
      BY <2>2, <2>3
    <3>. HIDE DEF N
    <3>2. N[h].held = state[h].held /\ N[h].active = {l \in state[h].active : Live(l)}
      BY <2>1, <3>1
    <3>3. N[h] \in [held : BOOLEAN, active : SUBSET Launchers]
      BY <2>1, <3>1
    <3>. QED
      BY <3>2, <3>3
  <2>4. CASE h \notin homes
    BY <2>1, <2>2, <2>4
  <2>. QED
    BY <2>3, <2>4
<1>2. N \in AccountStates
  <2>1. N = [h \in Homes |-> N[h]]
    BY DEF Normalized
  <2>. HIDE DEF N
  <2>. QED
    BY <1>1, <2>1 DEF AccountStates
<1>3. ASSUME NEW holds, holds \subseteq Homes, Faithful(state, launched, holds)
      PROVE  Faithful(N, launched, holds)
  <2>1. \A h \in holds : N[h].held
    BY <1>1, <1>3 DEF Faithful
  <2>2. ASSUME NEW l \in Launchers, NEW h \in Homes,
               launched[l].at = "begun", launched[l].home = {h}
        PROVE  l \in N[h].active
    BY <1>1, <1>3, <2>2 DEF Faithful, Live
  <2>. HIDE DEF N
  <2>. QED
    BY <2>1, <2>2 DEF Faithful
<1>. QED
  BY <1>1, <1>2, <1>3

(* What is loaded is a state, and a faithful one unless it has been          *)
(* overwritten.                                                             *)
LEMMA LoadedState ==
    ASSUME HealthInv
    PROVE  LoadState \in AccountStates
           /\ (~overwrote => Faithful(LoadState, launched, operatorHolds))
<1>1. NoState \in AccountStates
  BY DEF NoState, NoEntry, AccountStates
<1>. QED
  BY <1>1 DEF HealthInv, HealthTypes, StateIsFaithful, LoadState

(* A command that loads: the launchers begun and the holds are no more than  *)
(* before, and its draft has what it should.                                *)
LEMMA CommandLoads ==
    ASSUME HealthInv, NEW k \in Commands,
           NEW op \in {"status", "begin", "end", "hold", "release", "limit"},
           NEW home \in SUBSET Homes, NEW who \in SUBSET Launchers, NEW draft \in AccountStates,
           Loads(k, op, home, who, draft),
           launched' \in [Launchers -> LauncherStates], operatorHolds' \subseteq operatorHolds,
           \A l \in Launchers : launched'[l].at = "begun" =>
               launched[l].at = "begun" /\ launched'[l].home = launched[l].home,
           \A l \in Launchers : launched[l].at # "new" =>
               launched'[l].at # "new" /\ launched'[l].home = launched[l].home,
           ~overwrote => Faithful(draft, launched', operatorHolds'),
           op = "hold" => \A h \in home : draft[h].held,
           op = "begin" => \A l \in who : /\ launched'[l].at # "new"
                                          /\ \A h \in Homes : launched'[l].home = {h} => l \in draft[h].active,
           misreported' = {}
    PROVE  HealthInv'
<1>. DEFINE c == [at |-> "loaded", op |-> op, home |-> home, who |-> who, draft |-> draft,
                  stale |-> FALSE]
<1>1. /\ command' = [command EXCEPT ![k] = c] /\ command[k].at = "none"
      /\ UNCHANGED <<health, tempFile, overwrote>>
  BY DEF Loads
<1>2. c \in CommandStates
  BY DEF CommandStates
<1>3. c.at = "loaded" /\ c.op = op /\ c.home = home /\ c.who = who /\ c.draft = draft /\ ~c.stale
  OBVIOUS
<1>. HIDE DEF c
<1>4. /\ command' \in [Commands -> CommandStates] /\ command'[k] = c
      /\ \A j \in Commands : j # k => command'[j] = command[j]
  BY <1>1, <1>2 DEF HealthInv, HealthTypes
<1>5. HealthTypes'
  BY <1>1, <1>4 DEF HealthInv, HealthTypes
<1>6. StateIsFaithful'
  BY <1>1, FaithfulToFewer DEF HealthInv, StateIsFaithful
<1>7. DraftsAreFaithful'
  <2>1. ASSUME NEW j \in Commands, ~overwrote', UpToDate(j)'
        PROVE  Faithful(command'[j].draft, launched', operatorHolds')
    <3>1. CASE j = k
      BY <3>1, <1>1, <1>3, <1>4, <2>1
    <3>2. CASE j # k
      <4>1. Faithful(command[j].draft, launched, operatorHolds)
        BY <3>2, <1>1, <1>4, <2>1 DEF HealthInv, DraftsAreFaithful, UpToDate
      <4>. QED
        BY <4>1, <3>2, <1>4, FaithfulToFewer
    <3>. QED
      BY <3>1, <3>2
  <2>. QED
    BY <2>1 DEF DraftsAreFaithful
<1>8. TempIsItsOwn'
  BY <1>1, <1>3, <1>4 DEF HealthInv, TempIsItsOwn, UpToDate
<1>9. DraftsEnter'
  <2>1. ASSUME NEW j \in Commands, j # k, command[j].at # "none", NEW l \in command[j].who,
               command[j].op = "begin"
        PROVE  /\ launched'[l].at # "new"
               /\ \A h \in Homes : launched'[l].home = {h} => l \in command[j].draft[h].active
    <3>1. l \in Launchers
      BY <2>1 DEF HealthInv, HealthTypes, CommandStates
    <3>. QED
      BY <2>1, <3>1 DEF HealthInv, DraftsEnter
  <2>. QED
    BY <1>3, <1>4, <2>1 DEF HealthInv, DraftsEnter
<1>. QED
  BY <1>5, <1>6, <1>7, <1>8, <1>9 DEF HealthInv

\* A state with one change at one account.
WithActive(state, h, active) == [state EXCEPT ![h].active = active]
WithHold(state, h) == [state EXCEPT ![h].held = TRUE]
WithoutHold(state, h) == [state EXCEPT ![h].held = FALSE]

(* Who runs on it. *)
LEMMA ActiveChanged ==
    ASSUME NEW state \in AccountStates, NEW h \in Homes, NEW active \in SUBSET Launchers,
           NEW draft, draft = WithActive(state, h, active)
    PROVE  /\ draft \in AccountStates
           /\ draft[h].active = active /\ draft[h].held = state[h].held
           /\ \A g \in Homes : g # h => draft[g] = state[g]
<1>1. state[h] \in [held : BOOLEAN, active : SUBSET Launchers]
  BY DEF AccountStates
<1>. DEFINE entry == [state[h] EXCEPT !.active = active]
<1>2. entry \in [held : BOOLEAN, active : SUBSET Launchers]
  BY <1>1
<1>3. entry.active = active /\ entry.held = state[h].held
  BY <1>1
<1>4. draft = [state EXCEPT ![h] = entry]
  BY DEF WithActive
<1>. HIDE DEF entry
<1>. QED
  BY <1>2, <1>3, <1>4 DEF AccountStates

(* A hold more. *)
LEMMA HoldEntered ==
    ASSUME NEW state \in AccountStates, NEW h \in Homes,
           NEW draft, draft = WithHold(state, h)
    PROVE  /\ draft \in AccountStates
           /\ draft[h].active = state[h].active /\ draft[h].held
           /\ \A g \in Homes : g # h => draft[g] = state[g]
<1>1. state[h] \in [held : BOOLEAN, active : SUBSET Launchers]
  BY DEF AccountStates
<1>. DEFINE entry == [state[h] EXCEPT !.held = TRUE]
<1>2. entry \in [held : BOOLEAN, active : SUBSET Launchers]
  BY <1>1
<1>3. entry.active = state[h].active /\ entry.held
  BY <1>1
<1>4. draft = [state EXCEPT ![h] = entry]
  BY DEF WithHold, WithoutHold
<1>. HIDE DEF entry
<1>. QED
  BY <1>2, <1>3, <1>4 DEF AccountStates

(* A hold less. *)
LEMMA HoldLifted ==
    ASSUME NEW state \in AccountStates, NEW h \in Homes,
           NEW draft, draft = WithoutHold(state, h)
    PROVE  /\ draft \in AccountStates
           /\ draft[h].active = state[h].active /\ draft[h].held = FALSE
           /\ \A g \in Homes : g # h => draft[g] = state[g]
<1>1. state[h] \in [held : BOOLEAN, active : SUBSET Launchers]
  BY DEF AccountStates
<1>. DEFINE entry == [state[h] EXCEPT !.held = FALSE]
<1>2. entry \in [held : BOOLEAN, active : SUBSET Launchers]
  BY <1>1
<1>3. entry.active = state[h].active /\ entry.held = FALSE
  BY <1>1
<1>4. draft = [state EXCEPT ![h] = entry]
  BY DEF WithHold, WithoutHold
<1>. HIDE DEF entry
<1>. QED
  BY <1>2, <1>3, <1>4 DEF AccountStates

-----------------------------------------------------------------------------
(* There is no command yet, and nobody holds or runs. *)
LEMMA HealthStarts == HealthInit => HealthInv
<1>. SUFFICES ASSUME HealthInit PROVE HealthInv
  OBVIOUS
<1>1. NoState \in AccountStates /\ \A h \in Homes : NoState[h].active = {}
  BY DEF NoState, NoEntry, AccountStates
<1>2. NoCommand \in CommandStates /\ NoCommand.at = "none"
  BY <1>1 DEF NoCommand, CommandStates
<1>3. HealthTypes
  BY <1>1, <1>2 DEF HealthInit, HealthTypes, LauncherStates
<1>4. StateIsFaithful
  BY <1>1, HealthAssumption DEF HealthInit, StateIsFaithful, Faithful
<1>5. \A k \in Commands : command[k].at = "none"
  BY <1>2 DEF HealthInit
<1>. QED
  BY <1>3, <1>4, <1>5 DEF HealthInit, HealthInv, DraftsAreFaithful, TempIsItsOwn, DraftsEnter, UpToDate

(* A report calls no account ready that is not. *)
LEMMA ReportsAreRight ==
    ASSUME HealthInv, ~overwrote, NEW h \in Homes,
           IsReady(Normalized(LoadState, Homes), h)
    PROVE  ~NotReady(h)
<1>. DEFINE state == Normalized(LoadState, Homes)
<1>1. LoadState \in AccountStates /\ Faithful(LoadState, launched, operatorHolds)
  BY LoadedState
<1>2. state \in AccountStates /\ Faithful(state, launched, operatorHolds)
  BY <1>1, NormalizedStates DEF HealthInv, HealthTypes
<1>3. ~state[h].held /\ life[h] = "enough" /\ Cardinality(state[h].active) < SessionsPerAccount
  BY DEF IsReady
<1>. HIDE DEF state
<1>4. BegunOn(h) \subseteq state[h].active
  BY <1>2 DEF Faithful, BegunOn
<1>5. IsFiniteSet(state[h].active)
  <2>1. state[h].active \subseteq Launchers
    BY <1>2 DEF AccountStates
  <2>. QED
    BY <2>1, HealthAssumption, FS_Subset
<1>6. /\ Cardinality(BegunOn(h)) <= Cardinality(state[h].active)
      /\ Cardinality(BegunOn(h)) \in Nat /\ Cardinality(state[h].active) \in Nat
  BY <1>4, <1>5, FS_Subset, FS_CardinalityType
<1>7. ~(Cardinality(BegunOn(h)) >= SessionsPerAccount)
  BY <1>3, <1>6, HealthAssumption
<1>8. h \notin operatorHolds
  BY <1>2, <1>3 DEF Faithful
<1>. QED
  BY <1>3, <1>7, <1>8 DEF NotReady

(* What a step of a launcher or of a login leaves. *)
LEMMA LaunchersStep ==
    ASSUME HealthInv, launched' \in [Launchers -> LauncherStates],
           \A l \in Launchers : launched'[l].at = "begun" =>
               launched[l].at = "begun" /\ launched'[l].home = launched[l].home,
           \A l \in Launchers : launched[l].at # "new" =>
               launched'[l].at # "new" /\ launched'[l].home = launched[l].home,
           UNCHANGED <<health, tempFile, command, operatorHolds, overwrote, misreported>>
    PROVE  HealthInv'
<1>1. HealthTypes'
  BY DEF HealthInv, HealthTypes
<1>2. StateIsFaithful'
  BY FaithfulToFewer DEF HealthInv, StateIsFaithful
<1>3. DraftsAreFaithful'
  BY FaithfulToFewer DEF HealthInv, DraftsAreFaithful, UpToDate
<1>4. TempIsItsOwn'
  BY DEF HealthInv, TempIsItsOwn, UpToDate
<1>5. DraftsEnter'
  BY DEF HealthInv, HealthTypes, CommandStates, DraftsEnter
<1>. QED
  BY <1>1, <1>2, <1>3, <1>4, <1>5 DEF HealthInv

(* A report enters what it has cleaned. *)
LEMMA StatusStep ==
    ASSUME HealthInv, NEW k \in Commands, CollectAccountStatus(k)
    PROVE  HealthInv'
<1>. DEFINE state == Normalized(LoadState, Homes)
<1>1. /\ Loads(k, "status", {}, {}, state) /\ UNCHANGED <<launched, operatorHolds>>
      /\ misreported' = IF overwrote THEN misreported
                        ELSE misreported \cup {h \in {g \in Homes : IsReady(state, g)} : NotReady(h)}
  BY DEF CollectAccountStatus
<1>2. misreported' = {}
  BY <1>1, ReportsAreRight DEF HealthInv
<1>3. state \in AccountStates /\ (~overwrote => Faithful(state, launched, operatorHolds))
  BY LoadedState, NormalizedStates DEF HealthInv, HealthTypes
<1>. HIDE DEF state
<1>4. launched' = launched /\ operatorHolds' = operatorHolds /\ launched \in [Launchers -> LauncherStates]
  BY <1>1 DEF HealthInv, HealthTypes
<1>. QED
  BY <1>1, <1>2, <1>3, <1>4, CommandLoads

(* A launcher that is not begun yet is entered, beside those that are. *)
LEMMA BeginStep ==
    ASSUME HealthInv, NEW k \in Commands, NEW l \in Launchers, NEW h \in Homes,
           MarkAssignment(k, l, h)
    PROVE  HealthInv'
<1>. DEFINE state == Normalized(LoadState, {h})
            draft == [state EXCEPT ![h].active = state[h].active \cup {l}]
<1>1. /\ launched[l].at = "new" /\ Loads(k, "begin", {h}, {l}, draft)
      /\ launched' = [launched EXCEPT ![l] = [at |-> "starting", home |-> {h}]]
      /\ UNCHANGED <<operatorHolds, misreported>>
  BY DEF MarkAssignment
<1>2. state \in AccountStates /\ (~overwrote => Faithful(state, launched, operatorHolds))
  BY LoadedState, NormalizedStates DEF HealthInv, HealthTypes
<1>3. state[h].active \cup {l} \in SUBSET Launchers
  BY <1>2 DEF AccountStates
<1>a. draft = WithActive(state, h, state[h].active \cup {l})
  BY DEF WithActive
<1>. HIDE DEF state, draft
<1>4. /\ draft \in AccountStates /\ draft[h].active = state[h].active \cup {l}
      /\ draft[h].held = state[h].held /\ \A g \in Homes : g # h => draft[g] = state[g]
  BY <1>a, <1>2, <1>3, ActiveChanged
<1>5. /\ launched' \in [Launchers -> LauncherStates]
      /\ launched'[l].at = "starting" /\ launched'[l].home = {h}
      /\ \A m \in Launchers : m # l => launched'[m] = launched[m]
  BY <1>1 DEF HealthInv, HealthTypes, LauncherStates
<1>6. /\ operatorHolds' = operatorHolds /\ operatorHolds \subseteq Homes /\ misreported' = {}
  BY <1>1 DEF HealthInv, HealthTypes
<1>7. ~overwrote => Faithful(draft, launched', operatorHolds')
  BY <1>2, <1>4, <1>5, <1>6 DEF Faithful
<1>8. \A m \in Launchers : launched'[m].at = "begun" =>
         launched[m].at = "begun" /\ launched'[m].home = launched[m].home
  BY <1>5
<1>9. \A m \in Launchers : launched[m].at # "new" =>
         launched'[m].at # "new" /\ launched'[m].home = launched[m].home
  BY <1>1, <1>5
<1>10. \A m \in {l} : /\ launched'[m].at # "new"
                      /\ \A g \in Homes : launched'[m].home = {g} => m \in draft[g].active
  BY <1>4, <1>5
<1>. QED
  BY <1>1, <1>4, <1>5, <1>6, <1>7, <1>8, <1>9, <1>10, CommandLoads

(* Who is taken from the state is no longer begun. *)
LEMMA EndStep ==
    ASSUME HealthInv, NEW k \in Commands, NEW l \in Launchers, NEW h \in Homes,
           EndAssignment(k, l, h)
    PROVE  HealthInv'
<1>. DEFINE state == Normalized(LoadState, {h})
            draft == [state EXCEPT ![h].active = state[h].active \ {l}]
<1>1. /\ launched[l] = [at |-> "begun", home |-> {h}] /\ Loads(k, "end", {h}, {l}, draft)
      /\ launched' = [launched EXCEPT ![l].at = "ending"]
      /\ UNCHANGED <<operatorHolds, misreported>>
  BY DEF EndAssignment
<1>2. state \in AccountStates /\ (~overwrote => Faithful(state, launched, operatorHolds))
  BY LoadedState, NormalizedStates DEF HealthInv, HealthTypes
<1>3. state[h].active \ {l} \in SUBSET Launchers
  BY <1>2 DEF AccountStates
<1>a. draft = WithActive(state, h, state[h].active \ {l})
  BY DEF WithActive
<1>. HIDE DEF state, draft
<1>4. /\ draft \in AccountStates /\ draft[h].active = state[h].active \ {l}
      /\ draft[h].held = state[h].held /\ \A g \in Homes : g # h => draft[g] = state[g]
  BY <1>a, <1>2, <1>3, ActiveChanged
<1>5. /\ launched' \in [Launchers -> LauncherStates]
      /\ launched'[l].at = "ending" /\ launched'[l].home = launched[l].home
      /\ \A m \in Launchers : m # l => launched'[m] = launched[m]
  BY <1>1 DEF HealthInv, HealthTypes, LauncherStates
<1>6. /\ operatorHolds' = operatorHolds /\ operatorHolds \subseteq Homes /\ misreported' = {}
  BY <1>1 DEF HealthInv, HealthTypes
<1>7. ~overwrote => Faithful(draft, launched', operatorHolds')
  <2>1. \A m \in Launchers, g \in Homes :
          (m # l /\ m \in state[g].active) => m \in draft[g].active
    BY <1>4
  <2>. QED
    BY <2>1, <1>2, <1>4, <1>5, <1>6 DEF Faithful
<1>8. \A m \in Launchers : launched'[m].at = "begun" =>
         launched[m].at = "begun" /\ launched'[m].home = launched[m].home
  BY <1>5
<1>9. \A m \in Launchers : launched[m].at # "new" =>
         launched'[m].at # "new" /\ launched'[m].home = launched[m].home
  BY <1>5
<1>. QED
  BY <1>1, <1>4, <1>5, <1>6, <1>7, <1>8, <1>9, CommandLoads

(* A hold is in the draft before it counts. *)
LEMMA HoldStep ==
    ASSUME HealthInv, NEW k \in Commands, NEW h \in Homes, SetManualHold(k, h)
    PROVE  HealthInv'
<1>. DEFINE state == Normalized(LoadState, {h})
            draft == [state EXCEPT ![h].held = TRUE]
<1>1. Loads(k, "hold", {h}, {}, draft) /\ UNCHANGED <<launched, operatorHolds, misreported>>
  BY DEF SetManualHold
<1>2. state \in AccountStates /\ (~overwrote => Faithful(state, launched, operatorHolds))
  BY LoadedState, NormalizedStates DEF HealthInv, HealthTypes
<1>a. draft = WithHold(state, h)
  BY DEF WithHold, WithoutHold
<1>. HIDE DEF state, draft
<1>3. /\ draft \in AccountStates
      /\ draft[h].active = state[h].active /\ draft[h].held
      /\ \A g \in Homes : g # h => draft[g] = state[g]
  <2>1. state \in AccountStates
    BY <1>2
  <2>. QED
    BY <1>a, <2>1, HoldEntered
<1>4. /\ launched' = launched /\ operatorHolds' = operatorHolds /\ misreported' = {}
      /\ operatorHolds \subseteq Homes /\ launched \in [Launchers -> LauncherStates]
  BY <1>1 DEF HealthInv, HealthTypes
<1>5. ~overwrote => Faithful(draft, launched', operatorHolds')
  BY <1>2, <1>3, <1>4 DEF Faithful
<1>. QED
  BY <1>1, <1>3, <1>4, <1>5, CommandLoads

(* A hold that is lifted no longer counts when the draft is without it. *)
LEMMA ReleaseStep ==
    ASSUME HealthInv, NEW k \in Commands, NEW h \in Homes, ClearManualHold(k, h)
    PROVE  HealthInv'
<1>. DEFINE state == Normalized(LoadState, {h})
            draft == [state EXCEPT ![h].held = FALSE]
<1>1. /\ Loads(k, "release", {h}, {}, draft) /\ operatorHolds' = operatorHolds \ {h}
      /\ UNCHANGED <<launched, misreported>>
  BY DEF ClearManualHold
<1>2. state \in AccountStates /\ (~overwrote => Faithful(state, launched, operatorHolds))
  BY LoadedState, NormalizedStates DEF HealthInv, HealthTypes
<1>a. draft = WithoutHold(state, h)
  BY DEF WithHold, WithoutHold
<1>. HIDE DEF state, draft
<1>3. /\ draft \in AccountStates /\ draft[h].active = state[h].active
      /\ \A g \in Homes : g # h => draft[g] = state[g]
  BY <1>a, <1>2, HoldLifted
<1>4. /\ launched' = launched /\ misreported' = {}
      /\ operatorHolds \subseteq Homes /\ launched \in [Launchers -> LauncherStates]
  BY <1>1 DEF HealthInv, HealthTypes
<1>5. ~overwrote => Faithful(draft, launched', operatorHolds')
  <2>1. \A g \in operatorHolds' : g # h /\ g \in operatorHolds
    BY <1>1
  <2>. QED
    BY <1>2, <1>3, <1>4, <2>1 DEF Faithful
<1>. QED
  BY <1>1, <1>3, <1>4, <1>5, CommandLoads

(* A rate limit changes neither holds nor launchers. *)
LEMMA LimitStep ==
    ASSUME HealthInv, NEW k \in Commands, NEW h \in Homes, MarkRateLimit(k, h)
    PROVE  HealthInv'
<1>1. /\ Loads(k, "limit", {h}, {}, Normalized(LoadState, {h}))
      /\ UNCHANGED <<launched, operatorHolds, misreported>>
  BY DEF MarkRateLimit
<1>2. /\ Normalized(LoadState, {h}) \in AccountStates
      /\ ~overwrote => Faithful(Normalized(LoadState, {h}), launched, operatorHolds)
  BY LoadedState, NormalizedStates DEF HealthInv, HealthTypes
<1>3. /\ launched' = launched /\ operatorHolds' = operatorHolds /\ misreported' = {}
      /\ launched \in [Launchers -> LauncherStates]
  BY <1>1 DEF HealthInv, HealthTypes
<1>. QED
  BY <1>1, <1>2, <1>3, CommandLoads

(* Whoever is at the temporary file shares it with a command that opens it. *)
LEMMA OpensStep ==
    ASSUME HealthInv, NEW k \in Commands, OpensTemp(k)
    PROVE  HealthInv'
<1>. DEFINE sharing == {j \in Commands \ {k} : command[j].at \in {"writing", "written"}}
<1>1. /\ command[k].at = "loaded" /\ tempFile' = Torn
      /\ UNCHANGED <<health, launched, operatorHolds, overwrote, misreported>>
  BY DEF OpensTemp, OpenTemp
<1>2. command' = [j \in Commands |->
                    [command[j] EXCEPT
                        !.at = IF j = k THEN "writing" ELSE command[j].at,
                        !.stale = \/ command[j].stale \/ j \in sharing
                                  \/ j = k /\ sharing # {}]]
  BY DEF OpensTemp
<1>3. ASSUME NEW j \in Commands
      PROVE  /\ command'[j] \in CommandStates
             /\ command'[j].at = IF j = k THEN "writing" ELSE command[j].at
             /\ command'[j].op = command[j].op /\ command'[j].home = command[j].home
             /\ command'[j].who = command[j].who /\ command'[j].draft = command[j].draft
             /\ command[j].stale => command'[j].stale
             /\ j \in sharing => command'[j].stale
             /\ (j = k /\ sharing # {}) => command'[j].stale
  <2>. DEFINE at == IF j = k THEN "writing" ELSE command[j].at
              stale == \/ command[j].stale \/ j \in sharing \/ (j = k /\ sharing # {})
  <2>1. command[j] \in CommandStates
    BY DEF HealthInv, HealthTypes
  <2>2. command'[j] = [command[j] EXCEPT !.at = at, !.stale = stale]
    BY <1>2, Zenon
  <2>3. at \in {"none", "loaded", "writing", "writing the state", "written"} /\ stale \in BOOLEAN
    BY <2>1 DEF CommandStates
  <2>4. /\ command[j].stale => stale
        /\ j \in sharing => stale
        /\ (j = k /\ sharing # {}) => stale
    BY Zenon
  <2>5. at = IF j = k THEN "writing" ELSE command[j].at
    OBVIOUS
  <2>. HIDE DEF at, stale, sharing
  <2>6. command'[j] \in CommandStates
    BY <2>1, <2>2, <2>3 DEF CommandStates
  <2>7. /\ command'[j].at = at
        /\ command'[j].op = command[j].op /\ command'[j].home = command[j].home
        /\ command'[j].who = command[j].who /\ command'[j].draft = command[j].draft
    BY <2>1, <2>2 DEF CommandStates
  <2>8. command'[j].stale = stale
    BY <2>1, <2>2, Zenon DEF CommandStates
  <2>. QED
    BY <2>4, <2>5, <2>6, <2>7, <2>8
<1>4. HealthTypes'
  <2>1. command' \in [Commands -> CommandStates]
    BY <1>2, <1>3
  <2>. QED
    BY <2>1, <1>1 DEF HealthInv, HealthTypes
<1>5. StateIsFaithful'
  BY <1>1 DEF HealthInv, StateIsFaithful
<1>. HIDE DEF sharing
<1>6. DraftsAreFaithful'
  BY <1>1, <1>3 DEF HealthInv, DraftsAreFaithful, UpToDate
<1>7. TempIsItsOwn'
  <2>. SUFFICES ASSUME ~overwrote, NEW j \in Commands, UpToDate(j)'
                PROVE  /\ command'[j].at \in {"loaded", "writing", "written"}
                       /\ command'[j].at = "written" => tempFile' = command'[j].draft
                       /\ command'[j].at # "loaded" =>
                             \A i \in Commands \ {j} : command'[i].at \notin {"writing", "written"}
    BY <1>1 DEF TempIsItsOwn
  <2>1. UpToDate(j)
    BY <1>1, <1>3 DEF UpToDate
  <2>2. CASE j = k
    <3>1. sharing = {} /\ command'[j].at = "writing"
      BY <1>3, <2>2 DEF UpToDate
    <3>2. \A i \in Commands \ {k} : command[i].at \notin {"writing", "written"}
      BY <3>1 DEF sharing
    <3>. QED
      BY <1>3, <2>2, <3>1, <3>2
  <2>3. CASE j # k
    <3>1. j \notin sharing /\ command'[j].at = command[j].at
      BY <1>3, <2>3 DEF UpToDate
    <3>2. command[j].at = "loaded"
      BY <2>1, <2>3, <3>1 DEF sharing, HealthInv, TempIsItsOwn
    <3>. QED
      BY <3>1, <3>2
  <2>. QED
    BY <2>2, <2>3
<1>8. DraftsEnter'
  BY <1>1, <1>3 DEF HealthInv, DraftsEnter
<1>. QED
  BY <1>1, <1>4, <1>5, <1>6, <1>7, <1>8 DEF HealthInv

(* Only a command that is at the temporary file alone writes it, unless it  *)
(* has become the state.                                                   *)
LEMMA WritesStep ==
    ASSUME HealthInv, NEW k \in Commands, WritesTemp(k)
    PROVE  HealthInv'
<1>1. /\ command' = [command EXCEPT ![k].at = "written"]
      /\ UNCHANGED <<launched, operatorHolds, misreported>>
  BY DEF WritesTemp
<1>2. /\ command' \in [Commands -> CommandStates] /\ command'[k].at = "written"
      /\ command'[k].op = command[k].op /\ command'[k].home = command[k].home
      /\ command'[k].who = command[k].who /\ command'[k].draft = command[k].draft
      /\ \A j \in Commands : j # k => command'[j] = command[j]
  BY <1>1 DEF HealthInv, HealthTypes, CommandStates
<1>3. command'[k].stale = command[k].stale
  BY <1>1 DEF HealthInv, HealthTypes, CommandStates
<1>4. command[k].draft \in AccountStates /\ command[k].at \in {"writing", "writing the state"}
  BY DEF HealthInv, HealthTypes, CommandStates, WritesTemp
<1>5. DraftsEnter'
  <2>1. \A j \in Commands :
          /\ command'[j].at # "none" => command[j].at # "none"
          /\ command'[j].op = command[j].op /\ command'[j].home = command[j].home
          /\ command'[j].who = command[j].who /\ command'[j].draft = command[j].draft
    BY <1>2, <1>4
  <2>. QED
    BY <1>1, <2>1 DEF HealthInv, DraftsEnter
<1>6. CASE command[k].at = "writing the state"
  <2>1. health' = command[k].draft /\ overwrote' = TRUE /\ tempFile' = tempFile
    BY <1>6 DEF WritesTemp
  <2>. QED
    BY <1>1, <1>2, <1>4, <1>5, <2>1 DEF HealthInv, HealthTypes, StateIsFaithful,
       DraftsAreFaithful, TempIsItsOwn
<1>7. CASE command[k].at = "writing"
  <2>1. tempFile' = command[k].draft /\ UNCHANGED <<health, overwrote>>
    BY <1>7 DEF WritesTemp
  <2>2. HealthTypes' /\ StateIsFaithful'
    BY <1>1, <1>2, <1>4, <2>1 DEF HealthInv, HealthTypes, StateIsFaithful
  <2>3. DraftsAreFaithful'
    BY <1>1, <1>2, <1>3, <1>7, <2>1 DEF HealthInv, DraftsAreFaithful, UpToDate
  <2>4. TempIsItsOwn'
    <3>. SUFFICES ASSUME ~overwrote, NEW j \in Commands, UpToDate(j)'
                  PROVE  /\ command'[j].at \in {"loaded", "writing", "written"}
                         /\ command'[j].at = "written" => tempFile' = command'[j].draft
                         /\ command'[j].at # "loaded" =>
                               \A i \in Commands \ {j} : command'[i].at \notin {"writing", "written"}
      BY <2>1 DEF TempIsItsOwn
    <3>1. UpToDate(j)
      BY <1>2, <1>3, <1>7 DEF UpToDate
    <3>2. CASE j = k
      BY <1>2, <1>7, <2>1, <3>1, <3>2 DEF HealthInv, TempIsItsOwn
    <3>3. CASE j # k
      BY <1>2, <1>7, <3>1, <3>3 DEF HealthInv, TempIsItsOwn
    <3>. QED
      BY <3>2, <3>3
  <2>. QED
    BY <1>1, <1>5, <2>2, <2>3, <2>4 DEF HealthInv
<1>. QED
  BY <1>4, <1>6, <1>7

(* A command that returns without a trace. *)
LEMMA GoneStep ==
    ASSUME HealthInv, NEW k \in Commands, command' = [command EXCEPT ![k] = NoCommand],
           UNCHANGED <<health, tempFile, launched, operatorHolds, overwrote, misreported>>
    PROVE  HealthInv'
<1>1. NoCommand \in CommandStates /\ NoCommand.at = "none"
  BY DEF NoCommand, NoState, NoEntry, CommandStates, AccountStates
<1>2. /\ command' \in [Commands -> CommandStates] /\ command'[k].at = "none"
      /\ \A j \in Commands : j # k => command'[j] = command[j]
  BY <1>1 DEF HealthInv, HealthTypes
<1>3. HealthTypes'
  BY <1>2 DEF HealthInv, HealthTypes
<1>4. StateIsFaithful' /\ DraftsAreFaithful'
  BY <1>2 DEF HealthInv, StateIsFaithful, DraftsAreFaithful, UpToDate
<1>5. TempIsItsOwn'
  BY <1>2 DEF HealthInv, TempIsItsOwn, UpToDate
<1>6. DraftsEnter'
  BY <1>2 DEF HealthInv, DraftsEnter
<1>. QED
  BY <1>3, <1>4, <1>5, <1>6 DEF HealthInv

(* A command that is up to date replaces the state by its own draft, and    *)
(* nobody else is up to date any more.                                     *)
LEMMA ReplacesStep ==
    ASSUME HealthInv, NEW k \in Commands, ReplacesState(k)
    PROVE  HealthInv'
<1>1. CASE tempFile = NoTemp
  BY <1>1, GoneStep DEF ReplacesState, Returns
<1>2. CASE tempFile # NoTemp
  <2>1. /\ command[k].at = "written" /\ command' = [Outdated EXCEPT ![k] = NoCommand]
        /\ health' = tempFile /\ tempFile' = NoTemp /\ misreported' = misreported
        /\ overwrote' = (overwrote \/ command[k].stale)
        /\ operatorHolds' = IF command[k].op = "hold"
                            THEN operatorHolds \cup command[k].home ELSE operatorHolds
        /\ launched' = [l \in Launchers |->
                           IF l \in command[k].who /\ Live(l)
                           THEN [launched[l] EXCEPT !.at =
                                    IF command[k].op = "begin" THEN "begun" ELSE "ended"]
                           ELSE launched[l]]
    BY <1>2 DEF ReplacesState, Returns
  <2>2. NoCommand \in CommandStates /\ NoCommand.at = "none"
    BY DEF NoCommand, NoState, NoEntry, CommandStates, AccountStates
  <2>3. ASSUME NEW j \in Commands, j # k
        PROVE  /\ command'[j] \in CommandStates
               /\ command'[j].at = "none" <=> command[j].at = "none"
               /\ command'[j].op = command[j].op /\ command'[j].home = command[j].home
               /\ command'[j].who = command[j].who /\ command'[j].draft = command[j].draft
               /\ command'[j].stale
    <3>. DEFINE at == IF command[j].at = "writing" THEN "writing the state" ELSE command[j].at
    <3>1. command[j] \in CommandStates
      BY DEF HealthInv, HealthTypes
    <3>2. command'[j] = [command[j] EXCEPT !.stale = TRUE, !.at = at]
      BY <2>1, <2>3 DEF Outdated
    <3>3. /\ at \in {"none", "loaded", "writing", "writing the state", "written"}
          /\ at = "none" <=> command[j].at = "none"
      BY <3>1 DEF CommandStates
    <3>. HIDE DEF at
    <3>4. command'[j] \in CommandStates
      BY <3>1, <3>2, <3>3 DEF CommandStates
    <3>5. /\ command'[j].at = at
          /\ command'[j].op = command[j].op /\ command'[j].home = command[j].home
          /\ command'[j].who = command[j].who /\ command'[j].draft = command[j].draft
      BY <3>1, <3>2 DEF CommandStates
    <3>6. command'[j].stale
      BY <3>1, <3>2 DEF CommandStates
    <3>. QED
      BY <3>3, <3>4, <3>5, <3>6
  <2>4. command' \in [Commands -> CommandStates] /\ command'[k] = NoCommand
    <3>1. k \in DOMAIN Outdated /\ DOMAIN Outdated = Commands
      BY DEF Outdated
    <3>2. command'[k] = NoCommand /\ DOMAIN command' = Commands
      BY <2>1, <3>1
    <3>3. command' = [j \in Commands |-> command'[j]]
      BY <2>1, <3>1
    <3>. QED
      BY <2>2, <2>3, <3>2, <3>3
  <2>5. ASSUME NEW l \in Launchers
        PROVE  /\ launched'[l] \in LauncherStates /\ launched'[l].home = launched[l].home
               /\ launched[l].at # "new" => launched'[l].at # "new"
               /\ launched'[l].at = "begun" =>
                     \/ launched[l].at = "begun"
                     \/ command[k].op = "begin" /\ l \in command[k].who
    <3>1. launched[l] \in LauncherStates
      BY DEF HealthInv, HealthTypes
    <3>2. CASE l \in command[k].who /\ Live(l)
      <4>. DEFINE at == IF command[k].op = "begin" THEN "begun" ELSE "ended"
      <4>1. launched'[l] = [launched[l] EXCEPT !.at = at]
        BY <2>1, <3>2
      <4>2. at \in {"begun", "ended"} /\ (at = "begun" => command[k].op = "begin")
        OBVIOUS
      <4>. HIDE DEF at
      <4>. QED
        BY <3>1, <3>2, <4>1, <4>2 DEF LauncherStates
    <3>3. CASE ~(l \in command[k].who /\ Live(l))
      <4>1. launched'[l] = launched[l]
        BY <2>1, <3>3
      <4>. QED
        BY <3>1, <4>1
    <3>. QED
      BY <3>2, <3>3
  <2>6. command[k] \in CommandStates
    BY DEF HealthInv, HealthTypes
  <2>7. HealthTypes'
    <3>1. launched' \in [Launchers -> LauncherStates]
      BY <2>1, <2>5
    <3>2. operatorHolds' \subseteq Homes
      BY <2>1, <2>6 DEF HealthInv, HealthTypes, CommandStates
    <3>3. overwrote' \in BOOLEAN
      BY <2>1, <2>6 DEF HealthInv, HealthTypes, CommandStates
    <3>4. health' \in AccountStates \cup {Torn} /\ tempFile' \in AccountStates \cup {Torn, NoTemp}
      BY <1>2, <2>1 DEF HealthInv, HealthTypes
    <3>. QED
      BY <2>4, <3>1, <3>2, <3>3, <3>4 DEF HealthTypes
  <2>8. StateIsFaithful'
    <3>. SUFFICES ASSUME ~overwrote'
                  PROVE  health' # Torn /\ Faithful(health', launched', operatorHolds')
      BY DEF StateIsFaithful
    <3>1. ~overwrote /\ UpToDate(k)
      BY <2>1 DEF UpToDate
    <3>2. /\ health' = command[k].draft /\ command[k].draft \in AccountStates
          /\ Faithful(command[k].draft, launched, operatorHolds)
      BY <2>1, <2>6, <3>1 DEF HealthInv, TempIsItsOwn, DraftsAreFaithful, CommandStates
    <3>3. \A h \in operatorHolds' : command[k].draft[h].held
      BY <2>1, <3>2 DEF HealthInv, DraftsEnter, Faithful
    <3>4. ASSUME NEW l \in Launchers, NEW h \in Homes,
                 launched'[l].at = "begun", launched'[l].home = {h}
          PROVE  l \in command[k].draft[h].active
      <4>1. launched[l].home = {h}
        BY <2>5, <3>4
      <4>2. CASE launched[l].at = "begun"
        BY <3>2, <4>1, <4>2 DEF Faithful
      <4>3. CASE command[k].op = "begin" /\ l \in command[k].who
        BY <2>1, <4>1, <4>3 DEF HealthInv, DraftsEnter
      <4>. QED
        BY <2>5, <3>4, <4>2, <4>3
    <3>. QED
      BY <3>2, <3>3, <3>4, HealthAssumption DEF Faithful
  <2>9. \A j \in Commands : ~UpToDate(j)'
    BY <2>2, <2>3, <2>4 DEF UpToDate
  <2>10. DraftsAreFaithful' /\ TempIsItsOwn'
    BY <2>9 DEF DraftsAreFaithful, TempIsItsOwn
  <2>11. DraftsEnter'
    <3>1. ASSUME NEW j \in Commands, j # k, command[j].at # "none", command[j].op = "begin",
                 NEW l \in command[j].who
          PROVE  /\ launched'[l].at # "new"
                 /\ \A h \in Homes : launched'[l].home = {h} => l \in command[j].draft[h].active
      <4>1. l \in Launchers
        BY <3>1 DEF HealthInv, HealthTypes, CommandStates
      <4>. QED
        BY <2>5, <3>1, <4>1 DEF HealthInv, DraftsEnter
    <3>. QED
      BY <2>2, <2>3, <2>4, <3>1 DEF HealthInv, DraftsEnter
  <2>. QED
    BY <2>1, <2>7, <2>8, <2>10, <2>11 DEF HealthInv
<1>. QED
  BY <1>1, <1>2

(* The invariant is inductive. *)
LEMMA HealthSteps == HealthInv /\ [HealthNext]_healthVars => HealthInv'
<1>. SUFFICES ASSUME HealthInv, [HealthNext]_healthVars PROVE HealthInv'
  OBVIOUS
<1>1. ASSUME NEW k \in Commands,
             \/ CollectAccountStatus(k) \/ OpensTemp(k) \/ WritesTemp(k) \/ ReplacesState(k)
      PROVE  HealthInv'
  BY <1>1, StatusStep, OpensStep, WritesStep, ReplacesStep
<1>2. ASSUME NEW k \in Commands, CommandDies(k) PROVE HealthInv'
  BY <1>2, GoneStep DEF CommandDies, Returns
<1>3. ASSUME NEW k \in Commands, NEW h \in Homes,
             SetManualHold(k, h) \/ ClearManualHold(k, h) \/ MarkRateLimit(k, h)
      PROVE  HealthInv'
  BY <1>3, HoldStep, ReleaseStep, LimitStep
<1>4. ASSUME NEW k \in Commands, NEW h \in Homes, NEW l \in Launchers,
             MarkAssignment(k, l, h) \/ EndAssignment(k, l, h)
      PROVE  HealthInv'
  BY <1>4, BeginStep, EndStep
<1>5. ASSUME NEW l \in Launchers, LauncherDies(l) PROVE HealthInv'
  <2>1. /\ Live(l) /\ launched' = [launched EXCEPT ![l].at = "dead"]
        /\ UNCHANGED <<health, tempFile, command, operatorHolds, overwrote, misreported>>
    BY <1>5 DEF LauncherDies
  <2>2. launched' \in [Launchers -> LauncherStates]
    BY <2>1 DEF HealthInv, HealthTypes, LauncherStates
  <2>3. \A m \in Launchers : /\ launched'[m].home = launched[m].home
                              /\ launched'[m].at = IF m = l THEN "dead" ELSE launched[m].at
    BY <2>1 DEF HealthInv, HealthTypes, LauncherStates
  <2>. QED
    BY <2>1, <2>2, <2>3, LaunchersStep
<1>6. ASSUME NEW h \in Homes, TokenAges(h) \/ RefreshToken(h) \/ LogIn(h) PROVE HealthInv'
  <2>1. UNCHANGED <<health, tempFile, command, launched, operatorHolds, overwrote, misreported>>
    BY <1>6 DEF TokenAges, RefreshToken, LogIn
  <2>2. launched' \in [Launchers -> LauncherStates]
    BY <2>1 DEF HealthInv, HealthTypes
  <2>. QED
    BY <2>1, <2>2, LaunchersStep
<1>7. CASE UNCHANGED healthVars
  <2>1. UNCHANGED <<health, tempFile, command, launched, operatorHolds, overwrote, misreported>>
    BY <1>7 DEF healthVars
  <2>2. launched' \in [Launchers -> LauncherStates]
    BY <2>1 DEF HealthInv, HealthTypes
  <2>. QED
    BY <2>1, <2>2, LaunchersStep
<1>. QED
  BY <1>1, <1>2, <1>3, <1>4, <1>5, <1>6, <1>7 DEF HealthNext

(* However many commands and launchers there are, and wherever they die.    *)
THEOREM HoldsAndSlotsAreKept == HealthSpec => []HoldsAndSlotsStand
<1>1. HealthInv => HoldsAndSlotsStand
  BY DEF HealthInv, StateIsFaithful, HoldsAndSlotsStand, Faithful, LoadState, BegunOn
<1>. QED
  BY <1>1, HealthStarts, HealthSteps, PTL DEF HealthSpec

-----------------------------------------------------------------------------
(* The task container                                                      *)

(* Types                                                                   *)

LEMMA TreesAre ==
    /\ Trees = {"grader", "instruction", "repo", "answer", "results"}
    /\ InWorkspace = {"grader", "instruction", "repo", "answer"}
BY DEF Trees, InWorkspace

LEMMA NodeType ==
    /\ Node(TRUE, "agent", "other", {"o+r"}) \in TreeState
    /\ Node(TRUE, "agent", "other", {"g+r", "o+r"}) \in TreeState
    /\ Node(FALSE, "root", "other", {}) \in TreeState
    /\ Node(TRUE, "host", "other", {}) \in TreeState
    /\ Node(TRUE, "root", "scoring", {"g+r", "g+w"}).owner = "root"
    /\ Node(TRUE, "root", "scoring", {"g+r", "g+w"}).bits = {"g+r", "g+w"}
BY DEF Node, TreeState

(* What a new answer directory is like. *)
AnswerMade == [tree EXCEPT !["answer"] = Node(TRUE, "agent", "other", {"o+r"})]

LEMMA AnswerType ==
    ASSUME tree \in [Trees -> TreeState]
    PROVE  /\ AnswerMade \in [Trees -> TreeState]
           /\ \A o \in Trees \ {"answer"} : AnswerMade[o] = tree[o]
BY NodeType, TreesAre DEF AnswerMade

(* What each step of the preparation does to what lies there. *)
LEMMA CopiedIs ==
    ASSUME tree \in [Trees -> TreeState], CopyInstruction
    PROVE  /\ tree' \in [Trees -> TreeState]
           /\ tree'["repo"].there = tree["repo"].there
           /\ tree'["repo"].owner = tree["repo"].owner
<1>1. PICK writable \in BOOLEAN :
          tree' = [tree EXCEPT !["instruction"] = Node(TRUE, "host", "other", {}),
                               !["repo"].bits = @ \cup (IF writable THEN {"g+w"} ELSE {})]
  BY DEF CopyInstruction
<1>2. "instruction" \in Trees /\ "repo" \in Trees /\ "instruction" # "repo"
  BY TreesAre
<1>3. [tree["repo"] EXCEPT !.bits = @ \cup (IF writable THEN {"g+w"} ELSE {})] \in TreeState
  BY <1>2 DEF TreeState
<1>4. Node(TRUE, "host", "other", {}) \in TreeState
  BY NodeType
<1>5. /\ tree'["repo"] = [tree["repo"] EXCEPT !.bits = @ \cup (IF writable THEN {"g+w"} ELSE {})]
      /\ tree'["instruction"] = Node(TRUE, "host", "other", {})
      /\ \A o \in Trees \ {"repo", "instruction"} : tree'[o] = tree[o]
      /\ tree' = [o \in Trees |-> tree'[o]]
  BY <1>1, <1>2
<1>6. \A o \in Trees : tree'[o] \in TreeState
  BY <1>3, <1>4, <1>5
<1>7. tree' \in [Trees -> TreeState]
  BY <1>5, <1>6
<1>. QED
  BY <1>2, <1>5, <1>7 DEF TreeState

LEMMA LockedDownIs ==
    ASSUME tree \in [Trees -> TreeState], NEW done \in 0..2
    PROVE  /\ LockedDown(done) \in [Trees -> TreeState]
           /\ \A o \in Trees \ {"repo"} : LockedDown(done)[o] = tree[o]
           /\ LockedDown(done)["repo"].there = tree["repo"].there
           /\ done = 2 => /\ LockedDown(done)["repo"].owner = "root"
                          /\ "o+r" \notin LockedDown(done)["repo"].bits
<1>1. "repo" \in Trees
  BY TreesAre
<1>2. DEFINE owner == IF done >= 1 THEN "root" ELSE tree["repo"].owner
             group == IF done >= 1 THEN "scoring" ELSE tree["repo"].group
             bits  == IF done >= 2 THEN tree["repo"].bits \ {"o+r", "o+w", "g+w"}
                                   ELSE tree["repo"].bits
<1>3. /\ owner \in {"root", "agent", "host"} /\ group \in {"scoring", "other"}
      /\ bits \in SUBSET {"g+r", "g+w", "o+r", "o+w"}
      /\ done = 2 => owner = "root" /\ "o+r" \notin bits
  BY <1>1 DEF TreeState
<1>4. LockedDown(done) =
        [tree EXCEPT !["repo"] = [@ EXCEPT !.owner = owner, !.group = group, !.bits = bits]]
  BY <1>1 DEF LockedDown, TreeState
<1>5. /\ LockedDown(done)["repo"] =
           [tree["repo"] EXCEPT !.owner = owner, !.group = group, !.bits = bits]
      /\ \A o \in Trees \ {"repo"} : LockedDown(done)[o] = tree[o]
  BY <1>1, <1>4
<1>. HIDE DEF owner, group, bits
<1>6. /\ [tree["repo"] EXCEPT !.owner = owner, !.group = group, !.bits = bits] \in TreeState
      /\ [tree["repo"] EXCEPT !.owner = owner, !.group = group, !.bits = bits].owner = owner
      /\ [tree["repo"] EXCEPT !.owner = owner, !.group = group, !.bits = bits].bits = bits
      /\ [tree["repo"] EXCEPT !.owner = owner, !.group = group, !.bits = bits].there
           = tree["repo"].there
  BY <1>1, <1>3 DEF TreeState
<1>. QED
  BY <1>1, <1>3, <1>4, <1>5, <1>6

LEMMA WrittenType ==
    ASSUME tree \in [Trees -> TreeState], NEW o \in Trees
    PROVE  /\ Written(o) \in [Trees -> TreeState]
           /\ \A p \in Trees :
                /\ Written(o)[p].there = tree[p].there
                /\ Written(o)[p].owner = tree[p].owner
                /\ Written(o)[p].group = tree[p].group
                /\ Written(o)[p].bits = tree[p].bits
                /\ p # o => Written(o)[p].version = tree[p].version
<1>1. 1 - tree[o].version \in 0..1
  BY DEF TreeState
<1>. QED
  BY <1>1 DEF Written, TreeState

LEMMA PreparingKeepsTypes ==
    ASSUME ContainerTypeOK,
           \/ CopyInstruction \/ StageVerifiers \/ ChownInstruction \/ SealGradingAssets
           \/ InstallCLI \/ AssertAgentReadable \/ ApplyModeGate \/ PreparationFails
    PROVE  ContainerTypeOK'
<1>. USE TreesAre DEF ContainerTypeOK, KeepAgent, Node, Steps, Ends
<1>1. CASE CopyInstruction
  <2>1. tree' \in [Trees -> TreeState]
    BY <1>1, CopiedIs
  <2>. QED
    BY <1>1, <2>1 DEF CopyInstruction
<1>2. CASE StageVerifiers
  <2>1. tree' \in [Trees -> TreeState]
    BY <1>2 DEF StageVerifiers, TreeState
  <2>. QED
    BY <1>2, <2>1 DEF StageVerifiers
<1>3. CASE ChownInstruction \/ AssertAgentReadable
  <2>1. ChownToAgent("instruction") \in [Trees -> TreeState]
    BY DEF ChownToAgent, TreeState
  <2>. QED
    BY <1>3, <2>1 DEF ChownInstruction, AssertAgentReadable
<1>4. CASE SealGradingAssets
  <2>1. tree' \in [Trees -> TreeState]
    BY <1>4 DEF SealGradingAssets, TreeState
  <2>. QED
    BY <1>4, <2>1 DEF SealGradingAssets
<1>5. CASE InstallCLI
  <2>1. tree' \in [Trees -> TreeState]
    BY <1>5, AnswerType DEF InstallCLI, AnswerMade
  <2>. QED
    BY <1>5, <2>1 DEF InstallCLI
<1>6. CASE ApplyModeGate
  <2>1. \A done \in 0..2 : LockedDown(done) \in [Trees -> TreeState]
    BY LockedDownIs
  <2>. QED
    BY <1>6, <2>1 DEF ApplyModeGate
<1>7. CASE PreparationFails
  BY <1>7 DEF PreparationFails
<1>. QED
  BY <1>1, <1>2, <1>3, <1>4, <1>5, <1>6, <1>7

LEMMA RunningKeepsTypes ==
    ASSUME ContainerTypeOK,
           \/ StartAgent \/ AgentReads \/ AgentWrites \/ AgentForks \/ AgentReturns
           \/ AgentTimesOut \/ BackgroundExits
    PROVE  ContainerTypeOK'
<1>. USE ContainerAssumption DEF ContainerTypeOK, Steps
<1>1. CASE StartAgent
  <2>1. tree' \in [Trees -> TreeState]
    BY <1>1, AnswerType DEF StartAgent, AnswerMade
  <2>2. procs' \in 0..MaxProcs
    BY <1>1 DEF StartAgent
  <2>3. exec' \in BOOLEAN /\ UNCHANGED <<step, gated, top, scorer, seen, outcome>>
    BY <1>1 DEF StartAgent
  <2>. QED
    BY <2>1, <2>2, <2>3
<1>2. CASE AgentReads
  BY <1>2 DEF AgentReads
<1>3. CASE AgentWrites
  <2>1. \A o \in Trees :
          [tree EXCEPT ![o].bits = @ \cup {"g+w", "o+w"}] \in [Trees -> TreeState]
    BY DEF TreeState
  <2>2. tree' \in [Trees -> TreeState]
    BY <1>3, <2>1, WrittenType DEF AgentWrites
  <2>. QED
    BY <1>3, <2>2 DEF AgentWrites
<1>4. CASE AgentForks
  BY <1>4 DEF AgentForks
<1>5. CASE AgentReturns \/ AgentTimesOut
  <2>1. procs' \in 0..MaxProcs
    BY <1>5 DEF AgentReturns, AgentTimesOut
  <2>2. /\ step' = "assert" /\ exec' = FALSE
        /\ UNCHANGED <<gated, tree, top, scorer, seen, outcome>>
    BY <1>5 DEF AgentReturns, AgentTimesOut
  <2>. QED
    BY <2>1, <2>2
<1>6. CASE BackgroundExits
  BY <1>6 DEF BackgroundExits
<1>. QED
  BY <1>1, <1>2, <1>3, <1>4, <1>5, <1>6

LEMMA ScoringKeepsTypes ==
    ASSUME ContainerTypeOK,
           \/ AssertGradingAssetsSealed \/ ReapAgentProcesses \/ CloseWorkspace
           \/ ScoringFails \/ ScorerWrites \/ ChecksEnd \/ ReopenWorkspace \/ JudgeReads
           \/ UNCHANGED containerVars
    PROVE  ContainerTypeOK'
<1>. USE ContainerAssumption DEF ContainerTypeOK, KeepAgent, Steps, Ends
<1>1. CASE AssertGradingAssetsSealed
  BY <1>1 DEF AssertGradingAssetsSealed
<1>2. CASE ReapAgentProcesses
  BY <1>2 DEF ReapAgentProcesses
<1>3. CASE CloseWorkspace
  <2>1. \A o \in Trees :
          [tree[o] EXCEPT !.bits = @ \ {"g+w", "o+w"}] \in TreeState
    BY DEF TreeState
  <2>2. tree' \in [Trees -> TreeState]
    BY <1>3, <2>1 DEF CloseWorkspace
  <2>. QED
    BY <1>3, <2>2 DEF CloseWorkspace
<1>4. CASE ScoringFails \/ JudgeReads \/ ChecksEnd \/ UNCHANGED containerVars
  BY <1>4 DEF ScoringFails, JudgeReads, ChecksEnd, containerVars
<1>5. CASE ScorerWrites
  BY <1>5, WrittenType DEF ScorerWrites
<1>6. CASE ReopenWorkspace
  <2>1. step' \in Steps
    BY <1>6 DEF ReopenWorkspace
  <2>. QED
    BY <1>6, <2>1 DEF ReopenWorkspace
<1>. QED
  BY <1>1, <1>2, <1>3, <1>4, <1>5, <1>6

-----------------------------------------------------------------------------
(* What is known of the container at each step                             *)

RunnerPrepared == {"agent", "assert", "reap", "close", "checks", "reopen", "judge"}
Quiet    == {"close", "checks", "reopen", "judge"}

(* The agent's processes live from its start until the reaper has passed,  *)
(* or beyond the end of a run that gave up on them.                        *)
Alive ==
    /\ exec => step = "agent"
    /\ procs > 0 => step \in {"agent", "assert", "reap", "end"}

(* Once the container is sealed it stays so: the directory is root's and   *)
(* sticky, and what is root's keeps its owner, its group and its bits.     *)
Fastened ==
    step \in {"cli", "readable", "gate"} \cup RunnerPrepared \/ procs > 0 =>
        /\ top.owner = "root" /\ top.sticky
        /\ tree["grader"].there /\ tree["grader"].owner = "root"
        /\ tree["grader"].group = "scoring" /\ tree["grader"].bits = {"g+r"}
        /\ tree["results"].owner = "root" /\ "o+r" \notin tree["results"].bits

(* The assets lie there before they are sealed.                            *)
StagedFirst == step \in {"chown", "seal"} => tree["grader"].there

(* The source is denied by the gate and by nothing else.                   *)
SourceIs ==
    /\ tree["repo"].there
    /\ ~gated \/ step \in {"copy", "stage", "chown", "seal", "cli", "readable", "gate"} =>
         tree["repo"].owner = "agent"
    /\ gated /\ (step \in RunnerPrepared \/ procs > 0) =>
         tree["repo"].owner = "root" /\ "o+r" \notin tree["repo"].bits

(* From the checks on, the scorer finds nothing graded that it may write.  *)
Closed ==
    step \in {"checks", "reopen", "judge"} =>
        \A o \in InWorkspace : tree[o].bits \cap {"g+w", "o+w"} = {}

ContainerInv ==
    /\ ContainerTypeOK /\ Alive /\ StagedFirst /\ Fastened /\ SourceIs /\ Closed
    /\ seen \subseteq {"instruction", "answer"} \cup (IF gated THEN {} ELSE {"repo"})
    /\ step \in {"copy", "stage"} => seen = {}

(* Writing what may be written changes a version and nothing else; opening *)
(* what it owns, the agent reaches nothing of root's.                      *)
LEMMA AgentLeavesRoots ==
    ASSUME ContainerTypeOK, AgentWrites
    PROVE  \A o \in Trees :
             /\ tree'[o].there = tree[o].there /\ tree'[o].owner = tree[o].owner
             /\ tree'[o].group = tree[o].group
             /\ tree[o].owner # "agent" => tree'[o].bits = tree[o].bits
<1>1. PICK o \in Trees :
          \/ tree' = Written(o)
          \/ /\ tree[o].owner = "agent"
             /\ tree' = [tree EXCEPT ![o].bits = @ \cup {"g+w", "o+w"}]
  BY DEF AgentWrites
<1>2. CASE tree' = Written(o)
  BY <1>2, WrittenType DEF ContainerTypeOK
<1>3. CASE /\ tree[o].owner = "agent"
           /\ tree' = [tree EXCEPT ![o].bits = @ \cup {"g+w", "o+w"}]
  BY <1>3 DEF ContainerTypeOK, TreeState
<1>. QED
  BY <1>1, <1>2, <1>3

(* A live process of the agent reads its arm and nothing beside it.        *)
LEMMA AgentMayRead ==
    ASSUME ContainerTypeOK, Alive, Fastened, SourceIs, procs > 0
    PROVE  /\ \A o \in Trees : CanRead("agent", o) =>
                o \in {"instruction", "answer"} \cup (IF gated THEN {} ELSE {"repo"})
           /\ ~gated => CanRead("agent", "repo")
<1>1. ~CanRead("agent", "grader") /\ ~CanRead("agent", "results")
  BY DEF Fastened, CanRead, InGroup
<1>2. gated => ~CanRead("agent", "repo")
  BY DEF SourceIs, CanRead, InGroup
<1>3. ~gated => CanRead("agent", "repo")
  BY DEF SourceIs, CanRead
<1>. QED
  BY <1>1, <1>2, <1>3, TreesAre

LEMMA PreparingKeepsInv ==
    ASSUME ContainerInv,
           \/ CopyInstruction \/ StageVerifiers \/ ChownInstruction \/ SealGradingAssets
           \/ InstallCLI \/ AssertAgentReadable \/ ApplyModeGate \/ PreparationFails
    PROVE  ContainerInv'
<1>. USE TreesAre DEF ContainerInv, Alive, StagedFirst, Fastened, SourceIs, Closed, RunnerPrepared, KeepAgent, Ends
<1>0. ContainerTypeOK' /\ procs \in Nat
  BY PreparingKeepsTypes, ContainerAssumption DEF ContainerTypeOK
<1>1. CASE CopyInstruction
  <2>1. /\ step = "copy" /\ step' = "stage" /\ procs = 0 /\ procs' = 0
        /\ UNCHANGED <<exec, seen>>
    BY <1>0, <1>1 DEF CopyInstruction
  <2>2. tree'["repo"].there = tree["repo"].there /\ tree'["repo"].owner = tree["repo"].owner
    BY <1>1, CopiedIs DEF ContainerTypeOK
  <2>. QED
    BY <1>0, <2>1, <2>2
<1>2. CASE StageVerifiers
  BY <1>0, <1>2 DEF StageVerifiers, Node, ContainerTypeOK
<1>3. CASE ChownInstruction \/ AssertAgentReadable
  BY <1>0, <1>3 DEF ChownInstruction, AssertAgentReadable, ChownToAgent, ContainerTypeOK
<1>4. CASE SealGradingAssets
  <2>1. /\ step = "seal" /\ step' = "cli" /\ UNCHANGED <<gated, exec, procs, seen>>
        /\ top'.owner = "root" /\ top'.sticky
    BY <1>4 DEF SealGradingAssets
  <2>2. /\ tree'["grader"].there = tree["grader"].there /\ tree'["grader"].owner = "root"
        /\ tree'["grader"].group = "scoring" /\ tree'["grader"].bits = {"g+r"}
        /\ tree'["results"] = Node(TRUE, "root", "scoring", {"g+r", "g+w"})
        /\ tree'["repo"] = tree["repo"]
    BY <1>4 DEF SealGradingAssets, ContainerTypeOK, TreeState
  <2>3. tree'["results"].owner = "root" /\ "o+r" \notin tree'["results"].bits
    <3>1. "o+r" \notin {"g+r", "g+w"}
      OBVIOUS
    <3>. QED
      BY <2>2, <3>1, NodeType, Zenon
  <2>. QED
    BY <1>0, <2>1, <2>2, <2>3
<1>5. CASE InstallCLI
  <2>1. \A o \in Trees \ {"answer"} : tree'[o] = tree[o]
    BY <1>5, AnswerType DEF InstallCLI, ContainerTypeOK, AnswerMade
  <2>2. UNCHANGED <<gated, top, exec, procs, seen>> /\ step = "cli" /\ step' = "readable"
    BY <1>5 DEF InstallCLI
  <2>. QED
    BY <1>0, <2>1, <2>2
<1>6. CASE ApplyModeGate
  <2>1. PICK done \in 0..2 :
            /\ tree' = IF gated THEN LockedDown(done) ELSE tree
            /\ step' = "agent" => (gated => done = 2)
    BY <1>6 DEF ApplyModeGate
  <2>2. /\ UNCHANGED <<gated, top, exec, procs, seen>> /\ step = "gate"
        /\ step' \in {"agent", "end"} /\ procs = 0
    BY <1>0, <1>6 DEF ApplyModeGate
  <2>4. CASE ~gated
    BY <1>0, <2>1, <2>2, <2>4
  <2>5. CASE gated
    <3>1. /\ \A o \in Trees \ {"repo"} : tree'[o] = tree[o]
          /\ tree'["repo"].there = tree["repo"].there
          /\ done = 2 => tree'["repo"].owner = "root" /\ "o+r" \notin tree'["repo"].bits
      <4>1. tree' = LockedDown(done) /\ tree \in [Trees -> TreeState]
        BY <2>1, <2>5 DEF ContainerTypeOK
      <4>. QED
        BY <4>1, LockedDownIs, Zenon
    <3>2. tree'["grader"] = tree["grader"] /\ tree'["results"] = tree["results"]
      BY <3>1
    <3>. QED
      BY <1>0, <2>1, <2>2, <2>5, <3>1, <3>2
  <2>. QED
    BY <2>4, <2>5
<1>7. CASE PreparationFails
  BY <1>0, <1>7 DEF PreparationFails
<1>. QED
  BY <1>1, <1>2, <1>3, <1>4, <1>5, <1>6, <1>7

LEMMA RunningKeepsInv ==
    ASSUME ContainerInv,
           \/ StartAgent \/ AgentReads \/ AgentWrites \/ AgentForks \/ AgentReturns
           \/ AgentTimesOut \/ BackgroundExits
    PROVE  ContainerInv'
<1>. USE TreesAre DEF ContainerInv, Alive, StagedFirst, Fastened, SourceIs, Closed, RunnerPrepared
<1>0. ContainerTypeOK' /\ procs \in Nat /\ procs' \in Nat
  BY RunningKeepsTypes, ContainerAssumption DEF ContainerTypeOK
<1>1. CASE StartAgent
  <2>1. \A o \in Trees \ {"answer"} : tree'[o] = tree[o]
    BY <1>1, AnswerType DEF StartAgent, ContainerTypeOK, AnswerMade
  <2>2. UNCHANGED <<step, gated, top, seen>> /\ step = "agent"
    BY <1>1 DEF StartAgent
  <2>. QED
    BY <1>0, <2>1, <2>2
<1>2. CASE AgentReads
  BY <1>0, <1>2, AgentMayRead DEF AgentReads
<1>3. CASE AgentWrites
  <2>1. UNCHANGED <<step, gated, top, exec, procs, scorer, seen, outcome>> /\ procs > 0
    BY <1>3 DEF AgentWrites
  <2>2. step \notin {"checks", "reopen", "judge"}
    BY <2>1
  <2>. QED
    BY <1>0, <1>3, <2>1, <2>2, AgentLeavesRoots
<1>4. CASE AgentForks \/ BackgroundExits
  <2>1. procs > 0 /\ UNCHANGED <<step, gated, tree, top, exec, seen>>
    BY <1>0, <1>4 DEF AgentForks, BackgroundExits
  <2>. QED
    BY <1>0, <2>1
<1>5. CASE AgentReturns \/ AgentTimesOut
  <2>1. /\ step = "agent" /\ step' = "assert" /\ ~exec'
        /\ UNCHANGED <<gated, tree, top, seen>>
    BY <1>5 DEF AgentReturns, AgentTimesOut
  <2>. QED
    BY <1>0, <2>1
<1>. QED
  BY <1>1, <1>2, <1>3, <1>4, <1>5

LEMMA ScoringKeepsInv ==
    ASSUME ContainerInv,
           \/ AssertGradingAssetsSealed \/ ReapAgentProcesses \/ CloseWorkspace
           \/ ScoringFails \/ ScorerWrites \/ ChecksEnd \/ ReopenWorkspace \/ JudgeReads
           \/ UNCHANGED containerVars
    PROVE  ContainerInv'
<1>. USE TreesAre DEF ContainerInv, Alive, StagedFirst, Fastened, SourceIs, Closed, RunnerPrepared, KeepAgent, Ends
<1>0. ContainerTypeOK' /\ procs \in Nat /\ procs' \in Nat
  BY ScoringKeepsTypes, ContainerAssumption DEF ContainerTypeOK
<1>1. CASE AssertGradingAssetsSealed \/ ScoringFails \/ JudgeReads
  <2>1. /\ step \in {"assert", "reap", "close", "judge"} /\ step' \in {"reap", "end"}
        /\ step' = "reap" => step = "assert"
        /\ UNCHANGED <<gated, tree, top, exec, procs, seen>>
    BY <1>1 DEF AssertGradingAssetsSealed, ScoringFails, JudgeReads
  <2>. QED
    BY <1>0, <2>1
<1>2. CASE ReapAgentProcesses
  BY <1>0, <1>2 DEF ReapAgentProcesses
<1>3. CASE CloseWorkspace
  <2>1. /\ step = "close" /\ step' = "checks" /\ UNCHANGED <<gated, exec, procs, seen>>
        /\ top'.owner = top.owner /\ top'.sticky = top.sticky
    BY <1>3 DEF CloseWorkspace, ContainerTypeOK
  <2>2. \A o \in Trees :
          /\ tree'[o].there = tree[o].there /\ tree'[o].owner = tree[o].owner
          /\ tree'[o].group = tree[o].group
          /\ tree'[o].bits = IF o \in InWorkspace THEN tree[o].bits \ {"g+w", "o+w"}
                                                 ELSE tree[o].bits
    BY <1>3 DEF CloseWorkspace, ContainerTypeOK, TreeState
  <2>3. Closed'
    BY <2>2
  <2>4. Fastened'
    BY <2>1, <2>2
  <2>5. SourceIs'
    BY <1>0, <2>1, <2>2
  <2>. QED
    BY <1>0, <2>1, <2>3, <2>4, <2>5
<1>4. CASE ScorerWrites
  <2>1. PICK o \in Trees : tree' = Written(o)
    BY <1>4 DEF ScorerWrites
  <2>. QED
    BY <1>0, <1>4, <2>1, WrittenType DEF ScorerWrites, ContainerTypeOK
<1>5. CASE ChecksEnd
  BY <1>0, <1>5 DEF ChecksEnd
<1>6. CASE ReopenWorkspace
  BY <1>0, <1>6 DEF ReopenWorkspace, ContainerTypeOK
<1>7. CASE UNCHANGED containerVars
  BY <1>0, <1>7 DEF containerVars
<1>. QED
  BY <1>1, <1>2, <1>3, <1>4, <1>5, <1>6, <1>7

LEMMA SpecContainerInv == ContainerSpec => []ContainerInv
<1>1. ContainerInit => ContainerInv
  <2>1. ContainerInit => ContainerTypeOK
    <3>. SUFFICES ASSUME ContainerInit PROVE ContainerTypeOK
      OBVIOUS
    <3>2. tree \in [Trees -> TreeState]
      BY NodeType DEF ContainerInit
    <3>3. procs \in 0..MaxProcs
      BY ContainerAssumption DEF ContainerInit
    <3>. QED
      BY <3>2, <3>3 DEF ContainerInit, ContainerTypeOK, Steps
  <2>. QED
    BY <2>1, TreesAre DEF ContainerInit, ContainerInv, Alive, StagedFirst, Fastened, SourceIs, Closed,
       RunnerPrepared, Node
<1>2. ContainerInv /\ [ContainerNext]_containerVars => ContainerInv'
  BY PreparingKeepsInv, RunningKeepsInv, ScoringKeepsInv DEF ContainerNext
<1>. QED
  BY <1>1, <1>2, PTL DEF ContainerSpec

(* The container keeps its types.                                          *)
THEOREM ContainerTypes == ContainerSpec => []ContainerTypeOK
<1>1. ContainerInv => ContainerTypeOK
  BY DEF ContainerInv
<1>. QED
  BY <1>1, SpecContainerInv, PTL

(* However many processes the agent leaves behind, none ever reads the     *)
(* grading assets or a gated arm's source, and an ungated arm has its      *)
(* source (_seal_grading_assets, _apply_mode_gate).                        *)
THEOREM ArmIsAllAgentSees == ContainerSpec => []AgentSeesItsArm
<1>1. ContainerInv => AgentSeesItsArm
  BY AgentMayRead DEF ContainerInv, AgentSeesItsArm
<1>. QED
  BY <1>1, SpecContainerInv, PTL

(* The seal that was set is found intact, whatever the agent does          *)
(* (_assert_grading_assets_sealed).                                        *)
THEOREM SealIsFoundIntact == ContainerSpec => []SealHolds
<1>1. ContainerInv => SealHolds
  BY DEF ContainerInv, Fastened, RunnerPrepared, SealHolds, Sealed, CanRead, InGroup
<1>. QED
  BY <1>1, SpecContainerInv, PTL

(* From the first check to the judge nothing that is graded changes, with  *)
(* the scorer's leftovers alive or not (_run_scoring, _close_workspace).   *)
THEOREM WhatIsGradedStands == ContainerSpec => GradedStands
<1>. DEFINE Stands == step \in {"checks", "reopen", "judge"} =>
                        \A o \in Graded : tree'[o].version = tree[o].version
<1>1. ASSUME ContainerInv, ContainerNext, step \in {"checks", "reopen", "judge"}
      PROVE  \A o \in Graded : tree'[o].version = tree[o].version
  <2>1. procs = 0
    BY <1>1, ContainerAssumption DEF ContainerInv, Alive, ContainerTypeOK
  <2>2. CASE ScorerWrites
    <3>1. PICK o \in Trees : CanWrite("scorer", o) /\ tree' = Written(o)
      BY <2>2 DEF ScorerWrites
    <3>2. o \notin InWorkspace
      <4>1. \A p \in InWorkspace : tree[p].owner # "scorer"
        BY <1>1, TreesAre DEF ContainerInv, ContainerTypeOK, TreeState
      <4>2. \A p \in InWorkspace : "g+w" \notin tree[p].bits /\ "o+w" \notin tree[p].bits
        BY <1>1 DEF ContainerInv, Closed
      <4>3. top.owner = "root" /\ top.sticky
        BY <1>1 DEF ContainerInv, Fastened, RunnerPrepared
      <4>. QED
        BY <3>1, <4>1, <4>2, <4>3 DEF CanWrite, CanReplace
    <3>. QED
      BY <1>1, <3>1, <3>2, TreesAre, WrittenType DEF Graded, ContainerInv, ContainerTypeOK
  <2>3. CASE ~ScorerWrites
    <3>1. UNCHANGED tree \/ step \in {"copy", "stage", "chown", "seal", "cli", "readable", "gate",
                                      "agent", "close"} \/ procs > 0
      BY <1>1, <2>3 DEF ContainerNext, CopyInstruction, StageVerifiers, ChownInstruction,
         SealGradingAssets, InstallCLI, AssertAgentReadable, ApplyModeGate, PreparationFails,
         StartAgent, AgentReads, AgentWrites, AgentForks, AgentReturns, AgentTimesOut,
         BackgroundExits, AssertGradingAssetsSealed, ReapAgentProcesses, CloseWorkspace,
         ScoringFails, ChecksEnd, ReopenWorkspace, JudgeReads
    <3>2. ~(procs > 0)
      BY <2>1
    <3>. QED
      BY <1>1, <3>1, <3>2
  <2>. QED
    BY <2>2, <2>3
<1>2. ContainerInv /\ [ContainerNext]_containerVars => [Stands]_containerVars
  BY <1>1
<1>. QED
  BY <1>2, SpecContainerInv, PTL DEF ContainerSpec, GradedStands

-----------------------------------------------------------------------------
(* Grading: every reported number is a sum over what was measured           *)

LEMMA ChecksAre == IsFiniteSet(Checks) /\ Cardinality(Checks) = NChecks /\ NChecks \in Nat \ {0}
  BY GradingAssumption, FS_Interval DEF Checks

(* The two sums that are compared, as sums of a function. *)
LEMMA MarkIs ==
    ASSUME \A i \in Checks : graded[i].score * weights[i] \in Nat
    PROVE  WeightedSum(LAMBDA i : graded[i].score)
             = SumOf([i \in Checks |-> graded[i].score * weights[i]], Checks)
<1>. DEFINE f == [i \in Checks |-> graded[i].score * weights[i]]
            Tbl(it) == it = [s \in SUBSET Checks |->
                              IF s = {} THEN 0
                              ELSE graded[First(s)].score * weights[First(s)] + it[s \ {First(s)}]]
            It == CHOOSE it : Tbl(it)
<1>0. IsFiniteSet(Checks)
  BY ChecksAre
<1>1. WeightedSum(LAMBDA i : graded[i].score) = It[Checks]
  BY DEF WeightedSum, MapThenSumSet, MapThenFoldSet, First
<1>2. \A x \in Checks : f[x] \in Nat
  OBVIOUS
<1>3. \A s \in SUBSET Checks : s # {} => f[First(s)] = graded[First(s)].score * weights[First(s)]
  BY FirstIsIn
<1>. HIDE DEF f
<1>4. ASSUME NEW it PROVE Tbl(it) <=> Tabulates(it, f, Checks)
  BY <1>3 DEF Tabulates
<1>5. \E it : Tbl(it)
  BY <1>0, <1>2, <1>4, TableExists
<1>6. Tbl(It)
  BY <1>5
<1>. HIDE DEF It, Tbl
<1>7. Tabulates(It, f, Checks)
  BY <1>4, <1>6
<1>8. It[Checks] = SumOf(f, Checks)
  BY <1>0, <1>2, <1>7, TabledIsSum
<1>. QED
  BY <1>1, <1>8 DEF f

LEMMA EarnedIs ==
    ASSUME \A i \in Checks : Earned(i) * weights[i] \in Nat
    PROVE  WeightedSum(Earned) = SumOf([i \in Checks |-> Earned(i) * weights[i]], Checks)
<1>. DEFINE f == [i \in Checks |-> Earned(i) * weights[i]]
            Tbl(it) == it = [s \in SUBSET Checks |->
                              IF s = {} THEN 0
                              ELSE Earned(First(s)) * weights[First(s)] + it[s \ {First(s)}]]
            It == CHOOSE it : Tbl(it)
<1>0. IsFiniteSet(Checks)
  BY ChecksAre
<1>1. WeightedSum(Earned) = It[Checks]
  BY DEF WeightedSum, MapThenSumSet, MapThenFoldSet, First
<1>2. \A x \in Checks : f[x] \in Nat
  OBVIOUS
<1>3. \A s \in SUBSET Checks : s # {} => f[First(s)] = Earned(First(s)) * weights[First(s)]
  BY FirstIsIn
<1>. HIDE DEF f
<1>4. ASSUME NEW it PROVE Tbl(it) <=> Tabulates(it, f, Checks)
  BY <1>3 DEF Tabulates
<1>5. \E it : Tbl(it)
  BY <1>0, <1>2, <1>4, TableExists
<1>6. Tbl(It)
  BY <1>5
<1>. HIDE DEF It, Tbl
<1>7. Tabulates(It, f, Checks)
  BY <1>4, <1>6
<1>8. It[Checks] = SumOf(f, Checks)
  BY <1>0, <1>2, <1>7, TabledIsSum
<1>. QED
  BY <1>1, <1>8 DEF f

SlotShape == [score : HalfPoints, ran : BOOLEAN, signature : BOOLEAN]

(* What was earned is counted in halves. *)
LEMMA EarnedHalves ==
    ASSUME GradingTypeOK, NEW i \in Checks
    PROVE  /\ Earned(i) \in HalfPoints
           /\ opinions[i] = NoScore => Earned(i) = IF printed[i] = NoScore THEN 0 ELSE printed[i]
  BY GradingAssumption DEF GradingTypeOK, Earned, Least, HalfPoints

(* The number that is reported, against what was earned. *)
LEMMA MarkAgainstEarned ==
    ASSUME GradingTypeOK, Len(graded) = NChecks
    PROVE  /\ WeightedSum(LAMBDA i : graded[i].score) \in 0..2 * NChecks
           /\ (\A i \in Checks : graded[i].score <= Earned(i)) =>
                  WeightedSum(LAMBDA i : graded[i].score) <= WeightedSum(Earned)
           /\ (\A i \in Checks : graded[i].score = Earned(i)) =>
                  WeightedSum(LAMBDA i : graded[i].score) = WeightedSum(Earned)
           /\ 0 <= WeightedSum(Earned)
<1>. DEFINE f == [i \in Checks |-> graded[i].score * weights[i]]
            g == [i \in Checks |-> Earned(i) * weights[i]]
<1>1. \A i \in Checks : /\ graded[i].score \in HalfPoints /\ Earned(i) \in HalfPoints
                        /\ weights[i] \in 0..1
  <2>1. DOMAIN graded = Checks /\ graded \in Seq(SlotShape)
    BY ChecksAre DEF Checks, GradingTypeOK, SlotShape
  <2>2. \A i \in Checks : graded[i] \in SlotShape
    BY <2>1
  <2>3. weights \in [Checks -> 0..1]
    BY DEF GradingTypeOK
  <2>. QED
    BY <2>2, <2>3, EarnedHalves DEF SlotShape
<1>2. ASSUME NEW i \in Checks
      PROVE  /\ graded[i].score * weights[i] \in 0..2 /\ Earned(i) * weights[i] \in 0..2
             /\ graded[i].score <= Earned(i) =>
                    graded[i].score * weights[i] <= Earned(i) * weights[i]
  <2>1. /\ graded[i].score \in 0..2 /\ Earned(i) \in 0..2
        /\ (weights[i] = 0 \/ weights[i] = 1)
    BY <1>1 DEF HalfPoints
  <2>2. CASE weights[i] = 0
    BY <2>1, <2>2
  <2>3. CASE weights[i] = 1
    BY <2>1, <2>3
  <2>. QED
    BY <2>1, <2>2, <2>3
<1>3. /\ \A i \in Checks : f[i] \in 0..2 /\ f[i] \in Nat /\ g[i] \in Nat
      /\ (\A i \in Checks : graded[i].score <= Earned(i)) => \A i \in Checks : f[i] <= g[i]
      /\ (\A i \in Checks : graded[i].score = Earned(i)) => f = g
  BY <1>2
<1>4. /\ WeightedSum(LAMBDA i : graded[i].score) = SumOf(f, Checks)
      /\ WeightedSum(Earned) = SumOf(g, Checks)
  <2>1. /\ \A i \in Checks : graded[i].score * weights[i] \in Nat
        /\ \A i \in Checks : Earned(i) * weights[i] \in Nat
    BY <1>2
  <2>2. WeightedSum(LAMBDA i : graded[i].score) = SumOf(f, Checks)
    BY <2>1, MarkIs
  <2>3. WeightedSum(Earned) = SumOf(g, Checks)
    BY <2>1, EarnedIs
  <2>. QED
    BY <2>2, <2>3
<1>. HIDE DEF f, g
<1>5. SumOf(f, Checks) \in Nat /\ SumOf(g, Checks) \in Nat
  BY <1>3, ChecksAre, SumIsNat
<1>6. SumOf(f, Checks) <= 2 * NChecks
  BY <1>3, ChecksAre, SumAtMostTwice
<1>7. (\A i \in Checks : f[i] <= g[i]) => SumOf(f, Checks) <= SumOf(g, Checks)
  <2>1. Checks \in SUBSET Checks
    OBVIOUS
  <2>. QED
    BY <1>3, <2>1, ChecksAre, SumGrows
<1>. QED
  BY <1>3, <1>4, <1>5, <1>6, <1>7, ChecksAre

(* No verdict and no opinion is there before its checkpoint. *)
NothingAhead ==
    /\ Len(graded) <= NChecks
    /\ \A i \in Checks : i > Len(graded) => printed[i] = NoScore /\ opinions[i] = NoScore

(* Where the grading is tells what has happened. *)
PlaceTells ==
    /\ gradePc = "start" => graded = <<>> /\ judge = "none" /\ ~broken.noticed
    /\ gradePc \in {"guard", "judge"} => grader = "shell" /\ Len(graded) = NChecks
    /\ mark # NoScore => gradePc = "end"

(* Every verdict of the shell is what was earned, capped as far as the judge came. *)
ShellVerdicts ==
    grader = "shell" =>
        /\ \A i \in DOMAIN graded : graded[i].ran => graded[i].score = Earned(i)
        /\ \A i \in Checks : opinions[i] # NoScore <=> i <= capped
        /\ gradePc \in {"start", "verify", "guard"} /\ broken.noticed =>
               \E i \in DOMAIN graded : ~graded[i].ran \/ graded[i].signature
        /\ gradePc = "judge" =>
               /\ ~broken.noticed /\ curated # "absent"
               /\ \A i \in DOMAIN graded : graded[i].ran

(* No verdict of the runner is more, and none lacks an opinion but for an outage. *)
RunnerVerdicts ==
    grader = "runner" =>
        /\ \A i \in DOMAIN graded : graded[i].ran => graded[i].score <= Earned(i)
        /\ (curated = "complete" /\ artifact # "absent" /\ judge # "none") =>
               \A i \in DOMAIN graded : graded[i].ran => opinions[i] # NoScore \/ graded[i].signature
        /\ broken.noticed => \E i \in DOMAIN graded : ~graded[i].ran

GradingInv ==
    GradingTypeOK /\ NothingAhead /\ PlaceTells /\ ShellVerdicts /\ RunnerVerdicts /\ ScoreIsMeasured

LEMMA GradingStarts == GradingInit => GradingInv
<1>. SUFFICES ASSUME GradingInit PROVE GradingInv
  OBVIOUS
<1>1. GradingTypeOK
  BY GradingAssumption DEF GradingInit, GradingTypeOK
<1>. QED
  BY <1>1, GradingAssumption DEF GradingInit, GradingInv, NothingAhead, PlaceTells, ShellVerdicts,
     RunnerVerdicts, ScoreIsMeasured, Checks

(* A verifier's verdict is what it printed, if it counts at all, and a failure of *)
(* the harness that must be noticed shows in the verdict.                         *)
LEMMA VerdictIs ==
    ASSUME NEW f \in Fates
    PROVE  /\ RunVerifier(f) \in SlotShape /\ GuardCheckpointVerdict(f) \in SlotShape
           /\ LET p == IF f.exit = "timeout" THEN NoScore ELSE f.score
                  v == IF p = NoScore THEN 0 ELSE p
              IN  /\ p \in HalfPoints \cup {NoScore} /\ v \in HalfPoints
                  /\ RunVerifier(f).ran => RunVerifier(f).score = v
                  /\ GuardCheckpointVerdict(f).ran => GuardCheckpointVerdict(f).score = v
           /\ grader = "shell" /\ Noticed(f) => ~RunVerifier(f).ran \/ RunVerifier(f).signature
           /\ grader = "runner" /\ Noticed(f) => ~GuardCheckpointVerdict(f).ran
<1>1. /\ f.missing \in BOOLEAN /\ f.exit \in {"zero", "other", "timeout", "127"}
      /\ f.object \in BOOLEAN /\ f.score \in HalfPoints \cup {NoScore}
      /\ f.import \in BOOLEAN /\ f.signature \in BOOLEAN
      /\ (f.score # NoScore \/ f.signature) => f.object
  BY DEF Fates
<1>2. NotRun \in SlotShape /\ AgentsZero \in SlotShape /\ (f.score # NoScore => Verdict(f) \in SlotShape)
  BY <1>1 DEF NotRun, AgentsZero, Verdict, SlotShape, HalfPoints
<1>3. /\ NotRun.ran = FALSE /\ NotRun.score = 0 /\ AgentsZero.score = 0 /\ AgentsZero.ran
      /\ Verdict(f).score = f.score /\ Verdict(f).signature = f.signature /\ Verdict(f).ran
  BY DEF NotRun, AgentsZero, Verdict
<1>4. 0 \in HalfPoints
  BY DEF HalfPoints
<1>5. RunVerifier(f) \in SlotShape /\ GuardCheckpointVerdict(f) \in SlotShape
  BY <1>1, <1>2 DEF RunVerifier, GuardCheckpointVerdict
<1>. HIDE DEF NotRun, AgentsZero, Verdict
<1>6. LET p == IF f.exit = "timeout" THEN NoScore ELSE f.score
          v == IF p = NoScore THEN 0 ELSE p
      IN  /\ p \in HalfPoints \cup {NoScore} /\ v \in HalfPoints
          /\ RunVerifier(f).ran => RunVerifier(f).score = v
          /\ GuardCheckpointVerdict(f).ran => GuardCheckpointVerdict(f).score = v
  BY <1>1, <1>3, <1>4 DEF RunVerifier, GuardCheckpointVerdict
<1>7. grader = "shell" /\ Noticed(f) => ~RunVerifier(f).ran \/ RunVerifier(f).signature
  BY <1>1, <1>3 DEF RunVerifier, Noticed
<1>8. grader = "runner" /\ Noticed(f) => ~GuardCheckpointVerdict(f).ran
  BY <1>1, <1>3 DEF GuardCheckpointVerdict, Noticed
<1>. QED
  BY <1>5, <1>6, <1>7, <1>8

(* The next verdict: those before it stand as they are. *)
Adds(k, f, v, j) ==
    /\ k = Len(graded) + 1 /\ gradePc = "verify" /\ Len(graded) < NChecks
    /\ Remember(f) /\ graded' = Append(graded, v)
    /\ UNCHANGED <<gradePc, gradeCase, capped, mark>>
    /\ judge' \in {"none", "up", "failed"}
    /\ opinions' = [opinions EXCEPT ![k] = j]

Added(k, f, v, j) ==
    /\ GradingTypeOK' /\ NothingAhead' /\ PlaceTells' /\ ScoreIsMeasured'
    /\ DOMAIN graded' = DOMAIN graded \cup {k} /\ k \in Checks
    /\ \A i \in DOMAIN graded :
          i \in Checks /\ graded'[i] = graded[i] /\ Earned(i)' = Earned(i)
          /\ opinions'[i] = opinions[i]
    /\ graded'[k] = v /\ opinions'[k] = j
    /\ \A i \in Checks : i # k => opinions'[i] = opinions[i]
    /\ printed'[k] = IF f.exit = "timeout" THEN NoScore ELSE f.score
    /\ (broken.noticed)' = (broken.noticed \/ Noticed(f))

LEMMA OneMoreVerdict ==
    ASSUME GradingInv, NEW k, NEW f \in Fates, NEW v \in SlotShape,
           NEW j \in HalfPoints \cup {NoScore}, Adds(k, f, v, j)
    PROVE  Added(k, f, v, j)
<1>0. /\ k = Len(graded) + 1 /\ gradePc = "verify" /\ Len(graded) < NChecks
      /\ Remember(f) /\ graded' = Append(graded, v)
      /\ UNCHANGED <<gradePc, gradeCase, capped, mark>>
      /\ judge' \in {"none", "up", "failed"}
      /\ opinions' = [opinions EXCEPT ![k] = j]
  BY DEF Adds
<1>. DEFINE n == Len(graded)
            p == IF f.exit = "timeout" THEN NoScore ELSE f.score
<1>1. graded \in Seq(SlotShape) /\ n \in Nat /\ k \in Checks /\ k <= NChecks
  BY <1>0, ChecksAre DEF GradingInv, GradingTypeOK, SlotShape, Checks
<1>2. /\ graded' \in Seq(SlotShape) /\ Len(graded') = k /\ DOMAIN graded = 1..n
      /\ DOMAIN graded' = 1..k /\ graded'[k] = v
      /\ \A i \in 1..n : graded'[i] = graded[i]
  BY <1>0, <1>1
<1>3. /\ p \in HalfPoints \cup {NoScore}
      /\ printed' = [printed EXCEPT ![k] = p]
      /\ broken' = [noticed |-> broken.noticed \/ Noticed(f), import |-> broken.import \/ ImportDeath(f)]
  BY <1>0, VerdictIs DEF Remember
<1>4. printed \in [Checks -> HalfPoints \cup {NoScore}] /\ opinions \in [Checks -> HalfPoints \cup {NoScore}]
      /\ broken \in [noticed : BOOLEAN, import : BOOLEAN]
  BY DEF GradingInv, GradingTypeOK
<1>5. /\ printed' \in [Checks -> HalfPoints \cup {NoScore}] /\ opinions' \in [Checks -> HalfPoints \cup {NoScore}]
      /\ printed'[k] = p /\ opinions'[k] = j
      /\ \A i \in Checks : i # k => printed'[i] = printed[i] /\ opinions'[i] = opinions[i]
  BY <1>0, <1>1, <1>3, <1>4
<1>6. broken' \in [noticed : BOOLEAN, import : BOOLEAN] /\ broken'.noticed = (broken.noticed \/ Noticed(f))
  <2>1. Noticed(f) \in BOOLEAN /\ ImportDeath(f) \in BOOLEAN
    BY DEF Noticed, ImportDeath
  <2>. HIDE DEF Noticed, ImportDeath
  <2>. QED
    BY <1>3, <1>4, <2>1
<1>7. GradingTypeOK'
  BY <1>0, <1>2, <1>5, <1>6 DEF GradingInv, GradingTypeOK, gradeCase, SlotShape, Checks
<1>8. NothingAhead'
  BY <1>0, <1>1, <1>2, <1>5 DEF GradingInv, NothingAhead, Checks
<1>9. PlaceTells' /\ ScoreIsMeasured'
  BY <1>0 DEF GradingInv, PlaceTells, ScoreIsMeasured
<1>10. \A i \in 1..n : i \in Checks /\ Earned(i)' = Earned(i)
  <2>. SUFFICES ASSUME NEW i \in 1..n PROVE i \in Checks /\ Earned(i)' = Earned(i)
    OBVIOUS
  <2>1. i \in Checks /\ i # k
    BY <1>0, <1>1, ChecksAre DEF Checks
  <2>2. printed'[i] = printed[i] /\ opinions'[i] = opinions[i]
    BY <1>5, <2>1
  <2>. QED
    BY <2>1, <2>2 DEF Earned
<1>. QED
  <2>1. k = n + 1 /\ DOMAIN graded' = DOMAIN graded \cup {k}
    BY <1>0, <1>1, <1>2
  <2>. QED
    BY <1>1, <1>2, <1>5, <1>6, <1>7, <1>8, <1>9, <1>10, <2>1 DEF Added

LEMMA ShellStep ==
    ASSUME GradingInv, RunShellVerifier
    PROVE  GradingInv'
<1>. SUFFICES ASSUME NEW k, k = Len(graded) + 1 PROVE GradingInv'
  OBVIOUS
<1>1. PICK f \in Fates : graded' = Append(graded, RunVerifier(f)) /\ Remember(f)
  BY DEF RunShellVerifier
<1>. DEFINE v == RunVerifier(f)
            p == IF f.exit = "timeout" THEN NoScore ELSE f.score
<1>2. /\ grader = "shell" /\ gradePc = "verify" /\ Len(graded) < NChecks
      /\ UNCHANGED <<gradePc, gradeCase, judge, capped, mark, opinions>>
  BY DEF RunShellVerifier
<1>3. /\ v \in SlotShape /\ p \in HalfPoints \cup {NoScore}
      /\ v.ran => v.score = IF p = NoScore THEN 0 ELSE p
      /\ Noticed(f) => ~v.ran \/ v.signature
  BY <1>2, VerdictIs
<1>. HIDE DEF v
<1>4. /\ graded \in Seq(SlotShape) /\ Len(graded) \in Nat /\ k \in Checks /\ opinions[k] = NoScore
      /\ opinions \in [Checks -> HalfPoints \cup {NoScore}] /\ judge \in {"none", "up", "failed"}
      /\ DOMAIN graded = 1..Len(graded)
  BY <1>2, ChecksAre DEF GradingInv, GradingTypeOK, NothingAhead, SlotShape, Checks
<1>5. opinions' = [opinions EXCEPT ![k] = NoScore]
  BY <1>2, <1>4
<1>6. /\ GradingTypeOK' /\ NothingAhead' /\ PlaceTells' /\ ScoreIsMeasured'
      /\ DOMAIN graded' = DOMAIN graded \cup {k} /\ k \in Checks
      /\ \A i \in DOMAIN graded : i \in Checks /\ graded'[i] = graded[i] /\ Earned(i)' = Earned(i)
      /\ graded'[k] = v /\ opinions'[k] = NoScore
      /\ printed'[k] = p
      /\ (broken.noticed)' = (broken.noticed \/ Noticed(f))
  <2>1. graded' = Append(graded, v) /\ Remember(f)
    BY <1>1 DEF v
  <2>2. judge' \in {"none", "up", "failed"}
    BY <1>2, <1>4
  <2>3. UNCHANGED <<gradePc, gradeCase, capped, mark>>
    BY <1>2
  <2>4. v \in SlotShape /\ NoScore \in HalfPoints \cup {NoScore} /\ gradePc = "verify" /\ Len(graded) < NChecks
    BY <1>2, <1>3
  <2>. QED
    <3>1. Adds(k, f, v, NoScore)
      BY <2>1, <2>2, <2>3, <2>4, <1>5 DEF Adds
    <3>2. Added(k, f, v, NoScore)
      BY <2>4, <3>1, OneMoreVerdict
    <3>. QED
      BY <3>2 DEF Added
<1>7. v.ran => v.score = Earned(k)'
  <2>1. Earned(k)' = Least(IF p = NoScore THEN 0 ELSE p, 2)
    BY <1>6 DEF Earned
  <2>2. (IF p = NoScore THEN 0 ELSE p) \in HalfPoints
    BY <1>3 DEF HalfPoints
  <2>. HIDE DEF p
  <2>. QED
    BY <1>3, <2>1, <2>2 DEF Least, HalfPoints
<1>8. ShellVerdicts'
  <2>1. \A i \in DOMAIN graded' : graded'[i].ran => graded'[i].score = Earned(i)'
    BY <1>2, <1>6, <1>7 DEF GradingInv, ShellVerdicts
  <2>2. \A i \in Checks : opinions'[i] # NoScore <=> i <= capped'
    BY <1>2 DEF GradingInv, ShellVerdicts
  <2>3. (broken.noticed)' => \E i \in DOMAIN graded' : ~graded'[i].ran \/ graded'[i].signature
    <3>1. CASE broken.noticed
      BY <1>2, <1>6, <3>1 DEF GradingInv, ShellVerdicts
    <3>2. CASE Noticed(f)
      BY <1>3, <1>6, <3>2
    <3>. QED
      BY <1>6, <3>1, <3>2
  <2>. QED
    BY <1>2, <2>1, <2>2, <2>3 DEF ShellVerdicts, Checks
<1>9. RunnerVerdicts'
  BY <1>2 DEF RunnerVerdicts, gradeCase
<1>. QED
  BY <1>6, <1>8, <1>9 DEF GradingInv

LEMMA RunnerStep ==
    ASSUME GradingInv, RunCheckpoint
    PROVE  GradingInv'
<1>. SUFFICES ASSUME NEW k, k = Len(graded) + 1 PROVE GradingInv'
  OBVIOUS
<1>1. /\ grader = "runner" /\ gradePc = "verify" /\ Len(graded) < NChecks
      /\ UNCHANGED <<gradePc, gradeCase, capped, mark>>
  BY DEF RunCheckpoint
<1>2. /\ graded \in Seq(SlotShape) /\ Len(graded) \in Nat /\ k \in Checks /\ opinions[k] = NoScore
      /\ opinions \in [Checks -> HalfPoints \cup {NoScore}] /\ judge \in {"none", "up", "failed"}
      /\ DOMAIN graded = 1..Len(graded)
  BY <1>1, ChecksAre DEF GradingInv, GradingTypeOK, NothingAhead, SlotShape, Checks
<1>3. PICK f \in Fates :
        LET g == GuardCheckpointVerdict(f)
            i == Len(graded) + 1
            Unjudged == graded' = Append(graded, g) /\ UNCHANGED <<judge, opinions>>
            Outage == /\ graded' = Append(graded, [g EXCEPT !.score = 0, !.signature = TRUE])
                      /\ judge' = "failed" /\ UNCHANGED opinions
            Capped == \E j \in HalfPoints :
                      /\ graded' = Append(graded, [g EXCEPT !.score = Least(@, j)])
                      /\ opinions' = [opinions EXCEPT ![i] = j] /\ UNCHANGED judge
        IN  /\ Remember(f)
            /\ IF ~g.ran \/ artifact = "absent" \/ judge = "none" THEN Unjudged
               ELSE IF judge = "failed" THEN Outage
               ELSE Outage \/ Capped \/ (curated = "incomplete" /\ Unjudged)
  BY DEF RunCheckpoint
<1>. DEFINE g == GuardCheckpointVerdict(f)
            p == IF f.exit = "timeout" THEN NoScore ELSE f.score
            pv == IF p = NoScore THEN 0 ELSE p
<1>4. /\ g \in SlotShape /\ p \in HalfPoints \cup {NoScore} /\ pv \in HalfPoints
      /\ g.ran => g.score = pv
      /\ Noticed(f) => ~g.ran
  BY <1>1, VerdictIs
<1>. DEFINE Follows(v, j) ==
              /\ graded' = Append(graded, v) /\ opinions' = [opinions EXCEPT ![k] = j]
              /\ v.ran = g.ran /\ judge' \in {"none", "up", "failed"}
              /\ v.ran => v.score <= Least(pv, IF j = NoScore THEN 2 ELSE j)
              /\ (curated = "complete" /\ artifact # "absent" /\ judge' # "none") =>
                    (v.ran => j # NoScore \/ v.signature)
              /\ judge' # "none" => judge # "none"
<1>5. \E v \in SlotShape, j \in HalfPoints \cup {NoScore} : Follows(v, j)
  <2>. DEFINE o == [g EXCEPT !.score = 0, !.signature = TRUE]
  <2>. HIDE DEF g
  <2>0. opinions = [opinions EXCEPT ![k] = NoScore]
    BY <1>2
  <2>1. CASE graded' = Append(graded, g) /\ UNCHANGED <<judge, opinions>>
             /\ (~g.ran \/ artifact = "absent" \/ judge = "none" \/ curated = "incomplete")
    <3>1. g.ran => g.score <= Least(pv, 2)
      BY <1>4 DEF Least, HalfPoints
    <3>. HIDE DEF pv
    <3>. QED
      BY <1>2, <1>4, <2>0, <2>1, <3>1
  <2>2. CASE graded' = Append(graded, o) /\ judge' = "failed" /\ UNCHANGED opinions /\ judge # "none"
    <3>1. o \in SlotShape /\ o.ran = g.ran /\ o.score = 0 /\ o.signature = TRUE
      <4>1. PICK h : h = [g EXCEPT !.score = 0]
        OBVIOUS
      <4>2. h \in SlotShape /\ h.ran = g.ran /\ h.score = 0
        BY <1>4, <4>1 DEF SlotShape, HalfPoints
      <4>3. o = [h EXCEPT !.signature = TRUE]
        BY <1>4, <4>1
      <4>. HIDE DEF o
      <4>. QED
        BY <4>2, <4>3 DEF SlotShape
    <3>2. 0 <= Least(pv, 2)
      BY <1>4 DEF Least, HalfPoints
    <3>. HIDE DEF pv, o
    <3>. QED
      BY <1>2, <1>4, <2>0, <2>2, <3>1, <3>2
  <2>3. ASSUME NEW j \in HalfPoints, graded' = Append(graded, [g EXCEPT !.score = Least(@, j)]),
               opinions' = [opinions EXCEPT ![k] = j], UNCHANGED judge, g.ran, judge # "none"
        PROVE  \E v \in SlotShape, h \in HalfPoints \cup {NoScore} : Follows(v, h)
    <3>. DEFINE c == [g EXCEPT !.score = Least(@, j)]
    <3>1. Least(g.score, j) \in HalfPoints
      BY <1>4 DEF Least, HalfPoints, SlotShape
    <3>2. c \in SlotShape /\ c.ran = g.ran /\ c.score = Least(g.score, j)
      BY <1>4, <3>1 DEF SlotShape
    <3>3. j # NoScore
      BY GradingAssumption DEF HalfPoints
    <3>4. c.score <= Least(pv, j)
      BY <1>4, <2>3, <3>2 DEF Least, HalfPoints
    <3>5. graded' = Append(graded, c)
      BY <2>3
    <3>. HIDE DEF pv, c
    <3>. QED
      BY <1>2, <1>4, <2>3, <3>2, <3>3, <3>4, <3>5
  <2>. QED
    BY <1>3, <2>1, <2>2, <2>3 DEF g
<1>6. PICK v \in SlotShape, j \in HalfPoints \cup {NoScore} : Follows(v, j)
  BY <1>5
<1>7. /\ GradingTypeOK' /\ NothingAhead' /\ PlaceTells' /\ ScoreIsMeasured'
      /\ DOMAIN graded' = DOMAIN graded \cup {k} /\ k \in Checks
      /\ \A i \in DOMAIN graded :
            i \in Checks /\ graded'[i] = graded[i] /\ Earned(i)' = Earned(i) /\ opinions'[i] = opinions[i]
      /\ graded'[k] = v /\ opinions'[k] = j
      /\ printed'[k] = p
      /\ (broken.noticed)' = (broken.noticed \/ Noticed(f))
  <2>1. /\ graded' = Append(graded, v) /\ judge' \in {"none", "up", "failed"}
        /\ opinions' = [opinions EXCEPT ![k] = j]
    BY <1>6
  <2>2. Remember(f)
    BY <1>3
  <2>3. gradePc = "verify" /\ Len(graded) < NChecks /\ UNCHANGED <<gradePc, gradeCase, capped, mark>>
    BY <1>1
  <2>. HIDE DEF Follows
  <2>. QED
    <3>1. Adds(k, f, v, j)
      BY <2>1, <2>2, <2>3 DEF Adds
    <3>2. Added(k, f, v, j)
      BY <3>1, OneMoreVerdict
    <3>. QED
      BY <3>2 DEF Added
<1>8. v.ran => v.score <= Earned(k)'
  <2>1. Earned(k)' = Least(pv, IF j = NoScore THEN 2 ELSE j)
    BY <1>7 DEF Earned
  <2>. QED
    BY <1>6, <2>1
<1>9. RunnerVerdicts'
  <2>1. \A i \in DOMAIN graded' : graded'[i].ran => graded'[i].score <= Earned(i)'
    BY <1>1, <1>7, <1>8 DEF GradingInv, RunnerVerdicts
  <2>2. ASSUME curated' = "complete", artifact' # "absent", judge' # "none", NEW i \in DOMAIN graded', graded'[i].ran
        PROVE  opinions'[i] # NoScore \/ graded'[i].signature
    <3>1. curated = "complete" /\ artifact # "absent" /\ judge # "none"
      BY <1>1, <1>6, <2>2 DEF gradeCase
    <3>2. CASE i = k
      BY <1>6, <1>7, <2>2, <3>1, <3>2
    <3>3. CASE i \in DOMAIN graded
      BY <1>1, <1>7, <2>2, <3>1, <3>3 DEF GradingInv, RunnerVerdicts
    <3>. QED
      BY <1>7, <3>2, <3>3
  <2>3. (broken.noticed)' => \E i \in DOMAIN graded' : ~graded'[i].ran
    <3>1. CASE broken.noticed
      BY <1>1, <1>7, <3>1 DEF GradingInv, RunnerVerdicts
    <3>2. CASE Noticed(f)
      BY <1>4, <1>6, <1>7, <3>2
    <3>. QED
      BY <1>7, <3>1, <3>2
  <2>. QED
    BY <2>1, <2>2, <2>3 DEF RunnerVerdicts
<1>10. ShellVerdicts'
  BY <1>1 DEF ShellVerdicts, gradeCase
<1>. QED
  BY <1>7, <1>9, <1>10 DEF GradingInv

(* Totals are made of complete verdicts. *)
LEMMA RunnerTotalsStep ==
    ASSUME GradingInv, RunnerTotals
    PROVE  GradingInv'
<1>1. /\ grader = "runner" /\ gradePc = "verify" /\ Len(graded) = NChecks
      /\ gradePc' = "end" /\ UNCHANGED <<gradeCase, judge, capped, graded, gradeHistory>>
      /\ mark' \in IF \E i \in Checks : ~graded[i].ran THEN {NoScore}
                   ELSE {0, WeightedSum(LAMBDA i : graded[i].score)}
  BY DEF RunnerTotals
<1>. DEFINE W == WeightedSum(LAMBDA i : graded[i].score)
            E == WeightedSum(Earned)
<1>2. DOMAIN graded = Checks
  BY <1>1, ChecksAre DEF GradingInv, GradingTypeOK, Checks
<1>3. /\ W \in 0..2 * NChecks /\ 0 <= E
      /\ (\A i \in Checks : graded[i].score <= Earned(i)) => W <= E
  BY <1>1, MarkAgainstEarned DEF GradingInv
<1>4. (\A i \in Checks : graded[i].ran) => \A i \in Checks : graded[i].score <= Earned(i)
  BY <1>1, <1>2 DEF GradingInv, RunnerVerdicts
<1>5. E' = E
  BY <1>1 DEF WeightedSum, Earned, MapThenSumSet, MapThenFoldSet, gradeCase, gradeHistory, Checks
<1>. HIDE DEF W, E
<1>6. /\ mark' \in 0..2 * NChecks \cup {NoScore}
      /\ mark' # NoScore => (\A i \in Checks : graded[i].ran) /\ mark' <= E
  <2>1. CASE \E i \in Checks : ~graded[i].ran
    BY <1>1, <2>1
  <2>2. CASE \A i \in Checks : graded[i].ran
    <3>1. mark' \in {0, W}
      BY <1>1, <2>2 DEF W
    <3>2. 0 \in 0..2 * NChecks
      BY ChecksAre
    <3>. QED
      BY <1>3, <1>4, <2>2, <3>1, <3>2
  <2>. QED
    BY <2>1, <2>2
<1>7. GradingTypeOK'
  BY <1>1, <1>6 DEF GradingInv, GradingTypeOK, gradeCase, gradeHistory
<1>8. NothingAhead' /\ PlaceTells' /\ ShellVerdicts' /\ RunnerVerdicts'
  BY <1>1 DEF GradingInv, NothingAhead, PlaceTells, ShellVerdicts, RunnerVerdicts, gradeCase,
              gradeHistory, Earned
<1>9. ScoreIsMeasured'
  <2>1. SUFFICES ASSUME mark' # NoScore PROVE ScoreIsMeasured'
    BY DEF ScoreIsMeasured
  <2>2. \A i \in Checks : graded[i].ran
    BY <1>6, <2>1
  <2>3. ~broken.noticed
    BY <1>1, <1>2, <2>2 DEF GradingInv, RunnerVerdicts
  <2>4. (curated = "complete" /\ artifact # "absent" /\ judge # "none") =>
            \A i \in Checks : opinions[i] # NoScore \/ graded[i].signature
    BY <1>1, <1>2, <2>2 DEF GradingInv, RunnerVerdicts
  <2>5. mark' <= WeightedSum(Earned)'
    BY <1>5, <1>6, <2>1 DEF E
  <2>. QED
    BY <1>1, <2>3, <2>4, <2>5 DEF ScoreIsMeasured, gradeCase, gradeHistory
<1>. QED
  BY <1>7, <1>8, <1>9 DEF GradingInv

(* A mark of the shell's report is the sum of what was earned. *)
LEMMA ShellMark ==
    ASSUME GradingInv, grader = "shell", Len(graded) = NChecks, \A i \in Checks : graded[i].ran,
           UNCHANGED <<gradeCase, judge, capped, graded, gradeHistory>>,
           mark' \in {NoScore, WeightedSum(LAMBDA i : graded[i].score)},
           ~broken.noticed,
           curated # "absent" => \A i \in Checks : opinions[i] # NoScore
    PROVE  ScoreIsMeasured' /\ mark' \in 0..2 * NChecks \cup {NoScore}
<1>. DEFINE W == WeightedSum(LAMBDA i : graded[i].score)
            E == WeightedSum(Earned)
<1>1. DOMAIN graded = Checks
  BY ChecksAre DEF GradingInv, GradingTypeOK, Checks
<1>2. \A i \in Checks : graded[i].score = Earned(i)
  BY <1>1 DEF GradingInv, ShellVerdicts
<1>3. W \in 0..2 * NChecks /\ W = E
  BY <1>2, MarkAgainstEarned DEF GradingInv
<1>4. E' = E
  BY DEF WeightedSum, Earned, MapThenSumSet, MapThenFoldSet, gradeCase, gradeHistory, Checks
<1>5. mark' \in {NoScore, W}
  OBVIOUS
<1>. HIDE DEF W
<1>6. mark' # NoScore => mark' = WeightedSum(Earned)'
  BY <1>3, <1>4, <1>5
<1>7. ScoreIsMeasured'
  BY <1>6 DEF ScoreIsMeasured, gradeCase, gradeHistory
<1>. QED
  BY <1>3, <1>5, <1>7

LEMMA GuardStep ==
    ASSUME GradingInv, GuardVerifierOutput
    PROVE  GradingInv'
<1>. DEFINE trusted == \A i \in Checks : graded[i].ran /\ ~graded[i].signature
<1>1. /\ gradePc = "guard" /\ UNCHANGED <<gradeCase, judge, capped, graded, gradeHistory>>
      /\ gradePc' = IF trusted /\ curated # "absent" THEN "judge" ELSE "end"
      /\ mark' = IF trusted /\ curated = "absent"
                 THEN WeightedSum(LAMBDA i : graded[i].score) ELSE NoScore
  BY DEF GuardVerifierOutput
<1>2. grader = "shell" /\ Len(graded) = NChecks
  BY <1>1 DEF GradingInv, PlaceTells
<1>3. DOMAIN graded = Checks
  BY <1>2, ChecksAre DEF GradingInv, GradingTypeOK, Checks
<1>4. trusted => ~broken.noticed
  BY <1>1, <1>2, <1>3 DEF GradingInv, ShellVerdicts
<1>5. ScoreIsMeasured' /\ mark' \in 0..2 * NChecks \cup {NoScore}
  <2>1. CASE trusted /\ curated = "absent"
    BY <1>1, <1>2, <1>4, <2>1, ShellMark
  <2>2. CASE ~(trusted /\ curated = "absent")
    BY <1>1, <2>2 DEF ScoreIsMeasured
  <2>. QED
    BY <2>1, <2>2
<1>6. GradingTypeOK'
  BY <1>1, <1>5 DEF GradingInv, GradingTypeOK, gradeCase, gradeHistory
<1>7. NothingAhead' /\ RunnerVerdicts'
  BY <1>1 DEF GradingInv, NothingAhead, RunnerVerdicts, gradeCase, gradeHistory, Earned
<1>8. PlaceTells'
  BY <1>1, <1>2 DEF GradingInv, PlaceTells, gradeCase, gradeHistory
<1>9. ShellVerdicts'
  BY <1>1, <1>2, <1>3, <1>4 DEF GradingInv, ShellVerdicts, gradeCase, gradeHistory, Earned
<1>. QED
  BY <1>5, <1>6, <1>7, <1>8, <1>9 DEF GradingInv

LEMMA JudgeStep ==
    ASSUME GradingInv, ApplyLLMJudge
    PROVE  GradingInv'
<1>. DEFINE i == capped + 1
<1>1. PICK j \in HalfPoints :
         /\ graded' = [graded EXCEPT ![i].score = Least(@, j)]
         /\ opinions' = [opinions EXCEPT ![i] = j]
         /\ capped' = i
  BY DEF ApplyLLMJudge
<1>2. /\ gradePc = "judge" /\ capped < NChecks
      /\ UNCHANGED <<gradePc, gradeCase, judge, mark, printed, broken>>
  BY DEF ApplyLLMJudge
<1>. SUFFICES ASSUME NEW k, k = i PROVE GradingInv'
  OBVIOUS
<1>3. /\ grader = "shell" /\ Len(graded) = NChecks /\ graded \in Seq(SlotShape)
      /\ capped \in Nat /\ k \in Checks /\ DOMAIN graded = Checks /\ k = capped + 1
      /\ opinions \in [Checks -> HalfPoints \cup {NoScore}]
  BY <1>2, ChecksAre DEF GradingInv, GradingTypeOK, PlaceTells, SlotShape, Checks
<1>. HIDE DEF i
<1>4. graded[k] \in SlotShape /\ graded[k].ran /\ graded[k].score = Earned(k) /\ opinions[k] = NoScore
  BY <1>2, <1>3 DEF GradingInv, ShellVerdicts, Checks
<1>. DEFINE v == [graded[k] EXCEPT !.score = Least(@, j)]
<1>5. v \in SlotShape /\ v.ran /\ v.score = Least(Earned(k), j)
  <2>1. Least(graded[k].score, j) \in HalfPoints
    BY <1>4 DEF Least, HalfPoints, SlotShape
  <2>. QED
    BY <1>4, <2>1 DEF SlotShape
<1>6. graded' = [graded EXCEPT ![k] = v]
  BY <1>1, <1>3 DEF i
<1>7. opinions' = [opinions EXCEPT ![k] = j] /\ capped' = k
  BY <1>1 DEF i
<1>. HIDE DEF v
<1>8. /\ graded' \in Seq(SlotShape) /\ Len(graded') = NChecks /\ DOMAIN graded' = Checks
      /\ graded'[k] = v /\ \A c \in Checks : c # k => graded'[c] = graded[c]
  BY <1>3, <1>5, <1>6
<1>9. /\ opinions' \in [Checks -> HalfPoints \cup {NoScore}] /\ opinions'[k] = j /\ j # NoScore
      /\ \A c \in Checks : c # k => opinions'[c] = opinions[c]
  BY <1>3, <1>7, GradingAssumption DEF HalfPoints
<1>10. GradingTypeOK'
  BY <1>2, <1>3, <1>7, <1>8, <1>9 DEF GradingInv, GradingTypeOK, gradeCase, SlotShape, Checks
<1>11. Earned(k)' = Least(Earned(k), j)
  <2>1. Earned(k) = Least(IF printed[k] = NoScore THEN 0 ELSE printed[k], 2)
    BY <1>4 DEF Earned
  <2>2. Earned(k)' = Least(IF printed[k] = NoScore THEN 0 ELSE printed[k], j)
    BY <1>2, <1>9 DEF Earned
  <2>3. (IF printed[k] = NoScore THEN 0 ELSE printed[k]) \in HalfPoints
    BY <1>3 DEF GradingInv, GradingTypeOK, HalfPoints
  <2>. QED
    BY <2>1, <2>2, <2>3 DEF Least, HalfPoints
<1>12. \A c \in Checks : c # k => Earned(c)' = Earned(c)
  BY <1>2, <1>9 DEF Earned
<1>13. ShellVerdicts'
  <2>1. \A c \in Checks : graded'[c].ran => graded'[c].score = Earned(c)'
    BY <1>3, <1>5, <1>8, <1>11, <1>12 DEF GradingInv, ShellVerdicts
  <2>2. \A c \in Checks : opinions'[c] # NoScore <=> c <= capped'
    BY <1>3, <1>7, <1>9 DEF GradingInv, ShellVerdicts, Checks
  <2>3. ~broken.noticed /\ curated # "absent" /\ \A c \in Checks : graded'[c].ran
    BY <1>2, <1>3, <1>5, <1>8 DEF GradingInv, ShellVerdicts
  <2>. QED
    BY <1>2, <1>8, <2>1, <2>2, <2>3 DEF ShellVerdicts, gradeCase, Checks
<1>14. NothingAhead' /\ PlaceTells'
  BY <1>2, <1>3, <1>8 DEF GradingInv, NothingAhead, PlaceTells, gradeCase, Checks
<1>15. RunnerVerdicts' /\ ScoreIsMeasured'
  BY <1>2, <1>3 DEF GradingInv, PlaceTells, RunnerVerdicts, ScoreIsMeasured, gradeCase
<1>. QED
  BY <1>10, <1>13, <1>14, <1>15 DEF GradingInv

LEMMA JudgeTotalsStep ==
    ASSUME GradingInv, JudgeTotals
    PROVE  GradingInv'
<1>1. /\ gradePc = "judge" /\ capped = NChecks /\ gradePc' = "end"
      /\ UNCHANGED <<gradeCase, judge, capped, graded, gradeHistory>>
      /\ mark' = WeightedSum(LAMBDA i : graded[i].score)
  BY DEF JudgeTotals
<1>2. grader = "shell" /\ Len(graded) = NChecks /\ DOMAIN graded = Checks
  BY <1>1, ChecksAre DEF GradingInv, GradingTypeOK, PlaceTells, Checks
<1>3. /\ ~broken.noticed /\ \A i \in Checks : graded[i].ran
      /\ \A i \in Checks : opinions[i] # NoScore
  BY <1>1, <1>2 DEF GradingInv, ShellVerdicts, Checks
<1>4. ScoreIsMeasured' /\ mark' \in 0..2 * NChecks \cup {NoScore}
  BY <1>1, <1>2, <1>3, ShellMark
<1>5. GradingTypeOK'
  BY <1>1, <1>4 DEF GradingInv, GradingTypeOK, gradeCase, gradeHistory
<1>6. NothingAhead' /\ PlaceTells' /\ RunnerVerdicts' /\ ShellVerdicts'
  BY <1>1, <1>2 DEF GradingInv, NothingAhead, PlaceTells, RunnerVerdicts, ShellVerdicts,
                    gradeCase, gradeHistory, Earned
<1>. QED
  BY <1>4, <1>5, <1>6 DEF GradingInv

(* The steps that judge and report nothing. *)
LEMMA QuietGradingSteps ==
    ASSUME GradingInv, \/ StartGrading \/ ReportsError \/ ReportTotals \/ CannotJudge
                       \/ BuildJudge \/ JudgeRaises \/ UNCHANGED gradingVars
    PROVE  GradingInv'
<1>1. /\ UNCHANGED <<gradeCase, capped, graded, mark, gradeHistory>>
      /\ judge' \in {"none", "up", "failed"}
      /\ gradePc' \in {"start", "verify", "guard", "judge", "end"}
  BY DEF GradingInv, GradingTypeOK, StartGrading, ReportsError, ReportTotals, CannotJudge, BuildJudge,
         JudgeRaises, gradingVars
<1>2. GradingTypeOK'
  BY <1>1 DEF GradingInv, GradingTypeOK, gradeCase, gradeHistory
<1>3. NothingAhead'
  BY <1>1 DEF GradingInv, NothingAhead, gradeHistory
<1>4. PlaceTells'
  BY <1>1 DEF GradingInv, GradingTypeOK, PlaceTells, StartGrading, ReportsError, ReportTotals, CannotJudge,
         BuildJudge, JudgeRaises, gradingVars, gradeCase, gradeHistory
<1>5. ShellVerdicts'
  BY <1>1 DEF GradingInv, ShellVerdicts, Earned, StartGrading, ReportsError, ReportTotals, CannotJudge,
         BuildJudge, JudgeRaises, gradingVars, gradeCase, gradeHistory
<1>6. RunnerVerdicts'
  <2>1. CASE grader = "shell"
    BY <1>1, <2>1 DEF RunnerVerdicts, gradeCase
  <2>2. CASE StartGrading
    <3>1. graded = <<>> /\ ~broken.noticed
      BY <2>2 DEF StartGrading, GradingInv, PlaceTells
    <3>. QED
      BY <1>1, <3>1 DEF RunnerVerdicts, gradeCase, gradeHistory
  <2>3. CASE UNCHANGED gradingVars
    BY <2>3 DEF GradingInv, RunnerVerdicts, gradingVars, gradeCase, gradeHistory, Earned
  <2>. QED
    BY <2>1, <2>2, <2>3 DEF GradingInv, GradingTypeOK, PlaceTells, ReportsError, ReportTotals, CannotJudge,
       BuildJudge, JudgeRaises
<1>7. ScoreIsMeasured'
  <2>1. CASE UNCHANGED gradingVars
    <3>1. WeightedSum(Earned)' = WeightedSum(Earned)
      BY <1>1 DEF WeightedSum, Earned, MapThenSumSet, MapThenFoldSet, gradeCase, gradeHistory, Checks
    <3>. QED
      BY <2>1, <3>1 DEF GradingInv, ScoreIsMeasured, gradingVars, gradeCase, gradeHistory
  <2>2. CASE gradePc # "end"
    BY <1>1, <2>2 DEF GradingInv, PlaceTells, ScoreIsMeasured
  <2>. QED
    BY <2>1, <2>2 DEF StartGrading, ReportsError, ReportTotals, CannotJudge, BuildJudge, JudgeRaises
<1>. QED
  BY <1>2, <1>3, <1>4, <1>5, <1>6, <1>7 DEF GradingInv

LEMMA GradingSteps == GradingInv /\ [GradingNext]_gradingVars => GradingInv'
<1>. SUFFICES ASSUME GradingInv, [GradingNext]_gradingVars PROVE GradingInv'
  OBVIOUS
<1>. QED
  BY ShellStep, RunnerStep, RunnerTotalsStep, GuardStep, JudgeStep, JudgeTotalsStep, QuietGradingSteps
     DEF GradingNext

(* A reported number stands for all checkpoints and only for what was measured, for *)
(* any number of checkpoints and any weights.                                       *)
THEOREM NumbersAreMeasured == GradingSpec => []ScoreIsMeasured
<1>1. GradingInv => ScoreIsMeasured
  BY DEF GradingInv
<1>. QED
  BY <1>1, GradingStarts, GradingSteps, PTL DEF GradingSpec

-----------------------------------------------------------------------------
(* What an arm can prove of its calls                                      *)

\* Bags that TLC could hold, and how many members of a set are in one.
FiniteBag(b) == IsABag(b) /\ IsFiniteSet(DOMAIN b)
Count(b, P) == SumOf(b, DOMAIN b \cap P)

(* Counts are numbers, and no kind of member is more than the count. *)
LEMMA CountIsNat ==
    ASSUME NEW b, FiniteBag(b), NEW P
    PROVE  /\ Count(b, P) \in Nat
           /\ \A r \in DOMAIN b \cap P : b[r] \in Nat /\ 0 < b[r] /\ b[r] <= Count(b, P)
<1>1. \A r \in DOMAIN b : b[r] \in Nat /\ 0 < b[r]
  BY DEF FiniteBag, IsABag
<1>2. IsFiniteSet(DOMAIN b \cap P)
  BY FS_Intersection DEF FiniteBag
<1>3. \A r \in DOMAIN b \cap P : b[r] \in Nat
  BY <1>1
<1>4. SumOf(b, DOMAIN b \cap P) \in Nat
  BY <1>2, <1>3, SumIsNat
<1>5. \A r \in DOMAIN b \cap P : b[r] <= SumOf(b, DOMAIN b \cap P)
  BY <1>2, <1>3, MemberOfSum
<1>. QED
  BY <1>1, <1>4, <1>5 DEF Count

(* What is added to a bag is added to its counts. *)
LEMMA CountOfUnion ==
    ASSUME NEW a, FiniteBag(a), NEW b, FiniteBag(b), NEW P
    PROVE  FiniteBag(a (+) b) /\ Count(a (+) b, P) = Count(a, P) + Count(b, P)
<1>. DEFINE D == DOMAIN a \cup DOMAIN b
            Wide(c) == [x \in D |-> IF x \in DOMAIN c THEN c[x] ELSE 0]
<1>1. a (+) b = [x \in D |-> Wide(a)[x] + Wide(b)[x]] /\ DOMAIN (a (+) b) = D
  BY DEF (+)
<1>2. IsFiniteSet(D) /\ IsFiniteSet(D \cap P)
  <2>1. IsFiniteSet(D)
    BY FS_Union DEF FiniteBag
  <2>. QED
    BY <2>1, FS_Intersection
<1>3. ASSUME NEW c, FiniteBag(c), DOMAIN c \subseteq D
      PROVE  /\ \A x \in D : Wide(c)[x] \in Nat /\ (x \in DOMAIN c => Wide(c)[x] > 0)
             /\ SumOf(Wide(c), D \cap P) = Count(c, P)
  <2>1. \A x \in D : /\ x \in DOMAIN c => c[x] \in Nat /\ c[x] > 0
    BY <1>3 DEF FiniteBag, IsABag
  <2>2. \A x \in D : /\ x \in DOMAIN c => Wide(c)[x] = c[x]
                     /\ x \notin DOMAIN c => Wide(c)[x] = 0
    OBVIOUS
  <2>. DEFINE In == DOMAIN c \cap P
              Out == (D \ DOMAIN c) \cap P
  <2>3. IsFiniteSet(In) /\ IsFiniteSet(Out) /\ In \cap Out = {} /\ D \cap P = In \cup Out
    <3>1. In \in SUBSET (D \cap P) /\ Out \in SUBSET (D \cap P) /\ D \cap P = In \cup Out
      BY <1>3
    <3>. QED
      BY <1>2, <3>1, FS_Subset
  <2>4. \A x \in In \cup Out : Wide(c)[x] \in Nat
    BY <1>3, <2>1, <2>2
  <2>5. \A x \in In : Wide(c)[x] = c[x] /\ c[x] \in Nat
    BY <1>3, <2>1, <2>2
  <2>6. \A x \in Out : Wide(c)[x] = 0
    BY <2>2
  <2>. HIDE DEF In, Out, D, Wide
  <2>7. SumOf(Wide(c), In \cup Out) = SumOf(Wide(c), In) + SumOf(Wide(c), Out)
    BY <2>3, <2>4, SumSplit
  <2>8. SumOf(Wide(c), Out) = 0
    BY <2>3, <2>6, SumOfZeros
  <2>9. SumOf(c, In) = SumOf(Wide(c), In) /\ SumOf(c, In) \in Nat
    BY <2>3, <2>5, SameSum, SumIsNat
  <2>10. SumOf(Wide(c), D \cap P) = SumOf(c, In)
    BY <2>3, <2>7, <2>8, <2>9
  <2>11. \A x \in D : Wide(c)[x] \in Nat /\ (x \in DOMAIN c => Wide(c)[x] > 0)
    BY <2>1, <2>2
  <2>. QED
    BY <2>10, <2>11 DEF Count, In
<1>4. SumOf(Wide(a), D \cap P) = Count(a, P) /\ \A x \in D : Wide(a)[x] \in Nat
  BY <1>3
<1>5. SumOf(Wide(b), D \cap P) = Count(b, P) /\ \A x \in D : Wide(b)[x] \in Nat
  BY <1>3
<1>6. \A x \in D : Wide(a)[x] > 0 \/ Wide(b)[x] > 0
  BY <1>3
<1>. HIDE DEF Wide, D
<1>7. \A x \in D : (a (+) b)[x] = Wide(a)[x] + Wide(b)[x]
  BY <1>1
<1>8. FiniteBag(a (+) b)
  <2>1. \A x \in D : (a (+) b)[x] \in Nat /\ (a (+) b)[x] > 0
    BY <1>4, <1>5, <1>6, <1>7
  <2>2. a (+) b \in [D -> {n \in Nat : n > 0}]
    BY <1>1, <2>1
  <2>. QED
    BY <1>1, <1>2, <2>2 DEF FiniteBag, IsABag
<1>9. SumOf(a (+) b, D \cap P) = SumOf(Wide(a), D \cap P) + SumOf(Wide(b), D \cap P)
  <2>1. \A x \in D \cap P : /\ Wide(a)[x] \in Nat /\ Wide(b)[x] \in Nat
                            /\ (a (+) b)[x] = Wide(a)[x] + Wide(b)[x]
    BY <1>4, <1>5, <1>7
  <2>. QED
    BY <1>2, <2>1, SumTogether
<1>. QED
  BY <1>1, <1>4, <1>5, <1>8, <1>9 DEF Count

(* One record more counts where it belongs. *)
OneMore(b, r) == b (+) SetToBag({r})

LEMMA CountOfOneMore ==
    ASSUME NEW b, FiniteBag(b), NEW r, NEW P
    PROVE  /\ FiniteBag(OneMore(b, r)) /\ DOMAIN OneMore(b, r) = DOMAIN b \cup {r}
           /\ Count(OneMore(b, r), P) = Count(b, P) + (IF r \in P THEN 1 ELSE 0)
<1>. DEFINE one == SetToBag({r})
<1>1. one = [e \in {r} |-> 1]
  BY DEF SetToBag
<1>2. FiniteBag(one) /\ one[r] = 1 /\ DOMAIN one = {r}
  <2>1. one[r] = 1 /\ DOMAIN one = {r} /\ one \in [{r} -> {n \in Nat : n > 0}]
    BY <1>1
  <2>2. IsFiniteSet({r})
    BY FS_Singleton
  <2>. HIDE DEF one
  <2>. QED
    BY <2>1, <2>2 DEF FiniteBag, IsABag
<1>. HIDE DEF one
<1>3. Count(one, P) = IF r \in P THEN 1 ELSE 0
  <2>1. CASE r \in P
    <3>1. DOMAIN one \cap P = {r}
      BY <1>2, <2>1
    <3>. QED
      BY <1>2, <2>1, <3>1, SumOfOne DEF Count
  <2>2. CASE r \notin P
    <3>1. DOMAIN one \cap P = {}
      BY <1>2, <2>2
    <3>. QED
      BY <2>2, <3>1, SumOfNothing DEF Count
  <2>. QED
    BY <2>1, <2>2
<1>4. DOMAIN (b (+) one) = DOMAIN b \cup {r}
  BY <1>2 DEF (+)
<1>5. FiniteBag(b (+) one) /\ Count(b (+) one, P) = Count(b, P) + Count(one, P)
  BY <1>2, CountOfUnion
<1>. QED
  BY <1>3, <1>4, <1>5 DEF one, OneMore

(* Nothing is in an empty bag. *)
LEMMA CountOfNothing == FiniteBag(EmptyBag) /\ \A P : Count(EmptyBag, P) = 0
<1>1. DOMAIN EmptyBag = {} /\ IsABag(EmptyBag)
  BY DEF EmptyBag, SetToBag, IsABag
<1>2. \A P : DOMAIN EmptyBag \cap P = {}
  BY <1>1
<1>. QED
  BY <1>1, <1>2, FS_EmptySet, SumOfNothing DEF FiniteBag, Count

-----------------------------------------------------------------------------
Tools == {"code_finder", "search", "list"}
Named == FinderRepos \cup {Nothing}
Classes == Tools \X Named
TraceRecords == [dir : {"request", "response"}, tool : Tools, repo : Named,
                 answer : Answers \cup {Nothing}]
ServedCalls == [tool : Tools, repo : Named, answer : Answers \cup {Nothing}]
Verdicts == [valid : BOOLEAN, calls : Nat, inner : Nat]

\* Code Finder calls, those for one repository, and direct calls.
FinderKind == {"code_finder"} \X Named
KindFor(repo) == {<<"code_finder", repo>>}
DirectKind == {"search"} \X Named

\* Requests in the trace, and calls that were served, of some tools and repositories;
\* those with telemetry.
RequestsOf(K) == {r \in TraceRecords : r.dir = "request" /\ <<r.tool, r.repo>> \in K}
ServedOf(K) == {c \in ServedCalls : <<c.tool, c.repo>> \in K}
Told == {r \in TraceRecords : /\ r.dir = "response" /\ r.tool = "code_finder"
                              /\ r.answer = "telemetry"}
ServedTold == {c \in ServedCalls : c.tool = "code_finder" /\ c.answer = "telemetry"}

\* What one thread has recorded of a POST that is not forwarded, and has yet to record
\* of the replies.
CapturedOf(th, K) ==
    IF th.at = "request"
    THEN Cardinality({i \in DOMAIN th.post \ DOMAIN th.left :
                         <<th.post[i].tool, th.post[i].repo>> \in K})
    ELSE 0
PendingOf(th) ==
    IF th.at = "response" THEN Cardinality({i \in DOMAIN th.left : th.left[i] \in Told}) ELSE 0

Captured(K) == SumOf([t \in Threads |-> CapturedOf(threads[t], K)], Threads)
Pending == SumOf([t \in Threads |-> PendingOf(threads[t])], Threads)

\* What a thread holds: the records of its POST that are to be written.
ThreadHolds(th) ==
    /\ th.at \in {"idle", "request", "response"} /\ th.post \in Seq(Payload)
    /\ th = [at |-> th.at, post |-> th.post, left |-> th.left]
    /\ DOMAIN th.left \subseteq DOMAIN th.post
    /\ th.left \in [DOMAIN th.left -> TraceRecords]
    /\ th.at = "request" => \A i \in DOMAIN th.left : th.left[i] = Request(th.post[i])

\* Types.
EvidenceTypes ==
    /\ arm \in FinderArms \cup {Nothing} /\ header \in BOOLEAN
    /\ work \in {"prepare", "agent", "capture", "route", "infra", "counts", "invalid"}
    /\ threads = [t \in Threads |-> threads[t]] /\ \A t \in Threads : ThreadHolds(threads[t])
    /\ posted \in 0..MaxPosts /\ finderLog \in Nat
    /\ FiniteBag(trace) /\ DOMAIN trace \subseteq TraceRecords
    /\ FiniteBag(served) /\ DOMAIN served \subseteq ServedCalls
    /\ FiniteBag(reckoned) /\ DOMAIN reckoned \subseteq ServedCalls
    /\ retrieval \in Verdicts \cup {Nothing}

\* A payload that was served has its request in the trace, and telemetry in the trace
\* has been served, whatever the threads still hold.
EveryCallIsTraced ==
    \A K \in SUBSET Classes : Count(served, ServedOf(K)) + Captured(K) <= Count(trace, RequestsOf(K))
TelemetryIsServed == Count(trace, Told) + Pending <= Count(served, ServedTold)

\* While the run is prepared, nothing goes through the proxy; the MCP arms' token file is
\* removed by the step that stages it.
NothingYet ==
    work = "prepare" => served = EmptyBag /\ \A t \in Threads : threads[t].at = "idle"
NoTokenLeft ==
    /\ prep \in Seq({"endpoint", "proxy", "inventory", "client", "sgx", "isolation"})
    /\ arm = Nothing => prep = <<>> /\ work = "prepare" /\ ~header
    /\ arm # "cli_code_finder" =>
          /\ \A i \in DOMAIN prep : prep[i] # "inventory"
          /\ work # "infra" => ~header

\* What a valid verdict says of the calls that had been served.
VerdictTells ==
    /\ \A c \in Reckoned("code_finder") : c.answer = "telemetry"
    /\ Count(reckoned, ServedOf(FinderKind)) = retrieval.calls
    /\ retrieval.inner = retrieval.calls
    /\ arm \in ForcedArms =>
          /\ Reckoned("search") = {}
          /\ \A repo \in FinderRepos : Count(reckoned, ServedOf(KindFor(repo))) = 1

Judged ==
    /\ work \in {"route", "counts", "invalid"} =>
          retrieval \in Verdicts /\ (retrieval.valid => VerdictTells)
    /\ work = "counts" => retrieval.valid

EvidenceInv ==
    /\ EvidenceTypes /\ EveryCallIsTraced /\ TelemetryIsServed
    /\ NothingYet /\ NoTokenLeft /\ Judged

-----------------------------------------------------------------------------
(* A thread holds numbers of requests and of replies. *)
LEMMA ThreadCounts ==
    ASSUME NEW th, ThreadHolds(th)
    PROVE  PendingOf(th) \in Nat /\ \A K : CapturedOf(th, K) \in Nat
<1>1. IsFiniteSet(DOMAIN th.post)
  <2>1. Len(th.post) \in Nat /\ DOMAIN th.post = 1..Len(th.post)
    BY LenProperties DEF ThreadHolds
  <2>. QED
    BY <2>1, FS_Interval
<1>2. IsFiniteSet({i \in DOMAIN th.left : th.left[i] \in Told})
  <2>1. {i \in DOMAIN th.left : th.left[i] \in Told} \in SUBSET (DOMAIN th.post)
    BY DEF ThreadHolds
  <2>. QED
    BY <1>1, <2>1, FS_Subset
<1>3. ASSUME NEW K
      PROVE  IsFiniteSet({i \in DOMAIN th.post \ DOMAIN th.left :
                             <<th.post[i].tool, th.post[i].repo>> \in K})
  <2>1. {i \in DOMAIN th.post \ DOMAIN th.left : <<th.post[i].tool, th.post[i].repo>> \in K}
          \in SUBSET (DOMAIN th.post)
    OBVIOUS
  <2>. QED
    BY <1>1, <2>1, FS_Subset
<1>4. PendingOf(th) \in Nat
  BY <1>2, FS_CardinalityType DEF PendingOf
<1>5. \A K : CapturedOf(th, K) \in Nat
  BY <1>3, FS_CardinalityType DEF CapturedOf
<1>. QED
  BY <1>4, <1>5

(* What the threads hold changes by what one of them does. *)
LEMMA ThreadMoves ==
    ASSUME EvidenceTypes, NEW t \in Threads, NEW th, ThreadHolds(th),
           threads' = [threads EXCEPT ![t] = th]
    PROVE  /\ threads' = [u \in Threads |-> threads'[u]]
           /\ \A u \in Threads : ThreadHolds(threads'[u])
           /\ Pending \in Nat /\ Pending' \in Nat
           /\ Pending' + PendingOf(threads[t]) = Pending + PendingOf(th)
           /\ \A K : /\ Captured(K) \in Nat /\ Captured(K)' \in Nat
                     /\ Captured(K)' + CapturedOf(threads[t], K)
                          = Captured(K) + CapturedOf(th, K)
<1>1. /\ threads' = [u \in Threads |-> threads'[u]]
      /\ \A u \in Threads : threads'[u] = IF u = t THEN th ELSE threads[u]
      /\ \A u \in Threads : ThreadHolds(threads[u])
  BY DEF EvidenceTypes
<1>2. \A u \in Threads : ThreadHolds(threads'[u])
  BY <1>1
<1>3. IsFiniteSet(Threads)
  BY FinderAssumption
<1>4. ASSUME NEW f, NEW g, \A u \in Threads : f[u] \in Nat /\ g[u] \in Nat,
             \A u \in Threads \ {t} : g[u] = f[u]
      PROVE  SumOf(f, Threads) \in Nat /\ SumOf(g, Threads) \in Nat
             /\ SumOf(g, Threads) + f[t] = SumOf(f, Threads) + g[t]
  BY <1>3, <1>4, SumChanged, SumIsNat
<1>5. Pending \in Nat /\ Pending' \in Nat
      /\ Pending' + PendingOf(threads[t]) = Pending + PendingOf(th)
  <2>. DEFINE f == [u \in Threads |-> PendingOf(threads[u])]
              g == [u \in Threads |-> PendingOf(threads'[u])]
  <2>1. \A u \in Threads : f[u] \in Nat /\ g[u] \in Nat
    BY <1>1, <1>2, ThreadCounts
  <2>2. \A u \in Threads \ {t} : g[u] = f[u]
    BY <1>1
  <2>3. f[t] = PendingOf(threads[t]) /\ g[t] = PendingOf(th)
    BY <1>1
  <2>4. Pending = SumOf(f, Threads) /\ Pending' = SumOf(g, Threads)
    BY DEF Pending
  <2>. HIDE DEF f, g
  <2>. QED
    BY <1>4, <2>1, <2>2, <2>3, <2>4
<1>6. ASSUME NEW K
      PROVE  /\ Captured(K) \in Nat /\ Captured(K)' \in Nat
             /\ Captured(K)' + CapturedOf(threads[t], K) = Captured(K) + CapturedOf(th, K)
  <2>. DEFINE f == [u \in Threads |-> CapturedOf(threads[u], K)]
              g == [u \in Threads |-> CapturedOf(threads'[u], K)]
  <2>1. \A u \in Threads : f[u] \in Nat /\ g[u] \in Nat
    BY <1>1, <1>2, ThreadCounts
  <2>2. \A u \in Threads \ {t} : g[u] = f[u]
    BY <1>1
  <2>3. f[t] = CapturedOf(threads[t], K) /\ g[t] = CapturedOf(th, K)
    BY <1>1
  <2>4. Captured(K) = SumOf(f, Threads) /\ Captured(K)' = SumOf(g, Threads)
    BY DEF Captured
  <2>. HIDE DEF f, g
  <2>. QED
    BY <1>4, <2>1, <2>2, <2>3, <2>4
<1>. QED
  BY <1>1, <1>2, <1>5, <1>6

(* A thread that serves no more than it has recorded, and records no more replies than *)
(* it had, keeps the accounts.                                                         *)
LEMMA ThreadSteps ==
    ASSUME EvidenceInv, Working, NEW t \in Threads, NEW th, ThreadHolds(th),
           threads' = [threads EXCEPT ![t] = th], RunFrame,
           posted' \in 0..MaxPosts, finderLog' \in Nat,
           FiniteBag(trace'), DOMAIN trace' \subseteq TraceRecords,
           FiniteBag(served'), DOMAIN served' \subseteq ServedCalls,
           \A K \in SUBSET Classes :
              Count(served', ServedOf(K)) + CapturedOf(th, K) + Count(trace, RequestsOf(K))
                <= Count(served, ServedOf(K)) + CapturedOf(threads[t], K)
                     + Count(trace', RequestsOf(K)),
           Count(trace', Told) + PendingOf(th) + Count(served, ServedTold)
             <= Count(trace, Told) + PendingOf(threads[t]) + Count(served', ServedTold)
    PROVE  EvidenceInv'
<1>1. EvidenceTypes
  BY DEF EvidenceInv
<1>2. ThreadHolds(threads[t])
  BY <1>1 DEF EvidenceTypes
<1>3. FiniteBag(trace) /\ FiniteBag(served)
  BY <1>1 DEF EvidenceTypes
<1>4. EvidenceTypes'
  BY <1>1, ThreadMoves DEF EvidenceTypes, RunFrame
<1>5. EveryCallIsTraced'
  <2>1. SUFFICES ASSUME NEW K \in SUBSET Classes
                 PROVE  Count(served', ServedOf(K)) + Captured(K)' <= Count(trace', RequestsOf(K))
    BY DEF EveryCallIsTraced
  <2>2. Count(served, ServedOf(K)) + Captured(K) <= Count(trace, RequestsOf(K))
    BY DEF EvidenceInv, EveryCallIsTraced
  <2>3. /\ Captured(K) \in Nat /\ Captured(K)' \in Nat
        /\ Captured(K)' + CapturedOf(threads[t], K) = Captured(K) + CapturedOf(th, K)
    <3>1. \A L : /\ Captured(L) \in Nat /\ Captured(L)' \in Nat
                 /\ Captured(L)' + CapturedOf(threads[t], L) = Captured(L) + CapturedOf(th, L)
      BY <1>1, ThreadMoves
    <3>. QED
      BY <3>1
  <2>4. CapturedOf(th, K) \in Nat /\ CapturedOf(threads[t], K) \in Nat
    BY <1>2, ThreadCounts
  <2>5. /\ Count(served', ServedOf(K)) \in Nat /\ Count(served, ServedOf(K)) \in Nat
        /\ Count(trace', RequestsOf(K)) \in Nat /\ Count(trace, RequestsOf(K)) \in Nat
    BY <1>3, CountIsNat
  <2>6. Count(served', ServedOf(K)) + CapturedOf(th, K) + Count(trace, RequestsOf(K))
          <= Count(served, ServedOf(K)) + CapturedOf(threads[t], K) + Count(trace', RequestsOf(K))
    OBVIOUS
  <2>. QED
    BY <2>2, <2>3, <2>4, <2>5, <2>6
<1>6. TelemetryIsServed'
  <2>2. Count(trace, Told) + Pending <= Count(served, ServedTold)
    BY DEF EvidenceInv, TelemetryIsServed
  <2>3. /\ Pending \in Nat /\ Pending' \in Nat
        /\ Pending' + PendingOf(threads[t]) = Pending + PendingOf(th)
    BY <1>1, ThreadMoves
  <2>4. PendingOf(th) \in Nat /\ PendingOf(threads[t]) \in Nat
    BY <1>2, ThreadCounts
  <2>5. /\ Count(served', ServedTold) \in Nat /\ Count(served, ServedTold) \in Nat
        /\ Count(trace', Told) \in Nat /\ Count(trace, Told) \in Nat
    BY <1>3, CountIsNat
  <2>6. Count(trace', Told) + Pending' <= Count(served', ServedTold)
    BY <2>2, <2>3, <2>4, <2>5
  <2>. QED
    BY <2>6 DEF TelemetryIsServed, Told, ServedTold, TraceRecords, ServedCalls
<1>7. NothingYet' /\ NoTokenLeft' /\ Judged'
  BY DEF EvidenceInv, Working, RunFrame, NothingYet, NoTokenLeft, Judged
<1>. QED
  BY <1>4, <1>5, <1>6, <1>7 DEF EvidenceInv

(* A request, as it is recorded, is of the kind that its payload is of. *)
LEMMA RequestsRecorded ==
    ASSUME NEW p \in Payload
    PROVE  /\ Request(p) \in TraceRecords /\ Request(p) \notin Told
           /\ \A K : Request(p) \in RequestsOf(K) <=> <<p.tool, p.repo>> \in K
<1>1. p.tool \in Tools /\ p.repo \in Named
  BY DEF Payload, Tools, Named
<1>. QED
  BY <1>1 DEF Request, TraceRecords, Told, RequestsOf

(* Where there is something left to record, there is a next record. *)
LEMMA NextIsLeft ==
    ASSUME NEW t, ThreadHolds(threads[t]), threads[t].left # <<>>
    PROVE  NextLeft(t) \in DOMAIN threads[t].left
<1>. DEFINE D == DOMAIN threads[t].left
<1>1. threads[t].left = [i \in D |-> threads[t].left[i]]
  BY DEF ThreadHolds
<1>2. <<>> = [i \in {} |-> threads[t].left[i]]
  OBVIOUS
<1>3. D # {}
  BY <1>1, <1>2
<1>4. D \in SUBSET Nat
  <2>1. DOMAIN threads[t].post = 1..Len(threads[t].post) /\ Len(threads[t].post) \in Nat
    BY LenProperties DEF ThreadHolds
  <2>. QED
    BY <2>1 DEF ThreadHolds
<1>5. \E k \in D : \A j \in D : k <= j
  BY <1>3, <1>4, LeastOf
<1>. QED
  BY <1>5 DEF NextLeft, Min

\* A thread, one record further.
OneFurther(th, k) == [at |-> th.at, post |-> th.post, left |-> Restrict(th.left, DOMAIN th.left \ {k})]

LEMMA GoesFurther ==
    ASSUME NEW th, ThreadHolds(th), NEW k \in DOMAIN th.left
    PROVE  /\ ThreadHolds(OneFurther(th, k)) /\ th.left[k] \in TraceRecords
           /\ PendingOf(OneFurther(th, k)) + (IF th.at = "response" /\ th.left[k] \in Told THEN 1 ELSE 0)
                = PendingOf(th)
           /\ th.at = "request" =>
                \A K : CapturedOf(OneFurther(th, k), K)
                         = CapturedOf(th, K) + (IF <<th.post[k].tool, th.post[k].repo>> \in K
                                                THEN 1 ELSE 0)
<1>. DEFINE fu == OneFurther(th, k)
            D == DOMAIN th.left
            Waits(d) == {i \in d : th.left[i] \in Told}
            Done(d, K) == {i \in DOMAIN th.post \ d : <<th.post[i].tool, th.post[i].repo>> \in K}
<1>1. /\ fu.at = th.at /\ fu.post = th.post /\ DOMAIN fu.left = D \ {k}
      /\ \A i \in D \ {k} : fu.left[i] = th.left[i]
      /\ fu = [at |-> fu.at, post |-> fu.post, left |-> fu.left]
      /\ fu.left = [i \in D \ {k} |-> th.left[i]]
  BY DEF OneFurther, Restrict
<1>2. \A i \in D : th.left[i] \in TraceRecords
  BY DEF ThreadHolds
<1>3. IsFiniteSet(DOMAIN th.post) /\ D \subseteq DOMAIN th.post
  <2>1. Len(th.post) \in Nat /\ DOMAIN th.post = 1..Len(th.post)
    BY LenProperties DEF ThreadHolds
  <2>. QED
    BY <2>1, FS_Interval DEF ThreadHolds
<1>. HIDE DEF fu
<1>4. ThreadHolds(fu)
  <2>1. fu.left \in [D \ {k} -> TraceRecords]
    BY <1>1, <1>2
  <2>. QED
    BY <1>1, <2>1 DEF ThreadHolds
<1>5. PendingOf(fu) + (IF th.at = "response" /\ th.left[k] \in Told THEN 1 ELSE 0) = PendingOf(th)
  <2>1. {i \in DOMAIN fu.left : fu.left[i] \in Told} = Waits(D) \ {k}
    BY <1>1
  <2>2. IsFiniteSet(Waits(D))
    BY <1>3, FS_Subset
  <2>3. k \in Waits(D) <=> th.left[k] \in Told
    OBVIOUS
  <2>4. PendingOf(th) = IF th.at = "response" THEN Cardinality(Waits(D)) ELSE 0
    BY DEF PendingOf
  <2>5. PendingOf(fu) = IF th.at = "response" THEN Cardinality(Waits(D) \ {k}) ELSE 0
    BY <1>1, <2>1 DEF PendingOf
  <2>. HIDE DEF Waits, D
  <2>6. /\ Cardinality(Waits(D)) \in Nat
        /\ Cardinality(Waits(D) \ {k})
             = IF k \in Waits(D) THEN Cardinality(Waits(D)) - 1 ELSE Cardinality(Waits(D))
    BY <2>2, FS_CardinalityType, FS_RemoveElement
  <2>. QED
    BY <2>3, <2>4, <2>5, <2>6
<1>6. ASSUME th.at = "request", NEW K
      PROVE  CapturedOf(fu, K) = CapturedOf(th, K)
               + (IF <<th.post[k].tool, th.post[k].repo>> \in K THEN 1 ELSE 0)
  <2>1. k \in DOMAIN th.post /\ k \in D
    BY <1>3
  <2>2. Done(D \ {k}, K) = IF <<th.post[k].tool, th.post[k].repo>> \in K
                           THEN Done(D, K) \cup {k} ELSE Done(D, K)
    BY <2>1
  <2>3. IsFiniteSet(Done(D, K)) /\ k \notin Done(D, K)
    BY <1>3, FS_Subset
  <2>4. CapturedOf(th, K) = Cardinality(Done(D, K))
    BY <1>6 DEF CapturedOf
  <2>5. CapturedOf(fu, K) = Cardinality(Done(D \ {k}, K))
    BY <1>1, <1>6 DEF CapturedOf
  <2>. HIDE DEF Done, D
  <2>6. Cardinality(Done(D, K)) \in Nat
        /\ Cardinality(Done(D, K) \cup {k}) = Cardinality(Done(D, K)) + 1
    BY <2>3, FS_CardinalityType, FS_AddElement
  <2>. QED
    BY <2>2, <2>4, <2>5, <2>6
<1>. QED
  BY <1>2, <1>4, <1>5, <1>6 DEF fu

(* A POST that is made is wholly left to be recorded. *)
LEMMA PostKeeps == ASSUME EvidenceInv, NEW t \in Threads, Post(t) PROVE EvidenceInv'
<1>1. PICK post \in Posts :
         /\ threads' = [threads EXCEPT ![t] = [at |-> "request", post |-> post,
                                               left |-> [i \in DOMAIN post |-> Request(post[i])]]]
         /\ finderLog' \in {finderLog, finderLog + Finders(post)}
  BY DEF Post
<1>. DEFINE th == [at |-> "request", post |-> post, left |-> [i \in DOMAIN post |-> Request(post[i])]]
<1>2. post \in Seq(Payload)
  BY FinderAssumption
<1>3. \A i \in DOMAIN post : post[i] \in Payload
  BY <1>2, ElementOfSeq, LenProperties
<1>4. ThreadHolds(th)
  <2>1. th.left \in [DOMAIN post -> TraceRecords]
    BY <1>3, RequestsRecorded
  <2>. QED
    BY <1>2, <2>1 DEF ThreadHolds
<1>5. PendingOf(th) = 0 /\ \A K : CapturedOf(th, K) = 0
  <2>1. DOMAIN post \ DOMAIN th.left = {}
    OBVIOUS
  <2>. QED
    BY <2>1, FS_EmptySet DEF PendingOf, CapturedOf
<1>6. PendingOf(threads[t]) = 0 /\ \A K : CapturedOf(threads[t], K) = 0
  BY DEF Post, Idle, PendingOf, CapturedOf
<1>7. finderLog' \in Nat /\ posted' \in 0..MaxPosts
  <2>1. finderLog \in Nat /\ posted \in 0..MaxPosts
    BY DEF EvidenceInv, EvidenceTypes
  <2>2. Finders(post) \in Nat
    <3>1. Len(post) \in Nat /\ DOMAIN post = 1..Len(post)
      BY <1>2, LenProperties
    <3>2. IsFiniteSet(DOMAIN post)
      BY <3>1, FS_Interval
    <3>3. {i \in DOMAIN post : post[i].tool = "code_finder"} \in SUBSET (DOMAIN post)
      OBVIOUS
    <3>4. IsFiniteSet({i \in DOMAIN post : post[i].tool = "code_finder"})
      BY <3>2, <3>3, FS_Subset
    <3>. QED
      BY <3>4, FS_CardinalityType DEF Finders
  <2>. QED
    BY <1>1, <2>1, <2>2, FinderAssumption DEF Post
<1>8. threads' = [threads EXCEPT ![t] = th] /\ Working /\ RunFrame /\ trace' = trace /\ served' = served
  BY <1>1 DEF Post
<1>9. /\ FiniteBag(trace) /\ DOMAIN trace \subseteq TraceRecords
      /\ FiniteBag(served) /\ DOMAIN served \subseteq ServedCalls
  BY DEF EvidenceInv, EvidenceTypes
<1>. HIDE DEF th
<1>10. \A K : Count(served, ServedOf(K)) \in Nat /\ Count(trace, RequestsOf(K)) \in Nat
       /\ Count(trace, Told) \in Nat /\ Count(served, ServedTold) \in Nat
  BY <1>9, CountIsNat
<1>11. \A K \in SUBSET Classes :
          Count(served', ServedOf(K)) + CapturedOf(th, K) + Count(trace, RequestsOf(K))
            <= Count(served, ServedOf(K)) + CapturedOf(threads[t], K) + Count(trace', RequestsOf(K))
  BY <1>5, <1>6, <1>8, <1>10
<1>12. Count(trace', Told) + PendingOf(th) + Count(served, ServedTold)
         <= Count(trace, Told) + PendingOf(threads[t]) + Count(served', ServedTold)
  BY <1>5, <1>6, <1>8, <1>10
<1>. QED
  BY <1>4, <1>7, <1>8, <1>9, <1>11, <1>12, ThreadSteps

(* A thread that fails, or has answered, holds nothing any more. *)
LEMMA IdleKeeps ==
    ASSUME EvidenceInv, NEW t \in Threads, ProxyFails(t) \/ SendReply(t) PROVE EvidenceInv'
<1>1. /\ threads' = [threads EXCEPT ![t] = Idle] /\ Working /\ RunFrame
      /\ trace' = trace /\ served' = served /\ posted' = posted /\ finderLog' = finderLog
  BY DEF ProxyFails, SendReply
<1>2. ThreadHolds(Idle) /\ PendingOf(Idle) = 0 /\ \A K : CapturedOf(Idle, K) = 0
  <2>1. Idle.left \in [DOMAIN Idle.left -> TraceRecords] /\ DOMAIN Idle.left \subseteq DOMAIN Idle.post
    BY DEF Idle
  <2>2. Idle.post \in Seq(Payload)
    BY EmptySeq DEF Idle
  <2>. QED
    BY <2>1, <2>2 DEF ThreadHolds, Idle, PendingOf, CapturedOf
<1>3. /\ FiniteBag(trace) /\ DOMAIN trace \subseteq TraceRecords
      /\ FiniteBag(served) /\ DOMAIN served \subseteq ServedCalls
      /\ finderLog \in Nat /\ posted \in 0..MaxPosts /\ ThreadHolds(threads[t])
  BY DEF EvidenceInv, EvidenceTypes
<1>4. PendingOf(threads[t]) \in Nat /\ \A K : CapturedOf(threads[t], K) \in Nat
  BY <1>3, ThreadCounts
<1>5. \A K : Count(served, ServedOf(K)) \in Nat /\ Count(trace, RequestsOf(K)) \in Nat
      /\ Count(trace, Told) \in Nat /\ Count(served, ServedTold) \in Nat
  BY <1>3, CountIsNat
<1>6. \A K \in SUBSET Classes :
          Count(served', ServedOf(K)) + CapturedOf(Idle, K) + Count(trace, RequestsOf(K))
            <= Count(served, ServedOf(K)) + CapturedOf(threads[t], K) + Count(trace', RequestsOf(K))
  BY <1>1, <1>2, <1>4, <1>5
<1>7. Count(trace', Told) + PendingOf(Idle) + Count(served, ServedTold)
         <= Count(trace, Told) + PendingOf(threads[t]) + Count(served', ServedTold)
  BY <1>1, <1>2, <1>4, <1>5
<1>. QED
  BY <1>1, <1>2, <1>3, <1>6, <1>7, ThreadSteps

(* A record that is written moves from the thread to the trace. *)
LEMMA CaptureKeeps ==
    ASSUME EvidenceInv, NEW t \in Threads, CaptureRequest(t) \/ CaptureResponse(t)
    PROVE  EvidenceInv'
<1>1. PICK old, k, r, th :
         /\ old = threads[t] /\ k = NextLeft(t) /\ r = old.left[k] /\ th = OneFurther(old, k)
  OBVIOUS
<1>2. /\ FiniteBag(trace) /\ DOMAIN trace \subseteq TraceRecords
      /\ FiniteBag(served) /\ DOMAIN served \subseteq ServedCalls
      /\ finderLog \in Nat /\ posted \in 0..MaxPosts /\ ThreadHolds(old)
      /\ threads = [u \in Threads |-> threads[u]]
  BY <1>1 DEF EvidenceInv, EvidenceTypes
<1>3. /\ old.at \in {"request", "response"} /\ k \in DOMAIN old.left
      /\ old = [at |-> old.at, post |-> old.post, left |-> old.left]
  BY <1>1, <1>2, NextIsLeft DEF CaptureRequest, CaptureResponse, ThreadHolds
<1>4. /\ trace' = trace (+) SetToBag({r}) /\ served' = served /\ Working /\ RunFrame
      /\ finderLog' = finderLog /\ posted' = posted
  BY <1>1 DEF CaptureRequest, CaptureResponse, AppendTrace
<1>5. threads' = [threads EXCEPT ![t] = th]
  <2>1. threads' = [threads EXCEPT ![t].left = Restrict(old.left, DOMAIN old.left \ {k})]
    BY <1>1, <1>2 DEF CaptureRequest, CaptureResponse, RecordWritten
  <2>2. [old EXCEPT !.left = Restrict(old.left, DOMAIN old.left \ {k})] = th
    BY <1>1, <1>3 DEF OneFurther
  <2>. QED
    BY <1>1, <1>2, <2>1, <2>2
<1>6. /\ ThreadHolds(th) /\ r \in TraceRecords
      /\ PendingOf(th) + (IF old.at = "response" /\ r \in Told THEN 1 ELSE 0) = PendingOf(old)
      /\ old.at = "request" =>
           \A K : CapturedOf(th, K)
                    = CapturedOf(old, K) + (IF <<old.post[k].tool, old.post[k].repo>> \in K
                                            THEN 1 ELSE 0)
  BY <1>1, <1>2, <1>3, GoesFurther
<1>7. old.at = "response" => \A K : CapturedOf(old, K) = 0 /\ CapturedOf(th, K) = 0
  BY <1>1 DEF CapturedOf, OneFurther
<1>8. old.at = "request" =>
        r \notin Told /\ \A K : r \in RequestsOf(K) <=> <<old.post[k].tool, old.post[k].repo>> \in K
  <2>1. k \in DOMAIN old.post /\ (old.at = "request" => r = Request(old.post[k]))
    BY <1>1, <1>2, <1>3 DEF ThreadHolds
  <2>2. old.post[k] \in Payload
    BY <1>2, <2>1, ElementOfSeq, LenProperties DEF ThreadHolds
  <2>. QED
    BY <2>1, <2>2, RequestsRecorded
<1>9. PendingOf(th) \in Nat /\ PendingOf(old) \in Nat
      /\ \A K : CapturedOf(old, K) \in Nat /\ CapturedOf(th, K) \in Nat
  BY <1>2, <1>6, ThreadCounts
<1>10. \A K : Count(served, ServedOf(K)) \in Nat /\ Count(trace, RequestsOf(K)) \in Nat
       /\ Count(trace, Told) \in Nat /\ Count(served, ServedTold) \in Nat
  BY <1>2, CountIsNat
<1>11. FiniteBag(trace') /\ DOMAIN trace' \subseteq TraceRecords
       /\ \A P : Count(trace', P) = Count(trace, P) + (IF r \in P THEN 1 ELSE 0)
  <2>1. trace' = OneMore(trace, r)
    BY <1>4 DEF OneMore
  <2>2. /\ FiniteBag(OneMore(trace, r)) /\ DOMAIN OneMore(trace, r) = DOMAIN trace \cup {r}
        /\ \A P : Count(OneMore(trace, r), P) = Count(trace, P) + (IF r \in P THEN 1 ELSE 0)
    <3>1. FiniteBag(trace)
      BY <1>2
    <3>2. ASSUME NEW P
          PROVE  Count(OneMore(trace, r), P) = Count(trace, P) + (IF r \in P THEN 1 ELSE 0)
      BY <3>1, CountOfOneMore
    <3>3. FiniteBag(OneMore(trace, r)) /\ DOMAIN OneMore(trace, r) = DOMAIN trace \cup {r}
      BY <3>1, CountOfOneMore
    <3>. QED
      BY <3>2, <3>3
  <2>. QED
    BY <1>2, <1>6, <2>1, <2>2
<1>12. \A K \in SUBSET Classes :
          Count(served', ServedOf(K)) + CapturedOf(th, K) + Count(trace, RequestsOf(K))
            <= Count(served, ServedOf(K)) + CapturedOf(old, K) + Count(trace', RequestsOf(K))
  <2>1. SUFFICES ASSUME NEW K \in SUBSET Classes
                 PROVE  CapturedOf(th, K) <= CapturedOf(old, K)
                          + (IF r \in RequestsOf(K) THEN 1 ELSE 0)
    <3>1. ASSUME NEW K \in SUBSET Classes,
                 CapturedOf(th, K) <= CapturedOf(old, K) + (IF r \in RequestsOf(K) THEN 1 ELSE 0)
          PROVE  Count(served', ServedOf(K)) + CapturedOf(th, K) + Count(trace, RequestsOf(K))
                   <= Count(served, ServedOf(K)) + CapturedOf(old, K) + Count(trace', RequestsOf(K))
      <4>1. Count(trace', RequestsOf(K))
              = Count(trace, RequestsOf(K)) + (IF r \in RequestsOf(K) THEN 1 ELSE 0)
        BY <1>11
      <4>2. Count(served, ServedOf(K)) \in Nat /\ Count(trace, RequestsOf(K)) \in Nat
        BY <1>10
      <4>3. CapturedOf(old, K) \in Nat /\ CapturedOf(th, K) \in Nat
        BY <1>9
      <4>. QED
        BY <1>4, <3>1, <4>1, <4>2, <4>3
    <3>. QED
      BY <3>1
  <2>2. CASE old.at = "request"
    BY <1>6, <1>8, <1>9, <2>2
  <2>3. CASE old.at = "response"
    BY <1>7, <2>3
  <2>. QED
    BY <1>3, <2>2, <2>3
<1>13. Count(trace', Told) + PendingOf(th) + Count(served, ServedTold)
         <= Count(trace, Told) + PendingOf(old) + Count(served', ServedTold)
  <2>1. Count(trace', Told) = Count(trace, Told) + (IF r \in Told THEN 1 ELSE 0)
    BY <1>11
  <2>2. r \in Told => old.at = "response"
    BY <1>3, <1>8
  <2>. QED
    BY <1>4, <1>6, <1>9, <1>10, <2>1, <2>2
<1>. QED
  BY <1>1, <1>2, <1>4, <1>5, <1>6, <1>11, <1>12, <1>13, ThreadSteps

(* What a POST asks of each kind is in the bag of what was asked. *)
LEMMA AskedCounts ==
    ASSUME NEW post \in Seq(Payload), NEW answers \in [DOMAIN post -> Answers \cup {Nothing}]
    PROVE  /\ FiniteBag(Asked(post, answers)) /\ DOMAIN Asked(post, answers) \subseteq ServedCalls
           /\ \A P : Count(Asked(post, answers), P)
                       = Cardinality({i \in DOMAIN post :
                             [tool |-> post[i].tool, repo |-> post[i].repo,
                              answer |-> answers[i]] \in P})
<1>. DEFINE D == DOMAIN post
            h == [i \in D |-> [tool |-> post[i].tool, repo |-> post[i].repo, answer |-> answers[i]]]
            c == Asked(post, answers)
<1>1. IsFiniteSet(D)
  <2>1. Len(post) \in Nat /\ D = 1..Len(post)
    BY LenProperties
  <2>. QED
    BY <2>1, FS_Interval
<1>2. DOMAIN c = {h[i] : i \in D} /\ \A y \in DOMAIN c : c[y] = Cardinality({i \in D : h[i] = y})
  BY DEF Asked
<1>3. \A i \in D : h[i] \in ServedCalls
  <2>1. \A i \in D : post[i] \in Payload /\ answers[i] \in Answers \cup {Nothing}
    BY ElementOfSeq, LenProperties
  <2>. QED
    BY <2>1 DEF Payload, ServedCalls, Tools, Named
<1>4. \A i \in D : h[i] = [tool |-> post[i].tool, repo |-> post[i].repo, answer |-> answers[i]]
  OBVIOUS
<1>. HIDE DEF h, c
<1>5. FiniteBag(c) /\ DOMAIN c \subseteq ServedCalls
  <2>1. IsFiniteSet(DOMAIN c)
    BY <1>1, <1>2, FiniteImage
  <2>2. ASSUME NEW y \in DOMAIN c PROVE c[y] \in Nat /\ c[y] > 0
    <3>. DEFINE S == {i \in D : h[i] = y}
    <3>1. IsFiniteSet(S) /\ S # {}
      BY <1>1, <1>2, FS_Subset
    <3>2. c[y] = Cardinality(S)
      BY <1>2
    <3>. HIDE DEF S
    <3>3. Cardinality(S) \in Nat /\ Cardinality(S) # 0
      BY <3>1, FS_CardinalityType, FS_EmptySet
    <3>. QED
      BY <3>2, <3>3
  <2>3. c = [y \in DOMAIN c |-> c[y]]
    BY DEF c, Asked
  <2>. QED
    BY <1>2, <1>3, <2>1, <2>2, <2>3 DEF FiniteBag, IsABag
<1>6. ASSUME NEW P PROVE Count(c, P) = Cardinality({i \in D : h[i] \in P})
  <2>. DEFINE T == DOMAIN c \cap P
  <2>1. T \in SUBSET {h[i] : i \in D} /\ \A y \in T : c[y] = Cardinality({i \in D : h[i] = y})
    BY <1>2
  <2>2. SumOf(c, T) = Cardinality({i \in D : h[i] \in T})
    <3>. HIDE DEF T, D
    <3>1. IsFiniteSet(T) /\ \A y \in T : c[y] = Cardinality(Over(h, D, {y}))
      <4>1. IsFiniteSet(T)
        BY <1>5, FS_Intersection DEF FiniteBag, T
      <4>2. \A y : Over(h, D, {y}) = {i \in D : h[i] = y}
        BY DEF Over
      <4>. QED
        BY <2>1, <4>1, <4>2
    <3>2. SumOf(c, T) = Cardinality(Over(h, D, T))
      BY <1>1, <3>1, SumOfFibres
    <3>. QED
      BY <3>2 DEF Over
  <2>3. {i \in D : h[i] \in T} = {i \in D : h[i] \in P}
    BY <1>2
  <2>. QED
    BY <2>2, <2>3 DEF Count
<1>7. \A P : {i \in D : h[i] \in P} = {i \in DOMAIN post :
         [tool |-> post[i].tool, repo |-> post[i].repo, answer |-> answers[i]] \in P}
  BY <1>4
<1>. QED
  BY <1>5, <1>6, <1>7 DEF c

(* The tool a reply is filed under is that of a payload of its POST. *)
LEMMA ContextIsATool ==
    ASSUME NEW post \in Seq(Payload), NEW i \in DOMAIN post
    PROVE  ContextOf(post, i) \in Tools
<1>. DEFINE S == {j \in DOMAIN post : post[j].id = post[i].id}
            n == Len(post)
            T == {n - j : j \in S}
<1>1. n \in Nat /\ DOMAIN post = 1..n
  BY LenProperties
<1>2. S \in SUBSET (1..n) /\ S # {}
  BY <1>1
<1>. HIDE DEF S, n
<1>3. T \in SUBSET Nat /\ T # {}
  BY <1>1, <1>2
<1>4. PICK m \in T : \A y \in T : m <= y
  BY <1>3, LeastOf
<1>5. PICK j \in S : m = n - j
  BY <1>4
<1>6. \A y \in S : j >= y
  <2>1. ASSUME NEW y \in S PROVE j >= y
    <3>1. n - y \in T /\ m <= n - y
      BY <1>4
    <3>2. j \in Nat /\ y \in Nat
      BY <1>2
    <3>. QED
      BY <1>1, <1>5, <3>1, <3>2
  <2>. QED
    BY <2>1
<1>7. Max(S) \in S
  BY <1>6 DEF Max
<1>8. post[Max(S)] \in Payload
  <2>1. Max(S) \in 1..Len(post)
    BY <1>2, <1>7 DEF n
  <2>. QED
    BY <2>1, ElementOfSeq
<1>. QED
  BY <1>8 DEF ContextOf, S, Payload, Tools

(* A POST that is forwarded has been recorded payload by payload, and only telemetry *)
(* of Code Finder can be recorded as its telemetry.                                  *)
LEMMA ForwardKeeps == ASSUME EvidenceInv, NEW t \in Threads, Forward(t) PROVE EvidenceInv'
<1>1. PICK old, post : old = threads[t] /\ post = old.post
  OBVIOUS
<1>2. PICK answers \in [DOMAIN post -> Answers \cup {Nothing}] :
         /\ \A i \in DOMAIN post : answers[i] \in AnswersTo(post[i])
         /\ served' = served (+) Asked(post, answers)
         /\ threads' = [threads EXCEPT
               ![t] = [at |-> "response", post |-> post, left |-> Replies(post, answers)]]
  BY <1>1 DEF Forward
<1>3. PICK th : th = [at |-> "response", post |-> post, left |-> Replies(post, answers)]
  OBVIOUS
<1>4. /\ FiniteBag(trace) /\ DOMAIN trace \subseteq TraceRecords
      /\ FiniteBag(served) /\ DOMAIN served \subseteq ServedCalls
      /\ finderLog \in Nat /\ posted \in 0..MaxPosts /\ ThreadHolds(old)
  BY <1>1 DEF EvidenceInv, EvidenceTypes
<1>5. /\ old.at = "request" /\ old.left = <<>> /\ Working /\ RunFrame
      /\ trace' = trace /\ finderLog' = finderLog /\ posted' = posted
  BY <1>1 DEF Forward
<1>6. post \in Seq(Payload) /\ IsFiniteSet(DOMAIN post) /\ \A i \in DOMAIN post : post[i] \in Payload
  <2>1. post \in Seq(Payload)
    BY <1>1, <1>4 DEF ThreadHolds
  <2>2. Len(post) \in Nat /\ DOMAIN post = 1..Len(post)
    BY <2>1, LenProperties
  <2>. QED
    BY <2>1, <2>2, FS_Interval, ElementOfSeq
<1>7. /\ DOMAIN th.left = {i \in DOMAIN post : answers[i] # Nothing}
      /\ \A i \in DOMAIN th.left : th.left[i] = Response(ContextOf(post, i), answers[i])
      /\ th.left = [i \in DOMAIN th.left |-> th.left[i]]
      /\ th.at = "response" /\ th.post = post
  BY <1>3 DEF Replies
<1>8. ThreadHolds(th)
  <2>1. \A i \in DOMAIN th.left : th.left[i] \in TraceRecords
    <3>1. SUFFICES ASSUME NEW i \in DOMAIN th.left PROVE th.left[i] \in TraceRecords
      OBVIOUS
    <3>2. i \in DOMAIN post /\ answers[i] \in Answers \cup {Nothing}
      BY <1>7
    <3>3. ContextOf(post, i) \in Tools
      BY <1>6, <3>2, ContextIsATool
    <3>4. Response(ContextOf(post, i), answers[i]) \in TraceRecords
      BY <3>2, <3>3 DEF Response, TraceRecords, Named
    <3>. QED
      BY <1>7, <3>4
  <2>2. th.left \in [DOMAIN th.left -> TraceRecords]
    BY <1>7, <2>1
  <2>3. th = [at |-> th.at, post |-> th.post, left |-> th.left]
    BY <1>3
  <2>. QED
    BY <1>6, <1>7, <2>2, <2>3 DEF ThreadHolds
<1>9. /\ FiniteBag(Asked(post, answers)) /\ DOMAIN Asked(post, answers) \subseteq ServedCalls
      /\ \A P : Count(Asked(post, answers), P)
                  = Cardinality({i \in DOMAIN post :
                        [tool |-> post[i].tool, repo |-> post[i].repo, answer |-> answers[i]] \in P})
  BY <1>6, AskedCounts
<1>10. FiniteBag(served') /\ DOMAIN served' \subseteq ServedCalls
       /\ \A P : Count(served', P) = Count(served, P) + Count(Asked(post, answers), P)
  <2>1. DOMAIN (served (+) Asked(post, answers)) = DOMAIN served \cup DOMAIN Asked(post, answers)
    BY DEF (+)
  <2>. QED
    BY <1>2, <1>4, <1>9, <2>1, CountOfUnion
<1>11. ASSUME NEW K PROVE CapturedOf(old, K) = Count(Asked(post, answers), ServedOf(K))
  <2>1. ASSUME NEW i \in DOMAIN post
        PROVE  [tool |-> post[i].tool, repo |-> post[i].repo, answer |-> answers[i]] \in ServedOf(K)
                 <=> <<post[i].tool, post[i].repo>> \in K
    <3>1. post[i].tool \in Tools /\ post[i].repo \in Named /\ answers[i] \in Answers \cup {Nothing}
      BY <1>6 DEF Payload, Tools, Named
    <3>. QED
      BY <3>1 DEF ServedOf, ServedCalls
  <2>2. {i \in DOMAIN post \ DOMAIN old.left : <<post[i].tool, post[i].repo>> \in K}
          = {i \in DOMAIN post :
                [tool |-> post[i].tool, repo |-> post[i].repo, answer |-> answers[i]] \in ServedOf(K)}
    BY <1>5, <2>1
  <2>. QED
    BY <1>1, <1>5, <1>9, <2>2 DEF CapturedOf
<1>12. PendingOf(th) <= Count(Asked(post, answers), ServedTold)
  <2>. DEFINE A == {i \in DOMAIN th.left : th.left[i] \in Told}
              B == {i \in DOMAIN post :
                       [tool |-> post[i].tool, repo |-> post[i].repo, answer |-> answers[i]]
                         \in ServedTold}
  <2>1. A \subseteq B
    <3>1. SUFFICES ASSUME NEW i \in A PROVE i \in B
      OBVIOUS
    <3>2. i \in DOMAIN post /\ answers[i] = "telemetry"
      <4>1. /\ i \in DOMAIN post /\ th.left[i].answer = "telemetry"
            /\ th.left[i] = Response(ContextOf(post, i), answers[i])
        BY <1>7 DEF Told
      <4>. QED
        BY <4>1 DEF Response
    <3>3. post[i].tool = "code_finder"
      BY <1>2, <3>2, FinderAssumption DEF AnswersTo, Answers
    <3>4. post[i].repo \in Named
      BY <1>6, <3>2 DEF Payload, Named
    <3>. QED
      BY <3>2, <3>3, <3>4 DEF ServedTold, ServedCalls, Tools, Answers
  <2>2. IsFiniteSet(B)
    BY <1>6, FS_Subset
  <2>3. PendingOf(th) = Cardinality(A) /\ Count(Asked(post, answers), ServedTold) = Cardinality(B)
    BY <1>7, <1>9 DEF PendingOf
  <2>. HIDE DEF A, B
  <2>. QED
    BY <2>1, <2>2, <2>3, FS_Subset
<1>13. PendingOf(old) = 0 /\ \A K : CapturedOf(th, K) = 0
  BY <1>5, <1>7 DEF PendingOf, CapturedOf
<1>14. PendingOf(th) \in Nat /\ \A K : CapturedOf(old, K) \in Nat
  BY <1>4, <1>8, ThreadCounts
<1>15. \A P : Count(served, P) \in Nat /\ Count(trace, P) \in Nat
                /\ Count(Asked(post, answers), P) \in Nat
  BY <1>4, <1>9, CountIsNat
<1>16. \A K \in SUBSET Classes :
          Count(served', ServedOf(K)) + CapturedOf(th, K) + Count(trace, RequestsOf(K))
            <= Count(served, ServedOf(K)) + CapturedOf(old, K) + Count(trace', RequestsOf(K))
  BY <1>5, <1>10, <1>11, <1>13, <1>14, <1>15
<1>17. Count(trace', Told) + PendingOf(th) + Count(served, ServedTold)
         <= Count(trace, Told) + PendingOf(old) + Count(served', ServedTold)
  BY <1>5, <1>10, <1>12, <1>13, <1>14, <1>15
<1>. QED
  BY <1>1, <1>2, <1>3, <1>4, <1>5, <1>8, <1>10, <1>16, <1>17, ThreadSteps

-----------------------------------------------------------------------------
(* Sets that have nothing in common are counted one after the other. *)
LEMMA CountSplit ==
    ASSUME NEW b, FiniteBag(b), NEW P, NEW Q, P \cap Q = {}
    PROVE  Count(b, P \cup Q) = Count(b, P) + Count(b, Q)
<1>. DEFINE S == DOMAIN b \cap P
            T == DOMAIN b \cap Q
<1>1. IsFiniteSet(S) /\ IsFiniteSet(T)
  BY FS_Intersection DEF FiniteBag
<1>2. S \cap T = {} /\ DOMAIN b \cap (P \cup Q) = S \cup T
  OBVIOUS
<1>3. \A x \in S \cup T : b[x] \in Nat
  BY DEF FiniteBag, IsABag
<1>4. Count(b, P) = SumOf(b, S) /\ Count(b, Q) = SumOf(b, T) /\ Count(b, P \cup Q) = SumOf(b, S \cup T)
  BY <1>2 DEF Count
<1>. HIDE DEF S, T
<1>. QED
  BY <1>1, <1>2, <1>3, <1>4, SumSplit

(* What is not counted is not there. *)
LEMMA CountedIsThere ==
    ASSUME NEW b, FiniteBag(b), NEW P, Count(b, P) = 0 PROVE DOMAIN b \cap P = {}
BY CountIsNat

(* The numbers of the trace that a verdict is made of are counts. *)
LEMMA TraceNumbers ==
    ASSUME DOMAIN trace \subseteq TraceRecords
    PROVE  /\ FinderCalls = Count(trace, RequestsOf(FinderKind))
           /\ DirectCalls = Count(trace, RequestsOf(DirectKind))
           /\ \A repo \in FinderRepos : CallsFor(repo) = Count(trace, RequestsOf(KindFor(repo)))
           /\ FinderAnswers("telemetry") = Count(trace, Told)
<1>1. /\ {r \in DOMAIN trace : r.dir = "request" /\ r.tool = "code_finder"}
           = DOMAIN trace \cap RequestsOf(FinderKind)
      /\ {r \in DOMAIN trace : r.dir = "request" /\ r.tool = "search"}
           = DOMAIN trace \cap RequestsOf(DirectKind)
  BY DEF RequestsOf, FinderKind, DirectKind, TraceRecords
<1>2. \A repo \in FinderRepos :
        {r \in DOMAIN trace : r.dir = "request" /\ r.tool = "code_finder" /\ r.repo = repo}
          = DOMAIN trace \cap RequestsOf(KindFor(repo))
  BY DEF RequestsOf, KindFor, TraceRecords
<1>3. {r \in DOMAIN trace : r.dir = "response" /\ r.tool = "code_finder" /\ r.answer = "telemetry"}
        = DOMAIN trace \cap Told
  BY DEF Told
<1>4. FinderCalls = SumOf(trace, {r \in DOMAIN trace : r.dir = "request" /\ r.tool = "code_finder"})
  BY DEF FinderCalls, Calls, HowMany, SumOf
<1>5. DirectCalls = SumOf(trace, {r \in DOMAIN trace : r.dir = "request" /\ r.tool = "search"})
  BY DEF DirectCalls, Calls, HowMany, SumOf
<1>6. ASSUME NEW repo \in FinderRepos
      PROVE  CallsFor(repo)
               = SumOf(trace, {r \in DOMAIN trace : r.dir = "request" /\ r.tool = "code_finder"
                                                      /\ r.repo = repo})
  BY DEF CallsFor, HowMany, SumOf
<1>7. FinderAnswers("telemetry")
        = SumOf(trace, {r \in DOMAIN trace : r.dir = "response" /\ r.tool = "code_finder"
                                               /\ r.answer = "telemetry"})
  BY DEF FinderAnswers, HowMany, SumOf
<1>8. FinderCalls = Count(trace, RequestsOf(FinderKind))
  BY <1>1, <1>4 DEF Count
<1>9. DirectCalls = Count(trace, RequestsOf(DirectKind))
  BY <1>1, <1>5 DEF Count
<1>10. \A repo \in FinderRepos : CallsFor(repo) = Count(trace, RequestsOf(KindFor(repo)))
  BY <1>2, <1>6 DEF Count
<1>11. FinderAnswers("telemetry") = Count(trace, Told)
  BY <1>3, <1>7 DEF Count
<1>. QED
  BY <1>8, <1>9, <1>10, <1>11

(* So are those of what was served. *)
LEMMA ServedNumbers ==
    ASSUME NEW b, DOMAIN b \subseteq ServedCalls
    PROVE  /\ HowMany(b, LAMBDA c : c.tool = "code_finder") = Count(b, ServedOf(FinderKind))
           /\ \A repo \in FinderRepos :
                 HowMany(b, LAMBDA c : c.tool = "code_finder" /\ c.repo = repo)
                   = Count(b, ServedOf(KindFor(repo)))
<1>1. {c \in DOMAIN b : c.tool = "code_finder"} = DOMAIN b \cap ServedOf(FinderKind)
  BY DEF ServedOf, FinderKind, ServedCalls
<1>2. \A repo \in FinderRepos :
        {c \in DOMAIN b : c.tool = "code_finder" /\ c.repo = repo} = DOMAIN b \cap ServedOf(KindFor(repo))
  BY DEF ServedOf, KindFor, ServedCalls
<1>3. HowMany(b, LAMBDA c : c.tool = "code_finder") = SumOf(b, {c \in DOMAIN b : c.tool = "code_finder"})
  BY DEF HowMany, SumOf
<1>4. ASSUME NEW repo \in FinderRepos
      PROVE  HowMany(b, LAMBDA c : c.tool = "code_finder" /\ c.repo = repo)
               = SumOf(b, {c \in DOMAIN b : c.tool = "code_finder" /\ c.repo = repo})
  BY DEF HowMany, SumOf
<1>5. HowMany(b, LAMBDA c : c.tool = "code_finder") = Count(b, ServedOf(FinderKind))
  BY <1>1, <1>3 DEF HowMany, Count
<1>6. ASSUME NEW repo \in FinderRepos
      PROVE  HowMany(b, LAMBDA c : c.tool = "code_finder" /\ c.repo = repo)
               = Count(b, ServedOf(KindFor(repo)))
  BY <1>2, <1>4 DEF HowMany, Count
<1>. QED
  BY <1>5, <1>6

(* The threads hold nothing that is counted twice, so no more was served than is in the *)
(* trace, and no more is told in the trace than was served with telemetry.              *)
LEMMA TraceBounds ==
    ASSUME EvidenceInv
    PROVE  /\ \A K \in SUBSET Classes : Count(served, ServedOf(K)) <= Count(trace, RequestsOf(K))
           /\ Count(trace, Told) <= Count(served, ServedTold)
<1>1. FiniteBag(trace) /\ FiniteBag(served) /\ \A t \in Threads : ThreadHolds(threads[t])
  BY DEF EvidenceInv, EvidenceTypes
<1>2. IsFiniteSet(Threads)
  BY FinderAssumption
<1>3. Pending \in Nat
  <2>. DEFINE f == [t \in Threads |-> PendingOf(threads[t])]
  <2>1. \A t \in Threads : f[t] \in Nat
    BY <1>1, ThreadCounts
  <2>. HIDE DEF f
  <2>2. SumOf(f, Threads) \in Nat
    BY <1>2, <2>1, SumIsNat
  <2>. QED
    BY <2>2 DEF Pending, f
<1>4. ASSUME NEW K PROVE Captured(K) \in Nat
  <2>. DEFINE f == [t \in Threads |-> CapturedOf(threads[t], K)]
  <2>1. \A t \in Threads : f[t] \in Nat
    BY <1>1, ThreadCounts
  <2>. HIDE DEF f
  <2>2. SumOf(f, Threads) \in Nat
    BY <1>2, <2>1, SumIsNat
  <2>. QED
    BY <2>2 DEF Captured, f
<1>5. \A P : Count(served, P) \in Nat /\ Count(trace, P) \in Nat
  BY <1>1, CountIsNat
<1>6. ASSUME NEW K \in SUBSET Classes
      PROVE  Count(served, ServedOf(K)) <= Count(trace, RequestsOf(K))
  <2>1. Count(served, ServedOf(K)) + Captured(K) <= Count(trace, RequestsOf(K))
    BY DEF EvidenceInv, EveryCallIsTraced
  <2>2. Captured(K) \in Nat
    BY <1>4
  <2>3. Count(served, ServedOf(K)) \in Nat /\ Count(trace, RequestsOf(K)) \in Nat
    BY <1>5
  <2>. QED
    BY <2>1, <2>2, <2>3
<1>7. Count(trace, Told) <= Count(served, ServedTold)
  <2>1. Count(trace, Told) + Pending <= Count(served, ServedTold)
    BY DEF EvidenceInv, TelemetryIsServed
  <2>2. Count(trace, Told) \in Nat /\ Count(served, ServedTold) \in Nat
    BY <1>5
  <2>. QED
    BY <1>3, <2>1, <2>2
<1>. QED
  BY <1>6, <1>7

(* A trace that meets the contract leaves no call of Code Finder that was served without *)
(* a request and without telemetry, and one for each repository where the arm is forced.  *)
LEMMA ContractTells ==
    ASSUME EvidenceInv, ContractHolds
    PROVE  /\ \A c \in DOMAIN served : c.tool = "code_finder" => c.answer = "telemetry"
           /\ Count(served, ServedOf(FinderKind)) = FinderCalls
           /\ FinderAnswers("telemetry") = FinderCalls /\ FinderCalls \in Nat
           /\ arm \in ForcedArms =>
                /\ \A c \in DOMAIN served : c.tool # "search"
                /\ \A repo \in FinderRepos : Count(served, ServedOf(KindFor(repo))) = 1
<1>1. /\ FiniteBag(trace) /\ DOMAIN trace \subseteq TraceRecords
      /\ FiniteBag(served) /\ DOMAIN served \subseteq ServedCalls
  BY DEF EvidenceInv, EvidenceTypes
<1>2. /\ FinderCalls = Count(trace, RequestsOf(FinderKind))
      /\ DirectCalls = Count(trace, RequestsOf(DirectKind))
      /\ \A repo \in FinderRepos : CallsFor(repo) = Count(trace, RequestsOf(KindFor(repo)))
      /\ FinderAnswers("telemetry") = Count(trace, Told)
  BY <1>1, TraceNumbers
<1>3. \A P : Count(served, P) \in Nat /\ Count(trace, P) \in Nat
  BY <1>1, CountIsNat
<1>4. FinderKind \in SUBSET Classes /\ DirectKind \in SUBSET Classes
      /\ \A repo \in FinderRepos : KindFor(repo) \in SUBSET FinderKind
  BY DEF FinderKind, DirectKind, KindFor, Classes, Tools, Named
<1>5. FinderAnswers("telemetry") = FinderCalls
  BY DEF ContractHolds
<1>. DEFINE Silent == ServedOf(FinderKind) \ ServedTold
<1>6. ServedOf(FinderKind) = ServedTold \cup Silent /\ ServedTold \cap Silent = {}
  BY DEF ServedTold, ServedOf, FinderKind, ServedCalls
<1>. HIDE DEF Silent
<1>7. Count(served, ServedOf(FinderKind)) = Count(served, ServedTold) + Count(served, Silent)
  BY <1>1, <1>6, CountSplit
<1>8. /\ Count(served, ServedOf(FinderKind)) <= Count(trace, RequestsOf(FinderKind))
      /\ Count(trace, Told) <= Count(served, ServedTold)
  BY <1>4, TraceBounds
<1>9. Count(served, ServedOf(FinderKind)) = FinderCalls /\ Count(served, Silent) = 0
  BY <1>2, <1>3, <1>5, <1>7, <1>8
<1>10. \A c \in DOMAIN served : c.tool = "code_finder" => c.answer = "telemetry"
  <2>1. DOMAIN served \cap Silent = {}
    BY <1>1, <1>9, CountedIsThere
  <2>. QED
    BY <1>1, <2>1 DEF Silent, ServedOf, ServedTold, ServedCalls, FinderKind
<1>11. ASSUME arm \in ForcedArms PROVE \A c \in DOMAIN served : c.tool # "search"
  <2>1. Count(trace, RequestsOf(DirectKind)) = 0
    BY <1>2, <1>11 DEF ContractHolds
  <2>2. Count(served, ServedOf(DirectKind)) <= Count(trace, RequestsOf(DirectKind))
    BY <1>4, TraceBounds
  <2>3. Count(served, ServedOf(DirectKind)) = 0
    BY <1>3, <2>1, <2>2
  <2>4. DOMAIN served \cap ServedOf(DirectKind) = {}
    BY <1>1, <2>3, CountedIsThere
  <2>. QED
    BY <1>1, <2>4 DEF ServedOf, ServedCalls, DirectKind
<1>12. ASSUME arm \in ForcedArms, NEW repo \in FinderRepos
       PROVE  Count(served, ServedOf(KindFor(repo))) = 1
  <2>. DEFINE Rest == FinderKind \ KindFor(repo)
  <2>1. Count(trace, RequestsOf(KindFor(repo))) = 1
    BY <1>2, <1>12 DEF ContractHolds, RepositoryScoped
  <2>2. Rest \in SUBSET Classes /\ KindFor(repo) \in SUBSET Classes
    BY <1>4
  <2>3. /\ ServedOf(FinderKind) = ServedOf(KindFor(repo)) \cup ServedOf(Rest)
        /\ ServedOf(KindFor(repo)) \cap ServedOf(Rest) = {}
        /\ RequestsOf(FinderKind) = RequestsOf(KindFor(repo)) \cup RequestsOf(Rest)
        /\ RequestsOf(KindFor(repo)) \cap RequestsOf(Rest) = {}
    BY <1>4 DEF ServedOf, RequestsOf
  <2>. HIDE DEF Rest
  <2>4. Count(served, ServedOf(FinderKind))
          = Count(served, ServedOf(KindFor(repo))) + Count(served, ServedOf(Rest))
    BY <1>1, <2>3, CountSplit
  <2>5. Count(trace, RequestsOf(FinderKind))
          = Count(trace, RequestsOf(KindFor(repo))) + Count(trace, RequestsOf(Rest))
    BY <1>1, <2>3, CountSplit
  <2>6. /\ Count(served, ServedOf(KindFor(repo))) <= Count(trace, RequestsOf(KindFor(repo)))
        /\ Count(served, ServedOf(Rest)) <= Count(trace, RequestsOf(Rest))
    BY <2>2, TraceBounds
  <2>7. /\ Count(served, ServedOf(KindFor(repo))) \in Nat /\ Count(served, ServedOf(Rest)) \in Nat
        /\ Count(trace, RequestsOf(Rest)) \in Nat
    BY <1>3
  <2>8. Count(served, ServedOf(FinderKind)) = Count(trace, RequestsOf(FinderKind))
    BY <1>2, <1>9
  <2>. QED
    BY <2>1, <2>4, <2>5, <2>6, <2>7, <2>8
<1>. QED
  BY <1>2, <1>3, <1>5, <1>9, <1>10, <1>11, <1>12

(* The verdict is made of what had been served when the trace was copied. *)
LEMMA VerdictKeeps == ASSUME EvidenceInv, CaptureMCPTelemetry PROVE EvidenceInv'
<1>1. EvidenceTypes' /\ EveryCallIsTraced' /\ TelemetryIsServed' /\ NothingYet' /\ NoTokenLeft'
  <2>1. ContractHolds \in BOOLEAN /\ FinderCalls \in Nat /\ FinderAnswers("telemetry") \in Nat
    <3>1. FiniteBag(trace) /\ DOMAIN trace \subseteq TraceRecords
      BY DEF EvidenceInv, EvidenceTypes
    <3>2. \A P : Count(trace, P) \in Nat
      BY <3>1, CountIsNat
    <3>3. FinderCalls = Count(trace, RequestsOf(FinderKind))
          /\ FinderAnswers("telemetry") = Count(trace, Told)
      BY <3>1, TraceNumbers
    <3>. QED
      BY <3>2, <3>3 DEF ContractHolds
  <2>2. retrieval' \in Verdicts
    <3>1. PICK ok, calls, inner : ok = ContractHolds /\ calls = FinderCalls
                                  /\ inner = FinderAnswers("telemetry")
      OBVIOUS
    <3>2. retrieval' \in {[valid |-> FALSE, calls |-> 0, inner |-> 0],
                          [valid |-> ok, calls |-> calls, inner |-> inner]}
      BY <3>1 DEF CaptureMCPTelemetry
    <3>3. ok \in BOOLEAN
      BY <2>1, <3>1, Zenon
    <3>4. calls \in Nat /\ inner \in Nat
      BY <2>1, <3>1
    <3>5. [valid |-> FALSE, calls |-> 0, inner |-> 0] \in Verdicts
      BY DEF Verdicts
    <3>6. [valid |-> ok, calls |-> calls, inner |-> inner] \in Verdicts
      BY <3>3, <3>4 DEF Verdicts
    <3>. QED
      BY <3>2, <3>5, <3>6
  <2>3. EvidenceTypes'
    BY <2>2 DEF EvidenceInv, EvidenceTypes, CaptureMCPTelemetry
  <2>4. EveryCallIsTraced' /\ TelemetryIsServed'
    BY DEF EvidenceInv, CaptureMCPTelemetry, EveryCallIsTraced, TelemetryIsServed, Captured, Pending
  <2>5. NothingYet' /\ NoTokenLeft'
    BY DEF EvidenceInv, CaptureMCPTelemetry, NothingYet, NoTokenLeft
  <2>. QED
    BY <2>3, <2>4, <2>5
<1>2. Judged'
  <2>1. work' = "route" /\ reckoned' = served /\ arm' = arm
    BY DEF CaptureMCPTelemetry
  <2>2. CASE retrieval' = [valid |-> FALSE, calls |-> 0, inner |-> 0]
    BY <2>1, <2>2 DEF Judged, Verdicts
  <2>3. CASE ~ContractHolds
            /\ retrieval' = [valid |-> ContractHolds, calls |-> FinderCalls,
                             inner |-> FinderAnswers("telemetry")]
    <3>1. retrieval' \in Verdicts \/ retrieval' = Nothing
      BY <1>1 DEF EvidenceTypes
    <3>2. ContractHolds = FALSE /\ FinderCalls \in Nat /\ FinderAnswers("telemetry") \in Nat
      <4>1. FiniteBag(trace) /\ DOMAIN trace \subseteq TraceRecords
        BY DEF EvidenceInv, EvidenceTypes
      <4>. QED
        BY <2>3, <4>1, TraceNumbers, CountIsNat DEF ContractHolds
    <3>. QED
      BY <2>1, <2>3, <3>2 DEF Judged, Verdicts
  <2>4. CASE ContractHolds
            /\ retrieval' = [valid |-> ContractHolds, calls |-> FinderCalls,
                             inner |-> FinderAnswers("telemetry")]
    <3>1. /\ \A c \in DOMAIN served : c.tool = "code_finder" => c.answer = "telemetry"
          /\ Count(served, ServedOf(FinderKind)) = FinderCalls
          /\ FinderAnswers("telemetry") = FinderCalls /\ FinderCalls \in Nat
          /\ arm \in ForcedArms =>
               /\ \A c \in DOMAIN served : c.tool # "search"
               /\ \A repo \in FinderRepos : Count(served, ServedOf(KindFor(repo))) = 1
      BY <2>4, ContractTells
    <3>2. retrieval'.calls = FinderCalls /\ retrieval'.inner = FinderAnswers("telemetry")
      BY <2>4
    <3>3. VerdictTells'
      BY <2>1, <3>1, <3>2 DEF VerdictTells, Reckoned
    <3>4. retrieval' \in Verdicts
      <4>1. ContractHolds = TRUE
        BY <2>4 DEF ContractHolds
      <4>. QED
        BY <2>4, <3>1, <4>1 DEF Verdicts
    <3>. QED
      BY <2>1, <3>3, <3>4 DEF Judged
  <2>. QED
    BY <2>2, <2>3, <2>4 DEF CaptureMCPTelemetry
<1>. QED
  BY <1>1, <1>2 DEF EvidenceInv

(* While nothing goes through the proxy, the trace may be written anew or take what is no *)
(* telemetry.                                                                             *)
LEMMA PreparationKeeps ==
    ASSUME EvidenceInv, work = "prepare", AgentFrame,
           arm' \in FinderArms \cup {Nothing}, header' \in BOOLEAN,
           work' \in {"prepare", "agent", "infra"}, NoTokenLeft',
           FiniteBag(trace'), DOMAIN trace' \subseteq TraceRecords, Count(trace', Told) = 0
    PROVE  EvidenceInv'
<1>1. /\ EvidenceTypes /\ served = EmptyBag /\ served' = served /\ threads' = threads
      /\ \A t \in Threads : threads[t].at = "idle"
  BY DEF EvidenceInv, NothingYet, AgentFrame
<1>2. EvidenceTypes'
  BY <1>1 DEF EvidenceTypes, AgentFrame
<1>3. \A t \in Threads : PendingOf(threads'[t]) = 0 /\ \A K : CapturedOf(threads'[t], K) = 0
  BY <1>1 DEF PendingOf, CapturedOf
<1>4. IsFiniteSet(Threads)
  BY FinderAssumption
<1>5. Pending' = 0
  <2>. DEFINE f == [t \in Threads |-> PendingOf(threads'[t])]
  <2>1. \A t \in Threads : f[t] = 0
    BY <1>3
  <2>. HIDE DEF f
  <2>2. SumOf(f, Threads) = 0
    BY <1>4, <2>1, SumOfZeros
  <2>. QED
    BY <2>2 DEF Pending, f
<1>6. ASSUME NEW K PROVE Captured(K)' = 0
  <2>. DEFINE f == [t \in Threads |-> CapturedOf(threads'[t], K)]
  <2>1. \A t \in Threads : f[t] = 0
    BY <1>3
  <2>. HIDE DEF f
  <2>2. SumOf(f, Threads) = 0
    BY <1>4, <2>1, SumOfZeros
  <2>. QED
    BY <2>2 DEF Captured, f
<1>7. \A P : Count(served', P) = 0
  BY <1>1, CountOfNothing
<1>8. EveryCallIsTraced'
  <2>1. \A P : Count(trace', P) \in Nat
    BY CountIsNat
  <2>2. SUFFICES ASSUME NEW K \in SUBSET Classes
                 PROVE  Count(served', ServedOf(K)) + Captured(K)' <= Count(trace', RequestsOf(K))
    BY DEF EveryCallIsTraced
  <2>3. Captured(K)' = 0 /\ Count(served', ServedOf(K)) = 0 /\ Count(trace', RequestsOf(K)) \in Nat
    BY <1>6, <1>7, <2>1
  <2>. QED
    BY <2>3
<1>9. TelemetryIsServed'
  <2>1. Count(served', ServedTold) = 0
    BY <1>7
  <2>2. Count(trace', Told) + Pending' <= Count(served', ServedTold)
    BY <1>5, <2>1
  <2>. QED
    BY <2>2 DEF TelemetryIsServed, Told, ServedTold, TraceRecords, ServedCalls
<1>10. NothingYet'
  BY <1>1 DEF NothingYet
<1>11. Judged'
  BY DEF Judged
<1>. QED
  BY <1>2, <1>8, <1>9, <1>10, <1>11 DEF EvidenceInv

(* Before the agent is started, there is no telemetry in the trace. *)
LEMMA NothingTold ==
    ASSUME EvidenceInv, work = "prepare"
    PROVE  FiniteBag(trace) /\ DOMAIN trace \subseteq TraceRecords /\ Count(trace, Told) = 0
<1>1. FiniteBag(trace) /\ DOMAIN trace \subseteq TraceRecords /\ served = EmptyBag
  BY DEF EvidenceInv, EvidenceTypes, NothingYet
<1>2. Count(trace, Told) <= Count(served, ServedTold) /\ Count(served, ServedTold) = 0
  BY <1>1, TraceBounds, CountOfNothing
<1>3. Count(trace, Told) \in Nat
  BY <1>1, CountIsNat
<1>. QED
  BY <1>1, <1>2, <1>3

(* A step of the preparation leaves less to do, and no file where it succeeds. *)
LEMMA StepIsPrepared ==
    ASSUME EvidenceInv, NEW what, Preparing(what), NEW ok \in BOOLEAN, Prepared(ok),
           header' \in BOOLEAN,
           header' = header \/ (ok /\ what = "endpoint" => ~header'),
           header' = header \/ what \in {"endpoint", "inventory"}
    PROVE  /\ NoTokenLeft' /\ work' \in {"prepare", "agent", "infra"}
           /\ arm' \in FinderArms \cup {Nothing} /\ AgentFrame
<1>. DEFINE Whats == {"endpoint", "proxy", "inventory", "client", "sgx", "isolation"}
<1>1. prep \in Seq(Whats) /\ prep # <<>> /\ work = "prepare" /\ Head(prep) = what
  BY DEF EvidenceInv, NoTokenLeft, Preparing
<1>2. /\ Tail(prep) \in Seq(Whats) /\ Len(Tail(prep)) = Len(prep) - 1 /\ Len(prep) \in Nat
      /\ \A i \in 1..Len(Tail(prep)) : Tail(prep)[i] = prep[i + 1]
      /\ DOMAIN prep = 1..Len(prep) /\ DOMAIN Tail(prep) = 1..Len(Tail(prep))
      /\ Head(prep) = prep[1] /\ 1 \in DOMAIN prep
  BY <1>1, HeadTailProperties, LenProperties, EmptySeq
<1>3. prep' = IF ok THEN Tail(prep) ELSE <<>>
  BY DEF Prepared
<1>4. prep' \in Seq(Whats)
  BY <1>2, <1>3, EmptySeq
<1>5. ASSUME arm' # "cli_code_finder", NEW i \in DOMAIN prep' PROVE prep'[i] # "inventory"
  <2>1. \A j \in DOMAIN prep : prep[j] # "inventory"
    BY <1>5 DEF EvidenceInv, NoTokenLeft, Prepared
  <2>2. ok
    BY <1>3, <1>5, EmptySeq
  <2>3. i \in 1..Len(Tail(prep)) /\ prep'[i] = prep[i + 1] /\ i + 1 \in DOMAIN prep
    BY <1>2, <1>3, <1>5, <2>2
  <2>. QED
    BY <2>1, <2>3
<1>6. ASSUME arm' # "cli_code_finder", work' # "infra" PROVE ~header'
  <2>1. ok /\ ~header
    BY <1>1, <1>6 DEF EvidenceInv, NoTokenLeft, Prepared
  <2>2. what # "inventory"
    BY <1>1, <1>2, <1>6 DEF EvidenceInv, NoTokenLeft, Prepared
  <2>. QED
    BY <2>1, <2>2
<1>7. work' \in {"prepare", "agent", "infra"} /\ arm' \in FinderArms \cup {Nothing} /\ AgentFrame
  BY <1>1 DEF Prepared, EvidenceInv, EvidenceTypes
<1>8. arm' # Nothing
  BY <1>1 DEF Prepared, EvidenceInv, NoTokenLeft
<1>. QED
  BY <1>4, <1>5, <1>6, <1>7, <1>8 DEF NoTokenLeft

(* Whatever is prepared, the invariant is kept. *)
LEMMA ToolsKeep ==
    ASSUME EvidenceInv,
           \/ VerifyMCPEndpoint \/ InstallMCPTelemetryProxy \/ VerifyCLIFinderInventory
           \/ ConfigureMCPClient \/ InstallSgx \/ StageCacheIsolation
    PROVE  EvidenceInv'
<1>1. header \in BOOLEAN
  BY DEF EvidenceInv, EvidenceTypes
<1>2. CASE VerifyMCPEndpoint
  <2>1. PICK staged, answered, removed \in BOOLEAN :
           header' = (staged /\ ~removed) /\ Prepared(staged /\ answered /\ removed)
    BY <1>2 DEF VerifyMCPEndpoint
  <2>2. PICK ok \in BOOLEAN : ok = (staged /\ answered /\ removed)
    OBVIOUS
  <2>3. Prepared(ok) /\ header' \in BOOLEAN /\ (ok => ~header')
    BY <2>1, <2>2
  <2>4. Preparing("endpoint") /\ work = "prepare" /\ trace' = trace
    BY <1>2 DEF VerifyMCPEndpoint, Preparing
  <2>5. /\ NoTokenLeft' /\ work' \in {"prepare", "agent", "infra"}
        /\ arm' \in FinderArms \cup {Nothing} /\ AgentFrame
    BY <2>3, <2>4, StepIsPrepared
  <2>. QED
    BY <2>3, <2>4, <2>5, NothingTold, PreparationKeeps
<1>3. CASE InstallMCPTelemetryProxy
  <2>1. PICK ok \in BOOLEAN : Prepared(ok)
    BY <1>3 DEF InstallMCPTelemetryProxy
  <2>2. Preparing("proxy") /\ work = "prepare" /\ trace' = EmptyBag /\ header' = header
    BY <1>3 DEF InstallMCPTelemetryProxy, Preparing
  <2>3. /\ NoTokenLeft' /\ work' \in {"prepare", "agent", "infra"}
        /\ arm' \in FinderArms \cup {Nothing} /\ AgentFrame
    BY <1>1, <2>1, <2>2, StepIsPrepared
  <2>4. FiniteBag(trace') /\ DOMAIN trace' \subseteq TraceRecords /\ Count(trace', Told) = 0
    BY <2>2, CountOfNothing DEF EmptyBag, SetToBag
  <2>. QED
    BY <1>1, <2>2, <2>3, <2>4, PreparationKeeps
<1>4. CASE VerifyCLIFinderInventory
  <2>1. PICK ok \in BOOLEAN :
           /\ trace' = IF ok
                       THEN trace (+) SetToBag({Request(ListTools), Response("list", "bare")})
                       ELSE trace
           /\ Prepared(ok)
    BY <1>4 DEF VerifyCLIFinderInventory
  <2>2. Preparing("inventory") /\ work = "prepare" /\ header' \in BOOLEAN
    BY <1>4 DEF VerifyCLIFinderInventory, Preparing
  <2>3. /\ NoTokenLeft' /\ work' \in {"prepare", "agent", "infra"}
        /\ arm' \in FinderArms \cup {Nothing} /\ AgentFrame
    BY <2>1, <2>2, StepIsPrepared
  <2>. DEFINE both == SetToBag({Request(ListTools), Response("list", "bare")})
  <2>4. /\ DOMAIN both \subseteq TraceRecords /\ DOMAIN both \cap Told = {}
        /\ FiniteBag(both) /\ Count(both, Told) = 0
    <3>1. PICK a, b : a = Request(ListTools) /\ b = Response("list", "bare")
      OBVIOUS
    <3>2. /\ a \in TraceRecords /\ b \in TraceRecords /\ a \notin Told /\ b \notin Told
      BY <3>1 DEF Request, Response, ListTools, TraceRecords, Told, Tools, Named, Answers
    <3>3. both = [e \in {a, b} |-> 1]
      BY <3>1 DEF SetToBag
    <3>. HIDE DEF both
    <3>4. DOMAIN both = {a, b} /\ both \in [{a, b} -> {n \in Nat : n > 0}]
      BY <3>3
    <3>5. IsFiniteSet({a, b})
      <4>1. IsFiniteSet({a}) /\ {a, b} = {a} \cup {b}
        BY FS_Singleton
      <4>. QED
        BY <4>1, FS_AddElement
    <3>6. DOMAIN both \cap Told = {}
      BY <3>2, <3>4
    <3>. QED
      BY <3>2, <3>4, <3>5, <3>6, SumOfNothing DEF FiniteBag, IsABag, Count
  <2>5. FiniteBag(trace) /\ DOMAIN trace \subseteq TraceRecords /\ Count(trace, Told) = 0
    BY <2>2, NothingTold
  <2>6. trace' = IF ok THEN trace (+) both ELSE trace
    BY <2>1
  <2>. HIDE DEF both
  <2>7. /\ FiniteBag(trace (+) both) /\ Count(trace (+) both, Told) = 0
        /\ DOMAIN (trace (+) both) \subseteq TraceRecords
    <3>1. DOMAIN (trace (+) both) = DOMAIN trace \cup DOMAIN both
      BY DEF (+)
    <3>. QED
      BY <2>4, <2>5, <3>1, CountOfUnion
  <2>8. FiniteBag(trace') /\ DOMAIN trace' \subseteq TraceRecords /\ Count(trace', Told) = 0
    BY <2>5, <2>6, <2>7
  <2>. QED
    BY <2>2, <2>3, <2>8, PreparationKeeps
<1>5. CASE ConfigureMCPClient \/ InstallSgx \/ StageCacheIsolation
  <2>1. PICK ok \in BOOLEAN, what \in {"client", "sgx", "isolation"} :
           Prepared(ok) /\ Preparing(what) /\ header' = header /\ trace' = trace
    BY <1>5 DEF ConfigureMCPClient, InstallSgx, StageCacheIsolation
  <2>2. work = "prepare"
    BY <2>1 DEF Preparing
  <2>3. /\ NoTokenLeft' /\ work' \in {"prepare", "agent", "infra"}
        /\ arm' \in FinderArms \cup {Nothing} /\ AgentFrame
    BY <1>1, <2>1, StepIsPrepared
  <2>. QED
    BY <1>1, <2>1, <2>2, <2>3, NothingTold, PreparationKeeps
<1>. QED
  BY <1>2, <1>3, <1>4, <1>5

(* The arm that is chosen has its own preparation. *)
LEMMA ArmKeeps == ASSUME EvidenceInv, ChooseArm PROVE EvidenceInv'
<1>. DEFINE Whats == {"endpoint", "proxy", "inventory", "client", "sgx", "isolation"}
<1>1. /\ arm' \in FinderArms /\ prep' = Preparation(arm') /\ header' = header /\ work' = work
      /\ trace' = trace /\ AgentFrame /\ arm' # Nothing
  BY FinderAssumption DEF ChooseArm
<1>2. work = "prepare" /\ ~header /\ header \in BOOLEAN
  BY DEF EvidenceInv, EvidenceTypes, NoTokenLeft, ChooseArm
<1>3. prep' \in Seq(Whats)
      /\ (arm' # "cli_code_finder" => \A i \in DOMAIN prep' : prep'[i] # "inventory")
  <2>1. CASE arm' = "cli_code_finder"
    <3>1. prep' = <<"endpoint", "proxy", "inventory", "sgx", "isolation">>
      BY <1>1, <2>1 DEF Preparation
    <3>2. <<"endpoint", "proxy", "inventory", "sgx", "isolation">> \in Seq(Whats)
      OBVIOUS
    <3>. QED
      BY <2>1, <3>1, <3>2
  <2>2. CASE arm' # "cli_code_finder"
    <3>1. prep' = <<"proxy", "endpoint", "client", "isolation">>
      BY <1>1, <2>2 DEF Preparation
    <3>2. <<"proxy", "endpoint", "client", "isolation">> \in Seq(Whats \ {"inventory"})
      OBVIOUS
    <3>3. prep' \in Seq(Whats \ {"inventory"})
      BY <3>1, <3>2
    <3>. HIDE DEF Whats
    <3>4. prep' \in Seq(Whats) /\ \A i \in DOMAIN prep' : prep'[i] \in Whats \ {"inventory"}
      BY <3>3, LenProperties, ElementOfSeq, SeqDef
    <3>. QED
      BY <3>4
  <2>. QED
    BY <2>1, <2>2
<1>4. NoTokenLeft'
  BY <1>1, <1>2, <1>3 DEF NoTokenLeft
<1>. QED
  BY <1>1, <1>2, <1>4, NothingTold, PreparationKeeps

(* When the agent has ended, its threads may still be at work. *)
LEMMA EndingKeeps == ASSUME EvidenceInv, AgentEnds PROVE EvidenceInv'
<1>1. EvidenceTypes' /\ NothingYet' /\ NoTokenLeft' /\ Judged'
  BY DEF EvidenceInv, AgentEnds, AgentFrame, EvidenceTypes, NothingYet, NoTokenLeft, Judged
<1>2. EveryCallIsTraced' /\ TelemetryIsServed'
  BY DEF EvidenceInv, AgentEnds, AgentFrame, EveryCallIsTraced, TelemetryIsServed, Captured,
         Pending
<1>. QED
  BY <1>1, <1>2 DEF EvidenceInv

(* Only a run with a valid verdict comes to count. *)
LEMMA RoutingKeeps == ASSUME EvidenceInv, RouteCodeFinderRun PROVE EvidenceInv'
<1>1. work = "route" /\ work' \in {"counts", "invalid"} /\ (work' = "counts" => retrieval.valid)
  BY DEF RouteCodeFinderRun
<1>2. EvidenceTypes' /\ NothingYet' /\ NoTokenLeft'
  BY <1>1 DEF EvidenceInv, RouteCodeFinderRun, AgentFrame, EvidenceTypes, NothingYet, NoTokenLeft
<1>3. EveryCallIsTraced' /\ TelemetryIsServed'
  BY DEF EvidenceInv, RouteCodeFinderRun, AgentFrame, EveryCallIsTraced, TelemetryIsServed,
         Captured, Pending
<1>4. retrieval' = retrieval /\ (VerdictTells => VerdictTells')
  BY DEF RouteCodeFinderRun, AgentFrame, VerdictTells, Reckoned
<1>5. Judged'
  BY <1>1, <1>4 DEF EvidenceInv, Judged
<1>. QED
  BY <1>2, <1>3, <1>5 DEF EvidenceInv

LEMMA EvidenceStutters == ASSUME EvidenceInv, UNCHANGED finderVars PROVE EvidenceInv'
<1>1. EvidenceTypes' /\ NothingYet' /\ NoTokenLeft' /\ Judged'
  BY DEF EvidenceInv, finderVars, EvidenceTypes, NothingYet, NoTokenLeft, Judged, VerdictTells,
         Reckoned
<1>2. EveryCallIsTraced' /\ TelemetryIsServed'
  BY DEF EvidenceInv, finderVars, EveryCallIsTraced, TelemetryIsServed, Captured, Pending
<1>. QED
  BY <1>1, <1>2 DEF EvidenceInv

(* At first nothing is traced and nothing has been served. *)
LEMMA EvidenceStarts == ASSUME FinderInit PROVE EvidenceInv
<1>1. /\ \A t \in Threads : threads[t] = Idle
      /\ trace = EmptyBag /\ served = EmptyBag /\ reckoned = EmptyBag /\ prep = <<>>
      /\ arm = Nothing /\ header = FALSE /\ work = "prepare" /\ posted = 0 /\ finderLog = 0
      /\ retrieval = Nothing
  BY DEF FinderInit
<1>2. ThreadHolds(Idle)
  <2>1. Idle.left \in [DOMAIN Idle.left -> TraceRecords] /\ DOMAIN Idle.left \subseteq DOMAIN Idle.post
    BY DEF Idle
  <2>2. Idle.post \in Seq(Payload)
    BY EmptySeq DEF Idle
  <2>. QED
    BY <2>1, <2>2 DEF ThreadHolds, Idle
<1>3. threads = [t \in Threads |-> threads[t]]
  BY DEF FinderInit
<1>4. EvidenceTypes
  <2>1. FiniteBag(EmptyBag) /\ DOMAIN EmptyBag = {}
    BY CountOfNothing DEF EmptyBag, SetToBag
  <2>2. posted \in 0..MaxPosts
    BY <1>1, FinderAssumption
  <2>. QED
    BY <1>1, <1>2, <1>3, <2>1, <2>2 DEF EvidenceTypes
<1>5. IsFiniteSet(Threads)
  BY FinderAssumption
<1>6. Pending = 0
  <2>. DEFINE f == [t \in Threads |-> PendingOf(threads[t])]
  <2>1. \A t \in Threads : f[t] = 0
    BY <1>1 DEF Idle, PendingOf
  <2>. HIDE DEF f
  <2>2. SumOf(f, Threads) = 0
    BY <1>5, <2>1, SumOfZeros
  <2>. QED
    BY <2>2 DEF Pending, f
<1>7. ASSUME NEW K PROVE Captured(K) = 0
  <2>. DEFINE f == [t \in Threads |-> CapturedOf(threads[t], K)]
  <2>1. \A t \in Threads : f[t] = 0
    BY <1>1 DEF Idle, CapturedOf
  <2>. HIDE DEF f
  <2>2. SumOf(f, Threads) = 0
    BY <1>5, <2>1, SumOfZeros
  <2>. QED
    BY <2>2 DEF Captured, f
<1>8. \A P : Count(served, P) = 0 /\ Count(trace, P) = 0
  BY <1>1, CountOfNothing
<1>9. EveryCallIsTraced /\ TelemetryIsServed
  <2>1. ASSUME NEW K PROVE Count(served, ServedOf(K)) + Captured(K) <= Count(trace, RequestsOf(K))
    <3>1. Captured(K) = 0 /\ Count(served, ServedOf(K)) = 0 /\ Count(trace, RequestsOf(K)) = 0
      BY <1>7, <1>8
    <3>. QED
      BY <3>1
  <2>2. Count(trace, Told) + Pending <= Count(served, ServedTold)
    <3>1. Count(trace, Told) = 0 /\ Count(served, ServedTold) = 0
      BY <1>8
    <3>. QED
      BY <1>6, <3>1
  <2>. QED
    BY <2>1, <2>2 DEF EveryCallIsTraced, TelemetryIsServed
<1>10. NothingYet /\ NoTokenLeft /\ Judged
  <2>1. \A t \in Threads : threads[t].at = "idle"
    BY <1>1 DEF Idle
  <2>2. prep \in Seq({"endpoint", "proxy", "inventory", "client", "sgx", "isolation"})
        /\ DOMAIN prep = {}
    BY <1>1, EmptySeq
  <2>. QED
    BY <1>1, <2>1, <2>2 DEF NothingYet, NoTokenLeft, Judged
<1>. QED
  BY <1>4, <1>9, <1>10 DEF EvidenceInv

(* Every step keeps the evidence sound. *)
LEMMA EvidenceHolds == FinderSpec => []EvidenceInv
<1>1. FinderInit => EvidenceInv
  BY EvidenceStarts
<1>2. EvidenceInv /\ [FinderNext]_finderVars => EvidenceInv'
  <2>. SUFFICES ASSUME EvidenceInv, [FinderNext]_finderVars PROVE EvidenceInv'
    OBVIOUS
  <2>1. CASE ChooseArm
    BY <2>1, ArmKeeps
  <2>2. CASE \/ VerifyMCPEndpoint \/ InstallMCPTelemetryProxy \/ VerifyCLIFinderInventory
             \/ ConfigureMCPClient \/ InstallSgx \/ StageCacheIsolation
    BY <2>2, ToolsKeep
  <2>3. ASSUME NEW t \in Threads,
               \/ Post(t) \/ ProxyFails(t) \/ CaptureRequest(t)
               \/ Forward(t) \/ CaptureResponse(t) \/ SendReply(t)
        PROVE  EvidenceInv'
    <3>1. CASE Post(t)
      BY <3>1, PostKeeps
    <3>2. CASE ProxyFails(t) \/ SendReply(t)
      BY <3>2, IdleKeeps
    <3>3. CASE CaptureRequest(t) \/ CaptureResponse(t)
      BY <3>3, CaptureKeeps
    <3>4. CASE Forward(t)
      BY <3>4, ForwardKeeps
    <3>. QED
      BY <2>3, <3>1, <3>2, <3>3, <3>4
  <2>4. CASE AgentEnds
    BY <2>4, EndingKeeps
  <2>5. CASE CaptureMCPTelemetry
    BY <2>5, VerdictKeeps
  <2>6. CASE RouteCodeFinderRun
    BY <2>6, RoutingKeeps
  <2>7. CASE UNCHANGED finderVars
    BY <2>7, EvidenceStutters
  <2>. QED
    BY <2>1, <2>2, <2>3, <2>4, <2>5, <2>6, <2>7 DEF FinderNext
<1>. QED
  BY <1>1, <1>2, PTL DEF FinderSpec

(* The proxy's threads, its trace and the verdict hold what they are declared to. *)
THEOREM EvidenceIsTyped == FinderSpec => []FinderTypeOK
<1>1. EvidenceInv => FinderTypeOK
  <2>. SUFFICES ASSUME EvidenceInv PROVE FinderTypeOK
    OBVIOUS
  <2>1. /\ arm \in FinderArms \cup {Nothing} /\ header \in BOOLEAN
        /\ work \in {"prepare", "agent", "capture", "route", "infra", "counts", "invalid"}
        /\ posted \in 0..MaxPosts /\ finderLog \in Nat
        /\ IsABag(trace) /\ IsABag(served)
    BY DEF EvidenceInv, EvidenceTypes, FiniteBag
  <2>2. \A t \in Threads : threads[t].at \in {"idle", "request", "response"}
    BY DEF EvidenceInv, EvidenceTypes, ThreadHolds
  <2>3. \A r \in DOMAIN trace : r.dir \in {"request", "response"}
    BY DEF EvidenceInv, EvidenceTypes, TraceRecords
  <2>4. retrieval \in [valid : BOOLEAN, calls : Nat, inner : Nat] \cup {Nothing}
    BY DEF EvidenceInv, EvidenceTypes, Verdicts
  <2>. QED
    BY <2>1, <2>2, <2>3, <2>4 DEF FinderTypeOK
<1>. QED
  BY <1>1, EvidenceHolds, PTL

(* In a run that counts, every Code Finder call that reached Sourcegraph before the trace *)
(* was copied is in the numbers exactly once, answered and with its telemetry; a forced   *)
(* arm asked once per repository and nothing else; and no token file lies beside the      *)
(* agent of an MCP arm: whatever calls overlapped, failed or were lost on the way.        *)
THEOREM CallsAreServed == FinderSpec => []CountedCallsAreServed
<1>1. EvidenceInv => CountedCallsAreServed
  <2>. SUFFICES ASSUME EvidenceInv, work = "counts" PROVE CountedCallsAreServed
    BY DEF CountedCallsAreServed
  <2>1. VerdictTells
    BY DEF EvidenceInv, Judged
  <2>2. FiniteBag(reckoned) /\ DOMAIN reckoned \subseteq ServedCalls
    BY DEF EvidenceInv, EvidenceTypes
  <2>3. /\ HowMany(reckoned, LAMBDA c : c.tool = "code_finder")
             = Count(reckoned, ServedOf(FinderKind))
        /\ \A repo \in FinderRepos :
             HowMany(reckoned, LAMBDA c : c.tool = "code_finder" /\ c.repo = repo)
               = Count(reckoned, ServedOf(KindFor(repo)))
    BY <2>2, ServedNumbers
  <2>4. arm # "cli_code_finder" => ~header
    BY DEF EvidenceInv, NoTokenLeft
  <2>. QED
    BY <2>1, <2>3, <2>4 DEF CountedCallsAreServed, VerdictTells
<1>. QED
  BY <1>1, EvidenceHolds, PTL

-----------------------------------------------------------------------------
(* The slots                                                               *)

(* What remains of an account is what remains of its most used profile. *)
LEMMA RemainingIsLeast ==
    ASSUME NEW a
    PROVE  /\ FiveRemaining(a) \in 0..100 /\ SevenRemaining(a) \in 0..100
           /\ \A p \in ProfilesRead(a) :
                 /\ FiveRemaining(a) <= 100 - usageCache[p].five
                 /\ SevenRemaining(a) <= 100 - usageCache[p].seven
<1>. DEFINE Fives == {m.five : m \in Measurements(a)}
            Sevens == {m.seven : m \in Measurements(a)}
<1>1. \A m \in Measurements(a) : m \in Readings /\ m.five \in 0..100 /\ m.seven \in 0..100
  BY CapacityAssumption DEF Measurements, ProfilesRead
<1>2. Fives \in SUBSET (0..100) /\ Sevens \in SUBSET (0..100)
  BY <1>1
<1>3. \A p \in ProfilesRead(a) : usageCache[p].five \in Fives /\ usageCache[p].seven \in Sevens
  BY DEF Measurements
<1>4. CASE ProfilesRead(a) = {}
  BY <1>4 DEF FiveRemaining, SevenRemaining
<1>5. CASE ProfilesRead(a) # {}
  <2>1. Fives # {} /\ Sevens # {}
    BY <1>3, <1>5
  <2>2. FiveRemaining(a) = 100 - Max(Fives) /\ SevenRemaining(a) = 100 - Max(Sevens)
    BY <1>5 DEF FiveRemaining, SevenRemaining
  <2>. HIDE DEF Fives, Sevens
  <2>3. Max(Fives) \in Fives /\ \A y \in Fives : y <= Max(Fives)
    BY <1>2, <2>1, GreatestOf
  <2>4. Max(Sevens) \in Sevens /\ \A y \in Sevens : y <= Max(Sevens)
    BY <1>2, <2>1, GreatestOf
  <2>5. Max(Fives) \in 0..100 /\ Max(Sevens) \in 0..100
    BY <1>2, <2>3, <2>4
  <2>6. ASSUME NEW p \in ProfilesRead(a)
        PROVE  /\ FiveRemaining(a) <= 100 - usageCache[p].five
               /\ SevenRemaining(a) <= 100 - usageCache[p].seven
    <3>1. usageCache[p].five \in 0..100 /\ usageCache[p].five <= Max(Fives)
      BY <1>2, <1>3, <2>3
    <3>2. usageCache[p].seven \in 0..100 /\ usageCache[p].seven <= Max(Sevens)
      BY <1>2, <1>3, <2>4
    <3>3. \A x, y \in 0..100 : x <= y => 100 - y <= 100 - x
      OBVIOUS
    <3>4. 100 - Max(Fives) <= 100 - usageCache[p].five
      BY <2>5, <3>1, <3>3
    <3>5. 100 - Max(Sevens) <= 100 - usageCache[p].seven
      BY <2>5, <3>2, <3>3
    <3>. QED
      BY <2>2, <3>4, <3>5
  <2>. QED
    BY <2>2, <2>5, <2>6
<1>. QED
  BY <1>4, <1>5

Exhausted(a) ==
    \E p \in ProfilesRead(a) :
       \/ 100 - usageCache[p].five < SkipThreshold
       \/ 100 - usageCache[p].seven < SkipThreshold

(* An account that cannot be used has no score to speak of. *)
LEMMA ScoresAreSound ==
    ASSUME NEW a, NEW last
    PROVE  /\ CapacityScore(a, last) \in 0..100
           /\ Exhausted(a) \/ login[a] # "long" => CapacityScore(a, last) < SkipThreshold
<1>1. FiveRemaining(a) \in 0..100 /\ SevenRemaining(a) \in 0..100
  BY RemainingIsLeast
<1>2. EffectiveSeven(a, last) \in 0..100
      /\ (SevenRemaining(a) < SkipThreshold => EffectiveSeven(a, last) < SkipThreshold)
  BY <1>1 DEF EffectiveSeven, SkipThreshold
<1>3. ASSUME NEW x \in Int, NEW y \in Int
      PROVE  Min({x, y}) = IF x <= y THEN x ELSE y
  BY DEF Min
<1>4. Exhausted(a) => FiveRemaining(a) < SkipThreshold \/ SevenRemaining(a) < SkipThreshold
  <2>1. SUFFICES ASSUME NEW p \in ProfilesRead(a),
                        \/ 100 - usageCache[p].five < SkipThreshold
                        \/ 100 - usageCache[p].seven < SkipThreshold
                 PROVE  FiveRemaining(a) < SkipThreshold \/ SevenRemaining(a) < SkipThreshold
    BY DEF Exhausted
  <2>2. /\ FiveRemaining(a) <= 100 - usageCache[p].five
        /\ SevenRemaining(a) <= 100 - usageCache[p].seven
    BY RemainingIsLeast
  <2>3. usageCache[p].five \in 0..100 /\ usageCache[p].seven \in 0..100
    BY CapacityAssumption DEF ProfilesRead
  <2>. QED
    BY <1>1, <2>1, <2>2, <2>3 DEF SkipThreshold
<1>5. CASE login[a] # "long"
  BY <1>5 DEF CapacityScore, TokenOK, SkipThreshold
<1>6. CASE login[a] = "long"
  <2>1. CapacityScore(a, last) = Min({FiveRemaining(a), EffectiveSeven(a, last)})
    BY <1>6 DEF CapacityScore, TokenOK
  <2>2. CapacityScore(a, last) = IF FiveRemaining(a) <= EffectiveSeven(a, last)
                                 THEN FiveRemaining(a) ELSE EffectiveSeven(a, last)
    <3>1. FiveRemaining(a) \in Int /\ EffectiveSeven(a, last) \in Int
      BY <1>1, <1>2
    <3>2. Min({FiveRemaining(a), EffectiveSeven(a, last)})
            = IF FiveRemaining(a) <= EffectiveSeven(a, last)
              THEN FiveRemaining(a) ELSE EffectiveSeven(a, last)
      BY <1>3, <3>1
    <3>. QED
      BY <2>1, <3>2
  <2>. QED
    BY <1>1, <1>2, <1>4, <1>6, <2>2 DEF SkipThreshold
<1>. QED
  BY <1>5, <1>6

(* A quotient that is rounded is whole, and at most what it is a part of. *)
LEMMA RoundedIsWhole ==
    ASSUME NEW n \in Nat, NEW d \in Nat \ {0}
    PROVE  RoundedQuotient(n, d) \in Int
<1>. DEFINE q == (2 * n + d) \div (2 * d)
<1>1. 2 * n + d \in Int /\ 2 * d \in Int /\ 2 * d > 0
  OBVIOUS
<1>2. q \in Int
  BY <1>1
<1>3. RoundedQuotient(n, d) \in {q, q - 1}
  BY DEF RoundedQuotient
<1>. HIDE DEF q
<1>. QED
  BY <1>2, <1>3

LEMMA SharesAreBounded ==
    ASSUME NEW n \in Nat, NEW m \in Nat, n <= 95 * m
    PROVE  RoundedQuotient(n, 95) <= m /\ RoundedQuotient(n, 95) \in Int
<1>. DEFINE q == (2 * n + 95) \div (2 * 95)
<1>1. q \in Int /\ q <= m
  OBVIOUS
<1>2. RoundedQuotient(n, 95) \in {q, q - 1}
  BY DEF RoundedQuotient
<1>. HIDE DEF q
<1>. QED
  BY <1>1, <1>2

LEMMA AtLeastOneIs ==
    ASSUME NEW n \in Int
    PROVE  AtLeastOne(n) = IF n <= 1 THEN 1 ELSE n
  BY DEF AtLeastOne, Max

(* The plan for one account. *)
LEMMA PlanIsSafe ==
    ASSUME NEW a, NEW last
    PROVE  /\ Exhausted(a) \/ login[a] # "long" => RecommendedSlots(a, last) = 0
           /\ RecommendedSlots(a, last) <= MaxPerAccount
<1>1. CapacityScore(a, last) \in 0..100 /\ MaxPerAccount \in Nat \ {0}
  BY ScoresAreSound, CapacityAssumption
<1>2. CASE CapacityScore(a, last) < SkipThreshold
  BY <1>1, <1>2 DEF RecommendedSlots
<1>3. CASE ~(CapacityScore(a, last) < SkipThreshold)
  <2>. DEFINE c == CapacityScore(a, last) - SkipThreshold
              n == c * MaxPerAccount
  <2>1. c \in 0..95
    BY <1>1, <1>3 DEF SkipThreshold
  <2>2. n \in Nat /\ n <= 95 * MaxPerAccount
    <3>1. (95 - c) \in Nat /\ c \in Nat
      BY <2>1
    <3>. HIDE DEF c
    <3>2. \A x, y \in Nat : x * y \in Nat
      OBVIOUS
    <3>3. (95 - c) * MaxPerAccount \in Nat /\ c * MaxPerAccount \in Nat
      BY <1>1, <3>1, <3>2
    <3>4. (95 - c) * MaxPerAccount = 95 * MaxPerAccount - c * MaxPerAccount
      BY <1>1, <3>1
    <3>. QED
      BY <1>1, <3>3, <3>4
  <2>3. 100 - SkipThreshold = 95
    BY DEF SkipThreshold
  <2>4. RecommendedSlots(a, last) = AtLeastOne(RoundedQuotient(n, 95))
    BY <1>3, <2>3 DEF RecommendedSlots
  <2>. HIDE DEF n, c
  <2>5. RoundedQuotient(n, 95) \in Int /\ RoundedQuotient(n, 95) <= MaxPerAccount
    BY <1>1, <2>2, SharesAreBounded
  <2>6. AtLeastOne(RoundedQuotient(n, 95)) <= MaxPerAccount
    BY <1>1, <2>5, AtLeastOneIs
  <2>. QED
    BY <1>3, <2>4, <2>6, ScoresAreSound
<1>. QED
  BY <1>2, <1>3

(* The distribution among the accounts. *)
LEMMA DistributionIsSafe ==
    ASSUME NEW a \in Accounts, NEW last, NEW total \in Nat
    PROVE  /\ Exhausted(a) \/ login[a] # "long" => DistributedSlots(total, last)[a] = 0
           /\ DistributedSlots(total, last)[a] <= MaxPerAccount
<1>. DEFINE score == [b \in Accounts |-> CapacityScore(b, last)]
            sum == MapThenSumSet(LAMBDA b : score[b], Eligible(last))
            share == AtLeastOne(RoundedQuotient(score[a] * total, sum))
<1>1. MaxPerAccount \in Nat \ {0}
  BY CapacityAssumption
<1>2. \A b \in Accounts : score[b] = CapacityScore(b, last) /\ score[b] \in 0..100
  BY ScoresAreSound
<1>3. DistributedSlots(total, last)[a]
        = IF a \in Eligible(last) THEN Min({MaxPerAccount, share}) ELSE 0
  BY DEF DistributedSlots
<1>4. Exhausted(a) \/ login[a] # "long" => a \notin Eligible(last)
  <2>1. a \in Eligible(last) => CapacityScore(a, last) >= SkipThreshold
    BY DEF Eligible
  <2>. QED
    BY <2>1, ScoresAreSound DEF SkipThreshold
<1>5. CASE a \in Eligible(last)
  <2>1. IsFiniteSet(Eligible(last)) /\ \A b \in Eligible(last) : score[b] \in Nat
    <3>1. Eligible(last) \in SUBSET Accounts
      BY DEF Eligible
    <3>. QED
      BY <1>2, <3>1, CapacityAssumption, FS_Subset
  <2>2. sum = SumOf(score, Eligible(last))
    BY DEF SumOf
  <2>3. score[a] >= SkipThreshold
    BY <1>2, <1>5 DEF Eligible
  <2>. HIDE DEF score, sum
  <2>4. sum \in Nat \ {0}
    <3>1. SumOf(score, Eligible(last)) \in Nat
      BY <2>1, SumIsNat
    <3>2. score[a] <= SumOf(score, Eligible(last))
      BY <1>5, <2>1, MemberOfSum
    <3>. QED
      BY <1>2, <2>2, <2>3, <3>1, <3>2 DEF SkipThreshold
  <2>5. score[a] * total \in Nat
    <3>1. score[a] \in Nat
      BY <1>2
    <3>2. \A x, y \in Nat : x * y \in Nat
      OBVIOUS
    <3>. QED
      BY <3>1, <3>2
  <2>6. share \in Int
    <3>1. RoundedQuotient(score[a] * total, sum) \in Int
      BY <2>4, <2>5, RoundedIsWhole
    <3>. QED
      BY <3>1, AtLeastOneIs
  <2>. HIDE DEF share
  <2>7. Min({MaxPerAccount, share}) = IF MaxPerAccount <= share THEN MaxPerAccount ELSE share
    BY <1>1, <2>6 DEF Min
  <2>. QED
    BY <1>1, <1>3, <1>4, <1>5, <2>6, <2>7
<1>6. CASE a \notin Eligible(last)
  BY <1>1, <1>3, <1>6
<1>. QED
  BY <1>5, <1>6

(* An account gets sessions only where they can run, for any profiles and readings, any *)
(* bound of an account and any life of the logins: neither the plan for one account nor *)
(* the distribution gives a slot to one that is used up or has no login, and neither    *)
(* gives more than an account may have (recommended_slots, distribute_slots).           *)
THEOREM PlannedSlotsAreSafe == CapacitySpec => []SlotsAreSafe
<1>1. SlotsAreSafe
  <2>1. SUFFICES ASSUME NEW last \in [Accounts -> Profiles], NEW a \in Accounts,
                        NEW total \in 1..(MaxPerAccount + 1)
                 PROVE  /\ Exhausted(a) \/ login[a] # "long"
                             => {RecommendedSlots(a, last), DistributedSlots(total, last)[a]} = {0}
                        /\ \A n \in {RecommendedSlots(a, last), DistributedSlots(total, last)[a]} :
                              n <= MaxPerAccount
    BY DEF SlotsAreSafe, Exhausted
  <2>2. total \in Nat
    BY CapacityAssumption
  <2>. QED
    BY <2>2, PlanIsSafe, DistributionIsSafe
<1>. QED
  BY <1>1, PTL

-----------------------------------------------------------------------------
(* Types                                                                   *)

(* What GradingInv says of types is the type invariant. *)
THEOREM GradingIsTyped == GradingSpec => []GradingTypeOK
<1>1. GradingInv => GradingTypeOK
  BY DEF GradingInv
<1>. QED
  BY <1>1, GradingStarts, GradingSteps, PTL DEF GradingSpec

\* There are no more invocations than the bound, and one is under way or has been.
ChainTyped == ChainTypeOK /\ (chainPc # "idle" => chainRun \in 1..MaxChainRuns)

(* What an invocation writes has its number. *)
LEMMA ChainStaysTyped ==
    ASSUME ChainInv, ChainInv', ChainTyped, [ChainNext]_chainVars
    PROVE  ChainTyped'
<1>. DEFINE Scores == [by : 1..MaxChainRuns, score : {"number", "null", "torn"}] \cup {NoScoreFile}
            Exits == {"none", "success", "failure", "killed"}
            Rest == /\ chainRun' \in 0..MaxChainRuns
                    /\ branches' \in [Repos -> SUBSET Sessions]
                    /\ commits' \in [Repos -> [Sessions -> 0..MaxChainRuns]]
                    /\ scoreFile' \in Scores /\ chainExit' \in Exits
                    /\ chainPc' # "idle" => chainRun' \in 1..MaxChainRuns
<1>1. MaxChainRuns \in Nat /\ NSessions \in Nat /\ NRepos \in Nat
  BY ChainAssumption
<1>2. SUFFICES Rest
  <2>1. \A i \in DOMAIN verdicts' : verdicts'[i] \in ChainVerdicts
    <3>1. verdicts' \in Seq(ChainVerdicts)
      BY DEF ChainInv, ChainTypes
    <3>. QED
      BY <3>1, ElementOfSeq, LenProperties
  <2>. QED
    BY <2>1 DEF ChainTyped, ChainTypeOK, ChainInv, ChainTypes
<1>. USE DEF ChainTyped, ChainTypeOK
<1>3. CASE InvokeChain
  <2>1. PICK way \in {"malformed", "bare", "simulate"} : BeginChain(way)
    BY <1>3 DEF InvokeChain
  <2>2. chainRun' = chainRun + 1 /\ chainRun < MaxChainRuns /\ scoreFile' = NoScoreFile
        /\ chainExit' \in Exits
    BY <1>3, <2>1 DEF InvokeChain, BeginChain
  <2>3. branches' \in [Repos -> SUBSET Sessions]
        /\ commits' \in [Repos -> [Sessions -> 0..MaxChainRuns]]
    <3>1. CASE EmptyWorkspace
      BY <1>1, <3>1 DEF EmptyWorkspace
    <3>2. CASE UNCHANGED <<branches, head, commits>>
      BY <3>2
    <3>. QED
      BY <2>1, <3>1, <3>2 DEF BeginChain
  <2>. QED
    BY <1>1, <2>2, <2>3
<1>4. CASE DryRunChain
  BY <1>4 DEF DryRunChain
<1>5. CASE RunSession \/ SessionFails
  <2>1. /\ chainRun' = chainRun /\ scoreFile' = scoreFile /\ chainExit' = chainExit
        /\ chainPc = "session" /\ session + 1 \in Sessions
    BY <1>1, <1>5 DEF RunSession, SessionFails, SessionFrame, ChainInv, OnlyWhileSound, Sessions
  <2>2. PICK j, k \in 0..NRepos :
           BranchedUpTo(j, session + 1) /\ (CommittedUpTo(k, session + 1) \/ UNCHANGED commits)
    BY <1>1, <1>5 DEF RunSession, SessionFails, GaveUpAt
  <2>3. branches' \in [Repos -> SUBSET Sessions]
    BY <2>1, <2>2 DEF BranchedUpTo
  <2>4. commits' \in [Repos -> [Sessions -> 0..MaxChainRuns]]
    <3>1. CASE CommittedUpTo(k, session + 1)
      BY <2>1, <3>1 DEF CommittedUpTo
    <3>. QED
      BY <2>2, <3>1
  <2>. QED
    BY <2>1, <2>3, <2>4
<1>6. CASE RunMilestones \/ RunCheckpoints
  BY <1>6 DEF RunMilestones, RunCheckpoints, ScoreFrame
<1>7. CASE ComputeTotalScore
  BY <1>7 DEF ComputeTotalScore
<1>8. CASE SaveScore
  <2>1. ChainTotal \in {"null", "number"}
    BY DEF ChainTotal
  <2>. QED
    BY <1>8, <2>1 DEF SaveScore
<1>9. CASE KillRunner
  BY <1>9 DEF KillRunner
<1>10. CASE UNCHANGED chainVars
  BY <1>10 DEF chainVars
<1>. QED
  BY <1>3, <1>4, <1>5, <1>6, <1>7, <1>8, <1>9, <1>10 DEF ChainNext

(* The runner, the workspace and the score file hold what they are declared to. *)
THEOREM ChainIsTyped == ChainSpec => []ChainTypeOK
<1>1. ChainInit => ChainTyped
  <2>. SUFFICES ASSUME ChainInit PROVE ChainTyped
    OBVIOUS
  <2>1. ChainInv
    BY ChainStarts
  <2>2. MaxChainRuns \in Nat
    BY ChainAssumption
  <2>. QED
    BY <2>1, <2>2 DEF ChainInit, ChainInv, ChainTypes, ChainTyped, ChainTypeOK
<1>2. ChainInv /\ ChainTyped /\ [ChainNext]_chainVars => ChainInv' /\ ChainTyped'
  BY ChainSteps, ChainStaysTyped
<1>3. ChainTyped => ChainTypeOK
  BY DEF ChainTyped
<1>. QED
  BY <1>1, <1>2, <1>3, ChainStarts, PTL DEF ChainSpec

(* The agent comes upon no repository but those there are, and is told of mirrors only. *)
THEOREM AuditIsTyped == AuditSpec => []AuditTypeOK
<1>1. AuditInit => AuditTypeOK
  BY DEF AuditInit, AuditTypeOK
<1>2. AuditTypeOK /\ [AuditNext]_auditVars => AuditTypeOK'
  <2>. SUFFICES ASSUME AuditTypeOK, [AuditNext]_auditVars PROVE AuditTypeOK'
    OBVIOUS
  <2>. USE DEF AuditTypeOK, IsMirror
  <2>1. CASE EditPin \/ EndRun
    BY <2>1 DEF EditPin, EndRun
  <2>2. CASE TellAgent
    <3>1. UNCHANGED <<torn, context>> /\ auditedRun = "before"
      BY <2>2 DEF TellAgent
    <3>2. \A m \in preamble' : IsMirror(m)
      BY <2>2 DEF TellAgent
    <3>. QED
      BY <3>1, <3>2
  <2>3. ASSUME NEW asked, NEW sources \in {{}} \cup {{r} : r \in AgentRepos},
               CallTool(asked, sources)
        PROVE  AuditTypeOK'
    BY <2>3 DEF CallTool
  <2>4. CASE UNCHANGED auditVars
    BY <2>4 DEF auditVars
  <2>. QED
    BY <2>1, <2>2, <2>3, <2>4 DEF AuditNext
<1>. QED
  BY <1>1, <1>2, PTL DEF AuditSpec

\* What the creator pushes to is there.
MirrorsTyped ==
    /\ MirrorsTypeOK
    /\ creator.at \in {"push", "declined", "pushed", "refused"} =>
          \A m \in creator.mirror : hosted[m] # "absent"

(* Only what is hosted is private, and only the manifest's mirrors are created. *)
LEMMA MirrorsStayTyped ==
    ASSUME MirrorsInv, MirrorsInv', MirrorsTyped, [MirrorsNext]_mirrorVars
    PROVE  MirrorsTyped'
<1>. USE DEF MirrorsTyped, MirrorsTypeOK
<1>1. hosted' \in [Manifest -> {"absent", "empty", "full"}]
      /\ creator = [at |-> creator.at, mirror |-> creator.mirror, again |-> creator.again]
  BY DEF MirrorsInv, CreatorTypes
<1>2. CASE StartCreating \/ TakeMirror \/ FinishCreating \/ KillCreator
  BY <1>1, <1>2 DEF StartCreating, TakeMirror, FinishCreating, KillCreator, CreatorIdle
<1>3. CASE GenerateIndex \/ StartCheck \/ EndCheck
  BY <1>3 DEF GenerateIndex, StartCheck, EndCheck, creatorVars
<1>4. ASSUME NEW m \in Manifest, ProbeMirror(m) PROVE MirrorsTyped'
  <2>1. /\ \/ UNCHANGED <<hosted, private>>
           \/ hosted' = [hosted EXCEPT ![m] = "absent"] /\ private' = private \ {m}
        /\ toCreate' \subseteq Manifest /\ failedMirrors' \subseteq Manifest
        /\ creator'.at \in {"next", "create"}
    BY <1>1, <1>4 DEF ProbeMirror, Settled, GoTo, CreatorIdle
  <2>. QED
    BY <1>1, <2>1
<1>5. ASSUME NEW m \in Manifest, CreateRepo(m) \/ PushContent(m) \/ PushPrivately(m) \/ RestorePublic(m)
      PROVE  MirrorsTyped'
  <2>1. /\ toCreate' \subseteq Manifest /\ failedMirrors' \subseteq Manifest
        /\ creator.mirror = {m}
        /\ creator'.at \in {"next", "probe"} \/ creator'.mirror = {m}
        /\ \A n \in Manifest \ {m} : hosted'[n] = hosted[n]
        /\ hosted[m] # "absent" => hosted'[m] # "absent"
    BY <1>1, <1>5 DEF CreateRepo, PushContent, PushPrivately, RestorePublic, Settled, GoTo,
       AgainOrFail, CreatorIdle, At
  <2>2. creator'.at \in {"push", "declined", "pushed", "refused"} => hosted'[m] # "absent"
    BY <1>1, <1>5 DEF CreateRepo, PushContent, PushPrivately, RestorePublic, Settled, GoTo,
       AgainOrFail, CreatorIdle, At
  <2>3. private' \subseteq private \/ (private' = private \cup {m} /\ hosted[m] # "absent")
    BY <1>1, <1>5 DEF CreateRepo, PushContent, PushPrivately, RestorePublic, At
  <2>. QED
    BY <1>1, <2>1, <2>2, <2>3
<1>6. ASSUME NEW m \in Manifest, NEW status, SyncInstance(m, status) PROVE MirrorsTyped'
  BY <1>6 DEF SyncInstance, creatorVars
<1>7. ASSUME NEW m \in Manifest, NEW answer, CheckOne(m, answer) PROVE MirrorsTyped'
  BY <1>7 DEF CheckOne, creatorVars
<1>8. CASE UNCHANGED mirrorVars
  BY <1>8 DEF mirrorVars, creatorVars
<1>. QED
  BY <1>2, <1>3, <1>4, <1>5, <1>6, <1>7, <1>8 DEF MirrorsNext

(* Mirrors are the manifest's, and what a check finds is of one of them. *)
THEOREM MirrorsAreTyped == MirrorsSpec => []MirrorsTypeOK
<1>1. MirrorsInit => MirrorsTyped
  BY DEF MirrorsInit, MirrorsTyped, MirrorsTypeOK, CreatorIdle
<1>2. MirrorsInv /\ MirrorsTyped /\ [MirrorsNext]_mirrorVars => MirrorsInv' /\ MirrorsTyped'
  BY MirrorsSteps, MirrorsStayTyped
<1>3. MirrorsTyped => MirrorsTypeOK
  BY DEF MirrorsTyped
<1>. QED
  BY <1>1, <1>2, <1>3, MirrorsStart, PTL DEF MirrorsSpec

HealthTyped == HealthTypeOK /\ commandsRun \in Nat

LEMMA HealthStaysTyped ==
    ASSUME HealthInv', HealthTyped, [HealthNext]_healthVars
    PROVE  HealthTyped'
<1>. USE DEF HealthTyped, HealthTypeOK, Lives
<1>1. operatorHolds' \subseteq Homes
  BY DEF HealthInv, HealthTypes
<1>2. MaxCommands \in Nat
  BY HealthAssumption
<1>3. ASSUME UNCHANGED <<life, refreshes>>, commandsRun' = commandsRun
      PROVE  HealthTyped'
  BY <1>1, <1>3
<1>4. ASSUME NEW k, NEW op, NEW home, NEW who, NEW draft, Loads(k, op, home, who, draft)
      PROVE  HealthTyped'
  BY <1>1, <1>2, <1>4 DEF Loads
<1>5. ASSUME NEW k \in Commands, CollectAccountStatus(k) PROVE HealthTyped'
  BY <1>4, <1>5 DEF CollectAccountStatus
<1>6. ASSUME NEW k \in Commands,
             OpensTemp(k) \/ WritesTemp(k) \/ ReplacesState(k) \/ CommandDies(k)
      PROVE  HealthTyped'
  BY <1>3, <1>6 DEF OpensTemp, WritesTemp, ReplacesState, CommandDies, Returns
<1>7. ASSUME NEW k \in Commands, NEW h \in Homes,
             SetManualHold(k, h) \/ ClearManualHold(k, h) \/ MarkRateLimit(k, h)
      PROVE  HealthTyped'
  BY <1>4, <1>7 DEF SetManualHold, ClearManualHold, MarkRateLimit
<1>8. ASSUME NEW k \in Commands, NEW h \in Homes, NEW l \in Launchers,
             MarkAssignment(k, l, h) \/ EndAssignment(k, l, h)
      PROVE  HealthTyped'
  BY <1>4, <1>8 DEF MarkAssignment, EndAssignment
<1>9. ASSUME NEW l \in Launchers, LauncherDies(l) PROVE HealthTyped'
  BY <1>3, <1>9 DEF LauncherDies
<1>10. ASSUME NEW h \in Homes, TokenAges(h) \/ RefreshToken(h) \/ LogIn(h) PROVE HealthTyped'
  BY <1>1, <1>10 DEF TokenAges, RefreshToken, LogIn
<1>11. CASE UNCHANGED healthVars
  BY <1>3, <1>11 DEF healthVars
<1>. QED
  BY <1>5, <1>6, <1>7, <1>8, <1>9, <1>10, <1>11 DEF HealthNext

(* Logins, holds and the number of commands. *)
THEOREM HealthIsTyped == HealthSpec => []HealthTypeOK
<1>1. HealthInit => HealthTyped
  BY HealthAssumption DEF HealthInit, HealthTyped, HealthTypeOK, Lives
<1>2. HealthInv /\ HealthTyped /\ [HealthNext]_healthVars => HealthInv' /\ HealthTyped'
  BY HealthSteps, HealthStaysTyped
<1>3. HealthTyped => HealthTypeOK
  BY DEF HealthTyped
<1>. QED
  BY <1>1, <1>2, <1>3, HealthStarts, PTL DEF HealthSpec
=============================================================================
