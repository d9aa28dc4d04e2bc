------------------------------- MODULE Mirrors -------------------------------
(***************************************************************************)
(* The mirrors that tasks are pinned to: their creation on GitHub by         *)
(* create_sg_mirrors.py, whose calls may fail and which may be killed, and   *)
(* the report of verify_sg_indexing.py on what the Sourcegraph instance has  *)
(* of them, which changes while the report is made.                          *)
(***************************************************************************)
EXTENDS Naturals, FiniteSets

CONSTANTS
    TaskPins,       \* the tasks' pins: records [repo |-> its name, rev |-> ...]
    MaxCreations,   \* bound: invocations of the creator
    MaxSyncs        \* bound: changes on the instance

ASSUME MirrorAssumption ==
    /\ MaxCreations \in Nat /\ MaxSyncs \in Nat
    /\ \A pin \in TaskPins : {"repo", "rev"} \subseteq DOMAIN pin

\* The manifest: pins that give one name are one mirror.
DeriveMirrorName(pin) == <<pin.repo, pin.rev>>
Manifest == {DeriveMirrorName(pin) : pin \in TaskPins}

VARIABLES
    hosted,        \* on GitHub, a mirror is "absent", "empty" or "full"
    private,       \* those that GitHub shows to nobody else
    creator,       \* what the creator is at: [at, mirror, again]
    toCreate, failedMirrors,
    skipped,       \* mirrors left out since one of their name was listed
    creatorExit,   \* "none", "ok" or "failed"
    creations,
    instance,      \* what the instance says: "ABSENT", "NONE" or "PRECISE"
    sgIndex,       \* configs/sg_indexing_list.json: the mirrors it has a sg_name of
    indexReport,   \* status by mirror, of those checked so far
    checking,      \* "no", "yes", "conclusive" or "inconclusive"
    onInstance,         \* history: what the instance had of a mirror during the check
    syncs

creatorVars == <<creator, toCreate, failedMirrors, skipped, creatorExit, creations>>
indexVars   == <<sgIndex, indexReport, checking>>
mirrorVars  == <<hosted, private, creatorVars, instance, indexVars, onInstance, syncs>>

CreatorIdle == [at |-> "idle", mirror |-> {}, again |-> FALSE]

MirrorsInit ==
    /\ hosted = [m \in Manifest |-> "absent"] /\ private = {}
    /\ creator = CreatorIdle
    /\ toCreate = {} /\ failedMirrors = {} /\ skipped = {}
    /\ creatorExit = "none" /\ creations = 0
    /\ instance = [m \in Manifest |-> "ABSENT"]
    /\ sgIndex = {} /\ indexReport = <<>> /\ checking = "no"
    /\ onInstance = {} /\ syncs = 0

-----------------------------------------------------------------------------
(* create_mirror, one call at a time.                                       *)

At(step, m) == creator.at = step /\ creator.mirror = {m}

GoTo(step) == creator' = [creator EXCEPT !.at = step]

\* The next mirror is taken up, or there is none left (in any order).
Settled(m, ok) ==
    /\ creator' = [CreatorIdle EXCEPT !.at = "next"]
    /\ toCreate' = toCreate \ {m}
    /\ failedMirrors' = IF ok THEN failedMirrors ELSE failedMirrors \cup {m}

\* execute_mirrors: with skip_existing, what is listed is done.  A listing that fails
\* lists nothing.
StartCreating ==
    /\ creator.at = "idle" /\ creations < MaxCreations
    /\ creations' = creations + 1
    /\ \E existing \in {{}, {m \in Manifest : hosted[m] # "absent"}} :
          /\ skipped' = existing
          /\ toCreate' = Manifest \ existing
    /\ failedMirrors' = {} /\ creatorExit' = "none"
    /\ creator' = [CreatorIdle EXCEPT !.at = "next"]
    /\ UNCHANGED <<hosted, private, instance, indexVars, onInstance, syncs>>

TakeMirror ==
    /\ creator.at = "next"
    /\ \E m \in toCreate : creator' = [at |-> "probe", mirror |-> {m}, again |-> FALSE]
    /\ UNCHANGED <<hosted, private, toCreate, failedMirrors, skipped, creatorExit,
                   creations, instance, indexVars, onInstance, syncs>>

\* Mutant: a repository of that name is a mirror.
HasContentByName(m, counted) == TRUE

\* The commits of a repository are counted; a count that fails counts as none.
HasContent(m, counted) == counted /\ hosted[m] = "full"

\* The view, the count of the commits and the deletion may each fail.
ProbeMirror(m) ==
    /\ At("probe", m)
    /\ \E viewed, counted, deleted \in BOOLEAN :
          LET exists == viewed /\ hosted[m] # "absent"
          IN  \/ /\ exists /\ HasContent(m, counted)
                 /\ Settled(m, TRUE) /\ UNCHANGED <<hosted, private>>
              \/ /\ exists /\ ~HasContent(m, counted) /\ ~deleted
                 /\ Settled(m, FALSE) /\ UNCHANGED <<hosted, private>>
              \/ /\ exists /\ ~HasContent(m, counted) /\ deleted
                 /\ hosted' = [hosted EXCEPT ![m] = "absent"]
                 /\ private' = private \ {m}
                 /\ GoTo("create") /\ UNCHANGED <<toCreate, failedMirrors>>
              \/ /\ ~exists
                 /\ GoTo("create") /\ UNCHANGED <<hosted, private, toCreate, failedMirrors>>
    /\ UNCHANGED <<skipped, creatorExit, creations, instance, indexVars, onInstance, syncs>>

\* Mutant: the answer to the retry is not looked at.
AgainOrForget(m) ==
    IF creator.again THEN Settled(m, TRUE)
    ELSE /\ creator' = [creator EXCEPT !.at = "probe", !.again = TRUE]
         /\ UNCHANGED <<toCreate, failedMirrors>>

\* "too quickly": once more, from the beginning, after a minute.
AgainOrFail(m) ==
    IF creator.again THEN Settled(m, FALSE)
    ELSE /\ creator' = [creator EXCEPT !.at = "probe", !.again = TRUE]
         /\ UNCHANGED <<toCreate, failedMirrors>>

\* The hash is resolved and the repository created, public and empty.
CreateRepo(m) ==
    /\ At("create", m)
    /\ \/ /\ hosted[m] = "absent"
          /\ hosted' = [hosted EXCEPT ![m] = "empty"]
          /\ GoTo("push") /\ UNCHANGED <<toCreate, failedMirrors>>
       \/ Settled(m, FALSE) /\ UNCHANGED hosted
       \/ AgainOrFail(m) /\ UNCHANGED hosted
    /\ UNCHANGED <<private, skipped, creatorExit, creations, instance, indexVars, onInstance, syncs>>

\* The archive of the upstream is fetched, committed and pushed.
PushContent(m) ==
    /\ At("push", m)
    /\ \/ hosted' = [hosted EXCEPT ![m] = "full"] /\ Settled(m, TRUE)
       \/ Settled(m, FALSE) /\ UNCHANGED hosted
       \/ GoTo("declined") /\ UNCHANGED <<hosted, toCreate, failedMirrors>>
    /\ UNCHANGED <<private, skipped, creatorExit, creations, instance, indexVars, onInstance, syncs>>

\* Push protection declines what looks like a key in a public repository, so it is made
\* private for the push; that this succeeds is not looked at.
PushPrivately(m) ==
    /\ At("declined", m)
    /\ \E hidden, pushed \in BOOLEAN :
          /\ pushed => hidden
          /\ private' = IF hidden THEN private \cup {m} ELSE private
          /\ hosted' = IF pushed THEN [hosted EXCEPT ![m] = "full"] ELSE hosted
          /\ GoTo(IF pushed THEN "pushed" ELSE "refused")
    /\ UNCHANGED <<toCreate, failedMirrors, skipped, creatorExit, creations, instance,
                   indexVars, onInstance, syncs>>

\* Mutant: it is public again, so it is done.
PushedAnyhow(m) == TRUE

PushedPrivately(m) == At("pushed", m)

\* It is made public again whatever became of the push, which may fail unnoticed.
RestorePublic(m) ==
    /\ At("pushed", m) \/ At("refused", m)
    /\ private' \in {private, private \ {m}}
    /\ Settled(m, PushedPrivately(m))
    /\ UNCHANGED <<hosted, skipped, creatorExit, creations, instance, indexVars, onInstance, syncs>>

FinishCreating ==
    /\ creator.at = "next" /\ toCreate = {}
    /\ creatorExit' = IF failedMirrors = {} THEN "ok" ELSE "failed"
    /\ creator' = CreatorIdle
    /\ UNCHANGED <<hosted, private, toCreate, failedMirrors, skipped, creations, instance,
                   indexVars, onInstance, syncs>>

\* A kill leaves GitHub as it is.
KillCreator ==
    /\ creator.at # "idle"
    /\ creator' = CreatorIdle /\ toCreate' = {} /\ failedMirrors' = {} /\ skipped' = {}
    /\ UNCHANGED <<hosted, private, creatorExit, creations, instance, indexVars, onInstance, syncs>>

-----------------------------------------------------------------------------
(* The instance, and the check of what it has (verify_sg_indexing.py).      *)

\* The instance finds a mirror, loses it, or gets an index of it (external).
SyncInstance(m, status) ==
    /\ syncs < MaxSyncs
    /\ syncs' = syncs + 1
    /\ \/ instance[m] = "ABSENT" /\ status = "NONE" /\ hosted[m] # "absent" /\ m \notin private
       \/ instance[m] = "NONE" /\ status = "PRECISE" /\ hosted[m] = "full"
       \/ status = "ABSENT" /\ instance[m] # "ABSENT"
          /\ (hosted[m] = "absent" \/ m \in private)
    /\ instance' = [instance EXCEPT ![m] = status]
    /\ onInstance' = onInstance \cup {<<m, status>>}
    /\ UNCHANGED <<hosted, private, creatorVars, indexVars>>

\* generate_sg_index.py writes one entry for each mirror that a file in configs/sg_mirrors
\* tells of, and the list may be old: mirrors that tasks are pinned to are missing in it.
\* An entry without its sg_name is passed over (mirror_names).
GenerateIndex ==
    /\ checking = "no"
    /\ sgIndex' \in SUBSET Manifest
    /\ UNCHANGED <<hosted, private, creatorVars, instance, indexReport, checking, onInstance, syncs>>

StartCheck ==
    /\ checking = "no"
    /\ checking' = "yes"
    /\ onInstance' = {<<m, instance[m]>> : m \in Manifest}
    /\ UNCHANGED <<hosted, private, creatorVars, instance, sgIndex, indexReport, syncs>>

\* What comes back: the whole answer, one without the uploads, or nothing that can be read.
InstanceAnswers == {"whole", "no uploads", "unreadable"}

\* Mutant: no count of uploads is a count of none.
CheckRepoIndexLoosely(m, answer) ==
    CASE answer = "whole" -> instance[m] [] answer = "no uploads" -> "NONE" [] OTHER -> "UNKNOWN"

\* check_repo_index: only what the instance says in so many words is a finding.
CheckRepoIndex(m, answer) == IF answer = "whole" THEN instance[m] ELSE "UNKNOWN"

CheckOne(m, answer) ==
    /\ checking = "yes" /\ m \in sgIndex \ DOMAIN indexReport
    /\ indexReport' = [n \in DOMAIN indexReport \cup {m} |->
                          IF n = m THEN CheckRepoIndex(m, answer) ELSE indexReport[n]]
    /\ UNCHANGED <<hosted, private, creatorVars, instance, sgIndex, checking, onInstance, syncs>>

\* Mutant: nothing checked, nothing unknown.
ConclusiveVacuously == \A m \in DOMAIN indexReport : indexReport[m] # "UNKNOWN"

Conclusive ==
    /\ DOMAIN indexReport # {}
    /\ \A m \in DOMAIN indexReport : indexReport[m] # "UNKNOWN"

\* The exit code of --check-api.
EndCheck ==
    /\ checking = "yes" /\ DOMAIN indexReport = sgIndex
    /\ checking' = IF Conclusive THEN "conclusive" ELSE "inconclusive"
    /\ UNCHANGED <<hosted, private, creatorVars, instance, sgIndex, indexReport, onInstance, syncs>>

MirrorsNext ==
    \/ StartCreating \/ TakeMirror \/ FinishCreating \/ KillCreator
    \/ GenerateIndex \/ StartCheck \/ EndCheck
    \/ \E m \in Manifest :
          \/ ProbeMirror(m) \/ CreateRepo(m) \/ PushContent(m) \/ PushPrivately(m)
          \/ RestorePublic(m)
          \/ \E status \in {"ABSENT", "NONE", "PRECISE"} : SyncInstance(m, status)
          \/ \E answer \in InstanceAnswers : CheckOne(m, answer)

MirrorsSpec == MirrorsInit /\ [][MirrorsNext]_mirrorVars

-----------------------------------------------------------------------------
MirrorsTypeOK ==
    /\ hosted \in [Manifest -> {"absent", "empty", "full"}]
    /\ private \subseteq {m \in Manifest : hosted[m] # "absent"}
    /\ toCreate \subseteq Manifest /\ failedMirrors \subseteq Manifest

(* An exit of 0 may be built on: every mirror of the manifest has its        *)
(* content, save those left out since a repository of their name was listed, *)
(* and those are there at least; whatever failed, was tried again, or had    *)
(* been left by a creator that was killed (execute_mirrors, create_mirror).  *)
MirrorsAreReady ==
    creatorExit = "ok" /\ creator = CreatorIdle =>
        \A m \in Manifest : hosted[m] = "full" \/ (m \in skipped /\ hosted[m] # "absent")

(* A conclusive report is of some mirror, says something of every mirror in *)
(* the list, and nothing that was not so on the instance while the check    *)
(* ran (check_all, conclusive).  Of a mirror that the list lacks it says    *)
(* nothing, though tasks may be pinned to it.                               *)
IndexReportIsTrue ==
    checking = "conclusive" =>
        /\ DOMAIN indexReport = sgIndex /\ sgIndex # {}
        /\ \A m \in sgIndex : <<m, indexReport[m]>> \in onInstance

(* What the creator of mirrors and the check of the instance say of the     *)
(* mirrors is so.                                                           *)
MirrorClaimsHold == MirrorsAreReady /\ IndexReportIsTrue
=============================================================================
