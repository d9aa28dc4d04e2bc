----------------------------- MODULE ReportProofs -----------------------------
(***************************************************************************)
(* Reports and what they are made from.  StudyCapsule for every study,     *)
(* every set of emitters and every number of attempts: no trial has two    *)
(* receipts but by a line that comes late, and what a report of the log    *)
(* has admitted stands in the later ones.  AttemptReports for every tree   *)
(* and whatever runs leave in it: the two reports take the same attempts,  *)
(* and no rerun replaces a published one.  TraceBilling for every number   *)
(* of requests, lines and totals: a run is billed no more than it spent,   *)
(* and all of what its trace tells.                                        *)
(* AgentTelemetry for every number of steps: what a harness says of its    *)
(* spending was billed, and a proof of cache isolation is one.             *)
(***************************************************************************)
EXTENDS StudyCapsule, AttemptReports, TraceBilling, AgentTelemetry, SumTheorems,
        SequenceTheorems, FiniteSetTheorems, WellFoundedInduction, TLAPS

-----------------------------------------------------------------------------
(* Numbers                                                                 *)

(* A finite set that a relation orders, if only in part, has a member that *)
(* no other comes before.                                                  *)
LEMMA FirstOf ==
    ASSUME NEW S, IsFiniteSet(S), S # {}, NEW R,
           \A x \in S : <<x, x>> \notin R,
           \A x, y, z \in S : <<x, y>> \in R /\ <<y, z>> \in R => <<x, z>> \in R
    PROVE  \E x \in S : \A y \in S : <<y, x>> \notin R
<1>. DEFINE Under(x) == {y \in S : <<y, x>> \in R}
            Sizes == {Cardinality(Under(x)) : x \in S}
<1>1. \A x \in S : IsFiniteSet(Under(x)) /\ Cardinality(Under(x)) \in Nat
  <2>. SUFFICES ASSUME NEW x \in S
                PROVE  IsFiniteSet(Under(x)) /\ Cardinality(Under(x)) \in Nat
    OBVIOUS
  <2>1. Under(x) \in SUBSET S
    OBVIOUS
  <2>. HIDE DEF Under
  <2>. QED
    BY <2>1, FS_Subset, FS_CardinalityType
<1>2. Sizes \in SUBSET Nat /\ Sizes # {}
  <2>. HIDE DEF Under
  <2>. QED
    BY <1>1
<1>3. PICK n \in Sizes : \A m \in Sizes : n <= m
  <2>. HIDE DEF Sizes
  <2>. QED
    BY <1>2, LeastOf
<1>4. PICK x \in S : n = Cardinality(Under(x))
  <2>. HIDE DEF Under
  <2>. QED
    BY <1>3
<1>5. ASSUME NEW y \in S, <<y, x>> \in R PROVE FALSE
  <2>1. Under(y) \subseteq Under(x) /\ y \in Under(x) /\ y \notin Under(y)
    BY <1>5
  <2>. HIDE DEF Under
  <2>2. Under(y) \in SUBSET Under(x) /\ Under(y) # Under(x)
    BY <2>1
  <2>3. Cardinality(Under(y)) < Cardinality(Under(x))
    BY <1>1, <2>2, FS_Subset
  <2>4. Cardinality(Under(x)) <= Cardinality(Under(y))
    BY <1>3, <1>4
  <2>. QED
    BY <1>1, <2>3, <2>4
<1>. QED
  BY <1>5

(* The least and the greatest of finitely many integers.                   *)
LEMMA MinMaxOf ==
    ASSUME NEW S \in SUBSET Int, IsFiniteSet(S), S # {}
    PROVE  /\ Min(S) \in S /\ \A y \in S : Min(S) <= y
           /\ Max(S) \in S /\ \A y \in S : Max(S) >= y
<1>1. \E x \in S : \A y \in S : x <= y
  <2>. DEFINE R == {p \in S \X S : p[1] < p[2]}
  <2>1. \A x, y \in S : <<x, y>> \in R <=> x < y
    OBVIOUS
  <2>. HIDE DEF R
  <2>2. \A x \in S : <<x, x>> \notin R
    BY <2>1
  <2>3. \A x, y, z \in S : <<x, y>> \in R /\ <<y, z>> \in R => <<x, z>> \in R
    BY <2>1
  <2>4. PICK x \in S : \A y \in S : <<y, x>> \notin R
    BY <2>2, <2>3, FirstOf
  <2>5. \A y \in S : ~(y < x)
    BY <2>1, <2>4
  <2>. QED
    BY <2>5
<1>2. \E x \in S : \A y \in S : x >= y
  <2>. DEFINE R == {p \in S \X S : p[1] > p[2]}
  <2>1. \A x, y \in S : <<x, y>> \in R <=> x > y
    OBVIOUS
  <2>. HIDE DEF R
  <2>2. \A x \in S : <<x, x>> \notin R
    BY <2>1
  <2>3. \A x, y, z \in S : <<x, y>> \in R /\ <<y, z>> \in R => <<x, z>> \in R
    BY <2>1
  <2>4. PICK x \in S : \A y \in S : <<y, x>> \notin R
    BY <2>2, <2>3, FirstOf
  <2>5. \A y \in S : ~(y > x)
    BY <2>1, <2>4
  <2>. QED
    BY <2>5
<1>. QED
  BY <1>1, <1>2 DEF Min, Max

-----------------------------------------------------------------------------
(* The log                                                                 *)

LogTypes ==
    /\ studySpec \in CapsulePolicies
    /\ receiptLog \in Seq(Receipts)
    /\ logTail \in {"whole", "unended", "torn"}
    /\ logOwner \in Emitters \cup {Nobody}
    /\ emitterPc \in [Emitters -> EmitterPlaces]
    /\ receiptOf \in [Emitters -> Receipts \cup {Nobody}]
    /\ late \subseteq Trials

(* A trial that may be put on record: only a late line can have been first.*)
Fresh(trial) == OnRecord(trial) => trial \in late

(* Where a line has been begun, and its end may still come.                *)
Completing == {"writing", "latePart"}

Sole(e) == \A f \in Emitters \ {e} : emitterPc[f] \notin {"checked"} \cup Completing

(* Who is past the lock holds it, unless the disk was full, and has a      *)
(* receipt; what it checked still holds but for late lines; and only one   *)
(* can complete a line, behind which nobody has checked another.           *)
OwnerAlone ==
    \A e \in Emitters :
        /\ emitterPc[e] \in {"locked", "checked", "writing", "written"} => logOwner = e
        /\ emitterPc[e] \notin {"none", "running"} => receiptOf[e] \in Receipts
        /\ emitterPc[e] \in {"checked"} \cup Completing => Fresh(receiptOf[e].trial)
        /\ emitterPc[e] \in Completing => logTail = "torn" /\ Sole(e)

LogInv == LogTypes /\ OwnerAlone /\ TrialRecordedOnce

(* What a step may do to the log: nothing, one more line of its owner, or  *)
(* the loss of the last line to a write that joins it.                     *)
Extends(r) == receiptLog' = Append(receiptLog, r)
Loses == receiptLog' = SubSeq(receiptLog, 1, Len(receiptLog) - 1)

LEMMA ExtendedLog ==
    ASSUME receiptLog \in Seq(Receipts), NEW r \in Receipts, Extends(r)
    PROVE  /\ receiptLog' \in Seq(Receipts)
           /\ Len(receiptLog') = Len(receiptLog) + 1 /\ Len(receiptLog) \in Nat
           /\ DOMAIN receiptLog = 1 .. Len(receiptLog)
           /\ DOMAIN receiptLog' = 1 .. Len(receiptLog) + 1
           /\ \A i \in 1 .. Len(receiptLog) : receiptLog'[i] = receiptLog[i]
           /\ receiptLog'[Len(receiptLog) + 1] = r
BY AppendProperties, LenProperties DEF Extends

LEMMA ShortenedLog ==
    ASSUME receiptLog \in Seq(Receipts), Loses
    PROVE  /\ receiptLog' \in Seq(Receipts)
           /\ DOMAIN receiptLog' \subseteq DOMAIN receiptLog
           /\ \A i \in DOMAIN receiptLog' : receiptLog'[i] = receiptLog[i]
<1>. DEFINE n == Len(receiptLog) - 1
<1>1. Len(receiptLog) \in Nat /\ DOMAIN receiptLog = 1 .. Len(receiptLog)
  BY LenProperties
<1>2. \A i \in 1 .. n : receiptLog[i] \in Receipts
  BY <1>1, ElementOfSeq
<1>3. /\ receiptLog' \in Seq(Receipts)
      /\ Len(receiptLog') = IF 1 <= n THEN n ELSE 0
      /\ \A i \in 1 .. n : receiptLog'[i] = receiptLog[i]
  BY <1>1, <1>2, SubSeqProperties DEF Loses
<1>4. DOMAIN receiptLog' = 1 .. Len(receiptLog')
  BY <1>3, LenProperties
<1>5. n \in Int /\ n < Len(receiptLog)
  BY <1>1
<1>. HIDE DEF n
<1>6. 1 .. Len(receiptLog') \subseteq 1 .. n /\ 1 .. n \subseteq 1 .. Len(receiptLog)
  BY <1>1, <1>3, <1>5
<1>. QED
  BY <1>1, <1>3, <1>4, <1>6

LEMMA LosingKeepsOnce ==
    ASSUME receiptLog \in Seq(Receipts), TrialRecordedOnce, Loses, late \subseteq late'
    PROVE  TrialRecordedOnce'
BY ShortenedLog DEF TrialRecordedOnce

LEMMA ExtendingKeepsOnce ==
    ASSUME receiptLog \in Seq(Receipts), TrialRecordedOnce, late \subseteq late',
           NEW r \in Receipts, OnRecord(r.trial) => r.trial \in late', Extends(r)
    PROVE  TrialRecordedOnce'
<1>1. \A i \in 1 .. Len(receiptLog) : receiptLog[i].trial = r.trial => r.trial \in late'
  BY ExtendedLog DEF OnRecord
<1>. SUFFICES ASSUME NEW i \in DOMAIN receiptLog', NEW j \in DOMAIN receiptLog',
                     receiptLog'[i].trial = receiptLog'[j].trial
              PROVE  i = j \/ receiptLog'[i].trial \in late'
  BY DEF TrialRecordedOnce
<1>2. CASE i \in 1 .. Len(receiptLog) /\ j \in 1 .. Len(receiptLog)
  BY <1>2, ExtendedLog DEF TrialRecordedOnce
<1>3. CASE i = Len(receiptLog) + 1 \/ j = Len(receiptLog) + 1
  BY <1>1, <1>3, ExtendedLog
<1>. QED
  BY <1>2, <1>3, ExtendedLog

(* The steps of the emitters, and those that leave the log to them.        *)
EmitterStep(e) ==
    \/ CheckStudyConfig(e) \/ BuildReceipt(e) \/ LockReceipts(e) \/ RefuseDuplicates(e)
    \/ WriteReceipt(e) \/ FlushReceipt(e) \/ CloseReceipts(e) \/ EmitterDies(e)
    \/ FlushFails(e) \/ CloseWritesLine(e) \/ CloseEndsLine(e)

LEMMA ReadingKeepsLogInv ==
    ASSUME LogInv, ReportStudy \/ ReportPromotion \/ EditSpec \/ UNCHANGED capsuleVars
    PROVE  LogInv'
<1>1. UNCHANGED <<receiptLog, logTail, logOwner, emitterPc, receiptOf, late>>
      /\ studySpec' \in CapsulePolicies
  BY DEF LogInv, LogTypes, ReportStudy, ReportPromotion, EditSpec, ReadingFrame, capsuleVars
<1>. QED
  BY <1>1 DEF LogInv, LogTypes, OwnerAlone, Fresh, Sole, OnRecord, TrialRecordedOnce

(* A step that leaves the lines alone, and moves e only to where it may be.*)
LEMMA QuietStep ==
    ASSUME LogInv, NEW e \in Emitters, NEW p \in EmitterPlaces, NEW r,
           p \notin {"writing", "written"},
           emitterPc' = [emitterPc EXCEPT ![e] = p],
           receiptOf' = [receiptOf EXCEPT ![e] = r], r \in Receipts \cup {Nobody},
           p \notin {"none", "running"} => r \in Receipts,
           p \in {"locked", "checked"} => logOwner' = e,
           logOwner' \in {logOwner, e, Nobody},
           logOwner' # logOwner => logOwner \in {e, Nobody},
           p = "checked" => Fresh(r.trial) /\ logTail # "torn",
           p = "latePart" => emitterPc[e] = "writing" /\ r = receiptOf[e],
           logTail' \in {"whole", "unended", "torn"}, logTail = "torn" => logTail' = "torn",
           UNCHANGED <<studySpec, receiptLog, late>>
    PROVE  LogInv'
<1>1. LogTypes'
  BY DEF LogInv, LogTypes
<1>2. \A t : Fresh(t)' <=> Fresh(t)
  BY DEF Fresh, OnRecord
<1>3. ASSUME NEW f \in Emitters, f # e
      PROVE  /\ emitterPc'[f] = emitterPc[f] /\ receiptOf'[f] = receiptOf[f]
             /\ logOwner = f => logOwner' = f
  BY <1>3, CapsuleAssumption DEF LogInv, LogTypes
<1>4. emitterPc'[e] = p /\ receiptOf'[e] = r
  BY DEF LogInv, LogTypes
<1>5. ASSUME NEW f \in Emitters, emitterPc'[f] \in Completing
      PROVE  logTail' = "torn" /\ Sole(f)'
  <2>1. emitterPc[f] \in Completing
    BY <1>3, <1>4, <1>5 DEF Completing
  <2>2. logTail = "torn" /\ Sole(f)
    BY <2>1 DEF LogInv, OwnerAlone
  <2>3. f # e => p # "checked" /\ p \notin Completing
    BY <2>2 DEF Sole, Completing
  <2>. QED
    BY <1>3, <1>4, <2>2, <2>3 DEF Sole
<1>6. ASSUME NEW f \in Emitters
      PROVE  /\ emitterPc'[f] \in {"locked", "checked", "writing", "written"} => logOwner' = f
             /\ emitterPc'[f] \notin {"none", "running"} => receiptOf'[f] \in Receipts
  BY <1>3, <1>4 DEF LogInv, OwnerAlone
<1>7. ASSUME NEW f \in Emitters, emitterPc'[f] \in {"checked"} \cup Completing
      PROVE  Fresh(receiptOf[f].trial)'
  <2>1. CASE f # e
    BY <1>2, <1>3, <1>7, <2>1 DEF LogInv, OwnerAlone
  <2>2. CASE f = e /\ p = "checked"
    BY <1>2, <1>4, <2>2
  <2>3. CASE f = e /\ p = "latePart"
    BY <1>2, <1>4, <2>3 DEF LogInv, OwnerAlone, Completing
  <2>. QED
    BY <1>4, <1>7, <2>1, <2>2, <2>3 DEF Completing
<1>8. OwnerAlone'
  BY <1>5, <1>6, <1>7 DEF OwnerAlone
<1>9. TrialRecordedOnce'
  BY DEF LogInv, TrialRecordedOnce
<1>. QED
  BY <1>1, <1>8, <1>9 DEF LogInv

(* A step that changes the lines: nobody else has checked them, or begun   *)
(* one.                                                                    *)
LEMMA LineStep ==
    ASSUME LogInv, NEW e \in Emitters, NEW p \in {"none", "writing", "written", "lateEnd"},
           emitterPc[e] \in {"checked"} \cup Completing,
           emitterPc' = [emitterPc EXCEPT ![e] = p],
           \/ UNCHANGED receiptOf
           \/ p = "none" /\ receiptOf' = [receiptOf EXCEPT ![e] = Nobody],
           \/ UNCHANGED logOwner
           \/ p \in {"none", "lateEnd"} /\ logOwner' = IF logOwner = e THEN Nobody ELSE logOwner,
           p \in {"writing", "written"} => logOwner = e,
           p = "writing" => emitterPc[e] = "checked" /\ logTail' = "torn" /\ UNCHANGED receiptLog,
           logTail' \in {"whole", "unended", "torn"}, UNCHANGED <<studySpec, late>>,
           \/ UNCHANGED receiptLog \/ Loses
           \/ Extends(receiptOf[e]) /\ emitterPc[e] \in Completing
    PROVE  LogInv'
<1>1. receiptOf[e] \in Receipts /\ Fresh(receiptOf[e].trial)
  BY DEF LogInv, OwnerAlone, Completing
<1>2. receiptLog \in Seq(Receipts) /\ TrialRecordedOnce
  BY DEF LogInv, LogTypes
<1>3. receiptLog' \in Seq(Receipts) /\ TrialRecordedOnce'
  <2>1. CASE UNCHANGED receiptLog
    BY <1>2, <2>1 DEF TrialRecordedOnce
  <2>2. CASE Loses
    BY <1>2, <2>2, ShortenedLog, LosingKeepsOnce
  <2>3. CASE Extends(receiptOf[e])
    BY <1>1, <1>2, <2>3, ExtendedLog, ExtendingKeepsOnce DEF Fresh
  <2>. QED
    BY <2>1, <2>2, <2>3
<1>4. LogTypes'
  BY <1>3 DEF LogInv, LogTypes, EmitterPlaces
<1>5. Sole(e)
  <2>. SUFFICES ASSUME NEW f \in Emitters \ {e} PROVE emitterPc[f] \notin {"checked"} \cup Completing
    BY DEF Sole
  <2>1. emitterPc[f] \in Completing => Sole(f)
    BY DEF LogInv, OwnerAlone
  <2>2. emitterPc[e] \in Completing => Sole(e)
    BY DEF LogInv, OwnerAlone
  <2>3. emitterPc[e] = "checked" => logOwner = e
    BY DEF LogInv, OwnerAlone
  <2>4. emitterPc[f] = "checked" => logOwner = f
    BY DEF LogInv, OwnerAlone
  <2>. QED
    BY <2>1, <2>2, <2>3, <2>4 DEF Sole
<1>6. /\ emitterPc'[e] = p
      /\ \A f \in Emitters \ {e} :
            /\ emitterPc'[f] = emitterPc[f] /\ receiptOf'[f] = receiptOf[f]
            /\ emitterPc'[f] \notin {"checked"} \cup Completing
            /\ logOwner = f => logOwner' = f
  BY <1>5, CapsuleAssumption DEF LogInv, LogTypes, Sole
<1>7. ASSUME NEW f \in Emitters \ {e}
      PROVE  /\ emitterPc'[f] \in {"locked", "checked", "writing", "written"} => logOwner' = f
             /\ emitterPc'[f] \notin {"none", "running"} => receiptOf'[f] \in Receipts
             /\ emitterPc'[f] \notin {"checked"} \cup Completing
  <2>1. /\ emitterPc[f] \in {"locked", "checked", "writing", "written"} => logOwner = f
        /\ emitterPc[f] \notin {"none", "running"} => receiptOf[f] \in Receipts
    BY DEF LogInv, OwnerAlone
  <2>. QED
    BY <1>6, <2>1
<1>8. /\ emitterPc'[e] \in {"locked", "checked", "writing", "written"} => logOwner' = e
      /\ emitterPc'[e] \notin {"none", "running"} => receiptOf'[e] \in Receipts
  BY <1>1, <1>6
<1>9. emitterPc'[e] \in {"checked"} \cup Completing =>
        Fresh(receiptOf[e].trial)' /\ logTail' = "torn" /\ Sole(e)'
  BY <1>1, <1>6 DEF Fresh, OnRecord, Sole, Completing
<1>10. OwnerAlone'
  BY <1>7, <1>8, <1>9 DEF OwnerAlone
<1>. QED
  BY <1>3, <1>4, <1>10 DEF LogInv

(* Closing the file of a whole line: whoever is in one is so no longer.    *)
LEMMA LateLineStep ==
    ASSUME LogInv, NEW e \in Emitters, CloseWritesLine(e)
    PROVE  LogInv'
<1>1. /\ receiptOf[e] \in Receipts /\ receiptOf[e].trial \in Trials
      /\ receiptLog \in Seq(Receipts) /\ TrialRecordedOnce
      /\ UNCHANGED <<studySpec, logOwner>>
  <2>1. receiptOf[e] \in Receipts
    BY DEF CloseWritesLine, LogInv, OwnerAlone
  <2>. QED
    BY <2>1 DEF CloseWritesLine, LogInv, LogTypes, Receipts
<1>2. /\ receiptLog' \in Seq(Receipts) /\ TrialRecordedOnce'
      /\ late \subseteq late' /\ late' \subseteq Trials
      /\ logTail' \in {"whole", "unended", "torn"}
      /\ \A t : OnRecord(t)' => OnRecord(t) \/ t \in late'
  <2>0. late \subseteq Trials
    BY DEF LogInv, LogTypes
  <2>1. CASE logTail = "whole"
    <3>1. Extends(receiptOf[e]) /\ late' = late \cup {receiptOf[e].trial} /\ logTail' = "whole"
      BY <2>1 DEF CloseWritesLine, LineIsWhole, Extends
    <3>2. receiptLog' \in Seq(Receipts) /\ TrialRecordedOnce'
      BY <1>1, <3>1, ExtendedLog, ExtendingKeepsOnce
    <3>3. \A t : OnRecord(t)' => OnRecord(t) \/ t \in late'
      BY <1>1, <3>1, ExtendedLog DEF OnRecord
    <3>. QED
      BY <1>1, <2>0, <3>1, <3>2, <3>3
  <2>2. CASE logTail = "unended"
    <3>1. Loses /\ late' = late /\ logTail' = "torn"
      BY <2>2 DEF CloseWritesLine, JoinLines, Loses
    <3>2. \A t : OnRecord(t)' => OnRecord(t)
      BY <1>1, <3>1, ShortenedLog DEF OnRecord
    <3>. QED
      BY <1>1, <2>0, <3>1, <3>2, ShortenedLog, LosingKeepsOnce
  <2>3. CASE logTail = "torn"
    <3>1. UNCHANGED <<receiptLog, logTail, late>>
      BY <2>3 DEF CloseWritesLine
    <3>. QED
      BY <1>1, <2>0, <2>3, <3>1 DEF OnRecord, TrialRecordedOnce
  <2>. QED
    BY <2>1, <2>2, <2>3 DEF LogInv, LogTypes
<1>3. emitterPc' = [f \in Emitters |-> CASE f = e -> "none"
                                         [] emitterPc[f] = "writing" -> "written"
                                         [] emitterPc[f] = "latePart" -> "lateEnd"
                                         [] OTHER -> emitterPc[f]]
      /\ receiptOf' = [receiptOf EXCEPT ![e] = Nobody] /\ emitterPc[e] = "lateLine"
  BY DEF CloseWritesLine
<1>4. /\ emitterPc'[e] = "none"
      /\ \A f \in Emitters \ {e} :
            /\ receiptOf'[f] = receiptOf[f]
            /\ emitterPc[f] = "writing" => emitterPc'[f] = "written"
            /\ emitterPc[f] = "latePart" => emitterPc'[f] = "lateEnd"
            /\ emitterPc[f] \notin Completing => emitterPc'[f] = emitterPc[f]
  BY <1>3 DEF Completing, LogInv, LogTypes
<1>5. \A f \in Emitters : emitterPc[f] \in EmitterPlaces
  BY DEF LogInv, LogTypes
<1>6. \A f \in Emitters : emitterPc'[f] \in EmitterPlaces /\ emitterPc'[f] \notin Completing
  BY <1>4, <1>5 DEF EmitterPlaces, Completing
<1>7. emitterPc' \in [Emitters -> EmitterPlaces]
  BY <1>3, <1>6
<1>8. LogTypes'
  BY <1>1, <1>2, <1>3, <1>7 DEF LogInv, LogTypes
<1>9. OwnerAlone'
  <2>. SUFFICES ASSUME NEW f \in Emitters
                PROVE  /\ emitterPc'[f] \in {"locked", "checked", "writing", "written"} => logOwner' = f
                       /\ emitterPc'[f] \notin {"none", "running"} => receiptOf'[f] \in Receipts
                       /\ emitterPc'[f] = "checked" => Fresh(receiptOf[f].trial)'
    BY <1>6 DEF OwnerAlone
  <2>1. CASE f = e
    BY <1>4, <2>1
  <2>2. CASE f # e
    <3>1. /\ emitterPc[f] \in {"locked", "checked", "writing", "written"} => logOwner = f
          /\ emitterPc[f] \notin {"none", "running"} => receiptOf[f] \in Receipts
          /\ emitterPc[f] = "checked" => Fresh(receiptOf[f].trial)
      BY DEF LogInv, OwnerAlone
    <3>. QED
      BY <1>1, <1>2, <1>4, <2>2, <3>1 DEF Completing, Fresh
  <2>. QED
    BY <2>1, <2>2
<1>. QED
  BY <1>2, <1>8, <1>9 DEF LogInv

LEMMA EmittingKeepsLogInv ==
    ASSUME LogInv, NEW e \in Emitters, EmitterStep(e)
    PROVE  LogInv'
<1>. USE DEF WritingFrame
<1>0. /\ receiptOf = [receiptOf EXCEPT ![e] = receiptOf[e]]
      /\ receiptOf[e] \in Receipts \cup {Nobody} /\ logOwner \in Emitters \cup {Nobody}
      /\ logTail \in {"whole", "unended", "torn"}
      /\ emitterPc[e] \notin {"none", "running"} => receiptOf[e] \in Receipts
      /\ emitterPc[e] \in {"locked", "checked", "writing", "written"} => logOwner = e
      /\ {"none", "running", "open", "locked", "checked", "lateLine", "latePart", "lateEnd"}
           \subseteq EmitterPlaces
  BY DEF LogInv, LogTypes, OwnerAlone, EmitterPlaces
<1>1. CASE CheckStudyConfig(e)
  BY <1>0, <1>1, QuietStep DEF CheckStudyConfig
<1>2. CASE BuildReceipt(e)
  <2>1. PICK t \in Trials, s \in {"valid", "invalid"} :
          receiptOf' = [receiptOf EXCEPT ![e] = [trial |-> t, spec |-> studySpec, status |-> s]]
    BY <1>2, CapsuleAssumption DEF BuildReceipt
  <2>2. [trial |-> t, spec |-> studySpec, status |-> s] \in Receipts
    BY DEF Receipts, LogInv, LogTypes
  <2>. QED
    BY <1>0, <1>2, <2>1, <2>2, QuietStep DEF BuildReceipt
<1>3. CASE LockReceipts(e)
  BY <1>0, <1>3, QuietStep DEF LockReceipts
<1>4. ASSUME LeaveLog(e), UNCHANGED <<studySpec, receiptLog, late>>,
             logTail' \in {"whole", "unended", "torn"}, logTail = "torn" => logTail' = "torn"
      PROVE  LogInv'
  BY <1>0, <1>4, QuietStep DEF LeaveLog
<1>5. CASE RefuseDuplicates(e)
  <2>1. CASE logTail = "torn" \/ OnRecord(receiptOf[e].trial)
    BY <1>0, <1>4, <1>5, <2>1 DEF RefuseDuplicates, CheckLines
  <2>2. CASE ~(logTail = "torn" \/ OnRecord(receiptOf[e].trial))
    BY <1>0, <1>5, <2>2, QuietStep DEF RefuseDuplicates, CheckLines, Fresh
  <2>. QED
    BY <2>1, <2>2
<1>6. CASE CloseReceipts(e)
  BY <1>0, <1>4, <1>6 DEF CloseReceipts
<1>7. CASE WriteReceipt(e)
  <2>1. /\ emitterPc[e] = "checked" /\ logOwner = e
        /\ UNCHANGED <<studySpec, logOwner, receiptOf, late>>
    BY <1>0, <1>7 DEF WriteReceipt
  <2>2. \/ /\ emitterPc' = [emitterPc EXCEPT ![e] = "writing"]
           /\ logTail' = "torn" /\ UNCHANGED receiptLog
        \/ /\ emitterPc' = [emitterPc EXCEPT ![e] = "written"]
           /\ logTail' = "torn" /\ (UNCHANGED receiptLog \/ Loses)
    BY <1>7 DEF WriteReceipt, JoinLines, Loses
  <2>. QED
    BY <2>1, <2>2, LineStep
<1>8. ASSUME NEW tail, LineIsWhole(e, tail) PROVE Extends(receiptOf[e]) /\ logTail' = tail
  BY <1>8 DEF LineIsWhole, Extends
<1>9. CASE FlushReceipt(e)
  <2>1. /\ Extends(receiptOf[e]) /\ logTail' = "whole" /\ logOwner = e
        /\ emitterPc[e] \in Completing /\ emitterPc' = [emitterPc EXCEPT ![e] = "written"]
        /\ UNCHANGED <<studySpec, logOwner, receiptOf, late>>
    BY <1>0, <1>8, <1>9 DEF FlushReceipt, Completing
  <2>. QED
    BY <2>1, LineStep
<1>10. CASE FlushFails(e)
  <2>1. logOwner' = Nobody /\ logOwner = e /\ UNCHANGED <<studySpec, receiptOf, late>>
    BY <1>0, <1>10 DEF FlushFails
  <2>2. CASE /\ emitterPc[e] = "checked" /\ UNCHANGED <<receiptLog, logTail>>
             /\ emitterPc' = [emitterPc EXCEPT ![e] = "lateLine"]
    BY <1>0, <2>1, <2>2, QuietStep
  <2>3. CASE /\ emitterPc[e] = "writing" /\ UNCHANGED <<receiptLog, logTail>>
             /\ emitterPc' = [emitterPc EXCEPT ![e] = "latePart"]
    BY <1>0, <2>1, <2>3, QuietStep
  <2>4. CASE /\ emitterPc[e] = "writing" /\ LineIsWhole(e, "unended")
             /\ emitterPc' = [emitterPc EXCEPT ![e] = "lateEnd"]
    BY <1>8, <2>1, <2>4, LineStep DEF Completing
  <2>. QED
    BY <1>10, <2>2, <2>3, <2>4 DEF FlushFails
<1>11. CASE CloseEndsLine(e)
  <2>1. LeaveLog(e) /\ UNCHANGED <<studySpec, late>>
    BY <1>11 DEF CloseEndsLine
  <2>2. CASE emitterPc[e] = "latePart" /\ LineIsWhole(e, "whole")
    BY <1>8, <2>1, <2>2, LineStep DEF LeaveLog, Completing
  <2>3. CASE /\ UNCHANGED receiptLog
             /\ logTail' = IF logTail = "unended" THEN "whole" ELSE logTail
    BY <1>0, <1>4, <2>1, <2>3
  <2>. QED
    BY <1>11, <2>2, <2>3 DEF CloseEndsLine
<1>12. CASE EmitterDies(e)
  <2>1. LeaveLog(e) /\ UNCHANGED <<studySpec, late>>
    BY <1>12 DEF EmitterDies
  <2>2. CASE UNCHANGED <<receiptLog, logTail>>
    BY <1>0, <1>4, <2>1, <2>2
  <2>3. CASE emitterPc[e] \in {"writing", "latePart"} /\ LineIsWhole(e, "unended")
    BY <1>8, <2>1, <2>3, LineStep DEF LeaveLog, Completing
  <2>. QED
    BY <1>12, <2>2, <2>3 DEF EmitterDies
<1>. QED
  BY <1>1, <1>2, <1>3, <1>5, <1>6, <1>7, <1>9, <1>10, <1>11, <1>12, LateLineStep DEF EmitterStep

LEMMA NextKeepsLogInv == LogInv /\ [CapsuleNext]_capsuleVars => LogInv'
BY ReadingKeepsLogInv, EmittingKeepsLogInv DEF CapsuleNext, EmitterStep

LEMMA SpecLogInv == CapsuleSpec => []LogInv
<1>1. CapsuleInit => LogInv
  <2>. SUFFICES ASSUME CapsuleInit PROVE LogInv
    OBVIOUS
  <2>1. receiptLog \in Seq(Receipts) /\ DOMAIN receiptLog = {}
    BY EmptySeq, LenProperties DEF CapsuleInit
  <2>2. LogTypes /\ OwnerAlone
    BY <2>1 DEF CapsuleInit, LogTypes, OwnerAlone, EmitterPlaces, Completing
  <2>. QED
    BY <2>1, <2>2 DEF LogInv, TrialRecordedOnce
<1>. QED
  BY <1>1, NextKeepsLogInv, PTL DEF CapsuleSpec

(* The capsule keeps its types.                                            *)
THEOREM CapsuleTypes == CapsuleSpec => []CapsuleTypeOK
<1>1. LogInv => CapsuleTypeOK
  BY ElementOfSeq, LenProperties DEF LogInv, LogTypes, CapsuleTypeOK
<1>. QED
  BY <1>1, SpecLogInv, PTL

(* Any number of processes append to the log, are killed in the middle of  *)
(* a line or run out of disk, and no trial has two receipts but for a line *)
(* written whole behind the lock (append_receipt).                         *)
THEOREM NoTrialTwice == CapsuleSpec => []TrialRecordedOnce
<1>1. LogInv => TrialRecordedOnce
  BY DEF LogInv
<1>. QED
  BY <1>1, SpecLogInv, PTL

-----------------------------------------------------------------------------
(* The reports                                                             *)

(* A torn line that nobody completes: no report is made of the log again.  *)
Ruined == logTail = "torn" /\ \A e \in Emitters : emitterPc[e] \notin Completing

(* The last report rests on lines that are there.                          *)
Backed ==
    /\ receiptLog # <<>> /\ receiptLog[1].spec = shown.spec
    /\ \A slot \in DOMAIN shown.trials :
          /\ slot \in TrialSlots /\ slot[1] \in CompleteTasks
          /\ shown.trials[slot] \in ValidAttempts(slot)

Grounded == shown # NoReport /\ ~Ruined => Backed

LEMMA AttemptsAre ==
    ASSUME LogInv, NEW slot
    PROVE  ValidAttempts(slot) \subseteq 1 .. MaxAttempts
<1>1. \A i \in DOMAIN receiptLog : receiptLog[i] \in Receipts
  BY ElementOfSeq, LenProperties DEF LogInv, LogTypes
<1>2. \A i \in DOMAIN receiptLog : receiptLog[i].trial.attempt \in 1 .. MaxAttempts
  BY <1>1 DEF Receipts, Trials
<1>. QED
  BY <1>2 DEF ValidAttempts

(* The trial that is admitted is a valid attempt, and no later one goes    *)
(* before it.                                                              *)
LEMMA AdmittedIs ==
    ASSUME LogInv, NEW slot \in Filled
    PROVE  /\ Admit[slot] \in ValidAttempts(slot)
           /\ \A b \in ValidAttempts(slot) : Admit[slot] <= b
<1>1. ValidAttempts(slot) \in SUBSET Nat /\ ValidAttempts(slot) # {}
  BY AttemptsAre, CapsuleAssumption DEF Filled
<1>2. \E a \in ValidAttempts(slot) : \A b \in ValidAttempts(slot) : a <= b
  BY <1>1, LeastOf
<1>3. Admit[slot] = CHOOSE a \in ValidAttempts(slot) : \A b \in ValidAttempts(slot) : a <= b
  BY DEF Admit
<1>. QED
  BY <1>2, <1>3

(* One more line takes nothing away.                                       *)
LEMMA MoreLines ==
    ASSUME LogInv, NEW r \in Receipts, Extends(r), Backed, UNCHANGED shown
    PROVE  Backed'
<1>1. receiptLog \in Seq(Receipts)
  BY DEF LogInv, LogTypes
<1>2. \A slot : ValidAttempts(slot) \subseteq ValidAttempts(slot)'
  BY <1>1, ExtendedLog DEF ValidAttempts
<1>3. Filled \subseteq Filled'
  BY <1>2 DEF Filled
<1>4. CompleteTasks \subseteq CompleteTasks'
  BY <1>3 DEF CompleteTasks
<1>5. receiptLog' # <<>> /\ receiptLog'[1] = receiptLog[1]
  <2>1. Len(receiptLog) # 0
    BY <1>1, EmptySeq DEF Backed
  <2>2. 1 \in 1 .. Len(receiptLog)
    BY <1>1, <2>1, LenProperties
  <2>. QED
    BY <1>1, <2>2, ExtendedLog, AppendProperties DEF Extends
<1>. QED
  BY <1>2, <1>4, <1>5 DEF Backed

LEMMA SameLines ==
    ASSUME UNCHANGED <<receiptLog, shown>>
    PROVE  Backed' <=> Backed
BY DEF Backed, CompleteTasks, Filled, ValidAttempts

(* Every slot of a report is filled, by its task's completeness.           *)
LEMMA CompleteIsFilled ==
    ASSUME NEW slot \in TrialSlots, slot[1] \in CompleteTasks
    PROVE  slot \in Filled
<1>1. PICK task \in CapsuleTasks, arm \in CapsuleArms, rep \in 1 .. CapsuleReps :
         slot = <<task, arm, rep>>
  BY DEF TrialSlots
<1>. QED
  BY <1>1 DEF CompleteTasks

LEMMA ReportIsBacked ==
    ASSUME LogInv, ReportStudy \/ ReportPromotion
    PROVE  Backed' /\ CapsuleBuilds /\ SlotsAdmissible
           /\ shown' = [spec |-> studySpec, trials |-> PairedValid]
           /\ UNCHANGED <<studySpec, receiptLog, logTail, logOwner, emitterPc, receiptOf, late>>
<1>1. /\ CapsuleBuilds /\ SlotsAdmissible
      /\ shown' = [spec |-> studySpec, trials |-> PairedValid]
      /\ UNCHANGED <<studySpec, receiptLog, logTail, logOwner, emitterPc, receiptOf, late>>
  BY DEF ReportStudy, ReportPromotion, Shows, ReadingFrame
<1>2. receiptLog # <<>> /\ receiptLog[1].spec = studySpec
  <2>1. receiptLog # <<>> /\ \A i \in DOMAIN receiptLog : receiptLog[i].spec = studySpec
    BY <1>1 DEF CapsuleBuilds, Belongs
  <2>2. 1 \in DOMAIN receiptLog
    BY <2>1, EmptySeq, LenProperties DEF LogInv, LogTypes
  <2>. QED
    BY <2>1, <2>2
<1>3. ASSUME NEW slot \in DOMAIN PairedValid
      PROVE  /\ slot \in TrialSlots /\ slot[1] \in CompleteTasks
             /\ PairedValid[slot] \in ValidAttempts(slot)
  <2>1. slot \in Filled /\ slot[1] \in CompleteTasks /\ PairedValid[slot] = Admit[slot]
    BY DEF PairedValid
  <2>. QED
    BY <2>1, AdmittedIs DEF Filled
<1>4. Backed'
  BY <1>1, <1>2, <1>3 DEF Backed, CompleteTasks, Filled, ValidAttempts
<1>. QED
  BY <1>1, <1>4

LEMMA NextKeepsGrounded ==
    ASSUME LogInv, Grounded, [CapsuleNext]_capsuleVars
    PROVE  Grounded'
<1>1. CASE ReportStudy \/ ReportPromotion
  BY <1>1, ReportIsBacked DEF Grounded
<1>2. CASE EditSpec \/ UNCHANGED capsuleVars
  <2>1. UNCHANGED <<receiptLog, logTail, emitterPc, shown>>
    BY <1>2 DEF EditSpec, capsuleVars
  <2>. QED
    BY <2>1, SameLines DEF Grounded, Ruined
<1>3. ASSUME NEW e \in Emitters, EmitterStep(e)
      PROVE  Grounded'
  <2>1. UNCHANGED shown
    BY <1>3 DEF EmitterStep, CheckStudyConfig, BuildReceipt, LockReceipts, RefuseDuplicates,
       WriteReceipt, FlushReceipt, CloseReceipts, EmitterDies, FlushFails, CloseWritesLine,
       CloseEndsLine, WritingFrame
  <2>2. CASE \E r \in Receipts : Extends(r) /\ ~Ruined
    <3>1. PICK r \in Receipts : Extends(r)
      BY <2>2
    <3>2. shown # NoReport => Backed
      BY <2>2 DEF Grounded
    <3>. QED
      BY <2>1, <3>1, <3>2, MoreLines DEF Grounded
  <2>3. CASE UNCHANGED receiptLog /\ (Ruined => Ruined')
    BY <2>1, <2>3, SameLines DEF Grounded
  <2>4. CASE Ruined'
    BY <2>4 DEF Grounded
  <2>5. ASSUME NEW p, emitterPc' = [emitterPc EXCEPT ![e] = p], p \notin Completing,
               logTail = "torn" => logTail' = "torn", UNCHANGED receiptLog
        PROVE  Grounded'
    <3>1. \A f \in Emitters : emitterPc[f] \notin Completing => emitterPc'[f] \notin Completing
      BY <2>5 DEF LogInv, LogTypes
    <3>. QED
      BY <2>3, <2>5, <3>1 DEF Ruined
  <2>6. ASSUME NEW tail, emitterPc[e] \in Completing, LineIsWhole(e, tail)
        PROVE  Grounded'
    BY <2>2, <2>6 DEF LineIsWhole, Extends, Ruined, LogInv, OwnerAlone, Completing
  <2>7. CASE CheckStudyConfig(e) \/ BuildReceipt(e) \/ LockReceipts(e) \/ RefuseDuplicates(e)
             \/ CloseReceipts(e)
    BY <2>5, <2>7 DEF CheckStudyConfig, BuildReceipt, LockReceipts, RefuseDuplicates, CheckLines,
       LeaveLog, CloseReceipts, WritingFrame, Completing
  <2>8. CASE WriteReceipt(e)
    <3>1. CASE logTail # "unended" /\ UNCHANGED receiptLog
      <4>1. CASE logTail = "torn"
        BY <2>5, <2>8, <3>1, <4>1 DEF WriteReceipt, Completing
      <4>2. CASE logTail = "whole"
        BY <2>3, <3>1, <4>2 DEF Ruined
      <4>. QED
        BY <3>1, <4>1, <4>2 DEF LogInv, LogTypes
    <3>2. CASE logTail = "unended"
      <4>1. logTail' = "torn" /\ emitterPc' = [emitterPc EXCEPT ![e] = "written"]
        BY <2>8, <3>2 DEF WriteReceipt, JoinLines
      <4>2. \A f \in Emitters : emitterPc[f] \notin Completing
        BY <3>2 DEF LogInv, OwnerAlone
      <4>3. \A f \in Emitters : emitterPc'[f] \notin Completing
        BY <4>1, <4>2 DEF Completing, LogInv, LogTypes
      <4>. QED
        BY <2>4, <4>1, <4>3 DEF Ruined
    <3>. QED
      BY <2>8, <3>1, <3>2 DEF WriteReceipt
  <2>9. CASE FlushReceipt(e)
    BY <2>6, <2>9 DEF FlushReceipt, Completing
  <2>10. CASE FlushFails(e)
    <3>1. CASE emitterPc[e] = "checked"
      BY <2>5, <2>10, <3>1 DEF FlushFails, Completing
    <3>2. CASE emitterPc[e] = "writing" /\ UNCHANGED <<receiptLog, logTail>>
      BY <2>3, <3>2 DEF Ruined, Completing
    <3>3. CASE emitterPc[e] = "writing" /\ LineIsWhole(e, "unended")
      BY <2>6, <3>3 DEF Completing
    <3>. QED
      BY <2>10, <3>1, <3>2, <3>3 DEF FlushFails
  <2>11. CASE CloseWritesLine(e)
    <3>1. \A f \in Emitters : emitterPc'[f] \notin Completing
      BY <2>11 DEF CloseWritesLine, Completing, LogInv, LogTypes
    <3>2. CASE logTail = "whole"
      BY <2>2, <2>11, <3>2 DEF CloseWritesLine, LineIsWhole, Extends, Ruined, LogInv, OwnerAlone
    <3>3. CASE logTail # "whole"
      BY <2>4, <2>11, <3>1, <3>3 DEF CloseWritesLine, JoinLines, Ruined
    <3>. QED
      BY <3>2, <3>3
  <2>12. CASE CloseEndsLine(e)
    <3>1. CASE emitterPc[e] = "latePart" /\ LineIsWhole(e, "whole")
      BY <2>6, <3>1 DEF Completing
    <3>2. CASE UNCHANGED receiptLog /\ logTail' = IF logTail = "unended" THEN "whole" ELSE logTail
      <4>1. emitterPc' = [emitterPc EXCEPT ![e] = "none"] /\ "none" \notin Completing
        BY <2>12 DEF CloseEndsLine, LeaveLog, Completing
      <4>. QED
        BY <2>5, <3>2, <4>1
    <3>. QED
      BY <2>12, <3>1, <3>2 DEF CloseEndsLine
  <2>13. CASE EmitterDies(e)
    <3>1. CASE UNCHANGED <<receiptLog, logTail>>
      <4>1. emitterPc' = [emitterPc EXCEPT ![e] = "none"] /\ "none" \notin Completing
        BY <2>13 DEF EmitterDies, LeaveLog, Completing
      <4>. QED
        BY <2>5, <3>1, <4>1
    <3>2. CASE emitterPc[e] \in Completing /\ LineIsWhole(e, "unended")
      BY <2>6, <3>2
    <3>. QED
      BY <2>13, <3>1, <3>2 DEF EmitterDies, Completing
  <2>. QED
    BY <1>3, <2>7, <2>8, <2>9, <2>10, <2>11, <2>12, <2>13 DEF EmitterStep
<1>. QED
  BY <1>1, <1>2, <1>3 DEF CapsuleNext, EmitterStep

(* Where the log makes a capsule again, it extends the report it made.     *)
LEMMA LaterReportExtends ==
    ASSUME LogInv, Grounded, ReportStudy \/ ReportPromotion, shown # NoReport
    PROVE  ReportExtends(shown', shown)
<1>1. /\ CapsuleBuilds /\ SlotsAdmissible
      /\ shown' = [spec |-> studySpec, trials |-> PairedValid]
      /\ receiptLog' # <<>> /\ receiptLog'[1].spec = shown'.spec /\ UNCHANGED receiptLog
  BY ReportIsBacked DEF Backed
<1>2. Backed
  BY <1>1 DEF CapsuleBuilds, Ruined, Grounded
<1>3. shown'.spec = shown.spec /\ shown'.spec = studySpec
  BY <1>1, <1>2 DEF Backed
<1>4. ASSUME NEW slot \in DOMAIN shown.trials
      PROVE  /\ slot \in DOMAIN shown'.trials
             /\ \/ shown'.trials[slot] = shown.trials[slot]
                \/ /\ shown'.spec = "first_valid_attempt"
                   /\ shown'.trials[slot] < shown.trials[slot]
  <2>1. /\ slot \in TrialSlots /\ slot[1] \in CompleteTasks
        /\ shown.trials[slot] \in ValidAttempts(slot)
    BY <1>2 DEF Backed
  <2>2. slot \in Filled
    BY <2>1, CompleteIsFilled
  <2>3. slot \in DOMAIN shown'.trials /\ shown'.trials[slot] = Admit[slot]
    BY <1>1, <2>1, <2>2 DEF PairedValid
  <2>4. Admit[slot] \in ValidAttempts(slot) /\ Admit[slot] <= shown.trials[slot]
    BY <2>1, <2>2, AdmittedIs
  <2>5. ValidAttempts(slot) \subseteq 1 .. MaxAttempts
    BY AttemptsAre
  <2>6. CASE studySpec = "all_valid_repetitions"
    <3>1. Cardinality(ValidAttempts(slot)) <= 1
      BY <1>1, <2>1, <2>6 DEF SlotsAdmissible
    <3>2. IsFiniteSet(ValidAttempts(slot))
      <4>1. 1 \in Int /\ MaxAttempts \in Int
        BY CapsuleAssumption
      <4>2. IsFiniteSet(1 .. MaxAttempts)
        BY <4>1, FS_Interval
      <4>3. ValidAttempts(slot) \in SUBSET (1 .. MaxAttempts)
        BY <2>5
      <4>. QED
        BY <4>2, <4>3, FS_Subset
    <3>3. Admit[slot] = shown.trials[slot]
      BY <2>1, <2>4, <3>1, <3>2, AtMostOne
    <3>. QED
      BY <2>3, <3>3
  <2>7. CASE studySpec = "first_valid_attempt"
    <3>1. Admit[slot] \in Nat /\ shown.trials[slot] \in Nat
      BY <2>1, <2>4, <2>5, CapsuleAssumption
    <3>2. Admit[slot] = shown.trials[slot] \/ Admit[slot] < shown.trials[slot]
      BY <2>4, <3>1
    <3>. QED
      BY <1>3, <2>3, <2>7, <3>2
  <2>. QED
    BY <2>6, <2>7, CapsuleAssumption DEF LogInv, LogTypes
<1>. QED
  BY <1>3, <1>4 DEF ReportExtends

(* What a report admitted stands in every later one, however often the log *)
(* was appended to, torn or joined and the spec was edited in between      *)
(* (_admit, _check_belongs, append_receipt).                               *)
THEOREM EarlierReportsStand == CapsuleSpec => ReportsStand
<1>1. CapsuleInit => Grounded
  BY DEF CapsuleInit, Grounded
<1>2. LogInv /\ Grounded /\ [CapsuleNext]_capsuleVars =>
        [shown # NoReport => ReportExtends(shown', shown)]_shown
  <2>. SUFFICES ASSUME LogInv, Grounded, [CapsuleNext]_capsuleVars, shown' # shown,
                       shown # NoReport
                PROVE  ReportExtends(shown', shown)
    OBVIOUS
  <2>1. ReportStudy \/ ReportPromotion
    BY DEF CapsuleNext, EditSpec, CheckStudyConfig, BuildReceipt, LockReceipts,
       RefuseDuplicates, WriteReceipt, FlushReceipt, CloseReceipts, EmitterDies, FlushFails,
       CloseWritesLine, CloseEndsLine, WritingFrame, capsuleVars
  <2>. QED
    BY <2>1, LaterReportExtends
<1>. QED
  BY <1>1, <1>2, NextKeepsGrounded, SpecLogInv, PTL DEF CapsuleSpec, ReportsStand

-----------------------------------------------------------------------------
(* Attempts in their order                                                 *)

(* The tree is finite, and what it holds was before the next run.          *)
TreeIs ==
    /\ ReportTypeOK
    /\ IsFiniteSet(DOMAIN results) /\ DOMAIN results \subseteq Int
    /\ hostClock > 0
    /\ \A d \in DOMAIN results : results[d].clock < hostClock

(* What every attempt's time is made of.                                   *)
LEMMA TimestampType ==
    ASSUME NEW a \in Attempts
    PROVE  /\ Timestamp(a).source \in {"host", "legacy_trace", "undated"}
           /\ Timestamp(a).time \in Int
           /\ Timestamp(a) = [source |-> Timestamp(a).source, time |-> Timestamp(a).time]
           /\ HostDated(a) <=> Timestamp(a).source = "host"
           /\ HostDated(a) => Timestamp(a).time = a.clock
<1>1. a.clock \in Int /\ a.stamp \in Int
  BY DEF Attempts
<1>2. CASE HostDated(a)
  <2>1. Timestamp(a) = [source |-> "host", time |-> a.clock]
    BY <1>2 DEF Timestamp, HostDated, TraceDated, Readable
  <2>. QED
    BY <1>1, <1>2, <2>1
<1>3. CASE ~HostDated(a) /\ TraceDated(a)
  BY <1>1, <1>3 DEF Timestamp
<1>4. CASE ~HostDated(a) /\ ~TraceDated(a)
  BY <1>4 DEF Timestamp
<1>. QED
  BY <1>2, <1>3, <1>4

(* attempt_sort_key orders the attempts of a tree, each before the others  *)
(* or after them.                                                          *)
LEMMA SortKeyOrders ==
    ASSUME TreeIs
    PROVE  /\ \A d \in DOMAIN results : ~SortsBefore(d, d)
           /\ \A d, e \in DOMAIN results :
                 /\ SortsBefore(d, e) => ~SortsBefore(e, d)
                 /\ d # e => SortsBefore(d, e) \/ SortsBefore(e, d)
           /\ \A d, e, f \in DOMAIN results :
                 SortsBefore(d, e) /\ SortsBefore(e, f) => SortsBefore(d, f)
<1>. DEFINE time(d) == Timestamp(results[d]).time
            last(d) == Timestamp(results[d]).source = "undated"
<1>1. \A d \in DOMAIN results : d \in Int /\ time(d) \in Int
  BY TimestampType DEF TreeIs, ReportTypeOK
<1>2. \A d, e : SortsBefore(d, e) <=>
          IF last(d) # last(e) THEN last(e)
          ELSE time(d) < time(e) \/ (time(d) = time(e) /\ d < e)
  BY DEF SortsBefore
<1>3. \A d, e : SortsBefore(d, e) <=>
          \/ ~last(d) /\ last(e)
          \/ (last(d) <=> last(e)) /\ time(d) < time(e)
          \/ (last(d) <=> last(e)) /\ time(d) = time(e) /\ d < e
  BY <1>2
<1>. HIDE DEF time, last
<1>. QED
  BY <1>1, <1>3

(* What has a date is before all that has none.                            *)
LEMMA DatedSorts ==
    ASSUME NEW d, NEW e, Timestamp(results[d]).source # "undated"
    PROVE  SortsBefore(d, e) <=>
               \/ Timestamp(results[e]).source = "undated"
               \/ Timestamp(results[d]).time < Timestamp(results[e]).time
               \/ Timestamp(results[d]).time = Timestamp(results[e]).time /\ d < e
<1>1. CASE Timestamp(results[e]).source = "undated"
  BY <1>1 DEF SortsBefore
<1>2. CASE Timestamp(results[e]).source # "undated"
  BY <1>2 DEF SortsBefore
<1>. QED
  BY <1>1, <1>2

(* Every cell with an attempt has an earliest one, and only one.           *)
LEMMA EarliestIs ==
    ASSUME TreeIs, NEW S \in SUBSET DOMAIN results, S # {}
    PROVE  /\ SelectAttempt(S) \in S
           /\ \A e \in S \ {SelectAttempt(S)} : SortsBefore(SelectAttempt(S), e)
           /\ \A d \in S : (\A e \in S \ {d} : SortsBefore(d, e)) => d = SelectAttempt(S)
<1>1. \E d \in S : \A e \in S \ {d} : SortsBefore(d, e)
  <2>. DEFINE R == {p \in S \X S : SortsBefore(p[1], p[2])}
  <2>0. IsFiniteSet(S)
    BY FS_Subset DEF TreeIs
  <2>1. \A d, e \in S : <<d, e>> \in R <=> SortsBefore(d, e)
    OBVIOUS
  <2>. HIDE DEF R
  <2>2. \A d \in S : <<d, d>> \notin R
    BY <2>1, SortKeyOrders
  <2>3. \A d, e, f \in S : <<d, e>> \in R /\ <<e, f>> \in R => <<d, f>> \in R
    <3>. SUFFICES ASSUME NEW d \in S, NEW e \in S, NEW f \in S,
                         SortsBefore(d, e), SortsBefore(e, f)
                  PROVE  SortsBefore(d, f)
      BY <2>1
    <3>. QED
      BY SortKeyOrders
  <2>4. PICK d \in S : \A e \in S : <<e, d>> \notin R
    BY <2>0, <2>2, <2>3, FirstOf
  <2>5. \A e \in S \ {d} : SortsBefore(d, e)
    BY <2>1, <2>4, SortKeyOrders
  <2>. QED
    BY <2>5
<1>2. /\ SelectAttempt(S) \in S
      /\ \A e \in S \ {SelectAttempt(S)} : SortsBefore(SelectAttempt(S), e)
  BY <1>1 DEF SelectAttempt
<1>3. ASSUME NEW d \in S, \A e \in S \ {d} : SortsBefore(d, e)
      PROVE  d = SelectAttempt(S)
  BY <1>2, <1>3, SortKeyOrders
<1>. QED
  BY <1>2, <1>3

-----------------------------------------------------------------------------
(* The two reports join                                                    *)

(* What the scores and the bills are taken from.                           *)
ScoredResults == {d \in OrdinaryResults : Scored(results[d])}
BilledResults == {d \in InScope : Scored(results[d])}

OfCell(S, cell) == {d \in S : CellOf(d) = cell}

(* The rows of a report, each the earliest attempt of its cell.            *)
LEMMA RowsAre ==
    ASSUME TreeIs, NEW S \in SUBSET DOMAIN results, NEW cell
    PROVE  /\ cell \in DOMAIN RowsOf(S) <=> OfCell(S, cell) # {}
           /\ OfCell(S, cell) # {} =>
                  LET d == SelectAttempt(OfCell(S, cell)) IN
                  /\ d \in OfCell(S, cell)
                  /\ RowsOf(S)[cell] = [dir |-> d, at |-> Timestamp(results[d])]
<1>1. OfCell(S, cell) \in SUBSET DOMAIN results
  BY DEF OfCell
<1>2. OfCell(S, cell) # {} => SelectAttempt(OfCell(S, cell)) \in OfCell(S, cell)
  BY <1>1, EarliestIs
<1>. QED
  BY <1>2 DEF OfCell, RowsOf

(* cost_tracker.py bills the scored attempts that it sees: a result that   *)
(* has a score can be read, so it is under its own mode and label.         *)
LEMMA BilledAreScored ==
    ASSUME TreeIs
    PROVE  /\ BilledResults = ScoredResults \cap TracedAttempts
           /\ ScoredResults \subseteq DOMAIN results
<1>1. ASSUME NEW d \in TracedAttempts, Scored(results[d])
      PROVE  d \in InScope <=> d \in OrdinaryResults
  <2>1. d \in DOMAIN results /\ results[d] \in Attempts
    BY <1>1 DEF TracedAttempts, TreeIs, ReportTypeOK
  <2>2. Readable(results[d])
    BY <1>1 DEF Scored, Readable
  <2>3. results[d].mode # Unknown
    BY <2>1, AttemptAssumption DEF Attempts
  <2>4. results[d].place \in ScorePlaces
    BY <1>1 DEF TracedAttempts, ScorePlaces, CostPlaces
  <2>5. d \in InScope <=> results[d].label = NoLabel
    BY <1>1, <2>2, <2>3 DEF InScope, BilledMode, BilledLabel
  <2>6. d \in OrdinaryResults <=> results[d].label = NoLabel
    BY <2>1, <2>2, <2>4 DEF OrdinaryResults
  <2>. QED
    BY <2>5, <2>6
<1>2. InScope \subseteq TracedAttempts /\ OrdinaryResults \subseteq DOMAIN results
  BY DEF InScope, OrdinaryResults
<1>. QED
  BY <1>1, <1>2 DEF BilledResults, ScoredResults

(* The cost report that the tree gives now.                                *)
CostReport == [cell \in {c \in DOMAIN CellsBilled : c[1] \in MatchedTasks} |-> CellsBilled[cell]]

LEMMA RowsJoin ==
    ASSUME TreeIs, costReport = CostReport
    PROVE  ReportsAgree
<1>. SUFFICES ASSUME NEW cell \in DOMAIN costReport
              PROVE  /\ cell \in DOMAIN ScoreRows
                     /\ ScoreRows[cell].dir \in TracedAttempts =>
                            costReport[cell] = ScoreRows[cell]
  BY DEF ReportsAgree
<1>. DEFINE S == OfCell(ScoredResults, cell)
            B == OfCell(BilledResults, cell)
<1>1. CellsBilled = RowsOf(BilledResults) /\ ScoreRows = RowsOf(ScoredResults)
  BY DEF CellsBilled, ScoreRows, BilledResults, ScoredResults
<1>2. cell \in DOMAIN CellsBilled /\ costReport[cell] = CellsBilled[cell]
  BY DEF CostReport
<1>3. /\ ScoredResults \in SUBSET DOMAIN results /\ BilledResults \in SUBSET DOMAIN results
      /\ B = S \cap TracedAttempts
  BY BilledAreScored DEF OfCell
<1>4. B # {} /\ S # {} /\ B \in SUBSET DOMAIN results /\ S \in SUBSET DOMAIN results
  <2>1. B # {}
    BY <1>1, <1>2, <1>3, RowsAre
  <2>2. B \subseteq BilledResults /\ S \subseteq ScoredResults
    BY DEF OfCell
  <2>. QED
    BY <1>3, <2>1, <2>2
<1>. DEFINE first == SelectAttempt(S)
<1>5. /\ cell \in DOMAIN ScoreRows
      /\ ScoreRows[cell] = [dir |-> first, at |-> Timestamp(results[first])]
      /\ costReport[cell] = [dir |-> SelectAttempt(B), at |-> Timestamp(results[SelectAttempt(B)])]
  <2>. HIDE DEF CellOf
  <2>. QED
    BY <1>1, <1>2, <1>3, <1>4, RowsAre
<1>6. ASSUME first \in TracedAttempts PROVE SelectAttempt(B) = first
  <2>1. first \in S /\ \A e \in S \ {first} : SortsBefore(first, e)
    <3>. HIDE DEF S
    <3>. QED
      BY <1>4, EarliestIs
  <2>2. first \in B /\ \A e \in B \ {first} : SortsBefore(first, e)
    BY <1>3, <1>6, <2>1
  <2>. HIDE DEF B, first
  <2>. QED
    BY <1>4, <2>2, EarliestIs
<1>. HIDE DEF first, B
<1>. QED
  BY <1>5, <1>6

-----------------------------------------------------------------------------
(* The tree and what was reported of it                                    *)

Kept(d) ==
    /\ d \in DOMAIN results
    /\ results'[d].file = results[d].file /\ results'[d].clock = results[d].clock
    /\ results'[d].place = results[d].place /\ results'[d].label = results[d].label
    /\ CellOf(d)' = CellOf(d)

(* A run that ends dates the result it writes, and one that ends without a *)
(* result leaves the one that was there.                                   *)
LEMMA RunWritten ==
    ASSUME TreeIs, RunEnds
    PROVE  \E d \in Int :
              /\ DOMAIN results' = DOMAIN results \cup {d}
              /\ \A e \in DOMAIN results \ {d} : results'[e] = results[e]
              /\ results'[d] \in Attempts
              /\ \/ results'[d].file = "absent" /\ results'[d].clock = NoClock
                 \/ results'[d].clock = hostClock
                 \/ Kept(d)
<1>1. PICK s \in RunSamples : \E d \in DirsOf(s) :
          results' = [e \in DOMAIN results \cup {d} |->
                         IF e = d
                         THEN Overwritten(s, IF d \in DOMAIN results THEN results[d]
                                             ELSE NothingThere(s))
                         ELSE results[e]]
  BY DEF RunEnds
<1>2. PICK d \in DirsOf(s) :
          results' = [e \in DOMAIN results \cup {d} |->
                         IF e = d
                         THEN Overwritten(s, IF d \in DOMAIN results THEN results[d]
                                             ELSE NothingThere(s))
                         ELSE results[e]]
  BY <1>1
<1>3. s \in Attempts
  BY AttemptAssumption
<1>4. d \in Int /\ (d \in DOMAIN results => d \in SameDir(s))
  <2>1. CASE SameDir(s) # {}
    BY <2>1 DEF DirsOf, SameDir, TreeIs
  <2>2. CASE SameDir(s) = {} /\ DOMAIN results = {}
    BY <2>2 DEF DirsOf, NewDirs
  <2>3. CASE SameDir(s) = {} /\ DOMAIN results # {}
    <3>1. DOMAIN results \in SUBSET Int /\ IsFiniteSet(DOMAIN results)
      BY DEF TreeIs
    <3>2. /\ Min(DOMAIN results) \in Int /\ \A y \in DOMAIN results : Min(DOMAIN results) <= y
          /\ Max(DOMAIN results) \in Int /\ \A y \in DOMAIN results : Max(DOMAIN results) >= y
      BY <2>3, <3>1, MinMaxOf
    <3>3. d = Min(DOMAIN results) - 1 \/ d = Max(DOMAIN results) + 1
      BY <2>3 DEF DirsOf, NewDirs
    <3>4. \A y \in DOMAIN results : y \in Int
      BY <3>1
    <3>5. d \notin DOMAIN results
      BY <3>2, <3>3, <3>4
    <3>. QED
      BY <3>2, <3>3, <3>5
  <2>. QED
    BY <2>1, <2>2, <2>3
<1>. DEFINE old == IF d \in DOMAIN results THEN results[d] ELSE NothingThere(s)
<1>5. old \in Attempts /\ (d \notin DOMAIN results => old.file = "absent" /\ old.clock = NoClock)
  <2>1. d \in DOMAIN results => results[d] \in Attempts
    BY DEF TreeIs, ReportTypeOK
  <2>2. NothingThere(s) \in Attempts
    <3>. DEFINE b == [s EXCEPT !.file = "absent", !.clock = NoClock]
    <3>1. b \in Attempts
      <4>1. "absent" \in Files /\ NoClock \in Int
        BY DEF Files, NoClock
      <4>2. ASSUME NEW f \in Files, NEW c \in Int
            PROVE  [s EXCEPT !.file = f, !.clock = c] \in Attempts
        BY <1>3 DEF Attempts
      <4>. QED
        BY <4>1, <4>2
    <3>2. NothingThere(s) = [b EXCEPT !.trace = FALSE]
      BY <1>3 DEF NothingThere, Attempts
    <3>. HIDE DEF b
    <3>. QED
      BY <3>1, <3>2 DEF Attempts
  <2>3. /\ NothingThere(s) \in Attempts
        /\ NothingThere(s).file = "absent" /\ NothingThere(s).clock = NoClock
    BY <1>3, <2>2 DEF NothingThere, Attempts
  <2>. QED
    BY <2>1, <2>3
<1>6. /\ results'[d] = Overwritten(s, old)
      /\ DOMAIN results' = DOMAIN results \cup {d}
      /\ \A e \in DOMAIN results \ {d} : results'[e] = results[e]
  BY <1>2
<1>7. d \in DOMAIN results => old = results[d]
  OBVIOUS
<1>. HIDE DEF old
<1>8. hostClock \in Int
  BY DEF TreeIs, ReportTypeOK
<1>9. Overwritten(s, old) \in Attempts
  BY <1>3, <1>5, <1>8 DEF Overwritten, Attempts, Files
<1>10. CASE s.file # "absent"
  <2>1. Overwritten(s, old).clock = hostClock
    BY <1>3, <1>10 DEF Overwritten, Attempts
  <2>. QED
    BY <1>4, <1>6, <1>9, <2>1
<1>11. CASE s.file = "absent"
  <2>1. /\ Overwritten(s, old).clock = old.clock /\ Overwritten(s, old).file = old.file
        /\ Overwritten(s, old).place = s.place /\ Overwritten(s, old).label = s.label
        /\ Overwritten(s, old).task = s.task /\ Overwritten(s, old).mode = s.mode
    BY <1>3, <1>11 DEF Overwritten, Attempts
  <2>2. CASE d \in DOMAIN results
    <3>1. /\ s.place = results[d].place /\ s.label = results[d].label
          /\ s.task = results[d].task /\ s.mode = results[d].mode
      BY <1>4, <2>2 DEF SameDir, CellOf
    <3>2. Kept(d)
      BY <1>6, <1>7, <2>1, <2>2, <3>1 DEF Kept, CellOf
    <3>. QED
      BY <1>4, <1>6, <1>9, <3>2
  <2>3. CASE d \notin DOMAIN results
    BY <1>4, <1>5, <1>6, <1>9, <2>1, <2>3
  <2>. QED
    BY <2>2, <2>3
<1>. QED
  BY <1>10, <1>11

LEMMA TreeStays ==
    ASSUME TreeIs, [ReportsNext]_reportVars
    PROVE  TreeIs'
<1>1. CASE RunEnds
  <2>1. PICK d \in Int :
              /\ DOMAIN results' = DOMAIN results \cup {d}
              /\ \A e \in DOMAIN results \ {d} : results'[e] = results[e]
              /\ results'[d] \in Attempts
              /\ \/ results'[d].file = "absent" /\ results'[d].clock = NoClock
                 \/ results'[d].clock = hostClock
                 \/ Kept(d)
    BY <1>1, RunWritten
  <2>2. IsFiniteSet(DOMAIN results')
    BY <2>1, FS_AddElement DEF TreeIs
  <2>3. hostClock \in Nat /\ hostClock > 0 /\ hostClock' = hostClock + 1 /\ flags' = flags
    BY <1>1 DEF TreeIs, ReportTypeOK, RunEnds, TreeChanges
  <2>4. \A e \in DOMAIN results : results[e] \in Attempts /\ results[e].clock < hostClock
    BY DEF TreeIs, ReportTypeOK
  <2>5. \A a \in Attempts : a.clock \in Int
    BY DEF Attempts
  <2>6. results'[d].clock < hostClock'
    BY <2>1, <2>3, <2>4, <2>5 DEF Kept, NoClock
  <2>7. \A e \in DOMAIN results' : results'[e] \in Attempts /\ results'[e].clock < hostClock'
    <3>. SUFFICES ASSUME NEW e \in DOMAIN results
                  PROVE  results[e].clock < hostClock'
      BY <2>1, <2>4, <2>6
    <3>. QED
      BY <2>3, <2>4, <2>5
  <2>. QED
    BY <2>1, <2>2, <2>3, <2>7 DEF TreeIs, ReportTypeOK
<1>2. CASE AnalyzeScores \/ TrackCosts \/ UNCHANGED reportVars
  <2>1. UNCHANGED <<results, hostClock, flags>>
    BY <1>2 DEF AnalyzeScores, TrackCosts, reportVars
  <2>. QED
    BY <2>1 DEF TreeIs, ReportTypeOK
<1>. QED
  BY <1>1, <1>2 DEF ReportsNext

(* Each cell's published attempt, while it is there, was the first of all  *)
(* that the host dated; only a trace can still date another before it.     *)
WasFirst(row) ==
    /\ row.at.source = "host" /\ row.dir \in DOMAIN results
    /\ Scored(results[row.dir]) /\ Timestamp(results[row.dir]) = row.at

FirstByHost(cell, dir) ==
    /\ dir \in OfCell(ScoredResults, cell)
    /\ \A d \in OfCell(ScoredResults, cell) \ {dir} :
           SortsBefore(dir, d) \/ Timestamp(results[d]).source = "legacy_trace"

ScoresWereFirst ==
    scoreReport # Unread =>
        \A cell \in DOMAIN scoreReport :
            /\ scoreReport[cell] = [dir |-> scoreReport[cell].dir, at |-> scoreReport[cell].at]
            /\ scoreReport[cell].at.source = "host" =>
                   scoreReport[cell].at.time \in Int /\ scoreReport[cell].at.time < hostClock
            /\ WasFirst(scoreReport[cell]) => FirstByHost(cell, scoreReport[cell].dir)

ReportInv ==
    /\ TreeIs
    /\ costReport # Unread => costReport = CostReport
    /\ ScoresWereFirst

-----------------------------------------------------------------------------
(* Initially, and each step                                                *)

LEMMA InitReports == ReportsInit => ReportInv
<1>. SUFFICES ASSUME ReportsInit PROVE ReportInv
  OBVIOUS
<1>1. /\ IsFiniteSet(DOMAIN results) /\ DOMAIN results \subseteq Int
      /\ \A d \in DOMAIN results :
            results[d] \in Attempts /\ results[d].clock <= Cardinality(DOMAIN results)
  BY AttemptAssumption DEF ReportsInit
<1>2. Cardinality(DOMAIN results) \in Nat
  BY <1>1, FS_CardinalityType
<1>3. hostClock = 1 + Cardinality(DOMAIN results) /\ flags \in [explicit : BOOLEAN, legacy : BOOLEAN]
  BY DEF ReportsInit
<1>4. \A a \in Attempts : a.clock \in Int
  BY DEF Attempts
<1>5. \A d \in DOMAIN results : results[d].clock < hostClock
  BY <1>1, <1>2, <1>3, <1>4
<1>6. TreeIs
  BY <1>1, <1>2, <1>3, <1>5 DEF TreeIs, ReportTypeOK
<1>. QED
  BY <1>6 DEF ReportsInit, ReportInv, ScoresWereFirst

(* The report that is made now.                                            *)
LEMMA ScoresAre ==
    ASSUME TreeIs, NEW cell
    PROVE  /\ cell \in DOMAIN ScoreRows <=> OfCell(ScoredResults, cell) # {}
           /\ cell \in DOMAIN ScoreRows =>
                LET d == SelectAttempt(OfCell(ScoredResults, cell)) IN
                /\ ScoreRows[cell] = [dir |-> d, at |-> Timestamp(results[d])]
                /\ d \in OfCell(ScoredResults, cell)
                /\ \A e \in OfCell(ScoredResults, cell) \ {d} : SortsBefore(d, e)
<1>1. ScoreRows = RowsOf(ScoredResults)
  BY DEF ScoreRows, ScoredResults
<1>2. ScoredResults \in SUBSET DOMAIN results
  BY BilledAreScored
<1>3. OfCell(ScoredResults, cell) \in SUBSET DOMAIN results
  BY <1>2 DEF OfCell
<1>. QED
  BY <1>1, <1>2, <1>3, RowsAre, EarliestIs

LEMMA StepAnalyzes ==
    ASSUME ReportInv, AnalyzeScores
    PROVE  ScoresWereFirst'
<1>. SUFFICES ASSUME NEW cell \in DOMAIN ScoreRows
              PROVE  LET row == ScoreRows[cell] IN
                     /\ row = [dir |-> row.dir, at |-> row.at]
                     /\ row.at.source = "host" => row.at.time \in Int /\ row.at.time < hostClock
                     /\ FirstByHost(cell, row.dir)
  <2>1. scoreReport' = ScoreRows /\ UNCHANGED <<results, hostClock, flags>>
    BY DEF AnalyzeScores, ScoreRows
  <2>2. \A c, d : FirstByHost(c, d)' <=> FirstByHost(c, d)
    BY <2>1 DEF FirstByHost, OfCell, ScoredResults, OrdinaryResults, CellOf, Scored, SortsBefore,
                Readable, ScorePlaces
  <2>. QED
    BY <2>1, <2>2 DEF ScoresWereFirst
<1>. DEFINE d == SelectAttempt(OfCell(ScoredResults, cell))
<1>1. /\ ScoreRows[cell] = [dir |-> d, at |-> Timestamp(results[d])]
      /\ d \in OfCell(ScoredResults, cell)
      /\ \A e \in OfCell(ScoredResults, cell) \ {d} : SortsBefore(d, e)
  BY ScoresAre DEF ReportInv
<1>2. d \in DOMAIN results /\ results[d] \in Attempts /\ results[d].clock < hostClock
  BY <1>1, BilledAreScored DEF OfCell, ReportInv, TreeIs, ReportTypeOK
<1>. HIDE DEF d
<1>3. /\ Timestamp(results[d]).time \in Int
      /\ Timestamp(results[d]).source = "host" => Timestamp(results[d]).time < hostClock
  BY <1>2, TimestampType
<1>. QED
  BY <1>1, <1>3 DEF FirstByHost

(* A run that ends comes after every attempt that the host dated.          *)
LEMMA StepEnds ==
    ASSUME ReportInv, RunEnds
    PROVE  ScoresWereFirst'
<1>. SUFFICES ASSUME scoreReport # Unread, NEW cell \in DOMAIN scoreReport,
                     WasFirst(scoreReport[cell])'
              PROVE  FirstByHost(cell, scoreReport[cell].dir)'
  <2>1. scoreReport' = scoreReport /\ hostClock' = hostClock + 1 /\ hostClock \in Nat
    BY DEF RunEnds, TreeChanges, ReportInv, TreeIs, ReportTypeOK
  <2>2. \A cell \in DOMAIN scoreReport :
           scoreReport # Unread /\ scoreReport[cell].at.source = "host"
              => scoreReport[cell].at.time \in Int /\ scoreReport[cell].at.time < hostClock
    BY DEF ReportInv, ScoresWereFirst
  <2>3. \A cell \in DOMAIN scoreReport :
           scoreReport # Unread /\ scoreReport[cell].at.source = "host"
              => scoreReport[cell].at.time \in Int /\ scoreReport[cell].at.time < hostClock'
    <3>. SUFFICES ASSUME NEW cell \in DOMAIN scoreReport, scoreReport # Unread,
                         scoreReport[cell].at.source = "host"
                  PROVE  scoreReport[cell].at.time \in Int /\ scoreReport[cell].at.time < hostClock'
      OBVIOUS
    <3>1. scoreReport[cell].at.time \in Int /\ scoreReport[cell].at.time < hostClock
      BY <2>2
    <3>. QED
      BY <2>1, <3>1
  <2>. QED
    BY <2>1, <2>3 DEF ReportInv, ScoresWereFirst
<1>1. PICK d \in Int :
         /\ DOMAIN results' = DOMAIN results \cup {d}
         /\ \A e \in DOMAIN results \ {d} : results'[e] = results[e]
         /\ results'[d] \in Attempts
         /\ \/ results'[d].file = "absent" /\ results'[d].clock = NoClock
            \/ results'[d].clock = hostClock
            \/ Kept(d)
  BY RunWritten DEF ReportInv
<1>. DEFINE row == scoreReport[cell]
            dir == scoreReport[cell].dir
            C   == OfCell(ScoredResults, cell)
<1>2. UNCHANGED <<flags, scoreReport>> /\ hostClock \in Nat /\ hostClock > 0
  BY DEF RunEnds, TreeChanges, ReportInv, TreeIs, ReportTypeOK
<1>3. /\ \A e \in DOMAIN results : results[e] \in Attempts
      /\ \A e \in DOMAIN results' : results'[e] \in Attempts
  BY <1>1 DEF ReportInv, TreeIs, ReportTypeOK
<1>4. /\ row.at.source = "host" /\ dir \in DOMAIN results' /\ Scored(results[dir])'
      /\ Timestamp(results'[dir]) = row.at
  BY <1>2 DEF WasFirst
<1>5. row.at.time \in Int /\ row.at.time < hostClock
  BY <1>2, <1>4 DEF ReportInv, ScoresWereFirst
<1>6. results'[dir].clock = row.at.time /\ results'[dir].clock # NoClock /\ HostDated(results'[dir])
  <2>1. HostDated(results'[dir]) /\ Timestamp(results'[dir]).time = results'[dir].clock
    BY <1>3, <1>4, TimestampType
  <2>. QED
    BY <1>4, <2>1 DEF HostDated
<1>7. \A e \in DOMAIN results \ {d} : Kept(e)
  BY <1>1 DEF Kept, CellOf
<1>8. Kept(dir)
  <2>1. CASE dir = d
    BY <1>1, <1>5, <1>6, <2>1
  <2>2. CASE dir # d
    BY <1>1, <1>4, <1>7, <2>2
  <2>. QED
    BY <2>1, <2>2
<1>9. ASSUME NEW e, Kept(e)
      PROVE  /\ e \in C' <=> e \in C
             /\ Scored(results[e])' <=> Scored(results[e])
             /\ HostDated(results'[e]) <=> HostDated(results[e])
             /\ HostDated(results[e]) => Timestamp(results'[e]) = Timestamp(results[e])
  <2>1. /\ e \in DOMAIN results /\ e \in DOMAIN results'
        /\ results'[e].file = results[e].file /\ results'[e].clock = results[e].clock
        /\ results'[e].place = results[e].place /\ results'[e].label = results[e].label
        /\ CellOf(e)' = CellOf(e)
    BY <1>1, <1>9 DEF Kept
  <2>2. /\ Scored(results[e])' <=> Scored(results[e])
        /\ Readable(results'[e]) <=> Readable(results[e])
        /\ HostDated(results'[e]) <=> HostDated(results[e])
    BY <1>2, <2>1 DEF Scored, Readable, HostDated
  <2>3. e \in OrdinaryResults' <=> e \in OrdinaryResults
    BY <1>2, <2>1, <2>2 DEF OrdinaryResults, ScorePlaces, Readable
  <2>4. e \in C' <=> e \in C
    BY <2>1, <2>2, <2>3 DEF OfCell, ScoredResults
  <2>5. ASSUME HostDated(results[e])
        PROVE  Timestamp(results'[e]) = Timestamp(results[e])
    BY <1>3, <2>1, <2>2, <2>5, TimestampType
  <2>. QED
    BY <2>2, <2>4, <2>5
<1>10. WasFirst(row) /\ HostDated(results[dir]) /\ Timestamp(results[dir]) = row.at
  <2>1. dir \in DOMAIN results /\ Scored(results[dir])
    BY <1>2, <1>4, <1>8 DEF Kept, Scored
  <2>2. HostDated(results[dir]) /\ Timestamp(results[dir]) = row.at
    BY <1>4, <1>6, <1>8, <1>9
  <2>. QED
    BY <1>4, <2>1, <2>2 DEF WasFirst
<1>11. FirstByHost(cell, dir)
  BY <1>10 DEF ReportInv, ScoresWereFirst
<1>12. dir \in C'
  BY <1>8, <1>9, <1>11 DEF FirstByHost
<1>13. \A e : SortsBefore(dir, e) <=>
               \/ Timestamp(results[e]).source = "undated"
               \/ row.at.time < Timestamp(results[e]).time
               \/ row.at.time = Timestamp(results[e]).time /\ dir < e
  BY <1>4, <1>10, DatedSorts
<1>14. \A e : SortsBefore(dir, e)' <=>
               \/ Timestamp(results'[e]).source = "undated"
               \/ row.at.time < Timestamp(results'[e]).time
               \/ row.at.time = Timestamp(results'[e]).time /\ dir < e
  <2>1. Timestamp(results'[dir]).source # "undated" /\ Timestamp(results'[dir]).time = row.at.time
    BY <1>4
  <2>2. ASSUME NEW e, Timestamp(results'[e]).source = "undated" PROVE SortsBefore(dir, e)'
    BY <1>2, <2>1, <2>2 DEF SortsBefore
  <2>3. ASSUME NEW e, Timestamp(results'[e]).source # "undated"
        PROVE  SortsBefore(dir, e)' <=>
                  \/ row.at.time < Timestamp(results'[e]).time
                  \/ row.at.time = Timestamp(results'[e]).time /\ dir < e
    BY <1>2, <2>1, <2>3 DEF SortsBefore
  <2>. QED
    BY <2>2, <2>3
<1>15. ASSUME NEW e \in C', e # dir
       PROVE  SortsBefore(dir, e)' \/ Timestamp(results'[e]).source = "legacy_trace"
  <2>1. e \in DOMAIN results' /\ results'[e] \in Attempts /\ Readable(results'[e])
    BY <1>3 DEF OfCell, ScoredResults, OrdinaryResults
  <2>2. CASE ~Kept(e)
    <3>1. results'[e].clock = hostClock
      BY <1>1, <1>7, <2>1, <2>2 DEF Readable
    <3>2. HostDated(results'[e])
      BY <1>2, <2>1, <3>1 DEF HostDated, NoClock, Corrupt
    <3>3. Timestamp(results'[e]).time = hostClock /\ Timestamp(results'[e]).source = "host"
      BY <2>1, <3>1, <3>2, TimestampType
    <3>. QED
      BY <1>5, <1>14, <3>3
  <2>3. CASE Kept(e)
    <3>1. e \in C /\ (SortsBefore(dir, e) \/ Timestamp(results[e]).source = "legacy_trace")
      BY <1>9, <1>11, <1>15, <2>3 DEF FirstByHost
    <3>2. CASE HostDated(results[e])
      <4>1. Timestamp(results'[e]) = Timestamp(results[e]) /\ Timestamp(results'[dir]) = Timestamp(results[dir])
        BY <1>4, <1>9, <1>10, <2>3, <3>2
      <4>. QED
        BY <1>13, <1>14, <3>1, <4>1
    <3>3. CASE ~HostDated(results[e])
      <4>1. Timestamp(results'[e]).source \in {"legacy_trace", "undated"}
        BY <1>9, <2>1, <2>3, <3>3, TimestampType
      <4>. QED
        BY <1>14, <4>1
    <3>. QED
      BY <3>2, <3>3
  <2>. QED
    BY <2>2, <2>3
<1>16. FirstByHost(cell, dir)'
  BY <1>2, <1>12, <1>15 DEF FirstByHost
<1>. QED
  BY <1>2, <1>16

(* What a report says of a tree depends on the tree and the flags alone.   *)
LEMMA SameTree ==
    ASSUME UNCHANGED <<results, flags>>
    PROVE  CostReport' = CostReport
BY DEF CostReport, CellsBilled, RowsOf, InScope, TracedAttempts, CostPlaces, MatchedTasks,
       ArmsRun, BilledMode, BilledLabel, PathMode, PathLabel, Readable, Scored, CellOf,
       SelectAttempt, SortsBefore

LEMMA SameScores ==
    ASSUME ScoresWereFirst, UNCHANGED <<results, flags, hostClock, scoreReport>>
    PROVE  ScoresWereFirst'
BY DEF ScoresWereFirst, WasFirst, FirstByHost, OfCell, ScoredResults, OrdinaryResults, CellOf,
       Scored, SortsBefore, Readable, ScorePlaces

LEMMA ReportInvInductive == ReportInv /\ [ReportsNext]_reportVars => ReportInv'
<1>. SUFFICES ASSUME ReportInv, [ReportsNext]_reportVars PROVE ReportInv'
  OBVIOUS
<1>1. TreeIs'
  BY TreeStays DEF ReportInv
<1>2. CASE AnalyzeScores
  <2>1. UNCHANGED <<results, flags, costReport>>
    BY <1>2 DEF AnalyzeScores
  <2>. QED
    BY <1>1, <1>2, <2>1, SameTree, StepAnalyzes DEF ReportInv
<1>3. CASE TrackCosts
  <2>1. UNCHANGED <<results, hostClock, flags, scoreReport>> /\ costReport' = CostReport
    BY <1>3 DEF TrackCosts, CostReport
  <2>. QED
    BY <1>1, <2>1, SameTree, SameScores DEF ReportInv
<1>4. CASE RunEnds
  BY <1>1, <1>4, StepEnds DEF ReportInv, RunEnds, TreeChanges
<1>5. CASE UNCHANGED reportVars
  <2>1. UNCHANGED <<results, hostClock, flags, scoreReport, costReport>>
    BY <1>5 DEF reportVars
  <2>. QED
    BY <1>1, <2>1, SameTree, SameScores DEF ReportInv
<1>. QED
  BY <1>2, <1>3, <1>4, <1>5 DEF ReportsNext

(* The tree of the reports keeps its types (AttemptReports).               *)
THEOREM ReportTypes == ReportsSpec => []ReportTypeOK
<1>1. ReportInv => ReportTypeOK
  BY DEF ReportInv, TreeIs
<1>. QED
  BY <1>1, InitReports, ReportInvInductive, PTL DEF ReportsSpec

(* The reports join: whatever runs end between two reports and whatever    *)
(* they leave, the attempt that cost_tracker.py bills a cell by is the one *)
(* analyze_scores.py scores it by, if the cost report sees that one.       *)
THEOREM ReportsJoin == ReportsSpec => []ReportsAgree
<1>1. ReportInv => ReportsAgree
  BY RowsJoin DEF ReportInv, ReportsAgree
<1>. QED
  BY <1>1, InitReports, ReportInvInductive, PTL DEF ReportsSpec

(* Running a cell again never replaces the published attempt that the host *)
(* dated, for any tree, samples and number of runs (select_attempt).       *)
THEOREM RerunsDoNotResample == ReportsSpec => RerunsStand
<1>. DEFINE Rerun ==
        scoreReport # Unread =>
         (\A cell \in DOMAIN scoreReport :
            LET row == scoreReport[cell] IN
            (/\ row.at.source = "host" /\ row.dir \in DOMAIN results
             /\ Scored(results[row.dir]) /\ Timestamp(results[row.dir]) = row.at) =>
                /\ cell \in DOMAIN scoreReport'
                /\ \/ scoreReport'[cell] = row
                   \/ scoreReport'[cell].at.source = "legacy_trace")
<1>1. ASSUME ReportInv, [ReportsNext]_reportVars
      PROVE  [Rerun]_scoreReport
  <2>. SUFFICES ASSUME scoreReport' # scoreReport, scoreReport # Unread,
                       NEW cell \in DOMAIN scoreReport, WasFirst(scoreReport[cell])
                PROVE  /\ cell \in DOMAIN scoreReport'
                       /\ \/ scoreReport'[cell] = scoreReport[cell]
                          \/ scoreReport'[cell].at.source = "legacy_trace"
    BY DEF WasFirst
  <2>1. AnalyzeScores
    BY <1>1 DEF ReportsNext, reportVars, TrackCosts, RunEnds, TreeChanges
  <2>2. scoreReport' = ScoreRows
    BY <2>1 DEF AnalyzeScores, ScoreRows
  <2>. DEFINE row == scoreReport[cell]
              C   == OfCell(ScoredResults, cell)
              d   == SelectAttempt(C)
  <2>3. FirstByHost(cell, row.dir) /\ row = [dir |-> row.dir, at |-> row.at]
    BY <1>1 DEF ReportInv, ScoresWereFirst
  <2>4. /\ cell \in DOMAIN ScoreRows
        /\ ScoreRows[cell] = [dir |-> d, at |-> Timestamp(results[d])]
        /\ d \in C /\ \A e \in C \ {d} : SortsBefore(d, e)
    <3>1. C # {}
      BY <2>3 DEF FirstByHost
    <3>. QED
      BY <1>1, <3>1, ScoresAre DEF ReportInv
  <2>5. row.dir \in C /\ C \subseteq DOMAIN results
    BY <1>1, <2>3, BilledAreScored DEF FirstByHost, OfCell, ReportInv
  <2>. HIDE DEF C, d
  <2>6. CASE d = row.dir
    BY <2>2, <2>3, <2>4, <2>6 DEF WasFirst
  <2>7. CASE d # row.dir
    <3>1. SortsBefore(d, row.dir)
      BY <2>4, <2>5, <2>7
    <3>2. ~SortsBefore(row.dir, d)
      BY <1>1, <2>4, <2>5, <3>1, SortKeyOrders DEF ReportInv
    <3>3. Timestamp(results[d]).source = "legacy_trace"
      BY <2>3, <2>4, <2>7, <3>2 DEF FirstByHost, C
    <3>. QED
      BY <2>2, <2>4, <3>3
  <2>. QED
    BY <2>6, <2>7
<1>. QED
  BY <1>1, InitReports, ReportInvInductive, PTL DEF ReportsSpec, RerunsStand

-----------------------------------------------------------------------------
(* What a run is billed                                                    *)

(* Numbers that do not pass a bound have a greatest one. *)
LEMMA MaxOf ==
    ASSUME NEW n \in Nat, NEW S \in SUBSET (0..n), S # {}
    PROVE  Max(S) \in S /\ \A y \in S : y <= Max(S)
<1>. DEFINE D == {n - x : x \in S}
<1>1. D \in SUBSET Nat /\ D # {}
  <2>1. \A x \in S : x \in Nat /\ x <= n /\ n - x \in Nat
    OBVIOUS
  <2>. QED
    BY <2>1
<1>2. PICK d \in D : \A y \in D : d <= y
  BY <1>1, LeastOf
<1>3. PICK x \in S : d = n - x
  BY <1>2
<1>4. \A y \in S : x >= y
  BY <1>2, <1>3
<1>5. Max(S) \in S /\ \A y \in S : Max(S) >= y
  BY <1>4 DEF Max
<1>. QED
  BY <1>5

-----------------------------------------------------------------------------
(* The sums of the model, as sums of a function *)

RequestShape == [by : {"main", "sub"}, output : Nat]
LineShape == [key : Nat \cup {Unkeyed}, output : Nat]
BlockShape == [fault : {"none", "short", "no total", "torn"}, total : Nat, models : Nat]

CostsOf(rs) == [i \in DOMAIN rs |-> CostOf(rs[i])]
RequestCosts == CostsOf(requests)
CostOfSome(rs, D) == MapThenSumSet(LAMBDA i : CostOf(rs[i]), D)

(* What the log of requests, the trace and the totals hold. *)
LEMMA RequestsAre ==
    ASSUME NEW rs \in Seq(RequestShape)
    PROVE  \A i \in DOMAIN rs : rs[i].by \in {"main", "sub"} /\ rs[i].output \in Nat
<1>1. \A i \in DOMAIN rs : rs[i] \in RequestShape
  OBVIOUS
<1>. QED
  BY <1>1 DEF RequestShape

LEMMA LinesAre ==
    ASSUME traceLines \in Seq(LineShape)
    PROVE  \A n \in DOMAIN traceLines : traceLines[n].key \in Nat \cup {Unkeyed} /\ traceLines[n].output \in Nat
<1>1. \A n \in DOMAIN traceLines : traceLines[n] \in LineShape
  OBVIOUS
<1>. QED
  BY <1>1 DEF LineShape

LEMMA BlocksAre ==
    ASSUME stdoutBlocks \in Seq(BlockShape)
    PROVE  \A b \in DOMAIN stdoutBlocks : stdoutBlocks[b].total \in Nat
<1>1. \A b \in DOMAIN stdoutBlocks : stdoutBlocks[b] \in BlockShape
  OBVIOUS
<1>. QED
  BY <1>1 DEF BlockShape

(* What some of the requests cost. *)
LEMMA SpentIs ==
    ASSUME NEW rs \in Seq(RequestShape), NEW D \in SUBSET DOMAIN rs
    PROVE  /\ CostOfSome(rs, D) = SumOf(CostsOf(rs), D)
           /\ IsFiniteSet(D) /\ \A i \in D : CostsOf(rs)[i] = 1 + rs[i].output /\ CostsOf(rs)[i] \in Nat
           /\ SumOf(CostsOf(rs), D) \in Nat
<1>. DEFINE Tbl(it) == it = [s \in SUBSET D |->
                              IF s = {} THEN 0 ELSE CostOf(rs[First(s)]) + it[s \ {First(s)}]]
            It == CHOOSE it : Tbl(it)
<1>1. CostOfSome(rs, D) = It[D]
  BY DEF CostOfSome, MapThenSumSet, MapThenFoldSet, First
<1>2. \A i \in D : CostsOf(rs)[i] = CostOf(rs[i]) /\ CostsOf(rs)[i] = 1 + rs[i].output /\ CostsOf(rs)[i] \in Nat
  <2>1. \A i \in D : rs[i].output \in Nat
    BY RequestsAre
  <2>. QED
    BY <2>1 DEF CostsOf, CostOf
<1>3. IsFiniteSet(D)
  <2>1. DOMAIN rs = 1..Len(rs) /\ Len(rs) \in Nat
    OBVIOUS
  <2>2. IsFiniteSet(DOMAIN rs)
    BY <2>1, FS_Interval
  <2>. QED
    BY <2>2, FS_Subset
<1>4. \A s \in SUBSET D : s # {} => CostsOf(rs)[First(s)] = CostOf(rs[First(s)])
  BY <1>2, FirstIsIn
<1>5. ASSUME NEW it PROVE Tbl(it) <=> Tabulates(it, CostsOf(rs), D)
  BY <1>4 DEF Tabulates
<1>6. Tbl(It)
  <2>1. \E it : Tbl(it)
    BY <1>2, <1>3, <1>5, TableExists
  <2>. QED
    BY <2>1
<1>. HIDE DEF It, Tbl
<1>7. Tabulates(It, CostsOf(rs), D)
  BY <1>5, <1>6
<1>8. It[D] = SumOf(CostsOf(rs), D)
  BY <1>2, <1>3, <1>7, TabledIsSum
<1>. QED
  BY <1>1, <1>2, <1>3, <1>8, SumIsNat

(* What all requests cost, before and after a step. *)
LEMMA SpentIsAll ==
    /\ Spent = CostOfSome(requests, DOMAIN requests)
    /\ Spent' = CostOfSome(requests', DOMAIN requests')
<1>1. Spent = CostOfSome(requests, DOMAIN requests)
  BY DEF Spent, CostOfSome
<1>2. Spent' = CostOfSome(requests', DOMAIN requests')
  BY DEF Spent, CostOfSome, MapThenSumSet, MapThenFoldSet, CostOf
<1>. QED
  BY <1>1, <1>2

(* What a scan finds. *)
LEMMA TotalCostIs ==
    ASSUME NEW rs, IsFiniteSet(rs), \A r \in rs : r.output \in Nat,
           NEW f, \A r \in rs : f[r] = 1 + r.output
    PROVE  TotalCost(rs) = SumOf(f, rs)
<1>. DEFINE Tbl(it) == it = [s \in SUBSET rs |->
                              IF s = {} THEN 0 ELSE CostOf(First(s)) + it[s \ {First(s)}]]
            It == CHOOSE it : Tbl(it)
<1>1. TotalCost(rs) = It[rs]
  BY DEF TotalCost, MapThenSumSet, MapThenFoldSet, First, CostOf
<1>2. \A r \in rs : f[r] = CostOf(r) /\ f[r] \in Nat
  BY DEF CostOf
<1>4. \A s \in SUBSET rs : s # {} => f[First(s)] = CostOf(First(s))
  BY <1>2, FirstIsIn
<1>5. ASSUME NEW it PROVE Tbl(it) <=> Tabulates(it, f, rs)
  BY <1>4 DEF Tabulates
<1>6. Tbl(It)
  <2>1. \E it : Tbl(it)
    BY <1>2, <1>5, TableExists
  <2>. QED
    BY <2>1
<1>. HIDE DEF It, Tbl
<1>7. Tabulates(It, f, rs)
  BY <1>5, <1>6
<1>8. It[rs] = SumOf(f, rs)
  BY <1>2, <1>7, TabledIsSum
<1>. QED
  BY <1>1, <1>8

-----------------------------------------------------------------------------
(* Whose lines the trace holds *)

BillingTypes ==
    /\ writer \in Writers /\ agentRuns \in BOOLEAN
    /\ requests \in Seq(RequestShape) /\ traceLines \in Seq(LineShape)
    /\ stdoutBlocks \in Seq(BlockShape)

TotalsPast == \A b \in DOMAIN stdoutBlocks : stdoutBlocks[b].total <= Spent

(* Every line is of a request of the main loop; those of one have one key, and one *)
(* of them tells all of its output.                                               *)
Owns(owner) ==
    /\ owner \in [DOMAIN traceLines -> DOMAIN requests]
    /\ \A m, n \in DOMAIN traceLines : owner[m] = owner[n] <=> RequestKey(m) = RequestKey(n)
    /\ \A n \in DOMAIN traceLines :
          /\ requests[owner[n]].by = "main"
          /\ traceLines[n].output <= requests[owner[n]].output
          /\ IF writer = "legacy" THEN traceLines[n].key = Unkeyed /\ traceLines[n].output = 1
             ELSE traceLines[n].key = owner[n]
    /\ \A i \in DOMAIN requests : requests[i].by = "main" /\ requests[i].output > 0 =>
          \E n \in DOMAIN traceLines : owner[n] = i /\ traceLines[n].output = requests[i].output

BillingInv == BillingTypes /\ TotalsPast /\ \E owner : Owns(owner)

(* The scan takes every request of which there is a line at its full output. *)
LEMMA ScanIs ==
    ASSUME BillingTypes, NEW owner, Owns(owner)
    PROVE  TotalCost(ScanTrace) = SumOf(RequestCosts, {owner[n] : n \in DOMAIN traceLines})
<1>. DEFINE Traced == {owner[n] : n \in DOMAIN traceLines}
            Lines(i) == {n \in DOMAIN traceLines : owner[n] = i}
            line(i) == CHOOSE n \in DOMAIN traceLines : owner[n] = i
            h == [i \in Traced |-> [key |-> RequestKey(line(i)), output |-> requests[i].output]]
            f == [r \in {h[i] : i \in Traced} |-> 1 + r.output]
<1>1. /\ owner \in [DOMAIN traceLines -> DOMAIN requests]
      /\ \A m, n \in DOMAIN traceLines : owner[m] = owner[n] <=> RequestKey(m) = RequestKey(n)
  BY DEF Owns
<1>2. Traced \subseteq DOMAIN requests /\ \A i \in Traced : line(i) \in DOMAIN traceLines /\ owner[line(i)] = i
  BY <1>1
<1>3. IsFiniteSet(Traced) /\ \A i \in Traced : RequestCosts[i] = 1 + requests[i].output /\ RequestCosts[i] \in Nat
  <2>. HIDE DEF Traced
  <2>. QED
    BY <1>2, SpentIs DEF BillingTypes, RequestCosts
<1>4. ASSUME NEW i \in Traced
      PROVE  Max({traceLines[n].output : n \in Lines(i)}) = requests[i].output
  <2>. DEFINE out == {traceLines[n].output : n \in Lines(i)}
  <2>1. requests[i].output \in Nat /\ requests[i].by = "main"
    BY <1>2, RequestsAre DEF BillingTypes, Owns
  <2>2. \A y \in out : y \in Nat /\ y <= requests[i].output
    BY LinesAre DEF BillingTypes, Owns
  <2>3. requests[i].output \in out
    <3>1. CASE requests[i].output > 0
      BY <1>2, <2>1, <3>1 DEF Owns
    <3>2. CASE ~(requests[i].output > 0)
      <4>1. line(i) \in Lines(i)
        BY <1>2
      <4>2. traceLines[line(i)].output \in out
        BY <4>1
      <4>3. traceLines[line(i)].output = requests[i].output
        <5>. HIDE DEF out, line
        <5>. QED
          BY <2>1, <2>2, <3>2, <4>2
      <4>. QED
        BY <4>2, <4>3
    <3>. QED
      BY <3>1, <3>2
  <2>. HIDE DEF out
  <2>4. Max(out) \in out /\ \A y \in out : Max(out) >= y
    BY <2>1, <2>2, <2>3 DEF Max
  <2>5. Max(out) = requests[i].output
    BY <2>1, <2>2, <2>3, <2>4
  <2>. QED
    BY <2>5 DEF out
<1>5. ScanTrace = {h[i] : i \in Traced}
  <2>. DEFINE record(k) == [key |-> k,
                 output |-> Max({traceLines[n].output : n \in {m \in DOMAIN traceLines : RequestKey(m) = k}})]
  <2>1. ScanTrace = {record(RequestKey(n)) : n \in DOMAIN traceLines}
    BY DEF ScanTrace
  <2>2. ASSUME NEW n \in DOMAIN traceLines
        PROVE  owner[n] \in Traced /\ record(RequestKey(n)) = h[owner[n]]
    <3>1. owner[n] \in Traced
      OBVIOUS
    <3>2. {m \in DOMAIN traceLines : RequestKey(m) = RequestKey(n)} = Lines(owner[n])
      BY <1>1
    <3>3. record(RequestKey(n)).output = requests[owner[n]].output
      BY <1>4, <3>1, <3>2
    <3>4. RequestKey(line(owner[n])) = RequestKey(n)
      BY <1>1, <1>2, <3>1
    <3>. QED
      BY <3>1, <3>3, <3>4
  <2>3. \A i \in Traced : \E n \in DOMAIN traceLines : owner[n] = i
    OBVIOUS
  <2>. HIDE DEF record, h, Traced
  <2>. QED
    BY <2>1, <2>2, <2>3
<1>6. \A i, j \in Traced : h[i] = h[j] => i = j
  <2>1. SUFFICES ASSUME NEW i \in Traced, NEW j \in Traced, h[i] = h[j] PROVE i = j
    OBVIOUS
  <2>2. h[i].key = RequestKey(line(i)) /\ h[j].key = RequestKey(line(j))
    OBVIOUS
  <2>. HIDE DEF h, line
  <2>. QED
    BY <1>1, <1>2, <2>1, <2>2
<1>7. \A i \in Traced : h[i].output = requests[i].output /\ f[h[i]] = RequestCosts[i]
  BY <1>3
<1>8. IsFiniteSet(ScanTrace)
  <2>. HIDE DEF h, Traced
  <2>. QED
    BY <1>3, <1>5, FiniteImage
<1>9. \A r \in ScanTrace : f[r] = 1 + r.output /\ r.output \in Nat
  <2>1. \A i \in Traced : requests[i].output \in Nat
    BY <1>2, RequestsAre DEF BillingTypes
  <2>. QED
    BY <1>5, <1>7, <2>1
<1>10. h \in [Traced -> ScanTrace]
  BY <1>5
<1>. HIDE DEF f, h, Traced
<1>11. TotalCost(ScanTrace) = SumOf(f, ScanTrace)
  BY <1>8, <1>9, TotalCostIs
<1>12. SumOf(RequestCosts, Traced) = SumOf(f, ScanTrace)
  <2>1. \A r \in ScanTrace : f[r] \in Nat /\ \E i \in Traced : h[i] = r
    BY <1>5, <1>9
  <2>2. \A i \in Traced : RequestCosts[i] = f[h[i]]
    BY <1>7
  <2>. QED
    BY <1>3, <1>6, <1>10, <2>1, <2>2, SumRenamed
<1>. QED
  BY <1>11, <1>12 DEF Traced

(* The bill of a state. *)
LEMMA BillIs == ASSUME BillingInv PROVE BilledOnce
<1>1. PICK owner : Owns(owner)
  BY DEF BillingInv
<1>. DEFINE Traced == {owner[n] : n \in DOMAIN traceLines}
<1>2. BillingTypes /\ TotalsPast /\ requests \in Seq(RequestShape)
  BY DEF BillingInv, BillingTypes
<1>3. /\ Spent = SumOf(RequestCosts, DOMAIN requests) /\ Spent \in Nat /\ IsFiniteSet(DOMAIN requests)
      /\ \A i \in DOMAIN requests : RequestCosts[i] \in Nat
  BY <1>2, SpentIs, SpentIsAll DEF RequestCosts
<1>4. Traced \subseteq DOMAIN requests
  BY <1>1 DEF Owns
<1>5. SumOf(RequestCosts, Traced) <= Spent
  <2>. HIDE DEF Traced
  <2>1. \A i \in Traced : RequestCosts[i] \in Nat /\ RequestCosts[i] <= RequestCosts[i]
    BY <1>3, <1>4
  <2>. QED
    BY <1>3, <1>4, <2>1, SumGrows
<1>6. TotalCost(ScanTrace) = SumOf(RequestCosts, Traced)
  BY <1>1, <1>2, ScanIs
<1>7. CASE ParseModelUsage # {}
  <2>. DEFINE whole == {i \in DOMAIN stdoutBlocks : stdoutBlocks[i].fault # "torn"}
              b == CHOOSE b \in ParseModelUsage : TRUE
  <2>1. b \in ParseModelUsage
    BY <1>7
  <2>2. b \in ResultObject
    BY <2>1 DEF ParseModelUsage
  <2>3. whole # {} /\ b = stdoutBlocks[Max(whole)]
    BY <2>2 DEF ResultObject
  <2>4. stdoutBlocks \in Seq(BlockShape) /\ DOMAIN stdoutBlocks = 1..Len(stdoutBlocks) /\ Len(stdoutBlocks) \in Nat
    BY <1>2 DEF BillingTypes
  <2>5. whole \in SUBSET (0..Len(stdoutBlocks))
    BY <2>4
  <2>. HIDE DEF whole
  <2>6. Max(whole) \in whole
    BY <2>3, <2>4, <2>5, MaxOf
  <2>7. b.total <= Spent
    BY <1>2, <2>3, <2>6 DEF whole, TotalsPast
  <2>. QED
    BY <1>7, <2>7 DEF BilledOnce, Billed
<1>8. CASE ParseModelUsage = {}
  <2>1. Billed = SumOf(RequestCosts, Traced)
    BY <1>6, <1>8 DEF Billed
  <2>2. (\A i \in DOMAIN requests : requests[i].by = "main" /\ requests[i].output > 0) => Traced = DOMAIN requests
    <3>1. \A i \in DOMAIN requests : requests[i].by = "main" /\ requests[i].output > 0 => i \in Traced
      BY <1>1 DEF Owns
    <3>. QED
      BY <1>4, <3>1
  <2>. HIDE DEF Traced
  <2>. QED
    BY <1>3, <1>5, <2>1, <2>2 DEF BilledOnce
<1>. QED
  BY <1>7, <1>8

-----------------------------------------------------------------------------
(* The steps of the agent *)

(* What is appended is behind what there was. *)
LEMMA OldOrNew ==
    ASSUME NEW S, NEW s \in Seq(S), NEW e \in S
    PROVE  \A n \in DOMAIN Append(s, e) :
              Append(s, e)[n] = e \/ (n \in DOMAIN s /\ Append(s, e)[n] = s[n])
  OBVIOUS

(* Nothing was spent or told yet. *)
LEMMA BillingStarts == BillingInit => BillingInv
<1>. SUFFICES ASSUME BillingInit PROVE BillingInv
  OBVIOUS
<1>. DEFINE owner == [n \in DOMAIN traceLines |-> 0]
<1>1. BillingTypes /\ requests = <<>> /\ traceLines = <<>> /\ stdoutBlocks = <<>>
  BY DEF BillingInit, BillingTypes
<1>2. TotalsPast
  BY <1>1 DEF TotalsPast
<1>3. DOMAIN traceLines = {} /\ DOMAIN requests = {}
  BY <1>1
<1>4. Owns(owner)
  BY <1>3 DEF Owns
<1>. QED
  BY <1>1, <1>2, <1>4 DEF BillingInv

(* What was spent is never less. *)
LEMMA SpendingGrows ==
    ASSUME requests \in Seq(RequestShape), requests' \in Seq(RequestShape),
           DOMAIN requests \subseteq DOMAIN requests',
           \A i \in DOMAIN requests : requests[i].output <= requests'[i].output
    PROVE  Spent <= Spent' /\ Spent \in Nat /\ Spent' \in Nat
<1>1. /\ Spent = SumOf(RequestCosts, DOMAIN requests) /\ Spent \in Nat
      /\ \A i \in DOMAIN requests : RequestCosts[i] = 1 + requests[i].output /\ RequestCosts[i] \in Nat
  BY SpentIs, SpentIsAll DEF RequestCosts
<1>2. /\ Spent' = SumOf(RequestCosts', DOMAIN requests') /\ Spent' \in Nat /\ IsFiniteSet(DOMAIN requests')
      /\ \A i \in DOMAIN requests' : RequestCosts'[i] = 1 + requests'[i].output /\ RequestCosts'[i] \in Nat
  BY SpentIs, SpentIsAll DEF RequestCosts
<1>3. \A i \in DOMAIN requests : RequestCosts[i] <= RequestCosts'[i]
  <2>. SUFFICES ASSUME NEW i \in DOMAIN requests PROVE RequestCosts[i] <= RequestCosts'[i]
    OBVIOUS
  <2>1. i \in DOMAIN requests'
    OBVIOUS
  <2>2. requests[i].output \in Nat /\ requests'[i].output \in Nat
    BY <2>1, RequestsAre
  <2>3. RequestCosts[i] = 1 + requests[i].output /\ RequestCosts'[i] = 1 + requests'[i].output
    BY <1>1, <1>2, <2>1
  <2>4. requests[i].output <= requests'[i].output
    OBVIOUS
  <2>. QED
    BY <2>2, <2>3, <2>4
<1>4. SumOf(RequestCosts, DOMAIN requests) <= SumOf(RequestCosts', DOMAIN requests')
  BY <1>1, <1>2, <1>3, SumGrows
<1>. QED
  BY <1>1, <1>2, <1>4

(* A line of one of the requests is written. *)
LEMMA LineWritten ==
    ASSUME BillingTypes, NEW owner, Owns(owner), NEW i \in DOMAIN requests, NEW out \in Nat,
           requests[i].by = "main", UNCHANGED writer,
           traceLines' = Append(traceLines, Line(i, out)),
           requests' \in Seq(RequestShape), DOMAIN requests' = DOMAIN requests,
           \A j \in DOMAIN requests : /\ requests'[j].by = requests[j].by
                                      /\ j # i => requests'[j] = requests[j],
           requests[i].output <= requests'[i].output,
           requests'[i].output \in {requests[i].output, out}, out <= requests'[i].output,
           writer = "legacy" => out = 1 /\ requests[i].output = 0
    PROVE  traceLines' \in Seq(LineShape) /\ \E o : Owns(o)'
<1>. PICK k : k = Len(traceLines) + 1
  OBVIOUS
<1>. PICK o : o = [n \in DOMAIN traceLines' |-> IF n = k THEN i ELSE owner[n]]
  OBVIOUS
<1>1. traceLines \in Seq(LineShape) /\ requests \in Seq(RequestShape) /\ i \in Nat /\ writer \in Writers
  BY DEF BillingTypes
<1>2. Line(i, out) \in LineShape /\ Line(i, out).output = out
      /\ Line(i, out).key = (IF writer = "legacy" THEN Unkeyed ELSE i)
  BY <1>1 DEF Line, LineShape
<1>3. /\ traceLines' \in Seq(LineShape) /\ k \in Nat /\ k \notin DOMAIN traceLines
      /\ DOMAIN traceLines' = DOMAIN traceLines \cup {k} /\ traceLines'[k] = Line(i, out)
      /\ \A n \in DOMAIN traceLines : traceLines'[n] = traceLines[n]
  BY <1>1, <1>2
<1>4. /\ owner \in [DOMAIN traceLines -> DOMAIN requests]
      /\ \A m, n \in DOMAIN traceLines : owner[m] = owner[n] <=> RequestKey(m) = RequestKey(n)
  BY DEF Owns
<1>5. /\ o \in [DOMAIN traceLines' -> DOMAIN requests'] /\ o[k] = i
      /\ \A n \in DOMAIN traceLines : o[n] = owner[n]
  BY <1>3, <1>4
<1>6. \A n \in DOMAIN traceLines : RequestKey(n)' = RequestKey(n)
  BY <1>3 DEF RequestKey
<1>7. RequestKey(k)' = IF writer = "legacy" THEN <<"line", k>> ELSE <<"request", i>>
  <2>1. RequestKey(k)' = IF Line(i, out).key = Unkeyed THEN <<"line", k>> ELSE <<"request", Line(i, out).key>>
    BY <1>3 DEF RequestKey
  <2>. QED
    BY <1>1, <1>2, <2>1, BillingAssumption
<1>8. ASSUME NEW n \in DOMAIN traceLines PROVE o[n] = i <=> RequestKey(n)' = RequestKey(k)'
  <2>1. CASE writer = "legacy"
    <3>1. traceLines[n].key = Unkeyed /\ traceLines[n].output = 1 /\ 1 <= requests[owner[n]].output
      BY <2>1 DEF Owns
    <3>2. o[n] # i
      <4>1. owner[n] # i
        BY <2>1, <3>1
      <4>. QED
        BY <1>5, <4>1
    <3>3. RequestKey(n)' = <<"line", n>> /\ n # k
      BY <1>3, <1>6, <3>1 DEF RequestKey
    <3>. QED
      BY <1>7, <2>1, <3>2, <3>3
  <2>2. CASE writer # "legacy"
    <3>1. traceLines[n].key = owner[n] /\ owner[n] \in DOMAIN requests
      BY <1>4, <2>2 DEF Owns
    <3>2. owner[n] # Unkeyed
      BY <1>1, <3>1, BillingAssumption
    <3>3. RequestKey(n)' = <<"request", owner[n]>>
      BY <1>6, <3>1, <3>2 DEF RequestKey
    <3>4. RequestKey(k)' = <<"request", i>> /\ o[n] = owner[n]
      BY <1>5, <1>7, <2>2
    <3>5. <<"request", owner[n]>> = <<"request", i>> <=> owner[n] = i
      OBVIOUS
    <3>. QED
      BY <3>3, <3>4, <3>5
  <2>. QED
    BY <2>1, <2>2
<1>9. \A m, n \in DOMAIN traceLines' : o[m] = o[n] <=> RequestKey(m)' = RequestKey(n)'
  <2>1. SUFFICES ASSUME NEW m \in DOMAIN traceLines', NEW n \in DOMAIN traceLines'
                 PROVE  o[m] = o[n] <=> RequestKey(m)' = RequestKey(n)'
    OBVIOUS
  <2>2. CASE m = k /\ n = k
    BY <2>2
  <2>3. CASE m = k /\ n # k
    <3>1. n \in DOMAIN traceLines /\ o[m] = i
      BY <1>3, <1>5, <2>3
    <3>. QED
      BY <1>8, <2>3, <3>1
  <2>4. CASE m # k /\ n = k
    <3>1. m \in DOMAIN traceLines /\ o[n] = i
      BY <1>3, <1>5, <2>4
    <3>. QED
      BY <1>8, <2>4, <3>1
  <2>5. CASE m # k /\ n # k
    BY <1>3, <1>4, <1>5, <1>6, <2>5
  <2>. QED
    BY <2>2, <2>3, <2>4, <2>5
<1>10. ASSUME NEW n \in DOMAIN traceLines'
       PROVE  /\ requests'[o[n]].by = "main" /\ traceLines'[n].output <= requests'[o[n]].output
              /\ IF writer = "legacy" THEN traceLines'[n].key = Unkeyed /\ traceLines'[n].output = 1
                 ELSE traceLines'[n].key = o[n]
  <2>1. CASE n = k
    BY <1>2, <1>3, <1>5, <2>1
  <2>2. CASE n # k
    <3>1. n \in DOMAIN traceLines /\ owner[n] \in DOMAIN requests /\ o[n] = owner[n] /\ traceLines'[n] = traceLines[n]
      BY <1>3, <1>4, <1>5, <2>2
    <3>2. requests[owner[n]].output <= requests'[owner[n]].output
          /\ requests[owner[n]].output \in Nat /\ requests'[owner[n]].output \in Nat
          /\ traceLines[n].output \in Nat
      <4>1. requests[owner[n]].output \in Nat /\ requests'[owner[n]].output \in Nat
        BY <1>1, <3>1, RequestsAre
      <4>2. requests[owner[n]].output <= requests'[owner[n]].output
        BY <3>1, <4>1
      <4>. QED
        BY <1>1, <3>1, <4>1, <4>2, LinesAre
    <3>3. /\ requests[owner[n]].by = "main" /\ traceLines[n].output <= requests[owner[n]].output
          /\ IF writer = "legacy" THEN traceLines[n].key = Unkeyed /\ traceLines[n].output = 1
             ELSE traceLines[n].key = owner[n]
      BY <3>1 DEF Owns
    <3>. QED
      BY <3>1, <3>2, <3>3
  <2>. QED
    BY <2>1, <2>2
<1>11. ASSUME NEW j \in DOMAIN requests', requests'[j].by = "main", requests'[j].output > 0
       PROVE  \E n \in DOMAIN traceLines' : o[n] = j /\ traceLines'[n].output = requests'[j].output
  <2>1. CASE j = i /\ requests'[i].output = out
    BY <1>2, <1>3, <1>5, <2>1
  <2>2. CASE j # i \/ requests'[i].output = requests[i].output
    <3>1. j \in DOMAIN requests /\ requests[j].by = "main" /\ requests[j].output = requests'[j].output
      BY <1>11, <2>2
    <3>2. PICK n \in DOMAIN traceLines : owner[n] = j /\ traceLines[n].output = requests[j].output
      BY <1>11, <3>1 DEF Owns
    <3>. QED
      BY <1>3, <1>5, <3>1, <3>2
  <2>. QED
    BY <2>1, <2>2
<1>12. Owns(o)'
  BY <1>5, <1>9, <1>10, <1>11 DEF Owns
<1>. QED
  BY <1>3, <1>12

(* A printed total of what is spent so far leaves every total in the past.   *)
LEMMA TotalPrinted ==
    ASSUME BillingTypes, TotalsPast, NEW told \in BlockShape, told.total = Spent,
           stdoutBlocks' = Append(stdoutBlocks, told), Spent' = Spent, Spent \in Nat
    PROVE  TotalsPast'
<1>1. \A b \in DOMAIN stdoutBlocks' :
         stdoutBlocks'[b] = told \/ (b \in DOMAIN stdoutBlocks /\ stdoutBlocks'[b] = stdoutBlocks[b])
  BY OldOrNew DEF BillingTypes
<1>2. \A b \in DOMAIN stdoutBlocks : stdoutBlocks[b].total <= Spent
  BY DEF TotalsPast
<1>3. told.total <= Spent'
  OBVIOUS
<1>4. ASSUME NEW b \in DOMAIN stdoutBlocks' PROVE stdoutBlocks'[b].total <= Spent'
  <2>1. CASE stdoutBlocks'[b] = told
    BY <1>3, <2>1
  <2>2. CASE b \in DOMAIN stdoutBlocks /\ stdoutBlocks'[b] = stdoutBlocks[b]
    BY <1>2, <2>2
  <2>. QED
    BY <1>1, <2>1, <2>2
<1>. QED
  BY <1>4 DEF TotalsPast

(* The invariant is inductive. *)
LEMMA BillingSteps == BillingInv /\ [BillingNext]_billingVars => BillingInv'
<1>. SUFFICES ASSUME BillingInv, [BillingNext]_billingVars PROVE BillingInv'
  OBVIOUS
<1>1. PICK owner : Owns(owner)
  BY DEF BillingInv
<1>2. /\ BillingTypes /\ TotalsPast /\ requests \in Seq(RequestShape) /\ traceLines \in Seq(LineShape)
      /\ stdoutBlocks \in Seq(BlockShape) /\ writer \in Writers /\ agentRuns \in BOOLEAN
  BY DEF BillingInv, BillingTypes
<1>3. CASE UNCHANGED billingVars
  <2>1. BillingTypes' /\ TotalsPast'
    BY <1>2, <1>3, SpentIsAll DEF billingVars, BillingTypes, TotalsPast
  <2>2. Owns(owner)'
    BY <1>1, <1>3 DEF billingVars, Owns, RequestKey
  <2>. QED
    BY <2>1, <2>2 DEF BillingInv
<1>4. ASSUME NEW by \in {"main", "sub"}, SendRequest(by) PROVE BillingInv'
  <2>. PICK r : r = [by |-> by, output |-> 0]
    OBVIOUS
  <2>1. requests' = Append(requests, r) /\ r \in RequestShape
        /\ UNCHANGED <<writer, traceLines, stdoutBlocks, agentRuns>>
    BY <1>4 DEF SendRequest, RequestShape
  <2>2. /\ requests' \in Seq(RequestShape) /\ DOMAIN requests' = DOMAIN requests \cup {Len(requests) + 1}
        /\ requests'[Len(requests) + 1] = r /\ \A i \in DOMAIN requests : requests'[i] = requests[i]
    BY <1>2, <2>1
  <2>3. Spent <= Spent' /\ Spent \in Nat /\ Spent' \in Nat
    <3>1. \A i \in DOMAIN requests : requests[i].output <= requests'[i].output
      BY <1>2, <2>2, RequestsAre
    <3>. QED
      BY <1>2, <2>2, <3>1, SpendingGrows
  <2>4. TotalsPast'
    <3>1. \A b \in DOMAIN stdoutBlocks : stdoutBlocks[b].total \in Nat
      BY <1>2, BlocksAre
    <3>. QED
      BY <1>2, <2>1, <2>3, <3>1 DEF TotalsPast
  <2>5. BillingTypes'
    BY <1>2, <2>1, <2>2 DEF BillingTypes
  <2>6. Owns(owner)'
    <3>1. \A n \in DOMAIN traceLines : RequestKey(n)' = RequestKey(n)
      BY <2>1 DEF RequestKey
    <3>2. owner \in [DOMAIN traceLines -> DOMAIN requests']
      BY <1>1, <2>2 DEF Owns
    <3>3. \A i \in DOMAIN requests' : requests'[i].output > 0 => i \in DOMAIN requests
      BY <2>2
    <3>. QED
      BY <1>1, <2>1, <2>2, <3>1, <3>2, <3>3 DEF Owns
  <2>. QED
    BY <2>4, <2>5, <2>6 DEF BillingInv
<1>5. ASSUME NEW i \in DOMAIN requests, StreamBlock(i) PROVE BillingInv'
  <2>. PICK out : out = requests[i].output + 1
    OBVIOUS
  <2>1. /\ requests[i].output < (IF writer = "legacy" THEN 1 ELSE MaxOutput)
        /\ requests' = [requests EXCEPT ![i].output = @ + 1]
        /\ traceLines' = IF requests[i].by = "main" THEN Append(traceLines, Line(i, out)) ELSE traceLines
        /\ UNCHANGED <<writer, stdoutBlocks, agentRuns>>
    BY <1>5 DEF StreamBlock
  <2>2. requests[i] \in RequestShape /\ requests[i].output \in Nat /\ out \in Nat
    BY <1>2, RequestsAre
  <2>3. /\ requests' \in Seq(RequestShape) /\ DOMAIN requests' = DOMAIN requests /\ requests'[i].output = out
        /\ \A j \in DOMAIN requests : /\ requests'[j].by = requests[j].by
                                      /\ j # i => requests'[j] = requests[j]
    <3>1. [requests[i] EXCEPT !.output = @ + 1] \in RequestShape
      BY <2>2 DEF RequestShape
    <3>2. requests' = [requests EXCEPT ![i] = [requests[i] EXCEPT !.output = @ + 1]]
      BY <2>1
    <3>3. requests' \in Seq(RequestShape)
      BY <1>2, <3>1, <3>2, ExceptSeq
    <3>. QED
      BY <2>2, <3>2, <3>3 DEF RequestShape
  <2>4. \A j \in DOMAIN requests : requests[j].output <= requests'[j].output
    <3>1. \A j \in DOMAIN requests : requests[j].output \in Nat
      BY <1>2, RequestsAre
    <3>2. requests[i].output <= requests'[i].output
      BY <2>2, <2>3
    <3>3. ASSUME NEW j \in DOMAIN requests, j # i PROVE requests[j].output <= requests'[j].output
      <4>1. requests'[j] = requests[j] /\ requests[j].output \in Nat
        BY <2>3, <3>1, <3>3
      <4>. QED
        BY <4>1
    <3>. QED
      BY <3>2, <3>3
  <2>5. Spent <= Spent' /\ Spent \in Nat /\ Spent' \in Nat
    BY <1>2, <2>3, <2>4, SpendingGrows
  <2>6. TotalsPast'
    <3>1. \A b \in DOMAIN stdoutBlocks : stdoutBlocks[b].total \in Nat
      BY <1>2, BlocksAre
    <3>. QED
      BY <1>2, <2>1, <2>5, <3>1 DEF TotalsPast
  <2>7. traceLines' \in Seq(LineShape) /\ \E o : Owns(o)'
    <3>1. CASE requests[i].by = "main"
      <4>1. traceLines' = Append(traceLines, Line(i, out)) /\ UNCHANGED writer
        BY <2>1, <3>1
      <4>2. writer = "legacy" => out = 1 /\ requests[i].output = 0
        BY <2>1, <2>2
      <4>3. requests[i].output <= requests'[i].output /\ out <= requests'[i].output
        BY <2>2, <2>3
      <4>. QED
        BY <1>1, <1>2, <2>2, <2>3, <3>1, <4>1, <4>2, <4>3, LineWritten
    <3>2. CASE requests[i].by # "main"
      <4>1. UNCHANGED <<writer, traceLines>>
        BY <2>1, <3>2
      <4>2. \A n \in DOMAIN traceLines : RequestKey(n)' = RequestKey(n)
        BY <4>1 DEF RequestKey
      <4>3. \A n \in DOMAIN traceLines : owner[n] # i /\ owner[n] \in DOMAIN requests
        BY <1>1, <3>2 DEF Owns
      <4>4. owner \in [DOMAIN traceLines -> DOMAIN requests']
        BY <1>1, <2>3 DEF Owns
      <4>5. \A n \in DOMAIN traceLines : requests'[owner[n]] = requests[owner[n]]
        BY <2>3, <4>3
      <4>6. ASSUME NEW j \in DOMAIN requests', requests'[j].by = "main", requests'[j].output > 0
            PROVE  \E n \in DOMAIN traceLines : owner[n] = j /\ traceLines[n].output = requests'[j].output
        <5>1. j \in DOMAIN requests /\ j # i /\ requests'[j] = requests[j]
          BY <2>3, <3>2, <4>6
        <5>. QED
          BY <1>1, <4>6, <5>1 DEF Owns
      <4>7. Owns(owner)'
        BY <1>1, <4>1, <4>2, <4>4, <4>5, <4>6 DEF Owns
      <4>. QED
        BY <1>2, <4>1, <4>7
    <3>. QED
      BY <3>1, <3>2
  <2>8. BillingTypes'
    BY <1>2, <2>1, <2>3, <2>7 DEF BillingTypes
  <2>. QED
    BY <2>6, <2>7, <2>8 DEF BillingInv
<1>6. ASSUME NEW i \in DOMAIN requests, ErrorRecord(i) PROVE BillingInv'
  <2>1. /\ writer = "grouped" /\ requests[i].by = "main"
        /\ traceLines' = Append(traceLines, Line(i, 0))
        /\ UNCHANGED <<writer, requests, stdoutBlocks, agentRuns>>
    BY <1>6 DEF ErrorRecord
  <2>2. requests[i].output \in Nat /\ 0 \in Nat
    BY <1>2, RequestsAre
  <2>3. 0 <= requests[i].output /\ requests[i].output <= requests[i].output
    BY <2>2
  <2>4. traceLines' \in Seq(LineShape) /\ \E o : Owns(o)'
    BY <1>1, <1>2, <2>1, <2>2, <2>3, LineWritten
  <2>5. TotalsPast'
    BY <1>2, <2>1, SpentIsAll DEF TotalsPast
  <2>6. BillingTypes'
    BY <1>2, <2>1, <2>4 DEF BillingTypes
  <2>. QED
    BY <2>4, <2>5, <2>6 DEF BillingInv
<1>7. ASSUME NEW fault \in {"none", "short", "no total", "torn"}, PrintResult(fault) PROVE BillingInv'
  <2>0. PICK mains : mains = {i \in DOMAIN requests : requests[i].by = "main"}
    OBVIOUS
  <2>9. PICK told : told = [fault |-> fault, total |-> Spent,
                             models |-> IF fault = "short" THEN CostOfSome(requests, mains) ELSE Spent]
    OBVIOUS
  <2>1. stdoutBlocks' = Append(stdoutBlocks, told) /\ agentRuns' = (fault # "torn")
        /\ UNCHANGED <<writer, requests, traceLines>>
    BY <1>7, <2>0, <2>9 DEF PrintResult, CostOfSome
  <2>2. Spent \in Nat
    BY <1>2, SpentIs, SpentIsAll
  <2>3. CostOfSome(requests, mains) \in Nat
    BY <1>2, <2>0, SpentIs
  <2>4. told \in BlockShape
    BY <2>2, <2>3, <2>9 DEF BlockShape
  <2>10. told.total = Spent
    BY <2>9
  <2>11. Spent' = Spent
    BY <2>1, SpentIsAll
  <2>5. stdoutBlocks' \in Seq(BlockShape)
    BY <1>2, <2>1, <2>4, AppendProperties
  <2>6. TotalsPast'
    <3>1. stdoutBlocks' = Append(stdoutBlocks, told)
      BY <2>1
    <3>. QED
      BY <1>2, <2>2, <2>4, <2>10, <2>11, <3>1, TotalPrinted
  <2>7. BillingTypes'
    BY <1>2, <2>1, <2>5 DEF BillingTypes
  <2>8. Owns(owner)'
    BY <1>1, <2>1 DEF Owns, RequestKey
  <2>. QED
    BY <2>6, <2>7, <2>8 DEF BillingInv
<1>8. CASE AgentIsDone
  <2>1. UNCHANGED <<writer, requests, traceLines, stdoutBlocks>> /\ agentRuns' = FALSE
    BY <1>8 DEF AgentIsDone
  <2>2. BillingTypes' /\ TotalsPast'
    BY <1>2, <2>1, SpentIsAll DEF BillingTypes, TotalsPast
  <2>3. Owns(owner)'
    BY <1>1, <2>1 DEF Owns, RequestKey
  <2>. QED
    BY <2>2, <2>3 DEF BillingInv
<1>. QED
  BY <1>3, <1>4, <1>5, <1>6, <1>7, <1>8 DEF BillingNext

(* However requests overlap, repeat in the trace or are cut off, and whichever *)
(* totals are printed, a run is never billed more than it spent, and by its   *)
(* trace, without sub-agents, all of it (scan_trace, parse_model_usage).      *)
THEOREM RunsAreBilledOnce == BillingSpec => []BilledOnce
<1>1. BillingInit => BillingInv
  BY BillingStarts
<1>2. BillingInv /\ [BillingNext]_billingVars => BillingInv'
  BY BillingSteps
<1>3. BillingInv => BilledOnce
  BY BillIs
<1>. QED
  BY <1>1, <1>2, <1>3, PTL DEF BillingSpec

-----------------------------------------------------------------------------
(* The amounts of the billed steps *)

Counted == {"fresh", "cached", "output", "cost"}

Amounts(bs, field) == [i \in DOMAIN bs |-> bs[i][field]]

SumOver(bs, field, D) == SumOf(Amounts(bs, field), D)

(* A step's amounts are numbers, and what was foreign was read from the cache. *)
LEMMA StepsAre ==
    ASSUME NEW bs \in Seq(BilledSteps)
    PROVE  \A i \in DOMAIN bs : /\ \A field \in Counted : bs[i][field] \in Nat
                                /\ bs[i].foreign => bs[i].cached = 1
<1>1. \A i \in DOMAIN bs : bs[i] \in BilledSteps
  OBVIOUS
<1>2. \A s \in BilledSteps : (\A field \in Counted : s[field] \in Nat) /\ (s.foreign => s.cached = 1)
  BY DEF BilledSteps, Counted
<1>. QED
  BY <1>1, <1>2

(* What some of the steps were billed. *)
LEMMA AmountsAre ==
    ASSUME NEW bs \in Seq(BilledSteps), NEW field \in Counted, NEW D \in SUBSET DOMAIN bs
    PROVE  /\ IsFiniteSet(D)
           /\ \A i \in D : Amounts(bs, field)[i] = bs[i][field] /\ Amounts(bs, field)[i] \in Nat
           /\ SumOver(bs, field, D) \in Nat
<1>1. IsFiniteSet(D)
  <2>1. DOMAIN bs = 1..Len(bs) /\ Len(bs) \in Nat
    OBVIOUS
  <2>2. IsFiniteSet(DOMAIN bs)
    BY <2>1, FS_Interval
  <2>. QED
    BY <2>2, FS_Subset
<1>2. \A i \in D : Amounts(bs, field)[i] = bs[i][field] /\ Amounts(bs, field)[i] \in Nat
  BY StepsAre DEF Amounts
<1>. QED
  BY <1>1, <1>2, SumIsNat DEF SumOver

(* A total of the model, as a sum of a function. *)
LEMMA TotalIs ==
    ASSUME billed \in Seq(BilledSteps), NEW field \in Counted, NEW D \in SUBSET DOMAIN billed
    PROVE  TotalOf(field, D) = SumOver(billed, field, D)
<1>. DEFINE f == Amounts(billed, field)
            Tbl(it) == it = [s \in SUBSET D |->
                              IF s = {} THEN 0 ELSE billed[First(s)][field] + it[s \ {First(s)}]]
            It == CHOOSE it : Tbl(it)
<1>1. TotalOf(field, D) = It[D]
  BY DEF TotalOf, MapThenSumSet, MapThenFoldSet, First
<1>2. IsFiniteSet(D) /\ \A i \in D : f[i] = billed[i][field] /\ f[i] \in Nat
  BY AmountsAre
<1>. HIDE DEF f
<1>3. \A s \in SUBSET D : s # {} => f[First(s)] = billed[First(s)][field]
  BY <1>2, FirstIsIn
<1>4. ASSUME NEW it PROVE Tbl(it) <=> Tabulates(it, f, D)
  BY <1>3 DEF Tabulates
<1>5. Tbl(It)
  <2>1. \E it : Tbl(it)
    BY <1>2, <1>4, TableExists
  <2>. QED
    BY <2>1
<1>. HIDE DEF It, Tbl
<1>6. Tabulates(It, f, D)
  BY <1>4, <1>5
<1>7. It[D] = SumOf(f, D)
  BY <1>2, <1>6, TabledIsSum
<1>. QED
  BY <1>1, <1>7 DEF SumOver, f

(* What was billed up to a step, and after it. *)
LEMMA SumOfMore ==
    ASSUME NEW bs \in Seq(BilledSteps), NEW field \in Counted,
           NEW a \in Nat, NEW b \in Nat, a <= b, b <= Len(bs)
    PROVE  /\ SumOver(bs, field, 1..b) = SumOver(bs, field, 1..a) + SumOver(bs, field, (a + 1)..b)
           /\ SumOver(bs, field, 1..a) \in Nat /\ SumOver(bs, field, (a + 1)..b) \in Nat
<1>. DEFINE f == Amounts(bs, field)
<1>1. 1..b = (1..a) \cup ((a + 1)..b) /\ (1..a) \cap ((a + 1)..b) = {}
  OBVIOUS
<1>2. 1..b \in SUBSET DOMAIN bs /\ 1..a \in SUBSET DOMAIN bs /\ (a + 1)..b \in SUBSET DOMAIN bs
  OBVIOUS
<1>3. /\ IsFiniteSet(1..a) /\ IsFiniteSet((a + 1)..b)
      /\ SumOver(bs, field, 1..a) \in Nat /\ SumOver(bs, field, (a + 1)..b) \in Nat
      /\ \A i \in 1..b : f[i] \in Nat
  BY <1>2, AmountsAre
<1>. HIDE DEF f
<1>4. SumOf(f, (1..a) \cup ((a + 1)..b)) = SumOf(f, 1..a) + SumOf(f, (a + 1)..b)
  BY <1>1, <1>3, SumSplit
<1>. QED
  BY <1>1, <1>3, <1>4 DEF SumOver, f

(* A step more leaves the sums over the earlier ones. *)
LEMMA SumStays ==
    ASSUME NEW bs \in Seq(BilledSteps), NEW s \in BilledSteps, NEW field \in Counted,
           NEW D \in SUBSET DOMAIN bs
    PROVE  SumOver(Append(bs, s), field, D) = SumOver(bs, field, D)
<1>1. Append(bs, s) \in Seq(BilledSteps) /\ D \in SUBSET DOMAIN Append(bs, s)
  OBVIOUS
<1>2. \A i \in D : Append(bs, s)[i] = bs[i]
  OBVIOUS
<1>3. IsFiniteSet(D) /\ \A i \in D : Amounts(bs, field)[i] = bs[i][field] /\ Amounts(bs, field)[i] \in Nat
  BY AmountsAre
<1>4. \A i \in D : Amounts(Append(bs, s), field)[i] = Append(bs, s)[i][field]
  BY <1>1, AmountsAre
<1>5. \A i \in D : Amounts(bs, field)[i] \in Nat /\ Amounts(Append(bs, s), field)[i] = Amounts(bs, field)[i]
  BY <1>2, <1>3, <1>4
<1>. QED
  BY <1>3, <1>5, SameSum DEF SumOver
-----------------------------------------------------------------------------
(* What the log tells, and what the usage says of it *)

LogRecords ==
    [kind : {"thread"}]
      \cup [kind : {"turn"}, input : Nat, cached : Nat, output : Nat]
      \cup [kind : {"step"}, tokens : BOOLEAN, fresh : Nat, output : Nat,
            read : Nat \cup {Missing}, cost : Nat \cup {Missing}]
      \cup [kind : {"result"}, input : Nat, output : Nat, cost : Nat, turns : Nat,
            read : Nat \cup {Missing}]

(* A record tells of the steps after a, up to b. *)
TellsThread(r, a, b) == r.kind = "thread" /\ cliHarness = "codex" /\ hooks # {} /\ b = a

TellsTurn(r, a, b) ==
    /\ r.kind = "turn" /\ cliHarness = "codex"
    /\ r.cached = SumOver(billed, "cached", (a + 1)..b)
    /\ r.input = SumOver(billed, "fresh", (a + 1)..b) + r.cached
    /\ r.output = SumOver(billed, "output", (a + 1)..b)

TellsStep(r, a, b) ==
    /\ r.kind = "step" /\ cliHarness = "opencode"
    /\ r.tokens \in BOOLEAN
    /\ r.fresh = SumOver(billed, "fresh", (a + 1)..b)
    /\ r.output = SumOver(billed, "output", (a + 1)..b)
    /\ r.cost \in {SumOver(billed, "cost", (a + 1)..b), Missing}

TellsResult(r, b) ==
    /\ r.kind = "result" /\ cliHarness = "claude"
    /\ r.input = SumOver(billed, "fresh", 1..b)
    /\ r.output = SumOver(billed, "output", 1..b)
    /\ r.cost = SumOver(billed, "cost", 1..b)
    /\ r.turns = b
    /\ r.read \in {SumOver(billed, "cached", 1..b), Missing}

Tells(r, a, b) == TellsThread(r, a, b) \/ TellsTurn(r, a, b) \/ TellsStep(r, a, b) \/ TellsResult(r, b)

(* How many steps the first n records account for. *)
AccountsFor(mark) ==
    /\ mark \in [0..Len(agentLog) -> 0..Len(billed)]
    /\ mark[0] = 0 /\ mark[Len(agentLog)] = logged
    /\ \A n \in 1..Len(agentLog) :
          mark[n - 1] <= mark[n] /\ Tells(agentLog[n], mark[n - 1], mark[n])

UsageShape == [input : Nat, output : Nat, cost : Nat, turns : Nat, costed : Nat]

(* The usage after b steps. *)
UsageTells(u, b) ==
    /\ u.input <= SumOver(billed, "fresh", 1..b)
    /\ u.output <= SumOver(billed, "output", 1..b)
    /\ u.cost <= SumOver(billed, "cost", 1..b)
    /\ cliHarness # "opencode" => u.input = SumOver(billed, "fresh", 1..b)
                                   /\ u.output = SumOver(billed, "output", 1..b)
    /\ cliHarness = "opencode" =>
          /\ u.costed <= u.turns
          /\ u.costed = u.turns => u.cost = SumOver(billed, "cost", 1..b)

TelemetryTypes ==
    /\ cliHarness \in {"claude", "codex", "opencode"}
    /\ hooks \in SUBSET Controls[cliHarness]
    /\ billed \in Seq(BilledSteps) /\ agentLog \in Seq(LogRecords)
    /\ logged \in 0..Len(billed) /\ logCut \in BOOLEAN
    /\ logPc \in {"works", "read", "done"} /\ consumed \in 0..Len(agentLog)
    /\ usage \in UsageShape /\ proof \in {"none", "valid", "invalid"}

(* What has been done where the run is. *)
Phases ==
    /\ logPc = "works" => consumed = 0 /\ usage = NoUsage
    /\ logPc # "done" => proof = "none"
    /\ logPc = "done" => consumed = Len(agentLog)

(* What the controls of a harness keep out. *)
ControlsHold ==
    hooks = Controls[cliHarness] =>
        \A i \in DOMAIN billed :
            ~billed[i].foreign /\ (cliHarness = "claude" => billed[i].cached = 0)

TelemetryInv ==
    /\ TelemetryTypes /\ Phases /\ ControlsHold /\ CacheProofHolds
    /\ \E mark : AccountsFor(mark) /\ UsageTells(usage, mark[consumed])

LEMMA TelemetryStarts == TelemetryInit => TelemetryInv
<1>. SUFFICES ASSUME TelemetryInit PROVE TelemetryInv
  OBVIOUS
<1>1. /\ cliHarness \in {"claude", "codex", "opencode"} /\ hooks \in SUBSET Controls[cliHarness]
      /\ billed = <<>> /\ logged = 0 /\ logCut = FALSE /\ logPc = "works" /\ consumed = 0
      /\ usage = NoUsage /\ proof = "none"
  BY DEF TelemetryInit
<1>2. \/ agentLog = <<>>
      \/ agentLog = <<[kind |-> "thread"]>> /\ cliHarness = "codex" /\ hooks # {}
  BY DEF TelemetryInit
<1>3. agentLog \in Seq(LogRecords)
  <2>1. [kind |-> "thread"] \in LogRecords
    BY DEF LogRecords
  <2>2. <<>> \in Seq(LogRecords) /\ \A r \in LogRecords : <<r>> \in Seq(LogRecords)
    OBVIOUS
  <2>. QED
    BY <1>2, <2>1, <2>2
<1>4. TelemetryTypes
  <2>1. billed \in Seq(BilledSteps) /\ 0 \in 0..Len(billed)
    BY <1>1
  <2>2. 0 \in 0..Len(agentLog)
    BY <1>3
  <2>3. usage \in UsageShape
    BY <1>1 DEF NoUsage, UsageShape
  <2>. QED
    BY <1>1, <1>3, <2>1, <2>2, <2>3 DEF TelemetryTypes
<1>5. Phases /\ ControlsHold /\ CacheProofHolds
  BY <1>1 DEF Phases, ControlsHold, CacheProofHolds
<1>6. PICK mark : mark = [n \in 0..Len(agentLog) |-> 0]
  OBVIOUS
<1>7. AccountsFor(mark)
  <2>1. Len(agentLog) \in Nat /\ Len(billed) = 0
    BY <1>1, <1>2
  <2>2. ASSUME NEW n \in 1..Len(agentLog) PROVE Tells(agentLog[n], 0, 0)
    <3>1. agentLog[n].kind = "thread" /\ cliHarness = "codex" /\ hooks # {}
      BY <1>2
    <3>. QED
      BY <3>1 DEF Tells, TellsThread
  <2>. QED
    BY <1>1, <1>6, <2>1, <2>2 DEF AccountsFor
<1>8. UsageTells(usage, mark[consumed])
  <2>1. mark[consumed] = 0
    BY <1>1, <1>2, <1>6
  <2>2. \A field : SumOver(billed, field, 1..0) = 0
    <3>1. 1..0 = {}
      OBVIOUS
    <3>. QED
      BY <3>1, SumOfNothing DEF SumOver
  <2>. QED
    BY <1>1, <2>1, <2>2 DEF UsageTells, NoUsage
<1>. QED
  BY <1>4, <1>5, <1>7, <1>8 DEF TelemetryInv
(* One step's amount is the sum over it. *)
LEMMA SumOverOne ==
    ASSUME NEW bs \in Seq(BilledSteps), NEW field \in Counted, NEW b \in DOMAIN bs
    PROVE  SumOver(bs, field, b..b) = bs[b][field] /\ bs[b][field] \in Nat
<1>. DEFINE f == Amounts(bs, field)
<1>1. b..b = {b} /\ b..b \in SUBSET DOMAIN bs
  OBVIOUS
<1>2. IsFiniteSet({b}) /\ f[b] = bs[b][field] /\ f[b] \in Nat
  BY <1>1, AmountsAre
<1>. HIDE DEF f
<1>3. SumOf(f, {b}) = f[b] + SumOf(f, {b} \ {b})
  <2>1. b \in {b} /\ \A x \in {b} : f[x] \in Nat
    BY <1>2
  <2>. QED
    BY <1>2, <2>1, SumWithout
<1>4. {b} \ {b} = {}
  OBVIOUS
<1>5. SumOf(f, {b}) = f[b]
  <2>1. SumOf(f, {}) = 0
    BY SumOfNothing
  <2>2. SumOf(f, {b}) = f[b] + SumOf(f, {})
    BY <1>3, <1>4
  <2>. QED
    BY <1>2, <2>1, <2>2
<1>. QED
  BY <1>1, <1>2, <1>5 DEF SumOver, f

(* What a record tells is still so when another step is billed. *)
LEMMA TellsStays ==
    ASSUME billed \in Seq(BilledSteps), NEW s \in BilledSteps, billed' = Append(billed, s),
           UNCHANGED <<cliHarness, hooks>>,
           NEW r, NEW a \in Nat, NEW b \in 0..Len(billed), Tells(r, a, b)
    PROVE  Tells(r, a, b)'
<1>1. /\ (a + 1)..b \in SUBSET DOMAIN billed /\ 1..b \in SUBSET DOMAIN billed
      /\ {"fresh", "cached", "output", "cost"} = Counted
  BY DEF Counted
<1>2. \A field \in Counted : /\ SumOver(billed', field, (a + 1)..b) = SumOver(billed, field, (a + 1)..b)
                             /\ SumOver(billed', field, 1..b) = SumOver(billed, field, 1..b)
  BY <1>1, SumStays
<1>3. /\ SumOver(billed', "fresh", (a + 1)..b) = SumOver(billed, "fresh", (a + 1)..b)
      /\ SumOver(billed', "cached", (a + 1)..b) = SumOver(billed, "cached", (a + 1)..b)
      /\ SumOver(billed', "output", (a + 1)..b) = SumOver(billed, "output", (a + 1)..b)
      /\ SumOver(billed', "cost", (a + 1)..b) = SumOver(billed, "cost", (a + 1)..b)
  BY <1>1, <1>2
<1>4. /\ SumOver(billed', "fresh", 1..b) = SumOver(billed, "fresh", 1..b)
      /\ SumOver(billed', "cached", 1..b) = SumOver(billed, "cached", 1..b)
      /\ SumOver(billed', "output", 1..b) = SumOver(billed, "output", 1..b)
      /\ SumOver(billed', "cost", 1..b) = SumOver(billed, "cost", 1..b)
  BY <1>1, <1>2
<1>5. CASE TellsThread(r, a, b)
  BY <1>5 DEF Tells, TellsThread
<1>6. CASE TellsTurn(r, a, b)
  BY <1>3, <1>6 DEF Tells, TellsTurn
<1>7. CASE TellsStep(r, a, b)
  BY <1>3, <1>7 DEF Tells, TellsStep
<1>8. CASE TellsResult(r, b)
  BY <1>4, <1>8 DEF Tells, TellsResult
<1>. QED
  BY <1>5, <1>6, <1>7, <1>8 DEF Tells

(* A record of what was not logged yet is written. *)
LEMMA StepRecorded ==
    ASSUME TelemetryTypes, Phases, NEW mark, AccountsFor(mark), UsageTells(usage, mark[consumed]),
           ControlsHold, logPc = "works", NEW r \in LogRecords, Log(r), Tells(r, logged, Len(billed))
    PROVE  TelemetryInv'
<1>1. /\ agentLog' = Append(agentLog, r) /\ logged' = Len(billed)
      /\ UNCHANGED <<cliHarness, hooks, billed, logCut, logPc, consumed, usage, proof>>
  BY DEF Log
<1>2. PICK N : N = Len(agentLog)
  OBVIOUS
<1>3. /\ N \in Nat /\ agentLog' \in Seq(LogRecords) /\ Len(agentLog') = N + 1 /\ agentLog'[N + 1] = r
      /\ \A n \in 1..N : agentLog'[n] = agentLog[n]
  <2>1. agentLog \in Seq(LogRecords)
    BY DEF TelemetryTypes
  <2>. QED
    BY <1>1, <1>2, <2>1
<1>4. /\ Len(billed) \in Nat /\ logged \in 0..Len(billed) /\ consumed \in 0..N
      /\ mark \in [0..N -> 0..Len(billed)] /\ mark[0] = 0 /\ mark[N] = logged
      /\ \A n \in 1..N : mark[n - 1] <= mark[n] /\ Tells(agentLog[n], mark[n - 1], mark[n])
  BY <1>2 DEF TelemetryTypes, AccountsFor
<1>5. PICK next : next = [n \in 0..(N + 1) |-> IF n <= N THEN mark[n] ELSE Len(billed)]
  OBVIOUS
<1>6. \A q, a, b : Tells(q, a, b) => Tells(q, a, b)'
  BY <1>1 DEF Tells, TellsThread, TellsTurn, TellsStep, TellsResult
<1>7. AccountsFor(next)'
  <2>1. /\ next \in [0..(N + 1) -> 0..Len(billed)] /\ next[0] = 0 /\ next[N + 1] = Len(billed)
        /\ next[N] = logged /\ \A n \in 0..N : next[n] = mark[n]
    BY <1>3, <1>4, <1>5
  <2>2. ASSUME NEW n \in 1..(N + 1)
        PROVE  next[n - 1] <= next[n] /\ Tells(agentLog[n], next[n - 1], next[n])'
    <3>1. PICK q, a, b : q = agentLog'[n] /\ a = next[n - 1] /\ b = next[n]
      OBVIOUS
    <3>2. a <= b /\ Tells(q, a, b)
      <4>1. CASE n = N + 1
        <5>1. n - 1 = N
          BY <1>3, <4>1
        <5>2. a = logged /\ b = Len(billed) /\ q = r
          BY <1>3, <2>1, <3>1, <4>1, <5>1
        <5>. QED
          BY <1>4, <5>2
      <4>2. CASE n \in 1..N
        <5>1. n - 1 \in 0..N /\ n \in 0..N
          BY <1>3, <4>2
        <5>2. a = mark[n - 1] /\ b = mark[n] /\ q = agentLog[n]
          BY <1>3, <2>1, <3>1, <4>2, <5>1
        <5>. QED
          BY <1>4, <4>2, <5>2
      <4>. QED
        BY <1>3, <4>1, <4>2
    <3>3. Tells(q, a, b)'
      BY <1>6, <3>2
    <3>. QED
      BY <3>1, <3>2, <3>3
  <2>3. Len(agentLog') = N + 1 /\ Len(billed') = Len(billed) /\ logged' = Len(billed)
    BY <1>1, <1>3
  <2>. QED
    BY <2>1, <2>2, <2>3 DEF AccountsFor
<1>8. UsageTells(usage, next[consumed])'
  <2>1. next[consumed] = mark[consumed]
    BY <1>3, <1>4, <1>5
  <2>. QED
    BY <1>1, <2>1 DEF UsageTells
<1>9. TelemetryTypes'
  <2>1. consumed' \in 0..Len(agentLog') /\ logged' \in 0..Len(billed')
    BY <1>1, <1>3, <1>4
  <2>. QED
    BY <1>1, <1>3, <2>1 DEF TelemetryTypes
<1>10. Phases' /\ ControlsHold' /\ CacheProofHolds'
  BY <1>1 DEF Phases, ControlsHold, CacheProofHolds
<1>. QED
  BY <1>7, <1>8, <1>9, <1>10 DEF TelemetryInv

(* The provider bills a step. *)
LEMMA StepIsBilled ==
    ASSUME TelemetryTypes, Phases, ControlsHold, NEW mark, AccountsFor(mark),
           UsageTells(usage, mark[consumed]), StepBilled
    PROVE  TelemetryInv'
<1>1. PICK s \in BilledSteps :
         /\ hooks = Controls[cliHarness] => ~s.foreign /\ (cliHarness = "claude" => s.cached = 0)
         /\ billed' = Append(billed, s)
  BY DEF StepBilled
<1>2. /\ logPc = "works"
      /\ UNCHANGED <<cliHarness, hooks, agentLog, logged, logCut, logPc, consumed, usage, proof>>
  BY DEF StepBilled
<1>3. billed \in Seq(BilledSteps)
  BY DEF TelemetryTypes
<1>4. /\ billed' \in Seq(BilledSteps) /\ Len(billed') = Len(billed) + 1 /\ Len(billed) \in Nat
      /\ \A i \in DOMAIN billed' : billed'[i] = s \/ (i \in DOMAIN billed /\ billed'[i] = billed[i])
  BY <1>1, <1>3
<1>5. /\ mark \in [0..Len(agentLog) -> 0..Len(billed)] /\ mark[0] = 0 /\ mark[Len(agentLog)] = logged
      /\ \A n \in 1..Len(agentLog) : mark[n - 1] <= mark[n] /\ Tells(agentLog[n], mark[n - 1], mark[n])
      /\ Len(agentLog) \in Nat /\ consumed \in 0..Len(agentLog) /\ logged \in 0..Len(billed)
  BY DEF AccountsFor, TelemetryTypes
<1>6. AccountsFor(mark)'
  <2>1. ASSUME NEW n \in 1..Len(agentLog) PROVE Tells(agentLog[n], mark[n - 1], mark[n])'
    <3>1. PICK r, a, b : r = agentLog[n] /\ a = mark[n - 1] /\ b = mark[n]
      OBVIOUS
    <3>2. a \in Nat /\ b \in 0..Len(billed) /\ Tells(r, a, b)
      <4>1. n - 1 \in 0..Len(agentLog) /\ n \in 0..Len(agentLog)
        BY <1>5
      <4>2. a \in 0..Len(billed) /\ b \in 0..Len(billed)
        BY <1>5, <3>1, <4>1
      <4>3. Tells(r, a, b)
        BY <1>5, <3>1
      <4>. QED
        BY <1>4, <4>2, <4>3
    <3>3. Tells(r, a, b)'
      BY <1>1, <1>2, <1>3, <3>2, TellsStays
    <3>4. agentLog'[n] = r
      BY <1>2, <3>1
    <3>. QED
      BY <3>1, <3>3, <3>4
  <2>2. mark \in [0..Len(agentLog) -> 0..Len(billed')]
    BY <1>4, <1>5
  <2>3. \A n \in 1..Len(agentLog') : mark[n - 1] <= mark[n] /\ Tells(agentLog[n], mark[n - 1], mark[n])'
    BY <1>2, <1>5, <2>1
  <2>. QED
    BY <1>2, <1>5, <2>2, <2>3 DEF AccountsFor
<1>7. UsageTells(usage, mark[consumed])'
  <2>1. PICK b : b = mark[consumed]
    OBVIOUS
  <2>2. 1..b \in SUBSET DOMAIN billed
    <3>1. b \in 0..Len(billed)
      BY <1>5, <2>1
    <3>2. DOMAIN billed = 1..Len(billed)
      BY <1>3
    <3>. QED
      BY <1>4, <3>1, <3>2
  <2>3. \A field \in Counted : SumOver(billed', field, 1..b) = SumOver(billed, field, 1..b)
    BY <1>1, <1>3, <2>2, SumStays
  <2>4. /\ SumOver(billed', "fresh", 1..b) = SumOver(billed, "fresh", 1..b)
        /\ SumOver(billed', "output", 1..b) = SumOver(billed, "output", 1..b)
        /\ SumOver(billed', "cost", 1..b) = SumOver(billed, "cost", 1..b)
    BY <2>3 DEF Counted
  <2>5. UsageTells(usage, b)
    BY <2>1
  <2>6. UsageTells(usage, b)'
    BY <1>2, <2>4, <2>5 DEF UsageTells
  <2>. QED
    BY <1>2, <2>1, <2>6
<1>8. TelemetryTypes'
  <2>1. logged' \in 0..Len(billed')
    BY <1>2, <1>4, <1>5
  <2>. QED
    BY <1>2, <1>4, <2>1 DEF TelemetryTypes
<1>9. ControlsHold'
  BY <1>1, <1>2, <1>4 DEF ControlsHold
<1>10. Phases' /\ CacheProofHolds'
  BY <1>2 DEF Phases, CacheProofHolds
<1>. QED
  BY <1>6, <1>7, <1>8, <1>9, <1>10 DEF TelemetryInv
(* What was not logged yet. *)
LEMMA UnloggedIs ==
    ASSUME TelemetryTypes
    PROVE  /\ Unlogged = (logged + 1)..Len(billed) /\ Unlogged \in SUBSET DOMAIN billed
           /\ logged \in Nat /\ Len(billed) \in Nat /\ logged <= Len(billed)
           /\ \A field \in Counted :
                 /\ TotalOf(field, Unlogged) = SumOver(billed, field, (logged + 1)..Len(billed))
                 /\ TotalOf(field, DOMAIN billed) = SumOver(billed, field, 1..Len(billed))
                 /\ TotalOf(field, Unlogged) \in Nat /\ TotalOf(field, DOMAIN billed) \in Nat
<1>1. billed \in Seq(BilledSteps) /\ logged \in 0..Len(billed)
  BY DEF TelemetryTypes
<1>2. Unlogged = (logged + 1)..Len(billed) /\ DOMAIN billed = 1..Len(billed) /\ Len(billed) \in Nat
  BY <1>1 DEF Unlogged
<1>3. Unlogged \in SUBSET DOMAIN billed /\ logged \in Nat /\ logged <= Len(billed)
  BY <1>1, <1>2
<1>4. ASSUME NEW field \in Counted, NEW D \in SUBSET DOMAIN billed
      PROVE  TotalOf(field, D) = SumOver(billed, field, D) /\ TotalOf(field, D) \in Nat
  BY <1>1, TotalIs, AmountsAre
<1>. QED
  BY <1>2, <1>3, <1>4

(* What each harness logs is told of what was billed. *)
LEMMA TurnIsTold ==
    ASSUME TelemetryTypes, TurnCompleted
    PROVE  logPc = "works" /\ \E r \in LogRecords : Log(r) /\ Tells(r, logged, Len(billed))
<1>1. PICK fresh, cached, output :
         /\ fresh = TotalOf("fresh", Unlogged) /\ cached = TotalOf("cached", Unlogged)
         /\ output = TotalOf("output", Unlogged)
  OBVIOUS
<1>2. /\ fresh = SumOver(billed, "fresh", (logged + 1)..Len(billed))
      /\ cached = SumOver(billed, "cached", (logged + 1)..Len(billed))
      /\ output = SumOver(billed, "output", (logged + 1)..Len(billed))
      /\ fresh \in Nat /\ cached \in Nat /\ output \in Nat
  BY <1>1, UnloggedIs DEF Counted
<1>3. PICK r : r = [kind |-> "turn", input |-> fresh + cached, cached |-> cached, output |-> output]
  OBVIOUS
<1>4. Log(r) /\ cliHarness = "codex" /\ logPc = "works"
  BY <1>1, <1>3 DEF TurnCompleted
<1>5. r \in LogRecords
  BY <1>2, <1>3 DEF LogRecords
<1>6. TellsTurn(r, logged, Len(billed))
  BY <1>2, <1>3, <1>4 DEF TellsTurn
<1>. QED
  BY <1>4, <1>5, <1>6 DEF Tells

LEMMA StepIsTold ==
    ASSUME TelemetryTypes, StepFinish
    PROVE  logPc = "works" /\ \E r \in LogRecords : Log(r) /\ Tells(r, logged, Len(billed))
<1>1. logged + 1 = Len(billed) /\ Len(billed) \in DOMAIN billed
  <2>1. Cardinality((logged + 1)..Len(billed)) = 1 /\ logged \in Nat /\ Len(billed) \in Nat
    BY UnloggedIs DEF StepFinish
  <2>2. logged + 1 \in Int /\ Len(billed) \in Int
    BY <2>1
  <2>3. logged + 1 = Len(billed)
    <3>1. PICK a \in Int, b \in Int : a = logged + 1 /\ b = Len(billed)
      BY <2>2
    <3>2. Cardinality(a..b) = IF a > b THEN 0 ELSE b - a + 1
      BY FS_Interval
    <3>. QED
      BY <2>1, <3>1, <3>2
  <2>. QED
    BY <2>1, <2>3 DEF TelemetryTypes
<1>2. PICK s : s = billed[Len(billed)]
  OBVIOUS
<1>3. billed \in Seq(BilledSteps)
  BY DEF TelemetryTypes
<1>4. \A field \in Counted : SumOver(billed, field, (logged + 1)..Len(billed)) = s[field] /\ s[field] \in Nat
  BY <1>1, <1>2, <1>3, SumOverOne
<1>5. /\ SumOver(billed, "fresh", (logged + 1)..Len(billed)) = s.fresh /\ s.fresh \in Nat
      /\ SumOver(billed, "cached", (logged + 1)..Len(billed)) = s.cached /\ s.cached \in Nat
      /\ SumOver(billed, "output", (logged + 1)..Len(billed)) = s.output /\ s.output \in Nat
      /\ SumOver(billed, "cost", (logged + 1)..Len(billed)) = s.cost /\ s.cost \in Nat
  BY <1>4 DEF Counted
<1>6. PICK tokens \in BOOLEAN, priced \in BOOLEAN :
         Log([kind |-> "step", tokens |-> tokens, fresh |-> s.fresh, output |-> s.output,
              read |-> IF tokens THEN s.cached ELSE Missing,
              cost |-> IF priced THEN s.cost ELSE Missing])
  BY <1>2 DEF StepFinish
<1>7. PICK r : r = [kind |-> "step", tokens |-> tokens, fresh |-> s.fresh, output |-> s.output,
                    read |-> IF tokens THEN s.cached ELSE Missing,
                    cost |-> IF priced THEN s.cost ELSE Missing]
  OBVIOUS
<1>8. Log(r) /\ cliHarness = "opencode" /\ logPc = "works"
  BY <1>6, <1>7 DEF StepFinish
<1>9. r \in LogRecords
  BY <1>5, <1>7 DEF LogRecords
<1>10. TellsStep(r, logged, Len(billed))
  BY <1>5, <1>7, <1>8 DEF TellsStep
<1>. QED
  BY <1>8, <1>9, <1>10 DEF Tells

LEMMA ResultIsTold ==
    ASSUME TelemetryTypes, ResultPrinted
    PROVE  logPc = "works" /\ \E r \in LogRecords : Log(r) /\ Tells(r, logged, Len(billed))
<1>1. PICK fresh, cached, output, cost :
         /\ fresh = TotalOf("fresh", DOMAIN billed) /\ cached = TotalOf("cached", DOMAIN billed)
         /\ output = TotalOf("output", DOMAIN billed) /\ cost = TotalOf("cost", DOMAIN billed)
  OBVIOUS
<1>2. /\ fresh = SumOver(billed, "fresh", 1..Len(billed))
      /\ cached = SumOver(billed, "cached", 1..Len(billed))
      /\ output = SumOver(billed, "output", 1..Len(billed))
      /\ cost = SumOver(billed, "cost", 1..Len(billed))
      /\ fresh \in Nat /\ cached \in Nat /\ output \in Nat /\ cost \in Nat /\ Len(billed) \in Nat
  BY <1>1, UnloggedIs DEF Counted
<1>3. PICK counted \in BOOLEAN :
         Log([kind |-> "result", input |-> fresh, output |-> output, cost |-> cost,
              turns |-> Len(billed), read |-> IF counted THEN cached ELSE Missing])
  BY <1>1 DEF ResultPrinted
<1>4. PICK r : r = [kind |-> "result", input |-> fresh, output |-> output, cost |-> cost,
                    turns |-> Len(billed), read |-> IF counted THEN cached ELSE Missing]
  OBVIOUS
<1>5. Log(r) /\ cliHarness = "claude" /\ logPc = "works"
  BY <1>3, <1>4 DEF ResultPrinted
<1>6. r \in LogRecords
  BY <1>2, <1>4 DEF LogRecords
<1>7. TellsResult(r, Len(billed))
  BY <1>2, <1>4, <1>5 DEF TellsResult
<1>. QED
  BY <1>5, <1>6, <1>7 DEF Tells

(* What a turn, a step and a total make of the usage. *)
LEMMA TurnConsumed ==
    ASSUME usage \in UsageShape, NEW r, r.kind = "turn", NEW i \in Nat, NEW o \in Nat,
           i = r.input - r.cached, o = r.output
    PROVE  /\ ConsumeCodexUsage(r) \in UsageShape
           /\ ConsumeCodexUsage(r).input = usage.input + i
           /\ ConsumeCodexUsage(r).output = usage.output + o
           /\ ConsumeCodexUsage(r).cost = usage.cost
<1>1. PICK u, w : u = usage /\ w = ConsumeCodexUsage(r)
  OBVIOUS
<1>2. w = [u EXCEPT !.input = @ + i, !.output = @ + o, !.turns = @ + 1]
  BY <1>1 DEF ConsumeCodexUsage
<1>3. u \in UsageShape
  BY <1>1
<1>4. /\ w \in UsageShape /\ w.input = u.input + i /\ w.output = u.output + o /\ w.cost = u.cost
  <2>1. PICK u1 : u1 = [u EXCEPT !.input = @ + i]
    OBVIOUS
  <2>2. /\ u1 \in UsageShape
        /\ u1.input = u.input + i /\ u1.output = u.output /\ u1.cost = u.cost /\ u1.turns = u.turns /\ u1.costed = u.costed
    BY <1>3, <2>1 DEF UsageShape
  <2>3. PICK u2 : u2 = [u1 EXCEPT !.output = @ + o]
    OBVIOUS
  <2>4. /\ u2 \in UsageShape
        /\ u2.input = u.input + i /\ u2.output = u.output + o /\ u2.cost = u.cost /\ u2.turns = u.turns /\ u2.costed = u.costed
    BY <2>3, <2>2 DEF UsageShape
  <2>5. PICK u3 : u3 = [u2 EXCEPT !.turns = @ + 1]
    OBVIOUS
  <2>6. /\ u3 \in UsageShape
        /\ u3.input = u.input + i /\ u3.output = u.output + o /\ u3.cost = u.cost /\ u3.turns = u.turns + 1 /\ u3.costed = u.costed
    BY <2>5, <2>4 DEF UsageShape
  <2>7. w = u3
    BY <1>2, <2>1, <2>3, <2>5
  <2>. QED
    BY <2>7, <2>6
<1>. QED
  BY <1>1, <1>4

LEMMA StepConsumed ==
    ASSUME usage \in UsageShape, NEW r, r.kind = "step",
           NEW i \in Nat, NEW o \in Nat, NEW c \in Nat, NEW p \in Nat,
           i = (IF r.tokens THEN r.fresh ELSE 0), o = (IF r.tokens THEN r.output ELSE 0),
           c = (IF r.cost # Missing THEN r.cost ELSE 0), p = (IF r.cost # Missing THEN 1 ELSE 0)
    PROVE  /\ ConsumeOpencodeUsage(r) \in UsageShape
           /\ ConsumeOpencodeUsage(r).input = usage.input + i
           /\ ConsumeOpencodeUsage(r).output = usage.output + o
           /\ ConsumeOpencodeUsage(r).cost = usage.cost + c
           /\ ConsumeOpencodeUsage(r).costed = usage.costed + p
           /\ ConsumeOpencodeUsage(r).turns = usage.turns + 1
<1>1. PICK u, w : u = usage /\ w = ConsumeOpencodeUsage(r)
  OBVIOUS
<1>2. w = [u EXCEPT !.input = @ + i, !.output = @ + o, !.cost = @ + c, !.costed = @ + p, !.turns = @ + 1]
  BY <1>1 DEF ConsumeOpencodeUsage
<1>3. u \in UsageShape
  BY <1>1
<1>4. /\ w \in UsageShape /\ w.input = u.input + i /\ w.output = u.output + o /\ w.cost = u.cost + c
      /\ w.turns = u.turns + 1 /\ w.costed = u.costed + p
  <2>1. PICK u1 : u1 = [u EXCEPT !.input = @ + i]
    OBVIOUS
  <2>2. /\ u1 \in UsageShape
        /\ u1.input = u.input + i /\ u1.output = u.output /\ u1.cost = u.cost /\ u1.turns = u.turns /\ u1.costed = u.costed
    BY <1>3, <2>1 DEF UsageShape
  <2>3. PICK u2 : u2 = [u1 EXCEPT !.output = @ + o]
    OBVIOUS
  <2>4. /\ u2 \in UsageShape
        /\ u2.input = u.input + i /\ u2.output = u.output + o /\ u2.cost = u.cost /\ u2.turns = u.turns /\ u2.costed = u.costed
    BY <2>3, <2>2 DEF UsageShape
  <2>5. PICK u3 : u3 = [u2 EXCEPT !.cost = @ + c]
    OBVIOUS
  <2>6. /\ u3 \in UsageShape
        /\ u3.input = u.input + i /\ u3.output = u.output + o /\ u3.cost = u.cost + c /\ u3.turns = u.turns /\ u3.costed = u.costed
    BY <2>5, <2>4 DEF UsageShape
  <2>7. PICK u4 : u4 = [u3 EXCEPT !.costed = @ + p]
    OBVIOUS
  <2>8. /\ u4 \in UsageShape
        /\ u4.input = u.input + i /\ u4.output = u.output + o /\ u4.cost = u.cost + c /\ u4.turns = u.turns /\ u4.costed = u.costed + p
    BY <2>7, <2>6 DEF UsageShape
  <2>9. PICK u5 : u5 = [u4 EXCEPT !.turns = @ + 1]
    OBVIOUS
  <2>10. /\ u5 \in UsageShape
        /\ u5.input = u.input + i /\ u5.output = u.output + o /\ u5.cost = u.cost + c /\ u5.turns = u.turns + 1 /\ u5.costed = u.costed + p
    BY <2>9, <2>8 DEF UsageShape
  <2>11. w = u5
    BY <1>2, <2>1, <2>3, <2>5, <2>7, <2>9
  <2>. QED
    BY <2>11, <2>10
<1>. QED
  BY <1>1, <1>4

LEMMA TotalConsumed ==
    ASSUME usage \in UsageShape, NEW r, r.kind = "result",
           NEW i \in Nat, NEW o \in Nat, NEW c \in Nat, NEW t \in Nat,
           r.input = i, r.output = o, r.cost = c, r.turns = t
    PROVE  /\ ConsumeClaudeUsage(r) \in UsageShape
           /\ ConsumeClaudeUsage(r).input = i
           /\ ConsumeClaudeUsage(r).output = o
           /\ ConsumeClaudeUsage(r).cost = c
<1>1. PICK u, w : u = usage /\ w = ConsumeClaudeUsage(r)
  OBVIOUS
<1>2. w = [u EXCEPT !.input = i, !.output = o, !.cost = c, !.turns = t]
  BY <1>1 DEF ConsumeClaudeUsage
<1>3. u \in UsageShape
  BY <1>1
<1>4. w \in UsageShape /\ w.input = i /\ w.output = o /\ w.cost = c
  BY <1>2, <1>3 DEF UsageShape
<1>. QED
  BY <1>1, <1>4

(* The usage grows by what a record tells. *)
LEMMA UsageGrows ==
    ASSUME TelemetryTypes, NEW r \in LogRecords, NEW a \in Nat, NEW b \in 0..Len(billed), a <= b,
           Tells(r, a, b), UsageTells(usage, a), NEW next,
           \/ cliHarness = "codex" /\ next = ConsumeCodexUsage(r)
           \/ cliHarness = "opencode" /\ next = ConsumeOpencodeUsage(r)
           \/ cliHarness = "claude" /\ next = ConsumeClaudeUsage(r)
    PROVE  next \in UsageShape /\ UsageTells(next, b)
<1>1. billed \in Seq(BilledSteps) /\ Len(billed) \in Nat /\ b \in Nat /\ b <= Len(billed)
  <2>1. billed \in Seq(BilledSteps)
    BY DEF TelemetryTypes
  <2>2. Len(billed) \in Nat
    BY <2>1
  <2>. QED
    BY <2>1, <2>2
<1>2. \A field \in Counted :
         /\ SumOver(billed, field, 1..b) = SumOver(billed, field, 1..a) + SumOver(billed, field, (a + 1)..b)
         /\ SumOver(billed, field, 1..a) \in Nat /\ SumOver(billed, field, (a + 1)..b) \in Nat
  BY <1>1, SumOfMore
<1>3. PICK f0, f1, f2 : /\ f0 = SumOver(billed, "fresh", 1..a) /\ f2 = SumOver(billed, "fresh", 1..b)
                        /\ f1 = SumOver(billed, "fresh", (a + 1)..b)
  OBVIOUS
<1>4. PICK o0, o1, o2 : /\ o0 = SumOver(billed, "output", 1..a) /\ o2 = SumOver(billed, "output", 1..b)
                        /\ o1 = SumOver(billed, "output", (a + 1)..b)
  OBVIOUS
<1>5. PICK c0, c1, c2 : /\ c0 = SumOver(billed, "cost", 1..a) /\ c2 = SumOver(billed, "cost", 1..b)
                        /\ c1 = SumOver(billed, "cost", (a + 1)..b)
  OBVIOUS
<1>6. /\ f2 = f0 + f1 /\ f0 \in Nat /\ f1 \in Nat /\ o2 = o0 + o1 /\ o0 \in Nat /\ o1 \in Nat
      /\ c2 = c0 + c1 /\ c0 \in Nat /\ c1 \in Nat
  BY <1>2, <1>3, <1>4, <1>5 DEF Counted
<1>7. /\ usage.input \in Nat /\ usage.output \in Nat /\ usage.cost \in Nat
      /\ usage.turns \in Nat /\ usage.costed \in Nat /\ usage \in UsageShape
  BY DEF TelemetryTypes, UsageShape
<1>8. /\ usage.input <= f0 /\ usage.output <= o0 /\ usage.cost <= c0
      /\ cliHarness # "opencode" => usage.input = f0 /\ usage.output = o0
      /\ cliHarness = "opencode" =>
            usage.costed <= usage.turns /\ (usage.costed = usage.turns => usage.cost = c0)
  BY <1>3, <1>4, <1>5 DEF UsageTells
<1>9. CASE TellsThread(r, a, b)
  <2>1. next = usage /\ b = a
    BY <1>9 DEF TellsThread, ConsumeCodexUsage
  <2>. QED
    BY <1>7, <2>1
<1>10. CASE TellsTurn(r, a, b)
  <2>1. next = ConsumeCodexUsage(r) /\ r.kind = "turn"
    BY <1>10 DEF TellsTurn
  <2>2. r.input = f1 + r.cached /\ r.output = o1 /\ cliHarness = "codex"
    BY <1>3, <1>4, <1>10 DEF TellsTurn
  <2>3. r.cached \in Nat
    BY <1>2, <1>10 DEF TellsTurn, Counted
  <2>4. /\ next.input = usage.input + f1 /\ next.output = usage.output + o1 /\ next.cost = usage.cost
        /\ next \in UsageShape
    <3>1. PICK i, o : i = r.input - r.cached /\ o = r.output
      OBVIOUS
    <3>2. i = f1 /\ i \in Nat /\ o = o1 /\ o \in Nat
      BY <1>6, <2>2, <2>3, <3>1
    <3>3. /\ next \in UsageShape /\ next.input = usage.input + i /\ next.output = usage.output + o
          /\ next.cost = usage.cost
      BY <1>7, <2>1, <3>1, <3>2, TurnConsumed
    <3>. QED
      BY <3>2, <3>3
  <2>5. usage.input = f0 /\ usage.output = o0 /\ usage.cost <= c0
    BY <1>8, <2>2
  <2>6. next.input = f2 /\ next.output = o2 /\ next.cost <= c2 /\ f2 \in Nat /\ o2 \in Nat
    BY <1>6, <1>7, <2>4, <2>5
  <2>. QED
    BY <1>3, <1>4, <1>5, <2>2, <2>4, <2>6 DEF UsageTells
<1>11. CASE TellsStep(r, a, b)
  <2>1. next = ConsumeOpencodeUsage(r) /\ r.kind = "step"
    BY <1>11 DEF TellsStep
  <2>2. PICK i, o, c, p : /\ i = (IF r.tokens THEN r.fresh ELSE 0) /\ o = (IF r.tokens THEN r.output ELSE 0)
                          /\ c = (IF r.cost # Missing THEN r.cost ELSE 0)
                          /\ p = (IF r.cost # Missing THEN 1 ELSE 0)
    OBVIOUS
  <2>3. r.fresh = f1 /\ r.output = o1 /\ r.cost \in {c1, Missing} /\ cliHarness = "opencode"
    BY <1>3, <1>4, <1>5, <1>11 DEF TellsStep
  <2>4. i \in {0, f1} /\ o \in {0, o1} /\ ((c = c1 /\ p = 1) \/ (c = 0 /\ p = 0))
    <3>1. i \in {0, f1} /\ o \in {0, o1}
      BY <2>2, <2>3
    <3>2. CASE r.cost = Missing
      BY <2>2, <3>1, <3>2
    <3>3. CASE r.cost # Missing
      BY <2>2, <2>3, <3>1, <3>3
    <3>. QED
      BY <3>2, <3>3
  <2>5. /\ next.input = usage.input + i /\ next.output = usage.output + o /\ next.cost = usage.cost + c
        /\ next.costed = usage.costed + p /\ next.turns = usage.turns + 1
        /\ next \in UsageShape
    <3>1. i \in Nat /\ o \in Nat /\ c \in Nat /\ p \in Nat
      BY <1>6, <2>4
    <3>2. usage \in UsageShape /\ r.kind = "step"
      BY <1>7, <2>1
    <3>3. /\ ConsumeOpencodeUsage(r) \in UsageShape
          /\ ConsumeOpencodeUsage(r).input = usage.input + i
          /\ ConsumeOpencodeUsage(r).output = usage.output + o
          /\ ConsumeOpencodeUsage(r).cost = usage.cost + c
          /\ ConsumeOpencodeUsage(r).costed = usage.costed + p
          /\ ConsumeOpencodeUsage(r).turns = usage.turns + 1
      BY <2>2, <3>1, <3>2, StepConsumed
    <3>. QED
      BY <2>1, <3>3
  <2>6. next.input <= f2 /\ next.output <= o2 /\ next.cost <= c2
    <3>1. next.input = usage.input + i /\ usage.input <= f0 /\ i <= f1 /\ i \in Nat
      BY <1>6, <1>8, <2>4, <2>5
    <3>2. next.output = usage.output + o /\ usage.output <= o0 /\ o <= o1 /\ o \in Nat
      BY <1>6, <1>8, <2>4, <2>5
    <3>3. next.cost = usage.cost + c /\ usage.cost <= c0 /\ c <= c1 /\ c \in Nat
      BY <1>6, <1>8, <2>4, <2>5
    <3>4. next.input <= f2
      BY <1>6, <1>7, <3>1
    <3>5. next.output <= o2
      BY <1>6, <1>7, <3>2
    <3>6. next.cost <= c2
      BY <1>6, <1>7, <3>3
    <3>. QED
      BY <3>4, <3>5, <3>6
  <2>7. next.costed <= next.turns /\ (next.costed = next.turns => next.cost = c2)
    <3>1. /\ next.costed = usage.costed + p /\ next.turns = usage.turns + 1
          /\ next.cost = usage.cost + c
      BY <2>5
    <3>2. usage.costed <= usage.turns /\ (usage.costed = usage.turns => usage.cost = c0)
      BY <1>8, <2>3
    <3>3. CASE c = c1 /\ p = 1
      BY <1>6, <1>7, <3>1, <3>2, <3>3
    <3>4. CASE c = 0 /\ p = 0
      BY <1>7, <3>1, <3>2, <3>4
    <3>. QED
      BY <2>4, <3>3, <3>4
  <2>. QED
    BY <1>3, <1>4, <1>5, <2>3, <2>5, <2>6, <2>7 DEF UsageTells
<1>12. CASE TellsResult(r, b)
  <2>1. next = ConsumeClaudeUsage(r) /\ r.kind = "result"
    BY <1>12 DEF TellsResult
  <2>2. r.input = f2 /\ r.output = o2 /\ r.cost = c2 /\ r.turns = b /\ cliHarness = "claude"
    BY <1>3, <1>4, <1>5, <1>12 DEF TellsResult
  <2>3. next.input = f2 /\ next.output = o2 /\ next.cost = c2 /\ next \in UsageShape
    <3>1. f2 \in Nat /\ o2 \in Nat /\ c2 \in Nat
      BY <1>6
    <3>. QED
      BY <1>1, <1>7, <2>1, <2>2, <3>1, TotalConsumed
  <2>4. f2 \in Nat /\ o2 \in Nat /\ c2 \in Nat
    BY <1>6
  <2>. QED
    BY <1>3, <1>4, <1>5, <2>2, <2>3, <2>4 DEF UsageTells
<1>. QED
  BY <1>9, <1>10, <1>11, <1>12 DEF Tells
(* Reading and ending leave the account as it is. *)
LEMMA AccountStays ==
    ASSUME NEW mark, AccountsFor(mark), UNCHANGED <<cliHarness, hooks, billed, agentLog, logged>>
    PROVE  AccountsFor(mark)' /\ \A u, b : UsageTells(u, b) => UsageTells(u, b)'
<1>1. \A r, a, b : Tells(r, a, b) => Tells(r, a, b)'
  BY DEF Tells, TellsThread, TellsTurn, TellsStep, TellsResult
<1>2. AccountsFor(mark)'
  BY <1>1 DEF AccountsFor
<1>3. \A u, b : UsageTells(u, b) => UsageTells(u, b)'
  BY DEF UsageTells
<1>. QED
  BY <1>2, <1>3

(* The next record is read. *)
LEMMA RecordIsRead ==
    ASSUME TelemetryTypes, Phases, ControlsHold, CacheProofHolds, NEW mark, AccountsFor(mark),
           UsageTells(usage, mark[consumed]), ExtractToolUsage
    PROVE  TelemetryInv'
<1>1. PICK r : r = agentLog[consumed + 1]
  OBVIOUS
<1>2. /\ logPc = "read" /\ consumed < Len(agentLog) /\ consumed' = consumed + 1
      /\ UNCHANGED <<cliHarness, hooks, billed, agentLog, logged, logCut, logPc, proof>>
  BY DEF ExtractToolUsage
<1>3. \/ cliHarness = "codex" /\ usage' = ConsumeCodexUsage(r)
      \/ cliHarness = "opencode" /\ usage' = ConsumeOpencodeUsage(r)
      \/ cliHarness = "claude" /\ usage' = ConsumeClaudeUsage(r)
  BY <1>1 DEF ExtractToolUsage
<1>4. /\ agentLog \in Seq(LogRecords) /\ consumed \in Nat /\ Len(agentLog) \in Nat
      /\ Len(billed) \in Nat /\ billed \in Seq(BilledSteps)
  BY DEF TelemetryTypes
<1>5. consumed + 1 \in 1..Len(agentLog) /\ consumed \in 0..Len(agentLog) /\ consumed = (consumed + 1) - 1
  BY <1>2, <1>4
<1>6. r \in LogRecords
  BY <1>1, <1>4, <1>5
<1>7. PICK a, b : a = mark[consumed] /\ b = mark[consumed + 1]
  OBVIOUS
<1>8. a \in Nat /\ b \in 0..Len(billed) /\ a <= b /\ Tells(r, a, b) /\ UsageTells(usage, a)
  <2>1. a \in 0..Len(billed) /\ b \in 0..Len(billed)
    BY <1>5, <1>7 DEF AccountsFor
  <2>2. mark[(consumed + 1) - 1] <= mark[consumed + 1]
        /\ Tells(agentLog[consumed + 1], mark[(consumed + 1) - 1], mark[consumed + 1])
    BY <1>5 DEF AccountsFor
  <2>. QED
    BY <1>1, <1>4, <1>5, <1>7, <2>1, <2>2
<1>9. PICK next : next = usage'
  OBVIOUS
<1>10. next \in UsageShape /\ UsageTells(next, b)
  BY <1>3, <1>6, <1>8, <1>9, UsageGrows
<1>11. UsageTells(usage, mark[consumed])'
  <2>1. UsageTells(next, b)'
    BY <1>2, <1>10 DEF UsageTells
  <2>. QED
    BY <1>2, <1>7, <1>9, <2>1
<1>12. AccountsFor(mark)'
  BY <1>2, AccountStays
<1>13. TelemetryTypes'
  <2>1. consumed' \in 0..Len(agentLog')
    BY <1>2, <1>5
  <2>. QED
    BY <1>2, <1>9, <1>10, <2>1 DEF TelemetryTypes
<1>14. Phases' /\ ControlsHold' /\ CacheProofHolds'
  BY <1>2 DEF Phases, ControlsHold, CacheProofHolds
<1>. QED
  BY <1>11, <1>12, <1>13, <1>14 DEF TelemetryInv

(* What a proof of each harness rests on. *)
LEMMA ProofIsOne ==
    ASSUME TelemetryTypes, ControlsHold, NEW mark, AccountsFor(mark),
           NEW traced \in {hooks, {}}, Isolated(traced)
    PROVE  \A i \in 1..logged : ~billed[i].foreign
<1>1. /\ billed \in Seq(BilledSteps) /\ logged \in 0..Len(billed) /\ agentLog \in Seq(LogRecords)
      /\ hooks \in SUBSET Controls[cliHarness]
  BY DEF TelemetryTypes
<1>2. 1..logged \in SUBSET DOMAIN billed /\ logged \in Nat
  <2>1. DOMAIN billed = 1..Len(billed) /\ Len(billed) \in Nat
    BY <1>1
  <2>. QED
    BY <1>1, <2>1
<1>3. CASE hooks = Controls[cliHarness]
  BY <1>2, <1>3 DEF ControlsHold
<1>4. CASE cliHarness = "claude" /\ EvaluateClaude
  <2>1. PICK i \in DOMAIN agentLog :
           agentLog[i].read = 0 /\ \A j \in DOMAIN agentLog : agentLog[j].kind = "result" => j <= i
    BY <1>4 DEF EvaluateClaude, Of
  <2>2. DOMAIN agentLog = 1..Len(agentLog) /\ Len(agentLog) \in Nat
    BY <1>1
  <2>3. \A j \in DOMAIN agentLog : TellsResult(agentLog[j], mark[j])
    BY <1>4, <2>2 DEF AccountsFor, Tells, TellsThread, TellsTurn, TellsStep
  <2>4. i = Len(agentLog)
    <3>1. Len(agentLog) \in DOMAIN agentLog /\ i \in 1..Len(agentLog)
      BY <2>2
    <3>2. agentLog[Len(agentLog)].kind = "result"
      BY <2>3, <3>1 DEF TellsResult
    <3>. QED
      BY <2>1, <2>2, <3>1, <3>2
  <2>5. agentLog[i].read \in {SumOver(billed, "cached", 1..logged), Missing}
    BY <2>3, <2>4 DEF TellsResult, AccountsFor
  <2>6. SumOver(billed, "cached", 1..logged) = 0
    BY <2>1, <2>5, TelemetryAssumption
  <2>7. ASSUME NEW n \in 1..logged PROVE ~billed[n].foreign
    <3>1. /\ IsFiniteSet(1..logged)
          /\ \A m \in 1..logged : /\ Amounts(billed, "cached")[m] = billed[m]["cached"]
                                  /\ Amounts(billed, "cached")[m] \in Nat
      BY <1>1, <1>2, AmountsAre DEF Counted
    <3>2. Amounts(billed, "cached")[n] <= SumOf(Amounts(billed, "cached"), 1..logged)
      BY <3>1, MemberOfSum
    <3>3. billed[n]["cached"] <= 0 /\ billed[n]["cached"] \in Nat
      BY <2>6, <3>1, <3>2 DEF SumOver
    <3>4. billed[n].foreign => billed[n].cached = 1
      BY <1>1, <1>2, StepsAre
    <3>. QED
      BY <3>3, <3>4
  <2>. QED
    BY <2>7
<1>5. CASE cliHarness = "codex" /\ EvaluateCodex
  <2>1. PICK i \in DOMAIN agentLog : agentLog[i].kind = "thread"
    BY <1>5 DEF EvaluateCodex, Of
  <2>2. i \in 1..Len(agentLog)
    BY <1>1
  <2>3. hooks # {}
    BY <2>1, <2>2 DEF AccountsFor, Tells, TellsThread, TellsTurn, TellsStep, TellsResult
  <2>4. Controls[cliHarness] = {"thread"}
    BY <1>5 DEF Controls
  <2>. QED
    BY <1>1, <1>3, <2>3, <2>4
<1>6. CASE cliHarness = "opencode" /\ EvaluateOpencode(traced)
  <2>1. traced = Controls[cliHarness] /\ Controls[cliHarness] # {}
    BY <1>6 DEF EvaluateOpencode, Controls
  <2>. QED
    BY <1>3, <2>1
<1>. QED
  BY <1>4, <1>5, <1>6 DEF Isolated

LEMMA TelemetrySteps == TelemetryInv /\ [TelemetryNext]_telemetryVars => TelemetryInv'
<1>. SUFFICES ASSUME TelemetryInv, [TelemetryNext]_telemetryVars PROVE TelemetryInv'
  OBVIOUS
<1>1. PICK mark : AccountsFor(mark) /\ UsageTells(usage, mark[consumed])
  BY DEF TelemetryInv
<1>2. TelemetryTypes /\ Phases /\ ControlsHold /\ CacheProofHolds
  BY DEF TelemetryInv
<1>3. CASE UNCHANGED telemetryVars
  <2>1. UNCHANGED <<cliHarness, hooks, billed, agentLog, logged, logCut, logPc, consumed, usage, proof>>
    BY <1>3 DEF telemetryVars
  <2>2. TelemetryTypes' /\ Phases' /\ ControlsHold' /\ CacheProofHolds'
    BY <1>2, <2>1 DEF TelemetryTypes, Phases, ControlsHold, CacheProofHolds
  <2>3. AccountsFor(mark)' /\ UsageTells(usage, mark[consumed])'
    BY <1>1, <2>1 DEF AccountsFor, UsageTells, Tells, TellsThread, TellsTurn, TellsStep, TellsResult
  <2>. QED
    BY <2>2, <2>3 DEF TelemetryInv
<1>4. CASE StepBilled
  BY <1>1, <1>2, <1>4, StepIsBilled
<1>5. CASE TurnCompleted
  BY <1>1, <1>2, <1>5, TurnIsTold, StepRecorded
<1>6. CASE StepFinish
  BY <1>1, <1>2, <1>6, StepIsTold, StepRecorded
<1>7. CASE ResultPrinted
  BY <1>1, <1>2, <1>7, ResultIsTold, StepRecorded
<1>8. CASE AgentStops
  <2>1. /\ logPc = "works" /\ logPc' = "read" /\ logCut' = (Unlogged # {})
        /\ UNCHANGED <<cliHarness, hooks, billed, agentLog, logged, consumed, usage, proof>>
    BY <1>8 DEF AgentStops
  <2>2. TelemetryTypes'
    BY <1>2, <2>1 DEF TelemetryTypes
  <2>3. Phases' /\ ControlsHold' /\ CacheProofHolds'
    BY <1>2, <2>1 DEF Phases, ControlsHold, CacheProofHolds
  <2>4. AccountsFor(mark)' /\ UsageTells(usage, mark[consumed])'
    BY <1>1, <2>1 DEF AccountsFor, UsageTells, Tells, TellsThread, TellsTurn, TellsStep, TellsResult
  <2>. QED
    BY <2>2, <2>3, <2>4 DEF TelemetryInv
<1>9. CASE ExtractToolUsage
  BY <1>1, <1>2, <1>9, RecordIsRead
<1>10. CASE EvaluateCacheIsolation
  <2>1. /\ consumed = Len(agentLog) /\ logPc' = "done"
        /\ UNCHANGED <<cliHarness, hooks, billed, agentLog, logged, logCut, consumed, usage>>
    BY <1>10 DEF EvaluateCacheIsolation
  <2>2. PICK traced \in {hooks, {}} : proof' = IF Isolated(traced) THEN "valid" ELSE "invalid"
    BY <1>10 DEF EvaluateCacheIsolation
  <2>3. CacheProofHolds'
    BY <1>1, <1>2, <2>1, <2>2, ProofIsOne DEF CacheProofHolds
  <2>4. TelemetryTypes' /\ Phases' /\ ControlsHold'
    BY <1>2, <2>1, <2>2 DEF TelemetryTypes, Phases, ControlsHold
  <2>5. AccountsFor(mark)' /\ UsageTells(usage, mark[consumed])'
    BY <1>1, <2>1 DEF AccountsFor, UsageTells, Tells, TellsThread, TellsTurn, TellsStep, TellsResult
  <2>. QED
    BY <2>3, <2>4, <2>5 DEF TelemetryInv
<1>. QED
  BY <1>3, <1>4, <1>5, <1>6, <1>7, <1>8, <1>9, <1>10 DEF TelemetryNext

LEMMA SpecTelemetryInv == TelemetrySpec => []TelemetryInv
<1>1. TelemetryInit => TelemetryInv
  BY TelemetryStarts
<1>2. TelemetryInv /\ [TelemetryNext]_telemetryVars => TelemetryInv'
  BY TelemetrySteps
<1>. QED
  BY <1>1, <1>2, PTL DEF TelemetrySpec

(* The types of a run's log, usage and proof (_extract_tool_usage). *)
THEOREM TelemetryIsTyped == TelemetrySpec => []TelemetryTypeOK
<1>1. TelemetryInv => TelemetryTypeOK
  BY DEF TelemetryInv, TelemetryTypes, TelemetryTypeOK, UsageShape
<1>. QED
  BY <1>1, SpecTelemetryInv, PTL

(* Whatever is left out of the log and wherever it is cut off, nothing is      *)
(* reported that was not billed, all that the log accounts for is reported by *)
(* the harnesses that count, and an observed cost is the whole of the logged  *)
(* steps' (_extract_tool_usage).                                              *)
THEOREM UsageWasBilled == TelemetrySpec => []UsageIsBilled
<1>1. TelemetryInv => UsageIsBilled
  <2>. SUFFICES ASSUME TelemetryInv, logPc = "done" PROVE UsageIsBilled
    BY DEF UsageIsBilled
  <2>1. PICK mark : AccountsFor(mark) /\ UsageTells(usage, mark[consumed])
    BY DEF TelemetryInv
  <2>2. mark[consumed] = logged /\ TelemetryTypes
    BY <2>1 DEF TelemetryInv, Phases, AccountsFor
  <2>3. UsageTells(usage, logged)
    BY <2>1, <2>2
  <2>4. /\ billed \in Seq(BilledSteps) /\ logged \in Nat /\ Len(billed) \in Nat /\ logged <= Len(billed)
        /\ usage.input \in Nat /\ usage.output \in Nat /\ usage.cost \in Nat
    BY <2>2 DEF TelemetryTypes, UsageShape
  <2>5. DOMAIN billed = 1..Len(billed) /\ 1..logged \in SUBSET DOMAIN billed
    BY <2>4
  <2>6. ASSUME NEW field \in Counted
        PROVE  /\ TotalOf(field, 1..logged) = SumOver(billed, field, 1..logged)
               /\ TotalOf(field, 1..logged) <= TotalOf(field, DOMAIN billed)
               /\ TotalOf(field, 1..logged) \in Nat /\ TotalOf(field, DOMAIN billed) \in Nat
    <3>1. /\ TotalOf(field, 1..logged) = SumOver(billed, field, 1..logged)
          /\ TotalOf(field, DOMAIN billed) = SumOver(billed, field, 1..Len(billed))
      BY <2>4, <2>5, TotalIs
    <3>2. PICK b \in Nat : b = Len(billed) /\ logged <= b /\ b <= Len(billed)
      BY <2>4
    <3>3. /\ SumOver(billed, field, 1..b)
                = SumOver(billed, field, 1..logged) + SumOver(billed, field, (logged + 1)..b)
          /\ SumOver(billed, field, 1..logged) \in Nat
          /\ SumOver(billed, field, (logged + 1)..b) \in Nat
      BY <2>4, <3>2, SumOfMore
    <3>. QED
      BY <3>1, <3>2, <3>3
  <2>7. ASSUME NEW field \in Counted, NEW n \in Nat, n <= SumOver(billed, field, 1..logged)
        PROVE  n <= TotalOf(field, DOMAIN billed)
    BY <2>6, <2>7
  <2>8. /\ usage.input <= TotalOf("fresh", DOMAIN billed)
        /\ usage.output <= TotalOf("output", DOMAIN billed)
        /\ usage.cost <= TotalOf("cost", DOMAIN billed)
    BY <2>3, <2>4, <2>7 DEF UsageTells, Counted
  <2>9. /\ TotalOf("fresh", 1..logged) = SumOver(billed, "fresh", 1..logged)
        /\ TotalOf("output", 1..logged) = SumOver(billed, "output", 1..logged)
        /\ TotalOf("cost", 1..logged) = SumOver(billed, "cost", 1..logged)
    BY <2>6 DEF Counted
  <2>. QED
    BY <2>3, <2>8, <2>9 DEF UsageIsBilled, UsageTells, CostObserved
<1>. QED
  BY <1>1, SpecTelemetryInv, PTL

(* A proof of isolation that is called valid is one, for any controls that    *)
(* did not take effect and any fields that are missing                        *)
(* (evaluate_cache_isolation).                                                *)
THEOREM IsolationIsProved == TelemetrySpec => []CacheProofHolds
<1>1. TelemetryInv => CacheProofHolds
  BY DEF TelemetryInv
<1>. QED
  BY <1>1, SpecTelemetryInv, PTL
===============================================================================
