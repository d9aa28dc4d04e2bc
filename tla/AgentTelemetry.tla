---------------------------- MODULE AgentTelemetry ----------------------------
(***************************************************************************)
(* What a run says of its agent's spending and of the provider's cache:     *)
(* run_task's reading of agent_stdout.log (_extract_tool_usage and the      *)
(* functions under it) and agents/harnesses/cache_isolation.py.  A provider *)
(* bills step after step; the harness logs turns (codex), steps (opencode)  *)
(* or a running total (claude), leaves fields out, and is cut off by a      *)
(* timeout; the log is read record by record afterwards.                    *)
(***************************************************************************)
EXTENDS Integers, Sequences, FiniteSetsExt

CONSTANTS
    MaxSteps,   \* bound: steps the provider bills
    Missing     \* a field that is absent or no valid number

ASSUME TelemetryAssumption == MaxSteps \in Nat /\ Missing \notin Nat

VARIABLES
    cliHarness, \* the harness of the run
    hooks,      \* the isolation controls that took effect
    billed,     \* history: the steps the provider billed
    agentLog,   \* what agent_stdout.log holds
    logged,     \* steps that the log accounts for
    logCut,     \* whether the log lost its end
    logPc,      \* the agent works, its log is read, or the proof is made
    consumed,   \* records read
    usage,      \* tool usage as extracted
    proof       \* the cache-isolation proof

telemetryVars == <<cliHarness, hooks, billed, agentLog, logged, logCut, logPc, consumed,
                   usage, proof>>

\* A step: fresh and cached input, output, cost, and whether what it read from the
\* cache was written by another run.
BilledSteps == {s \in [fresh : 0..1, cached : 0..1, output : 1..1, cost : 1..1,
                       foreign : BOOLEAN] : s.foreign => s.cached = 1}

\* The controls of each harness: an environment variable, a new thread, two hooks.
Controls == [claude |-> {"no caching"}, codex |-> {"thread"},
             opencode |-> {"system", "headers"}]

NoUsage == [input |-> 0, output |-> 0, cost |-> 0, turns |-> 0, costed |-> 0]

TelemetryTypeOK ==
    /\ cliHarness \in {"claude", "codex", "opencode"}
    /\ hooks \subseteq Controls[cliHarness]
    /\ \A i \in DOMAIN billed : billed[i] \in BilledSteps
    /\ logged \in 0..Len(billed) /\ logCut \in BOOLEAN
    /\ logPc \in {"works", "read", "done"} /\ consumed \in 0..Len(agentLog)
    /\ usage \in [input : Nat, output : Nat, cost : Nat, turns : Nat, costed : Nat]
    /\ proof \in {"none", "valid", "invalid"}

TelemetryInit ==
    /\ cliHarness \in {"claude", "codex", "opencode"}
    /\ hooks \in SUBSET Controls[cliHarness]
    /\ billed = <<>> /\ logged = 0 /\ logCut = FALSE
    /\ agentLog = IF cliHarness = "codex" /\ hooks # {}
                  THEN <<[kind |-> "thread"]>> ELSE <<>>
    /\ logPc = "works" /\ consumed = 0
    /\ usage = NoUsage /\ proof = "none"

TotalOf(field, steps) == MapThenSumSet(LAMBDA i : billed[i][field], steps)

-----------------------------------------------------------------------------
(***************************************************************************)
(* The agent and its provider.                                             *)
(***************************************************************************)
\* A prefix of its own is all that keeps a run from another run's cache; without
\* caching nothing is cached at all.
StepBilled ==
    /\ logPc = "works" /\ Len(billed) < MaxSteps
    /\ \E s \in BilledSteps :
          /\ hooks = Controls[cliHarness] =>
                ~s.foreign /\ (cliHarness = "claude" => s.cached = 0)
          /\ billed' = Append(billed, s)
    /\ UNCHANGED <<cliHarness, hooks, agentLog, logged, logCut, logPc, consumed, usage, proof>>

Log(record) ==
    /\ agentLog' = Append(agentLog, record)
    /\ logged' = Len(billed)
    /\ UNCHANGED <<cliHarness, hooks, billed, logCut, logPc, consumed, usage, proof>>

Unlogged == logged + 1..Len(billed)

\* A turn sums up its steps, cached input included in the input.
TurnCompleted ==
    /\ logPc = "works" /\ cliHarness = "codex" /\ Unlogged # {}
    /\ Log([kind |-> "turn",
            input |-> TotalOf("fresh", Unlogged) + TotalOf("cached", Unlogged),
            cached |-> TotalOf("cached", Unlogged), output |-> TotalOf("output", Unlogged)])

\* A step may come without its tokens or without a price.
StepFinish ==
    /\ logPc = "works" /\ cliHarness = "opencode" /\ Cardinality(Unlogged) = 1
    /\ \E tokens, priced \in BOOLEAN :
        LET s == billed[Len(billed)] IN
        Log([kind |-> "step", tokens |-> tokens, fresh |-> s.fresh, output |-> s.output,
             read |-> IF tokens THEN s.cached ELSE Missing,
             cost |-> IF priced THEN s.cost ELSE Missing])

\* The running total over all models, with or without its price.
ResultPrinted ==
    /\ logPc = "works" /\ cliHarness = "claude" /\ Unlogged # {}
    /\ \E counted \in BOOLEAN :
        Log([kind |-> "result",
             input |-> TotalOf("fresh", DOMAIN billed), output |-> TotalOf("output", DOMAIN billed),
             cost |-> TotalOf("cost", DOMAIN billed), turns |-> Len(billed),
             read |-> IF counted THEN TotalOf("cached", DOMAIN billed) ELSE Missing])

\* The agent ends, perhaps in the middle of a record; what a hook noted follows.
AgentStops ==
    /\ logPc = "works" /\ logPc' = "read"
    /\ logCut' = (Unlogged # {})
    /\ UNCHANGED <<cliHarness, hooks, billed, agentLog, logged, consumed, usage, proof>>

-----------------------------------------------------------------------------
(***************************************************************************)
(* Reading the log.                                                        *)
(***************************************************************************)
(* Mutant: the fresh input is what is left of the cached. *)
ConsumeCodexUsageMixedUp(r) ==
    IF r.kind # "turn" THEN usage
    ELSE [usage EXCEPT !.input = @ + (r.cached - r.input), !.output = @ + r.output,
                       !.turns = @ + 1]

\* Input is reported with what was cached of it.
ConsumeCodexUsage(r) ==
    IF r.kind # "turn" THEN usage
    ELSE [usage EXCEPT !.input = @ + (r.input - r.cached), !.output = @ + r.output,
                       !.turns = @ + 1]

(* Mutant: every step counts as priced. *)
ConsumeOpencodeUsageAlwaysCosted(r) ==
    IF r.kind # "step" THEN usage
    ELSE [usage EXCEPT
            !.input = @ + (IF r.tokens THEN r.fresh ELSE 0),
            !.output = @ + (IF r.tokens THEN r.output ELSE 0),
            !.cost = @ + (IF r.cost # Missing THEN r.cost ELSE 0),
            !.costed = @ + 1, !.turns = @ + 1]

ConsumeOpencodeUsage(r) ==
    IF r.kind # "step" THEN usage
    ELSE [usage EXCEPT
            !.input = @ + (IF r.tokens THEN r.fresh ELSE 0),
            !.output = @ + (IF r.tokens THEN r.output ELSE 0),
            !.cost = @ + (IF r.cost # Missing THEN r.cost ELSE 0),
            !.costed = @ + (IF r.cost # Missing THEN 1 ELSE 0), !.turns = @ + 1]

\* The last total stands.
ConsumeClaudeUsage(r) ==
    IF r.kind # "result" THEN usage
    ELSE [usage EXCEPT !.input = r.input, !.output = r.output, !.cost = r.cost,
                       !.turns = r.turns]

ExtractToolUsage ==
    /\ logPc = "read" /\ consumed < Len(agentLog)
    /\ consumed' = consumed + 1
    /\ LET r == agentLog[consumed + 1] IN
       \/ cliHarness = "codex" /\ usage' = ConsumeCodexUsage(r)
       \/ cliHarness = "opencode" /\ usage' = ConsumeOpencodeUsage(r)
       \/ cliHarness = "claude" /\ usage' = ConsumeClaudeUsage(r)
    /\ UNCHANGED <<cliHarness, hooks, billed, agentLog, logged, logCut, logPc, proof>>

CostObserved == cliHarness = "opencode" /\ usage.turns > 0 /\ usage.costed = usage.turns

Of(kind) == {i \in DOMAIN agentLog : agentLog[i].kind = kind}

\* The last total says that nothing was cached.
EvaluateClaude ==
    \E i \in Of("result") : agentLog[i].read = 0 /\ \A j \in Of("result") : j <= i

\* There is one thread, whatever it cached.
EvaluateCodex == \E i \in Of("thread") : Of("thread") = {i}

\* The first step read nothing, and every step says what it read.
NothingRead ==
    \E i \in Of("step") :
        agentLog[i].read = 0 /\ \A j \in Of("step") : i <= j /\ agentLog[j].read # Missing

(* Mutant: one of the two hooks is proof enough. *)
EvaluateOpencodeAnyHook(traced) == traced # {} /\ NothingRead

\* And both hooks were at work.
EvaluateOpencode(traced) == traced = Controls["opencode"] /\ NothingRead

Isolated(traced) ==
    \/ cliHarness = "claude" /\ EvaluateClaude
    \/ cliHarness = "codex" /\ EvaluateCodex
    \/ cliHarness = "opencode" /\ EvaluateOpencode(traced)

\* The trace of the hooks may be gone with the container's answer.
EvaluateCacheIsolation ==
    /\ logPc = "read" /\ consumed = Len(agentLog) /\ logPc' = "done"
    /\ \E traced \in {hooks, {}} :
        proof' = IF Isolated(traced) THEN "valid" ELSE "invalid"
    /\ UNCHANGED <<cliHarness, hooks, billed, agentLog, logged, logCut, consumed, usage>>

TelemetryNext ==
    \/ StepBilled \/ TurnCompleted \/ StepFinish \/ ResultPrinted \/ AgentStops
    \/ ExtractToolUsage \/ EvaluateCacheIsolation

TelemetrySpec == TelemetryInit /\ [][TelemetryNext]_telemetryVars

-----------------------------------------------------------------------------
(* No token and no cent is reported that was not billed; what the log       *)
(* accounts for is reported in full by the harnesses that count for         *)
(* themselves; and a cost that is called observed is what the logged steps  *)
(* were billed, none left out (_extract_tool_usage).                        *)
UsageIsBilled ==
    logPc = "done" =>
        /\ usage.input <= TotalOf("fresh", DOMAIN billed)
        /\ usage.output <= TotalOf("output", DOMAIN billed)
        /\ usage.cost <= TotalOf("cost", DOMAIN billed)
        /\ cliHarness # "opencode" =>
              /\ usage.input = TotalOf("fresh", 1..logged)
              /\ usage.output = TotalOf("output", 1..logged)
        /\ CostObserved => usage.cost = TotalOf("cost", 1..logged)

(* A proof that is called valid is one: no step of the run read what        *)
(* another run left in the provider's cache (evaluate_cache_isolation).     *)
CacheProofHolds ==
    proof = "valid" => \A i \in 1..logged : ~billed[i].foreign
=============================================================================
