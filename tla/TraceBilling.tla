----------------------------- MODULE TraceBilling -----------------------------
(***************************************************************************)
(* What one run is billed: the vendor's own total when its last block can   *)
(* be reconciled, or else what the trace adds up to, request by request     *)
(* (cost_tracker.py).  The agent streams requests into the trace, prints    *)
(* totals to its output now and then, and can be cut off at any point.      *)
(***************************************************************************)
EXTENDS Naturals, Sequences, FiniteSetsExt

CONSTANTS
    MaxRequests,    \* bound: requests of the run
    MaxOutput,      \* bound: content blocks of a request
    MaxErrors,      \* bound: API errors that are logged
    MaxBlocks,      \* bound: totals that the vendor prints
    Unkeyed         \* no requestId and no message.id on a line

ASSUME BillingAssumption ==
    /\ MaxRequests \in Nat /\ MaxOutput \in Nat \ {0}
    /\ MaxErrors \in Nat /\ MaxBlocks \in Nat /\ Unkeyed \notin Nat

Writers == {"grouped",   \* a line for every content block, under the request's id
            "legacy"}    \* one line for a request, without an id

VARIABLES
    writer,       \* which trace format the agent writes
    requests,     \* what was spent: the blocks of each request, and by whom
    traceLines,   \* agent_trace.jsonl
    stdoutBlocks, \* the lines of agent_stdout.log that hold a modelUsage block
    agentRuns

billingVars == <<writer, requests, traceLines, stdoutBlocks, agentRuns>>

BillingInit ==
    /\ writer \in Writers
    /\ requests = <<>> /\ traceLines = <<>> /\ stdoutBlocks = <<>>
    /\ agentRuns = TRUE

-----------------------------------------------------------------------------
(* A request costs a unit for its input, and one for each block put out.     *)

CostOf(request) == 1 + request.output

TotalCost(rs) == MapThenSumSet(CostOf, rs)

Spent == MapThenSumSet(LAMBDA i : CostOf(requests[i]), DOMAIN requests)

\* A line's key, or its own number: no number is the id of a request.
RequestKey(i) ==
    IF traceLines[i].key = Unkeyed THEN <<"line", i>> ELSE <<"request", traceLines[i].key>>

(* Mutant: a line is a request. *)
ScanEveryLine == {[key |-> i, output |-> traceLines[i].output] : i \in DOMAIN traceLines}

\* The fullest snapshot of each request: the last may be an error's, all zero.
ScanTrace ==
    {[key |-> k,
      output |-> Max({traceLines[i].output : i \in {j \in DOMAIN traceLines : RequestKey(j) = k}})]
        : k \in {RequestKey(i) : i \in DOMAIN traceLines}}

\* The last block that can be parsed.
ResultObject ==
    LET whole == {i \in DOMAIN stdoutBlocks : stdoutBlocks[i].fault # "torn"}
    IN IF whole = {} THEN {} ELSE {stdoutBlocks[Max(whole)]}

\* Nothing that is not a number, and the models add up to the total.
ParseModelUsage ==
    {b \in ResultObject : /\ b.fault # "no total" /\ b.models > 0
                          /\ b.models = b.total}

Billed == IF ParseModelUsage # {} THEN (CHOOSE b \in ParseModelUsage : TRUE).total
          ELSE TotalCost(ScanTrace)

-----------------------------------------------------------------------------
Line(i, out) ==
    [key |-> IF writer = "legacy" THEN Unkeyed ELSE i, output |-> out]

\* The main loop or a sub-agent, whose requests are in no trace.
SendRequest(by) ==
    /\ agentRuns /\ Len(requests) < MaxRequests
    /\ requests' = Append(requests, [by |-> by, output |-> 0])
    /\ UNCHANGED <<writer, traceLines, stdoutBlocks, agentRuns>>

\* The snapshot of the output so far rides on every line; requests overlap.
StreamBlock(i) ==
    /\ agentRuns /\ requests[i].output < (IF writer = "legacy" THEN 1 ELSE MaxOutput)
    /\ requests' = [requests EXCEPT ![i].output = @ + 1]
    /\ traceLines' = IF requests[i].by = "main"
                     THEN Append(traceLines, Line(i, requests[i].output + 1))
                     ELSE traceLines
    /\ UNCHANGED <<writer, stdoutBlocks, agentRuns>>

\* isApiErrorMessage: the request again, with a usage of zero.
ErrorRecord(i) ==
    /\ agentRuns /\ writer = "grouped" /\ requests[i].by = "main"
    /\ Cardinality({n \in DOMAIN traceLines : traceLines[n].output = 0}) < MaxErrors
    /\ traceLines' = Append(traceLines, Line(i, 0))
    /\ UNCHANGED <<writer, requests, stdoutBlocks, agentRuns>>

\* The vendor's totals so far, or some of its models, or a total that is NaN.
PrintResult(fault) ==
    /\ agentRuns /\ Len(stdoutBlocks) < MaxBlocks
    /\ stdoutBlocks' = Append(stdoutBlocks,
           [fault |-> fault, total |-> Spent,
            models |-> IF fault = "short"
                       THEN MapThenSumSet(LAMBDA i : CostOf(requests[i]),
                                          {i \in DOMAIN requests : requests[i].by = "main"})
                       ELSE Spent])
    /\ agentRuns' = (fault # "torn")
    /\ UNCHANGED <<writer, requests, traceLines>>

AgentIsDone ==
    /\ agentRuns
    /\ agentRuns' = FALSE
    /\ UNCHANGED <<writer, requests, traceLines, stdoutBlocks>>

BillingNext ==
    \/ \E by \in {"main", "sub"} : SendRequest(by)
    \/ \E i \in DOMAIN requests : StreamBlock(i) \/ ErrorRecord(i)
    \/ \E fault \in {"none", "short", "no total", "torn"} : PrintResult(fault)
    \/ AgentIsDone

BillingSpec == BillingInit /\ [][BillingNext]_billingVars
-----------------------------------------------------------------------------
(* No token is billed twice, and none of the trace's is lost: however the    *)
(* requests' lines are interleaved, repeated by error records or cut off,    *)
(* and whichever totals were printed, a run is never billed more than it     *)
(* spent; and without sub-agents, whose requests are in no trace, a run that *)
(* falls back to its trace is billed all of it (scan_trace,                  *)
(* parse_model_usage).                                                       *)
BilledOnce ==
    /\ Billed <= Spent
    /\ (/\ ParseModelUsage = {}
        /\ \A i \in DOMAIN requests : requests[i].by = "main" /\ requests[i].output > 0)
           => Billed = Spent
=============================================================================
