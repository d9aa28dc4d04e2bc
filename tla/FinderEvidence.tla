---------------------------- MODULE FinderEvidence ----------------------------
(***************************************************************************)
(* What a run of a Code Finder arm can prove of its calls.  run_task.py     *)
(* prepares the arm's tool in the container; agents/harnesses/              *)
(* mcp_telemetry_proxy.py sits between the agent and Sourcegraph and serves *)
(* every POST in a thread of its own, appending requests and responses to   *)
(* one trace; when the agent has returned, or docker exec was given up, the *)
(* trace is copied, judged and compared with the calls in the agent's log.  *)
(* Sourcegraph, the network, the disk and every command may fail.           *)
(***************************************************************************)
EXTENDS Naturals, Sequences, Bags, FiniteSetsExt, Functions

CONSTANTS
    Threads,        \* threads of the proxy
    FinderRepos,    \* the repositories the task expects, by mirror name
    Posts,          \* the POSTs an agent may make: sequences of payloads
    MaxPosts,       \* bound: POSTs through the proxy
    Nothing

ForcedArms == {"mcp_code_finder", "cli_code_finder"}
FinderArms == ForcedArms \cup {"mcp_assisted"}

\* A JSON-RPC payload: its id, none for a notification, the tool it calls, or
\* "list", which is no tools/call, and the one repository its task names.
Payload == [id : {1, 2, Nothing}, tool : {"code_finder", "search", "list"},
            repo : FinderRepos \cup {Nothing}]

\* How Sourcegraph answers.
Answers == {"telemetry", "bare", "error"}

ASSUME FinderAssumption ==
    /\ IsFiniteSet(FinderRepos) /\ IsFiniteSet(Threads)
    /\ MaxPosts \in Nat /\ Posts \subseteq Seq(Payload)
    /\ Nothing \notin FinderArms \cup Answers

VARIABLES
    arm,        \* the mode of the run
    prep,       \* preparation steps that are still to be done
    header,     \* whether the token's header file lies in the container
    work,       \* "prepare", "agent", "capture", "route", then the verdict
    threads,    \* what each thread of the proxy is doing
    posted,     \* POSTs made so far
    trace,      \* the records of mcp_telemetry.jsonl, a bag: it is judged by counts
    served,     \* what Sourcegraph was asked, and how it answered, a bag
    finderLog,  \* Code Finder calls in the agent's own log
    retrieval,  \* tool_usage["retrieval"]
    reckoned    \* served, at the moment the trace was copied

finderVars == <<arm, prep, header, work, threads, posted, trace, served, finderLog,
                retrieval, reckoned>>

Idle == [at |-> "idle", post |-> <<>>, left |-> <<>>]

FinderTypeOK ==
    /\ arm \in FinderArms \cup {Nothing} /\ header \in BOOLEAN
    /\ work \in {"prepare", "agent", "capture", "route", "infra", "counts", "invalid"}
    /\ \A t \in Threads : threads[t].at \in {"idle", "request", "response"}
    /\ posted \in 0..MaxPosts /\ finderLog \in Nat
    /\ IsABag(trace) /\ \A r \in DOMAIN trace : r.dir \in {"request", "response"}
    /\ IsABag(served)
    /\ retrieval \in [valid : BOOLEAN, calls : Nat, inner : Nat] \cup {Nothing}

FinderInit ==
    /\ arm = Nothing /\ prep = <<>> /\ header = FALSE /\ work = "prepare"
    /\ threads = [t \in Threads |-> Idle] /\ posted = 0
    /\ trace = EmptyBag /\ served = EmptyBag /\ finderLog = 0
    /\ retrieval = Nothing /\ reckoned = EmptyBag

-----------------------------------------------------------------------------
(***************************************************************************)
(* Preparing the tool.                                                     *)
(***************************************************************************)
AgentFrame == UNCHANGED <<threads, posted, served, finderLog, retrieval, reckoned>>

\* The order of run_task: the MCP client after the proxy, sgx after the inventory.
Preparation(a) ==
    IF a = "cli_code_finder"
    THEN <<"endpoint", "proxy", "inventory", "sgx", "isolation">>
    ELSE <<"proxy", "endpoint", "client", "isolation">>

ChooseArm ==
    /\ arm = Nothing
    /\ arm' \in FinderArms /\ prep' = Preparation(arm')
    /\ UNCHANGED <<header, work, trace>> /\ AgentFrame

Preparing(what) == work = "prepare" /\ prep # <<>> /\ Head(prep) = what

\* A preparation step that fails makes an infrastructure error of the run.
Prepared(ok) ==
    /\ prep' = IF ok THEN Tail(prep) ELSE <<>>
    /\ work' = IF ~ok THEN "infra" ELSE IF Tail(prep) = <<>> THEN "agent" ELSE work
    /\ UNCHANGED arm /\ AgentFrame

\* The token lies in a header file while curl asks, up to five times.  Removing
\* the file is part of the check.
VerifyMCPEndpoint ==
    /\ Preparing("endpoint")
    /\ \E staged, answered, removed \in BOOLEAN :
          /\ header' = (staged /\ ~removed)
          /\ Prepared(staged /\ answered /\ removed)
    /\ UNCHANGED trace

\* The trace is made empty, the proxy is started and must become healthy.
InstallMCPTelemetryProxy ==
    /\ Preparing("proxy")
    /\ trace' = EmptyBag
    /\ \E healthy \in BOOLEAN : Prepared(healthy)
    /\ UNCHANGED header

Request(p) == [dir |-> "request", tool |-> p.tool, repo |-> p.repo, answer |-> Nothing]
Response(tool, answer) ==
    [dir |-> "response", tool |-> tool, repo |-> Nothing, answer |-> answer]

ListTools == [id |-> 1, tool |-> "list", repo |-> Nothing]

\* The inventory is asked through the proxy, which records it; whether the header
\* file could be removed again is not looked at.
VerifyCLIFinderInventory ==
    /\ Preparing("inventory")
    /\ \E listed \in BOOLEAN :
          /\ trace' = IF listed
                      THEN trace (+) SetToBag({Request(ListTools), Response("list", "bare")})
                      ELSE trace
          /\ Prepared(listed)
    /\ header' \in BOOLEAN

\* Client configuration, trust and handshake; or copying sgx, an interpreter, the
\* wrapper and a probe that it is ours; or staging the harness's cache isolation.
ConfigureMCPClient ==
    /\ Preparing("client")
    /\ \E connected \in BOOLEAN : Prepared(connected)
    /\ UNCHANGED <<header, trace>>

InstallSgx ==
    /\ Preparing("sgx")
    /\ \E resolved \in BOOLEAN : Prepared(resolved)
    /\ UNCHANGED <<header, trace>>

StageCacheIsolation ==
    /\ Preparing("isolation")
    /\ \E ok \in BOOLEAN : Prepared(ok)
    /\ UNCHANGED <<header, trace>>

-----------------------------------------------------------------------------
(***************************************************************************)
(* The proxy, one thread per POST (_forward).                              *)
(***************************************************************************)
Working == work \in {"agent", "capture"}

RunFrame == UNCHANGED <<arm, prep, header, work, retrieval, reckoned>>

Finders(post) == Cardinality({i \in DOMAIN post : post[i].tool = "code_finder"})

\* The agent, or what it left running, makes a call; its log may lose it.  What
\* happens in the proxy once the trace has been copied is left out.
Post(t) ==
    /\ Working /\ threads[t] = Idle /\ posted < MaxPosts
    /\ posted' = posted + 1
    /\ \E post \in Posts :
          /\ threads' = [threads EXCEPT
                           ![t] = [at |-> "request", post |-> post,
                                   left |-> [i \in DOMAIN post |-> Request(post[i])]]]
          /\ finderLog' \in {finderLog, finderLog + Finders(post)}
    /\ UNCHANGED <<trace, served>> /\ RunFrame

\* The thread answers 502: an append that is refused, a bad id, no reply, or one
\* beyond the limit.
ProxyFails(t) ==
    /\ Working /\ threads[t].at # "idle"
    /\ threads' = [threads EXCEPT ![t] = Idle]
    /\ UNCHANGED <<posted, trace, served, finderLog>> /\ RunFrame

\* _append_trace: the records of a POST are written one by one, in its order.
NextLeft(t) == Min(DOMAIN threads[t].left)
AppendTrace(t) == trace (+) SetToBag({threads[t].left[NextLeft(t)]})
RecordWritten(t) ==
    threads' = [threads EXCEPT ![t].left = Restrict(@, DOMAIN @ \ {NextLeft(t)})]

(* Mutant: a record that cannot be written does not keep the call from going on. *)
CaptureRequestOrGoOn(t) ==
    /\ Working /\ threads[t].at = "request" /\ threads[t].left # <<>>
    /\ trace' \in {trace, AppendTrace(t)} /\ RecordWritten(t)
    /\ UNCHANGED <<posted, served, finderLog>> /\ RunFrame

\* Every payload is in the trace before the POST is forwarded.
CaptureRequest(t) ==
    /\ Working /\ threads[t].at = "request" /\ threads[t].left # <<>>
    /\ trace' = AppendTrace(t) /\ RecordWritten(t)
    /\ UNCHANGED <<posted, served, finderLog>> /\ RunFrame

\* The answer of Sourcegraph to one payload: none to a notification, aggregate
\* telemetry only with Code Finder.
AnswersTo(p) ==
    IF p.id = Nothing THEN {Nothing}
    ELSE {"bare", "error", Nothing} \cup
         (IF p.tool = "code_finder" THEN {"telemetry"} ELSE {})

\* What a reply is taken to answer: requests_by_id keeps the last of one id.
ContextOf(post, i) ==
    post[Max({j \in DOMAIN post : post[j].id = post[i].id})].tool

\* The replies of a POST, as they will be recorded, and what was asked.
Replies(post, answers) ==
    [i \in {i \in DOMAIN post : answers[i] # Nothing} |->
        Response(ContextOf(post, i), answers[i])]

Asked(post, answers) ==
    LET asked(i) == [tool |-> post[i].tool, repo |-> post[i].repo, answer |-> answers[i]]
    IN  [c \in {asked(i) : i \in DOMAIN post} |->
            Cardinality({i \in DOMAIN post : asked(i) = c})]

\* Sourcegraph takes the POST and does the work, whether or not its reply arrives.
Forward(t) ==
    /\ Working /\ threads[t].at = "request" /\ threads[t].left = <<>>
    /\ LET post == threads[t].post IN
       \E answers \in [DOMAIN post -> Answers \cup {Nothing}] :
          /\ \A i \in DOMAIN post : answers[i] \in AnswersTo(post[i])
          /\ served' = served (+) Asked(post, answers)
          /\ threads' = [threads EXCEPT
                ![t] = [at |-> "response", post |-> post, left |-> Replies(post, answers)]]
    /\ UNCHANGED <<posted, trace, finderLog>> /\ RunFrame

CaptureResponse(t) ==
    /\ Working /\ threads[t].at = "response" /\ threads[t].left # <<>>
    /\ trace' = AppendTrace(t) /\ RecordWritten(t)
    /\ UNCHANGED <<posted, served, finderLog>> /\ RunFrame

\* The reply is sent on.
SendReply(t) ==
    /\ Working /\ threads[t].at = "response" /\ threads[t].left = <<>>
    /\ threads' = [threads EXCEPT ![t] = Idle]
    /\ UNCHANGED <<posted, trace, served, finderLog>> /\ RunFrame

-----------------------------------------------------------------------------
(***************************************************************************)
(* Judging the trace (build_retrieval_telemetry, _route_code_finder_run).   *)
(***************************************************************************)
HowMany(bag, Test(_)) ==
    MapThenSumSet(LAMBDA r : bag[r], {r \in DOMAIN bag : Test(r)})

Calls(tool) == HowMany(trace, LAMBDA r : r.dir = "request" /\ r.tool = tool)
FinderCalls == Calls("code_finder")
DirectCalls == Calls("search")
FinderAnswers(answer) ==
    HowMany(trace, LAMBDA r : r.dir = "response" /\ r.tool = "code_finder" /\ r.answer = answer)

CallsFor(repo) ==
    HowMany(trace, LAMBDA r : r.dir = "request" /\ r.tool = "code_finder" /\ r.repo = repo)

(* Mutant: some call names a repository, and none names no repository. *)
RepositoryNamed ==
    CallsFor(Nothing) = 0 /\ \E repo \in FinderRepos : CallsFor(repo) >= 1

\* One call per expected repository, and none that names no repository or two.
RepositoryScoped ==
    CallsFor(Nothing) = 0 /\ \A repo \in FinderRepos : CallsFor(repo) = 1

ContractHolds ==
    /\ arm \in ForcedArms =>
          /\ FinderCalls = Cardinality(FinderRepos) /\ DirectCalls = 0
          /\ FinderRepos # {} => RepositoryScoped
    /\ arm = "mcp_assisted" => FinderCalls >= 1
    /\ FinderAnswers("error") = 0
    /\ FinderAnswers("telemetry") = FinderCalls

\* docker exec of the agent ends; threads may be in the middle of a POST.
AgentEnds ==
    /\ work = "agent" /\ work' = "capture"
    /\ UNCHANGED <<arm, prep, header, trace>> /\ AgentFrame

\* The trace is copied as it is; a torn line, a missing or an oversized file is
\* no evidence.
CaptureMCPTelemetry ==
    /\ work = "capture" /\ work' = "route"
    /\ retrieval' \in {[valid |-> FALSE, calls |-> 0, inner |-> 0],
                       [valid |-> ContractHolds, calls |-> FinderCalls,
                        inner |-> FinderAnswers("telemetry")]}
    /\ reckoned' = served
    /\ UNCHANGED <<arm, prep, header, threads, posted, trace, served, finderLog>>

\* The trace and the log must agree; other gates may flag the run all the same.
RouteCodeFinderRun ==
    /\ work = "route"
    /\ work' \in IF retrieval.valid /\ finderLog = retrieval.calls
                 THEN {"counts", "invalid"} ELSE {"invalid"}
    /\ UNCHANGED <<arm, prep, header, trace>> /\ AgentFrame

FinderNext ==
    \/ ChooseArm \/ VerifyMCPEndpoint \/ InstallMCPTelemetryProxy
    \/ VerifyCLIFinderInventory \/ ConfigureMCPClient \/ InstallSgx \/ StageCacheIsolation
    \/ \E t \in Threads :
          \/ Post(t) \/ ProxyFails(t) \/ CaptureRequest(t)
          \/ Forward(t) \/ CaptureResponse(t) \/ SendReply(t)
    \/ AgentEnds \/ CaptureMCPTelemetry \/ RouteCodeFinderRun

FinderSpec == FinderInit /\ [][FinderNext]_finderVars

-----------------------------------------------------------------------------
Reckoned(tool) == {c \in DOMAIN reckoned : c.tool = tool}

(* In a run that counts, every Code Finder call that reached Sourcegraph     *)
(* before the trace was copied is in the numbers exactly once, answered and  *)
(* with its telemetry, whatever calls overlapped and whatever was lost on    *)
(* the way; a forced arm asked once per repository and nothing else; and no  *)
(* token file was left beside the agent of an MCP arm.                       *)
CountedCallsAreServed ==
    work = "counts" =>
        /\ \A c \in Reckoned("code_finder") : c.answer = "telemetry"
        /\ HowMany(reckoned, LAMBDA c : c.tool = "code_finder") = retrieval.calls
        /\ retrieval.inner = retrieval.calls
        /\ arm \in ForcedArms =>
              /\ Reckoned("search") = {}
              /\ \A repo \in FinderRepos :
                    HowMany(reckoned, LAMBDA c : c.tool = "code_finder" /\ c.repo = repo) = 1
        /\ arm # "cli_code_finder" => ~header
=============================================================================
