# A formal model of titlis-ai

titlis-ai is a FastAPI service that explains the findings of a Kubernetes
scorecard and repairs them: it reads a manifest from GitHub, lets an LLM write a
patch, shows it to a person and, once approved, opens a pull request. It also
offers a chat agent whose writing tools wait for a person's approval. This
directory models the parts in which something can go wrong over several steps -
the remediation pipeline and its patch loop, the agent with its tools, the
stream of an explanation, the seeding of the search index - checks them with TLC
and proves the most important results with TLAPS.

The repository has no prose documentation; the intent of the code is taken from
its comments, tests and prompts.

## 1. The system

| Component | State it keeps | Operations | Talks to |
|---|---|---|---|
| Remediation routes, `routes/remediate.py` | `_thread_interrupt_times`: thread id -> time of its interrupt | remediate, confirm, set-path, submit-service-yaml; each streams events | the graph, keepalive |
| Remediation graph, `pipeline/graph.py` | one checkpoint per thread (`ScorecardRemediationState`, `MemorySaver`) | ten nodes, two interrupts, conditional routing | titlis-api, GitHub (MCP), the LLM |
| Agent routes and store, `routes/agent.py`, `pipeline/session.py` | sessions: messages, pending proposals, audit log, last use | chat, respond, audit; expiry after an hour | the agent service, keepalive |
| Agent service, `services/agent_service.py` | nothing of its own; a turn works on the session object | run_turn, run_tool_responses, `_llm_loop` | MCP servers, titlis-api, the LLM |
| Keepalive, `utils/resilience.py` | the wrapped generator | passes events on, cancels after 15 s of silence | all streams |
| titlis-api client, `scorecard_client.py` | an HTTP pool | GET and POST, three attempts each | titlis-api |
| LLM service and explain, `llm_service.py`, `routes/explain.py` | nothing; the quota comes with the request | chat, chat_stream with retries | the LLM |
| MCP sessions, `infrastructure/mcp/` | a child process or an HTTP session per turn | start with retries, list, unwind | GitHub, Datadog |
| Never-reduce policy, `tools/github_tools.py` | none | compares resource quantities | called by validate_patch |
| Rule seeding, `scripts/seed_rules.py`, `routes/knowledge.py` | a file of content hashes | seed, at startup and by hand; POST /knowledge/seed | titlis-api, embeddings |
| Agent tools, `tools/slo_tools.py`, `read_tools.py`, `services/mcp_adapter.py` | none | propose SLO thresholds field by field; reads | titlis-api |
| Feedback, `routes/feedback.py` | sentiment counters | submit | titlis-api |
| Prompts, settings, metrics, health | none that matters | | |

The service is one asyncio process (one uvicorn worker). Code between two awaits
is atomic; at every await another request, a cancellation or the outside world
may come in between. What is hard in it:

* **Two-phase approval.** The right to resume a suspended graph is an entry in a
  process table; it is taken by whichever request comes first, expires, and dies
  with the process. Four endpoints resume, and none checks which interrupt it
  answers.
* **Cancellation.** `keepalive_stream` uses `wait_for` on `__anext__`: 15 s of
  silence cancel the node or the tool call that is being awaited, wherever it is.
* **Lost answers.** GitHub may have done what an error or a timeout denies, and
  titlis-api may have applied a POST that is sent again.
* **Shared sessions.** Two requests on one agent session mutate the same object.
* **Stale reads.** A pull request's state is read, and acted on later.
* **Stacked generators.** An answer passes four of them; any may be cut, and text
  that was delivered cannot be taken back when the LLM is called again.
* **Two records of one fact.** The index and the file of hashes are written by
  different calls, by two processes, and a third writer knows only the index.

What makes each component correct:

* remediation: only a reviewed patch of the same thread is published, once; a
  thread is run by one request; a shown patch does not change; records name their
  own pull request; every stream ends and says why;
* agent: a writing tool runs only with approval, as often as one request gave it;
  the conversation is truthful about it and stays acceptable to the provider; a
  cancelled turn loses no more than the answers it still owed;
* keepalive: events arrive in order, and silence is bounded by the interval;
* titlis-api client: a bounded number of attempts; repeating is harmless;
* LLM stream: what is delivered is a whole answer, possibly after beginnings of
  attempts that failed (the code repeats an answer from its start and cannot take
  text back); a spent budget is respected;
* never-reduce: no accepted patch lowers a resource (of any container, which
  several containers break), and a refused one has an amount below a current one,
  or suffixes that do not compare;
* seeding: a file whose hash is saved is what is indexed; a run that exits with 0
  has indexed what it read;
* MCP sessions: one server per provider and turn, and none is left behind;
* SLO tool: proposals arrive in the order of the fields, and the answer says how
  far they came.

## 2. Modules

| Module | What it is |
|---|---|
| `RemediationApproval` | the abstract promise to a reviewer: draft, offer, accept or decline, publish |
| `Remediation` | the four handlers, ten nodes, GitHub, titlis-api, the clock and the faults, composed in one module because handlers, graph and table share one state |
| `MCRemediation` | model values and small instances |
| `Remediation_proofs` | types, one execution, only reviewed patches are published |
| `RemediationPublishing_proofs` | branches, pull requests, records, and the refinement of `RemediationApproval` |
| `RemediationStreams_proofs` | what a stream tells its client before it ends |
| `AgentSession` | one agent session with its concurrent turns |
| `MCAgentSession` | model values |
| `AgentSession_proofs` | who owns a proposal, what the conversation says, what the provider accepts |
| `Explain` | one POST /explain: the four generators between the LLM and the browser |
| `Explain_proofs` | inductive invariant and theorems |
| `NeverReduce` | the never-reduce policy as operators, and what quantities mean to Kubernetes |
| `PatchLoop` | analyze, generate, validate with the calls of the LLM, over `NeverReduce` |
| `PatchLoop_proofs` | what an offered patch keeps, why one is refused, what a run costs |
| `SeedRules` | the seeder's runs, the files, the index, the built-in seeding |
| `SeedRules_proofs` | inductive invariants and theorems |
| `AgentTools` | the MCP sessions of one agent turn and the SLO tool |
| `AgentTools_proofs` | which servers run, what titlis-api has got |

`Explain`, `PatchLoop`, `SeedRules` and `AgentTools` need no MC module: their
constants are numbers and small sets, given in the configurations. A proof module
extends the module it is about; the three of the remediation extend one another.

### Remediation

A connection `c` is the slot of one streaming request: `op[c]` is its endpoint,
`target[c]` its thread, `pc[c]` the await it is in, `events[c]` what the client has
been sent. The checkpoint of thread `t` is `workload`, `urlGiven`, `found`, `path`,
`generated`, `manifestOk`, `quality`, `retry`, `invalid`, `approved`,
`stamp`, `result`; `interrupted[t]` says at which interrupt its graph is suspended.
`interruptAt` is `_thread_interrupt_times`. GitHub is `branches`, `pushed` (the
files of a branch) and `prs`; titlis-api is `record`. `seen[c]` is the pull request a
check has read from the record. `shown` is a history variable, and so is
`overtaken`: the pull requests registered while another run of their workload was
between its read of the record and its close-pr.

There is an action per handler (`Remediate`, `Resume`, `Refuse`), per external await
of a node (`ClassifyFindings`, `FetchContext`, `CreateBranch`, `PushFiles`,
`CreatePullRequest`, ...), for the points that decide without awaiting
(`ValidatePatch`, `AwaitUserConfirmation`, `TakeDecision`, `BeginPr`), and for the
environment (`KeepaliveTimeout`, `Disconnect`, `Restart`, `SettlePr`, `Tick`).
`Faults` selects what may go wrong: `call` (a call fails, or its answer is lost
after it took effect), `raise` (a node lets an exception out), `gap` (keepalive
cancels), `leave` (the client goes), `restart`, `people` (pull requests are closed
or merged by hand).

Abstractions. A patch is its thread, its number and a quality: `good`, `bad`
(fails YAML or never-reduce) or `empty` (passes both checks, refused by
`create_remediation_pr`). A branch name is the workload it names and a time; that
one name may be a prefix of another is the constant `Clash`; the runs leave it
empty and the theorems hold for any. Prompts, retrieval and the text of manifests
are left out. One base branch is used. Missing GitHub
credentials show as failing reads. The order in which GitHub lists pull requests
is arbitrary. A POST that takes effect after its retries are over is not
modelled, nor is the reopening of a pull request.

LangGraph is external and modelled from its use: an interrupted node runs again
from its start when the thread is resumed, its `interrupt()` then returns the
resume value, and a resume value that no interrupt consumed is dropped at the end
of the run. Steps of `create_remediation_pr` are separate awaits of one node; a
node cut in between leaves the checkpoint of its start, and only an entry in
`interruptAt` could resume it.

### AgentSession

`pc[c]`, `events[c]`, `round[c]`, `prev[c]`, `body[c]`, `at[c]`, `todo[c]`, `held[c]`
and `current[c]` are the local variables of a turn; `messages`, `pending`, `audit`
and `exists` are the session in the store; `registered` is titlis-api. A tool call
is its tool and the number of the reply that made it. `Chat` and `Respond` are the
endpoints; `BuildRunner`, `Decide`, `ExecuteWrite`, `NotifyPrCreated` and `Tell` are
`run_tool_responses`; `Answer`, `NothingToKeep`, `LlmFails`, `CallTools` and
`ExecuteRead` are `_llm_loop`. `Tell` is a step of its own since the `tool_result`
event is yielded before the answer is appended: a client that leaves there stops
the code between the two.

The body of `Respond` is a sequence of decisions, handled in its order. It may name
a proposal twice or both approve and reject it: the proposals are taken from the
session at once, but the map made of them is read and not popped, so each decision
is carried out. Only proposals of the session count; others are passed over.

A session expires by the time of its last request, also while a turn runs on it.
`attached[c]` says whether turn `c` still works on the session in the store: what a
detached turn appends is seen by no other request, so its messages, pending
proposals and audit are not kept, and whether its LLM accepts what it is sent is
left open. Its tools still run.

History: `shown` (proposals a client has seen), `consented` (the most approvals of
a proposal in one request), `contradicted` (proposals one request both approved and
rejected), `abandoned` (calls of the present session that a cancelled turn still
had to answer), `sent` (how often a call went to its tool).

`Answerable` is what an LLM provider requires: every tool call is answered by the
tool messages right behind it. A conversation that violates it is refused.
`abandoned` is only the ledger the properties compare with: no guard reads it.

Abstractions. One session. Arguments and texts are left out. Which tools write is a
parameter. A client without the fault `hasty` decides on each pending proposal once
before it chats again.

### Explain

`pc` is the place of the whole stack: `retrieve` and `start` before `_inner` has
yielded, `connect`, `chunks`, `backoff` the awaits of `chat_stream`, `event` a value
on its way out (`hand`), `over` and `comment` the two ways to the end. `client` is
what the browser has. An answer's text is known by attempt and place, since a
retry begins it anew (`Wake`): after a failure within an answer the client has the
beginning of one and then all of another. `Deliver` is `generate()` looking for the
client, `Silence` the timeout of `wait_for`, `Finish` the end of `_inner` and
`Count` its `finally`. A cut stream is counted as a success, because `status` is
still that of the start; a generator that never began counts nothing (`Abandon`).

### NeverReduce and PatchLoop

A manifest is a sequence of containers, each a function from slots (section and
resource) to quantities, or `Odd` where the code would raise and stop reading.
`Extract` reads the last container that names a slot, since the containers share
the keys; `Violated` is the comparison of the policy, whose unit depends on the
current value. `Amount` is what Kubernetes takes a quantity for, in thousandths,
and is not in the code: the properties hold the policy against it. All suffixes of
the code's table are there, those the runs use are in the configuration. Two kinds
set the limits of `Comparable`: decimal ones (`M`, `G`) are parsed as zero, so a
current value of `512M` forbids nothing, and `m` in memory is taken for `Mi`.

`PatchLoop` has every answer of the LLM over these manifests. `Analysis` and `Patch`
are successful calls, `CallFails`, `Wake` and `CallTimeout` the retry loop of
`chat` within its timeout, `QuotaExceeded` the exception before a call, `Validate`
the node and its routing. An empty answer and one that drops a slot pass the
policy; the former is refused later, by `create_remediation_pr` (`Remediation`).
Kibi and Kilo are parameters, so that small instances keep the order of the
suffixes. Fractions and the wording of violations are left out.

### SeedRules

A content is a version, its hash the same number. `pc[p]`, `at[p]`, `state[p]`,
`new[p]`, `got[p]` and `errors[p]` are the locals of `seed()`; `disk` is the state
file, which is empty between opening and writing (`Save`, `Write`); `index` is what
titlis-api has. `Begin` takes the options, `Look` loads and hashes a file, `Embed`
stands for the embedding with its retries and the check of the dimensions, `Post`
has an answer, a lost answer or a failure, `Kill` may come anywhere. `Edit`,
`Repair` and `Revert` change files, `SeedBuiltin` and `IndexBuiltin` are
`seed_global_rules` behind POST /knowledge/seed, which writes the same keys.
`vectors` says what happens to vectors of the configured model; of length 768
without `SEED_SKIP_DIM_CHECK`, for instance, each is `refused` and a run ends with
errors.

`tainted` is a history variable with the rules for which the hash may be wrong:
a file that was reverted (an older version's POST may still be under way), a key
the built-in texts replaced, and all of them after two runs side by side. A run
that was alone clears what it verifiably put right. The properties say nothing
of tainted rules. Each cause is needed: with one rule and two changes, TLC breaks
`HashIsIndexed` without its exception by a revert alone, by the built-in texts
alone and by two processes alone, and finds it true without any of the three.

### AgentTools

`servers` counts the servers of a provider that run, `sessions` those that were
initialised, `listed` those whose tools the turn has. `LookupGitHub` and
`LookupDatadog` are the credentials, `Start`, `Initialize`, `Close`, `DelayOver` and
`List` the start with retries, `EndBody`, `Cut`, `Unwind` and `End` the way out,
which is the same for a return, an exception and a cancellation. `UpdateSlo`,
`ReadSlos`, `Propose` and `Proposed` are the SLO tool; a POST whose answer is lost
is repeated and may arrive twice, and one that is refused may have been applied (a
500 sent after the commit, an answer that cannot be read). A cut while an attempt is
being closed leaves its server to the unwinding; in the unwinding itself each
server is stopped in one step, and a cut there stops it no less, which is a promise
of the mcp package. Cancelled generators that Python closes later, in another task,
are taken as closed here.

## 3. What is checked

| Run | Instance | Shows |
|---|---|---|
| ThreadLife | 1 thread, 2 connections, 1 workload with a prior PR, all faults, 2 generation attempts, 2 POST attempts, TTL 0 of 1 tick, fairness | `SingleExecution`, `RecordNamesOwnPr`, `EndIsExplained`, `ShownPatchIsFrozen`, `StreamsEnd`, `ApprovalIsAnswered`, and that the pipeline implements `RemediationApproval` |
| TwoThreads | 2 threads, 2 connections, 1 workload with a prior PR, failing calls, people, 1 generation attempt, 1 POST attempt, one second | `PublishedWasReviewed`, `OnePrPerThread`, `ClosedUnlessOvertaken`, with both threads naming the same branch |
| TwoTabs | 2 concurrent requests, 1 reading and 1 writing tool, 3 turns, 2 replies with tool calls, bodies of 2 decisions, all faults | `WritesWereApproved`, `HistoryTellsTruth` |
| PoliteUser | 1 request at a time, 2 reading and 2 writing tools, 3 turns, 2 replies with tool calls, failing calls, cuts and leaving clients at every await | `NeverRefused`, `UnansweredArePending` |
| Explain | 3 attempts, answers of 2 pieces, amounts 0 to 2, all faults, fairness | `AnswerIsWhole`, `LastWord`, `SpentBudgetIsFree`, `CountedOnce`, `ExplainEnds` |
| PatchLoop | 2 containers, 1 slot, numbers 1 and 2, five suffixes, 2 retries, 2 attempts, fairness | `OfferKeepsResources`, `RefusalIsJust`, `CallsBounded`, `LoopEnds` |
| Seeding | 2 processes, 2 rules, 2 versions, 3 runs, 1 change | `HashIsIndexed`, `ExitZeroMeansIndexed`, `SavedWasAcknowledged` |
| AgentTools | 2 providers, 3 attempts, 3 POST attempts, 2 executions, fairness | `ServersAreOwned`, `NoStartAfterBegin`, `ProposalsInOrder`, `TurnEnds` |

Each property has a mutant, an operator right before the definition it changes
(`Peek` for `Pop`, `RouteToPr` for `RouteAfterConfirmation`, ...), that breaks it.

Four runs show where the code does not do what it says (PROJECT.json quotes it):

| Run | What happens |
|---|---|
| ClosedTooEarly | a run finds the earlier pull request of its workload closed; before its `close-pr`, which names only the workload, another run registers a new pull request, and the record of that open one is closed |
| KeepaliveGap | 15 s of silence cancel the graph; the client gets a comment line and the end of the stream, neither `error` nor `done` |
| LabelRepo | the repository inferred from labels is used to read service.yaml and then forgotten; the manifest cannot be read |
| HiddenReduction | two containers share the keys of the policy: from 2Mi in the first container and none in the second, a patch to 1Mi and 2Mi is offered, though it halves the first |

The edge of what the passing runs claim:

* `ClosedUnlessOvertaken` is what is left of `ClosedMeansClosed` with concurrent
  runs: a record is closed ahead of its pull request in the way of ClosedTooEarly and
  in no other. Branches in TwoThreads are all named in the same second, those of
  prior pull requests in an earlier one.
* An open pull request of `api-v2` is reported as the existing one of `api`, since
  the code compares prefixes. The event only informs; no property is stated, as one
  without such names would only repeat the comparison. No run has clashing names.
* A record and its pull request are of one workload in the runs, for there is only
  one; `RecordsNameOwnPrs` proves `RecordNamesOwnPr` for any number.
* `WritesWereApproved` and `HistoryTellsTruth` excuse no more than the code's reading
  of a body: a proposal named twice is carried out twice, and one both approved and
  rejected in one request is called and reported as rejected too.
* `NeverRefused` and `UnansweredArePending` say what cut and abandoned turns do: one
  that is cancelled while it owes answers (in a tool call, after its event, before
  all decisions are handled) leaves those calls unanswered for good, and the
  conversation is refused from then on. Cancelled anywhere else, in the LLM's call
  for instance, it does no harm. They need one request at a time and no hasty client:
  a chat message while proposals are pending leaves them unanswered, too.
* After an approved write the rounds may be used up, or the answer empty, and the
  turn ends without a word (`AfterCalls`, `NothingToKeep`); the prompt asks the LLM
  not to, the code does not see to it.
* `AnswerIsWhole` allows the beginning of a failed attempt before the whole answer.
* `HashIsIndexed` excepts the rules that are `tainted`, by the built-in texts among
  others: after POST /knowledge/seed the seeder skips files that are no longer indexed.
* `RefusalIsJust` allows a refusal of a patch that only adds: 1Mi for a container that
  named no memory is compared with the 2Mi of another, for they share the keys.

Why the bounds are enough. A property of one thread needs that thread and two
requests that compete for it; one that relates threads needs two. A tick is longer
than the TTL or not: `TTL = 0` with `MaxClock = 1` has both. `MaxRetries = 2` has a
retry and a last attempt, `MaxPosts = 2` a repeated POST, `MaxRounds = 2` a round
that is not the last and one that is. Two replies with calls and three turns
contain propose, decide, propose again. Answers of two pieces can break off after
the first; three amounts put the use below, at and above the budget. Two
containers are the fewest that can hide one another, and with several slots the
policy treats each alike. Two runs of the seeder race, and the third meets what
they left; a rule before and one after a failing one are two rules. The proofs of
section 4 need none of these bounds. Thread ids, ticks, replies,
turns, runs and changes are bounded where the program goes on; where they are used
up the model stops, and requests end, hence `CHECK_DEADLOCK FALSE`. Connections,
threads and reading tools are symmetric; runs with liveness use no symmetry.

Fairness. In `Remediation` it is weak fairness of the steps of each stream: the
event loop serves every ready task, and `_call_tool`, the LLM calls and the HTTP
client have timeouts, so every await ends. Nothing is assumed of users, people on
GitHub or the clock. Where the interval cuts a stream no answer can be promised,
so `ApprovalIsAnswered` excepts a client that got only the comment, and slots whose
client left. `Explain` has weak fairness of the service's steps (not of silence or
of a client that leaves), for the same reason; `PatchLoop` of its one process, in
which every call has `_LLM_CALL_TIMEOUT`; `AgentTools` of the turn, where each await
ends or the interval ends the turn. None of them assumes that a call succeeds.
`SeedRules` has no liveness: a run may be killed again and again.

## 4. What is proved

Every invariant and every action property that a run checks is also a theorem, and
so is the refinement. They hold for every value of the constants that satisfies
the assumption of its module: any number of threads, connections and workloads,
of processes, rules, containers and pieces, any bound, any set of faults. Two
theorems have a hypothesis more, shown in the table; it is a condition of the
run that checks the property, and section 3 says what happens without it.

| Module | Theorem | Statement |
|---|---|---|
| `Remediation_proofs` | `TypeCorrect` | `Spec => []TypeOK` |
| | `OneExecution` | `Spec => []SingleExecution` |
| | `OnlyReviewedIsPublished` | `Spec => []PublishedWasReviewed` |
| | `ShownStaysFrozen` | `Spec => ShownPatchIsFrozen` |
| `RemediationPublishing_proofs` | `BranchesAreOwn` | `Spec => [](Inv /\ BranchInv)` |
| | `OnePullRequest` | `Spec => []OnePrPerThread` |
| | `PipelineImplementsApproval` | `Spec => ImplementsApproval` |
| | `RecordsNameOwnPrs` | `Spec => []RecordNamesOwnPr` |
| | `ClosedIsClosed` | `Spec => []ClosedUnlessOvertaken` |
| `RemediationStreams_proofs` | `StreamsExplainTheirEnd` | `Spec => []EndIsExplained` |
| `AgentSession_proofs` | `AgentTypeCorrect` | `Spec => []AgentTypeOK` |
| | `OnlyApprovedIsWritten` | `Spec => []WritesWereApproved` |
| | `HistoryIsTrue` | `Spec => []HistoryTellsTruth` |
| | `PoliteUsersAreServed` | if `Alone(c)`: `Spec => []NeverRefused` |
| | `TurnsAnswerTheirCalls` | if `Alone(c)`: `Spec => []UnansweredArePending` |
| `Explain_proofs` | `ExplainInvariance` | `Spec => []ExplainInv` |
| | `TypeCorrect` | `Spec => []ExplainTypeOK` |
| | `AnswersAreWhole` | `Spec => []AnswerIsWhole` |
| | `OneLastWord` | `Spec => []LastWord` |
| | `SpentBudgetsAreFree` | `Spec => []SpentBudgetIsFree` |
| | `RequestsAreCountedOnce` | `Spec => []CountedOnce` |
| `SeedRules_proofs` | `SeedTypeCorrect` | `Spec => []SeedTypeOK` |
| | `SavedHashIsIndexed` | `Spec => []HashIsIndexed` |
| | `ZeroMeansIndexed` | `Spec => []ExitZeroMeansIndexed` |
| | `SavedIsAcknowledged` | `Spec => []SavedWasAcknowledged` |
| `PatchLoop_proofs` | `OffersKeepResources` | `Spec => []OfferKeepsResources` |
| | `RefusalsAreJust` | `Spec => []RefusalIsJust` |
| | `CallsAreBounded` | `Spec => []CallsBounded` |
| | `PatchTypesCorrect` | `Spec => []PatchTypeOK` |
| `AgentTools_proofs` | `ToolsInvariance` | `Spec => []ToolsInv` |
| | `ToolTypesCorrect` | `Spec => []ToolsTypeOK` |
| | `NoServerIsLeft` | `Spec => []ServersAreOwned` |
| | `BegunStartsNothing` | `Spec => NoStartAfterBegin` |
| | `ProposalsAreInOrder` | `Spec => []ProposalsInOrder` |

**Remediation: what is reviewed.** `SingleExecution` is inductive with the types:
an entry in `interruptAt` exists only while the thread is suspended and unattended,
and `Resume` removes it in the same step that starts the run.
`PublishedWasReviewed` is not: what is pushed is read from the checkpoint, so one
has to know that an approved thread's checkpoint still holds the shown patch. The
invariant `Inv` adds `UnbornInv` (a thread nobody started is untouched),
`ControlInv` (the place of the one connection that runs a thread determines what
the thread has been through: before the confirmation nothing is shown, past it
exactly its patch is shown and approved) and `FilesInv` (whatever a branch or a
pull request holds was reviewed). `ShownStaysFrozen` follows step by step.

**Remediation: what is published.** The later proofs stand on `Inv` and on frame
lemmas: a step belongs to one connection and its thread, and since nobody else
runs a thread, all other threads' variables stay. `BranchInv` follows the branch:
a connection between `PushFiles` and the pull request holds a branch that nobody
else holds, whose files are its patch or none; a branch that does not exist has no
files; a thread on that way has no pull request. GitHub refuses a name that
exists, and that, not the second in the name, keeps two threads apart. The
refinement maps a thread to draft, offered, accepted, declined or published
(`PhaseOf`); nearly every step is a stutter by its frame, the others are one step of
`RemediationApproval` each. Publishing is the one that needs `BranchInv`, for the
protocol publishes once and only what it offered. `RecordInv` adds the number on
its way to titlis-api (`notify`). `CloseInv` follows a check from its read of the
record to its close-pr: what it has `seen` is still what the record names, or what
the record names by now was registered meanwhile (`overtaken`); and before close-pr
the pull request seen is closed, and remains so, for closed ones are not reopened.
It holds for any number of checks side by side, since the only step that makes a
record name another pull request, `NotifyApi`, enters it in `overtaken` whenever a
check is under way.

**Remediation: what is told.** `EndIsExplained` excuses confirms of threads that
were not approved and runs that gave up, and a thread is read at the end while the
stream was told before. So the excuse has to last: `Dead` threads have no entry in `interruptAt`
and no connection, no step revives or changes one (`DeadStays`), and a stream past
its thread has been told or has a dead thread for an excuse (`StreamInv`).

**AgentSession: who writes.** `WritesWereApproved` says nothing of who may still
send a call. The invariant follows the owner of a proposal: held by the turn whose
LLM made it (`HeldInv`), pending in the session (`PendingInv`), owed by the one
request that took it (`OwedInv`), sent (`SentInv`); it has one owner at a time,
calls of later replies have none yet (`FreshInv`), a turn that reads owes nothing
(`ReadInv`), and only sent calls are registered (`CurrentInv`). A body may approve a
proposal several times, so what a request owes is counted: the calls made and the
approvals left (`Left`) are together no more than the request gave (`consented`).
Most actions only keep or drop owners, which `Quiet` states once for all of them;
`Respond`, `Decide`, `CallTools` and `ExecuteRead` move them and have a lemma each. A
turn whose session expired keeps what it owes and can put nothing back. Here
`shown` and `consented` are history, so approval means that some request carried it.

**AgentSession: what the conversation says.** `HistoryTellsTruth` claims of a
rejected call that it was never sent, which must stay true when a second request
approves the same proposal. The proof calls a proposal `Lost` once it was shown,
not sent, and is neither pending nor owed; `LostStays` shows from the owners that
no step can send it. `DeniedInv` ties it to rejections, those that a body still has
to carry out included: a proposal that is rejected and not contradicted in its own
body is `Lost` as soon as the request has taken it. `AuditInv` ties a decision being
carried out to the audit of the session its turn is attached to. `Plain` again sums
up the steps that only add other messages.

**AgentSession: what the provider accepts.** `Alone(c)` is one connection, with any
of failing calls, cuts and leaving clients as faults: nobody else works on the
session, which does not expire, and the client decides on all proposals, each once,
before it goes on. `Spoken` and `Answered` are about conversations: what a message
does to the unanswered calls, and that an answer can still be added (`Open`).
`ToldInv` equates the unanswered calls with what the turn still owes (`Owing`:
decided and not told, to be read, or held) or, between turns, with the pending
proposals, and in either case with the `abandoned` besides. While nothing is
abandoned the LLM is called when nothing is owed, so the conversation is complete;
once something is, `StageInv` has the LLM refuse every call, so no turn goes on to
owe anything else, and the set stays as it is. `OnceInv` keeps a body that names
every proposal once from answering a call twice.

**Explain.** Between the generator that yields and the client there is one event in
hand at most (`HandInv`), so what the client has and what was yielded differ by it.
`TextInv` says where in which attempt's text that is, `WordInv` that a last word is
the last event and ends everything, `CostInv` and `CountInv` bound calls and counts.
`AnswerIsWhole` is `TextInv` at the end; the others follow likewise.

**SeedRules.** `HashIsIndexed` speaks of equal hashes and is not inductive: the
hash that is saved was computed earlier, from a file that has changed since. The
invariant orders the versions instead. For a rule that is not tainted, what is on
disk is no later than what is indexed and that no later than the file
(`OrderInv`); what a run holds is no later than the index, and what it has in hand
lies between the index and the file (`NewInv`). The outer two being equal, so is
the one between them. A run is alone or every rule is tainted (`AloneInv`), so a
step of one run says nothing of another (`OtherRuns`). `ZeroMeansIndexed` adds what
a run without errors has behind it and before it (`RunOf`): a skipped file is
indexed because its hash was saved, a posted one because it was acknowledged, and
a run that has nothing to save had loaded everything it would. `SavedIsAcknowledged`
needs no order and no exception: acknowledgements are never withdrawn.

**PatchLoop.** `PassedIsKept` is about two quantities: what `_violated` lets pass is
no smaller to Kubernetes if the suffixes compare; it reduces the products to
monotonicity and tells the suffixes apart. `OffersKeepResources` adds that only a
patch the policy passed is offered, and that the one container that names a slot
is the one that is read. `RefusalsAreJust` is the converse (`RefusedIsLess`) for the
last containers that name the slot in either file; the later of the two, if they
differ, is not named in the other file. That a last one exists (`ReadOneNames`) comes
from the well-founded order of the naturals (`LeastOf`). `CallsAreBounded` counts attempts per call and calls per
round (`LoopInv`).

**AgentTools.** `ServersInv` tells for each place of a turn which servers run:
providers are started one after the other, and an attempt's server runs from its
start to the session or to its close; unwinding stops them in the reverse order.
`ProposedInv` says that titlis-api has the fields before the present one, each at
least once, then at most as many of the present one as POSTs were made; in terms
of positions, so that no element of a sequence has to be counted.

Two definitions changed because they could not be reasoned about, both without
changing what they mean: `PhaseOf` in `Remediation` was a CASE whose guards
overlapped, where TLA+ leaves the choice open, and is now an ordered IF; and
`Requests` and `ProposalsInOrder` in `AgentTools` are stated with positions
instead of a filter with a LAMBDA.

Only model-checked: the liveness properties `StreamsEnd`, `ApprovalIsAnswered`,
`ExplainEnds`, `LoopEnds` and `TurnEnds`, which rest on fairness and are out of the
prover's reach, and the four findings, which are counterexamples.

## 5. Not modelled, and the plan

* The feedback route: counters and one POST whose failure is swallowed; nothing
  reads what it leaves.
* Prompts and retrieval's content, settings, wiring, health, metrics but for
  explain's counter, logging: text and configuration, which steer nothing here.
* The GitHub App's JWT and the other API clients beyond their outcome; what
  reading tools compute; `_parse_repo`; fractions of quantities.
* What the garbage collector still does in a cancelled generator, a POST that
  arrives after its client gave it up or left, the reopening of a pull request,
  clock corrections, several workers (the code declares one).

What is left to do: a theorem that `ClosedMeansClosed` holds for workloads only one
connection is at, two sessions over one store, and properties for the hazards of
PROJECT.json that none covers yet, where the repository comes to promise something.
