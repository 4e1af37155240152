----------------------------- MODULE Remediation -----------------------------
(***************************************************************************)
(* The remediation pipeline of titlis-ai: the four HTTP handlers of        *)
(* routes/remediate.py, the LangGraph nodes of pipeline/graph.py they      *)
(* drive, and the two systems the nodes change, GitHub and titlis-api.     *)
(*                                                                         *)
(* A connection c serves one streaming request at a time and runs the      *)
(* graph of one thread t from node to node.  A node awaits external calls; *)
(* every such await is a program point, and other connections, people on   *)
(* GitHub, the clock and the faults run between any two of them.  The      *)
(* graph suspends at interrupt() and the process remembers when, in        *)
(* _thread_interrupt_times; that entry is the only right to resume it.     *)
(***************************************************************************)
EXTENDS Naturals, Sequences, FiniteSets

CONSTANTS
    Conns,       \* connections (request slots) of the single worker
    Threads,     \* thread ids uuid4() will produce
    NoThread,    \* the thread of an idle connection
    Workloads,   \* Kubernetes workloads (k8s_uid)
    Labelled,    \* workloads whose labels name a GitHub owner and repo
    Clash,       \* <<v, w>>: v's branch prefix also begins w's branch names
    PriorPRs,    \* sequence of workloads: whose PRs exist when we start
    MaxRetries,  \* _MAX_RETRIES
    TTL,         \* _INTERRUPT_TTL_SECONDS, in ticks
    MaxPosts,    \* attempts of ScorecardClient._post
    MaxClock,    \* bound of the clock
    Faults       \* kinds of failure that may happen, see FaultKinds

FaultKinds == {"call", "raise", "gap", "leave", "restart", "people"}

ASSUME ConstantsAssumption ==
    /\ NoThread \notin Threads
    /\ Workloads # {}
    /\ Labelled \subseteq Workloads
    /\ PriorPRs \in Seq(Workloads)
    /\ Clash \subseteq Workloads \X Workloads
    /\ MaxRetries \in Nat \ {0}
    /\ MaxPosts \in Nat \ {0}
    /\ TTL \in Nat
    /\ MaxClock \in Nat
    /\ Faults \subseteq FaultKinds

Time   == 0 .. MaxClock
Never  == MaxClock + 1            \* no entry in _thread_interrupt_times
Before == MaxClock + 1            \* a second earlier than the run

Confirms == {"approve", "reject"}                    \* POST .../confirm
Resumes  == Confirms \cup {"set_path", "submit"}
Ops      == Resumes \cup {"remediate"}

\* The external awaits of the graph's nodes, in the order they are reached.
Awaiting == {"classify", "resolve", "fetch", "list", "current", "get_pr",
             "close_pr", "analyze", "generate",
             "branch", "push", "pr", "notify"}
\* The points a connection runs through without waiting for anyone.
Local    == {"validate", "confirm", "begin", "closing"}
Points   == Awaiting \cup Local \cup {"idle", "closed"}

EventTypes == {"service_yaml_required", "fix_ready", "existing_pr",
               "pr_created", "keepalive", "error", "done"}

\* What the LLM may answer: YAML that passes both checks, text that fails
\* one of them, or nothing between the fences.  A patch travels with the
\* service.yaml generated from the form, if there is one.
Quality == {"good", "bad", "empty"}
Patches == [thread : Threads, no : 1 .. MaxRetries, quality : Quality,
            yaml : BOOLEAN]

\* The name parts of a branch: namespace and deployment name as classify
\* left them (the uid alone when there is no scorecard), and a timestamp.
Names == [wl : Workloads, found : BOOLEAN]
Heads == [name : Names, ts : Time \cup {Before}]
PRs   == [head : Heads, files : SUBSET Patches,
          state : {"open", "closed", "merged"}]

VARIABLES
    \* connections
    op, target, pc, events, seen, posts,
    \* checkpointed state of each thread
    born, workload, urlGiven, found, path, generated, manifestOk,
    quality, retry, invalid, approved, interrupted, stamp, result,
    \* routes/remediate.py process memory
    interruptAt,
    \* GitHub, titlis-api, time
    branches, pushed, prs, record, clock,
    \* history: the patches each thread has shown in a fix_ready event, and the
    \* PRs registered while another run was between check and close of a record
    shown, overtaken

connVars   == <<op, target, pc, events, seen, posts>>
inputVars  == <<born, workload, urlGiven, found>>
planVars   == <<path, generated, manifestOk>>
patchVars  == <<quality, retry, invalid>>
decideVars == <<approved, interrupted, interruptAt, shown>>
prVars     == <<stamp, result>>
gitVars    == <<branches, pushed, prs>>
restVars   == <<record, clock, overtaken>>

\* everything but the connections
nodeVars == <<inputVars, planVars, patchVars, decideVars, prVars, gitVars,
              restVars>>
vars == <<connVars, nodeVars>>

ConnTypeOK ==
    /\ op \in [Conns -> Ops \cup {"none"}]
    /\ target \in [Conns -> Threads \cup {NoThread}]
    /\ pc \in [Conns -> Points]
    /\ events \in [Conns -> SUBSET EventTypes]
    /\ seen \in [Conns -> Nat]
    /\ posts \in [Conns -> 0 .. MaxPosts]

InputTypeOK ==
    /\ born \subseteq Threads
    /\ workload \in [Threads -> Workloads]
    /\ urlGiven \in [Threads -> BOOLEAN]
    /\ found \in [Threads -> BOOLEAN]

PlanTypeOK ==
    /\ path \in [Threads -> {"none", "real", "bogus"}]
    /\ generated \in [Threads -> BOOLEAN]
    /\ manifestOk \in [Threads -> BOOLEAN]

PatchTypeOK ==
    /\ quality \in [Threads -> Quality]
    /\ retry \in [Threads -> 0 .. MaxRetries]
    /\ invalid \in [Threads -> BOOLEAN]

DecideTypeOK ==
    /\ approved \in [Threads -> {"unset", "yes", "no"}]
    /\ interrupted \in [Threads -> {"no", "service_yaml", "confirmation"}]
    /\ interruptAt \in [Threads -> Time \cup {Never}]
    /\ shown \in [Threads -> SUBSET Patches]

PrTypeOK ==
    /\ stamp \in [Threads -> Time]
    /\ result \in [Threads -> Nat]

GitTypeOK ==
    /\ branches \subseteq Heads
    /\ pushed \in [Heads -> SUBSET Patches]
    /\ prs \in Seq(PRs)

RestTypeOK ==
    /\ record \in [Workloads -> [pr : Nat,
                                 status : {"none", "PR_OPEN", "PR_CLOSED"}]]
    /\ clock \in Time
    /\ overtaken \subseteq Nat

\* In particular: retry_count never passes _MAX_RETRIES, through any number of
\* resumes, and no POST is tried more often than _post allows.
TypeOK ==
    /\ ConnTypeOK
    /\ InputTypeOK
    /\ PlanTypeOK
    /\ PatchTypeOK
    /\ DecideTypeOK
    /\ PrTypeOK
    /\ GitTypeOK
    /\ RestTypeOK
------------------------------------------------------------------------------
(* The vocabulary of the actions.                                          *)

NameOf(t) == [wl |-> workload[t], found |-> found[t]]
HeadOf(t) == [name |-> NameOf(t), ts |-> stamp[t]]
PatchOf(t) == [thread |-> t, no |-> retry[t], quality |-> quality[t],
               yaml |-> generated[t]]

\* head_ref.startswith(branch_prefix), on the name parts.
HasPrefixOf(name, head) ==
    /\ head.name.found = name.found
    /\ \/ head.name.wl = name.wl
       \/ name.found /\ <<name.wl, head.name.wl>> \in Clash

\* The repository of the request, or the one the workload's labels name.
HasRepo(t) == urlGiven[t] \/ (found[t] /\ workload[t] \in Labelled)

At(c, t, p) == pc[c] = p /\ target[c] = t

Running(c) == pc[c] \notin {"idle", "closed"}

Goto(c, p) ==
    /\ pc' = [pc EXCEPT ![c] = p]
    /\ UNCHANGED <<op, target, events, seen, posts>>

GotoTelling(c, p, what) ==
    /\ pc' = [pc EXCEPT ![c] = p]
    /\ events' = [events EXCEPT ![c] = @ \cup what]
    /\ UNCHANGED <<op, target, seen, posts>>

\* except Exception: an error event, a done event, end of stream.
Raise(c) == GotoTelling(c, "closed", {"error", "done"})

CallMayFail     == "call" \in Faults
NodeMayRaise    == "raise" \in Faults
KeepaliveMayCut == "gap" \in Faults

\* keepalive_stream, no event for 15 s: wait_for cancels the generator, which
\* cancels the graph; the comment line is sent, and then the stream is over.
CutStream(c) == GotoTelling(c, "closed", {"keepalive"})
------------------------------------------------------------------------------
(* Handlers.                                                               *)

\* POST /remediate: a fresh thread id and the initial state.
Remediate(c, t, w, url) ==
    /\ pc[c] = "idle" /\ t \notin born
    /\ born' = born \cup {t}
    /\ workload' = [workload EXCEPT ![t] = w]
    /\ urlGiven' = [urlGiven EXCEPT ![t] = url]
    /\ op' = [op EXCEPT ![c] = "remediate"]
    /\ target' = [target EXCEPT ![c] = t]
    /\ pc' = [pc EXCEPT ![c] = "classify"]
    /\ UNCHANGED <<events, seen, posts, found, planVars, patchVars,
                   decideVars, prVars, gitVars, restVars>>

\* Mutant of Pop: the entry is read, and stays.
Peek(t) == UNCHANGED interruptAt

\* _thread_interrupt_times.pop(thread_id, None)
Pop(t) == interruptAt' = [interruptAt EXCEPT ![t] = Never]

Expired(t) == interruptAt[t] = Never \/ clock - interruptAt[t] > TTL

\* confirm, set-path, submit-service-yaml: the entry is popped in any case;
\* without it, or when it is too old, the answer is 410 and nothing runs.
Refuse(t) ==
    /\ Expired(t) /\ interruptAt[t] # Never
    /\ Pop(t)
    /\ UNCHANGED <<connVars, inputVars, planVars, patchVars, approved,
                   interrupted, shown, prVars, gitVars, restVars>>

\* Otherwise the graph resumes at the node that was interrupted, whatever
\* endpoint was called: nothing compares the endpoint with the interrupt.
Resume(c, t, o) ==
    /\ pc[c] = "idle" /\ ~Expired(t)
    /\ Pop(t)
    /\ op' = [op EXCEPT ![c] = o]
    /\ target' = [target EXCEPT ![c] = t]
    /\ pc' = [pc EXCEPT ![c] = CASE interrupted[t] = "service_yaml" -> "resolve"
                                 [] interrupted[t] = "confirmation" -> "confirm"
                                 [] OTHER -> "closing"]
    /\ UNCHANGED <<events, seen, posts, inputVars, planVars, patchVars,
                   approved, interrupted, shown, prVars, gitVars, restVars>>

\* The __interrupt__ event of the stream.  Three handlers store the time and
\* end; the loop of confirm skips it and runs off the end of the stream.
Interrupt(c, t, kind, event, patches) ==
    /\ interrupted' = [interrupted EXCEPT ![t] = kind]
    /\ IF op[c] \in Confirms
       THEN Goto(c, "closing") /\ UNCHANGED <<interruptAt, shown>>
       ELSE /\ GotoTelling(c, "closing", {event})
            /\ interruptAt' = [interruptAt EXCEPT ![t] = clock]
            /\ shown' = [shown EXCEPT ![t] = @ \cup patches]
    /\ UNCHANGED approved

\* The interrupt was the last event before done, and nothing more is read.
EndsInInterrupt(c) == events[c] \cap {"service_yaml_required", "fix_ready"} # {}

\* Mutant of LastEvents: giving up is not reported.
OnlyDone(c, t) == {"done"}

\* Validation gave up: an error before done (confirm does not look).
LastEvents(c, t) ==
    {"done"} \cup IF /\ invalid[t] /\ retry[t] >= MaxRetries
                     /\ op[c] \notin Confirms /\ ~EndsInInterrupt(c)
                  THEN {"error"} ELSE {}

Finish(c, t) ==
    /\ At(c, t, "closing")
    /\ GotoTelling(c, "closed", LastEvents(c, t))
    /\ UNCHANGED nodeVars
------------------------------------------------------------------------------
(* Nodes up to the patch.                                                  *)

ClassifyFindings(c, t) ==
    /\ At(c, t, "classify")
    /\ \E known \in BOOLEAN : found' = [found EXCEPT ![t] = known]
    /\ Goto(c, "resolve")
    /\ UNCHANGED <<born, workload, urlGiven, planVars, patchVars, decideVars,
                   prVars, gitVars, restVars>>

\* service.yaml is readable and names a path: any pending resume is ignored.
ResolveFromServiceYaml(c, t) ==
    /\ At(c, t, "resolve") /\ HasRepo(t)
    /\ path' = [path EXCEPT ![t] = "real"]
    /\ interrupted' = [interrupted EXCEPT ![t] = "no"]
    /\ Goto(c, "fetch")
    /\ UNCHANGED <<inputVars, generated, manifestOk, patchVars, approved,
                   interruptAt, shown, prVars, gitVars, restVars>>

\* service.yaml absent or unreadable, first execution: ask for the form.
AskServiceYaml(c, t) ==
    /\ At(c, t, "resolve") /\ interrupted[t] = "no"
    /\ Interrupt(c, t, "service_yaml", "service_yaml_required", {})
    /\ UNCHANGED <<inputVars, planVars, patchVars, prVars, gitVars, restVars>>

\* The same node again, resumed: a form names the path and is rendered to a
\* service.yaml; a string is the path, and so is str(True) from a confirm.
ResolveFromResume(c, t) ==
    /\ At(c, t, "resolve") /\ interrupted[t] = "service_yaml"
    /\ path' = [path EXCEPT ![t] =
                   IF op[c] \in Confirms THEN "bogus" ELSE "real"]
    /\ generated' = [generated EXCEPT ![t] = op[c] = "submit"]
    /\ interrupted' = [interrupted EXCEPT ![t] = "no"]
    /\ Goto(c, "fetch")
    /\ UNCHANGED <<inputVars, manifestOk, patchVars, approved, interruptAt,
                   shown, prVars, gitVars, restVars>>

\* Every failure to read the manifest becomes manifest_fetch_error.  The
\* repository is the request's: the one inferred by resolve is not kept.
FetchContext(c, t) ==
    /\ At(c, t, "fetch")
    /\ \E ok \in BOOLEAN :
          /\ ok => urlGiven[t] /\ path[t] = "real"
          /\ ok \/ CallMayFail \/ ~urlGiven[t] \/ path[t] # "real"
          /\ manifestOk' = [manifestOk EXCEPT ![t] = ok]
    /\ Goto(c, IF urlGiven[t] THEN "list" ELSE "analyze")
    /\ UNCHANGED <<inputVars, path, generated, patchVars, decideVars, prVars,
                   gitVars, restVars>>

OpenMatches(t) == {n \in 1 .. Len(prs) : /\ prs[n].state = "open"
                                         /\ HasPrefixOf(NameOf(t), prs[n].head)}

\* check_existing_pr, first call: an open PR with the prefix ends the run, and
\* three of the four handlers tell the client of it.
FindExistingPr(c, t) ==
    /\ At(c, t, "list") /\ OpenMatches(t) # {}
    /\ GotoTelling(c, "closing",
                   IF op[c] \in Confirms THEN {} ELSE {"existing_pr"})
    /\ UNCHANGED nodeVars

NoExistingPr(c, t) ==
    /\ At(c, t, "list") /\ OpenMatches(t) = {}
    /\ Goto(c, "current")
    /\ UNCHANGED nodeVars

\* _sync_closed_pr_status: read the record, read its PR, tell the API.
GetCurrentRemediation(c, t) ==
    /\ At(c, t, "current")
    /\ LET r == record[workload[t]]
           active == r.status = "PR_OPEN" /\ r.pr # 0
       IN /\ pc' = [pc EXCEPT ![c] = IF active THEN "get_pr" ELSE "analyze"]
          /\ seen' = [seen EXCEPT ![c] = IF active THEN r.pr ELSE 0]
    /\ UNCHANGED <<op, target, events, posts, nodeVars>>

\* Mutant of ClosedUnmerged: any state of the PR will do.
Found(n) == n \in 1 .. Len(prs)

\* state == "closed" and not merged
ClosedUnmerged(n) == n \in 1 .. Len(prs) /\ prs[n].state = "closed"

\* The number that was read is a local of the check.
EndCheck(c) ==
    /\ pc' = [pc EXCEPT ![c] = "analyze"]
    /\ seen' = [seen EXCEPT ![c] = 0]
    /\ UNCHANGED <<op, target, events, posts>>

GetPullRequest(c, t) ==
    /\ At(c, t, "get_pr")
    /\ IF ClosedUnmerged(seen[c]) THEN Goto(c, "close_pr") ELSE EndCheck(c)
    /\ UNCHANGED nodeVars

\* One attempt of a POST: applied by titlis-api or not, answered or not; an
\* answer that is lost or is a 502-504 is retried while attempts remain.
PostAttempt(c, next, applied) ==
    \/ /\ applied
       /\ pc' = [pc EXCEPT ![c] = next]
       /\ posts' = [posts EXCEPT ![c] = 0]
    \/ /\ CallMayFail
       /\ posts[c] + 1 < MaxPosts
       /\ posts' = [posts EXCEPT ![c] = @ + 1]
       /\ UNCHANGED pc
    \/ /\ CallMayFail
       /\ pc' = [pc EXCEPT ![c] = next]
       /\ posts' = [posts EXCEPT ![c] = 0]

\* close-pr carries the workload only: the API closes its current record.
NotifyPrClosed(c, t) ==
    /\ At(c, t, "close_pr")
    /\ \E applied \in BOOLEAN :
          /\ PostAttempt(c, "analyze", applied)
          /\ record' = IF applied /\ record[workload[t]].status = "PR_OPEN"
                       THEN [record EXCEPT ![workload[t]].status = "PR_CLOSED"]
                       ELSE record
    /\ seen' = [seen EXCEPT ![c] = IF pc'[c] = "analyze" THEN 0 ELSE @]
    /\ UNCHANGED <<op, target, events, inputVars, planVars, patchVars,
                   decideVars, prVars, gitVars, clock, overtaken>>

\* Any failing call of check_existing_pr is swallowed: existing_pr is None.
CheckFails(c, t) ==
    /\ CallMayFail
    /\ pc[c] \in {"list", "current", "get_pr"} /\ target[c] = t
    /\ EndCheck(c)
    /\ UNCHANGED nodeVars

AnalyzeFindings(c, t) ==
    /\ At(c, t, "analyze")
    /\ IF manifestOk[t] THEN Goto(c, "generate") ELSE Raise(c)
    /\ UNCHANGED nodeVars
------------------------------------------------------------------------------
(* Nodes from the patch to the pull request.                               *)

\* Mutant of NextRetry: retry_count is not raised.
SameRetry(t) == retry[t]

NextRetry(t) == retry[t] + 1

GenerateYamlPatch(c, t) ==
    /\ At(c, t, "generate")
    /\ \E q \in Quality : quality' = [quality EXCEPT ![t] = q]
    /\ retry' = [retry EXCEPT ![t] = NextRetry(t)]
    /\ invalid' = [invalid EXCEPT ![t] = FALSE]
    /\ Goto(c, "validate")
    /\ UNCHANGED <<inputVars, planVars, decideVars, prVars, gitVars, restVars>>

\* Mutant of RouteAfterValidate: one attempt too many.
RouteOneMore(t, bad) ==
    IF ~bad THEN "confirm"
    ELSE IF retry[t] <= MaxRetries THEN "generate" ELSE "closing"

\* _route_after_validate
RouteAfterValidate(t, bad) ==
    IF ~bad THEN "confirm"
    ELSE IF retry[t] < MaxRetries THEN "generate" ELSE "closing"

ValidatePatch(c, t) ==
    LET bad == quality[t] = "bad"
    IN /\ At(c, t, "validate")
       /\ invalid' = [invalid EXCEPT ![t] = bad]
       /\ Goto(c, RouteAfterValidate(t, bad))
       /\ UNCHANGED <<inputVars, planVars, quality, retry, decideVars, prVars,
                      gitVars, restVars>>

AwaitUserConfirmation(c, t) ==
    /\ At(c, t, "confirm") /\ interrupted[t] # "confirmation"
    /\ Interrupt(c, t, "confirmation", "fix_ready", {PatchOf(t)})
    /\ UNCHANGED <<inputVars, planVars, patchVars, prVars, gitVars, restVars>>

\* Mutants of RouteAfterConfirmation: whatever was answered counts as a yes,
\* and a rejected patch is generated anew.
RouteToPr(o)    == "begin"
RouteToRetry(o) == IF o = "approve" THEN "begin" ELSE "generate"

\* _route_after_confirmation
RouteAfterConfirmation(o) == IF o = "approve" THEN "begin" ELSE "closing"

\* Resumed: only a boolean counts, anything else is a corrupted session.
TakeDecision(c, t) ==
    /\ At(c, t, "confirm") /\ interrupted[t] = "confirmation"
    /\ op[c] \in Confirms
    /\ approved' = [approved EXCEPT ![t] =
                       IF op[c] = "approve" THEN "yes" ELSE "no"]
    /\ interrupted' = [interrupted EXCEPT ![t] = "no"]
    /\ Goto(c, RouteAfterConfirmation(op[c]))
    /\ UNCHANGED <<inputVars, planVars, patchVars, interruptAt, shown, prVars,
                   gitVars, restVars>>

RefuseNonBoolean(c, t) ==
    /\ At(c, t, "confirm") /\ interrupted[t] = "confirmation"
    /\ op[c] \notin Confirms
    /\ Raise(c)
    /\ UNCHANGED nodeVars

\* Mutant of Strict: a failure ends the graph without a word.
Lenient(c, ok, next) == Goto(c, IF ok THEN next ELSE "closing")

\* A strict MCP call: an isError answer raises, even if GitHub did the work.
Strict(c, ok, next) == IF ok THEN Goto(c, next) ELSE Raise(c)

\* create_remediation_pr: name the branch by the second, refuse no content.
BeginPr(c, t) ==
    /\ At(c, t, "begin")
    /\ stamp' = [stamp EXCEPT ![t] = clock]
    /\ Strict(c, quality[t] # "empty", "branch")
    /\ UNCHANGED <<inputVars, planVars, patchVars, decideVars, result, gitVars,
                   restVars>>

\* Mutant of BranchExists: the branch is taken over.
BranchIsMine(t) == FALSE

\* GitHub refuses to create a ref that exists.
BranchExists(t) == HeadOf(t) \in branches

CreateBranch(c, t) ==
    /\ At(c, t, "branch")
    /\ \E ok, applied \in BOOLEAN :
          /\ applied => ~BranchExists(t)
          /\ ok => applied
          /\ ok \/ CallMayFail \/ BranchExists(t)
          /\ branches' = IF applied THEN branches \cup {HeadOf(t)} ELSE branches
          /\ Strict(c, ok, "push")
    /\ UNCHANGED <<inputVars, planVars, patchVars, decideVars, prVars, pushed,
                   prs, restVars>>

PushFiles(c, t) ==
    /\ At(c, t, "push")
    /\ \E ok, applied \in BOOLEAN :
          /\ ok => applied
          /\ ok \/ CallMayFail
          /\ pushed' = IF applied
                       THEN [pushed EXCEPT ![HeadOf(t)] = {PatchOf(t)}]
                       ELSE pushed
          /\ Strict(c, ok, "pr")
    /\ UNCHANGED <<inputVars, planVars, patchVars, decideVars, prVars,
                   branches, prs, restVars>>

NewPr(t) == [head |-> HeadOf(t), files |-> pushed[HeadOf(t)], state |-> "open"]

\* Mutant of NoUrl: the number is guessed, and the run goes on.
GuessNumber(c, t) ==
    /\ result' = [result EXCEPT ![t] = Len(prs) + 1]
    /\ GotoTelling(c, "notify", {"pr_created"})

\* An error, or an answer that holds no pull request URL.
NoUrl(c, t) == Raise(c) /\ UNCHANGED result

\* The answer is a URL, or none, or comes later than the stream lasts; GitHub
\* may have opened the PR in every case.
CreatePullRequest(c, t) ==
    /\ At(c, t, "pr")
    /\ \E applied \in BOOLEAN :
          /\ prs' = IF applied THEN Append(prs, NewPr(t)) ELSE prs
          /\ \/ /\ applied
                /\ result' = [result EXCEPT ![t] = Len(prs) + 1]
                /\ GotoTelling(c, "notify", {"pr_created"})
             \/ CallMayFail /\ NoUrl(c, t)
             \/ KeepaliveMayCut /\ CutStream(c) /\ UNCHANGED result
    /\ UNCHANGED <<inputVars, planVars, patchVars, decideVars, stamp,
                   branches, pushed, restVars>>

\* Another run has read the record of t's workload and may still close it.
CheckUnderWay(c, t) ==
    \E d \in Conns \ {c} : /\ pc[d] \in {"get_pr", "close_pr"}
                           /\ workload[target[d]] = workload[t]

\* notify_api swallows its failure, and the stream ends as a success.
NotifyApi(c, t) ==
    /\ At(c, t, "notify")
    /\ \E applied \in BOOLEAN :
          /\ PostAttempt(c, "closing", applied)
          /\ record' = IF applied
                       THEN [record EXCEPT ![workload[t]] =
                                [pr |-> result[t], status |-> "PR_OPEN"]]
                       ELSE record
          /\ overtaken' = IF applied /\ CheckUnderWay(c, t)
                          THEN overtaken \cup {result[t]} ELSE overtaken
    /\ UNCHANGED <<op, target, events, seen, inputVars, planVars, patchVars,
                   decideVars, prVars, gitVars, clock>>
------------------------------------------------------------------------------
(* Failures and the rest of the world.                                     *)

\* Nodes that let an exception out: an HTTP error of classify, a service.yaml
\* that is no mapping, an LLM error or timeout, a YAML constructor error.
NodeRaises(c, t) ==
    /\ NodeMayRaise
    /\ pc[c] \in {"classify", "resolve", "analyze", "generate", "validate"}
    /\ target[c] = t
    /\ Raise(c)
    /\ UNCHANGED nodeVars

KeepaliveTimeout(c) ==
    /\ KeepaliveMayCut
    /\ pc[c] \in Awaiting
    /\ CutStream(c)
    /\ UNCHANGED nodeVars

Free(c) ==
    /\ pc' = [pc EXCEPT ![c] = "idle"]
    /\ op' = [op EXCEPT ![c] = "none"]
    /\ target' = [target EXCEPT ![c] = NoThread]
    /\ events' = [events EXCEPT ![c] = {}]
    /\ seen' = [seen EXCEPT ![c] = 0]
    /\ posts' = [posts EXCEPT ![c] = 0]
    /\ UNCHANGED nodeVars

\* The response is over and the slot can serve another request.
Release(c) == pc[c] = "closed" /\ Free(c)

\* The client goes away: the response is cancelled wherever it is.
Disconnect(c) == "leave" \in Faults /\ Running(c) /\ Free(c)

\* The process restarts: connections, checkpoints and entries are lost.
Restart ==
    /\ "restart" \in Faults
    /\ \E c \in Conns : pc[c] # "idle"
    /\ pc' = [c \in Conns |-> "idle"]
    /\ op' = [c \in Conns |-> "none"]
    /\ target' = [c \in Conns |-> NoThread]
    /\ events' = [c \in Conns |-> {}]
    /\ seen' = [c \in Conns |-> 0]
    /\ posts' = [c \in Conns |-> 0]
    /\ interruptAt' = [t \in Threads |-> Never]
    /\ UNCHANGED <<inputVars, planVars, patchVars, approved, interrupted,
                   shown, prVars, gitVars, restVars>>

\* People close or merge a pull request on GitHub.
SettlePr(n, how) ==
    /\ "people" \in Faults
    /\ n \in 1 .. Len(prs) /\ prs[n].state = "open"
    /\ prs' = [prs EXCEPT ![n].state = how]
    /\ UNCHANGED <<connVars, inputVars, planVars, patchVars, decideVars,
                   prVars, branches, pushed, restVars>>

Tick ==
    /\ clock < MaxClock
    /\ clock' = clock + 1
    /\ UNCHANGED <<connVars, inputVars, planVars, patchVars, decideVars,
                   prVars, gitVars, record, overtaken>>
------------------------------------------------------------------------------
\* Before the run each workload of PriorPRs got a PR, which is registered.
\* What those PRs hold is of no interest here.
PriorPr(w) == [head |-> [name |-> [wl |-> w, found |-> TRUE],
                        ts |-> Before],
               files |-> {}, state |-> "open"]

PriorRecord(w) ==
    IF \E n \in 1 .. Len(PriorPRs) : PriorPRs[n] = w
    THEN [pr |-> CHOOSE n \in 1 .. Len(PriorPRs) : PriorPRs[n] = w,
          status |-> "PR_OPEN"]
    ELSE [pr |-> 0, status |-> "none"]

Init ==
    /\ op = [c \in Conns |-> "none"]
    /\ target = [c \in Conns |-> NoThread]
    /\ pc = [c \in Conns |-> "idle"]
    /\ events = [c \in Conns |-> {}]
    /\ seen = [c \in Conns |-> 0]
    /\ posts = [c \in Conns |-> 0]
    /\ born = {}
    /\ workload = [t \in Threads |-> CHOOSE w \in Workloads : TRUE]
    /\ urlGiven = [t \in Threads |-> FALSE]
    /\ found = [t \in Threads |-> FALSE]
    /\ path = [t \in Threads |-> "none"]
    /\ generated = [t \in Threads |-> FALSE]
    /\ manifestOk = [t \in Threads |-> FALSE]
    /\ quality = [t \in Threads |-> "empty"]
    /\ retry = [t \in Threads |-> 0]
    /\ invalid = [t \in Threads |-> FALSE]
    /\ approved = [t \in Threads |-> "unset"]
    /\ interrupted = [t \in Threads |-> "no"]
    /\ stamp = [t \in Threads |-> 0]
    /\ result = [t \in Threads |-> 0]
    /\ interruptAt = [t \in Threads |-> Never]
    /\ shown = [t \in Threads |-> {}]
    /\ pushed = [h \in Heads |-> {}]
    /\ prs = [n \in 1 .. Len(PriorPRs) |-> PriorPr(PriorPRs[n])]
    /\ branches = {PriorPr(PriorPRs[n]).head : n \in 1 .. Len(PriorPRs)}
    /\ record = [w \in Workloads |-> PriorRecord(w)]
    /\ clock = 0
    /\ overtaken = {}

\* A step of the graph, or of the handler around it, on connection c.
Step(c, t) ==
    \/ ClassifyFindings(c, t)
    \/ ResolveFromServiceYaml(c, t) \/ AskServiceYaml(c, t)
    \/ ResolveFromResume(c, t)
    \/ FetchContext(c, t)
    \/ FindExistingPr(c, t) \/ NoExistingPr(c, t)
    \/ GetCurrentRemediation(c, t) \/ GetPullRequest(c, t)
    \/ NotifyPrClosed(c, t) \/ CheckFails(c, t)
    \/ AnalyzeFindings(c, t) \/ GenerateYamlPatch(c, t) \/ ValidatePatch(c, t)
    \/ AwaitUserConfirmation(c, t) \/ TakeDecision(c, t)
    \/ RefuseNonBoolean(c, t)
    \/ BeginPr(c, t) \/ CreateBranch(c, t) \/ PushFiles(c, t)
    \/ CreatePullRequest(c, t) \/ NotifyApi(c, t)
    \/ Finish(c, t) \/ NodeRaises(c, t)

Request(c) ==
    \E t \in Threads :
        \/ \E w \in Workloads, url \in BOOLEAN : Remediate(c, t, w, url)
        \/ \E o \in Resumes : Resume(c, t, o)

World ==
    \/ \E t \in Threads : Refuse(t)
    \/ \E n \in 1 .. Len(prs), how \in {"closed", "merged"} : SettlePr(n, how)
    \/ Restart
    \/ Tick

Next ==
    \/ \E c \in Conns :
          \/ Request(c)
          \/ \E t \in Threads : Step(c, t)
          \/ KeepaliveTimeout(c) \/ Release(c) \/ Disconnect(c)
    \/ World

Spec == Init /\ [][Next]_vars
------------------------------------------------------------------------------
(* Properties.                                                             *)

\* c is inside the graph of t (a closing stream only has its last lines left).
Executing(c, t) == target[c] = t /\ Running(c) /\ pc[c] # "closing"

\* A thread is run by one connection at most, and while its entry in
\* _thread_interrupt_times exists nobody runs it and its graph is suspended:
\* two resumes of one interrupt (a double click on approve, approve and
\* set-path together) can never both enter the graph.
SingleExecution ==
    \A t \in Threads :
        /\ \A c, d \in Conns : Executing(c, t) /\ Executing(d, t) => c = d
        /\ interruptAt[t] # Never =>
              /\ interrupted[t] # "no"
              /\ \A c \in Conns : ~Executing(c, t)

\* Whatever reaches a pull request is a patch that passed validation, was
\* shown in a fix_ready event of its thread, and was approved there.
PublishedWasReviewed ==
    \A n \in 1 .. Len(prs) : \A p \in prs[n].files :
        /\ p.quality = "good"
        /\ shown[p.thread] = {p}
        /\ approved[p.thread] = "yes"

\* A thread publishes one pull request at most, through retries, lost answers
\* and repeated confirms; and the branch of one thread never carries the
\* files of another, even when both are named in the same second.
OnePrPerThread ==
    \A m, n \in 1 .. Len(prs) :
        \A p \in prs[m].files, q \in prs[n].files :
            p.thread = q.thread => m = n

\* titlis-api never registers a PR number GitHub does not have, nor the PR of
\* another workload.
RecordNamesOwnPr ==
    \A w \in Workloads :
        record[w].pr # 0 => /\ record[w].pr \in 1 .. Len(prs)
                            /\ prs[record[w].pr].head.name.wl = w

\* A stream that ran to its end told its client why it ended: a question, a
\* fix, an existing PR, a created PR or an error; a rejection needs no news.
\* (A confirm sent to a thread that waits for service.yaml is no decision.)
EndIsExplained ==
    \A c \in Conns :
        pc[c] = "closed" /\ "done" \in events[c] =>
            \/ events[c] \cap {"service_yaml_required", "fix_ready",
                               "existing_pr", "pr_created", "error"} # {}
            \/ op[c] \in Confirms /\ approved[target[c]] # "yes"

\* Nothing a thread has shown changes, nor what it would publish.
KeepsWhatIsShown ==
    \A t \in Threads : shown[t] # {} => /\ shown'[t] = shown[t]
                                       /\ PatchOf(t)' = PatchOf(t)

\* A patch on the screen of a reviewer is not changed behind it.
ShownPatchIsFrozen == [][KeepsWhatIsShown]_vars

\* When titlis-api holds a record as closed, people closed its PR unmerged.
ClosedMeansClosed ==
    \A w \in Workloads :
        record[w].status = "PR_CLOSED" => prs[record[w].pr].state = "closed"

\* A record is closed ahead of its PR in one way only: another run registered
\* that PR after the closing one had read the record, and before its close-pr.
\* Lost answers, repeated POSTs, restarts and lost streams do not do it.
ClosedUnlessOvertaken ==
    \A w \in Workloads :
        record[w].status = "PR_CLOSED" =>
            \/ prs[record[w].pr].state = "closed"
            \/ record[w].pr \in overtaken

\* A stream whose client stayed reports its end (done) when it is over.
EndIsReported ==
    \A c \in Conns : pc[c] = "closed" => "done" \in events[c]

\* The repository inferred from the labels is good enough to read a manifest.
InferredRepoIsUsed ==
    \A t \in Threads :
        (/\ workload[t] \in Labelled /\ found[t] /\ path[t] = "real"
         /\ \E c \in Conns : At(c, t, "list") \/ At(c, t, "analyze"))
        => manifestOk[t]

\* The event loop keeps serving a stream, and every await has a timeout.
Fairness == \A c \in Conns : WF_vars(\E t \in Threads : Step(c, t))

LiveSpec == Spec /\ Fairness

\* Every stream comes to its end: no wait without bound, no endless retry.
StreamsEnd == \A c \in Conns : Running(c) ~> ~Running(c)

\* An approval that the confirm node took ends in a created PR or in an error
\* report, unless the keepalive interval cut the stream or nobody is there to
\* be told.
ApprovalIsAnswered ==
    \A c \in Conns :
        (pc[c] = "begin") ~>
            \/ events[c] \cap {"pr_created", "error", "keepalive"} # {}
            \/ pc[c] = "idle"
------------------------------------------------------------------------------
(* What a reviewer sees of a thread, and the promise it keeps.             *)

ReachedPr(t) == \E n \in 1 .. Len(prs) : \E p \in prs[n].files : p.thread = t

PhaseOf(t) ==
    IF t \notin born THEN "unborn"
    ELSE IF ReachedPr(t) THEN "published"
    ELSE IF approved[t] = "yes" THEN "accepted"
    ELSE IF approved[t] = "no" THEN "refused"
    ELSE IF shown[t] # {} THEN "offered"
    ELSE "drafting"

Approval == INSTANCE RemediationApproval WITH
    phase <- [t \in Threads |-> PhaseOf(t)],
    offer <- shown,
    published <- UNION {prs[n].files : n \in 1 .. Len(prs)}

\* The pipeline, with its retries, lost answers, expiries, cancellations and
\* restarts, does nothing the approval protocol does not allow.
ImplementsApproval == Approval!Spec
==============================================================================
