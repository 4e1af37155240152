----------------------------- MODULE AgentTools -----------------------------
(***************************************************************************)
(* The tools of one agent turn, from _build_runner to the unwinding of its *)
(* AsyncExitStack.  AgentSession takes a tool as a call that succeeds or   *)
(* fails; here is what stands behind it:                                   *)
(*                                                                         *)
(*   - a GitHub server (a child process) and a Datadog server (an HTTP     *)
(*     session), started for the turn with retries, listed, and closed in  *)
(*     the reverse order however the turn ends;                            *)
(*   - update_slo_thresholds, which proposes one field after another, each *)
(*     with a POST that is repeated when its answer is lost.               *)
(*                                                                         *)
(* The turn may be cut at any await: the client leaves, or the keepalive   *)
(* interval passes.  The servers' own work and reading tools are left out. *)
(***************************************************************************)
EXTENDS Naturals, Sequences

CONSTANTS
    MaxAttempts,  \* _MAX_INIT_RETRIES of a session
    MaxPosts,     \* range(3) of ScorecardClient._post
    MaxCalls      \* bound: tools executed in a turn

ASSUME AgentToolsAssumption ==
    /\ MaxAttempts \in Nat \ {0}
    /\ MaxPosts \in Nat \ {0}
    /\ MaxCalls \in Nat

Providers == {"github", "datadog"}

\* The fields of a request, in the order update_slo_thresholds takes them.
Fields    == <<"target", "warning", "timeframe">>
FieldSet  == {"target", "warning", "timeframe"}
Place(f)  == CHOOSE i \in 1 .. 3 : Fields[i] = f
Requests  == {r \in UNION {[1 .. n -> FieldSet] : n \in 0 .. 3} :
                  \A i, j \in DOMAIN r : i < j => Place(r[i]) < Place(r[j])}
Has(r, f) == \E i \in 1 .. Len(r) : r[i] = f

Places == {"lookup", "start", "initialize", "close", "delay", "list", "body",
           "read", "propose", "unwind", "ended"}

VARIABLES
    pc,
    provider,   \* whose session is being started
    attempt,    \* attempt of its start
    servers,    \* servers running for this turn, per provider
    sessions,   \* providers whose session was initialised
    listed,     \* providers whose tools the turn has
    left,       \* executions the turn still may ask for
    request,    \* the fields update_slo_thresholds was asked to change
    at, posts,  \* its position in them, and attempts of this POST
    outcome,    \* what it came to
    began,      \* history: the turn itself has begun
    proposed    \* history: proposals titlis-api has got, for this request

startVars == <<provider, attempt>>
mcpVars   == <<servers, sessions, listed>>
sloVars   == <<request, at, posts, proposed>>
vars == <<pc, startVars, mcpVars, left, sloVars, outcome, began>>

Outcomes == {"none", "result", "error"}

ToolsTypeOK ==
    /\ pc \in Places
    /\ provider \in Providers
    /\ attempt \in 0 .. MaxAttempts - 1
    /\ servers \in [Providers -> Nat]
    /\ sessions \subseteq Providers /\ listed \subseteq sessions
    /\ left \in 0 .. MaxCalls
    /\ request \in Requests
    /\ at \in 1 .. Len(request) + 1
    /\ posts \in 0 .. MaxPosts - 1
    /\ outcome \in Outcomes /\ began \in BOOLEAN
    /\ proposed \in Seq(FieldSet)

Init ==
    /\ pc = "lookup" /\ provider = "github" /\ attempt = 0
    /\ servers = [p \in Providers |-> 0]
    /\ sessions = {} /\ listed = {}
    /\ left = MaxCalls
    /\ request = <<>> /\ at = 1 /\ posts = 0 /\ proposed = <<>>
    /\ outcome = "none" /\ began = FALSE
-----------------------------------------------------------------------------
(* _build_runner: the sessions are started one after the other.            *)

Running(p) == servers[p] > 0

\* On with the other provider, or with the turn; a provider that failed is
\* done without.
NextProvider ==
    IF provider = "github"
    THEN pc' = "lookup" /\ provider' = "datadog" /\ attempt' = 0
         /\ UNCHANGED began
    ELSE pc' = "body" /\ began' = TRUE /\ UNCHANGED startVars

\* Are there credentials?
Lookup(p, found) ==
    /\ pc = "lookup" /\ provider = p
    /\ IF found
       THEN pc' = "start" /\ UNCHANGED <<startVars, began>>
       ELSE NextProvider
    /\ UNCHANGED <<mcpVars, left, sloVars, outcome>>

\* Of a GitHub App, resolve_installation_id asks GitHub for the installation;
\* none, or a failure, means no session.
LookupGitHub(found) == Lookup("github", found)

\* get_dd_config asks titlis-api; none, or a failure, means no session.
LookupDatadog(found) == Lookup("datadog", found)

OnceMore == attempt < MaxAttempts                     \* mutant
MayRetry == attempt < MaxAttempts - 1

SameAttempt == UNCHANGED attempt                      \* mutant
NextAttempt == attempt' = attempt + 1

\* An attempt has failed, and its server is gone: a delay, or the last error.
Failed ==
    IF MayRetry
    THEN pc' = "delay" /\ NextAttempt /\ UNCHANGED <<provider, began>>
    ELSE NextProvider

\* stdio_client or streamable_http_client.
Start(ok) ==
    /\ pc = "start"
    /\ IF ok
       THEN /\ servers' = [servers EXCEPT ![provider] = @ + 1]
            /\ pc' = "initialize"
            /\ UNCHANGED <<startVars, began>>
       ELSE Failed /\ UNCHANGED servers
    /\ UNCHANGED <<sessions, listed, left, sloVars, outcome>>

\* session.initialize() within _INIT_TIMEOUT.
Initialize(ok) ==
    /\ pc = "initialize"
    /\ IF ok
       THEN pc' = "list" /\ sessions' = sessions \cup {provider}
       ELSE pc' = "close" /\ UNCHANGED sessions
    /\ UNCHANGED <<startVars, servers, listed, left, sloVars, outcome, began>>

KeepServer(p) == UNCHANGED servers                    \* mutant
StopServer(p) == servers' = [servers EXCEPT ![p] = @ - 1]

\* The contexts of the failed attempt are left.
Close ==
    /\ pc = "close"
    /\ StopServer(provider)
    /\ Failed
    /\ UNCHANGED <<sessions, listed, left, sloVars, outcome>>

DelayOver ==
    /\ pc = "delay"
    /\ pc' = "start"
    /\ UNCHANGED <<startVars, mcpVars, left, sloVars, outcome, began>>

\* list_tools: if it fails, the session stays open without tools.
List(ok) ==
    /\ pc = "list"
    /\ listed' = IF ok THEN listed \cup {provider} ELSE listed
    /\ NextProvider
    /\ UNCHANGED <<servers, sessions, left, sloVars, outcome>>
-----------------------------------------------------------------------------
(* _ToolRunner.execute.                                                    *)

\* A tool of a server that is listed is called there; any other name goes to
\* the adapter, which knows only the tools of this program.  None of them but
\* update_slo_thresholds changes what is modelled.
OtherTool ==
    /\ pc = "body" /\ left > 0
    /\ left' = left - 1
    /\ UNCHANGED <<pc, startVars, mcpVars, sloVars, outcome, began>>

\* update_slo_thresholds; valid: target above warning, if both are given.
UpdateSlo(fields, valid) ==
    /\ pc = "body" /\ left > 0
    /\ left' = left - 1
    /\ request' = fields /\ at' = 1 /\ posts' = 0 /\ proposed' = <<>>
    /\ ~valid => Has(fields, "target") /\ Has(fields, "warning")
    /\ IF valid
       THEN pc' = "read" /\ outcome' = "none"
       ELSE pc' = "body" /\ outcome' = "error"
    /\ UNCHANGED <<startVars, mcpVars, began>>

\* get_slos with its retries.
ReadSlos(ok) ==
    /\ pc = "read"
    /\ IF ok THEN pc' = "propose" /\ UNCHANGED outcome
             ELSE pc' = "body" /\ outcome' = "error"
    /\ UNCHANGED <<startVars, mcpVars, left, sloVars, began>>

PostAgain == posts' = posts + 1 /\ UNCHANGED <<pc, at, outcome>>
NextField == at' = at + 1 /\ posts' = 0 /\ UNCHANGED <<pc, outcome>>
SkipIt    == NextField                                \* mutant
GiveUp    == pc' = "body" /\ outcome' = "error" /\ UNCHANGED <<at, posts>>

\* An attempt of the POST of one field.  Any error may mean that the proposal
\* has arrived: its answer is lost, or is a 500 sent after the commit, or cannot
\* be read.
Propose(arrives, answer) ==
    /\ pc = "propose" /\ at <= Len(request)
    /\ answer = "ok" => arrives
    /\ proposed' = IF arrives THEN Append(proposed, request[at]) ELSE proposed
    /\ CASE answer = "ok"      -> NextField
         [] answer = "refused" -> GiveUp
         [] answer = "lost"    -> IF posts < MaxPosts - 1
                                  THEN PostAgain ELSE GiveUp
    /\ UNCHANGED <<startVars, mcpVars, left, request, began>>

Proposed ==
    /\ pc = "propose" /\ at = Len(request) + 1
    /\ pc' = "body" /\ outcome' = "result"
    /\ UNCHANGED <<startVars, mcpVars, left, sloVars, began>>
-----------------------------------------------------------------------------
(* The end of the turn.                                                    *)

\* The turn returns or raises, or is cut at an await: an exception goes
\* through every open context.  A server that was being closed is closed as one
\* of them; an exception during the unwinding does not stop it.
Leave ==
    /\ pc' = "unwind"
    /\ UNCHANGED <<startVars, mcpVars, left, sloVars, outcome, began>>
EndBody == pc = "body" /\ Leave
Cut     == pc \notin {"unwind", "ended"} /\ Leave

StartAgain(p) == pc' = "start" /\ provider' = p /\ UNCHANGED attempt  \* mutant

\* What github_mcp_session and datadog_mcp_session do with an exception that
\* came out of the with-block they serve: _initialized is true, so it passes.
PassOn(p) == UNCHANGED <<pc, startVars>>

\* The stack is unwound: Datadog, which came last, first.
Unwind(p) ==
    /\ pc = "unwind"
    /\ Running(p) /\ (p = "github" => ~Running("datadog"))
    /\ StopServer(p)
    /\ PassOn(p)
    /\ UNCHANGED <<sessions, listed, left, sloVars, outcome, began>>

End ==
    /\ pc = "unwind" /\ \A p \in Providers : ~Running(p)
    /\ pc' = "ended"
    /\ UNCHANGED <<startVars, mcpVars, left, sloVars, outcome, began>>

Next ==
    \/ \E ok \in BOOLEAN :
           \/ LookupGitHub(ok) \/ LookupDatadog(ok) \/ Start(ok)
           \/ Initialize(ok) \/ List(ok) \/ ReadSlos(ok)
           \/ \E fields \in Requests : UpdateSlo(fields, ok)
           \/ \E answer \in {"ok", "refused", "lost"} : Propose(ok, answer)
    \/ Close \/ DelayOver \/ OtherTool \/ Proposed \/ EndBody \/ Cut \/ End
    \/ \E p \in Providers : Unwind(p)

Spec == Init /\ [][Next]_vars

\* An await of the turn ends, or the keepalive interval ends the turn.
LiveSpec == Spec /\ WF_vars(Next)
-----------------------------------------------------------------------------
(* Properties.                                                             *)

\* A turn never has two servers of one provider, whatever attempts failed, and
\* leaves none behind, wherever it was cut; while it runs, the tools it offers
\* belong to servers that run, and Datadog's server goes before GitHub's.
ServersAreOwned ==
    /\ \A p \in Providers : servers[p] <= 1
    /\ pc = "ended" => \A p \in Providers : ~Running(p)
    /\ pc \notin {"unwind", "ended"} => \A p \in sessions : Running(p)
    /\ "datadog" \in sessions /\ "github" \in sessions /\ Running("datadog") =>
           Running("github")

\* Once the turn has begun no server is started: an exception of the turn
\* passes through the sessions without a new attempt (_initialized;
\* test_caller_exception_propagates_without_retry).
NoStartAfterBegin ==
    [][began => \A p \in Providers : servers'[p] <= servers[p]]_vars

\* What titlis-api has got of a request is a beginning of its fields, in their
\* order, each at most MaxPosts times.  All of it, if the tool reported a
\* result; after an error, what came before the field that failed, which may
\* have arrived as well.
ProposalsInOrder ==
    LET Got(f) == \E k \in 1 .. Len(proposed) : proposed[k] = f IN
    /\ \A i \in 1 .. Len(request) :
           (i < at => Got(request[i])) /\ (i > at => ~Got(request[i]))
    /\ \A i, j \in 1 .. Len(proposed) :
           /\ i < j => Place(proposed[i]) <= Place(proposed[j])
           /\ proposed[i] = proposed[j] => j - i < MaxPosts
    /\ outcome = "result" => at = Len(request) + 1

\* Every turn ends, with its servers stopped.
TurnEnds == <>(pc = "ended")
=============================================================================
