----------------------------- MODULE PatchLoop -----------------------------
(***************************************************************************)
(* How the remediation pipeline comes to a patch: analyze_findings,        *)
(* generate_yaml_patch and validate_patch, with the calls of the LLM they  *)
(* wait for (LLMService.chat) and the policy a patch is held against.      *)
(* Remediation has these nodes as one step each, with a patch's quality as *)
(* a given; here the calls and the manifests are looked into.              *)
(***************************************************************************)
EXTENDS NeverReduce

CONSTANTS
    MaxRetries,   \* _MAX_RETRIES
    MaxAttempts   \* range(3) of chat

ASSUME PatchLoopAssumption ==
    MaxRetries \in Nat \ {0} /\ MaxAttempts \in Nat \ {0}

\* What the LLM may answer: a file, or text that is not YAML.
NotYaml == <<>>
NoPatch == <<"no patch">>
Answers == Manifests \cup {NotYaml}

Places == {"call", "backoff", "validate", "offered", "refused", "raised"}

VARIABLES
    current,   \* current_manifest
    spent,     \* the tenant's budget is used up
    node,      \* the node that calls the LLM
    pc,
    attempt,   \* attempt of chat
    patched,   \* patched_manifest; NoPatch while a new one is awaited
    retry,     \* retry_count
    calls      \* history: calls of the LLM, up to one too many

givenVars == <<current, spent>>
vars == <<givenVars, node, pc, attempt, patched, retry, calls>>

MaxCalls == (1 + MaxRetries) * MaxAttempts

PatchTypeOK ==
    /\ current \in Manifests /\ spent \in BOOLEAN
    /\ node \in {"analyze", "generate"} /\ pc \in Places
    /\ attempt \in 0 .. MaxAttempts - 1
    /\ patched \in Answers \cup {NoPatch}
    /\ retry \in 0 .. MaxRetries
    /\ calls \in 0 .. MaxCalls + 1

Init ==
    /\ current \in Manifests /\ spent \in BOOLEAN
    /\ node = "analyze" /\ pc = "call"
    /\ attempt = 0 /\ patched = NoPatch /\ retry = 0 /\ calls = 0
-----------------------------------------------------------------------------
Called == calls' = IF calls > MaxCalls THEN calls ELSE calls + 1

\* _check_quota raises; the node does, and with it the thread's run.
QuotaExceeded ==
    /\ pc = "call" /\ spent
    /\ pc' = "raised"
    /\ UNCHANGED <<givenVars, node, attempt, patched, retry, calls>>

\* The analysis goes into the prompt for the patch.
Analysis ==
    /\ node = "analyze" /\ pc = "call" /\ ~spent
    /\ node' = "generate" /\ attempt' = 0
    /\ Called
    /\ UNCHANGED <<givenVars, pc, patched, retry>>

SameRetry == retry' = retry                           \* mutant
NextRetry == retry' = retry + 1

\* A patch: the fence around it is taken off, and the try is counted.
Patch(answer) ==
    /\ node = "generate" /\ pc = "call" /\ ~spent
    /\ pc' = "validate" /\ attempt' = 0
    /\ patched' = answer
    /\ NextRetry
    /\ Called
    /\ UNCHANGED <<givenVars, node>>

OnceMore == attempt < MaxAttempts                     \* mutant
MayRetry == attempt < MaxAttempts - 1

CallFails(retryable) ==
    /\ pc = "call" /\ ~spent
    /\ pc' = IF retryable /\ MayRetry THEN "backoff" ELSE "raised"
    /\ Called
    /\ UNCHANGED <<givenVars, node, attempt, patched, retry>>

Wake ==
    /\ pc = "backoff"
    /\ pc' = "call" /\ attempt' = attempt + 1
    /\ UNCHANGED <<givenVars, node, patched, retry, calls>>

\* _LLM_CALL_TIMEOUT spans the attempts and the delays between them.
CallTimeout ==
    /\ pc \in {"call", "backoff"} /\ ~spent
    /\ pc' = "raised"
    /\ IF pc = "call" THEN Called ELSE UNCHANGED calls
    /\ UNCHANGED <<givenVars, node, attempt, patched, retry>>

Refused ==
    patched = NotYaml \/ NeverReduceViolated(current, patched)

\* validate_patch and the routing after it.  The refused patch is overwritten
\* by the next.
Validate ==
    /\ pc = "validate"
    /\ IF Refused
       THEN IF retry < MaxRetries
            THEN pc' = "call" /\ patched' = NoPatch
            ELSE pc' = "refused" /\ UNCHANGED patched
       ELSE pc' = "offered" /\ UNCHANGED patched
    /\ UNCHANGED <<givenVars, node, attempt, retry, calls>>

Next ==
    \/ QuotaExceeded \/ Analysis \/ Wake \/ CallTimeout \/ Validate
    \/ \E answer \in Answers : Patch(answer)
    \/ \E retryable \in BOOLEAN : CallFails(retryable)

Spec == Init /\ [][Next]_vars

\* The run of the graph goes on: every wait in it has the timeout.
LiveSpec == Spec /\ WF_vars(Next)
-----------------------------------------------------------------------------
(* Properties.                                                             *)

\* Container i says something of s.
Says(m, i, s) == m[i] # Odd /\ m[i][s] # Absent

\* Container i is the only one to do so, in a file without odd containers.
Alone(m, i, s) == \A j \in 1 .. NContainers :
                      m[j] # Odd /\ (Says(m, j, s) <=> i = j)

\* A patch that is offered to the user takes nothing from a container: where
\* one container of each file names a resource, in suffixes that compare, the
\* real amount is not smaller.  Both parsers, the extraction and the loop that
\* drops refused patches have to agree with Kubernetes for this.
OfferKeepsResources ==
    pc = "offered" => \A s \in Slots, i, j \in 1 .. NContainers :
        /\ Alone(current, i, s) /\ Alone(patched, j, s)
        /\ Comparable(current[i][s], patched[j][s])
        => Amount(patched[j][s]) >= Amount(current[i][s])

\* What the policy says without those conditions (github_tools.py:66, and rule
\* 5 of the system prompt, agent_service.py:63): in files without odd
\* containers, no container's resources are ever reduced.
OfferNeverReduces ==
    pc = "offered" => \A s \in Slots, i \in 1 .. NContainers :
        /\ \A j \in 1 .. NContainers : current[j] # Odd /\ patched[j] # Odd
        /\ Says(current, i, s) /\ Says(patched, i, s)
        => Amount(patched[i][s]) >= Amount(current[i][s])

\* A run that ends in a refusal had a reason: its last patch is not YAML, or
\* some amount in it is smaller than one in the current file, or written in
\* suffixes that the policy cannot compare.  The two amounts are one
\* container's, or those of two containers of which one names the resource in
\* one file only: containers share the keys (github_tools.py:54), so 1Mi for a
\* container that had none is refused beside 2Mi in another.  A patch that names
\* the resources in the same containers as before and lowers none, in plain
\* suffixes, is never lost.
RefusalIsJust ==
    pc = "refused" =>
        \/ patched = NotYaml
        \/ \E s \in Slots : \E i \in Naming(current, s), j \in Naming(patched, s) :
              /\ \/ Amount(patched[j][s]) < Amount(current[i][s])
                 \/ Doubtful(current[i][s], patched[j][s])
              /\ i = j \/ j \notin Naming(current, s) \/ i \notin Naming(patched, s)

\* However calls fail and patches are refused, one run costs a bounded number
\* of calls, and none when the budget is spent.
CallsBounded == calls <= (IF spent THEN 0 ELSE MaxCalls)

\* The loop comes to an offer, a refusal or an exception.
LoopEnds == <>(pc \in {"offered", "refused", "raised"})
=============================================================================
