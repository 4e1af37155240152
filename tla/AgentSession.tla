---------------------------- MODULE AgentSession ----------------------------
(***************************************************************************)
(* One conversation with the agent: routes/agent.py, AgentService and the  *)
(* AgentSession they share.  A turn (a chat message, or decisions on the   *)
(* proposals of an earlier turn) calls the LLM up to MaxRounds times; the  *)
(* LLM answers with text or with tool calls.  Reading tools run at once,   *)
(* writing tools wait for a person: the turn ends, and another request     *)
(* brings the decisions.                                                   *)
(*                                                                         *)
(* The session is a plain object.  Turns of two requests on it interleave  *)
(* at every await, and a turn can be cancelled at every await: by          *)
(* keepalive_stream after 15 s without an event, and by a leaving client.  *)
(* The store may remove the session under a running turn, which then goes  *)
(* on with an object that no other request will see.                       *)
(***************************************************************************)
EXTENDS Naturals, Sequences, FiniteSets

CONSTANTS
    Conns,        \* requests the session is served by at a time
    ReadTools,    \* tools that only read
    WriteTools,   \* _WRITE_TOOLS
    PrTool,       \* "create_pull_request"
    MaxRounds,    \* range(5) of _llm_loop
    MaxReplies,   \* bound: replies of the LLM that call tools
    MaxBody,      \* bound: decisions of one request
    MaxTurns,     \* bound: requests
    Faults        \* what may go wrong, see SessionFaults

SessionFaults == {"call",    \* a tool or the LLM fails
                  "cut",     \* no event for the keepalive interval
                  "leave",   \* the client goes away
                  "hasty",   \* the client chats while proposals are pending,
                             \* or decides on some of them, or repeatedly
                  "expire"}  \* the session is removed, _TTL_SECONDS after
                             \* its last request

ASSUME AgentAssumption ==
    /\ ReadTools \cap WriteTools = {}
    /\ PrTool \in WriteTools
    /\ MaxRounds \in Nat \ {0}
    /\ MaxReplies \in Nat
    /\ MaxBody \in Nat
    /\ MaxTurns \in Nat
    /\ Faults \subseteq SessionFaults

Tools == ReadTools \cup WriteTools

\* A tool call of the LLM; its id is its proposal_id.
Calls     == Tools \X (1 .. MaxReplies)
Proposals == WriteTools \X (1 .. MaxReplies)

\* body.decisions: whether each is an approval.
Decisions == Proposals \X BOOLEAN

\* What a tool message says, and what has become of a call being handled.
Answers  == {"result", "error", "rejected"}
Outcomes == Answers \cup {"called"}

\* session.messages
Messages ==
    [kind : {"user", "text"}] \cup
    [kind : {"calls"}, ids : SUBSET Calls] \cup
    [kind : {"tool"}, id : Calls, says : Answers]

EventKinds == {"message", "awaiting_approvals", "tool_result",
               "scope_rejected", "error", "done", "keepalive"}

Awaits == {"build", "llm", "read", "exec", "notify"}
Places == Awaits \cup {"idle", "decide", "tell", "closed"}

VARIABLES
    \* requests
    pc,         \* where each of them is
    events,     \* what its stream has carried
    round,      \* _iteration of _llm_loop
    prev,       \* _prev_read_tool_names
    accepts,    \* whether the LLM can accept the messages it was sent
    attached,   \* its session is the one in the store
    body,       \* its decisions on the proposals it took
    at,         \* how many of them it has handled or is handling
    todo,       \* reading calls of this round still to be made
    held,       \* write proposals of this round
    current,    \* the proposal being handled and its outcome: none or one
    \* the session in the store
    exists, messages, pending, audit,
    \* titlis-api: pull requests registered by the agent
    registered,
    \* history and bounds: proposals the client has seen; the most approvals of
    \* each in one request; those one request both approved and rejected; calls
    \* a cancelled turn still had to answer; how often each call was sent to its
    \* tool; replies, turns
    shown, consented, contradicted, abandoned, sent, replies, turns

turnVars == <<pc, events, round, prev, accepts, attached, body, at, todo, held,
              current>>
sessionVars == <<exists, messages, pending, audit>>
pastVars == <<registered, shown, consented, contradicted, abandoned, sent,
              replies, turns>>
vars == <<turnVars, sessionVars, pastVars>>

AgentTypeOK ==
    /\ pc \in [Conns -> Places]
    /\ events \in [Conns -> SUBSET EventKinds]
    /\ round \in [Conns -> 0 .. MaxRounds - 1]
    /\ prev \in [Conns -> SUBSET ReadTools]
    /\ accepts \in [Conns -> BOOLEAN]
    /\ attached \in [Conns -> BOOLEAN]
    /\ body \in [Conns -> Seq(Decisions)]
    /\ at \in [Conns -> 0 .. MaxBody]
    /\ \A c \in Conns : at[c] <= Len(body[c]) /\ Len(body[c]) <= MaxBody
    /\ todo \in [Conns -> SUBSET Calls]
    /\ held \in [Conns -> SUBSET Proposals]
    /\ current \in [Conns -> SUBSET (Proposals \X Outcomes)]
    /\ exists \in BOOLEAN
    /\ messages \in Seq(Messages)
    /\ pending \subseteq Proposals
    /\ audit \subseteq ({"approved", "rejected", "tool_result", "tool_error"}
                        \X Calls)
    /\ registered \subseteq Calls
    /\ shown \subseteq Proposals
    /\ consented \in [Proposals -> Nat]
    /\ contradicted \subseteq Proposals
    /\ abandoned \subseteq Calls
    /\ sent \in [Calls -> Nat]
    /\ replies \in 0 .. MaxReplies
    /\ turns \in 0 .. MaxTurns
------------------------------------------------------------------------------
(* What the LLM provider requires of the messages (external): the answers  *)
(* to the tool calls of a message follow it, before anything else does.    *)

AnswersFollow(h, i, j) == \A k \in i + 1 .. j : h[k].kind = "tool"

AnswerTo(h, i, id) ==
    {j \in i + 1 .. Len(h) : h[j].kind = "tool" /\ AnswersFollow(h, i, j)
                             /\ h[j].id = id}

Unanswered(h) ==
    UNION {{id \in h[i].ids : AnswerTo(h, i, id) = {}} :
               i \in {n \in 1 .. Len(h) : h[n].kind = "calls"}}

Answerable(h) ==
    /\ Unanswered(h) = {}
    /\ \A j \in 1 .. Len(h) : h[j].kind = "tool" =>
           \E i \in 1 .. j - 1 : /\ h[i].kind = "calls" /\ h[j].id \in h[i].ids
                                 /\ AnswersFollow(h, i, j)
------------------------------------------------------------------------------
(* The vocabulary of the actions.                                          *)

UserMsg == [kind |-> "user"]
TextMsg == [kind |-> "text"]
ToolMsg(id, what) == [kind |-> "tool", id |-> id, says |-> what]

CallMayFail == "call" \in Faults
Busy(c) == pc[c] \notin {"idle", "closed"}

Goto(c, p) == pc' = [pc EXCEPT ![c] = p] /\ UNCHANGED events

End(c, what) ==
    /\ pc' = [pc EXCEPT ![c] = "closed"]
    /\ events' = [events EXCEPT ![c] = @ \cup what]

\* A turn writes to its own session, whether or not the store still has it.
Say(c, m) ==
    messages' = IF attached[c] THEN Append(messages, m) ELSE messages

Log(c, what, id) ==
    audit' = IF attached[c] THEN audit \cup {<<what, id>>} ELSE audit

\* messages = [system_prompt] + session.messages is what the LLM is sent: h, or
\* whatever is in a session that the store has no more.
SendMessages(c, h) ==
    \E yes \in BOOLEAN : /\ attached[c] => yes = Answerable(h)
                         /\ accepts' = [accepts EXCEPT ![c] = yes]

CallLlm(c, h) == Goto(c, "llm") /\ SendMessages(c, h)
------------------------------------------------------------------------------
(* Requests.                                                               *)

\* POST /agent/chat: get_or_create, and the user's message is appended.
Chat(c) ==
    /\ pc[c] = "idle" /\ turns < MaxTurns
    /\ "hasty" \in Faults \/ pending = {}
    /\ turns' = turns + 1
    /\ exists' = TRUE
    /\ messages' = Append(messages, UserMsg)
    /\ Goto(c, "build")
    /\ UNCHANGED <<round, prev, accepts, attached, body, at, todo, held, current,
                   pending, audit, registered, shown, consented, contradicted,
                   abandoned, sent, replies>>

\* Mutant of TakePending: the proposals stay where they are.
LookAtPending == UNCHANGED pending

\* session.pending_proposals = []
TakePending == pending' = {}

Approvals(b, id) == {i \in DOMAIN b : b[i] = <<id, TRUE>>}
Rejections(b, id) == {i \in DOMAIN b : b[i] = <<id, FALSE>>}

NamesEachOnce(b, ids) ==
    \A id \in ids : \E i \in DOMAIN b : \A j \in DOMAIN b : b[j][1] = id <=> j = i

\* POST /agent/{id}/tools/respond: the pending proposals are taken at once, and
\* the decisions b on them are handled in the order of the body, which may name
\* a proposal again.  Decisions on others are passed over.
Respond(c, b) ==
    /\ pc[c] = "idle" /\ turns < MaxTurns /\ exists
    /\ "hasty" \in Faults \/ (pending # {} /\ NamesEachOnce(b, pending))
    /\ turns' = turns + 1
    /\ body' = [body EXCEPT ![c] = b] /\ at' = [at EXCEPT ![c] = 0]
    /\ consented' = [id \in Proposals |->
                        IF Cardinality(Approvals(b, id)) > consented[id]
                        THEN Cardinality(Approvals(b, id)) ELSE consented[id]]
    /\ contradicted' = contradicted \cup
           {id \in pending : Approvals(b, id) # {} /\ Rejections(b, id) # {}}
    /\ TakePending
    /\ Goto(c, "build")
    /\ UNCHANGED <<round, prev, accepts, attached, todo, held, current, exists,
                   messages, audit, registered, shown, abandoned, sent, replies>>

\* _build_runner: MCP sessions that do not start only mean fewer tools.
BuildRunner(c) ==
    /\ pc[c] = "build"
    /\ IF body[c] = <<>> THEN CallLlm(c, messages)
       ELSE Goto(c, "decide") /\ UNCHANGED accepts
    /\ UNCHANGED <<round, prev, attached, body, at, todo, held, current,
                   sessionVars, pastVars>>

\* The next decision: audited, then executed or not.
Decide(c, d) ==
    /\ pc[c] = "decide" /\ at[c] < Len(body[c]) /\ d = body[c][at[c] + 1]
    /\ at' = [at EXCEPT ![c] = @ + 1]
    /\ Log(c, IF d[2] THEN "approved" ELSE "rejected", d[1])
    /\ current' = [current EXCEPT
                       ![c] = {<<d[1], IF d[2] THEN "called" ELSE "rejected">>}]
    /\ sent' = IF d[2] THEN [sent EXCEPT ![d[1]] = @ + 1] ELSE sent
    /\ Goto(c, IF d[2] THEN "exec" ELSE "tell")
    /\ UNCHANGED <<round, prev, accepts, attached, body, todo, held, exists,
                   messages, pending, registered, shown, consented,
                   contradicted, abandoned, replies, turns>>

\* The tool answers, or raises; a new pull request is registered first.
ExecuteWrite(c, id) ==
    /\ pc[c] = "exec" /\ current[c] = {<<id, "called">>}
    /\ \/ /\ Log(c, "tool_result", id)
          /\ current' = [current EXCEPT ![c] = {<<id, "result">>}]
          /\ \E isPr \in BOOLEAN :
                /\ isPr => id[1] = PrTool
                /\ Goto(c, IF isPr THEN "notify" ELSE "tell")
       \/ /\ CallMayFail
          /\ Log(c, "tool_error", id)
          /\ current' = [current EXCEPT ![c] = {<<id, "error">>}]
          /\ Goto(c, "tell")
    /\ UNCHANGED <<round, prev, accepts, attached, body, at, todo, held, exists,
                   messages, pending, pastVars>>

NotifyPrCreated(c, id) ==
    /\ pc[c] = "notify" /\ current[c] = {<<id, "result">>}
    /\ \/ registered' = registered \cup {id}
       \/ CallMayFail /\ UNCHANGED registered
    /\ Goto(c, "tell")
    /\ UNCHANGED <<round, prev, accepts, attached, body, at, todo, held, current,
                   sessionVars, shown, consented, contradicted, abandoned, sent,
                   replies, turns>>

\* Mutant of WhatItSaid: no answer of its own for a rejection.
ResultOrError(what) == IF what = "result" THEN "result" ELSE "error"

WhatItSaid(what) == what

\* The tool_result event is out; only then the answer joins the messages, and
\* after the last decision the LLM goes on.
Tell(c, id, what) ==
    /\ pc[c] = "tell" /\ what \in Answers /\ current[c] = {<<id, what>>}
    /\ Say(c, ToolMsg(id, WhatItSaid(what)))
    /\ current' = [current EXCEPT ![c] = {}]
    /\ IF at[c] = Len(body[c])
       THEN /\ SendMessages(c, messages')
            /\ pc' = [pc EXCEPT ![c] = "llm"]
       ELSE /\ UNCHANGED accepts
            /\ pc' = [pc EXCEPT ![c] = "decide"]
    /\ events' = [events EXCEPT ![c] = @ \cup {"tool_result"}]
    /\ UNCHANGED <<round, prev, attached, body, at, todo, held, exists, pending,
                   audit, pastVars>>
------------------------------------------------------------------------------
(* _llm_loop.                                                              *)

\* The provider fails, or refuses the messages: an error event.
LlmFails(c) ==
    /\ pc[c] = "llm"
    /\ CallMayFail \/ ~accepts[c]
    /\ End(c, {"error", "done"})
    /\ UNCHANGED <<round, prev, accepts, attached, body, at, todo, held, current,
                   sessionVars, pastVars>>

\* Out of scope, or an answer without text and calls: nothing is kept.
NothingToKeep(c) ==
    /\ pc[c] = "llm" /\ accepts[c]
    /\ \/ End(c, {"scope_rejected", "done"})
       \/ End(c, {"done"})
    /\ UNCHANGED <<round, prev, accepts, attached, body, at, todo, held, current,
                   sessionVars, pastVars>>

\* Text; also what a second round with the same reading tools is turned into.
Answer(c) ==
    /\ pc[c] = "llm" /\ accepts[c]
    /\ Say(c, TextMsg)
    /\ End(c, {"message", "done"})
    /\ UNCHANGED <<round, prev, accepts, attached, body, at, todo, held, current,
                   exists, pending, audit, pastVars>>

\* Mutant of RoundsLeft: one round too many.
OneMoreRound(c) == round[c] < MaxRounds

RoundsLeft(c) == round[c] + 1 < MaxRounds

\* After the calls of a round: reads remain; or write proposals become the
\* pending ones of the turn's session and the turn ends; or the next round
\* starts with messages h; or the rounds are used up, and the loop is left
\* without any event.
AfterCalls(c, h, reads, writes) ==
    \/ /\ reads # {}
       /\ Goto(c, "read")
       /\ UNCHANGED <<round, accepts, pending, shown>>
    \/ /\ reads = {} /\ writes # {}
       /\ pending' = IF attached[c] THEN writes ELSE pending
       /\ shown' = shown \cup writes
       /\ End(c, {"awaiting_approvals", "done"})
       /\ UNCHANGED <<round, accepts>>
    \/ /\ reads = {} /\ writes = {} /\ RoundsLeft(c)
       /\ round' = [round EXCEPT ![c] = @ + 1]
       /\ CallLlm(c, h)
       /\ UNCHANGED <<pending, shown>>
    \/ /\ reads = {} /\ writes = {} /\ ~RoundsLeft(c)
       /\ End(c, {})
       /\ UNCHANGED <<round, accepts, pending, shown>>

\* The LLM calls tools.  Only reading tools, the same as the round before:
\* see Answer.
CallTools(c, reads, writes) ==
    LET n == replies + 1
        r == reads \X {n}
        w == writes \X {n}
    IN /\ pc[c] = "llm" /\ accepts[c] /\ replies < MaxReplies
       /\ reads \cup writes # {}
       /\ writes = {} => reads # prev[c]
       /\ prev' = IF writes = {} THEN [prev EXCEPT ![c] = reads] ELSE prev
       /\ replies' = n
       /\ Say(c, [kind |-> "calls", ids |-> r \cup w])
       /\ todo' = [todo EXCEPT ![c] = r]
       /\ held' = [held EXCEPT ![c] = w]
       /\ AfterCalls(c, messages', r, w)
       /\ UNCHANGED <<attached, body, at, current, exists, audit, registered,
                      consented, contradicted, abandoned, sent, turns>>

\* Mutant of ReadAnswer: a failing read leaves no message.
OnlyResults(c, id, what) ==
    IF what = "result" THEN Say(c, ToolMsg(id, what)) ELSE UNCHANGED messages

ReadAnswer(c, id, what) == Say(c, ToolMsg(id, what))

ExecuteRead(c, id, what) ==
    /\ pc[c] = "read" /\ id \in todo[c]
    /\ what = "error" => CallMayFail
    /\ ReadAnswer(c, id, what)
    /\ Log(c, IF what = "result" THEN "tool_result" ELSE "tool_error", id)
    /\ todo' = [todo EXCEPT ![c] = @ \ {id}]
    /\ sent' = [sent EXCEPT ![id] = @ + 1]
    /\ AfterCalls(c, messages', todo'[c], held[c])
    /\ UNCHANGED <<prev, attached, body, at, held, current, exists, registered,
                   consented, contradicted, abandoned, replies, turns>>
------------------------------------------------------------------------------
(* Cancellation, expiry.                                                   *)

\* The tool calls the turn still has to answer.
Owing(c) == {body[c][i][1] : i \in at[c] + 1 .. Len(body[c])}
            \cup {d[1] : d \in current[c]} \cup todo[c] \cup held[c]

Abandon(c) ==
    abandoned' = IF attached[c] THEN abandoned \cup Owing(c) ELSE abandoned

\* keepalive_stream's wait_for cancels the turn wherever it awaits.
KeepaliveTimeout(c) ==
    /\ "cut" \in Faults /\ pc[c] \in Awaits
    /\ End(c, {"keepalive"})
    /\ Abandon(c)
    /\ UNCHANGED <<round, prev, accepts, attached, body, at, todo, held, current,
                   sessionVars, registered, shown, consented, contradicted, sent,
                   replies, turns>>

Reset(c) ==
    /\ pc' = [pc EXCEPT ![c] = "idle"]
    /\ events' = [events EXCEPT ![c] = {}]
    /\ round' = [round EXCEPT ![c] = 0]
    /\ prev' = [prev EXCEPT ![c] = {}]
    /\ accepts' = [accepts EXCEPT ![c] = TRUE]
    /\ attached' = [attached EXCEPT ![c] = TRUE]
    /\ body' = [body EXCEPT ![c] = <<>>]
    /\ at' = [at EXCEPT ![c] = 0]
    /\ todo' = [todo EXCEPT ![c] = {}]
    /\ held' = [held EXCEPT ![c] = {}]
    /\ current' = [current EXCEPT ![c] = {}]
    /\ UNCHANGED <<sessionVars, registered, shown, consented, contradicted, sent,
                   replies, turns>>

Release(c) == pc[c] = "closed" /\ Reset(c) /\ UNCHANGED abandoned

\* Also between an event and the statement after its yield ("tell").
Disconnect(c) ==
    /\ "leave" \in Faults /\ (pc[c] \in Awaits \/ pc[c] = "tell")
    /\ Reset(c) /\ Abandon(c)

\* cleanup_expired, by a chat of another session: by the time of the last
\* request, so also under a turn that still runs.
Expire ==
    /\ "expire" \in Faults /\ exists
    /\ exists' = FALSE
    /\ messages' = <<>>
    /\ pending' = {}
    /\ audit' = {}
    /\ abandoned' = {}
    /\ attached' = [c \in Conns |-> pc[c] = "idle"]
    /\ UNCHANGED <<pc, events, round, prev, accepts, body, at, todo, held,
                   current, registered, shown, consented, contradicted, sent,
                   replies, turns>>
------------------------------------------------------------------------------
Init ==
    /\ pc = [c \in Conns |-> "idle"]
    /\ events = [c \in Conns |-> {}]
    /\ round = [c \in Conns |-> 0]
    /\ prev = [c \in Conns |-> {}]
    /\ accepts = [c \in Conns |-> TRUE]
    /\ attached = [c \in Conns |-> TRUE]
    /\ body = [c \in Conns |-> <<>>]
    /\ at = [c \in Conns |-> 0]
    /\ todo = [c \in Conns |-> {}]
    /\ held = [c \in Conns |-> {}]
    /\ current = [c \in Conns |-> {}]
    /\ exists = FALSE
    /\ messages = <<>>
    /\ pending = {}
    /\ audit = {}
    /\ registered = {}
    /\ shown = {}
    /\ consented = [id \in Proposals |-> 0]
    /\ contradicted = {}
    /\ abandoned = {}
    /\ sent = [id \in Calls |-> 0]
    /\ replies = 0
    /\ turns = 0

Step(c) ==
    \/ BuildRunner(c)
    \/ \E d \in Decisions : Decide(c, d)
    \/ \E d \in current[c] : \/ ExecuteWrite(c, d[1])
                             \/ NotifyPrCreated(c, d[1])
                             \/ Tell(c, d[1], d[2])
    \/ LlmFails(c) \/ NothingToKeep(c) \/ Answer(c)
    \/ \E reads \in SUBSET ReadTools, writes \in SUBSET WriteTools :
           CallTools(c, reads, writes)
    \/ \E id \in todo[c], what \in {"result", "error"} :
           ExecuteRead(c, id, what)

Next ==
    \/ \E c \in Conns :
          \/ Chat(c)
          \/ \E n \in 0 .. MaxBody : \E b \in [1 .. n -> pending \X BOOLEAN] :
                 Respond(c, b)
          \/ Step(c)
          \/ KeepaliveTimeout(c) \/ Release(c) \/ Disconnect(c)
    \/ Expire

Spec == Init /\ [][Next]_vars
------------------------------------------------------------------------------
(* Properties.                                                             *)

IsWrite(id) == id[1] \in WriteTools

\* A writing tool is called at most as often as one single request approved its
\* proposal: decisions repeated by another request, concurrent ones, cancelled
\* turns and an expired session add no call, also where a request names a
\* proposal several times.  Only such calls are registered.
WritesWereApproved ==
    \A id \in Proposals :
        /\ sent[id] <= consented[id]
        /\ id \in registered => sent[id] > 0

\* The conversation does not lie about writing tools: a call said to be
\* rejected was never made, unless one request both rejected and approved it;
\* an answered one was made; and the audit log holds the decision of both.
HistoryTellsTruth ==
    \A n \in 1 .. Len(messages) :
        LET m == messages[n]
        IN m.kind = "tool" /\ IsWrite(m.id) =>
               IF m.says = "rejected"
               THEN /\ sent[m.id] = 0 \/ m.id \in contradicted
                    /\ <<"rejected", m.id>> \in audit
               ELSE sent[m.id] > 0 /\ <<"approved", m.id>> \in audit

\* The LLM refuses the conversation (a tool call has no answer) in no turn, and
\* in no later one, unless a turn was cancelled that still had calls to answer:
\* a cancellation anywhere else does no harm.
NeverRefused ==
    abandoned = {} => \A c \in Conns : pc[c] = "llm" => accepts[c]

\* Between turns, the unanswered calls of the conversation are the proposals
\* the user can still decide on, and exactly those a cancelled turn owed: a
\* cancellation in a tool call, or after the event that reports it, loses the
\* answers that were still to be given and no other, and nothing later makes up
\* for them.
UnansweredArePending ==
    (\A c \in Conns : ~Busy(c)) => Unanswered(messages) = pending \cup abandoned
=============================================================================
