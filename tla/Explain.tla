------------------------------ MODULE Explain ------------------------------
(***************************************************************************)
(* One POST /explain: the answer of the LLM on its way to the browser.     *)
(* Four generators are stacked on each other and pulled from the outside:  *)
(*                                                                         *)
(*   generate()            looks whether the client is still there         *)
(*   keepalive_stream()    waits at most 15 s for the next event           *)
(*   _inner()              turns text into events and counts the request   *)
(*   LLMService.chat_stream()  calls the LLM, and again when it fails      *)
(*                                                                         *)
(* wait_for cancels what it waits for, so silence ends the two inner       *)
(* generators wherever they are; after a comment the stream is over.       *)
(* Failures: the LLM fails before or within its answer, silence, a client  *)
(* that leaves.  Left out: prompts, retrieval's content, empty deltas.     *)
(***************************************************************************)
EXTENDS Naturals, Sequences

CONSTANTS
    MaxAttempts,  \* range(3) of chat_stream
    MaxChunks,    \* bound: pieces of one answer
    Amounts,      \* token amounts a request may name
    Faults        \* what may go wrong, see StreamFaults

StreamFaults == {"call",    \* the LLM fails
                 "gap",     \* nothing happens for the keepalive interval
                 "leave"}   \* the client goes away

ASSUME ExplainAssumption ==
    /\ MaxAttempts \in Nat \ {0}
    /\ MaxChunks \in Nat
    /\ Amounts \subseteq Nat
    /\ Faults \subseteq StreamFaults

Attempts == 0 .. MaxAttempts - 1

\* What _inner yields.  A piece of text is known by the attempt that made it
\* and its place in that answer.
Chunk(a, n) == [kind |-> "chunk", attempt |-> a, no |-> n]
Last(k)     == [kind |-> k, attempt |-> 0, no |-> 0]
Ends        == {"done", "error", "quota_exceeded"}
Chunks      == {Chunk(a, n) : a \in Attempts, n \in 1 .. MaxChunks}
Events      == Chunks \cup {Last(k) : k \in Ends}

Statuses == {"success", "error", "quota_exceeded"}

\* Sources: the awaits of chat_stream; "start": it has not begun; "event":
\* _inner has yielded; "over": for the last time; "comment": it was cancelled.
Sources == {"connect", "chunks", "backoff"}
Places  == Sources \cup {"retrieve", "start", "event", "over", "comment", "ended"}

VARIABLES
    metered,   \* whether the tenant has a monthly_token_budget
    used,      \* tokens_used_month
    budget,    \* monthly_token_budget
    pc,        \* where the stack of generators stands
    attempt,   \* attempt of chat_stream
    got,       \* pieces of this attempt's answer that were yielded
    hand,      \* the event on its way out: none or one
    client,    \* the events the client was sent
    comment,   \* whether it was sent a keepalive comment
    gone,      \* whether it has left
    status,    \* status of _inner
    counted,   \* how often ai_requests_total was increased
    calls,     \* history: calls of the LLM, up to one too many
    whole      \* history: the LLM has come to the end of its answer

requestVars == <<metered, used, budget>>
sourceVars  == <<attempt, got, status, calls, whole>>
clientVars  == <<client, comment, gone>>
vars == <<requestVars, pc, sourceVars, hand, clientVars, counted>>

ExplainTypeOK ==
    /\ metered \in BOOLEAN /\ used \in Amounts /\ budget \in Amounts
    /\ pc \in Places
    /\ attempt \in Attempts
    /\ got \in 0 .. MaxChunks
    /\ hand \in {<<>>} \cup {<<e>> : e \in Events}
    /\ client \in Seq(Events)
    /\ comment \in BOOLEAN /\ gone \in BOOLEAN /\ whole \in BOOLEAN
    /\ status \in Statuses
    /\ counted \in Nat
    /\ calls \in Nat

Init ==
    /\ metered \in BOOLEAN /\ used \in Amounts /\ budget \in Amounts
    /\ pc = "retrieve"
    /\ attempt = 0 /\ got = 0
    /\ hand = <<>> /\ client = <<>>
    /\ comment = FALSE /\ gone = FALSE /\ whole = FALSE
    /\ status = "success"
    /\ counted = 0 /\ calls = 0
-----------------------------------------------------------------------------
(* LLMService.chat_stream, seen through _inner.                            *)

\* _inner yields e: wait_for returns it to keepalive_stream.
Yield(e) == pc' = "event" /\ hand' = <<e>>

\* _retrieve_chunks: an embedding and a search, whose failure only means a
\* prompt without documents.
Retrieve ==
    /\ pc = "retrieve"
    /\ pc' = "start"
    /\ UNCHANGED <<requestVars, sourceVars, hand, clientVars, counted>>

QuotaPassed   == metered /\ used > budget             \* mutant
QuotaExceeded == metered /\ used >= budget

CheckQuota ==
    /\ pc = "start"
    /\ IF QuotaExceeded
       THEN Yield(Last("quota_exceeded")) /\ status' = "quota_exceeded"
       ELSE pc' = "connect" /\ UNCHANGED <<hand, status>>
    /\ UNCHANGED <<requestVars, attempt, got, calls, whole, clientVars,
                   counted>>

\* acompletion was called.
Called == calls' = IF calls > MaxAttempts THEN calls ELSE calls + 1

\* It returned a stream.
Connect ==
    /\ pc = "connect"
    /\ pc' = "chunks"
    /\ Called
    /\ UNCHANGED <<requestVars, attempt, got, status, whole, hand, clientVars,
                   counted>>

NextChunk ==
    /\ pc = "chunks" /\ got < MaxChunks
    /\ got' = got + 1
    /\ Yield(Chunk(attempt, got + 1))
    /\ UNCHANGED <<requestVars, attempt, status, calls, whole, clientVars,
                   counted>>

EndOfAnswer ==
    /\ pc = "chunks"
    /\ whole' = TRUE
    /\ Yield(Last("done"))
    /\ UNCHANGED <<requestVars, attempt, got, status, calls, clientVars,
                   counted>>

SwallowIt == Yield(Last("done")) /\ UNCHANGED status  \* mutant

\* What becomes of the last attempt's exception: chat_stream raises it and
\* _inner reports it.
GiveUp == Yield(Last("error")) /\ status' = "error"

OnceMore == attempt < MaxAttempts                     \* mutant
MayRetry == attempt < MaxAttempts - 1

\* The LLM fails, before its answer or within it.
LlmFails(retryable) ==
    /\ "call" \in Faults
    /\ pc \in {"connect", "chunks"}
    /\ IF pc = "connect" THEN Called ELSE UNCHANGED calls
    /\ IF retryable /\ MayRetry
       THEN pc' = "backoff" /\ UNCHANGED <<hand, status>>
       ELSE GiveUp
    /\ UNCHANGED <<requestVars, attempt, got, whole, clientVars, counted>>

SameAttempt == UNCHANGED attempt                      \* mutant
NextAttempt == attempt' = attempt + 1

\* The delay is over: the next attempt begins its answer anew.
Wake ==
    /\ pc = "backoff"
    /\ pc' = "connect"
    /\ NextAttempt
    /\ got' = 0
    /\ UNCHANGED <<requestVars, status, calls, whole, hand, clientVars,
                   counted>>
-----------------------------------------------------------------------------
(* generate() and keepalive_stream().                                      *)

CountDone == counted' = IF status = "success"         \* mutant
                        THEN counted + 1 ELSE counted

\* The finally block of _inner.
Count == counted' = counted + 1

\* The event goes out if the client is still there; if not, generate()
\* breaks off and the generators it leaves are closed.
Deliver ==
    /\ pc = "event"
    /\ IF gone
       THEN pc' = "ended" /\ Count /\ UNCHANGED <<client, hand>>
       ELSE /\ client' = client \o hand
            /\ pc' = IF hand[1].kind \in Ends THEN "over" ELSE "chunks"
            /\ hand' = <<>>
            /\ UNCHANGED counted
    /\ UNCHANGED <<requestVars, sourceVars, comment, gone>>

AlsoDone  == Yield(Last("done"))                      \* mutant
AfterLast == pc' = "ended" /\ UNCHANGED hand

\* _inner runs to its end: StopAsyncIteration.
Finish ==
    /\ pc = "over"
    /\ AfterLast
    /\ Count
    /\ UNCHANGED <<requestVars, sourceVars, clientVars>>

\* TimeoutError: wait_for has cancelled the generators below it.
Silence ==
    /\ "gap" \in Faults
    /\ pc \in Sources
    /\ pc' = "comment"
    /\ Count
    /\ UNCHANGED <<requestVars, sourceVars, hand, clientVars>>

\* The comment, and then StopAsyncIteration from a generator that is closed.
Comment ==
    /\ pc = "comment"
    /\ pc' = "ended"
    /\ comment' = ~gone
    /\ UNCHANGED <<requestVars, sourceVars, hand, client, gone, counted>>

Leave ==
    /\ "leave" \in Faults
    /\ pc # "ended" /\ ~gone
    /\ gone' = TRUE
    /\ UNCHANGED <<requestVars, pc, sourceVars, hand, client, comment,
                   counted>>

\* The server cancels the response of a client that has left.  A generator
\* that has not begun has no finally block to run.
Abandon ==
    /\ gone /\ pc \notin {"retrieve", "comment", "ended"}
    /\ pc' = "ended"
    /\ IF pc = "start" THEN UNCHANGED counted ELSE Count
    /\ UNCHANGED <<requestVars, sourceVars, hand, clientVars>>

Service ==
    \/ Retrieve \/ CheckQuota \/ Connect \/ NextChunk \/ EndOfAnswer
    \/ \E retryable \in BOOLEAN : LlmFails(retryable)
    \/ Wake \/ Deliver \/ Finish \/ Comment \/ Abandon

Next == Service \/ Silence \/ Leave

Spec == Init /\ [][Next]_vars

\* The event loop serves the request; acompletion has a timeout.
LiveSpec == Spec /\ WF_vars(Service)
-----------------------------------------------------------------------------
(* Properties.                                                             *)

\* The text the client has is made of beginnings of answers, one attempt
\* after another, without a gap and without a piece twice from one attempt;
\* and "done" follows an answer that the LLM finished and the client has to
\* its last piece, whatever failed before (chat_stream's retry).
AnswerIsWhole ==
    \A i \in 1 .. Len(client) :
        /\ client[i].kind = "chunk" =>
              IF client[i].no > 1
              THEN i > 1 /\ client[i - 1] =
                              Chunk(client[i].attempt, client[i].no - 1)
              ELSE i > 1 => client[i - 1].attempt < client[i].attempt
        /\ client[i].kind = "done" =>
              /\ whole
              /\ got > 0 => i > 1 /\ client[i - 1] = Chunk(attempt, got)

\* A stream has one last word: after done, error or quota_exceeded comes
\* nothing.  It is missing only if the stream was cut by silence or the client
\* left, and then no last word was sent before either.
LastWord ==
    /\ \A i \in 1 .. Len(client) :
           client[i].kind \in Ends => i = Len(client)
    /\ pc = "ended" /\ ~comment /\ ~gone =>
           client # <<>> /\ client[Len(client)].kind \in Ends
    /\ comment => \A i \in 1 .. Len(client) : client[i].kind = "chunk"

\* A tenant whose budget is spent, a budget of zero included, gets
\* quota_exceeded as the only event and costs no call; others cost at most
\* MaxAttempts calls.
SpentBudgetIsFree ==
    /\ metered /\ used >= budget =>
           calls = 0 /\ \A i \in 1 .. Len(client) :
                            client[i].kind = "quota_exceeded"
    /\ calls <= MaxAttempts

\* Every request is counted once in ai_requests_total, however it ends, unless
\* the client left before it began; and never as a success if the client was
\* told of a failure, nor the other way.
CountedOnce ==
    /\ counted <= 1
    /\ pc \in {"ended", "comment"} /\ counted = 0 =>
           gone /\ calls = 0 /\ client = <<>>
    /\ client # <<>> =>
           /\ client[Len(client)].kind = "done" => status = "success"
           /\ client[Len(client)].kind \in {"error", "quota_exceeded"} =>
                  status = client[Len(client)].kind

\* Every stream comes to its end, whatever fails in it.
ExplainEnds == <>(pc = "ended")
=============================================================================
