------------------------- MODULE AgentSession_proofs -------------------------
(***************************************************************************)
(* Proofs about AgentSession, for every set of tools and any bounds.       *)
(*                                                                         *)
(* A proposal is held by the turn whose LLM made it, then pending in the   *)
(* session, then in the body of the one request that took it; it has one   *)
(* owner at a time.  So for any number of concurrent requests, and         *)
(* whatever is cut, repeated or expires, a writing tool is called at most  *)
(* as often as one request approved it, and the conversation tells the     *)
(* truth about it.  With one request at a time, the calls the conversation *)
(* has no answer to are those the turn, or the user, still has to answer,  *)
(* and those a cancelled turn owed; without these the LLM provider never   *)
(* refuses it.                                                             *)
(***************************************************************************)
EXTENDS AgentSession, SequenceTheorems, FiniteSetTheorems, TLAPS

\* The decisions of c that are not handled yet and approve id.
Left(c, id) == {i \in at[c] + 1 .. Len(body[c]) : body[c][i] = <<id, TRUE>>}

Owes(c, id) == Left(c, id) # {}

SentInv ==
    \A id \in Proposals : /\ sent[id] <= consented[id]
                          /\ sent[id] > 0 => id \in shown
                          /\ id \in registered => sent[id] > 0

PendingInv ==
    \A id \in pending : /\ sent[id] = 0 /\ id \in shown
                        /\ \A c \in Conns : ~Owes(c, id)

OwedInv ==
    \A c \in Conns, id \in Proposals : Owes(c, id) =>
        /\ sent[id] + Cardinality(Left(c, id)) <= consented[id]
        /\ id \in shown
        /\ \A d \in Conns : Owes(d, id) => d = c

HeldInv ==
    \A c \in Conns : pc[c] = "read" => \A id \in held[c] :
        /\ id \notin shown
        /\ \A d \in Conns : pc[d] = "read" /\ id \in held[d] => d = c

CurrentInv ==
    \A c \in Conns : \A d \in current[c] : d[2] # "rejected" => sent[d[1]] > 0

\* The LLM numbers its calls: an id of a later reply is unknown everywhere.
FreshInv ==
    \A id \in Proposals : id[2] > replies =>
        id \notin shown /\ \A c \in Conns : id \notin held[c]

ReadInv == \A c \in Conns : todo[c] \cap Proposals = {}

OwnerInv == /\ SentInv /\ PendingInv /\ OwedInv /\ HeldInv /\ CurrentInv
            /\ FreshInv /\ ReadInv

AInv == AgentTypeOK /\ OwnerInv

\* The ways a request goes on keep its types.
LEMMA MovesType ==
    ASSUME pc \in [Conns -> Places], events \in [Conns -> SUBSET EventKinds],
           NEW c \in Conns, NEW p \in Places, NEW what \in SUBSET EventKinds
    PROVE  /\ Goto(c, p) \/ End(c, what) =>
                  /\ pc' \in [Conns -> Places]
                  /\ events' \in [Conns -> SUBSET EventKinds]
<1>1. Goto(c, p) => /\ pc' \in [Conns -> Places]
                    /\ events' \in [Conns -> SUBSET EventKinds]
  BY DEF Goto
<1>2. End(c, what) => /\ pc' \in [Conns -> Places]
                      /\ events' \in [Conns -> SUBSET EventKinds]
  BY DEF End, Places
<1> QED BY <1>1, <1>2

\* What a tool says is a message of the conversation.
LEMMA ToolMsgType ==
    ASSUME NEW id \in Calls, NEW what \in Answers
    PROVE  ToolMsg(id, what) \in Messages
BY DEF ToolMsg, Messages

LEMMA ProposalIsCall == Proposals \subseteq Calls
BY DEF Proposals, Calls, Tools

\* Every step keeps what a turn writes within its session.
LEMMA SayType ==
    ASSUME AgentTypeOK, NEW c \in Conns, NEW m \in Messages, Say(c, m)
    PROVE  messages' \in Seq(Messages)
BY DEF Say, AgentTypeOK

LEMMA LogType ==
    ASSUME AgentTypeOK, NEW c \in Conns, NEW id \in Calls,
           NEW what \in {"approved", "rejected", "tool_result", "tool_error"},
           Log(c, what, id)
    PROVE  audit' \subseteq ({"approved", "rejected", "tool_result", "tool_error"}
                             \X Calls)
BY DEF Log, AgentTypeOK

LEMMA SendType ==
    ASSUME AgentTypeOK, NEW c \in Conns, NEW h, SendMessages(c, h)
    PROVE  accepts' \in [Conns -> BOOLEAN]
BY DEF SendMessages, AgentTypeOK

\* Places in a sequence can be counted.
LEMMA Countable ==
    ASSUME NEW n \in Nat, NEW S, S \subseteq 1 .. n
    PROVE  IsFiniteSet(S) /\ Cardinality(S) \in Nat
<1>1. IsFiniteSet(1 .. n)
  BY FS_Interval
<1>2. IsFiniteSet(S)
  BY <1>1, FS_Subset
<1> QED BY <1>2, FS_CardinalityType

\* The decisions of a request are a sequence of them.
LEMMA BodyType ==
    ASSUME AgentTypeOK, NEW n \in 0 .. MaxBody,
           NEW b \in [1 .. n -> pending \X BOOLEAN]
    PROVE  /\ b \in Seq(Decisions) /\ Len(b) = n /\ DOMAIN b = 1 .. n
           /\ \A i \in 1 .. n : b[i][1] \in pending
<1>1. pending \X BOOLEAN \subseteq Decisions
  BY DEF AgentTypeOK, Decisions
<1>2. n \in Nat
  BY AgentAssumption
<1>3. b \in [1 .. n -> Decisions]
  BY <1>1
<1>4. b \in Seq(Decisions)
  BY <1>2, <1>3, SeqDef
<1>5. Len(b) = n
  BY <1>2, <1>3, <1>4, LenProperties
<1> QED BY <1>3, <1>4, <1>5

\* The requests keep the types.
LEMMA RequestType ==
    ASSUME AgentTypeOK, NEW c \in Conns,
           \/ Chat(c)
           \/ \E n \in 0 .. MaxBody : \E b \in [1 .. n -> pending \X BOOLEAN] :
                  Respond(c, b)
    PROVE  AgentTypeOK'
<1>1. CASE Chat(c)
  <2>1. UserMsg \in Messages
    BY DEF UserMsg, Messages
  <2>2. /\ pc' \in [Conns -> Places]
        /\ events' \in [Conns -> SUBSET EventKinds]
    BY <1>1, MovesType DEF Chat, AgentTypeOK, Places, Awaits
  <2>3. turns' \in 0 .. MaxTurns
    BY <1>1, AgentAssumption DEF Chat, AgentTypeOK
  <2>4. messages' \in Seq(Messages)
    BY <1>1, <2>1 DEF Chat, AgentTypeOK
  <2> QED BY <1>1, <2>2, <2>3, <2>4 DEF Chat, AgentTypeOK
<1>2. ASSUME NEW n \in 0 .. MaxBody, NEW b \in [1 .. n -> pending \X BOOLEAN],
             Respond(c, b)
      PROVE  AgentTypeOK'
  <2>1. /\ pc' \in [Conns -> Places]
        /\ events' \in [Conns -> SUBSET EventKinds]
    BY <1>2, MovesType DEF Respond, AgentTypeOK, Places, Awaits
  <2>2. turns' \in 0 .. MaxTurns
    BY <1>2, AgentAssumption DEF Respond, AgentTypeOK
  <2>3. /\ pending' \subseteq Proposals
        /\ contradicted' \subseteq Proposals
    BY <1>2 DEF Respond, TakePending, AgentTypeOK
  <2>4. /\ b \in Seq(Decisions) /\ Len(b) = n /\ DOMAIN b = 1 .. n
        /\ n \in Nat /\ n <= MaxBody
    BY BodyType, AgentAssumption
  <2>5. consented' \in [Proposals -> Nat]
    <3>1. ASSUME NEW id \in Proposals
          PROVE  Cardinality(Approvals(b, id)) \in Nat
      <4>1. Approvals(b, id) \subseteq 1 .. n
        BY <2>4 DEF Approvals
      <4> QED BY <2>4, <4>1, Countable
    <3> QED BY <1>2, <3>1 DEF Respond, AgentTypeOK
  <2>6. /\ body' \in [Conns -> Seq(Decisions)] /\ at' \in [Conns -> 0 .. MaxBody]
        /\ \A e \in Conns : body'[e] = IF e = c THEN b ELSE body[e]
        /\ \A e \in Conns : at'[e] = IF e = c THEN 0 ELSE at[e]
    BY <1>2, <2>4, AgentAssumption DEF Respond, AgentTypeOK
  <2>7. \A e \in Conns : at'[e] <= Len(body'[e]) /\ Len(body'[e]) <= MaxBody
    <3>1. n >= 0 /\ \A e \in Conns : at[e] <= Len(body[e]) /\ Len(body[e]) <= MaxBody
      BY <2>4 DEF AgentTypeOK
    <3> QED BY <2>4, <2>6, <3>1
  <2> QED BY <1>2, <2>1, <2>2, <2>3, <2>5, <2>6, <2>7
          DEF Respond, AgentTypeOK
<1> QED BY <1>1, <1>2

\* So do the steps around the decisions.
LEMMA BuildType ==
    ASSUME AgentTypeOK, NEW c \in Conns, BuildRunner(c)
    PROVE  AgentTypeOK'
<1>1. /\ pc' \in [Conns -> Places]
      /\ events' \in [Conns -> SUBSET EventKinds]
  BY MovesType DEF BuildRunner, CallLlm, AgentTypeOK, Places, Awaits
<1>2. accepts' \in [Conns -> BOOLEAN]
  BY SendType DEF BuildRunner, CallLlm, AgentTypeOK
<1> QED BY <1>1, <1>2 DEF BuildRunner, AgentTypeOK, sessionVars, pastVars

LEMMA DecideType ==
    ASSUME AgentTypeOK, NEW c \in Conns, NEW d \in Decisions, Decide(c, d)
    PROVE  AgentTypeOK'
<1>1. d[1] \in Proposals /\ d[1] \in Calls /\ d[2] \in BOOLEAN
  BY ProposalIsCall DEF Decisions
<1>2. /\ pc' \in [Conns -> Places]
      /\ events' \in [Conns -> SUBSET EventKinds]
  BY MovesType DEF Decide, AgentTypeOK, Places, Awaits
<1>3. audit' \subseteq ({"approved", "rejected", "tool_result", "tool_error"}
                         \X Calls)
  BY <1>1, LogType DEF Decide
<1>4. /\ at' \in [Conns -> 0 .. MaxBody] /\ body' = body
      /\ \A e \in Conns : at'[e] <= Len(body'[e]) /\ Len(body'[e]) <= MaxBody
  <2>1. /\ at' = [at EXCEPT ![c] = @ + 1] /\ body' = body
        /\ at[c] < Len(body[c])
    BY DEF Decide
  <2>2. \A e \in Conns : /\ body[e] \in Seq(Decisions) /\ at[e] \in Nat
                         /\ at[e] <= Len(body[e]) /\ Len(body[e]) <= MaxBody
    BY AgentAssumption DEF AgentTypeOK
  <2>3. \A e \in Conns : Len(body[e]) \in Nat
    BY <2>2, LenProperties
  <2>4. at \in [Conns -> 0 .. MaxBody]
    BY DEF AgentTypeOK
  <2>5. \A e \in Conns : at'[e] = IF e = c THEN at[c] + 1 ELSE at[e]
    BY <2>1, <2>4
  <2>6. at[c] + 1 \in 0 .. MaxBody /\ at[c] + 1 <= Len(body[c])
    BY <2>1, <2>2, <2>3, AgentAssumption
  <2> QED BY <2>1, <2>2, <2>4, <2>5, <2>6
<1>5. current' \in [Conns -> SUBSET (Proposals \X Outcomes)]
  BY <1>1 DEF Decide, AgentTypeOK, Outcomes, Answers
<1>6. sent' \in [Calls -> Nat]
  BY <1>1 DEF Decide, AgentTypeOK
<1> QED BY <1>2, <1>3, <1>4, <1>5, <1>6 DEF Decide, AgentTypeOK

\* The proposal that is handled.
LEMMA CurrentType ==
    ASSUME AgentTypeOK, NEW c \in Conns, NEW d \in current[c]
    PROVE  /\ d = <<d[1], d[2]>> /\ d[1] \in Proposals /\ d[1] \in Calls
           /\ d[2] \in Outcomes
<1>1. d \in Proposals \X Outcomes
  BY DEF AgentTypeOK
<1> QED BY <1>1, ProposalIsCall

LEMMA HandleType ==
    ASSUME AgentTypeOK, NEW c \in Conns, NEW d \in current[c],
           \/ ExecuteWrite(c, d[1])
           \/ NotifyPrCreated(c, d[1])
           \/ Tell(c, d[1], d[2])
    PROVE  AgentTypeOK'
<1>0. d[1] \in Proposals /\ d[1] \in Calls /\ d[2] \in Outcomes
  BY CurrentType
<1>1. CASE ExecuteWrite(c, d[1])
  <2>2. /\ pc' \in [Conns -> Places]
        /\ events' \in [Conns -> SUBSET EventKinds]
    BY <1>1, MovesType DEF ExecuteWrite, AgentTypeOK, Places, Awaits
  <2>3. audit' \subseteq ({"approved", "rejected", "tool_result", "tool_error"}
                           \X Calls)
    <3>1. \/ Log(c, "tool_result", d[1]) \/ Log(c, "tool_error", d[1])
      BY <1>1 DEF ExecuteWrite
    <3> QED BY <1>0, <3>1, LogType
  <2>4. current' \in [Conns -> SUBSET (Proposals \X Outcomes)]
    <3>1. \E what \in {"result", "error"} :
              current' = [current EXCEPT ![c] = {<<d[1], what>>}]
      BY <1>1 DEF ExecuteWrite
    <3>2. \A what \in {"result", "error"} :
              {<<d[1], what>>} \in SUBSET (Proposals \X Outcomes)
      BY <1>0 DEF Outcomes, Answers
    <3> QED BY <3>1, <3>2 DEF AgentTypeOK
  <2> QED BY <1>1, <2>2, <2>3, <2>4 DEF ExecuteWrite, AgentTypeOK, pastVars
<1>2. CASE NotifyPrCreated(c, d[1])
  <2>2. /\ pc' \in [Conns -> Places]
        /\ events' \in [Conns -> SUBSET EventKinds]
    BY <1>2, MovesType DEF NotifyPrCreated, AgentTypeOK, Places
  <2>3. registered' \subseteq Calls
    BY <1>0, <1>2 DEF NotifyPrCreated, AgentTypeOK
  <2> QED BY <1>2, <2>2, <2>3 DEF NotifyPrCreated, AgentTypeOK, sessionVars
<1>3. CASE Tell(c, d[1], d[2])
  <2>1. current' \in [Conns -> SUBSET (Proposals \X Outcomes)]
    BY <1>3 DEF Tell, AgentTypeOK
  <2>2. messages' \in Seq(Messages)
    <3>1. ToolMsg(d[1], d[2]) \in Messages
      BY <1>0, <1>3, ToolMsgType DEF Tell
    <3> QED BY <1>3, <3>1, SayType DEF Tell, WhatItSaid
  <2>3. /\ pc' \in [Conns -> Places]
        /\ events' \in [Conns -> SUBSET EventKinds]
    BY <1>3 DEF Tell, AgentTypeOK, Places, Awaits, EventKinds
  <2>4. accepts' \in [Conns -> BOOLEAN]
    BY <1>3, SendType DEF Tell, AgentTypeOK
  <2> QED BY <1>3, <2>1, <2>2, <2>3, <2>4 DEF Tell, AgentTypeOK, pastVars
<1> QED BY <1>1, <1>2, <1>3

LEMMA AfterCallsType ==
    ASSUME AgentTypeOK, NEW c \in Conns, NEW h, NEW reads,
           NEW writes \in SUBSET Proposals, AfterCalls(c, h, reads, writes)
    PROVE  /\ pc' \in [Conns -> Places]
           /\ events' \in [Conns -> SUBSET EventKinds]
           /\ round' \in [Conns -> 0 .. MaxRounds - 1]
           /\ accepts' \in [Conns -> BOOLEAN]
           /\ pending' \subseteq Proposals
           /\ shown' \subseteq Proposals
<1>1. /\ pc' \in [Conns -> Places]
      /\ events' \in [Conns -> SUBSET EventKinds]
  BY MovesType DEF AfterCalls, CallLlm, AgentTypeOK, Places, Awaits, EventKinds
<1>2. round' \in [Conns -> 0 .. MaxRounds - 1]
  <2>1. round[c] \in 0 .. MaxRounds - 1 /\ MaxRounds \in Nat
    BY AgentAssumption DEF AgentTypeOK
  <2>2. RoundsLeft(c) => round[c] + 1 \in 0 .. MaxRounds - 1
    BY <2>1 DEF RoundsLeft
  <2> QED BY <2>2 DEF AfterCalls, AgentTypeOK
<1>3. accepts' \in [Conns -> BOOLEAN]
  BY SendType DEF AfterCalls, CallLlm, AgentTypeOK
<1>4. pending' \subseteq Proposals /\ shown' \subseteq Proposals
  BY DEF AfterCalls, AgentTypeOK
<1> QED BY <1>1, <1>2, <1>3, <1>4

\* So do the steps of _llm_loop.
LEMMA LoopType ==
    ASSUME AgentTypeOK, NEW c \in Conns,
           \/ LlmFails(c) \/ NothingToKeep(c) \/ Answer(c)
           \/ \E reads \in SUBSET ReadTools, writes \in SUBSET WriteTools :
                  CallTools(c, reads, writes)
           \/ \E id \in todo[c], what \in {"result", "error"} :
                  ExecuteRead(c, id, what)
    PROVE  AgentTypeOK'
<1>1. CASE LlmFails(c) \/ NothingToKeep(c)
  <2>1. /\ pc' \in [Conns -> Places]
        /\ events' \in [Conns -> SUBSET EventKinds]
    BY <1>1, MovesType
       DEF LlmFails, NothingToKeep, AgentTypeOK, Places, EventKinds
  <2> QED BY <1>1, <2>1
          DEF LlmFails, NothingToKeep, AgentTypeOK, sessionVars, pastVars
<1>2. CASE Answer(c)
  <2>1. TextMsg \in Messages
    BY DEF TextMsg, Messages
  <2>2. messages' \in Seq(Messages)
    BY <1>2, <2>1, SayType DEF Answer
  <2>3. /\ pc' \in [Conns -> Places]
        /\ events' \in [Conns -> SUBSET EventKinds]
    BY <1>2, MovesType DEF Answer, AgentTypeOK, Places, EventKinds
  <2> QED BY <1>2, <2>2, <2>3 DEF Answer, AgentTypeOK, pastVars
<1>3. ASSUME NEW reads \in SUBSET ReadTools, NEW writes \in SUBSET WriteTools,
             CallTools(c, reads, writes)
      PROVE  AgentTypeOK'
  <2> DEFINE n == replies + 1
             r == reads \X {n}
             w == writes \X {n}
  <2>1. n \in 1 .. MaxReplies
    BY <1>3, AgentAssumption DEF CallTools, AgentTypeOK
  <2>2. r \subseteq Calls /\ w \subseteq Proposals
    BY <2>1 DEF Calls, Proposals, Tools
  <2>3. messages' \in Seq(Messages)
    <3>1. r \cup w \in SUBSET Calls
      BY <2>2, ProposalIsCall
    <3>2. [kind |-> "calls", ids |-> r \cup w] \in Messages
      BY <3>1 DEF Messages
    <3> QED BY <1>3, <3>2, SayType DEF CallTools
  <2>4. AfterCalls(c, messages', r, w)
    BY <1>3 DEF CallTools
  <2>5. /\ todo' \in [Conns -> SUBSET Calls]
        /\ held' \in [Conns -> SUBSET Proposals]
        /\ prev' \in [Conns -> SUBSET ReadTools]
        /\ replies' \in 0 .. MaxReplies
    <3>2. /\ todo' = [todo EXCEPT ![c] = r]
          /\ held' = [held EXCEPT ![c] = w]
          /\ prev' = IF writes = {} THEN [prev EXCEPT ![c] = reads] ELSE prev
          /\ replies' = n
      BY <1>3 DEF CallTools
    <3>3. n \in 0 .. MaxReplies
      BY <2>1
    <3> HIDE DEF n, r, w
    <3> QED BY <2>2, <3>2, <3>3 DEF AgentTypeOK
  <2>6. /\ pc' \in [Conns -> Places]
        /\ events' \in [Conns -> SUBSET EventKinds]
        /\ round' \in [Conns -> 0 .. MaxRounds - 1]
        /\ accepts' \in [Conns -> BOOLEAN]
        /\ pending' \subseteq Proposals
        /\ shown' \subseteq Proposals
    <3> HIDE DEF n, r, w
    <3> QED BY <2>2, <2>4, AfterCallsType
  <2>7. UNCHANGED <<attached, body, at, current, exists, audit, registered,
                    consented, contradicted, abandoned, sent, turns>>
    BY <1>3 DEF CallTools
  <2> QED BY <2>3, <2>5, <2>6, <2>7 DEF AgentTypeOK
<1>4. ASSUME NEW id \in todo[c], NEW what \in {"result", "error"},
             ExecuteRead(c, id, what)
      PROVE  AgentTypeOK'
  <2>1. id \in Calls
    BY DEF AgentTypeOK
  <2>2. messages' \in Seq(Messages)
    <3>1. ToolMsg(id, what) \in Messages
      BY <2>1, ToolMsgType DEF Answers
    <3> QED BY <1>4, <3>1, SayType DEF ExecuteRead, ReadAnswer
  <2>3. audit' \subseteq ({"approved", "rejected", "tool_result", "tool_error"}
                           \X Calls)
    BY <1>4, <2>1, LogType DEF ExecuteRead
  <2>4. /\ todo' \in [Conns -> SUBSET Calls]
        /\ sent' \in [Calls -> Nat]
    BY <1>4, <2>1 DEF ExecuteRead, AgentTypeOK
  <2>5. /\ held[c] \in SUBSET Proposals
        /\ AfterCalls(c, messages', todo'[c], held[c])
    BY <1>4 DEF ExecuteRead, AgentTypeOK
  <2> QED BY <1>4, <2>2, <2>3, <2>4, <2>5, AfterCallsType
          DEF ExecuteRead, AgentTypeOK
<1> QED BY <1>1, <1>2, <1>3, <1>4

\* Cancellation, release and expiry keep the types.
LEMMA AbandonType ==
    ASSUME AgentTypeOK, NEW c \in Conns, Abandon(c)
    PROVE  abandoned' \subseteq Calls
<1>1. \A i \in at[c] + 1 .. Len(body[c]) : body[c][i][1] \in Calls
  <2>1. body[c] \in Seq(Decisions) /\ at[c] \in Nat
    BY AgentAssumption DEF AgentTypeOK
  <2>2. \A i \in at[c] + 1 .. Len(body[c]) : i \in 1 .. Len(body[c])
    BY <2>1, LenProperties
  <2>3. \A i \in 1 .. Len(body[c]) : body[c][i] \in Decisions
    BY <2>1, ElementOfSeq
  <2> QED BY <2>2, <2>3, ProposalIsCall DEF Decisions
<1>2. \A d \in current[c] : d[1] \in Calls
  BY CurrentType
<1>3. Owing(c) \subseteq Calls
  BY <1>1, <1>2, ProposalIsCall DEF Owing, AgentTypeOK
<1> QED BY <1>3 DEF Abandon, AgentTypeOK

LEMMA EndType ==
    ASSUME AgentTypeOK,
           \/ \E c \in Conns : KeepaliveTimeout(c) \/ Release(c) \/ Disconnect(c)
           \/ Expire
    PROVE  AgentTypeOK'
<1>1. ASSUME NEW c \in Conns, KeepaliveTimeout(c)
      PROVE  AgentTypeOK'
  <2>1. /\ pc' \in [Conns -> Places]
        /\ events' \in [Conns -> SUBSET EventKinds]
    BY <1>1, MovesType DEF KeepaliveTimeout, AgentTypeOK, Places, EventKinds
  <2>2. abandoned' \subseteq Calls
    BY <1>1, AbandonType DEF KeepaliveTimeout
  <2> QED BY <1>1, <2>1, <2>2
          DEF KeepaliveTimeout, AgentTypeOK, sessionVars
<1>2. ASSUME NEW c \in Conns, Release(c) \/ Disconnect(c)
      PROVE  AgentTypeOK'
  <2>1. abandoned' \subseteq Calls
    BY <1>2, AbandonType DEF Release, Disconnect, AgentTypeOK
  <2>2. Reset(c)
    BY <1>2 DEF Release, Disconnect
  <2>3. /\ body' \in [Conns -> Seq(Decisions)]
        /\ at' \in [Conns -> 0 .. MaxBody]
        /\ \A e \in Conns : at'[e] <= Len(body'[e]) /\ Len(body'[e]) <= MaxBody
    <3>1. <<>> \in Seq(Decisions) /\ Len(<<>>) = 0
      OBVIOUS
    <3>2. /\ \A e \in Conns : body'[e] = IF e = c THEN <<>> ELSE body[e]
          /\ \A e \in Conns : at'[e] = IF e = c THEN 0 ELSE at[e]
      BY <2>2 DEF Reset, AgentTypeOK
    <3> QED BY <2>2, <3>1, <3>2, AgentAssumption DEF Reset, AgentTypeOK
  <2> QED BY <2>1, <2>2, <2>3, AgentAssumption
          DEF Reset, AgentTypeOK, Places, sessionVars
<1>3. CASE Expire
  <2>1. messages' \in Seq(Messages) /\ attached' \in [Conns -> BOOLEAN]
    BY <1>3 DEF Expire
  <2> QED BY <1>3, <2>1 DEF Expire, AgentTypeOK
<1> QED BY <1>1, <1>2, <1>3

LEMMA InitType == Init => AgentTypeOK
<1> SUFFICES ASSUME Init PROVE AgentTypeOK
  OBVIOUS
<1>1. messages \in Seq(Messages)
  BY DEF Init
<1>2. round \in [Conns -> 0 .. MaxRounds - 1] /\ at \in [Conns -> 0 .. MaxBody]
  BY AgentAssumption DEF Init
<1>3. replies \in 0 .. MaxReplies /\ turns \in 0 .. MaxTurns
  BY AgentAssumption DEF Init
<1>4. body \in [Conns -> Seq(Decisions)]
  BY DEF Init
<1>5. \A c \in Conns : at[c] <= Len(body[c]) /\ Len(body[c]) <= MaxBody
  BY AgentAssumption DEF Init
<1> QED BY <1>1, <1>2, <1>3, <1>4, <1>5 DEF Init, AgentTypeOK, Places

LEMMA NextType == AgentTypeOK /\ [Next]_vars => AgentTypeOK'
<1> SUFFICES ASSUME AgentTypeOK, [Next]_vars PROVE AgentTypeOK'
  OBVIOUS
<1>1. CASE Next
  BY <1>1, RequestType, BuildType, DecideType, HandleType, LoopType, EndType
     DEF Next, Step
<1>2. CASE UNCHANGED vars
  BY <1>2 DEF vars, turnVars, sessionVars, pastVars, AgentTypeOK
<1> QED BY <1>1, <1>2

\* Every variable keeps its range; in particular a turn never starts more than
\* MaxRounds rounds, and only write tools are ever proposed.
THEOREM AgentTypeCorrect == Spec => []AgentTypeOK
BY InitType, NextType, PTL DEF Spec
------------------------------------------------------------------------------
(* One owner at a time.                                                    *)

LEMMA LeftType ==
    ASSUME AgentTypeOK, NEW c \in Conns, NEW id
    PROVE  /\ IsFiniteSet(Left(c, id)) /\ Cardinality(Left(c, id)) \in Nat
           /\ at[c] \in Nat /\ Len(body[c]) \in Nat
           /\ body[c] \in Seq(Decisions)
           /\ \A i \in at[c] + 1 .. Len(body[c]) : body[c][i] \in Decisions
<1>1. /\ at[c] \in Nat /\ body[c] \in Seq(Decisions)
  BY AgentAssumption DEF AgentTypeOK
<1>2. Len(body[c]) \in Nat
  BY <1>1, LenProperties
<1>3. \A i \in at[c] + 1 .. Len(body[c]) : i \in 1 .. Len(body[c])
  BY <1>1, <1>2
<1>4. Left(c, id) \subseteq 1 .. Len(body[c])
  BY <1>3 DEF Left
<1>5. IsFiniteSet(Left(c, id)) /\ Cardinality(Left(c, id)) \in Nat
  BY <1>2, <1>4, Countable
<1>6. \A i \in 1 .. Len(body[c]) : body[c][i] \in Decisions
  BY <1>1, ElementOfSeq
<1> QED BY <1>1, <1>2, <1>3, <1>5, <1>6

\* Steps that give nobody anything: owners are kept or dropped.
Quiet ==
    /\ UNCHANGED <<shown, consented, sent, replies>>
    /\ \A id \in Proposals :
          id \in registered' => id \in registered \/ sent[id] > 0
    /\ pending' \subseteq pending
    /\ \A c \in Conns :
          /\ \/ body'[c] = body[c] /\ at'[c] = at[c]
             \/ body'[c] = <<>> /\ at'[c] = 0
          /\ todo'[c] \subseteq todo[c]
          /\ held'[c] \subseteq held[c]
          /\ pc'[c] = "read" => pc[c] = "read"
          /\ \A d \in current'[c] : d[2] # "rejected" =>
                \E e \in current[c] : e[1] = d[1] /\ e[2] # "rejected"

LEMMA QuietLeft ==
    ASSUME Quiet, NEW c \in Conns, NEW id
    PROVE  Left(c, id)' = Left(c, id) \/ Left(c, id)' = {}
<1>1. CASE body'[c] = body[c] /\ at'[c] = at[c]
  BY <1>1 DEF Left
<1>2. CASE body'[c] = <<>> /\ at'[c] = 0
  BY <1>2 DEF Left
<1> QED BY <1>1, <1>2 DEF Quiet

LEMMA QuietKeeps ==
    ASSUME AInv, Quiet
    PROVE  OwnerInv'
<1>1. SentInv'
  BY DEF AInv, OwnerInv, Quiet, SentInv
<1>2. /\ UNCHANGED <<shown, consented, sent>> /\ pending' \subseteq pending
      /\ \A c \in Conns : pc'[c] = "read" => pc[c] = "read"
  BY DEF Quiet
<1>3. \A c \in Conns : \A id :
          Owes(c, id)' => Owes(c, id) /\ Left(c, id)' = Left(c, id)
  BY QuietLeft DEF Owes
<1>4. PendingInv'
  BY <1>2, <1>3 DEF AInv, OwnerInv, PendingInv
<1>5. OwedInv'
  BY <1>2, <1>3 DEF AInv, OwnerInv, OwedInv
<1>6. ReadInv'
  BY DEF AInv, OwnerInv, ReadInv, Quiet
<1>7. HeldInv'
  BY DEF AInv, OwnerInv, Quiet, HeldInv
<1>8. CurrentInv'
  BY DEF AInv, OwnerInv, Quiet, CurrentInv
<1>9. FreshInv'
  BY DEF AInv, OwnerInv, Quiet, FreshInv
<1> QED BY <1>1, <1>4, <1>5, <1>6, <1>7, <1>8, <1>9 DEF OwnerInv

LEMMA QuietSteps ==
    ASSUME AInv, NEW c \in Conns,
           \/ Chat(c) \/ BuildRunner(c)
           \/ \E d \in current[c] : \/ ExecuteWrite(c, d[1])
                                    \/ NotifyPrCreated(c, d[1])
                                    \/ Tell(c, d[1], d[2])
           \/ LlmFails(c) \/ NothingToKeep(c) \/ Answer(c)
           \/ KeepaliveTimeout(c) \/ Reset(c) \/ Expire
    PROVE  Quiet
<1>types. /\ pc \in [Conns -> Places] /\ todo \in [Conns -> SUBSET Calls]
          /\ held \in [Conns -> SUBSET Proposals]
          /\ current \in [Conns -> SUBSET (Proposals \X Outcomes)]
          /\ body \in [Conns -> Seq(Decisions)]
          /\ at \in [Conns -> 0 .. MaxBody]
  BY DEF AInv, AgentTypeOK
<1>1. CASE Chat(c)
  BY <1>1, <1>types DEF Chat, Goto, Quiet
<1>2. CASE BuildRunner(c)
  BY <1>2, <1>types DEF BuildRunner, CallLlm, Goto, Quiet, sessionVars, pastVars
<1>3. ASSUME NEW d \in current[c], ExecuteWrite(c, d[1])
      PROVE  Quiet
  <2>1. /\ UNCHANGED <<shown, consented, sent, replies, registered, pending, body,
                       at, todo, held>>
        /\ pc[c] = "exec" /\ pc' \in [Conns -> Places]
        /\ \A e \in Conns : pc'[e] = "read" => pc[e] = "read"
    BY <1>3, <1>types DEF ExecuteWrite, Goto, pastVars, Places, Awaits
  <2>2. <<d[1], "called">> \in current[c]
    BY <1>3 DEF ExecuteWrite
  <2>3. \A e \in Conns : \A x \in current'[e] :
            x \in current[e] \/ (e = c /\ x[1] = d[1])
    BY <1>3, <1>types DEF ExecuteWrite
  <2> QED BY <2>1, <2>2, <2>3 DEF Quiet
<1>4. ASSUME NEW d \in current[c], NotifyPrCreated(c, d[1])
      PROVE  Quiet
  <2>1. sent[d[1]] > 0
    <3>1. <<d[1], "result">> \in current[c]
      BY <1>4 DEF NotifyPrCreated
    <3>2. <<d[1], "result">>[2] # "rejected" /\ <<d[1], "result">>[1] = d[1]
      OBVIOUS
    <3> QED BY <3>1, <3>2 DEF AInv, OwnerInv, CurrentInv
  <2> QED BY <1>4, <2>1, <1>types
          DEF NotifyPrCreated, Goto, Quiet, sessionVars
<1>5. ASSUME NEW d \in current[c], Tell(c, d[1], d[2])
      PROVE  Quiet
  BY <1>5, <1>types DEF Tell, Quiet, pastVars
<1>6. CASE LlmFails(c) \/ NothingToKeep(c) \/ Answer(c)
  BY <1>6, <1>types
     DEF LlmFails, NothingToKeep, Answer, End, Quiet, sessionVars, pastVars
<1>7. CASE KeepaliveTimeout(c)
  BY <1>7, <1>types DEF KeepaliveTimeout, End, Quiet, sessionVars
<1>8. CASE Reset(c)
  BY <1>8, <1>types DEF Reset, Quiet, sessionVars
<1>9. CASE Expire
  BY <1>9 DEF Expire, Quiet
<1> QED BY <1>1, <1>2, <1>3, <1>4, <1>5, <1>6, <1>7, <1>8, <1>9

\* Taking the pending proposals makes the request their owner.
LEMMA RespondLeft ==
    ASSUME AInv, NEW c \in Conns, NEW n \in 0 .. MaxBody,
           NEW b \in [1 .. n -> pending \X BOOLEAN], Respond(c, b)
    PROVE  /\ \A id : /\ Left(c, id)' = Approvals(b, id)
                      /\ Owes(c, id)' => id \in pending
                      /\ Cardinality(Approvals(b, id)) \in Nat
           /\ \A e \in Conns : e # c => \A id : Left(e, id)' = Left(e, id)
<1>1. /\ b \in Seq(Decisions) /\ Len(b) = n /\ DOMAIN b = 1 .. n
      /\ \A i \in 1 .. n : b[i][1] \in pending
  BY BodyType DEF AInv
<1>2. n \in Nat
  BY AgentAssumption
<1>3. /\ body \in [Conns -> Seq(Decisions)] /\ at \in [Conns -> 0 .. MaxBody]
      /\ body' = [body EXCEPT ![c] = b] /\ at' = [at EXCEPT ![c] = 0]
  BY DEF Respond, AInv, AgentTypeOK
<1>4. body'[c] = b /\ at'[c] = 0
  BY <1>3
<1>5. ASSUME NEW id
      PROVE  /\ Left(c, id)' = Approvals(b, id)
             /\ Owes(c, id)' => id \in pending
             /\ Cardinality(Approvals(b, id)) \in Nat
  <2>1. Left(c, id)' = Approvals(b, id)
    <3>1. at'[c] + 1 .. Len(body'[c]) = 1 .. n
      BY <1>1, <1>2, <1>4
    <3>2. Left(c, id)' = {i \in at'[c] + 1 .. Len(body'[c]) :
                              body'[c][i] = <<id, TRUE>>}
      BY DEF Left
    <3> QED BY <1>1, <1>4, <3>1, <3>2 DEF Approvals
  <2>2. Approvals(b, id) \subseteq 1 .. n
    BY <1>1 DEF Approvals
  <2>3. \A i \in Approvals(b, id) : id \in pending
    BY <1>1 DEF Approvals
  <2> QED BY <1>2, <2>1, <2>2, <2>3, Countable DEF Owes
<1>6. \A e \in Conns : e # c => \A id : Left(e, id)' = Left(e, id)
  BY <1>3 DEF Left
<1> QED BY <1>5, <1>6

LEMMA RespondKeeps ==
    ASSUME AInv, NEW c \in Conns, NEW n \in 0 .. MaxBody,
           NEW b \in [1 .. n -> pending \X BOOLEAN], Respond(c, b)
    PROVE  OwnerInv'
<1>1. /\ UNCHANGED <<shown, sent, replies, registered, held, current, todo>>
      /\ pending' = {}
      /\ pc \in [Conns -> Places] /\ pc' = [pc EXCEPT ![c] = "build"]
  BY DEF Respond, Goto, TakePending, AInv, AgentTypeOK
<1>2. /\ \A id : /\ Left(c, id)' = Approvals(b, id)
                 /\ Owes(c, id)' => id \in pending
                 /\ Cardinality(Approvals(b, id)) \in Nat
      /\ \A e \in Conns : e # c => \A id : Left(e, id)' = Left(e, id)
  BY RespondLeft
<1>3. ASSUME NEW id \in Proposals
      PROVE  /\ consented[id] <= consented'[id]
             /\ Cardinality(Approvals(b, id)) <= consented'[id]
             /\ sent[id] \in Nat /\ consented[id] \in Nat /\ consented'[id] \in Nat
  <2>1. consented'[id] = IF Cardinality(Approvals(b, id)) > consented[id]
                         THEN Cardinality(Approvals(b, id)) ELSE consented[id]
    BY DEF Respond
  <2>2. sent[id] \in Nat /\ consented[id] \in Nat
    BY ProposalIsCall DEF AInv, AgentTypeOK
  <2> QED BY <1>2, <2>1, <2>2
<1>4. SentInv'
  BY <1>1, <1>3 DEF AInv, OwnerInv, SentInv
<1>5. PendingInv'
  BY <1>1 DEF PendingInv
<1>6. OwedInv'
  <2> SUFFICES ASSUME NEW e \in Conns, NEW id \in Proposals, Owes(e, id)'
               PROVE  /\ sent'[id] + Cardinality(Left(e, id)') <= consented'[id]
                      /\ id \in shown'
                      /\ \A d \in Conns : Owes(d, id)' => d = e
    BY DEF OwedInv
  <2>1. CASE e = c
    <3>1. id \in pending
      BY <1>2, <2>1
    <3>2. sent[id] = 0 /\ id \in shown /\ \A d \in Conns : ~Owes(d, id)
      BY <3>1 DEF AInv, OwnerInv, PendingInv
    <3>3. \A d \in Conns : Owes(d, id)' => d = c
      BY <1>2, <3>2 DEF Owes
    <3>4. sent'[id] + Cardinality(Left(e, id)') <= consented'[id]
      BY <1>1, <1>2, <1>3, <2>1, <3>2
    <3> QED BY <1>1, <2>1, <3>2, <3>3, <3>4
  <2>2. CASE e # c
    <3>1. Owes(e, id) /\ Left(e, id)' = Left(e, id)
      BY <1>2, <2>2 DEF Owes
    <3>2. /\ sent[id] + Cardinality(Left(e, id)) <= consented[id] /\ id \in shown
          /\ \A d \in Conns : Owes(d, id) => d = e
      BY <3>1 DEF AInv, OwnerInv, OwedInv
    <3>3. id \notin pending
      BY <3>1 DEF AInv, OwnerInv, PendingInv
    <3>4. ASSUME NEW d \in Conns, Owes(d, id)'
          PROVE  d = e
      BY <1>2, <3>2, <3>3, <3>4 DEF Owes
    <3>5. Cardinality(Left(e, id)) \in Nat
      BY LeftType DEF AInv
    <3>6. sent'[id] + Cardinality(Left(e, id)') <= consented'[id]
      BY <1>1, <1>3, <3>1, <3>2, <3>5
    <3> QED BY <1>1, <3>2, <3>4, <3>6
  <2> QED BY <2>1, <2>2
<1>7. HeldInv' /\ CurrentInv' /\ FreshInv' /\ ReadInv'
  BY <1>1 DEF AInv, OwnerInv, HeldInv, CurrentInv, FreshInv, ReadInv
<1> QED BY <1>4, <1>5, <1>6, <1>7 DEF OwnerInv

\* Handling a decision takes it off what is left, and counts an approval.
LEMMA DecideLeft ==
    ASSUME AInv, NEW c \in Conns, NEW d \in Decisions, Decide(c, d)
    PROVE  /\ \A e \in Conns : e # c => \A id : Left(e, id)' = Left(e, id)
           /\ \A id \in Proposals :
                 \/ /\ d = <<id, TRUE>> /\ Owes(c, id)
                    /\ sent'[id] = sent[id] + 1
                    /\ Cardinality(Left(c, id)') = Cardinality(Left(c, id)) - 1
                 \/ /\ d # <<id, TRUE>> /\ sent'[id] = sent[id]
                    /\ Left(c, id)' = Left(c, id)
<1>1. /\ body \in [Conns -> Seq(Decisions)] /\ at \in [Conns -> 0 .. MaxBody]
      /\ body' = body /\ at' = [at EXCEPT ![c] = @ + 1]
      /\ at[c] < Len(body[c]) /\ d = body[c][at[c] + 1]
      /\ sent \in [Calls -> Nat]
      /\ sent' = IF d[2] THEN [sent EXCEPT ![d[1]] = @ + 1] ELSE sent
  BY DEF Decide, AInv, AgentTypeOK
<1>2. at[c] \in Nat /\ Len(body[c]) \in Nat
  BY LeftType DEF AInv
<1>3. \A e \in Conns : e # c => \A id : Left(e, id)' = Left(e, id)
  BY <1>1 DEF Left
<1>4. ASSUME NEW id
      PROVE  Left(c, id)' = Left(c, id) \ {at[c] + 1}
  <2>1. at'[c] = at[c] + 1 /\ body'[c] = body[c]
    BY <1>1
  <2>2. \A i : i \in at'[c] + 1 .. Len(body'[c]) <=>
                   i \in at[c] + 1 .. Len(body[c]) /\ i # at[c] + 1
    BY <1>2, <2>1
  <2> QED BY <2>1, <2>2 DEF Left
<1>5. at[c] + 1 \in at[c] + 1 .. Len(body[c])
  BY <1>1, <1>2
<1>6. d = <<d[1], d[2]>> /\ d[1] \in Proposals /\ d[1] \in Calls
      /\ d[2] \in BOOLEAN
  BY ProposalIsCall DEF Decisions
<1>7. ASSUME NEW id \in Proposals, d = <<id, TRUE>>
      PROVE  /\ Owes(c, id) /\ sent'[id] = sent[id] + 1
             /\ Cardinality(Left(c, id)') = Cardinality(Left(c, id)) - 1
  <2>1. at[c] + 1 \in Left(c, id)
    BY <1>1, <1>5, <1>7 DEF Left
  <2>2. IsFiniteSet(Left(c, id))
    BY LeftType DEF AInv
  <2>3. Cardinality(Left(c, id) \ {at[c] + 1}) = Cardinality(Left(c, id)) - 1
    BY <2>1, <2>2, FS_RemoveElement
  <2>4. d[1] = id /\ d[2] = TRUE
    BY <1>7
  <2> QED BY <1>1, <1>4, <1>6, <2>1, <2>3, <2>4 DEF Owes
<1>8. ASSUME NEW id \in Proposals, d # <<id, TRUE>>
      PROVE  sent'[id] = sent[id] /\ Left(c, id)' = Left(c, id)
  <2>1. at[c] + 1 \notin Left(c, id)
    BY <1>1, <1>8 DEF Left
  <2>2. ~(d[2] /\ d[1] = id)
    BY <1>6, <1>8
  <2>3. sent'[id] = sent[id]
    BY <1>1, <1>6, <2>2, ProposalIsCall
  <2> QED BY <1>4, <2>1, <2>3
<1> QED BY <1>3, <1>7, <1>8

LEMMA DecideKeeps ==
    ASSUME AInv, NEW c \in Conns, NEW d \in Decisions, Decide(c, d)
    PROVE  OwnerInv'
<1>1. /\ UNCHANGED <<shown, consented, replies, registered, held, pending, todo>>
      /\ pc[c] = "decide"
      /\ pc \in [Conns -> Places]
      /\ pc' = [pc EXCEPT ![c] = IF d[2] THEN "exec" ELSE "tell"]
      /\ current \in [Conns -> SUBSET (Proposals \X Outcomes)]
      /\ current' = [current EXCEPT
                         ![c] = {<<d[1], IF d[2] THEN "called" ELSE "rejected">>}]
  BY DEF Decide, Goto, AInv, AgentTypeOK
<1>2. /\ \A e \in Conns : e # c => \A id : Left(e, id)' = Left(e, id)
      /\ \A id \in Proposals :
            \/ /\ d = <<id, TRUE>> /\ Owes(c, id)
               /\ sent'[id] = sent[id] + 1
               /\ Cardinality(Left(c, id)') = Cardinality(Left(c, id)) - 1
            \/ /\ d # <<id, TRUE>> /\ sent'[id] = sent[id]
               /\ Left(c, id)' = Left(c, id)
  BY DecideLeft
<1>3. \A id \in Proposals : sent[id] \in Nat /\ consented[id] \in Nat
  BY ProposalIsCall DEF AInv, AgentTypeOK
<1>4. \A e \in Conns, id \in Proposals : Cardinality(Left(e, id)) \in Nat
  BY LeftType DEF AInv
<1>5. ASSUME NEW id \in Proposals
      PROVE  /\ sent'[id] <= consented[id] /\ sent[id] <= sent'[id]
             /\ sent'[id] > 0 => id \in shown
             /\ id \in registered => sent'[id] > 0
  <2>1. CASE d # <<id, TRUE>>
    <3>1. sent'[id] = sent[id]
      BY <1>2, <2>1
    <3>2. /\ sent[id] <= consented[id]
          /\ sent[id] > 0 => id \in shown
          /\ id \in registered => sent[id] > 0
      BY DEF AInv, OwnerInv, SentInv
    <3> QED BY <1>3, <3>1, <3>2
  <2>2. CASE d = <<id, TRUE>>
    <3>1. Owes(c, id) /\ sent'[id] = sent[id] + 1
      BY <1>2, <2>2
    <3>2. sent[id] + Cardinality(Left(c, id)) <= consented[id] /\ id \in shown
      BY <3>1 DEF AInv, OwnerInv, OwedInv
    <3>3. Cardinality(Left(c, id)) # 0
      <4>1. IsFiniteSet(Left(c, id))
        BY LeftType DEF AInv
      <4> QED BY <3>1, <4>1, FS_EmptySet DEF Owes
    <3> QED BY <1>3, <1>4, <3>1, <3>2, <3>3
  <2> QED BY <2>1, <2>2
<1>6. SentInv'
  BY <1>1, <1>5 DEF SentInv
<1>7. \A e \in Conns, id \in Proposals : Owes(e, id)' => Owes(e, id)
  <2> SUFFICES ASSUME NEW e \in Conns, NEW id \in Proposals, Owes(e, id)'
               PROVE  Owes(e, id)
    OBVIOUS
  <2>1. CASE e = c
    BY <1>2, <2>1 DEF Owes
  <2>2. CASE e # c
    BY <1>2, <2>2 DEF Owes
  <2> QED BY <2>1, <2>2
<1>8. PendingInv'
  <2> SUFFICES ASSUME NEW id \in pending
               PROVE  /\ sent'[id] = 0 /\ id \in shown
                      /\ \A e \in Conns : ~Owes(e, id)'
    BY <1>1 DEF PendingInv
  <2>1. id \in Proposals /\ sent[id] = 0 /\ id \in shown
        /\ \A e \in Conns : ~Owes(e, id)
    BY DEF AInv, AgentTypeOK, OwnerInv, PendingInv
  <2> QED BY <1>2, <1>7, <2>1
<1>9. OwedInv'
  <2> SUFFICES ASSUME NEW e \in Conns, NEW id \in Proposals, Owes(e, id)'
               PROVE  /\ sent'[id] + Cardinality(Left(e, id)') <= consented'[id]
                      /\ id \in shown'
                      /\ \A f \in Conns : Owes(f, id)' => f = e
    BY DEF OwedInv
  <2>1. Owes(e, id)
    BY <1>7
  <2>2. /\ sent[id] + Cardinality(Left(e, id)) <= consented[id] /\ id \in shown
        /\ \A f \in Conns : Owes(f, id) => f = e
    BY <2>1 DEF AInv, OwnerInv, OwedInv
  <2>3. CASE e = c
    <3>1. sent'[id] + Cardinality(Left(c, id)') <= consented[id]
      <4>1. CASE d = <<id, TRUE>>
        <5>1. /\ sent'[id] = sent[id] + 1
              /\ Cardinality(Left(c, id)') = Cardinality(Left(c, id)) - 1
          BY <1>2, <4>1
        <5>2. sent[id] \in Nat /\ consented[id] \in Nat
          BY <1>3
        <5>3. Cardinality(Left(c, id)) \in Nat
          BY <1>4
        <5> QED BY <2>2, <2>3, <5>1, <5>2, <5>3
      <4>2. CASE d # <<id, TRUE>>
        <5>1. sent'[id] = sent[id] /\ Left(c, id)' = Left(c, id)
          BY <1>2, <4>2
        <5> QED BY <2>2, <2>3, <5>1
      <4> QED BY <4>1, <4>2
    <3> QED BY <1>1, <1>7, <2>2, <2>3, <3>1
  <2>4. CASE e # c
    <3>1. ~Owes(c, id)
      BY <2>2, <2>4
    <3>2. sent'[id] = sent[id] /\ Left(e, id)' = Left(e, id)
      BY <1>2, <2>4, <3>1
    <3> QED BY <1>1, <1>7, <2>2, <3>2
  <2> QED BY <2>3, <2>4
<1>10. HeldInv' /\ FreshInv' /\ ReadInv'
  BY <1>1 DEF AInv, OwnerInv, HeldInv, FreshInv, ReadInv
<1>11. CurrentInv'
  <2> SUFFICES ASSUME NEW e \in Conns, NEW x \in current'[e], x[2] # "rejected"
               PROVE  sent'[x[1]] > 0
    BY DEF CurrentInv
  <2>1. CASE e # c
    <3>1. x \in current[e] /\ x[1] \in Proposals
      BY <1>1, <2>1
    <3>2. sent[x[1]] > 0
      BY <3>1 DEF AInv, OwnerInv, CurrentInv
    <3>3. sent'[x[1]] = sent[x[1]] \/ sent'[x[1]] = sent[x[1]] + 1
      BY <1>2, <3>1
    <3> QED BY <1>3, <3>1, <3>2, <3>3
  <2>2. CASE e = c
    <3>1. x[1] = d[1] /\ d[2] = TRUE /\ d = <<d[1], d[2]>> /\ d[1] \in Proposals
      BY <1>1, <2>2 DEF Decisions
    <3>2. sent'[d[1]] = sent[d[1]] + 1 /\ sent[d[1]] \in Nat
      BY <1>2, <1>3, <3>1
    <3> QED BY <3>1, <3>2
  <2> QED BY <2>1, <2>2
<1> QED BY <1>6, <1>8, <1>9, <1>10, <1>11 DEF OwnerInv


LEMMA AfterCallsMoves ==
    ASSUME AgentTypeOK, NEW c \in Conns, NEW h, NEW reads, NEW writes,
           AfterCalls(c, h, reads, writes)
    PROVE  /\ \A e \in Conns : e # c => pc'[e] = pc[e]
           /\ pc'[c] \in {"read", "llm", "closed"}
           /\ \/ UNCHANGED <<pending, shown>>
              \/ /\ pending' = IF attached[c] THEN writes ELSE pending
                 /\ shown' = shown \cup writes
                 /\ pc'[c] # "read"
BY DEF AfterCalls, CallLlm, Goto, End, AgentTypeOK

LEMMA AfterCallsKeeps ==
    ASSUME AInv, NEW c \in Conns, NEW writes \in SUBSET Proposals,
           NEW h, NEW reads, AfterCalls(c, h, reads, writes),
           UNCHANGED <<consented, registered, current, body, at>>,
           \A id \in Proposals : sent'[id] = sent[id],
           \A e \in Conns : todo'[e] \cap Proposals = {},
           held' = [held EXCEPT ![c] = writes],
           replies \in Nat, replies' \in Nat, replies <= replies',
           \A id \in writes :
               /\ id[2] <= replies' /\ id \notin shown
               /\ \A e \in Conns : pc[e] = "read" /\ id \in held[e] => e = c
    PROVE  OwnerInv'
<1>types. /\ pending \subseteq Proposals
          /\ held \in [Conns -> SUBSET Proposals]
          /\ \A id \in Proposals : id[2] \in Nat /\ sent[id] \in Nat
          /\ current \in [Conns -> SUBSET (Proposals \X Outcomes)]
  <2>1. \A id \in Proposals : id \in Calls /\ id[2] \in Nat
    BY ProposalIsCall, AgentAssumption DEF Proposals
  <2> QED BY <2>1 DEF AInv, AgentTypeOK
<1>moves. /\ \A e \in Conns : e # c => pc'[e] = pc[e]
          /\ \/ UNCHANGED <<pending, shown>>
             \/ /\ pending' = IF attached[c] THEN writes ELSE pending
                /\ shown' = shown \cup writes
                /\ pc'[c] # "read"
  BY AfterCallsMoves DEF AInv
<1>held. \A e \in Conns : held'[e] = IF e = c THEN writes ELSE held[e]
  BY <1>types
<1>left. \A e \in Conns : \A id : Left(e, id)' = Left(e, id) /\ Owes(e, id)' = Owes(e, id)
  BY DEF Left, Owes
<1>1. SentInv'
  BY <1>moves DEF AInv, OwnerInv, SentInv
<1>2. PendingInv'
  <2> SUFFICES ASSUME NEW id \in pending'
               PROVE  /\ sent'[id] = 0 /\ id \in shown'
                      /\ \A e \in Conns : ~Owes(e, id)'
    BY DEF PendingInv
  <2>1. CASE id \in pending
    <3>1. id \in Proposals /\ sent[id] = 0 /\ id \in shown
          /\ \A e \in Conns : ~Owes(e, id)
      BY <1>types, <2>1 DEF AInv, OwnerInv, PendingInv
    <3> QED BY <1>moves, <1>left, <3>1
  <2>2. CASE id \notin pending
    <3>1. id \in writes /\ id \in shown' /\ id \notin shown /\ id \in Proposals
      BY <1>moves, <2>2
    <3>2. sent[id] = 0 /\ \A e \in Conns : ~Owes(e, id)
      BY <1>types, <3>1 DEF AInv, OwnerInv, SentInv, OwedInv
    <3> QED BY <1>left, <3>1, <3>2
  <2> QED BY <2>1, <2>2
<1>3. OwedInv'
  <2> SUFFICES ASSUME NEW e \in Conns, NEW id \in Proposals, Owes(e, id)'
               PROVE  /\ sent'[id] + Cardinality(Left(e, id)') <= consented'[id]
                      /\ id \in shown'
                      /\ \A f \in Conns : Owes(f, id)' => f = e
    BY DEF OwedInv
  <2>1. Owes(e, id)
    BY <1>left
  <2>2. /\ sent[id] + Cardinality(Left(e, id)) <= consented[id] /\ id \in shown
        /\ \A f \in Conns : Owes(f, id) => f = e
    BY <2>1 DEF AInv, OwnerInv, OwedInv
  <2>3. id \in shown'
    BY <1>moves, <2>2
  <2> QED BY <1>left, <2>2, <2>3
<1>4. HeldInv'
  <2> SUFFICES ASSUME NEW e \in Conns, pc'[e] = "read", NEW id \in held'[e]
               PROVE  /\ id \notin shown'
                      /\ \A f \in Conns :
                            pc'[f] = "read" /\ id \in held'[f] => f = e
    BY DEF HeldInv
  <2>1. CASE e = c
    <3>1. id \in writes /\ shown' = shown
      BY <1>moves, <1>held, <2>1
    <3> QED BY <1>moves, <1>held, <2>1, <3>1
  <2>2. CASE e # c
    <3>1. pc[e] = "read" /\ id \in held[e] /\ id \notin writes
      BY <1>moves, <1>held, <2>2
    <3>2. id \notin shown'
      BY <1>moves, <3>1 DEF AInv, OwnerInv, HeldInv
    <3>3. ASSUME NEW f \in Conns, pc'[f] = "read", id \in held'[f]
          PROVE  f = e
      <4>1. f # c
        BY <1>held, <3>1, <3>3
      <4>2. pc[f] = "read" /\ id \in held[f]
        BY <1>moves, <1>held, <3>3, <4>1
      <4> QED BY <3>1, <4>2 DEF AInv, OwnerInv, HeldInv
    <3> QED BY <3>2, <3>3
  <2> QED BY <2>1, <2>2
<1>5. CurrentInv'
  BY <1>types DEF AInv, OwnerInv, CurrentInv
<1>6. FreshInv'
  <2> SUFFICES ASSUME NEW id \in Proposals, id[2] > replies'
               PROVE  id \notin shown' /\ \A e \in Conns : id \notin held'[e]
    BY DEF FreshInv
  <2>1. id[2] > replies /\ id \notin writes
    BY <1>types
  <2>2. id \notin shown /\ \A e \in Conns : id \notin held[e]
    BY <2>1 DEF AInv, OwnerInv, FreshInv
  <2> QED BY <1>moves, <1>held, <2>1, <2>2
<1>7. ReadInv'
  BY DEF ReadInv
<1> QED BY <1>1, <1>2, <1>3, <1>4, <1>5, <1>6, <1>7 DEF OwnerInv

\* The proposals of a reply are new, so nobody owns them.
LEMMA CallToolsKeeps ==
    ASSUME AInv, NEW c \in Conns, NEW reads \in SUBSET ReadTools,
           NEW writes \in SUBSET WriteTools, CallTools(c, reads, writes)
    PROVE  OwnerInv'
<1> DEFINE n == replies + 1
           r == reads \X {n}
           w == writes \X {n}
<1>1. /\ n \in 1 .. MaxReplies /\ replies \in Nat /\ n \in Nat /\ replies <= n
  BY AgentAssumption DEF CallTools, AInv, AgentTypeOK
<1>2. /\ w \in SUBSET Proposals
      /\ \A id \in w : id[2] = n /\ id[2] > replies
  BY <1>1 DEF Proposals
<1>3. /\ AfterCalls(c, messages', r, w) /\ replies' = n
      /\ held' = [held EXCEPT ![c] = w]
      /\ todo' = [todo EXCEPT ![c] = r]
      /\ UNCHANGED <<current, consented, registered, sent, body, at>>
  BY DEF CallTools
<1>4. r \cap Proposals = {}
  BY AgentAssumption DEF Proposals
<1>5. todo \in [Conns -> SUBSET Calls]
  BY DEF AInv, AgentTypeOK
<1>6. \A id \in w : id \notin shown /\ \A e \in Conns : id \notin held[e]
  BY <1>2 DEF AInv, OwnerInv, FreshInv
<1>7. \A id \in w : id[2] <= n
  BY <1>1, <1>2
<1> HIDE DEF n, r, w
<1>8. \A e \in Conns : todo'[e] \cap Proposals = {}
  BY <1>3, <1>4, <1>5 DEF AInv, OwnerInv, ReadInv
<1>9. \A id \in w : /\ id[2] <= replies' /\ id \notin shown
                    /\ \A e \in Conns :
                          pc[e] = "read" /\ id \in held[e] => e = c
  BY <1>3, <1>6, <1>7
<1> QED BY <1>1, <1>2, <1>3, <1>8, <1>9, AfterCallsKeeps

\* A call in "read" is not a proposal; the held proposals have one holder.
LEMMA ExecuteReadKeeps ==
    ASSUME AInv, NEW c \in Conns, NEW id \in todo[c],
           NEW what \in {"result", "error"}, ExecuteRead(c, id, what)
    PROVE  OwnerInv'
<1>1. /\ AfterCalls(c, messages', todo'[c], held[c])
      /\ pc[c] = "read"
      /\ todo' = [todo EXCEPT ![c] = @ \ {id}]
      /\ sent' = [sent EXCEPT ![id] = @ + 1]
      /\ UNCHANGED <<held, current, registered, consented, replies, body, at>>
  BY DEF ExecuteRead
<1>2. /\ todo \in [Conns -> SUBSET Calls]
      /\ sent \in [Calls -> Nat]
      /\ held \in [Conns -> SUBSET Proposals]
      /\ replies \in Nat
  BY AgentAssumption DEF AInv, AgentTypeOK
<1>3. id \notin Proposals /\ id \in Calls
  BY <1>2 DEF AInv, OwnerInv, ReadInv
<1>4. \A p \in Proposals : sent'[p] = sent[p]
  BY <1>1, <1>2, <1>3, ProposalIsCall
<1>5. \A e \in Conns : todo'[e] \cap Proposals = {}
  BY <1>1, <1>2 DEF AInv, OwnerInv, ReadInv
<1>6. \A p \in held[c] : p[2] <= replies
  <2>1. \A p \in held[c] : p \in Proposals /\ p[2] \in Nat
    BY <1>2, AgentAssumption DEF Proposals
  <2> QED BY <1>2, <2>1 DEF AInv, OwnerInv, FreshInv
<1>7. \A p \in held[c] :
          /\ p \notin shown
          /\ \A e \in Conns : pc[e] = "read" /\ p \in held[e] => e = c
  BY <1>1 DEF AInv, OwnerInv, HeldInv
<1>8. held[c] \in SUBSET Proposals /\ held' = [held EXCEPT ![c] = held[c]]
  BY <1>1, <1>2
<1>9. replies' \in Nat /\ replies <= replies' /\ replies' = replies
  BY <1>1, <1>2
<1> DEFINE w == held[c]
           r == todo'[c]
<1>10. \A p \in w : /\ p[2] <= replies' /\ p \notin shown
                    /\ \A e \in Conns :
                          pc[e] = "read" /\ p \in held[e] => e = c
  BY <1>6, <1>7, <1>9
<1>11. /\ w \in SUBSET Proposals /\ held' = [held EXCEPT ![c] = w]
       /\ AfterCalls(c, messages', r, w)
  BY <1>1, <1>8
<1> HIDE DEF w, r
<1> QED BY <1>1, <1>2, <1>4, <1>5, <1>9, <1>10, <1>11, AfterCallsKeeps

LEMMA InitOwner == Init => OwnerInv
<1> SUFFICES ASSUME Init PROVE OwnerInv
  OBVIOUS
<1>1. \A c \in Conns : \A id : ~Owes(c, id)
  BY DEF Init, Owes, Left
<1> QED BY <1>1, ProposalIsCall
        DEF Init, OwnerInv, SentInv, PendingInv, OwedInv, HeldInv, CurrentInv,
            FreshInv, ReadInv

LEMMA NextOwner == AInv /\ [Next]_vars => AInv'
<1> SUFFICES ASSUME AInv, [Next]_vars PROVE OwnerInv'
  BY NextType DEF AInv
<1>1. ASSUME NEW c \in Conns,
             \/ Chat(c) \/ BuildRunner(c)
             \/ \E d \in current[c] : \/ ExecuteWrite(c, d[1])
                                      \/ NotifyPrCreated(c, d[1])
                                      \/ Tell(c, d[1], d[2])
             \/ LlmFails(c) \/ NothingToKeep(c) \/ Answer(c)
             \/ KeepaliveTimeout(c) \/ Reset(c) \/ Expire
      PROVE  OwnerInv'
  BY <1>1, QuietSteps, QuietKeeps
<1>2. CASE Expire
  <2>1. Quiet
    BY <1>2 DEF Expire, Quiet
  <2> QED BY <2>1, QuietKeeps
<1>3. CASE UNCHANGED vars
  <2>1. Quiet
    BY <1>3 DEF Quiet, vars, turnVars, sessionVars, pastVars
  <2> QED BY <2>1, QuietKeeps
<1>4. ASSUME NEW c \in Conns, NEW n \in 0 .. MaxBody,
             NEW b \in [1 .. n -> pending \X BOOLEAN], Respond(c, b)
      PROVE  OwnerInv'
  BY <1>4, RespondKeeps
<1>5. ASSUME NEW c \in Conns, Step(c)
      PROVE  OwnerInv'
  <2>1. CASE \E d \in Decisions : Decide(c, d)
    BY <2>1, DecideKeeps
  <2>2. CASE \E reads \in SUBSET ReadTools, writes \in SUBSET WriteTools :
                 CallTools(c, reads, writes)
    BY <2>2, CallToolsKeeps
  <2>3. CASE \E id \in todo[c], what \in {"result", "error"} :
                 ExecuteRead(c, id, what)
    BY <2>3, ExecuteReadKeeps
  <2> QED BY <1>1, <1>5, <2>1, <2>2, <2>3 DEF Step
<1> QED BY <1>1, <1>2, <1>3, <1>4, <1>5 DEF Next, Release, Disconnect

\* A writing tool is called at most as often as some one request approved its
\* proposal, for any number of requests that decide at the same time, whatever
\* their bodies repeat or contradict, and wherever they are cancelled.
THEOREM OnlyApprovedIsWritten == Spec => []WritesWereApproved
<1>1. Init => AInv
  BY InitType, InitOwner DEF AInv
<1>2. AInv => WritesWereApproved
  BY DEF AInv, OwnerInv, SentInv, WritesWereApproved
<1> QED BY <1>1, <1>2, NextOwner, PTL DEF Spec
------------------------------------------------------------------------------
(* What the conversation says of writing tools.                            *)

\* A proposal that nobody can decide on any more, and that was never sent.
Lost(id) == /\ sent[id] = 0 /\ id \in shown /\ id \notin pending
            /\ \A c \in Conns : ~Owes(c, id)

Denied(id) == id \in contradicted \/ Lost(id)

\* The request still has to reject the proposal.
Refuses(c, id) ==
    \E i \in at[c] + 1 .. Len(body[c]) : body[c][i] = <<id, FALSE>>

DeniedInv ==
    \A id \in Proposals :
        \/ <<"rejected", id>> \in audit
        \/ \E c \in Conns : Refuses(c, id) \/ <<id, "rejected">> \in current[c]
        => Denied(id)

Audited(d) ==
    IF d[2] = "rejected" THEN <<"rejected", d[1]>> \in audit
                         ELSE <<"approved", d[1]>> \in audit

\* A decision is in the audit log before its call is made or reported.
AuditInv ==
    \A c \in Conns : /\ attached[c] => \A d \in current[c] : Audited(d)
                     /\ pc[c] = "idle" => current[c] = {}

TruthInv == AInv /\ DeniedInv /\ AuditInv /\ HistoryTellsTruth

\* What a step may do to proposals that are known.
Grown ==
    /\ shown \subseteq shown' /\ contradicted \subseteq contradicted'
    /\ \A id \in Proposals :
          \/ sent'[id] = sent[id]
          \/ \E c \in Conns : Owes(c, id) /\ sent'[id] = sent[id] + 1
    /\ \A id \in pending' : id \in pending \/ id \notin shown
    /\ \A c \in Conns, id \in Proposals :
          Owes(c, id)' => Owes(c, id) \/ id \in pending

LEMMA QuietGrowth ==
    ASSUME AInv, Quiet, contradicted' = contradicted
    PROVE  Grown
<1>1. \A c \in Conns : \A id : Owes(c, id)' => Owes(c, id)
  BY QuietLeft DEF Owes
<1> QED BY <1>1 DEF Quiet, Grown

LEMMA Growth ==
    ASSUME AInv, [Next]_vars
    PROVE  Grown
<1>types. /\ todo \in [Conns -> SUBSET Calls]
          /\ sent \in [Calls -> Nat] /\ replies \in Nat
          /\ held \in [Conns -> SUBSET Proposals]
  BY AgentAssumption DEF AInv, AgentTypeOK
<1>1. ASSUME NEW c \in Conns,
             \/ Chat(c) \/ BuildRunner(c)
             \/ \E d \in current[c] : \/ ExecuteWrite(c, d[1])
                                      \/ NotifyPrCreated(c, d[1])
                                      \/ Tell(c, d[1], d[2])
             \/ LlmFails(c) \/ NothingToKeep(c) \/ Answer(c)
             \/ KeepaliveTimeout(c) \/ Reset(c) \/ Expire
      PROVE  Grown
  <2>1. Quiet
    BY <1>1, QuietSteps
  <2>2. contradicted' = contradicted
    BY <1>1 DEF Chat, BuildRunner, ExecuteWrite, NotifyPrCreated, Tell, LlmFails,
                NothingToKeep, Answer, KeepaliveTimeout, Reset, Expire, pastVars
  <2> QED BY <2>1, <2>2, QuietGrowth
<1>2. CASE Expire \/ UNCHANGED vars
  <2>1. Quiet /\ contradicted' = contradicted
    BY <1>2 DEF Expire, Quiet, vars, turnVars, sessionVars, pastVars
  <2> QED BY <2>1, QuietGrowth
<1>3. ASSUME NEW c \in Conns, NEW n \in 0 .. MaxBody,
             NEW b \in [1 .. n -> pending \X BOOLEAN], Respond(c, b)
      PROVE  Grown
  <2>1. /\ UNCHANGED <<shown, sent>> /\ contradicted \subseteq contradicted'
        /\ pending' = {}
    BY <1>3 DEF Respond, TakePending
  <2>2. \A e \in Conns, id \in Proposals :
            Owes(e, id)' => Owes(e, id) \/ id \in pending
    BY <1>3, RespondLeft DEF Owes
  <2> QED BY <2>1, <2>2 DEF Grown
<1>4. ASSUME NEW c \in Conns, NEW d \in Decisions, Decide(c, d)
      PROVE  Grown
  <2>1. UNCHANGED <<shown, pending, contradicted>>
    BY <1>4 DEF Decide
  <2>2. /\ \A e \in Conns : e # c => \A id : Left(e, id)' = Left(e, id)
        /\ \A id \in Proposals :
              \/ /\ d = <<id, TRUE>> /\ Owes(c, id)
                 /\ sent'[id] = sent[id] + 1
                 /\ Cardinality(Left(c, id)') = Cardinality(Left(c, id)) - 1
              \/ /\ d # <<id, TRUE>> /\ sent'[id] = sent[id]
                 /\ Left(c, id)' = Left(c, id)
    BY <1>4, DecideLeft
  <2>3. \A id \in Proposals :
            \/ sent'[id] = sent[id]
            \/ \E e \in Conns : Owes(e, id) /\ sent'[id] = sent[id] + 1
    BY <2>2
  <2>4. ASSUME NEW e \in Conns, NEW id \in Proposals, Owes(e, id)'
        PROVE  Owes(e, id)
    <3>1. CASE e = c
      BY <2>2, <2>4, <3>1 DEF Owes
    <3>2. CASE e # c
      BY <2>2, <2>4, <3>2 DEF Owes
    <3> QED BY <3>1, <3>2
  <2> QED BY <2>1, <2>3, <2>4 DEF Grown
<1>5. ASSUME NEW c \in Conns, NEW h, NEW reads, NEW writes,
             AfterCalls(c, h, reads, writes), UNCHANGED <<body, at, contradicted>>,
             \A id \in Proposals : sent'[id] = sent[id],
             \A id \in writes : id \notin shown
      PROVE  Grown
  <2>1. shown \subseteq shown' /\ (pending' = pending \/ pending' = writes)
    BY <1>5, AfterCallsMoves DEF AInv
  <2>2. \A e \in Conns, id \in Proposals : Owes(e, id)' => Owes(e, id)
    BY <1>5 DEF Owes, Left
  <2> QED BY <1>5, <2>1, <2>2 DEF Grown
<1>6. ASSUME NEW c \in Conns, NEW reads \in SUBSET ReadTools,
             NEW writes \in SUBSET WriteTools, CallTools(c, reads, writes)
      PROVE  Grown
  <2> DEFINE r == reads \X {replies + 1}
             w == writes \X {replies + 1}
  <2>1. /\ AfterCalls(c, messages', r, w)
        /\ UNCHANGED <<sent, body, at, contradicted>> /\ replies < MaxReplies
    BY <1>6 DEF CallTools
  <2>2. \A id \in w : id \notin shown
    <3>1. \A id \in w : id \in Proposals /\ id[2] > replies
      BY <2>1, <1>types, AgentAssumption DEF Proposals
    <3> QED BY <3>1 DEF AInv, OwnerInv, FreshInv
  <2> HIDE DEF r, w
  <2> QED BY <2>1, <2>2, <1>5
<1>7. ASSUME NEW c \in Conns, NEW id \in todo[c],
             NEW what \in {"result", "error"}, ExecuteRead(c, id, what)
      PROVE  Grown
  <2>1. /\ AfterCalls(c, messages', todo'[c], held[c])
        /\ pc[c] = "read" /\ UNCHANGED <<body, at, contradicted>>
        /\ sent' = [sent EXCEPT ![id] = @ + 1]
    BY <1>7 DEF ExecuteRead
  <2>2. id \notin Proposals
    BY <1>types DEF AInv, OwnerInv, ReadInv
  <2>3. \A p \in Proposals : sent'[p] = sent[p]
    BY <2>1, <2>2, <1>types, ProposalIsCall
  <2>4. \A p \in held[c] : p \notin shown
    BY <2>1 DEF AInv, OwnerInv, HeldInv
  <2> DEFINE r == todo'[c]
             w == held[c]
  <2>5. AfterCalls(c, messages', r, w) /\ \A p \in w : p \notin shown
    BY <2>1, <2>4
  <2> HIDE DEF r, w
  <2> QED BY <2>1, <2>3, <2>5, <1>5
<1>8. ASSUME NEW c \in Conns, Step(c)
      PROVE  Grown
  <2>1. CASE \E d \in Decisions : Decide(c, d)
    BY <2>1, <1>4
  <2>2. CASE \E reads \in SUBSET ReadTools, writes \in SUBSET WriteTools :
                 CallTools(c, reads, writes)
    BY <2>2, <1>6
  <2>3. CASE \E id \in todo[c], what \in {"result", "error"} :
                 ExecuteRead(c, id, what)
    BY <2>3, <1>7
  <2> QED BY <1>1, <1>8, <2>1, <2>2, <2>3 DEF Step
<1> QED BY <1>1, <1>2, <1>3, <1>8 DEF Next, Release, Disconnect

\* So what is lost stays lost, and what was sent stays sent.
LEMMA LostStays ==
    ASSUME AInv, [Next]_vars, NEW id \in Proposals
    PROVE  /\ Denied(id) => Denied(id)'
           /\ sent[id] > 0 => sent'[id] > 0
<1>1. Grown /\ sent[id] \in Nat
  BY Growth, ProposalIsCall DEF AInv, AgentTypeOK
<1>2. Lost(id) => Lost(id)'
  BY <1>1 DEF Lost, Grown
<1>3. Denied(id) => Denied(id)'
  BY <1>1, <1>2 DEF Denied, Grown
<1>4. sent'[id] = sent[id] \/ sent'[id] = sent[id] + 1
  BY <1>1 DEF Grown
<1> QED BY <1>1, <1>3, <1>4

\* HistoryTellsTruth, of one message.
Truthful(m) ==
    m.kind = "tool" /\ IsWrite(m.id) =>
        IF m.says = "rejected"
        THEN /\ sent[m.id] = 0 \/ m.id \in contradicted
             /\ <<"rejected", m.id>> \in audit
        ELSE sent[m.id] > 0 /\ <<"approved", m.id>> \in audit

\* What is added to the conversation is the truth.
Honest ==
    \/ messages' = messages
    \/ \E m \in Messages : Truthful(m) /\ messages' = Append(messages, m)

\* Steps that decide nothing: the decisions are kept or dropped.
Plain ==
    /\ \A c \in Conns, id \in Proposals :
          /\ Refuses(c, id)' => Refuses(c, id)
          /\ <<id, "rejected">> \in current'[c] => <<id, "rejected">> \in current[c]
    /\ \A id \in Proposals :
          <<"rejected", id>> \in audit' => <<"rejected", id>> \in audit
    /\ \A c \in Conns : pc'[c] = "idle" => current'[c] = {}
    /\ \/ messages' = <<>> /\ \A c \in Conns : attached'[c] => current'[c] = {}
       \/ /\ audit \subseteq audit' /\ Honest
          /\ \A c \in Conns : attached'[c] => \A d \in current'[c] :
                /\ attached[c]
                /\ \E e \in current[c] :
                      e[1] = d[1] /\ (e[2] = "rejected" <=> d[2] = "rejected")

\* A call is writing or not, and then a proposal or not.
LEMMA WritesAreProposals ==
    \A id \in Calls : IsWrite(id) <=> id \in Proposals
BY AgentAssumption DEF IsWrite, Calls, Proposals, Tools

LEMMA TruthfulStays ==
    ASSUME AInv, [Next]_vars, DeniedInv, NEW m \in Messages, Truthful(m),
           audit \subseteq audit'
    PROVE  Truthful(m)'
<1> SUFFICES ASSUME m.kind = "tool", IsWrite(m.id)
             PROVE  IF m.says = "rejected"
                    THEN /\ sent'[m.id] = 0 \/ m.id \in contradicted'
                         /\ <<"rejected", m.id>> \in audit'
                    ELSE sent'[m.id] > 0 /\ <<"approved", m.id>> \in audit'
  BY DEF Truthful, IsWrite
<1>1. m.id \in Calls
  BY DEF Messages
<1>2. m.id \in Proposals
  BY <1>1, WritesAreProposals
<1>3. CASE m.says = "rejected"
  <2>1. <<"rejected", m.id>> \in audit
    BY <1>3 DEF Truthful
  <2>2. Denied(m.id)
    BY <1>2, <2>1 DEF DeniedInv
  <2>3. Denied(m.id)'
    BY <1>2, <2>2, LostStays
  <2> QED BY <1>3, <2>1, <2>3 DEF Denied, Lost
<1>4. CASE m.says # "rejected"
  BY <1>2, <1>4, LostStays DEF Truthful
<1> QED BY <1>3, <1>4

LEMMA HistoryKeeps ==
    ASSUME TruthInv, [Next]_vars,
           messages' = <<>> \/ (audit \subseteq audit' /\ Honest)
    PROVE  HistoryTellsTruth'
<1>1. messages \in Seq(Messages) /\ Len(messages) \in Nat
  BY DEF TruthInv, AInv, AgentTypeOK
<1>2. ASSUME NEW m \in Messages, Truthful(m), audit \subseteq audit'
      PROVE  Truthful(m)'
  BY <1>2, TruthfulStays DEF TruthInv
<1>3. \A n \in 1 .. Len(messages) :
          messages[n] \in Messages /\ Truthful(messages[n])
  BY <1>1 DEF TruthInv, HistoryTellsTruth, Truthful
<1> SUFFICES ASSUME NEW n \in 1 .. Len(messages')
             PROVE  \A m : m = messages'[n] => Truthful(m)'
  BY DEF HistoryTellsTruth, Truthful
<1>4. messages' # <<>> /\ audit \subseteq audit' /\ Honest
  OBVIOUS
<1>5. CASE messages' = messages
  BY <1>2, <1>3, <1>4, <1>5
<1>6. ASSUME NEW m \in Messages, Truthful(m), messages' = Append(messages, m)
      PROVE  \A x : x = messages'[n] => Truthful(x)'
  <2>1. CASE n \in 1 .. Len(messages)
    <3>1. messages'[n] = messages[n]
      BY <1>1, <1>6, <2>1
    <3> QED BY <1>2, <1>3, <1>4, <2>1, <3>1
  <2>2. CASE n = Len(messages) + 1
    <3>1. messages'[n] = m
      BY <1>1, <1>6, <2>2
    <3> QED BY <1>2, <1>4, <1>6, <3>1
  <2> QED BY <1>1, <1>6, <2>1, <2>2
<1> QED BY <1>4, <1>5, <1>6 DEF Honest

LEMMA PlainKeeps ==
    ASSUME TruthInv, [Next]_vars, Plain
    PROVE  TruthInv'
<1>1. AInv'
  BY NextOwner DEF TruthInv
<1>2. DeniedInv'
  <2> SUFFICES ASSUME NEW id \in Proposals,
                      \/ <<"rejected", id>> \in audit'
                      \/ \E c \in Conns : \/ Refuses(c, id)'
                                          \/ <<id, "rejected">> \in current'[c]
               PROVE  Denied(id)'
    BY DEF DeniedInv
  <2>1. Denied(id)
    BY DEF TruthInv, DeniedInv, Plain
  <2> QED BY <2>1, LostStays DEF TruthInv
<1>3. AuditInv'
  <2> SUFFICES ASSUME NEW c \in Conns, attached'[c], NEW d \in current'[c]
               PROVE  Audited(d)'
    BY DEF AuditInv, Plain
  <2>1. /\ audit \subseteq audit' /\ attached[c]
        /\ \E e \in current[c] :
              e[1] = d[1] /\ (e[2] = "rejected" <=> d[2] = "rejected")
    BY DEF Plain
  <2> QED BY <2>1 DEF TruthInv, AuditInv, Audited
<1>4. HistoryTellsTruth'
  BY HistoryKeeps DEF Plain
<1> QED BY <1>1, <1>2, <1>3, <1>4 DEF TruthInv

\* A turn says something true, or nothing when its session is gone.
LEMMA SayHonest ==
    ASSUME NEW c \in Conns, NEW m \in Messages, Say(c, m),
           attached[c] => Truthful(m)
    PROVE  Honest
BY DEF Say, Honest

\* A step that leaves the decisions and their outcomes alone.
LEMMA PlainFrame ==
    ASSUME TruthInv, UNCHANGED <<body, at, current, attached>>,
           \A c \in Conns : pc'[c] = "idle" => pc[c] = "idle",
           \A id \in Proposals :
               <<"rejected", id>> \in audit' => <<"rejected", id>> \in audit,
           audit \subseteq audit', Honest
    PROVE  Plain
<1>1. \A c \in Conns, id \in Proposals : Refuses(c, id)' => Refuses(c, id)
  BY DEF Refuses
<1>2. \A c \in Conns : pc'[c] = "idle" => current'[c] = {}
  BY DEF TruthInv, AuditInv
<1>3. \A c \in Conns : attached'[c] => \A d \in current'[c] :
          /\ attached[c]
          /\ \E e \in current[c] :
                e[1] = d[1] /\ (e[2] = "rejected" <=> d[2] = "rejected")
  OBVIOUS
<1> QED BY <1>1, <1>2, <1>3 DEF Plain

LEMMA PlainRequests ==
    ASSUME TruthInv, NEW c \in Conns,
           \/ Chat(c) \/ BuildRunner(c)
           \/ \E d \in current[c] : \/ ExecuteWrite(c, d[1])
                                    \/ NotifyPrCreated(c, d[1])
                                    \/ Tell(c, d[1], d[2])
    PROVE  Plain
<1>types. /\ pc \in [Conns -> Places]
          /\ current \in [Conns -> SUBSET (Proposals \X Outcomes)]
          /\ messages \in Seq(Messages)
  BY DEF TruthInv, AInv, AgentTypeOK
<1>1. CASE Chat(c)
  <2>1. UserMsg \in Messages /\ Truthful(UserMsg)
    BY DEF UserMsg, Messages, Truthful
  <2>2. Honest
    BY <1>1, <2>1 DEF Chat, Honest
  <2> QED BY <1>1, <1>types, <2>2, PlainFrame DEF Chat, Goto
<1>2. CASE BuildRunner(c)
  BY <1>2, <1>types, PlainFrame
     DEF BuildRunner, CallLlm, Goto, Honest, sessionVars, pastVars
<1>3. ASSUME NEW d \in current[c], ExecuteWrite(c, d[1])
      PROVE  Plain
  <2>1. /\ UNCHANGED <<body, at, attached, messages>>
        /\ pc' \in [Conns -> Places]
        /\ \A e \in Conns : pc'[e] = "idle" => pc[e] = "idle"
        /\ pc'[c] # "idle"
    BY <1>3, <1>types DEF ExecuteWrite, Goto, Places, Awaits
  <2>2. /\ Log(c, "tool_result", d[1]) \/ Log(c, "tool_error", d[1])
        /\ current[c] = {<<d[1], "called">>}
        /\ \/ current' = [current EXCEPT ![c] = {<<d[1], "result">>}]
           \/ current' = [current EXCEPT ![c] = {<<d[1], "error">>}]
    BY <1>3 DEF ExecuteWrite
  <2>3. /\ audit \subseteq audit'
        /\ \A id : <<"rejected", id>> \in audit' => <<"rejected", id>> \in audit
    BY <2>2 DEF Log
  <2>4. \A e \in Conns : \A x \in current'[e] :
            \/ e # c /\ x \in current[e]
            \/ e = c /\ x[1] = d[1] /\ x[2] # "rejected"
    BY <2>2, <1>types
  <2>5. \A e \in Conns : \A x \in current'[e] : \E y \in current[e] :
            y[1] = x[1] /\ (y[2] = "rejected" <=> x[2] = "rejected")
    <3>1. <<d[1], "called">> \in current[c]
      BY <2>2
    <3>2. <<d[1], "called">>[1] = d[1] /\ <<d[1], "called">>[2] # "rejected"
      OBVIOUS
    <3> QED BY <2>4, <3>1, <3>2
  <2>6. \A e \in Conns, id \in Proposals :
            /\ Refuses(e, id)' => Refuses(e, id)
            /\ <<id, "rejected">> \in current'[e] => <<id, "rejected">> \in current[e]
    BY <2>1, <2>4 DEF Refuses
  <2>7. \A e \in Conns : pc'[e] = "idle" => current'[e] = {}
    BY <2>1, <2>2, <1>types DEF TruthInv, AuditInv
  <2> QED BY <2>1, <2>3, <2>5, <2>6, <2>7 DEF Plain, Honest
<1>4. ASSUME NEW d \in current[c], NotifyPrCreated(c, d[1])
      PROVE  Plain
  BY <1>4, <1>types, PlainFrame DEF NotifyPrCreated, Goto, Honest, sessionVars
<1>5. ASSUME NEW d \in current[c], Tell(c, d[1], d[2])
      PROVE  Plain
  <2>1. d[1] \in Proposals /\ d[1] \in Calls /\ d[2] \in Answers /\ d = <<d[1], d[2]>>
    BY <1>5, <1>types, ProposalIsCall DEF Tell
  <2>2. /\ Say(c, ToolMsg(d[1], d[2]))
        /\ UNCHANGED <<body, at, attached, audit>>
        /\ current' = [current EXCEPT ![c] = {}]
        /\ pc'[c] # "idle" /\ \A e \in Conns : e # c => pc'[e] = pc[e]
    BY <1>5, <1>types DEF Tell, WhatItSaid
  <2>3. ToolMsg(d[1], d[2]) \in Messages
    BY <2>1, ToolMsgType
  <2>4. ASSUME attached[c]
        PROVE  Truthful(ToolMsg(d[1], d[2]))
    <3>1. Audited(d)
      BY <2>4 DEF TruthInv, AuditInv
    <3>2. d[2] # "rejected" => sent[d[1]] > 0
      BY DEF TruthInv, AInv, OwnerInv, CurrentInv
    <3>3. d[2] = "rejected" => Denied(d[1])
      BY <2>1 DEF TruthInv, DeniedInv
    <3>4. d[2] = "rejected" => sent[d[1]] = 0 \/ d[1] \in contradicted
      BY <3>3 DEF Denied, Lost
    <3> QED BY <3>1, <3>2, <3>4 DEF Truthful, ToolMsg, Audited
  <2>5. Honest
    BY <2>2, <2>3, <2>4, SayHonest
  <2>6. \A e \in Conns : current'[e] \subseteq current[e]
    BY <2>2, <1>types
  <2>7. \A e \in Conns, id \in Proposals : Refuses(e, id)' => Refuses(e, id)
    BY <2>2 DEF Refuses
  <2>8. \A e \in Conns : pc'[e] = "idle" => current'[e] = {}
    BY <2>2, <2>6 DEF TruthInv, AuditInv
  <2>9. \A e \in Conns : \A x \in current'[e] : \E y \in current[e] :
            y[1] = x[1] /\ (y[2] = "rejected" <=> x[2] = "rejected")
    BY <2>6
  <2> QED BY <2>2, <2>5, <2>6, <2>7, <2>8, <2>9 DEF Plain
<1> QED BY <1>1, <1>2, <1>3, <1>4, <1>5

LEMMA PlainSteps ==
    ASSUME TruthInv, NEW c \in Conns,
           \/ LlmFails(c) \/ NothingToKeep(c) \/ Answer(c)
           \/ \E reads \in SUBSET ReadTools, writes \in SUBSET WriteTools :
                  CallTools(c, reads, writes)
           \/ \E id \in todo[c], what \in {"result", "error"} :
                  ExecuteRead(c, id, what)
           \/ KeepaliveTimeout(c) \/ Reset(c)
    PROVE  Plain
<1>types. /\ pc \in [Conns -> Places] /\ todo \in [Conns -> SUBSET Calls]
          /\ current \in [Conns -> SUBSET (Proposals \X Outcomes)]
          /\ messages \in Seq(Messages)
  BY DEF TruthInv, AInv, AgentTypeOK
<1>1. CASE LlmFails(c) \/ NothingToKeep(c)
  BY <1>1, <1>types, PlainFrame
     DEF LlmFails, NothingToKeep, End, Honest, sessionVars, pastVars
<1>2. CASE Answer(c)
  <2>1. TextMsg \in Messages /\ Truthful(TextMsg)
    BY DEF TextMsg, Messages, Truthful
  <2>2. Honest
    BY <1>2, <2>1, SayHonest DEF Answer
  <2> QED BY <1>2, <1>types, <2>2, PlainFrame DEF Answer, End
<1>3. ASSUME NEW reads \in SUBSET ReadTools, NEW writes \in SUBSET WriteTools,
             CallTools(c, reads, writes)
      PROVE  Plain
  <2> DEFINE r == reads \X {replies + 1}
             w == writes \X {replies + 1}
             m == [kind |-> "calls", ids |-> r \cup w]
  <2>1. /\ AfterCalls(c, messages', r, w) /\ Say(c, m) /\ replies < MaxReplies
        /\ UNCHANGED <<audit, current, attached, body, at>>
    BY <1>3 DEF CallTools
  <2>2. m \in Messages /\ Truthful(m)
    <3>1. r \cup w \in SUBSET Calls
      BY <2>1, AgentAssumption
         DEF TruthInv, AInv, AgentTypeOK, Calls, Tools
    <3> QED BY <3>1 DEF Messages, Truthful
  <2> HIDE DEF r, w, m
  <2>3. Honest
    BY <2>1, <2>2, SayHonest
  <2>4. /\ \A e \in Conns : e # c => pc'[e] = pc[e]
        /\ pc'[c] \in {"read", "llm", "closed"}
    BY <2>1, AfterCallsMoves DEF TruthInv, AInv
  <2> QED BY <2>1, <2>3, <2>4, PlainFrame
<1>4. ASSUME NEW id \in todo[c], NEW what \in {"result", "error"},
             ExecuteRead(c, id, what)
      PROVE  Plain
  <2> DEFINE m == ToolMsg(id, what)
             r == todo'[c]
             w == held[c]
  <2>1. /\ AfterCalls(c, messages', r, w) /\ Say(c, m)
        /\ UNCHANGED <<current, attached, body, at>>
        /\ Log(c, "tool_result", id) \/ Log(c, "tool_error", id)
    BY <1>4 DEF ExecuteRead, ReadAnswer
  <2>2. id \in Calls /\ id \notin Proposals
    BY <1>types DEF TruthInv, AInv, OwnerInv, ReadInv
  <2>3. m \in Messages /\ Truthful(m)
    <3>1. ~IsWrite(id) /\ m.id = id
      BY <2>2, WritesAreProposals DEF ToolMsg
    <3> QED BY <2>2, <3>1, ToolMsgType DEF Truthful, Answers
  <2>4. /\ audit \subseteq audit'
        /\ \A p : <<"rejected", p>> \in audit' => <<"rejected", p>> \in audit
    BY <2>1 DEF Log
  <2> HIDE DEF m, r, w
  <2>5. Honest
    BY <2>1, <2>3, SayHonest
  <2>6. /\ \A e \in Conns : e # c => pc'[e] = pc[e]
        /\ pc'[c] \in {"read", "llm", "closed"}
    BY <2>1, AfterCallsMoves DEF TruthInv, AInv
  <2> QED BY <2>1, <2>4, <2>5, <2>6, PlainFrame
<1>5. CASE KeepaliveTimeout(c)
  BY <1>5, <1>types, PlainFrame DEF KeepaliveTimeout, End, Honest, sessionVars
<1>6. CASE Reset(c)
  <2>1. /\ UNCHANGED <<messages, audit>>
        /\ \A e \in Conns :
              IF e = c THEN current'[e] = {} /\ body'[e] = <<>> /\ at'[e] = 0
              ELSE /\ pc'[e] = pc[e] /\ current'[e] = current[e]
                   /\ body'[e] = body[e] /\ at'[e] = at[e]
                   /\ attached'[e] = attached[e]
    BY <1>6 DEF Reset, sessionVars, TruthInv, AInv, AgentTypeOK
  <2>2. ASSUME NEW e \in Conns, NEW id \in Proposals, Refuses(e, id)'
        PROVE  Refuses(e, id)
    <3>1. e # c
      <4>1. CASE e = c
        <5>1. body'[c] = <<>> /\ at'[c] = 0
          BY <2>1
        <5>2. at'[c] + 1 .. Len(body'[c]) = {}
          BY <5>1
        <5> QED BY <2>2, <4>1, <5>2 DEF Refuses
      <4> QED BY <4>1
    <3> QED BY <2>1, <2>2, <3>1 DEF Refuses
  <2>3. \A e \in Conns : current'[e] = {} \/ (current'[e] = current[e] /\ pc'[e] = pc[e]
                                              /\ attached'[e] = attached[e])
    BY <2>1
  <2>4. \A e \in Conns : pc'[e] = "idle" => current'[e] = {}
    BY <2>3 DEF TruthInv, AuditInv
  <2>5. \A e \in Conns : attached'[e] => \A d \in current'[e] :
            /\ attached[e]
            /\ \E x \in current[e] :
                  x[1] = d[1] /\ (x[2] = "rejected" <=> d[2] = "rejected")
    BY <2>3
  <2>6. \A e \in Conns, id \in Proposals :
            <<id, "rejected">> \in current'[e] => <<id, "rejected">> \in current[e]
    BY <2>3
  <2> QED BY <2>1, <2>2, <2>4, <2>5, <2>6 DEF Plain, Honest
<1> QED BY <1>1, <1>2, <1>3, <1>4, <1>5, <1>6

\* The session a removed one leaves behind knows of no turn that runs.
LEMMA PlainExpiry ==
    ASSUME TruthInv, Expire
    PROVE  Plain
<1>1. /\ UNCHANGED <<pc, body, at, current>> /\ audit' = {} /\ messages' = <<>>
      /\ \A c \in Conns : attached'[c] => pc[c] = "idle"
  BY DEF Expire
<1>2. \A c \in Conns : pc[c] = "idle" => current[c] = {}
  BY DEF TruthInv, AuditInv
<1> QED BY <1>1, <1>2 DEF Plain, Refuses

\* A rejected proposal that the request takes is lost at once, unless the same
\* request approves it too.
LEMMA RespondTellsTruth ==
    ASSUME TruthInv, [Next]_vars, NEW c \in Conns, NEW n \in 0 .. MaxBody,
           NEW b \in [1 .. n -> pending \X BOOLEAN], Respond(c, b)
    PROVE  TruthInv'
<1>1. /\ UNCHANGED <<messages, audit, current, attached, shown, sent>>
      /\ pending' = {}
      /\ pc \in [Conns -> Places] /\ pc' = [pc EXCEPT ![c] = "build"]
      /\ body \in [Conns -> Seq(Decisions)] /\ at \in [Conns -> 0 .. MaxBody]
      /\ body' = [body EXCEPT ![c] = b] /\ at' = [at EXCEPT ![c] = 0]
  BY DEF Respond, Goto, TakePending, TruthInv, AInv, AgentTypeOK
<1>2. AInv'
  BY NextOwner DEF TruthInv
<1>3. HistoryTellsTruth'
  BY <1>1, HistoryKeeps DEF Honest
<1>4. AuditInv'
  BY <1>1 DEF TruthInv, AuditInv, Audited
<1>5. /\ \A id : Left(c, id)' = Approvals(b, id)
      /\ \A e \in Conns : e # c => \A id : Left(e, id)' = Left(e, id)
  BY RespondLeft DEF TruthInv
<1>6. ASSUME NEW id \in Proposals, Refuses(c, id)'
      PROVE  Denied(id)'
  <2>1. b \in Seq(Decisions) /\ Len(b) = n /\ DOMAIN b = 1 .. n /\ n \in Nat
        /\ \A i \in 1 .. n : b[i][1] \in pending
    BY BodyType, AgentAssumption DEF TruthInv, AInv
  <2>2. body'[c] = b /\ at'[c] = 0
    BY <1>1
  <2>3. at'[c] + 1 .. Len(body'[c]) = 1 .. n
    BY <2>1, <2>2
  <2>4. PICK i \in 1 .. n : b[i] = <<id, FALSE>>
    BY <1>6, <2>2, <2>3 DEF Refuses
  <2>5. id \in pending
    <3>1. b[i][1] = id
      BY <2>4
    <3> QED BY <2>1, <3>1
  <2>6. Rejections(b, id) # {}
    BY <2>1, <2>4 DEF Rejections
  <2>7. CASE Approvals(b, id) # {}
    BY <2>5, <2>6, <2>7 DEF Respond, Denied
  <2>8. CASE Approvals(b, id) = {}
    <3>1. sent[id] = 0 /\ id \in shown /\ \A e \in Conns : ~Owes(e, id)
      BY <2>5 DEF TruthInv, AInv, OwnerInv, PendingInv
    <3>2. ASSUME NEW e \in Conns
          PROVE  ~Owes(e, id)'
      <4>1. CASE e = c
        BY <1>5, <2>8, <4>1 DEF Owes
      <4>2. CASE e # c
        BY <1>5, <3>1, <4>2 DEF Owes
      <4> QED BY <4>1, <4>2
    <3> QED BY <1>1, <3>1, <3>2 DEF Denied, Lost
  <2> QED BY <2>7, <2>8
<1>7. DeniedInv'
  <2> SUFFICES ASSUME NEW id \in Proposals,
                      \/ <<"rejected", id>> \in audit'
                      \/ \E e \in Conns : \/ Refuses(e, id)'
                                          \/ <<id, "rejected">> \in current'[e]
               PROVE  Denied(id)'
    BY DEF DeniedInv
  <2>1. CASE Refuses(c, id)'
    BY <1>6, <2>1
  <2>2. CASE ~Refuses(c, id)'
    <3>1. \A e \in Conns : e # c => (Refuses(e, id)' => Refuses(e, id))
      BY <1>1 DEF Refuses
    <3>2. \/ <<"rejected", id>> \in audit
          \/ \E e \in Conns : Refuses(e, id) \/ <<id, "rejected">> \in current[e]
      BY <1>1, <2>2, <3>1
    <3>3. Denied(id)
      BY <3>2 DEF TruthInv, DeniedInv
    <3> QED BY <3>3, LostStays DEF TruthInv
  <2> QED BY <2>1, <2>2
<1> QED BY <1>2, <1>3, <1>4, <1>7 DEF TruthInv

\* The audit log is written before the call is made.
LEMMA DecideTellsTruth ==
    ASSUME TruthInv, [Next]_vars, NEW c \in Conns, NEW d \in Decisions, Decide(c, d)
    PROVE  TruthInv'
<1> DEFINE outcome == IF d[2] THEN "called" ELSE "rejected"
<1>1. /\ UNCHANGED <<messages, body, attached>>
      /\ Log(c, IF d[2] THEN "approved" ELSE "rejected", d[1])
      /\ pc \in [Conns -> Places]
      /\ pc' = [pc EXCEPT ![c] = IF d[2] THEN "exec" ELSE "tell"]
      /\ at \in [Conns -> 0 .. MaxBody] /\ at' = [at EXCEPT ![c] = @ + 1]
      /\ at[c] < Len(body[c]) /\ d = body[c][at[c] + 1]
      /\ current \in [Conns -> SUBSET (Proposals \X Outcomes)]
      /\ current' = [current EXCEPT ![c] = {<<d[1], outcome>>}]
  BY DEF Decide, Goto, TruthInv, AInv, AgentTypeOK
<1>2. d = <<d[1], d[2]>> /\ d[1] \in Proposals /\ d[2] \in BOOLEAN
  BY DEF Decisions
<1>3. AInv'
  BY NextOwner DEF TruthInv
<1>4. audit \subseteq audit'
  BY <1>1 DEF Log
<1>5. HistoryTellsTruth'
  BY <1>1, <1>4, HistoryKeeps DEF Honest
<1>6. ~d[2] => Denied(d[1])
  <2> SUFFICES ASSUME ~d[2] PROVE Denied(d[1])
    OBVIOUS
  <2>1. at[c] + 1 \in at[c] + 1 .. Len(body[c])
    BY <1>1, LeftType DEF TruthInv, AInv
  <2>2. d = <<d[1], FALSE>>
    BY <1>2
  <2>3. Refuses(c, d[1])
    BY <1>1, <2>1, <2>2 DEF Refuses
  <2> QED BY <1>2, <2>3 DEF TruthInv, DeniedInv
<1>7. DeniedInv'
  <2> SUFFICES ASSUME NEW id \in Proposals,
                      \/ <<"rejected", id>> \in audit'
                      \/ \E e \in Conns : \/ Refuses(e, id)'
                                          \/ <<id, "rejected">> \in current'[e]
               PROVE  Denied(id)'
    BY DEF DeniedInv
  <2>1. ASSUME NEW e \in Conns, Refuses(e, id)'
        PROVE  Refuses(e, id)
    <3>1. /\ at[e] \in Nat /\ Len(body[e]) \in Nat
          /\ at'[e] = at[e] \/ at'[e] = at[e] + 1
      BY <1>1, LeftType DEF TruthInv, AInv
    <3>2. \A i \in at'[e] + 1 .. Len(body[e]) : i \in at[e] + 1 .. Len(body[e])
      BY <3>1
    <3> QED BY <1>1, <2>1, <3>2 DEF Refuses
  <2>2. ASSUME NEW e \in Conns, <<id, "rejected">> \in current'[e]
        PROVE  <<id, "rejected">> \in current[e] \/ (~d[2] /\ id = d[1])
    BY <1>1, <1>2, <2>2
  <2>3. <<"rejected", id>> \in audit' =>
            <<"rejected", id>> \in audit \/ (~d[2] /\ id = d[1])
    BY <1>1, <1>2 DEF Log
  <2>4. Denied(id)
    BY <1>6, <2>1, <2>2, <2>3 DEF TruthInv, DeniedInv
  <2> QED BY <2>4, LostStays DEF TruthInv
<1>8. AuditInv'
  <2> SUFFICES ASSUME NEW e \in Conns
               PROVE  /\ attached'[e] => \A x \in current'[e] : Audited(x)'
                      /\ pc'[e] = "idle" => current'[e] = {}
    BY DEF AuditInv
  <2>1. CASE e # c
    <3>1. current'[e] = current[e] /\ pc'[e] = pc[e] /\ attached'[e] = attached[e]
      BY <1>1, <2>1
    <3> QED BY <1>4, <3>1 DEF TruthInv, AuditInv, Audited
  <2>2. CASE e = c
    <3>1. current'[c] = {<<d[1], outcome>>} /\ pc'[c] # "idle"
          /\ attached'[c] = attached[c]
      BY <1>1
    <3>2. ASSUME attached[c]
          PROVE  <<IF d[2] THEN "approved" ELSE "rejected", d[1]>> \in audit'
      BY <1>1, <3>2 DEF Log
    <3>3. attached[c] => Audited(<<d[1], outcome>>)'
      BY <3>2 DEF Audited
    <3> HIDE DEF outcome
    <3> QED BY <2>2, <3>1, <3>3
  <2> QED BY <2>1, <2>2
<1> QED BY <1>3, <1>5, <1>7, <1>8 DEF TruthInv

LEMMA TruthStep == TruthInv /\ [Next]_vars => TruthInv'
<1> SUFFICES ASSUME TruthInv, [Next]_vars PROVE TruthInv'
  OBVIOUS
<1>1. ASSUME NEW c \in Conns, Chat(c) \/ KeepaliveTimeout(c) \/ Reset(c)
      PROVE  TruthInv'
  BY <1>1, PlainRequests, PlainSteps, PlainKeeps
<1>2. ASSUME NEW c \in Conns, Step(c)
      PROVE  TruthInv'
  <2>1. CASE \E d \in Decisions : Decide(c, d)
    BY <2>1, DecideTellsTruth
  <2>2. CASE ~ \E d \in Decisions : Decide(c, d)
    <3>1. Plain
      BY <1>2, <2>2, PlainRequests, PlainSteps DEF Step
    <3> QED BY <3>1, PlainKeeps
  <2> QED BY <2>1, <2>2
<1>3. ASSUME NEW c \in Conns, NEW n \in 0 .. MaxBody,
             NEW b \in [1 .. n -> pending \X BOOLEAN], Respond(c, b)
      PROVE  TruthInv'
  BY <1>3, RespondTellsTruth
<1>4. CASE Expire
  BY <1>4, PlainExpiry, PlainKeeps
<1>5. CASE UNCHANGED vars
  <2>1. Plain
    BY <1>5, PlainFrame
       DEF Honest, vars, turnVars, sessionVars, pastVars
  <2> QED BY <2>1, PlainKeeps
<1> QED BY <1>1, <1>2, <1>3, <1>4, <1>5 DEF Next, Release, Disconnect

\* The conversation does not lie about writing tools, whatever is decided
\* twice, cut or repeated by any number of requests at a time: what it calls
\* rejected was never made, unless one request rejected and approved it; what
\* it answers was made; and both are audited.
THEOREM HistoryIsTrue == Spec => []HistoryTellsTruth
<1>1. Init => TruthInv
  <2> SUFFICES ASSUME Init PROVE TruthInv
    OBVIOUS
  <2>1. AInv
    BY InitType, InitOwner DEF AInv
  <2>2. DeniedInv
    <3>1. \A c \in Conns : \A id : ~Refuses(c, id)
      BY DEF Init, Refuses
    <3> QED BY <3>1 DEF Init, DeniedInv
  <2>3. AuditInv /\ HistoryTellsTruth
    BY DEF Init, AuditInv, HistoryTellsTruth
  <2> QED BY <2>1, <2>2, <2>3 DEF TruthInv
<1>2. TruthInv => HistoryTellsTruth
  BY DEF TruthInv
<1> QED BY <1>1, <1>2, TruthStep, PTL DEF Spec
------------------------------------------------------------------------------
(* What the provider is sent when one request at a time is served, and the *)
(* client decides on all proposals, once each, before it goes on.          *)
\* Every answer stands behind its call.
Rooted(h) ==
    \A j \in 1 .. Len(h) : h[j].kind = "tool" =>
        \E i \in 1 .. j - 1 : /\ h[i].kind = "calls" /\ h[j].id \in h[i].ids
                              /\ AnswersFollow(h, i, j)

\* An answer to an unanswered call can still be added.
Open(h) ==
    \A i \in 1 .. Len(h) : h[i].kind = "calls" =>
        \A id \in h[i].ids :
            AnswerTo(h, i, id) = {} => AnswersFollow(h, i, Len(h))

LEMMA AnswerableInParts ==
    ASSUME NEW h
    PROVE  Answerable(h) <=> Unanswered(h) = {} /\ Rooted(h)
BY DEF Answerable, Rooted

LEMMA UnansweredMeans ==
    ASSUME NEW h, NEW id
    PROVE  id \in Unanswered(h) <=>
               \E i \in 1 .. Len(h) : /\ h[i].kind = "calls" /\ id \in h[i].ids
                                      /\ AnswerTo(h, i, id) = {}
BY DEF Unanswered

\* A message added to a conversation leaves the others where they are.
LEMMA Added ==
    ASSUME NEW h \in Seq(Messages), NEW m \in Messages
    PROVE  LET g == Append(h, m) IN
           /\ Len(h) \in Nat /\ Len(g) = Len(h) + 1 /\ g[Len(g)] = m
           /\ \A i \in 1 .. Len(h) : g[i] = h[i] /\ i \in 1 .. Len(g)
           /\ \A i \in 1 .. Len(g) : i \in 1 .. Len(h) \/ i = Len(g)
<1> DEFINE g == Append(h, m)
<1>1. Len(h) \in Nat /\ Len(g) = Len(h) + 1
  OBVIOUS
<1>2. g[Len(h) + 1] = m /\ \A i \in 1 .. Len(h) : g[i] = h[i]
  OBVIOUS
<1> HIDE DEF g
<1>3. /\ \A i \in 1 .. Len(h) : i \in 1 .. Len(g)
      /\ \A i \in 1 .. Len(g) : i \in 1 .. Len(h) \/ i = Len(g)
  BY <1>1
<1> QED BY <1>1, <1>2, <1>3 DEF g

\* What follows a call, before and after a message is added.
LEMMA StillFollow ==
    ASSUME NEW h \in Seq(Messages), NEW m \in Messages,
           NEW i \in 1 .. Len(h)
    PROVE  LET g == Append(h, m) IN
           /\ \A j \in 1 .. Len(h) :
                 AnswersFollow(g, i, j) <=> AnswersFollow(h, i, j)
           /\ AnswersFollow(g, i, Len(g)) <=>
                 AnswersFollow(h, i, Len(h)) /\ m.kind = "tool"
<1> DEFINE g == Append(h, m)
<1>1. /\ Len(h) \in Nat /\ Len(g) = Len(h) + 1 /\ g[Len(g)] = m
      /\ \A k \in 1 .. Len(h) : g[k] = h[k]
  BY Added
<1> HIDE DEF g
<1>2. ASSUME NEW j \in 1 .. Len(h)
      PROVE  AnswersFollow(g, i, j) <=> AnswersFollow(h, i, j)
  BY <1>1 DEF AnswersFollow
<1>3. AnswersFollow(g, i, Len(g)) <=>
          AnswersFollow(h, i, Len(h)) /\ m.kind = "tool"
  <2>1. \A k \in i + 1 .. Len(h) : k \in 1 .. Len(h) /\ k \in i + 1 .. Len(g)
    BY <1>1
  <2>2. \A k \in i + 1 .. Len(g) : k \in i + 1 .. Len(h) \/ k = Len(g)
    BY <1>1
  <2>3. Len(g) \in i + 1 .. Len(g)
    BY <1>1
  <2> QED BY <1>1, <2>1, <2>2, <2>3 DEF AnswersFollow
<1> QED BY <1>2, <1>3 DEF g

\* The answers to a call are those it had, and the new message if it is one.
LEMMA AnswersAdded ==
    ASSUME NEW h \in Seq(Messages), NEW m \in Messages,
           NEW i \in 1 .. Len(h), NEW id
    PROVE  LET g == Append(h, m) IN
           AnswerTo(g, i, id) = {} <=>
               /\ AnswerTo(h, i, id) = {}
               /\ ~ (m.kind = "tool" /\ m.id = id
                     /\ AnswersFollow(h, i, Len(h)))
<1> DEFINE g == Append(h, m)
<1>1. /\ Len(h) \in Nat /\ Len(g) = Len(h) + 1 /\ g[Len(g)] = m
      /\ \A k \in 1 .. Len(h) : g[k] = h[k]
  BY Added
<1>2. /\ \A j \in 1 .. Len(h) :
             AnswersFollow(g, i, j) <=> AnswersFollow(h, i, j)
      /\ AnswersFollow(g, i, Len(g)) <=>
             AnswersFollow(h, i, Len(h)) /\ m.kind = "tool"
  BY StillFollow
<1> HIDE DEF g
<1>3. \A j \in i + 1 .. Len(h) : j \in 1 .. Len(h) /\ j \in i + 1 .. Len(g)
  BY <1>1
<1>4. \A j \in i + 1 .. Len(g) : j \in i + 1 .. Len(h) \/ j = Len(g)
  BY <1>1
<1>5. Len(g) \in i + 1 .. Len(g)
  BY <1>1
<1>6. \A j \in i + 1 .. Len(h) :
          j \in AnswerTo(g, i, id) <=> j \in AnswerTo(h, i, id)
  BY <1>1, <1>2, <1>3 DEF AnswerTo
<1>7. Len(g) \in AnswerTo(g, i, id) <=>
          m.kind = "tool" /\ m.id = id /\ AnswersFollow(h, i, Len(h))
  BY <1>1, <1>2, <1>5 DEF AnswerTo
<1>8. /\ \A j \in AnswerTo(g, i, id) : j \in i + 1 .. Len(g)
      /\ \A j \in AnswerTo(h, i, id) : j \in i + 1 .. Len(h)
  BY DEF AnswerTo
<1>9. AnswerTo(g, i, id) = {} <=>
          /\ \A j \in i + 1 .. Len(h) : j \notin AnswerTo(g, i, id)
          /\ Len(g) \notin AnswerTo(g, i, id)
  BY <1>3, <1>4, <1>5, <1>8
<1>10. AnswerTo(h, i, id) = {} <=>
           \A j \in i + 1 .. Len(h) : j \notin AnswerTo(h, i, id)
  BY <1>8
<1> QED BY <1>6, <1>7, <1>9, <1>10 DEF g

\* A call that was just added has no answer, and nothing follows it.
LEMMA LastIsOpen ==
    ASSUME NEW g, Len(g) \in Nat, NEW id
    PROVE  AnswerTo(g, Len(g), id) = {} /\ AnswersFollow(g, Len(g), Len(g))
BY DEF AnswerTo, AnswersFollow

\* Roots stay roots; only a new answer needs one of its own.
LEMMA RootsStay ==
    ASSUME NEW h \in Seq(Messages), NEW m \in Messages, Rooted(h),
           m.kind = "tool" =>
               \E i \in 1 .. Len(h) : /\ h[i].kind = "calls"
                                      /\ m.id \in h[i].ids
                                      /\ AnswersFollow(h, i, Len(h))
    PROVE  Rooted(Append(h, m))
<1> DEFINE g == Append(h, m)
<1>1. /\ Len(h) \in Nat /\ Len(g) = Len(h) + 1 /\ g[Len(g)] = m
      /\ \A i \in 1 .. Len(h) : g[i] = h[i]
      /\ \A i \in 1 .. Len(g) : i \in 1 .. Len(h) \/ i = Len(g)
  BY Added
<1>2. \A i \in 1 .. Len(h) :
          /\ \A j \in 1 .. Len(h) :
                AnswersFollow(g, i, j) <=> AnswersFollow(h, i, j)
          /\ AnswersFollow(g, i, Len(g)) <=>
                AnswersFollow(h, i, Len(h)) /\ m.kind = "tool"
  BY StillFollow
<1> HIDE DEF g
<1>3. ASSUME NEW j \in 1 .. Len(h), g[j].kind = "tool"
      PROVE  \E i \in 1 .. j - 1 : /\ g[i].kind = "calls" /\ g[j].id \in g[i].ids
                                   /\ AnswersFollow(g, i, j)
  <2>1. PICK i \in 1 .. j - 1 : /\ h[i].kind = "calls" /\ h[j].id \in h[i].ids
                                /\ AnswersFollow(h, i, j)
    BY <1>1, <1>3 DEF Rooted
  <2>2. i \in 1 .. Len(h)
    BY <1>1
  <2> QED BY <1>1, <1>2, <2>1, <2>2
<1>4. ASSUME m.kind = "tool"
      PROVE  \E i \in 1 .. Len(g) - 1 :
                 /\ g[i].kind = "calls" /\ g[Len(g)].id \in g[i].ids
                 /\ AnswersFollow(g, i, Len(g))
  <2>1. PICK i \in 1 .. Len(h) : /\ h[i].kind = "calls" /\ m.id \in h[i].ids
                                 /\ AnswersFollow(h, i, Len(h))
    BY <1>4
  <2>2. i \in 1 .. Len(g) - 1
    BY <1>1
  <2> QED BY <1>1, <1>2, <1>4, <2>1, <2>2
<1> QED BY <1>1, <1>3, <1>4 DEF Rooted, g

\* When every call is answered, a message that is no answer may follow; the
\* calls it makes are then the unanswered ones.
LEMMA Spoken ==
    ASSUME NEW h \in Seq(Messages), NEW m \in Messages, m.kind # "tool",
           Rooted(h), Unanswered(h) = {}
    PROVE  /\ Rooted(Append(h, m)) /\ Open(Append(h, m))
           /\ Unanswered(Append(h, m)) = IF m.kind = "calls" THEN m.ids ELSE {}
<1> DEFINE g == Append(h, m)
<1>1. /\ Len(h) \in Nat /\ Len(g) = Len(h) + 1 /\ g[Len(g)] = m
      /\ \A i \in 1 .. Len(h) : g[i] = h[i]
      /\ \A i \in 1 .. Len(g) : i \in 1 .. Len(h) \/ i = Len(g)
  BY Added
<1>2. Rooted(g)
  BY RootsStay
<1>3. \A i \in 1 .. Len(h) : \A id :
          AnswerTo(g, i, id) = {} <=> AnswerTo(h, i, id) = {}
  BY AnswersAdded
<1> HIDE DEF g
<1>4. \A i \in 1 .. Len(h) : h[i].kind = "calls" =>
          \A id \in h[i].ids : AnswerTo(h, i, id) # {}
  BY UnansweredMeans
<1>5. Len(g) \in 1 .. Len(g)
  BY <1>1
<1>6. \A id : AnswerTo(g, Len(g), id) = {}
  BY <1>1, LastIsOpen
<1>7. AnswersFollow(g, Len(g), Len(g))
  BY <1>1, LastIsOpen
<1>8. Open(g)
  BY <1>1, <1>3, <1>4, <1>7 DEF Open
<1>9. ASSUME NEW id
      PROVE  id \in Unanswered(g) <=> m.kind = "calls" /\ id \in m.ids
  <2>1. id \in Unanswered(g) <=>
            \E i \in 1 .. Len(g) : /\ g[i].kind = "calls" /\ id \in g[i].ids
                                   /\ AnswerTo(g, i, id) = {}
    BY UnansweredMeans
  <2>2. \A i \in 1 .. Len(h) : ~ (/\ g[i].kind = "calls" /\ id \in g[i].ids
                                  /\ AnswerTo(g, i, id) = {})
    BY <1>1, <1>3, <1>4
  <2> QED BY <1>1, <1>5, <1>6, <2>1, <2>2
<1> QED BY <1>2, <1>8, <1>9 DEF g

\* An answer to an unanswered call of an open conversation answers that call
\* and no other, and leaves the conversation open.
LEMMA Answered ==
    ASSUME NEW h \in Seq(Messages), NEW m \in Messages, m.kind = "tool",
           Rooted(h), Open(h), m.id \in Unanswered(h)
    PROVE  /\ Rooted(Append(h, m)) /\ Open(Append(h, m))
           /\ Unanswered(Append(h, m)) = Unanswered(h) \ {m.id}
<1> DEFINE g == Append(h, m)
<1>1. /\ Len(h) \in Nat /\ Len(g) = Len(h) + 1 /\ g[Len(g)] = m
      /\ \A i \in 1 .. Len(h) : g[i] = h[i] /\ i \in 1 .. Len(g)
      /\ \A i \in 1 .. Len(g) : i \in 1 .. Len(h) \/ i = Len(g)
  BY Added
<1>2. \E i \in 1 .. Len(h) : /\ h[i].kind = "calls" /\ m.id \in h[i].ids
                             /\ AnswersFollow(h, i, Len(h))
  BY UnansweredMeans DEF Open
<1>3. Rooted(g)
  BY <1>2, RootsStay
<1>4. \A i \in 1 .. Len(h) : \A id :
          AnswerTo(g, i, id) = {} <=>
              /\ AnswerTo(h, i, id) = {}
              /\ ~ (m.id = id /\ AnswersFollow(h, i, Len(h)))
  BY AnswersAdded
<1>5. \A i \in 1 .. Len(h) :
          AnswersFollow(g, i, Len(g)) <=> AnswersFollow(h, i, Len(h))
  BY StillFollow
<1> HIDE DEF g
<1>6. g[Len(g)].kind # "calls"
  BY <1>1
<1>7. Open(g)
  BY <1>1, <1>4, <1>5, <1>6 DEF Open
<1>8. ASSUME NEW id
      PROVE  id \in Unanswered(g) <=> id \in Unanswered(h) /\ id # m.id
  <2>1. id \in Unanswered(g) <=>
            \E i \in 1 .. Len(g) : /\ g[i].kind = "calls" /\ id \in g[i].ids
                                   /\ AnswerTo(g, i, id) = {}
    BY UnansweredMeans
  <2>2. id \in Unanswered(g) <=>
            \E i \in 1 .. Len(h) : /\ h[i].kind = "calls" /\ id \in h[i].ids
                                   /\ AnswerTo(g, i, id) = {}
    BY <1>1, <1>6, <2>1
  <2>3. \A i \in 1 .. Len(h) : h[i].kind = "calls" /\ id \in h[i].ids =>
            (AnswerTo(g, i, id) = {} <=>
                 AnswerTo(h, i, id) = {} /\ id # m.id)
    BY <1>4 DEF Open
  <2>4. id \in Unanswered(h) <=>
            \E i \in 1 .. Len(h) : /\ h[i].kind = "calls" /\ id \in h[i].ids
                                   /\ AnswerTo(h, i, id) = {}
    BY UnansweredMeans
  <2> QED BY <2>2, <2>3, <2>4
<1> QED BY <1>3, <1>7, <1>8 DEF g

\* A message that neither calls nor answers changes nothing for the calls.
LEMMA SpokenAnyway ==
    ASSUME NEW h \in Seq(Messages), NEW m \in Messages,
           m.kind # "tool", m.kind # "calls", Rooted(h)
    PROVE  /\ Rooted(Append(h, m))
           /\ Unanswered(Append(h, m)) = Unanswered(h)
<1> DEFINE g == Append(h, m)
<1>1. /\ Len(h) \in Nat /\ Len(g) = Len(h) + 1 /\ g[Len(g)] = m
      /\ \A i \in 1 .. Len(h) : g[i] = h[i] /\ i \in 1 .. Len(g)
      /\ \A i \in 1 .. Len(g) : i \in 1 .. Len(h) \/ i = Len(g)
  BY Added
<1>2. Rooted(g)
  BY RootsStay
<1>3. \A i \in 1 .. Len(h) : \A id :
          AnswerTo(g, i, id) = {} <=> AnswerTo(h, i, id) = {}
  BY AnswersAdded
<1> HIDE DEF g
<1>4. ASSUME NEW id
      PROVE  id \in Unanswered(g) <=> id \in Unanswered(h)
  <2>1. id \in Unanswered(g) <=>
            \E i \in 1 .. Len(g) : /\ g[i].kind = "calls" /\ id \in g[i].ids
                                   /\ AnswerTo(g, i, id) = {}
    BY UnansweredMeans
  <2>2. id \in Unanswered(h) <=>
            \E i \in 1 .. Len(h) : /\ h[i].kind = "calls" /\ id \in h[i].ids
                                   /\ AnswerTo(h, i, id) = {}
    BY UnansweredMeans
  <2> QED BY <1>1, <1>3, <2>1, <2>2
<1> QED BY <1>2, <1>4 DEF g

\* One request at a time is served; calls may fail, turns be cut and left.
Alone(c) == Conns = {c} /\ Faults \subseteq {"call", "cut", "leave"}

Ahead(c) == {body[c][i][1] : i \in at[c] + 1 .. Len(body[c])}

Handled(c) == {d[1] : d \in current[c]}

\* The calls without an answer are those the turn, or the user, has to answer,
\* and those a cancelled turn owed; then no further call is made.
ToldInv(c) ==
    /\ Rooted(messages)
    /\ Unanswered(messages) =
           abandoned \cup (IF Busy(c) THEN Owing(c) ELSE pending)
    /\ abandoned = {} => Open(messages)
    /\ abandoned # {} => (IF Busy(c) THEN Owing(c) ELSE pending) = {}

StageInv(c) ==
    /\ attached[c]
    /\ Busy(c) => pending = {}
    /\ pc[c] \notin {"exec", "notify", "tell", "closed"} => current[c] = {}
    /\ pc[c] \notin {"read", "closed"} => todo[c] = {} /\ held[c] = {}
    /\ pc[c] \in {"idle", "llm", "read"} => Ahead(c) = {}
    /\ pc[c] = "llm" => (accepts[c] <=> abandoned = {})

\* A call is decided once, and not again while it is handled.
OnceInv(c) ==
    \A i \in at[c] + 1 .. Len(body[c]) :
        /\ \A j \in at[c] + 1 .. Len(body[c]) :
              body[c][i][1] = body[c][j][1] => i = j
        /\ body[c][i][1] \notin Handled(c)

PoliteInv(c) == AInv /\ ToldInv(c) /\ StageInv(c) /\ OnceInv(c)

LEMMA OwingParts ==
    ASSUME NEW c
    PROVE  /\ Owing(c) = Ahead(c) \cup Handled(c) \cup todo[c] \cup held[c]
           /\ current[c] = {} => Handled(c) = {}
           /\ \A id, what : current[c] = {<<id, what>>} => Handled(c) = {id}
<1>1. Owing(c) = Ahead(c) \cup Handled(c) \cup todo[c] \cup held[c]
  BY DEF Owing, Ahead, Handled
<1>2. ASSUME NEW id, NEW what, current[c] = {<<id, what>>}
      PROVE  Handled(c) = {id}
  <2>1. <<id, what>>[1] = id
    OBVIOUS
  <2> QED BY <1>2, <2>1 DEF Handled
<1> QED BY <1>1, <1>2 DEF Handled

\* Without decisions ahead there is nothing to keep apart.
LEMMA NothingAhead ==
    ASSUME NEW c, Ahead(c) = {}
    PROVE  OnceInv(c)
BY DEF Ahead, OnceInv

LEMMA AheadEmpty ==
    ASSUME NEW c, body[c] = <<>>, at[c] \in Nat
    PROVE  Ahead(c) = {}
<1>1. at[c] + 1 .. Len(body[c]) = {}
  OBVIOUS
<1> QED BY <1>1 DEF Ahead

\* A turn that calls the LLM owes nothing.
LEMMA LlmOwesNothing ==
    ASSUME NEW c, StageInv(c), pc[c] = "llm"
    PROVE  Owing(c) = {} /\ Busy(c) /\ pending = {}
BY OwingParts DEF StageInv, Busy

\* The session a turn speaks to is its own.
LEMMA SendTruth ==
    ASSUME NEW c \in Conns, NEW h, accepts \in [Conns -> BOOLEAN], attached[c],
           SendMessages(c, h)
    PROVE  accepts'[c] <=> Answerable(h)
BY DEF SendMessages

\* A chat is begun only when nothing is pending.
LEMMA PoliteChat ==
    ASSUME NEW c \in Conns, Alone(c), PoliteInv(c), AInv', Chat(c)
    PROVE  PoliteInv(c)'
<1>types. /\ messages \in Seq(Messages) /\ pc \in [Conns -> Places]
          /\ pc[c] = "idle" /\ ~Busy(c) /\ "hasty" \notin Faults
          /\ ToldInv(c) /\ StageInv(c)
  BY DEF PoliteInv, AInv, AgentTypeOK, Chat, Busy, Alone
<1>1. /\ pending = {} /\ pc'[c] = "build" /\ messages' = Append(messages, UserMsg)
      /\ UNCHANGED <<pending, current, body, at, todo, held, attached, abandoned>>
  BY <1>types DEF Chat, Goto
<1>2. UserMsg \in Messages /\ UserMsg.kind = "user"
  BY DEF UserMsg, Messages
<1>3. Rooted(messages') /\ Unanswered(messages') = Unanswered(messages)
  BY <1>types, <1>1, <1>2, SpokenAnyway DEF ToldInv
<1>4. Unanswered(messages) = abandoned
  BY <1>types, <1>1 DEF ToldInv
<1>5. abandoned = {} => Open(messages')
  <2>1. UserMsg.kind # "tool" /\ Rooted(messages)
    BY <1>types, <1>2 DEF ToldInv
  <2> QED BY <1>types, <1>1, <1>2, <1>4, <2>1, Spoken
<1>6. Ahead(c) = {} /\ current[c] = {} /\ todo[c] = {} /\ held[c] = {}
  BY <1>types DEF StageInv
<1>7. Ahead(c)' = {}
  BY <1>1, <1>6 DEF Ahead
<1>8. Owing(c)' = {} /\ Busy(c)'
  <2>1. Owing(c) = {}
    BY <1>6, OwingParts
  <2>2. Owing(c)' = Owing(c)
    BY <1>1 DEF Owing
  <2> QED BY <1>1, <2>1, <2>2 DEF Busy
<1>9. ToldInv(c)'
  BY <1>1, <1>3, <1>4, <1>5, <1>8 DEF ToldInv
<1>10. StageInv(c)'
  BY <1>types, <1>1, <1>6, <1>7 DEF StageInv
<1>11. OnceInv(c)'
  BY <1>1, <1>6 DEF Ahead, OnceInv
<1> QED BY <1>9, <1>10, <1>11 DEF PoliteInv

\* Decisions take everything that is pending, each proposal once.
LEMMA PoliteRespond ==
    ASSUME NEW c \in Conns, Alone(c), PoliteInv(c), AInv',
           NEW n \in 0 .. MaxBody, NEW b \in [1 .. n -> pending \X BOOLEAN],
           Respond(c, b)
    PROVE  PoliteInv(c)'
<1>types. /\ messages \in Seq(Messages) /\ pc \in [Conns -> Places]
          /\ body \in [Conns -> Seq(Decisions)] /\ at \in [Conns -> 0 .. MaxBody]
          /\ pc[c] = "idle" /\ ~Busy(c) /\ "hasty" \notin Faults
          /\ ToldInv(c) /\ StageInv(c)
  BY DEF PoliteInv, AInv, AgentTypeOK, Respond, Busy, Alone
<1>1. /\ b \in Seq(Decisions) /\ Len(b) = n /\ DOMAIN b = 1 .. n /\ n \in Nat
      /\ \A i \in 1 .. n : b[i][1] \in pending
  BY BodyType, AgentAssumption DEF PoliteInv, AInv
<1>2. /\ pending # {} /\ NamesEachOnce(b, pending)
      /\ pending' = {} /\ pc'[c] = "build" /\ body'[c] = b /\ at'[c] = 0
      /\ UNCHANGED <<messages, current, todo, held, attached, abandoned>>
  BY <1>types DEF Respond, TakePending, Goto
<1>3. at'[c] + 1 .. Len(body'[c]) = 1 .. n
  BY <1>1, <1>2
<1>4. Ahead(c)' = pending
  <2>1. Ahead(c)' = {b[i][1] : i \in 1 .. n}
    BY <1>2, <1>3 DEF Ahead
  <2>2. \A id \in pending : \E i \in 1 .. n : b[i][1] = id
    BY <1>1, <1>2 DEF NamesEachOnce
  <2> QED BY <1>1, <2>1, <2>2
<1>5. \A i, j \in 1 .. n : b[i][1] = b[j][1] => i = j
  BY <1>1, <1>2 DEF NamesEachOnce
<1>6. abandoned = {} /\ Unanswered(messages) = pending
  BY <1>types, <1>2 DEF ToldInv
<1>7. current[c] = {} /\ todo[c] = {} /\ held[c] = {}
  BY <1>types DEF StageInv
<1>8. Handled(c)' = {}
  BY <1>2, <1>7 DEF Handled
<1>9. Owing(c)' = pending /\ Busy(c)'
  <2>1. Owing(c)' = Ahead(c)' \cup Handled(c)' \cup todo'[c] \cup held'[c]
    BY DEF Owing, Ahead, Handled
  <2> QED BY <1>2, <1>4, <1>7, <1>8, <2>1 DEF Busy
<1>10. ToldInv(c)'
  BY <1>types, <1>2, <1>6, <1>9 DEF ToldInv
<1>11. StageInv(c)'
  BY <1>types, <1>2, <1>7 DEF StageInv
<1>12. OnceInv(c)'
  BY <1>2, <1>3, <1>5, <1>8 DEF OnceInv
<1> QED BY <1>10, <1>11, <1>12 DEF PoliteInv

\* Taking up a decision moves its call from those ahead to the one handled.
LEMMA PoliteDecide ==
    ASSUME NEW c \in Conns, Alone(c), PoliteInv(c), AInv',
           NEW d \in Decisions, Decide(c, d)
    PROVE  PoliteInv(c)'
<1>types. /\ pc \in [Conns -> Places] /\ at \in [Conns -> 0 .. MaxBody]
          /\ current \in [Conns -> SUBSET (Proposals \X Outcomes)]
          /\ pc[c] = "decide" /\ Busy(c)
          /\ ToldInv(c) /\ StageInv(c) /\ OnceInv(c)
  BY DEF PoliteInv, AInv, AgentTypeOK, Decide, Busy
<1>1. /\ UNCHANGED <<messages, pending, body, todo, held, attached, abandoned>>
      /\ at'[c] = at[c] + 1 /\ at[c] < Len(body[c]) /\ d = body[c][at[c] + 1]
      /\ pc'[c] \in {"exec", "tell"}
      /\ \E what : current'[c] = {<<d[1], what>>}
  BY <1>types DEF Decide, Goto
<1>2. at[c] \in Nat /\ Len(body[c]) \in Nat
  BY LeftType DEF PoliteInv, AInv
<1>3. Handled(c)' = {d[1]}
  <2>1. PICK what : current'[c] = {<<d[1], what>>}
    BY <1>1
  <2>2. <<d[1], what>>[1] = d[1]
    OBVIOUS
  <2> QED BY <2>1, <2>2 DEF Handled
<1>4. /\ at[c] + 1 \in at[c] + 1 .. Len(body[c])
      /\ \A i : i \in at'[c] + 1 .. Len(body'[c]) <=>
                    i \in at[c] + 1 .. Len(body[c]) /\ i # at[c] + 1
  BY <1>1, <1>2
<1>5. Ahead(c) = Ahead(c)' \cup {d[1]}
  <2>1. Ahead(c)' = {body[c][i][1] : i \in at'[c] + 1 .. Len(body'[c])}
    BY <1>1 DEF Ahead
  <2> QED BY <1>1, <1>4, <2>1 DEF Ahead
<1>6. current[c] = {} /\ todo[c] = {} /\ held[c] = {}
  BY <1>types DEF StageInv
<1>7. Owing(c)' = Owing(c) /\ Busy(c)'
  <2>1. Owing(c) = Ahead(c)
    BY <1>6, OwingParts
  <2>2. Owing(c)' = Ahead(c)' \cup Handled(c)' \cup todo'[c] \cup held'[c]
    BY DEF Owing, Ahead, Handled
  <2> QED BY <1>1, <1>3, <1>5, <1>6, <2>1, <2>2 DEF Busy
<1>8. ToldInv(c)'
  BY <1>types, <1>1, <1>7 DEF ToldInv
<1>9. StageInv(c)'
  BY <1>types, <1>1, <1>6 DEF StageInv, Busy
<1>10. OnceInv(c)'
  <2>1. \A i \in at'[c] + 1 .. Len(body'[c]) : body[c][i][1] # d[1]
    BY <1>types, <1>1, <1>4 DEF OnceInv
  <2> QED BY <1>types, <1>1, <1>3, <1>4, <2>1 DEF OnceInv
<1> QED BY <1>8, <1>9, <1>10 DEF PoliteInv

\* Steps between two messages.
LEMMA PoliteCalls ==
    ASSUME NEW c \in Conns, Alone(c), PoliteInv(c), AInv',
           \/ BuildRunner(c)
           \/ \E d \in current[c] : ExecuteWrite(c, d[1])
                                    \/ NotifyPrCreated(c, d[1])
    PROVE  PoliteInv(c)'
<1>types. /\ pc \in [Conns -> Places] /\ accepts \in [Conns -> BOOLEAN]
          /\ at \in [Conns -> 0 .. MaxBody] /\ at[c] \in Nat
          /\ current \in [Conns -> SUBSET (Proposals \X Outcomes)]
          /\ ToldInv(c) /\ StageInv(c) /\ OnceInv(c)
  BY AgentAssumption DEF PoliteInv, AInv, AgentTypeOK
<1>1. CASE BuildRunner(c)
  <2>1. /\ pc[c] = "build" /\ Busy(c) /\ Busy(c)'
        /\ UNCHANGED <<messages, pending, body, at, todo, held, current, attached,
                       abandoned>>
        /\ \/ pc'[c] = "decide"
           \/ body[c] = <<>> /\ pc'[c] = "llm" /\ SendMessages(c, messages)
    BY <1>1, <1>types
       DEF BuildRunner, CallLlm, Goto, Busy, sessionVars, pastVars
  <2>2. Owing(c)' = Owing(c) /\ Ahead(c)' = Ahead(c) /\ OnceInv(c)'
    BY <1>types, <2>1 DEF Owing, Ahead, OnceInv, Handled
  <2>3. ToldInv(c)'
    BY <1>types, <2>1, <2>2 DEF ToldInv
  <2>4. current[c] = {} /\ todo[c] = {} /\ held[c] = {} /\ attached[c] /\ pending = {}
    BY <1>types, <2>1 DEF StageInv
  <2>5. CASE pc'[c] = "decide"
    BY <2>1, <2>2, <2>3, <2>4, <2>5 DEF PoliteInv, StageInv
  <2>6. CASE body[c] = <<>> /\ pc'[c] = "llm" /\ SendMessages(c, messages)
    <3>1. Ahead(c) = {}
      BY <1>types, <2>6, AheadEmpty
    <3>2. Owing(c) = {}
      BY <2>4, <3>1, OwingParts
    <3>3. accepts'[c] <=> Answerable(messages)
      BY <1>types, <2>4, <2>6, SendTruth
    <3>4. Answerable(messages) <=> abandoned = {}
      BY <1>types, <2>1, <3>2, AnswerableInParts DEF ToldInv
    <3> QED BY <2>1, <2>2, <2>3, <2>4, <2>6, <3>1, <3>3, <3>4
            DEF PoliteInv, StageInv
  <2> QED BY <2>1, <2>5, <2>6
<1>2. ASSUME NEW d \in current[c],
             ExecuteWrite(c, d[1]) \/ NotifyPrCreated(c, d[1])
      PROVE  PoliteInv(c)'
  <2>1. /\ pc[c] \in {"exec", "notify"} /\ Busy(c) /\ Busy(c)'
        /\ UNCHANGED <<messages, pending, body, at, todo, held, attached, abandoned>>
        /\ pc'[c] \in {"notify", "tell"}
        /\ \E what : current[c] = {<<d[1], what>>}
        /\ \E what : current'[c] = {<<d[1], what>>}
    BY <1>2, <1>types
       DEF ExecuteWrite, NotifyPrCreated, Goto, sessionVars, pastVars, Busy
  <2>2. Handled(c) = {d[1]} /\ Handled(c)' = {d[1]}
    <3>1. \A what : <<d[1], what>>[1] = d[1]
      OBVIOUS
    <3> QED BY <2>1, <3>1 DEF Handled
  <2>3. Owing(c)' = Owing(c)
    BY <2>1, <2>2 DEF Owing, Handled
  <2>4. OnceInv(c)'
    BY <1>types, <2>1, <2>2 DEF OnceInv
  <2> QED BY <1>types, <2>1, <2>3, <2>4 DEF PoliteInv, ToldInv, StageInv
<1> QED BY <1>1, <1>2

\* An answer settles the call that was handled.
LEMMA PoliteTell ==
    ASSUME NEW c \in Conns, Alone(c), PoliteInv(c), AInv',
           NEW d \in current[c], Tell(c, d[1], d[2])
    PROVE  PoliteInv(c)'
<1> DEFINE m == ToolMsg(d[1], d[2])
<1>types. /\ messages \in Seq(Messages) /\ pc \in [Conns -> Places]
          /\ accepts \in [Conns -> BOOLEAN]
          /\ current \in [Conns -> SUBSET (Proposals \X Outcomes)]
          /\ pc[c] = "tell" /\ Busy(c) /\ attached[c]
          /\ ToldInv(c) /\ StageInv(c) /\ OnceInv(c)
  BY DEF PoliteInv, AInv, AgentTypeOK, Tell, Busy, StageInv
<1>1. /\ UNCHANGED <<pending, body, at, todo, held, attached, abandoned>>
      /\ current[c] = {<<d[1], d[2]>>} /\ current'[c] = {}
      /\ messages' = Append(messages, m) /\ d[2] \in Answers
      /\ \/ at[c] = Len(body[c]) /\ pc'[c] = "llm" /\ SendMessages(c, messages')
         \/ pc'[c] = "decide"
  <2>1. /\ UNCHANGED <<pending, body, at, todo, held, attached, abandoned>>
        /\ current[c] = {<<d[1], d[2]>>} /\ current' = [current EXCEPT ![c] = {}]
        /\ Say(c, m) /\ d[2] \in Answers
    BY DEF Tell, WhatItSaid, pastVars
  <2>2. \/ at[c] = Len(body[c]) /\ pc'[c] = "llm" /\ SendMessages(c, messages')
        \/ pc'[c] = "decide"
    BY <1>types DEF Tell
  <2>3. current'[c] = {} /\ messages' = Append(messages, m)
    BY <1>types, <2>1 DEF Say
  <2> QED BY <2>1, <2>2, <2>3
<1>2. m \in Messages /\ m.kind = "tool" /\ m.id = d[1]
  <2>1. d[1] \in Calls
    BY <1>types, ProposalIsCall
  <2>2. m \in Messages
    BY <1>1, <2>1, ToolMsgType
  <2> QED BY <2>2 DEF ToolMsg
<1> HIDE DEF m
<1>3. Handled(c) = {d[1]} /\ Handled(c)' = {}
  <2>1. \A id, what : current[c] = {<<id, what>>} => Handled(c) = {id}
    BY OwingParts
  <2> QED BY <1>1, <2>1 DEF Handled
<1>4. todo[c] = {} /\ held[c] = {} /\ pending = {} /\ Ahead(c)' = Ahead(c)
  BY <1>types, <1>1 DEF StageInv, Ahead
<1>5. Owing(c) = Ahead(c) \cup {d[1]} /\ Owing(c)' = Ahead(c)
  <2>1. Owing(c)' = Ahead(c)' \cup Handled(c)' \cup todo'[c] \cup held'[c]
    BY DEF Owing, Ahead, Handled
  <2> QED BY <1>1, <1>3, <1>4, <2>1, OwingParts
<1>6. d[1] \notin Ahead(c)
  BY <1>types, <1>3 DEF OnceInv, Ahead
<1>7. abandoned = {} /\ Unanswered(messages) = Ahead(c) \cup {d[1]}
      /\ Rooted(messages) /\ Open(messages)
  BY <1>types, <1>5 DEF ToldInv
<1>8. Rooted(messages') /\ Open(messages') /\ Unanswered(messages') = Ahead(c)
  <2>1. m.id \in Unanswered(messages)
    BY <1>2, <1>7
  <2>2. /\ Rooted(messages') /\ Open(messages')
        /\ Unanswered(messages') = Unanswered(messages) \ {m.id}
    BY <1>types, <1>1, <1>2, <1>7, <2>1, Answered
  <2> QED BY <1>2, <1>6, <1>7, <2>2
<1>9. Busy(c)' /\ ToldInv(c)'
  BY <1>1, <1>5, <1>7, <1>8 DEF ToldInv, Busy
<1>10. OnceInv(c)'
  BY <1>types, <1>1, <1>3 DEF OnceInv
<1>11. StageInv(c)'
  <2>1. CASE pc'[c] = "decide"
    BY <1>types, <1>1, <1>4, <2>1 DEF StageInv
  <2>2. CASE at[c] = Len(body[c]) /\ pc'[c] = "llm" /\ SendMessages(c, messages')
    <3>1. Ahead(c) = {}
      <4>1. Len(body[c]) \in Nat
        BY LeftType DEF PoliteInv, AInv
      <4>2. at[c] + 1 .. Len(body[c]) = {}
        BY <2>2, <4>1
      <4> QED BY <4>2 DEF Ahead
    <3>2. accepts'[c] <=> Answerable(messages')
      BY <1>types, <2>2, SendTruth
    <3>3. Answerable(messages')
      BY <1>8, <3>1, AnswerableInParts
    <3> QED BY <1>types, <1>1, <1>4, <1>7, <2>2, <3>1, <3>2, <3>3 DEF StageInv
  <2> QED BY <1>1, <2>1, <2>2
<1> QED BY <1>9, <1>10, <1>11 DEF PoliteInv

\* The LLM is called when the turn owes nothing, and what it calls is then
\* answered by the reads or pending.
LEMMA PoliteLoop ==
    ASSUME NEW c \in Conns, Alone(c), PoliteInv(c), AInv', pc[c] = "llm",
           \/ LlmFails(c) \/ NothingToKeep(c) \/ Answer(c)
           \/ \E reads \in SUBSET ReadTools, writes \in SUBSET WriteTools :
                  CallTools(c, reads, writes)
    PROVE  PoliteInv(c)'
<1>types. /\ messages \in Seq(Messages) /\ pc \in [Conns -> Places]
          /\ todo \in [Conns -> SUBSET Calls]
          /\ held \in [Conns -> SUBSET Proposals]
          /\ pending \subseteq Proposals /\ replies \in 0 .. MaxReplies
          /\ ToldInv(c) /\ StageInv(c) /\ OnceInv(c)
  BY DEF PoliteInv, AInv, AgentTypeOK
<1>0. /\ Busy(c) /\ pending = {} /\ todo[c] = {} /\ held[c] = {}
      /\ current[c] = {} /\ Ahead(c) = {} /\ attached[c]
      /\ Unanswered(messages) = abandoned /\ Rooted(messages)
      /\ accepts[c] <=> abandoned = {}
      /\ abandoned = {} => Open(messages)
  BY <1>types, LlmOwesNothing DEF ToldInv, StageInv, Busy
<1>1. CASE LlmFails(c) \/ NothingToKeep(c)
  <2>1. /\ UNCHANGED <<messages, pending, body, at, todo, held, current, attached,
                       abandoned>>
        /\ pc'[c] = "closed"
    BY <1>1, <1>types DEF LlmFails, NothingToKeep, End, sessionVars, pastVars
  <2>2. ~Busy(c)' /\ ToldInv(c)'
    BY <1>0, <2>1 DEF ToldInv, Busy
  <2>3. StageInv(c)' /\ OnceInv(c)'
    BY <1>types, <1>0, <2>1, <2>2 DEF StageInv, OnceInv, Handled
  <2> QED BY <2>2, <2>3 DEF PoliteInv
<1>2. CASE Answer(c)
  <2>1. /\ UNCHANGED <<pending, body, at, todo, held, current, attached, abandoned>>
        /\ messages' = Append(messages, TextMsg) /\ accepts[c]
        /\ pc'[c] = "closed"
    BY <1>2, <1>types, <1>0 DEF Answer, Say, End, pastVars
  <2>2. TextMsg \in Messages /\ TextMsg.kind = "text"
    BY DEF TextMsg, Messages
  <2>3. Rooted(messages') /\ Open(messages') /\ Unanswered(messages') = {}
    <3>1. TextMsg.kind # "tool" /\ Unanswered(messages) = {} /\ Rooted(messages)
      BY <1>0, <2>1, <2>2
    <3> QED BY <1>types, <2>1, <2>2, <3>1, Spoken
  <2>4. ~Busy(c)' /\ ToldInv(c)'
    BY <1>0, <2>1, <2>3 DEF ToldInv, Busy
  <2>5. StageInv(c)' /\ OnceInv(c)'
    BY <1>types, <1>0, <2>1, <2>4 DEF StageInv, OnceInv, Handled
  <2> QED BY <2>4, <2>5 DEF PoliteInv
<1>3. ASSUME NEW reads \in SUBSET ReadTools, NEW writes \in SUBSET WriteTools,
             CallTools(c, reads, writes)
      PROVE  PoliteInv(c)'
  <2> DEFINE r == reads \X {replies + 1}
             w == writes \X {replies + 1}
             m == [kind |-> "calls", ids |-> r \cup w]
  <2>1. /\ AfterCalls(c, messages', r, w) /\ accepts[c] /\ abandoned = {}
        /\ todo'[c] = r /\ held'[c] = w
        /\ UNCHANGED <<body, at, current, attached, abandoned>>
        /\ messages' = Append(messages, m)
        /\ reads \cup writes # {} /\ replies < MaxReplies
    BY <1>3, <1>types, <1>0 DEF CallTools, Say
  <2>2. r \cup w # {}
    <3>1. \A x \in reads : <<x, replies + 1>> \in r
      OBVIOUS
    <3>2. \A x \in writes : <<x, replies + 1>> \in w
      OBVIOUS
    <3> QED BY <2>1, <3>1, <3>2
  <2>3. m \in Messages /\ m.kind = "calls" /\ m.ids = r \cup w
    <3>1. r \cup w \in SUBSET Calls
      BY <1>types, <2>1, AgentAssumption DEF Calls, Tools
    <3> QED BY <3>1 DEF Messages
  <2> HIDE DEF r, w, m
  <2>4. /\ Rooted(messages') /\ Open(messages')
        /\ Unanswered(messages') = r \cup w
    <3>1. m.kind # "tool" /\ Unanswered(messages) = {} /\ Rooted(messages)
      BY <1>0, <2>1, <2>3
    <3> QED BY <1>types, <2>1, <2>3, <3>1, Spoken
  <2>5. Ahead(c)' = {} /\ Handled(c)' = {} /\ OnceInv(c)'
    <3>1. Ahead(c)' = Ahead(c) /\ Handled(c)' = {}
      BY <1>0, <2>1 DEF Ahead, Handled
    <3>2. at'[c] + 1 .. Len(body'[c]) = {}
      BY <1>0, <3>1 DEF Ahead
    <3> QED BY <1>0, <3>1, <3>2 DEF OnceInv
  <2>6. Owing(c)' = r \cup w
    <3>1. Owing(c)' = Ahead(c)' \cup Handled(c)' \cup todo'[c] \cup held'[c]
      BY DEF Owing, Ahead, Handled
    <3> QED BY <2>1, <2>5, <3>1
  <2>7. CASE r # {}
    <3>1. pc'[c] = "read" /\ pending' = {}
      BY <1>types, <1>0, <2>1, <2>7 DEF AfterCalls, Goto
    <3>2. Busy(c)' /\ ToldInv(c)'
      BY <2>1, <2>4, <2>6, <3>1 DEF ToldInv, Busy
    <3>3. StageInv(c)'
      BY <1>0, <2>1, <2>5, <3>1 DEF StageInv
    <3> QED BY <2>5, <3>2, <3>3 DEF PoliteInv
  <2>8. CASE r = {}
    <3>1. pc'[c] = "closed" /\ pending' = w
      BY <1>types, <1>0, <2>1, <2>2, <2>8 DEF AfterCalls, End
    <3>2. ~Busy(c)' /\ ToldInv(c)'
      BY <2>1, <2>4, <2>8, <3>1 DEF ToldInv, Busy
    <3>3. StageInv(c)'
      BY <1>0, <2>1, <3>1, <3>2 DEF StageInv
    <3> QED BY <2>5, <3>2, <3>3 DEF PoliteInv
  <2> QED BY <2>7, <2>8
<1> QED BY <1>1, <1>2, <1>3

\* A read answers its call; after the last one the proposals are pending, or
\* the LLM is called with everything answered.
LEMMA PoliteReads ==
    ASSUME NEW c \in Conns, Alone(c), PoliteInv(c), AInv',
           NEW id \in todo[c], NEW what \in {"result", "error"},
           ExecuteRead(c, id, what)
    PROVE  PoliteInv(c)'
<1> DEFINE m == ToolMsg(id, what)
           left == todo[c] \ {id}
<1>types. /\ messages \in Seq(Messages) /\ pc \in [Conns -> Places]
          /\ accepts \in [Conns -> BOOLEAN]
          /\ todo \in [Conns -> SUBSET Calls]
          /\ held \in [Conns -> SUBSET Proposals]
          /\ ToldInv(c) /\ StageInv(c) /\ OnceInv(c) /\ ReadInv
  BY DEF PoliteInv, AInv, AgentTypeOK, OwnerInv
<1>0. pc[c] = "read" /\ Busy(c) /\ attached[c] /\ pending = {} /\ current[c] = {}
      /\ Ahead(c) = {}
  BY <1>types DEF ExecuteRead, Busy, StageInv
<1>1. /\ AfterCalls(c, messages', left, held[c])
      /\ todo'[c] = left
      /\ UNCHANGED <<held, current, body, at, attached, abandoned>>
      /\ messages' = Append(messages, m)
  BY <1>types, <1>0 DEF ExecuteRead, ReadAnswer, Say
<1>2. m \in Messages /\ m.kind = "tool" /\ m.id = id
  <2>1. id \in Calls
    BY <1>types
  <2>2. m \in Messages
    BY <2>1, ToolMsgType DEF Answers
  <2> QED BY <2>2 DEF ToolMsg
<1> HIDE DEF m
<1>3. Owing(c) = todo[c] \cup held[c]
  BY <1>0, OwingParts
<1>4. /\ abandoned = {} /\ Unanswered(messages) = todo[c] \cup held[c]
      /\ Rooted(messages) /\ Open(messages)
  BY <1>types, <1>0, <1>3 DEF ToldInv
<1>5. id \notin held[c]
  BY <1>types DEF ReadInv
<1>6. /\ Rooted(messages') /\ Open(messages')
      /\ Unanswered(messages') = left \cup held[c]
  <2>1. m.id \in Unanswered(messages)
    BY <1>2, <1>4
  <2>2. /\ Rooted(messages') /\ Open(messages')
        /\ Unanswered(messages') = Unanswered(messages) \ {m.id}
    BY <1>types, <1>1, <1>2, <1>4, <2>1, Answered
  <2> QED BY <1>2, <1>4, <1>5, <2>2
<1> HIDE DEF left
<1>7. Ahead(c)' = {} /\ Handled(c)' = {} /\ OnceInv(c)'
  <2>1. Ahead(c)' = Ahead(c) /\ Handled(c)' = {}
    BY <1>0, <1>1 DEF Ahead, Handled
  <2>2. at'[c] + 1 .. Len(body'[c]) = {}
    BY <1>0, <2>1 DEF Ahead
  <2> QED BY <1>0, <2>1, <2>2 DEF OnceInv
<1>8. Owing(c)' = left \cup held[c]
  <2>1. Owing(c)' = Ahead(c)' \cup Handled(c)' \cup todo'[c] \cup held'[c]
    BY DEF Owing, Ahead, Handled
  <2> QED BY <1>1, <1>7, <2>1
<1>9. CASE left # {}
  <2>1. pc'[c] = "read" /\ pending' = {}
    BY <1>types, <1>0, <1>1, <1>9 DEF AfterCalls, Goto
  <2>2. Busy(c)' /\ ToldInv(c)'
    BY <1>1, <1>4, <1>6, <1>8, <2>1 DEF ToldInv, Busy
  <2>3. StageInv(c)'
    BY <1>0, <1>1, <1>7, <2>1 DEF StageInv
  <2> QED BY <1>7, <2>2, <2>3 DEF PoliteInv
<1>10. CASE left = {} /\ held[c] # {}
  <2>1. pc'[c] = "closed" /\ pending' = held[c]
    BY <1>types, <1>0, <1>1, <1>10 DEF AfterCalls, End
  <2>2. ~Busy(c)' /\ ToldInv(c)'
    BY <1>1, <1>4, <1>6, <1>10, <2>1 DEF ToldInv, Busy
  <2>3. StageInv(c)'
    BY <1>0, <1>1, <2>1, <2>2 DEF StageInv
  <2> QED BY <1>7, <2>2, <2>3 DEF PoliteInv
<1>11. CASE left = {} /\ held[c] = {}
  <2>1. Answerable(messages')
    BY <1>6, <1>11, AnswerableInParts
  <2>2. /\ pending' = {}
        /\ \/ pc'[c] = "llm" /\ SendMessages(c, messages')
           \/ pc'[c] = "closed"
    BY <1>types, <1>0, <1>1, <1>11 DEF AfterCalls, CallLlm, Goto, End
  <2>3. pc'[c] = "llm" => accepts'[c]
    BY <1>types, <1>0, <2>1, <2>2, SendTruth
  <2>4. ToldInv(c)'
    BY <1>1, <1>4, <1>6, <1>8, <1>11, <2>2 DEF ToldInv
  <2>5. StageInv(c)'
    BY <1>0, <1>1, <1>4, <1>7, <1>11, <2>2, <2>3 DEF StageInv
  <2> QED BY <1>7, <2>4, <2>5 DEF PoliteInv
<1> QED BY <1>9, <1>10, <1>11

\* A turn that is cancelled, or whose client leaves, abandons what it owes.
LEMMA PoliteCuts ==
    ASSUME NEW c \in Conns, Alone(c), PoliteInv(c), AInv',
           KeepaliveTimeout(c) \/ Release(c) \/ Disconnect(c)
    PROVE  PoliteInv(c)'
<1>types. /\ pc \in [Conns -> Places] /\ todo \in [Conns -> SUBSET Calls]
          /\ held \in [Conns -> SUBSET Proposals]
          /\ current \in [Conns -> SUBSET (Proposals \X Outcomes)]
          /\ body \in [Conns -> Seq(Decisions)] /\ at \in [Conns -> 0 .. MaxBody]
          /\ attached \in [Conns -> BOOLEAN]
          /\ ToldInv(c) /\ StageInv(c) /\ OnceInv(c)
  BY DEF PoliteInv, AInv, AgentTypeOK
<1>1. CASE KeepaliveTimeout(c)
  <2>1. /\ pc'[c] = "closed" /\ Busy(c) /\ ~Busy(c)'
        /\ UNCHANGED <<messages, pending, body, at, todo, held, current, attached>>
        /\ abandoned' = abandoned \cup Owing(c)
    BY <1>1, <1>types
       DEF KeepaliveTimeout, End, Abandon, Awaits, Busy, sessionVars, StageInv
  <2>2. pending = {}
    BY <1>types, <2>1 DEF StageInv
  <2>3. ToldInv(c)'
    BY <1>types, <2>1, <2>2 DEF ToldInv
  <2>4. StageInv(c)' /\ OnceInv(c)'
    BY <1>types, <2>1 DEF StageInv, OnceInv, Handled
  <2> QED BY <2>3, <2>4 DEF PoliteInv
<1>2. CASE Release(c) \/ Disconnect(c)
  <2>1. /\ Reset(c)
        /\ \/ Busy(c) /\ pending = {} /\ abandoned' = abandoned \cup Owing(c)
           \/ ~Busy(c) /\ abandoned' = abandoned
    BY <1>2, <1>types
       DEF Release, Disconnect, Abandon, Awaits, Busy, StageInv
  <2>2. /\ UNCHANGED <<messages, pending>>
        /\ pc'[c] = "idle" /\ attached'[c] /\ body'[c] = <<>> /\ at'[c] = 0
        /\ todo'[c] = {} /\ held'[c] = {} /\ current'[c] = {}
    BY <1>types, <2>1 DEF Reset, sessionVars
  <2>3. Ahead(c)' = {} /\ OnceInv(c)'
    <3>1. at'[c] + 1 .. Len(body'[c]) = {}
      BY <2>2
    <3> QED BY <3>1 DEF Ahead, OnceInv
  <2>4. ~Busy(c)' /\ ToldInv(c)'
    BY <1>types, <2>1, <2>2 DEF ToldInv, Busy
  <2>5. StageInv(c)'
    BY <2>2, <2>3, <2>4 DEF StageInv
  <2> QED BY <2>3, <2>4, <2>5 DEF PoliteInv
<1> QED BY <1>1, <1>2

LEMMA PoliteStep ==
    ASSUME NEW c, Alone(c), PoliteInv(c), [Next]_vars
    PROVE  PoliteInv(c)'
<1>1. AInv'
  BY NextOwner DEF PoliteInv
<1>2. c \in Conns /\ \A e \in Conns : e = c
  BY DEF Alone
<1>3. CASE \/ Chat(c)
           \/ \E n \in 0 .. MaxBody : \E b \in [1 .. n -> pending \X BOOLEAN] :
                  Respond(c, b)
  BY <1>1, <1>2, <1>3, PoliteChat, PoliteRespond
<1>4. CASE Step(c)
  <2>1. CASE \/ LlmFails(c) \/ NothingToKeep(c) \/ Answer(c)
             \/ \E reads \in SUBSET ReadTools, writes \in SUBSET WriteTools :
                    CallTools(c, reads, writes)
    <3>1. pc[c] = "llm"
      BY <2>1 DEF LlmFails, NothingToKeep, Answer, CallTools
    <3> QED BY <1>1, <1>2, <2>1, <3>1, PoliteLoop
  <2>2. CASE \E id \in todo[c], what \in {"result", "error"} :
                 ExecuteRead(c, id, what)
    BY <1>1, <1>2, <2>2, PoliteReads
  <2>3. CASE \E d \in Decisions : Decide(c, d)
    BY <1>1, <1>2, <2>3, PoliteDecide
  <2>4. CASE \/ BuildRunner(c)
             \/ \E d \in current[c] : \/ ExecuteWrite(c, d[1])
                                      \/ NotifyPrCreated(c, d[1])
    BY <1>1, <1>2, <2>4, PoliteCalls
  <2>5. CASE \E d \in current[c] : Tell(c, d[1], d[2])
    BY <1>1, <1>2, <2>5, PoliteTell
  <2> QED BY <1>4, <2>1, <2>2, <2>3, <2>4, <2>5 DEF Step
<1>5. CASE KeepaliveTimeout(c) \/ Release(c) \/ Disconnect(c)
  BY <1>1, <1>2, <1>5, PoliteCuts
<1>6. CASE UNCHANGED vars
  <2>1. UNCHANGED <<pc, body, at, current, todo, held, accepts, attached,
                    messages, pending, abandoned>>
    BY <1>6 DEF vars, turnVars, sessionVars, pastVars
  <2>2. /\ Busy(c)' = Busy(c) /\ Owing(c)' = Owing(c) /\ Ahead(c)' = Ahead(c)
        /\ Handled(c)' = Handled(c)
    BY <2>1 DEF Busy, Owing, Ahead, Handled
  <2>3. ToldInv(c)' /\ StageInv(c)'
    BY <2>1, <2>2 DEF PoliteInv, ToldInv, StageInv
  <2>4. OnceInv(c)'
    BY <2>1, <2>2 DEF PoliteInv, OnceInv
  <2> QED BY <1>1, <2>3, <2>4 DEF PoliteInv
<1>7. ~Expire
  BY DEF Alone, Expire
<1> QED BY <1>2, <1>3, <1>4, <1>5, <1>6, <1>7 DEF Next

LEMMA PoliteStart ==
    ASSUME NEW c, Alone(c), Init
    PROVE  PoliteInv(c)
<1>1. AInv
  BY InitType, InitOwner DEF AInv
<1>2. /\ messages = <<>> /\ pending = {} /\ pc[c] = "idle" /\ abandoned = {}
      /\ todo[c] = {} /\ held[c] = {} /\ current[c] = {} /\ attached[c]
      /\ body[c] = <<>> /\ at[c] = 0
  BY DEF Init, Alone
<1>3. Rooted(messages) /\ Open(messages) /\ Unanswered(messages) = {}
  BY <1>2 DEF Rooted, Open, Unanswered
<1>4. Ahead(c) = {}
  BY <1>2, AheadEmpty
<1> QED BY <1>1, <1>2, <1>3, <1>4, NothingAhead
        DEF PoliteInv, ToldInv, StageInv, Busy

\* When one request at a time is served and the client decides on all
\* proposals before it goes on, the provider never refuses the conversation,
\* whatever tools or the provider itself fail, and wherever turns are cut or
\* left that have no call to answer.
THEOREM PoliteUsersAreServed ==
    ASSUME NEW c, Alone(c)
    PROVE  Spec => []NeverRefused
<1>1. Init => PoliteInv(c)
  BY PoliteStart
<1>2. PoliteInv(c) /\ [Next]_vars => PoliteInv(c)'
  BY PoliteStep
<1>3. PoliteInv(c) => NeverRefused
  BY DEF Alone, PoliteInv, StageInv, NeverRefused
<1> QED BY <1>1, <1>2, <1>3, PTL DEF Spec

\* Under the same conditions, also when turns are cut in a tool call or left
\* after its event, the conversation lacks the answers to the proposals still
\* to be decided and to the calls that a cancelled turn owed, and to no other.
THEOREM TurnsAnswerTheirCalls ==
    ASSUME NEW c, Alone(c)
    PROVE  Spec => []UnansweredArePending
<1>1. Init => PoliteInv(c)
  BY PoliteStart
<1>2. PoliteInv(c) /\ [Next]_vars => PoliteInv(c)'
  BY PoliteStep
<1>3. PoliteInv(c) => UnansweredArePending
  <2> SUFFICES ASSUME PoliteInv(c), \A e \in Conns : ~Busy(e)
               PROVE  Unanswered(messages) = pending \cup abandoned
    BY DEF UnansweredArePending
  <2>1. ~Busy(c) /\ ToldInv(c)
    BY DEF Alone, PoliteInv
  <2> QED BY <2>1 DEF ToldInv
<1> QED BY <1>1, <1>2, <1>3, PTL DEF Spec
=============================================================================
