--------------------------- MODULE Explain_proofs ---------------------------
(***************************************************************************)
(* Proofs about one POST /explain, for any number of attempts and pieces,  *)
(* any amounts and any set of faults: what the client was sent, what the   *)
(* request costs and how it is counted.                                    *)
(*                                                                         *)
(* The invariants follow the event on its way: between the LLM and the     *)
(* client at most one event is in hand, so what the client has and what    *)
(* the generators below have yielded differ by that event.                 *)
(***************************************************************************)
EXTENDS Explain, TLAPS

\* The last event the client has.
LastSent == client[Len(client)]

\* No last word has reached the client.
OnlyChunks == \A i \in 1 .. Len(client) : client[i].kind = "chunk"

InHand(kind) == hand # <<>> /\ hand[1].kind = kind

\* An event is in hand between the generator that yields it and the client;
\* it agrees with the state of the generator that yielded it.
HandInv ==
    /\ pc = "event" => hand # <<>>
    /\ pc \notin {"event", "ended"} => hand = <<>>
    /\ InHand("chunk") => got > 0 /\ hand[1] = Chunk(attempt, got)
    /\ InHand("done") => whole

\* The pieces of this attempt that the client has.
Delivered == IF InHand("chunk") THEN got - 1 ELSE got

\* Piece i continues its answer or begins the answer of a later attempt.
InOrder(i) ==
    IF client[i].no > 1
    THEN i > 1 /\ client[i - 1] = Chunk(client[i].attempt, client[i].no - 1)
    ELSE i > 1 => client[i - 1].attempt < client[i].attempt

\* While the answer is being told, the client's text ends where the attempt
\* stands.
TextInv ==
    /\ \A i \in 1 .. Len(client) : client[i].kind = "chunk" => InOrder(i)
    /\ pc \notin {"over", "ended"} =>
           IF Delivered > 0
           THEN client # <<>> /\ LastSent = Chunk(attempt, Delivered)
           ELSE client # <<>> => LastSent.attempt < attempt
    /\ \A i \in 1 .. Len(client) : client[i].kind = "done" =>
           whole /\ (got > 0 => i > 1 /\ client[i - 1] = Chunk(attempt, got))

\* The last word is the last.
WordInv ==
    /\ \A i \in 1 .. Len(client) : i < Len(client) => client[i].kind = "chunk"
    /\ pc \notin {"over", "ended"} => OnlyChunks
    /\ pc = "over" => client # <<>> /\ LastSent.kind \in Ends
    /\ comment => OnlyChunks /\ pc = "ended"
    /\ pc = "ended" /\ ~comment /\ ~gone =>
           client # <<>> /\ LastSent.kind \in Ends

\* A refused request never comes to the LLM; another calls it once for each
\* attempt.
CostInv ==
    /\ pc \in {"retrieve", "start"} => calls = 0 /\ client = <<>>
    /\ QuotaExceeded =>
           /\ calls = 0
           /\ pc \notin Sources \cup {"comment"}
           /\ hand # <<>> => hand[1].kind = "quota_exceeded"
           /\ \A i \in 1 .. Len(client) : client[i].kind = "quota_exceeded"
    /\ pc = "connect" => calls <= attempt
    /\ calls <= attempt + 1

\* The request is counted when it is over, and its status is the last word's.
CountInv ==
    /\ pc \notin {"comment", "ended"} => counted = 0
    /\ pc \in {"comment", "ended"} /\ counted = 0 =>
           gone /\ calls = 0 /\ client = <<>>
    /\ counted <= 1
    /\ pc \in Sources \cup {"retrieve", "start"} \/ InHand("chunk") =>
           status = "success"
    /\ InHand("done") => status = "success"
    /\ InHand("error") => status = "error"
    /\ InHand("quota_exceeded") => status = "quota_exceeded"
    /\ client # <<>> =>
           /\ LastSent.kind = "done" => status = "success"
           /\ LastSent.kind \in {"error", "quota_exceeded"} =>
                  status = LastSent.kind

-----------------------------------------------------------------------------
LEMMA EventKinds ==
    /\ \A k \in Ends : Last(k) \in Events /\ Last(k).kind = k
    /\ \A a \in Attempts, n \in 1 .. MaxChunks :
           /\ Chunk(a, n) \in Events /\ Chunk(a, n).kind = "chunk"
           /\ Chunk(a, n).attempt = a /\ Chunk(a, n).no = n
    /\ \A e \in Events :
           /\ e.kind \in Ends \cup {"chunk"}
           /\ e.kind # "chunk" => e.kind \in Ends
           /\ e.kind = "chunk" => e.attempt \in Attempts /\ e.no \in 1 .. MaxChunks
    /\ "chunk" \notin Ends
BY DEF Events, Chunks, Chunk, Last, Ends

LEMMA AppendIs ==
    ASSUME NEW s \in Seq(Events), NEW e \in Events
    PROVE  /\ s \o <<e>> \in Seq(Events)
           /\ s \o <<e>> # <<>>
           /\ Len(s \o <<e>>) = Len(s) + 1
           /\ \A i \in 1 .. Len(s) : (s \o <<e>>)[i] = s[i]
           /\ (s \o <<e>>)[Len(s) + 1] = e
OBVIOUS

LEMMA ConstantTypes ==
    MaxAttempts \in Nat /\ MaxAttempts >= 1 /\ MaxChunks \in Nat
    /\ Attempts = 0 .. MaxAttempts - 1 /\ Amounts \subseteq Nat
BY ExplainAssumption DEF Attempts

\* ExplainTypeOK in parts, with what it needs to be inductive: an attempt
\* waits for a next one only if there is one.
Hands == {<<>>} \cup {<<e>> : e \in Events}
OtherTypes ==
    /\ metered \in BOOLEAN /\ used \in Amounts /\ budget \in Amounts
    /\ pc \in Places
    /\ attempt \in Attempts /\ got \in 0 .. MaxChunks
    /\ client \in Seq(Events)
    /\ comment \in BOOLEAN /\ gone \in BOOLEAN /\ whole \in BOOLEAN
    /\ status \in Statuses
    /\ counted \in Nat /\ calls \in Nat

LEMMA TypesInParts == ExplainTypeOK <=> hand \in Hands /\ OtherTypes
BY Zenon DEF ExplainTypeOK, OtherTypes, Hands

LEMMA HandTypes ==
    /\ <<>> \in Hands
    /\ \A e \in Events : <<e>> \in Hands
    /\ \A h \in Hands : h # <<>> => h[1] \in Events /\ h = <<h[1]>>
<1>1. <<>> \in Hands /\ \A e \in Events : <<e>> \in Hands
  BY Zenon DEF Hands
<1>2. ASSUME NEW h \in Hands, h # <<>>
      PROVE  h[1] \in Events /\ h = <<h[1]>>
  <2>1. PICK e \in Events : h = <<e>>
    BY <1>2, Zenon DEF Hands
  <2> QED
    BY <2>1
<1> QED
  BY <1>1, <1>2

HasNext == pc = "backoff" => attempt < MaxAttempts - 1

Typed == hand \in Hands /\ OtherTypes /\ HasNext

ExplainInv == Typed /\ HandInv /\ TextInv /\ WordInv /\ CostInv /\ CountInv

LEMMA TypeStep ==
    ASSUME hand \in Hands, OtherTypes, HasNext, [Next]_vars
    PROVE  hand' \in Hands /\ OtherTypes' /\ HasNext'
<1> USE ConstantTypes
    DEF OtherTypes, HasNext, vars, requestVars, sourceVars, clientVars, Yield
<1>c. Called => calls' \in Nat
  BY DEF Called
<1>e. \A k \in {"done", "error", "quota_exceeded"} : <<Last(k)>> \in Hands
  BY EventKinds, HandTypes DEF Ends
<1>1. CASE Retrieve \/ Connect \/ Comment \/ Leave \/ UNCHANGED vars
  BY <1>1, <1>c DEF Retrieve, Connect, Comment, Leave, Places, Sources
<1>2. CASE Finish \/ Silence \/ Abandon
  BY <1>2 DEF Finish, AfterLast, Silence, Abandon, Count, Places, Sources
<1>3. CASE CheckQuota
  BY <1>3, <1>e DEF CheckQuota, Places, Sources, Statuses
<1>4. CASE NextChunk
  <2>1. got' \in 1 .. MaxChunks
    BY <1>4 DEF NextChunk
  <2>2. <<Chunk(attempt, got + 1)>> \in Hands
    BY <1>4, <2>1, EventKinds, HandTypes DEF NextChunk
  <2> QED
    BY <1>4, <2>1, <2>2 DEF NextChunk, Places
<1>5. CASE EndOfAnswer
  BY <1>5, <1>e DEF EndOfAnswer, Places
<1>6. ASSUME NEW retryable \in BOOLEAN, LlmFails(retryable)
      PROVE  hand' \in Hands /\ OtherTypes' /\ HasNext'
  BY <1>6, <1>c, <1>e DEF LlmFails, GiveUp, MayRetry, Places, Sources, Statuses
<1>7. CASE Wake
  BY <1>7 DEF Wake, NextAttempt, Places, Sources
<1>8. CASE Deliver
  <2>1. client \o hand \in Seq(Events)
    <3>1. CASE hand = <<>>
      BY <3>1
    <3>2. CASE hand # <<>>
      BY <3>2, HandTypes, AppendIs
    <3> QED
      BY <3>1, <3>2
  <2>2. hand' \in Hands
    BY <1>8, HandTypes, Zenon DEF Deliver
  <2>3. pc' \in Places /\ HasNext' /\ counted' \in Nat
    BY <1>8 DEF Deliver, Count, Places, Sources
  <2>4. client' \in Seq(Events)
    BY <1>8, <2>1 DEF Deliver
  <2> QED
    BY <1>8, <2>2, <2>3, <2>4 DEF Deliver
<1> QED
  BY <1>1, <1>2, <1>3, <1>4, <1>5, <1>6, <1>7, <1>8 DEF Next, Service

LEMMA InitTypes == Init => hand \in Hands /\ OtherTypes /\ HasNext
<1> SUFFICES ASSUME Init PROVE hand \in Hands /\ OtherTypes /\ HasNext
  OBVIOUS
<1>1. hand \in Hands
  BY HandTypes, Zenon DEF Init
<1>2. client \in Seq(Events)
  BY DEF Init
<1>3. attempt \in Attempts /\ got \in 0 .. MaxChunks /\ counted \in Nat /\ calls \in Nat
  BY ConstantTypes DEF Init
<1>4. /\ pc \in Places /\ status \in Statuses
      /\ comment \in BOOLEAN /\ gone \in BOOLEAN /\ whole \in BOOLEAN
      /\ metered \in BOOLEAN /\ used \in Amounts /\ budget \in Amounts
      /\ HasNext
  BY DEF Init, Places, Statuses, HasNext
<1> QED
  BY <1>1, <1>2, <1>3, <1>4 DEF OtherTypes

-----------------------------------------------------------------------------
\* What a delivery does to what the client has.
LEMMA Delivery ==
    ASSUME Typed, HandInv, Deliver, ~gone
    PROVE  /\ hand # <<>> /\ hand[1] \in Events
           /\ client \in Seq(Events) /\ client' \in Seq(Events)
           /\ client' # <<>> /\ Len(client') = Len(client) + 1
           /\ \A i \in 1 .. Len(client) : client'[i] = client[i]
           /\ client'[Len(client) + 1] = hand[1]
           /\ pc' = IF hand[1].kind \in Ends THEN "over" ELSE "chunks"
           /\ hand' = <<>>
           /\ UNCHANGED <<requestVars, sourceVars, comment, gone, counted>>
<1>1. hand # <<>>
  BY DEF HandInv, Deliver
<1>2. hand[1] \in Events /\ hand = <<hand[1]>> /\ client \in Seq(Events)
  BY <1>1, HandTypes DEF Typed, OtherTypes
<1>3. client' = client \o <<hand[1]>>
  BY <1>2 DEF Deliver
<1> QED
  BY <1>1, <1>2, <1>3, AppendIs DEF Deliver

\* All other steps leave alone what the client has.
LEMMA NoDelivery ==
    ASSUME [Next]_vars, ~(Deliver /\ ~gone)
    PROVE  client' = client
BY DEF Next, Service, Retrieve, CheckQuota, Connect, NextChunk, EndOfAnswer,
       LlmFails, Wake, Deliver, Finish, Silence, Comment, Leave, Abandon,
       vars, clientVars, Yield, GiveUp

LEMMA HandStep ==
    ASSUME Typed, HandInv, [Next]_vars
    PROVE  HandInv'
<1> USE EventKinds
    DEF HandInv, InHand, vars, requestVars, sourceVars, clientVars, Yield
<1>t. hand \in Hands /\ got \in Nat /\ got >= 0
  BY ConstantTypes DEF Typed, OtherTypes
<1>1. CASE Retrieve \/ Connect \/ Comment \/ Leave \/ Wake \/ UNCHANGED vars
  BY <1>1 DEF Retrieve, Connect, Comment, Leave, Wake
<1>2. CASE Finish \/ Silence \/ Abandon
  BY <1>2 DEF Finish, AfterLast, Silence, Abandon, Sources
<1>3. CASE CheckQuota
  BY <1>3 DEF CheckQuota, Ends
<1>4. CASE NextChunk
  <2>1. got + 1 \in 1 .. MaxChunks /\ attempt \in Attempts
    BY <1>4, ConstantTypes DEF NextChunk, Typed, OtherTypes
  <2> QED
    BY <1>4, <1>t, <2>1 DEF NextChunk
<1>5. CASE EndOfAnswer
  BY <1>5 DEF EndOfAnswer, Ends
<1>6. ASSUME NEW retryable \in BOOLEAN, LlmFails(retryable)
      PROVE  HandInv'
  BY <1>6 DEF LlmFails, GiveUp, Ends
<1>7. CASE Deliver
  BY <1>7 DEF Deliver
<1> QED
  BY <1>1, <1>2, <1>3, <1>4, <1>5, <1>6, <1>7 DEF Next, Service

LEMMA WordStep ==
    ASSUME Typed, HandInv, WordInv, [Next]_vars
    PROVE  WordInv'
<1> USE EventKinds
    DEF WordInv, OnlyChunks, LastSent, vars, requestVars, sourceVars,
        clientVars, Yield
<1>t. client \in Seq(Events) /\ comment \in BOOLEAN /\ gone \in BOOLEAN
  BY DEF Typed, OtherTypes
<1>1. CASE Deliver /\ ~gone
  <2>1. /\ client' \in Seq(Events) /\ client' # <<>>
        /\ Len(client') = Len(client) + 1 /\ Len(client) \in Nat
        /\ \A i \in 1 .. Len(client) : client'[i] = client[i]
        /\ client'[Len(client) + 1] = hand[1] /\ hand[1] \in Events
        /\ pc' = IF hand[1].kind \in Ends THEN "over" ELSE "chunks"
        /\ comment' = comment /\ pc = "event"
    BY <1>1, <1>t, Delivery DEF Deliver
  <2>2. \A i \in 1 .. Len(client) : client[i].kind = "chunk"
    BY <2>1
  <2>3. ~comment'
    BY <2>1
  <2>4. \A i \in 1 .. Len(client') : i < Len(client') => client'[i].kind = "chunk"
    BY <2>1, <2>2
  <2>5. CASE hand[1].kind \in Ends
    BY <2>1, <2>3, <2>4, <2>5
  <2>6. CASE hand[1].kind \notin Ends
    <3>1. hand[1].kind = "chunk" /\ pc' = "chunks"
      BY <2>1, <2>6
    <3>2. \A i \in 1 .. Len(client') : client'[i].kind = "chunk"
      BY <2>1, <2>2, <3>1
    <3> QED
      BY <2>3, <2>4, <3>1, <3>2
  <2> QED
    BY <2>5, <2>6
<1>2. CASE ~(Deliver /\ ~gone)
  <2>0. client' = client
    BY <1>2, NoDelivery
  <2>1. CASE Retrieve \/ Connect \/ Leave \/ Wake \/ UNCHANGED vars
    BY <2>0, <2>1, <1>t DEF Retrieve, Connect, Leave, Wake
  <2>2. CASE Finish \/ Silence \/ Abandon
    BY <2>0, <2>2, <1>t DEF Finish, AfterLast, Silence, Abandon, Sources
  <2>3. CASE CheckQuota \/ NextChunk \/ EndOfAnswer
    BY <2>0, <2>3 DEF CheckQuota, NextChunk, EndOfAnswer
  <2>4. ASSUME NEW retryable \in BOOLEAN, LlmFails(retryable)
        PROVE  WordInv'
    BY <2>0, <2>4 DEF LlmFails, GiveUp
  <2>5. CASE Deliver /\ gone
    BY <2>0, <2>5 DEF Deliver
  <2>6. CASE Comment
    BY <2>0, <2>6, <1>t DEF Comment
  <2> QED
    BY <1>2, <1>t, <2>1, <2>2, <2>3, <2>4, <2>5, <2>6 DEF Next, Service
<1> QED
  BY <1>1, <1>2

\* A delivery keeps what is said of the pieces that were sent before.
LEMMA TextDelivered ==
    ASSUME Typed, HandInv, TextInv, WordInv, Deliver, ~gone
    PROVE  TextInv'
<1> DEFINE L == Len(client)
<1>1. /\ client \in Seq(Events) /\ client' \in Seq(Events) /\ client' # <<>>
      /\ Len(client') = L + 1 /\ L \in Nat
      /\ \A i \in 1 .. L : client'[i] = client[i]
      /\ client'[L + 1] = hand[1] /\ hand[1] \in Events
      /\ pc' = IF hand[1].kind \in Ends THEN "over" ELSE "chunks"
      /\ hand # <<>> /\ hand' = <<>> /\ pc = "event"
      /\ attempt' = attempt /\ got' = got /\ whole' = whole
  BY Delivery DEF Deliver, sourceVars
<1>2. \A i \in 1 .. L : client[i].kind = "chunk"
  BY <1>1 DEF WordInv, OnlyChunks
<1>t. got \in Nat /\ attempt \in Attempts /\ Attempts \subseteq Nat
  BY ConstantTypes DEF Typed, OtherTypes
<1>e. "chunk" \notin Ends /\ "done" \in Ends
  BY DEF Ends
<1>3. ASSUME NEW i \in 1 .. L
      PROVE  InOrder(i)'
  <2>1. InOrder(i)
    BY <1>2, <1>3 DEF TextInv
  <2>2. i \in Nat /\ i >= 1 /\ client'[i] = client[i]
    BY <1>1, <1>3
  <2>3. i > 1 => client'[i - 1] = client[i - 1]
    BY <1>1, <1>3
  <2> QED
    BY <2>1, <2>2, <2>3 DEF InOrder
<1>4. IF Delivered > 0
      THEN client # <<>> /\ client[L] = Chunk(attempt, Delivered)
      ELSE client # <<>> => client[L].attempt < attempt
  BY <1>1 DEF TextInv, LastSent
<1>5. L \in Nat /\ (client # <<>> <=> L > 0) /\ (L + 1) - 1 = L
  BY <1>1
<1>6. CASE hand[1].kind = "chunk"
  <2>1. /\ got > 0 /\ hand[1] = Chunk(attempt, got) /\ Delivered = got - 1
        /\ got \in 1 .. MaxChunks
    BY <1>1, <1>6, <1>t, ConstantTypes
       DEF HandInv, InHand, Delivered, Typed, OtherTypes
  <2>2. hand[1].no = got /\ hand[1].attempt = attempt
    BY <2>1, <1>t, EventKinds
  <2>3. ASSUME NEW i \in Nat, i = L + 1
        PROVE  InOrder(i)'
    <3>1. CASE got > 1
      <4>1. L > 0 /\ client[L] = Chunk(attempt, got - 1)
        BY <1>4, <1>5, <1>t, <2>1, <3>1
      <4>2. client'[L] = Chunk(attempt, got - 1) /\ L + 1 > 1
        BY <1>1, <4>1
      <4> QED
        BY <1>1, <1>5, <2>2, <2>3, <3>1, <4>2 DEF InOrder
    <3>2. CASE got = 1
      <4>1. L > 0 => client[L].attempt < attempt
        BY <1>4, <1>5, <2>1, <3>2
      <4>2. L + 1 > 1 => client'[L].attempt < attempt
        BY <1>1, <4>1
      <4> QED
        BY <1>1, <1>5, <2>2, <2>3, <3>2, <4>2 DEF InOrder
    <3> QED
      BY <1>t, <2>1, <3>1, <3>2
  <2>4. \A i \in 1 .. Len(client') : InOrder(i)'
    <3> SUFFICES ASSUME NEW i \in 1 .. L + 1 PROVE InOrder(i)'
      BY <1>1
    <3> QED
      BY <1>3, <1>5, <2>3
  <2>5. /\ Delivered' = got
        /\ LastSent' = Chunk(attempt, got)
    BY <1>1, <2>1 DEF Delivered, InHand, LastSent
  <2>6. \A i \in 1 .. Len(client') : client'[i].kind = "chunk"
    BY <1>1, <1>2, <1>6
  <2> QED
    BY <1>1, <1>e, <2>1, <2>4, <2>5, <2>6 DEF TextInv
<1>7. CASE hand[1].kind # "chunk"
  <2>1. hand[1].kind \in Ends /\ pc' = "over"
    BY <1>1, <1>7, EventKinds
  <2>2. ASSUME NEW i \in 1 .. Len(client'), client'[i].kind = "chunk"
        PROVE  InOrder(i)'
    <3>1. i \in 1 .. L
      BY <1>1, <1>7, <2>2
    <3> QED
      BY <1>3, <3>1
  <2>3. ASSUME NEW i \in 1 .. Len(client'), client'[i].kind = "done"
        PROVE  whole /\ (got > 0 => i > 1 /\ client'[i - 1] = Chunk(attempt, got))
    <3>1. i = L + 1
      BY <1>1, <1>2, <2>3
    <3>2. whole /\ Delivered = got
      BY <1>1, <2>3, <3>1 DEF HandInv, InHand, Delivered
    <3>3. ASSUME got > 0
          PROVE  i > 1 /\ client'[i - 1] = Chunk(attempt, got)
      <4>1. L > 0 /\ client[L] = Chunk(attempt, got)
        BY <1>4, <1>5, <3>2, <3>3
      <4> QED
        BY <1>1, <1>5, <3>1, <4>1
    <3> QED
      BY <3>2, <3>3
  <2> QED
    BY <1>1, <2>1, <2>2, <2>3 DEF TextInv
<1> QED
  BY <1>6, <1>7

LEMMA TextStep ==
    ASSUME Typed, HandInv, TextInv, WordInv, [Next]_vars
    PROVE  TextInv'
<1>1. CASE Deliver /\ ~gone
  BY <1>1, TextDelivered
<1>2. CASE ~(Deliver /\ ~gone)
  <2>0. client' = client
    BY <1>2, NoDelivery
  <2>t. /\ got \in Nat /\ attempt \in Nat /\ client \in Seq(Events)
        /\ hand \in Hands
        /\ \A i \in 1 .. Len(client) : client[i] \in Events
    BY ConstantTypes DEF Typed, OtherTypes
  <2>1. \A i \in 1 .. Len(client) : client'[i].kind = "chunk" => InOrder(i)'
    BY <2>0 DEF TextInv, InOrder
  <2>2. CASE pc \in {"over", "ended"}
    <3>1. /\ pc' \in {"over", "ended"}
          /\ got' = got /\ attempt' = attempt /\ whole' = whole
      BY <1>2, <2>2 DEF Next, Service, Retrieve, CheckQuota, Connect, NextChunk,
         EndOfAnswer, LlmFails, Wake, Deliver, Finish, AfterLast, Silence,
         Comment, Leave, Abandon, Sources, vars, sourceVars
    <3> QED
      BY <2>0, <2>1, <3>1 DEF TextInv
  <2>3. CASE pc \notin {"over", "ended"}
    <3>1. \A i \in 1 .. Len(client) : client[i].kind # "done"
      BY <2>3 DEF WordInv, OnlyChunks
    <3>2. IF Delivered > 0
          THEN client # <<>> /\ LastSent = Chunk(attempt, Delivered)
          ELSE client # <<>> => LastSent.attempt < attempt
      BY <2>3 DEF TextInv
    <3> SUFFICES pc' \notin {"over", "ended"} =>
                     IF Delivered' > 0
                     THEN client # <<>> /\ LastSent = Chunk(attempt', Delivered')
                     ELSE client # <<>> => LastSent.attempt < attempt'
      BY <2>0, <2>1, <3>1 DEF TextInv, LastSent
    <3>3. ASSUME attempt' = attempt, Delivered' = Delivered
          PROVE  pc' \notin {"over", "ended"} =>
                     IF Delivered' > 0
                     THEN client # <<>> /\ LastSent = Chunk(attempt', Delivered')
                     ELSE client # <<>> => LastSent.attempt < attempt'
      BY <3>2, <3>3
    <3> USE <2>t, <3>3
        DEF Delivered, InHand, vars, requestVars, sourceVars, clientVars, Yield
    <3>4. CASE Retrieve \/ Connect \/ Comment \/ Leave \/ UNCHANGED vars
      BY <3>4 DEF Retrieve, Connect, Comment, Leave
    <3>5. CASE Finish \/ Silence \/ Abandon
      BY <3>5 DEF Finish, AfterLast, Silence, Abandon
    <3>6. CASE CheckQuota
      BY <3>6, <2>3 DEF CheckQuota, Last, HandInv
    <3>7. CASE NextChunk
      <4>1. hand = <<>>
        BY <3>7 DEF NextChunk, HandInv
      <4>2. hand' # <<>> /\ hand'[1].kind = "chunk" /\ got' = got + 1 /\ attempt' = attempt
        BY <3>7 DEF NextChunk, Chunk
      <4> QED
        BY <4>1, <4>2
    <3>8. CASE EndOfAnswer
      BY <3>8 DEF EndOfAnswer, Last, HandInv
    <3>9. ASSUME NEW retryable \in BOOLEAN, LlmFails(retryable)
          PROVE  attempt' = attempt /\ Delivered' = Delivered
      BY <3>9 DEF LlmFails, GiveUp, Last, HandInv
    <3>10. CASE Wake
      <4>1. hand = <<>> /\ hand' = <<>> /\ got' = 0 /\ attempt' = attempt + 1
        BY <3>10 DEF Wake, NextAttempt, HandInv
      <4>2. ASSUME client # <<>>
            PROVE  LastSent.attempt < attempt'
        <5>1. CASE got > 0
          <6>1. LastSent = Chunk(attempt, got)
            BY <3>2, <4>1, <5>1
          <6>2. LastSent.attempt = attempt
            BY <6>1 DEF Chunk
          <6> QED
            BY <4>1, <6>2
        <5>2. CASE got = 0
          <6>1. LastSent.attempt < attempt
            BY <3>2, <4>1, <4>2, <5>2
          <6>2. LastSent.attempt \in Nat
            <7>1. LastSent \in Events /\ LastSent.kind = "chunk"
              BY <2>3, <4>2 DEF LastSent, WordInv, OnlyChunks
            <7> QED
              BY <7>1, EventKinds, ConstantTypes
          <6> QED
            BY <4>1, <6>1, <6>2
        <5> QED
          BY <5>1, <5>2
      <4> QED
        BY <4>1, <4>2
    <3>11. CASE Deliver
      BY <1>2, <3>11 DEF Deliver
    <3> QED
      BY <3>4, <3>5, <3>6, <3>7, <3>8, <3>9, <3>10, <3>11 DEF Next, Service
  <2> QED
    BY <2>2, <2>3
<1> QED
  BY <1>1, <1>2

LEMMA CostStep ==
    ASSUME Typed, HandInv, CostInv, [Next]_vars
    PROVE  CostInv'
<1>t. /\ calls \in Nat /\ attempt \in Nat /\ attempt < MaxAttempts
      /\ MaxAttempts \in Nat /\ client \in Seq(Events)
  BY ConstantTypes DEF Typed, OtherTypes
<1>q. QuotaExceeded' = QuotaExceeded
  BY DEF Next, Service, Retrieve, CheckQuota, Connect, NextChunk, EndOfAnswer,
     LlmFails, Wake, Deliver, Finish, Silence, Comment, Leave, Abandon, vars,
     requestVars, QuotaExceeded
<1>1. CASE Deliver /\ ~gone
  <2>1. /\ Len(client') = Len(client) + 1 /\ Len(client) \in Nat
        /\ \A i \in 1 .. Len(client) : client'[i] = client[i]
        /\ client'[Len(client) + 1] = hand[1] /\ hand # <<>>
        /\ pc' = IF hand[1].kind \in Ends THEN "over" ELSE "chunks"
        /\ hand' = <<>> /\ calls' = calls /\ attempt' = attempt
    BY <1>1, <1>t, Delivery DEF sourceVars
  <2>2. ASSUME QuotaExceeded
        PROVE  /\ pc' = "over"
               /\ \A i \in 1 .. Len(client') : client'[i].kind = "quota_exceeded"
    <3>1. hand[1].kind = "quota_exceeded"
      BY <2>1, <2>2 DEF CostInv
    <3>2. \A i \in 1 .. Len(client) : client[i].kind = "quota_exceeded"
      BY <2>2 DEF CostInv
    <3> QED
      BY <2>1, <3>1, <3>2 DEF Ends
  <2> QED
    BY <1>q, <2>1, <2>2 DEF CostInv, Sources
<1>2. CASE ~(Deliver /\ ~gone)
  <2>0. client' = client
    BY <1>2, NoDelivery
  <2> USE <1>t, <1>q, <2>0
      DEF CostInv, vars, requestVars, sourceVars, clientVars, Yield, Sources
  <2>c. Called => calls' \in Nat /\ calls' <= calls + 1
    BY DEF Called
  <2>1. CASE Retrieve \/ Comment \/ Leave \/ UNCHANGED vars
    BY <2>1 DEF Retrieve, Comment, Leave
  <2>2. CASE Finish \/ Silence \/ Abandon
    BY <2>2 DEF Finish, AfterLast, Silence, Abandon
  <2>3. CASE CheckQuota
    BY <2>3 DEF CheckQuota, Last
  <2>4. CASE Connect \/ NextChunk \/ EndOfAnswer
    BY <2>c, <2>4 DEF Connect, NextChunk, EndOfAnswer
  <2>5. ASSUME NEW retryable \in BOOLEAN, LlmFails(retryable)
        PROVE  CostInv'
    BY <2>c, <2>5 DEF LlmFails, GiveUp
  <2>6. CASE Wake
    BY <2>6 DEF Wake, NextAttempt
  <2>7. CASE Deliver
    BY <1>2, <2>7 DEF Deliver
  <2> QED
    BY <2>1, <2>2, <2>3, <2>4, <2>5, <2>6, <2>7 DEF Next, Service
<1> QED
  BY <1>1, <1>2

LEMMA CountStep ==
    ASSUME Typed, HandInv, WordInv, CostInv, CountInv, [Next]_vars
    PROVE  CountInv'
<1> USE DEF CountInv, LastSent, InHand, vars, requestVars, sourceVars, clientVars,
        Yield
<1>t. /\ counted \in Nat /\ client \in Seq(Events) /\ gone \in BOOLEAN
      /\ status \in Statuses
  BY DEF Typed, OtherTypes
<1>1. CASE Deliver /\ ~gone
  <2>1. /\ client' # <<>> /\ LastSent' = hand[1] /\ hand # <<>>
        /\ hand[1] \in Events
        /\ pc' = IF hand[1].kind \in Ends THEN "over" ELSE "chunks"
        /\ hand' = <<>> /\ status' = status /\ counted' = counted
        /\ pc = "event"
    BY <1>1, <1>t, Delivery DEF sourceVars, Deliver
  <2>2. pc' = "chunks" => hand[1].kind = "chunk"
    BY <2>1, EventKinds
  <2> QED
    BY <2>1, <2>2, <1>t DEF Sources
<1>2. CASE ~(Deliver /\ ~gone)
  <2>0. client' = client
    BY <1>2, NoDelivery
  <2>w. pc \notin {"over", "ended"} /\ client # <<>> => LastSent.kind = "chunk"
    BY <1>t DEF WordInv, OnlyChunks
  <2> USE <1>t, <2>0, <2>w DEF Sources
  <2>1. CASE Retrieve \/ Connect \/ Wake \/ UNCHANGED vars
    BY <2>1 DEF Retrieve, Connect, Wake, HandInv
  <2>2. CASE Leave \/ Comment
    BY <2>2 DEF Leave, Comment
  <2>3. CASE Finish \/ Silence
    BY <2>3 DEF Finish, AfterLast, Silence, Count, HandInv
  <2>4. CASE Abandon
    BY <2>4 DEF Abandon, Count, CostInv
  <2>5. CASE CheckQuota
    BY <2>5 DEF CheckQuota, Last, HandInv
  <2>6. CASE NextChunk
    BY <2>6 DEF NextChunk, Chunk
  <2>7. CASE EndOfAnswer
    BY <2>7 DEF EndOfAnswer, Last
  <2>8. ASSUME NEW retryable \in BOOLEAN, LlmFails(retryable)
        PROVE  CountInv'
    BY <2>8 DEF LlmFails, GiveUp, Last, HandInv
  <2>9. CASE Deliver
    BY <1>2, <2>9 DEF Deliver, Count
  <2> QED
    BY <2>1, <2>2, <2>3, <2>4, <2>5, <2>6, <2>7, <2>8, <2>9 DEF Next, Service
<1> QED
  BY <1>1, <1>2

LEMMA InitInv == Init => ExplainInv
<1> SUFFICES ASSUME Init PROVE ExplainInv
  OBVIOUS
<1>1. Typed
  BY InitTypes DEF Typed
<1>2. HandInv /\ WordInv /\ CountInv
  BY DEF Init, HandInv, InHand, WordInv, OnlyChunks, CountInv, Sources
<1>3. CostInv /\ TextInv
  BY DEF Init, CostInv, TextInv, Delivered, InHand, Sources
<1> QED
  BY <1>1, <1>2, <1>3 DEF ExplainInv

\* Whatever fails, wherever the stream is cut: the five parts hold together.
THEOREM ExplainInvariance == Spec => []ExplainInv
<1>1. ExplainInv /\ [Next]_vars => ExplainInv'
  BY TypeStep, HandStep, TextStep, WordStep, CostStep, CountStep
     DEF ExplainInv, Typed
<1> QED
  BY InitInv, <1>1, PTL DEF Spec

\* The types of a request's state are right.
THEOREM TypeCorrect == Spec => []ExplainTypeOK
<1>1. ExplainInv => ExplainTypeOK
  BY TypesInParts DEF ExplainInv, Typed
<1> QED
  BY <1>1, ExplainInvariance, PTL

\* "done" follows an answer the client has whole, and its text has no gap and
\* no piece twice within an attempt, however often the LLM fails.
THEOREM AnswersAreWhole == Spec => []AnswerIsWhole
<1>1. ExplainInv => AnswerIsWhole
  BY DEF ExplainInv, TextInv, InOrder, AnswerIsWhole
<1> QED
  BY <1>1, ExplainInvariance, PTL

\* A stream has one last word, missing only after silence or when the client
\* has left.
THEOREM OneLastWord == Spec => []LastWord
<1>1. ASSUME ExplainInv
      PROVE  LastWord
  <2>t. client \in Seq(Events)
    BY <1>1 DEF ExplainInv, Typed, OtherTypes
  <2>1. \A i \in 1 .. Len(client) : client[i].kind \in Ends => i = Len(client)
    BY <1>1, <2>t DEF ExplainInv, WordInv, Ends
  <2> QED
    BY <1>1, <2>1 DEF ExplainInv, WordInv, OnlyChunks, LastSent, LastWord
<1> QED
  BY <1>1, ExplainInvariance, PTL

\* A spent budget costs no call and tells the client nothing but that; no
\* request costs more than MaxAttempts calls.
THEOREM SpentBudgetsAreFree == Spec => []SpentBudgetIsFree
<1>1. ASSUME ExplainInv
      PROVE  SpentBudgetIsFree
  <2>1. calls \in Nat /\ attempt \in Nat /\ attempt < MaxAttempts /\ MaxAttempts \in Nat
    BY <1>1, ConstantTypes DEF ExplainInv, Typed, OtherTypes
  <2> QED
    BY <1>1, <2>1 DEF ExplainInv, CostInv, QuotaExceeded, SpentBudgetIsFree
<1> QED
  BY <1>1, ExplainInvariance, PTL

\* Every request is counted once, as what the client was told.
THEOREM RequestsAreCountedOnce == Spec => []CountedOnce
<1>1. ExplainInv => CountedOnce
  BY DEF ExplainInv, CountInv, LastSent, CountedOnce
<1> QED
  BY <1>1, ExplainInvariance, PTL
=============================================================================
