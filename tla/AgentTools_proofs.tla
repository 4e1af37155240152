-------------------------- MODULE AgentTools_proofs --------------------------
(***************************************************************************)
(* Proofs about the tools of one agent turn, for any number of attempts,   *)
(* of POSTs and of calls: which servers run, and what titlis-api has got   *)
(* of the thresholds that update_slo_thresholds proposes.                  *)
(***************************************************************************)
EXTENDS AgentTools, TLAPS

\* Where a provider's session is being started.
Starting == {"lookup", "start", "initialize", "close", "delay", "list"}

\* The providers are taken one after the other; an attempt's server runs from
\* its start to the session or to its close.
ServersInv ==
    /\ \A p \in Providers : servers[p] <= 1
    /\ pc \in {"lookup", "start", "delay"} => ~Running(provider)
    /\ pc \in {"initialize", "close", "list"} => Running(provider)
    /\ pc \in Starting /\ provider = "github" => ~Running("datadog")
    /\ pc \in Starting => sessions \subseteq
           (IF provider = "github" THEN {} ELSE {"github"})
           \cup (IF pc = "list" THEN {provider} ELSE {})
    /\ pc = "list" => provider \in sessions
    /\ pc \notin {"unwind", "ended"} => \A p \in sessions : Running(p)
    /\ Running("datadog") /\ "github" \in sessions => Running("github")
    /\ pc = "ended" => \A p \in Providers : ~Running(p)

\* The turn begins when both providers are done with.
BeganInv == began => pc \notin Starting

\* What has arrived are fields up to the one that is being proposed; of that
\* one, no more than was sent.
ProposedInv ==
    /\ pc = "read" => at = 1 /\ posts = 0 /\ proposed = <<>>
    /\ pc \in {"read", "propose"} => outcome = "none"
    /\ outcome = "result" => at = Len(request) + 1
    /\ \A k \in 1 .. Len(proposed) :
           \E i \in 1 .. Len(request) : i <= at /\ proposed[k] = request[i]
    /\ \A i \in 1 .. Len(request) :
           i < at => \E k \in 1 .. Len(proposed) : proposed[k] = request[i]
    /\ \A i, j \in 1 .. Len(proposed) :
           /\ i < j => Place(proposed[i]) <= Place(proposed[j])
           /\ proposed[i] = proposed[j] => j - i < MaxPosts
    /\ pc = "propose" /\ at <= Len(request) =>
           \A k \in 1 .. Len(proposed) :
               proposed[k] = request[at] => Len(proposed) - k < posts
-----------------------------------------------------------------------------
\* ToolsTypeOK in two parts.
ServerTypes ==
    /\ pc \in Places
    /\ provider \in Providers
    /\ attempt \in 0 .. MaxAttempts - 1
    /\ servers \in [Providers -> Nat]
    /\ sessions \subseteq Providers /\ listed \subseteq sessions
    /\ left \in 0 .. MaxCalls
    /\ outcome \in Outcomes /\ began \in BOOLEAN

ProposalTypes ==
    /\ request \in Requests
    /\ at \in 1 .. Len(request) + 1
    /\ posts \in 0 .. MaxPosts - 1
    /\ proposed \in Seq(FieldSet)

LEMMA TypesInParts == ToolsTypeOK <=> ServerTypes /\ ProposalTypes
BY DEF ToolsTypeOK, ServerTypes, ProposalTypes

LEMMA PlaceIs ==
    /\ \A f \in FieldSet : Place(f) \in 1 .. 3 /\ Fields[Place(f)] = f
    /\ \A f, g \in FieldSet : Place(f) = Place(g) => f = g
<1>1. ASSUME NEW f \in FieldSet
      PROVE  Place(f) \in 1 .. 3 /\ Fields[Place(f)] = f
  <2>1. \E i \in 1 .. 3 : Fields[i] = f
    BY DEF Fields, FieldSet
  <2> QED
    BY <2>1 DEF Place
<1> QED
  BY <1>1

\* A request names no field twice, and its fields in their order.
LEMMA RequestIs ==
    ASSUME NEW r \in Requests
    PROVE  /\ r \in Seq(FieldSet)
           /\ \A i, j \in 1 .. Len(r) : i < j => Place(r[i]) < Place(r[j])
<1>1. PICK n \in 0 .. 3 : r \in [1 .. n -> FieldSet]
  BY DEF Requests
<1>2. r \in Seq(FieldSet) /\ Len(r) = n /\ DOMAIN r = 1 .. n
  BY <1>1
<1> QED
  BY <1>2 DEF Requests

\* Nothing was asked for yet.
LEMMA EmptyRequest == <<>> \in Requests
<1>1. <<>> \in [1 .. 0 -> FieldSet]
  OBVIOUS
<1>2. [1 .. 0 -> FieldSet] \in {[1 .. n -> FieldSet] : n \in 0 .. 3}
  OBVIOUS
<1>3. <<>> \in UNION {[1 .. n -> FieldSet] : n \in 0 .. 3}
  BY <1>1, <1>2
<1> QED
  BY <1>3 DEF Requests

\* The steps of the turn itself start and stop nothing.
TurnStep ==
    \/ OtherTool \/ Proposed
    \/ \E ok \in BOOLEAN :
           \/ ReadSlos(ok)
           \/ \E fields \in Requests : UpdateSlo(fields, ok)
           \/ \E answer \in {"ok", "refused", "lost"} : Propose(ok, answer)

LEMMA TurnFrame ==
    ASSUME TurnStep
    PROVE  /\ UNCHANGED <<startVars, mcpVars, began>>
           /\ pc \in {"body", "read", "propose"} /\ pc' \in {"body", "read", "propose"}
<1>1. CASE OtherTool \/ Proposed
  BY <1>1 DEF OtherTool, Proposed
<1>2. ASSUME NEW ok \in BOOLEAN, ReadSlos(ok)
      PROVE  /\ UNCHANGED <<startVars, mcpVars, began>>
             /\ pc \in {"body", "read", "propose"} /\ pc' \in {"body", "read", "propose"}
  BY <1>2 DEF ReadSlos
<1>3. ASSUME NEW ok \in BOOLEAN, NEW fields \in Requests, UpdateSlo(fields, ok)
      PROVE  /\ UNCHANGED <<startVars, mcpVars, began>>
             /\ pc \in {"body", "read", "propose"} /\ pc' \in {"body", "read", "propose"}
  BY <1>3 DEF UpdateSlo
<1>4. ASSUME NEW ok \in BOOLEAN, NEW answer \in {"ok", "refused", "lost"},
             Propose(ok, answer)
      PROVE  /\ UNCHANGED <<startVars, mcpVars, began>>
             /\ pc \in {"body", "read", "propose"} /\ pc' \in {"body", "read", "propose"}
  BY <1>4 DEF Propose, NextField, GiveUp, PostAgain
<1> QED
  BY <1>1, <1>2, <1>3, <1>4 DEF TurnStep

\* All other steps leave the proposals alone.
ServerStep ==
    \/ \E ok \in BOOLEAN : \/ LookupGitHub(ok) \/ LookupDatadog(ok) \/ Start(ok)
                          \/ Initialize(ok) \/ List(ok)
    \/ Close \/ DelayOver \/ EndBody \/ Cut \/ End
    \/ \E p \in Providers : Unwind(p)

LEMMA StepsInParts == Next <=> TurnStep \/ ServerStep
BY DEF Next, TurnStep, ServerStep

LEMMA ServerFrame ==
    ASSUME ServerStep
    PROVE  UNCHANGED <<left, sloVars, outcome>> /\ pc' \notin {"read", "propose"}
BY DEF ServerStep, LookupGitHub, LookupDatadog, Lookup, Start, Initialize, List,
       Close, DelayOver, EndBody, Cut, End, Leave, Unwind, PassOn, NextProvider,
       Failed
-----------------------------------------------------------------------------
LEMMA ServersStep ==
    ASSUME ServerTypes, ServersInv, BeganInv, [Next]_vars
    PROVE  ServersInv' /\ BeganInv'
<1> USE DEF Providers, Running, Starting, BeganInv
<1>t. /\ servers["github"] \in Nat /\ servers["datadog"] \in Nat
      /\ provider \in {"github", "datadog"}
      /\ sessions \subseteq {"github", "datadog"}
      /\ servers \in [{"github", "datadog"} -> Nat]
      /\ began \in BOOLEAN
  BY DEF ServerTypes
<1>1. CASE TurnStep \/ UNCHANGED vars
  <2>1. /\ UNCHANGED <<startVars, mcpVars, began>>
        /\ pc' = pc \/ (/\ pc \in {"body", "read", "propose"}
                        /\ pc' \in {"body", "read", "propose"})
    BY <1>1, TurnFrame DEF vars
  <2> QED
    BY <2>1 DEF ServersInv, startVars, mcpVars
<1>2. ASSUME NEW ok \in BOOLEAN, NEW p \in Providers, Lookup(p, ok)
      PROVE  ServersInv' /\ BeganInv'
  BY <1>t, <1>2 DEF ServersInv, Lookup, NextProvider, startVars, mcpVars
<1>3. ASSUME NEW ok \in BOOLEAN, Start(ok)
      PROVE  ServersInv' /\ BeganInv'
  BY <1>t, <1>3 DEF ServersInv, Start, Failed, NextAttempt, NextProvider, startVars, mcpVars
<1>4. ASSUME NEW ok \in BOOLEAN, Initialize(ok)
      PROVE  ServersInv' /\ BeganInv'
  BY <1>t, <1>4 DEF ServersInv, Initialize, startVars, mcpVars
<1>5. ASSUME NEW ok \in BOOLEAN, List(ok)
      PROVE  ServersInv' /\ BeganInv'
  BY <1>t, <1>5 DEF ServersInv, List, NextProvider, startVars, mcpVars
<1>6. CASE Close
  BY <1>t, <1>6 DEF ServersInv, Close, StopServer, Failed, NextAttempt, NextProvider, startVars, mcpVars
<1>7. CASE DelayOver
  BY <1>t, <1>7 DEF ServersInv, DelayOver, startVars, mcpVars
<1>8. CASE EndBody \/ Cut \/ End
  BY <1>t, <1>8 DEF ServersInv, EndBody, Cut, End, Leave, startVars, mcpVars
<1>9. ASSUME NEW p \in Providers, Unwind(p)
      PROVE  ServersInv' /\ BeganInv'
  BY <1>t, <1>9 DEF ServersInv, Unwind, StopServer, PassOn, startVars, mcpVars
<1> QED
  BY StepsInParts, <1>1, <1>2, <1>3, <1>4, <1>5, <1>6, <1>7, <1>8, <1>9
     DEF ServerStep, LookupGitHub, LookupDatadog

LEMMA ServerTypesStep ==
    ASSUME ServerTypes, ServersInv, [Next]_vars
    PROVE  ServerTypes'
<1> USE AgentToolsAssumption
    DEF ServerTypes, Places, Outcomes, Providers, Running, startVars, mcpVars
<1>0. CASE UNCHANGED vars
  BY <1>0 DEF vars
<1>1. CASE TurnStep
  <2>1. UNCHANGED <<startVars, mcpVars, began>> /\ pc' \in Places
    BY <1>1, TurnFrame
  <2>2. left' \in 0 .. MaxCalls /\ outcome' \in Outcomes
    <3>1. CASE OtherTool \/ Proposed
      BY <3>1 DEF OtherTool, Proposed
    <3>2. ASSUME NEW ok \in BOOLEAN, ReadSlos(ok)
          PROVE  left' \in 0 .. MaxCalls /\ outcome' \in Outcomes
      BY <3>2 DEF ReadSlos
    <3>3. ASSUME NEW ok \in BOOLEAN, NEW fields \in Requests, UpdateSlo(fields, ok)
          PROVE  left' \in 0 .. MaxCalls /\ outcome' \in Outcomes
      BY <3>3 DEF UpdateSlo
    <3>4. ASSUME NEW ok \in BOOLEAN, NEW answer \in {"ok", "refused", "lost"},
                 Propose(ok, answer)
          PROVE  left' \in 0 .. MaxCalls /\ outcome' \in Outcomes
      BY <3>4 DEF Propose, NextField, GiveUp, PostAgain
    <3> QED
      BY <1>1, <3>1, <3>2, <3>3, <3>4 DEF TurnStep
  <2> QED
    BY <2>1, <2>2
<1>2. CASE ServerStep
  <2>1. UNCHANGED <<left, outcome>>
    BY <1>2, ServerFrame
  <2>n. NextProvider => /\ pc' \in Places /\ provider' \in Providers
                        /\ attempt' \in 0 .. MaxAttempts - 1 /\ began' \in BOOLEAN
    <3>1. 0 \in 0 .. MaxAttempts - 1
      OBVIOUS
    <3> QED
      BY <3>1 DEF NextProvider
  <2>f. Failed => /\ pc' \in Places /\ provider' \in Providers
                  /\ attempt' \in 0 .. MaxAttempts - 1 /\ began' \in BOOLEAN
    BY <2>n DEF Failed, MayRetry, NextAttempt
  <2> USE <2>1
  <2>2. ASSUME NEW ok \in BOOLEAN, NEW p \in Providers, Lookup(p, ok)
        PROVE  ServerTypes'
    BY <2>2, <2>n DEF Lookup
  <2>3. ASSUME NEW ok \in BOOLEAN, Start(ok)
        PROVE  ServerTypes'
    <3>1. servers' \in [Providers -> Nat]
      BY <2>3 DEF Start
    <3> QED
      BY <2>3, <2>f, <3>1 DEF Start
  <2>4. ASSUME NEW ok \in BOOLEAN, Initialize(ok)
        PROVE  ServerTypes'
    BY <2>4 DEF Initialize
  <2>5. ASSUME NEW ok \in BOOLEAN, List(ok)
        PROVE  ServerTypes'
    <3>1. listed' \subseteq sessions
      BY <2>5 DEF List, ServersInv
    <3> QED
      BY <2>5, <2>n, <3>1 DEF List
  <2>6. CASE Close
    <3>1. servers' \in [Providers -> Nat]
      BY <2>6 DEF Close, StopServer, ServersInv
    <3> QED
      BY <2>6, <2>f, <3>1 DEF Close
  <2>7. CASE DelayOver \/ EndBody \/ Cut \/ End
    BY <2>7 DEF DelayOver, EndBody, Cut, End, Leave
  <2>8. ASSUME NEW p \in Providers, Unwind(p)
        PROVE  ServerTypes'
    BY <2>8 DEF Unwind, StopServer, PassOn
  <2> QED
    BY <1>2, <2>2, <2>3, <2>4, <2>5, <2>6, <2>7, <2>8
       DEF ServerStep, LookupGitHub, LookupDatadog
<1> QED
  BY <1>0, <1>1, <1>2, StepsInParts
-----------------------------------------------------------------------------
\* An attempt of a POST adds at most its field to what has arrived.
LEMMA Arrival ==
    ASSUME NEW s \in Seq(FieldSet), NEW f \in FieldSet
    PROVE  /\ Append(s, f) \in Seq(FieldSet)
           /\ Len(Append(s, f)) = Len(s) + 1 /\ Len(s) \in Nat
           /\ \A i \in 1 .. Len(s) : Append(s, f)[i] = s[i]
           /\ Append(s, f)[Len(s) + 1] = f
OBVIOUS

\* The parts of ProposedInv, of any sequence of arrivals of a request up to a position.
Covers(s, r, n) ==
    \A i \in 1 .. Len(r) : i < n => \E k \in 1 .. Len(s) : s[k] = r[i]
Within(s, r, n) ==
    \A k \in 1 .. Len(s) : \E i \in 1 .. Len(r) : i <= n /\ s[k] = r[i]
Ordered(s) ==
    \A i, j \in 1 .. Len(s) :
        /\ i < j => Place(s[i]) <= Place(s[j])
        /\ s[i] = s[j] => j - i < MaxPosts
Recent(s, f, n) == \A k \in 1 .. Len(s) : s[k] = f => Len(s) - k < n

LEMMA ProposedInParts ==
    ProposedInv <=>
        /\ pc = "read" => at = 1 /\ posts = 0 /\ proposed = <<>>
        /\ pc \in {"read", "propose"} => outcome = "none"
        /\ outcome = "result" => at = Len(request) + 1
        /\ Within(proposed, request, at)
        /\ Covers(proposed, request, at)
        /\ Ordered(proposed)
        /\ pc = "propose" /\ at <= Len(request) =>
               Recent(proposed, request[at], posts)
BY DEF ProposedInv, Within, Covers, Ordered, Recent

\* One more arrival of the field at position n.
LEMMA OneMore ==
    ASSUME NEW s \in Seq(FieldSet), NEW r \in Requests, NEW n \in 1 .. Len(r),
           NEW m \in 0 .. MaxPosts - 1,
           Within(s, r, n), Covers(s, r, n), Ordered(s), Recent(s, r[n], m)
    PROVE  LET t == Append(s, r[n]) IN
           /\ t \in Seq(FieldSet)
           /\ Within(t, r, n) /\ Covers(t, r, n + 1) /\ Ordered(t)
           /\ Recent(t, r[n], m + 1)
<1> DEFINE t == Append(s, r[n])
           L == Len(s)
<1>1. /\ r \in Seq(FieldSet) /\ r[n] \in FieldSet /\ n \in Nat /\ m \in Nat
      /\ MaxPosts \in Nat /\ m + 1 <= MaxPosts /\ Len(r) \in Nat
  BY RequestIs, AgentToolsAssumption
<1>2. /\ t \in Seq(FieldSet) /\ Len(t) = L + 1 /\ L \in Nat
      /\ \A i \in 1 .. L : t[i] = s[i]
      /\ t[L + 1] = r[n]
  BY <1>1, Arrival
<1> HIDE DEF t
<1>3. Within(t, r, n)
  BY <1>1, <1>2 DEF Within
<1>4. Covers(t, r, n + 1)
  <2> SUFFICES ASSUME NEW i \in 1 .. Len(r), i < n + 1
               PROVE  \E k \in 1 .. Len(t) : t[k] = r[i]
    BY DEF Covers
  <2>1. CASE i = n
    BY <1>2, <2>1
  <2>2. CASE i < n
    <3>1. PICK k \in 1 .. L : s[k] = r[i]
      BY <2>2 DEF Covers
    <3>2. k \in 1 .. Len(t) /\ t[k] = r[i]
      BY <1>2, <3>1
    <3> QED
      BY <3>2
  <2> QED
    BY <1>1, <2>1, <2>2
<1>5. \A k \in 1 .. L : Place(s[k]) <= Place(r[n])
  <2> SUFFICES ASSUME NEW k \in 1 .. L
               PROVE  Place(s[k]) <= Place(r[n])
    OBVIOUS
  <2>1. PICK i \in 1 .. Len(r) : i <= n /\ s[k] = r[i]
    BY DEF Within
  <2>2. r[i] \in FieldSet /\ Place(r[i]) \in Nat /\ Place(r[n]) \in Nat
    BY <1>1, PlaceIs
  <2>3. CASE i = n
    BY <2>1, <2>2, <2>3
  <2>4. CASE i < n
    <3>1. Place(r[i]) < Place(r[n])
      BY <2>4, RequestIs
    <3> QED
      BY <2>1, <2>2, <3>1
  <2> QED
    BY <1>1, <2>1, <2>3, <2>4
<1>6. Ordered(t)
  <2> SUFFICES ASSUME NEW i \in 1 .. L + 1, NEW j \in 1 .. L + 1
               PROVE  /\ i < j => Place(t[i]) <= Place(t[j])
                      /\ t[i] = t[j] => j - i < MaxPosts
    BY <1>2 DEF Ordered
  <2>1. CASE i \in 1 .. L /\ j \in 1 .. L
    BY <1>2, <2>1 DEF Ordered
  <2>2. CASE i = L + 1
    BY <1>1, <1>2, <2>2
  <2>3. CASE i \in 1 .. L /\ j = L + 1
    <3>1. Place(t[i]) <= Place(t[j])
      BY <1>2, <1>5, <2>3
    <3>2. ASSUME t[i] = t[j]
          PROVE  j - i < MaxPosts
      <4>1. s[i] = r[n]
        BY <1>2, <2>3, <3>2
      <4>2. L - i < m
        BY <2>3, <4>1 DEF Recent
      <4> QED
        BY <1>1, <1>2, <2>3, <4>2
    <3> QED
      BY <3>1, <3>2
  <2> QED
    BY <1>2, <2>1, <2>2, <2>3
<1>7. Recent(t, r[n], m + 1)
  <2> SUFFICES ASSUME NEW k \in 1 .. L + 1, t[k] = r[n]
               PROVE  L + 1 - k < m + 1
    BY <1>2 DEF Recent
  <2>1. CASE k \in 1 .. L
    <3>1. L - k < m
      BY <1>2, <2>1 DEF Recent
    <3> QED
      BY <1>1, <1>2, <2>1, <3>1
  <2>2. CASE k = L + 1
    BY <1>1, <1>2, <2>2
  <2> QED
    BY <1>2, <2>1, <2>2
<1> QED
  BY <1>2, <1>3, <1>4, <1>6, <1>7 DEF t

\* Nothing has arrived yet.
LEMMA NothingYet ==
    ASSUME NEW r \in Requests
    PROVE  /\ <<>> \in Seq(FieldSet) /\ 1 \in 1 .. Len(r) + 1
           /\ Within(<<>>, r, 1) /\ Covers(<<>>, r, 1) /\ Ordered(<<>>)
           /\ \A f : Recent(<<>>, f, 0)
<1>1. Len(r) \in Nat
  BY RequestIs
<1> QED
  BY <1>1 DEF Within, Covers, Ordered, Recent

LEMMA ProposeStep ==
    ASSUME ProposalTypes, ProposedInv,
           NEW arrives \in BOOLEAN, NEW answer \in {"ok", "refused", "lost"},
           Propose(arrives, answer)
    PROVE  ProposalTypes' /\ ProposedInv'
<1>1. /\ pc = "propose" /\ at <= Len(request) /\ at \in 1 .. Len(request)
      /\ request' = request /\ request \in Requests
      /\ posts \in 0 .. MaxPosts - 1 /\ proposed \in Seq(FieldSet)
      /\ MaxPosts \in Nat /\ Len(request) \in Nat
      /\ proposed' = IF arrives THEN Append(proposed, request[at]) ELSE proposed
      /\ outcome = "none"
  BY RequestIs, AgentToolsAssumption DEF ProposalTypes, ProposedInv, Propose
<1>2. /\ Within(proposed, request, at) /\ Covers(proposed, request, at)
      /\ Ordered(proposed) /\ Recent(proposed, request[at], posts)
  BY <1>1, ProposedInParts
<1>3. /\ Within(proposed', request, at) /\ Covers(proposed', request, at)
      /\ Ordered(proposed') /\ Recent(proposed', request[at], posts + 1)
      /\ proposed' \in Seq(FieldSet)
      /\ arrives => Covers(proposed', request, at + 1)
  <2>1. CASE arrives
    <3>1. proposed' = Append(proposed, request[at])
      BY <1>1, <2>1
    <3>2. /\ Within(proposed', request, at) /\ Covers(proposed', request, at + 1)
          /\ Ordered(proposed') /\ Recent(proposed', request[at], posts + 1)
          /\ proposed' \in Seq(FieldSet)
      BY <1>1, <1>2, <3>1, OneMore
    <3>3. Covers(proposed', request, at)
      BY <1>1, <3>2 DEF Covers
    <3> QED
      BY <3>2, <3>3
  <2>2. CASE ~arrives
    <3>1. proposed' = proposed
      BY <1>1, <2>2
    <3>2. Recent(proposed, request[at], posts + 1)
      BY <1>1, <1>2 DEF Recent
    <3> QED
      BY <1>1, <1>2, <2>2, <3>1, <3>2
  <2> QED
    BY <2>1, <2>2
<1>k. ASSUME at' = at, outcome' # "result",
             pc' \in {"read", "propose"} => outcome' = "none", pc' # "read",
             pc' = "propose" => Recent(proposed', request'[at'], posts')
      PROVE  ProposedInv'
  <2>1. /\ Within(proposed', request', at') /\ Covers(proposed', request', at')
        /\ Ordered(proposed')
    BY <1>1, <1>3, <1>k
  <2> QED
    BY <1>k, <2>1 DEF ProposedInv, Within, Covers, Ordered, Recent
<1>4. CASE answer = "ok"
  <2>1. /\ at' = at + 1 /\ posts' = 0 /\ pc' = "propose" /\ outcome' = "none" /\ arrives
    BY <1>1, <1>4 DEF Propose, NextField
  <2>2. Within(proposed', request, at + 1)
    BY <1>1, <1>3 DEF Within
  <2>3. at + 1 <= Len(request) => Recent(proposed', request[at + 1], 0)
    <3> SUFFICES ASSUME at + 1 <= Len(request), NEW k \in 1 .. Len(proposed'),
                        proposed'[k] = request[at + 1]
                 PROVE  FALSE
      BY DEF Recent
    <3>1. PICK i \in 1 .. Len(request) : i <= at /\ proposed'[k] = request[i]
      BY <1>3 DEF Within
    <3>2. i < at + 1 /\ at + 1 \in 1 .. Len(request)
      BY <1>1, <3>1
    <3>3. Place(request[i]) < Place(request[at + 1])
      BY <1>1, <3>2, RequestIs
    <3>4. Place(request[i]) \in Nat
      BY <1>1, <3>1, RequestIs, PlaceIs
    <3> QED
      BY <3>1, <3>3, <3>4
  <2>4. ProposedInv'
    BY <1>1, <1>3, <2>1, <2>2, <2>3
       DEF ProposedInv, Within, Covers, Ordered, Recent
  <2>5. ProposalTypes'
    BY <1>1, <1>3, <2>1 DEF ProposalTypes
  <2> QED
    BY <2>4, <2>5
<1>5. CASE answer = "refused" \/ (answer = "lost" /\ ~(posts < MaxPosts - 1))
  <2>1. at' = at /\ posts' = posts /\ pc' = "body" /\ outcome' = "error"
    BY <1>5 DEF Propose, GiveUp
  <2>2. ProposedInv'
    BY <1>k, <2>1
  <2>3. ProposalTypes'
    BY <1>1, <1>3, <2>1 DEF ProposalTypes
  <2> QED
    BY <2>2, <2>3
<1>6. CASE answer = "lost" /\ posts < MaxPosts - 1
  <2>1. /\ at' = at /\ posts' = posts + 1 /\ pc' = "propose" /\ outcome' = "none"
    BY <1>1, <1>6 DEF Propose, PostAgain
  <2>2. ProposedInv'
    <3>1. Recent(proposed', request'[at'], posts')
      BY <1>1, <1>3, <2>1
    <3> QED
      BY <1>k, <2>1, <3>1
  <2>3. ProposalTypes'
    BY <1>1, <1>3, <1>6, <2>1 DEF ProposalTypes
  <2> QED
    BY <2>2, <2>3
<1> QED
  BY <1>4, <1>5, <1>6

LEMMA ProposalsStep ==
    ASSUME ProposalTypes, ProposedInv, [Next]_vars
    PROVE  ProposalTypes' /\ ProposedInv'
<1>1. ASSUME UNCHANGED <<sloVars, outcome>>, pc' = pc \/ pc' \notin {"read", "propose"}
      PROVE  ProposalTypes' /\ ProposedInv'
  BY <1>1 DEF ProposalTypes, ProposedInv, sloVars
<1>2. CASE UNCHANGED vars
  BY <1>1, <1>2 DEF vars
<1>3. CASE ServerStep
  BY <1>1, <1>3, ServerFrame
<1>4. CASE OtherTool
  BY <1>1, <1>4 DEF OtherTool
<1>5. CASE Proposed
  BY <1>5 DEF Proposed, sloVars, ProposalTypes, ProposedInv
<1>6. ASSUME NEW ok \in BOOLEAN, ReadSlos(ok)
      PROVE  ProposalTypes' /\ ProposedInv'
  <2>1. /\ pc = "read" /\ UNCHANGED sloVars
        /\ \/ pc' = "propose" /\ outcome' = outcome
           \/ pc' = "body" /\ outcome' = "error"
    BY <1>6 DEF ReadSlos
  <2>2. at = 1 /\ posts = 0 /\ proposed = <<>> /\ outcome = "none"
    BY <2>1 DEF ProposedInv
  <2> QED
    BY <2>1, <2>2 DEF sloVars, ProposalTypes, ProposedInv
<1>7. ASSUME NEW ok \in BOOLEAN, NEW fields \in Requests, UpdateSlo(fields, ok)
      PROVE  ProposalTypes' /\ ProposedInv'
  <2>1. /\ request' = fields /\ at' = 1 /\ posts' = 0 /\ proposed' = <<>>
        /\ \/ pc' = "read" /\ outcome' = "none"
           \/ pc' = "body" /\ outcome' = "error"
    BY <1>7 DEF UpdateSlo
  <2>2. 0 \in 0 .. MaxPosts - 1
    BY AgentToolsAssumption
  <2>3. ProposedInv'
    BY <2>1, NothingYet DEF ProposedInv, Within, Covers, Ordered, Recent
  <2> QED
    BY <2>1, <2>2, <2>3, NothingYet DEF ProposalTypes
<1>8. ASSUME NEW ok \in BOOLEAN, NEW answer \in {"ok", "refused", "lost"},
             Propose(ok, answer)
      PROVE  ProposalTypes' /\ ProposedInv'
  BY <1>8, ProposeStep
<1> QED
  BY StepsInParts, <1>2, <1>3, <1>4, <1>5, <1>6, <1>7, <1>8 DEF TurnStep
-----------------------------------------------------------------------------
ToolsInv == ServerTypes /\ ServersInv /\ BeganInv /\ ProposalTypes /\ ProposedInv

LEMMA InitTools == Init => ToolsInv
<1> SUFFICES ASSUME Init PROVE ToolsInv
  OBVIOUS
<1>1. ServerTypes /\ ServersInv /\ BeganInv
  <2>1. 0 \in 0 .. MaxAttempts - 1 /\ MaxCalls \in 0 .. MaxCalls
    BY AgentToolsAssumption
  <2>2. servers \in [Providers -> Nat] /\ \A p \in Providers : servers[p] = 0
    BY DEF Init
  <2>3. ServersInv /\ BeganInv
    BY <2>2 DEF Init, ServersInv, BeganInv, Starting, Running, Providers
  <2> QED
    BY <2>1, <2>2, <2>3 DEF Init, ServerTypes, Places, Providers, Outcomes
<1>2. request \in Requests /\ request = <<>>
  BY EmptyRequest DEF Init
<1>3. ProposalTypes
  BY <1>2, AgentToolsAssumption DEF Init, ProposalTypes
<1>4. ProposedInv
  BY <1>2, NothingYet DEF Init, ProposedInv
<1> QED
  BY <1>1, <1>3, <1>4 DEF ToolsInv

\* Wherever attempts fail and the turn is cut.
THEOREM ToolsInvariance == Spec => []ToolsInv
<1>1. ToolsInv /\ [Next]_vars => ToolsInv'
  BY ServersStep, ServerTypesStep, ProposalsStep DEF ToolsInv
<1> QED
  BY InitTools, <1>1, PTL DEF Spec

\* The types of a turn's state are right.
THEOREM ToolTypesCorrect == Spec => []ToolsTypeOK
<1>1. ToolsInv => ToolsTypeOK
  BY TypesInParts DEF ToolsInv
<1> QED
  BY <1>1, ToolsInvariance, PTL

\* A provider never has two servers, a turn leaves none behind, and a tool that
\* the turn may call has its server.
THEOREM NoServerIsLeft == Spec => []ServersAreOwned
<1>1. ToolsInv => ServersAreOwned
  BY DEF ToolsInv, ServersInv, ServersAreOwned
<1> QED
  BY <1>1, ToolsInvariance, PTL

\* A turn that has begun starts no server: what it raises passes through the
\* sessions.
THEOREM BegunStartsNothing == Spec => NoStartAfterBegin
<1>1. ASSUME ToolsInv, [Next]_vars
      PROVE  [began => \A p \in Providers : servers'[p] <= servers[p]]_vars
  <2> SUFFICES ASSUME began, Next, NEW p \in Providers
               PROVE  servers'[p] <= servers[p]
    BY <1>1
  <2>t. servers \in [Providers -> Nat] /\ servers[p] \in Nat
    BY <1>1 DEF ToolsInv, ServerTypes
  <2>n. pc \notin Starting
    BY <1>1 DEF ToolsInv, BeganInv
  <2>1. CASE TurnStep
    BY <2>1, <2>t, TurnFrame DEF mcpVars
  <2>2. CASE EndBody \/ Cut \/ End
    <3>1. servers' = servers
      BY <2>2 DEF EndBody, Cut, End, Leave, mcpVars
    <3> QED
      BY <2>t, <3>1
  <2>3. ASSUME NEW q \in Providers, Unwind(q)
        PROVE  servers'[p] <= servers[p]
    BY <2>3, <2>t DEF Unwind, StopServer, Providers
  <2> QED
    BY <2>1, <2>2, <2>3, <2>n, StepsInParts
       DEF ServerStep, LookupGitHub, LookupDatadog, Lookup, Start, Initialize,
           List, Close, DelayOver, Starting
<1> QED
  BY <1>1, ToolsInvariance, PTL DEF Spec, NoStartAfterBegin

\* titlis-api has a beginning of the fields, in order, each at most MaxPosts
\* times, and all of them if the tool says so.
THEOREM ProposalsAreInOrder == Spec => []ProposalsInOrder
<1>1. ASSUME ToolsInv
      PROVE  ProposalsInOrder
  <2>1. ProposedInv /\ request \in Requests /\ at \in 1 .. Len(request) + 1
        /\ Len(request) \in Nat
    BY <1>1, RequestIs DEF ToolsInv, ProposalTypes
  <2>2. ASSUME NEW i \in 1 .. Len(request), i > at,
               NEW k \in 1 .. Len(proposed), proposed[k] = request[i]
        PROVE  FALSE
    <3>1. PICK j \in 1 .. Len(request) : j <= at /\ proposed[k] = request[j]
      BY <2>1 DEF ProposedInv
    <3>2. j < i
      BY <2>1, <2>2, <3>1
    <3>3. Place(request[j]) < Place(request[i]) /\ Place(request[i]) \in Nat
      BY <2>1, <3>2, RequestIs, PlaceIs
    <3> QED
      BY <2>2, <3>1, <3>3
  <2> QED
    BY <2>1, <2>2 DEF ProposedInv, ProposalsInOrder
<1> QED
  BY <1>1, ToolsInvariance, PTL
=============================================================================
