-------------------------- MODULE Remediation_proofs --------------------------
(***************************************************************************)
(* Proofs about Remediation for every number of connections, threads and   *)
(* workloads, every retry bound and lifetime of an interrupt, and whatever *)
(* faults happen.                                                          *)
(*                                                                         *)
(* The invariant says, for each program point, what a connection that      *)
(* stands there may rely on (PointInv), what an entry of                   *)
(* _thread_interrupt_times stands for (EntryInv), that nobody else is in   *)
(* the same graph (SingleExecution), and that what GitHub holds was        *)
(* reviewed (FilesInv).                                                    *)
(***************************************************************************)
EXTENDS Remediation, TLAPS

\* The three stages of a thread's patch.
Undecided(t) == approved[t] = "unset" /\ shown[t] = {}
Offered(t)   == /\ approved[t] = "unset" /\ shown[t] = {PatchOf(t)}
                /\ quality[t] # "bad" /\ retry[t] >= 1
Chosen(t)    == /\ approved[t] = "yes" /\ shown[t] = {PatchOf(t)}
                /\ quality[t] # "bad" /\ retry[t] >= 1

\* The points before the first patch, but for the one that may be resumed.
Preparing  == {"classify", "fetch", "list", "current", "get_pr", "close_pr",
               "analyze"}
Publishing == {"begin", "branch", "push", "pr", "notify"}

PointInv(c, t) ==
    /\ t \in born
    /\ pc[c] \in Preparing =>
          interrupted[t] = "no" /\ retry[t] = 0 /\ Undecided(t)
    /\ pc[c] = "resolve" =>
          interrupted[t] # "confirmation" /\ retry[t] = 0 /\ Undecided(t)
    /\ pc[c] = "generate" =>
          interrupted[t] = "no" /\ retry[t] < MaxRetries /\ Undecided(t)
    /\ pc[c] = "validate" =>
          interrupted[t] = "no" /\ retry[t] >= 1 /\ Undecided(t)
    /\ pc[c] = "confirm" =>
          \/ /\ interrupted[t] = "no" /\ retry[t] >= 1 /\ Undecided(t)
             /\ quality[t] # "bad"
          \/ interrupted[t] = "confirmation" /\ Offered(t)
    /\ pc[c] \in Publishing => interrupted[t] = "no" /\ Chosen(t)
    /\ pc[c] \in {"branch", "push", "pr"} => quality[t] = "good"

EntryInv(t) ==
    /\ t \in born
    /\ \/ interrupted[t] = "service_yaml" /\ retry[t] = 0 /\ Undecided(t)
       \/ interrupted[t] = "confirmation" /\ Offered(t)

UnbornInv(t) == /\ interruptAt[t] = Never /\ interrupted[t] = "no"
                /\ retry[t] = 0 /\ Undecided(t)

ControlInv ==
    /\ \A c \in Conns, t \in Threads : Executing(c, t) => PointInv(c, t)
    /\ \A t \in Threads : interruptAt[t] # Never => EntryInv(t)
    /\ \A t \in Threads : t \notin born => UnbornInv(t)

Reviewed(p) == /\ p.quality = "good" /\ shown[p.thread] = {p}
               /\ approved[p.thread] = "yes"

FilesInv ==
    /\ \A h \in Heads : \A p \in pushed[h] : Reviewed(p)
    /\ \A n \in 1 .. Len(prs) : \A p \in prs[n].files : Reviewed(p)

Inv == TypeOK /\ SingleExecution /\ ControlInv /\ FilesInv

\* A step that leaves a group of variables alone leaves its type alone.
LEMMA Kept ==
    ASSUME TypeOK
    PROVE  /\ UNCHANGED connVars => ConnTypeOK'
           /\ UNCHANGED inputVars => InputTypeOK'
           /\ UNCHANGED planVars => PlanTypeOK'
           /\ UNCHANGED patchVars => PatchTypeOK'
           /\ UNCHANGED decideVars => DecideTypeOK'
           /\ UNCHANGED prVars => PrTypeOK'
           /\ UNCHANGED gitVars => GitTypeOK'
           /\ UNCHANGED restVars => RestTypeOK'
<1>1. UNCHANGED connVars => ConnTypeOK'
  BY DEF TypeOK, ConnTypeOK, connVars
<1>2. UNCHANGED inputVars => InputTypeOK'
  BY DEF TypeOK, InputTypeOK, inputVars
<1>3. UNCHANGED planVars => PlanTypeOK'
  BY DEF TypeOK, PlanTypeOK, planVars
<1>4. UNCHANGED patchVars => PatchTypeOK'
  BY DEF TypeOK, PatchTypeOK, patchVars
<1>5. UNCHANGED decideVars => DecideTypeOK'
  BY DEF TypeOK, DecideTypeOK, decideVars
<1>6. UNCHANGED prVars => PrTypeOK'
  BY DEF TypeOK, PrTypeOK, prVars
<1>7. UNCHANGED gitVars => GitTypeOK'
  BY DEF TypeOK, GitTypeOK, gitVars
<1>8. UNCHANGED restVars => RestTypeOK'
  BY DEF TypeOK, RestTypeOK, restVars
<1> QED BY <1>1, <1>2, <1>3, <1>4, <1>5, <1>6, <1>7, <1>8

\* The ways a connection goes on keep the types of the connections.
LEMMA MovesType ==
    ASSUME ConnTypeOK, NEW c \in Conns, NEW p \in Points,
           NEW what \in SUBSET EventTypes
    PROVE  /\ Goto(c, p) => ConnTypeOK'
           /\ GotoTelling(c, p, what) => ConnTypeOK'
           /\ EndCheck(c) => ConnTypeOK'
<1>1. Goto(c, p) => ConnTypeOK'
  BY DEF ConnTypeOK, Goto
<1>2. GotoTelling(c, p, what) => ConnTypeOK'
  BY DEF ConnTypeOK, GotoTelling
<1>3. EndCheck(c) => ConnTypeOK'
  BY DEF ConnTypeOK, EndCheck, Points, Awaiting
<1> QED BY <1>1, <1>2, <1>3

\* So does an attempt of a POST, which counts up to MaxPosts.
LEMMA PostType ==
    ASSUME ConnTypeOK, NEW c \in Conns, NEW p \in Points, NEW a \in BOOLEAN,
           PostAttempt(c, p, a), UNCHANGED <<op, target, events>>,
           seen' \in [Conns -> Nat]
    PROVE  ConnTypeOK'
<1>1. pc' \in [Conns -> Points]
  BY DEF ConnTypeOK, PostAttempt
<1>2. posts' \in [Conns -> 0 .. MaxPosts]
  <2>1. posts[c] \in 0 .. MaxPosts /\ MaxPosts \in Nat
    BY ConstantsAssumption DEF ConnTypeOK
  <2>2. 0 \in 0 .. MaxPosts
    BY <2>1
  <2>3. posts[c] + 1 < MaxPosts => posts[c] + 1 \in 0 .. MaxPosts
    BY <2>1
  <2> QED BY <2>2, <2>3 DEF ConnTypeOK, PostAttempt
<1> QED BY <1>1, <1>2 DEF ConnTypeOK

\* A patch that was generated is numbered within the retry bound.
LEMMA PatchIsTyped ==
    ASSUME PatchTypeOK, PlanTypeOK, NEW t \in Threads, retry[t] >= 1
    PROVE  PatchOf(t) \in Patches
BY ConstantsAssumption DEF PatchTypeOK, PlanTypeOK, PatchOf, Patches

\* Every thread names a branch.
LEMMA HeadIsTyped ==
    ASSUME InputTypeOK, PrTypeOK, NEW t \in Threads
    PROVE  HeadOf(t) \in Heads
BY DEF InputTypeOK, PrTypeOK, HeadOf, NameOf, Heads, Names

\* Steps of the graph keep the types, given what the control invariant says of
\* the three points where a type depends on it.
LEMMA StepType ==
    ASSUME TypeOK, NEW c \in Conns, NEW t \in Threads, Step(c, t),
           pc[c] = "generate" => retry[t] < MaxRetries,
           pc[c] \in {"confirm", "push"} => retry[t] >= 1
    PROVE  TypeOK'
<1> USE Kept
<1>1. CASE ClassifyFindings(c, t)
  <2>1. ConnTypeOK'
    BY <1>1, MovesType DEF ClassifyFindings, At, Points, Awaiting, Local, TypeOK
  <2>2. InputTypeOK'
    BY <1>1 DEF ClassifyFindings, TypeOK, InputTypeOK, inputVars
  <2> QED BY <1>1, <2>1, <2>2 DEF ClassifyFindings, TypeOK, nodeVars
<1>2. CASE ResolveFromServiceYaml(c, t)
  <2>1. ConnTypeOK'
    BY <1>2, MovesType
       DEF ResolveFromServiceYaml, At, Points, Awaiting, Local, TypeOK
  <2>2. PlanTypeOK'
    BY <1>2 DEF ResolveFromServiceYaml, TypeOK, PlanTypeOK, planVars
  <2>3. DecideTypeOK'
    BY <1>2
       DEF ResolveFromServiceYaml, TypeOK, DecideTypeOK, decideVars, Time,
           Never, RestTypeOK
  <2> QED BY <1>2, <2>1, <2>2, <2>3 DEF ResolveFromServiceYaml, TypeOK, nodeVars
<1>3. CASE AskServiceYaml(c, t)
  <2>1. ConnTypeOK'
    BY <1>3, MovesType
       DEF AskServiceYaml, Interrupt, At, Points, Awaiting, Local, EventTypes,
           TypeOK
  <2>2. DecideTypeOK'
    BY <1>3
       DEF AskServiceYaml, TypeOK, DecideTypeOK, decideVars, Interrupt, Time,
           Never, RestTypeOK
  <2> QED BY <1>3, <2>1, <2>2 DEF AskServiceYaml, TypeOK, nodeVars, Interrupt
<1>4. CASE ResolveFromResume(c, t)
  <2>1. ConnTypeOK'
    BY <1>4, MovesType
       DEF ResolveFromResume, At, Points, Awaiting, Local, TypeOK
  <2>2. PlanTypeOK'
    BY <1>4 DEF ResolveFromResume, TypeOK, PlanTypeOK, planVars
  <2>3. DecideTypeOK'
    BY <1>4
       DEF ResolveFromResume, TypeOK, DecideTypeOK, decideVars, Time, Never,
           RestTypeOK
  <2> QED BY <1>4, <2>1, <2>2, <2>3 DEF ResolveFromResume, TypeOK, nodeVars
<1>5. CASE FetchContext(c, t)
  <2>1. ConnTypeOK'
    BY <1>5, MovesType DEF FetchContext, At, Points, Awaiting, Local, TypeOK
  <2>2. PlanTypeOK'
    BY <1>5 DEF FetchContext, TypeOK, PlanTypeOK, planVars
  <2> QED BY <1>5, <2>1, <2>2 DEF FetchContext, TypeOK, nodeVars
<1>6. CASE FindExistingPr(c, t)
  <2>1. ConnTypeOK'
    BY <1>6, MovesType
       DEF FindExistingPr, At, Points, Awaiting, Local, EventTypes, TypeOK
  <2> QED BY <1>6, <2>1 DEF FindExistingPr, TypeOK, nodeVars
<1>7. CASE NoExistingPr(c, t)
  <2>1. ConnTypeOK'
    BY <1>7, MovesType DEF NoExistingPr, At, Points, Awaiting, Local, TypeOK
  <2> QED BY <1>7, <2>1 DEF NoExistingPr, TypeOK, nodeVars
<1>8. CASE GetCurrentRemediation(c, t)
  <2>1. ConnTypeOK'
    BY <1>8
       DEF GetCurrentRemediation, Points, Awaiting, Local, TypeOK, ConnTypeOK,
           RestTypeOK, InputTypeOK
  <2> QED BY <1>8, <2>1 DEF GetCurrentRemediation, TypeOK, nodeVars
<1>9. CASE GetPullRequest(c, t)
  <2>1. ConnTypeOK'
    <3>1. {"analyze", "close_pr"} \subseteq Points /\ {} \in SUBSET EventTypes
      BY DEF Points, Awaiting
    <3> QED BY <1>9, <3>1, MovesType DEF GetPullRequest, TypeOK
  <2> QED BY <1>9, <2>1 DEF GetPullRequest, TypeOK, nodeVars
<1>10. CASE NotifyPrClosed(c, t)
  <2>1. ConnTypeOK'
    <3>1. PICK applied \in BOOLEAN : PostAttempt(c, "analyze", applied)
      BY <1>10 DEF NotifyPrClosed
    <3>2. /\ UNCHANGED <<op, target, events>>
          /\ seen' = [seen EXCEPT ![c] =
                         IF pc'[c] = "analyze" THEN 0 ELSE @]
      BY <1>10 DEF NotifyPrClosed
    <3>3. seen' \in [Conns -> Nat]
      BY <3>2 DEF TypeOK, ConnTypeOK
    <3>4. "analyze" \in Points
      BY DEF Points, Awaiting
    <3> QED BY <3>1, <3>2, <3>3, <3>4, PostType DEF TypeOK
  <2>2. RestTypeOK'
    BY <1>10 DEF NotifyPrClosed, TypeOK, RestTypeOK, restVars, InputTypeOK
  <2> QED BY <1>10, <2>1, <2>2 DEF NotifyPrClosed, TypeOK, nodeVars, restVars
<1>11. CASE CheckFails(c, t)
  <2>1. ConnTypeOK'
    <3>1. "analyze" \in Points /\ {} \in SUBSET EventTypes
      BY DEF Points, Awaiting
    <3> QED BY <1>11, <3>1, MovesType DEF CheckFails, TypeOK
  <2> QED BY <1>11, <2>1 DEF CheckFails, TypeOK, nodeVars
<1>12. CASE AnalyzeFindings(c, t)
  <2>1. ConnTypeOK'
    BY <1>12, MovesType
       DEF AnalyzeFindings, At, Raise, Points, Awaiting, Local, EventTypes,
           TypeOK
  <2> QED BY <1>12, <2>1 DEF AnalyzeFindings, TypeOK, nodeVars
<1>13. CASE GenerateYamlPatch(c, t)
  <2>1. ConnTypeOK'
    BY <1>13, MovesType
       DEF GenerateYamlPatch, NextRetry, At, Points, Awaiting, Local, TypeOK
  <2>2. PatchTypeOK'
    BY <1>13, ConstantsAssumption
       DEF GenerateYamlPatch, NextRetry, TypeOK, PatchTypeOK, patchVars, At,
           Quality
  <2> QED
    BY <1>13, <2>1, <2>2
       DEF GenerateYamlPatch, NextRetry, TypeOK, nodeVars
<1>14. CASE ValidatePatch(c, t)
  <2>1. ConnTypeOK'
    BY <1>14, MovesType
       DEF ValidatePatch, RouteAfterValidate, At, Points, Awaiting, Local,
           TypeOK
  <2>2. PatchTypeOK'
    BY <1>14
       DEF ValidatePatch, RouteAfterValidate, TypeOK, PatchTypeOK, patchVars
  <2> QED
    BY <1>14, <2>1, <2>2
       DEF ValidatePatch, RouteAfterValidate, TypeOK, nodeVars
<1>15. CASE AwaitUserConfirmation(c, t)
  <2>1. ConnTypeOK'
    BY <1>15, MovesType
       DEF AwaitUserConfirmation, Interrupt, At, Points, Awaiting, Local,
           EventTypes, TypeOK
  <2>2. DecideTypeOK'
    BY <1>15, PatchIsTyped
       DEF AwaitUserConfirmation, TypeOK, DecideTypeOK, decideVars, Interrupt,
           At, Time, Never, RestTypeOK
  <2> QED
    BY <1>15, <2>1, <2>2
       DEF AwaitUserConfirmation, TypeOK, nodeVars, Interrupt
<1>16. CASE TakeDecision(c, t)
  <2>1. ConnTypeOK'
    BY <1>16, MovesType
       DEF TakeDecision, RouteAfterConfirmation, At, Points, Awaiting, Local,
           TypeOK
  <2>2. DecideTypeOK'
    BY <1>16
       DEF TakeDecision, RouteAfterConfirmation, TypeOK, DecideTypeOK,
           decideVars, Time, Never, RestTypeOK
  <2> QED
    BY <1>16, <2>1, <2>2
       DEF TakeDecision, RouteAfterConfirmation, TypeOK, nodeVars
<1>17. CASE RefuseNonBoolean(c, t)
  <2>1. ConnTypeOK'
    BY <1>17, MovesType
       DEF RefuseNonBoolean, At, Raise, Points, Awaiting, Local, EventTypes,
           TypeOK
  <2> QED BY <1>17, <2>1 DEF RefuseNonBoolean, TypeOK, nodeVars
<1>18. CASE BeginPr(c, t)
  <2>1. ConnTypeOK'
    BY <1>18, MovesType
       DEF BeginPr, At, Raise, Strict, Points, Awaiting, Local, EventTypes,
           TypeOK
  <2>2. PrTypeOK'
    BY <1>18 DEF BeginPr, Strict, TypeOK, PrTypeOK, prVars, RestTypeOK
  <2> QED BY <1>18, <2>1, <2>2 DEF BeginPr, Strict, TypeOK, nodeVars
<1>19. CASE CreateBranch(c, t)
  <2>1. ConnTypeOK'
    BY <1>19, MovesType
       DEF CreateBranch, At, Raise, Strict, Points, Awaiting, Local, EventTypes,
           TypeOK
  <2>2. GitTypeOK'
    BY <1>19, HeadIsTyped DEF CreateBranch, TypeOK, GitTypeOK, gitVars
  <2> QED BY <1>19, <2>1, <2>2 DEF CreateBranch, TypeOK, nodeVars
<1>20. CASE PushFiles(c, t)
  <2>1. ConnTypeOK'
    BY <1>20, MovesType
       DEF PushFiles, At, Raise, Strict, Points, Awaiting, Local, EventTypes,
           TypeOK
  <2>2. GitTypeOK'
    BY <1>20, PatchIsTyped, HeadIsTyped
       DEF PushFiles, TypeOK, GitTypeOK, gitVars, At
  <2> QED BY <1>20, <2>1, <2>2 DEF PushFiles, TypeOK, nodeVars
<1>21. CASE CreatePullRequest(c, t)
  <2>1. ConnTypeOK'
    BY <1>21, MovesType
       DEF CreatePullRequest, NoUrl, At, Raise, CutStream, Points, Awaiting,
           Local, EventTypes, TypeOK
  <2>2. GitTypeOK'
    <3>1. NewPr(t) \in PRs
      BY HeadIsTyped DEF TypeOK, GitTypeOK, NewPr, PRs
    <3> QED
      BY <1>21, <3>1
         DEF CreatePullRequest, Raise, NoUrl, TypeOK, GitTypeOK, gitVars
  <2>3. PrTypeOK'
    BY <1>21, HeadIsTyped
       DEF CreatePullRequest, Raise, NoUrl, TypeOK, PrTypeOK, prVars, NewPr,
           PRs, GitTypeOK
  <2> QED
    BY <1>21, <2>1, <2>2, <2>3
       DEF CreatePullRequest, Raise, NoUrl, TypeOK, nodeVars
<1>22. CASE NotifyApi(c, t)
  <2>1. ConnTypeOK'
    <3>1. seen' \in [Conns -> Nat] /\ "closing" \in Points
      BY <1>22 DEF NotifyApi, Points, Local, TypeOK, ConnTypeOK
    <3> QED BY <1>22, <3>1, PostType DEF NotifyApi, TypeOK
  <2>2. RestTypeOK'
    <3>1. result[t] \in Nat /\ workload[t] \in Workloads
      BY DEF TypeOK, PrTypeOK, InputTypeOK
    <3>2. /\ clock' = clock
          /\ \/ record' = record
             \/ record' = [record EXCEPT ![workload[t]] =
                              [pr |-> result[t], status |-> "PR_OPEN"]]
          /\ \/ overtaken' = overtaken
             \/ overtaken' = overtaken \cup {result[t]}
      BY <1>22 DEF NotifyApi
    <3>3. record' \in [Workloads -> [pr : Nat,
                              status : {"none", "PR_OPEN", "PR_CLOSED"}]]
      BY <3>1, <3>2 DEF TypeOK, RestTypeOK
    <3>4. overtaken' \subseteq Nat
      BY <3>1, <3>2 DEF TypeOK, RestTypeOK
    <3> QED BY <3>2, <3>3, <3>4 DEF TypeOK, RestTypeOK
  <2> QED BY <1>22, <2>1, <2>2 DEF NotifyApi, TypeOK, nodeVars, restVars
<1>23. CASE Finish(c, t)
  <2>1. ConnTypeOK'
    BY <1>23, MovesType
       DEF Finish, LastEvents, At, Points, Awaiting, Local, EventTypes, TypeOK
  <2> QED BY <1>23, <2>1 DEF Finish, LastEvents, TypeOK, nodeVars
<1>24. CASE NodeRaises(c, t)
  <2>1. ConnTypeOK'
    BY <1>24, MovesType
       DEF NodeRaises, Raise, Points, Awaiting, Local, EventTypes, TypeOK
  <2> QED BY <1>24, <2>1 DEF NodeRaises, TypeOK, nodeVars
<1> QED
  BY <1>1, <1>2, <1>3, <1>4, <1>5, <1>6, <1>7, <1>8, <1>9, <1>10, <1>11, <1>12,
     <1>13, <1>14, <1>15, <1>16, <1>17, <1>18, <1>19, <1>20, <1>21, <1>22,
     <1>23, <1>24
     DEF Step

\* So do the handlers, the faults and the rest of the world.
LEMMA RestOfNextType ==
    ASSUME TypeOK, Next,
           ~ \E c \in Conns, t \in Threads : Step(c, t)
    PROVE  TypeOK'
<1> USE Kept
<1>1. ASSUME NEW c \in Conns, NEW t \in Threads, NEW w \in Workloads,
             NEW url \in BOOLEAN, Remediate(c, t, w, url)
      PROVE  TypeOK'
  <2>1. ConnTypeOK'
    BY <1>1 DEF Remediate, TypeOK, ConnTypeOK, Ops, Points, Awaiting
  <2>2. InputTypeOK'
    BY <1>1 DEF Remediate, TypeOK, InputTypeOK
  <2> QED BY <1>1, <2>1, <2>2 DEF Remediate, TypeOK
<1>2. ASSUME NEW c \in Conns, NEW t \in Threads, NEW o \in Resumes,
             Resume(c, t, o)
      PROVE  TypeOK'
  <2>1. ConnTypeOK'
    BY <1>2 DEF Resume, Pop, TypeOK, ConnTypeOK, Ops, Points, Awaiting, Local
  <2>2. DecideTypeOK'
    BY <1>2 DEF Resume, Pop, TypeOK, DecideTypeOK
  <2> QED BY <1>2, <2>1, <2>2 DEF Resume, Pop, TypeOK
<1>3. ASSUME NEW t \in Threads, Refuse(t)
      PROVE  TypeOK'
  <2>1. DecideTypeOK'
    BY <1>3 DEF Refuse, Pop, TypeOK, DecideTypeOK
  <2> QED BY <1>3, <2>1 DEF Refuse, Pop, TypeOK
<1>4. ASSUME NEW c \in Conns, KeepaliveTimeout(c)
      PROVE  TypeOK'
  <2>1. ConnTypeOK'
    BY <1>4, MovesType
       DEF KeepaliveTimeout, CutStream, TypeOK, Points, EventTypes
  <2> QED BY <1>4, <2>1 DEF KeepaliveTimeout, TypeOK, nodeVars
<1>5. ASSUME NEW c \in Conns, Free(c)
      PROVE  TypeOK'
  <2>1. ConnTypeOK'
    BY <1>5, ConstantsAssumption DEF Free, TypeOK, ConnTypeOK, Points
  <2> QED BY <1>5, <2>1 DEF Free, TypeOK, nodeVars
<1>6. CASE Restart
  <2>1. ConnTypeOK'
    BY <1>6, ConstantsAssumption DEF Restart, TypeOK, ConnTypeOK, Points
  <2>2. DecideTypeOK'
    BY <1>6 DEF Restart, TypeOK, DecideTypeOK
  <2> QED BY <1>6, <2>1, <2>2 DEF Restart, TypeOK
<1>7. ASSUME NEW n \in 1 .. Len(prs), NEW how \in {"closed", "merged"},
             SettlePr(n, how)
      PROVE  TypeOK'
  <2>1. GitTypeOK'
    <3>1. prs[n] \in PRs
      BY DEF TypeOK, GitTypeOK
    <3>2. [prs[n] EXCEPT !.state = how] \in PRs
      BY <3>1 DEF PRs
    <3> QED BY <1>7, <3>2 DEF SettlePr, TypeOK, GitTypeOK
  <2> QED BY <1>7, <2>1 DEF SettlePr, TypeOK
<1>8. CASE Tick
  <2>1. RestTypeOK'
    BY <1>8, ConstantsAssumption DEF Tick, TypeOK, RestTypeOK, Time
  <2>2. DecideTypeOK' /\ PrTypeOK'
    BY <1>8 DEF Tick, TypeOK, decideVars, prVars
  <2> QED BY <1>8, <2>1, <2>2 DEF Tick, TypeOK
<1> QED
  BY <1>1, <1>2, <1>3, <1>4, <1>5, <1>6, <1>7, <1>8
     DEF Next, Request, World, Release, Disconnect
-------------------------------------------------------------------------------
(* Most steps only move a connection along the pipeline.                    *)

\* What the control invariants speak of, apart from pc.
control == <<target, born, retry, quality, generated, approved, interrupted,
             interruptAt, shown, pushed, prs>>

\* The moves that need nothing but the facts of the point they start from.
MayMove(t, p, q) ==
    \/ q \in {"closing", "closed"}
    \/ q = p
    \/ p = "classify" /\ q = "resolve"
    \/ p \in Preparing /\ q \in Preparing
    \/ p = "analyze" /\ q = "generate"
    \/ p = "validate" /\ q = "confirm" /\ quality[t] # "bad"
    \/ p = "validate" /\ q = "generate" /\ retry[t] < MaxRetries
    \/ p = "begin" /\ q = "branch" /\ quality[t] = "good"
    \/ p = "branch" /\ q = "push"

Silent(c, t) ==
    /\ target[c] = t /\ Running(c)
    /\ \E q \in Points : MayMove(t, pc[c], q) /\ pc' = [pc EXCEPT ![c] = q]
    /\ UNCHANGED control

\* A silent step keeps the three control invariants.
LEMMA SilentKeeps ==
    ASSUME Inv, NEW c \in Conns, NEW t \in Threads, Silent(c, t)
    PROVE  SingleExecution' /\ ControlInv' /\ FilesInv'
<1>1. PICK q \in Points : MayMove(t, pc[c], q) /\ pc' = [pc EXCEPT ![c] = q]
  BY DEF Silent
<1>2. /\ UNCHANGED control
      /\ target[c] = t
      /\ pc \in [Conns -> Points]
      /\ target \in [Conns -> Threads \cup {NoThread}]
  BY DEF Silent, Inv, TypeOK, ConnTypeOK
<1>4. ASSUME NEW d \in Conns, NEW u \in Threads, Executing(d, u)'
      PROVE  Executing(d, u)
  BY <1>1, <1>2, <1>4
     DEF Executing, Running, control, MayMove, Silent, Preparing
<1>5. SingleExecution'
  BY <1>2, <1>4 DEF SingleExecution, Inv, control
<1>6. ASSUME NEW d \in Conns, NEW u \in Threads, Executing(d, u)'
      PROVE  PointInv(d, u)'
  <2>1. PointInv(d, u)
    BY <1>4, <1>6 DEF Inv, ControlInv
  <2>2. CASE d # c
    <3>1. pc'[d] = pc[d]
      BY <1>1, <1>2, <2>2
    <3> QED
      BY <1>2, <2>1, <3>1
         DEF PointInv, control, Undecided, Offered, Chosen, PatchOf
  <2>3. CASE d = c
    <3>1. pc'[d] = q /\ u = t
      BY <1>1, <1>2, <1>6, <2>3 DEF Executing, control
    <3>2. quality'[u] = quality[u] /\ quality[u] \in Quality
      BY <1>2 DEF control, Inv, TypeOK, PatchTypeOK
    <3>3. 0 < MaxRetries
      BY ConstantsAssumption
    <3>4. q \notin {"idle", "closed", "closing"}
      BY <1>6, <3>1, <2>3 DEF Executing, Running
    <3> QED
      BY <1>1, <1>2, <2>1, <2>3, <3>1, <3>2, <3>3, <3>4
         DEF PointInv, control, Undecided, Offered, Chosen, PatchOf, MayMove,
             Preparing, Publishing, Quality
  <2> QED BY <2>2, <2>3
<1>7. ControlInv'
  <2>1. \A u \in Threads : interruptAt'[u] # Never => EntryInv(u)'
    BY <1>2 DEF Inv, ControlInv, EntryInv, control, Undecided, Offered, PatchOf
  <2>2. \A u \in Threads : u \notin born' => UnbornInv(u)'
    BY <1>2 DEF Inv, ControlInv, UnbornInv, control, Undecided
  <2> QED BY <1>6, <2>1, <2>2 DEF ControlInv
<1>8. FilesInv'
  BY <1>2 DEF Inv, FilesInv, Reviewed, control
<1> QED BY <1>5, <1>7, <1>8
-------------------------------------------------------------------------------
(* The steps that change what the control invariants speak of.              *)

OnlyThread(t) ==
    /\ born' = born
    /\ \A u \in Threads \ {t} :
          /\ retry'[u] = retry[u] /\ quality'[u] = quality[u]
          /\ generated'[u] = generated[u] /\ approved'[u] = approved[u]
          /\ interrupted'[u] = interrupted[u] /\ shown'[u] = shown[u]
          /\ interruptAt'[u] = interruptAt[u]

\* A step that changes only its own thread keeps them, if it establishes what
\* the point it goes to needs and what an entry it stores stands for.
LEMMA LocalStep ==
    ASSUME Inv, NEW c \in Conns, NEW t \in Threads, Executing(c, t),
           NEW q \in Points, pc' = [pc EXCEPT ![c] = q], target' = target,
           OnlyThread(t),
           q \notin {"closing", "closed", "idle"}
              => PointInv(c, t)' /\ interruptAt'[t] = Never,
           interruptAt'[t] # Never => EntryInv(t)'
    PROVE  SingleExecution' /\ ControlInv'
<1>1. /\ pc \in [Conns -> Points]
      /\ born \subseteq Threads
      /\ t \in born
  BY DEF Inv, TypeOK, ConnTypeOK, InputTypeOK, ControlInv, PointInv
<1>2. \A d \in Conns : Executing(d, t) => d = c
  BY DEF Inv, SingleExecution
<1>3. ASSUME NEW d \in Conns, NEW u \in Threads, Executing(d, u)'
      PROVE  /\ Executing(d, u)
             /\ d = c => u = t /\ q \notin {"closing", "closed", "idle"}
             /\ d # c => u # t
  BY <1>1, <1>2, <1>3 DEF Executing, Running
<1>4. ASSUME NEW u \in Threads, interruptAt'[u] # Never
      PROVE  /\ EntryInv(u)'
             /\ \A d \in Conns : ~Executing(d, u)'
  <2>1. CASE u = t
    <3>1. EntryInv(u)'
      BY <1>4, <2>1
    <3>2. \A d \in Conns : ~Executing(d, u)'
      BY <1>3, <1>4, <2>1
    <3> QED BY <3>1, <3>2
  <2>2. CASE u # t
    <3>1. interruptAt[u] # Never
      BY <1>4, <2>2 DEF OnlyThread
    <3>2. EntryInv(u) /\ \A d \in Conns : ~Executing(d, u)
      BY <3>1 DEF Inv, ControlInv, SingleExecution
    <3>3. EntryInv(u)'
      BY <3>2, <2>2 DEF OnlyThread, EntryInv, Undecided, Offered, PatchOf
    <3> QED BY <1>3, <3>2, <3>3
  <2> QED BY <2>1, <2>2
<1>5. SingleExecution'
  <2>1. ASSUME NEW u \in Threads, interruptAt'[u] # Never
        PROVE  interrupted'[u] # "no"
    BY <1>4, <2>1 DEF EntryInv
  <2>2. ASSUME NEW u \in Threads, NEW d \in Conns, NEW e \in Conns,
               Executing(d, u)', Executing(e, u)'
        PROVE  d = e
    BY <1>3, <2>2 DEF Inv, SingleExecution
  <2> QED BY <1>4, <2>1, <2>2 DEF SingleExecution
<1>6. ASSUME NEW d \in Conns, NEW u \in Threads, Executing(d, u)'
      PROVE  PointInv(d, u)'
  <2>1. CASE d = c
    BY <1>3, <1>6, <2>1
  <2>2. CASE d # c
    <3>1. PointInv(d, u) /\ u # t /\ pc'[d] = pc[d]
      BY <1>1, <1>3, <1>6, <2>2 DEF Inv, ControlInv
    <3> QED
      BY <3>1 DEF OnlyThread, PointInv, Undecided, Offered, Chosen, PatchOf
  <2> QED BY <2>1, <2>2
<1>7. ASSUME NEW u \in Threads, u \notin born'
      PROVE  UnbornInv(u)'
  <2>1. u # t /\ UnbornInv(u)
    BY <1>1, <1>7 DEF OnlyThread, Inv, ControlInv
  <2> QED BY <2>1 DEF OnlyThread, UnbornInv, Undecided
<1> QED BY <1>4, <1>5, <1>6, <1>7 DEF ControlInv

\* Published files stay reviewed while approvals, and what was shown, stay.
LEMMA FilesKept ==
    ASSUME Inv, pushed' = pushed, prs' = prs,
           \A u \in Threads : approved[u] = "yes" =>
               approved'[u] = "yes" /\ shown'[u] = shown[u]
    PROVE  FilesInv'
<1>1. \A h \in Heads : pushed[h] \subseteq Patches
  BY DEF Inv, TypeOK, GitTypeOK
<1>2. \A n \in 1 .. Len(prs) : prs[n].files \subseteq Patches
  <2>1. \A n \in 1 .. Len(prs) : prs[n] \in PRs
    BY DEF Inv, TypeOK, GitTypeOK
  <2> QED BY <2>1 DEF PRs
<1>3. ASSUME NEW p \in Patches, Reviewed(p)
      PROVE  Reviewed(p)'
  BY <1>3 DEF Reviewed, Patches
<1> QED BY <1>1, <1>2, <1>3 DEF Inv, FilesInv

\* What a connection inside the graph knows before its step.
LEMMA Inside ==
    ASSUME Inv, NEW c \in Conns, NEW t \in Threads, target[c] = t,
           pc[c] \notin {"idle", "closed", "closing"}
    PROVE  /\ Executing(c, t) /\ PointInv(c, t) /\ interruptAt[t] = Never
BY DEF Executing, Running, Inv, ControlInv, SingleExecution

\* The steps of the graph that are silent.
LEMMA StepIsSilent ==
    ASSUME Inv, NEW c \in Conns, NEW t \in Threads,
           \/ ClassifyFindings(c, t) \/ FetchContext(c, t)
           \/ FindExistingPr(c, t) \/ NoExistingPr(c, t)
           \/ GetCurrentRemediation(c, t) \/ GetPullRequest(c, t)
           \/ NotifyPrClosed(c, t) \/ CheckFails(c, t)
           \/ AnalyzeFindings(c, t) \/ ValidatePatch(c, t)
           \/ RefuseNonBoolean(c, t) \/ BeginPr(c, t) \/ CreateBranch(c, t)
           \/ NotifyApi(c, t) \/ Finish(c, t) \/ NodeRaises(c, t)
    PROVE  Silent(c, t)
<1> pc \in [Conns -> Points]
  BY DEF Inv, TypeOK, ConnTypeOK
<1>1. CASE ClassifyFindings(c, t)
  BY <1>1
     DEF ClassifyFindings, At, Goto, Silent, Running, control, MayMove,
         Preparing, Points, Awaiting, Local, nodeVars, inputVars, planVars,
         patchVars, decideVars, prVars, gitVars, restVars
<1>2. CASE FetchContext(c, t)
  BY <1>2
     DEF FetchContext, At, Goto, Silent, Running, control, MayMove, Preparing,
         Points, Awaiting, Local, nodeVars, inputVars, planVars, patchVars,
         decideVars, prVars, gitVars, restVars
<1>3. CASE FindExistingPr(c, t)
  BY <1>3
     DEF FindExistingPr, At, GotoTelling, Silent, Running, control, MayMove,
         Preparing, Points, Awaiting, Local, nodeVars, inputVars, planVars,
         patchVars, decideVars, prVars, gitVars, restVars
<1>4. CASE NoExistingPr(c, t)
  BY <1>4
     DEF NoExistingPr, At, Goto, Silent, Running, control, MayMove, Preparing,
         Points, Awaiting, Local, nodeVars, inputVars, planVars, patchVars,
         decideVars, prVars, gitVars, restVars
<1>5. CASE GetCurrentRemediation(c, t)
  BY <1>5
     DEF GetCurrentRemediation, At, Silent, Running, control, MayMove,
         Preparing, Points, Awaiting, Local, nodeVars, inputVars, planVars,
         patchVars, decideVars, prVars, gitVars, restVars
<1>6. CASE GetPullRequest(c, t)
  BY <1>6
     DEF GetPullRequest, EndCheck, At, Goto, Silent, Running, control, MayMove, Preparing,
         Points, Awaiting, Local, nodeVars, inputVars, planVars, patchVars,
         decideVars, prVars, gitVars, restVars
<1>7. CASE NotifyPrClosed(c, t)
  BY <1>7
     DEF NotifyPrClosed, At, PostAttempt, Silent, Running, control, MayMove,
         Preparing, Points, Awaiting, Local, nodeVars, inputVars, planVars,
         patchVars, decideVars, prVars, gitVars, restVars
<1>8. CASE CheckFails(c, t)
  BY <1>8
     DEF CheckFails, EndCheck, Silent, Running, control, MayMove, Preparing, Points,
         Awaiting, Local, nodeVars, inputVars, planVars, patchVars, decideVars,
         prVars, gitVars, restVars
<1>9. CASE AnalyzeFindings(c, t)
  BY <1>9
     DEF AnalyzeFindings, At, Goto, GotoTelling, Raise, Silent, Running,
         control, MayMove, Preparing, Points, Awaiting, Local, nodeVars,
         inputVars, planVars, patchVars, decideVars, prVars, gitVars, restVars
<1>10. CASE ValidatePatch(c, t)
  BY <1>10
     DEF ValidatePatch, RouteAfterValidate, At, Goto, Silent, Running, control,
         MayMove, Preparing, Points, Awaiting, Local, nodeVars, inputVars,
         planVars, patchVars, decideVars, prVars, gitVars, restVars
<1>11. CASE RefuseNonBoolean(c, t)
  BY <1>11
     DEF RefuseNonBoolean, At, GotoTelling, Raise, Silent, Running, control,
         MayMove, Preparing, Points, Awaiting, Local, nodeVars, inputVars,
         planVars, patchVars, decideVars, prVars, gitVars, restVars
<1>12. CASE BeginPr(c, t)
  <2>1. quality[t] # "empty" => quality[t] = "good"
    BY <1>12, Inside
       DEF BeginPr, Strict, At, PointInv, Publishing, Chosen, Inv, TypeOK,
           PatchTypeOK, Quality
  <2> QED
    BY <1>12, <2>1
       DEF BeginPr, At, Goto, GotoTelling, Raise, Strict, Silent, Running,
           control, MayMove, Preparing, Points, Awaiting, Local, nodeVars,
           inputVars, planVars, patchVars, decideVars, prVars, gitVars, restVars
<1>13. CASE CreateBranch(c, t)
  BY <1>13
     DEF CreateBranch, At, Goto, GotoTelling, Raise, Strict, Silent, Running,
         control, MayMove, Preparing, Points, Awaiting, Local, nodeVars,
         inputVars, planVars, patchVars, decideVars, prVars, gitVars, restVars
<1>14. CASE NotifyApi(c, t)
  BY <1>14
     DEF NotifyApi, At, PostAttempt, Silent, Running, control, MayMove,
         Preparing, Points, Awaiting, Local, nodeVars, inputVars, planVars,
         patchVars, decideVars, prVars, gitVars, restVars
<1>15. CASE Finish(c, t)
  BY <1>15
     DEF Finish, LastEvents, At, GotoTelling, Silent, Running, control, MayMove,
         Preparing, Points, Awaiting, Local, nodeVars, inputVars, planVars,
         patchVars, decideVars, prVars, gitVars, restVars
<1>16. CASE NodeRaises(c, t)
  BY <1>16
     DEF NodeRaises, GotoTelling, Raise, Silent, Running, control, MayMove,
         Preparing, Points, Awaiting, Local, nodeVars, inputVars, planVars,
         patchVars, decideVars, prVars, gitVars, restVars
<1> QED
  BY <1>1, <1>2, <1>3, <1>4, <1>5, <1>6, <1>7, <1>8, <1>9, <1>10, <1>11, <1>12,
     <1>13, <1>14, <1>15, <1>16

\* All steps of the graph keep the control invariants.
LEMMA StepKeepsControl ==
    ASSUME Inv, NEW c \in Conns, NEW t \in Threads, Step(c, t)
    PROVE  SingleExecution' /\ ControlInv' /\ FilesInv'
<1>types. /\ TypeOK /\ PatchTypeOK /\ DecideTypeOK /\ PlanTypeOK /\ ConnTypeOK
          /\ {"generate", "fetch", "closing", "closed", "validate", "begin",
              "confirm", "pr", "notify"} \subseteq Points
  BY DEF Inv, TypeOK, Points, Awaiting, Local
<1>1. CASE ResolveFromServiceYaml(c, t)
  <2>1. Executing(c, t) /\ PointInv(c, t) /\ interruptAt[t] = Never
    BY <1>1, Inside DEF ResolveFromServiceYaml, At
  <2>2. OnlyThread(t) /\ target' = target /\ pc' = [pc EXCEPT ![c] = "fetch"]
    BY <1>1, <1>types
       DEF ResolveFromServiceYaml, Goto, OnlyThread, inputVars, patchVars,
           DecideTypeOK
  <2>3. PointInv(c, t)' /\ interruptAt'[t] = Never
    BY <1>1, <1>types, <2>1
       DEF ResolveFromServiceYaml, Goto, At, PointInv, Undecided, inputVars,
           patchVars, DecideTypeOK, ConnTypeOK, Preparing, Publishing
  <2>4. FilesInv'
    BY <1>1, FilesKept DEF ResolveFromServiceYaml, gitVars
  <2> QED BY <1>types, <2>1, <2>2, <2>3, <2>4, LocalStep
<1>2. CASE AskServiceYaml(c, t)
  <2>1. Executing(c, t) /\ PointInv(c, t) /\ interruptAt[t] = Never
    BY <1>2, Inside DEF AskServiceYaml, At
  <2>2. OnlyThread(t) /\ target' = target /\ pc' = [pc EXCEPT ![c] = "closing"]
    BY <1>2, <1>types
       DEF AskServiceYaml, Interrupt, Goto, GotoTelling, OnlyThread, inputVars,
           patchVars, planVars, DecideTypeOK
  <2>3. EntryInv(t)'
    BY <1>2, <1>types, <2>1
       DEF AskServiceYaml, Interrupt, At, PointInv, EntryInv, Undecided,
           inputVars, patchVars, DecideTypeOK
  <2>4. FilesInv'
    <3>1. shown' = shown /\ approved' = approved
      BY <1>2, <1>types DEF AskServiceYaml, Interrupt, DecideTypeOK
    <3> QED BY <1>2, <3>1, FilesKept DEF AskServiceYaml, gitVars
  <2> QED BY <1>types, <2>1, <2>2, <2>3, <2>4, LocalStep
<1>3. CASE ResolveFromResume(c, t)
  <2>1. Executing(c, t) /\ PointInv(c, t) /\ interruptAt[t] = Never
    BY <1>3, Inside DEF ResolveFromResume, At
  <2>2. OnlyThread(t) /\ target' = target /\ pc' = [pc EXCEPT ![c] = "fetch"]
    BY <1>3, <1>types
       DEF ResolveFromResume, Goto, OnlyThread, inputVars, patchVars,
           DecideTypeOK, PlanTypeOK
  <2>3. PointInv(c, t)' /\ interruptAt'[t] = Never
    BY <1>3, <1>types, <2>1
       DEF ResolveFromResume, Goto, At, PointInv, Undecided, inputVars,
           patchVars, DecideTypeOK, ConnTypeOK, Preparing, Publishing
  <2>4. FilesInv'
    BY <1>3, FilesKept DEF ResolveFromResume, gitVars
  <2> QED BY <1>types, <2>1, <2>2, <2>3, <2>4, LocalStep
<1>4. CASE GenerateYamlPatch(c, t)
  <2>1. Executing(c, t) /\ PointInv(c, t) /\ interruptAt[t] = Never
    BY <1>4, Inside DEF GenerateYamlPatch, NextRetry, At
  <2>2. OnlyThread(t) /\ target' = target /\ pc' = [pc EXCEPT ![c] = "validate"]
    BY <1>4, <1>types
       DEF GenerateYamlPatch, NextRetry, Goto, OnlyThread, inputVars, planVars,
           decideVars, PatchTypeOK
  <2>3. PointInv(c, t)' /\ interruptAt'[t] = Never
    BY <1>4, <1>types, <2>1
       DEF GenerateYamlPatch, NextRetry, Goto, At, PointInv, Undecided,
           inputVars, decideVars, PatchTypeOK, ConnTypeOK, Preparing, Publishing
  <2>4. FilesInv'
    BY <1>4, FilesKept DEF GenerateYamlPatch, NextRetry, gitVars, decideVars
  <2> QED BY <1>types, <2>1, <2>2, <2>3, <2>4, LocalStep
<1>5. CASE AwaitUserConfirmation(c, t)
  <2>1. Executing(c, t) /\ PointInv(c, t) /\ interruptAt[t] = Never
    BY <1>5, Inside DEF AwaitUserConfirmation, At
  <2>2. OnlyThread(t) /\ target' = target /\ pc' = [pc EXCEPT ![c] = "closing"]
    BY <1>5, <1>types
       DEF AwaitUserConfirmation, Interrupt, Goto, GotoTelling, OnlyThread,
           inputVars, patchVars, planVars, DecideTypeOK
  <2>3. /\ retry[t] >= 1 /\ Undecided(t) /\ quality[t] # "bad"
        /\ t \in born
    BY <1>5, <2>1 DEF AwaitUserConfirmation, At, PointInv
  <2>4. interruptAt'[t] # Never => EntryInv(t)'
    BY <1>5, <1>types, <2>1, <2>3
       DEF AwaitUserConfirmation, Interrupt, EntryInv, Undecided, Offered,
           PatchOf, inputVars, patchVars, planVars, DecideTypeOK
  <2>5. FilesInv'
    <3>1. \A u \in Threads : approved[u] = "yes" =>
             approved'[u] = "yes" /\ shown'[u] = shown[u]
      BY <1>5, <1>types, <2>3
         DEF AwaitUserConfirmation, Interrupt, DecideTypeOK, Undecided
    <3> QED BY <1>5, <3>1, FilesKept DEF AwaitUserConfirmation, gitVars
  <2> QED BY <1>types, <2>1, <2>2, <2>4, <2>5, LocalStep
<1>6. CASE TakeDecision(c, t)
  <2>1. Executing(c, t) /\ PointInv(c, t) /\ interruptAt[t] = Never
    BY <1>6, Inside DEF TakeDecision, RouteAfterConfirmation, At
  <2> DEFINE q == IF op[c] = "approve" THEN "begin" ELSE "closing"
  <2>2. OnlyThread(t) /\ target' = target /\ pc' = [pc EXCEPT ![c] = q]
    BY <1>6, <1>types
       DEF TakeDecision, RouteAfterConfirmation, Goto, OnlyThread, inputVars,
           patchVars, planVars, DecideTypeOK
  <2>3. Offered(t) /\ t \in born
    BY <1>6, <2>1 DEF TakeDecision, RouteAfterConfirmation, At, PointInv
  <2>4. q # "closing" => PointInv(c, t)' /\ interruptAt'[t] = Never
    BY <1>6, <1>types, <2>1, <2>3
       DEF TakeDecision, RouteAfterConfirmation, Goto, PointInv, Offered,
           Chosen, PatchOf, inputVars, patchVars, planVars, DecideTypeOK,
           ConnTypeOK, Preparing, Publishing
  <2>5. interruptAt'[t] = Never
    BY <1>6, <2>1 DEF TakeDecision, RouteAfterConfirmation
  <2>6. FilesInv'
    <3>1. \A u \in Threads : approved[u] = "yes" =>
             approved'[u] = "yes" /\ shown'[u] = shown[u]
      BY <1>6, <1>types, <2>3
         DEF TakeDecision, RouteAfterConfirmation, DecideTypeOK, Offered
    <3> QED
      BY <1>6, <3>1, FilesKept
         DEF TakeDecision, RouteAfterConfirmation, gitVars
  <2>7. q \in Points
    BY <1>types
  <2> HIDE DEF q
  <2> QED BY <2>1, <2>2, <2>4, <2>5, <2>6, <2>7, LocalStep
<1>7. CASE PushFiles(c, t)
  <2>1. Executing(c, t) /\ PointInv(c, t) /\ interruptAt[t] = Never
    BY <1>7, Inside DEF PushFiles, At
  <2>2. PICK ok \in BOOLEAN, applied \in BOOLEAN :
          /\ pushed' = IF applied
                       THEN [pushed EXCEPT ![HeadOf(t)] = {PatchOf(t)}]
                       ELSE pushed
          /\ Strict(c, ok, "pr")
    BY <1>7 DEF PushFiles
  <2> DEFINE q == IF ok THEN "pr" ELSE "closed"
  <2>3. OnlyThread(t) /\ target' = target /\ pc' = [pc EXCEPT ![c] = q]
    BY <1>7, <2>2
       DEF PushFiles, Strict, Raise, Goto, GotoTelling, OnlyThread, inputVars,
           patchVars, planVars, decideVars
  <2>4. PointInv(c, t) /\ pc[c] = "push"
    BY <1>7, <2>1 DEF PushFiles, At
  <2>5. q # "closed" => PointInv(c, t)' /\ interruptAt'[t] = Never
    BY <1>7, <1>types, <2>1, <2>3, <2>4
       DEF PushFiles, PointInv, Chosen, PatchOf, inputVars, patchVars, planVars,
           decideVars, ConnTypeOK, Preparing, Publishing
  <2>6. interruptAt'[t] = Never
    BY <1>7, <2>1 DEF PushFiles, decideVars
  <2>7. FilesInv'
    <3>1. Reviewed(PatchOf(t))
      BY <2>4 DEF PointInv, Publishing, Chosen, Reviewed, PatchOf
    <3>2. \A h \in Heads : \A p \in pushed'[h] : Reviewed(p)
      BY <2>2, <3>1 DEF Inv, FilesInv, TypeOK, GitTypeOK
    <3> QED BY <1>7, <3>2 DEF PushFiles, Inv, FilesInv, Reviewed, decideVars
  <2>8. q \in Points
    BY <1>types
  <2> HIDE DEF q
  <2> QED BY <2>1, <2>3, <2>5, <2>6, <2>7, <2>8, LocalStep
<1>8. CASE CreatePullRequest(c, t)
  <2>1. Executing(c, t) /\ PointInv(c, t) /\ interruptAt[t] = Never
    BY <1>8, Inside DEF CreatePullRequest, Raise, NoUrl, At
  <2>2. PICK q \in {"notify", "closed"} : pc' = [pc EXCEPT ![c] = q]
    BY <1>8 DEF CreatePullRequest, NoUrl, GotoTelling, Raise, CutStream
  <2>3. OnlyThread(t) /\ target' = target
    BY <1>8
       DEF CreatePullRequest, NoUrl, GotoTelling, Raise, CutStream, OnlyThread,
           inputVars, patchVars, planVars, decideVars
  <2>4. PointInv(c, t) /\ pc[c] = "pr"
    BY <1>8, <2>1 DEF CreatePullRequest, Raise, NoUrl, At
  <2>5. q # "closed" => PointInv(c, t)' /\ interruptAt'[t] = Never
    BY <1>8, <1>types, <2>1, <2>2, <2>4
       DEF CreatePullRequest, Raise, NoUrl, PointInv, Chosen, PatchOf,
           inputVars, patchVars, planVars, decideVars, ConnTypeOK, Preparing,
           Publishing
  <2>6. interruptAt'[t] = Never
    BY <1>8, <2>1 DEF CreatePullRequest, Raise, NoUrl, decideVars
  <2>7. FilesInv'
    <3>1. prs' = prs \/ prs' = Append(prs, NewPr(t))
      BY <1>8 DEF CreatePullRequest, Raise, NoUrl
    <3>2. HeadOf(t) \in Heads /\ prs \in Seq(PRs)
      BY <1>types, HeadIsTyped DEF TypeOK, GitTypeOK
    <3>3. \A p \in NewPr(t).files : Reviewed(p)
      BY <3>2 DEF NewPr, Inv, FilesInv
    <3>4. \A n \in 1 .. Len(prs') : \A p \in prs'[n].files : Reviewed(p)
      BY <3>1, <3>2, <3>3 DEF Inv, FilesInv
    <3> QED
      BY <1>8, <3>4
         DEF CreatePullRequest, Raise, NoUrl, Inv, FilesInv, Reviewed,
             decideVars
  <2>8. q \in Points
    BY <1>types
  <2> QED BY <2>1, <2>2, <2>3, <2>5, <2>6, <2>7, <2>8, LocalStep
<1> QED
  BY <1>1, <1>2, <1>3, <1>4, <1>5, <1>6, <1>7, <1>8, StepIsSilent, SilentKeeps
     DEF Step
-------------------------------------------------------------------------------
(* The rest of Next.                                                        *)

\* Connections may leave points, and entries may be dropped.
LEMMA DroppingKeeps ==
    ASSUME Inv,
           UNCHANGED <<born, retry, quality, generated, approved, interrupted,
                       shown, pushed>>,
           \A c \in Conns, t \in Threads : Executing(c, t)' =>
               Executing(c, t) /\ pc'[c] = pc[c],
           \A t \in Threads :
               interruptAt'[t] # Never => interruptAt[t] # Never,
           \A t \in Threads :
               interruptAt[t] = Never => interruptAt'[t] = Never
    PROVE  SingleExecution' /\ ControlInv'
<1>1. SingleExecution'
  BY DEF Inv, SingleExecution
<1>2. \A c \in Conns, t \in Threads : Executing(c, t)' => PointInv(c, t)'
  BY DEF Inv, ControlInv, PointInv, Undecided, Offered, Chosen, PatchOf
<1>3. \A t \in Threads : interruptAt'[t] # Never => EntryInv(t)'
  BY DEF Inv, ControlInv, EntryInv, Undecided, Offered, PatchOf
<1>4. \A t \in Threads : t \notin born' => UnbornInv(t)'
  BY DEF Inv, ControlInv, UnbornInv, Undecided
<1> QED BY <1>1, <1>2, <1>3, <1>4 DEF ControlInv

\* A fresh thread has no connection and no entry.
LEMMA RemediateKeeps ==
    ASSUME Inv, NEW c \in Conns, NEW t \in Threads, NEW w \in Workloads,
           NEW url \in BOOLEAN, Remediate(c, t, w, url)
    PROVE  SingleExecution' /\ ControlInv' /\ FilesInv'
<1>1. /\ pc \in [Conns -> Points]
      /\ target \in [Conns -> Threads \cup {NoThread}]
      /\ UnbornInv(t) /\ \A d \in Conns : ~Executing(d, t)
  BY DEF Remediate, Inv, TypeOK, ConnTypeOK, ControlInv, PointInv
<1>2. UNCHANGED <<retry, quality, generated, approved, interrupted,
                  interruptAt, shown, pushed, prs>>
  BY DEF Remediate, planVars, patchVars, decideVars, gitVars
<1>3. ASSUME NEW d \in Conns, NEW u \in Threads, Executing(d, u)'
      PROVE  IF d = c THEN u = t /\ pc'[d] = "classify"
                      ELSE Executing(d, u) /\ u # t /\ pc'[d] = pc[d]
  BY <1>1, <1>3 DEF Remediate, Executing, Running
<1>4. ASSUME NEW d \in Conns, NEW u \in Threads, Executing(d, u)'
      PROVE  PointInv(d, u)'
  <2>1. CASE d = c
    BY <1>1, <1>2, <1>3, <1>4, <2>1
       DEF Remediate, PointInv, UnbornInv, Undecided, Preparing, Publishing
  <2>2. CASE d # c
    <3>1. PointInv(d, u) /\ pc'[d] = pc[d]
      BY <1>3, <1>4, <2>2 DEF Inv, ControlInv
    <3> QED
      BY <1>2, <3>1
         DEF Remediate, PointInv, Undecided, Offered, Chosen, PatchOf
  <2> QED BY <2>1, <2>2
<1>5. SingleExecution'
  BY <1>1, <1>2, <1>3 DEF SingleExecution, Inv, UnbornInv
<1>6. \A u \in Threads : interruptAt'[u] # Never => EntryInv(u)'
  BY <1>2 DEF Remediate, Inv, ControlInv, EntryInv, Undecided, Offered, PatchOf
<1>7. \A u \in Threads : u \notin born' => UnbornInv(u)'
  BY <1>2 DEF Remediate, Inv, ControlInv, UnbornInv, Undecided
<1>8. FilesInv'
  BY <1>2, FilesKept
<1> QED BY <1>4, <1>5, <1>6, <1>7, <1>8 DEF ControlInv

\* A resume takes the only right to the thread: the entry that it pops.
LEMMA ResumeKeeps ==
    ASSUME Inv, NEW c \in Conns, NEW t \in Threads, NEW o \in Resumes,
           Resume(c, t, o)
    PROVE  SingleExecution' /\ ControlInv' /\ FilesInv'
<1>1. /\ pc \in [Conns -> Points]
      /\ target \in [Conns -> Threads \cup {NoThread}]
      /\ interruptAt \in [Threads -> Time \cup {Never}]
      /\ interruptAt[t] # Never
      /\ EntryInv(t) /\ \A d \in Conns : ~Executing(d, t)
  BY DEF Resume, Pop, Expired, Inv, TypeOK, ConnTypeOK, DecideTypeOK,
         ControlInv, SingleExecution
<1>2. /\ UNCHANGED <<born, retry, quality, generated, approved, interrupted,
                     shown, pushed, prs>>
      /\ interruptAt' = [interruptAt EXCEPT ![t] = Never]
  BY DEF Resume, Pop, inputVars, planVars, patchVars, gitVars
<1>3. ASSUME NEW d \in Conns, NEW u \in Threads, Executing(d, u)'
      PROVE  IF d = c THEN u = t ELSE Executing(d, u) /\ u # t /\ pc'[d] = pc[d]
  BY <1>1, <1>3 DEF Resume, Pop, Executing, Running
<1>4. ASSUME NEW d \in Conns, NEW u \in Threads, Executing(d, u)'
      PROVE  PointInv(d, u)'
  <2>1. CASE d = c
    <3>1. \/ interrupted[t] = "service_yaml" /\ pc'[c] = "resolve"
          \/ interrupted[t] = "confirmation" /\ pc'[c] = "confirm"
      BY <1>1 DEF Resume, Pop, EntryInv
    <3>2. u = t
      BY <1>3, <1>4, <2>1
    <3> QED
      BY <1>1, <1>2, <2>1, <3>1, <3>2
         DEF PointInv, EntryInv, Undecided, Offered, PatchOf, Preparing,
             Publishing
  <2>2. CASE d # c
    <3>1. PointInv(d, u) /\ pc'[d] = pc[d]
      BY <1>3, <1>4, <2>2 DEF Inv, ControlInv
    <3> QED BY <1>2, <3>1 DEF PointInv, Undecided, Offered, Chosen, PatchOf
  <2> QED BY <2>1, <2>2
<1>5. \A u \in Threads :
          interruptAt'[u] # Never => u # t /\ interruptAt[u] # Never
  BY <1>1, <1>2
<1>6. SingleExecution'
  BY <1>1, <1>2, <1>3, <1>5 DEF SingleExecution, Inv
<1>7. \A u \in Threads : interruptAt'[u] # Never => EntryInv(u)'
  BY <1>2, <1>5 DEF Inv, ControlInv, EntryInv, Undecided, Offered, PatchOf
<1>8. \A u \in Threads : u \notin born' => UnbornInv(u)'
  BY <1>1, <1>2 DEF Inv, ControlInv, UnbornInv, Undecided, EntryInv
<1>9. FilesInv'
  BY <1>2, FilesKept
<1> QED BY <1>4, <1>6, <1>7, <1>8, <1>9 DEF ControlInv

\* Faults only take connections and entries away.
LEMMA RestKeepsControl ==
    ASSUME Inv, Next,
           ~ \E c \in Conns, t \in Threads : Step(c, t)
    PROVE  SingleExecution' /\ ControlInv' /\ FilesInv'
<1>types. /\ pc \in [Conns -> Points]
          /\ target \in [Conns -> Threads \cup {NoThread}]
          /\ interruptAt \in [Threads -> Time \cup {Never}]
          /\ NoThread \notin Threads
  BY ConstantsAssumption DEF Inv, TypeOK, ConnTypeOK, DecideTypeOK
<1>1. ASSUME NEW t \in Threads, Refuse(t)
      PROVE  SingleExecution' /\ ControlInv' /\ FilesInv'
  <2>1. SingleExecution'
    BY <1>1, <1>types
       DEF Refuse, Pop, Inv, SingleExecution, Executing, Running, connVars
  <2>2. \A c \in Conns, u \in Threads : Executing(c, u)' => PointInv(c, u)'
    BY <1>1
       DEF Refuse, Pop, Inv, ControlInv, PointInv, Undecided, Offered, Chosen,
           PatchOf, Executing, Running, connVars, inputVars, planVars, patchVars
  <2>3. \A u \in Threads : interruptAt'[u] # Never => EntryInv(u)'
    BY <1>1, <1>types
       DEF Refuse, Pop, Inv, ControlInv, EntryInv, Undecided, Offered, PatchOf,
           inputVars, planVars, patchVars
  <2>4. \A u \in Threads : u \notin born' => UnbornInv(u)'
    BY <1>1, <1>types
       DEF Refuse, Pop, Inv, ControlInv, UnbornInv, Undecided, inputVars,
           patchVars
  <2>5. FilesInv'
    BY <1>1, FilesKept DEF Refuse, Pop, gitVars
  <2> QED BY <2>1, <2>2, <2>3, <2>4, <2>5 DEF ControlInv
<1>2. ASSUME NEW c \in Conns, KeepaliveTimeout(c)
      PROVE  SingleExecution' /\ ControlInv' /\ FilesInv'
  <2>1. /\ UNCHANGED <<born, retry, quality, generated, approved, interrupted,
                       interruptAt, shown, pushed, prs>>
        /\ pc' = [pc EXCEPT ![c] = "closed"] /\ target' = target
    BY <1>2
       DEF KeepaliveTimeout, CutStream, GotoTelling, nodeVars, inputVars,
           planVars, patchVars, decideVars, gitVars
  <2>2. \A d \in Conns, t \in Threads : Executing(d, t)' =>
            Executing(d, t) /\ pc'[d] = pc[d]
    BY <1>types, <2>1 DEF Executing, Running
  <2> QED BY <2>1, <2>2, DroppingKeeps, FilesKept
<1>3. ASSUME NEW c \in Conns, Free(c)
      PROVE  SingleExecution' /\ ControlInv' /\ FilesInv'
  <2>1. /\ UNCHANGED <<born, retry, quality, generated, approved, interrupted,
                       interruptAt, shown, pushed, prs>>
        /\ pc' = [pc EXCEPT ![c] = "idle"]
        /\ target' = [target EXCEPT ![c] = NoThread]
    BY <1>3
       DEF Free, nodeVars, inputVars, planVars, patchVars, decideVars, gitVars
  <2>2. \A d \in Conns, t \in Threads : Executing(d, t)' =>
            Executing(d, t) /\ pc'[d] = pc[d]
    BY <1>types, <2>1 DEF Executing, Running
  <2> QED BY <2>1, <2>2, DroppingKeeps, FilesKept
<1>4. CASE Restart
  <2>1. /\ UNCHANGED <<born, retry, quality, generated, approved, interrupted,
                       shown, pushed, prs>>
        /\ pc' = [c \in Conns |-> "idle"]
        /\ interruptAt' = [t \in Threads |-> Never]
    BY <1>4 DEF Restart, inputVars, planVars, patchVars, gitVars
  <2>2. \A d \in Conns, t \in Threads : ~Executing(d, t)'
    BY <2>1 DEF Executing, Running
  <2>3. FilesInv'
    BY <2>1, FilesKept
  <2> QED BY <2>1, <2>2, <2>3, DroppingKeeps
<1>5. ASSUME NEW n \in 1 .. Len(prs), NEW how \in {"closed", "merged"},
             SettlePr(n, how)
      PROVE  SingleExecution' /\ ControlInv' /\ FilesInv'
  <2>1. UNCHANGED <<connVars, inputVars, planVars, patchVars, decideVars,
                    pushed>>
    BY <1>5 DEF SettlePr
  <2>2. SingleExecution' /\ ControlInv'
    BY <2>1, DroppingKeeps
       DEF connVars, inputVars, planVars, patchVars, decideVars, Executing,
           Running
  <2>3. prs \in Seq(PRs) /\ prs' = [prs EXCEPT ![n].state = how]
    BY <1>5 DEF SettlePr, Inv, TypeOK, GitTypeOK
  <2>4. /\ Len(prs') = Len(prs)
        /\ \A m \in 1 .. Len(prs) : prs'[m].files = prs[m].files
    <3>1. \A m \in 1 .. Len(prs) : prs[m] \in PRs
      BY <2>3
    <3>2. Len(prs') = Len(prs)
      BY <2>3
    <3>3. \A m \in 1 .. Len(prs) :
              prs'[m] = prs[m] \/ prs'[m] = [prs[m] EXCEPT !.state = how]
      BY <2>3
    <3> QED BY <3>1, <3>2, <3>3 DEF PRs
  <2>5. FilesInv'
    BY <2>1, <2>4 DEF Inv, FilesInv, Reviewed, decideVars
  <2> QED BY <2>2, <2>5
<1>6. CASE Tick
  <2>1. UNCHANGED <<connVars, inputVars, planVars, patchVars, decideVars,
                    gitVars>>
    BY <1>6 DEF Tick
  <2>2. SingleExecution' /\ ControlInv'
    BY <2>1, DroppingKeeps
       DEF connVars, inputVars, planVars, patchVars, decideVars, gitVars,
           Executing, Running
  <2>3. FilesInv'
    BY <2>1, FilesKept DEF decideVars, gitVars
  <2> QED BY <2>2, <2>3
<1> QED
  BY <1>1, <1>2, <1>3, <1>4, <1>5, <1>6, RemediateKeeps, ResumeKeeps
     DEF Next, Request, World, Release, Disconnect

\* The initial states satisfy the invariant.
LEMMA InitInv == Init => Inv
<1> SUFFICES ASSUME Init PROVE Inv
  OBVIOUS
<1>1. TypeOK
  <2>1. ConnTypeOK /\ InputTypeOK /\ PlanTypeOK /\ PrTypeOK /\ DecideTypeOK
    BY ConstantsAssumption
       DEF Init, ConnTypeOK, InputTypeOK, PlanTypeOK, PrTypeOK, DecideTypeOK,
           Points, Time
  <2>2. PatchTypeOK
    BY ConstantsAssumption DEF Init, PatchTypeOK, Quality
  <2>3. \A n \in 1 .. Len(PriorPRs) : PriorPr(PriorPRs[n]) \in PRs
    <3>1. \A n \in 1 .. Len(PriorPRs) : PriorPRs[n] \in Workloads
      BY ConstantsAssumption
    <3>2. 0 \in Time
      BY ConstantsAssumption DEF Time
    <3> QED BY <3>1, <3>2 DEF PriorPr, PRs, Heads, Names
  <2>4. GitTypeOK
    <3>1. Len(PriorPRs) \in Nat
      BY ConstantsAssumption
    <3>2. prs \in Seq(PRs)
      BY <2>3, <3>1 DEF Init
    <3>3. branches \subseteq Heads
      BY <2>3 DEF Init, PRs
    <3> QED BY <3>2, <3>3 DEF Init, GitTypeOK
  <2>5. RestTypeOK
    <3>1. ASSUME NEW w \in Workloads
          PROVE  PriorRecord(w) \in
                     [pr : Nat, status : {"none", "PR_OPEN", "PR_CLOSED"}]
      <4>1. CASE \E n \in 1 .. Len(PriorPRs) : PriorPRs[n] = w
        BY <4>1 DEF PriorRecord
      <4>2. CASE ~ \E n \in 1 .. Len(PriorPRs) : PriorPRs[n] = w
        BY <4>2 DEF PriorRecord
      <4> QED BY <4>1, <4>2
    <3>2. clock \in Time
      BY ConstantsAssumption DEF Init, Time
    <3> QED BY <3>1, <3>2 DEF Init, RestTypeOK
  <2> QED BY <2>1, <2>2, <2>4, <2>5 DEF TypeOK
<1>2. SingleExecution
  BY DEF Init, SingleExecution, Executing, Running
<1>3. ControlInv
  BY DEF Init, ControlInv, UnbornInv, Undecided, Executing, Running
<1>4. FilesInv
  <2>1. Len(PriorPRs) \in Nat
    BY ConstantsAssumption
  <2>2. \A n \in 1 .. Len(prs) : prs[n].files = {}
    BY <2>1 DEF Init, PriorPr
  <2> QED BY <2>2 DEF Init, FilesInv
<1> QED BY <1>1, <1>2, <1>3, <1>4 DEF Inv

\* The invariant is inductive.
LEMMA NextInv == Inv /\ [Next]_vars => Inv'
<1> SUFFICES ASSUME Inv, [Next]_vars PROVE Inv'
  OBVIOUS
<1>1. ASSUME NEW c \in Conns, NEW t \in Threads, Step(c, t)
      PROVE  Inv'
  <2>1. /\ pc[c] = "generate" => retry[t] < MaxRetries
        /\ pc[c] \in {"confirm", "push"} => retry[t] >= 1
    <3>1. target[c] = t \/ pc[c] \notin {"generate", "confirm", "push"}
      BY <1>1
         DEF Step, ClassifyFindings, ResolveFromServiceYaml, AskServiceYaml,
             ResolveFromResume, FetchContext, FindExistingPr, NoExistingPr,
             GetCurrentRemediation, GetPullRequest, NotifyPrClosed, CheckFails,
             AnalyzeFindings, GenerateYamlPatch, ValidatePatch,
             AwaitUserConfirmation, TakeDecision, RefuseNonBoolean, BeginPr,
             CreateBranch, PushFiles, CreatePullRequest, NotifyApi, Finish,
             NodeRaises, At
    <3>2. pc[c] \in {"generate", "confirm", "push"} => PointInv(c, t)
      BY <3>1, Inside
    <3> QED BY <3>2 DEF PointInv, Offered, Publishing, Chosen
  <2>2. TypeOK'
    BY <1>1, <2>1, StepType DEF Inv
  <2> QED BY <1>1, <2>2, StepKeepsControl DEF Inv
<1>2. CASE Next /\ ~ \E c \in Conns, t \in Threads : Step(c, t)
  BY <1>2, RestOfNextType, RestKeepsControl DEF Inv
<1>3. CASE UNCHANGED vars
  <2>1. /\ UNCHANGED <<connVars, inputVars, planVars, patchVars, decideVars,
                       prVars, gitVars, restVars>>
    BY <1>3 DEF vars, nodeVars
  <2>2. TypeOK'
    BY <2>1, Kept DEF Inv, TypeOK
  <2>3. SingleExecution' /\ ControlInv'
    BY <2>1, DroppingKeeps
       DEF connVars, inputVars, planVars, patchVars, decideVars, gitVars,
           Executing, Running
  <2>4. FilesInv'
    BY <2>1, FilesKept DEF decideVars, gitVars
  <2> QED BY <2>2, <2>3, <2>4 DEF Inv
<1> QED BY <1>1, <1>2, <1>3

\* The invariant holds in every reachable state.
THEOREM Invariance == Spec => []Inv
BY InitInv, NextInv, PTL DEF Spec
-------------------------------------------------------------------------------
\* Every variable keeps its range; in particular a thread never makes more than
\* MaxRetries attempts at a patch, however its graph is resumed.
THEOREM TypeCorrect == Spec => []TypeOK
<1>1. Inv => TypeOK
  BY DEF Inv
<1> QED BY <1>1, Invariance, PTL

\* No two requests ever run one thread's graph, and an entry of
\* _thread_interrupt_times belongs to a suspended graph that nobody runs.
THEOREM OneExecution == Spec => []SingleExecution
<1>1. Inv => SingleExecution
  BY DEF Inv
<1> QED BY <1>1, Invariance, PTL

\* Whatever is in a pull request passed validation, was shown to a reviewer
\* as the only patch of its thread, and was approved.
THEOREM OnlyReviewedIsPublished == Spec => []PublishedWasReviewed
<1>1. Inv => PublishedWasReviewed
  BY DEF Inv, FilesInv, Reviewed, PublishedWasReviewed
<1> QED BY <1>1, Invariance, PTL

\* One step of ShownPatchIsFrozen.
Frozen(t) == shown[t] # {} => shown'[t] = shown[t] /\ PatchOf(t)' = PatchOf(t)

LEMMA StepFreezes ==
    ASSUME Inv, NEW c \in Conns, NEW u \in Threads, Step(c, u),
           NEW t \in Threads
    PROVE  Frozen(t)
<1>types. /\ quality \in [Threads -> Quality]
          /\ generated \in [Threads -> BOOLEAN]
          /\ retry \in [Threads -> 0 .. MaxRetries]
          /\ shown \in [Threads -> SUBSET Patches]
  BY DEF Inv, TypeOK, PatchTypeOK, PlanTypeOK, DecideTypeOK
<1>1. ASSUME Silent(c, u)
      PROVE  Frozen(t)
  BY <1>1 DEF Silent, control, Frozen, PatchOf
\* These steps change a patch or show one, and happen while nothing is shown.
<1>2. CASE ResolveFromServiceYaml(c, u) \/ ResolveFromResume(c, u)
  <2>1. Undecided(u)
    BY <1>2, Inside DEF ResolveFromServiceYaml, ResolveFromResume, At, PointInv
  <2> QED BY <1>2, <2>1, <1>types
             DEF ResolveFromServiceYaml, ResolveFromResume, Undecided, Frozen,
                 PatchOf, patchVars
<1>3. CASE GenerateYamlPatch(c, u)
  <2>1. Undecided(u)
    BY <1>3, Inside DEF GenerateYamlPatch, At, PointInv
  <2> QED BY <1>3, <2>1, <1>types
             DEF GenerateYamlPatch, Undecided, Frozen, PatchOf, planVars,
                 decideVars
<1>4. CASE AwaitUserConfirmation(c, u)
  <2>1. Undecided(u)
    BY <1>4, Inside DEF AwaitUserConfirmation, At, PointInv, Offered
  <2> QED BY <1>4, <2>1, <1>types
             DEF AwaitUserConfirmation, Interrupt, Undecided, Frozen, PatchOf,
                 planVars, patchVars
<1>5. CASE AskServiceYaml(c, u)
  BY <1>5, <1>types DEF AskServiceYaml, Interrupt, Frozen, PatchOf, planVars,
                        patchVars
<1>6. CASE TakeDecision(c, u) \/ PushFiles(c, u) \/ CreatePullRequest(c, u)
  BY <1>6 DEF TakeDecision, PushFiles, CreatePullRequest, Frozen, PatchOf,
              planVars, patchVars, decideVars
<1> QED BY <1>1, <1>2, <1>3, <1>4, <1>5, <1>6, StepIsSilent DEF Step

\* What a reviewer has been shown stays what the thread would publish: no later
\* step of any connection generates another patch or another service.yaml.
THEOREM ShownStaysFrozen == Spec => ShownPatchIsFrozen
<1>1. ASSUME Inv, Next, NEW t \in Threads
      PROVE  Frozen(t)
  <2>1. CASE \E c \in Conns, u \in Threads : Step(c, u)
    BY <1>1, <2>1, StepFreezes
  <2>2. CASE ~ \E c \in Conns, u \in Threads : Step(c, u)
    <3>1. UNCHANGED <<shown, patchVars, planVars>>
      BY <1>1, <2>2
         DEF Next, Request, World, Remediate, Resume, Refuse, KeepaliveTimeout,
             CutStream, Release, Disconnect, Free, Restart, SettlePr, Tick,
             nodeVars, decideVars
    <3> QED BY <3>1 DEF Frozen, PatchOf, patchVars, planVars
  <2> QED BY <2>1, <2>2
<1>2. Inv /\ [Next]_vars => [KeepsWhatIsShown]_vars
  BY <1>1 DEF Frozen, KeepsWhatIsShown
<1> QED BY <1>2, Invariance, PTL DEF Spec, ShownPatchIsFrozen
===============================================================================
