--------------------- MODULE RemediationPublishing_proofs ---------------------
(***************************************************************************)
(* Proofs about what Remediation does to GitHub and titlis-api: each       *)
(* thread has a branch of its own and opens one pull request at most, the  *)
(* records name pull requests that exist and belong to their workload, and *)
(* all of it implements the approval protocol.                             *)
(*                                                                         *)
(* These invariants stand on Inv of Remediation_proofs, mostly because one *)
(* execution of a thread means that nobody else changes its variables.     *)
(***************************************************************************)
EXTENDS Remediation_proofs

(* What a step of the graph leaves alone.                                   *)

\* The variables of a thread that its own graph writes.
Own(t) == <<found[t], path[t], generated[t], quality[t],
            retry[t], invalid[t], approved[t], interrupted[t], stamp[t],
            result[t], interruptAt[t], shown[t]>>

Frame(c, u) ==
    /\ target[c] = u /\ Running(c)
    /\ UNCHANGED <<op, target, born, workload, urlGiven>>
    /\ \A d \in Conns \ {c} : /\ pc'[d] = pc[d] /\ events'[d] = events[d]
                              /\ seen'[d] = seen[d]
    /\ \A t \in Threads \ {u} : UNCHANGED Own(t)
    /\ pc[c] = "closing" => UNCHANGED nodeVars

\* A step of one thread's graph changes that thread and its connection only.
LEMMA StepFrame ==
    ASSUME Inv, NEW c \in Conns, NEW u \in Threads, Step(c, u)
    PROVE  Frame(c, u)
<1>types. /\ ConnTypeOK /\ PrTypeOK /\ PlanTypeOK
          /\ InputTypeOK /\ PatchTypeOK /\ DecideTypeOK
  BY DEF Inv, TypeOK
<1> USE <1>types DEF Frame, Own, At, Running, Goto, GotoTelling, Raise,
        EndCheck, Awaiting, nodeVars, inputVars, planVars, patchVars, decideVars, prVars,
        ConnTypeOK, PrTypeOK, PlanTypeOK, InputTypeOK, PatchTypeOK,
        DecideTypeOK
<1>1. CASE ClassifyFindings(c, u)
  BY <1>1 DEF ClassifyFindings
<1>2. CASE ResolveFromServiceYaml(c, u)
  BY <1>2 DEF ResolveFromServiceYaml
<1>3. CASE AskServiceYaml(c, u)
  BY <1>3 DEF AskServiceYaml, Interrupt
<1>4. CASE ResolveFromResume(c, u)
  BY <1>4 DEF ResolveFromResume
<1>5. CASE FetchContext(c, u)
  BY <1>5 DEF FetchContext
<1>6. CASE FindExistingPr(c, u) \/ NoExistingPr(c, u)
  BY <1>6 DEF FindExistingPr, NoExistingPr
<1>7. CASE GetCurrentRemediation(c, u) \/ GetPullRequest(c, u)
  BY <1>7 DEF GetCurrentRemediation, GetPullRequest
<1>8. CASE NotifyPrClosed(c, u) \/ NotifyApi(c, u)
  BY <1>8 DEF NotifyPrClosed, NotifyApi, PostAttempt
<1>9. CASE CheckFails(c, u) \/ AnalyzeFindings(c, u) \/ NodeRaises(c, u)
  BY <1>9 DEF CheckFails, AnalyzeFindings, NodeRaises
<1>10. CASE GenerateYamlPatch(c, u)
  BY <1>10 DEF GenerateYamlPatch
<1>11. CASE ValidatePatch(c, u)
  BY <1>11 DEF ValidatePatch
<1>12. CASE AwaitUserConfirmation(c, u)
  BY <1>12 DEF AwaitUserConfirmation, Interrupt
<1>13. CASE TakeDecision(c, u) \/ RefuseNonBoolean(c, u)
  BY <1>13 DEF TakeDecision, RefuseNonBoolean
<1>14. CASE BeginPr(c, u) \/ CreateBranch(c, u) \/ PushFiles(c, u)
  BY <1>14 DEF BeginPr, CreateBranch, PushFiles, Strict
<1>15. CASE CreatePullRequest(c, u)
  BY <1>15 DEF CreatePullRequest, NoUrl, CutStream
<1>16. CASE Finish(c, u)
  BY <1>16 DEF Finish
<1> QED
  BY <1>1, <1>2, <1>3, <1>4, <1>5, <1>6, <1>7, <1>8, <1>9, <1>10, <1>11, <1>12,
     <1>13, <1>14, <1>15, <1>16
     DEF Step

\* GitHub keeps what its pull requests hold and where they come from.
SamePrs ==
    /\ Len(prs') = Len(prs)
    /\ \A n \in 1 .. Len(prs) : /\ prs'[n].head = prs[n].head
                                /\ prs'[n].files = prs[n].files

\* Nothing moves d, or d is taken out of the graph, or to where a graph starts.
Displaced(d) ==
    \/ /\ pc'[d] = pc[d] /\ target'[d] = target[d] /\ op'[d] = op[d]
       /\ events'[d] = events[d] /\ seen'[d] = seen[d]
    \/ pc'[d] \in {"idle", "closed", "classify", "resolve", "confirm"}

\* The variables of t that only requests and the graph write.
Kin(t) == <<workload[t], urlGiven[t], found[t], path[t], generated[t],
            quality[t], retry[t], invalid[t], approved[t],
            interrupted[t], stamp[t], result[t], shown[t]>>

\* Settling a pull request changes its state, and nothing else.
LEMMA SettledPr ==
    ASSUME prs \in Seq(PRs), NEW n \in 1 .. Len(prs),
           NEW how \in {"closed", "merged"},
           prs' = [prs EXCEPT ![n].state = how]
    PROVE  /\ SamePrs
           /\ \A m \in 1 .. Len(prs) :
                 prs'[m].state = IF m = n THEN how ELSE prs[m].state
<1>1. \A m \in 1 .. Len(prs) : prs[m] \in PRs
  OBVIOUS
<1>2. Len(prs') = Len(prs)
  OBVIOUS
<1>3. \A m \in 1 .. Len(prs) :
          prs'[m] = IF m = n THEN [prs[m] EXCEPT !.state = how] ELSE prs[m]
  OBVIOUS
<1> QED BY <1>1, <1>2, <1>3 DEF SamePrs, PRs

\* Requests, faults and people change no pull request, record or branch, and
\* nothing of a thread that is born.
LEMMA RestFrame ==
    ASSUME Inv, Next, ~ \E c \in Conns, t \in Threads : Step(c, t)
    PROVE  /\ UNCHANGED <<branches, pushed, record, overtaken>>
             /\ SamePrs
           /\ born \subseteq born' /\ \A t \in born : UNCHANGED Kin(t)
           /\ \A d \in Conns : Displaced(d)
<1>types. /\ ConnTypeOK /\ InputTypeOK /\ DecideTypeOK /\ prs \in Seq(PRs)
          /\ born \subseteq Threads
  BY DEF Inv, TypeOK, GitTypeOK, InputTypeOK
<1> USE <1>types DEF Displaced, Kin, SamePrs, ConnTypeOK, InputTypeOK,
        DecideTypeOK, nodeVars, connVars, inputVars, planVars, patchVars,
        decideVars, prVars, gitVars, restVars
<1>1. ASSUME NEW c \in Conns, NEW t \in Threads, NEW w \in Workloads,
             NEW url \in BOOLEAN, Remediate(c, t, w, url)
      PROVE  /\ UNCHANGED <<branches, pushed, record, overtaken>>
             /\ SamePrs
             /\ born \subseteq born' /\ \A u \in born : UNCHANGED Kin(u)
             /\ \A d \in Conns : Displaced(d)
  <2>1. \A u \in born : UNCHANGED Kin(u)
    BY <1>1 DEF Remediate
  <2>2. \A d \in Conns : Displaced(d)
    BY <1>1 DEF Remediate
  <2> QED BY <1>1, <2>1, <2>2 DEF Remediate
<1>2. ASSUME NEW c \in Conns, NEW t \in Threads, NEW o \in Resumes,
             Resume(c, t, o)
      PROVE  /\ UNCHANGED <<branches, pushed, record, overtaken>>
             /\ SamePrs
             /\ born \subseteq born' /\ \A u \in born : UNCHANGED Kin(u)
             /\ \A d \in Conns : Displaced(d)
  <2>1. interrupted[t] \in {"service_yaml", "confirmation"}
    BY <1>2 DEF Resume, Expired, Inv, ControlInv, EntryInv
  <2>2. \A d \in Conns : Displaced(d)
    BY <1>2, <2>1 DEF Resume, Pop
  <2>3. \A u \in born : UNCHANGED Kin(u)
    BY <1>2 DEF Resume, Pop
  <2> QED BY <1>2, <2>2, <2>3 DEF Resume, Pop
<1>3. CASE \E t \in Threads : Refuse(t)
  BY <1>3 DEF Refuse, Pop
<1>4. CASE \E c \in Conns : KeepaliveTimeout(c) \/ Free(c)
  BY <1>4 DEF KeepaliveTimeout, CutStream, GotoTelling, Free
<1>5. CASE Restart
  BY <1>5 DEF Restart
<1>7. CASE Tick
  BY <1>7 DEF Tick
<1>6. ASSUME NEW n \in 1 .. Len(prs), NEW how \in {"closed", "merged"},
             SettlePr(n, how)
      PROVE  /\ UNCHANGED <<branches, pushed, record, overtaken>>
             /\ SamePrs
             /\ born \subseteq born' /\ \A u \in born : UNCHANGED Kin(u)
             /\ \A d \in Conns : Displaced(d)
  <2>1. SamePrs
    BY <1>6, SettledPr DEF SettlePr
  <2> QED BY <1>6, <2>1 DEF SettlePr
<1> QED
  BY <1>1, <1>2, <1>3, <1>4, <1>5, <1>6, <1>7
     DEF Next, Request, World, Release, Disconnect
-------------------------------------------------------------------------------
(* A branch of its own, and one pull request.                               *)

\* c is on its way from the approval to the pull request of t.
Opening(c, t) == target[c] = t /\ pc[c] \in {"begin", "branch", "push", "pr"}

\* c has created the branch of t.
Holds(c, t) == target[c] = t /\ pc[c] \in {"push", "pr"}

HeldInv(c, t) ==
    /\ HeadOf(t) \in branches
    /\ pc[c] = "push" => pushed[HeadOf(t)] = {}
    /\ pc[c] = "pr" => pushed[HeadOf(t)] = {PatchOf(t)}

\* While a connection holds a branch nobody else does; a branch that does not
\* exist is empty; and a thread on its way to a pull request has none yet.
BranchInv ==
    /\ \A c \in Conns, t \in Threads : Holds(c, t) => HeldInv(c, t)
    /\ \A c, d \in Conns, t, u \in Threads :
          Holds(c, t) /\ Holds(d, u) /\ HeadOf(t) = HeadOf(u) => c = d
    /\ \A h \in Heads : h \notin branches => pushed[h] = {}
    /\ \A c \in Conns, t \in Threads : Opening(c, t) => ~ReachedPr(t)
    /\ OnePrPerThread

\* Nobody else writes the head or the patch of a thread that c is at.
LEMMA HeldIsFrozen ==
    ASSUME Inv, NEW c \in Conns, NEW u \in Threads, Step(c, u),
           NEW d \in Conns, NEW t \in Threads, Opening(d, t)', d # c
    PROVE  /\ Opening(d, t) /\ pc'[d] = pc[d]
           /\ t # u \/ UNCHANGED nodeVars
           /\ HeadOf(t)' = HeadOf(t) /\ PatchOf(t)' = PatchOf(t)
<1>1. Frame(c, u)
  BY StepFrame
<1>2. Opening(d, t) /\ pc'[d] = pc[d]
  BY <1>1 DEF Frame, Opening
<1>3. t # u \/ pc[c] = "closing"
  BY <1>1, <1>2 DEF Frame, Opening, Inv, SingleExecution, Executing, Running
<1> QED
  BY <1>1, <1>2, <1>3
     DEF Frame, Own, HeadOf, NameOf, PatchOf, nodeVars, inputVars, planVars,
         patchVars, prVars

\* Pull requests that keep their files reach the threads they reached.
LEMMA SamePrsReach ==
    ASSUME SamePrs
    PROVE  /\ \A t \in Threads : ReachedPr(t)' = ReachedPr(t)
           /\ OnePrPerThread => OnePrPerThread'
BY DEF SamePrs, ReachedPr, OnePrPerThread

\* Without an approval a thread is in no pull request.
LEMMA Unapproved ==
    ASSUME Inv, NEW t \in Threads, approved[t] # "yes"
    PROVE  ~ReachedPr(t)
BY DEF Inv, FilesInv, Reviewed, ReachedPr

\* GitHub is left alone, nobody gets hold of a branch, and those who turn to
\* publishing come from a decision.
LEMMA QuietKeepsBranches ==
    ASSUME Inv, BranchInv, UNCHANGED <<branches, pushed>>, SamePrs,
           \A d \in Conns, t \in Threads : Holds(d, t)' =>
               /\ Holds(d, t) /\ pc'[d] = pc[d]
               /\ HeadOf(t)' = HeadOf(t) /\ PatchOf(t)' = PatchOf(t),
           \A d \in Conns, t \in Threads : Opening(d, t)' =>
               Opening(d, t) \/ approved[t] # "yes"
    PROVE  BranchInv'
<1>1. \A d \in Conns, t \in Threads : Holds(d, t)' => HeldInv(d, t)'
  BY DEF BranchInv, HeldInv
<1>2. \A d, e \in Conns, t, u \in Threads :
          Holds(d, t)' /\ Holds(e, u)' /\ HeadOf(t)' = HeadOf(u)' => d = e
  BY DEF BranchInv
<1>3. \A d \in Conns, t \in Threads : Opening(d, t)' => ~ReachedPr(t)'
  BY SamePrsReach, Unapproved DEF BranchInv
<1> QED BY <1>1, <1>2, <1>3, SamePrsReach DEF BranchInv

\* Most steps of the graph have nothing to do with GitHub.
LEMMA StepAwayFromGit ==
    ASSUME Inv, NEW c \in Conns, NEW u \in Threads, Step(c, u),
           ~CreateBranch(c, u), ~PushFiles(c, u), ~CreatePullRequest(c, u)
    PROVE  /\ UNCHANGED gitVars /\ pc'[c] \notin {"push", "pr"}
           /\ pc'[c] \in {"begin", "branch"} =>
                 pc[c] = "begin" \/ approved[u] # "yes"
<1>types. pc \in [Conns -> Points]
  BY DEF Inv, TypeOK, ConnTypeOK
<1> USE <1>types DEF At, Goto, GotoTelling, Raise, EndCheck, nodeVars
<1>1. CASE \/ ClassifyFindings(c, u) \/ ResolveFromServiceYaml(c, u)
           \/ ResolveFromResume(c, u) \/ FetchContext(c, u)
  BY <1>1
     DEF ClassifyFindings, ResolveFromServiceYaml, ResolveFromResume,
         FetchContext
<1>2. CASE AskServiceYaml(c, u) \/ AwaitUserConfirmation(c, u)
  BY <1>2 DEF AskServiceYaml, AwaitUserConfirmation, Interrupt
<1>3. CASE \/ FindExistingPr(c, u) \/ NoExistingPr(c, u)
           \/ GetCurrentRemediation(c, u) \/ GetPullRequest(c, u)
           \/ CheckFails(c, u) \/ AnalyzeFindings(c, u)
  BY <1>3
     DEF FindExistingPr, NoExistingPr, GetCurrentRemediation, GetPullRequest,
         CheckFails, AnalyzeFindings
<1>4. CASE NotifyPrClosed(c, u) \/ NotifyApi(c, u)
  BY <1>4 DEF NotifyPrClosed, NotifyApi, PostAttempt
<1>5. CASE GenerateYamlPatch(c, u) \/ ValidatePatch(c, u)
  BY <1>5 DEF GenerateYamlPatch, ValidatePatch, RouteAfterValidate
<1>6. CASE TakeDecision(c, u)
  <2>1. approved[u] # "yes"
    BY <1>6, Inside DEF TakeDecision, PointInv, Offered
  <2> QED BY <1>6, <2>1 DEF TakeDecision, RouteAfterConfirmation
<1>7. CASE BeginPr(c, u)
  BY <1>7 DEF BeginPr, Strict
<1>8. CASE RefuseNonBoolean(c, u) \/ Finish(c, u) \/ NodeRaises(c, u)
  BY <1>8 DEF RefuseNonBoolean, Finish, NodeRaises
<1> QED BY <1>1, <1>2, <1>3, <1>4, <1>5, <1>6, <1>7, <1>8 DEF Step

LEMMA StepKeepsBranches ==
    ASSUME Inv, BranchInv, NEW c \in Conns, NEW u \in Threads, Step(c, u)
    PROVE  BranchInv'
<1>types. /\ pc \in [Conns -> Points] /\ NoThread \notin Threads
          /\ branches \subseteq Heads /\ pushed \in [Heads -> SUBSET Patches]
          /\ prs \in Seq(PRs)
          /\ \A t \in Threads : HeadOf(t) \in Heads
  BY HeadIsTyped, ConstantsAssumption DEF Inv, TypeOK, ConnTypeOK, GitTypeOK
<1>frame. Frame(c, u)
  BY StepFrame
\* What holds for the connections that do not move.
<1>others. ASSUME NEW d \in Conns \ {c}, NEW t \in Threads, Opening(d, t)'
           PROVE  /\ Opening(d, t) /\ pc'[d] = pc[d]
                  /\ HeadOf(t)' = HeadOf(t) /\ PatchOf(t)' = PatchOf(t)
                  /\ Holds(d, t)' = Holds(d, t)
  BY <1>others, <1>frame, HeldIsFrozen DEF Frame, Holds
<1>mine. \A t \in Threads : target'[c] = t => t = u
  BY <1>frame DEF Frame
<1>1. CASE CreateBranch(c, u)
  <2>1. UNCHANGED <<pushed, prs>> /\ HeadOf(u)' = HeadOf(u)
    BY <1>1 DEF CreateBranch, inputVars, prVars, HeadOf, NameOf
  <2>2. SamePrs
    BY <2>1 DEF SamePrs
  <2>3. /\ branches \subseteq branches'
        /\ \/ /\ pc'[c] = "push" /\ HeadOf(u) \notin branches
              /\ HeadOf(u) \in branches'
           \/ pc'[c] = "closed"
    BY <1>1, <1>types
       DEF CreateBranch, Strict, BranchExists, Goto, GotoTelling, Raise
  <2>4. ASSUME NEW d \in Conns, NEW t \in Threads, Holds(d, t)'
        PROVE  HeldInv(d, t)'
    <3>1. CASE d = c
      BY <1>mine, <1>types, <2>1, <2>3, <2>4, <3>1
         DEF Holds, HeldInv, BranchInv
    <3>2. CASE d # c
      <4>1. HeldInv(d, t) /\ pc'[d] = pc[d] /\ HeadOf(t)' = HeadOf(t)
            /\ PatchOf(t)' = PatchOf(t)
        BY <1>others, <2>4, <3>2 DEF Holds, Opening, BranchInv
      <4> QED BY <2>1, <2>3, <4>1 DEF HeldInv
    <3> QED BY <3>1, <3>2
  <2>5. ASSUME NEW d \in Conns, NEW e \in Conns,
               NEW t \in Threads, NEW v \in Threads,
               Holds(d, t)', Holds(e, v)', HeadOf(t)' = HeadOf(v)', d # e
        PROVE  FALSE
    \* A branch that somebody holds exists, so it was not created now.
    <3>1. \A k \in Conns \ {c}, w \in Threads :
              Holds(k, w)' => /\ Holds(k, w) /\ HeadOf(w)' = HeadOf(w)
                              /\ HeadOf(w) \in branches
      BY <1>others DEF Holds, Opening, BranchInv, HeldInv
    <3>2. \A w \in Threads :
              Holds(c, w)' => w = u /\ HeadOf(u) \notin branches
      BY <1>mine, <2>3 DEF Holds
    <3> QED BY <2>1, <2>5, <3>1, <3>2 DEF BranchInv
  <2>6. \A h \in Heads : h \notin branches' => pushed'[h] = {}
    BY <2>1, <2>3 DEF BranchInv
  <2>7. \A d \in Conns, t \in Threads : Opening(d, t)' => Opening(d, t)
    BY <1>1, <1>mine, <1>others DEF CreateBranch, At, Opening
  <2> QED BY <2>2, <2>4, <2>5, <2>6, <2>7, SamePrsReach DEF BranchInv
<1>2. CASE PushFiles(c, u)
  <2>1. /\ UNCHANGED <<branches, prs>>
        /\ HeadOf(u)' = HeadOf(u) /\ PatchOf(u)' = PatchOf(u)
        /\ HeadOf(u) \in branches
    BY <1>2
       DEF PushFiles, At, inputVars, planVars, patchVars, prVars, HeadOf,
           NameOf, PatchOf, BranchInv, Holds, HeldInv
  <2>2. SamePrs
    BY <2>1 DEF SamePrs
  <2>3. /\ \A h \in Heads \ {HeadOf(u)} : pushed'[h] = pushed[h]
        /\ \/ pc'[c] = "pr" /\ pushed'[HeadOf(u)] = {PatchOf(u)}
           \/ pc'[c] = "closed"
    BY <1>2, <1>types DEF PushFiles, Strict, Goto, GotoTelling, Raise
  <2>4. \A d \in Conns \ {c}, t \in Threads :
            Holds(d, t)' => Holds(d, t) /\ HeadOf(t) # HeadOf(u)
    BY <1>2, <1>others DEF PushFiles, At, Holds, Opening, BranchInv
  <2>5. ASSUME NEW d \in Conns, NEW t \in Threads, Holds(d, t)'
        PROVE  HeldInv(d, t)'
    <3>1. CASE d = c
      BY <1>mine, <2>1, <2>3, <2>5, <3>1 DEF Holds, HeldInv
    <3>2. CASE d # c
      <4>1. HeldInv(d, t) /\ pc'[d] = pc[d] /\ HeadOf(t)' = HeadOf(t)
            /\ PatchOf(t)' = PatchOf(t) /\ HeadOf(t) # HeadOf(u)
        BY <1>others, <2>4, <2>5, <3>2 DEF Holds, Opening, BranchInv
      <4> QED BY <1>types, <2>1, <2>3, <4>1 DEF HeldInv
    <3> QED BY <3>1, <3>2
  <2>6. ASSUME NEW d \in Conns, NEW e \in Conns,
               NEW t \in Threads, NEW v \in Threads,
               Holds(d, t)', Holds(e, v)', HeadOf(t)' = HeadOf(v)'
        PROVE  d = e
    <3>1. \A k \in Conns, w \in Threads :
              Holds(k, w)' => Holds(k, w) /\ HeadOf(w)' = HeadOf(w)
      BY <1>2, <1>mine, <1>others, <2>1 DEF PushFiles, At, Holds, Opening
    <3> QED BY <2>6, <3>1 DEF BranchInv
  <2>7. \A h \in Heads : h \notin branches' => pushed'[h] = {}
    BY <2>1, <2>3 DEF BranchInv
  <2>8. \A d \in Conns, t \in Threads : Opening(d, t)' => Opening(d, t)
    BY <1>2, <1>mine, <1>others DEF PushFiles, At, Opening
  <2> QED BY <2>2, <2>5, <2>6, <2>7, <2>8, SamePrsReach DEF BranchInv
<1>3. CASE CreatePullRequest(c, u)
  <2>1. /\ UNCHANGED <<branches, pushed>>
        /\ HeadOf(u)' = HeadOf(u) /\ PatchOf(u)' = PatchOf(u)
        /\ pc[c] = "pr" /\ target[c] = u
        /\ pc'[c] \in {"notify", "closed"}
        /\ prs' = prs \/ prs' = Append(prs, NewPr(u))
    BY <1>3, <1>types
       DEF CreatePullRequest, NoUrl, Raise, CutStream, GotoTelling, At,
           inputVars, planVars, patchVars, HeadOf, NameOf, PatchOf
  <2>2. NewPr(u).files = {PatchOf(u)} /\ PatchOf(u).thread = u
    BY <2>1 DEF NewPr, PatchOf, BranchInv, Holds, HeldInv
  <2>3. ~ReachedPr(u)
    BY <2>1 DEF BranchInv, Opening
  <2>4. \A n \in 1 .. Len(prs') :
            \/ n \in 1 .. Len(prs) /\ prs'[n] = prs[n]
            \/ n = Len(prs) + 1 /\ prs'[n].files = {PatchOf(u)}
    BY <1>types, <2>1, <2>2
  <2>5. OnePrPerThread'
    BY <2>2, <2>3, <2>4 DEF BranchInv, OnePrPerThread, ReachedPr
  <2>6. \A t \in Threads \ {u} : ReachedPr(t)' => ReachedPr(t)
    BY <2>2, <2>4 DEF ReachedPr
  <2>7. ASSUME NEW d \in Conns, NEW t \in Threads, Opening(d, t)'
        PROVE  d # c /\ t # u /\ Opening(d, t)
    <3>1. d # c
      BY <2>1, <2>7 DEF Opening
    <3>2. Opening(d, t)
      BY <1>others, <2>7, <3>1
    <3>3. t # u
      BY <2>1, <3>1, <3>2
         DEF Opening, Inv, SingleExecution, Executing, Running
    <3> QED BY <3>1, <3>2, <3>3
  <2>8. \A d \in Conns, t \in Threads : Opening(d, t)' => ~ReachedPr(t)'
    BY <2>6, <2>7 DEF BranchInv
  <2>9. \A d \in Conns, t \in Threads : Holds(d, t)' =>
            /\ Holds(d, t) /\ pc'[d] = pc[d]
            /\ HeadOf(t)' = HeadOf(t) /\ PatchOf(t)' = PatchOf(t)
    BY <1>others, <2>7 DEF Holds, Opening
  <2>10. \A d \in Conns, t \in Threads : Holds(d, t)' => HeldInv(d, t)'
    BY <2>1, <2>9 DEF BranchInv, HeldInv
  <2>11. \A d, e \in Conns, t, v \in Threads :
            Holds(d, t)' /\ Holds(e, v)' /\ HeadOf(t)' = HeadOf(v)' => d = e
    BY <2>9 DEF BranchInv
  <2> QED BY <2>1, <2>5, <2>8, <2>10, <2>11 DEF BranchInv
<1>4. CASE ~CreateBranch(c, u) /\ ~PushFiles(c, u) /\ ~CreatePullRequest(c, u)
  <2>1. /\ UNCHANGED gitVars /\ pc'[c] \notin {"push", "pr"}
        /\ pc'[c] \in {"begin", "branch"} =>
              pc[c] = "begin" \/ approved[u] # "yes"
    BY <1>4, StepAwayFromGit
  <2>2. SamePrs /\ UNCHANGED <<branches, pushed>>
    BY <2>1 DEF gitVars, SamePrs
  <2>3. \A d \in Conns, t \in Threads : Holds(d, t)' =>
            /\ Holds(d, t) /\ pc'[d] = pc[d]
            /\ HeadOf(t)' = HeadOf(t) /\ PatchOf(t)' = PatchOf(t)
    BY <1>others, <2>1 DEF Holds, Opening
  <2>4. \A d \in Conns, t \in Threads : Opening(d, t)' =>
            Opening(d, t) \/ approved[t] # "yes"
    BY <1>others, <1>mine, <1>frame, <2>1 DEF Opening, Frame
  <2> QED BY <2>2, <2>3, <2>4, QuietKeepsBranches
<1> QED BY <1>1, <1>2, <1>3, <1>4

\* Requests and faults take connections away from the branches they hold.
LEMMA RestKeepsBranches ==
    ASSUME Inv, BranchInv, Next,
           ~ \E c \in Conns, t \in Threads : Step(c, t)
    PROVE  BranchInv'
<1>1. /\ UNCHANGED <<branches, pushed>> /\ SamePrs
      /\ \A t \in born : UNCHANGED Kin(t)
      /\ \A d \in Conns : Displaced(d)
  BY RestFrame
<1>2. ASSUME NEW d \in Conns, NEW t \in Threads, Opening(d, t)'
      PROVE  /\ Opening(d, t) /\ pc'[d] = pc[d] /\ t \in born
             /\ HeadOf(t)' = HeadOf(t) /\ PatchOf(t)' = PatchOf(t)
  <2>1. Opening(d, t) /\ pc'[d] = pc[d]
    BY <1>1, <1>2 DEF Displaced, Opening
  <2>2. t \in born
    BY <2>1, Inside DEF Opening, PointInv
  <2> QED BY <1>1, <2>1, <2>2 DEF Kin, HeadOf, NameOf, PatchOf
<1>3. \A d \in Conns, t \in Threads : Holds(d, t)' =>
          /\ Holds(d, t) /\ pc'[d] = pc[d]
          /\ HeadOf(t)' = HeadOf(t) /\ PatchOf(t)' = PatchOf(t)
  BY <1>2 DEF Holds, Opening
<1> QED BY <1>1, <1>2, <1>3, QuietKeepsBranches

LEMMA InitBranches == Init => BranchInv
<1> SUFFICES ASSUME Init PROVE BranchInv
  OBVIOUS
<1>1. \A n \in 1 .. Len(prs) : prs[n].files = {}
  <2>1. Len(PriorPRs) \in Nat
    BY ConstantsAssumption
  <2> QED BY <2>1 DEF Init, PriorPr
<1>2. \A c \in Conns, t \in Threads : ~Holds(c, t) /\ ~Opening(c, t)
  BY DEF Init, Holds, Opening
<1>3. \A h \in Heads : pushed[h] = {}
  BY DEF Init
<1> QED BY <1>1, <1>2, <1>3 DEF BranchInv, OnePrPerThread

\* A branch is held by one connection, and a thread on its way to a pull
\* request has none yet.
THEOREM BranchesAreOwn == Spec => [](Inv /\ BranchInv)
<1>1. Init => Inv /\ BranchInv
  BY InitInv, InitBranches
<1>2. Inv /\ BranchInv /\ [Next]_vars => (Inv /\ BranchInv)'
  <2> SUFFICES ASSUME Inv, BranchInv, [Next]_vars PROVE (Inv /\ BranchInv)'
    OBVIOUS
  <2>1. Inv'
    BY NextInv
  <2>2. CASE \E c \in Conns, t \in Threads : Step(c, t)
    BY <2>1, <2>2, StepKeepsBranches
  <2>3. CASE Next /\ ~ \E c \in Conns, t \in Threads : Step(c, t)
    BY <2>1, <2>3, RestKeepsBranches
  <2>4. CASE UNCHANGED vars
    <3>1. /\ UNCHANGED <<branches, pushed>> /\ SamePrs
          /\ \A d \in Conns, t \in Threads :
                /\ Holds(d, t)' = Holds(d, t) /\ Opening(d, t)' = Opening(d, t)
                /\ pc'[d] = pc[d] /\ HeadOf(t)' = HeadOf(t)
                /\ PatchOf(t)' = PatchOf(t)
      BY <2>4
         DEF vars, nodeVars, connVars, inputVars, planVars, patchVars, prVars,
             gitVars, SamePrs, Holds, Opening, HeadOf, NameOf, PatchOf
    <3> QED BY <2>1, <3>1, QuietKeepsBranches
  <2> QED BY <2>2, <2>3, <2>4
<1> QED BY <1>1, <1>2, PTL DEF Spec

\* A thread publishes one pull request at most: no retry, lost answer, second
\* confirm or branch named in the same second gives its patch another one.
THEOREM OnePullRequest == Spec => []OnePrPerThread
<1>1. BranchInv => OnePrPerThread
  BY DEF BranchInv
<1> QED BY <1>1, BranchesAreOwn, PTL
-------------------------------------------------------------------------------
(* The pipeline implements the approval protocol.                           *)

Published == UNION {prs[n].files : n \in 1 .. Len(prs)}

\* A step of the protocol, or none.
ProtocolStep == Approval!Next \/ UNCHANGED Approval!apVars

\* Only births, approvals, offers and pull requests are visible.
LEMMA HiddenStep ==
    ASSUME UNCHANGED <<born, approved, shown>>, SamePrs
    PROVE  UNCHANGED Approval!apVars
<1>1. \A t \in Threads : PhaseOf(t)' = PhaseOf(t)
  BY SamePrsReach DEF PhaseOf
<1>2. Published' = Published
  BY DEF SamePrs, Published
<1> QED BY <1>1, <1>2 DEF Approval!apVars, Published

\* A step that makes t go on, and touches no other thread and no pull request.
LEMMA PhaseMoves ==
    ASSUME SamePrs, NEW t \in Threads, NEW from, NEW to,
           \A u \in Threads \ {t} :
               /\ approved'[u] = approved[u] /\ shown'[u] = shown[u]
               /\ (u \in born') = (u \in born),
           PhaseOf(t) = from, PhaseOf(t)' = to
    PROVE  /\ Approval!Move(t, from, to)
           /\ Published' = Published
<1>1. \A u \in Threads \ {t} : PhaseOf(u)' = PhaseOf(u)
  BY SamePrsReach DEF PhaseOf
<1>2. Published' = Published
  BY DEF SamePrs, Published
<1> QED BY <1>1, <1>2 DEF Approval!Move

\* A step of a graph is a step of the protocol.
LEMMA StepImplements ==
    ASSUME Inv, BranchInv, NEW c \in Conns, NEW u \in Threads, Step(c, u)
    PROVE  ProtocolStep
<1>types. /\ approved \in [Threads -> {"unset", "yes", "no"}]
          /\ shown \in [Threads -> SUBSET Patches]
          /\ prs \in Seq(PRs)
  BY DEF Inv, TypeOK, DecideTypeOK, GitTypeOK
<1>frame. born' = born /\ \A t \in Threads \ {u} :
              approved'[t] = approved[t] /\ shown'[t] = shown[t]
  BY StepFrame DEF Frame, Own
<1>1. CASE AwaitUserConfirmation(c, u)
  <2>1. SamePrs
    BY <1>1 DEF AwaitUserConfirmation, gitVars, SamePrs
  <2>2. u \in born /\ Undecided(u) /\ retry[u] >= 1
    BY <1>1, Inside DEF AwaitUserConfirmation, At, PointInv, Offered
  <2>3. CASE op[c] \in Confirms
    BY <1>1, <2>1, <2>3, <1>frame, HiddenStep
       DEF AwaitUserConfirmation, Interrupt, ProtocolStep
  <2>4. CASE op[c] \notin Confirms
    <3>1. PatchOf(u) \in Patches
      BY <2>2, PatchIsTyped DEF Inv, TypeOK
    <3>2. shown' = [shown EXCEPT ![u] = {PatchOf(u)}] /\ approved' = approved
      BY <1>1, <1>types, <2>2, <2>4
         DEF AwaitUserConfirmation, Interrupt, Undecided
    <3>3. ~ReachedPr(u) /\ ~ReachedPr(u)'
      BY <2>1, <2>2, SamePrsReach, Unapproved DEF Undecided
    <3>4. PhaseOf(u) = "drafting" /\ PhaseOf(u)' = "offered"
      BY <1>types, <1>frame, <2>2, <3>2, <3>3 DEF PhaseOf, Undecided
    <3>5. Approval!Offer(u, PatchOf(u))
      BY <2>1, <3>2, <3>4, <1>frame, PhaseMoves DEF Approval!Offer, Published
    <3> QED BY <3>1, <3>5 DEF ProtocolStep, Approval!Next
  <2> QED BY <2>3, <2>4
<1>2. CASE TakeDecision(c, u)
  <2>1. SamePrs
    BY <1>2 DEF TakeDecision, gitVars, SamePrs
  <2>2. u \in born /\ Offered(u)
    BY <1>2, Inside DEF TakeDecision, At, PointInv
  <2>3. shown' = shown /\ approved'[u] = IF op[c] = "approve" THEN "yes" ELSE "no"
    BY <1>2, <1>types DEF TakeDecision
  <2>4. ~ReachedPr(u) /\ ~ReachedPr(u)'
    BY <2>1, <2>2, SamePrsReach, Unapproved DEF Offered
  <2>5. PhaseOf(u) = "offered"
    BY <2>2, <2>4 DEF PhaseOf, Offered
  <2>6. CASE op[c] = "approve"
    <3>1. PhaseOf(u)' = "accepted"
      BY <1>frame, <2>2, <2>3, <2>4, <2>6 DEF PhaseOf
    <3>2. Approval!Accept(u)
      BY <2>1, <2>3, <2>5, <3>1, <1>frame, PhaseMoves
         DEF Approval!Accept, Published
    <3> QED BY <3>2 DEF ProtocolStep, Approval!Next
  <2>7. CASE op[c] # "approve"
    <3>1. PhaseOf(u)' = "refused"
      BY <1>frame, <2>2, <2>3, <2>4, <2>7 DEF PhaseOf
    <3>2. Approval!Decline(u)
      BY <2>1, <2>3, <2>5, <3>1, <1>frame, PhaseMoves
         DEF Approval!Decline, Published
    <3> QED BY <3>2 DEF ProtocolStep, Approval!Next
  <2> QED BY <2>6, <2>7
<1>3. CASE CreatePullRequest(c, u)
  <2>1. /\ UNCHANGED <<approved, shown>>
        /\ prs' = prs \/ prs' = Append(prs, NewPr(u))
    BY <1>3 DEF CreatePullRequest, NoUrl, Raise, decideVars
  <2>2. CASE prs' = prs
    BY <2>1, <2>2, <1>frame, HiddenStep DEF SamePrs, ProtocolStep
  <2>3. CASE prs' = Append(prs, NewPr(u))
    <3>1. /\ u \in born /\ Chosen(u) /\ ~ReachedPr(u)
          /\ NewPr(u).files = {PatchOf(u)}
      BY <1>3, Inside
         DEF CreatePullRequest, At, PointInv, Publishing, BranchInv, Opening,
             Holds, HeldInv, NewPr
    <3>2. /\ Len(prs') = Len(prs) + 1
          /\ \A n \in 1 .. Len(prs) : prs'[n] = prs[n]
          /\ prs'[Len(prs) + 1].files = {PatchOf(u)}
          /\ Len(prs) \in Nat
      BY <1>types, <2>3, <3>1
    <3>3. \A t \in Threads : ReachedPr(t)' = (ReachedPr(t) \/ t = u)
      <4>1. PatchOf(u).thread = u
        BY DEF PatchOf
      <4>2. ReachedPr(u)'
        BY <3>2, <4>1 DEF ReachedPr
      <4>3. \A t \in Threads : ReachedPr(t) => ReachedPr(t)'
        BY <3>2 DEF ReachedPr
      <4>4. \A n \in 1 .. Len(prs') : n \in 1 .. Len(prs) \/ n = Len(prs) + 1
        BY <3>2
      <4>5. ASSUME NEW t \in Threads, ReachedPr(t)', t # u
            PROVE  ReachedPr(t)
        BY <3>2, <4>1, <4>4, <4>5 DEF ReachedPr
      <4> QED BY <4>2, <4>3, <4>5 DEF ReachedPr
    <3>4. Published' = Published \cup {PatchOf(u)}
      BY <3>2 DEF Published
    <3>5. /\ PhaseOf(u) = "accepted" /\ PhaseOf(u)' = "published"
          /\ \A t \in Threads \ {u} : PhaseOf(t)' = PhaseOf(t)
      BY <1>frame, <2>1, <3>1, <3>3 DEF PhaseOf, Chosen
    <3>6. Approval!Publish(u)
      BY <2>1, <3>1, <3>4, <3>5
         DEF Approval!Publish, Approval!Move, Chosen, Published
    <3> QED BY <3>6 DEF ProtocolStep, Approval!Next
  <2> QED BY <2>1, <2>2, <2>3
<1>4. CASE /\ ~AwaitUserConfirmation(c, u) /\ ~TakeDecision(c, u)
           /\ ~CreatePullRequest(c, u)
  <2>1. UNCHANGED <<approved, shown>> /\ prs' = prs
    <3>1. CASE AskServiceYaml(c, u)
      BY <3>1, <1>types DEF AskServiceYaml, Interrupt, gitVars
    <3>2. CASE \/ ResolveFromServiceYaml(c, u) \/ ResolveFromResume(c, u)
               \/ GenerateYamlPatch(c, u) \/ PushFiles(c, u)
      BY <3>2
         DEF ResolveFromServiceYaml, ResolveFromResume, GenerateYamlPatch,
             PushFiles, decideVars, gitVars
    <3>3. CASE Silent(c, u)
      BY <3>3 DEF Silent, control
    <3> QED BY <1>4, <3>1, <3>2, <3>3, StepIsSilent DEF Step
  <2> QED BY <2>1, <1>frame, HiddenStep DEF SamePrs, ProtocolStep
<1> QED BY <1>1, <1>2, <1>3, <1>4

\* So is what requests, faults and people do: only a new thread is visible.
LEMMA RestImplements ==
    ASSUME Inv, BranchInv, Next,
           ~ \E c \in Conns, t \in Threads : Step(c, t)
    PROVE  ProtocolStep
<1>1. SamePrs
  BY RestFrame
<1>2. ASSUME NEW c \in Conns, NEW t \in Threads, NEW w \in Workloads,
             NEW url \in BOOLEAN, Remediate(c, t, w, url)
      PROVE  ProtocolStep
  <2>1. t \notin born /\ born' = born \cup {t} /\ UNCHANGED <<approved, shown>>
    BY <1>2 DEF Remediate, decideVars
  <2>2. Undecided(t)
    BY <2>1 DEF Inv, ControlInv, UnbornInv
  <2>3. ~ReachedPr(t)'
    BY <1>1, <2>2, SamePrsReach, Unapproved DEF Undecided
  <2>4. PhaseOf(t) = "unborn" /\ PhaseOf(t)' = "drafting"
    BY <2>1, <2>2, <2>3 DEF PhaseOf, Undecided
  <2>5. \A u \in Threads \ {t} : (u \in born') = (u \in born)
    BY <2>1
  <2>6. Approval!Open(t)
    BY <1>1, <2>5, <2>1, <2>4, PhaseMoves DEF Approval!Open, Published
  <2> QED BY <2>6 DEF ProtocolStep, Approval!Next
<1>3. CASE UNCHANGED <<born, approved, shown>>
  BY <1>1, <1>3, HiddenStep DEF ProtocolStep
<1>4. \/ UNCHANGED <<born, approved, shown>>
      \/ \E c \in Conns, t \in Threads, w \in Workloads, url \in BOOLEAN :
            Remediate(c, t, w, url)
  BY DEF Next, Request, World, Resume, Pop, Refuse, KeepaliveTimeout, CutStream,
         Release, Disconnect, Free, Restart, SettlePr, Tick, nodeVars,
         inputVars, decideVars
<1> QED BY <1>2, <1>3, <1>4

\* For any number of connections and threads, whatever is retried, lost, cut,
\* expired, cancelled or restarted: each thread goes from its draft to one
\* offer, one answer and at most one publication, and publishes its offer.
THEOREM PipelineImplementsApproval == Spec => ImplementsApproval
<1>1. Init => Approval!Init
  <2> SUFFICES ASSUME Init PROVE Approval!Init
    OBVIOUS
  <2>1. Len(PriorPRs) \in Nat
    BY ConstantsAssumption
  <2>2. \A n \in 1 .. Len(prs) : prs[n].files = {}
    BY <2>1 DEF Init, PriorPr
  <2>3. Published = {}
    BY <2>2 DEF Published
  <2>4. \A t \in Threads : PhaseOf(t) = "unborn"
    BY DEF Init, PhaseOf
  <2> QED BY <2>3, <2>4 DEF Init, Approval!Init, Published
<1>2. (Inv /\ BranchInv) /\ [Next]_vars => [Approval!Next]_(Approval!apVars)
  <2> SUFFICES ASSUME Inv, BranchInv, [Next]_vars PROVE ProtocolStep
    BY DEF ProtocolStep
  <2>1. CASE UNCHANGED vars
    <3>1. UNCHANGED <<born, approved, shown, prs>>
      BY <2>1 DEF vars, nodeVars, inputVars, decideVars, gitVars
    <3> QED BY <3>1, HiddenStep DEF SamePrs, ProtocolStep
  <2> QED BY <2>1, StepImplements, RestImplements
<1> QED BY <1>1, <1>2, BranchesAreOwn, PTL
           DEF Spec, ImplementsApproval, Approval!Spec
-------------------------------------------------------------------------------
(* What titlis-api is told about pull requests.                             *)

\* GitHub never forgets a pull request, nor where it came from, and a closed
\* one stays closed.
PrsGrow ==
    /\ \A n \in 1 .. Len(prs) :
          /\ n \in 1 .. Len(prs') /\ prs'[n].head = prs[n].head
          /\ prs[n].state = "closed" => prs'[n].state = "closed"

LEMMA PrsOnlyGrow ==
    ASSUME Inv, [Next]_vars
    PROVE  PrsGrow
<1>types. prs \in Seq(PRs)
  BY DEF Inv, TypeOK, GitTypeOK
<1>1. CASE prs' = prs
  BY <1>1 DEF PrsGrow
<1>2. ASSUME NEW c \in Conns, NEW t \in Threads, CreatePullRequest(c, t)
      PROVE  PrsGrow
  <2>1. prs' = prs \/ prs' = Append(prs, NewPr(t))
    BY <1>2 DEF CreatePullRequest
  <2> QED BY <1>types, <2>1 DEF PrsGrow
<1>3. ASSUME NEW n \in 1 .. Len(prs), NEW how \in {"closed", "merged"},
             SettlePr(n, how)
      PROVE  PrsGrow
  <2>1. prs[n].state = "open" /\ prs' = [prs EXCEPT ![n].state = how]
    BY <1>3 DEF SettlePr
  <2>2. /\ SamePrs
        /\ \A m \in 1 .. Len(prs) :
              prs'[m].state = IF m = n THEN how ELSE prs[m].state
    BY <1>types, <2>1, SettledPr
  <2> QED BY <2>1, <2>2 DEF SamePrs, PrsGrow
<1>4. ASSUME NEW c \in Conns, NEW t \in Threads, Step(c, t),
             ~CreatePullRequest(c, t)
      PROVE  prs' = prs
  BY <1>4, StepAwayFromGit DEF CreateBranch, PushFiles, gitVars
<1>5. CASE UNCHANGED vars
  BY <1>1, <1>5 DEF vars, nodeVars, gitVars
<1>6. CASE Next /\ ~ \E c \in Conns, t \in Threads : Step(c, t)
  <2>1. \/ prs' = prs
        \/ \E n \in 1 .. Len(prs), how \in {"closed", "merged"} :
              SettlePr(n, how)
    BY <1>6
       DEF Next, Request, World, Remediate, Resume, Refuse, KeepaliveTimeout,
           Release, Disconnect, Free, Restart, Tick, nodeVars, gitVars
  <2> QED BY <1>1, <1>3, <2>1
<1> QED BY <1>1, <1>2, <1>4, <1>5, <1>6

\* n is the number of a pull request of workload w.
IsPrOf(n, w) == n \in 1 .. Len(prs) /\ prs[n].head.name.wl = w

RecordInv ==
    \* The number that is about to be registered is that of the thread's PR.
    /\ \A c \in Conns, t \in Threads :
          target[c] = t /\ pc[c] = "notify" => IsPrOf(result[t], workload[t])
    /\ RecordNamesOwnPr
    /\ \A w \in Workloads : record[w].status # "none" => record[w].pr # 0

\* Whoever keeps the record, the results and the threads keeps the invariant.
LEMMA RecordsKept ==
    ASSUME RecordInv, PrsGrow, record' = record,
           born \subseteq born',
           \A t \in born : workload'[t] = workload[t],
           \A c \in Conns, t \in Threads : (target[c] = t /\ pc[c] = "notify")'
               => \/ IsPrOf(result[t], workload[t])'
                  \/ /\ target[c] = t /\ pc[c] = "notify"
                     /\ result'[t] = result[t] /\ workload'[t] = workload[t]
    PROVE  RecordInv'
<1>1. \A n, w : IsPrOf(n, w) => IsPrOf(n, w)'
  BY DEF PrsGrow, IsPrOf
<1>2. \A c \in Conns, t \in Threads : (target[c] = t /\ pc[c] = "notify")'
          => IsPrOf(result[t], workload[t])'
  BY <1>1 DEF RecordInv
<1>3. RecordNamesOwnPr'
  BY DEF RecordInv, RecordNamesOwnPr, PrsGrow
<1>4. \A w \in Workloads : record'[w].status # "none" => record'[w].pr # 0
  BY DEF RecordInv
<1> QED BY <1>2, <1>3, <1>4 DEF RecordInv

\* Only NotifyApi stands at notify after its step, but for the PR just made.
LEMMA StepToNotify ==
    ASSUME Inv, NEW c \in Conns, NEW u \in Threads, Step(c, u),
           ~CreatePullRequest(c, u), ~NotifyApi(c, u)
    PROVE  pc'[c] # "notify"
<1>types. pc \in [Conns -> Points]
  BY DEF Inv, TypeOK, ConnTypeOK
<1> USE <1>types DEF At, Goto, GotoTelling, Raise, EndCheck
<1>1. CASE \/ ClassifyFindings(c, u) \/ ResolveFromServiceYaml(c, u)
           \/ ResolveFromResume(c, u) \/ FetchContext(c, u)
  BY <1>1
     DEF ClassifyFindings, ResolveFromServiceYaml, ResolveFromResume,
         FetchContext
<1>2. CASE AskServiceYaml(c, u) \/ AwaitUserConfirmation(c, u)
  BY <1>2 DEF AskServiceYaml, AwaitUserConfirmation, Interrupt
<1>3. CASE \/ FindExistingPr(c, u) \/ NoExistingPr(c, u)
           \/ GetCurrentRemediation(c, u) \/ GetPullRequest(c, u)
           \/ CheckFails(c, u) \/ AnalyzeFindings(c, u)
  BY <1>3
     DEF FindExistingPr, NoExistingPr, GetCurrentRemediation, GetPullRequest,
         CheckFails, AnalyzeFindings
<1>4. CASE NotifyPrClosed(c, u)
  BY <1>4 DEF NotifyPrClosed, PostAttempt
<1>5. CASE GenerateYamlPatch(c, u) \/ ValidatePatch(c, u)
  BY <1>5 DEF GenerateYamlPatch, ValidatePatch, RouteAfterValidate
<1>6. CASE TakeDecision(c, u)
  BY <1>6 DEF TakeDecision, RouteAfterConfirmation
<1>7. CASE BeginPr(c, u) \/ CreateBranch(c, u) \/ PushFiles(c, u)
  BY <1>7 DEF BeginPr, CreateBranch, PushFiles, Strict
<1>8. CASE RefuseNonBoolean(c, u) \/ Finish(c, u) \/ NodeRaises(c, u)
  BY <1>8 DEF RefuseNonBoolean, Finish, NodeRaises
<1> QED BY <1>1, <1>2, <1>3, <1>4, <1>5, <1>6, <1>7, <1>8 DEF Step

\* Only the two POSTs change a record.
LEMMA StepToRecord ==
    ASSUME NEW c \in Conns, NEW u \in Threads, Step(c, u),
           ~NotifyPrClosed(c, u), ~NotifyApi(c, u)
    PROVE  record' = record /\ overtaken' = overtaken
BY DEF Step, ClassifyFindings, ResolveFromServiceYaml, AskServiceYaml,
       ResolveFromResume, FetchContext, FindExistingPr, NoExistingPr,
       GetCurrentRemediation, GetPullRequest, CheckFails, AnalyzeFindings,
       GenerateYamlPatch, ValidatePatch, AwaitUserConfirmation, TakeDecision,
       RefuseNonBoolean, BeginPr, CreateBranch, PushFiles, CreatePullRequest,
       Finish, NodeRaises, nodeVars, restVars

LEMMA StepKeepsRecords ==
    ASSUME Inv, RecordInv, PrsGrow, NEW c \in Conns, NEW u \in Threads,
           Step(c, u)
    PROVE  RecordInv'
<1>types. /\ pc \in [Conns -> Points] /\ prs \in Seq(PRs)
          /\ result \in [Threads -> Nat]
          /\ workload \in [Threads -> Workloads] /\ born \subseteq Threads
          /\ record \in [Workloads -> [pr : Nat,
                             status : {"none", "PR_OPEN", "PR_CLOSED"}]]
  BY DEF Inv, TypeOK, ConnTypeOK, GitTypeOK, PrTypeOK, InputTypeOK, RestTypeOK
<1>frame. /\ born' = born /\ workload' = workload /\ target' = target
          /\ \A t \in Threads \ {u} : result'[t] = result[t]
          /\ \A d \in Conns \ {c} : pc'[d] = pc[d]
  BY StepFrame DEF Frame, Own
\* The connections that stand at notify, c apart, keep their result.
<1>others. ASSUME NEW d \in Conns \ {c}, NEW t \in Threads, target[d] = t,
                  pc[d] = "notify"
           PROVE  result'[t] = result[t]
  <2>1. CASE pc[c] = "closing"
    BY <2>1, StepFrame DEF Frame, nodeVars, prVars
  <2>2. CASE pc[c] # "closing"
    BY <1>frame, <1>others, <2>2, StepFrame
       DEF Frame, Inv, SingleExecution, Executing, Running
  <2> QED BY <2>1, <2>2
<1>1. CASE NotifyApi(c, u)
  <2>1. /\ UNCHANGED result /\ pc[c] = "notify" /\ target[c] = u
        /\ \/ record' = record
           \/ record' = [record EXCEPT ![workload[u]] =
                            [pr |-> result[u], status |-> "PR_OPEN"]]
    BY <1>1 DEF NotifyApi, At, planVars, prVars
  <2>2. IsPrOf(result[u], workload[u]) /\ result[u] # 0
    BY <2>1 DEF RecordInv, IsPrOf
  <2>3. \A n, w : IsPrOf(n, w) => IsPrOf(n, w)'
    BY DEF PrsGrow, IsPrOf
  <2>4. ASSUME NEW w \in Workloads
        PROVE  \/ record'[w] = record[w]
               \/ w = workload[u] /\ record'[w].pr = result[u]
    BY <1>types, <2>1
  <2>5. ASSUME NEW w \in Workloads, record'[w].pr # 0
        PROVE  IsPrOf(record[w].pr, w)'
    <3>1. CASE record'[w] = record[w]
      <4>1. IsPrOf(record[w].pr, w)
        BY <2>5, <3>1 DEF RecordInv, RecordNamesOwnPr, IsPrOf
      <4> QED BY <2>3, <3>1, <4>1
    <3>2. CASE w = workload[u] /\ record'[w].pr = result[u]
      BY <2>2, <2>3, <3>2
    <3> QED BY <2>4, <3>1, <3>2
  <2>6. \A w \in Workloads : record'[w].status # "none" => record'[w].pr # 0
    BY <2>2, <2>4 DEF RecordInv
  <2>7. \A d \in Conns, t \in Threads : (target[d] = t /\ pc[d] = "notify")'
            => IsPrOf(result[t], workload[t])'
    BY <1>frame, <2>1, <2>3 DEF RecordInv
  <2> QED BY <2>5, <2>6, <2>7 DEF RecordInv, RecordNamesOwnPr, IsPrOf
<1>2. CASE NotifyPrClosed(c, u)
  <2>1. /\ UNCHANGED result /\ pc'[c] # "notify"
        /\ \/ record' = record
           \/ /\ record[workload[u]].status = "PR_OPEN"
              /\ record' = [record EXCEPT ![workload[u]].status = "PR_CLOSED"]
    BY <1>2, <1>types DEF NotifyPrClosed, PostAttempt, At, planVars, prVars
  <2>2. ASSUME NEW w \in Workloads
        PROVE  /\ record'[w].pr = record[w].pr
               /\ record[w].status = "none" => record'[w].status = "none"
    <3>1. record[w] \in [pr : Nat, status : {"none", "PR_OPEN", "PR_CLOSED"}]
      BY <1>types
    <3>2. \/ record'[w] = record[w]
          \/ /\ record'[w] = [record[w] EXCEPT !.status = "PR_CLOSED"]
             /\ record[w].status = "PR_OPEN"
      BY <1>types, <2>1
    <3> QED BY <3>1, <3>2
  <2>3. \A n, w : IsPrOf(n, w) => IsPrOf(n, w)'
    BY DEF PrsGrow, IsPrOf
  <2>4. RecordNamesOwnPr'
    BY <2>2, <2>3 DEF RecordInv, RecordNamesOwnPr, IsPrOf
  <2>5. \A w \in Workloads : record'[w].status # "none" => record'[w].pr # 0
    BY <2>2 DEF RecordInv
  <2>6. \A d \in Conns, t \in Threads : (target[d] = t /\ pc[d] = "notify")'
            => IsPrOf(result[t], workload[t])'
    BY <1>frame, <2>1, <2>3 DEF RecordInv
  <2> QED BY <2>4, <2>5, <2>6 DEF RecordInv
<1>3. CASE CreatePullRequest(c, u)
  <2>1. /\ UNCHANGED record /\ target[c] = u
        /\ \/ /\ result' = [result EXCEPT ![u] = Len(prs) + 1]
              /\ prs' = Append(prs, NewPr(u))
           \/ pc'[c] = "closed"
    BY <1>3, <1>types
       DEF CreatePullRequest, NoUrl, Raise, CutStream, GotoTelling, At,
           planVars, restVars
  <2>2. pc'[c] = "notify" => IsPrOf(result[u], workload[u])'
    <3> SUFFICES ASSUME pc'[c] = "notify"
                 PROVE  IsPrOf(result[u], workload[u])'
      OBVIOUS
    <3>1. result'[u] = Len(prs) + 1 /\ prs' = Append(prs, NewPr(u))
      BY <1>types, <2>1
    <3>2. NewPr(u).head.name.wl = workload[u]
      BY DEF NewPr, HeadOf, NameOf
    <3> QED BY <1>types, <1>frame, <3>1, <3>2 DEF IsPrOf
  <2> QED BY <1>frame, <1>others, <2>1, <2>2, RecordsKept
<1>4. CASE /\ ~NotifyApi(c, u) /\ ~NotifyPrClosed(c, u)
           /\ ~CreatePullRequest(c, u)
  <2>1. UNCHANGED record /\ pc'[c] # "notify"
    BY <1>4, StepToNotify, StepToRecord
  <2> QED BY <1>frame, <1>others, <2>1, RecordsKept
<1> QED BY <1>1, <1>2, <1>3, <1>4

LEMMA RestKeepsRecords ==
    ASSUME Inv, RecordInv, PrsGrow, Next,
           ~ \E c \in Conns, t \in Threads : Step(c, t)
    PROVE  RecordInv'
<1>1. /\ UNCHANGED <<record, overtaken>> /\ born \subseteq born'
      /\ \A t \in born : UNCHANGED Kin(t)
      /\ \A d \in Conns : Displaced(d)
  BY RestFrame
<1>2. ASSUME NEW d \in Conns, NEW t \in Threads,
             (target[d] = t /\ pc[d] = "notify")'
      PROVE  /\ target[d] = t /\ pc[d] = "notify"
             /\ result'[t] = result[t] /\ workload'[t] = workload[t]
  <2>1. target[d] = t /\ pc[d] = "notify"
    BY <1>1, <1>2 DEF Displaced
  <2>2. t \in born
    BY <2>1, Inside DEF PointInv
  <2> QED BY <1>1, <2>1, <2>2 DEF Kin
<1>3. \A t \in born : workload'[t] = workload[t]
  BY <1>1 DEF Kin
<1> QED BY <1>1, <1>2, <1>3, RecordsKept

LEMMA InitRecords == Init => RecordInv
<1> SUFFICES ASSUME Init PROVE RecordInv
  OBVIOUS
<1>1. Len(PriorPRs) \in Nat /\ Len(prs) = Len(PriorPRs)
  BY ConstantsAssumption DEF Init
<1>2. ASSUME NEW w \in Workloads
      PROVE  /\ record[w].pr # 0 => IsPrOf(record[w].pr, w)
             /\ record[w].status # "none" => record[w].pr # 0
  <2>1. record[w] = PriorRecord(w)
    BY DEF Init
  <2>2. CASE \E n \in 1 .. Len(PriorPRs) : PriorPRs[n] = w
    <3>1. PICK n \in 1 .. Len(PriorPRs) : PriorPRs[n] = w /\ record[w].pr = n
      BY <2>1, <2>2 DEF PriorRecord
    <3>2. prs[n] = PriorPr(w)
      BY <1>1, <3>1 DEF Init
    <3>3. IsPrOf(n, w)
      BY <1>1, <3>2 DEF IsPrOf, PriorPr
    <3> QED BY <1>1, <3>1, <3>3
  <2>3. CASE ~ \E n \in 1 .. Len(PriorPRs) : PriorPRs[n] = w
    BY <2>1, <2>3 DEF PriorRecord
  <2> QED BY <2>2, <2>3
<1>3. \A c \in Conns : pc[c] # "notify"
  BY DEF Init
<1> QED BY <1>2, <1>3 DEF RecordInv, RecordNamesOwnPr, IsPrOf

LEMMA RecordInvariance == Spec => [](Inv /\ RecordInv)
<1>1. Init => Inv /\ RecordInv
  BY InitInv, InitRecords
<1>2. Inv /\ RecordInv /\ [Next]_vars => (Inv /\ RecordInv)'
  <2> SUFFICES ASSUME Inv, RecordInv, [Next]_vars PROVE (Inv /\ RecordInv)'
    OBVIOUS
  <2>1. Inv' /\ PrsGrow
    BY NextInv, PrsOnlyGrow
  <2>2. CASE \E c \in Conns, t \in Threads : Step(c, t)
    BY <2>1, <2>2, StepKeepsRecords
  <2>3. CASE Next /\ ~ \E c \in Conns, t \in Threads : Step(c, t)
    BY <2>1, <2>3, RestKeepsRecords
  <2>4. CASE UNCHANGED vars
    <3>1. UNCHANGED <<record, born, workload, target, pc, result>>
      BY <2>4
         DEF vars, nodeVars, connVars, inputVars, planVars, prVars, restVars
    <3> QED BY <2>1, <3>1, RecordsKept
  <2> QED BY <2>2, <2>3, <2>4
<1> QED BY <1>1, <1>2, PTL DEF Spec

\* titlis-api never holds a pull request number that GitHub does not have, nor
\* that of another workload, however many attempts a POST took.
THEOREM RecordsNameOwnPrs == Spec => []RecordNamesOwnPr
<1>1. RecordInv => RecordNamesOwnPr
  BY DEF RecordInv
<1> QED BY <1>1, RecordInvariance, PTL

-------------------------------------------------------------------------------
(* A record is closed after its PR, unless the PR overtook the close.       *)

\* A connection that checks a PR checks the one that is registered, or that
\* one came in between; and it tells titlis-api of a PR that is closed.
CheckInv ==
    \A c \in Conns, t \in Threads : target[c] = t =>
        /\ pc[c] \in {"get_pr", "close_pr"} =>
              \/ seen[c] = record[workload[t]].pr
              \/ record[workload[t]].pr \in overtaken
        /\ pc[c] = "close_pr" => ClosedUnmerged(seen[c])

CloseInv ==
    /\ CheckInv
    /\ \A w \in Workloads : record[w].status = "PR_CLOSED" =>
          ClosedUnmerged(record[w].pr) \/ record[w].pr \in overtaken

LEMMA ClosedStays ==
    ASSUME PrsGrow, NEW n, ClosedUnmerged(n)
    PROVE  ClosedUnmerged(n)'
BY DEF PrsGrow, ClosedUnmerged

\* Only GetCurrentRemediation and GetPullRequest start a check.
LEMMA StepToCheck ==
    ASSUME Inv, NEW c \in Conns, NEW u \in Threads, Step(c, u),
           ~GetCurrentRemediation(c, u), ~GetPullRequest(c, u),
           ~NotifyPrClosed(c, u)
    PROVE  pc'[c] \notin {"get_pr", "close_pr"}
<1>types. pc \in [Conns -> Points]
  BY DEF Inv, TypeOK, ConnTypeOK
<1> USE <1>types DEF At, Goto, GotoTelling, Raise, CutStream, EndCheck
<1>1. CASE \/ ClassifyFindings(c, u) \/ ResolveFromServiceYaml(c, u)
           \/ ResolveFromResume(c, u) \/ FetchContext(c, u)
  BY <1>1
     DEF ClassifyFindings, ResolveFromServiceYaml, ResolveFromResume,
         FetchContext
<1>2. CASE AskServiceYaml(c, u) \/ AwaitUserConfirmation(c, u)
  BY <1>2 DEF AskServiceYaml, AwaitUserConfirmation, Interrupt
<1>3. CASE \/ FindExistingPr(c, u) \/ NoExistingPr(c, u)
           \/ CheckFails(c, u) \/ AnalyzeFindings(c, u)
  BY <1>3 DEF FindExistingPr, NoExistingPr, CheckFails, AnalyzeFindings
<1>4. CASE NotifyApi(c, u)
  BY <1>4 DEF NotifyApi, PostAttempt
<1>5. CASE GenerateYamlPatch(c, u) \/ ValidatePatch(c, u)
  BY <1>5 DEF GenerateYamlPatch, ValidatePatch, RouteAfterValidate
<1>6. CASE TakeDecision(c, u)
  BY <1>6 DEF TakeDecision, RouteAfterConfirmation
<1>7. CASE BeginPr(c, u) \/ CreateBranch(c, u) \/ PushFiles(c, u)
  BY <1>7 DEF BeginPr, CreateBranch, PushFiles, Strict
<1>8. CASE RefuseNonBoolean(c, u) \/ Finish(c, u) \/ NodeRaises(c, u)
  BY <1>8 DEF RefuseNonBoolean, Finish, NodeRaises
<1>9. CASE CreatePullRequest(c, u)
  BY <1>9 DEF CreatePullRequest, NoUrl
<1> QED
  BY <1>1, <1>2, <1>3, <1>4, <1>5, <1>6, <1>7, <1>8, <1>9 DEF Step

LEMMA StepKeepsClosed ==
    ASSUME Inv, CloseInv, PrsGrow, NEW c \in Conns, NEW u \in Threads,
           Step(c, u)
    PROVE  CloseInv'
<1>types. /\ pc \in [Conns -> Points] /\ seen \in [Conns -> Nat]
          /\ workload \in [Threads -> Workloads]
          /\ record \in [Workloads -> [pr : Nat,
                             status : {"none", "PR_OPEN", "PR_CLOSED"}]]
  BY DEF Inv, TypeOK, ConnTypeOK, InputTypeOK, RestTypeOK
<1>frame. /\ workload' = workload /\ target' = target /\ target[c] = u
          /\ \A d \in Conns \ {c} : pc'[d] = pc[d] /\ seen'[d] = seen[d]
  BY StepFrame DEF Frame
<1>closed. \A n : ClosedUnmerged(n) => ClosedUnmerged(n)'
  BY ClosedStays
\* The checks of the other connections survive what does not touch records.
<1>others. ASSUME record' = record, overtaken' = overtaken,
                  pc'[c] \in {"get_pr", "close_pr"} =>
                      /\ \/ seen'[c] = record[workload[u]].pr
                         \/ record[workload[u]].pr \in overtaken
                      /\ pc'[c] = "close_pr" => ClosedUnmerged(seen'[c])
           PROVE  CloseInv'
  <2>1. ASSUME NEW d \in Conns, NEW t \in Threads, target[d] = t
        PROVE  /\ pc'[d] \in {"get_pr", "close_pr"} =>
                      \/ seen'[d] = record[workload[t]].pr
                      \/ record[workload[t]].pr \in overtaken
               /\ pc'[d] = "close_pr" => ClosedUnmerged(seen'[d])
    <3>1. CASE d = c
      BY <1>frame, <1>others, <2>1, <3>1
    <3>2. CASE d # c
      <4>1. pc'[d] = pc[d] /\ seen'[d] = seen[d]
        BY <1>frame, <3>2
      <4> QED BY <2>1, <4>1 DEF CloseInv, CheckInv
    <3> QED BY <3>1, <3>2
  <2>2. \A d \in Conns : ClosedUnmerged(seen'[d]) => ClosedUnmerged(seen[d])'
    BY DEF PrsGrow, ClosedUnmerged
  <2>3. CheckInv'
    BY <1>frame, <1>others, <2>1, <2>2 DEF CheckInv
  <2> QED BY <1>closed, <1>others, <2>3 DEF CloseInv
<1>1. CASE GetCurrentRemediation(c, u)
  <2>1. /\ UNCHANGED <<record, overtaken>> /\ pc'[c] \in {"get_pr", "analyze"}
        /\ pc'[c] = "get_pr" => seen'[c] = record[workload[u]].pr
    BY <1>1, <1>types DEF GetCurrentRemediation, nodeVars, restVars
  <2> QED BY <1>others, <2>1
<1>2. CASE GetPullRequest(c, u)
  <2>1. /\ UNCHANGED <<record, overtaken>> /\ pc[c] = "get_pr"
        /\ pc'[c] \in {"close_pr", "analyze"}
        /\ pc'[c] = "close_pr" =>
              seen'[c] = seen[c] /\ ClosedUnmerged(seen[c])
    BY <1>2, <1>types
       DEF GetPullRequest, EndCheck, At, Goto, nodeVars, restVars
  <2>2. \/ seen[c] = record[workload[u]].pr
        \/ record[workload[u]].pr \in overtaken
    BY <1>frame, <2>1 DEF CloseInv, CheckInv
  <2> QED BY <1>others, <2>1, <2>2
<1>3. CASE NotifyPrClosed(c, u)
  <2>1. /\ overtaken' = overtaken /\ pc[c] = "close_pr"
        /\ pc'[c] \in {"close_pr", "analyze"}
        /\ pc'[c] = "close_pr" => seen'[c] = seen[c]
        /\ \/ record' = record
           \/ record' = [record EXCEPT ![workload[u]].status = "PR_CLOSED"]
    BY <1>3, <1>types DEF NotifyPrClosed, PostAttempt, At
  <2>2. /\ \/ seen[c] = record[workload[u]].pr
           \/ record[workload[u]].pr \in overtaken
        /\ ClosedUnmerged(seen[c])
    BY <1>frame, <2>1 DEF CloseInv, CheckInv
  <2>3. ASSUME NEW w \in Workloads
        PROVE  /\ record'[w].pr = record[w].pr
               /\ record'[w] = record[w] \/ w = workload[u]
    <3>1. record[w] \in [pr : Nat, status : {"none", "PR_OPEN", "PR_CLOSED"}]
      BY <1>types
    <3>2. \/ record'[w] = record[w]
          \/ /\ record'[w] = [record[w] EXCEPT !.status = "PR_CLOSED"]
             /\ w = workload[u]
      BY <1>types, <2>1
    <3> QED BY <3>1, <3>2
  <2>4. ASSUME NEW d \in Conns, NEW t \in Threads, target[d] = t,
               pc'[d] \in {"get_pr", "close_pr"}
        PROVE  /\ pc[d] = pc'[d] /\ seen'[d] = seen[d]
               /\ record'[workload[t]].pr = record[workload[t]].pr
    BY <1>types, <1>frame, <2>1, <2>3, <2>4
  <2>5. CheckInv'
    BY <1>frame, <1>closed, <2>1, <2>4 DEF CloseInv, CheckInv
  <2>6. ASSUME NEW w \in Workloads, record'[w].status = "PR_CLOSED"
        PROVE  ClosedUnmerged(record[w].pr) \/ record[w].pr \in overtaken
    BY <2>2, <2>3, <2>6 DEF CloseInv
  <2>7. \A w \in Workloads : ClosedUnmerged(record[w].pr)
                               => ClosedUnmerged(record[w].pr)'
    <3> SUFFICES ASSUME NEW w \in Workloads, ClosedUnmerged(record[w].pr)
                 PROVE  ClosedUnmerged(record[w].pr)'
      OBVIOUS
    <3> QED BY <2>3 DEF PrsGrow, ClosedUnmerged
  <2> QED BY <2>1, <2>3, <2>5, <2>6, <2>7 DEF CloseInv
<1>4. CASE NotifyApi(c, u)
  <2>1. /\ pc'[c] \notin {"get_pr", "close_pr"} /\ pc[c] = "notify"
        /\ \/ record' = record /\ overtaken' = overtaken
           \/ /\ record' = [record EXCEPT ![workload[u]] =
                               [pr |-> result[u], status |-> "PR_OPEN"]]
              /\ overtaken' = IF CheckUnderWay(c, u)
                              THEN overtaken \cup {result[u]} ELSE overtaken
    BY <1>4, StepToCheck
       DEF NotifyApi, GetCurrentRemediation, GetPullRequest, NotifyPrClosed, At
  <2>2. CASE record' = record /\ overtaken' = overtaken
    BY <1>others, <2>1, <2>2
  <2>3. CASE /\ record' = [record EXCEPT ![workload[u]] =
                              [pr |-> result[u], status |-> "PR_OPEN"]]
             /\ overtaken' = IF CheckUnderWay(c, u)
                             THEN overtaken \cup {result[u]} ELSE overtaken
    <3>1. \A w \in Workloads :
              \/ record'[w] = record[w]
              \/ /\ w = workload[u] /\ record'[w].pr = result[u]
                 /\ record'[w].status = "PR_OPEN"
      BY <1>types, <2>3
    <3>2. overtaken \subseteq overtaken'
      BY <2>3
    \* Whoever checks this workload now makes the new PR an overtaking one.
    <3>3. ASSUME NEW d \in Conns, NEW t \in Threads, target[d] = t,
                 pc'[d] \in {"get_pr", "close_pr"}
          PROVE  \/ seen'[d] = record'[workload[t]].pr
                 \/ record'[workload[t]].pr \in overtaken'
      <4>1. d # c /\ pc[d] = pc'[d] /\ seen'[d] = seen[d]
        BY <1>frame, <2>1, <3>3
      <4>2. \/ seen[d] = record[workload[t]].pr
            \/ record[workload[t]].pr \in overtaken
        BY <3>3, <4>1 DEF CloseInv, CheckInv
      <4>3. CASE workload[t] = workload[u]
        <5>1. CheckUnderWay(c, u)
          BY <3>3, <4>1, <4>3 DEF CheckUnderWay
        <5>2. record'[workload[t]].pr = result[u]
          BY <1>types, <2>3, <4>3
        <5> QED BY <2>3, <5>1, <5>2
      <4>4. CASE workload[t] # workload[u]
        <5>1. record'[workload[t]] = record[workload[t]]
          BY <1>types, <2>3, <4>4
        <5> QED BY <3>2, <4>1, <4>2, <5>1
      <4> QED BY <4>3, <4>4
    <3>4. ASSUME NEW d \in Conns, pc'[d] = "close_pr", target[d] \in Threads
          PROVE  ClosedUnmerged(seen[d])'
      <4>1. pc[d] = "close_pr" /\ seen'[d] = seen[d]
        BY <1>frame, <2>1, <3>4
      <4>2. ClosedUnmerged(seen[d])
        BY <3>4, <4>1 DEF CloseInv, CheckInv
      <4> QED BY <4>1, <4>2 DEF PrsGrow, ClosedUnmerged
    <3>5. CheckInv'
      BY <1>frame, <3>3, <3>4 DEF CheckInv
    <3>6. ASSUME NEW w \in Workloads, record'[w].status = "PR_CLOSED"
          PROVE  (ClosedUnmerged(record[w].pr) \/ record[w].pr \in overtaken)'
      <4>1. record'[w] = record[w]
        BY <3>1, <3>6
      <4>2. ClosedUnmerged(record[w].pr) \/ record[w].pr \in overtaken
        BY <3>6, <4>1 DEF CloseInv
      <4> QED BY <3>2, <4>1, <4>2 DEF PrsGrow, ClosedUnmerged
    <3> QED BY <3>5, <3>6 DEF CloseInv
  <2> QED BY <2>1, <2>2, <2>3
<1>5. CASE /\ ~GetCurrentRemediation(c, u) /\ ~GetPullRequest(c, u)
           /\ ~NotifyPrClosed(c, u) /\ ~NotifyApi(c, u)
  <2>1. /\ pc'[c] \notin {"get_pr", "close_pr"}
        /\ record' = record /\ overtaken' = overtaken
    BY <1>5, StepToCheck, StepToRecord
  <2> QED BY <1>others, <2>1
<1> QED BY <1>1, <1>2, <1>3, <1>4, <1>5

\* However many connections there are, titlis-api holds a record as closed only
\* when people closed its pull request, unless that pull request was registered
\* between another run's reading of the record and its close-pr.
THEOREM ClosedIsClosed == Spec => []ClosedUnlessOvertaken
<1>1. Init => CloseInv
  <2> SUFFICES ASSUME Init PROVE CloseInv
    OBVIOUS
  <2>1. \A w \in Workloads : record[w].status # "PR_CLOSED"
    BY DEF Init, PriorRecord
  <2> QED BY <2>1 DEF Init, CloseInv, CheckInv
<1>2. Inv /\ CloseInv /\ [Next]_vars => CloseInv'
  <2> SUFFICES ASSUME Inv, CloseInv, [Next]_vars PROVE CloseInv'
    OBVIOUS
  <2>1. PrsGrow
    BY PrsOnlyGrow
  <2>closed. \A n : ClosedUnmerged(n) => ClosedUnmerged(n)'
    BY <2>1, ClosedStays
  <2>2. CASE \E c \in Conns, t \in Threads : Step(c, t)
    BY <2>1, <2>2, StepKeepsClosed
  <2>3. CASE Next /\ ~ \E c \in Conns, t \in Threads : Step(c, t)
    <3>1. /\ UNCHANGED <<record, overtaken>>
          /\ \A t \in born : UNCHANGED Kin(t)
          /\ \A d \in Conns : Displaced(d)
      BY <2>3, RestFrame
    <3>2. ASSUME NEW d \in Conns, NEW t \in Threads, target'[d] = t,
                 pc'[d] \in {"get_pr", "close_pr"}
          PROVE  /\ target[d] = t /\ pc'[d] = pc[d] /\ seen'[d] = seen[d]
                 /\ workload'[t] = workload[t]
      <4>1. target[d] = t /\ pc'[d] = pc[d] /\ seen'[d] = seen[d]
        BY <3>1, <3>2 DEF Displaced
      <4>2. t \in born
        BY <3>2, <4>1, Inside DEF PointInv
      <4> QED BY <3>1, <4>1, <4>2 DEF Kin
    <3> QED BY <2>closed, <3>1, <3>2 DEF CloseInv, CheckInv
  <2>4. CASE UNCHANGED vars
    <3>1. UNCHANGED <<record, overtaken, workload, target, pc, seen>>
      BY <2>4 DEF vars, nodeVars, connVars, inputVars, restVars
    <3> QED BY <2>closed, <3>1 DEF CloseInv, CheckInv
  <2> QED BY <2>2, <2>3, <2>4
<1>3. CloseInv => ClosedUnlessOvertaken
  BY DEF CloseInv, ClosedUnmerged, ClosedUnlessOvertaken
<1> QED BY <1>1, <1>2, <1>3, Invariance, PTL DEF Spec
===============================================================================
