----------------------- MODULE RemediationStreams_proofs -----------------------
(***************************************************************************)
(* Proofs about what the streams of Remediation tell their clients.        *)
(*                                                                         *)
(* A stream is excused from saying why it ends when its thread was not     *)
(* approved; that stays true because the thread is dead by then: nobody    *)
(* runs it and no entry of _thread_interrupt_times lets anybody resume it. *)
(***************************************************************************)
EXTENDS RemediationPublishing_proofs

Dead(t) == /\ t \in born /\ interruptAt[t] = Never
           /\ \A d \in Conns : ~Executing(d, t)

\* The stream named its reason.
Told(c) == events[c] \cap {"service_yaml_required", "fix_ready",
                           "existing_pr", "pr_created", "error"} # {}

GaveUp(t) == invalid[t] /\ retry[t] >= MaxRetries

\* The client of a confirm knows that it did not approve; that validation
\* gave up is reported with the last events.
Excused(c) ==
    \E t \in Threads :
        /\ target[c] = t /\ Dead(t)
        /\ \/ op[c] \in Confirms /\ approved[t] # "yes"
           \/ pc[c] = "closing" /\ op[c] \notin Confirms /\ GaveUp(t)

Ending(c) == pc[c] = "closing" \/ (pc[c] = "closed" /\ "done" \in events[c])

StreamInv(c) ==
    /\ pc[c] # "closed" => "done" \notin events[c]
    /\ pc[c] = "notify" => "pr_created" \in events[c]
    /\ Ending(c) => Told(c) \/ Excused(c)

\* What Excused says of a thread does not change.
Rests(t) == /\ Dead(t)' /\ approved'[t] = approved[t]
            /\ invalid'[t] = invalid[t] /\ retry'[t] = retry[t]

\* Nothing revives a dead thread, and nothing changes it.
LEMMA DeadStays ==
    ASSUME Inv, [Next]_vars, NEW t \in Threads, Dead(t)
    PROVE  Rests(t)
<1>types. /\ pc \in [Conns -> Points]
          /\ target \in [Conns -> Threads \cup {NoThread}]
          /\ interruptAt \in [Threads -> Time \cup {Never}]
          /\ NoThread \notin Threads
  BY ConstantsAssumption DEF Inv, TypeOK, ConnTypeOK, DecideTypeOK
<1>1. ASSUME NEW c \in Conns, NEW u \in Threads, Step(c, u)
      PROVE  Rests(t)
  <2>1. Frame(c, u)
    BY <1>1, StepFrame
  <2>2. CASE u = t
    <3>1. pc[c] = "closing"
      BY <2>1, <2>2 DEF Frame, Dead, Executing
    <3>2. UNCHANGED nodeVars /\ Finish(c, u)
      BY <1>1, <2>1, <3>1
         DEF Frame, Step, At, ClassifyFindings, ResolveFromServiceYaml,
             AskServiceYaml, ResolveFromResume, FetchContext, FindExistingPr,
             NoExistingPr, GetCurrentRemediation, GetPullRequest,
             NotifyPrClosed, CheckFails, AnalyzeFindings, GenerateYamlPatch,
             ValidatePatch, AwaitUserConfirmation, TakeDecision,
             RefuseNonBoolean, BeginPr, CreateBranch, PushFiles,
             CreatePullRequest, NotifyApi, NodeRaises
    <3>3. pc' = [pc EXCEPT ![c] = "closed"] /\ target' = target
      BY <3>2 DEF Finish, GotoTelling
    <3> QED
      BY <1>types, <3>2, <3>3
         DEF Rests, Dead, Executing, Running, nodeVars, inputVars, patchVars,
             decideVars
  <2>3. CASE u # t
    <3>1. /\ UNCHANGED <<born, target>> /\ target[c] = u
          /\ \A d \in Conns \ {c} : pc'[d] = pc[d]
          /\ UNCHANGED <<interruptAt[t], approved[t], invalid[t], retry[t]>>
      BY <2>1, <2>3 DEF Frame, Own
    <3> QED BY <2>3, <3>1 DEF Rests, Dead, Executing, Running
  <2> QED BY <2>2, <2>3
<1>2. CASE Next /\ ~ \E c \in Conns, u \in Threads : Step(c, u)
  <2>1. /\ born \subseteq born'
        /\ UNCHANGED <<approved[t], invalid[t], retry[t]>>
    BY <1>2, RestFrame DEF Kin, Dead
  <2>2. interruptAt'[t] = Never
    BY <1>2, <1>types
       DEF Next, Request, World, Remediate, Resume, Pop, Refuse,
           KeepaliveTimeout, Release, Disconnect, Free, Restart, SettlePr, Tick,
           nodeVars, decideVars, Dead
  <2>3. ASSUME NEW d \in Conns, Executing(d, t)'
        PROVE  Executing(d, t)
    <3>1. ASSUME NEW c \in Conns, NEW u \in Threads, NEW w \in Workloads,
                 NEW url \in BOOLEAN, Remediate(c, u, w, url)
          PROVE  Executing(d, t)
      BY <1>types, <2>3, <3>1 DEF Remediate, Dead, Executing, Running
    <3>2. ASSUME NEW c \in Conns, NEW u \in Threads, NEW o \in Resumes,
                 Resume(c, u, o)
          PROVE  Executing(d, t)
      BY <1>types, <2>3, <3>2 DEF Resume, Expired, Dead, Executing, Running
    <3>3. ASSUME NEW c \in Conns,
                 KeepaliveTimeout(c) \/ Release(c) \/ Disconnect(c)
          PROVE  Executing(d, t)
      BY <1>types, <2>3, <3>3
         DEF KeepaliveTimeout, CutStream, GotoTelling, Release, Disconnect,
             Free, Executing, Running
    <3>4. CASE World
      BY <1>types, <2>3, <3>4
         DEF World, Refuse, SettlePr, Restart, Tick, connVars, Executing,
             Running
    <3> QED BY <1>2, <3>1, <3>2, <3>3, <3>4 DEF Next, Request
  <2> QED BY <2>1, <2>2, <2>3 DEF Rests, Dead
<1>3. CASE UNCHANGED vars
  BY <1>3 DEF vars, nodeVars, connVars, inputVars, patchVars, decideVars, Rests,
              Dead, Executing, Running
<1> QED BY <1>1, <1>2, <1>3

\* A stream that nothing happens to keeps its excuse.
LEMMA QuietStream ==
    ASSUME Inv, [Next]_vars, NEW c \in Conns, StreamInv(c),
           pc'[c] = pc[c], target'[c] = target[c], op'[c] = op[c],
           events'[c] = events[c]
    PROVE  StreamInv(c)'
<1>1. Excused(c) => Excused(c)'
  BY DeadStays DEF Excused, Rests, GaveUp
<1> QED BY <1>1 DEF StreamInv, Ending, Told

\* A stream that goes on, with what it had told.
LEMMA GoesOn ==
    ASSUME NEW c \in Conns, StreamInv(c), pc[c] # "closed",
           pc'[c] \notin {"closed", "closing", "notify"},
           events'[c] = events[c]
    PROVE  StreamInv(c)'
BY DEF StreamInv, Ending

\* A stream that comes to its last lines having named a reason.
LEMMA EndsTelling ==
    ASSUME NEW c \in Conns, Told(c)',
           pc'[c] = "closed" \/ (pc'[c] = "closing" /\ "done" \notin events'[c])
    PROVE  StreamInv(c)'
BY DEF StreamInv, Ending

\* A connection that leaves a thread without an entry leaves it dead.
LEMMA LeavesDead ==
    ASSUME Inv, NEW c \in Conns, NEW u \in Threads, Executing(c, u),
           Frame(c, u), pc'[c] = "closing", interruptAt'[u] = Never
    PROVE  Dead(u)'
<1>1. u \in born /\ born' = born /\ target' = target
  BY DEF Inv, ControlInv, PointInv, Frame
<1>2. \A d \in Conns : ~Executing(d, u)'
  BY <1>1 DEF Frame, Executing, Running, Inv, SingleExecution
<1> QED BY <1>1, <1>2 DEF Dead
-------------------------------------------------------------------------------
\* An interrupt is announced, or the confirm that met it is told nothing and
\* its thread has no entry.
LEMMA InterruptExplained ==
    ASSUME Inv, NEW c \in Conns, NEW u \in Threads, StreamInv(c),
           Executing(c, u), Frame(c, u), interruptAt[u] = Never,
           Undecided(u), NEW kind, NEW patches,
           NEW event \in {"service_yaml_required", "fix_ready"},
           Interrupt(c, u, kind, event, patches)
    PROVE  StreamInv(c)'
<1>types. /\ pc \in [Conns -> Points] /\ events \in [Conns -> SUBSET EventTypes]
          /\ pc[c] # "closed"
  BY DEF Inv, TypeOK, ConnTypeOK, Executing, Running
<1>1. CASE op[c] \in Confirms
  <2>1. /\ pc'[c] = "closing" /\ events'[c] = events[c] /\ op'[c] = op[c]
        /\ interruptAt'[u] = Never /\ approved'[u] # "yes" /\ target'[c] = u
    BY <1>1, <1>types DEF Interrupt, Goto, Frame, Undecided
  <2>2. Dead(u)'
    BY <2>1, LeavesDead
  <2>3. Excused(c)'
    BY <1>1, <2>1, <2>2 DEF Excused
  <2> QED BY <1>types, <2>1, <2>3 DEF StreamInv
<1>2. CASE op[c] \notin Confirms
  <2>1. pc'[c] = "closing" /\ events'[c] = events[c] \cup {event}
    BY <1>2, <1>types DEF Interrupt, GotoTelling
  <2> QED BY <1>types, <2>1, EndsTelling DEF Told, StreamInv
<1> QED BY <1>1, <1>2

\* Every step of a stream keeps what it owes its client.
LEMMA StepExplains ==
    ASSUME Inv, NEW c \in Conns, NEW u \in Threads, StreamInv(c), Step(c, u)
    PROVE  StreamInv(c)'
<1>types. /\ pc \in [Conns -> Points] /\ events \in [Conns -> SUBSET EventTypes]
          /\ approved \in [Threads -> {"unset", "yes", "no"}]
          /\ invalid \in [Threads -> BOOLEAN]
  BY DEF Inv, TypeOK, ConnTypeOK, DecideTypeOK, PatchTypeOK
<1>frame. Frame(c, u) /\ pc[c] # "closed" /\ "done" \notin events[c]
  BY StepFrame DEF Frame, Running, StreamInv
\* Steps that end with an error.
<1>raise. ASSUME Raise(c)
          PROVE  StreamInv(c)'
  <2>1. pc'[c] = "closed" /\ "error" \in events'[c]
    BY <1>raise, <1>types DEF Raise, GotoTelling
  <2> QED BY <2>1, EndsTelling DEF Told
\* Steps that only go on.
<1>goes. ASSUME NEW p \in Points \ {"closed", "closing", "notify"}, Goto(c, p)
         PROVE  StreamInv(c)'
  BY <1>goes, <1>types, <1>frame, GoesOn DEF Goto
<1>points. /\ {"resolve", "fetch", "list", "current", "close_pr", "analyze",
               "generate", "validate", "confirm", "begin", "branch", "push",
               "pr"}
                 \subseteq Points \ {"closed", "closing", "notify"}
  BY DEF Points, Awaiting, Local
<1>1. CASE \/ ClassifyFindings(c, u) \/ ResolveFromServiceYaml(c, u)
           \/ ResolveFromResume(c, u) \/ NoExistingPr(c, u)
           \/ GenerateYamlPatch(c, u)
  BY <1>1, <1>goes, <1>points
     DEF ClassifyFindings, ResolveFromServiceYaml, ResolveFromResume,
         NoExistingPr, GenerateYamlPatch
<1>2. CASE FetchContext(c, u)
  <2>1. \E p \in {"list", "analyze"} : Goto(c, p)
    BY <1>2 DEF FetchContext
  <2> QED BY <2>1, <1>goes, <1>points
<1>16. CASE GetPullRequest(c, u) \/ CheckFails(c, u)
  <2>1. pc'[c] \in {"close_pr", "analyze"} /\ events' = events
    BY <1>16, <1>types DEF GetPullRequest, CheckFails, EndCheck, Goto
  <2> QED BY <1>frame, <2>1, GoesOn
<1>3. CASE GetCurrentRemediation(c, u)
  BY <1>3, <1>types, <1>frame, GoesOn DEF GetCurrentRemediation
<1>4. CASE AskServiceYaml(c, u)
  <2>1. Executing(c, u) /\ PointInv(c, u) /\ interruptAt[u] = Never
    BY <1>4, Inside DEF AskServiceYaml, At
  <2> QED BY <1>4, <1>frame, <2>1, InterruptExplained
          DEF AskServiceYaml, At, PointInv
<1>5. CASE AwaitUserConfirmation(c, u)
  <2>1. Executing(c, u) /\ PointInv(c, u) /\ interruptAt[u] = Never
    BY <1>5, Inside DEF AwaitUserConfirmation, At
  <2> QED BY <1>5, <1>frame, <2>1, InterruptExplained
          DEF AwaitUserConfirmation, At, PointInv
<1>6. CASE FindExistingPr(c, u)
  <2>1. /\ pc'[c] = "closing" /\ target[c] = u /\ UNCHANGED <<op, target>>
        /\ UNCHANGED nodeVars
        /\ events'[c] = events[c] \cup
              (IF op[c] \in Confirms THEN {} ELSE {"existing_pr"})
    BY <1>6, <1>types DEF FindExistingPr, GotoTelling, At
  <2>2. CASE op[c] \notin Confirms
    BY <1>frame, <2>1, <2>2, EndsTelling DEF Told
  <2>3. CASE op[c] \in Confirms
    <3>1. Executing(c, u) /\ Undecided(u) /\ interruptAt[u] = Never
      BY <1>6, Inside DEF FindExistingPr, At, PointInv, Preparing
    <3>2. interruptAt'[u] = Never /\ approved'[u] # "yes"
      BY <2>1, <3>1 DEF nodeVars, decideVars, Undecided
    <3>3. Dead(u)'
      BY <1>frame, <2>1, <3>1, <3>2, LeavesDead
    <3>4. Excused(c)'
      BY <2>1, <2>3, <3>2, <3>3 DEF Excused
    <3> QED BY <1>frame, <2>1, <2>3, <3>4 DEF StreamInv
  <2> QED BY <2>2, <2>3
<1>7. CASE NotifyPrClosed(c, u)
  <2>1. pc'[c] \in {"close_pr", "analyze"} /\ events' = events
    BY <1>7, <1>types DEF NotifyPrClosed, PostAttempt, At
  <2> QED BY <1>frame, <2>1, GoesOn
<1>8. CASE AnalyzeFindings(c, u)
  BY <1>8, <1>goes, <1>raise, <1>points DEF AnalyzeFindings
<1>9. CASE ValidatePatch(c, u)
  <2>1. Executing(c, u) /\ Undecided(u) /\ interruptAt[u] = Never
    BY <1>9, Inside DEF ValidatePatch, At, PointInv
  <2>2. CASE \E p \in {"confirm", "generate"} : Goto(c, p)
    BY <2>2, <1>goes, <1>points
  <2>3. CASE Goto(c, "closing") /\ quality[u] = "bad" /\ retry[u] >= MaxRetries
    <3>1. /\ pc'[c] = "closing" /\ events'[c] = events[c] /\ target'[c] = u
          /\ UNCHANGED <<interruptAt, approved, retry>> /\ invalid'[u]
      BY <1>9, <1>types, <1>frame, <2>3
         DEF ValidatePatch, Goto, Frame, decideVars
    <3>2. Dead(u)' /\ approved'[u] # "yes"
      BY <1>frame, <2>1, <3>1, LeavesDead DEF Undecided
    <3>3. Excused(c)'
      BY <2>3, <3>1, <3>2 DEF Excused, GaveUp
    <3> QED BY <1>frame, <3>1, <3>3 DEF StreamInv
  <2>4. retry[u] \in Nat /\ MaxRetries \in Nat
    BY ConstantsAssumption DEF Inv, TypeOK, PatchTypeOK
  <2> QED BY <1>9, <2>2, <2>3, <2>4 DEF ValidatePatch, RouteAfterValidate
<1>10. CASE TakeDecision(c, u)
  <2>1. Executing(c, u) /\ interruptAt[u] = Never
    BY <1>10, Inside DEF TakeDecision, At
  <2>2. CASE op[c] = "approve"
    BY <1>10, <2>2, <1>goes, <1>points DEF TakeDecision, RouteAfterConfirmation
  <2>3. CASE op[c] # "approve"
    <3>1. /\ pc'[c] = "closing" /\ events'[c] = events[c] /\ op'[c] = op[c]
          /\ op[c] \in Confirms /\ target'[c] = u
          /\ interruptAt' = interruptAt /\ approved'[u] = "no"
      BY <1>10, <1>types, <1>frame, <2>3
         DEF TakeDecision, RouteAfterConfirmation, Goto, Frame
    <3>2. Dead(u)'
      BY <1>frame, <2>1, <3>1, LeavesDead
    <3>3. Excused(c)'
      BY <3>1, <3>2 DEF Excused
    <3> QED BY <1>frame, <3>1, <3>3 DEF StreamInv
  <2> QED BY <2>2, <2>3
<1>11. CASE RefuseNonBoolean(c, u) \/ NodeRaises(c, u)
  BY <1>11, <1>raise DEF RefuseNonBoolean, NodeRaises
<1>12. CASE BeginPr(c, u) \/ CreateBranch(c, u) \/ PushFiles(c, u)
  <2>1. Raise(c) \/ \E p \in {"branch", "push", "pr"} : Goto(c, p)
    BY <1>12 DEF BeginPr, CreateBranch, PushFiles, Strict
  <2> QED BY <2>1, <1>goes, <1>raise, <1>points
<1>13. CASE CreatePullRequest(c, u)
  <2>1. CASE GotoTelling(c, "notify", {"pr_created"})
    BY <2>1, <1>types, <1>frame DEF GotoTelling, StreamInv, Ending
  <2>2. CASE CutStream(c)
    BY <2>2, <1>types, <1>frame DEF CutStream, GotoTelling, StreamInv, Ending
  <2> QED BY <1>13, <1>raise, <2>1, <2>2 DEF CreatePullRequest, NoUrl
<1>14. CASE NotifyApi(c, u)
  <2>1. /\ pc[c] = "notify" /\ events' = events
        /\ pc'[c] \in {"notify", "closing"}
    BY <1>14, <1>types DEF NotifyApi, PostAttempt, At
  <2> QED BY <1>frame, <2>1 DEF StreamInv, Ending, Told
<1>15. CASE Finish(c, u)
  <2>1. /\ pc[c] = "closing" /\ target[c] = u
        /\ events'[c] = events[c] \cup LastEvents(c, u)
        /\ UNCHANGED <<op, target>> /\ pc'[c] = "closed"
        /\ UNCHANGED nodeVars
    BY <1>15, <1>types DEF Finish, GotoTelling, At
  <2>2. CASE Told(c) \/ "error" \in LastEvents(c, u)
    BY <2>1, <2>2, EndsTelling DEF Told
  <2>3. CASE Excused(c) /\ ~Told(c) /\ "error" \notin LastEvents(c, u)
    <3>1. Dead(u) /\ op[c] \in Confirms /\ approved[u] # "yes"
      BY <2>1, <2>3 DEF Excused, LastEvents, EndsInInterrupt, Told, GaveUp
    <3>2. Rests(u)
      BY <3>1, DeadStays DEF Next
    <3>3. Excused(c)'
      BY <2>1, <3>1, <3>2 DEF Excused, Rests
    <3> QED BY <2>1, <3>3 DEF StreamInv
  <2> QED BY <2>1, <2>2, <2>3 DEF StreamInv, Ending
<1> QED
  BY <1>1, <1>2, <1>3, <1>4, <1>5, <1>6, <1>7, <1>8, <1>9, <1>10, <1>11, <1>12,
     <1>13, <1>14, <1>15, <1>16
     DEF Step

\* Requests begin silent, cuts and departures end without done.
LEMMA RestExplains ==
    ASSUME Inv, NEW c \in Conns, StreamInv(c), Next,
           ~ \E d \in Conns, t \in Threads : Step(d, t)
    PROVE  StreamInv(c)'
<1>types. /\ pc \in [Conns -> Points] /\ events \in [Conns -> SUBSET EventTypes]
  BY DEF Inv, TypeOK, ConnTypeOK
<1>1. CASE UNCHANGED <<pc[c], target[c], op[c], events[c]>>
  BY <1>1, QuietStream
<1>2. ASSUME NEW t \in Threads, NEW w \in Workloads, NEW url \in BOOLEAN,
             Remediate(c, t, w, url)
      PROVE  StreamInv(c)'
  BY <1>2, <1>types, GoesOn DEF Remediate
<1>3. ASSUME NEW t \in Threads, NEW o \in Resumes, Resume(c, t, o)
      PROVE  StreamInv(c)'
  <2>1. interrupted[t] \in {"service_yaml", "confirmation"}
    BY <1>3 DEF Resume, Expired, Inv, ControlInv, EntryInv
  <2>2. pc[c] = "idle" /\ pc'[c] \in {"resolve", "confirm"} /\ events' = events
    BY <1>3, <1>types, <2>1 DEF Resume
  <2> QED BY <2>2, GoesOn
<1>4. CASE KeepaliveTimeout(c)
  <2>1. pc[c] # "closed" /\ "done" \notin events[c]
    BY <1>4 DEF KeepaliveTimeout, Awaiting, StreamInv
  <2> QED BY <1>4, <1>types, <2>1
          DEF KeepaliveTimeout, CutStream, GotoTelling, StreamInv, Ending
<1>5. CASE Free(c) \/ Restart
  BY <1>5, <1>types DEF Free, Restart, StreamInv, Ending
<1>6. \/ UNCHANGED <<pc[c], target[c], op[c], events[c]>>
      \/ \E t \in Threads, w \in Workloads, url \in BOOLEAN :
            Remediate(c, t, w, url)
      \/ \E t \in Threads, o \in Resumes : Resume(c, t, o)
      \/ KeepaliveTimeout(c) \/ Free(c) \/ Restart
  <2>1. ASSUME NEW d \in Conns \ {c},
               Request(d) \/ KeepaliveTimeout(d) \/ Release(d) \/ Disconnect(d)
        PROVE  UNCHANGED <<pc[c], target[c], op[c], events[c]>>
    BY <2>1, <1>types
       DEF Request, Remediate, Resume, KeepaliveTimeout, CutStream,
           GotoTelling, Release, Disconnect, Free, Inv, TypeOK, ConnTypeOK
  <2>2. CASE World /\ ~Restart
    BY <2>2 DEF World, Refuse, SettlePr, Tick, connVars
  <2> QED BY <2>1, <2>2 DEF Next, Request, Release, Disconnect, World
<1> QED BY <1>1, <1>2, <1>3, <1>4, <1>5, <1>6

\* However its thread fares meanwhile, a stream that ran to its end told its
\* client why: a question, a fix, an existing or a created PR, or an error;
\* only a confirm that did not lead to an approval needs no news.
THEOREM StreamsExplainTheirEnd == Spec => []EndIsExplained
<1> DEFINE SInv == \A c \in Conns : StreamInv(c)
<1>1. Init => SInv
  BY DEF Init, StreamInv, Ending
<1>2. Inv /\ SInv /\ [Next]_vars => SInv'
  <2> SUFFICES ASSUME Inv, SInv, [Next]_vars, NEW c \in Conns
               PROVE  StreamInv(c)'
    OBVIOUS
  <2>1. ASSUME NEW d \in Conns, NEW t \in Threads, Step(d, t)
        PROVE  StreamInv(c)'
    <3>1. CASE d = c
      BY <2>1, <3>1, StepExplains
    <3>2. CASE d # c
      BY <2>1, <3>2, StepFrame, QuietStream DEF Frame
    <3> QED BY <3>1, <3>2
  <2>2. CASE Next /\ ~ \E d \in Conns, t \in Threads : Step(d, t)
    BY <2>2, RestExplains
  <2>3. CASE UNCHANGED vars
    BY <2>3, QuietStream DEF vars, connVars
  <2> QED BY <2>1, <2>2, <2>3
<1>3. SInv => EndIsExplained
  BY DEF StreamInv, Ending, Told, Excused, EndIsExplained
<1> QED BY <1>1, <1>2, <1>3, Invariance, PTL DEF Spec
===============================================================================
