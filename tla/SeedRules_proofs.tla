-------------------------- MODULE SeedRules_proofs --------------------------
(***************************************************************************)
(* Proofs of the safety properties of SeedRules.                           *)
(*                                                                         *)
(* HashIsIndexed is not inductive: the hash that is saved was computed     *)
(* earlier, from a file that has changed since.  Versions only grow where  *)
(* nothing is tainted, so the invariant orders them: what is on disk is no *)
(* later than what a run holds, that no later than what is indexed, and    *)
(* that no later than the file.                                            *)
(***************************************************************************)
EXTENDS SeedRules, TLAPS

Busy(p)    == pc[p] \in {"embed", "post"}
Looping(p) == pc[p] = "look" \/ Busy(p)

\* A run is alone, or no hash is relied on.
AloneInv ==
    \A p \in Procs : Running(p) =>
        IF alone[p] THEN \A q \in Procs \ {p} : ~Running(q)
                    ELSE tainted = Rules

OrderInv ==
    \A r \in Rules \ tainted : disk[r] <= index[r] /\ index[r] <= file[r]

\* The file in hand is in the list, and was read.
HandInv ==
    \A p \in Procs : Busy(p) =>
        /\ at[p] \in Scope(opts[p]) /\ at[p] \in Rules
        /\ ~opts[p].dry
        /\ got[p] # 0 /\ got[p] = seen[p][at[p]]

NewInv ==
    \A p \in Procs, r \in Rules \ tainted : Running(p) =>
        /\ new[p][r] <= index[r]
        /\ Busy(p) /\ at[p] = r => index[r] <= got[p] /\ got[p] <= file[r]

OrderIInv == SeedTypeOK /\ AloneInv /\ OrderInv /\ HandInv /\ NewInv

\* Hashes on their way into the state file are acknowledged.
AckIInv ==
    /\ SavedWasAcknowledged
    /\ \A p \in Procs, r \in Rules : new[p][r] # 0 => new[p][r] \in acked[r]
-----------------------------------------------------------------------------
(* Types.                                                                  *)

\* Every step of one run keeps the types.
LEMMA RunTypes ==
    ASSUME SeedTypeOK, HandInv, NEW p \in Procs,
           Step(p) \/ Kill(p) \/ \E o \in Options : Begin(p, o)
    PROVE  SeedTypeOK'
<1>0. /\ Nothing \in Hashes /\ 0 \in Versions /\ 1 \in 1 .. NRules + 1
      /\ Plain \in Options
  BY SeedAssumption DEF Nothing, Hashes, Versions, Plain, Options, AllRules
<1>n. NextFile(p) /\ pc[p] # "idle" /\ at[p] \in Rules =>
          at' \in [Procs -> 1 .. NRules + 1] /\ pc' \in [Procs -> Places]
  BY SeedAssumption DEF SeedTypeOK, NextFile, Goto, Rules, Places
<1>g. \A place \in Places : Goto(p, place) => pc' \in [Procs -> Places]
  BY DEF SeedTypeOK, Goto
<1>e. Error(p) \/ UNCHANGED errors => errors' \in [Procs -> BOOLEAN]
  BY DEF SeedTypeOK, Error
<1>l. \A o \in Options, h \in Hashes : Locals(p, o, h) =>
          /\ opts' \in [Procs -> Options]
          /\ at' \in [Procs -> 1 .. NRules + 1]
          /\ state' \in [Procs -> Hashes] /\ new' \in [Procs -> Hashes]
          /\ got' \in [Procs -> Versions] /\ seen' \in [Procs -> Hashes]
          /\ errors' \in [Procs -> BOOLEAN]
  BY <1>0 DEF SeedTypeOK, Locals
<1> USE DEF envVars, fileVars
<1>1. ASSUME NEW o \in Options, Begin(p, o) PROVE SeedTypeOK'
  <2>1. (IF o.force THEN Nothing ELSE disk) \in Hashes
    BY <1>0 DEF SeedTypeOK
  <2>2. pc' \in [Procs -> Places]
    BY <1>1, <1>g DEF Begin, Places
  <2>3. alone' \in [Procs -> BOOLEAN]
    BY <1>1 DEF Begin, SeedTypeOK
  <2>4. tainted' \subseteq Rules /\ runs' \in 0 .. MaxRuns
    BY <1>1, SeedAssumption DEF Begin, SeedTypeOK
  <2> QED
    BY <1>1, <1>l, <2>1, <2>2, <2>3, <2>4 DEF Begin, SeedTypeOK
<1>2. CASE PassOver(p)
  BY <1>2, <1>n DEF PassOver, SeedTypeOK, setVars
<1>3. CASE Look(p)
  <2> USE <1>3 DEF Look, setVars
  <2>1. at[p] \in Rules
    BY DEF Scope, SeedTypeOK, Options
  <2>2. CASE at[p] \in broken
    BY <1>n, <1>e, <2>1, <2>2 DEF SeedTypeOK
  <2>3. CASE at[p] \notin broken
    <3>1. file[at[p]] \in Versions
      BY <2>1 DEF SeedTypeOK
    <3>2. got' \in [Procs -> Versions]
      BY <2>3, <3>1 DEF SeedTypeOK
    <3>3. seen' \in [Procs -> Hashes]
      <4>1. [seen[p] EXCEPT ![at[p]] = file[at[p]]] \in Hashes
        BY <3>1 DEF SeedTypeOK, Hashes
      <4>2. seen' = [seen EXCEPT ![p] =
                         [seen[p] EXCEPT ![at[p]] = file[at[p]]]]
        BY <2>3
      <4> QED
        BY <4>1, <4>2 DEF SeedTypeOK
    <3>4. at' \in [Procs -> 1 .. NRules + 1] /\ pc' \in [Procs -> Places]
      BY <1>n, <1>g, <2>1, <2>3 DEF SeedTypeOK, Places
    <3> QED
      BY <2>3, <3>2, <3>3, <3>4 DEF SeedTypeOK
  <2> QED
    BY <2>2, <2>3
<1>4. ASSUME NEW ok \in BOOLEAN, Embed(p, ok), at[p] \in Rules
      PROVE  SeedTypeOK'
  <2>1. at' \in [Procs -> 1 .. NRules + 1] /\ pc' \in [Procs -> Places]
    BY <1>4, <1>n, <1>g DEF Embed, SeedTypeOK, Places
  <2> QED
    BY <1>4, <1>e, <2>1 DEF Embed, SeedTypeOK, setVars
<1>5. ASSUME NEW outcome \in {"answered", "lost", "failed"},
             Post(p, outcome), at[p] \in Rules
      PROVE  SeedTypeOK'
  <2> USE <1>5 DEF Post
  <2>1. got[p] \in Versions
    BY DEF SeedTypeOK
  <2>2. index' \in Hashes
    BY <2>1 DEF SeedTypeOK, Upsert, Hashes
  <2>3. new' \in [Procs -> Hashes]
    <3>1. CASE Answered(outcome)
      <4>1. [new[p] EXCEPT ![at[p]] = got[p]] \in Hashes
        BY <2>1 DEF SeedTypeOK, Hashes
      <4>2. new' = [new EXCEPT ![p] = [new[p] EXCEPT ![at[p]] = got[p]]]
        BY <3>1
      <4> QED
        BY <4>1, <4>2 DEF SeedTypeOK
    <3>2. CASE ~Answered(outcome)
      BY <3>2 DEF SeedTypeOK
    <3> QED
      BY <3>1, <3>2
  <2>4. acked' \in [Rules -> SUBSET Versions]
    BY <2>1 DEF SeedTypeOK
  <2> QED
    BY <1>n, <1>e, <2>2, <2>3, <2>4 DEF SeedTypeOK, setVars
<1>6. CASE Save(p)
  <2>1. disk' \in Hashes
    BY <1>0, <1>6 DEF Save, SeedTypeOK
  <2>2. pc' \in [Procs -> Places]
    BY <1>6, <1>g DEF Save, Places
  <2> QED
    BY <1>6, <2>1, <2>2 DEF Save, SeedTypeOK, setVars
<1>7. CASE Write(p)
  <2>1. disk' \in Hashes /\ tainted' \subseteq Rules
    BY <1>7 DEF Write, SeedTypeOK
  <2>2. pc' \in [Procs -> Places]
    BY <1>7, <1>g DEF Write, Places
  <2> QED
    BY <1>7, <2>1, <2>2 DEF Write, SeedTypeOK, setVars
<1>8. CASE Return(p) \/ Kill(p)
  <2>1. pc' \in [Procs -> Places]
    BY <1>8, <1>g DEF Return, Kill, End, Places
  <2>2. alone' \in [Procs -> BOOLEAN]
    BY <1>8 DEF Return, Kill, End, SeedTypeOK
  <2> QED
    BY <1>8, <1>0, <1>l, <2>1, <2>2 DEF Return, Kill, End, SeedTypeOK
<1> QED
  BY <1>1, <1>2, <1>3, <1>4, <1>5, <1>6, <1>7, <1>8 DEF Step, HandInv, Busy,
     Embed, Post

\* So do the changes of files and the built-in texts.
LEMMA WorldTypes ==
    ASSUME SeedTypeOK,
           \/ \E r \in Rules : Edit(r) \/ Repair(r) \/ Revert(r)
           \/ SeedBuiltin \/ \E ok \in BOOLEAN : IndexBuiltin(ok)
    PROVE  SeedTypeOK'
<1> USE DEF runVars, fileVars
<1>1. ASSUME NEW r \in Rules, NEW v \in Versions \ {0}, NEW b \in BOOLEAN,
             Rewrite(r, v, b), tainted' \in {tainted, tainted \cup {r}},
             Change \/ UNCHANGED changes
      PROVE  SeedTypeOK'
  <2>1. file' \in [Rules -> Versions \ {0}] /\ broken' \subseteq Rules
    BY <1>1 DEF Rewrite, SeedTypeOK
  <2>2. changes' \in 0 .. MaxChanges
    BY <1>1, SeedAssumption DEF Rewrite, Change, SeedTypeOK
  <2> QED
    BY <1>1, <2>1, <2>2 DEF Rewrite, SeedTypeOK
<1>2. ASSUME NEW r \in Rules, Edit(r) \/ Repair(r) \/ Revert(r)
      PROVE  SeedTypeOK'
  <2>1. file[r] \in Versions \ {0}
    BY DEF SeedTypeOK
  <2>2. CASE Edit(r)
    <3>1. file[r] + 1 \in Versions \ {0}
      BY <2>1, <2>2, SeedAssumption DEF Edit, Versions
    <3> QED
      BY <1>1, <2>2, <3>1 DEF Edit
  <2>3. CASE Repair(r)
    BY <1>1, <2>1, <2>3 DEF Repair
  <2>4. CASE Revert(r)
    <3>1. file[r] - 1 \in Versions \ {0}
      BY <2>1, <2>4, SeedAssumption DEF Revert, Versions
    <3> QED
      BY <1>1, <2>4, <3>1 DEF Revert
  <2> QED
    BY <1>2, <2>2, <2>3, <2>4
<1>3. CASE SeedBuiltin
  <2>1. builtin' \in 0 .. NRules /\ changes' \in 0 .. MaxChanges
    BY <1>3, SeedAssumption DEF SeedBuiltin, Change, SeedTypeOK
  <2> QED
    BY <1>3, <2>1 DEF SeedBuiltin, SeedTypeOK
<1>4. ASSUME NEW ok \in BOOLEAN, IndexBuiltin(ok) PROVE SeedTypeOK'
  <2>1. builtin' \in 0 .. NRules /\ builtin \in Rules
    BY <1>4, SeedAssumption DEF IndexBuiltin, NextBuiltin, SeedTypeOK, Rules
  <2>2. index' \in Hashes /\ tainted' \subseteq Rules
    <3>1. 0 \in Versions
      BY SeedAssumption DEF Versions
    <3> QED
      BY <1>4, <2>1, <3>1 DEF IndexBuiltin, Upsert, SeedTypeOK, Hashes
  <2> QED
    BY <1>4, <2>1, <2>2 DEF IndexBuiltin, SeedTypeOK
<1> QED
  BY <1>2, <1>3, <1>4

\* A run changes no locals but its own.
LEMMA OwnLocals ==
    ASSUME SeedTypeOK, NEW p \in Procs, NEW q \in Procs \ {p},
           Step(p) \/ Kill(p) \/ \E o \in Options : Begin(p, o)
    PROVE  /\ pc'[q] = pc[q] /\ opts'[q] = opts[q] /\ at'[q] = at[q]
           /\ state'[q] = state[q] /\ new'[q] = new[q] /\ got'[q] = got[q]
           /\ seen'[q] = seen[q] /\ errors'[q] = errors[q]
<1> USE DEF SeedTypeOK, Goto, NextFile, Error, setVars
<1>1. ASSUME NEW o \in Options, NEW h, Locals(p, o, h)
      PROVE  /\ opts'[q] = opts[q] /\ at'[q] = at[q] /\ state'[q] = state[q]
             /\ new'[q] = new[q] /\ got'[q] = got[q] /\ seen'[q] = seen[q]
             /\ errors'[q] = errors[q]
  BY <1>1 DEF Locals
<1>2. Plain \in Options
  BY DEF Plain, Options, AllRules
<1>3. ASSUME NEW o \in Options, Begin(p, o)
      PROVE  Locals(p, o, IF o.force THEN Nothing ELSE disk) /\ pc'[q] = pc[q]
  BY <1>3 DEF Begin
<1>4. CASE Return(p) \/ Kill(p)
  BY <1>1, <1>2, <1>4 DEF Return, Kill, End
<1>5. CASE PassOver(p)
  BY <1>5 DEF PassOver
<1>6. CASE Look(p)
  BY <1>6 DEF Look
<1>7. ASSUME NEW ok \in BOOLEAN, Embed(p, ok)
      PROVE  /\ pc'[q] = pc[q] /\ at'[q] = at[q] /\ errors'[q] = errors[q]
             /\ UNCHANGED <<opts, state, new, got, seen>>
  BY <1>7 DEF Embed
<1>8. ASSUME NEW outcome \in {"answered", "lost", "failed"}, Post(p, outcome)
      PROVE  /\ pc'[q] = pc[q] /\ at'[q] = at[q] /\ errors'[q] = errors[q]
             /\ new'[q] = new[q] /\ UNCHANGED <<opts, state, got, seen>>
  BY <1>8 DEF Post
<1>9. CASE Save(p) \/ Write(p)
  BY <1>9 DEF Save, Write
<1> QED
  BY <1>1, <1>3, <1>4, <1>5, <1>6, <1>7, <1>8, <1>9 DEF Step

\* A file is in hand from where it is read to where it is posted.
LEMMA HandNext ==
    ASSUME SeedTypeOK, HandInv, [Next]_vars
    PROVE  HandInv'
<1> SUFFICES ASSUME NEW q \in Procs, Busy(q)' PROVE
        /\ at'[q] \in Scope(opts'[q]) /\ at'[q] \in Rules
        /\ ~opts'[q].dry
        /\ got'[q] # 0 /\ got'[q] = seen'[q][at'[q]]
  BY DEF HandInv, Rules, Scope
<1> USE DEF Busy
<1>1. CASE /\ pc'[q] = pc[q] /\ opts'[q] = opts[q] /\ at'[q] = at[q]
           /\ got'[q] = got[q] /\ seen'[q] = seen[q]
  BY <1>1 DEF HandInv
<1>2. CASE UNCHANGED runVars
  BY <1>1, <1>2 DEF runVars
<1>3. ASSUME NEW p \in Procs \ {q},
             Step(p) \/ Kill(p) \/ \E o \in Options : Begin(p, o)
      PROVE  /\ pc'[q] = pc[q] /\ opts'[q] = opts[q] /\ at'[q] = at[q]
             /\ got'[q] = got[q] /\ seen'[q] = seen[q]
  BY <1>3, OwnLocals
<1>4. CASE Look(q)
  <2>1. at[q] \in Rules /\ file[at[q]] # 0
    BY <1>4 DEF Look, Scope, SeedTypeOK, Options
  <2>2. at[q] \notin broken /\ ~Skips(q) /\ ~opts[q].dry
    BY <1>4 DEF Look, NextFile, Goto, SeedTypeOK
  <2> QED
    BY <1>4, <2>1, <2>2 DEF Look, Goto, SeedTypeOK, Hashes, setVars
<1>5. ASSUME NEW ok \in BOOLEAN, Embed(q, ok)
      PROVE  pc[q] = "embed" /\ UNCHANGED <<opts, at, got, seen>>
  BY <1>5 DEF Embed, NextFile, Goto, SeedTypeOK, setVars
<1>6. ~ Kill(q) /\ ~ Return(q) /\ ~ PassOver(q) /\ ~ Save(q) /\ ~ Write(q)
  BY DEF Kill, Return, End, PassOver, Save, Write, NextFile, Goto, SeedTypeOK
<1>7. /\ \A o \in Options : ~ Begin(q, o)
      /\ \A outcome \in {"answered", "lost", "failed"} : ~ Post(q, outcome)
  BY DEF Begin, Post, NextFile, Goto, SeedTypeOK
<1>8. CASE \E ok \in BOOLEAN : Embed(q, ok)
  BY <1>5, <1>8 DEF HandInv
<1>9. CASE \E p \in Procs : Step(p) \/ Kill(p) \/ \E o \in Options : Begin(p, o)
  BY <1>1, <1>3, <1>4, <1>6, <1>7, <1>8, <1>9 DEF Step
<1>10. CASE \/ \E r \in Rules : Edit(r) \/ Repair(r) \/ Revert(r)
            \/ SeedBuiltin \/ \E ok \in BOOLEAN : IndexBuiltin(ok)
  BY <1>2, <1>10 DEF Edit, Repair, Revert, Rewrite, SeedBuiltin, IndexBuiltin
<1> QED
  BY <1>2, <1>9, <1>10 DEF Next, vars

\* The variables of SeedRules keep their types (scripts/seed_rules.py, and
\* the files and the index around it).
THEOREM SeedTypeCorrect == Spec => []SeedTypeOK
<1>1. Init => SeedTypeOK /\ HandInv
  BY SeedAssumption DEF Init, SeedTypeOK, Rules, Versions, Hashes, Nothing,
     Places, Options, Plain, AllRules, HandInv, Busy
<1>2. SeedTypeOK /\ HandInv /\ [Next]_vars => SeedTypeOK' /\ HandInv'
  <2> SUFFICES ASSUME SeedTypeOK, HandInv, [Next]_vars
               PROVE  SeedTypeOK' /\ HandInv'
    OBVIOUS
  <2>1. CASE Next
    BY <2>1, RunTypes, WorldTypes, HandNext DEF Next
  <2>2. CASE UNCHANGED vars
    <3>1. SeedTypeOK'
      BY <2>2 DEF vars, envVars, fileVars, runVars, SeedTypeOK
    <3> QED
      BY <3>1, HandNext
  <2> QED
    BY <2>1, <2>2
<1> QED
  BY <1>1, <1>2, PTL DEF Spec
-----------------------------------------------------------------------------
(* The order of the versions.                                              *)

\* Every step keeps it: a file only grows where nothing is tainted, and what
\* writes beside a run taints.
LEMMA OrderNext ==
    ASSUME OrderIInv, SeedTypeOK', [Next]_vars
    PROVE  AloneInv' /\ OrderInv' /\ NewInv'
<1> DEFINE Order == AloneInv' /\ OrderInv' /\ NewInv'
<1> USE DEF OrderIInv
<1>t. /\ \A r \in Rules : disk[r] \in Nat /\ index[r] \in Nat /\ file[r] \in Nat
      /\ \A q \in Procs : got[q] \in Nat /\ \A r \in Rules : new[q][r] \in Nat
  BY SeedAssumption DEF SeedTypeOK, Hashes, Versions
<1>a. ASSUME NEW p \in Procs, UNCHANGED <<alone, tainted>>,
             pc[p] # "idle", \A q \in Procs \ {p} : pc'[q] = pc[q]
      PROVE  AloneInv'
  BY <1>a DEF AloneInv, Running
<1>b. ASSUME NEW p \in Procs, Running(p), NEW q \in Procs \ {p}, Running(q)
      PROVE  tainted = Rules
  BY <1>b DEF AloneInv
<1>c. \* A step that only moves, or reads the file in hand, keeps the order.
  ASSUME NEW p \in Procs, Step(p), UNCHANGED <<file, disk, index, tainted, new>>,
         Busy(p)' => got'[p] = file[at'[p]] \/ (at'[p] = at[p] /\ got'[p] = got[p]
                                                /\ Busy(p))
  PROVE  OrderInv' /\ NewInv'
  <2>1. OrderInv'
    BY <1>c DEF OrderInv
  <2>2. Running(p)
    BY <1>c DEF Step, Running, PassOver, Look, Save, Write, Return, Embed, Post
  <2>3. ASSUME NEW q \in Procs, NEW r \in Rules \ tainted', Running(q)'
        PROVE  /\ new'[q][r] <= index'[r]
               /\ Busy(q)' /\ at'[q] = r =>
                      index'[r] <= got'[q] /\ got'[q] <= file'[r]
    <3>1. CASE q = p
      BY <1>c, <1>t, <2>2, <2>3, <3>1 DEF NewInv, OrderInv
    <3>2. CASE q # p
      <4>1. pc'[q] = pc[q]
        BY <1>c, <3>2, OwnLocals
      <4> QED
        BY <1>b, <1>c, <2>2, <2>3, <3>2, <4>1 DEF Running
    <3> QED
      BY <3>1, <3>2
  <2> QED
    BY <2>1, <2>3 DEF NewInv, Busy, Running
<1>1. ASSUME NEW p \in Procs, NEW o \in Options, Begin(p, o) PROVE Order
  <2> DEFINE others == {q \in Procs \ {p} : Running(q)}
             loaded == IF o.force THEN Nothing ELSE disk
  <2> USE <1>1 DEF Begin, Running
  <2>1. /\ pc' = [pc EXCEPT ![p] = "look"]
        /\ alone' = [q \in Procs |-> IF q \in others \cup {p}
                                     THEN others = {} ELSE alone[q]]
        /\ tainted' = IF others = {} THEN tainted ELSE Rules
        /\ UNCHANGED <<file, disk, index>>
    BY DEF Goto, envVars, fileVars
  <2>2. new'[p] = loaded
    BY DEF Locals, SeedTypeOK
  <2>3. AloneInv'
    BY <2>1 DEF AloneInv, SeedTypeOK
  <2>4. CASE others # {}
    BY <2>1, <2>3, <2>4 DEF OrderInv, NewInv
  <2>5. CASE others = {}
    <3>1. OrderInv'
      BY <2>1, <2>5 DEF OrderInv
    <3>2. \A q \in Procs : Running(q)' => q = p
      BY <2>1, <2>5 DEF SeedTypeOK
    <3>3. \A r \in Rules \ tainted : new'[p][r] <= index[r]
      BY <1>t, <2>2 DEF OrderInv, Nothing
    <3> QED
      BY <2>1, <2>3, <2>5, <3>1, <3>2, <3>3 DEF NewInv, Busy, SeedTypeOK
  <2> QED
    BY <2>4, <2>5
<1>2. ASSUME NEW p \in Procs, PassOver(p) PROVE Order
  <2>1. Step(p) /\ pc'[p] = "look" /\ pc[p] # "idle"
        /\ UNCHANGED <<file, disk, index, tainted, new, alone>>
        /\ \A q \in Procs \ {p} : pc'[q] = pc[q]
    BY <1>2 DEF Step, PassOver, NextFile, Goto, envVars, fileVars, setVars,
       SeedTypeOK
  <2> QED
    BY <1>a, <1>c, <2>1 DEF Busy
<1>3. ASSUME NEW p \in Procs, Look(p) PROVE Order
  <2>1. Step(p) /\ pc[p] # "idle"
        /\ UNCHANGED <<file, disk, index, tainted, new, alone>>
        /\ \A q \in Procs \ {p} : pc'[q] = pc[q]
    BY <1>3 DEF Step, Look, NextFile, Goto, envVars, fileVars, setVars,
       SeedTypeOK
  <2>2. Busy(p)' => got'[p] = file[at'[p]]
    BY <1>3 DEF Look, NextFile, Goto, Busy, SeedTypeOK
  <2> QED
    BY <1>a, <1>c, <2>1, <2>2
<1>4. ASSUME NEW p \in Procs, NEW ok \in BOOLEAN, Embed(p, ok) PROVE Order
  <2>1. Step(p) /\ pc[p] # "idle"
        /\ UNCHANGED <<file, disk, index, tainted, new, alone>>
        /\ \A q \in Procs \ {p} : pc'[q] = pc[q]
    BY <1>4 DEF Step, Embed, NextFile, Goto, envVars, fileVars, setVars,
       SeedTypeOK
  <2>2. Busy(p)' => at'[p] = at[p] /\ got'[p] = got[p] /\ Busy(p)
    BY <1>4 DEF Embed, NextFile, Goto, Busy, SeedTypeOK
  <2> QED
    BY <1>a, <1>c, <2>1, <2>2
<1>5. ASSUME NEW p \in Procs, NEW outcome \in {"answered", "lost", "failed"},
             Post(p, outcome)
      PROVE  Order
  <2> DEFINE r == at[p]
  <2>1. r \in Rules /\ Running(p) /\ Busy(p) /\ pc[p] = "post"
    BY <1>5 DEF Post, HandInv, Busy, Running
  <2>2. /\ UNCHANGED <<file, disk, tainted, alone>>
        /\ pc' = [pc EXCEPT ![p] = "look"]
    BY <1>5 DEF Post, NextFile, Goto, envVars, fileVars, setVars
  <2>3. index' \in {index, [index EXCEPT ![r] = got[p]]}
    BY <1>5 DEF Post, Upsert
  <2>4. new' = new \/ /\ new' = [new EXCEPT ![p] = [new[p] EXCEPT ![r] = got[p]]]
                      /\ index' = [index EXCEPT ![r] = got[p]]
    BY <1>5 DEF Post, Upsert, Answered
  <2>5. \A s \in Rules \ tainted : index[s] <= index'[s] /\ index'[s] <= file[s]
    <3> SUFFICES ASSUME NEW s \in Rules \ tainted
                 PROVE  index[s] <= index'[s] /\ index'[s] <= file[s]
      OBVIOUS
    <3>1. index[s] <= file[s] /\ (s = r => index[s] <= got[p] /\ got[p] <= file[s])
      BY <2>1 DEF NewInv, OrderInv
    <3>2. index'[s] = index[s] \/ (index'[s] = got[p] /\ s = r)
      <4>1. CASE index' = index
        BY <4>1
      <4>2. CASE index' = [index EXCEPT ![r] = got[p]]
        BY <4>2 DEF SeedTypeOK, Hashes
      <4> QED
        BY <2>3, <4>1, <4>2
    <3>3. index[s] \in Nat /\ got[p] \in Nat
      BY <1>t
    <3> QED
      BY <3>1, <3>2, <3>3
  <2>6. \A s \in Rules : index'[s] \in Nat
    BY <1>t, <2>3 DEF SeedTypeOK, Hashes
  <2>7. OrderInv'
    BY <1>t, <2>2, <2>5, <2>6 DEF OrderInv
  <2>8. AloneInv'
    BY <1>a, <2>1, <2>2 DEF Running, SeedTypeOK
  <2>9. \A s \in Rules \ tainted : new'[p][s] <= index'[s]
    <3>1. CASE new' = new
      BY <1>t, <2>1, <2>5, <2>6, <3>1 DEF NewInv
    <3>2. CASE new' # new
      <4>1. \A s \in Rules : new'[p][s] = IF s = r THEN got[p] ELSE new[p][s]
        BY <2>1, <2>4, <3>2 DEF SeedTypeOK, Hashes
      <4>2. \A s \in Rules : index'[s] = IF s = r THEN got[p] ELSE index[s]
        BY <2>1, <2>4, <3>2 DEF SeedTypeOK, Hashes
      <4> QED
        BY <1>t, <2>1, <4>1, <4>2 DEF NewInv
    <3> QED
      BY <3>1, <3>2
  <2>10. \A q \in Procs \ {p} : Running(q)' => tainted = Rules
    BY <1>b, <2>1, <2>2 DEF Running, SeedTypeOK
  <2>11. ~ Busy(p)'
    BY <2>1, <2>2 DEF Busy, SeedTypeOK
  <2> QED
    BY <2>2, <2>7, <2>8, <2>9, <2>10, <2>11 DEF NewInv
<1>6. ASSUME NEW p \in Procs, Save(p) PROVE Order
  <2>1. /\ UNCHANGED <<file, index, tainted, alone, new>>
        /\ disk' \in {disk, Nothing} /\ Running(p) /\ Step(p)
        /\ pc' \in {[pc EXCEPT ![p] = "writing"], [pc EXCEPT ![p] = "done"]}
    BY <1>6 DEF Save, Goto, envVars, fileVars, setVars, Running, Step
  <2>2. OrderInv'
    BY <1>t, <2>1 DEF OrderInv, Nothing
  <2>3. AloneInv'
    BY <1>a, <2>1 DEF Running, SeedTypeOK
  <2>4. \A q \in Procs \ {p} : Running(q)' => tainted = Rules
    BY <1>b, <2>1 DEF Running, SeedTypeOK
  <2> QED
    BY <2>1, <2>2, <2>3, <2>4 DEF NewInv, Busy, SeedTypeOK
<1>7. ASSUME NEW p \in Procs, Write(p) PROVE Order
  <2>1. /\ UNCHANGED <<file, index, alone, new>> /\ Running(p)
        /\ pc' = [pc EXCEPT ![p] = "done"] /\ disk' = new[p]
        /\ tainted' = IF alone[p]
                      THEN {r \in tainted : new[p][r] # index[r]
                                                \/ index[r] > file[r]}
                      ELSE tainted
    BY <1>7 DEF Write, Goto, envVars, fileVars, setVars, Running
  <2>2. \A r \in Rules \ tainted' :
            new[p][r] <= index[r] /\ index[r] <= file[r]
    BY <1>t, <2>1 DEF NewInv, OrderInv, SeedTypeOK
  <2>3. OrderInv'
    BY <2>1, <2>2 DEF OrderInv
  <2>4. CASE alone[p]
    <3>1. \A q \in Procs : Running(q)' => q = p
      BY <2>1, <2>4 DEF AloneInv, Running, SeedTypeOK
    <3> QED
      BY <2>1, <2>2, <2>3, <2>4, <3>1 DEF AloneInv, NewInv, Busy, SeedTypeOK
  <2>5. CASE ~alone[p]
    <3>1. tainted' = Rules
      BY <2>1, <2>5 DEF AloneInv
    <3> QED
      BY <2>1, <2>3, <2>5, <3>1 DEF AloneInv, NewInv, Running, SeedTypeOK
  <2> QED
    BY <2>4, <2>5
<1>8. ASSUME NEW p \in Procs, Return(p) \/ Kill(p) PROVE Order
  <2>1. /\ pc' = [pc EXCEPT ![p] = "idle"]
        /\ alone' = [alone EXCEPT ![p] = TRUE]
        /\ UNCHANGED <<file, disk, index, tainted>> /\ Running(p)
    BY <1>8 DEF Return, Kill, End, Goto, envVars, fileVars, Running
  <2>2. AloneInv'
    BY <2>1 DEF AloneInv, Running, SeedTypeOK
  <2>3. \A q \in Procs : Running(q)' => q # p /\ tainted = Rules
    BY <1>b, <2>1 DEF Running, SeedTypeOK
  <2> QED
    BY <2>1, <2>2, <2>3 DEF OrderInv, NewInv
<1>9. ASSUME NEW r \in Rules, NEW v \in Nat, UNCHANGED <<disk, index, runVars>>,
             file' = [file EXCEPT ![r] = v],
             (tainted' = tainted /\ file[r] <= v) \/ tainted' = tainted \cup {r}
      PROVE  Order
  <2>1. \A s \in Rules \ tainted' : s \notin tainted /\ file[s] <= file'[s]
                                        /\ file'[s] \in Nat
    BY <1>9, <1>t DEF SeedTypeOK
  <2>2. OrderInv'
    BY <1>9, <1>t, <2>1 DEF OrderInv
  <2>3. tainted = Rules => tainted' = Rules
    BY <1>9
  <2>4. NewInv'
    BY <1>9, <1>t, <2>1 DEF NewInv, Busy, Running, runVars
  <2> QED
    BY <1>9, <2>2, <2>3, <2>4 DEF AloneInv, Running, runVars
<1>10. ASSUME NEW r \in Rules, Edit(r) \/ Repair(r) \/ Revert(r) PROVE Order
  <2>1. file[r] \in Nat /\ file[r] + 1 \in Nat /\ (file[r] > 1 => file[r] - 1 \in Nat)
    BY <1>t
  <2> QED
    BY <1>9, <1>10, <2>1 DEF Edit, Repair, Revert, Rewrite
<1>11. ASSUME NEW ok \in BOOLEAN, IndexBuiltin(ok) PROVE Order
  <2>1. /\ UNCHANGED <<file, disk, runVars>>
        /\ UNCHANGED <<index, tainted>>
               \/ /\ index' = [index EXCEPT ![builtin] = 0]
                  /\ tainted' = tainted \cup {builtin} /\ builtin \in Rules
    BY <1>11 DEF IndexBuiltin, Upsert, fileVars, SeedTypeOK, Rules
  <2>2. \A s \in Rules \ tainted' : s \notin tainted /\ index'[s] = index[s]
    BY <2>1 DEF SeedTypeOK, Hashes
  <2>3. tainted = Rules => tainted' = Rules
    BY <2>1
  <2> QED
    BY <2>1, <2>2, <2>3 DEF OrderInv, NewInv, AloneInv, Busy, Running, runVars
<1>12. CASE UNCHANGED <<file, disk, index, tainted, runVars>>
  BY <1>12 DEF OrderInv, NewInv, AloneInv, Busy, Running, runVars
<1>13. CASE SeedBuiltin \/ UNCHANGED vars
  BY <1>12, <1>13 DEF SeedBuiltin, vars, envVars, fileVars
<1> QED
  BY <1>1, <1>2, <1>3, <1>4, <1>5, <1>6, <1>7, <1>8, <1>10, <1>11, <1>13
     DEF Next, Step

\* If the state file holds the hash of a file that nothing tainted, the file
\* is indexed (seed(), where equal hashes skip it): in the invariant's order
\* of versions the outer two are then equal.
THEOREM SavedHashIsIndexed == Spec => []HashIsIndexed
<1>1. Init /\ SeedTypeOK => OrderIInv
  BY SeedAssumption DEF Init, OrderIInv, AloneInv, OrderInv, HandInv, NewInv,
     Nothing, Running, Busy, Rules, Versions
<1>2. OrderIInv /\ SeedTypeOK' /\ [Next]_vars => OrderIInv'
  BY OrderNext, HandNext DEF OrderIInv
<1>3. OrderIInv => HashIsIndexed
  <2> SUFFICES ASSUME OrderIInv, NEW r \in Rules \ tainted, disk[r] = file[r]
               PROVE  index[r] = file[r]
    BY DEF HashIsIndexed
  <2>1. disk[r] <= index[r] /\ index[r] <= file[r]
    BY DEF OrderIInv, OrderInv
  <2>2. index[r] \in Nat /\ file[r] \in Nat
    BY SeedAssumption DEF OrderIInv, SeedTypeOK, Hashes, Versions
  <2> QED
    BY <2>1, <2>2
<1> QED
  BY <1>1, <1>2, <1>3, SeedTypeCorrect, PTL DEF Spec
-----------------------------------------------------------------------------
(* Acknowledgements.                                                       *)

\* A hash is saved only after its POST was acknowledged (_persist_chunk):
\* also what runs hold was, and what they load is saved.
THEOREM SavedIsAcknowledged == Spec => []SavedWasAcknowledged
<1>1. Init => AckIInv
  BY DEF Init, AckIInv, SavedWasAcknowledged, Nothing
<1>2. SeedTypeOK /\ HandInv /\ AckIInv /\ [Next]_vars => AckIInv'
  <2> SUFFICES ASSUME SeedTypeOK, HandInv, AckIInv, [Next]_vars PROVE AckIInv'
    OBVIOUS
  <2> DEFINE Acked(h) == \A r \in Rules : h[r] # 0 => h[r] \in acked[r]
  <2>a. Acked(disk) /\ Acked(Nothing) /\ \A p \in Procs : Acked(new[p])
    BY DEF AckIInv, SavedWasAcknowledged, Nothing
  <2>b. ASSUME UNCHANGED acked, Acked(disk'), \A p \in Procs : Acked(new'[p])
        PROVE  AckIInv'
    BY <2>b DEF AckIInv, SavedWasAcknowledged, Rules
  <2>1. ASSUME NEW p \in Procs, NEW o \in Options, NEW h,
               Locals(p, o, h), Acked(h)
        PROVE  \A q \in Procs : Acked(new'[q])
    BY <2>1, <2>a DEF Locals, SeedTypeOK
  <2>2. ASSUME NEW p \in Procs, NEW o \in Options, Begin(p, o) PROVE AckIInv'
    <3>1. Acked(IF o.force THEN Nothing ELSE disk)
      BY <2>a
    <3>2. \A q \in Procs : Acked(new'[q])
      BY <2>1, <2>2, <3>1 DEF Begin
    <3> QED
      BY <2>2, <2>a, <2>b, <3>2 DEF Begin
  <2>3. ASSUME NEW p \in Procs, Return(p) \/ Kill(p) PROVE AckIInv'
    <3>1. Plain \in Options
      BY DEF Plain, Options, AllRules
    <3>2. \A q \in Procs : Acked(new'[q])
      BY <2>1, <2>3, <2>a, <3>1 DEF Return, Kill, End
    <3> QED
      BY <2>3, <2>a, <2>b, <3>2 DEF Return, Kill, End
  <2>4. ASSUME NEW p \in Procs, NEW outcome \in {"answered", "lost", "failed"},
               Post(p, outcome)
        PROVE  AckIInv'
    <3>1. UNCHANGED disk /\ at[p] \in Rules
      BY <2>4 DEF Post, HandInv, Busy
    <3>2. CASE Answered(outcome)
      <4>1. /\ acked' = [acked EXCEPT ![at[p]] = @ \cup {got[p]}]
            /\ new' = [new EXCEPT ![p] = [new[p] EXCEPT ![at[p]] = got[p]]]
        BY <2>4, <3>2 DEF Post, Answered
      <4>2. \A r \in Rules : acked[r] \subseteq acked'[r]
        BY <4>1 DEF SeedTypeOK
      <4>3. got[p] \in acked'[at[p]]
        BY <3>1, <4>1 DEF SeedTypeOK
      <4>4. \A q \in Procs, r \in Rules :
                new'[q][r] = new[q][r] \/ (new'[q][r] = got[p] /\ r = at[p])
        BY <4>1 DEF SeedTypeOK, Hashes
      <4> QED
        BY <2>a, <3>1, <4>2, <4>3, <4>4 DEF AckIInv, SavedWasAcknowledged
    <3>3. CASE ~Answered(outcome)
      BY <2>4, <2>a, <2>b, <3>1, <3>3 DEF Post, Answered
    <3> QED
      BY <3>2, <3>3
  <2>5. ASSUME NEW p \in Procs, Save(p) \/ Write(p) PROVE AckIInv'
    BY <2>5, <2>a, <2>b DEF Save, Write
  <2>6. CASE UNCHANGED <<disk, new, acked>>
    BY <2>6, <2>a, <2>b
  <2>7. ASSUME NEW p \in Procs, NEW ok \in BOOLEAN,
               PassOver(p) \/ Look(p) \/ Embed(p, ok)
        PROVE  AckIInv'
    BY <2>6, <2>7 DEF PassOver, Look, Embed
  <2>8. CASE \/ \E r \in Rules : Edit(r) \/ Repair(r) \/ Revert(r)
             \/ SeedBuiltin \/ (\E ok \in BOOLEAN : IndexBuiltin(ok))
             \/ UNCHANGED vars
    BY <2>6, <2>8 DEF Edit, Repair, Revert, Rewrite, SeedBuiltin, IndexBuiltin,
       runVars, vars
  <2> QED
    BY <2>2, <2>3, <2>4, <2>5, <2>7, <2>8 DEF Next, Step
<1>3. AckIInv => SavedWasAcknowledged
  BY DEF AckIInv
<1>4. Init /\ SeedTypeOK => HandInv
  BY DEF Init, HandInv, Busy
<1>5. SeedTypeOK /\ HandInv /\ [Next]_vars => HandInv'
  BY HandNext
<1> QED
  BY <1>1, <1>2, <1>3, <1>4, <1>5, SeedTypeCorrect, PTL DEF Spec
-----------------------------------------------------------------------------
(* What a run without errors leaves.                                       *)

\* The files of its list that a run is past.
Passed(p) == {r \in Scope(opts[p]) : Looping(p) => r < at[p]}
Clean(p)  == Running(p) /\ ~errors[p] /\ ~opts[p].dry

\* What a run without errors has behind it is as it read it, what it has
\* before it is as it loaded it, and a run alone saves what it holds.
PassedOf(p) ==
    Clean(p) => \A r \in Passed(p) :
        /\ seen[p][r] # 0 /\ new[p][r] = seen[p][r]
        /\ r \notin tainted => index[r] = seen[p][r]
LoadedOf(p) ==
    Looping(p) =>
        /\ \A r \in Rules : at[p] <= r => new[p][r] = state[p][r]
        /\ alone[p] /\ ~opts[p].force => disk = state[p]
        /\ opts[p].force => state[p] = Nothing
SavedOf(p) == Clean(p) /\ alone[p] /\ pc[p] = "done" => disk = new[p]
RunOf(p) == PassedOf(p) /\ LoadedOf(p) /\ SavedOf(p)

\* A step of a run keeps it for that run.
LEMMA OwnRun ==
    ASSUME OrderIInv, NEW p \in Procs, RunOf(p),
           Step(p) \/ Kill(p) \/ \E o \in Options : Begin(p, o)
    PROVE  RunOf(p)'
<1> USE DEF RunOf, SeedTypeOK, OrderIInv
<1>t. at[p] \in Nat /\ Scope(opts[p]) \subseteq Rules /\ Scope(opts[p]) # {}
  <2>1. at[p] \in Nat /\ opts[p] \in Options
    BY SeedAssumption
  <2>2. 1 \in Rules
    BY SeedAssumption DEF Rules
  <2>3. opts[p].only = AllRules \/ opts[p].only \in Rules
    BY <2>1 DEF Options
  <2> QED
    BY <2>1, <2>2, <2>3 DEF Scope
<1>a. \A r \in Rules : r \notin tainted /\ Running(p) => alone[p]
  BY DEF AloneInv
<1>1. ASSUME NEW o \in Options, Begin(p, o) PROVE RunOf(p)'
  <2>1. pc'[p] = "look" /\ at'[p] = 1 /\ opts'[p] = o /\ disk' = disk
        /\ state'[p] = (IF o.force THEN Nothing ELSE disk)
        /\ new'[p] = state'[p]
    BY <1>1 DEF Begin, Locals, Goto
  <2>2. Passed(p)' = {}
    BY <2>1 DEF Passed, Looping, Scope, Rules, Options
  <2> QED
    BY <2>1, <2>2 DEF PassedOf, LoadedOf, SavedOf
<1>2. CASE PassOver(p)
  <2>1. /\ at'[p] = at[p] + 1 /\ pc'[p] = "look" /\ pc[p] = "look"
        /\ UNCHANGED <<opts, state, new, seen, errors, tainted, index, disk,
                       alone>>
        /\ at[p] \notin Scope(opts[p])
    BY <1>2 DEF PassOver, NextFile, Goto, setVars
  <2>2. Passed(p)' \subseteq Passed(p)
    BY <1>t, <2>1 DEF Passed, Looping, Scope, Rules
  <2>3. PassedOf(p)'
    BY <2>1, <2>2 DEF PassedOf, Clean, Running
  <2>4. \A r \in Rules : at'[p] <= r => at[p] <= r
    BY <1>t, <2>1 DEF Rules
  <2> QED
    BY <2>1, <2>3, <2>4 DEF LoadedOf, SavedOf, Looping
<1>3. CASE Look(p)
  <2> DEFINE r == at[p]
  <2>1. r \in Rules /\ r \in Scope(opts[p]) /\ pc[p] = "look"
        /\ UNCHANGED <<opts, state, new, tainted, index, disk, alone>>
    BY <1>t, <1>3 DEF Look, setVars
  <2>2. at'[p] \in {r, r + 1} /\ pc'[p] \in {"look", "embed"}
    BY <1>3 DEF Look, NextFile, Goto
  <2>3. LoadedOf(p)' /\ SavedOf(p)'
    <3>1. \A s \in Rules : at'[p] <= s => r <= s
      BY <1>t, <2>2 DEF Rules
    <3> QED
      BY <2>1, <2>2, <3>1 DEF LoadedOf, SavedOf, Looping
  <2>4. CASE r \in broken \/ opts[p].dry
    <3>1. errors'[p] \/ opts'[p].dry
      BY <1>3, <2>1, <2>4 DEF Look, Error
    <3> QED
      BY <2>3, <3>1 DEF PassedOf, Clean
  <2>5. CASE r \notin broken /\ ~opts[p].dry
    <3>1. /\ \A s \in Rules : seen'[p][s] = IF s = r THEN file[r]
                                                      ELSE seen[p][s]
          /\ UNCHANGED errors
      BY <1>3, <2>1, <2>5 DEF Look, Hashes
    <3>2. CASE Skips(p)
      <4>1. at'[p] = r + 1 /\ pc'[p] = "look"
        BY <1>3, <2>5, <3>2 DEF Look, NextFile, Goto
      <4>2. \A s \in Passed(p)' : s = r \/ s \in Passed(p)
        BY <1>t, <2>1, <4>1 DEF Passed, Looping, Scope, Rules
      <4>3. new[p][r] = file[r] /\ file[r] # 0
        BY <1>t, <2>1, <3>2 DEF Skips, SameHash, LoadedOf, Looping, Versions
      <4>4. r \notin tainted => index[r] = file[r]
        <5>1. SUFFICES ASSUME r \notin tainted PROVE index[r] = file[r]
          OBVIOUS
        <5>2. disk[r] = file[r]
          BY <1>a, <2>1, <3>2, <5>1 DEF Skips, SameHash, LoadedOf, Looping,
             Running
        <5>3. disk[r] <= index[r] /\ index[r] <= file[r]
          BY <2>1, <5>1 DEF OrderInv
        <5>4. index[r] \in Nat /\ file[r] \in Nat
          BY <2>1, SeedAssumption DEF Hashes, Versions
        <5> QED
          BY <5>2, <5>3, <5>4
      <4>5. PassedOf(p)'
        BY <1>t, <2>1, <3>1, <4>2, <4>3, <4>4 DEF PassedOf, Clean, Running,
           Passed
      <4> QED
        BY <2>3, <4>5
    <3>3. CASE ~Skips(p)
      <4>1. at'[p] = r /\ pc'[p] = "embed"
        BY <1>3, <2>5, <3>3 DEF Look, Goto
      <4>2. \A s \in Passed(p)' : s # r /\ s \in Passed(p)
        BY <1>t, <2>1, <4>1 DEF Passed, Looping, Busy, Scope, Rules
      <4>3. PassedOf(p)'
        BY <1>t, <2>1, <3>1, <4>2 DEF PassedOf, Clean, Running, Passed
      <4> QED
        BY <2>3, <4>3
    <3> QED
      BY <3>2, <3>3
  <2> QED
    BY <2>4, <2>5
<1>4. ASSUME NEW ok \in BOOLEAN, Embed(p, ok) PROVE RunOf(p)'
  <2>1. /\ pc[p] = "embed"
        /\ UNCHANGED <<opts, state, new, seen, tainted, index, disk, alone>>
    BY <1>4 DEF Embed, setVars
  <2>2. CASE pc'[p] = "post" /\ UNCHANGED <<at, errors>>
    <3>1. Passed(p)' = Passed(p)
      BY <2>1, <2>2 DEF Passed, Looping, Busy, Scope, Rules
    <3> QED
      BY <2>1, <2>2, <3>1 DEF PassedOf, LoadedOf, SavedOf, Looping, Busy, Clean,
         Running
  <2>3. CASE errors'[p] /\ at'[p] = at[p] + 1 /\ pc'[p] = "look"
    <3>1. \A s \in Rules : at'[p] <= s => at[p] <= s
      BY <1>t, <2>3 DEF Rules
    <3> QED
      BY <2>1, <2>3, <3>1 DEF PassedOf, LoadedOf, SavedOf, Looping, Busy, Clean
  <2> QED
    BY <1>4, <2>2, <2>3 DEF Embed, Goto, NextFile, Error
<1>5. ASSUME NEW outcome \in {"answered", "lost", "failed"}, Post(p, outcome)
      PROVE  RunOf(p)'
  <2> DEFINE r == at[p]
  <2>1. /\ pc[p] = "post" /\ pc'[p] = "look" /\ at'[p] = r + 1
        /\ UNCHANGED <<opts, state, seen, tainted, disk, alone>>
    BY <1>5 DEF Post, NextFile, Goto, envVars, fileVars, setVars
  <2>2. r \in Rules /\ got[p] = seen[p][r] /\ got[p] # 0
    BY <2>1 DEF HandInv, Busy
  <2>3. \A s \in Rules : r + 1 <= s => r <= s /\ s # r
    BY <1>t DEF Rules
  <2>4. \A s \in Rules : s # r => new'[p][s] = new[p][s]
    BY <1>5 DEF Post, Hashes
  <2>5. LoadedOf(p)' /\ SavedOf(p)'
    BY <2>1, <2>3, <2>4 DEF LoadedOf, SavedOf, Looping, Busy
  <2>6. CASE ~Answered(outcome)
    BY <1>5, <2>5, <2>6 DEF Post, Error, PassedOf, Clean
  <2>7. CASE Answered(outcome)
    <3>1. new'[p][r] = got[p] /\ UNCHANGED errors
      BY <1>5, <2>2, <2>7 DEF Post, Hashes
    <3>2. \A s \in Rules : index'[s] = IF s = r THEN got[p] ELSE index[s]
      BY <1>5, <2>2, <2>7 DEF Post, Upsert, Answered, Hashes
    <3>3. \A s \in Passed(p)' : s \in Rules /\ (s = r \/ s \in Passed(p))
      BY <1>t, <2>1 DEF Passed, Looping, Busy, Scope, Rules
    <3>4. PassedOf(p)'
      BY <2>1, <2>2, <2>4, <3>1, <3>2, <3>3 DEF PassedOf, Clean, Running
    <3> QED
      BY <2>5, <3>4
  <2> QED
    BY <2>6, <2>7
<1>6. CASE Save(p)
  <2>1. /\ pc[p] = "look" /\ at[p] = NRules + 1 /\ pc'[p] \in {"writing", "done"}
        /\ UNCHANGED <<opts, state, new, seen, errors, tainted, index, alone>>
    BY <1>6 DEF Save, Goto, setVars
  <2>2. Passed(p) = Scope(opts[p])
    BY <1>t, <2>1, SeedAssumption DEF Passed, Rules
  <2>3. PassedOf(p)'
    BY <2>1, <2>2 DEF PassedOf, Passed, Clean, Running, Scope, Rules
  <2>4. SavedOf(p)'
    <3>1. SUFFICES ASSUME Clean(p)', alone[p], pc'[p] = "done"
                   PROVE  disk' = new[p]
      BY <2>1 DEF SavedOf
    <3>2. Clean(p)
      BY <2>1, <3>1 DEF Clean, Running
    <3>3. new[p] = state[p] /\ disk' = disk
      BY <1>6, <3>1, <3>2 DEF Save, Goto, Clean
    <3>4. PICK r \in Scope(opts[p]) : TRUE
      BY <1>t
    <3>5. new[p][r] # 0
      BY <2>2, <3>2, <3>4 DEF PassedOf
    <3>6. ~opts[p].force
      BY <1>t, <2>1, <3>3, <3>4, <3>5 DEF LoadedOf, Looping, Nothing
    <3> QED
      BY <2>1, <3>1, <3>3, <3>6 DEF LoadedOf, Looping
  <2> QED
    BY <2>1, <2>3, <2>4 DEF LoadedOf, Looping, Busy
<1>7. CASE Write(p)
  <2>1. /\ pc[p] = "writing" /\ pc'[p] = "done" /\ disk' = new[p]
        /\ UNCHANGED <<opts, new, seen, errors, index>>
        /\ \A r \in tainted \ tainted' : new[p][r] = index[r]
    BY <1>7 DEF Write, Goto, setVars
  <2>2. Passed(p)' = Passed(p)
    BY <2>1 DEF Passed, Looping, Busy, Scope, Rules
  <2>3. PassedOf(p)'
    BY <2>1, <2>2 DEF PassedOf, Clean, Running
  <2> QED
    BY <2>1, <2>3 DEF LoadedOf, SavedOf, Looping, Busy
<1>8. CASE Return(p) \/ Kill(p)
  <2>1. pc'[p] = "idle"
    BY <1>8 DEF Return, Kill, End, Goto
  <2> QED
    BY <2>1 DEF PassedOf, LoadedOf, SavedOf, Looping, Busy, Clean, Running
<1> QED
  BY <1>1, <1>2, <1>3, <1>4, <1>5, <1>6, <1>7, <1>8 DEF Step

\* A step of p keeps it for every other run: beside it nothing is relied on.
LEMMA OtherRuns ==
    ASSUME OrderIInv, OrderIInv', NEW p \in Procs, NEW q \in Procs \ {p},
           RunOf(q), Step(p) \/ Kill(p) \/ \E o \in Options : Begin(p, o)
    PROVE  RunOf(q)'
<1>1. /\ pc'[q] = pc[q] /\ opts'[q] = opts[q] /\ at'[q] = at[q]
      /\ state'[q] = state[q] /\ new'[q] = new[q]
      /\ seen'[q] = seen[q] /\ errors'[q] = errors[q]
  BY OwnLocals DEF OrderIInv
<1>2. CASE ~Running(q)
  BY <1>1, <1>2 DEF RunOf, PassedOf, LoadedOf, SavedOf, Running, Clean, Looping,
     Busy
<1>3. CASE Running(q)
  <2>1. ~alone'[q] /\ tainted' = Rules
    <3>1. CASE Running(p)
      <4>1. ~alone[q] /\ ~alone[p] /\ tainted = Rules
        BY <1>3, <3>1 DEF OrderIInv, AloneInv
      <4>2. alone'[q] = alone[q]
        BY <3>1 DEF Step, Kill, Begin, PassOver, Look, Embed, Post, Save, Write,
           Return, End, setVars, OrderIInv, SeedTypeOK
      <4> QED
        BY <1>1, <1>3, <4>1, <4>2 DEF OrderIInv, AloneInv, Running
    <3>2. CASE ~Running(p)
      <4>1. PICK o \in Options : Begin(p, o)
        BY <3>2 DEF Step, Kill, PassOver, Look, Embed, Post, Save, Write, Return,
           Running
      <4>2. Running(p)'
        BY <4>1 DEF Begin, Goto, Running, OrderIInv, SeedTypeOK
      <4> QED
        BY <1>1, <1>3, <4>2 DEF OrderIInv, AloneInv, Running
    <3> QED
      BY <3>1, <3>2
  <2>2. Passed(q)' = Passed(q) /\ Scope(opts[q]) \subseteq Rules
    BY <1>1 DEF Passed, Looping, Busy, Scope, Rules, OrderIInv, SeedTypeOK, Options
  <2> QED
    BY <1>1, <2>1, <2>2 DEF RunOf, PassedOf, LoadedOf, SavedOf, Running, Clean,
       Looping, Busy, Passed
<1> QED
  BY <1>2, <1>3

\* A run that exits with 0 has every file of its list indexed as it read it,
\* and saved its hash (seed() and _save_state).
THEOREM ZeroMeansIndexed == Spec => []ExitZeroMeansIndexed
<1> DEFINE Runs == \A p \in Procs : RunOf(p)
<1>1. Init => Runs
  BY DEF Init, RunOf, PassedOf, LoadedOf, SavedOf, Clean, Running, Looping, Busy
<1>2. Runs /\ OrderIInv /\ OrderIInv' /\ [Next]_vars => Runs'
  <2> SUFFICES ASSUME Runs, OrderIInv, OrderIInv', [Next]_vars, NEW p \in Procs
               PROVE  RunOf(p)'
    OBVIOUS
  <2>1. CASE \E q \in Procs : Step(q) \/ Kill(q) \/ \E o \in Options : Begin(q, o)
    BY <2>1, OwnRun, OtherRuns
  <2>2. ASSUME UNCHANGED <<disk, runVars>>, tainted \subseteq tainted',
               \A r \in Rules \ tainted' : index'[r] = index[r]
        PROVE  RunOf(p)'
    <3>1. Passed(p)' = Passed(p) /\ Passed(p) \subseteq Rules
      BY <2>2 DEF Passed, Looping, Busy, Scope, Rules, runVars, OrderIInv,
         SeedTypeOK, Options
    <3> QED
      BY <2>2, <3>1 DEF RunOf, PassedOf, LoadedOf, SavedOf, Clean, Running,
         Looping, Busy, runVars
  <2>3. CASE \E r \in Rules : Edit(r) \/ Repair(r) \/ Revert(r)
    BY <2>2, <2>3 DEF Edit, Repair, Revert, Rewrite
  <2>4. ASSUME NEW ok \in BOOLEAN, IndexBuiltin(ok) PROVE RunOf(p)'
    BY <2>2, <2>4 DEF IndexBuiltin, Upsert, OrderIInv, SeedTypeOK, Hashes
  <2>5. CASE SeedBuiltin \/ UNCHANGED vars
    BY <2>2, <2>5 DEF SeedBuiltin, vars, envVars
  <2> QED
    BY <2>1, <2>3, <2>4, <2>5 DEF Next
<1>3. Runs /\ OrderIInv => ExitZeroMeansIndexed
  <2> SUFFICES ASSUME Runs, OrderIInv, NEW p \in Procs, pc[p] = "done",
                      ~errors[p], ~opts[p].dry,
                      NEW r \in Scope(opts[p]) \ tainted
               PROVE  /\ seen[p][r] # 0 /\ index[r] = seen[p][r]
                      /\ disk[r] = seen[p][r]
    BY DEF ExitZeroMeansIndexed, ExitCode
  <2>1. r \in Rules /\ r \in Passed(p) /\ Clean(p)
    BY DEF Passed, Looping, Busy, Clean, Running, Scope, OrderIInv, SeedTypeOK,
       Options
  <2>2. alone[p]
    BY <2>1 DEF OrderIInv, AloneInv, Clean
  <2> QED
    BY <2>1, <2>2 DEF RunOf, PassedOf, SavedOf
<1>4. Init /\ SeedTypeOK => OrderIInv
  BY SeedAssumption DEF Init, OrderIInv, AloneInv, OrderInv, HandInv, NewInv,
     Nothing, Running, Busy, Rules, Versions
<1>5. OrderIInv /\ SeedTypeOK' /\ [Next]_vars => OrderIInv'
  BY OrderNext, HandNext DEF OrderIInv
<1> QED
  BY <1>1, <1>2, <1>3, <1>4, <1>5, SeedTypeCorrect, PTL DEF Spec
=============================================================================
