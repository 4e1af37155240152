----------------------------- MODULE SeedRules -----------------------------
(***************************************************************************)
(* Rule documents on their way into the search index of titlis-api.        *)
(*                                                                         *)
(* scripts/seed_rules.py embeds every YAML file whose hash differs from    *)
(* the one in a state file, posts it, and writes the state file once, at   *)
(* the end.  Two processes run it on the same directory: the service, at   *)
(* every start (main.py), and a person, with options.  POST /knowledge/seed *)
(* writes other texts under the same keys, without any hash.               *)
(*                                                                         *)
(* A file is known by its version, and a hash by the version it is of;     *)
(* version 0 is no file's: no hash, nothing indexed, or a built-in text.   *)
(* Files change, are broken and reverted while all this goes on; processes *)
(* are killed, the embedding and the POST fail, answers are lost.          *)
(***************************************************************************)
EXTENDS Naturals

CONSTANTS
    Procs,       \* processes that may run seed()
    Startup,     \* the one that is the service
    NRules,      \* rule files 1 .. NRules, in sorted order
    MaxVersion,  \* bound: versions of a file
    MaxRuns,     \* bound: runs of seed()
    MaxChanges   \* bound: changes to files, and runs of POST /knowledge/seed

ASSUME SeedAssumption ==
    /\ Startup \in Procs
    /\ NRules \in Nat \ {0}
    /\ MaxVersion \in Nat \ {0}
    /\ MaxRuns \in Nat
    /\ MaxChanges \in Nat

Rules    == 1 .. NRules
Versions == 0 .. MaxVersion
Hashes   == [Rules -> Versions]
Nothing  == [r \in Rules |-> 0]

\* --rule, --force and --dry-run; the service gives none.
AllRules == 0
Options  == [only : {AllRules} \cup Rules, force : BOOLEAN, dry : BOOLEAN]
Plain    == [only |-> AllRules, force |-> FALSE, dry |-> FALSE]
Scope(o) == IF o.only = AllRules THEN Rules ELSE {o.only}

\* What becomes of the vectors of EMBED_MODEL, by their length and
\* SEED_SKIP_DIM_CHECK: they have API_REQUIRED_DIMS or are padded to it; are
\* refused here; or are too long and not cut, and titlis-api refuses them.
VectorKinds == {"fit", "refused", "long"}

Places == {"idle", "look", "embed", "post", "save", "writing", "done"}

VARIABLES
    file,      \* version of each rule file
    broken,    \* files that cannot be parsed
    vectors,   \* kind of the vectors
    disk,      \* the state file; empty also while it is torn
    index,     \* what is indexed for each rule
    pc, opts,
    at,        \* per process: the file its loop is at
    state,     \* the hashes it loaded
    new,       \* new_state
    got,       \* version it read of the current file
    errors,    \* whether it counted an error
    builtin,   \* where the loop of POST /knowledge/seed is; 0: not running
    runs, changes,  \* begun and made, for the bounds
    acked,     \* history: versions whose POST was answered with success
    seen,      \* history: versions this run read
    alone,     \* history: whether it had no other run beside it
    tainted    \* history: rules for which the hash may be wrong

fileVars == <<file, broken, changes>>
envVars  == <<fileVars, vectors, builtin>>
runVars  == <<pc, opts, at, state, new, got, errors, seen, alone>>
setVars  == <<opts, state, alone, runs>>    \* fixed when a run begins
vars == <<envVars, disk, index, runVars, runs, acked, tainted>>

SeedTypeOK ==
    /\ file \in [Rules -> Versions \ {0}] /\ broken \subseteq Rules
    /\ vectors \in VectorKinds
    /\ disk \in Hashes /\ index \in Hashes
    /\ pc \in [Procs -> Places] /\ opts \in [Procs -> Options]
    /\ at \in [Procs -> 1 .. NRules + 1]
    /\ state \in [Procs -> Hashes] /\ new \in [Procs -> Hashes]
    /\ got \in [Procs -> Versions] /\ seen \in [Procs -> Hashes]
    /\ errors \in [Procs -> BOOLEAN] /\ alone \in [Procs -> BOOLEAN]
    /\ builtin \in 0 .. NRules
    /\ runs \in 0 .. MaxRuns /\ changes \in 0 .. MaxChanges
    /\ acked \in [Rules -> SUBSET Versions]
    /\ tainted \subseteq Rules

Init ==
    /\ file \in [Rules -> Versions \ {0}] /\ broken = {}
    /\ vectors \in VectorKinds
    /\ disk = Nothing /\ index = Nothing
    /\ pc = [p \in Procs |-> "idle"] /\ opts = [p \in Procs |-> Plain]
    /\ at = [p \in Procs |-> 1]
    /\ state = [p \in Procs |-> Nothing] /\ new = [p \in Procs |-> Nothing]
    /\ got = [p \in Procs |-> 0] /\ seen = [p \in Procs |-> Nothing]
    /\ errors = [p \in Procs |-> FALSE] /\ alone = [p \in Procs |-> TRUE]
    /\ builtin = 0 /\ runs = 0 /\ changes = 0
    /\ acked = [r \in Rules |-> {}] /\ tainted = {}
-----------------------------------------------------------------------------
(* A run of seed().                                                        *)

Running(p) == pc[p] # "idle"
Goto(p, place) == pc' = [pc EXCEPT ![p] = place]

\* The locals of a run with options o that loaded the hashes h.
Locals(p, o, h) ==
    /\ opts' = [opts EXCEPT ![p] = o]
    /\ at' = [at EXCEPT ![p] = 1]
    /\ state' = [state EXCEPT ![p] = h]
    /\ new' = [new EXCEPT ![p] = h]
    /\ got' = [got EXCEPT ![p] = 0]
    /\ seen' = [seen EXCEPT ![p] = Nothing]
    /\ errors' = [errors EXCEPT ![p] = FALSE]

\* _load_state, and the loop begins.  A run beside another may do anything to
\* the hashes, so it taints them all.
Begin(p, o) ==
    LET others == {q \in Procs \ {p} : Running(q)} IN
    /\ ~Running(p) /\ runs < MaxRuns
    /\ p = Startup => o = Plain
    /\ Goto(p, "look")
    /\ Locals(p, o, IF o.force THEN Nothing ELSE disk)
    /\ alone' = [q \in Procs |-> IF q \in others \cup {p}
                                 THEN others = {} ELSE alone[q]]
    /\ tainted' = IF others = {} THEN tainted ELSE Rules
    /\ runs' = runs + 1
    /\ UNCHANGED <<envVars, disk, index, acked>>

NextFile(p) == at' = [at EXCEPT ![p] = @ + 1] /\ Goto(p, "look")
Error(p)    == errors' = [errors EXCEPT ![p] = TRUE]

\* A file outside --rule is not in the list.
PassOver(p) ==
    /\ pc[p] = "look" /\ at[p] \in Rules \ Scope(opts[p])
    /\ NextFile(p)
    /\ UNCHANGED <<envVars, setVars, disk, index, new, got, errors, seen,
                   acked, tainted>>

SomeHash(p) == state[p][at[p]] # 0                   \* mutant
SameHash(p) == state[p][at[p]] = file[at[p]]
Skips(p)    == ~opts[p].force /\ SameHash(p)

\* _load_rule_file, the hash, and whether anything is to be done.
Look(p) ==
    LET r == at[p] IN
    /\ pc[p] = "look" /\ r \in Scope(opts[p])
    /\ IF r \in broken
       THEN Error(p) /\ NextFile(p) /\ UNCHANGED <<got, seen>>
       ELSE /\ got' = [got EXCEPT ![p] = file[r]]
            /\ seen' = [seen EXCEPT ![p][r] = file[r]]
            /\ IF Skips(p) \/ opts[p].dry
               THEN NextFile(p)
               ELSE Goto(p, "embed") /\ UNCHANGED at
            /\ UNCHANGED errors
    /\ UNCHANGED <<envVars, setVars, disk, index, new, acked, tainted>>

\* _embed with its retries, and the check of the dimensions.
Embed(p, ok) ==
    /\ pc[p] = "embed"
    /\ IF ok /\ vectors # "refused"
       THEN Goto(p, "post") /\ UNCHANGED <<at, errors>>
       ELSE Error(p) /\ NextFile(p)
    /\ UNCHANGED <<envVars, setVars, disk, index, new, got, seen, acked,
                   tainted>>

\* titlis-api replaces what it has under the key of the rule.
Upsert(r, v) == index' = [index EXCEPT ![r] = v]

AnyOutcome(outcome) == TRUE                           \* mutant
NotFailed(outcome)  == outcome # "failed"             \* mutant
Answered(outcome)   == outcome = "answered"

\* _persist_chunk: success, success whose answer is lost, or no success.
Post(p, outcome) ==
    LET r == at[p] IN
    /\ pc[p] = "post"
    /\ IF outcome = "failed"
       THEN UNCHANGED index
       ELSE vectors = "fit" /\ Upsert(r, got[p])
    /\ IF Answered(outcome)
       THEN /\ new' = [new EXCEPT ![p][r] = got[p]]
            /\ UNCHANGED errors
       ELSE Error(p) /\ UNCHANGED new
    /\ acked' = IF outcome = "answered"
                THEN [acked EXCEPT ![r] = @ \cup {got[p]}] ELSE acked
    /\ NextFile(p)
    /\ UNCHANGED <<envVars, setVars, disk, got, seen, tainted>>

\* The loop is over: _save_state opens the file, which empties it.
Save(p) ==
    /\ pc[p] = "look" /\ at[p] = NRules + 1
    /\ IF ~opts[p].dry /\ new[p] # state[p]
       THEN disk' = Nothing /\ Goto(p, "writing")
       ELSE Goto(p, "done") /\ UNCHANGED disk
    /\ UNCHANGED <<envVars, setVars, index, at, new, got, errors, seen, acked,
                   tainted>>

\* It writes.  After a run alone, the hashes that agree with the index and
\* are of no later version than the file can be relied on again.
Write(p) ==
    /\ pc[p] = "writing"
    /\ disk' = new[p]
    /\ Goto(p, "done")
    /\ tainted' = IF alone[p]
                  THEN {r \in tainted : new[p][r] # index[r]
                                            \/ index[r] > file[r]}
                  ELSE tainted
    /\ UNCHANGED <<envVars, setVars, index, at, new, got, errors, seen, acked>>

ExitCode(p) == IF errors[p] THEN 1 ELSE 0

\* seed() returns, or the process dies, is restarted by --reload, or the task
\* is cancelled.
End(p) ==
    /\ Goto(p, "idle")
    /\ Locals(p, Plain, Nothing)
    /\ alone' = [alone EXCEPT ![p] = TRUE]
    /\ UNCHANGED <<envVars, disk, index, runs, acked, tainted>>
Return(p) == pc[p] = "done" /\ End(p)
Kill(p)   == pc[p] \notin {"idle", "done"} /\ End(p)
-----------------------------------------------------------------------------
(* The files, and POST /knowledge/seed.                                    *)

Change == changes < MaxChanges /\ changes' = changes + 1

Rewrite(r, v, b) ==
    /\ file' = [file EXCEPT ![r] = v]
    /\ broken' = IF b THEN broken \cup {r} ELSE broken \ {r}
    /\ UNCHANGED <<vectors, builtin, disk, index, runVars, runs, acked>>

Edit(r) ==
    /\ Change /\ file[r] < MaxVersion
    /\ \E b \in BOOLEAN : Rewrite(r, file[r] + 1, b)
    /\ UNCHANGED tainted

\* The last change is made good: no change of its own.
Repair(r) ==
    /\ r \in broken
    /\ Rewrite(r, file[r], FALSE)
    /\ UNCHANGED <<changes, tainted>>

\* The file gets contents it had before.
Revert(r) ==
    /\ Change /\ file[r] > 1
    /\ Rewrite(r, file[r] - 1, FALSE)
    /\ tainted' = tainted \cup {r}

SeedBuiltin ==
    /\ builtin = 0 /\ Change
    /\ builtin' = 1
    /\ UNCHANGED <<file, broken, vectors, disk, index, runVars, runs, acked,
                   tainted>>

PastBuiltin == builtin + 1                            \* mutant
NextBuiltin == IF builtin = NRules THEN 0 ELSE builtin + 1

\* One rule of seed_global_rules; a failure is logged and the loop goes on.
IndexBuiltin(ok) ==
    /\ builtin # 0
    /\ builtin' = NextBuiltin
    /\ IF ok
       THEN Upsert(builtin, 0) /\ tainted' = tainted \cup {builtin}
       ELSE UNCHANGED <<index, tainted>>
    /\ UNCHANGED <<fileVars, vectors, disk, runVars, runs, acked>>

Step(p) ==
    \/ PassOver(p) \/ Look(p) \/ Save(p) \/ Write(p) \/ Return(p)
    \/ \E ok \in BOOLEAN : Embed(p, ok)
    \/ \E outcome \in {"answered", "lost", "failed"} : Post(p, outcome)

Next ==
    \/ \E p \in Procs : Step(p) \/ Kill(p) \/ \E o \in Options : Begin(p, o)
    \/ \E r \in Rules : Edit(r) \/ Repair(r) \/ Revert(r)
    \/ SeedBuiltin \/ \E ok \in BOOLEAN : IndexBuiltin(ok)

Spec == Init /\ [][Next]_vars
-----------------------------------------------------------------------------
(* Properties.                                                             *)

\* If the state file holds the hash of a file as it is, that file is what is
\* indexed, so skipping it leaves nothing out (seed(), the comparison of the
\* hashes), whatever failed, whenever a process was killed.  Not so for a
\* file that was reverted, a key that POST /knowledge/seed wrote, or runs side
\* by side, until a run alone has posted and saved the file again.
HashIsIndexed ==
    \A r \in Rules \ tainted : disk[r] = file[r] => index[r] = file[r]

\* A run that exits with 0 leaves every file of its scope indexed in the
\* version it read, and the hash of that version in the state file.
ExitZeroMeansIndexed ==
    \A p \in Procs : pc[p] = "done" /\ ExitCode(p) = 0 /\ ~opts[p].dry =>
        \A r \in Scope(opts[p]) \ tainted :
            /\ seen[p][r] # 0
            /\ index[r] = seen[p][r]
            /\ disk[r] = seen[p][r]

\* A hash reaches the state file only after titlis-api acknowledged the chunk
\* of that version, even with runs side by side and torn state files.
SavedWasAcknowledged == \A r \in Rules : disk[r] # 0 => disk[r] \in acked[r]
=============================================================================
