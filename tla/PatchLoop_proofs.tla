-------------------------- MODULE PatchLoop_proofs --------------------------
(***************************************************************************)
(* Proofs about the patch loop, for any numbers, suffixes and containers   *)
(* and any limits: an offered patch keeps resources, a refusal is just,    *)
(* and a run costs a bounded number of calls.                              *)
(*                                                                         *)
(* Quantities are multiplied, so each product is brought to one of three   *)
(* facts about natural numbers before the suffixes are told apart.         *)
(***************************************************************************)
EXTENDS PatchLoop, WellFoundedInduction, TLAPS

\* Bytes and the binary suffixes, which _parse_mem_mebibytes knows.
MemUnits == {"", "Ki", "Mi", "Gi", "Ti", "Pi"}

LEMMA Products ==
    /\ \A a, b \in Nat : a * b \in Nat
    /\ \A a, b \in Nat : a * b = b * a
    /\ \A a, b, d \in Nat : a * b * d = a * (b * d)
<1>1. \A a, b \in Nat : a * b \in Nat
  OBVIOUS
<1>2. \A a, b \in Nat : a * b = b * a
  OBVIOUS
<1>3. \A a, b, d \in Nat : a * b * d = a * (b * d)
  OBVIOUS
<1> QED
  BY <1>1, <1>2, <1>3, Zenon

LEMMA Exchange == \A a, b, d \in Nat : a * (b * d) = b * (a * d)
OBVIOUS

\* In bytes or a binary suffix the comparison is exact.
LEMMA MemIsExact ==
    ASSUME NEW q \in Quantities, q.unit \in MemUnits, q.n \in Nat
    PROVE  Amount(q) = Kilo * MemValue(q) /\ MemValue(q) \in Nat
<1>k. Kilo \in Nat /\ Kibi \in Nat
  BY NeverReduceAssumption
<1>m. \A a, b \in Nat : a * b \in Nat /\ a * b = b * a
  BY Products, Zenon
<1>g. /\ Kibi * Kibi \in Nat
      /\ Kibi * Kibi * Kibi \in Nat
      /\ Kibi * Kibi * Kibi * Kibi \in Nat
      /\ Kibi * Kibi * Kibi * Kibi * Kibi \in Nat
  BY <1>k, <1>m, Zenon
<1>h. /\ Kilo * Kibi * Kibi = Kilo * (Kibi * Kibi)
      /\ Kilo * Kibi * Kibi * Kibi = Kilo * (Kibi * Kibi * Kibi)
      /\ Kilo * Kibi * Kibi * Kibi * Kibi = Kilo * (Kibi * Kibi * Kibi * Kibi)
      /\ Kilo * Kibi * Kibi * Kibi * Kibi * Kibi
             = Kilo * (Kibi * Kibi * Kibi * Kibi * Kibi)
  <2>1. Kilo * Kibi * Kibi = Kilo * (Kibi * Kibi)
    BY <1>k, Products, Zenon
  <2>2. \A e \in Nat : Kilo * e * Kibi = Kilo * (e * Kibi)
    BY <1>k, Products
  <2>3. Kilo * (Kibi * Kibi) * Kibi = Kilo * (Kibi * Kibi * Kibi)
    BY <1>g, <2>2
  <2>4. Kilo * (Kibi * Kibi * Kibi) * Kibi = Kilo * (Kibi * Kibi * Kibi * Kibi)
    BY <1>g, <2>2
  <2>5. Kilo * (Kibi * Kibi * Kibi * Kibi) * Kibi
            = Kilo * (Kibi * Kibi * Kibi * Kibi * Kibi)
    BY <1>g, <2>2
  <2> QED
    BY <2>1, <2>3, <2>4, <2>5, Zenon
<1>0. ASSUME NEW d \in Nat
      PROVE  q.n * (Kilo * d) = Kilo * (q.n * d) /\ q.n * d \in Nat
  <2>1. \A n \in Nat : n * (Kilo * d) = Kilo * (n * d)
    BY <1>k, Exchange, Zenon
  <2>2. \A n \in Nat : n * d \in Nat
    BY Products, Zenon
  <2> QED
    BY <2>1, <2>2
<1>1. CASE q.unit = ""
  <2>1. Amount(q) = q.n * Kilo /\ MemValue(q) = q.n
    BY <1>1 DEF Amount, MemValue
  <2> QED
    BY <1>k, <1>m, <2>1
<1>2. CASE q.unit = "Ki"
  <2>1. Amount(q) = q.n * (Kilo * Kibi) /\ MemValue(q) = q.n * Kibi
    BY <1>2 DEF Amount, MemValue
  <2>2. Kibi \in Nat
    BY <1>k
  <2> QED
    BY <1>0, <2>1, <2>2, Zenon
<1>3. CASE q.unit = "Mi"
  <2>1. /\ Amount(q) = q.n * (Kilo * Kibi * Kibi)
        /\ MemValue(q) = q.n * (Kibi * Kibi)
    BY <1>3 DEF Amount, MemValue
  <2> QED
    BY <1>g, <1>h, <1>0, <2>1, Zenon
<1>4. CASE q.unit = "Gi"
  <2>1. /\ Amount(q) = q.n * (Kilo * Kibi * Kibi * Kibi)
        /\ MemValue(q) = q.n * (Kibi * Kibi * Kibi)
    BY <1>4 DEF Amount, MemValue
  <2> QED
    BY <1>g, <1>h, <1>0, <2>1, Zenon
<1>5. CASE q.unit = "Ti"
  <2>1. /\ Amount(q) = q.n * (Kilo * Kibi * Kibi * Kibi * Kibi)
        /\ MemValue(q) = q.n * (Kibi * Kibi * Kibi * Kibi)
    BY <1>5 DEF Amount, MemValue
  <2> QED
    BY <1>g, <1>h, <1>0, <2>1, Zenon
<1>6. CASE q.unit = "Pi"
  <2>1. /\ Amount(q) = q.n * (Kilo * Kibi * Kibi * Kibi * Kibi * Kibi)
        /\ MemValue(q) = q.n * (Kibi * Kibi * Kibi * Kibi * Kibi)
    BY <1>6 DEF Amount, MemValue
  <2> QED
    BY <1>g, <1>h, <1>0, <2>1, Zenon
<1> QED
  BY <1>1, <1>2, <1>3, <1>4, <1>5, <1>6 DEF MemUnits

\* _violated has the right sense: what it lets pass is no smaller to
\* Kubernetes, if the suffixes compare.
LEMMA PassedIsKept ==
    ASSUME NEW c \in Quantities, NEW p \in Quantities,
           Comparable(c, p), ~ Violated(c, p)
    PROVE  Amount(p) >= Amount(c)
<1>k. /\ Kilo \in Nat /\ Kibi \in Nat /\ Kilo >= 1 /\ Kibi >= 1
      /\ c.n \in Nat /\ p.n \in Nat
      /\ c.unit \in KnownUnits /\ p.unit \in KnownUnits \cup OtherUnits
  <2>1. Kilo \in Nat /\ Kibi \in Nat /\ Kilo >= 1 /\ Kibi >= 1
    BY NeverReduceAssumption
  <2>2. c.n \in Numbers /\ p.n \in Numbers /\ p.unit \in Units
    BY DEF Quantities
  <2> QED
    BY <2>1, <2>2, NeverReduceAssumption DEF Comparable
<1>m. \A a, b \in Nat : a * b \in Nat /\ (b >= 1 => a * b >= a)
  OBVIOUS
<1>c. \A a, b \in Nat : a * b \in Nat /\ a * b = b * a
  OBVIOUS
<1>o. \A a, b, d \in Nat : a <= b => d * a <= d * b
  OBVIOUS
<1>f. /\ Kilo * Kibi \in Nat /\ Kilo * Kibi >= Kilo
      /\ Kilo * Kibi * Kibi \in Nat /\ Kilo * Kibi * Kibi >= Kilo
      /\ Kilo * Kibi * Kibi * Kibi \in Nat /\ Kilo * Kibi * Kibi * Kibi >= Kilo
      /\ Kilo * Kibi * Kibi * Kibi * Kibi \in Nat
      /\ Kilo * Kibi * Kibi * Kibi * Kibi >= Kilo
      /\ Kilo * Kibi * Kibi * Kibi * Kibi * Kibi \in Nat
      /\ Kilo * Kibi * Kibi * Kibi * Kibi * Kibi >= Kilo
  <2>1. Kilo * Kibi \in Nat /\ Kilo * Kibi >= Kilo
    BY <1>k, <1>m
  <2>2. Kilo * Kibi * Kibi \in Nat /\ Kilo * Kibi * Kibi >= Kilo * Kibi
    BY <1>k, <1>m, <2>1
  <2>3. /\ Kilo * Kibi * Kibi * Kibi \in Nat
        /\ Kilo * Kibi * Kibi * Kibi >= Kilo * Kibi * Kibi
    BY <1>k, <1>m, <2>2
  <2>4. /\ Kilo * Kibi * Kibi * Kibi * Kibi \in Nat
        /\ Kilo * Kibi * Kibi * Kibi * Kibi >= Kilo * Kibi * Kibi * Kibi
    BY <1>k, <1>m, <2>3
  <2>5. /\ Kilo * Kibi * Kibi * Kibi * Kibi * Kibi \in Nat
        /\ Kilo * Kibi * Kibi * Kibi * Kibi * Kibi >= Kilo * Kibi * Kibi * Kibi * Kibi
    BY <1>k, <1>m, <2>4
  <2> QED
    BY <1>k, <2>1, <2>2, <2>3, <2>4, <2>5
<1>g. /\ Kilo * Kilo \in Nat /\ Kilo * Kilo * Kilo \in Nat
      /\ Kilo * Kilo * Kilo * Kilo \in Nat
  BY <1>k, <1>m
<1>v. p.unit \in OtherUnits => Amount(p) \in Nat
  <2>1. \A a \in Nat : p.n * a \in Nat
    BY <1>k, <1>m
  <2> QED
    BY <1>g, <2>1 DEF Amount, OtherUnits
<1>w. ASSUME NEW q \in Quantities, q.unit \in MemUnits,
             q.n \in Nat
      PROVE  Amount(q) = Kilo * MemValue(q) /\ MemValue(q) \in Nat
  BY <1>w, MemIsExact
<1>1. CASE IsCpu(c)
  <2>1. Amount(c) = CpuValue(c) /\ CpuValue(c) \in Nat
    BY <1>1, <1>k, <1>m DEF IsCpu, Amount, CpuValue, OtherUnits
  <2>2. CpuValue(p) \in Nat
    BY <1>k, <1>m DEF CpuValue
  <2>3. CpuValue(p) >= CpuValue(c)
    BY <1>1, <2>1, <2>2 DEF Violated
  <2>4. Amount(p) \in Nat /\ Amount(p) >= CpuValue(p)
    <3>1. CASE p.unit \in OtherUnits
      <4>1. CpuValue(p) = 0
        BY <3>1 DEF CpuValue, OtherUnits
      <4> QED
        BY <1>v, <3>1, <4>1
    <3>2. CASE p.unit \in {"m", ""}
      <4>1. Amount(p) = CpuValue(p)
        BY <3>2 DEF Amount, CpuValue, OtherUnits
      <4> QED
        BY <2>2, <4>1
    <3>3. CASE p.unit = "Ki"
      <4>1. Amount(p) = p.n * (Kilo * Kibi) /\ CpuValue(p) = p.n * Kilo
        BY <3>3 DEF Amount, CpuValue, OtherUnits
      <4> QED
        BY <1>k, <1>m, <1>o, <1>f, <4>1
    <3>4. CASE p.unit = "Mi"
      <4>1. Amount(p) = p.n * (Kilo * Kibi * Kibi) /\ CpuValue(p) = p.n * Kilo
        BY <3>4 DEF Amount, CpuValue, OtherUnits
      <4> QED
        BY <1>k, <1>m, <1>o, <1>f, <4>1
    <3>5. CASE p.unit = "Gi"
      <4>1. Amount(p) = p.n * (Kilo * Kibi * Kibi * Kibi) /\ CpuValue(p) = p.n * Kilo
        BY <3>5 DEF Amount, CpuValue, OtherUnits
      <4> QED
        BY <1>k, <1>m, <1>o, <1>f, <4>1
    <3>6. CASE p.unit = "Ti"
      <4>1. /\ Amount(p) = p.n * (Kilo * Kibi * Kibi * Kibi * Kibi)
            /\ CpuValue(p) = p.n * Kilo
        BY <3>6 DEF Amount, CpuValue, OtherUnits
      <4> QED
        BY <1>k, <1>m, <1>o, <1>f, <4>1
    <3>7. CASE p.unit = "Pi"
      <4>1. /\ Amount(p) = p.n * (Kilo * Kibi * Kibi * Kibi * Kibi * Kibi)
            /\ CpuValue(p) = p.n * Kilo
        BY <3>7 DEF Amount, CpuValue, OtherUnits
      <4> QED
        BY <1>k, <1>m, <1>o, <1>f, <4>1
    <3> QED
      BY <1>k, <3>1, <3>2, <3>3, <3>4, <3>5, <3>6, <3>7 DEF KnownUnits
  <2> QED
    BY <2>1, <2>2, <2>3, <2>4
<1>2. CASE ~IsCpu(c)
  <2>1. Amount(c) = Kilo * MemValue(c) /\ MemValue(c) \in Nat
    BY <1>2, <1>k, <1>w DEF IsCpu, KnownUnits, MemUnits
  <2>2. MemValue(p) \in Nat /\ MemValue(p) >= MemValue(c)
    <3>1. MemValue(p) \in Nat
      BY <1>k, <1>m DEF MemValue
    <3> QED
      BY <1>2, <2>1, <3>1 DEF Violated
  <2>3. Amount(p) \in Nat /\ Amount(p) >= Kilo * MemValue(p)
    <3>1. CASE p.unit \in OtherUnits
      <4>1. MemValue(p) = 0
        BY <3>1 DEF MemValue, OtherUnits
      <4> QED
        BY <1>k, <1>v, <3>1, <4>1
    <3>2. CASE p.unit \in MemUnits
      <4>1. Amount(p) = Kilo * MemValue(p) /\ MemValue(p) \in Nat
        BY <3>2, <1>k, <1>w
      <4>2. Kilo * MemValue(p) \in Nat
        BY <4>1, <1>k, <1>c
      <4> QED
        BY <4>1, <4>2
    <3>3. p.unit # "m"
      BY <1>2 DEF Comparable
    <3> QED
      BY <1>k, <3>1, <3>2, <3>3 DEF KnownUnits, MemUnits
  <2> QED
    BY <1>k, <1>m, <1>o, <2>1, <2>2, <2>3
<1> QED
  BY <1>1, <1>2

\* Where one container of each file names a resource and the suffixes compare,
\* the patch that validate_patch lets through does not lower it: the one
\* container is the one that is read, and _violated has the right sense.
THEOREM OffersKeepResources == Spec => []OfferKeepsResources
<1> DEFINE Judged ==
        /\ current \in Manifests
        /\ pc = "validate" => patched \in Answers
        /\ pc = "offered" => /\ patched \in Manifests
                             /\ ~ NeverReduceViolated(current, patched)
<1>1. Init => Judged
  BY DEF Init
<1>2. Judged /\ [Next]_vars => Judged'
  <2> SUFFICES ASSUME Judged, [Next]_vars PROVE Judged'
    OBVIOUS
  <2> USE DEF givenVars
  <2>1. CASE QuotaExceeded \/ Analysis \/ Wake \/ CallTimeout
    BY <2>1 DEF QuotaExceeded, Analysis, Wake, CallTimeout
  <2>2. ASSUME NEW answer \in Answers, Patch(answer) PROVE Judged'
    BY <2>2 DEF Patch
  <2>3. ASSUME NEW retryable \in BOOLEAN, CallFails(retryable) PROVE Judged'
    BY <2>3 DEF CallFails
  <2>4. CASE Validate
    <3>1. UNCHANGED current /\ pc' # "validate"
      BY <2>4 DEF Validate
    <3>2. ASSUME pc' = "offered"
          PROVE  patched' = patched /\ patched \in Manifests
                     /\ ~ NeverReduceViolated(current, patched)
      BY <2>4, <3>2 DEF Validate, Refused, Answers
    <3> QED
      BY <3>1, <3>2
  <2>5. CASE UNCHANGED vars
    BY <2>5 DEF vars
  <2> QED
    BY <2>1, <2>2, <2>3, <2>4, <2>5 DEF Next
<1>3. Judged => OfferKeepsResources
  <2> SUFFICES ASSUME Judged, pc = "offered", NEW s \in Slots,
                      NEW i \in 1 .. NContainers, NEW j \in 1 .. NContainers,
                      Alone(current, i, s), Alone(patched, j, s),
                      Comparable(current[i][s], patched[j][s])
               PROVE  Amount(patched[j][s]) >= Amount(current[i][s])
    BY DEF OfferKeepsResources
  <2>1. ASSUME NEW m \in Manifests, NEW k \in 1 .. NContainers, Alone(m, k, s)
        PROVE  m[k][s] \in Quantities /\ m[k][s] # Absent
                   /\ Extract(m, s) = m[k][s]
    <3>1. ReadContainers(m) = 1 .. NContainers
      BY <2>1, NeverReduceAssumption DEF ReadContainers, Alone
    <3>2. Naming(m, s) = {k}
      BY <2>1, <3>1 DEF Naming, Alone, Says
    <3>3. LastOf(Naming(m, s)) = k
      BY <3>2 DEF LastOf
    <3>4. m[k] \in Containers /\ m[k][s] # Absent
      BY <2>1 DEF Manifests, Alone, Says
    <3> QED
      BY <3>2, <3>3, <3>4 DEF Extract, Containers
  <2>2. ~ Violated(current[i][s], patched[j][s])
    BY <2>1 DEF NeverReduceViolated, ReducedSlots
  <2> QED
    BY <2>1, <2>2, PassedIsKept
<1> QED
  BY <1>1, <1>2, <1>3, PTL DEF Spec
-----------------------------------------------------------------------------
\* Calls that a run may have made before the node at hand began its own.
Tries(r) == (1 + r) * MaxAttempts
Before   == IF node = "analyze" THEN 0 ELSE Tries(retry)

\* Where the run stands, what it has tried and what that has cost.
LoopInv ==
    /\ node \in {"analyze", "generate"} /\ pc \in Places
    /\ attempt \in 0 .. MaxAttempts - 1
    /\ retry \in 0 .. MaxRetries
    /\ calls \in Nat
    /\ node = "analyze" => retry = 0
    /\ node = "analyze" => pc \in {"call", "backoff", "raised"}
    /\ pc \in {"call", "backoff"} => retry < MaxRetries
    /\ pc = "backoff" => attempt < MaxAttempts - 1
    /\ pc = "call"     => calls <= Before + attempt
    /\ pc = "backoff"  => calls <= Before + attempt + 1
    /\ pc = "validate" => calls <= Before
    /\ calls <= MaxCalls
    /\ spent => calls = 0 /\ pc \in {"call", "raised"} /\ node = "analyze"

\* A patch is judged before it is offered or refused.
JudgedInv ==
    /\ current \in Manifests
    /\ spent \in BOOLEAN
    /\ patched \in Answers \cup {NoPatch}
    /\ pc \in {"validate", "offered", "refused"} => patched \in Answers
    /\ pc = "refused" => Refused
-----------------------------------------------------------------------------
LEMMA LeastOf ==
    ASSUME NEW T, T \subseteq Nat, T # {}
    PROVE  \E x \in T : \A y \in T : x <= y
<1> DEFINE R == {ss \in Nat \X Nat : ss[1] < ss[2]}
<1>1. IsWellFoundedOn(R, Nat)
  <2>1. OpToRel(<, Nat) = R
    BY Zenon DEF OpToRel
  <2> QED
    BY <2>1, NatLessThanWellFounded, Zenon
<1>2. \E x \in T : \A y \in T : ~ (<<y, x>> \in R)
  BY <1>1, WFMin, Zenon
<1>3. \A x, y \in T : ~ (<<y, x>> \in R) => x <= y
  OBVIOUS
<1> QED
  BY <1>2, <1>3

\* The container that is read is the last that names the slot.
LEMMA ReadOneNames ==
    ASSUME NEW m, NEW s, Naming(m, s) # {}
    PROVE  /\ LastOf(Naming(m, s)) \in Naming(m, s)
           /\ \A j \in Naming(m, s) : j <= LastOf(Naming(m, s))
<1> DEFINE S == Naming(m, s)
           T == {NContainers - i : i \in S}
<1>1. S \subseteq 1 .. NContainers /\ NContainers \in Nat
  BY NeverReduceAssumption DEF Naming, ReadContainers
<1>2. T \subseteq Nat /\ T # {}
  BY <1>1
<1>3. PICK x \in T : \A y \in T : x <= y
  BY <1>2, LeastOf
<1>4. PICK i \in S : x = NContainers - i
  BY <1>3
<1>5. \A j \in S : j <= i
  <2> SUFFICES ASSUME NEW j \in S PROVE j <= i
    OBVIOUS
  <2>1. x <= NContainers - j
    BY <1>3
  <2> QED
    BY <1>1, <1>4, <2>1
<1> QED
  BY <1>4, <1>5 DEF LastOf

LEMMA ExtractIs ==
    ASSUME NEW m \in Manifests, NEW s \in Slots
    PROVE  Extract(m, s) \in Quantities \cup {Absent}
<1>1. CASE Naming(m, s) = {}
  BY <1>1 DEF Extract
<1>2. CASE Naming(m, s) # {}
  <2> DEFINE k == LastOf(Naming(m, s))
  <2>1. k \in Naming(m, s)
    BY <1>2, ReadOneNames
  <2>2. k \in 1 .. NContainers /\ m[k] # Odd
    BY <2>1, NeverReduceAssumption DEF Naming, ReadContainers
  <2>3. m[k] \in Containers
    BY <2>2 DEF Manifests
  <2> QED
    BY <1>2, <2>3 DEF Extract, Containers
<1> QED
  BY <1>1, <1>2

\* What _violated refuses is smaller, or written in suffixes that it cannot
\* set against each other.
LEMMA RefusedIsLess ==
    ASSUME NEW c \in Quantities, NEW p \in Quantities, Violated(c, p),
           ~ Doubtful(c, p)
    PROVE  Amount(p) < Amount(c)
<1>k. /\ Kilo \in Nat /\ Kibi \in Nat /\ Kilo >= 1 /\ Kibi >= 1
      /\ c.n \in Nat /\ p.n \in Nat
      /\ c.unit \in KnownUnits \cup OtherUnits
      /\ p.unit \in KnownUnits
  <2>1. c.n \in Numbers /\ p.n \in Numbers /\ p.unit \in Units /\ c.unit \in Units
    BY DEF Quantities
  <2>2. Kilo \in Nat /\ Kibi \in Nat /\ Kilo >= 1 /\ Kibi >= 1
    BY NeverReduceAssumption
  <2>3. p.unit \notin OtherUnits
    BY DEF Doubtful
  <2>4. c.n \in Nat /\ p.n \in Nat /\ p.unit \in KnownUnits
        /\ c.unit \in KnownUnits \cup OtherUnits
    BY <2>1, <2>3, NeverReduceAssumption, Zenon
  <2> QED
    BY <2>2, <2>4
<1>m. \A a, b \in Nat : a * b \in Nat /\ (b >= 1 => a * b >= a)
  OBVIOUS
<1>1. CASE IsCpu(c)
  <2>1. p.unit \in {"m", ""}
    BY <1>1, <1>k DEF Doubtful, KnownUnits
  <2>2. ASSUME NEW q \in Quantities, q.unit \in {"m", ""}
        PROVE  Amount(q) = CpuValue(q)
    BY <2>2 DEF Amount, CpuValue, OtherUnits
  <2>3. CpuValue(p) < CpuValue(c)
    BY <1>1 DEF Violated
  <2>4. Amount(c) = CpuValue(c) /\ Amount(p) = CpuValue(p)
    BY <1>1, <2>1, <2>2 DEF IsCpu
  <2> QED
    BY <2>3, <2>4
<1>2. CASE ~ IsCpu(c)
  <2>1. MemValue(p) < MemValue(c)
    BY <1>2 DEF Violated
  <2>2. MemValue(p) \in Nat
    BY <1>k, <1>m DEF MemValue
  <2>3. c.unit \in MemUnits
    <3>1. c.unit \in OtherUnits => MemValue(c) = 0
      BY DEF MemValue, OtherUnits
    <3>2. c.unit \notin OtherUnits
      BY <2>1, <2>2, <3>1
    <3> QED
      BY <1>2, <1>k, <3>2 DEF IsCpu, KnownUnits, MemUnits
  <2>4. Amount(c) = Kilo * MemValue(c) /\ MemValue(c) \in Nat
    BY <1>k, <2>3, MemIsExact
  <2>5. Amount(p) \in Nat /\ Amount(p) <= Kilo * MemValue(p)
    <3>1. CASE p.unit = "m"
      <4>1. Amount(p) = p.n /\ MemValue(p) = p.n * (Kibi * Kibi)
        BY <3>1 DEF Amount, MemValue
      <4>2. Kibi * Kibi \in Nat /\ Kibi * Kibi >= 1
        BY <1>k, <1>m
      <4>3. MemValue(p) >= p.n
        BY <1>k, <1>m, <4>1, <4>2
      <4>4. MemValue(p) * Kilo >= MemValue(p) /\ MemValue(p) * Kilo = Kilo * MemValue(p)
        BY <1>k, <1>m, <2>2
      <4> QED
        BY <1>k, <2>2, <4>1, <4>3, <4>4
    <3>2. CASE p.unit \in MemUnits
      <4>1. Amount(p) = Kilo * MemValue(p)
        BY <1>k, <3>2, MemIsExact
      <4>2. Kilo * MemValue(p) \in Nat
        BY <1>k, <1>m, <2>2
      <4> QED
        BY <4>1, <4>2
    <3> QED
      BY <1>k, <3>1, <3>2 DEF KnownUnits, MemUnits
  <2>6. \A a, b, d \in Nat : a < b /\ d >= 1 => d * a < d * b
    OBVIOUS
  <2>7. Kilo * MemValue(p) < Kilo * MemValue(c)
    BY <1>k, <2>1, <2>2, <2>4, <2>6
  <2>8. Kilo * MemValue(p) \in Nat /\ Kilo * MemValue(c) \in Nat
    BY <1>k, <1>m, <2>2, <2>4
  <2> QED
    BY <2>4, <2>5, <2>7, <2>8
<1> QED
  BY <1>1, <1>2

LEMMA JudgedInit == Init => JudgedInv
BY DEF Init, JudgedInv

LEMMA JudgedStep == JudgedInv /\ [Next]_vars => JudgedInv'
<1> SUFFICES ASSUME JudgedInv, [Next]_vars PROVE JudgedInv'
  OBVIOUS
<1> USE DEF JudgedInv, givenVars
<1>1. CASE QuotaExceeded \/ Analysis \/ Wake \/ CallTimeout
  BY <1>1 DEF QuotaExceeded, Analysis, Wake, CallTimeout
<1>2. ASSUME NEW answer \in Answers, Patch(answer) PROVE JudgedInv'
  BY <1>2 DEF Patch
<1>3. ASSUME NEW retryable \in BOOLEAN, CallFails(retryable) PROVE JudgedInv'
  BY <1>3 DEF CallFails
<1>4. CASE Validate
  <2>1. UNCHANGED <<current, spent>> /\ patched \in Answers
    BY <1>4 DEF Validate
  <2>2. CASE ~ Refused
    BY <1>4, <2>1, <2>2 DEF Validate
  <2>3. CASE Refused
    <3>1. CASE patched' = patched
      <4>1. Refused'
        BY <2>1, <2>3, <3>1 DEF Refused
      <4> QED
        BY <2>1, <3>1, <4>1
    <3>2. CASE patched' # patched
      BY <1>4, <2>1, <2>3, <3>2 DEF Validate
    <3> QED
      BY <3>1, <3>2
  <2> QED
    BY <2>2, <2>3
<1>5. CASE UNCHANGED vars
  BY <1>5 DEF vars, Refused
<1> QED
  BY <1>1, <1>2, <1>3, <1>4, <1>5 DEF Next

\* A run is refused only for a patch that is not YAML, or with an amount that
\* is smaller than a current one or does not compare; the two amounts are one
\* container's, or one container names the resource in one file only.
THEOREM RefusalsAreJust == Spec => []RefusalIsJust
<1>1. ASSUME JudgedInv
      PROVE  RefusalIsJust
  <2> SUFFICES ASSUME pc = "refused", patched # NotYaml
               PROVE  \E s \in Slots : \E i \in Naming(current, s), j \in Naming(patched, s) :
                        /\ \/ Amount(patched[j][s]) < Amount(current[i][s])
                           \/ Doubtful(current[i][s], patched[j][s])
                        /\ i = j \/ j \notin Naming(current, s) \/ i \notin Naming(patched, s)
    BY DEF RefusalIsJust
  <2>1. /\ patched \in Manifests /\ current \in Manifests
        /\ NeverReduceViolated(current, patched)
    BY <1>1 DEF JudgedInv, Answers, Refused
  <2>2. PICK s \in Slots : /\ Extract(patched, s) # Absent
                           /\ Extract(current, s) # Absent
                           /\ Violated(Extract(current, s), Extract(patched, s))
    BY <2>1 DEF NeverReduceViolated, ReducedSlots
  <2>3. Extract(patched, s) \in Quantities /\ Extract(current, s) \in Quantities
    BY <2>1, <2>2, ExtractIs
  <2>4. /\ Naming(current, s) # {} /\ Naming(patched, s) # {}
        /\ Extract(current, s) = current[LastOf(Naming(current, s))][s]
        /\ Extract(patched, s) = patched[LastOf(Naming(patched, s))][s]
    BY <2>2 DEF Extract
  <2>5. PICK i \in Naming(current, s) :
            /\ Extract(current, s) = current[i][s]
            /\ \A k \in Naming(current, s) : k <= i
    BY <2>4, ReadOneNames
  <2>6. PICK j \in Naming(patched, s) :
            /\ Extract(patched, s) = patched[j][s]
            /\ \A k \in Naming(patched, s) : k <= j
    BY <2>4, ReadOneNames
  <2>7. \/ Amount(patched[j][s]) < Amount(current[i][s])
        \/ Doubtful(current[i][s], patched[j][s])
    BY <2>2, <2>3, <2>5, <2>6, RefusedIsLess
  <2>8. i = j \/ j \notin Naming(current, s) \/ i \notin Naming(patched, s)
    <3>1. i \in Nat /\ j \in Nat
      BY NeverReduceAssumption DEF Naming, ReadContainers
    <3> QED
      BY <2>5, <2>6, <3>1
  <2> QED
    BY <2>7, <2>8
<1> QED
  BY <1>1, JudgedInit, JudgedStep, PTL DEF Spec
-----------------------------------------------------------------------------
LEMMA TriesAre ==
    /\ MaxAttempts \in Nat /\ MaxAttempts >= 1 /\ MaxRetries \in Nat /\ MaxRetries >= 1
    /\ MaxCalls = Tries(MaxRetries) /\ Tries(0) = MaxAttempts
    /\ \A r \in Nat : Tries(r) \in Nat /\ Tries(r + 1) = Tries(r) + MaxAttempts
    /\ \A r \in 0 .. MaxRetries : Tries(r) <= MaxCalls
<1>1. MaxAttempts \in Nat /\ MaxAttempts >= 1 /\ MaxRetries \in Nat /\ MaxRetries >= 1
  BY PatchLoopAssumption
<1>2. \A a, b \in Nat : /\ (1 + a) * b \in Nat
                         /\ (1 + (a + 1)) * b = (1 + a) * b + b
  OBVIOUS
<1>3. \A a, b, d \in Nat : a <= d => (1 + a) * b <= (1 + d) * b
  OBVIOUS
<1>4. Tries(0) = MaxAttempts /\ MaxCalls = Tries(MaxRetries)
  BY <1>1 DEF Tries, MaxCalls
<1>5. \A r \in Nat : Tries(r) \in Nat /\ Tries(r + 1) = Tries(r) + MaxAttempts
  BY <1>1, <1>2 DEF Tries
<1>6. \A r \in 0 .. MaxRetries : Tries(r) <= Tries(MaxRetries)
  BY <1>1, <1>3 DEF Tries
<1> QED
  BY <1>1, <1>4, <1>5, <1>6

LEMMA LoopInit == Init => LoopInv
<1>1. 0 \in 0 .. MaxAttempts - 1 /\ 0 \in 0 .. MaxRetries /\ MaxCalls \in Nat /\ 0 < MaxRetries
  BY TriesAre
<1> QED
  BY <1>1 DEF Init, LoopInv, Before, Places

LEMMA LoopStep == LoopInv /\ [Next]_vars => LoopInv'
<1> SUFFICES ASSUME LoopInv, [Next]_vars PROVE LoopInv'
  OBVIOUS
<1>t. /\ MaxAttempts \in Nat /\ MaxAttempts >= 1 /\ MaxRetries \in Nat /\ MaxRetries >= 1
      /\ MaxCalls \in Nat /\ Before \in Nat
      /\ pc \in {"call", "backoff"} => Before + MaxAttempts <= MaxCalls
  <2>1. retry \in Nat /\ Tries(retry) \in Nat /\ Tries(MaxRetries) \in Nat
    BY TriesAre DEF LoopInv
  <2>2. ASSUME retry < MaxRetries
        PROVE  Before + MaxAttempts <= MaxCalls
    <3>1. Tries(retry + 1) = Tries(retry) + MaxAttempts /\ Tries(retry + 1) <= MaxCalls
      BY <2>1, <2>2, TriesAre DEF LoopInv
    <3>2. MaxAttempts <= MaxCalls
      BY TriesAre
    <3> QED
      BY <2>1, <3>1, <3>2, TriesAre DEF Before
  <2> QED
    BY <2>1, <2>2, TriesAre DEF LoopInv, Before
<1>c. Called /\ calls <= MaxCalls => calls' = calls + 1
  BY <1>t DEF Called, LoopInv
<1> USE <1>t, <1>c DEF LoopInv, givenVars, Places
<1>1. CASE QuotaExceeded
  BY <1>1 DEF QuotaExceeded, Before
<1>2. CASE Analysis
  <2>1. Before' = MaxAttempts /\ Before = 0
    BY <1>2, TriesAre DEF Analysis, Before
  <2> QED
    BY <1>2, <2>1 DEF Analysis
<1>3. ASSUME NEW answer \in Answers, Patch(answer) PROVE LoopInv'
  <2>1. Before' = Before + MaxAttempts
    BY <1>3, TriesAre DEF Patch, NextRetry, Before
  <2> QED
    BY <1>3, <2>1 DEF Patch, NextRetry
<1>4. ASSUME NEW retryable \in BOOLEAN, CallFails(retryable) PROVE LoopInv'
  <2>1. Before' = Before
    BY <1>4 DEF CallFails, Before
  <2> QED
    BY <1>4, <2>1 DEF CallFails, MayRetry
<1>5. CASE Wake \/ CallTimeout
  <2>1. Before' = Before
    BY <1>5 DEF Wake, CallTimeout, Before
  <2> QED
    BY <1>5, <2>1 DEF Wake, CallTimeout
<1>6. CASE Validate
  <2>1. Before' = Before
    BY <1>6 DEF Validate, Before
  <2> QED
    BY <1>6, <2>1 DEF Validate
<1>7. CASE UNCHANGED vars
  BY <1>7 DEF vars, Before
<1> QED
  BY <1>1, <1>2, <1>3, <1>4, <1>5, <1>6, <1>7 DEF Next

\* A run costs no more than MaxAttempts calls for its analysis and for each
\* patch, and none if the budget is spent.
THEOREM CallsAreBounded == Spec => []CallsBounded
<1>1. LoopInv => CallsBounded
  BY DEF LoopInv, CallsBounded
<1> QED
  BY <1>1, LoopInit, LoopStep, PTL DEF Spec

\* The types of the loop's state are right.
THEOREM PatchTypesCorrect == Spec => []PatchTypeOK
<1>1. ASSUME LoopInv, JudgedInv
      PROVE  PatchTypeOK
  <2>1. calls \in 0 .. MaxCalls + 1
    BY <1>1, TriesAre DEF LoopInv
  <2> QED
    BY <1>1, <2>1 DEF LoopInv, JudgedInv, PatchTypeOK
<1> QED
  BY <1>1, JudgedInit, JudgedStep, LoopInit, LoopStep, PTL DEF Spec
=============================================================================
