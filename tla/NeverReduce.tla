---------------------------- MODULE NeverReduce ----------------------------
(***************************************************************************)
(* The never-reduce policy of tools/github_tools.py: which resources of a  *)
(* manifest are read, and when a patch counts as reducing one.             *)
(*                                                                         *)
(* A quantity is a number and a suffix.  _RESOURCE_RE knows "m" and the    *)
(* binary suffixes; any other text, decimal suffixes that Kubernetes       *)
(* accepts included, is parsed as zero.  Fractions are left out.  Kibi and *)
(* Kilo stand for 1024 and 1000: only their order matters.                 *)
(***************************************************************************)
EXTENDS Naturals

CONSTANTS
    Kibi, Kilo,
    Slots,        \* pairs of a section and a resource name
    NContainers,  \* bound: containers of the Deployments in a file
    Numbers,      \* bound: numbers in quantities
    Units         \* suffixes in quantities

KnownUnits == {"m", "", "Ki", "Mi", "Gi", "Ti", "Pi"}
OtherUnits == {"k", "M", "G", "?"}        \* "?": not a quantity at all

ASSUME NeverReduceAssumption ==
    /\ Kibi \in Nat /\ Kilo \in Nat /\ 1 < Kilo /\ Kilo < Kibi
    /\ NContainers \in Nat
    /\ Numbers \subseteq Nat
    /\ Units \subseteq KnownUnits \cup OtherUnits

Quantities == [n : Numbers, unit : Units]
Absent     == [n |-> 0, unit |-> "absent"]

\* What a container says of each slot; Odd is one that is not the mapping the
\* code expects.
Containers == [Slots -> Quantities \cup {Absent}]
Odd        == [s \in Slots |-> [n |-> 0, unit |-> "odd"]]

\* The containers of all Deployments of a file, in their order.
Manifests == [1 .. NContainers -> Containers \cup {Odd}]

\* An exception ends the extraction; what was found before it is kept.
ReadContainers(m) == {i \in 1 .. NContainers : \A j \in 1 .. i : m[j] # Odd}
Naming(m, s)      == {i \in ReadContainers(m) : m[i][s] # Absent}

LastOf(S) == CHOOSE i \in S : \A j \in S : j <= i

\* _extract_container_resources: containers share the keys, and the last one
\* that names a slot is the one that is read.
Extract(m, s) ==
    IF Naming(m, s) = {} THEN Absent ELSE m[LastOf(Naming(m, s))][s]

\* _parse_cpu_millicores: every suffix it knows but "m" counts alike.
CpuValue(q) ==
    CASE q.unit = "m"           -> q.n
      [] q.unit \in OtherUnits  -> 0
      [] OTHER                  -> q.n * Kilo

\* _parse_mem_mebibytes in bytes: a suffix that _MEM_UNITS lacks, "m", counts
\* as "Mi".
MemValue(q) ==
    CASE q.unit = ""            -> q.n
      [] q.unit = "Ki"          -> q.n * Kibi
      [] q.unit \in {"Mi", "m"} -> q.n * (Kibi * Kibi)
      [] q.unit = "Gi"          -> q.n * (Kibi * Kibi * Kibi)
      [] q.unit = "Ti"          -> q.n * (Kibi * Kibi * Kibi * Kibi)
      [] q.unit = "Pi"          -> q.n * (Kibi * Kibi * Kibi * Kibi * Kibi)
      [] OTHER                  -> 0

\* The form of the current value decides how both are compared.
IsCpu(q) == q.unit \in {"m", ""}

AsCpu(current, suggested) ==                          \* mutant
    CpuValue(suggested) < CpuValue(current)
NotAbove(current, suggested) ==                       \* mutant
    IF IsCpu(current) THEN CpuValue(suggested) <= CpuValue(current)
                      ELSE MemValue(suggested) <= MemValue(current)
Violated(current, suggested) ==
    IF IsCpu(current) THEN CpuValue(suggested) < CpuValue(current)
                      ELSE MemValue(suggested) < MemValue(current)

ReducedSlots(current, patched) ==
    {s \in Slots : /\ Extract(patched, s) # Absent
                   /\ Extract(current, s) # Absent
                   /\ Violated(Extract(current, s), Extract(patched, s))}

\* _check_never_reduce finds something.
NeverReduceViolated(current, patched) == ReducedSlots(current, patched) # {}
-----------------------------------------------------------------------------
(* What a quantity means to Kubernetes, in thousandths.                    *)

Amount(q) ==
    CASE q.unit = "m"  -> q.n
      [] q.unit = ""   -> q.n * Kilo
      [] q.unit = "k"  -> q.n * (Kilo * Kilo)
      [] q.unit = "Ki" -> q.n * (Kilo * Kibi)
      [] q.unit = "M"  -> q.n * (Kilo * Kilo * Kilo)
      [] q.unit = "Mi" -> q.n * (Kilo * Kibi * Kibi)
      [] q.unit = "G"  -> q.n * (Kilo * Kilo * Kilo * Kilo)
      [] q.unit = "Gi" -> q.n * (Kilo * Kibi * Kibi * Kibi)
      [] q.unit = "Ti" -> q.n * (Kilo * Kibi * Kibi * Kibi * Kibi)
      [] q.unit = "Pi" -> q.n * (Kilo * Kibi * Kibi * Kibi * Kibi * Kibi)
      [] OTHER         -> 0

\* The comparison has the right sense: the current suffix is known, and
\* thousandths are not set against a current binary suffix.
Comparable(current, suggested) ==
    /\ current.unit \in KnownUnits
    /\ suggested.unit = "m" => IsCpu(current)

\* What may make the comparison refuse a larger amount.
Doubtful(current, suggested) ==
    \/ suggested.unit \in OtherUnits
    \/ IsCpu(current) /\ suggested.unit \in {"Ki", "Mi", "Gi", "Ti", "Pi"}
=============================================================================
