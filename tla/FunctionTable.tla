---------------------------- MODULE FunctionTable ----------------------------
(***************************************************************************)
(* findFuncType of tracee/process.go: the function at an address, from the *)
(* tables the Go linker leaves in the tracee.  functab has one entry for   *)
(* each function, in order, and one for the end; findfunctab has a rough   *)
(* index into it for each part (subbucket) of the text, from which the     *)
(* search walks back or forth.  A step is one iteration of a loop.         *)
(***************************************************************************)
EXTENDS Integers, Sequences

CONSTANTS
  Programs,      \* the programs: sequences of module data, in the order of moduleDataList
  PCBucketSize,  \* addresses a bucket stands for, 4096
  Subbuckets     \* subbuckets of a bucket, 16

VARIABLES
  mds,   \* p.moduleDataList
  pc,    \* the address looked up
  md,    \* the index of its module data, 0 before it is found
  idx,   \* ftabIdx
  at     \* where the lookup is

vars == <<mds, pc, md, idx, at>>

Covers(m, a) == m.minpc <= a /\ a < m.maxpc

\* What functab returns: a read that fails leaves the entry 0.
Entry(m, i) == IF i \in 0 .. m.ftabLen - 1 THEN m.ftab[i] ELSE 0

\* The index findfunctab gives for an address.
FindFtabIndex(m, a) ==
  LET x == a - m.minpc
      bucket == m.findfunctab[x \div PCBucketSize]
  IN  bucket.idx + bucket.subbuckets[(x % PCBucketSize) \div (PCBucketSize \div Subbuckets)]

\* What the linker and the runtime (moduledataverify) guarantee.  An index can
\* be too small, since a subbucket has several functions, and too large when
\* the text has several sections, but not for the first function.
WellFormed(m) ==
  /\ m.minpc \in Nat /\ m.maxpc \in Nat
  /\ m.ftabLen \in Nat /\ m.ftabLen >= 2
  /\ m.ftab \in [0 .. m.ftabLen - 1 -> Nat]
  /\ \A i, j \in 0 .. m.ftabLen - 1 : i < j => m.ftab[i] < m.ftab[j]
  /\ m.ftab[0] = m.minpc /\ m.ftab[m.ftabLen - 1] = m.maxpc
  /\ \A a \in m.minpc .. m.maxpc - 1 :
       /\ FindFtabIndex(m, a) \in Nat
       /\ a < m.ftab[1] => FindFtabIndex(m, a) = 0

ASSUME ProgramsAssumption ==
  \A p \in Programs : /\ DOMAIN p = 1 .. Len(p) /\ Len(p) \in Nat
                      /\ \A i \in 1 .. Len(p) : WellFormed(p[i])

TypeOK ==
  /\ mds \in Programs
  /\ pc \in Nat
  /\ md \in 0 .. Len(mds)
  /\ idx \in Nat
  /\ at \in {"idle", "modules", "backward", "forward", "found", "unknown", "panicked"}

Init ==
  /\ mds \in Programs
  /\ pc = 0 /\ md = 0 /\ idx = 0
  /\ at = "idle"

-----------------------------------------------------------------------------

Lookup(a) ==
  /\ at = "idle"
  /\ pc' = a
  /\ at' = "modules"
  /\ UNCHANGED <<mds, md, idx>>

\* The index the search begins with.
Clamped_Not(m, i) == i
Clamped(m, i) == IF i >= m.ftabLen THEN m.ftabLen - 1 ELSE i

\* findModuleDataByPC, findFtabIndex and the beginning of adjustFtabIndex.
FindModuleData ==
  /\ at = "modules"
  /\ \E i \in DOMAIN mds :
       /\ Covers(mds[i], pc)
       /\ \A j \in 1 .. i - 1 : ~Covers(mds[j], pc)
       /\ md' = i
       /\ idx' = Clamped(mds[i], FindFtabIndex(mds[i], pc))
       /\ at' = IF pc < Entry(mds[i], idx') THEN "backward" ELSE "forward"
  /\ UNCHANGED <<mds, pc>>

NoModuleData ==
  /\ at = "modules"
  /\ \A i \in DOMAIN mds : ~Covers(mds[i], pc)
  /\ at' = "unknown"
  /\ UNCHANGED <<mds, pc, md, idx>>

\* for entry > pc && ftabIdx > 0
\* Defect: the index is not decremented.
StepBackward_Stays ==
  /\ at = "backward"
  /\ Entry(mds[md], idx) > pc /\ idx > 0
  /\ UNCHANGED vars
StepBackward ==
  /\ at = "backward"
  /\ Entry(mds[md], idx) > pc /\ idx > 0
  /\ idx' = idx - 1
  /\ UNCHANGED <<mds, pc, md, at>>

StopsBackward ==
  /\ at = "backward"
  /\ ~(Entry(mds[md], idx) > pc /\ idx > 0)
  /\ at' = IF idx = 0 THEN "panicked" ELSE "found"
  /\ UNCHANGED <<mds, pc, md, idx>>

\* for nextEntry <= pc
\* Defect: the address where a function begins is taken for the function before.
NextIsBehind_Strictly(m, i, a) == Entry(m, i + 1) < a
NextIsBehind(m, i, a) == Entry(m, i + 1) <= a

StepForward ==
  /\ at = "forward"
  /\ NextIsBehind(mds[md], idx, pc)
  /\ idx' = idx + 1
  /\ UNCHANGED <<mds, pc, md, at>>

StopsForward ==
  /\ at = "forward"
  /\ ~NextIsBehind(mds[md], idx, pc)
  /\ at' = "found"
  /\ UNCHANGED <<mds, pc, md, idx>>

\* The caller goes on with the result; the local variables are gone.
Returned ==
  /\ at \in {"found", "unknown"}
  /\ at' = "idle"
  /\ md' = 0 /\ idx' = 0
  /\ UNCHANGED <<mds, pc>>

Search ==
  \/ FindModuleData \/ NoModuleData
  \/ StepBackward \/ StopsBackward
  \/ StepForward \/ StopsForward

Next == Search \/ Returned \/ \E a \in Nat : Lookup(a)

Spec == Init /\ [][Next]_vars

\* findEndAddr: 0 means unknown.
FindEndAddr(m, i) == IF i + 1 >= m.ftabLen THEN 0 ELSE Entry(m, i + 1)

-----------------------------------------------------------------------------
(* Properties.                                                             *)

\* "do the linear search to find the correct index" (process.go:554): wherever
\* the rough index pointed, the function found is the one the address is in, and
\* its end is known.
FindsFunction ==
  at = "found" => /\ Entry(mds[md], idx) <= pc
                  /\ pc < FindEndAddr(mds[md], idx)

\* The search reads entries of the table only (adjustFtabIndex has no bound in
\* its second loop, and a read behind the table would keep it going), and never
\* comes to "bad findfunctab entry idx".
SearchStaysInside ==
  /\ at # "panicked"
  /\ at = "backward" => idx \in 0 .. mds[md].ftabLen - 1
  /\ at = "forward" => idx + 1 \in 1 .. mds[md].ftabLen - 1

=============================================================================
