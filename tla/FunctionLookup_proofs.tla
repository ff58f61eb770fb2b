------------------------- MODULE FunctionLookup_proofs -------------------------
(***************************************************************************)
(* Process.FindFunction, for any well-formed tables and any signatures:    *)
(* the search of the function table, and the places of the parameters.     *)
(***************************************************************************)
EXTENDS FunctionLookup, FiniteSetTheorems, FunctionTheorems, SequenceTheorems, TLAPS

-----------------------------------------------------------------------------
(* The search of the function table.                                       *)

\* The strengthening.  Whatever the rough index was, the function lies before the
\* entry behind it when walking back, at it or behind it when walking forth; the
\* first function is never walked back to.
Walking(m) ==
  /\ Covers(m, pc)
  /\ idx \in 0 .. m.ftabLen - 1
  /\ at = "backward" =>
       /\ m.ftab[1] <= pc
       /\ m.ftab[idx] > pc \/ (idx + 1 <= m.ftabLen - 1 /\ pc < m.ftab[idx + 1])
  /\ at = "forward" => m.ftab[idx] <= pc
  /\ at = "found" => /\ idx + 1 <= m.ftabLen - 1
                     /\ m.ftab[idx] <= pc /\ pc < m.ftab[idx + 1]

SearchInvariant ==
  /\ TypeOK
  /\ at # "panicked"
  /\ at \in {"backward", "forward", "found"} => md \in 1 .. Len(mds) /\ Walking(mds[md])

-----------------------------------------------------------------------------

LEMMA ModulesWellFormed ==
  ASSUME TypeOK, NEW i \in 1 .. Len(mds)
  PROVE  WellFormed(mds[i])
BY ProgramsAssumption DEF TypeOK

\* Entries of a table increase, so an entry at most that of the address lies
\* before the last one, which is the end of the text.
LEMMA BeforeTheEnd ==
  ASSUME NEW m, WellFormed(m), NEW a \in Nat, Covers(m, a),
         NEW i \in 0 .. m.ftabLen - 1, m.ftab[i] <= a
  PROVE  i + 1 <= m.ftabLen - 1 /\ i + 1 \in 0 .. m.ftabLen - 1
BY DEF WellFormed, Covers

\* The index the search begins with is in the table, and is 0 for the first function.
LEMMA StartsInside ==
  ASSUME NEW m, WellFormed(m), NEW a \in Nat, Covers(m, a)
  PROVE  LET i == Clamped(m, FindFtabIndex(m, a))
         IN  i \in 0 .. m.ftabLen - 1 /\ (a < m.ftab[1] => i = 0)
<1>1. a \in m.minpc .. m.maxpc - 1  BY DEF WellFormed, Covers
<1>2. FindFtabIndex(m, a) \in Nat /\ (a < m.ftab[1] => FindFtabIndex(m, a) = 0)
  BY <1>1 DEF WellFormed
<1>3. m.ftabLen \in Nat /\ m.ftabLen >= 2  BY DEF WellFormed
<1>4. QED  BY <1>2, <1>3 DEF Clamped

LEMMA Initially == Init => SearchInvariant
BY ProgramsAssumption DEF Init, SearchInvariant, TypeOK

LEMMA Preserved == SearchInvariant /\ [Next]_vars => SearchInvariant'
<1> SUFFICES ASSUME SearchInvariant, [Next]_vars  PROVE SearchInvariant'
  OBVIOUS
<1>1. CASE FindModuleData
  <2>1. PICK i \in DOMAIN mds :
          /\ Covers(mds[i], pc)
          /\ md' = i
          /\ idx' = Clamped(mds[i], FindFtabIndex(mds[i], pc))
          /\ at' = IF pc < Entry(mds[i], idx') THEN "backward" ELSE "forward"
    BY <1>1 DEF FindModuleData
  <2>2. i \in 1 .. Len(mds) /\ Len(mds) \in Nat
    BY ProgramsAssumption DEF SearchInvariant, TypeOK
  <2>3. WellFormed(mds[i])  BY <2>2, ModulesWellFormed DEF SearchInvariant
  <2>4. pc \in Nat /\ mds' = mds /\ pc' = pc  BY <1>1 DEF FindModuleData, SearchInvariant, TypeOK
  <2>5. idx' \in 0 .. mds[i].ftabLen - 1 /\ (pc < mds[i].ftab[1] => idx' = 0)
    BY <2>1, <2>3, <2>4, StartsInside
  <2>6. Entry(mds[i], idx') = mds[i].ftab[idx']  BY <2>5 DEF Entry
  <2>7. mds[i].ftab[0] <= pc /\ mds[i].ftab[idx'] \in Nat /\ mds[i].ftab[1] \in Nat
    <3>1. /\ mds[i].ftab \in [0 .. mds[i].ftabLen - 1 -> Nat]
          /\ 1 \in 0 .. mds[i].ftabLen - 1
      BY <2>3 DEF WellFormed
    <3>2. mds[i].ftab[0] <= pc  BY <2>1, <2>3 DEF WellFormed, Covers
    <3>3. QED  BY <2>5, <3>1, <3>2
  <2>8. at' = "backward" => mds[i].ftab[1] <= pc /\ mds[i].ftab[idx'] > pc
    BY <2>1, <2>4, <2>5, <2>6, <2>7
  <2>9. at' = "forward" => mds[i].ftab[idx'] <= pc
    BY <2>1, <2>4, <2>6, <2>7
  <2>10. at' \in {"backward", "forward"}  BY <2>1
  <2>11. Walking(mds[i])'
    BY <2>1, <2>4, <2>5, <2>8, <2>9, <2>10 DEF Walking, Covers
  <2>12. TypeOK'
    BY <2>1, <2>2, <2>3, <2>4, <2>5, <2>10 DEF TypeOK, SearchInvariant, WellFormed
  <2>13. QED  BY <2>1, <2>2, <2>4, <2>10, <2>11, <2>12 DEF SearchInvariant, Walking, Covers
<1>2. CASE NoModuleData
  BY <1>2 DEF NoModuleData, SearchInvariant, TypeOK
<1>3. CASE at \in {"backward", "forward"} /\ Search
  <2> DEFINE m == mds[md]
  <2>1. md \in 1 .. Len(mds) /\ Walking(m)  BY <1>3 DEF SearchInvariant
  <2>2. WellFormed(m)  BY <2>1, ModulesWellFormed DEF SearchInvariant
  <2>3. pc \in Nat /\ idx \in 0 .. m.ftabLen - 1 /\ Covers(m, pc)
    BY <2>1 DEF Walking, SearchInvariant, TypeOK
  <2>4. m.ftabLen \in Nat /\ Entry(m, idx) = m.ftab[idx] /\ m.ftab[idx] \in Nat
    BY <2>2, <2>3 DEF Entry, WellFormed
  <2>5. CASE StepBackward
    <3>1. idx' = idx - 1 /\ idx > 0 /\ m.ftab[idx] > pc /\ at' = "backward" /\ at = "backward"
      BY <2>4, <2>5 DEF StepBackward
    <3>2. UNCHANGED <<mds, pc, md>>  BY <2>5 DEF StepBackward
    <3>3. idx' \in 0 .. m.ftabLen - 1 /\ idx' + 1 = idx /\ idx <= m.ftabLen - 1
      BY <2>3, <2>4, <3>1
    <3>4. Walking(m)'  BY <2>1, <3>1, <3>2, <3>3 DEF Walking, Covers
    <3>5. TypeOK'  BY <2>4, <3>1, <3>2, <3>3 DEF SearchInvariant, TypeOK
    <3>6. QED  BY <2>1, <3>1, <3>2, <3>4, <3>5 DEF SearchInvariant, Walking, Covers
  <2>6. CASE StopsBackward
    <3>1. at = "backward" /\ UNCHANGED <<mds, pc, md, idx>>  BY <2>6 DEF StopsBackward
    <3>2. m.ftab[1] <= pc /\ (m.ftab[idx] > pc \/ (idx + 1 <= m.ftabLen - 1 /\ pc < m.ftab[idx + 1]))
      BY <2>1, <3>1 DEF Walking
    <3>3. m.ftab[0] <= pc /\ m.ftab[0] \in Nat  BY <2>2, <2>3 DEF WellFormed, Covers
    <3>4. ~(m.ftab[idx] > pc)
      BY <2>3, <2>4, <2>6, <3>3 DEF StopsBackward
    <3>5. m.ftab[1] \in Nat /\ m.ftab[0] < m.ftab[1] /\ m.ftabLen >= 2
      BY <2>2 DEF WellFormed
    <3>6. idx # 0
      BY <2>3, <2>4, <3>2, <3>4, <3>5
    <3>7. at' = "found"  BY <2>6, <3>6 DEF StopsBackward
    <3>8. m.ftab[idx] <= pc  BY <2>3, <2>4, <3>4
    <3>9. Walking(m)'  BY <2>1, <3>1, <3>2, <3>4, <3>7, <3>8 DEF Walking, Covers
    <3>10. QED  BY <2>1, <3>1, <3>7, <3>9 DEF SearchInvariant, TypeOK, Walking, Covers
  <2>7. CASE StepForward
    <3>1. at = "forward" /\ at' = "forward" /\ idx' = idx + 1 /\ UNCHANGED <<mds, pc, md>>
      BY <2>7 DEF StepForward
    <3>2. m.ftab[idx] <= pc  BY <2>1, <3>1 DEF Walking
    <3>3. idx' \in 0 .. m.ftabLen - 1  BY <2>2, <2>3, <3>1, <3>2, BeforeTheEnd
    <3>4. m.ftab[idx'] <= pc  BY <2>7, <3>1, <3>3 DEF StepForward, NextIsBehind, Entry
    <3>5. Walking(m)'  BY <2>1, <3>1, <3>3, <3>4 DEF Walking, Covers
    <3>6. TypeOK'  BY <2>4, <3>1, <3>3 DEF SearchInvariant, TypeOK
    <3>7. QED  BY <2>1, <3>1, <3>5, <3>6 DEF SearchInvariant, Walking, Covers
  <2>8. CASE StopsForward
    <3>1. at = "forward" /\ at' = "found" /\ UNCHANGED <<mds, pc, md, idx>>
      BY <2>8 DEF StopsForward
    <3>2. m.ftab[idx] <= pc  BY <2>1, <3>1 DEF Walking
    <3>3. idx + 1 <= m.ftabLen - 1 /\ idx + 1 \in 0 .. m.ftabLen - 1
      BY <2>2, <2>3, <3>2, BeforeTheEnd
    <3>4. m.ftab[idx + 1] \in Nat  BY <2>2, <3>3 DEF WellFormed
    <3>5. pc < m.ftab[idx + 1]
      BY <2>3, <2>8, <3>3, <3>4 DEF StopsForward, NextIsBehind, Entry
    <3>6. Walking(m)'  BY <2>1, <3>1, <3>2, <3>3, <3>5 DEF Walking, Covers
    <3>7. QED  BY <2>1, <3>1, <3>6 DEF SearchInvariant, TypeOK, Walking, Covers
  <2>9. QED
    BY <1>3, <2>5, <2>6, <2>7, <2>8 DEF Search, FindModuleData, NoModuleData
<1>4. CASE Returned  BY <1>4 DEF Returned, SearchInvariant, TypeOK
<1>5. CASE \E a \in Nat : Lookup(a)  BY <1>5 DEF Lookup, SearchInvariant, TypeOK
<1>6. CASE UNCHANGED vars
  BY <1>6 DEF vars, SearchInvariant, TypeOK, Walking, Covers
<1>7. CASE Search
  BY <1>1, <1>2, <1>3, <1>7 DEF Search, StepBackward, StopsBackward, StepForward, StopsForward
<1>8. QED  BY <1>4, <1>5, <1>6, <1>7 DEF Next

-----------------------------------------------------------------------------

\* Of any well-formed tables, findFuncType finds the function the address is in,
\* with its end, wherever findfunctab pointed.
THEOREM FindsFunctionCorrect == Spec => []FindsFunction
<1>1. SearchInvariant => FindsFunction
  <2> SUFFICES ASSUME SearchInvariant, at = "found"
               PROVE  /\ Entry(mds[md], idx) <= pc
                      /\ pc < FindEndAddr(mds[md], idx)
    BY DEF FindsFunction
  <2>1. Walking(mds[md]) /\ WellFormed(mds[md])
    BY ModulesWellFormed DEF SearchInvariant
  <2>2. mds[md].ftabLen \in Nat  BY <2>1 DEF WellFormed
  <2>3. idx + 1 \in 0 .. mds[md].ftabLen - 1 /\ ~(idx + 1 >= mds[md].ftabLen)
    BY <2>1, <2>2 DEF Walking
  <2>4. QED  BY <2>1, <2>3 DEF Walking, Entry, FindEndAddr
<1>2. QED  BY <1>1, Initially, Preserved, PTL DEF Spec

\* The loops of adjustFtabIndex stay inside the table and never panic.
THEOREM SearchStaysInsideCorrect == Spec => []SearchStaysInside
<1>1. SearchInvariant => SearchStaysInside
  <2> SUFFICES ASSUME SearchInvariant  PROVE SearchStaysInside
    OBVIOUS
  <2>1. ASSUME at \in {"backward", "forward"}
        PROVE  Walking(mds[md]) /\ WellFormed(mds[md]) /\ pc \in Nat
    BY <2>1, ModulesWellFormed DEF SearchInvariant, TypeOK
  <2>2. at = "backward" => idx \in 0 .. mds[md].ftabLen - 1  BY <2>1 DEF Walking
  <2>3. ASSUME at = "forward"  PROVE idx + 1 \in 1 .. mds[md].ftabLen - 1
    <3>1. idx \in 0 .. mds[md].ftabLen - 1 /\ mds[md].ftab[idx] <= pc /\ Covers(mds[md], pc)
      BY <2>1, <2>3 DEF Walking
    <3>2. idx + 1 <= mds[md].ftabLen - 1  BY <2>1, <2>3, <3>1, BeforeTheEnd
    <3>3. mds[md].ftabLen \in Nat  BY <2>1, <2>3 DEF WellFormed
    <3>4. QED  BY <3>1, <3>2, <3>3
  <2>4. QED  BY <2>2, <2>3 DEF SearchStaysInside, SearchInvariant
<1>2. QED  BY <1>1, Initially, Preserved, PTL DEF Spec

-----------------------------------------------------------------------------
(* Sums of sizes.                                                          *)

Below == {p \in Nat \X Nat : p[1] < p[2]}

\* What stands in for an induction: the least counterexample.
LEMMA LeastNatural ==
  ASSUME NEW S \in SUBSET Nat, S # {}
  PROVE  \E x \in S : \A y \in S : x <= y
<1>1. IsWellFoundedOn(Below, Nat)  BY NatLessThanWellFounded DEF OpToRel, Below
<1>2. PICK x \in S : \A y \in S : <<y, x>> \notin Below  BY <1>1, WFMin
<1>3. ASSUME NEW y \in S  PROVE x <= y
  <2>1. <<y, x>> \in Nat \X Nat /\ <<y, x>>[1] = y /\ <<y, x>>[2] = x  OBVIOUS
  <2>2. ~(y < x)  BY <1>2, <2>1 DEF Below
  <2>3. x \in Nat /\ y \in Nat  OBVIOUS
  <2>4. QED  BY <2>2, <2>3
<1>4. QED  BY <1>3

\* The minimum that the code takes the first gap with.
LEMMA MinIsLeast ==
  ASSUME NEW S \in SUBSET Nat, S # {}
  PROVE  Min(S) \in S
BY LeastNatural DEF Min

\* The first byte behind a parameter.
EndOf(p) == p.place + p.size

\* Parameters share no byte of the args bytes the arguments have.
Laid(ps, args) ==
  /\ ps \in Seq(Parameter)
  /\ \A i \in DOMAIN ps : EndOf(ps[i]) <= args
  /\ \A i, j \in DOMAIN ps : i # j => EndOf(ps[i]) <= ps[j].place \/ EndOf(ps[j]) <= ps[i].place

\* The bytes of the parameters S.
Bytes(ps, S) == {b \in Nat : \E i \in S : ps[i].place <= b /\ b < EndOf(ps[i])}

LEMMA ParametersTyped ==
  ASSUME NEW ps \in Seq(Parameter)
  PROVE  /\ Len(ps) \in Nat /\ DOMAIN ps = 1..Len(ps)
         /\ IsFiniteSet(DOMAIN ps) /\ Cardinality(DOMAIN ps) = Len(ps)
         /\ \A i \in DOMAIN ps : /\ ps[i] \in Parameter
                                 /\ ps[i].nr \in Nat /\ ps[i].offset \in Nat
                                 /\ ps[i].place \in Nat /\ ps[i].size \in Nat
                                 /\ ps[i].size > 0 /\ EndOf(ps[i]) \in Nat
<1>1. Len(ps) \in Nat /\ DOMAIN ps = 1..Len(ps)  OBVIOUS
<1>2. \A i \in DOMAIN ps : ps[i] \in Parameter  BY <1>1
<1>3. IsFiniteSet(DOMAIN ps) /\ Cardinality(DOMAIN ps) = Len(ps)  BY <1>1, FS_Interval
<1>4. \A i \in DOMAIN ps : /\ ps[i].nr \in Nat /\ ps[i].offset \in Nat
                           /\ ps[i].place \in Nat /\ ps[i].size \in Nat
                           /\ ps[i].size > 0
  BY <1>2 DEF Parameter
<1>5. QED  BY <1>1, <1>2, <1>3, <1>4 DEF EndOf

LEMMA BytesFinite ==
  ASSUME NEW ps, NEW args \in Nat, Laid(ps, args), NEW S \in SUBSET DOMAIN ps
  PROVE  IsFiniteSet(Bytes(ps, S)) /\ Bytes(ps, S) \subseteq 0..(args - 1)
<1>1. \A i \in S : EndOf(ps[i]) \in Nat /\ EndOf(ps[i]) <= args
  BY ParametersTyped DEF Laid
<1>2. Bytes(ps, S) \subseteq 0..(args - 1)  BY <1>1 DEF Bytes
<1>3. IsFiniteSet(0..(args - 1))  BY FS_Interval
<1>4. QED  BY <1>2, <1>3, FS_Subset

\* One parameter more.
LEMMA BytesAdd ==
  ASSUME NEW ps, NEW args \in Nat, Laid(ps, args), NEW S \in SUBSET DOMAIN ps, NEW x \in S
  PROVE  Cardinality(Bytes(ps, S)) = ps[x].size + Cardinality(Bytes(ps, S \ {x}))
<1> DEFINE own == ps[x].place .. (EndOf(ps[x]) - 1)
           rest == Bytes(ps, S \ {x})
<1>1. /\ ps[x].place \in Nat /\ ps[x].size \in Nat /\ ps[x].size > 0
      /\ EndOf(ps[x]) = ps[x].place + ps[x].size
  BY ParametersTyped DEF Laid, EndOf
<1>2. Bytes(ps, S) = own \cup rest
  <2>1. own = {b \in Nat : ps[x].place <= b /\ b < EndOf(ps[x])}  BY <1>1
  <2>2. QED  BY <2>1 DEF Bytes
<1>3. own \cap rest = {}
  <2> SUFFICES ASSUME NEW b \in own, b \in rest  PROVE FALSE
    OBVIOUS
  <2>1. PICK i \in S \ {x} : ps[i].place <= b /\ b < EndOf(ps[i])  BY DEF Bytes
  <2> HIDE DEF rest
  <2>2. EndOf(ps[i]) <= ps[x].place \/ EndOf(ps[x]) <= ps[i].place  BY <2>1 DEF Laid
  <2>3. ps[i].place \in Nat /\ EndOf(ps[i]) \in Nat  BY ParametersTyped DEF Laid
  <2>4. b \in Int /\ ps[x].place <= b /\ b < EndOf(ps[x])  BY <1>1
  <2>5. QED  BY <1>1, <2>1, <2>2, <2>3, <2>4
<1>4. IsFiniteSet(own) /\ Cardinality(own) = ps[x].size
  <2>1. ps[x].place \in Int /\ EndOf(ps[x]) - 1 \in Int  BY <1>1
  <2>2. /\ IsFiniteSet(own)
        /\ Cardinality(own) = IF ps[x].place > EndOf(ps[x]) - 1 THEN 0
                              ELSE (EndOf(ps[x]) - 1) - ps[x].place + 1
    BY <2>1, FS_Interval
  <2>3. QED  BY <1>1, <2>2
<1>5. IsFiniteSet(rest)  BY BytesFinite
<1>6. Cardinality(own \cup rest) = Cardinality(own) + Cardinality(rest) - Cardinality({})
  <2> HIDE DEF own, rest
  <2>1. Cardinality(own \cup rest) = Cardinality(own) + Cardinality(rest) - Cardinality(own \cap rest)
    BY <1>4, <1>5, FS_Union
  <2>2. QED  BY <1>3, <2>1
<1>7. QED  
  <2>1. Cardinality(rest) \in Nat BY <1>5, FS_CardinalityType
  <2> QED BY <1>1, <1>2, <1>4, <1>6, <2>1, FS_EmptySet

\* A sum of sizes is a number of bytes.
LEMMA SumIsBytes ==
  ASSUME NEW ps, NEW args \in Nat, Laid(ps, args), NEW S \in SUBSET DOMAIN ps
  PROVE  TotalSize(ps, S) = Cardinality(Bytes(ps, S))
<1> DEFINE pick(s) == CHOOSE x \in s : TRUE
           Adds(g) == g = [s \in SUBSET S |-> IF s = {} THEN 0 ELSE ps[pick(s)].size + g[s \ {pick(s)}]]
           F == [s \in SUBSET S |-> Cardinality(Bytes(ps, s))]
<1>1. TotalSize(ps, S) = (CHOOSE g : Adds(g))[S]
  BY DEF TotalSize, MapThenSumSet, MapThenFoldSet
<1>2. IsFiniteSet(S)  BY ParametersTyped, FS_Subset DEF Laid
<1>3. \A s \in SUBSET S : s # {} => pick(s) \in s /\ s \ {pick(s)} \in SUBSET S
  OBVIOUS
<1>4. \A s \in SUBSET S : s # {} => F[s] = ps[pick(s)].size + F[s \ {pick(s)}]
  <2> SUFFICES ASSUME NEW s \in SUBSET S, s # {}
               PROVE  Cardinality(Bytes(ps, s)) = ps[pick(s)].size + Cardinality(Bytes(ps, s \ {pick(s)}))
    BY <1>3
  <2>1. s \in SUBSET DOMAIN ps /\ pick(s) \in s  BY <1>3
  <2> HIDE DEF pick
  <2>2. QED  BY <2>1, BytesAdd
<1>5. F[{}] = 0  BY FS_EmptySet DEF Bytes
<1>6. Adds(F)
  <2>1. \A s \in SUBSET S :
          F[s] = IF s = {} THEN 0 ELSE ps[pick(s)].size + F[s \ {pick(s)}]
    BY <1>4, <1>5
  <2> DEFINE G == [s \in SUBSET S |-> IF s = {} THEN 0 ELSE ps[pick(s)].size + F[s \ {pick(s)}]]
  <2>2. F = [s \in SUBSET S |-> F[s]]  OBVIOUS
  <2> HIDE DEF F, pick
  <2>3. F = G  BY <2>1, <2>2
  <2>4. QED  BY <2>3
<1>7. ASSUME NEW g, Adds(g)  PROVE \A s \in SUBSET S : g[s] = F[s]
  <2> DEFINE Bad == {n \in Nat : \E s \in SUBSET S : Cardinality(s) = n /\ g[s] # F[s]}
  <2>1. \A s \in SUBSET S : IsFiniteSet(s) /\ Cardinality(s) \in Nat
    BY <1>2, FS_Subset, FS_CardinalityType
  <2>2. \A s \in SUBSET S : g[s] = IF s = {} THEN 0 ELSE ps[pick(s)].size + g[s \ {pick(s)}]
    <3> DEFINE Body(s) == IF s = {} THEN 0 ELSE ps[pick(s)].size + g[s \ {pick(s)}]
    <3>1. g = [s \in SUBSET S |-> Body(s)]  BY <1>7
    <3> HIDE DEF Body
    <3>2. \A s \in SUBSET S : g[s] = Body(s)  BY <3>1
    <3>3. QED  BY <3>2 DEF Body
  <2> HIDE DEF F, pick
  <2>3. ASSUME Bad # {}  PROVE FALSE
    <3>1. PICK n \in Bad : \A k \in Bad : n <= k  BY <2>3, LeastNatural
    <3>2. PICK s \in SUBSET S : Cardinality(s) = n /\ g[s] # F[s]  BY <3>1
    <3>3. s # {}  BY <1>5, <2>2, <3>2
    <3> DEFINE t == s \ {pick(s)}
    <3>4. t \in SUBSET S /\ pick(s) \in s  BY <1>3, <3>3
    <3>5. Cardinality(t) = n - 1  BY <2>1, <3>2, <3>4, FS_RemoveElement
    <3>6. Cardinality(t) \notin Bad
      <4>1. n \in Nat /\ ~(n <= n - 1)  BY <3>1
      <4> HIDE DEF Bad
      <4>2. QED  BY <3>1, <3>5, <4>1
    <3>7. g[t] = F[t]  BY <2>1, <3>4, <3>6
    <3>8. QED  BY <1>4, <2>2, <3>2, <3>3, <3>7
  <2>4. QED  BY <2>1, <2>3
<1>8. Adds(CHOOSE g : Adds(g))
  <2> HIDE DEF Adds, F
  <2>1. QED  BY <1>6
<1>9. QED
  <2> HIDE DEF Adds
  <2>1. (CHOOSE g : Adds(g))[S] = F[S]  BY <1>7, <1>8
  <2>2. QED  BY <1>1, <2>1

-----------------------------------------------------------------------------
(* Arguments without padding.                                              *)

\* There is no padding.
Full(ps, args) == TotalSize(ps, DOMAIN ps) = args

LEMMA CountBelow ==
  ASSUME NEW n \in Nat
  PROVE  IsFiniteSet(0..(n - 1)) /\ Cardinality(0..(n - 1)) = n
<1>1. 0 \in Int /\ n - 1 \in Int  OBVIOUS
<1>2. QED  BY <1>1, FS_Interval

\* Without padding each byte belongs to a parameter.
LEMMA NoByteLeft ==
  ASSUME NEW ps, NEW args \in Nat, Laid(ps, args), Full(ps, args)
  PROVE  \A b \in 0..(args - 1) : \E i \in DOMAIN ps : ps[i].place <= b /\ b < EndOf(ps[i])
<1>1. Cardinality(Bytes(ps, DOMAIN ps)) = args  BY SumIsBytes DEF Full
<1>2. IsFiniteSet(0..(args - 1)) /\ Cardinality(0..(args - 1)) = args  BY CountBelow
<1>3. Bytes(ps, DOMAIN ps) \in SUBSET (0..(args - 1))  BY BytesFinite
<1>4. Bytes(ps, DOMAIN ps) = 0..(args - 1)  BY <1>1, <1>2, <1>3, FS_Subset
<1>5. QED  BY <1>4 DEF Bytes

\* Where one parameter ends the next one begins.
LEMMA NextBegins ==
  ASSUME NEW ps, NEW args \in Nat, Laid(ps, args), Full(ps, args),
         NEW i \in DOMAIN ps, EndOf(ps[i]) < args
  PROVE  \E j \in DOMAIN ps : ps[j].place = EndOf(ps[i])
<1>1. EndOf(ps[i]) \in 0..(args - 1)  BY ParametersTyped DEF Laid
<1>2. PICK j \in DOMAIN ps : ps[j].place <= EndOf(ps[i]) /\ EndOf(ps[i]) < EndOf(ps[j])
  BY <1>1, NoByteLeft
<1>3. /\ ps[i].place \in Nat /\ EndOf(ps[i]) \in Nat
      /\ ps[j].place \in Nat /\ EndOf(ps[j]) \in Nat
  BY ParametersTyped DEF Laid
<1>4. ps[i].place < EndOf(ps[i])  BY ParametersTyped DEF Laid, EndOf
<1>5. i # j  BY <1>2, <1>3
<1>6. EndOf(ps[i]) <= ps[j].place  BY <1>2, <1>3, <1>4, <1>5 DEF Laid
<1>7. QED  BY <1>2, <1>3, <1>6

\* A parameter begins at the beginning or where another one ends.
LEMMA OneEnds ==
  ASSUME NEW ps, NEW args \in Nat, Laid(ps, args), Full(ps, args),
         NEW i \in DOMAIN ps, ps[i].place > 0
  PROVE  \E j \in DOMAIN ps \ {i} : EndOf(ps[j]) = ps[i].place
<1>1. /\ ps[i].place \in Nat /\ EndOf(ps[i]) \in Nat /\ ps[i].place < EndOf(ps[i])
      /\ EndOf(ps[i]) <= args
  BY ParametersTyped DEF Laid, EndOf
<1>2. ps[i].place - 1 \in 0..(args - 1)  BY <1>1
<1>3. PICK j \in DOMAIN ps : ps[j].place <= ps[i].place - 1 /\ ps[i].place - 1 < EndOf(ps[j])
  BY <1>2, NoByteLeft
<1>4. ps[j].place \in Nat /\ EndOf(ps[j]) \in Nat  BY ParametersTyped DEF Laid
<1>5. i # j  BY <1>1, <1>3, <1>4
<1>6. EndOf(ps[j]) <= ps[i].place \/ EndOf(ps[i]) <= ps[j].place  BY <1>5 DEF Laid
<1>7. QED  BY <1>1, <1>3, <1>4, <1>5, <1>6

\* A parameter lies behind as many bytes as the parameters before it have.
LEMMA SizesBefore ==
  ASSUME NEW ps, NEW args \in Nat, Laid(ps, args), Full(ps, args), NEW i \in DOMAIN ps
  PROVE  TotalSize(ps, {j \in DOMAIN ps : ps[j].place < ps[i].place}) = ps[i].place
<1> DEFINE S == {j \in DOMAIN ps : ps[j].place < ps[i].place}
<1>1. /\ ps[i].place \in Nat /\ EndOf(ps[i]) \in Nat /\ ps[i].place < EndOf(ps[i])
      /\ EndOf(ps[i]) <= args
  BY ParametersTyped DEF Laid, EndOf
<1>2. ASSUME NEW b \in Bytes(ps, S)  PROVE b \in 0..(ps[i].place - 1)
  <2>1. PICK j \in S : ps[j].place <= b /\ b < EndOf(ps[j])  BY DEF Bytes
  <2>2. ps[j].place \in Nat /\ EndOf(ps[j]) \in Nat  BY ParametersTyped DEF Laid
  <2>3. j # i  BY <1>1
  <2>4. EndOf(ps[j]) <= ps[i].place \/ EndOf(ps[i]) <= ps[j].place  BY <2>3 DEF Laid
  <2>5. b \in Nat  BY DEF Bytes
  <2>6. QED  BY <1>1, <2>1, <2>2, <2>4, <2>5
<1>3. ASSUME NEW b \in 0..(ps[i].place - 1)  PROVE b \in Bytes(ps, S)
  <2>1. b \in 0..(args - 1) /\ b \in Nat /\ b < ps[i].place  BY <1>1
  <2>2. PICK j \in DOMAIN ps : ps[j].place <= b /\ b < EndOf(ps[j])  BY <2>1, NoByteLeft
  <2>3. ps[j].place \in Nat  BY ParametersTyped DEF Laid
  <2>4. ps[j].place < ps[i].place  BY <1>1, <2>1, <2>2, <2>3
  <2>5. QED  BY <2>1, <2>2, <2>4 DEF Bytes
<1>4. Bytes(ps, S) = 0..(ps[i].place - 1)  BY <1>2, <1>3
<1>5. Cardinality(0..(ps[i].place - 1)) = ps[i].place  BY <1>1, CountBelow
<1>6. S \in SUBSET DOMAIN ps  OBVIOUS
<1> HIDE DEF S
<1>7. TotalSize(ps, S) = ps[i].place  BY <1>4, <1>5, <1>6, SumIsBytes
<1>8. QED  BY <1>7 DEF S

LEMMA SizesAdd ==
  ASSUME NEW ps, NEW args \in Nat, Laid(ps, args),
         NEW S \in SUBSET DOMAIN ps, NEW T \in SUBSET DOMAIN ps, S \cap T = {}
  PROVE  TotalSize(ps, S) + TotalSize(ps, T) = TotalSize(ps, S \cup T)
<1>1. Bytes(ps, S \cup T) = Bytes(ps, S) \cup Bytes(ps, T)  BY DEF Bytes
<1>2. Bytes(ps, S) \cap Bytes(ps, T) = {}
  <2> SUFFICES ASSUME NEW b \in Bytes(ps, S), b \in Bytes(ps, T)  PROVE FALSE
    OBVIOUS
  <2>1. PICK i \in S : ps[i].place <= b /\ b < EndOf(ps[i])  BY DEF Bytes
  <2>2. PICK j \in T : ps[j].place <= b /\ b < EndOf(ps[j])  BY DEF Bytes
  <2>3. i # j /\ i \in DOMAIN ps /\ j \in DOMAIN ps  OBVIOUS
  <2>4. EndOf(ps[i]) <= ps[j].place \/ EndOf(ps[j]) <= ps[i].place  BY <2>3 DEF Laid
  <2>5. /\ ps[i].place \in Nat /\ EndOf(ps[i]) \in Nat
        /\ ps[j].place \in Nat /\ EndOf(ps[j]) \in Nat
    BY <2>3, ParametersTyped DEF Laid
  <2>6. b \in Nat  BY DEF Bytes
  <2>7. QED  BY <2>1, <2>2, <2>4, <2>5, <2>6
<1>3. IsFiniteSet(Bytes(ps, S)) /\ IsFiniteSet(Bytes(ps, T))  BY BytesFinite
<1>5. Cardinality(Bytes(ps, S \cup T)) = Cardinality(Bytes(ps, S)) + Cardinality(Bytes(ps, T))
  <2> DEFINE A == Bytes(ps, S)
             B == Bytes(ps, T)
  <2> HIDE DEF A, B
  <2>1. IsFiniteSet(A) /\ IsFiniteSet(B) /\ A \cap B = {}  BY <1>2, <1>3 DEF A, B
  <2>2. Cardinality(A \cup B) = Cardinality(A) + Cardinality(B) - Cardinality({})
    BY <2>1, FS_Union
  <2>3. Cardinality(A) \in Nat /\ Cardinality(B) \in Nat  BY <2>1, FS_CardinalityType
  <2>4. Cardinality(A \cup B) = Cardinality(A) + Cardinality(B)  BY <2>2, <2>3, FS_EmptySet
  <2>5. QED  BY <1>1, <2>4 DEF A, B
<1>6. S \cup T \in SUBSET DOMAIN ps  OBVIOUS
<1>7. QED  BY <1>5, <1>6, SumIsBytes

-----------------------------------------------------------------------------

\* The outputs lie behind the inputs, in the order of their numbers.
Ordered(ps) ==
  \A i \in DOMAIN ps : \A j \in Outputs(ps) :
    IF i \in Outputs(ps) THEN ps[i].nr < ps[j].nr <=> ps[i].place < ps[j].place
    ELSE ps[i].place < ps[j].place

\* The names of the outputs sort as their numbers do.
InOrder(ps) ==
  \A i, j \in Outputs(ps) : ps[i].nr < ps[j].nr => NameBefore(ps[i], ps[j])

LEMMA NamesLikeNumbers ==
  ASSUME NEW ps \in Seq(Parameter), InOrder(ps), NEW i \in Outputs(ps), NEW j \in Outputs(ps)
  PROVE  NameBefore(ps[j], ps[i]) <=> ps[j].nr < ps[i].nr
<1>1. i \in DOMAIN ps /\ j \in DOMAIN ps  BY DEF Outputs
<1>2. ps[i].nr \in Nat /\ ps[j].nr \in Nat  BY <1>1, ParametersTyped
<1>3. \A n \in Nat : NameKey(n) \in Int
  <2> SUFFICES ASSUME NEW n \in Nat  PROVE NameKey(n) \in Int
    OBVIOUS
  <2>1. n \div 10 \in Int /\ n % 10 \in Int  OBVIOUS
  <2>2. QED  BY <2>1 DEF NameKey
<1>4. NameKey(ps[i].nr) \in Int /\ NameKey(ps[j].nr) \in Int  BY <1>2, <1>3
<1>5. CASE ps[j].nr < ps[i].nr  BY <1>5 DEF InOrder
<1>6. CASE ps[i].nr < ps[j].nr
  <2>1. NameKey(ps[i].nr) < NameKey(ps[j].nr)  BY <1>6 DEF InOrder, NameBefore
  <2>2. QED  BY <1>2, <1>4, <1>6, <2>1 DEF NameBefore
<1>7. CASE ps[i].nr = ps[j].nr
  <2>1. ~(NameKey(ps[i].nr) < NameKey(ps[i].nr))  BY <1>4
  <2>2. QED  BY <1>2, <1>7, <2>1 DEF NameBefore
<1>8. QED  BY <1>2, <1>5, <1>6, <1>7

\* What doFillInOutputParameters computes is the place.
LEMMA OutputPlace ==
  ASSUME NEW ps, NEW args \in Nat, Laid(ps, args), Full(ps, args), Ordered(ps), InOrder(ps),
         NEW i \in Outputs(ps)
  PROVE  TotalSize(ps, DOMAIN ps \ Outputs(ps))
           + TotalSize(ps, {j \in Outputs(ps) : NameBefore(ps[j], ps[i])}) = ps[i].place
<1> DEFINE inputs == DOMAIN ps \ Outputs(ps)
           before == {j \in Outputs(ps) : NameBefore(ps[j], ps[i])}
<1>1. i \in DOMAIN ps /\ before \in SUBSET DOMAIN ps /\ inputs \in SUBSET DOMAIN ps
  BY DEF Outputs
<1>2. inputs \cap before = {}  OBVIOUS
<1>3. inputs \cup before = {j \in DOMAIN ps : ps[j].place < ps[i].place}
  <2>1. ASSUME NEW j \in Outputs(ps)
        PROVE  NameBefore(ps[j], ps[i]) <=> ps[j].place < ps[i].place
    <3>1. NameBefore(ps[j], ps[i]) <=> ps[j].nr < ps[i].nr  BY NamesLikeNumbers DEF Laid
    <3>2. j \in DOMAIN ps  BY DEF Outputs
    <3>3. QED  BY <3>1, <3>2 DEF Ordered
  <2>2. \A j \in inputs : ps[j].place < ps[i].place  BY DEF Ordered
  <2>3. Outputs(ps) \subseteq DOMAIN ps  BY DEF Outputs
  <2>4. QED  BY <2>1, <2>2, <2>3
<1> HIDE DEF inputs, before
<1>4. TotalSize(ps, inputs) + TotalSize(ps, before) = TotalSize(ps, inputs \cup before)
  BY <1>1, <1>2, SizesAdd
<1>5. QED  BY <1>1, <1>3, <1>4, SizesBefore DEF inputs, before

-----------------------------------------------------------------------------
(* Sorting.                                                                *)

\* Where sort.Slice leaves nothing to sort.
Sorted(ps) == \A i, j \in DOMAIN ps : i < j => ps[i].offset <= ps[j].offset

\* The parameters that come before another one in the sorted sequence.
SortsBefore(ps, i) ==
  {j \in DOMAIN ps : ps[j].offset < ps[i].offset \/ (ps[j].offset = ps[i].offset /\ j < i)}

\* qs are the parameters ps, the one at r[k] at k.
Rearranges(r, ps, qs) ==
  /\ r \in Bijection(DOMAIN ps, DOMAIN ps)
  /\ qs = [k \in DOMAIN ps |-> ps[r[k]]]

\* It is a strict order, so that no two have as many before them.
LEMMA SortBeforeOrders ==
  ASSUME NEW ps \in Seq(Parameter), NEW i \in DOMAIN ps, NEW j \in DOMAIN ps
  PROVE  /\ i # j => i \in SortsBefore(ps, j) \/ j \in SortsBefore(ps, i)
         /\ IsFiniteSet(SortsBefore(ps, i))
         /\ Cardinality(SortsBefore(ps, i)) \in 0..(Len(ps) - 1)
         /\ i \in SortsBefore(ps, j) => Cardinality(SortsBefore(ps, i)) < Cardinality(SortsBefore(ps, j))
<1>1. /\ DOMAIN ps = 1..Len(ps) /\ Len(ps) \in Nat /\ IsFiniteSet(DOMAIN ps)
      /\ Cardinality(DOMAIN ps) = Len(ps)
      /\ \A k \in DOMAIN ps : ps[k].offset \in Nat
  BY ParametersTyped
<1>2. i \in Nat /\ j \in Nat /\ ps[i].offset \in Nat /\ ps[j].offset \in Nat  BY <1>1
<1>3. i # j => i \in SortsBefore(ps, j) \/ j \in SortsBefore(ps, i)  BY <1>2 DEF SortsBefore
<1>4. \A k \in DOMAIN ps : SortsBefore(ps, k) \in SUBSET (DOMAIN ps \ {k})
  BY <1>1 DEF SortsBefore
<1>5. \A k \in DOMAIN ps : /\ IsFiniteSet(DOMAIN ps \ {k})
                           /\ Cardinality(DOMAIN ps \ {k}) = Len(ps) - 1
  BY <1>1, FS_RemoveElement
<1>6. \A k \in DOMAIN ps : /\ IsFiniteSet(SortsBefore(ps, k))
                           /\ Cardinality(SortsBefore(ps, k)) \in Nat
                           /\ Cardinality(SortsBefore(ps, k)) <= Len(ps) - 1
  <2> SUFFICES ASSUME NEW k \in DOMAIN ps
               PROVE  /\ IsFiniteSet(SortsBefore(ps, k))
                      /\ Cardinality(SortsBefore(ps, k)) \in Nat
                      /\ Cardinality(SortsBefore(ps, k)) <= Len(ps) - 1
    OBVIOUS
  <2>1. /\ IsFiniteSet(SortsBefore(ps, k))
        /\ Cardinality(SortsBefore(ps, k)) <= Cardinality(DOMAIN ps \ {k})
    BY <1>4, <1>5, FS_Subset
  <2>2. QED  BY <1>5, <2>1, FS_CardinalityType
<1>7. ASSUME i \in SortsBefore(ps, j)
      PROVE  Cardinality(SortsBefore(ps, i)) < Cardinality(SortsBefore(ps, j))
  <2>1. SortsBefore(ps, i) \in SUBSET (SortsBefore(ps, j) \ {i})
    <3>1. SUFFICES ASSUME NEW k \in SortsBefore(ps, i)  PROVE k \in SortsBefore(ps, j) \ {i}
      OBVIOUS
    <3>2. k \in DOMAIN ps /\ k \in Nat /\ ps[k].offset \in Nat  BY <1>1 DEF SortsBefore
    <3>3. QED  BY <1>2, <1>7, <3>2 DEF SortsBefore
  <2>2. /\ IsFiniteSet(SortsBefore(ps, j) \ {i})
        /\ Cardinality(SortsBefore(ps, j) \ {i}) = Cardinality(SortsBefore(ps, j)) - 1
    BY <1>6, <1>7, FS_RemoveElement
  <2>3. Cardinality(SortsBefore(ps, i)) <= Cardinality(SortsBefore(ps, j)) - 1
    BY <2>1, <2>2, FS_Subset
  <2>4. Cardinality(SortsBefore(ps, i)) \in Nat /\ Cardinality(SortsBefore(ps, j)) \in Nat
    BY <1>6
  <2>5. QED  BY <2>3, <2>4
<1>8. QED
  <2>1. Cardinality(SortsBefore(ps, i)) \in 0..(Len(ps) - 1)  BY <1>1, <1>6
  <2>2. QED  BY <1>3, <1>6, <1>7, <2>1

\* SortedByOffset gives the same parameters in the order of their offsets.
LEMMA SortedRearranges ==
  ASSUME NEW ps \in Seq(Parameter)
  PROVE  /\ \E r : Rearranges(r, ps, SortedByOffset(ps))
         /\ Sorted(SortedByOffset(ps))
<1> DEFINE D == DOMAIN ps
           rank == [i \in D |-> Cardinality(SortsBefore(ps, i)) + 1]
           r == [k \in D |-> CHOOSE i \in D : Cardinality(SortsBefore(ps, i)) = k - 1]
<1>1. D = 1..Len(ps) /\ Len(ps) \in Nat /\ IsFiniteSet(D)  BY ParametersTyped
<1>2. rank \in [D -> D]
  <2>1. \A i \in D : Cardinality(SortsBefore(ps, i)) + 1 \in D  BY <1>1, SortBeforeOrders
  <2>2. QED  BY <2>1
<1>3. \A i, j \in D : i \in SortsBefore(ps, j) => rank[i] < rank[j]
  <2> SUFFICES ASSUME NEW i \in D, NEW j \in D, i \in SortsBefore(ps, j)
               PROVE  Cardinality(SortsBefore(ps, i)) + 1 < Cardinality(SortsBefore(ps, j)) + 1
    OBVIOUS
  <2>1. /\ Cardinality(SortsBefore(ps, i)) < Cardinality(SortsBefore(ps, j))
        /\ Cardinality(SortsBefore(ps, i)) \in 0..(Len(ps) - 1)
        /\ Cardinality(SortsBefore(ps, j)) \in 0..(Len(ps) - 1)
    BY SortBeforeOrders
  <2>2. QED  BY <1>1, <2>1
<1>4. rank \in Injection(D, D)
  <2>1. ASSUME NEW i \in D, NEW j \in D, rank[i] = rank[j]  PROVE i = j
    <3>1. rank[i] \in Nat /\ rank[j] \in Nat  BY <1>1, <1>2
    <3>2. ~(rank[i] < rank[j]) /\ ~(rank[j] < rank[i])  BY <2>1, <3>1
    <3> HIDE DEF rank
    <3>3. QED  BY <1>3, <3>2, SortBeforeOrders
  <2> HIDE DEF rank
  <2>2. QED  BY <1>2, <2>1, Fun_IsInj
<1>5. rank \in Surjection(D, D)
  <2> HIDE DEF rank
  <2>1. QED  BY <1>1, <1>4, FS_Injection
<1>6. \A k \in D : \E i \in D : rank[i] = k
  <2> HIDE DEF rank
  <2>1. QED  BY <1>5, Fun_SurjectionProperties
<1>7. \A k \in D : r[k] \in D /\ rank[r[k]] = k
  <2> SUFFICES ASSUME NEW k \in D  PROVE r[k] \in D /\ rank[r[k]] = k
    OBVIOUS
  <2>1. k \in Nat  BY <1>1
  <2>2. \A i \in D : Cardinality(SortsBefore(ps, i)) \in Int  BY SortBeforeOrders
  <2>3. PICK i \in D : rank[i] = k  BY <1>6
  <2>4. Cardinality(SortsBefore(ps, i)) = k - 1  BY <2>1, <2>2, <2>3
  <2>5. r[k] \in D /\ Cardinality(SortsBefore(ps, r[k])) = k - 1  BY <2>4
  <2>6. QED  BY <2>1, <2>5
<1>8. r \in Bijection(D, D)
  <2> HIDE DEF rank
  <2>1. r = [k \in D |-> r[k]]  OBVIOUS
  <2> HIDE DEF r
  <2>2. r \in [D -> D]  BY <1>7, <2>1
  <2>3. \A j, k \in D : r[j] = r[k] => j = k  BY <1>7
  <2>4. \A i \in D : r[rank[i]] = i
    <3> SUFFICES ASSUME NEW i \in D  PROVE r[rank[i]] = i
      OBVIOUS
    <3>1. rank[i] \in D  BY <1>2
    <3>2. rank[r[rank[i]]] = rank[i] /\ r[rank[i]] \in D  BY <1>7, <3>1
    <3>3. QED  BY <1>4, <3>2, Fun_InjectionProperties
  <2>5. \A i \in D : \E k \in D : r[k] = i  BY <1>2, <2>4
  <2>6. QED  BY <2>2, <2>3, <2>5, Fun_IsBij
<1>9. SortedByOffset(ps) = [k \in D |-> ps[r[k]]]
  BY DEF SortedByOffset, SortsBefore
<1>10. Sorted(SortedByOffset(ps))
  <2> DEFINE qs == [k \in D |-> ps[r[k]]]
  <2>1. ASSUME NEW j \in D, NEW k \in D, j < k  PROVE ps[r[j]].offset <= ps[r[k]].offset
    <3>1. r[j] \in D /\ r[k] \in D /\ rank[r[j]] < rank[r[k]]  BY <1>7, <2>1
    <3>2. rank[r[j]] \in Nat /\ rank[r[k]] \in Nat  BY <1>1, <1>2, <3>1
    <3> HIDE DEF r, rank
    <3>3. r[j] # r[k] /\ r[k] \notin SortsBefore(ps, r[j])  BY <1>3, <3>1, <3>2
    <3>4. r[j] \in SortsBefore(ps, r[k])  BY <3>1, <3>3, SortBeforeOrders
    <3>5. ps[r[j]].offset \in Nat /\ ps[r[k]].offset \in Nat  BY <3>1, ParametersTyped
    <3>6. QED  BY <3>4, <3>5 DEF SortsBefore
  <2> HIDE DEF r, rank
  <2>2. Sorted(qs)  BY <2>1 DEF Sorted
  <2>3. QED  BY <1>9, <2>2
<1>11. Rearranges(r, ps, SortedByOffset(ps))  BY <1>8, <1>9 DEF Rearranges
<1>12. QED  BY <1>10, <1>11

\* The places that are known are the true ones.
PlacesTrue(ps) == \A i \in DOMAIN ps : ps[i].exist => ps[i].offset = ps[i].place

AtMostOne(S) == \A x, y \in S : x = y

LEMMA RearrangedTyped ==
  ASSUME NEW ps \in Seq(Parameter), NEW qs, NEW r, Rearranges(r, ps, qs)
  PROVE  /\ qs \in Seq(Parameter) /\ DOMAIN qs = DOMAIN ps
         /\ \A k \in DOMAIN ps : r[k] \in DOMAIN ps /\ qs[k] = ps[r[k]]
         /\ \A j, k \in DOMAIN ps : r[j] = r[k] => j = k
         /\ \A i \in DOMAIN ps : \E k \in DOMAIN ps : r[k] = i
<1>1. /\ r \in [DOMAIN ps -> DOMAIN ps]
      /\ \A j, k \in DOMAIN ps : r[j] = r[k] => j = k
      /\ \A i \in DOMAIN ps : \E k \in DOMAIN ps : r[k] = i
  BY Fun_BijectionProperties DEF Rearranges
<1>2. /\ DOMAIN ps = 1..Len(ps) /\ Len(ps) \in Nat
      /\ \A k \in DOMAIN ps : ps[k] \in Parameter
  BY ParametersTyped
<1>3. /\ DOMAIN qs = DOMAIN ps
      /\ \A k \in DOMAIN ps : r[k] \in DOMAIN ps /\ qs[k] = ps[r[k]]
  BY <1>1 DEF Rearranges
<1>4. qs \in [1..Len(ps) -> Parameter]  BY <1>1, <1>2, <1>3 DEF Rearranges
<1>5. qs \in Seq(Parameter)  BY <1>2, <1>4
<1>6. QED  BY <1>1, <1>3, <1>5

\* Nothing but the order changes.
LEMMA RearrangedAlike ==
  ASSUME NEW ps \in Seq(Parameter), NEW qs, NEW r, Rearranges(r, ps, qs)
  PROVE  /\ Ordered(ps) => Ordered(qs)
         /\ InOrder(qs) => InOrder(ps)
         /\ PlacesTrue(ps) => PlacesTrue(qs)
         /\ OutputsUnknown(qs) <=> OutputsUnknown(ps)
         /\ AtMostOne(Missing(ps)) => AtMostOne(Missing(qs))
         /\ AtMostOne(Missing(ps) \ Outputs(ps)) => AtMostOne(Missing(qs) \ Outputs(qs))
         /\ Missing(ps) = {} => Missing(qs) = {}
<1>0. /\ DOMAIN qs = DOMAIN ps
      /\ \A k \in DOMAIN ps : r[k] \in DOMAIN ps /\ qs[k] = ps[r[k]]
      /\ \A j, k \in DOMAIN ps : r[j] = r[k] => j = k
      /\ \A i \in DOMAIN ps : \E k \in DOMAIN ps : r[k] = i
  BY RearrangedTyped
<1>1. \A k \in DOMAIN ps : /\ k \in Outputs(qs) <=> r[k] \in Outputs(ps)
                           /\ k \in Missing(qs) <=> r[k] \in Missing(ps)
  BY <1>0 DEF Outputs, Missing
<1>2. /\ Outputs(qs) \subseteq DOMAIN ps /\ Missing(qs) \subseteq DOMAIN ps
      /\ Outputs(ps) \subseteq DOMAIN ps /\ Missing(ps) \subseteq DOMAIN ps
  BY <1>0 DEF Outputs, Missing
<1>3. Ordered(ps) => Ordered(qs)
  <2> SUFFICES ASSUME Ordered(ps), NEW i \in DOMAIN qs, NEW j \in Outputs(qs)
               PROVE  IF i \in Outputs(qs) THEN qs[i].nr < qs[j].nr <=> qs[i].place < qs[j].place
                      ELSE qs[i].place < qs[j].place
    BY DEF Ordered
  <2>1. /\ i \in DOMAIN ps /\ j \in DOMAIN ps /\ r[i] \in DOMAIN ps /\ r[j] \in Outputs(ps)
        /\ qs[i] = ps[r[i]] /\ qs[j] = ps[r[j]]
        /\ i \in Outputs(qs) <=> r[i] \in Outputs(ps)
    BY <1>0, <1>1, <1>2
  <2>2. QED  BY <2>1 DEF Ordered
<1>4. InOrder(qs) => InOrder(ps)
  <2> SUFFICES ASSUME InOrder(qs), NEW i \in Outputs(ps), NEW j \in Outputs(ps),
                      ps[i].nr < ps[j].nr
               PROVE  NameBefore(ps[i], ps[j])
    BY DEF InOrder
  <2>1. PICK k \in DOMAIN ps : r[k] = i  BY <1>0, <1>2
  <2>2. PICK l \in DOMAIN ps : r[l] = j  BY <1>0, <1>2
  <2>3. k \in Outputs(qs) /\ l \in Outputs(qs) /\ qs[k] = ps[i] /\ qs[l] = ps[j]
    BY <1>0, <1>1, <2>1, <2>2
  <2>4. QED  BY <2>3 DEF InOrder
<1>5. PlacesTrue(ps) => PlacesTrue(qs)
  <2> SUFFICES ASSUME PlacesTrue(ps), NEW k \in DOMAIN qs, qs[k].exist
               PROVE  qs[k].offset = qs[k].place
    BY DEF PlacesTrue
  <2>1. r[k] \in DOMAIN ps /\ qs[k] = ps[r[k]]  BY <1>0
  <2>2. QED  BY <2>1 DEF PlacesTrue
<1>6. OutputsUnknown(qs) <=> OutputsUnknown(ps)
  <2>1. ASSUME OutputsUnknown(ps), NEW k \in Outputs(qs)  PROVE ~qs[k].exist /\ qs[k].unnamed
    <3>1. k \in DOMAIN ps /\ r[k] \in Outputs(ps) /\ qs[k] = ps[r[k]]  BY <1>0, <1>1, <1>2
    <3>2. QED  BY <2>1, <3>1 DEF OutputsUnknown
  <2>2. ASSUME OutputsUnknown(qs), NEW i \in Outputs(ps)  PROVE ~ps[i].exist /\ ps[i].unnamed
    <3>1. PICK k \in DOMAIN ps : r[k] = i  BY <1>0, <1>2
    <3>2. k \in Outputs(qs) /\ qs[k] = ps[i]  BY <1>0, <1>1, <3>1
    <3>3. QED  BY <2>2, <3>2 DEF OutputsUnknown
  <2>3. QED  BY <2>1, <2>2 DEF OutputsUnknown
<1>7. AtMostOne(Missing(ps)) => AtMostOne(Missing(qs))
  <2> SUFFICES ASSUME AtMostOne(Missing(ps)), NEW j \in Missing(qs), NEW k \in Missing(qs)
               PROVE  j = k
    BY DEF AtMostOne
  <2>1. j \in DOMAIN ps /\ k \in DOMAIN ps  BY <1>2
  <2>2. r[j] \in Missing(ps) /\ r[k] \in Missing(ps)  BY <1>1, <2>1
  <2>3. r[j] = r[k]  BY <2>2 DEF AtMostOne
  <2>4. QED  BY <1>0, <2>1, <2>3
<1>8. AtMostOne(Missing(ps) \ Outputs(ps)) => AtMostOne(Missing(qs) \ Outputs(qs))
  <2> SUFFICES ASSUME AtMostOne(Missing(ps) \ Outputs(ps)), NEW j \in Missing(qs) \ Outputs(qs),
                      NEW k \in Missing(qs) \ Outputs(qs)
               PROVE  j = k
    BY DEF AtMostOne
  <2>1. j \in DOMAIN ps /\ k \in DOMAIN ps  BY <1>2
  <2>2. r[j] \in Missing(ps) \ Outputs(ps) /\ r[k] \in Missing(ps) \ Outputs(ps)  BY <1>1, <2>1
  <2>3. r[j] = r[k]  BY <2>2 DEF AtMostOne
  <2>4. QED  BY <1>0, <2>1, <2>3
<1>9. Missing(ps) = {} => Missing(qs) = {}  BY <1>0, <1>1, <1>2
<1>10. QED  BY <1>3, <1>4, <1>5, <1>6, <1>7, <1>8, <1>9

\* The layout does not depend on the order.
LEMMA RearrangedLaid ==
  ASSUME NEW args \in Nat, NEW ps, Laid(ps, args), NEW qs, NEW r, Rearranges(r, ps, qs)
  PROVE  Laid(qs, args) /\ TotalSize(qs, DOMAIN qs) = TotalSize(ps, DOMAIN ps)
<1>1. /\ ps \in Seq(Parameter) /\ qs \in Seq(Parameter) /\ DOMAIN qs = DOMAIN ps
      /\ \A k \in DOMAIN ps : r[k] \in DOMAIN ps /\ qs[k] = ps[r[k]]
      /\ \A j, k \in DOMAIN ps : r[j] = r[k] => j = k
      /\ \A i \in DOMAIN ps : \E k \in DOMAIN ps : r[k] = i
  BY RearrangedTyped DEF Laid
<1>2. Laid(qs, args)
  <2>1. \A i \in DOMAIN qs : EndOf(qs[i]) <= args  BY <1>1 DEF Laid
  <2>2. ASSUME NEW i \in DOMAIN qs, NEW j \in DOMAIN qs, i # j
        PROVE  EndOf(qs[i]) <= qs[j].place \/ EndOf(qs[j]) <= qs[i].place
    <3>1. /\ r[i] \in DOMAIN ps /\ r[j] \in DOMAIN ps /\ r[i] # r[j]
          /\ qs[i] = ps[r[i]] /\ qs[j] = ps[r[j]]
      BY <1>1, <2>2
    <3>2. QED  BY <3>1 DEF Laid
  <2>3. QED  BY <1>1, <2>1, <2>2 DEF Laid
<1>3. Bytes(qs, DOMAIN qs) = Bytes(ps, DOMAIN ps)
  <2>1. ASSUME NEW b \in Bytes(qs, DOMAIN qs)  PROVE b \in Bytes(ps, DOMAIN ps)
    BY <1>1 DEF Bytes
  <2>2. ASSUME NEW b \in Bytes(ps, DOMAIN ps)  PROVE b \in Bytes(qs, DOMAIN qs)
    <3>1. PICK i \in DOMAIN ps : ps[i].place <= b /\ b < EndOf(ps[i])  BY DEF Bytes
    <3>2. PICK k \in DOMAIN ps : r[k] = i  BY <1>1
    <3>3. k \in DOMAIN qs /\ qs[k] = ps[i]  BY <1>1, <3>2
    <3>4. QED  BY <3>1, <3>3 DEF Bytes
  <2>3. QED  BY <2>1, <2>2
<1>4. QED
  <2>1. DOMAIN qs \in SUBSET DOMAIN qs /\ DOMAIN ps \in SUBSET DOMAIN ps  OBVIOUS
  <2>2. QED  BY <1>2, <1>3, <2>1, SumIsBytes

-----------------------------------------------------------------------------

\* The same parameters, of which more may be known.
SameParameters(ps, qs) ==
  /\ qs \in Seq(Parameter) /\ DOMAIN qs = DOMAIN ps
  /\ \A i \in DOMAIN ps : /\ qs[i].size = ps[i].size /\ qs[i].place = ps[i].place
                          /\ qs[i].nr = ps[i].nr /\ qs[i].output = ps[i].output

LEMMA SameLaid ==
  ASSUME NEW args, NEW ps, Laid(ps, args), NEW qs, SameParameters(ps, qs)
  PROVE  /\ Laid(qs, args) /\ Outputs(qs) = Outputs(ps)
         /\ Ordered(ps) => Ordered(qs)
         /\ InOrder(qs) => InOrder(ps)
<1>1. \A i \in DOMAIN ps : EndOf(qs[i]) = EndOf(ps[i])  BY DEF SameParameters, EndOf
<1>2. Laid(qs, args)
  <2>1. qs \in Seq(Parameter) /\ DOMAIN qs = DOMAIN ps /\ \A i \in DOMAIN ps : qs[i].place = ps[i].place
    BY DEF SameParameters
  <2>2. \A i \in DOMAIN qs : EndOf(qs[i]) <= args  BY <1>1, <2>1 DEF Laid
  <2>3. ASSUME NEW i \in DOMAIN qs, NEW j \in DOMAIN qs, i # j
        PROVE  EndOf(qs[i]) <= qs[j].place \/ EndOf(qs[j]) <= qs[i].place
    BY <1>1, <2>1, <2>3 DEF Laid
  <2>4. QED  BY <2>1, <2>2, <2>3 DEF Laid
<1>3. Outputs(qs) = Outputs(ps)  BY DEF SameParameters, Outputs
<1>4. Outputs(ps) \subseteq DOMAIN ps  BY DEF Outputs
<1>5. Ordered(ps) => Ordered(qs)  BY <1>3, <1>4 DEF SameParameters, Ordered
<1>6. InOrder(qs) => InOrder(ps)
  BY <1>3, <1>4 DEF SameParameters, InOrder, NameBefore
<1>7. QED  BY <1>2, <1>3, <1>5, <1>6

-----------------------------------------------------------------------------
(* The parameter that is left.                                             *)

\* The parameter put at the end of the arguments.
Sentinel(ps) == [exist |-> TRUE, offset |-> TotalSize(ps, DOMAIN ps)]

\* The next parameter with a place, or the sentinel.
FollowingOf(ps, i) ==
  IF Append(ps, Sentinel(ps))[i + 1].exist THEN i + 1 ELSE i + 2

\* The parameters with a gap behind.
Gaps(ps) ==
  {i \in DOMAIN ps : /\ ps[i].exist
                     /\ ps[i].offset + ps[i].size # Append(ps, Sentinel(ps))[FollowingOf(ps, i)].offset}

LEMMA UnknownOffset ==
  ASSUME NEW ps
  PROVE  CalculateUnknownParameterOffset(ps)
           = IF Gaps(ps) = {} THEN 0 ELSE ps[Min(Gaps(ps))].offset + ps[Min(Gaps(ps))].size
BY DEF CalculateUnknownParameterOffset, Gaps, FollowingOf, Sentinel

LEMMA SentinelBehind ==
  ASSUME NEW ps \in Seq(Parameter)
  PROVE  /\ \A i \in 1..Len(ps) : Append(ps, Sentinel(ps))[i] = ps[i]
         /\ Append(ps, Sentinel(ps))[Len(ps) + 1] = Sentinel(ps)
<1> DEFINE Q == Parameter \cup {Sentinel(ps)}
<1>1. ps \in Seq(Q) /\ Sentinel(ps) \in Q
  <2>1. Sentinel(ps) \in Q  OBVIOUS
  <2>2. Len(ps) \in Nat /\ ps \in [1..Len(ps) -> Parameter]  OBVIOUS
  <2>3. ps \in [1..Len(ps) -> Q]  BY <2>2
  <2> HIDE DEF Q
  <2>4. QED  BY <2>1, <2>2, <2>3
<1> HIDE DEF Q
<1>2. QED  BY <1>1, AppendProperties

LEMMA UnknownTyped ==
  ASSUME NEW ps \in Seq(Parameter)
  PROVE  CalculateUnknownParameterOffset(ps) \in Nat
<1>1. \A i \in DOMAIN ps : i \in Nat /\ ps[i].offset \in Nat /\ ps[i].size \in Nat
  BY ParametersTyped
<1>2. Gaps(ps) \in SUBSET Nat /\ Gaps(ps) \subseteq DOMAIN ps  BY <1>1 DEF Gaps
<1>3. CASE Gaps(ps) = {}  BY <1>3, UnknownOffset
<1>4. CASE Gaps(ps) # {}
  <2>1. Min(Gaps(ps)) \in DOMAIN ps  BY <1>2, <1>4, MinIsLeast
  <2>2. QED  BY <1>1, <1>4, <2>1, UnknownOffset
<1>5. QED  BY <1>3, <1>4

\* With one parameter missing the next one with a place is the next but that one.
LEMMA FollowingNext ==
  ASSUME NEW ps \in Seq(Parameter), NEW m \in DOMAIN ps, Missing(ps) = {m},
         NEW i \in DOMAIN ps, i # m
  PROVE  LET n == FollowingOf(ps, i)
             o == Append(ps, Sentinel(ps))[n].offset
         IN  /\ n \in Nat /\ i < n
             /\ \A j \in DOMAIN ps : i < j /\ j # m => n <= j
             /\ \/ n \in DOMAIN ps /\ n # m /\ o = ps[n].offset
                \/ n \notin DOMAIN ps /\ o = TotalSize(ps, DOMAIN ps)
<1> DEFINE W == Append(ps, Sentinel(ps))
           n == FollowingOf(ps, i)
<1>1. DOMAIN ps = 1..Len(ps) /\ Len(ps) \in Nat  BY ParametersTyped
<1>2. \A j \in DOMAIN ps : W[j] = ps[j]  BY <1>1, SentinelBehind
<1>3. W[Len(ps) + 1].exist /\ W[Len(ps) + 1].offset = TotalSize(ps, DOMAIN ps)
  BY SentinelBehind DEF Sentinel
<1>4. \A j \in DOMAIN ps : ps[j].exist <=> j # m  BY DEF Missing
<1>5. n = IF W[i + 1].exist THEN i + 1 ELSE i + 2  BY DEF FollowingOf
<1> HIDE DEF W, n
<1>6. CASE i + 1 \in DOMAIN ps /\ i + 1 # m
  <2>1. n = i + 1  BY <1>2, <1>4, <1>5, <1>6
  <2>2. QED  BY <1>1, <1>2, <1>6, <2>1 DEF W, n
<1>7. CASE i + 1 = m
  <2>1. n = i + 2  BY <1>2, <1>4, <1>5, <1>7
  <2>2. CASE i + 2 \in DOMAIN ps
    <3>1. i + 2 # m  BY <1>1, <1>7
    <3>2. QED  BY <1>1, <1>2, <1>7, <2>1, <2>2, <3>1 DEF W, n
  <2>3. CASE i + 2 \notin DOMAIN ps
    <3>1. i + 2 = Len(ps) + 1  BY <1>1, <1>7, <2>3
    <3>2. QED  BY <1>1, <1>3, <1>7, <2>1, <2>3, <3>1 DEF W, n
  <2>4. QED  BY <2>2, <2>3
<1>8. CASE i + 1 \notin DOMAIN ps
  <2>1. i + 1 = Len(ps) + 1  BY <1>1, <1>8
  <2>2. n = i + 1  BY <1>3, <1>5, <2>1
  <2>3. QED  BY <1>1, <1>3, <1>8, <2>1, <2>2 DEF W, n
<1>9. QED  BY <1>6, <1>7, <1>8

\* There is a gap behind a parameter where the missing one is.
LEMMA GapBefore ==
  ASSUME NEW args \in Nat, NEW ps, Laid(ps, args), Full(ps, args), PlacesTrue(ps), Sorted(ps),
         NEW m \in DOMAIN ps, Missing(ps) = {m}, NEW i \in DOMAIN ps, i # m
  PROVE  i \in Gaps(ps) <=> EndOf(ps[i]) = ps[m].place
<1> DEFINE n == FollowingOf(ps, i)
           o == Append(ps, Sentinel(ps))[n].offset
<1>1. /\ ps \in Seq(Parameter) /\ DOMAIN ps = 1..Len(ps) /\ Len(ps) \in Nat
      /\ \A j \in DOMAIN ps : /\ j \in Nat /\ ps[j].place \in Nat /\ EndOf(ps[j]) \in Nat
                              /\ ps[j].place < EndOf(ps[j]) /\ EndOf(ps[j]) <= args
  BY ParametersTyped DEF Laid, EndOf
<1>2. \A j \in DOMAIN ps : j # m => ps[j].exist /\ ps[j].offset = ps[j].place
  BY DEF Missing, PlacesTrue
<1>3. /\ n \in Nat /\ i < n
      /\ \A j \in DOMAIN ps : i < j /\ j # m => n <= j
      /\ \/ n \in DOMAIN ps /\ n # m /\ o = ps[n].offset
         \/ n \notin DOMAIN ps /\ o = args
  BY <1>1, FollowingNext DEF Full
<1>4. i \in Gaps(ps) <=> EndOf(ps[i]) # o  BY <1>2 DEF Gaps, EndOf
<1> HIDE DEF n, o
<1>5. ASSUME EndOf(ps[i]) # o  PROVE EndOf(ps[i]) = ps[m].place
  <2>1. EndOf(ps[i]) < o
    <3>1. CASE n \in DOMAIN ps
      <4>1. n # m /\ o = ps[n].place /\ ps[i].place <= ps[n].place
        BY <1>2, <1>3, <3>1 DEF Sorted
      <4>2. EndOf(ps[i]) <= ps[n].place \/ EndOf(ps[n]) <= ps[i].place
        BY <1>1, <1>3, <3>1 DEF Laid
      <4>3. QED  BY <1>1, <1>5, <3>1, <4>1, <4>2
    <3>2. CASE n \notin DOMAIN ps  BY <1>1, <1>3, <1>5, <3>2
    <3>3. QED  BY <3>1, <3>2
  <2>2. EndOf(ps[i]) < args
    <3>1. CASE n \in DOMAIN ps
      <4>1. o = ps[n].place  BY <1>2, <1>3, <3>1
      <4>2. QED  BY <1>1, <2>1, <3>1, <4>1
    <3>2. CASE n \notin DOMAIN ps  BY <1>3, <2>1, <3>2
    <3>3. QED  BY <3>1, <3>2
  <2>3. PICK j \in DOMAIN ps : ps[j].place = EndOf(ps[i])  BY <2>2, NextBegins
  <2>4. CASE j = m  BY <2>3, <2>4
  <2>5. CASE j # m
    <3>1. ps[i].place < ps[j].place  BY <1>1, <2>3
    <3>2. i < j
      <4>1. ~(j < i)
        <5>1. j < i => ps[j].place <= ps[i].place  BY <1>2, <2>5 DEF Sorted
        <5>2. QED  BY <1>1, <3>1, <5>1
      <4>2. j # i  BY <1>1, <3>1
      <4>3. QED  BY <1>1, <4>1, <4>2
    <3>3. n <= j /\ j \in DOMAIN ps  BY <1>3, <2>5, <3>2
    <3>4. n \in DOMAIN ps  BY <1>1, <1>3, <3>3
    <3>5. n # m /\ o = ps[n].place  BY <1>2, <1>3, <3>4
    <3>6. ps[n].place <= ps[j].place
      <4>1. n < j => ps[n].offset <= ps[j].offset  BY <3>3, <3>4 DEF Sorted
      <4>2. QED  BY <1>1, <1>2, <1>3, <2>5, <3>3, <3>4, <3>5, <4>1
    <3>7. QED  BY <1>1, <2>1, <2>3, <3>4, <3>5, <3>6
  <2>6. QED  BY <2>4, <2>5
<1>6. ASSUME EndOf(ps[i]) = ps[m].place, EndOf(ps[i]) = o  PROVE FALSE
  <2>1. CASE n \in DOMAIN ps
    <3>1. n # m /\ ps[n].place = ps[m].place  BY <1>2, <1>3, <1>6, <2>1
    <3>2. EndOf(ps[n]) <= ps[m].place \/ EndOf(ps[m]) <= ps[n].place  BY <2>1, <3>1 DEF Laid
    <3>3. QED  BY <1>1, <2>1, <3>1, <3>2
  <2>2. CASE n \notin DOMAIN ps
    <3>1. ps[m].place = args  BY <1>3, <1>6, <2>2
    <3>2. ps[m].place \in Nat /\ EndOf(ps[m]) \in Nat /\ ps[m].place < EndOf(ps[m]) /\ EndOf(ps[m]) <= args
      BY <1>1
    <3>3. QED  BY <3>1, <3>2
  <2>3. QED  BY <2>1, <2>2
<1>7. QED  BY <1>4, <1>5, <1>6

\* What calculateUnknownParameterOffset computes is the place.
LEMMA UnknownPlace ==
  ASSUME NEW args \in Nat, NEW ps, Laid(ps, args), Full(ps, args), PlacesTrue(ps), Sorted(ps),
         NEW m \in DOMAIN ps, Missing(ps) = {m}
  PROVE  CalculateUnknownParameterOffset(ps) = ps[m].place
<1>1. /\ ps \in Seq(Parameter) /\ ps[m].place \in Nat
      /\ \A i \in DOMAIN ps : i \in Nat /\ EndOf(ps[i]) \in Nat
  BY ParametersTyped DEF Laid
<1>2. \A i \in DOMAIN ps : i # m => ps[i].exist /\ ps[i].offset = ps[i].place
  BY DEF Missing, PlacesTrue
<1>3. Gaps(ps) \subseteq DOMAIN ps \ {m} /\ Gaps(ps) \in SUBSET Nat  BY <1>1 DEF Gaps, Missing
<1>4. CASE Gaps(ps) = {}
  <2>1. ASSUME ps[m].place > 0  PROVE FALSE
    <3>1. PICK j \in DOMAIN ps \ {m} : EndOf(ps[j]) = ps[m].place  BY <2>1, OneEnds
    <3>2. j \in Gaps(ps)  BY <3>1, GapBefore
    <3>3. QED  BY <1>4, <3>2
  <2>2. QED  BY <1>1, <1>4, <2>1, UnknownOffset
<1>5. CASE Gaps(ps) # {}
  <2> DEFINE i == Min(Gaps(ps))
  <2>1. i \in Gaps(ps)  BY <1>3, <1>5, MinIsLeast
  <2> HIDE DEF i
  <2>2. i \in DOMAIN ps /\ i # m  BY <1>3, <2>1
  <2>3. EndOf(ps[i]) = ps[m].place  BY <2>1, <2>2, GapBefore
  <2>4. ps[i].offset + ps[i].size = EndOf(ps[i])  BY <1>2, <2>2 DEF EndOf
  <2>5. QED  BY <1>5, <2>3, <2>4, UnknownOffset DEF i
<1>6. QED  BY <1>4, <1>5

-----------------------------------------------------------------------------
(* The parts of the filling in.                                            *)

\* What the compiler guarantees, in the terms of the lemmas.
LEMMA CompiledLaid ==
  ASSUME NEW ps, NEW args \in Int, AsCompiled(ps, args)
  PROVE  /\ ps \in Seq(Parameter) /\ Laid(ps, args) /\ Ordered(ps) /\ PlacesTrue(ps)
         /\ DOMAIN ps # {} => args \in Nat /\ args < Wrap
<1>1. ps \in Seq(Parameter)  BY DEF AsCompiled
<1>2. Laid(ps, args)  BY DEF AsCompiled, Laid, EndOf
<1>3. PlacesTrue(ps)  BY DEF AsCompiled, PlacesTrue
<1>4. Ordered(ps)  BY DEF AsCompiled, Ordered
<1>5. ASSUME NEW i \in DOMAIN ps  PROVE args \in Nat /\ args < Wrap
  <2>1. EndOf(ps[i]) \in Nat  BY <1>1, ParametersTyped
  <2>2. EndOf(ps[i]) <= args /\ args < Wrap  BY <1>2 DEF Laid, AsCompiled
  <2>3. QED  BY <2>1, <2>2
<1>6. QED  BY <1>1, <1>2, <1>3, <1>4, <1>5

LEMMA SameTotal ==
  ASSUME NEW args \in Nat, NEW ps, Laid(ps, args), NEW qs, SameParameters(ps, qs)
  PROVE  TotalSize(qs, DOMAIN qs) = TotalSize(ps, DOMAIN ps)
<1>1. \A i \in DOMAIN ps : EndOf(qs[i]) = EndOf(ps[i])  BY DEF SameParameters, EndOf
<1>2. Bytes(qs, DOMAIN qs) = Bytes(ps, DOMAIN ps)  BY <1>1 DEF SameParameters, Bytes
<1>3. DOMAIN ps \in SUBSET DOMAIN ps /\ DOMAIN qs \in SUBSET DOMAIN qs  OBVIOUS
<1>4. QED  BY <1>2, <1>3, SameLaid, SumIsBytes

LEMMA SizesTyped ==
  ASSUME NEW args \in Nat, NEW ps, Laid(ps, args), NEW S \in SUBSET DOMAIN ps
  PROVE  TotalSize(ps, S) \in Nat
BY SumIsBytes, BytesFinite, FS_CardinalityType

\* doFillInOutputParameters
LEMMA OutputsFilled ==
  ASSUME NEW args \in Nat, NEW ps, Laid(ps, args)
  PROVE  LET qs == DoFillInOutputParameters(ps)
         IN  /\ SameParameters(ps, qs)
             /\ Missing(qs) = Missing(ps) \ Outputs(ps)
             /\ Full(ps, args) /\ Ordered(ps) /\ InOrder(ps) /\ PlacesTrue(ps) => PlacesTrue(qs)
<1> DEFINE qs == DoFillInOutputParameters(ps)
           Offset(i) == TotalSize(ps, DOMAIN ps \ Outputs(ps))
                          + TotalSize(ps, {j \in Outputs(ps) : NameBefore(ps[j], ps[i])})
<1>1. qs = [i \in DOMAIN ps |->
              IF ps[i].output THEN [ps[i] EXCEPT !.exist = TRUE, !.offset = Offset(i)] ELSE ps[i]]
  BY DEF DoFillInOutputParameters
<1>2. \A i \in DOMAIN ps : Offset(i) \in Nat
  <2> SUFFICES ASSUME NEW i \in DOMAIN ps  PROVE Offset(i) \in Nat
    OBVIOUS
  <2>1. /\ DOMAIN ps \ Outputs(ps) \in SUBSET DOMAIN ps
        /\ {j \in Outputs(ps) : NameBefore(ps[j], ps[i])} \in SUBSET DOMAIN ps
    BY DEF Outputs
  <2>2. QED  BY <2>1, SizesTyped
<1> HIDE DEF qs, Offset
<1>3. /\ ps \in Seq(Parameter) /\ DOMAIN ps = 1..Len(ps) /\ Len(ps) \in Nat
      /\ \A i \in DOMAIN ps : ps[i] \in Parameter
  BY ParametersTyped DEF Laid
<1>4. \A i \in DOMAIN ps : /\ qs[i] \in Parameter
                           /\ qs[i].size = ps[i].size /\ qs[i].place = ps[i].place
                           /\ qs[i].nr = ps[i].nr /\ qs[i].output = ps[i].output
                           /\ ps[i].output => qs[i].exist /\ qs[i].offset = Offset(i)
                           /\ ~ps[i].output => qs[i] = ps[i]
  <2> SUFFICES ASSUME NEW i \in DOMAIN ps
               PROVE  /\ qs[i] \in Parameter
                      /\ qs[i].size = ps[i].size /\ qs[i].place = ps[i].place
                      /\ qs[i].nr = ps[i].nr /\ qs[i].output = ps[i].output
                      /\ ps[i].output => qs[i].exist /\ qs[i].offset = Offset(i)
                      /\ ~ps[i].output => qs[i] = ps[i]
    OBVIOUS
  <2>1. qs[i] = IF ps[i].output THEN [ps[i] EXCEPT !.exist = TRUE, !.offset = Offset(i)] ELSE ps[i]
    BY <1>1
  <2>2. ps[i] \in Parameter /\ Offset(i) \in Nat  BY <1>2, <1>3
  <2>3. QED  BY <2>1, <2>2 DEF Parameter
<1>5. SameParameters(ps, qs)
  <2>1. qs \in [1..Len(ps) -> Parameter]  BY <1>1, <1>3, <1>4
  <2>2. qs \in Seq(Parameter) /\ DOMAIN qs = DOMAIN ps  BY <1>3, <2>1
  <2>3. QED  BY <1>4, <2>2 DEF SameParameters
<1>6. DOMAIN qs = DOMAIN ps  BY <1>1
<1>7. Missing(qs) = Missing(ps) \ Outputs(ps)  BY <1>4, <1>6 DEF Missing, Outputs
<1>8. ASSUME Full(ps, args), Ordered(ps), InOrder(ps), PlacesTrue(ps)  PROVE PlacesTrue(qs)
  <2> SUFFICES ASSUME NEW i \in DOMAIN ps, qs[i].exist  PROVE qs[i].offset = qs[i].place
    BY <1>6 DEF PlacesTrue
  <2>1. CASE ps[i].output
    <3>1. i \in Outputs(ps)  BY <2>1 DEF Outputs
    <3>2. Offset(i) = ps[i].place  BY <1>8, <3>1, OutputPlace DEF Offset
    <3>3. QED  BY <1>4, <2>1, <3>2
  <2>2. CASE ~ps[i].output
    <3>1. qs[i] = ps[i]  BY <1>4, <2>2
    <3>2. QED  BY <1>8, <3>1 DEF PlacesTrue
  <2>3. QED  BY <2>1, <2>2
<1>9. QED  BY <1>5, <1>7, <1>8 DEF qs

\* fillInUnknownParameter
LEMMA UnknownFilled ==
  ASSUME NEW args \in Nat, NEW ps, Laid(ps, args)
  PROVE  LET qs == FillInUnknown(ps)
         IN  /\ SameParameters(ps, qs)
             /\ Missing(qs) = {}
             /\ Full(ps, args) /\ Sorted(ps) /\ PlacesTrue(ps) /\ AtMostOne(Missing(ps)) => PlacesTrue(qs)
<1> DEFINE qs == FillInUnknown(ps)
           new == CalculateUnknownParameterOffset(ps)
<1>1. qs = [i \in DOMAIN ps |->
              IF ps[i].exist THEN ps[i] ELSE [ps[i] EXCEPT !.exist = TRUE, !.offset = new]]
  BY DEF FillInUnknown
<1>2. /\ ps \in Seq(Parameter) /\ DOMAIN ps = 1..Len(ps) /\ Len(ps) \in Nat
      /\ \A i \in DOMAIN ps : ps[i] \in Parameter
  BY ParametersTyped DEF Laid
<1>3. new \in Nat  BY <1>2, UnknownTyped
<1> HIDE DEF qs, new
<1>4. \A i \in DOMAIN ps : /\ qs[i] \in Parameter
                           /\ qs[i].size = ps[i].size /\ qs[i].place = ps[i].place
                           /\ qs[i].nr = ps[i].nr /\ qs[i].output = ps[i].output
                           /\ qs[i].exist
                           /\ qs[i].offset = IF ps[i].exist THEN ps[i].offset ELSE new
  <2> SUFFICES ASSUME NEW i \in DOMAIN ps
               PROVE  /\ qs[i] \in Parameter
                      /\ qs[i].size = ps[i].size /\ qs[i].place = ps[i].place
                      /\ qs[i].nr = ps[i].nr /\ qs[i].output = ps[i].output
                      /\ qs[i].exist
                      /\ qs[i].offset = IF ps[i].exist THEN ps[i].offset ELSE new
    OBVIOUS
  <2>1. qs[i] = IF ps[i].exist THEN ps[i] ELSE [ps[i] EXCEPT !.exist = TRUE, !.offset = new]
    BY <1>1
  <2>2. ps[i] \in Parameter  BY <1>2
  <2>3. QED  BY <1>3, <2>1, <2>2 DEF Parameter
<1>5. SameParameters(ps, qs)
  <2>1. qs \in [1..Len(ps) -> Parameter]  BY <1>1, <1>2, <1>4
  <2>2. qs \in Seq(Parameter) /\ DOMAIN qs = DOMAIN ps  BY <1>2, <2>1
  <2>3. QED  BY <1>4, <2>2 DEF SameParameters
<1>6. DOMAIN qs = DOMAIN ps  BY <1>1
<1>7. Missing(qs) = {}  BY <1>4, <1>6 DEF Missing
<1>8. ASSUME Full(ps, args), Sorted(ps), PlacesTrue(ps), AtMostOne(Missing(ps))
      PROVE  PlacesTrue(qs)
  <2> SUFFICES ASSUME NEW i \in DOMAIN ps  PROVE qs[i].offset = qs[i].place
    BY <1>6 DEF PlacesTrue
  <2>1. CASE ps[i].exist
    <3>1. ps[i].offset = ps[i].place  BY <1>8, <2>1 DEF PlacesTrue
    <3>2. QED  BY <1>4, <2>1, <3>1
  <2>2. CASE ~ps[i].exist
    <3>1. i \in Missing(ps)  BY <2>2 DEF Missing
    <3>2. Missing(ps) = {i}  BY <1>8, <3>1 DEF AtMostOne
    <3>3. new = ps[i].place  BY <1>8, <3>2, UnknownPlace DEF new
    <3>4. QED  BY <1>4, <2>2, <3>3
  <2>3. QED  BY <2>1, <2>2
<1>9. QED  BY <1>5, <1>7, <1>8 DEF qs

\* The size of the arguments; a function without any may have none.
SizeOf(ps, args) == IF DOMAIN ps = {} THEN 0 ELSE args

\* The places that FindFunction can work out, at most one after the outputs.
Locatable(ps) ==
  \/ AtMostOne(Missing(ps))
  \/ OutputsUnknown(ps) /\ AtMostOne(Missing(ps) \ Outputs(ps))

\* qs is what has become of the parameters ps.
FilledSoFar(ps, qs, args) ==
  /\ DOMAIN qs = DOMAIN ps /\ TotalSize(qs, DOMAIN qs) = TotalSize(ps, DOMAIN ps)
  /\ Laid(qs, args) /\ Ordered(qs) /\ Sorted(qs)
  /\ InOrder(qs) => PlacesTrue(qs)

LEMMA AtMostOneCounted ==
  ASSUME NEW S, IsFiniteSet(S)
  PROVE  /\ Cardinality(S) <= 1 => AtMostOne(S)
         /\ AtMostOne(S) => S = {} \/ Cardinality(S) = 1
<1>1. ASSUME Cardinality(S) <= 1, NEW x \in S, NEW y \in S, x # y  PROVE FALSE
  <2>1. IsFiniteSet({x, y}) /\ Cardinality({x, y}) = 2
    <3>1. IsFiniteSet({x}) /\ Cardinality({x}) = 1  BY FS_Singleton
    <3>2. {x, y} = {x} \cup {y} /\ y \notin {x}  BY <1>1
    <3>3. QED  BY <3>1, <3>2, FS_AddElement
  <2>2. Cardinality({x, y}) <= Cardinality(S)  BY <2>1, FS_Subset
  <2>3. Cardinality(S) \in Nat  BY FS_CardinalityType
  <2>4. QED  BY <1>1, <2>1, <2>2, <2>3
<1>2. ASSUME AtMostOne(S), S # {}  PROVE Cardinality(S) = 1
  <2>1. PICK x \in S : TRUE  BY <1>2
  <2>2. S = {x}  BY <1>2, <2>1 DEF AtMostOne
  <2>3. QED  BY <2>2, FS_Singleton
<1>3. QED  BY <1>1, <1>2 DEF AtMostOne

LEMMA SmallerThanAWord ==
  ASSUME NEW n \in Nat, NEW w \in Nat, n < w
  PROVE  n % w = n
OBVIOUS

\* The parameters that DWARF gives, sorted.
LEMMA FillingBegins ==
  ASSUME NEW ps, NEW args \in Int, AsCompiled(ps, args)
  PROVE  LET qs == SortedByOffset(ps)
         IN  /\ SizeOf(ps, args) \in Nat
             /\ FilledSoFar(ps, qs, SizeOf(ps, args))
             /\ Locatable(ps) => Locatable(qs)
<1> DEFINE qs == SortedByOffset(ps)
           n == SizeOf(ps, args)
<1>1. /\ ps \in Seq(Parameter) /\ Laid(ps, args) /\ Ordered(ps) /\ PlacesTrue(ps)
      /\ DOMAIN ps # {} => args \in Nat
  BY CompiledLaid
<1>2. n \in Nat  BY <1>1 DEF SizeOf
<1>3. Laid(ps, n)  BY <1>1 DEF SizeOf, Laid
<1>4. Sorted(qs) /\ \E r : Rearranges(r, ps, qs)  BY <1>1, SortedRearranges
<1>5. PICK r : Rearranges(r, ps, qs)  BY <1>4
<1> HIDE DEF qs, n
<1>6. Laid(qs, n) /\ TotalSize(qs, DOMAIN qs) = TotalSize(ps, DOMAIN ps)
  BY <1>2, <1>3, <1>5, RearrangedLaid
<1>7. DOMAIN qs = DOMAIN ps  BY <1>1, <1>5, RearrangedTyped
<1>8. Ordered(qs) /\ PlacesTrue(qs)  BY <1>1, <1>5, RearrangedAlike
<1>9. Locatable(ps) => Locatable(qs)  BY <1>1, <1>5, RearrangedAlike DEF Locatable
<1>10. FilledSoFar(ps, qs, n)  BY <1>4, <1>6, <1>7, <1>8 DEF FilledSoFar
<1>11. QED  BY <1>2, <1>9, <1>10 DEF qs, n

\* fillInOutputParameters
LEMMA OutputsStep ==
  ASSUME NEW args \in Nat, NEW ps, NEW qs, FilledSoFar(ps, qs, args), Full(qs, args)
  PROVE  LET new == SortedByOffset(DoFillInOutputParameters(qs))
         IN  /\ FilledSoFar(ps, new, args)
             /\ Locatable(qs) => AtMostOne(Missing(new))
<1> DEFINE filled == DoFillInOutputParameters(qs)
           new == SortedByOffset(filled)
<1>1. Laid(qs, args) /\ Ordered(qs) /\ (InOrder(qs) => PlacesTrue(qs))  BY DEF FilledSoFar
<1>2. /\ SameParameters(qs, filled)
      /\ Missing(filled) = Missing(qs) \ Outputs(qs)
      /\ Full(qs, args) /\ Ordered(qs) /\ InOrder(qs) /\ PlacesTrue(qs) => PlacesTrue(filled)
  BY <1>1, OutputsFilled
<1> HIDE DEF filled
<1>3. /\ Laid(filled, args) /\ (Ordered(qs) => Ordered(filled))
      /\ InOrder(filled) => InOrder(qs)
      /\ TotalSize(filled, DOMAIN filled) = TotalSize(qs, DOMAIN qs)
  BY <1>1, <1>2, SameLaid, SameTotal
<1>4. filled \in Seq(Parameter)  BY <1>3 DEF Laid
<1>5. Sorted(new) /\ \E r : Rearranges(r, filled, new)  BY <1>4, SortedRearranges
<1>6. PICK r : Rearranges(r, filled, new)  BY <1>5
<1> HIDE DEF new
<1>7. Laid(new, args) /\ TotalSize(new, DOMAIN new) = TotalSize(filled, DOMAIN filled)
  BY <1>3, <1>6, RearrangedLaid
<1>8. DOMAIN new = DOMAIN filled  BY <1>4, <1>6, RearrangedTyped
<1>9. /\ Ordered(filled) => Ordered(new)
      /\ InOrder(new) => InOrder(filled)
      /\ PlacesTrue(filled) => PlacesTrue(new)
      /\ AtMostOne(Missing(filled)) => AtMostOne(Missing(new))
  BY <1>4, <1>6, RearrangedAlike
<1>10. DOMAIN new = DOMAIN ps /\ TotalSize(new, DOMAIN new) = TotalSize(ps, DOMAIN ps)
  BY <1>2, <1>3, <1>7, <1>8 DEF FilledSoFar, SameParameters
<1>11. FilledSoFar(ps, new, args)
  BY <1>1, <1>2, <1>3, <1>5, <1>7, <1>9, <1>10 DEF FilledSoFar
<1>12. Locatable(qs) => AtMostOne(Missing(filled))  BY <1>2 DEF Locatable, AtMostOne
<1>13. QED  BY <1>9, <1>11, <1>12 DEF new, filled

\* fillInUnknownParameter
LEMMA UnknownStep ==
  ASSUME NEW args \in Nat, NEW ps, NEW qs, FilledSoFar(ps, qs, args), Full(qs, args),
         AtMostOne(Missing(qs))
  PROVE  LET new == SortedByOffset(FillInUnknown(qs))
         IN  /\ InOrder(new) => PlacesTrue(new)
             /\ Missing(new) = {}
<1> DEFINE filled == FillInUnknown(qs)
           new == SortedByOffset(filled)
<1>1. Laid(qs, args) /\ Sorted(qs) /\ (InOrder(qs) => PlacesTrue(qs))  BY DEF FilledSoFar
<1>2. /\ SameParameters(qs, filled)
      /\ Missing(filled) = {}
      /\ Full(qs, args) /\ Sorted(qs) /\ PlacesTrue(qs) /\ AtMostOne(Missing(qs)) => PlacesTrue(filled)
  BY <1>1, UnknownFilled
<1> HIDE DEF filled
<1>3. Laid(filled, args) /\ (InOrder(filled) => InOrder(qs))  BY <1>1, <1>2, SameLaid
<1>4. filled \in Seq(Parameter)  BY <1>3 DEF Laid
<1>5. PICK r : Rearranges(r, filled, new)  BY <1>4, SortedRearranges
<1> HIDE DEF new
<1>6. /\ InOrder(new) => InOrder(filled)
      /\ PlacesTrue(filled) => PlacesTrue(new)
      /\ Missing(filled) = {} => Missing(new) = {}
  BY <1>4, <1>5, RearrangedAlike
<1>7. QED  BY <1>1, <1>2, <1>3, <1>6 DEF new, filled

-----------------------------------------------------------------------------
(* FindFunction.                                                           *)

\* The module data found are the first that cover the address.
Located ==
  /\ SearchInvariant
  /\ at \in {"backward", "forward", "found"} => \A j \in 1 .. md - 1 : ~Covers(mds[j], pc)
  /\ at = "unknown" => \A j \in 1 .. Len(mds) : ~Covers(mds[j], pc)

FunctionAt(i) ==
  /\ i \in 0 .. mds[1].ftabLen - 2
  /\ mds[1].ftab[i] <= pc /\ pc < mds[1].ftab[i + 1]
  /\ result.start = mds[1].ftab[i]

\* What is worked out of a function is worked out of all its parameters, if the
\* sizes add up.
Expected(ps, args) == TotalSize(ps, DOMAIN ps) = args /\ Locatable(ps)

\* Between the parts of the filling in, of the signature ps.
FillingIn(ps, args) ==
  /\ FilledSoFar(ps, params, SizeOf(ps, args))
  /\ Expected(ps, args) => IF stage = "outputs" THEN Locatable(params)
                           ELSE AtMostOne(Missing(params))

\* After both.
FilledIn(ps, args) ==
  /\ InOrder(params) => PlacesTrue(params)
  /\ Expected(ps, args) => Missing(params) = {}

Filling ==
  /\ Known(pc)
  /\ at # "idle" => NeedsSize
  /\ \E i \in 0 .. mds[1].ftabLen - 2 : FunctionAt(i) /\ FillingIn(mds[1].params[i], mds[1].args[i])

Filled ==
  IF Known(pc)
    THEN \E i \in 0 .. mds[1].ftabLen - 2 :
           FunctionAt(i) /\ FilledIn(mds[1].params[i], mds[1].args[i])
    ELSE PlacesTrue(params)

\* The strengthening.  The size is looked up by the address of the function that
\* DWARF gave, and only while it matters; what is known of the parameters is true
\* at every stage, and what the next part needs to fill in the rest is there.
FillingInvariant ==
  /\ Located
  /\ stage \in {"none", "outputs", "unknown", "moduledata", "returned"}
  /\ stage \in {"none", "returned"} => at = "idle"
  /\ stage \in {"outputs", "unknown"} => Filling
  /\ stage = "moduledata" => ~Known(pc)
  /\ stage = "returned" => Filled

\* The assumptions, for the program at hand.
LEMMA OwnModuleData ==
  ASSUME TypeOK
  PROVE  /\ 1 \in 1 .. Len(mds) /\ WellFormed(mds[1]) /\ Len(mds) \in Nat
         /\ DOMAIN mds = 1 .. Len(mds)
         /\ \A i \in 1 .. Len(mds) : mds[i].minpc \in Nat /\ mds[i].minpc > 0
         /\ \A i \in 0 .. mds[1].ftabLen - 2 :
              mds[1].debuggable => /\ mds[1].args[i] \in Int
                                   /\ AsCompiled(mds[1].params[i], mds[1].args[i])
<1>1. mds \in Programs  BY DEF TypeOK
<1>2. DOMAIN mds = 1 .. Len(mds) /\ Len(mds) \in Nat
  BY <1>1, ProgramsAssumption
<1>3. mds # <<>>  BY <1>1, SignaturesAssumption
<1>4. Len(mds) # 0
  <2>1. ASSUME Len(mds) = 0  PROVE FALSE
    <3>1. DOMAIN mds = {}  BY <1>2, <2>1
    <3>2. QED  BY <1>3, <3>1
  <2>2. QED  BY <2>1
<1>5. \A i \in 1 .. Len(mds) : WellFormed(mds[i])  BY ModulesWellFormed
<1>6. \A i \in 1 .. Len(mds) : mds[i].minpc \in Nat  BY <1>5 DEF WellFormed
<1>7. QED  BY <1>1, <1>2, <1>4, <1>5, <1>6, SignaturesAssumption

LEMMA LocatedPreserved == Located /\ [Next]_vars => Located'
<1> SUFFICES ASSUME Located, [Next]_vars  PROVE Located'
  OBVIOUS
<1>1. SearchInvariant'  BY Preserved DEF Located
<1>2. DOMAIN mds = 1 .. Len(mds)  BY OwnModuleData DEF Located, SearchInvariant
<1>3. CASE FindModuleData
  BY <1>1, <1>2, <1>3 DEF FindModuleData, Located
<1>4. CASE NoModuleData
  BY <1>1, <1>2, <1>4 DEF NoModuleData, Located
<1>5. CASE StepBackward \/ StopsBackward
  BY <1>1, <1>5 DEF StepBackward, StopsBackward, Located
<1>6. CASE StepForward \/ StopsForward
  BY <1>1, <1>6 DEF StepForward, StopsForward, Located
<1>7. CASE Returned  BY <1>1, <1>7 DEF Returned, Located
<1>8. CASE \E a \in Nat : Lookup(a)  BY <1>1, <1>8 DEF Lookup, Located
<1>9. CASE UNCHANGED vars  BY <1>1, <1>9 DEF vars, Located
<1>10. QED  BY <1>3, <1>4, <1>5, <1>6, <1>7, <1>8, <1>9 DEF Next, Search

\* Entries of the table increase: one function only begins where the result does.
LEMMA OneFunction ==
  ASSUME NEW m, WellFormed(m), NEW i \in 0 .. m.ftabLen - 2, NEW j \in 0 .. m.ftabLen - 2
  PROVE  /\ m.ftab[i] = m.ftab[j] => i = j
         /\ \A a \in Nat : /\ m.ftab[i] <= a /\ a < m.ftab[i + 1]
                           /\ m.ftab[j] <= a /\ a < m.ftab[j + 1]
                           => i = j
<1>1. m.ftabLen \in Nat  BY DEF WellFormed
<1>2. /\ i \in 0 .. m.ftabLen - 1 /\ j \in 0 .. m.ftabLen - 1
      /\ i + 1 \in 0 .. m.ftabLen - 1 /\ j + 1 \in 0 .. m.ftabLen - 1
  BY <1>1
<1>3. /\ m.ftab[i] \in Nat /\ m.ftab[j] \in Nat
      /\ m.ftab[i + 1] \in Nat /\ m.ftab[j + 1] \in Nat
  BY <1>2 DEF WellFormed
<1>4. /\ i < j => m.ftab[i] < m.ftab[j]
      /\ j < i => m.ftab[j] < m.ftab[i]
  BY <1>2 DEF WellFormed
<1>5. /\ i + 1 <= j => i + 1 = j \/ m.ftab[i + 1] < m.ftab[j]
      /\ j + 1 <= i => j + 1 = i \/ m.ftab[j + 1] < m.ftab[i]
  <2>1. i + 1 < j => m.ftab[i + 1] < m.ftab[j]  BY <1>2 DEF WellFormed
  <2>2. j + 1 < i => m.ftab[j + 1] < m.ftab[i]  BY <1>2 DEF WellFormed
  <2>3. QED  BY <1>1, <2>1, <2>2
<1>6. i = j \/ i + 1 <= j \/ j + 1 <= i  BY <1>1
<1>7. QED  BY <1>2, <1>3, <1>4, <1>5, <1>6

\* The size looked up is that of the function, and tells whether there is padding.
LEMMA SizeKnown ==
  ASSUME Located, Known(pc), NEW i, FunctionAt(i), at \in {"found", "unknown"},
         FilledSoFar(mds[1].params[i], params, SizeOf(mds[1].params[i], mds[1].args[i]))
  PROVE  /\ SizeOf(mds[1].params[i], mds[1].args[i]) \in Nat
         /\ NoPadding(params) => Full(params, SizeOf(mds[1].params[i], mds[1].args[i]))
         /\ TotalSize(mds[1].params[i], DOMAIN mds[1].params[i]) = mds[1].args[i] /\ ~NoPadding(params)
              => Missing(params) = {}
<1> DEFINE ps == mds[1].params[i]
           args == mds[1].args[i]
           n == SizeOf(ps, args)
<1>1. TypeOK /\ SearchInvariant  BY DEF Located, SearchInvariant
<1>2. /\ 1 \in 1 .. Len(mds) /\ WellFormed(mds[1]) /\ DOMAIN mds = 1 .. Len(mds) /\ Len(mds) \in Nat
  BY <1>1, OwnModuleData
<1>3. Covers(mds[1], pc) /\ mds[1].debuggable /\ pc \in Nat  BY <1>1 DEF Known, TypeOK
<1>4. at = "found" /\ md = 1
  <2>1. at = "found"  BY <1>2, <1>3 DEF Located
  <2>2. md \in 1 .. Len(mds) /\ \A j \in 1 .. md - 1 : ~Covers(mds[j], pc)
    BY <1>1, <2>1 DEF Located, SearchInvariant
  <2>3. ~(1 < md)  BY <1>2, <1>3, <2>2
  <2>4. QED  BY <1>2, <2>1, <2>2, <2>3
<1>5. idx = i
  <2>1. Walking(mds[1])  BY <1>1, <1>4 DEF SearchInvariant
  <2>2. /\ idx \in 0 .. mds[1].ftabLen - 1 /\ idx + 1 <= mds[1].ftabLen - 1
        /\ mds[1].ftab[idx] <= pc /\ pc < mds[1].ftab[idx + 1]
    BY <1>4, <2>1 DEF Walking
  <2>3. mds[1].ftabLen \in Nat  BY <1>2 DEF WellFormed
  <2>4. idx \in 0 .. mds[1].ftabLen - 2  BY <2>2, <2>3
  <2>5. QED  BY <1>2, <1>3, <2>2, <2>4, OneFunction DEF FunctionAt
<1>6. args \in Int /\ AsCompiled(ps, args)  BY <1>1, <1>3, OwnModuleData DEF FunctionAt
<1>7. /\ NoPadding(params) <=> TotalSize(params, DOMAIN params) = args % Wrap
      /\ DOMAIN params = DOMAIN ps /\ TotalSize(params, DOMAIN params) = TotalSize(ps, DOMAIN ps)
      /\ Laid(params, n)
  BY <1>4, <1>5 DEF NoPadding, FilledSoFar
<1>8. DOMAIN ps # {} => args \in Nat /\ args < Wrap  BY <1>6, CompiledLaid
<1>9. n \in Nat  BY <1>8 DEF SizeOf
<1>10. CASE DOMAIN ps = {}
  <2>1. n = 0  BY <1>10 DEF SizeOf
  <2>2. TotalSize(params, DOMAIN params) = Cardinality(Bytes(params, DOMAIN params))
    <3>1. DOMAIN params \in SUBSET DOMAIN params  OBVIOUS
    <3>2. QED  BY <1>7, <1>9, <3>1, SumIsBytes
  <2>3. Bytes(params, DOMAIN params) = {}  BY <1>7, <1>10 DEF Bytes
  <2>4. Full(params, n)  BY <2>1, <2>2, <2>3, FS_EmptySet DEF Full
  <2>5. Missing(params) = {}  BY <1>7, <1>10 DEF Missing
  <2>6. QED  BY <1>9, <2>4, <2>5
<1>11. CASE DOMAIN ps # {}
  <2>1. n = args /\ args % Wrap = args
    BY <1>8, <1>11, SignaturesAssumption, SmallerThanAWord DEF SizeOf
  <2>2. QED  BY <1>7, <1>9, <2>1 DEF Full
<1>12. QED  BY <1>10, <1>11

LEMMA FillingInitially == FunctionsInit => FillingInvariant
BY Initially DEF FunctionsInit, FillingInvariant, Located, Init

\* Without DWARF the places are those the words have.
LEMMA WordsInPlace == ASSUME NEW m, NEW i  PROVE PlacesTrue(ArgsAsWords(m, i))
<1> DEFINE args == IF m.args[i] < 0 THEN 0 ELSE m.args[i]
           word(k) == [nr |-> k - 1, size |-> WordSize, output |-> FALSE, unnamed |-> TRUE,
                       exist |-> TRUE, offset |-> (k - 1) * WordSize, place |-> (k - 1) * WordSize]
<1>1. ArgsAsWords(m, i) = [k \in 1 .. args \div WordSize |-> word(k)]  BY DEF ArgsAsWords
<1>2. \A k : word(k).offset = word(k).place  OBVIOUS
<1> HIDE DEF word
<1>3. QED  BY <1>1, <1>2 DEF PlacesTrue

\* One case for each action.
LEMMA FillingPreserved == FillingInvariant /\ [FunctionsNext]_fvars => FillingInvariant'
<1> SUFFICES ASSUME FillingInvariant, [FunctionsNext]_fvars  PROVE FillingInvariant'
  OBVIOUS
<1>1. Located /\ TypeOK  BY DEF FillingInvariant, Located, SearchInvariant
<1>2. /\ 1 \in 1 .. Len(mds) /\ WellFormed(mds[1]) /\ DOMAIN mds = 1 .. Len(mds)
      /\ \A i \in 1 .. Len(mds) : mds[i].minpc \in Nat /\ mds[i].minpc > 0
  BY <1>1, OwnModuleData
<1>3. CASE UNCHANGED fvars
  <2>1. Located'  BY <1>1, <1>3, LocatedPreserved DEF fvars
  <2>2. UNCHANGED <<mds, pc, md, idx, at, stage, params, result>>  BY <1>3 DEF fvars, vars
  <2>3. Filling => Filling'  BY <2>2 DEF Filling, FunctionAt, FillingIn, NeedsSize, Known, Covers
  <2>4. Filled => Filled'  BY <2>2 DEF Filled, FunctionAt, FilledIn, Known, Covers
  <2>5. QED  BY <2>1, <2>2, <2>3, <2>4 DEF FillingInvariant, Known, Covers
<1>4. CASE Search /\ UNCHANGED <<stage, params, result>>
  <2>1. Located'  BY <1>1, <1>4, LocatedPreserved DEF Next
  <2>2. at # "idle" /\ UNCHANGED <<mds, pc, stage, params, result>>
    BY <1>4 DEF Search, FindModuleData, NoModuleData, StepBackward, StopsBackward,
                StepForward, StopsForward
  <2>3. stage \in {"outputs", "unknown", "moduledata"}  BY <2>2 DEF FillingInvariant
  <2>4. Filling => Filling'
    BY <2>2 DEF Filling, FunctionAt, FillingIn, NeedsSize, Known, Covers
  <2>5. QED  BY <2>1, <2>2, <2>3, <2>4 DEF FillingInvariant, Known, Covers
<1>5. CASE at = "idle" /\ LookUpSize
  <2>1. NeedsSize /\ Lookup(pc) /\ UNCHANGED <<stage, params, result>>  BY <1>5 DEF LookUpSize
  <2>2. pc \in Nat  BY <1>1 DEF TypeOK
  <2>3. Located'  BY <1>1, <2>1, <2>2, LocatedPreserved DEF Next
  <2>4. UNCHANGED <<mds, pc, stage, params, result>>  BY <2>1 DEF Lookup
  <2>5. stage \in {"outputs", "unknown"}  BY <2>1 DEF NeedsSize
  <2>6. Filling'
    BY <2>1, <2>4, <2>5 DEF FillingInvariant, Filling, FunctionAt, FillingIn, NeedsSize, Known, Covers
  <2>7. QED  BY <2>3, <2>4, <2>5, <2>6 DEF FillingInvariant
<1>6. CASE at = "idle" /\ SkipsFillingIn
  <2>1. /\ stage \in {"outputs", "unknown"} /\ ~NeedsSize
        /\ stage' = IF stage = "outputs" THEN "unknown" ELSE "returned"
        /\ UNCHANGED <<vars, params, result>>
    BY <1>6 DEF SkipsFillingIn
  <2>2. Located'  BY <1>1, <2>1, LocatedPreserved
  <2>3. UNCHANGED <<mds, pc, md, idx, at, params, result>>  BY <2>1 DEF vars
  <2>4. Filling  BY <2>1 DEF FillingInvariant
  <2>5. PICK i \in 0 .. mds[1].ftabLen - 2 :
          FunctionAt(i) /\ FillingIn(mds[1].params[i], mds[1].args[i])
    BY <2>4 DEF Filling
  <2>6. FunctionAt(i)'  BY <2>3, <2>5 DEF FunctionAt
  <2>7. Known(pc) /\ Known(pc)'  BY <2>3, <2>4 DEF Filling, Known, Covers
  <2>8. CASE stage = "outputs"
    <3>1. Locatable(params) => AtMostOne(Missing(params))
      BY <2>1, <2>8 DEF NeedsSize, Locatable
    <3>2. FillingIn(mds[1].params[i], mds[1].args[i])'
      BY <2>1, <2>3, <2>5, <2>8, <3>1 DEF FillingIn
    <3>3. Filling'  BY <1>6, <2>3, <2>5, <2>6, <2>7, <3>2 DEF Filling
    <3>4. QED  BY <1>6, <2>1, <2>2, <2>8, <3>3 DEF FillingInvariant
  <2>9. CASE stage = "unknown"
    <3>1. Cardinality(Missing(params)) # 1  BY <2>1, <2>9 DEF NeedsSize
    <3>2. IsFiniteSet(Missing(params))
      <4>1. params \in Seq(Parameter)  BY <2>5 DEF FillingIn, FilledSoFar, Laid
      <4>2. Missing(params) \subseteq DOMAIN params  BY DEF Missing
      <4>3. QED  BY <4>1, <4>2, ParametersTyped, FS_Subset
    <3>3. AtMostOne(Missing(params)) => Missing(params) = {}  BY <3>1, <3>2, AtMostOneCounted
    <3>4. FilledIn(mds[1].params[i], mds[1].args[i])
      BY <2>5, <2>9, <3>3 DEF FillingIn, FilledIn, FilledSoFar
    <3>5. FilledIn(mds[1].params[i], mds[1].args[i])'  BY <2>3, <3>4 DEF FilledIn
    <3>6. Filled'  BY <2>3, <2>5, <2>6, <2>7, <3>5 DEF Filled
    <3>7. QED  BY <1>6, <2>1, <2>2, <2>3, <2>9, <3>6 DEF FillingInvariant
  <2>10. QED  BY <2>1, <2>8, <2>9
<1>7. CASE FillInOutputParameters \/ FillInUnknownParameter
  <2>1. /\ stage \in {"outputs", "unknown"} /\ Returned /\ UNCHANGED result
    BY <1>7 DEF FillInOutputParameters, FillInUnknownParameter
  <2>2. Located'  BY <1>1, <2>1, LocatedPreserved DEF Next
  <2>3. at \in {"found", "unknown"} /\ at' = "idle" /\ UNCHANGED <<mds, pc, result>>
    BY <2>1 DEF Returned
  <2>4. Filling /\ NeedsSize  BY <2>1, <2>3 DEF FillingInvariant, Filling
  <2>5. PICK i \in 0 .. mds[1].ftabLen - 2 :
          FunctionAt(i) /\ FillingIn(mds[1].params[i], mds[1].args[i])
    BY <2>4 DEF Filling
  <2> DEFINE ps == mds[1].params[i]
             args == mds[1].args[i]
             n == SizeOf(ps, args)
  <2>6. FunctionAt(i)'  BY <2>3, <2>5 DEF FunctionAt
  <2>7. Known(pc) /\ Known(pc)'  BY <2>3, <2>4 DEF Filling, Known, Covers
  <2>8. FilledSoFar(ps, params, n)  BY <2>5 DEF FillingIn
  <2>9. /\ n \in Nat
        /\ NoPadding(params) => Full(params, n)
        /\ TotalSize(ps, DOMAIN ps) = args /\ ~NoPadding(params) => Missing(params) = {}
    BY <1>1, <2>3, <2>5, <2>7, <2>8, SizeKnown
  <2>10. ps' = ps /\ args' = args /\ n' = n  BY <2>3
  <2>11. CASE FillInOutputParameters
    <3>1. /\ stage = "outputs" /\ stage' = "unknown"
          /\ params' = IF NoPadding(params)
                         THEN SortedByOffset(DoFillInOutputParameters(params)) ELSE params
      BY <2>11 DEF FillInOutputParameters
    <3>2. Expected(ps, args) => Locatable(params)  BY <2>5, <3>1 DEF FillingIn
    <3>3. FilledSoFar(ps, params', n) /\ (Expected(ps, args) => AtMostOne(Missing(params')))
      <4> HIDE DEF ps, args, n
      <4>1. CASE NoPadding(params)
        <5>1. params' = SortedByOffset(DoFillInOutputParameters(params))  BY <3>1, <4>1
        <5>2. QED  BY <2>8, <2>9, <3>2, <4>1, <5>1, OutputsStep
      <4>2. CASE ~NoPadding(params)
        <5>1. params' = params  BY <3>1, <4>2
        <5>2. Expected(ps, args) => Missing(params) = {}  BY <2>9, <4>2 DEF Expected
        <5>3. QED  BY <2>8, <5>1, <5>2 DEF AtMostOne
      <4>3. QED  BY <4>1, <4>2
    <3>4. FillingIn(mds[1].params[i], mds[1].args[i])'
      BY <2>3, <3>1, <3>3 DEF FillingIn
    <3>5. Filling'  BY <2>3, <2>5, <2>6, <2>7, <3>4 DEF Filling
    <3>6. QED  BY <2>2, <2>3, <3>1, <3>5 DEF FillingInvariant
  <2>12. CASE FillInUnknownParameter
    <3>1. /\ stage = "unknown" /\ stage' = "returned"
          /\ params' = IF NoPadding(params) THEN SortedByOffset(FillInUnknown(params)) ELSE params
      BY <2>12 DEF FillInUnknownParameter
    <3>2. AtMostOne(Missing(params))
      <4>1. Cardinality(Missing(params)) = 1  BY <2>4, <3>1 DEF NeedsSize
      <4>2. IsFiniteSet(Missing(params))
        <5>1. params \in Seq(Parameter)  BY <2>8 DEF FilledSoFar, Laid
        <5>2. Missing(params) \subseteq DOMAIN params  BY DEF Missing
        <5>3. QED  BY <5>1, <5>2, ParametersTyped, FS_Subset
      <4>3. QED  BY <4>1, <4>2, AtMostOneCounted
    <3>3. /\ InOrder(params') => PlacesTrue(params')
          /\ Expected(ps, args) => Missing(params') = {}
      <4> HIDE DEF ps, args, n
      <4>1. CASE NoPadding(params)
        <5>1. params' = SortedByOffset(FillInUnknown(params))  BY <3>1, <4>1
        <5>2. QED  BY <2>8, <2>9, <3>2, <4>1, <5>1, UnknownStep
      <4>2. CASE ~NoPadding(params)
        <5>1. params' = params  BY <3>1, <4>2
        <5>2. Expected(ps, args) => Missing(params) = {}  BY <2>9, <4>2 DEF Expected
        <5>3. QED  BY <2>8, <5>1, <5>2 DEF FilledSoFar
      <4>3. QED  BY <4>1, <4>2
    <3>4. FilledIn(mds[1].params[i], mds[1].args[i])'  BY <2>3, <3>3 DEF FilledIn
    <3>5. Filled'  BY <2>3, <2>5, <2>6, <2>7, <3>4 DEF Filled
    <3>6. QED  BY <2>2, <2>3, <3>1, <3>5 DEF FillingInvariant
  <2>13. QED  BY <1>7, <2>11, <2>12
<1>8. CASE ByModuleData
  <2>1. stage = "moduledata" /\ stage' = "returned" /\ Returned  BY <1>8 DEF ByModuleData
  <2>2. Located'  BY <1>1, <2>1, LocatedPreserved DEF Next
  <2>3. at' = "idle" /\ UNCHANGED <<mds, pc>>  BY <2>1 DEF Returned
  <2>4. ~Known(pc)'  BY <2>1, <2>3 DEF FillingInvariant, Known, Covers
  <2>5. PlacesTrue(params')
    <3>1. CASE at = "found"
      <4>1. params' = ArgsAsWords(mds[md], idx)  BY <1>8, <3>1 DEF ByModuleData
      <4>2. QED  BY <4>1, WordsInPlace
    <3>2. CASE at # "found"
      <4>1. params' = <<>>  BY <1>8, <3>2 DEF ByModuleData
      <4>2. QED  BY <4>1 DEF PlacesTrue
    <3>3. QED  BY <3>1, <3>2
  <2>6. Filled'  BY <2>4, <2>5 DEF Filled
  <2>7. QED  BY <2>1, <2>2, <2>3, <2>6 DEF FillingInvariant
<1>9. CASE FindFunctionReturns
  <2>1. /\ stage = "returned" /\ stage' = "none" /\ pc' = 0
        /\ UNCHANGED <<mds, md, idx, at>>
    BY <1>9 DEF FindFunctionReturns
  <2>2. at = "idle"  BY <2>1 DEF FillingInvariant
  <2>3. Located'  BY <1>1, <2>1, <2>2 DEF Located, SearchInvariant, TypeOK
  <2>4. QED  BY <2>1, <2>2, <2>3 DEF FillingInvariant
<1>10. ASSUME NEW m \in {mds[i] : i \in DOMAIN mds}, NEW a \in m.minpc - 1 .. m.maxpc
       PROVE  a \in Nat
  <2>1. PICK j \in DOMAIN mds : m = mds[j]  OBVIOUS
  <2>2. m.minpc \in Nat /\ m.minpc > 0  BY <1>2, <2>1
  <2>3. QED  BY <2>2
<1>11. ASSUME NEW a \in Nat, FindFunctionByDWARF(a)  PROVE FillingInvariant'
  <2>1. /\ stage = "none" /\ Known(a) /\ stage' = "outputs" /\ pc' = a
        /\ UNCHANGED <<mds, md, idx, at>>
    BY <1>11 DEF FindFunctionByDWARF
  <2>2. PICK i \in 0 .. mds[1].ftabLen - 2 :
          /\ mds[1].ftab[i] <= a /\ a < mds[1].ftab[i + 1]
          /\ params' = SortedByOffset(mds[1].params[i])
          /\ result' = [found |-> TRUE, start |-> mds[1].ftab[i], end |-> mds[1].ftab[i + 1]]
    BY <1>11 DEF FindFunctionByDWARF
  <2>3. at = "idle"  BY <2>1 DEF FillingInvariant
  <2>4. Located'  BY <1>1, <2>1, <2>3 DEF Located, SearchInvariant, TypeOK
  <2> DEFINE ps == mds[1].params[i]
             args == mds[1].args[i]
  <2>5. args \in Int /\ AsCompiled(ps, args)  BY <1>1, <2>1, OwnModuleData DEF Known
  <2>6. FilledSoFar(ps, params', SizeOf(ps, args)) /\ (Locatable(ps) => Locatable(params'))
    <3> HIDE DEF ps, args
    <3>1. params' = SortedByOffset(ps)  BY <2>2 DEF ps
    <3>2. QED  BY <2>5, <3>1, FillingBegins
  <2>7. FillingIn(mds[1].params[i], mds[1].args[i])'
    BY <2>1, <2>6 DEF FillingIn, Expected
  <2>8. FunctionAt(i)'  BY <2>1, <2>2 DEF FunctionAt
  <2>9. Known(pc)'  BY <2>1 DEF Known, Covers
  <2>10. Filling'  BY <2>1, <2>3, <2>7, <2>8, <2>9 DEF Filling
  <2>11. QED  BY <2>1, <2>4, <2>10 DEF FillingInvariant
<1>12. ASSUME NEW a \in Nat, FindFunctionByModuleData(a)  PROVE FillingInvariant'
  <2>1. stage = "none" /\ ~Known(a) /\ stage' = "moduledata" /\ Lookup(a)
    BY <1>12 DEF FindFunctionByModuleData
  <2>2. Located'  BY <1>1, <2>1, LocatedPreserved DEF Next
  <2>3. ~Known(pc)'  BY <2>1 DEF Lookup, Known, Covers
  <2>4. QED  BY <2>1, <2>2, <2>3 DEF FillingInvariant
<1>13. CASE InFindFunction
  BY <1>4, <1>5, <1>6, <1>7, <1>8, <1>9, <1>13 DEF InFindFunction
<1>14. CASE \E m \in {mds[i] : i \in DOMAIN mds} : \E a \in m.minpc - 1 .. m.maxpc :
              FindFunctionByDWARF(a) \/ FindFunctionByModuleData(a)
  BY <1>10, <1>11, <1>12, <1>14
<1>15. QED  BY <1>3, <1>13, <1>14 DEF FunctionsNext

\* Of any signatures laid out by the compiler, with any of the places dropped, the
\* places FindFunction gives are the true ones, and it gives all it can work out.
THEOREM FilledInTrulyCorrect == FunctionsSpec => []FilledInTruly
<1>1. FillingInvariant => FilledInTruly
  <2> SUFFICES ASSUME FillingInvariant, stage = "returned"
               PROVE  /\ NamesInOrder => PlacesTrue(params)
                      /\ AllLocated
    BY DEF FilledInTruly, PlacesTrue
  <2>1. TypeOK /\ Filled  BY DEF FillingInvariant, Located, SearchInvariant
  <2>2. NamesInOrder <=> InOrder(params)  BY DEF NamesInOrder, InOrder
  <2>3. CASE ~Known(pc)
    BY <2>1, <2>3 DEF Filled, AllLocated
  <2>4. CASE Known(pc)
    <3>1. PICK i \in 0 .. mds[1].ftabLen - 2 :
            FunctionAt(i) /\ FilledIn(mds[1].params[i], mds[1].args[i])
      BY <2>1, <2>4 DEF Filled
    <3>2. NamesInOrder => PlacesTrue(params)  BY <2>2, <3>1 DEF FilledIn
    <3>3. ASSUME NEW j \in 0 .. mds[1].ftabLen - 2, mds[1].ftab[j] = result.start,
                 TotalSize(mds[1].params[j], DOMAIN mds[1].params[j]) = mds[1].args[j],
                 \/ Cardinality(Missing(mds[1].params[j])) <= 1
                 \/ /\ OutputsUnknown(mds[1].params[j])
                    /\ Cardinality(Missing(mds[1].params[j]) \ Outputs(mds[1].params[j])) <= 1
          PROVE  Missing(params) = {}
      <4> DEFINE ps == mds[1].params[j]
      <4>1. i = j  BY <2>1, <3>1, <3>3, OwnModuleData, OneFunction DEF FunctionAt
      <4>2. ps \in Seq(Parameter)
        BY <2>1, <2>4, OwnModuleData, CompiledLaid DEF Known
      <4>3. Missing(ps) \subseteq DOMAIN ps /\ Missing(ps) \ Outputs(ps) \subseteq DOMAIN ps
        BY DEF Missing
      <4>4. IsFiniteSet(Missing(ps)) /\ IsFiniteSet(Missing(ps) \ Outputs(ps))
        BY <4>2, <4>3, ParametersTyped, FS_Subset
      <4>5. Locatable(ps)  BY <3>3, <4>4, AtMostOneCounted DEF Locatable
      <4>6. QED  BY <3>1, <3>3, <4>1, <4>5 DEF FilledIn, Expected
    <3>4. AllLocated  BY <3>3 DEF AllLocated
    <3>5. QED  BY <3>2, <3>4
  <2>5. QED  BY <2>3, <2>4
<1>2. QED  BY <1>1, FillingInitially, FillingPreserved, PTL DEF FunctionsSpec

=============================================================================
