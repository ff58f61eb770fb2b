--------------------------- MODULE FunctionLookup ---------------------------
(***************************************************************************)
(* Process.FindFunction: the function at an address with the places of its *)
(* parameters on the stack.  DWARF says where a parameter is, unless the   *)
(* optimiser has dropped that; then the place is computed from the sizes,  *)
(* if the size of all arguments in the function table shows that there is  *)
(* no padding.  Without DWARF the function table is all there is.          *)
(*                                                                         *)
(* A parameter is [nr, size, output, unnamed, exist, offset, place]: its   *)
(* number in the signature, and with place where the compiler has put it,  *)
(* which only the properties look at.                                      *)
(***************************************************************************)
EXTENDS FunctionTable, FiniteSetsExt, SequencesExt

CONSTANTS
  Wrap,      \* values of a 32-bit word
  WordSize   \* bytes of a pointer, 8

VARIABLES
  stage,    \* what FindFunction does: "none", "outputs", "unknown", "moduledata", "returned"
  params,   \* the parameters so far
  result    \* the function it will return

fvars == <<vars, stage, params, result>>

NotFound == [found |-> FALSE]

-----------------------------------------------------------------------------
(* Parameters.                                                             *)

TotalSize(ps, S) == MapThenSumSet(LAMBDA i : ps[i].size, S)

Outputs(ps) == {i \in DOMAIN ps : ps[i].output}

Missing(ps) == {i \in DOMAIN ps : ~ps[i].exist}

\* sort.Slice by Offset; of fewer than 12 elements it is an insertion sort.
SortedByOffset(ps) ==
  LET Before(i) == {j \in DOMAIN ps :
                      ps[j].offset < ps[i].offset \/ (ps[j].offset = ps[i].offset /\ j < i)}
  IN  [k \in DOMAIN ps |-> ps[CHOOSE i \in DOMAIN ps : Cardinality(Before(i)) = k - 1]]

\* The names "~r<nr>" are compared as strings: "~r1" < "~r10" < "~r2".  The key
\* orders numbers below 100 in this way.
NameKey(nr) == IF nr < 10 THEN 11 * nr ELSE 11 * (nr \div 10) + 1 + (nr % 10)
NameBefore(p, q) == NameKey(p.nr) < NameKey(q.nr)

\* canFillInOutputParameters up to the size: no output has a place or a name.
OutputsUnknown(ps) == \A i \in Outputs(ps) : ~ps[i].exist /\ ps[i].unnamed

\* The outputs follow the inputs, in the order of their names.
\* Defect: the outputs are not marked as known.
DoFillInOutputParameters_NotMarked(ps) ==
  LET inputs == TotalSize(ps, DOMAIN ps \ Outputs(ps))
      Before(i) == {j \in Outputs(ps) : NameBefore(ps[j], ps[i])}
  IN  [i \in DOMAIN ps |->
         IF ps[i].output THEN [ps[i] EXCEPT !.offset = inputs + TotalSize(ps, Before(i))]
         ELSE ps[i]]
DoFillInOutputParameters(ps) ==
  LET inputs == TotalSize(ps, DOMAIN ps \ Outputs(ps))
      Before(i) == {j \in Outputs(ps) : NameBefore(ps[j], ps[i])}
  IN  [i \in DOMAIN ps |->
         IF ps[i].output
           THEN [ps[i] EXCEPT !.exist = TRUE, !.offset = inputs + TotalSize(ps, Before(i))]
           ELSE ps[i]]

\* The first gap between the parameters that have a place, in their order.
\* Defect: the parameter without a place counts as the next one.
CalculateUnknownParameterOffset_NoSkip(ps) ==
  LET withSentinel == Append(ps, [exist |-> TRUE, offset |-> TotalSize(ps, DOMAIN ps)])
      EndOf(i) == ps[i].offset + ps[i].size
      gaps == {i \in DOMAIN ps : ps[i].exist /\ EndOf(i) # withSentinel[i + 1].offset}
  IN  IF gaps = {} THEN 0 ELSE EndOf(Min(gaps))
CalculateUnknownParameterOffset(ps) ==
  LET withSentinel == Append(ps, [exist |-> TRUE, offset |-> TotalSize(ps, DOMAIN ps)])
      EndOf(i) == ps[i].offset + ps[i].size
      Following(i) == IF withSentinel[i + 1].exist THEN i + 1 ELSE i + 2
      gaps == {i \in DOMAIN ps : ps[i].exist /\ EndOf(i) # withSentinel[Following(i)].offset}
  IN  IF gaps = {} THEN 0 ELSE EndOf(Min(gaps))

FillInUnknown(ps) ==
  [i \in DOMAIN ps |->
     IF ps[i].exist THEN ps[i]
     ELSE [ps[i] EXCEPT !.exist = TRUE, !.offset = CalculateUnknownParameterOffset(ps)]]

\* findFunctionArgsSize reads the size as an unsigned number.
NoPadding(ps) ==
  /\ at = "found"
  /\ TotalSize(ps, DOMAIN ps) = mds[md].args[idx] % Wrap

-----------------------------------------------------------------------------
(* What the compiler guarantees.                                           *)

\* A parameter has bytes: of one that has none (an empty struct) none are read.
Parameter == [nr : Nat, size : Nat \ {0}, output : BOOLEAN, unnamed : BOOLEAN,
              exist : BOOLEAN, offset : Nat, place : Nat]

\* No two parameters share a byte of the arguments, the outputs follow the inputs
\* in the order of their numbers, and a place that DWARF tells is the true one.
AsCompiled(ps, args) ==
  /\ ps \in Seq(Parameter)
  /\ \A i \in DOMAIN ps :
       /\ ps[i].place + ps[i].size <= args /\ args < Wrap
       /\ ps[i].exist => ps[i].offset = ps[i].place
  /\ \A i, j \in DOMAIN ps : i # j =>
       \/ ps[i].place + ps[i].size <= ps[j].place
       \/ ps[j].place + ps[j].size <= ps[i].place
  /\ \A i \in DOMAIN ps : \A j \in Outputs(ps) :
       ps[i].place < ps[j].place <=> i \notin Outputs(ps) \/ ps[i].nr < ps[j].nr

\* No text begins at address 0, and the first module data are the program's own.
ASSUME SignaturesAssumption ==
  /\ Wrap \in Nat
  /\ \A p \in Programs :
       /\ p # <<>> /\ \A i \in DOMAIN p : p[i].minpc > 0
       /\ \A i \in 0 .. p[1].ftabLen - 2 :
            p[1].debuggable => /\ p[1].args[i] \in Int
                               /\ AsCompiled(p[1].params[i], p[1].args[i])

-----------------------------------------------------------------------------
(* FindFunction.                                                           *)

FunctionsInit ==
  /\ Init
  /\ stage = "none" /\ params = <<>> /\ result = NotFound

\* Binary.FindFunction knows the function: DWARF of the program, not of plugins.
\* The program's DWARF can be decoded; if it cannot, FindFunction goes on as it
\* does for a function that it does not know.
Known(a) == mds[1].debuggable /\ Covers(mds[1], a)

FindFunctionByDWARF(a) ==
  /\ stage = "none" /\ Known(a)
  /\ stage' = "outputs"
  /\ pc' = a
  /\ \E i \in 0 .. mds[1].ftabLen - 2 :
       /\ mds[1].ftab[i] <= a /\ a < mds[1].ftab[i + 1]
       /\ params' = SortedByOffset(mds[1].params[i])
       /\ result' = [found |-> TRUE, start |-> mds[1].ftab[i], end |-> mds[1].ftab[i + 1]]
  /\ UNCHANGED <<mds, md, idx, at>>

FindFunctionByModuleData(a) ==
  /\ stage = "none" /\ ~Known(a)
  /\ stage' = "moduledata"
  /\ Lookup(a)
  /\ UNCHANGED <<params, result>>

\* Both parts of the filling in look the size of the arguments up if it matters.
NeedsSize ==
  \/ stage = "outputs" /\ OutputsUnknown(params)
  \/ stage = "unknown" /\ Cardinality(Missing(params)) = 1

LookUpSize ==
  /\ NeedsSize
  /\ Lookup(pc)
  /\ UNCHANGED <<stage, params, result>>

SkipsFillingIn ==
  /\ stage \in {"outputs", "unknown"} /\ ~NeedsSize
  /\ stage' = IF stage = "outputs" THEN "unknown" ELSE "returned"
  /\ UNCHANGED <<vars, params, result>>

FillInOutputParameters ==
  /\ stage = "outputs" /\ Returned
  /\ params' = IF NoPadding(params)
                 THEN SortedByOffset(DoFillInOutputParameters(params)) ELSE params
  /\ stage' = "unknown"
  /\ UNCHANGED result

FillInUnknownParameter ==
  /\ stage = "unknown" /\ Returned
  /\ params' = IF NoPadding(params) THEN SortedByOffset(FillInUnknown(params)) ELSE params
  /\ stage' = "returned"
  /\ UNCHANGED result

\* Without DWARF each word of the arguments counts as a parameter.
ArgsAsWords(m, i) ==
  LET args == IF m.args[i] < 0 THEN 0 ELSE m.args[i]
  IN  [k \in 1 .. args \div WordSize |->
         [nr |-> k - 1, size |-> WordSize, output |-> FALSE, unnamed |-> TRUE,
          exist |-> TRUE, offset |-> (k - 1) * WordSize, place |-> (k - 1) * WordSize]]

ByModuleData ==
  /\ stage = "moduledata" /\ Returned
  /\ IF at = "found"
       THEN /\ params' = ArgsAsWords(mds[md], idx)
            /\ result' = [found |-> TRUE, start |-> Entry(mds[md], idx),
                          end |-> FindEndAddr(mds[md], idx)]
       ELSE params' = <<>> /\ result' = NotFound
  /\ stage' = "returned"

FindFunctionReturns ==
  /\ stage = "returned"
  /\ stage' = "none"
  /\ pc' = 0 /\ params' = <<>> /\ result' = NotFound
  /\ UNCHANGED <<mds, md, idx, at>>

InFindFunction ==
  \/ Search /\ UNCHANGED <<stage, params, result>>
  \/ at = "idle" /\ (LookUpSize \/ SkipsFillingIn)
  \/ FillInOutputParameters \/ FillInUnknownParameter \/ ByModuleData
  \/ FindFunctionReturns

FunctionsNext ==
  \/ InFindFunction
  \/ \E m \in {mds[i] : i \in DOMAIN mds} : \E a \in m.minpc - 1 .. m.maxpc :
       FindFunctionByDWARF(a) \/ FindFunctionByModuleData(a)

\* One go routine runs FindFunction from its beginning to its end.
FunctionsSpec ==
  /\ FunctionsInit /\ [][FunctionsNext]_fvars
  /\ WF_fvars(InFindFunction)

-----------------------------------------------------------------------------
(* Properties.                                                             *)

\* Fewer than two outputs, or all numbers have one digit: strings sort as numbers.
NamesInOrder ==
  \A i, j \in Outputs(params) : params[i].nr < params[j].nr => NameBefore(params[i], params[j])

\* With the two steps one after the other, the places that can be known are given:
\* with sizes that add up, at most one parameter missing among the inputs, and
\* among the outputs none, all of them, or one instead.
AllLocated ==
  result.found /\ Known(pc) =>
    \A i \in 0 .. mds[1].ftabLen - 2 :
      LET ps == mds[1].params[i]
          inputs == Cardinality(Missing(ps) \ Outputs(ps))
          missing == Cardinality(Missing(ps))
      IN  /\ mds[1].ftab[i] = result.start
          /\ TotalSize(ps, DOMAIN ps) = mds[1].args[i]
          /\ missing <= 1 \/ (OutputsUnknown(ps) /\ inputs <= 1)
          => Missing(params) = {}

\* Every place FindFunction gives is the place the compiler chose, whether DWARF
\* told it or fillInOutputParameters and fillInUnknownParameter worked it out
\* ("It may be dangerous to fill in the parameter's location due to the
\* alignment", process.go:304), and none that can be worked out is left open:
\* arguments are read there and printed.
FilledInTruly ==
  stage = "returned" =>
    /\ NamesInOrder =>
         \A i \in DOMAIN params : params[i].exist => params[i].offset = params[i].place
    /\ AllLocated

\* FindFunction ends: the linear search of adjustFtabIndex makes progress.
FindFunctionEnds == stage # "none" ~> stage = "none"

=============================================================================
