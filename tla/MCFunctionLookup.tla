-------------------------- MODULE MCFunctionLookup --------------------------
(* Instances of FunctionLookup for TLC: the tables of programs as the Go linker *)
(* writes them, with buckets of four addresses and two subbuckets.          *)
EXTENDS FunctionLookup

\* Sizes of a program's parameters: a 32-bit and a 64-bit integer.
Sizes == {4, 8}

RoundUp(n, a) == ((n + a - 1) \div a) * a

\* The compiler's layout: each parameter aligned to its size, the outputs to a word.
Places(sizes, inputs) ==
  LET place[k \in 0 .. Len(sizes)] ==
        IF k = 0 THEN 0
        ELSE LET end == IF k = 1 THEN 0 ELSE place[k - 1] + sizes[k - 1]
             IN  RoundUp(end, IF k = inputs + 1 THEN WordSize ELSE sizes[k])
  IN  place

ArgsSize(ps) ==
  IF ps = <<>> THEN 0 ELSE RoundUp(Last(ps).place + Last(ps).size, WordSize)

\* What DWARF says of a signature whose parameters in known have a place.
Signature(sizes, inputs, unnamed, known) ==
  [k \in 1 .. Len(sizes) |->
     LET place == Places(sizes, inputs)[k]
     IN  [nr |-> k - 1, size |-> sizes[k], output |-> k > inputs,
          unnamed |-> unnamed /\ k > inputs, exist |-> k \in known,
          offset |-> IF k \in known THEN place ELSE 0, place |-> place]]

Signatures ==
  UNION {{Signature(sizes, inputs, unnamed, known) :
            inputs \in 0 .. n, unnamed \in BOOLEAN, known \in SUBSET (1 .. n),
            sizes \in [1 .. n -> Sizes]} : n \in 0 .. 3}

\* Outputs number 9 and 10.
WideSignature == Signature([k \in 1 .. 11 |-> 8], 9, TRUE, 1 .. 9)

-----------------------------------------------------------------------------
(* Module data of a text from lo to hi, cut into functions.                *)

Table(lo, hi, cuts) ==
  LET bounds == {lo, hi} \cup cuts
  IN  [i \in 0 .. Cardinality(bounds) - 1 |->
         CHOOSE a \in bounds : Cardinality({b \in bounds : b < a}) = i]

\* Kinds of rough indexes: of the first function in the subbucket, of the first
\* function of all, of one further on (where there are several sections).
Rough(kind, lo, ftab, n, sub) ==
  LET from == lo + sub * (PCBucketSize \div Subbuckets)
      to == from + PCBucketSize \div Subbuckets - 1
      within == {i \in 0 .. n - 2 : ftab[i] <= to /\ from < ftab[i + 1]}
      first == IF within = {} THEN n - 2 ELSE Min(within)
  IN  CASE kind = "first" -> first
        [] kind = "least" -> 0
        [] kind = "further" -> IF first = 0 THEN 0 ELSE first + 2

Buckets(kind, lo, hi, ftab, n) ==
  [b \in 0 .. (hi - lo) \div PCBucketSize |->
     LET rough(s) == Rough(kind, lo, ftab, n, b * Subbuckets + s)
     IN  [idx |-> rough(0), subbuckets |-> [s \in 0 .. Subbuckets - 1 |-> rough(s) - rough(0)]]]

ModuleData(lo, hi, cuts, kind, debuggable, ps, args) ==
  LET ftab == Table(lo, hi, cuts)
      n == Cardinality(DOMAIN ftab)
  IN  [minpc |-> lo, maxpc |-> hi, ftabLen |-> n, ftab |-> ftab,
       findfunctab |-> Buckets(kind, lo, hi, ftab, n), debuggable |-> debuggable,
       params |-> [i \in 0 .. n - 2 |-> ps[i % 2]],
       args |-> [i \in 0 .. n - 2 |-> args[i % 2]]]

\* Every other function has no parameters, or is assembly that tells no size.
NoParams == [i \in 0 .. 1 |-> <<>>]
Alternating(ps) == [i \in 0 .. 1 |-> IF i = 0 THEN <<>> ELSE ps]

Tables ==
  {<<ModuleData(2, 10, cuts, kind, FALSE, NoParams, [i \in 0 .. 1 |-> IF i = 0 THEN 20 ELSE -1])>> :
     cuts \in SUBSET (3 .. 9), kind \in {"first", "least", "further"}}

WithPlugin ==
  {<<ModuleData(6, 12, {9}, "first", debuggable, Alternating(Signature(<<8, 8>>, 1, TRUE, {1})),
                [i \in 0 .. 1 |-> IF i = 0 THEN 0 ELSE 16]),
     ModuleData(1, 5, {3, 4}, "first", FALSE, NoParams, [i \in 0 .. 1 |-> 8 * i])>> :
     debuggable \in BOOLEAN}

WithSignatures ==
  {<<ModuleData(2, 8, {4, 5}, kind, TRUE, Alternating(ps),
                [i \in 0 .. 1 |-> IF i = 0 THEN -1 ELSE ArgsSize(ps)])>> :
     ps \in Signatures \cup {WideSignature}, kind \in {"first", "least"}}

MCPrograms == Tables \cup WithPlugin \cup WithSignatures

=============================================================================
