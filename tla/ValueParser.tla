---------------------------- MODULE ValueParser -----------------------------
(***************************************************************************)
(* tracee.valueParser and the String methods of the values: how an         *)
(* argument is read from the tracee's memory by its DWARF type and printed.*)
(*                                                                         *)
(* An address holds one object: a number, an address or a composite.  What *)
(* Go itself lays out (slice and interface headers, hmap, buckets) is in   *)
(* memory as its runtime writes it, with a mark per cell of a bucket.  A   *)
(* panic of the parser, or the overflow of its stack, is a crash of the    *)
(* tracer.                                                                 *)
(***************************************************************************)
EXTENDS Integers, Sequences, FiniteSets, SequencesExt

CONSTANTS Types,      \* Types[t]: the DWARF type with the name t
          Argument,   \* the arguments to print: [type, val, memory, level, odd]
          StackLimit, \* bound: calls of parseValue that are on the stack
          MaxAlloc,   \* bound: the longest string or slice there is memory for
          MaxContainerItemsToPrint

VARIABLES argument,   \* the argument that is printed
          printed     \* its text, abstractly, or NotYet

vars == <<argument, printed>>

Kind == {"number", "pointer", "unsafe", "string", "struct", "slice", "array", "interface",
         "empty interface", "map"}

\* odd: what is out of the ordinary in the argument's memory.
Oddity == {"deleted cell", "growing", "typed nil", "pointer shaped", "long array",
           "unhashable key", "made by reflect", "without DWARF", "cycle",
           "garbage length"}

ASSUME ArgumentsAreTyped ==
  /\ \A t \in DOMAIN Types : Types[t].kind \in Kind
  /\ \A x \in Argument : x.type \in DOMAIN Types /\ x.level \in Nat /\ x.odd \subseteq Oddity
  /\ StackLimit \in Nat /\ MaxAlloc \in Nat /\ MaxContainerItemsToPrint \in Nat

-----------------------------------------------------------------------------
(* Values.  A parsed pointer has the parsed value it points to, or Nothing.*)

NotYet      == [is |-> "not yet"]
Nothing     == [is |-> "nothing"]
Crash       == [is |-> "crash"]
Abbreviated == [is |-> "abbreviated"]
NilInterface == [is |-> "nil interface"]
Number(n)          == [is |-> "number", n |-> n]
Pointer(a, to)     == [is |-> "pointer", addr |-> a, to |-> to]
Struct(fields)     == [is |-> "struct", fields |-> fields]
Items(kind, items) == [is |-> kind, items |-> items]
Interface(t, v)    == [is |-> "interface", type |-> t, val |-> v]
Map(entries)       == [is |-> "map", entries |-> entries]

\* The value v, unless one of its parts could not be parsed.
Unless(parts, v) == IF Crash \in parts THEN Crash ELSE v

NoEntries == [k \in {} |-> Nothing]
Override(f, g) == [k \in DOMAIN f \cup DOMAIN g |-> IF k \in DOMAIN f THEN f[k] ELSE g[k]]

-----------------------------------------------------------------------------
(* Parsing.  c is the memory and how many calls the stack has room for.    *)

RECURSIVE ParseValue(_, _, _, _)

Readable(c, a) == a \in DOMAIN c.memory

ParsePointer(c, typ, v, depth) ==
  IF v.addr = 0 \/ ~Readable(c, v.addr) THEN Pointer(v.addr, Nothing)
  ELSE LET to == ParseValue(c, typ.elem, c.memory[v.addr], depth)
       IN  Unless({to}, Pointer(v.addr, to))

\* What there is memory for: make panics with any other length, and append ends
\* the tracer.
Allocatable(n) == n \in 0..MaxAlloc

\* Room for the string is made before it is read.
ParseStringValue(c, v) ==
  IF ~Allocatable(v.len) THEN Crash
  ELSE Number(IF Readable(c, v.addr) THEN c.memory[v.addr].n ELSE 0)

ParseStructValue(c, typ, v, depth) ==
  IF depth <= 0 THEN Abbreviated
  ELSE LET fields == [f \in DOMAIN typ.fields |->
                        ParseValue(c, typ.fields[f], v.fields[f], depth - 1)]
       IN  Unless({fields[f] : f \in DOMAIN fields}, Struct(fields))

\* Values are wrapped by n structs of the runtime's, which do not count.
\* Defect: they count.
Wrapped_Counted(n, depth) == depth
Wrapped(n, depth) == depth + n

\* The first element is parsed with the slice's own struct, the others each by a
\* pointer to it.  A length is not negative.
ParseSliceValue(c, typ, v, depth) ==
  LET s == ParseStructValue(c, typ, v, Wrapped(1, depth))
      first == s.fields.array
      Elem(i) == ParseValue(c, typ.fields.array, [addr |-> first.addr + i - 1], depth)
      rest == [i \in 2..s.fields.len.n |-> Elem(i)]
      items == [i \in 1..s.fields.len.n |-> IF i = 1 THEN first.to ELSE rest[i].to]
  IN  IF s \in {Crash, Abbreviated} \/ ~Allocatable(s.fields.len.n) THEN Crash
      ELSE IF s.fields.len.n > 1 /\ (first.to = Nothing \/ Crash \in {rest[i] : i \in DOMAIN rest})
        THEN Crash
      ELSE Items("slice", items)

ParseArray(c, typ, v, depth) ==
  LET items == [i \in DOMAIN v.items |-> ParseValue(c, typ.elem, v.items[i], depth)]
  IN  Unless({items[i] : i \in DOMAIN items}, Items("array", items))

\* The type that the runtime's type descriptor stands for.  A descriptor outside
\* of all modules, made by package reflect, leaves md nil.
MapRuntimeType(t) ==
  IF t = "made by reflect" THEN Crash
  ELSE IF t = "without DWARF" THEN Nothing
  ELSE [is |-> "type", type |-> t]

\* What is in the interface: the data word is the pointer, or points to the value.
ParseImplValue(c, t, data, depth) ==
  LET isPointer == Types[t].kind \in {"pointer", "unsafe"}   \* *dwarf.PtrType
      val == ParseValue(c, t, IF isPointer THEN [addr |-> data] ELSE c.memory[data], depth)
  IN  IF ~isPointer /\ ~Readable(c, data) THEN NilInterface
      ELSE Unless({val}, Interface(t, val))

ParseInterface(c, typ, v, depth) ==
  LET impl == MapRuntimeType(v.type)
      isNil == IF typ.kind = "interface" THEN v.type = "none" ELSE v.data = 0
  IN  IF isNil THEN NilInterface
      ELSE CASE impl = Crash -> Crash
             [] impl = Nothing -> NilInterface
             [] OTHER -> ParseImplValue(c, impl.type, v.data, depth)

-----------------------------------------------------------------------------
(* Maps.                                                                   *)

\* Keys are put into a Go map.  structValue, arrayValue, sliceValue and mapValue
\* hold a map or slice and cannot be hashed.
RECURSIVE Hashable(_)
Hashable(v) ==
  CASE v.is = "pointer" -> Hashable(v.to)
    [] v.is = "interface" -> Hashable(v.val)
    [] OTHER -> v.is \in {"number", "nothing", "nil interface"}

\* A map that has been made may not have a bucket yet.
\* Defect: it is expected to have one.
NoBucket_Never(p) == FALSE
NoBucket(p) == p.addr = 0

\* The entries of the bucket that p points to and of its overflow buckets.
RECURSIVE ParseBucket(_, _, _, _)
ParseBucket(c, typ, p, depth) ==
  LET b == p.to.fields
      live == {j \in DOMAIN b.tophash.items : b.tophash.items[j].n # 0}
      keys == {b.keys.items[j] : j \in live}
      LastCell(k) == CHOOSE j \in live : /\ b.keys.items[j] = k
                                     /\ \A i \in live : b.keys.items[i] = k => i <= j
      here == [k \in keys |-> b.values.items[LastCell(k)]]
      overflow == ParseBucket(c, typ, ParseValue(c, typ.bucket, [addr |-> b.overflow.addr],
                                                  Wrapped(1, depth)),
                              depth)
  IN  IF NoBucket(p) THEN Map(NoEntries)
      ELSE IF p.to \in {Nothing, Abbreviated} \/ (\E k \in keys : ~Hashable(k)) THEN Crash
      ELSE IF b.overflow.addr = 0 THEN Map(here)
      ELSE Unless({overflow}, Map(Override(overflow.entries, here)))

\* The buckets are an array, whose first element is parsed with the hmap.
ParseMapValue(c, typ, v, depth) ==
  LET h == ParsePointer(c, [elem |-> typ.hmap], v, Wrapped(2, depth))
      first == h.to.fields.buckets
      numBuckets == 2 ^ h.to.fields.B.n
      buckets == [i \in 1..numBuckets |->
                    IF i = 1 THEN first
                    ELSE ParseValue(c, typ.bucket, [addr |-> first.addr + i - 1],
                                    Wrapped(1, depth))]
      maps == [i \in 1..numBuckets |->
                 IF buckets[i] = Crash THEN Crash ELSE ParseBucket(c, typ, buckets[i], depth)]
  IN  IF h = Crash \/ h.to = Abbreviated THEN Crash
      ELSE IF h.to = Nothing THEN Map(NoEntries)
      ELSE Unless(Range(maps),
                  Map(FoldLeft(LAMBDA entries, m : Override(m.entries, entries), NoEntries, maps)))

\* Only a struct of the program's own counts for the depth.
ParseValue(c, t, v, depth) ==
  LET typ == Types[t]
      d   == [c EXCEPT !.room = @ - 1]
  IN  CASE c.room = 0 -> Crash
        [] typ.kind = "number" -> Number(v.n)
        [] typ.kind = "unsafe" -> Pointer(v.addr, Nothing)
        [] typ.kind = "pointer" -> ParsePointer(d, typ, v, depth)
        [] typ.kind = "string" -> ParseStringValue(d, v)
        [] typ.kind = "struct" -> ParseStructValue(d, typ, v, depth)
        [] typ.kind = "slice" -> ParseSliceValue(d, typ, v, depth)
        [] typ.kind = "array" -> ParseArray(d, typ, v, depth)
        [] typ.kind \in {"interface", "empty interface"} -> ParseInterface(d, typ, v, depth)
        [] typ.kind = "map" -> ParseMapValue(d, typ, v, depth)

-----------------------------------------------------------------------------
(* Printing: the String methods.  A text of items shows the first ones.    *)

Text(kind, length, items) ==
  [is |-> kind, length |-> length, more |-> Len(items) > MaxContainerItemsToPrint,
   items |-> IF Len(items) > MaxContainerItemsToPrint
               THEN SubSeq(items, 1, MaxContainerItemsToPrint) ELSE items]

\* Nothing is in slices only.  fmt recovers from the panic of its String method if
\* the slice is inside of another value, and prints the panic: a crash here as well.
RECURSIVE Shown(_)

ShownItems(v) ==
  LET text == Text(v.is, 0, v.items)
      shown == [i \in DOMAIN text.items |-> Shown(text.items[i])]
  IN  Unless(Range(shown),
             [text EXCEPT !.items = shown, !.length = IF v.is = "array" THEN Len(shown) ELSE 0])

ShownMap(v) ==
  LET text == {<<Shown(k), Shown(v.entries[k])>> : k \in DOMAIN v.entries}
  IN  Unless({e[1] : e \in text} \cup {e[2] : e \in text}, Map(text))

Shown(v) ==
  CASE v.is = "pointer" /\ v.to # Nothing ->
         LET to == Shown(v.to) IN Unless({to}, [is |-> "&", to |-> to])
    [] v.is = "struct" ->
         LET fields == [f \in DOMAIN v.fields |-> Shown(v.fields[f])]
         IN  Unless({fields[f] : f \in DOMAIN fields}, Struct(fields))
    [] v.is \in {"slice", "array"} -> ShownItems(v)
    [] v.is = "map" -> ShownMap(v)
    [] v.is = "interface" ->
         LET val == Shown(v.val) IN Unless({val}, Interface(v.type, val))
    [] v.is = "nothing" -> Crash   \* a method of a nil value
    [] OTHER -> v

-----------------------------------------------------------------------------

Init == argument \in Argument /\ printed = NotYet

\* Argument.ParseValue
ParseAndPrint ==
  /\ printed = NotYet
  /\ printed' = Shown(ParseValue([memory |-> argument.memory, room |-> StackLimit],
                                 argument.type, argument.val, argument.level))
  /\ UNCHANGED argument

Spec == Init /\ [][ParseAndPrint]_vars

-----------------------------------------------------------------------------
(* Properties.                                                             *)

\* What the value is in the language, cut at the depth: m is the memory.
RECURSIVE Meant(_, _, _, _)

\* Smaller marks are empty, deleted and moved cells (runtime/map.go).
MinTopHash == 5

\* The cells in use of a map's buckets and their overflow buckets.
Cells(m, bucket) ==
  LET Following(a) == m[a].fields.overflow.addr
      chain[i \in Nat] == IF i = 0 THEN bucket
                          ELSE IF chain[i - 1] = 0 THEN 0 ELSE Following(chain[i - 1])
      buckets == {chain[i] : i \in 0..Cardinality(DOMAIN m)} \ {0}
      InUse(b) == {j \in DOMAIN b.tophash.items : b.tophash.items[j].n >= MinTopHash}
  IN  UNION {{[key |-> m[a].fields.keys.items[j], val |-> m[a].fields.values.items[j]]
                : j \in InUse(m[a].fields)} : a \in buckets}

MeantMap(m, typ, v, depth) ==
  LET h == m[v.addr].fields
      From(p, n) == IF p.addr = 0 THEN {} ELSE {p.addr + i : i \in 0..(n - 1)}
      addrs == From(h.buckets, 2 ^ h.B.n) \cup From(h.oldbuckets, 2 ^ h.B.n \div 2)
  IN  IF v.addr = 0 THEN {}
      ELSE {<<Meant(m, typ.key, e.key, depth), Meant(m, typ.val, e.val, depth)>>
              : e \in UNION {Cells(m, a) : a \in addrs}}

\* So are channels, functions and structs of one pointer; Types has none of these.
PointerShaped(t) == Types[t].kind \in {"pointer", "unsafe", "map"}

Meant(m, t, v, depth) ==
  LET typ == Types[t]
  IN CASE typ.kind = "number" -> Number(v.n)
       [] typ.kind = "unsafe" -> Pointer(v.addr, Nothing)
       [] typ.kind = "string" -> Number(IF v.addr \in DOMAIN m THEN m[v.addr].n ELSE 0)
       [] typ.kind = "pointer" ->
            IF v.addr \notin DOMAIN m THEN Pointer(v.addr, Nothing)
            ELSE [is |-> "&", to |-> Meant(m, typ.elem, m[v.addr], depth)]
       [] typ.kind = "struct" ->
            IF depth = 0 THEN Abbreviated
            ELSE Struct([f \in DOMAIN typ.fields |->
                           Meant(m, typ.fields[f], v.fields[f], depth - 1)])
       [] typ.kind = "slice" ->
            LET elem == Types[typ.fields.array].elem
            IN  Text("slice", 0, [i \in 1..v.fields.len.n |->
                                    Meant(m, elem, m[v.fields.array.addr + i - 1], depth)])
       [] typ.kind = "array" ->
            Text("array", Len(v.items),
                 [i \in DOMAIN v.items |-> Meant(m, typ.elem, v.items[i], depth)])
       [] typ.kind \in {"interface", "empty interface"} ->
            IF v.type = "none" THEN NilInterface
            ELSE Interface(v.type, Meant(m, v.type,
                             IF PointerShaped(v.type) THEN [addr |-> v.data] ELSE m[v.data], depth))
       [] typ.kind = "map" -> Map(MeantMap(m, typ, v, depth))

\* What is printed is the value, cut where the level of the program's own structs
\* is reached: "It is decremented when the struct type value is parsed, though the
\* structs used by builtin types, such as slice and map, are not considered"
\* (value.go:291).  Not so, with this code, for the oddities named here.
PrintsValue ==
  /\ printed \notin {NotYet, Crash}
  /\ argument.odd \cap {"deleted cell", "growing", "typed nil", "pointer shaped", "long array",
                        "without DWARF"} = {}
  => printed = Meant(argument.memory, argument.type, argument.val, argument.level)

\* Printing an argument does not end the tracer, which would leave its traps in the
\* tracee: not by a panic of the parser, nor by an endless recursion ("parser stops
\* when the depth becomes negative", value.go:290).  It does for these oddities.
NeverCrashes ==
  argument.odd \cap {"unhashable key", "made by reflect", "cycle", "garbage length"} = {} => printed # Crash

=============================================================================
