------------------------------ MODULE MCValues ------------------------------
(* Instances of ValueParser for TLC: arguments and the memory they reach.  *)
EXTENDS ValueParser

N(n) == Number(n)
P(a) == [addr |-> a]
Str(a, len) == [addr |-> a, len |-> len]
Ptr(t) == [kind |-> "pointer", elem |-> t]
S(fields) == [kind |-> "struct", fields |-> fields]

\* type node struct { n int; next *node }
\* type all struct { nodes []node; byNumber map[int]node; any interface{}; s string }
MCTypes ==
  [t \in {"int", "string", "unsafe.Pointer", "node", "*node", "[]node", "[]int", "*int", "[3]node",
          "interface {}", "*interface {}", "fmt.Stringer", "map[int]node", "hmap", "bucket",
          "*bucket", "[2]tophash", "[2]int", "[2]node", "map[node]int", "hmap1", "bucket1",
          "*bucket1", "map[*node]int", "hmap2", "bucket2", "*bucket2", "[2]*node", "all"} |->
     CASE t = "int" -> [kind |-> "number"]
       [] t = "string" -> [kind |-> "string"]
       [] t = "unsafe.Pointer" -> [kind |-> "unsafe"]
       [] t = "node" -> S([n |-> "int", next |-> "*node"])
       [] t = "*node" -> Ptr("node")
       [] t = "*int" -> Ptr("int")
       [] t = "[]node" -> [kind |-> "slice", fields |-> [array |-> "*node", len |-> "int"]]
       [] t = "[]int" -> [kind |-> "slice", fields |-> [array |-> "*int", len |-> "int"]]
       [] t \in {"[3]node", "[2]node"} -> [kind |-> "array", elem |-> "node"]
       [] t \in {"[2]int", "[2]tophash"} -> [kind |-> "array", elem |-> "int"]
       [] t = "[2]*node" -> [kind |-> "array", elem |-> "*node"]
       [] t = "interface {}" -> [kind |-> "empty interface"]
       [] t = "*interface {}" -> Ptr("interface {}")
       [] t = "fmt.Stringer" -> [kind |-> "interface"]
       [] t = "all" -> S([nodes |-> "[]node", byNumber |-> "map[int]node",
                          any |-> "interface {}", s |-> "string"])
       [] t = "map[int]node" -> [kind |-> "map", key |-> "int", val |-> "node",
                                 hmap |-> "hmap", bucket |-> "*bucket"]
       [] t = "map[node]int" -> [kind |-> "map", key |-> "node", val |-> "int",
                                 hmap |-> "hmap1", bucket |-> "*bucket1"]
       [] t = "map[*node]int" -> [kind |-> "map", key |-> "*node", val |-> "int",
                                  hmap |-> "hmap2", bucket |-> "*bucket2"]
       [] t = "hmap" -> S([B |-> "int", buckets |-> "*bucket", oldbuckets |-> "*bucket"])
       [] t = "hmap1" -> S([B |-> "int", buckets |-> "*bucket1", oldbuckets |-> "*bucket1"])
       [] t = "hmap2" -> S([B |-> "int", buckets |-> "*bucket2", oldbuckets |-> "*bucket2"])
       [] t = "*bucket" -> Ptr("bucket")
       [] t = "*bucket1" -> Ptr("bucket1")
       [] t = "*bucket2" -> Ptr("bucket2")
       [] t = "bucket" -> S([tophash |-> "[2]tophash", keys |-> "[2]int", values |-> "[2]node",
                             overflow |-> "*bucket"])
       [] t = "bucket1" -> S([tophash |-> "[2]tophash", keys |-> "[2]node", values |-> "[2]int",
                              overflow |-> "*bucket1"])
       [] t = "bucket2" -> S([tophash |-> "[2]tophash", keys |-> "[2]*node", values |-> "[2]int",
                              overflow |-> "*bucket2"])]

Node(n, next) == Struct([n |-> N(n), next |-> P(next)])
Arg(t, v, m, level, odd) == [type |-> t, val |-> v, memory |-> m, level |-> level, odd |-> odd]
Levels == 0..3

\* Three nodes, each with any successor, nil or an address that cannot be read.
Nodes == 101..103
Lists == {[a \in Nodes |-> Node(a - 100, next[a])] : next \in [Nodes -> Nodes \cup {0, 999}]}
OneList == [a \in Nodes |-> Node(a - 100, IF a = 103 THEN 0 ELSE a + 1)]

ListArgs ==
  {Arg("*node", P(a), m, level, {}) : a \in {0, 101}, m \in Lists, level \in Levels}

Slice(array, len) == Struct([array |-> P(array), len |-> N(len)])
SliceArgs ==
  {Arg("[]node", Slice(101, len), OneList, level, {}) : len \in 0..3, level \in Levels}
  \cup {Arg("[]node", Slice(0, 0), OneList, level, {}) : level \in Levels}
  \cup {Arg("[3]node", Items("array", [i \in 1..3 |-> Node(i, 101)]), OneList, level, {"long array"})
          : level \in Levels}
  \cup {Arg("[2]node", Items("array", [i \in 1..2 |-> Node(i, 101)]), OneList, level, {})
          : level \in Levels}

\* Strings, and strings and slices whose lengths are not lengths.
StringArgs ==
  {Arg("string", Str(a, 3), [b \in {300} |-> N(3)], level, {}) : a \in {300, 999}, level \in Levels}
  \cup {Arg("string", Str(a, len), [b \in {300} |-> N(3)], level, {"garbage length"})
          : a \in {300, 999}, len \in {-1, 99}, level \in Levels}
  \cup {Arg("[]node", Slice(101, 99), OneList, level, {"garbage length"}) : level \in Levels}

\* Interfaces.  The word is the value itself for pointers and maps.  An interface
\* whose value is a pointer to itself has no end.
InterfaceArgs ==
  UNION {
    {Arg(t, [type |-> "node", data |-> a], OneList, level, {}) : a \in Nodes}
    \cup {Arg(t, [type |-> "*node", data |-> a], OneList, level, {}) : a \in Nodes \cup {999}}
    \cup {Arg(t, [type |-> "none", data |-> 0], OneList, level, {}),
          Arg(t, [type |-> "*node", data |-> 0], OneList, level, {"typed nil"}),
          Arg(t, [type |-> "made by reflect", data |-> 101], OneList, level, {"made by reflect"}),
          Arg(t, [type |-> "without DWARF", data |-> 101], OneList, level, {"without DWARF"}),
          Arg(t, [type |-> "unsafe.Pointer", data |-> 104], [a \in {104} |-> P(7)], level,
              {}),
          Arg(t, [type |-> "*interface {}", data |-> 104],
              [a \in {104} |-> [type |-> "*interface {}", data |-> 104]], level, {"cycle"}),
          Arg(t, [type |-> "*interface {}", data |-> 104],
              [a \in {104} |-> [type |-> "int", data |-> 105]] @@ [a \in {105} |-> N(5)], level, {})}
    : t \in {"interface {}", "fmt.Stringer"}, level \in Levels}

\* Maps of one or two buckets at 201 with an overflow bucket at 203.  The marks say
\* which cells are in use (9), empty (0), deleted (1) or moved to another bucket (3).
\* The address that an hmap is read as is its first word, the number of entries.
Cell == 1..6
Bucket(marks, first, vals, overflow) ==
  Struct([tophash |-> Items("array", <<N(marks[first]), N(marks[first + 1])>>),
          keys |-> Items("array", <<vals[first], vals[first + 1]>>),
          values |-> Items("array", <<Node(first, 101), Node(first + 1, 0)>>),
          overflow |-> P(overflow)])
MapMemory(B, marks, overflow, old) ==
  [a \in {200} |-> Struct([B |-> N(B), buckets |-> P(201), oldbuckets |-> P(old)]) @@ P(1)]
  @@ [a \in {201} |-> Bucket(marks, 1, [i \in Cell |-> N(i)], IF overflow = 1 THEN 203 ELSE 0)]
  @@ [a \in {202} |-> Bucket(marks, 3, [i \in Cell |-> N(i)], IF overflow = 2 THEN 203 ELSE 0)]
  @@ [a \in {203} |-> Bucket(marks, 5, [i \in Cell |-> N(i)], 0)]
  @@ OneList
MapArgs ==
  {Arg("map[int]node", P(200), MapMemory(B, marks, overflow, 0), level, {})
     : B \in 0..1, marks \in [Cell -> {0, 9}], overflow \in 0..2, level \in 0..2}
  \cup {Arg("map[int]node", P(200), MapMemory(1, marks, 1, 0), level, {"deleted cell"})
          : marks \in [Cell -> {0, 1, 9}], level \in {1}}
  \cup {Arg("map[int]node", P(200), MapMemory(1, marks, 0, 203), level, {"growing"})
          : marks \in [Cell -> {0, 3, 9}], level \in {1}}
  \cup {Arg("map[int]node", P(0), OneList, level, {}) : level \in Levels}
  \cup {Arg("map[int]node", P(200),
            [a \in {200} |-> Struct([B |-> N(0), buckets |-> P(0), oldbuckets |-> P(0)])], level, {})
          : level \in Levels}
  \cup {Arg(t, [type |-> "map[int]node", data |-> 200], MapMemory(0, [i \in Cell |-> 9], 0, 0), level,
            {"pointer shaped"}) : t \in {"interface {}", "fmt.Stringer"}, level \in Levels}

\* A map whose keys are structs, or pointers to structs.
KeyArgs ==
  {Arg(t[1], P(200),
       [a \in {200} |-> Struct([B |-> N(0), buckets |-> P(201), oldbuckets |-> P(0)])]
       @@ [a \in {201} |->
             Struct([tophash |-> Items("array", <<N(9), N(0)>>), keys |-> Items("array", t[2]),
                     values |-> Items("array", <<N(1), N(2)>>), overflow |-> P(0)])]
       @@ OneList, level, t[3])
   : t \in {<<"map[node]int", <<Node(1, 0), Node(2, 0)>>, {"unhashable key"}>>,
            <<"map[*node]int", <<P(101), P(0)>>, {"unhashable key"}>>,
            <<"map[*node]int", <<P(999), P(0)>>, {}>>},
     level \in Levels}

\* Everything inside a struct.
AllArgs ==
  {Arg("all", Struct([nodes |-> Slice(101, len), byNumber |-> P(200),
                      any |-> [type |-> type, data |-> 102], s |-> Str(s, IF s = 0 THEN 0 ELSE 3)]),
       MapMemory(1, [i \in Cell |-> 9], 1, 0) @@ [a \in {300} |-> N(3)], level, {})
   : len \in 0..3, type \in {"node", "*node"}, s \in {0, 300}, level \in Levels}

Arguments == ListArgs \cup SliceArgs \cup StringArgs \cup InterfaceArgs \cup MapArgs \cup KeyArgs \cup AllArgs

=============================================================================
