-------------------------- MODULE PatchArenaProofs --------------------------
(***************************************************************************)
(* Proofs about PatchArena, for every size of the arena, every capacity,   *)
(* every set of messages and any number of plugins: blocks do not overlap, *)
(* the offsets of live entries stay in blocks of their kind, the arena     *)
(* holds what was sent, and it implements PatchRegistry.                   *)
(*                                                                         *)
(* None is inductive: a function of the arena writes through offsets, and  *)
(* what it overwrites depends on where they lead.  The invariant Handled   *)
(* says, of a shape that records what each block was allocated as:         *)
(*   Proper         blocks do not overlap, and the cells of each refer to  *)
(*                  blocks of the type they should, stale ones included;   *)
(*   MapOK          the header's two arrays are as long as it says;        *)
(*   Distinct       no plugin has two entries;                             *)
(*   OwnLists       no two entries share an array of patches;              *)
(*   OwnTransforms  no two patches share an array of transforms;           *)
(*   JobOK          the pointers that a handler of PATCHES keeps across    *)
(*                  its steps lead to its plugin's entry and to the last   *)
(*                  patch of that list, as long as threads have not met;   *)
(*   Control        until then one child at most is in the arena's code,   *)
(*                  and a handler belongs to a child that is starting.     *)
(* Separation is asked of live entries only: an array that was replaced by *)
(* a larger one keeps its old offsets for ever.                            *)
(***************************************************************************)
EXTENDS PatchArena, TLAPS

-----------------------------------------------------------------------------
(* The allocator *)

(* an arena is a record of a counter, a heap of blocks and a header          *)
IsArena(a) ==
    /\ a = [used |-> a.used, heap |-> a.heap, map |-> a.map]
    /\ a.heap = [o \in Blocks(a) |-> a.heap[o]]
    /\ \A o \in Blocks(a) : a.heap[o] = [size |-> a.heap[o].size, data |-> a.heap[o].data]

(* BlocksDisjoint of an arena a, and what salloc() needs to keep it *)
Sound(a) ==
    /\ a.used \in Nat /\ a.used % 8 = 0 /\ SizeofArena <= a.used /\ a.used <= ArenaSize
    /\ \A o \in Blocks(a) :
        /\ o \in Nat /\ o >= SizeofArena /\ o % 8 = 0
        /\ a.heap[o].size \in Nat /\ a.heap[o].size > 0 /\ o + a.heap[o].size <= a.used
    /\ \A o, q \in Blocks(a) : o < q => o + a.heap[o].size <= q

(* an arena with another heap, or another heap and counter                   *)
LEMMA ArenaExcept ==
    ASSUME NEW u, NEW h, NEW m, NEW u2, NEW h2, NEW a, NEW b,
           a = [used |-> u, heap |-> h, map |-> m]
    PROVE  /\ b = [a EXCEPT !.heap = h2] => b = [used |-> u, heap |-> h2, map |-> m]
           /\ b = [a EXCEPT !.used = u2, !.heap = h2] => b = [used |-> u2, heap |-> h2, map |-> m]
<1>1. [a EXCEPT !.heap = h2] = [used |-> u, heap |-> h2, map |-> m]
    OBVIOUS
<1>2. ASSUME b = [a EXCEPT !.used = u2, !.heap = h2]
      PROVE  b = [used |-> u2, heap |-> h2, map |-> m]
  <2>1. b.used = u2 /\ b.heap = h2 /\ b.map = m
      BY <1>2
  <2>2. b = [used |-> b.used, heap |-> b.heap, map |-> b.map]
      BY <1>2
  <2> QED
      BY <2>1, <2>2
<1> QED
    BY <1>1, <1>2

(* a block with other data                                                   *)
LEMMA BlockExcept ==
    ASSUME NEW s, NEW d, NEW d2
    PROVE  [[size |-> s, data |-> d] EXCEPT !.data = d2] = [size |-> s, data |-> d2]
    OBVIOUS

(* salloc() rounds up to the next multiple of 8                              *)
LEMMA AlignFacts ==
    ASSUME NEW n \in Nat
    PROVE  Align(n) \in Nat /\ Align(n) % 8 = 0 /\ n <= Align(n) /\ Align(n) <= n + 7
    BY DEF Align

(* what salloc() returns: nothing, or the block at the old end of the arena *)
LEMMA SallocFacts ==
    ASSUME NEW a, IsArena(a), Sound(a), NEW n \in Nat \ {0}, n + ArenaSize + 8 <= Word, NEW data,
           NEW r, r = salloc(a, n, data)
    PROVE  \/ r = [arena |-> a, off |-> 0]
           \/ /\ r.off = a.used /\ a.used \notin Blocks(a) /\ r.arena.map = a.map
              /\ Blocks(r.arena) = Blocks(a) \cup {a.used}
              /\ \A o \in Blocks(a) : r.arena.heap[o] = a.heap[o]
              /\ r.arena.heap[a.used] = [size |-> Align(n), data |-> data]
              /\ IsArena(r.arena) /\ Sound(r.arena)
<1> DEFINE u == a.used
           s == Align(n)
<1>1. /\ s \in Nat /\ s % 8 = 0 /\ n <= s /\ s <= n + 7 /\ s > 0
      /\ u \in Nat /\ u % 8 = 0 /\ u <= ArenaSize /\ u >= SizeofArena
      /\ ArenaSize \in Nat /\ Word \in Nat
  <2>1. s \in Nat /\ s % 8 = 0 /\ n <= s /\ s <= n + 7
      BY AlignFacts
  <2> HIDE DEF s
  <2> QED
      BY <2>1, SizesAssumption DEF Sound
<1>2. s % Word = s /\ (u + s) % Word = u + s
    BY <1>1
<1>3. CASE u + s > ArenaSize
    BY <1>2, <1>3 DEF salloc
<1>4. CASE ~(u + s > ArenaSize)
  <2> DEFINE b == [a EXCEPT !.used = u + s,
                            !.heap = [o \in DOMAIN a.heap \cup {u} |->
                               IF o = u THEN [size |-> s, data |-> data] ELSE a.heap[o]]]
  <2>1. r = [arena |-> b, off |-> u]
      BY <1>2, <1>4 DEF salloc
  <2>2. u \notin Blocks(a)
      BY <1>1 DEF Sound
  <2>3. /\ b.used = u + s /\ b.map = a.map
        /\ b.heap = [o \in DOMAIN a.heap \cup {u} |->
                        IF o = u THEN [size |-> s, data |-> data] ELSE a.heap[o]]
        /\ b = [used |-> b.used, heap |-> b.heap, map |-> b.map]
    <3> DEFINE h2 == [o \in DOMAIN a.heap \cup {u} |->
                         IF o = u THEN [size |-> s, data |-> data] ELSE a.heap[o]]
               v == u + s
    <3>1. a = [used |-> a.used, heap |-> a.heap, map |-> a.map] /\ b = [a EXCEPT !.used = v, !.heap = h2]
        BY DEF IsArena
    <3> HIDE DEF h2, b, u, v
    <3>2. b = [used |-> v, heap |-> h2, map |-> a.map]
        BY <3>1, ArenaExcept, Zenon
    <3>3. b.used = v /\ b.heap = h2 /\ b.map = a.map
        BY <3>2
    <3> QED
        BY <3>2, <3>3 DEF h2, v
  <2> HIDE DEF b
  <2>4. /\ Blocks(b) = Blocks(a) \cup {u}
        /\ \A o \in Blocks(a) : b.heap[o] = a.heap[o]
        /\ b.heap[u] = [size |-> s, data |-> data]
        /\ b.heap = [o \in Blocks(b) |-> b.heap[o]]
      BY <2>2, <2>3 DEF Blocks
  <2>5. IsArena(b)
      BY <2>3, <2>4 DEF IsArena
  <2>6. /\ b.used % 8 = 0 /\ b.used \in Nat /\ b.used <= ArenaSize /\ SizeofArena <= b.used
        /\ u + s = b.used
      BY <1>1, <1>4, <2>3 DEF SizeofArena
  <2>7. ASSUME NEW o \in Blocks(b)
        PROVE  /\ o \in Nat /\ o >= SizeofArena /\ o % 8 = 0
               /\ b.heap[o].size \in Nat /\ b.heap[o].size > 0 /\ o + b.heap[o].size <= b.used
    <3>1. CASE o = u
        BY <1>1, <2>4, <2>6, <3>1
    <3>2. CASE o \in Blocks(a)
        BY <1>1, <2>4, <2>6, <3>2 DEF Sound, SizeofArena
    <3> QED
        BY <2>4, <3>1, <3>2
  <2>8. ASSUME NEW o \in Blocks(b), NEW q \in Blocks(b), o < q
        PROVE  o + b.heap[o].size <= q
    <3>1. CASE q = u
      <4>1. o \in Blocks(a)
          BY <1>1, <2>4, <2>8, <3>1
      <4> QED
          BY <2>4, <3>1, <4>1 DEF Sound
    <3>2. CASE q \in Blocks(a)
      <4>1. q < u
          BY <1>1, <3>2 DEF Sound
      <4>2. o # u
        <5>1. o \in Nat /\ q \in Nat
            BY <2>7
        <5> HIDE DEF u
        <5> QED
            BY <1>1, <2>8, <4>1, <5>1
      <4>3. o \in Blocks(a)
          BY <2>4, <4>2
      <4> QED
          BY <2>4, <2>8, <3>2, <4>3 DEF Sound
    <3> QED
        BY <2>4, <3>1, <3>2
  <2>9. Sound(b)
      BY <2>6, <2>7, <2>8 DEF Sound
  <2> QED
      BY <2>1, <2>2, <2>3, <2>4, <2>5, <2>9
<1> QED
    BY <1>3, <1>4

Put(cells, i, cell) == [cells EXCEPT ![i] = cell]

(* the block off holds data *)
Replace(a, off, data) == [a EXCEPT !.heap[off].data = data]

(* what an assignment to a block changes *)
LEMMA ReplaceFacts ==
    ASSUME NEW a, IsArena(a), NEW off \in Blocks(a), NEW data, NEW b, b = Replace(a, off, data)
    PROVE  /\ b.used = a.used /\ b.map = a.map /\ Blocks(b) = Blocks(a) /\ IsArena(b)
           /\ \A o \in Blocks(a) : /\ b.heap[o].size = a.heap[o].size
                                   /\ o # off => b.heap[o] = a.heap[o]
           /\ b.heap[off].data = data
<1> DEFINE block == [a.heap[off] EXCEPT !.data = data]
           h == [a.heap EXCEPT ![off] = block]
<1>1. b = [a EXCEPT !.heap = h] /\ a = [used |-> a.used, heap |-> a.heap, map |-> a.map]
    BY DEF Replace, IsArena
<1>2. /\ b.used = a.used /\ b.map = a.map /\ b.heap = h
      /\ b = [used |-> b.used, heap |-> b.heap, map |-> b.map]
  <2> HIDE DEF h
  <2>1. b = [used |-> a.used, heap |-> h, map |-> a.map]
      BY <1>1, ArenaExcept, Zenon
  <2> QED
      BY <2>1
<1>3. /\ block.size = a.heap[off].size
      /\ block.data = data
      /\ block = [size |-> block.size, data |-> block.data]
  <2>1. /\ a.heap[off] = [size |-> a.heap[off].size, data |-> a.heap[off].data]
        /\ block = [a.heap[off] EXCEPT !.data = data]
      BY DEF IsArena
  <2> HIDE DEF block
  <2>2. block = [size |-> a.heap[off].size, data |-> data]
      BY <2>1, BlockExcept, Zenon
  <2> QED
      BY <2>2
<1> HIDE DEF block
<1>4. /\ Blocks(b) = Blocks(a) /\ b.heap[off] = block
      /\ \A o \in Blocks(a) : o # off => b.heap[o] = a.heap[o]
      /\ b.heap = [o \in Blocks(b) |-> b.heap[o]]
    BY <1>2 DEF Blocks, IsArena
<1> HIDE DEF h
<1> QED
    BY <1>2, <1>3, <1>4 DEF IsArena

(* a cell of an array is written in place: nothing else changes              *)
LEMMA WriteFacts ==
    ASSUME NEW a, IsArena(a), NEW off \in Blocks(a), NEW i, NEW cell,
           NEW b, b = Write(a, off, i, cell)
    PROVE  b = Replace(a, off, Put(Data(a, off), i, cell))
    BY DEF Write, Replace, Put, Data, IsArena, Blocks

-----------------------------------------------------------------------------
(* The typed heap.  A shape says what each block was allocated as; blocks    *)
(* keep it for good, also those that a larger array has replaced.            *)

Types == {"name", "string", "keys", "values", "patches", "transforms"}
Shape == [type : Types, len : Nat]

Refers(shape, off, type, n) == off \in DOMAIN shape /\ shape[off] = [type |-> type, len |-> n]

KeyCells(shape) == {0} \cup {o \in DOMAIN shape : shape[o].type = "name"}
StringCells(shape) == {0} \cup {o \in DOMAIN shape : shape[o].type = "string"}
ListCells(shape) ==
    {l \in [patches_off : Nat, patch_count : Nat, patch_capacity : Nat] :
        /\ l.patch_count <= l.patch_capacity
        /\ l.patch_capacity = 0 => l.patches_off = 0
        /\ l.patch_capacity > 0 => Refers(shape, l.patches_off, "patches", l.patch_capacity)}
PatchCells(shape) ==
    {p \in [file_off : StringCells(shape), find_off : StringCells(shape), transforms_off : Nat,
            transform_count : Nat, transform_capacity : Nat] :
        /\ p.transform_count <= p.transform_capacity
        /\ p.transform_capacity = 0 => p.transforms_off = 0
        /\ p.transform_capacity > 0 =>
              Refers(shape, p.transforms_off, "transforms", p.transform_capacity)}
TransformCells(shape) == [match_off : StringCells(shape), replace_off : StringCells(shape)]

(* data is what a block of shape s and of that size may hold *)
HoldsData(shape, s, size, data) ==
    /\ s.type = "name" => data \in Plugins
    /\ s.type = "string" => data \in Strings
    /\ s.type = "keys" =>
          s.len * SizeofOffset <= size /\ data \in [0 .. s.len - 1 -> KeyCells(shape)]
    /\ s.type = "values" =>
          s.len * SizeofList <= size /\ data \in [0 .. s.len - 1 -> ListCells(shape)]
    /\ s.type = "patches" =>
          s.len * SizeofPatch <= size /\ data \in [0 .. s.len - 1 -> PatchCells(shape)]
    /\ s.type = "transforms" =>
          s.len * SizeofTransform <= size /\ data \in [0 .. s.len - 1 -> TransformCells(shape)]

WellTyped(a, shape) ==
    /\ shape \in [Blocks(a) -> Shape]
    /\ \A o \in Blocks(a) : HoldsData(shape, shape[o], a.heap[o].size, Data(a, o))

Proper(a, shape) == IsArena(a) /\ Sound(a) /\ WellTyped(a, shape)

Grows(old, new) ==
    /\ DOMAIN old \subseteq DOMAIN new
    /\ \A o \in DOMAIN old : new[o] = old[o]

(* b is a after some allocations: nothing else has changed *)
Later(a, shape, b, new) ==
    /\ Grows(shape, new) /\ Proper(b, new) /\ b.map = a.map
    /\ Blocks(a) \subseteq Blocks(b)
    /\ \A o \in Blocks(a) : b.heap[o] = a.heap[o]

(* an arena that is later than a later one is later                          *)
LEMMA LaterTransitive ==
    ASSUME NEW a, NEW r, NEW b, NEW s, NEW c, NEW t, Later(a, r, b, s), Later(b, s, c, t)
    PROVE  Later(a, r, c, t)
    BY DEF Later, Grows

(* what a cell may refer to remains there when blocks are added              *)
LEMMA CellsGrow ==
    ASSUME NEW old, NEW new, Grows(old, new)
    PROVE  /\ KeyCells(old) \subseteq KeyCells(new)
           /\ StringCells(old) \subseteq StringCells(new)
           /\ ListCells(old) \subseteq ListCells(new)
           /\ PatchCells(old) \subseteq PatchCells(new)
           /\ TransformCells(old) \subseteq TransformCells(new)
<1>1. KeyCells(old) \subseteq KeyCells(new) /\ StringCells(old) \subseteq StringCells(new)
    BY DEF KeyCells, StringCells, Grows
<1>2. ListCells(old) \subseteq ListCells(new)
    BY DEF ListCells, Refers, Grows
<1>3. PatchCells(old) \subseteq PatchCells(new)
    BY <1>1 DEF PatchCells, Refers, Grows
<1>4. TransformCells(old) \subseteq TransformCells(new)
    BY <1>1 DEF TransformCells
<1> QED
    BY <1>1, <1>2, <1>3, <1>4

(* a block keeps its type when blocks are added                              *)
LEMMA DataGrows ==
    ASSUME NEW old, NEW new, Grows(old, new), NEW s \in Shape, NEW size \in Nat,
           NEW more \in Nat, size <= more, NEW data, HoldsData(old, s, size, data)
    PROVE  HoldsData(new, s, more, data)
<1>1. CASE s.type = "keys"
    BY <1>1, CellsGrow DEF HoldsData, Shape, SizeofOffset
<1>2. CASE s.type = "values"
    BY <1>2, CellsGrow DEF HoldsData, Shape, SizeofList
<1>3. CASE s.type = "patches"
    BY <1>3, CellsGrow DEF HoldsData, Shape, SizeofPatch
<1>4. CASE s.type = "transforms"
    BY <1>4, CellsGrow DEF HoldsData, Shape, SizeofTransform
<1>5. CASE s.type \in {"name", "string"}
    BY <1>5 DEF HoldsData
<1> QED
    BY <1>1, <1>2, <1>3, <1>4, <1>5 DEF Shape, Types

(* An allocation adds a block of a new shape, or changes nothing.            *)
LEMMA AllocTyped ==
    ASSUME NEW a, NEW shape, Proper(a, shape), NEW n \in Nat \ {0}, n + ArenaSize + 8 <= Word,
           NEW s \in Shape, NEW data, HoldsData(shape, s, n, data), NEW r, r = salloc(a, n, data)
    PROVE  \E new : /\ Later(a, shape, r.arena, new)
                    /\ r.off = 0 => r.arena = a
                    /\ r.off # 0 => /\ r.off \in Blocks(r.arena) \ Blocks(a) /\ new[r.off] = s
                                    /\ Data(r.arena, r.off) = data
<1>1. CASE r = [arena |-> a, off |-> 0]
  <2>1. r.arena = a /\ r.off = 0
      BY <1>1
  <2> QED
      BY <2>1 DEF Grows, Later
<1>2. CASE r # [arena |-> a, off |-> 0]
  <2> DEFINE new == [o \in Blocks(a) \cup {a.used} |-> IF o = a.used THEN s ELSE shape[o]]
             b == r.arena
  <2>0. IsArena(a) /\ Sound(a)
      BY DEF Proper
  <2>1. /\ r.off = a.used /\ a.used \notin Blocks(a) /\ b.map = a.map
        /\ Blocks(b) = Blocks(a) \cup {a.used}
        /\ \A o \in Blocks(a) : b.heap[o] = a.heap[o]
        /\ b.heap[a.used] = [size |-> Align(n), data |-> data]
        /\ IsArena(b) /\ Sound(b)
      BY <1>2, <2>0, SallocFacts
  <2>2. shape \in [Blocks(a) -> Shape]
      BY DEF Proper, WellTyped
  <2>3. Grows(shape, new) /\ new \in [Blocks(b) -> Shape] /\ new[a.used] = s
      BY <2>1, <2>2 DEF Grows
  <2>4. \A o \in Blocks(a) : new[o] = shape[o] /\ new[o] \in Shape
      BY <2>1, <2>2
  <2> HIDE DEF new, b
  <2>5. HoldsData(new, new[a.used], b.heap[a.used].size, Data(b, a.used))
    <3>1. Align(n) \in Nat /\ n <= Align(n)
        BY AlignFacts
    <3>2. HoldsData(new, s, Align(n), data)
        BY <2>3, <3>1, DataGrows
    <3> QED
        BY <2>1, <2>3, <3>2 DEF Data
  <2>6. ASSUME NEW o \in Blocks(a) PROVE HoldsData(new, new[o], b.heap[o].size, Data(b, o))
    <3>1. HoldsData(shape, shape[o], a.heap[o].size, Data(a, o)) /\ a.heap[o].size \in Nat
        BY DEF Proper, WellTyped, Sound
    <3>2. HoldsData(new, new[o], a.heap[o].size, Data(a, o))
        BY <2>3, <2>4, <3>1, DataGrows
    <3> QED
        BY <2>1, <3>2 DEF Data
  <2>7. Proper(b, new)
      BY <2>1, <2>3, <2>5, <2>6 DEF Proper, WellTyped
  <2>8. Data(b, a.used) = data
      BY <2>1 DEF Data
  <2>9. a.used # 0
      BY <2>0 DEF Sound, SizeofArena
  <2> QED
      BY <2>1, <2>3, <2>7, <2>8, <2>9 DEF b, Later
<1> QED
    BY <1>1, <1>2

(* the cells of an array of that type *)
FitsArray(shape, type, cell) ==
    \/ type = "keys" /\ cell \in KeyCells(shape)
    \/ type = "values" /\ cell \in ListCells(shape)
    \/ type = "patches" /\ cell \in PatchCells(shape)
    \/ type = "transforms" /\ cell \in TransformCells(shape)

(* the heap stays typed when an array gets other cells of its type           *)
LEMMA ReplaceTyped ==
    ASSUME NEW a, NEW shape, Proper(a, shape), NEW off \in Blocks(a), NEW data,
           HoldsData(shape, shape[off], a.heap[off].size, data), NEW b, b = Replace(a, off, data)
    PROVE  /\ Proper(b, shape) /\ b.map = a.map /\ Blocks(b) = Blocks(a)
           /\ \A o \in Blocks(a) : o # off => b.heap[o] = a.heap[o]
           /\ \A o \in Blocks(a) : b.heap[o].size = a.heap[o].size
           /\ Data(b, off) = data
<1>1. /\ b.used = a.used /\ b.map = a.map /\ Blocks(b) = Blocks(a) /\ IsArena(b)
      /\ \A o \in Blocks(a) : /\ b.heap[o].size = a.heap[o].size
                              /\ o # off => b.heap[o] = a.heap[o]
      /\ b.heap[off].data = data
  <2>1. IsArena(a)
      BY DEF Proper
  <2> QED
      BY <2>1, ReplaceFacts
<1>2. Sound(b)
    BY <1>1 DEF Proper, Sound
<1>3. Data(b, off) = data
    BY <1>1 DEF Data
<1>4. \A o \in Blocks(b) : HoldsData(shape, shape[o], b.heap[o].size, Data(b, o))
    BY <1>1, <1>3 DEF Proper, WellTyped, Data
<1> QED
    BY <1>1, <1>2, <1>3, <1>4 DEF Proper, WellTyped

(* the heap stays typed when one cell gets another of its type               *)
LEMMA WriteTyped ==
    ASSUME NEW a, NEW shape, Proper(a, shape), NEW off \in Blocks(a), NEW i, NEW cell,
           FitsArray(shape, shape[off].type, cell), NEW b, b = Write(a, off, i, cell)
    PROVE  /\ Proper(b, shape) /\ b.map = a.map /\ Blocks(b) = Blocks(a)
           /\ \A o \in Blocks(a) : o # off => b.heap[o] = a.heap[o]
           /\ Data(b, off) = Put(Data(a, off), i, cell)
<1> DEFINE data == Put(Data(a, off), i, cell)
<1>1. b = Replace(a, off, data)
    BY WriteFacts DEF Proper
<1>2. HoldsData(shape, shape[off], a.heap[off].size, Data(a, off))
    BY DEF Proper, WellTyped
<1>3. HoldsData(shape, shape[off], a.heap[off].size, data)
    BY <1>2 DEF HoldsData, FitsArray, Put
<1> HIDE DEF data
<1>4. /\ Proper(b, shape) /\ b.map = a.map /\ Blocks(b) = Blocks(a)
      /\ \A o \in Blocks(a) : o # off => b.heap[o] = a.heap[o]
      /\ Data(b, off) = data
    BY <1>1, <1>3, ReplaceTyped
<1> QED
    BY <1>4 DEF data

-----------------------------------------------------------------------------
(* Lists of patches *)

(* An array never takes up more than the arena, so that its double does not  *)
(* overflow.                                                                 *)
LEMMA ArrayFits ==
    ASSUME NEW a, NEW shape, Proper(a, shape), NEW o \in Blocks(a)
    PROVE  /\ shape[o] \in Shape /\ o # 0
           /\ shape[o].type = "keys" => shape[o].len * SizeofOffset <= ArenaSize
           /\ shape[o].type = "values" => shape[o].len * SizeofList <= ArenaSize
           /\ shape[o].type = "patches" => shape[o].len * SizeofPatch <= ArenaSize
           /\ shape[o].type = "transforms" => shape[o].len * SizeofTransform <= ArenaSize
<1>1. shape[o] \in Shape /\ HoldsData(shape, shape[o], a.heap[o].size, Data(a, o))
    BY DEF Proper, WellTyped
<1>2. /\ a.heap[o].size \in Nat /\ a.heap[o].size <= ArenaSize /\ o # 0
  <2>1. ArenaSize \in Nat
      BY SizesAssumption
  <2>2. /\ a.used \in Nat /\ a.used <= ArenaSize
        /\ o \in Nat /\ o >= 24 /\ a.heap[o].size \in Nat /\ o + a.heap[o].size <= a.used
      BY DEF Proper, Sound, SizeofArena
  <2> HIDE DEF Proper
  <2> QED
      BY <2>1, <2>2
<1> DEFINE n == shape[o].len
           z == a.heap[o].size
<1>3. n \in Nat /\ ArenaSize \in Nat
    BY <1>1, SizesAssumption DEF Shape
<1>4. /\ shape[o].type = "keys" => n * 4 <= z
      /\ shape[o].type = "values" => n * 12 <= z
      /\ shape[o].type = "patches" => n * 20 <= z
      /\ shape[o].type = "transforms" => n * 8 <= z
    BY <1>1 DEF HoldsData, SizeofOffset, SizeofList, SizeofPatch, SizeofTransform
<1>5. n * 4 \in Nat /\ n * 12 \in Nat /\ n * 20 \in Nat /\ n * 8 \in Nat
    BY <1>3
<1> HIDE DEF n, z
<1>6. /\ shape[o].type = "keys" => n * 4 <= ArenaSize
      /\ shape[o].type = "values" => n * 12 <= ArenaSize
      /\ shape[o].type = "patches" => n * 20 <= ArenaSize
      /\ shape[o].type = "transforms" => n * 8 <= ArenaSize
    BY <1>2, <1>3, <1>4, <1>5 DEF z
<1> QED
    BY <1>1, <1>2, <1>6 DEF n, SizeofOffset, SizeofList, SizeofPatch, SizeofTransform

(* the size of a doubled array does not make the sum of salloc() wrap        *)
LEMMA Doubled ==
    ASSUME NEW c \in Nat \ {0}
    PROVE  /\ c * 2 \in Nat \ {0}
           /\ c * 4 <= ArenaSize => (c * 2) * 4 \in Nat \ {0} /\ (c * 2) * 4 + ArenaSize + 8 <= Word
           /\ c * 8 <= ArenaSize => (c * 2) * 8 \in Nat \ {0} /\ (c * 2) * 8 + ArenaSize + 8 <= Word
           /\ c * 12 <= ArenaSize => (c * 2) * 12 \in Nat \ {0} /\ (c * 2) * 12 + ArenaSize + 8 <= Word
           /\ c * 20 <= ArenaSize => (c * 2) * 20 \in Nat \ {0} /\ (c * 2) * 20 + ArenaSize + 8 <= Word
<1>1. ArenaSize \in Nat /\ Word \in Nat /\ 3 * ArenaSize + 8 <= Word
    BY SizesAssumption
<1>2. c * 2 \in Nat \ {0}
    OBVIOUS
<1>3. c * 4 <= ArenaSize => (c * 2) * 4 \in Nat \ {0} /\ (c * 2) * 4 + ArenaSize + 8 <= Word
    BY <1>1
<1>4. c * 8 <= ArenaSize => (c * 2) * 8 \in Nat \ {0} /\ (c * 2) * 8 + ArenaSize + 8 <= Word
    BY <1>1
<1>5. c * 12 <= ArenaSize => (c * 2) * 12 \in Nat \ {0} /\ (c * 2) * 12 + ArenaSize + 8 <= Word
    BY <1>1
<1>6. c * 20 <= ArenaSize => (c * 2) * 20 \in Nat \ {0} /\ (c * 2) * 20 + ArenaSize + 8 <= Word
    BY <1>1
<1> QED
    BY <1>2, <1>3, <1>4, <1>5, <1>6

(* shm_strdup(): no block, or a new one that holds the text                  *)
LEMMA StringAdded ==
    ASSUME NEW a, NEW shape, Proper(a, shape), NEW str \in Strings,
           NEW r, r = shm_strdup(a, str, Len(str))
    PROVE  \E new : /\ Later(a, shape, r.arena, new)
                    /\ r.off = 0 => r.arena = a
                    /\ r.off # 0 => /\ r.off \in Blocks(r.arena) \ Blocks(a)
                                    /\ new[r.off].type = "string"
                                    /\ Data(r.arena, r.off) = str
<1> DEFINE s == [type |-> "string", len |-> 0]
<1>1. s \in Shape /\ s.type = "string"
    BY DEF Shape, Types
<1>2. Len(str) + 1 \in Nat \ {0} /\ (Len(str) + 1) + ArenaSize + 8 <= Word
    BY StringsAssumption, SizesAssumption
<1>3. HoldsData(shape, s, Len(str) + 1, str)
    BY <1>1 DEF HoldsData
<1>4. r = salloc(a, Len(str) + 1, str)
    BY DEF shm_strdup
<1> HIDE DEF s
<1>5. \E new : /\ Later(a, shape, r.arena, new)
               /\ r.off = 0 => r.arena = a
               /\ r.off # 0 => /\ r.off \in Blocks(r.arena) \ Blocks(a) /\ new[r.off] = s
                               /\ Data(r.arena, r.off) = str
    BY <1>1, <1>2, <1>3, <1>4, AllocTyped
<1> QED
    BY <1>1, <1>5

(* the record of a new patch, field by field                                 *)
LEMMA NewPatch ==
    ASSUME NEW so, NEW to, NEW p, p = [NoPatch EXCEPT !.file_off = so, !.find_off = to]
    PROVE  p = [file_off |-> so, find_off |-> to, transforms_off |-> 0,
                transform_count |-> 0, transform_capacity |-> 0]
<1>1. /\ p.file_off = so /\ p.find_off = to /\ p.transforms_off = 0
      /\ p.transform_count = 0 /\ p.transform_capacity = 0
    BY DEF NoPatch
<1>2. p = [file_off |-> p.file_off, find_off |-> p.find_off, transforms_off |-> p.transforms_off,
           transform_count |-> p.transform_count, transform_capacity |-> p.transform_capacity]
    BY DEF NoPatch
<1> QED
    BY <1>1, <1>2

RoomyCapacity(count, c) == IF count >= c THEN NextCapacity(c) ELSE c
Roomy(a, off, count, c, size, zero) ==
    IF count >= c
    THEN salloc(a, NextCapacity(c) * size, Enlarged(ArrayAt(a, off), NextCapacity(c), zero))
    ELSE [arena |-> a, off |-> off]

(* off is an array of c cells, of which count are used                       *)
UsedArray(shape, type, off, count, c) ==
    /\ c \in Nat /\ count \in Nat /\ count <= c /\ off \in Nat
    /\ c = 0 => off = 0
    /\ c > 0 => Refers(shape, off, type, c)

(* g is an arena with an array of cap cells that begins with those of off    *)
WithRoom(a, shape, type, off, count, c, g, cap, gs) ==
    /\ Later(a, shape, g.arena, gs) /\ Refers(gs, g.off, type, cap)
    /\ g.off \in Blocks(a) => g.off = off /\ c > 0
    /\ g.off \in Blocks(g.arena)
    /\ cap \in Nat /\ count \in 0 .. cap - 1
    /\ \A k \in 0 .. count - 1 : Data(g.arena, g.off)[k] = Data(a, off)[k]

SizeOf(type) == IF type = "patches" THEN SizeofPatch ELSE SizeofTransform

(* An array with room for one more cell: the old one, or one of twice the    *)
(* capacity that begins with the old cells.                                  *)
LEMMA ArrayWithRoom ==
    ASSUME NEW a, NEW shape, Proper(a, shape), NEW type \in {"patches", "transforms"},
           NEW c, NEW count, NEW off, UsedArray(shape, type, off, count, c),
           NEW zero, FitsArray(shape, type, zero),
           NEW g, g = Roomy(a, off, count, c, SizeOf(type), zero), g.off # 0
    PROVE  \E gs : WithRoom(a, shape, type, off, count, c, g, RoomyCapacity(count, c), gs)
<1> DEFINE size == SizeOf(type)
           cap == RoomyCapacity(count, c)
<1>0. /\ c \in Nat /\ count \in Nat /\ count <= c /\ off \in Nat
      /\ c = 0 => off = 0
      /\ c > 0 => Refers(shape, off, type, c)
      /\ size \in Nat
      /\ \/ type = "patches" /\ size = SizeofPatch
         \/ type = "transforms" /\ size = SizeofTransform
      /\ cap = RoomyCapacity(count, c) /\ g = Roomy(a, off, count, c, size, zero)
    BY DEF UsedArray, SizeOf, SizeofPatch, SizeofTransform
<1> HIDE DEF size, cap
<1> SUFFICES \E gs : /\ Later(a, shape, g.arena, gs) /\ Refers(gs, g.off, type, cap)
                     /\ g.off \in Blocks(a) => g.off = off /\ c > 0
                     /\ g.off \in Blocks(g.arena)
                     /\ cap \in Nat /\ count \in 0 .. cap - 1
                     /\ \A k \in 0 .. count - 1 : Data(g.arena, g.off)[k] = Data(a, off)[k]
    BY <1>0 DEF WithRoom
<1> USE <1>0
<1> DEFINE n == NextCapacity(c)
           old == ArrayAt(a, off)
           z == n * size
           data == Enlarged(old, n, zero)
           sh == [type |-> type, len |-> n]
<1>1. c > 0 => /\ off \in Blocks(a) /\ shape[off].len = c /\ shape[off].type = type /\ off # 0
               /\ c * size <= ArenaSize
  <2> SUFFICES ASSUME c > 0
               PROVE  /\ off \in Blocks(a) /\ shape[off].len = c /\ shape[off].type = type
                      /\ off # 0 /\ c * size <= ArenaSize
      OBVIOUS
  <2>1. off \in Blocks(a) /\ shape[off].len = c /\ shape[off].type = type
      BY DEF Refers, Proper, WellTyped
  <2> QED
      BY <2>1, ArrayFits
<1>2. /\ n \in Nat \ {0} /\ n > count /\ z \in Nat \ {0} /\ z + ArenaSize + 8 <= Word
  <2>1. CASE c = 0
      BY <2>1, SizesAssumption, CapacityAssumption DEF NextCapacity, SizeofPatch, SizeofTransform
  <2>2. CASE c > 0
    <3>1. n = c * 2
        BY <2>2 DEF NextCapacity
    <3>2. z \in Nat \ {0} /\ z + ArenaSize + 8 <= Word
        BY <1>1, <2>2, <3>1, Doubled DEF SizeofPatch, SizeofTransform
    <3> HIDE DEF z
    <3> QED
        BY <2>2, <3>1, <3>2
  <2> QED
      BY <2>1, <2>2
<1>3. CASE count < c
  <2>1. g = [arena |-> a, off |-> off] /\ cap = c /\ c > 0
      BY <1>3 DEF Roomy, RoomyCapacity
  <2>2. Later(a, shape, a, shape)
      BY DEF Later, Grows
  <2>3. g.arena = a /\ g.off = off
      BY <2>1
  <2> QED
      BY <1>1, <1>3, <2>1, <2>2, <2>3
<1>4. CASE count >= c
  <2>1. g = salloc(a, z, data) /\ cap = n
      BY <1>4 DEF Roomy, RoomyCapacity
  <2>2. /\ DOMAIN old = 0 .. c - 1 /\ \A i \in DOMAIN old : FitsArray(shape, type, old[i])
        /\ c > 0 => old = Data(a, off)
    <3>1. CASE c = 0
        BY <3>1 DEF ArrayAt
    <3>2. CASE c > 0
      <4>1. old = Data(a, off)
          BY <1>1, <3>2 DEF ArrayAt
      <4>2. HoldsData(shape, shape[off], a.heap[off].size, old)
          BY <1>1, <3>2, <4>1 DEF Proper, WellTyped
      <4> QED
          BY <1>1, <3>2, <4>1, <4>2 DEF HoldsData, FitsArray
    <3> QED
        BY <3>1, <3>2
  <2>3. /\ data = [i \in 0 .. n - 1 |-> data[i]]
        /\ \A i \in 0 .. n - 1 : FitsArray(shape, type, data[i])
      BY <2>2 DEF Enlarged
  <2>4. sh \in Shape /\ sh.type = type /\ sh.len = n
      BY <1>2 DEF Shape, Types
  <2> HIDE DEF data, sh
  <2>5. HoldsData(shape, sh, z, data)
    <3>1. n * size <= z
        BY <1>2
    <3> HIDE DEF n, z
    <3>2. CASE type = "patches"
        BY <2>3, <2>4, <3>1, <3>2 DEF HoldsData, FitsArray
    <3>3. CASE type = "transforms"
        BY <2>3, <2>4, <3>1, <3>3 DEF HoldsData, FitsArray
    <3> QED
        BY <3>2, <3>3
  <2> HIDE DEF z, n
  <2>6. PICK gs : /\ Later(a, shape, g.arena, gs)
                  /\ g.off \in Blocks(g.arena) \ Blocks(a) /\ gs[g.off] = sh
                  /\ Data(g.arena, g.off) = data
      BY <1>2, <2>1, <2>4, <2>5, AllocTyped
  <2>7. DOMAIN gs = Blocks(g.arena)
      BY <2>6 DEF Later, Proper, WellTyped
  <2>8. ASSUME NEW k \in 0 .. count - 1 PROVE data[k] = Data(a, off)[k]
    <3>1. c > 0 /\ k \in 0 .. c - 1 /\ k \in 0 .. n - 1
        BY <1>2
    <3> QED
        BY <2>2, <3>1 DEF data, Enlarged
  <2>9. count \in 0 .. cap - 1 /\ cap \in Nat
      BY <1>2, <2>1
  <2> QED
      BY <2>1, <2>6, <2>7, <2>8, <2>9 DEF Refers, sh
<1> QED
    BY <1>3, <1>4

(* Two strings are copied into the arena.  A copy that fails is offset 0.    *)
LEMMA StringsAdded ==
    ASSUME NEW a, NEW shape, Proper(a, shape), NEW x \in Strings, NEW y \in Strings,
           NEW s, s = shm_strdup(a, x, Len(x)), NEW t, t = shm_strdup(s.arena, y, Len(y))
    PROVE  \E new : /\ Later(a, shape, t.arena, new)
                    /\ s.off \in StringCells(new) /\ t.off \in StringCells(new)
                    /\ s.off # 0 => s.off \in Blocks(t.arena) \ Blocks(a) /\ Data(t.arena, s.off) = x
                    /\ t.off # 0 => t.off \in Blocks(t.arena) \ Blocks(a) /\ Data(t.arena, t.off) = y
<1>1. PICK ss : /\ Later(a, shape, s.arena, ss)
                /\ s.off # 0 => /\ s.off \in Blocks(s.arena) \ Blocks(a)
                                /\ ss[s.off].type = "string" /\ Data(s.arena, s.off) = x
    BY StringAdded
<1>2. Proper(s.arena, ss)
    BY <1>1 DEF Later
<1>3. PICK ts : /\ Later(s.arena, ss, t.arena, ts)
                /\ t.off # 0 => /\ t.off \in Blocks(t.arena) \ Blocks(s.arena)
                                /\ ts[t.off].type = "string" /\ Data(t.arena, t.off) = y
    BY <1>2, StringAdded
<1>4. Later(a, shape, t.arena, ts)
    BY <1>1, <1>3, LaterTransitive
<1>5. DOMAIN ss = Blocks(s.arena) /\ DOMAIN ts = Blocks(t.arena)
    BY <1>1, <1>3 DEF Later, Proper, WellTyped
<1>6. s.off # 0 => /\ s.off \in Blocks(t.arena) \ Blocks(a) /\ ts[s.off].type = "string"
                   /\ Data(t.arena, s.off) = x
    BY <1>1, <1>3, <1>5 DEF Later, Grows, Data
<1>7. t.off # 0 => t.off \notin Blocks(a)
    BY <1>1, <1>3 DEF Later
<1>8. s.off \in StringCells(ts) /\ t.off \in StringCells(ts)
    BY <1>3, <1>5, <1>6 DEF StringCells
<1> QED
    BY <1>3, <1>4, <1>6, <1>7, <1>8

(* A cell of the array g is written, and then the entry of the owner that    *)
(* says where the array is and how much of it is used.                       *)
LEMMA CellStored ==
    ASSUME NEW a, NEW shape, Proper(a, shape), NEW u, NEW us, Later(a, shape, u, us),
           NEW g \in Blocks(u), NEW owner \in Blocks(a), us[g].type # shape[owner].type,
           NEW n \in 0 .. us[g].len - 1, NEW cell, FitsArray(us, us[g].type, cell),
           NEW i, NEW entry, FitsArray(us, shape[owner].type, entry),
           NEW d, d = Write(Write(u, g, n, cell), owner, i, entry)
    PROVE  /\ Proper(d, us) /\ d.map = a.map /\ Blocks(d) = Blocks(u) /\ g # owner
           /\ \A o \in Blocks(u) \ {g, owner} : d.heap[o] = u.heap[o]
           /\ \A o \in Blocks(a) \ {g, owner} : d.heap[o] = a.heap[o]
           /\ Data(d, owner) = Put(Data(a, owner), i, entry)
           /\ Data(d, g)[n] = cell
           /\ \A k \in 0 .. n - 1 : Data(d, g)[k] = Data(u, g)[k]
<1> DEFINE b == Write(u, g, n, cell)
<1>1. /\ Proper(u, us) /\ u.map = a.map /\ Blocks(a) \subseteq Blocks(u)
      /\ DOMAIN shape = Blocks(a)
      /\ us[owner] = shape[owner] /\ owner \in Blocks(u) /\ g # owner
      /\ \A o \in Blocks(a) : u.heap[o] = a.heap[o]
    BY DEF Later, Grows, Proper, WellTyped
<1>2. /\ Proper(b, us) /\ b.map = u.map /\ Blocks(b) = Blocks(u)
      /\ \A o \in Blocks(u) : o # g => b.heap[o] = u.heap[o]
      /\ Data(b, g) = Put(Data(u, g), n, cell)
    BY <1>1, WriteTyped
<1> HIDE DEF b
<1>3. d = Write(b, owner, i, entry)
    BY DEF b
<1>4. /\ Proper(d, us) /\ d.map = b.map /\ Blocks(d) = Blocks(b)
      /\ \A o \in Blocks(b) : o # owner => d.heap[o] = b.heap[o]
      /\ Data(d, owner) = Put(Data(b, owner), i, entry)
    BY <1>1, <1>2, <1>3, WriteTyped
<1>5. \A o \in Blocks(u) \ {g, owner} : d.heap[o] = u.heap[o]
    BY <1>2, <1>4
<1>6. Data(d, owner) = Put(Data(a, owner), i, entry)
    BY <1>1, <1>2, <1>4 DEF Data
<1>7. Data(d, g) = Put(Data(u, g), n, cell)
    BY <1>1, <1>2, <1>4 DEF Data
<1>8. DOMAIN Data(u, g) = 0 .. us[g].len - 1
  <2>1. HoldsData(us, us[g], u.heap[g].size, Data(u, g))
      BY <1>1 DEF Proper, WellTyped
  <2> QED
      BY <2>1 DEF HoldsData, FitsArray
<1>9. /\ Data(d, g)[n] = cell
      /\ \A k \in 0 .. n - 1 : Data(d, g)[k] = Data(u, g)[k]
  <2>1. \A k \in 0 .. n - 1 : k \in DOMAIN Data(u, g) /\ k # n
    <3>1. us[g].len \in Nat
        BY <1>1 DEF Proper, WellTyped, Shape
    <3> QED
        BY <1>8, <3>1
  <2> QED
      BY <1>7, <1>8, <2>1 DEF Put
<1> QED
    BY <1>1, <1>2, <1>4, <1>5, <1>6, <1>9

(* b is a after one more patch was added to the entry list: the array at g   *)
(* ends with a patch whose strings are at so and to.                         *)
AddedPatch(a, shape, list, file, find, b, new, g, so, to) ==
    LET l == Data(a, list.block)[list.idx]
        n == l.patch_count
    IN  /\ Grows(shape, new) /\ Proper(b, new) /\ b.map = a.map /\ Blocks(a) \subseteq Blocks(b)
        /\ g \in Blocks(b) /\ new[g].type = "patches" /\ n \in 0 .. new[g].len - 1
        /\ g \in Blocks(a) => g = l.patches_off /\ l.patch_capacity > 0
        /\ \A o \in Blocks(a) \ {g, list.block} : b.heap[o] = a.heap[o]
        /\ Data(b, list.block) = Put(Data(a, list.block), list.idx,
               [patches_off |-> g, patch_count |-> n + 1, patch_capacity |-> new[g].len])
        /\ \A k \in 0 .. n - 1 : Data(b, g)[k] = Data(a, l.patches_off)[k]
        /\ Data(b, g)[n] = [file_off |-> so, find_off |-> to, transforms_off |-> 0,
                            transform_count |-> 0, transform_capacity |-> 0]
        /\ so # 0 => so \in Blocks(b) /\ Data(b, so) = file
        /\ to # 0 => to \in Blocks(b) /\ Data(b, to) = find

(* patchlist_add() on a list of the typed heap                               *)
LEMMA PatchlistAdd ==
    ASSUME NEW a, NEW shape, Proper(a, shape),
           NEW list, list.block \in Blocks(a), shape[list.block].type = "values",
           list.idx \in 0 .. shape[list.block].len - 1,
           NEW file \in Strings, NEW find \in Strings,
           NEW r, r = patchlist_add(a, list, file, find)
    PROVE  \/ r = [arena |-> a, patch |-> NULL]
           \/ \E new, g, so, to :
                 /\ AddedPatch(a, shape, list, file, find, r.arena, new, g, so, to)
                 /\ r.patch = [block |-> g, idx |-> Data(a, list.block)[list.idx].patch_count]
<1> DEFINE l == Data(a, list.block)[list.idx]
           c == l.patch_capacity
           n == NextCapacity(c)
           full == l.patch_count >= c
           g == IF full THEN salloc(a, n * SizeofPatch, Enlarged(ArrayAt(a, l.patches_off), n, NoPatch))
                        ELSE [arena |-> a, off |-> l.patches_off]
           s == shm_strdup(g.arena, file, Len(file))
           t == shm_strdup(s.arena, find, Len(find))
           cell == [NoPatch EXCEPT !.file_off = s.off, !.find_off = t.off]
           cap == IF full THEN n ELSE c
           entry == [patches_off |-> g.off, patch_count |-> l.patch_count + 1,
                     patch_capacity |-> cap]
           d == Write(Write(t.arena, g.off, l.patch_count, cell), list.block, list.idx, entry)
<1>1. r = IF g.off = 0 THEN [arena |-> a, patch |-> NULL]
          ELSE [arena |-> d, patch |-> [block |-> g.off, idx |-> l.patch_count]]
    BY DEF patchlist_add
<1>2. l \in ListCells(shape)
  <2>1. Data(a, list.block) \in [0 .. shape[list.block].len - 1 -> ListCells(shape)]
      BY DEF Proper, WellTyped, HoldsData
  <2> QED
      BY <2>1
<1>3. /\ c \in Nat /\ l.patch_count \in Nat /\ l.patch_count <= c /\ l.patches_off \in Nat
      /\ c = 0 => l.patches_off = 0
      /\ c > 0 => Refers(shape, l.patches_off, "patches", c)
    BY <1>2 DEF ListCells
<1>4. FitsArray(shape, "patches", NoPatch) /\ SizeofPatch \in Nat
    BY DEF FitsArray, NoPatch, PatchCells, StringCells, SizeofPatch
<1> HIDE DEF l
<1>5. CASE g.off = 0
    BY <1>1, <1>5
<1>6. CASE g.off # 0
  <2>0. PICK gs : WithRoom(a, shape, "patches", l.patches_off, l.patch_count, c, g, cap, gs)
    <3>1. g = Roomy(a, l.patches_off, l.patch_count, c, SizeOf("patches"), NoPatch)
        BY DEF Roomy, SizeOf
    <3>2. cap = RoomyCapacity(l.patch_count, c)
        BY DEF RoomyCapacity
    <3>3. UsedArray(shape, "patches", l.patches_off, l.patch_count, c)
        BY <1>3 DEF UsedArray
    <3> HIDE DEF g, cap, c
    <3> QED
        BY <1>4, <1>6, <3>1, <3>2, <3>3, ArrayWithRoom
  <2>1. /\ Later(a, shape, g.arena, gs) /\ Refers(gs, g.off, "patches", cap)
        /\ g.off \in Blocks(a) => g.off = l.patches_off /\ c > 0
        /\ g.off \in Blocks(g.arena)
        /\ cap \in Nat /\ l.patch_count \in 0 .. cap - 1
        /\ \A k \in 0 .. l.patch_count - 1 :
              Data(g.arena, g.off)[k] = Data(a, l.patches_off)[k]
      BY <2>0 DEF WithRoom
  <2>2. Proper(g.arena, gs)
      BY <2>1 DEF Later
  <2> HIDE DEF g, cap
  <2>3. PICK us : /\ Later(g.arena, gs, t.arena, us)
                  /\ s.off \in StringCells(us) /\ t.off \in StringCells(us)
                  /\ s.off # 0 => /\ s.off \in Blocks(t.arena) \ Blocks(g.arena)
                                  /\ Data(t.arena, s.off) = file
                  /\ t.off # 0 => /\ t.off \in Blocks(t.arena) \ Blocks(g.arena)
                                  /\ Data(t.arena, t.off) = find
      BY <2>2, StringsAdded
  <2> HIDE DEF s, t
  <2>4. Later(a, shape, t.arena, us)
      BY <2>1, <2>3, LaterTransitive
  <2>5. /\ Refers(us, g.off, "patches", cap) /\ g.off \in Blocks(t.arena)
        /\ Data(t.arena, g.off) = Data(g.arena, g.off)
        /\ us[g.off].type = "patches" /\ us[g.off].len = cap /\ g.off \in Nat
      BY <2>1, <2>3 DEF Later, Grows, Refers, Data, Proper, Sound
  <2>6. cell = [file_off |-> s.off, find_off |-> t.off, transforms_off |-> 0,
                transform_count |-> 0, transform_capacity |-> 0]
      BY NewPatch
  <2> HIDE DEF cell
  <2>7. FitsArray(us, us[g.off].type, cell)
      BY <2>3, <2>5, <2>6 DEF FitsArray, PatchCells
  <2>8. FitsArray(us, shape[list.block].type, entry)
      BY <1>3, <2>1, <2>5 DEF FitsArray, ListCells
  <2> HIDE DEF entry
  <2>9. /\ Proper(d, us) /\ d.map = a.map /\ Blocks(d) = Blocks(t.arena)
        /\ \A o \in Blocks(t.arena) \ {g.off, list.block} : d.heap[o] = t.arena.heap[o]
        /\ \A o \in Blocks(a) \ {g.off, list.block} : d.heap[o] = a.heap[o]
        /\ Data(d, list.block) = Put(Data(a, list.block), list.idx, entry)
        /\ Data(d, g.off)[l.patch_count] = cell
        /\ \A k \in 0 .. l.patch_count - 1 : Data(d, g.off)[k] = Data(t.arena, g.off)[k]
    <3>1. us[g.off].type # shape[list.block].type /\ l.patch_count \in 0 .. us[g.off].len - 1
        BY <2>1, <2>5
    <3> QED
        BY <2>4, <2>5, <2>7, <2>8, <3>1, CellStored
  <2> HIDE DEF d
  <2>10. /\ Grows(shape, us) /\ Blocks(a) \subseteq Blocks(d) /\ Blocks(a) \subseteq Blocks(g.arena)
      BY <2>1, <2>4, <2>9 DEF Later
  <2>11. /\ s.off # 0 => s.off \in Blocks(d) /\ Data(d, s.off) = file
         /\ t.off # 0 => t.off \in Blocks(d) /\ Data(d, t.off) = find
      BY <2>1, <2>3, <2>9, <2>10 DEF Data
  <2>12. AddedPatch(a, shape, list, file, find, d, us, g.off, s.off, t.off)
      BY <2>1, <2>5, <2>6, <2>9, <2>10, <2>11 DEF AddedPatch, l, entry
  <2>13. r.arena = d /\ r.patch = [block |-> g.off, idx |-> l.patch_count]
      BY <1>1, <1>6
  <2> QED
      BY <2>12, <2>13 DEF l
<1> QED
    BY <1>5, <1>6

-----------------------------------------------------------------------------
(* Transforms of a patch *)

(* a patch with another array of transforms, field by field                  *)
LEMMA NewCount ==
    ASSUME NEW p, NEW q, NEW off, NEW n, NEW c, NEW set,
           p \in [file_off : set, find_off : set, transforms_off : Nat,
                  transform_count : Nat, transform_capacity : Nat],
           q = [p EXCEPT !.transforms_off = off, !.transform_count = n, !.transform_capacity = c]
    PROVE  q = [file_off |-> p.file_off, find_off |-> p.find_off, transforms_off |-> off,
                transform_count |-> n, transform_capacity |-> c]
<1>1. /\ q.file_off = p.file_off /\ q.find_off = p.find_off /\ q.transforms_off = off
      /\ q.transform_count = n /\ q.transform_capacity = c
    OBVIOUS
<1>2. q = [file_off |-> q.file_off, find_off |-> q.find_off, transforms_off |-> q.transforms_off,
           transform_count |-> q.transform_count, transform_capacity |-> q.transform_capacity]
    OBVIOUS
<1> QED
    BY <1>1, <1>2

(* b is a after one more transform was added to the patch                    *)
AddedTransform(a, shape, patch, match, replace, b, new, g, so, to) ==
    LET p == Data(a, patch.block)[patch.idx]
        n == p.transform_count
    IN  /\ Grows(shape, new) /\ Proper(b, new) /\ b.map = a.map /\ Blocks(a) \subseteq Blocks(b)
        /\ g \in Blocks(b) /\ new[g].type = "transforms" /\ n \in 0 .. new[g].len - 1
        /\ g \in Blocks(a) => g = p.transforms_off /\ p.transform_capacity > 0
        /\ \A o \in Blocks(a) \ {g, patch.block} : b.heap[o] = a.heap[o]
        /\ Data(b, patch.block) = Put(Data(a, patch.block), patch.idx,
               [file_off |-> p.file_off, find_off |-> p.find_off, transforms_off |-> g,
                transform_count |-> n + 1, transform_capacity |-> new[g].len])
        /\ \A k \in 0 .. n - 1 : Data(b, g)[k] = Data(a, p.transforms_off)[k]
        /\ Data(b, g)[n] = [match_off |-> so, replace_off |-> to]
        /\ so # 0 => so \in Blocks(b) /\ Data(b, so) = match
        /\ to # 0 => to \in Blocks(b) /\ Data(b, to) = replace

(* patch_add_transform() on a patch of the typed heap                        *)
LEMMA PatchAddTransform ==
    ASSUME NEW a, NEW shape, Proper(a, shape),
           NEW patch, patch.block \in Blocks(a), shape[patch.block].type = "patches",
           patch.idx \in 0 .. shape[patch.block].len - 1,
           NEW match \in Strings, NEW replace \in Strings,
           NEW r, r = patch_add_transform(a, patch, match, replace)
    PROVE  \/ r = a
           \/ \E new, g, so, to :
                 AddedTransform(a, shape, patch, match, replace, r, new, g, so, to)
<1> DEFINE p == Data(a, patch.block)[patch.idx]
           c == p.transform_capacity
           n == NextCapacity(c)
           full == p.transform_count >= c
           g == IF full THEN salloc(a, n * SizeofTransform,
                                    Enlarged(ArrayAt(a, p.transforms_off), n, NoTransform))
                        ELSE [arena |-> a, off |-> p.transforms_off]
           s == shm_strdup(g.arena, match, Len(match))
           t == shm_strdup(s.arena, replace, Len(replace))
           cell == [match_off |-> s.off, replace_off |-> t.off]
           cap == IF full THEN n ELSE c
           entry == [p EXCEPT !.transforms_off = g.off, !.transform_count = p.transform_count + 1,
                              !.transform_capacity = cap]
           d == Write(Write(t.arena, g.off, p.transform_count, cell), patch.block, patch.idx, entry)
<1>2. p \in PatchCells(shape)
  <2>1. Data(a, patch.block) \in [0 .. shape[patch.block].len - 1 -> PatchCells(shape)]
      BY DEF Proper, WellTyped, HoldsData
  <2> QED
      BY <2>1
<1>3. /\ c \in Nat /\ p.transform_count \in Nat /\ p.transform_count <= c /\ p.transforms_off \in Nat
      /\ c = 0 => p.transforms_off = 0
      /\ c > 0 => Refers(shape, p.transforms_off, "transforms", c)
      /\ p.file_off \in StringCells(shape) /\ p.find_off \in StringCells(shape)
      /\ p \in [file_off : StringCells(shape), find_off : StringCells(shape), transforms_off : Nat,
                 transform_count : Nat, transform_capacity : Nat]
    BY <1>2 DEF PatchCells
<1>1. r = IF g.off = 0 THEN a ELSE d
    BY DEF patch_add_transform
<1>4. FitsArray(shape, "transforms", NoTransform) /\ SizeofTransform \in Nat
    BY DEF FitsArray, NoTransform, TransformCells, StringCells, SizeofTransform
<1> HIDE DEF p
<1>5. CASE g.off = 0
    BY <1>1, <1>5
<1>6. CASE g.off # 0
  <2>0. PICK gs : WithRoom(a, shape, "transforms", p.transforms_off, p.transform_count, c, g, cap, gs)
    <3>1. g = Roomy(a, p.transforms_off, p.transform_count, c, SizeOf("transforms"), NoTransform)
        BY DEF Roomy, SizeOf
    <3>2. cap = RoomyCapacity(p.transform_count, c)
        BY DEF RoomyCapacity
    <3>3. UsedArray(shape, "transforms", p.transforms_off, p.transform_count, c)
        BY <1>3 DEF UsedArray
    <3> HIDE DEF g, cap, c
    <3> QED
        BY <1>4, <1>6, <3>1, <3>2, <3>3, ArrayWithRoom
  <2>1. /\ Later(a, shape, g.arena, gs) /\ Refers(gs, g.off, "transforms", cap)
        /\ g.off \in Blocks(a) => g.off = p.transforms_off /\ c > 0
        /\ g.off \in Blocks(g.arena)
        /\ cap \in Nat /\ p.transform_count \in 0 .. cap - 1
        /\ \A k \in 0 .. p.transform_count - 1 :
              Data(g.arena, g.off)[k] = Data(a, p.transforms_off)[k]
      BY <2>0 DEF WithRoom
  <2>2. Proper(g.arena, gs)
      BY <2>1 DEF Later
  <2> HIDE DEF g, cap
  <2>3. PICK us : /\ Later(g.arena, gs, t.arena, us)
                  /\ s.off \in StringCells(us) /\ t.off \in StringCells(us)
                  /\ s.off # 0 => /\ s.off \in Blocks(t.arena) \ Blocks(g.arena)
                                  /\ Data(t.arena, s.off) = match
                  /\ t.off # 0 => /\ t.off \in Blocks(t.arena) \ Blocks(g.arena)
                                  /\ Data(t.arena, t.off) = replace
      BY <2>2, StringsAdded
  <2> HIDE DEF s, t
  <2>4. Later(a, shape, t.arena, us)
      BY <2>1, <2>3, LaterTransitive
  <2>5. /\ Refers(us, g.off, "transforms", cap) /\ g.off \in Blocks(t.arena)
        /\ Data(t.arena, g.off) = Data(g.arena, g.off)
        /\ us[g.off].type = "transforms" /\ us[g.off].len = cap /\ g.off \in Nat
      BY <2>1, <2>3 DEF Later, Grows, Refers, Data, Proper, Sound
  <2>6. entry = [file_off |-> p.file_off, find_off |-> p.find_off, transforms_off |-> g.off,
                 transform_count |-> p.transform_count + 1, transform_capacity |-> cap]
    <3> DEFINE m == p.transform_count + 1
    <3>1. entry = [p EXCEPT !.transforms_off = g.off, !.transform_count = m, !.transform_capacity = cap]
        OBVIOUS
    <3> HIDE DEF m, entry
    <3>2. entry = [file_off |-> p.file_off, find_off |-> p.find_off, transforms_off |-> g.off,
                   transform_count |-> m, transform_capacity |-> cap]
        BY <1>3, <3>1, NewCount
    <3> QED
        BY <3>2 DEF m
  <2>7. FitsArray(us, us[g.off].type, cell)
      BY <2>3, <2>5 DEF FitsArray, TransformCells
  <2> HIDE DEF cell, entry
  <2>8. FitsArray(us, shape[patch.block].type, entry)
    <3>1. p.file_off \in StringCells(us) /\ p.find_off \in StringCells(us)
        BY <1>3, <2>4, CellsGrow DEF Later
    <3> QED
        BY <1>3, <2>1, <2>5, <2>6, <3>1 DEF FitsArray, PatchCells
  <2>9. /\ Proper(d, us) /\ d.map = a.map /\ Blocks(d) = Blocks(t.arena)
        /\ \A o \in Blocks(t.arena) \ {g.off, patch.block} : d.heap[o] = t.arena.heap[o]
        /\ \A o \in Blocks(a) \ {g.off, patch.block} : d.heap[o] = a.heap[o]
        /\ Data(d, patch.block) = Put(Data(a, patch.block), patch.idx, entry)
        /\ Data(d, g.off)[p.transform_count] = cell
        /\ \A k \in 0 .. p.transform_count - 1 : Data(d, g.off)[k] = Data(t.arena, g.off)[k]
    <3>1. us[g.off].type # shape[patch.block].type /\ p.transform_count \in 0 .. us[g.off].len - 1
        BY <2>1, <2>5
    <3> QED
        BY <2>4, <2>5, <2>7, <2>8, <3>1, CellStored
  <2> HIDE DEF d
  <2>10. /\ Grows(shape, us) /\ Blocks(a) \subseteq Blocks(d) /\ Blocks(a) \subseteq Blocks(g.arena)
      BY <2>1, <2>4, <2>9 DEF Later
  <2>11. /\ s.off # 0 => s.off \in Blocks(d) /\ Data(d, s.off) = match
         /\ t.off # 0 => t.off \in Blocks(d) /\ Data(d, t.off) = replace
      BY <2>1, <2>3, <2>9, <2>10 DEF Data
  <2>12. AddedTransform(a, shape, patch, match, replace, d, us, g.off, s.off, t.off)
      BY <2>1, <2>5, <2>6, <2>9, <2>10, <2>11 DEF AddedTransform, p, cell
  <2>13. r = d
      BY <1>1, <1>6
  <2> QED
      BY <2>12, <2>13
<1> QED
    BY <1>5, <1>6

-----------------------------------------------------------------------------
(* The map *)

(* the record of the header *)
IsHeader(m) ==
    m = [keys_off |-> m.keys_off, values_off |-> m.values_off, count |-> m.count, capacity |-> m.capacity]

(* the header points to two arrays of its capacity                           *)
MapOK(a, shape) ==
    LET m == a.map
    IN  /\ IsHeader(m)
        /\ m.capacity \in Nat \ {0} /\ m.count \in 0 .. m.capacity
        /\ Refers(shape, m.keys_off, "keys", m.capacity)
        /\ Refers(shape, m.values_off, "values", m.capacity)

(* no plugin has two entries                                                 *)
Distinct(a) ==
    \A i, j \in 0 .. a.map.count - 1 :
        NameAt(a, i) = NameAt(a, j) => i = j \/ NameAt(a, i) = NoName

(* the header refers to two arrays of the capacity it names                  *)
LEMMA MapFacts ==
    ASSUME NEW a, NEW shape, Proper(a, shape), MapOK(a, shape)
    PROVE  /\ a.map.keys_off \in Blocks(a) /\ a.map.values_off \in Blocks(a)
           /\ shape[a.map.keys_off].type = "keys" /\ shape[a.map.keys_off].len = a.map.capacity
           /\ shape[a.map.values_off].type = "values" /\ shape[a.map.values_off].len = a.map.capacity
           /\ a.map.keys_off # a.map.values_off
           /\ a.map.capacity \in Nat \ {0} /\ a.map.count \in Nat /\ a.map.count <= a.map.capacity
           /\ Keys(a) \in [0 .. a.map.capacity - 1 -> KeyCells(shape)]
           /\ Values(a) \in [0 .. a.map.capacity - 1 -> ListCells(shape)]
           /\ a.map.capacity * SizeofOffset <= a.heap[a.map.keys_off].size
           /\ a.map.capacity * SizeofList <= a.heap[a.map.values_off].size
           /\ DOMAIN shape = Blocks(a)
<1>1. /\ a.map.keys_off \in Blocks(a) /\ a.map.values_off \in Blocks(a)
      /\ shape[a.map.keys_off].type = "keys" /\ shape[a.map.keys_off].len = a.map.capacity
      /\ shape[a.map.values_off].type = "values" /\ shape[a.map.values_off].len = a.map.capacity
      /\ DOMAIN shape = Blocks(a)
    BY DEF MapOK, Refers, Proper, WellTyped
<1>2. a.map.capacity \in Nat \ {0} /\ a.map.count \in Nat /\ a.map.count <= a.map.capacity
    BY DEF MapOK
<1>3. /\ HoldsData(shape, shape[a.map.keys_off], a.heap[a.map.keys_off].size, Keys(a))
      /\ HoldsData(shape, shape[a.map.values_off], a.heap[a.map.values_off].size, Values(a))
    BY <1>1 DEF Proper, WellTyped, Keys, Values
<1> QED
    BY <1>1, <1>2, <1>3 DEF HoldsData

(* a plugin that has an entry has one, and the search finds it               *)
LEMMA IndexFacts ==
    ASSUME NEW a, a.map.count \in Nat, Distinct(a), NEW key \in Plugins, Has(a, key)
    PROVE  /\ IndexOf(a, key) \in 0 .. a.map.count - 1 /\ NameAt(a, IndexOf(a, key)) = key
           /\ \A i \in 0 .. a.map.count - 1 : NameAt(a, i) = key => i = IndexOf(a, key)
<1> DEFINE P(i) == NameAt(a, i) = key /\ \A j \in 0 .. i - 1 : NameAt(a, j) # key
<1>0. key # NoName
    BY PluginsAssumption DEF NoName
<1>1. \E i \in 0 .. a.map.count - 1 : P(i)
  <2>1. PICK i \in 0 .. a.map.count - 1 : NameAt(a, i) = key
      BY DEF Has
  <2>2. ASSUME NEW j \in 0 .. i - 1 PROVE NameAt(a, j) # key
    <3>1. j \in 0 .. a.map.count - 1 /\ j # i
        OBVIOUS
    <3> QED
        BY <1>0, <2>1, <3>1 DEF Distinct
  <2> QED
      BY <2>1, <2>2
<1>2. IndexOf(a, key) = CHOOSE i \in 0 .. a.map.count - 1 : P(i)
    BY DEF IndexOf
<1>3. IndexOf(a, key) \in 0 .. a.map.count - 1 /\ P(IndexOf(a, key))
  <2> HIDE DEF P
  <2> QED
      BY <1>1, <1>2
<1> QED
    BY <1>0, <1>3 DEF Distinct

(* assignments to the header *)
SetArrays(a, k, v, c) == [a EXCEPT !.map.keys_off = k, !.map.values_off = v, !.map.capacity = c]
SetOffsets(a, k, v) == [a EXCEPT !.map.keys_off = k, !.map.values_off = v]
SetCount(a, n) == [a EXCEPT !.map.count = n]

(* b is a with another header *)
HeaderBecomes(a, b, k, v, n, c) ==
    /\ b.used = a.used /\ b.heap = a.heap /\ b = [used |-> b.used, heap |-> b.heap, map |-> b.map]
    /\ b.map = [keys_off |-> k, values_off |-> v, count |-> n, capacity |-> c]

(* an arena with another header                                              *)
LEMMA MapExcept ==
    ASSUME NEW a, IsArena(a), IsHeader(a.map), NEW k, NEW v, NEW n, NEW c
    PROVE  /\ HeaderBecomes(a, SetArrays(a, k, v, c), k, v, a.map.count, c)
           /\ HeaderBecomes(a, SetOffsets(a, k, v), k, v, a.map.count, a.map.capacity)
           /\ HeaderBecomes(a, SetCount(a, n), a.map.keys_off, a.map.values_off, n, a.map.capacity)
<1> DEFINE m == a.map
<1>1. a = [used |-> a.used, heap |-> a.heap, map |-> m] /\ IsHeader(m)
    BY DEF IsArena
<1>2. HeaderBecomes(a, SetArrays(a, k, v, c), k, v, m.count, c)
  <2> DEFINE b == SetArrays(a, k, v, c)
             d == b.map
  <2>0. b = [a EXCEPT !.map.keys_off = k, !.map.values_off = v, !.map.capacity = c]
      BY DEF SetArrays
  <2> HIDE DEF b
  <2>1. /\ b.used = a.used /\ b.heap = a.heap /\ b = [used |-> b.used, heap |-> b.heap, map |-> b.map]
        /\ d = [m EXCEPT !.keys_off = k, !.values_off = v, !.capacity = c]
      BY <1>1, <2>0
  <2> HIDE DEF d
  <2>2. /\ d.keys_off = k /\ d.values_off = v /\ d.count = m.count /\ d.capacity = c
        /\ IsHeader(d)
      BY <1>1, <2>1 DEF IsHeader
  <2> QED
      BY <2>1, <2>2 DEF HeaderBecomes, IsHeader, b, d
<1>3. HeaderBecomes(a, SetOffsets(a, k, v), k, v, m.count, m.capacity)
  <2> DEFINE b == SetOffsets(a, k, v)
             d == b.map
  <2>0. b = [a EXCEPT !.map.keys_off = k, !.map.values_off = v]
      BY DEF SetOffsets
  <2> HIDE DEF b
  <2>1. /\ b.used = a.used /\ b.heap = a.heap /\ b = [used |-> b.used, heap |-> b.heap, map |-> b.map]
        /\ d = [m EXCEPT !.keys_off = k, !.values_off = v]
      BY <1>1, <2>0
  <2> HIDE DEF d
  <2>2. /\ d.keys_off = k /\ d.values_off = v /\ d.count = m.count /\ d.capacity = m.capacity
        /\ IsHeader(d)
      BY <1>1, <2>1 DEF IsHeader
  <2> QED
      BY <2>1, <2>2 DEF HeaderBecomes, IsHeader, b, d
<1>4. HeaderBecomes(a, SetCount(a, n), m.keys_off, m.values_off, n, m.capacity)
  <2> DEFINE b == SetCount(a, n)
             d == b.map
  <2>0. b = [a EXCEPT !.map.count = n]
      BY DEF SetCount
  <2> HIDE DEF b
  <2>1. /\ b.used = a.used /\ b.heap = a.heap /\ b = [used |-> b.used, heap |-> b.heap, map |-> b.map]
        /\ d = [m EXCEPT !.count = n]
      BY <1>1, <2>0
  <2> HIDE DEF d
  <2>2. /\ d.keys_off = m.keys_off /\ d.values_off = m.values_off /\ d.count = n /\ d.capacity = m.capacity
        /\ IsHeader(d)
      BY <1>1, <2>1 DEF IsHeader
  <2> QED
      BY <2>1, <2>2 DEF HeaderBecomes, IsHeader, b, d
<1> QED
    BY <1>2, <1>3, <1>4

(* An assignment to the header of the map leaves the blocks alone.           *)
LEMMA HeaderChanged ==
    ASSUME NEW a, NEW shape, Proper(a, shape), NEW b, NEW k, NEW v, NEW n, NEW c,
           HeaderBecomes(a, b, k, v, n, c)
    PROVE  /\ Proper(b, shape) /\ Blocks(b) = Blocks(a) /\ b.heap = a.heap
           /\ \A o \in Blocks(a) : Data(b, o) = Data(a, o)
           /\ IsHeader(b.map) /\ b.map.keys_off = k /\ b.map.values_off = v
           /\ b.map.count = n /\ b.map.capacity = c
<1>0. /\ b.used = a.used /\ b.heap = a.heap /\ b = [used |-> b.used, heap |-> b.heap, map |-> b.map]
      /\ IsHeader(b.map) /\ b.map.keys_off = k /\ b.map.values_off = v
      /\ b.map.count = n /\ b.map.capacity = c
    BY DEF HeaderBecomes, IsHeader
<1>1. Blocks(b) = Blocks(a)
    BY <1>0 DEF Blocks
<1>2. IsArena(b)
    BY <1>0, <1>1 DEF Proper, IsArena
<1>3. Sound(b)
    BY <1>0, <1>1 DEF Proper, Sound
<1>4. WellTyped(b, shape)
    BY <1>0, <1>1 DEF Proper, WellTyped, Data
<1> QED
    BY <1>0, <1>1, <1>2, <1>3, <1>4 DEF Proper, Data

(* b is a with the same entries, in arrays of their own if there was no room *)
GrownMap(a, shape, b, new) ==
    /\ Grows(shape, new) /\ Proper(b, new) /\ MapOK(b, new)
    /\ Blocks(a) \subseteq Blocks(b) /\ \A o \in Blocks(a) : b.heap[o] = a.heap[o]
    /\ b.map.keys_off \in Blocks(a) => b.map.keys_off = a.map.keys_off
    /\ b.map.values_off \in Blocks(a) => b.map.values_off = a.map.values_off
    /\ b.map.count = a.map.count
    /\ \A i \in 0 .. a.map.count - 1 : Keys(b)[i] = Keys(a)[i] /\ Values(b)[i] = Values(a)[i]

(* adding blocks leaves the map as it is                                     *)
LEMMA LaterGrown ==
    ASSUME NEW a, NEW shape, Proper(a, shape), MapOK(a, shape),
           NEW b, NEW new, Later(a, shape, b, new)
    PROVE  GrownMap(a, shape, b, new)
<1>1. /\ a.map.keys_off \in Blocks(a) /\ a.map.values_off \in Blocks(a) /\ DOMAIN shape = Blocks(a)
    BY MapFacts
<1>2. Keys(b) = Keys(a) /\ Values(b) = Values(a)
    BY <1>1 DEF Later, Keys, Values, Data
<1>3. MapOK(b, new)
    BY <1>1 DEF Later, Grows, MapOK, Refers
<1> QED
    BY <1>2, <1>3 DEF Later, GrownMap

(* growing the map: nothing, or two larger arrays with the same entries      *)
LEMMA GrownFacts ==
    ASSUME NEW a, NEW shape, Proper(a, shape), MapOK(a, shape), NEW r, r = Grown(a)
    PROVE  \E new : GrownMap(a, shape, r.arena, new) /\ (r.ok => a.map.count < r.arena.map.capacity)
<1> DEFINE c == a.map.capacity
           n == c * 2
           kd == Enlarged(Keys(a), n, 0)
           vd == Enlarged(Values(a), n, EmptyList)
           k == salloc(a, n * SizeofOffset, kd)
           v == salloc(k.arena, n * SizeofList, vd)
           m == [v.arena EXCEPT !.map.keys_off = k.off, !.map.values_off = v.off, !.map.capacity = n]
<1>1. r = IF a.map.count < c THEN [arena |-> a, ok |-> TRUE]
          ELSE IF k.off = 0 \/ v.off = 0 THEN [arena |-> v.arena, ok |-> FALSE]
          ELSE [arena |-> m, ok |-> TRUE]
    BY DEF Grown
<1>2. CASE a.map.count < c
  <2>1. r.arena = a /\ Later(a, shape, a, shape)
      BY <1>1, <1>2 DEF Later, Grows
  <2> QED
      BY <1>2, <2>1, LaterGrown
<1>3. CASE ~(a.map.count < c)
  <2>1. /\ c \in Nat \ {0} /\ a.map.count = c /\ DOMAIN shape = Blocks(a)
        /\ Keys(a) \in [0 .. c - 1 -> KeyCells(shape)]
        /\ Values(a) \in [0 .. c - 1 -> ListCells(shape)]
        /\ c * SizeofOffset <= ArenaSize /\ c * SizeofList <= ArenaSize
    <3>1. /\ a.map.keys_off \in Blocks(a) /\ a.map.values_off \in Blocks(a)
          /\ shape[a.map.keys_off].type = "keys" /\ shape[a.map.keys_off].len = c
          /\ shape[a.map.values_off].type = "values" /\ shape[a.map.values_off].len = c
          /\ c \in Nat \ {0} /\ a.map.count \in Nat /\ a.map.count <= c
          /\ Keys(a) \in [0 .. c - 1 -> KeyCells(shape)]
          /\ Values(a) \in [0 .. c - 1 -> ListCells(shape)]
          /\ DOMAIN shape = Blocks(a)
        BY MapFacts
    <3> QED
        BY <1>3, <3>1, ArrayFits
  <2>2. /\ n * SizeofOffset \in Nat \ {0} /\ n * SizeofOffset + ArenaSize + 8 <= Word
        /\ n * SizeofList \in Nat \ {0} /\ n * SizeofList + ArenaSize + 8 <= Word
        /\ n \in Nat \ {0} /\ c < n /\ n = c * 2
    <3> HIDE DEF c
    <3>1. n \in Nat \ {0} /\ c < n /\ n = c * 2
        BY <2>1
    <3> QED
        BY <2>1, <3>1, Doubled DEF SizeofOffset, SizeofList
  <2>3. 0 \in KeyCells(shape) /\ EmptyList \in ListCells(shape)
      BY DEF KeyCells, ListCells, EmptyList
  <2>4. /\ kd \in [0 .. n - 1 -> KeyCells(shape)] /\ \A i \in 0 .. c - 1 : kd[i] = Keys(a)[i]
        /\ vd \in [0 .. n - 1 -> ListCells(shape)] /\ \A i \in 0 .. c - 1 : vd[i] = Values(a)[i]
    <3> HIDE DEF n, c
    <3>1. kd \in [0 .. n - 1 -> KeyCells(shape)] /\ \A i \in 0 .. c - 1 : kd[i] = Keys(a)[i]
        BY <2>1, <2>2, <2>3 DEF Enlarged
    <3>2. vd \in [0 .. n - 1 -> ListCells(shape)] /\ \A i \in 0 .. c - 1 : vd[i] = Values(a)[i]
        BY <2>1, <2>2, <2>3 DEF Enlarged
    <3> QED
        BY <3>1, <3>2
  <2> DEFINE ks == [type |-> "keys", len |-> n]
             vs == [type |-> "values", len |-> n]
  <2>5. /\ ks \in Shape /\ ks.type = "keys" /\ ks.len = n
        /\ vs \in Shape /\ vs.type = "values" /\ vs.len = n
      BY <2>2 DEF Shape, Types
  <2> HIDE DEF n, kd, vd, ks, vs, c
  <2>6. HoldsData(shape, ks, n * SizeofOffset, kd)
      BY <2>2, <2>4, <2>5 DEF HoldsData
  <2>7. PICK kn : /\ Later(a, shape, k.arena, kn)
                  /\ k.off # 0 => /\ k.off \in Blocks(k.arena) \ Blocks(a) /\ kn[k.off] = ks
                                  /\ Data(k.arena, k.off) = kd
      BY <2>2, <2>5, <2>6, AllocTyped
  <2> HIDE DEF k
  <2>8. Proper(k.arena, kn)
      BY <2>7 DEF Later
  <2>9. HoldsData(kn, vs, n * SizeofList, vd)
    <3>1. ListCells(shape) \subseteq ListCells(kn)
        BY <2>7, CellsGrow DEF Later
    <3> QED
        BY <2>2, <2>4, <2>5, <3>1 DEF HoldsData
  <2>10. PICK vn : /\ Later(k.arena, kn, v.arena, vn)
                   /\ v.off # 0 => /\ v.off \in Blocks(v.arena) \ Blocks(k.arena) /\ vn[v.off] = vs
                                   /\ Data(v.arena, v.off) = vd
      BY <2>2, <2>5, <2>8, <2>9, AllocTyped
  <2> HIDE DEF v
  <2>11. Later(a, shape, v.arena, vn)
      BY <2>7, <2>10, LaterTransitive
  <2>12. GrownMap(a, shape, v.arena, vn)
      BY <2>11, LaterGrown
  <2>13. CASE k.off = 0 \/ v.off = 0
    <3>1. r.arena = v.arena /\ ~r.ok
        BY <1>1, <1>3, <2>13
    <3> QED
        BY <2>12, <3>1
  <2>14. CASE k.off # 0 /\ v.off # 0
    <3>1. /\ DOMAIN vn = Blocks(v.arena) /\ DOMAIN kn = Blocks(k.arena) /\ IsArena(v.arena)
          /\ Proper(v.arena, vn)
        BY <2>10, <2>8 DEF Later, Proper, WellTyped
    <3>2. v.arena.map = a.map
        BY <2>11 DEF Later
    <3>3. m = SetArrays(v.arena, k.off, v.off, n)
        BY DEF SetArrays
    <3> HIDE DEF m
    <3>4. HeaderBecomes(v.arena, m, k.off, v.off, c, n)
        BY <2>1, <3>1, <3>2, <3>3, MapExcept DEF MapOK
    <3>5. /\ Proper(m, vn) /\ Blocks(m) = Blocks(v.arena) /\ m.heap = v.arena.heap
          /\ \A o \in Blocks(v.arena) : Data(m, o) = Data(v.arena, o)
          /\ IsHeader(m.map) /\ m.map.keys_off = k.off /\ m.map.values_off = v.off
          /\ m.map.count = c /\ m.map.capacity = n
        BY <3>1, <3>4, HeaderChanged
    <3>6. /\ k.off \in Blocks(v.arena) /\ vn[k.off] = ks /\ Data(v.arena, k.off) = kd
          /\ v.off \in Blocks(v.arena) /\ vn[v.off] = vs /\ Data(v.arena, v.off) = vd
        BY <2>7, <2>10, <2>14, <3>1 DEF Later, Grows, Data
    <3>7. MapOK(m, vn)
        BY <2>1, <2>2, <3>1, <3>5, <3>6 DEF MapOK, Refers, ks, vs
    <3>8. Keys(m) = kd /\ Values(m) = vd
        BY <3>5, <3>6 DEF Keys, Values
    <3>9. r.arena = m
        BY <1>1, <1>3, <2>14 DEF c
    <3>10. /\ Grows(shape, vn) /\ Blocks(a) \subseteq Blocks(m) /\ \A o \in Blocks(a) : m.heap[o] = a.heap[o]
        BY <2>11, <3>5 DEF Later
    <3>11. k.off \notin Blocks(a) /\ v.off \notin Blocks(a)
        BY <2>7, <2>10, <2>14 DEF Later
    <3> QED
        BY <2>1, <2>2, <2>4, <3>5, <3>7, <3>8, <3>9, <3>10, <3>11 DEF GrownMap
  <2> QED
      BY <2>13, <2>14
<1> QED
    BY <1>2, <1>3

(* b is a with one more entry, an empty list.  The name of the entry is      *)
(* missing if there was no space for it.                                     *)
AddedKey(a, shape, key, b, new) ==
    LET n == a.map.count
    IN  /\ Grows(shape, new) /\ Proper(b, new) /\ MapOK(b, new) /\ b.map.count = n + 1
        /\ Blocks(a) \subseteq Blocks(b)
        /\ \A o \in Blocks(a) \ {a.map.keys_off, a.map.values_off} : b.heap[o] = a.heap[o]
        /\ \A i \in 0 .. n - 1 : Keys(b)[i] = Keys(a)[i] /\ Values(b)[i] = Values(a)[i]
        /\ Values(b)[n] = EmptyList /\ NameAt(b, n) \in {key, NoName}

(* hashmap_add_key(): a new entry at the end, or none                        *)
LEMMA AddKey ==
    ASSUME NEW a, NEW shape, Proper(a, shape), MapOK(a, shape), NEW key \in Plugins,
           NEW r, r = hashmap_add_key(a, key)
    PROVE  \/ Has(a, key) /\ r = [arena |-> a, list |-> hashmap_get(a, key)]
           \/ ~Has(a, key) /\ r.list = NULL /\ \E new : GrownMap(a, shape, r.arena, new)
           \/ /\ ~Has(a, key) /\ r.list = [block |-> r.arena.map.values_off, idx |-> a.map.count]
              /\ \E new : AddedKey(a, shape, key, r.arena, new)
<1> DEFINE g == Grown(a)
           s == shm_strdup(g.arena, key, NameLength)
           n == a.map.count
           b == Write(s.arena, s.arena.map.keys_off, n, s.off)
           c == Write(b, b.map.values_off, n, EmptyList)
           d == [c EXCEPT !.map.count = n + 1]
<1>1. r = IF Has(a, key) THEN [arena |-> a, list |-> hashmap_get(a, key)]
          ELSE IF ~g.ok THEN [arena |-> g.arena, list |-> NULL]
          ELSE [arena |-> d, list |-> [block |-> c.map.values_off, idx |-> n]]
    BY DEF hashmap_add_key
<1>2. CASE Has(a, key)
    BY <1>1, <1>2
<1>3. PICK gs : GrownMap(a, shape, g.arena, gs) /\ (g.ok => n < g.arena.map.capacity)
    BY GrownFacts
<1> HIDE DEF g
<1>4. CASE ~Has(a, key) /\ ~g.ok
  <2>1. r.arena = g.arena /\ r.list = NULL
      BY <1>1, <1>4
  <2> QED
      BY <1>3, <1>4, <2>1
<1>5. CASE ~Has(a, key) /\ g.ok
  <2>0. n \in Nat /\ Proper(g.arena, gs) /\ MapOK(g.arena, gs) /\ g.arena.map.count = n
      BY <1>3 DEF GrownMap, MapOK
  <2>1. PICK ss : /\ Later(g.arena, gs, s.arena, ss)
                  /\ s.off # 0 => /\ s.off \in Blocks(s.arena) \ Blocks(g.arena)
                                  /\ ss[s.off].type = "name" /\ Data(s.arena, s.off) = key
    <3> DEFINE sh == [type |-> "name", len |-> 0]
    <3>1. sh \in Shape /\ sh.type = "name"
        BY DEF Shape, Types
    <3>2. NameLength + 1 \in Nat \ {0} /\ (NameLength + 1) + ArenaSize + 8 <= Word
        BY SizesAssumption
    <3> HIDE DEF sh
    <3>3. HoldsData(gs, sh, NameLength + 1, key)
        BY <3>1 DEF HoldsData
    <3>4. s = salloc(g.arena, NameLength + 1, key)
        BY DEF shm_strdup
    <3> HIDE DEF s
    <3>5. \E ss : /\ Later(g.arena, gs, s.arena, ss)
                  /\ s.off # 0 => /\ s.off \in Blocks(s.arena) \ Blocks(g.arena) /\ ss[s.off] = sh
                                  /\ Data(s.arena, s.off) = key
        BY <2>0, <3>1, <3>2, <3>3, <3>4, AllocTyped
    <3> QED
        BY <3>1, <3>5
  <2> HIDE DEF s
  <2>2. GrownMap(g.arena, gs, s.arena, ss)
      BY <2>0, <2>1, LaterGrown
  <2>3. /\ Proper(s.arena, ss) /\ MapOK(s.arena, ss) /\ s.arena.map.count = n
        /\ Grows(shape, ss) /\ Blocks(a) \subseteq Blocks(s.arena)
        /\ \A o \in Blocks(a) : s.arena.heap[o] = a.heap[o]
        /\ \A i \in 0 .. n - 1 : Keys(s.arena)[i] = Keys(a)[i] /\ Values(s.arena)[i] = Values(a)[i]
        /\ n < s.arena.map.capacity
    <3>1. s.arena.map = g.arena.map
        BY <2>1 DEF Later
    <3> QED
        BY <1>3, <1>5, <2>0, <2>2, <3>1 DEF GrownMap, Grows
  <2> DEFINE ko == s.arena.map.keys_off
             vo == s.arena.map.values_off
             cap == s.arena.map.capacity
  <2>4. /\ ko \in Blocks(s.arena) /\ vo \in Blocks(s.arena) /\ ss[ko].type = "keys" /\ ss[vo].type = "values"
        /\ ko # vo /\ cap \in Nat /\ DOMAIN ss = Blocks(s.arena)
        /\ Keys(s.arena) \in [0 .. cap - 1 -> KeyCells(ss)]
        /\ Values(s.arena) \in [0 .. cap - 1 -> ListCells(ss)]
      BY <2>3, MapFacts
  <2>5. FitsArray(ss, "keys", s.off) /\ FitsArray(ss, "values", EmptyList)
      BY <2>1, <2>4 DEF FitsArray, KeyCells, ListCells, EmptyList
  <2>6. /\ Proper(b, ss) /\ b.map = s.arena.map /\ Blocks(b) = Blocks(s.arena)
        /\ \A o \in Blocks(s.arena) : o # ko => b.heap[o] = s.arena.heap[o]
        /\ Data(b, ko) = Put(Data(s.arena, ko), n, s.off)
      BY <2>3, <2>4, <2>5, WriteTyped
  <2> HIDE DEF b
  <2>7. /\ Proper(c, ss) /\ c.map = s.arena.map /\ Blocks(c) = Blocks(s.arena)
        /\ \A o \in Blocks(s.arena) : o # vo => c.heap[o] = b.heap[o]
        /\ Data(c, vo) = Put(Data(b, vo), n, EmptyList)
      BY <2>4, <2>5, <2>6, WriteTyped
  <2> HIDE DEF c
  <2>8. HeaderBecomes(c, d, ko, vo, n + 1, cap)
    <3>1. IsArena(c) /\ IsHeader(c.map) /\ d = SetCount(c, n + 1)
        BY <2>3, <2>7 DEF Proper, MapOK, SetCount
    <3> HIDE DEF d
    <3> QED
        BY <2>7, <3>1, MapExcept
  <2> HIDE DEF d
  <2>9. /\ Proper(d, ss) /\ Blocks(d) = Blocks(c) /\ d.heap = c.heap
        /\ \A o \in Blocks(c) : Data(d, o) = Data(c, o)
        /\ IsHeader(d.map) /\ d.map.keys_off = ko /\ d.map.values_off = vo
        /\ d.map.count = n + 1 /\ d.map.capacity = cap
      BY <2>7, <2>8, HeaderChanged
  <2>10. MapOK(d, ss)
      BY <2>0, <2>3, <2>4, <2>9 DEF MapOK
  <2>11. /\ Keys(d) = Put(Keys(s.arena), n, s.off) /\ Values(d) = Put(Values(s.arena), n, EmptyList)
    <3>1. Data(c, ko) = Data(b, ko) /\ Data(b, vo) = Data(s.arena, vo)
        BY <2>4, <2>6, <2>7 DEF Data
    <3> QED
        BY <2>4, <2>6, <2>7, <2>9, <3>1 DEF Keys, Values
  <2>12. /\ Keys(d)[n] = s.off /\ Values(d)[n] = EmptyList
         /\ \A i \in 0 .. n - 1 : Keys(d)[i] = Keys(a)[i] /\ Values(d)[i] = Values(a)[i]
      BY <2>0, <2>3, <2>4, <2>11 DEF Put
  <2>13. NameAt(d, n) \in {key, NoName}
    <3>1. CASE s.off = 0
        BY <2>12, <3>1 DEF NameAt
    <3>2. CASE s.off # 0
      <4>1. Data(d, s.off) = key
        <5>1. s.off # ko /\ s.off # vo /\ s.off \in Blocks(s.arena)
            BY <2>1, <2>4, <3>2
        <5> QED
            BY <2>1, <2>6, <2>7, <2>9, <3>2, <5>1 DEF Data
      <4> QED
          BY <2>12, <3>2, <4>1 DEF NameAt
    <3> QED
        BY <3>1, <3>2
  <2>14. \A o \in Blocks(a) \ {a.map.keys_off, a.map.values_off} : d.heap[o] = a.heap[o]
    <3> SUFFICES ASSUME NEW o \in Blocks(a), o # a.map.keys_off, o # a.map.values_off
                 PROVE  d.heap[o] = a.heap[o]
        OBVIOUS
    <3>1. CASE o # ko /\ o # vo
        BY <2>3, <2>6, <2>7, <2>9, <3>1
    <3>2. CASE o = ko \/ o = vo
      <4>1. ko = g.arena.map.keys_off /\ vo = g.arena.map.values_off
          BY <2>1 DEF Later
      <4> QED
          BY <1>3, <3>2, <4>1 DEF GrownMap
    <3> QED
        BY <3>1, <3>2
  <2>15. AddedKey(a, shape, key, d, ss)
      BY <2>3, <2>7, <2>9, <2>10, <2>12, <2>13, <2>14 DEF AddedKey
  <2>16. r.arena = d /\ r.list = [block |-> d.map.values_off, idx |-> n]
      BY <1>1, <1>5, <2>7, <2>9
  <2> QED
      BY <1>5, <2>15, <2>16
<1> QED
    BY <1>2, <1>4, <1>5

(* b is a without its entry i                                                *)
RemovedKey(a, shape, i, b) ==
    LET n == a.map.count
    IN  /\ Proper(b, shape) /\ MapOK(b, shape) /\ b.map.count = n - 1 /\ Blocks(b) = Blocks(a)
        /\ \A o \in Blocks(a) \ {a.map.keys_off, a.map.values_off} : b.heap[o] = a.heap[o]
        /\ \A j \in 0 .. n - 2 : Keys(b)[j] = IF j < i THEN Keys(a)[j] ELSE Keys(a)[j + 1]
        /\ \A j \in 0 .. n - 2 : Values(b)[j] = IF j < i THEN Values(a)[j] ELSE Values(a)[j + 1]

(* hashmap_remove(): the entries behind the removed one move one place down  *)
LEMMA RemoveKey ==
    ASSUME NEW a, NEW shape, Proper(a, shape), MapOK(a, shape), Distinct(a), NEW key \in Plugins,
           NEW b, b = hashmap_remove(a, key)
    PROVE  \/ ~Has(a, key) /\ b = a
           \/ Has(a, key) /\ RemovedKey(a, shape, IndexOf(a, key), b)
<1>1. CASE ~Has(a, key)
    BY <1>1 DEF hashmap_remove
<1>2. CASE Has(a, key)
  <2> DEFINE i == IndexOf(a, key)
             n == a.map.count
             ko == a.map.keys_off
             vo == a.map.values_off
             cap == a.map.capacity
             kd == Shifted(Keys(a), i, n)
             vd == Shifted(Values(a), i, n)
             c == Replace(a, ko, kd)
             d == Replace(c, vo, vd)
             e == SetCount(d, n - 1)
  <2>1. /\ ko \in Blocks(a) /\ vo \in Blocks(a) /\ shape[ko].type = "keys" /\ shape[vo].type = "values"
        /\ shape[ko].len = cap /\ shape[vo].len = cap
        /\ ko # vo /\ cap \in Nat \ {0} /\ n \in Nat /\ n <= cap
        /\ Keys(a) \in [0 .. cap - 1 -> KeyCells(shape)]
        /\ Values(a) \in [0 .. cap - 1 -> ListCells(shape)]
        /\ cap * SizeofOffset <= a.heap[ko].size /\ cap * SizeofList <= a.heap[vo].size
      BY MapFacts
  <2>2. i \in 0 .. n - 1
      BY <1>2, <2>1, IndexFacts
  <2>3. b = e
    <3>1. b = [a EXCEPT !.heap[ko].data = Shifted(@, i, n),
                        !.heap[vo].data = Shifted(@, i, n), !.map.count = n - 1]
        BY <1>2 DEF hashmap_remove
    <3>2. IsArena(a) /\ ko \in DOMAIN a.heap /\ vo \in DOMAIN a.heap
        BY <2>1 DEF Proper, Blocks
    <3> HIDE DEF i
    <3> QED
        BY <2>1, <3>1, <3>2 DEF Replace, SetCount, Keys, Values, Data, IsArena
  <2> HIDE DEF i, n, cap
  <2>4. /\ kd \in [0 .. cap - 1 -> KeyCells(shape)]
        /\ \A j \in 0 .. n - 2 : kd[j] = IF j < i THEN Keys(a)[j] ELSE Keys(a)[j + 1]
    <3>1. n \in 0 .. cap
        BY <2>1
    <3> QED
        BY <2>1, <2>2, <3>1 DEF Shifted
  <2>5. /\ vd \in [0 .. cap - 1 -> ListCells(shape)]
        /\ \A j \in 0 .. n - 2 : vd[j] = IF j < i THEN Values(a)[j] ELSE Values(a)[j + 1]
    <3>1. n \in 0 .. cap
        BY <2>1
    <3> QED
        BY <2>1, <2>2, <3>1 DEF Shifted
  <2> HIDE DEF kd, vd
  <2>6. /\ HoldsData(shape, shape[ko], a.heap[ko].size, kd)
        /\ HoldsData(shape, shape[vo], a.heap[vo].size, vd)
      BY <2>1, <2>4, <2>5 DEF HoldsData
  <2>7. /\ Proper(c, shape) /\ c.map = a.map /\ Blocks(c) = Blocks(a)
        /\ \A o \in Blocks(a) : o # ko => c.heap[o] = a.heap[o]
        /\ \A o \in Blocks(a) : c.heap[o].size = a.heap[o].size
        /\ Data(c, ko) = kd
      BY <2>1, <2>6, ReplaceTyped
  <2> HIDE DEF c
  <2>8. /\ Proper(d, shape) /\ d.map = a.map /\ Blocks(d) = Blocks(a)
        /\ \A o \in Blocks(a) : o # vo => d.heap[o] = c.heap[o]
        /\ Data(d, vo) = vd
      BY <2>1, <2>6, <2>7, ReplaceTyped
  <2> HIDE DEF d
  <2>9. HeaderBecomes(d, e, ko, vo, n - 1, cap)
      BY <2>8, MapExcept DEF MapOK, Proper, cap
  <2> HIDE DEF e
  <2>10. /\ Proper(e, shape) /\ Blocks(e) = Blocks(d) /\ e.heap = d.heap
         /\ \A o \in Blocks(d) : Data(e, o) = Data(d, o)
         /\ IsHeader(e.map) /\ e.map.keys_off = ko /\ e.map.values_off = vo
         /\ e.map.count = n - 1 /\ e.map.capacity = cap
      BY <2>8, <2>9, HeaderChanged
  <2>11. Keys(e) = kd /\ Values(e) = vd
    <3>1. Data(d, ko) = kd
        BY <2>1, <2>7, <2>8 DEF Data
    <3> QED
        BY <2>1, <2>8, <2>10, <3>1 DEF Keys, Values
  <2>12. n - 1 \in 0 .. cap
      BY <2>1, <2>2
  <2>13. MapOK(e, shape)
      BY <2>1, <2>10, <2>12 DEF MapOK, cap
  <2>14. \A o \in Blocks(a) \ {ko, vo} : e.heap[o] = a.heap[o]
      BY <2>7, <2>8, <2>10
  <2>15. RemovedKey(a, shape, i, e)
      BY <2>4, <2>5, <2>8, <2>10, <2>11, <2>13, <2>14 DEF RemovedKey, n
  <2> QED
      BY <1>2, <2>3, <2>15 DEF i
<1> QED
    BY <1>1, <1>2

(* salloc() succeeds where there is room                                     *)
LEMMA SallocRoom ==
    ASSUME NEW a, Sound(a), NEW n \in Nat \ {0}, n + ArenaSize + 8 <= Word,
           a.used + Align(n) <= ArenaSize, IsArena(a), NEW data
    PROVE  /\ salloc(a, n, data).off # 0
           /\ salloc(a, n, data).arena.used = a.used + Align(n)
<1> DEFINE s == Align(n)
           u == a.used
<1>1. s \in Nat /\ u \in Nat /\ u >= 24 /\ s <= n + 7 /\ ArenaSize \in Nat /\ Word \in Nat
    BY AlignFacts, SizesAssumption DEF Sound, SizeofArena
<1> HIDE DEF s, u
<1>2. s % Word = s /\ (u + s) % Word = u + s /\ ~(u + s > ArenaSize) /\ u # 0
    BY <1>1 DEF s, u
<1> DEFINE b == [a EXCEPT !.used = u + s,
                          !.heap = [o \in DOMAIN a.heap \cup {u} |->
                             IF o = u THEN [size |-> s, data |-> data] ELSE a.heap[o]]]
<1>3. salloc(a, n, data) = [arena |-> b, off |-> u]
    BY <1>2 DEF salloc, s, u
<1>4. b.used = u + s
    BY DEF IsArena
<1> HIDE DEF b
<1> QED
    BY <1>2, <1>3, <1>4 DEF s, u

(* screate() and hashmap_init() leave a map without entries.                 *)
LEMMA InitialFacts ==
    \E shape : Proper(InitialArena, shape) /\ MapOK(InitialArena, shape) /\ InitialArena.map.count = 0
<1> DEFINE a == [used |-> SizeofArena, heap |-> [o \in {} |-> 0],
                 map |-> [keys_off |-> 0, values_off |-> 0, count |-> 0, capacity |-> MapCapacity]]
           c == MapCapacity
           kd == Cells(c, 0)
           vd == Cells(c, EmptyList)
           k == salloc(a, c * SizeofOffset, kd)
           v == salloc(k.arena, c * SizeofList, vd)
           m == SetOffsets(v.arena, k.off, v.off)
           none == [o \in {} |-> [type |-> "name", len |-> 0]]
<1>1. InitialArena = m
    BY DEF InitialArena, SetOffsets
<1>2. /\ a.used = SizeofArena /\ Blocks(a) = {} /\ IsArena(a)
      /\ a.map = [keys_off |-> 0, values_off |-> 0, count |-> 0, capacity |-> c]
    BY DEF Blocks, IsArena
<1>3. /\ c \in Nat \ {0} /\ c * SizeofOffset \in Nat \ {0} /\ c * SizeofList \in Nat \ {0}
      /\ ArenaSize \in Nat /\ Word \in Nat
      /\ Align(c * SizeofOffset) \in Nat /\ Align(c * SizeofList) \in Nat
      /\ c * SizeofOffset <= Align(c * SizeofOffset) /\ c * SizeofList <= Align(c * SizeofList)
      /\ SizeofArena + Align(c * SizeofOffset) + Align(c * SizeofList) <= ArenaSize
      /\ 3 * ArenaSize + 8 <= Word
  <2>1. c \in Nat \ {0} /\ c * SizeofOffset \in Nat \ {0} /\ c * SizeofList \in Nat \ {0}
      BY CapacityAssumption DEF SizeofOffset, SizeofList
  <2> QED
      BY <2>1, AlignFacts, SizesAssumption
<1> DEFINE kz == c * SizeofOffset
           vz == c * SizeofList
           ka == Align(kz)
           va == Align(vz)
<1> HIDE DEF a, kz, vz, ka, va
<1>4. /\ kz \in Nat \ {0} /\ vz \in Nat \ {0} /\ kz <= ka /\ vz <= va /\ ka \in Nat /\ va \in Nat
      /\ 24 + ka + va <= ArenaSize /\ kz + ArenaSize + 8 <= Word /\ vz + ArenaSize + 8 <= Word
      /\ a.used + ka <= ArenaSize /\ 24 <= ArenaSize /\ ArenaSize \in Nat /\ a.used = 24
  <2>1. /\ kz \in Nat \ {0} /\ vz \in Nat \ {0} /\ kz <= ka /\ vz <= va /\ ka \in Nat /\ va \in Nat
        /\ 24 + ka + va <= ArenaSize /\ 3 * ArenaSize + 8 <= Word /\ ArenaSize \in Nat /\ Word \in Nat
        /\ a.used = 24
      BY <1>2, <1>3 DEF kz, vz, ka, va, SizeofArena
  <2> QED
      BY <2>1
<1>5. Proper(a, none)
  <2>1. Sound(a)
      BY <1>2, <1>4 DEF Sound, SizeofArena
  <2>2. WellTyped(a, none)
      BY <1>2 DEF WellTyped
  <2> QED
      BY <1>2, <2>1, <2>2 DEF Proper
<1> DEFINE ks == [type |-> "keys", len |-> c]
           vs == [type |-> "values", len |-> c]
<1>6. /\ ks \in Shape /\ ks.type = "keys" /\ ks.len = c
      /\ vs \in Shape /\ vs.type = "values" /\ vs.len = c
    BY <1>3 DEF Shape, Types
<1> HIDE DEF ks, vs, none
<1>7. HoldsData(none, ks, kz, kd)
  <2>1. kd \in [0 .. c - 1 -> KeyCells(none)]
      BY DEF Cells, KeyCells
  <2> QED
      BY <1>4, <1>6, <2>1 DEF HoldsData, kz
<1>8. k = salloc(a, kz, kd) /\ v = salloc(k.arena, vz, vd)
    BY DEF kz, vz
<1> HIDE DEF k, kd
<1>9. k.off # 0 /\ k.arena.used = 24 + ka
    BY <1>2, <1>4, <1>5, <1>8, SallocRoom DEF Proper, ka
<1>10. PICK kn : /\ Later(a, none, k.arena, kn)
                 /\ k.off \in Blocks(k.arena) /\ kn[k.off] = ks
    BY <1>4, <1>5, <1>6, <1>7, <1>8, <1>9, AllocTyped
<1>11. Proper(k.arena, kn) /\ k.arena.map = a.map /\ IsArena(k.arena) /\ Sound(k.arena)
    BY <1>10 DEF Later, Proper
<1>12. HoldsData(kn, vs, vz, vd)
  <2>1. vd \in [0 .. c - 1 -> ListCells(kn)]
      BY DEF Cells, ListCells, EmptyList
  <2> QED
      BY <1>4, <1>6, <2>1 DEF HoldsData, vz
<1> HIDE DEF v, vd
<1>13. v.off # 0
  <2>1. k.arena.used + va <= ArenaSize
      BY <1>4, <1>9
  <2> QED
      BY <1>4, <1>8, <1>11, <2>1, SallocRoom DEF va
<1>14. PICK vn : /\ Later(k.arena, kn, v.arena, vn)
                 /\ v.off \in Blocks(v.arena) /\ vn[v.off] = vs
    BY <1>4, <1>6, <1>8, <1>11, <1>12, <1>13, AllocTyped
<1>15. /\ Proper(v.arena, vn) /\ v.arena.map = a.map /\ IsArena(v.arena) /\ DOMAIN vn = Blocks(v.arena)
       /\ k.off \in Blocks(v.arena) /\ vn[k.off] = ks
  <2>1. DOMAIN kn = Blocks(k.arena)
      BY <1>11 DEF Proper, WellTyped
  <2> QED
      BY <1>10, <1>11, <1>14, <2>1 DEF Later, Proper, WellTyped, Grows
<1>16. HeaderBecomes(v.arena, m, k.off, v.off, 0, c)
  <2>1. IsHeader(v.arena.map) /\ v.arena.map.count = 0 /\ v.arena.map.capacity = c
      BY <1>2, <1>15 DEF IsHeader
  <2> QED
      BY <1>15, <2>1, MapExcept
<1> HIDE DEF m
<1>17. /\ Proper(m, vn) /\ Blocks(m) = Blocks(v.arena)
       /\ IsHeader(m.map) /\ m.map.keys_off = k.off /\ m.map.values_off = v.off
       /\ m.map.count = 0 /\ m.map.capacity = c
    BY <1>15, <1>16, HeaderChanged
<1>18. MapOK(m, vn)
    BY <1>3, <1>14, <1>15, <1>17 DEF MapOK, Refers, ks, vs
<1> QED
    BY <1>1, <1>17, <1>18

-----------------------------------------------------------------------------
(* What the live entries hold.  An array that a larger one has replaced      *)
(* keeps its old offsets, so that only live entries own the blocks they      *)
(* refer to.                                                                 *)

Entries(a) == 0 .. a.map.count - 1
PatchesIn(a, i) == 0 .. Values(a)[i].patch_count - 1
PatchAt(a, i, k) == Data(a, Values(a)[i].patches_off)[k]
Contents(a, p) ==
    [file |-> StringAt(a, p.file_off), find |-> StringAt(a, p.find_off),
     transforms |-> TransformsOf(a, p)]

(* no two entries share an array of patches                                  *)
OwnLists(a) ==
    \A i, j \in Entries(a) :
        /\ Values(a)[i].patch_capacity > 0 /\ Values(a)[j].patch_capacity > 0
        /\ Values(a)[i].patches_off = Values(a)[j].patches_off
        => i = j

(* no two patches share an array of transforms                               *)
OwnTransforms(a) ==
    \A i, j \in Entries(a) : \A k \in PatchesIn(a, i), l \in PatchesIn(a, j) :
        /\ PatchAt(a, i, k).transform_capacity > 0 /\ PatchAt(a, j, l).transform_capacity > 0
        /\ PatchAt(a, i, k).transforms_off = PatchAt(a, j, l).transforms_off
        => i = j /\ k = l

(* the blocks of a that have this type are unchanged in b                    *)
Kept(a, shape, type, b) == \A o \in Blocks(a) : shape[o].type = type => b.heap[o] = a.heap[o]

(* an entry refers to an array with room for the patches it counts           *)
LEMMA ListFacts ==
    ASSUME NEW a, NEW shape, Proper(a, shape), MapOK(a, shape), NEW i \in Entries(a)
    PROVE  /\ Values(a)[i] \in ListCells(shape)
           /\ Values(a)[i].patch_count \in Nat /\ Values(a)[i].patch_capacity \in Nat
           /\ Values(a)[i].patch_count <= Values(a)[i].patch_capacity
           /\ Values(a)[i].patch_capacity > 0 =>
                /\ Values(a)[i].patches_off \in Blocks(a)
                /\ shape[Values(a)[i].patches_off].type = "patches"
                /\ shape[Values(a)[i].patches_off].len = Values(a)[i].patch_capacity
<1> DEFINE l == Values(a)[i]
<1>1. l \in ListCells(shape) /\ DOMAIN shape = Blocks(a)
  <2>1. /\ Values(a) \in [0 .. a.map.capacity - 1 -> ListCells(shape)]
        /\ a.map.count \in Nat /\ a.map.capacity \in Nat /\ a.map.count <= a.map.capacity
        /\ DOMAIN shape = Blocks(a)
      BY MapFacts
  <2>2. i \in 0 .. a.map.capacity - 1
      BY <2>1 DEF Entries
  <2> QED
      BY <2>1, <2>2
<1> HIDE DEF l
<1>2. /\ l.patch_count \in Nat /\ l.patch_capacity \in Nat /\ l.patch_count <= l.patch_capacity
      /\ l.patch_capacity > 0 => Refers(shape, l.patches_off, "patches", l.patch_capacity)
    BY <1>1 DEF ListCells
<1> QED
    BY <1>1, <1>2 DEF l, Refers

(* a patch refers to an array with room for the transforms it counts         *)
LEMMA PatchFacts ==
    ASSUME NEW a, NEW shape, Proper(a, shape), MapOK(a, shape), NEW i \in Entries(a),
           NEW k \in PatchesIn(a, i)
    PROVE  /\ PatchAt(a, i, k) \in PatchCells(shape)
           /\ Values(a)[i].patch_capacity > 0
           /\ PatchAt(a, i, k).transform_capacity > 0 =>
                /\ PatchAt(a, i, k).transforms_off \in Blocks(a)
                /\ shape[PatchAt(a, i, k).transforms_off].type = "transforms"
<1> DEFINE l == Values(a)[i]
           p == PatchAt(a, i, k)
<1>1. /\ l.patch_count \in Nat /\ l.patch_capacity \in Nat /\ l.patch_count <= l.patch_capacity
      /\ l.patch_capacity > 0 =>
            /\ l.patches_off \in Blocks(a)
            /\ shape[l.patches_off].type = "patches" /\ shape[l.patches_off].len = l.patch_capacity
    BY ListFacts
<1>2. l.patch_capacity > 0 /\ k \in 0 .. l.patch_capacity - 1
    BY <1>1 DEF PatchesIn
<1>3. HoldsData(shape, shape[l.patches_off], a.heap[l.patches_off].size, Data(a, l.patches_off))
    BY <1>1, <1>2 DEF Proper, WellTyped
<1>4. p \in PatchCells(shape)
    BY <1>1, <1>2, <1>3 DEF HoldsData, PatchAt
<1> HIDE DEF p
<1>5. p.transform_capacity > 0 => Refers(shape, p.transforms_off, "transforms", p.transform_capacity)
    BY <1>4 DEF PatchCells
<1>6. DOMAIN shape = Blocks(a)
    BY DEF Proper, WellTyped
<1> QED
    BY <1>2, <1>4, <1>5, <1>6 DEF p, Refers

(* What a patch holds depends on its strings and its array of transforms.    *)
LEMMA SameContents ==
    ASSUME NEW a, NEW shape, Proper(a, shape), NEW p \in PatchCells(shape), NEW b,
           Kept(a, shape, "string", b),
           p.transform_capacity > 0 => Data(b, p.transforms_off) = Data(a, p.transforms_off)
    PROVE  Contents(b, p) = Contents(a, p)
<1>1. DOMAIN shape = Blocks(a)
    BY DEF Proper, WellTyped
<1>2. \A o \in StringCells(shape) : StringAt(b, o) = StringAt(a, o)
    BY <1>1 DEF StringCells, StringAt, Kept, Data
<1>3. /\ p.file_off \in StringCells(shape) /\ p.find_off \in StringCells(shape)
      /\ p.transform_count \in Nat /\ p.transform_capacity \in Nat
      /\ p.transform_count <= p.transform_capacity
      /\ p.transform_capacity > 0 => Refers(shape, p.transforms_off, "transforms", p.transform_capacity)
    BY DEF PatchCells
<1>4. TransformsOf(b, p) = TransformsOf(a, p)
  <2>1. ASSUME NEW k \in 1 .. p.transform_count
        PROVE  /\ Data(b, p.transforms_off)[k - 1] = Data(a, p.transforms_off)[k - 1]
               /\ Data(a, p.transforms_off)[k - 1] \in TransformCells(shape)
    <3> DEFINE o == p.transforms_off
    <3>1. /\ p.transform_capacity > 0 /\ k - 1 \in 0 .. p.transform_capacity - 1
          /\ o \in Blocks(a) /\ shape[o].type = "transforms" /\ shape[o].len = p.transform_capacity
        BY <1>1, <1>3 DEF Refers
    <3>2. HoldsData(shape, shape[o], a.heap[o].size, Data(a, o))
        BY <3>1 DEF Proper, WellTyped
    <3> QED
        BY <3>1, <3>2 DEF HoldsData
  <2>2. ASSUME NEW k \in 1 .. p.transform_count
        PROVE  LET t == Data(a, p.transforms_off)[k - 1]
               IN  /\ StringAt(b, t.match_off) = StringAt(a, t.match_off)
                   /\ StringAt(b, t.replace_off) = StringAt(a, t.replace_off)
      BY <1>2, <2>1 DEF TransformCells
  <2> QED
      BY <2>1, <2>2 DEF TransformsOf
<1> QED
    BY <1>2, <1>3, <1>4 DEF Contents

(* PatchesOf, cell by cell                                                   *)
LEMMA PatchesAsContents ==
    ASSUME NEW a, NEW i
    PROVE  PatchesOf(a, Values(a)[i]) =
              [k \in 1 .. Values(a)[i].patch_count |-> Contents(a, PatchAt(a, i, k - 1))]
    BY DEF PatchesOf, Contents, PatchAt

IsTuple(f, n) == f = [k \in 1 .. n |-> f[k]]

(* Append, cell by cell                                                      *)
LEMMA AppendFacts ==
    ASSUME NEW n \in Nat, NEW f, IsTuple(f, n), NEW h, IsTuple(h, n + 1),
           \A k \in 1 .. n : h[k] = f[k]
    PROVE  h = Append(f, h[n + 1]) /\ Len(f) = n /\ Len(h) = n + 1
<1> DEFINE S == {h[k] : k \in 1 .. n + 1}
<1>0. \A k \in 1 .. n + 1 : h[k] \in S
    OBVIOUS
<1> HIDE DEF S
<1>1. f \in Seq(S) /\ Len(f) = n
  <2>1. f \in [1 .. n -> S]
    <3>1. \A k \in 1 .. n : f[k] \in S
        BY <1>0
    <3> QED
        BY <3>1 DEF IsTuple
  <2> QED
      BY <2>1
<1>2. h \in Seq(S) /\ Len(h) = n + 1
  <2>1. h \in [1 .. n + 1 -> S] /\ n + 1 \in Nat
      BY <1>0 DEF IsTuple
  <2> QED
      BY <2>1
<1>3. h[n + 1] \in S
    BY <1>0
<1>4. Append(f, h[n + 1]) = h
  <2> DEFINE e == h[n + 1]
  <2> HIDE DEF e
  <2>1. Append(f, e) \in Seq(S) /\ Len(Append(f, e)) = n + 1
      BY <1>1, <1>3 DEF e
  <2>2. \A k \in 1 .. n : Append(f, e)[k] = h[k]
      BY <1>1
  <2>3. Append(f, e)[n + 1] = h[n + 1]
      BY <1>1 DEF e
  <2>4. ASSUME NEW k \in 1 .. n + 1 PROVE Append(f, e)[k] = h[k]
    <3>1. k \in 1 .. n \/ k = n + 1
        OBVIOUS
    <3> QED
        BY <2>2, <2>3, <3>1
  <2> QED
      BY <1>2, <2>1, <2>4 DEF e
<1> QED
    BY <1>1, <1>2, <1>4

(* equal keys have equal names, as long as no name is overwritten            *)
LEMMA SameNames ==
    ASSUME NEW a, NEW shape, Proper(a, shape), MapOK(a, shape), NEW b, Kept(a, shape, "name", b),
           NEW i \in Entries(a), NEW j, Keys(b)[j] = Keys(a)[i]
    PROVE  NameAt(b, j) = NameAt(a, i)
<1>1. Keys(a)[i] \in KeyCells(shape) /\ DOMAIN shape = Blocks(a)
  <2>1. /\ Keys(a) \in [0 .. a.map.capacity - 1 -> KeyCells(shape)]
        /\ a.map.count \in Nat /\ a.map.capacity \in Nat /\ a.map.count <= a.map.capacity
        /\ DOMAIN shape = Blocks(a)
      BY MapFacts
  <2> QED
      BY <2>1 DEF Entries
<1> QED
    BY <1>1 DEF NameAt, KeyCells, Kept, Data

(* Entry i of b has one more patch than in a, and nothing else has changed.  *)
OneMorePatch(a, b, i, patch) ==
    /\ \A j \in Entries(a) \ {i} : PatchesOf(b, Values(b)[j]) = PatchesOf(a, Values(a)[j])
    /\ PatchesOf(b, Values(b)[i]) = Append(PatchesOf(a, Values(a)[i]), patch)

(* patchlist_add() appends a patch to its list and touches no other          *)
LEMMA PatchStep ==
    ASSUME NEW a, NEW shape, Proper(a, shape), MapOK(a, shape), OwnLists(a), OwnTransforms(a),
           NEW i \in Entries(a), NEW list, list = [block |-> a.map.values_off, idx |-> i],
           NEW file, NEW find, NEW b, NEW new, NEW g, NEW so, NEW to,
           AddedPatch(a, shape, list, file, find, b, new, g, so, to)
    PROVE  /\ MapOK(b, new) /\ Entries(b) = Entries(a) /\ b.map = a.map
           /\ \A j \in Entries(a) : NameAt(b, j) = NameAt(a, j)
           /\ OwnLists(b) /\ OwnTransforms(b)
           /\ Values(b)[i].patch_count = Values(a)[i].patch_count + 1 /\ Values(b)[i].patches_off = g
           /\ OneMorePatch(a, b, i, [file |-> StringAt(b, so), find |-> StringAt(b, to),
                                     transforms |-> <<>>])
<1> DEFINE l == Values(a)[i]
           n == l.patch_count
           vo == a.map.values_off
           ko == a.map.keys_off
<1>0. list.block = vo /\ list.idx = i /\ Data(a, list.block)[list.idx] = l
    BY DEF Values
<1>1. /\ Grows(shape, new) /\ Proper(b, new) /\ b.map = a.map /\ Blocks(a) \subseteq Blocks(b)
      /\ g \in Blocks(b) /\ new[g].type = "patches" /\ n \in 0 .. new[g].len - 1
      /\ g \in Blocks(a) => g = l.patches_off /\ l.patch_capacity > 0
      /\ \A o \in Blocks(a) \ {g, vo} : b.heap[o] = a.heap[o]
      /\ Values(b) = Put(Values(a), i,
             [patches_off |-> g, patch_count |-> n + 1, patch_capacity |-> new[g].len])
      /\ \A k \in 0 .. n - 1 : Data(b, g)[k] = Data(a, l.patches_off)[k]
      /\ Data(b, g)[n] = [file_off |-> so, find_off |-> to, transforms_off |-> 0,
                          transform_count |-> 0, transform_capacity |-> 0]
    BY <1>0 DEF AddedPatch, Values
<1>2. /\ ko \in Blocks(a) /\ vo \in Blocks(a) /\ shape[ko].type = "keys" /\ shape[vo].type = "values"
      /\ ko # vo /\ DOMAIN shape = Blocks(a) /\ a.map.count \in Nat /\ a.map.capacity \in Nat
      /\ a.map.count <= a.map.capacity
      /\ Values(a) \in [0 .. a.map.capacity - 1 -> ListCells(shape)]
    BY MapFacts
<1>3. /\ MapOK(b, new) /\ Entries(b) = Entries(a)
    BY <1>1, <1>2 DEF MapOK, Refers, Grows, Entries
<1>4. \A o \in Blocks(a) : shape[o].type \notin {"patches", "values"} => b.heap[o] = a.heap[o]
  <2>1. \A o \in Blocks(a) : new[o] = shape[o]
      BY <1>1, <1>2 DEF Grows
  <2> QED
      BY <1>1, <1>2, <2>1
<1>5. Kept(a, shape, "string", b) /\ Kept(a, shape, "name", b) /\ Kept(a, shape, "transforms", b)
    BY <1>4 DEF Kept
<1>6. \A j \in Entries(a) : NameAt(b, j) = NameAt(a, j)
  <2>1. Keys(b) = Keys(a)
      BY <1>1, <1>2, <1>4 DEF Keys, Data
  <2> QED
      BY <1>5, <2>1, SameNames
<1>7. /\ \A j \in Entries(a) \ {i} : Values(b)[j] = Values(a)[j]
      /\ Values(b)[i] = [patches_off |-> g, patch_count |-> n + 1, patch_capacity |-> new[g].len]
  <2>1. Entries(a) \subseteq DOMAIN Values(a)
      BY <1>2 DEF Entries
  <2> QED
      BY <1>1, <2>1 DEF Put
<1>8. Values(b)[i].patches_off = g /\ Values(b)[i].patch_count = n + 1
    BY <1>7
<1>9. n \in Nat
    BY ListFacts
<1> HIDE DEF l, n
<1>10. ASSUME NEW j \in Entries(a) \ {i}, Values(a)[j].patch_capacity > 0
       PROVE  /\ Values(a)[j].patches_off # g
              /\ Data(b, Values(a)[j].patches_off) = Data(a, Values(a)[j].patches_off)
  <2>1. Values(a)[j].patches_off \in Blocks(a) /\ shape[Values(a)[j].patches_off].type = "patches"
      BY <1>10, ListFacts
  <2>2. Values(a)[j].patches_off # g
      BY <1>1, <1>10, <2>1 DEF OwnLists, l
  <2> QED
      BY <1>1, <1>2, <2>1, <2>2 DEF Data
<1>11. ASSUME NEW j \in Entries(a), NEW k \in PatchesIn(a, j)
       PROVE  PatchAt(b, j, k) = PatchAt(a, j, k) /\ k \in PatchesIn(b, j)
  <2>1. CASE j = i
      BY <1>1, <1>8, <1>9, <2>1 DEF PatchAt, PatchesIn, l, n
  <2>2. CASE j # i
    <3>1. Values(a)[j].patch_capacity > 0
        BY PatchFacts
    <3> QED
        BY <1>7, <1>10, <2>2, <3>1 DEF PatchAt, PatchesIn
  <2> QED
      BY <2>1, <2>2
<1>12. PatchAt(b, i, n) = [file_off |-> so, find_off |-> to, transforms_off |-> 0,
                           transform_count |-> 0, transform_capacity |-> 0]
    BY <1>1, <1>8 DEF PatchAt
<1>13. OwnLists(b)
  <2> SUFFICES ASSUME NEW j \in Entries(a), NEW k \in Entries(a),
                      Values(b)[j].patch_capacity > 0, Values(b)[k].patch_capacity > 0,
                      Values(b)[j].patches_off = Values(b)[k].patches_off, j # k
               PROVE  FALSE
      BY <1>3 DEF OwnLists
  <2>1. CASE j = i
      BY <1>7, <1>8, <1>10, <2>1
  <2>2. CASE k = i
      BY <1>7, <1>8, <1>10, <2>2
  <2>3. CASE j # i /\ k # i
      BY <1>7, <2>3 DEF OwnLists
  <2> QED
      BY <2>1, <2>2, <2>3
<1>14. ASSUME NEW j \in Entries(a), NEW k \in PatchesIn(b, j), PatchAt(b, j, k).transform_capacity > 0
       PROVE  k \in PatchesIn(a, j) /\ PatchAt(b, j, k) = PatchAt(a, j, k)
  <2>1. CASE j = i
    <3>1. k # n
        BY <1>12, <1>14, <2>1
    <3>2. k \in PatchesIn(a, j)
        BY <1>8, <1>9, <2>1, <3>1 DEF PatchesIn, n, l
    <3> QED
        BY <1>11, <3>2
  <2>2. CASE j # i
    <3>1. k \in PatchesIn(a, j)
        BY <1>7, <2>2 DEF PatchesIn
    <3> QED
        BY <1>11, <3>1
  <2> QED
      BY <2>1, <2>2
<1>15. OwnTransforms(b)
    BY <1>3, <1>14 DEF OwnTransforms
<1>16. ASSUME NEW j \in Entries(a), NEW k \in PatchesIn(a, j)
       PROVE  Contents(b, PatchAt(b, j, k)) = Contents(a, PatchAt(a, j, k))
  <2>1. /\ PatchAt(a, j, k) \in PatchCells(shape)
        /\ PatchAt(a, j, k).transform_capacity > 0 =>
              /\ PatchAt(a, j, k).transforms_off \in Blocks(a)
              /\ shape[PatchAt(a, j, k).transforms_off].type = "transforms"
      BY PatchFacts
  <2>2. PatchAt(a, j, k).transform_capacity > 0 =>
            Data(b, PatchAt(a, j, k).transforms_off) = Data(a, PatchAt(a, j, k).transforms_off)
      BY <1>5, <2>1 DEF Kept, Data
  <2>3. Contents(b, PatchAt(a, j, k)) = Contents(a, PatchAt(a, j, k))
      BY <1>5, <2>1, <2>2, SameContents
  <2> QED
      BY <1>11, <2>3
<1>17. ASSUME NEW j \in Entries(a) \ {i}
       PROVE  PatchesOf(b, Values(b)[j]) = PatchesOf(a, Values(a)[j])
  <2>1. Values(a)[j].patch_count \in Nat /\ Values(b)[j].patch_count = Values(a)[j].patch_count
      BY <1>7, ListFacts
  <2>2. \A k \in 1 .. Values(a)[j].patch_count :
            Contents(b, PatchAt(b, j, k - 1)) = Contents(a, PatchAt(a, j, k - 1))
      BY <1>16, <2>1 DEF PatchesIn
  <2>3. /\ PatchesOf(a, Values(a)[j]) =
              [k \in 1 .. Values(a)[j].patch_count |-> Contents(a, PatchAt(a, j, k - 1))]
        /\ PatchesOf(b, Values(b)[j]) =
              [k \in 1 .. Values(b)[j].patch_count |-> Contents(b, PatchAt(b, j, k - 1))]
      BY PatchesAsContents
  <2> QED
      BY <2>1, <2>2, <2>3
<1> DEFINE patch == [file |-> StringAt(b, so), find |-> StringAt(b, to), transforms |-> <<>>]
           f == PatchesOf(a, Values(a)[i])
           h == PatchesOf(b, Values(b)[i])
<1>18. h = Append(f, patch)
  <2>1. /\ f = [k \in 1 .. n |-> Contents(a, PatchAt(a, i, k - 1))]
        /\ h = [k \in 1 .. n + 1 |-> Contents(b, PatchAt(b, i, k - 1))]
      BY <1>8, PatchesAsContents DEF l, n
  <2>2. Contents(b, PatchAt(b, i, n)) = patch
      BY <1>12 DEF Contents, TransformsOf
  <2>3. \A k \in 1 .. n : Contents(b, PatchAt(b, i, k - 1)) = Contents(a, PatchAt(a, i, k - 1))
      BY <1>9, <1>16 DEF PatchesIn, l, n
  <2> HIDE DEF f, h, patch
  <2>4. IsTuple(f, n) /\ IsTuple(h, n + 1) /\ \A k \in 1 .. n : h[k] = f[k]
      BY <1>9, <2>1, <2>3 DEF IsTuple
  <2>5. h[n + 1] = patch
      BY <1>9, <2>1, <2>2
  <2>6. h = Append(f, h[n + 1])
      BY <1>9, <2>4, AppendFacts
  <2> QED
      BY <2>5, <2>6
<1> QED
    BY <1>1, <1>3, <1>6, <1>8, <1>13, <1>15, <1>17, <1>18 DEF OneMorePatch, n, l

(* Patch k of entry i has one more transform in b, nothing else has changed. *)
WithTransform(patch, t) == [patch EXCEPT !.transforms = Append(@, t)]
OneMoreTransform(a, b, i, k, t) ==
    /\ \A j \in Entries(a) \ {i} : PatchesOf(b, Values(b)[j]) = PatchesOf(a, Values(a)[j])
    /\ PatchesOf(b, Values(b)[i]) =
          [PatchesOf(a, Values(a)[i]) EXCEPT ![k + 1] = WithTransform(@, t)]

(* patch_add_transform() appends to its patch and touches no other           *)
LEMMA TransformStep ==
    ASSUME NEW a, NEW shape, Proper(a, shape), MapOK(a, shape), OwnLists(a), OwnTransforms(a),
           NEW i \in Entries(a), NEW k0 \in PatchesIn(a, i),
           NEW patch, patch = [block |-> Values(a)[i].patches_off, idx |-> k0],
           NEW match, NEW replace, NEW b, NEW new, NEW g, NEW so, NEW to,
           AddedTransform(a, shape, patch, match, replace, b, new, g, so, to)
    PROVE  /\ MapOK(b, new) /\ Entries(b) = Entries(a) /\ b.map = a.map
           /\ \A j \in Entries(a) : NameAt(b, j) = NameAt(a, j)
           /\ OwnLists(b) /\ OwnTransforms(b) /\ Values(b) = Values(a)
           /\ OneMoreTransform(a, b, i, k0, [match |-> StringAt(b, so), replace |-> StringAt(b, to)])
<1> DEFINE po == Values(a)[i].patches_off
           p == PatchAt(a, i, k0)
           n == p.transform_count
           vo == a.map.values_off
           ko == a.map.keys_off
           q == [file_off |-> p.file_off, find_off |-> p.find_off, transforms_off |-> g,
                 transform_count |-> n + 1, transform_capacity |-> new[g].len]
<1>0. patch.block = po /\ patch.idx = k0 /\ Data(a, patch.block)[patch.idx] = p
    BY DEF PatchAt
<1>1. /\ Grows(shape, new) /\ Proper(b, new) /\ b.map = a.map /\ Blocks(a) \subseteq Blocks(b)
      /\ g \in Blocks(b) /\ new[g].type = "transforms" /\ n \in 0 .. new[g].len - 1
      /\ g \in Blocks(a) => g = p.transforms_off /\ p.transform_capacity > 0
      /\ \A o \in Blocks(a) \ {g, po} : b.heap[o] = a.heap[o]
      /\ Data(b, po) = Put(Data(a, po), k0, q)
      /\ \A k \in 0 .. n - 1 : Data(b, g)[k] = Data(a, p.transforms_off)[k]
      /\ Data(b, g)[n] = [match_off |-> so, replace_off |-> to]
    BY <1>0 DEF AddedTransform
<1>2. /\ ko \in Blocks(a) /\ vo \in Blocks(a) /\ shape[ko].type = "keys" /\ shape[vo].type = "values"
      /\ DOMAIN shape = Blocks(a) /\ a.map.count \in Nat
    BY MapFacts
<1>3. /\ MapOK(b, new) /\ Entries(b) = Entries(a)
    BY <1>1, <1>2 DEF MapOK, Refers, Grows, Entries
<1>4. /\ Values(a)[i].patch_count \in Nat /\ Values(a)[i].patch_capacity > 0
      /\ po \in Blocks(a) /\ shape[po].type = "patches"
      /\ p \in PatchCells(shape)
      /\ DOMAIN Data(a, po) = 0 .. Values(a)[i].patch_capacity - 1
      /\ PatchesIn(a, i) \subseteq DOMAIN Data(a, po)
  <2>1. /\ p \in PatchCells(shape) /\ Values(a)[i].patch_capacity > 0
      BY PatchFacts
  <2>2. /\ Values(a)[i].patch_count \in Nat /\ Values(a)[i].patch_capacity \in Nat
        /\ Values(a)[i].patch_count <= Values(a)[i].patch_capacity
        /\ po \in Blocks(a) /\ shape[po].type = "patches" /\ shape[po].len = Values(a)[i].patch_capacity
      BY <2>1, ListFacts
  <2>3. HoldsData(shape, shape[po], a.heap[po].size, Data(a, po))
      BY <2>2 DEF Proper, WellTyped
  <2>4. DOMAIN Data(a, po) = 0 .. Values(a)[i].patch_capacity - 1
      BY <2>2, <2>3 DEF HoldsData
  <2> QED
      BY <2>1, <2>2, <2>4 DEF PatchesIn
<1>5. \A o \in Blocks(a) : shape[o].type \notin {"patches", "transforms"} => b.heap[o] = a.heap[o]
  <2>1. \A o \in Blocks(a) : new[o] = shape[o]
      BY <1>1, <1>2 DEF Grows
  <2> QED
      BY <1>1, <1>4, <2>1
<1>6. Kept(a, shape, "string", b) /\ Kept(a, shape, "name", b)
    BY <1>5 DEF Kept
<1>7. Keys(b) = Keys(a) /\ Values(b) = Values(a)
    BY <1>1, <1>2, <1>5 DEF Keys, Values, Data
<1>8. \A j \in Entries(a) : NameAt(b, j) = NameAt(a, j)
    BY <1>6, <1>7, SameNames
<1>9. /\ n \in Nat /\ p.transform_capacity \in Nat /\ n <= p.transform_capacity
      /\ p.file_off \in StringCells(shape) /\ p.find_off \in StringCells(shape)
      /\ p.transform_capacity > 0 => Refers(shape, p.transforms_off, "transforms", p.transform_capacity)
    BY <1>4 DEF PatchCells
<1> HIDE DEF p, n, po
<1>10. PatchAt(b, i, k0) = q
    BY <1>1, <1>4, <1>7 DEF PatchAt, Put, po
<1>11. q.transforms_off = g /\ q.transform_count = n + 1 /\ q.file_off = p.file_off /\ q.find_off = p.find_off
    OBVIOUS
<1> HIDE DEF q
<1>12. ASSUME NEW j \in Entries(a), NEW k \in PatchesIn(a, j), ~(j = i /\ k = k0)
       PROVE  PatchAt(b, j, k) = PatchAt(a, j, k)
  <2>1. CASE j = i
      BY <1>1, <1>4, <1>7, <1>12, <2>1, ZenonT(30) DEF PatchAt, Put, po
  <2>2. CASE j # i
    <3>1. Values(a)[j].patch_capacity > 0
        BY PatchFacts
    <3>2. /\ Values(a)[j].patches_off \in Blocks(a)
          /\ shape[Values(a)[j].patches_off].type = "patches"
        BY <3>1, ListFacts
    <3>3. Values(a)[j].patches_off # po
        BY <1>4, <2>2, <3>1 DEF OwnLists, po
    <3>4. Values(a)[j].patches_off # g
        BY <1>1, <1>2, <3>2 DEF Grows
    <3> QED
        BY <1>1, <1>7, <3>2, <3>3, <3>4 DEF PatchAt, Data
  <2> QED
      BY <2>1, <2>2
<1>13. ASSUME NEW j \in Entries(a), NEW k \in PatchesIn(a, j), ~(j = i /\ k = k0),
              PatchAt(a, j, k).transform_capacity > 0
       PROVE  /\ PatchAt(a, j, k).transforms_off # g
              /\ Data(b, PatchAt(a, j, k).transforms_off) = Data(a, PatchAt(a, j, k).transforms_off)
  <2>1. /\ PatchAt(a, j, k).transforms_off \in Blocks(a)
        /\ shape[PatchAt(a, j, k).transforms_off].type = "transforms"
      BY <1>13, PatchFacts
  <2>2. PatchAt(a, j, k).transforms_off # g
      BY <1>1, <1>13, <2>1 DEF OwnTransforms, p
  <2> QED
      BY <1>1, <1>4, <2>1, <2>2 DEF Data
<1>14. OwnLists(b)
    BY <1>3, <1>7 DEF OwnLists
<1>15. OwnTransforms(b)
  <2> SUFFICES ASSUME NEW x \in Entries(a), NEW y \in Entries(a),
                      NEW k \in PatchesIn(a, x), NEW l \in PatchesIn(a, y),
                      PatchAt(b, x, k).transform_capacity > 0, PatchAt(b, y, l).transform_capacity > 0,
                      PatchAt(b, x, k).transforms_off = PatchAt(b, y, l).transforms_off,
                      ~(x = y /\ k = l)
               PROVE  FALSE
      BY <1>3, <1>7 DEF OwnTransforms, PatchesIn
  <2>1. CASE x = i /\ k = k0
    <3>1. ~(y = i /\ l = k0)
        BY <2>1
    <3> QED
        BY <1>10, <1>11, <1>12, <1>13, <2>1, <3>1
  <2>2. CASE y = i /\ l = k0
    <3>1. ~(x = i /\ k = k0)
        BY <2>2
    <3> QED
        BY <1>10, <1>11, <1>12, <1>13, <2>2, <3>1
  <2>3. CASE ~(x = i /\ k = k0) /\ ~(y = i /\ l = k0)
      BY <1>12, <2>3 DEF OwnTransforms
  <2> QED
      BY <2>1, <2>2, <2>3
<1>16. ASSUME NEW j \in Entries(a), NEW k \in PatchesIn(a, j), ~(j = i /\ k = k0)
       PROVE  Contents(b, PatchAt(b, j, k)) = Contents(a, PatchAt(a, j, k))
  <2>1. PatchAt(a, j, k) \in PatchCells(shape)
      BY PatchFacts
  <2>2. Contents(b, PatchAt(a, j, k)) = Contents(a, PatchAt(a, j, k))
      BY <1>6, <1>13, <1>16, <2>1, SameContents
  <2> QED
      BY <1>12, <1>16, <2>2
<1> DEFINE t == [match |-> StringAt(b, so), replace |-> StringAt(b, to)]
<1>17. Contents(b, q) = WithTransform(Contents(a, p), t)
  <2>1. \A o \in StringCells(shape) : StringAt(b, o) = StringAt(a, o)
      BY <1>2, <1>6 DEF StringCells, StringAt, Kept, Data
  <2> DEFINE f == TransformsOf(a, p)
             h == TransformsOf(b, q)
             At(x, c) == [match |-> StringAt(x, c.match_off), replace |-> StringAt(x, c.replace_off)]
  <2>2. /\ f = [k \in 1 .. n |-> At(a, Data(a, p.transforms_off)[k - 1])]
        /\ h = [k \in 1 .. n + 1 |-> At(b, Data(b, g)[k - 1])]
      BY <1>11 DEF TransformsOf, n
  <2>3. \A k \in 1 .. n : At(b, Data(b, g)[k - 1]) = At(a, Data(a, p.transforms_off)[k - 1])
    <3> TAKE k \in 1 .. n
    <3>1. /\ p.transform_capacity > 0 /\ k - 1 \in 0 .. n - 1 /\ k - 1 \in 0 .. p.transform_capacity - 1
          /\ p.transforms_off \in Blocks(a) /\ shape[p.transforms_off].type = "transforms"
          /\ shape[p.transforms_off].len = p.transform_capacity
        BY <1>2, <1>9 DEF Refers
    <3>2. HoldsData(shape, shape[p.transforms_off], a.heap[p.transforms_off].size, Data(a, p.transforms_off))
        BY <3>1 DEF Proper, WellTyped
    <3>3. Data(a, p.transforms_off)[k - 1] \in TransformCells(shape)
        BY <3>1, <3>2 DEF HoldsData
    <3>4. Data(b, g)[k - 1] = Data(a, p.transforms_off)[k - 1]
        BY <1>1, <3>1
    <3> QED
        BY <2>1, <3>3, <3>4 DEF TransformCells
  <2>4. At(b, Data(b, g)[(n + 1) - 1]) = t
    <3>1. (n + 1) - 1 = n
        BY <1>9
    <3> QED
        BY <1>1, <3>1
  <2> HIDE DEF f, h, At, t
  <2>5. IsTuple(f, n) /\ IsTuple(h, n + 1) /\ \A k \in 1 .. n : h[k] = f[k]
      BY <1>9, <2>2, <2>3 DEF IsTuple
  <2>6. h[n + 1] = t
      BY <1>9, <2>2, <2>4
  <2>7. h = Append(f, h[n + 1])
      BY <1>9, <2>5, AppendFacts
  <2>8. Contents(a, p) = [file |-> StringAt(a, p.file_off), find |-> StringAt(a, p.find_off), transforms |-> f]
      BY DEF Contents, f
  <2>9. Contents(b, q) = [file |-> StringAt(a, p.file_off), find |-> StringAt(a, p.find_off), transforms |-> h]
      BY <1>9, <1>11, <2>1 DEF Contents, h
  <2> QED
      BY <2>6, <2>7, <2>8, <2>9 DEF WithTransform
<1>18. ASSUME NEW j \in Entries(a) \ {i}
       PROVE  PatchesOf(b, Values(b)[j]) = PatchesOf(a, Values(a)[j])
  <2>1. Values(a)[j].patch_count \in Nat /\ Values(b)[j].patch_count = Values(a)[j].patch_count
      BY <1>7, ListFacts
  <2>2. \A k \in 1 .. Values(a)[j].patch_count :
            Contents(b, PatchAt(b, j, k - 1)) = Contents(a, PatchAt(a, j, k - 1))
      BY <1>16, <2>1 DEF PatchesIn
  <2>3. /\ PatchesOf(a, Values(a)[j]) =
              [k \in 1 .. Values(a)[j].patch_count |-> Contents(a, PatchAt(a, j, k - 1))]
        /\ PatchesOf(b, Values(b)[j]) =
              [k \in 1 .. Values(b)[j].patch_count |-> Contents(b, PatchAt(b, j, k - 1))]
      BY PatchesAsContents
  <2> QED
      BY <2>1, <2>2, <2>3
<1>19. PatchesOf(b, Values(b)[i]) = [PatchesOf(a, Values(a)[i]) EXCEPT ![k0 + 1] = WithTransform(@, t)]
  <2> DEFINE f == PatchesOf(a, Values(a)[i])
             h == PatchesOf(b, Values(b)[i])
             c == Values(a)[i].patch_count
  <2>1. /\ f = [k \in 1 .. c |-> Contents(a, PatchAt(a, i, k - 1))]
        /\ h = [k \in 1 .. c |-> Contents(b, PatchAt(b, i, k - 1))]
      BY <1>7, PatchesAsContents
  <2>2. c \in Nat /\ k0 \in 0 .. c - 1 /\ (k0 + 1) - 1 = k0 /\ k0 + 1 \in 1 .. c
      BY <1>4 DEF PatchesIn
  <2>3. ASSUME NEW k \in 1 .. c, k # k0 + 1
        PROVE  Contents(b, PatchAt(b, i, k - 1)) = Contents(a, PatchAt(a, i, k - 1))
    <3>1. k - 1 \in PatchesIn(a, i) /\ k - 1 # k0
        BY <2>2, <2>3 DEF PatchesIn
    <3> QED
        BY <1>16, <3>1
  <2>4. Contents(b, PatchAt(b, i, (k0 + 1) - 1)) = WithTransform(Contents(a, PatchAt(a, i, (k0 + 1) - 1)), t)
      BY <1>10, <1>17, <2>2 DEF p
  <2> HIDE DEF f, h, c, t
  <2>5. /\ DOMAIN f = 1 .. c /\ h = [k \in 1 .. c |-> h[k]]
        /\ h[k0 + 1] = WithTransform(f[k0 + 1], t)
        /\ \A k \in 1 .. c : k # k0 + 1 => h[k] = f[k]
      BY <2>1, <2>2, <2>3, <2>4
  <2>6. h = [f EXCEPT ![k0 + 1] = WithTransform(f[k0 + 1], t)]
    <3> DEFINE w == WithTransform(f[k0 + 1], t)
    <3> HIDE DEF w
    <3>1. h = [f EXCEPT ![k0 + 1] = w]
        BY <2>1, <2>2, <2>5 DEF w
    <3> QED
        BY <3>1 DEF w
  <2> QED
      BY <2>6 DEF f, h
<1> QED
    BY <1>1, <1>3, <1>7, <1>8, <1>14, <1>15, <1>18, <1>19 DEF OneMoreTransform

(* An entry keeps its name and its patches wherever the map puts it.         *)
LEMMA SameEntry ==
    ASSUME NEW a, NEW shape, Proper(a, shape), MapOK(a, shape), NEW b,
           \A o \in Blocks(a) \ {a.map.keys_off, a.map.values_off} : b.heap[o] = a.heap[o],
           NEW i \in Entries(a), NEW j, Keys(b)[j] = Keys(a)[i], Values(b)[j] = Values(a)[i]
    PROVE  /\ NameAt(b, j) = NameAt(a, i)
           /\ PatchesOf(b, Values(b)[j]) = PatchesOf(a, Values(a)[i])
           /\ PatchesIn(b, j) = PatchesIn(a, i)
           /\ \A k \in PatchesIn(a, i) : PatchAt(b, j, k) = PatchAt(a, i, k)
<1>1. /\ shape[a.map.keys_off].type = "keys" /\ shape[a.map.values_off].type = "values"
    BY MapFacts
<1>2. /\ Kept(a, shape, "string", b) /\ Kept(a, shape, "name", b)
      /\ Kept(a, shape, "patches", b) /\ Kept(a, shape, "transforms", b)
    BY <1>1 DEF Kept
<1>3. NameAt(b, j) = NameAt(a, i)
    BY <1>2, SameNames
<1>4. PatchesIn(b, j) = PatchesIn(a, i)
    BY DEF PatchesIn
<1>5. ASSUME NEW k \in PatchesIn(a, i) PROVE PatchAt(b, j, k) = PatchAt(a, i, k)
  <2>1. Values(a)[i].patch_capacity > 0
      BY PatchFacts
  <2>2. Values(a)[i].patches_off \in Blocks(a) /\ shape[Values(a)[i].patches_off].type = "patches"
      BY <2>1, ListFacts
  <2> QED
      BY <1>2, <2>2 DEF PatchAt, Kept, Data
<1>6. ASSUME NEW k \in PatchesIn(a, i)
      PROVE  Contents(b, PatchAt(b, j, k)) = Contents(a, PatchAt(a, i, k))
  <2>1. /\ PatchAt(a, i, k) \in PatchCells(shape)
        /\ PatchAt(a, i, k).transform_capacity > 0 =>
              /\ PatchAt(a, i, k).transforms_off \in Blocks(a)
              /\ shape[PatchAt(a, i, k).transforms_off].type = "transforms"
      BY PatchFacts
  <2>2. PatchAt(a, i, k).transform_capacity > 0 =>
            Data(b, PatchAt(a, i, k).transforms_off) = Data(a, PatchAt(a, i, k).transforms_off)
      BY <1>2, <2>1 DEF Kept, Data
  <2>3. Contents(b, PatchAt(a, i, k)) = Contents(a, PatchAt(a, i, k))
      BY <1>2, <2>1, <2>2, SameContents
  <2> QED
      BY <1>5, <2>3
<1>7. PatchesOf(b, Values(b)[j]) = PatchesOf(a, Values(a)[i])
  <2>1. Values(a)[i].patch_count \in Nat
      BY ListFacts
  <2>2. \A k \in 1 .. Values(a)[i].patch_count :
            Contents(b, PatchAt(b, j, k - 1)) = Contents(a, PatchAt(a, i, k - 1))
      BY <1>6, <2>1 DEF PatchesIn
  <2>3. /\ PatchesOf(a, Values(a)[i]) =
              [k \in 1 .. Values(a)[i].patch_count |-> Contents(a, PatchAt(a, i, k - 1))]
        /\ PatchesOf(b, Values(b)[j]) =
              [k \in 1 .. Values(b)[j].patch_count |-> Contents(b, PatchAt(b, j, k - 1))]
      BY PatchesAsContents
  <2> QED
      BY <2>2, <2>3
<1> QED
    BY <1>3, <1>4, <1>5, <1>7

(* The entries of b are entries of a, at places f, or empty.                 *)
Moved(a, b, D, f) ==
    /\ \A o \in Blocks(a) \ {a.map.keys_off, a.map.values_off} : b.heap[o] = a.heap[o]
    /\ \A j \in Entries(b) \ D : Values(b)[j] = EmptyList
    /\ \A j \in D : /\ f[j] \in Entries(a)
                    /\ Keys(b)[j] = Keys(a)[f[j]] /\ Values(b)[j] = Values(a)[f[j]]
    /\ \A j, k \in D : f[j] = f[k] => j = k

(* owners stay distinct when entries move without being duplicated           *)
LEMMA OwnersMoved ==
    ASSUME NEW a, NEW shape, Proper(a, shape), MapOK(a, shape), OwnLists(a), OwnTransforms(a), NEW b,
           NEW D, NEW f, Moved(a, b, D, f)
    PROVE  OwnLists(b) /\ OwnTransforms(b)
<1>1. ASSUME NEW j \in Entries(b), Values(b)[j].patch_capacity > 0 PROVE j \in D
    BY <1>1 DEF Moved, EmptyList
<1>2. OwnLists(b)
    BY <1>1 DEF OwnLists, Moved
<1>3. ASSUME NEW j \in Entries(b), NEW k \in PatchesIn(b, j) PROVE j \in D
    BY DEF Moved, EmptyList, PatchesIn
<1>4. ASSUME NEW j \in D
      PROVE  /\ PatchesIn(b, j) = PatchesIn(a, f[j])
             /\ \A k \in PatchesIn(a, f[j]) : PatchAt(b, j, k) = PatchAt(a, f[j], k)
    BY SameEntry DEF Moved
<1>5. OwnTransforms(b)
  <2> SUFFICES ASSUME NEW x \in Entries(b), NEW y \in Entries(b),
                      NEW k \in PatchesIn(b, x), NEW l \in PatchesIn(b, y),
                      PatchAt(b, x, k).transform_capacity > 0, PatchAt(b, y, l).transform_capacity > 0,
                      PatchAt(b, x, k).transforms_off = PatchAt(b, y, l).transforms_off
               PROVE  x = y /\ k = l
      BY DEF OwnTransforms
  <2>1. x \in D /\ y \in D
      BY <1>3
  <2>2. /\ k \in PatchesIn(a, f[x]) /\ PatchAt(b, x, k) = PatchAt(a, f[x], k)
        /\ l \in PatchesIn(a, f[y]) /\ PatchAt(b, y, l) = PatchAt(a, f[y], l)
      BY <1>4, <2>1
  <2>3. f[x] = f[y] /\ k = l
      BY <2>1, <2>2 DEF OwnTransforms, Moved
  <2> QED
      BY <2>1, <2>3 DEF Moved
<1> QED
    BY <1>2, <1>5

(* The map is read by the name of a plugin.                                  *)
LEMMA RegisteredAt ==
    ASSUME NEW a, a.map.count \in Nat, Distinct(a), NEW p \in Plugins
    PROVE  /\ \A i \in Entries(a) : NameAt(a, i) = p => Registered(a)[p] = PatchesOf(a, Values(a)[i])
           /\ ~Has(a, p) => Registered(a)[p] = <<>>
           /\ Has(a, p) <=> \E i \in Entries(a) : NameAt(a, i) = p
<1>1. Has(a, p) <=> \E i \in Entries(a) : NameAt(a, i) = p
    BY DEF Has, Entries
<1>2. Registered(a)[p] = IF Has(a, p) THEN PatchesOf(a, Values(a)[IndexOf(a, p)]) ELSE <<>>
    BY DEF Registered
<1>3. ASSUME NEW i \in Entries(a), NameAt(a, i) = p
      PROVE  Registered(a)[p] = PatchesOf(a, Values(a)[i])
  <2>1. Has(a, p)
      BY <1>1, <1>3
  <2>2. i = IndexOf(a, p)
      BY <1>3, <2>1, IndexFacts DEF Entries
  <2> QED
      BY <1>2, <2>1, <2>2
<1> QED
    BY <1>1, <1>2, <1>3

(* Registered, plugin by plugin                                              *)
LEMMA RegisteredMap ==
    ASSUME NEW a
    PROVE  Registered(a) = [p \in Plugins |-> Registered(a)[p]] /\ DOMAIN Registered(a) = Plugins
    BY DEF Registered

-----------------------------------------------------------------------------
(* The functions of the arena, as the handlers call them                     *)

Live(a, shape) ==
    Proper(a, shape) /\ MapOK(a, shape) /\ Distinct(a) /\ OwnLists(a) /\ OwnTransforms(a)

(* list is the entry of the plugin, which may have lost its name             *)
ListOf(a, list, plugin) ==
    /\ list = [block |-> a.map.values_off, idx |-> list.idx] /\ list.idx \in Entries(a)
    /\ NameAt(a, list.idx) \in {plugin, NoName}
    /\ NameAt(a, list.idx) = NoName => ~Has(a, plugin)

(* patch is the last patch of the entry list                                 *)
LastPatch(a, list, patch) ==
    LET l == Values(a)[list.idx]
    IN  /\ l.patch_count > 0
        /\ patch = [block |-> l.patches_off, idx |-> l.patch_count - 1]

(* an entry was counted although its name could not be stored                *)
Nameless(a) == \E i \in Entries(a) : NameAt(a, i) = NoName

(* the number of entries is a natural number                                 *)
LEMMA LiveCount ==
    ASSUME NEW a, NEW shape, Live(a, shape)
    PROVE  a.map.count \in Nat /\ Entries(a) = 0 .. a.map.count - 1
    BY MapFacts DEF Live, Entries

(* The same names with the same patches make the same registry.              *)
LEMMA SameRegistry ==
    ASSUME NEW a, NEW shape, Live(a, shape), NEW b, NEW new, Live(b, new),
           NEW p \in Plugins,
           Has(b, p) <=> Has(a, p),
           \A j \in Entries(b) : NameAt(b, j) = p =>
               \E i \in Entries(a) : /\ NameAt(a, i) = p
                                     /\ PatchesOf(b, Values(b)[j]) = PatchesOf(a, Values(a)[i])
    PROVE  Registered(b)[p] = Registered(a)[p]
<1>1. a.map.count \in Nat /\ b.map.count \in Nat /\ Distinct(a) /\ Distinct(b)
    BY LiveCount DEF Live
<1>2. CASE ~Has(a, p)
    BY <1>1, <1>2, RegisteredAt
<1>3. CASE Has(a, p)
  <2>1. PICK j \in Entries(b) : NameAt(b, j) = p
      BY <1>1, <1>3, RegisteredAt
  <2>2. PICK i \in Entries(a) : NameAt(a, i) = p /\ PatchesOf(b, Values(b)[j]) = PatchesOf(a, Values(a)[i])
      BY <2>1
  <2>3. Registered(b)[p] = PatchesOf(b, Values(b)[j]) /\ Registered(a)[p] = PatchesOf(a, Values(a)[i])
      BY <1>1, <2>1, <2>2, RegisteredAt
  <2> QED
      BY <2>2, <2>3
<1> QED
    BY <1>2, <1>3

(* Growing the map changes nothing that can be read through it.              *)
LEMMA GrowStep ==
    ASSUME NEW a, NEW shape, Live(a, shape), NEW b, NEW new, GrownMap(a, shape, b, new)
    PROVE  /\ Live(b, new) /\ Entries(b) = Entries(a) /\ Registered(b) = Registered(a)
           /\ \A i \in Entries(a) : NameAt(b, i) = NameAt(a, i)
<1>1. /\ Proper(a, shape) /\ MapOK(a, shape) /\ Distinct(a) /\ OwnLists(a) /\ OwnTransforms(a)
      /\ Proper(b, new) /\ MapOK(b, new) /\ Entries(b) = Entries(a)
      /\ \A o \in Blocks(a) : b.heap[o] = a.heap[o]
      /\ \A i \in Entries(a) : Keys(b)[i] = Keys(a)[i] /\ Values(b)[i] = Values(a)[i]
    BY DEF Live, GrownMap, Entries
<1>2. \A i \in Entries(a) : /\ NameAt(b, i) = NameAt(a, i)
                            /\ PatchesOf(b, Values(b)[i]) = PatchesOf(a, Values(a)[i])
    BY <1>1, SameEntry
<1>3. OwnLists(b) /\ OwnTransforms(b)
  <2> DEFINE D == Entries(a)
             f == [i \in D |-> i]
  <2>1. Moved(a, b, D, f)
      BY <1>1 DEF Moved
  <2> HIDE DEF f, D
  <2> QED
      BY <1>1, <2>1, OwnersMoved
<1>4. Distinct(b)
    BY <1>1, <1>2 DEF Distinct, Entries
<1>5. Live(b, new)
    BY <1>1, <1>3, <1>4 DEF Live
<1>6. ASSUME NEW p \in Plugins PROVE Registered(b)[p] = Registered(a)[p]
  <2>1. Has(b, p) <=> Has(a, p)
      BY <1>1, <1>2 DEF Has, Entries
  <2> QED
      BY <1>1, <1>2, <1>5, <2>1, SameRegistry
<1>7. Registered(b) = Registered(a)
    BY <1>6, RegisteredMap
<1> QED
    BY <1>1, <1>2, <1>5, <1>7

(* a new entry keeps the invariant and registers nothing                     *)
LEMMA AddKeyStep ==
    ASSUME NEW a, NEW shape, Live(a, shape), NEW key \in Plugins, ~Has(a, key),
           NEW b, NEW new, AddedKey(a, shape, key, b, new)
    PROVE  /\ Live(b, new) /\ Registered(b) = Registered(a)
           /\ ListOf(b, [block |-> b.map.values_off, idx |-> a.map.count], key)
           /\ Nameless(b) => Nameless(a) \/ ~Has(b, key)
<1> DEFINE n == a.map.count
<1>1. /\ Proper(a, shape) /\ MapOK(a, shape) /\ Distinct(a) /\ OwnLists(a) /\ OwnTransforms(a)
      /\ Proper(b, new) /\ MapOK(b, new) /\ b.map.count = n + 1
      /\ \A o \in Blocks(a) \ {a.map.keys_off, a.map.values_off} : b.heap[o] = a.heap[o]
      /\ \A i \in Entries(a) : Keys(b)[i] = Keys(a)[i] /\ Values(b)[i] = Values(a)[i]
      /\ Values(b)[n] = EmptyList /\ NameAt(b, n) \in {key, NoName}
    BY DEF Live, AddedKey, Entries
<1>2. n \in Nat /\ Entries(a) = 0 .. n - 1 /\ Entries(b) = Entries(a) \cup {n} /\ n \notin Entries(a)
    BY <1>1, LiveCount DEF Entries
<1>3. \A i \in Entries(a) : /\ NameAt(b, i) = NameAt(a, i)
                            /\ PatchesOf(b, Values(b)[i]) = PatchesOf(a, Values(a)[i])
    BY <1>1, SameEntry
<1>4. OwnLists(b) /\ OwnTransforms(b)
  <2> DEFINE D == Entries(a)
             f == [i \in D |-> i]
  <2>1. Moved(a, b, D, f)
      BY <1>1, <1>2 DEF Moved
  <2> HIDE DEF f, D
  <2> QED
      BY <1>1, <2>1, OwnersMoved
<1>5. key # NoName
    BY PluginsAssumption DEF NoName
<1>6. \A i \in Entries(a) : NameAt(a, i) # key
    BY DEF Has, Entries
<1>7. Distinct(b)
  <2> SUFFICES ASSUME NEW i \in Entries(b), NEW j \in Entries(b), NameAt(b, i) = NameAt(b, j),
                      NameAt(b, i) # NoName
               PROVE  i = j
      BY DEF Distinct, Entries
  <2> QED
      BY <1>1, <1>2, <1>3, <1>6 DEF Distinct, Entries
<1>8. Live(b, new)
    BY <1>1, <1>4, <1>7 DEF Live
<1>9. ASSUME NEW p \in Plugins PROVE Registered(b)[p] = Registered(a)[p]
  <2>1. p # NoName
      BY PluginsAssumption DEF NoName
  <2>2. CASE NameAt(b, n) # p
    <3>1. Has(b, p) <=> Has(a, p)
        BY <1>2, <1>3, <2>2 DEF Has, Entries
    <3>2. \A j \in Entries(b) : NameAt(b, j) = p =>
             \E i \in Entries(a) : /\ NameAt(a, i) = p
                                   /\ PatchesOf(b, Values(b)[j]) = PatchesOf(a, Values(a)[i])
        BY <1>2, <1>3, <2>2
    <3> QED
        BY <1>8, <3>1, <3>2, SameRegistry
  <2>3. CASE NameAt(b, n) = p
    <3>1. p = key
        BY <1>1, <2>1, <2>3
    <3>2. Registered(a)[p] = <<>>
        BY <1>1, <1>2, <3>1, RegisteredAt
    <3>3. Registered(b)[p] = PatchesOf(b, Values(b)[n])
        BY <1>1, <1>2, <1>7, <2>3, RegisteredAt
    <3>4. PatchesOf(b, Values(b)[n]) = <<>>
        BY <1>1 DEF PatchesOf, EmptyList
    <3> QED
        BY <3>2, <3>3, <3>4
  <2> QED
      BY <2>2, <2>3
<1>10. Registered(b) = Registered(a)
    BY <1>9, RegisteredMap
<1>11. NameAt(b, n) = NoName => ~Has(b, key)
    BY <1>2, <1>3, <1>5, <1>6 DEF Has, Entries
<1>12. Nameless(b) => Nameless(a) \/ ~Has(b, key)
    BY <1>2, <1>3, <1>11 DEF Nameless
<1> QED
    BY <1>1, <1>2, <1>8, <1>10, <1>11, <1>12 DEF ListOf

(* hashmap_add_key() *)
LEMMA RequestStep ==
    ASSUME NEW a, NEW shape, Live(a, shape), NEW key \in Plugins, NEW r, r = hashmap_add_key(a, key)
    PROVE  \E new : /\ Live(r.arena, new) /\ Registered(r.arena) = Registered(a)
                    /\ \/ r.list = NULL /\ ~Has(r.arena, key)
                       \/ ListOf(r.arena, r.list, key)
                    /\ Nameless(r.arena) => Nameless(a) \/ ~Has(r.arena, key)
<1>0. Proper(a, shape) /\ MapOK(a, shape) /\ Distinct(a) /\ a.map.count \in Nat
    BY LiveCount DEF Live
<1>1. CASE Has(a, key) /\ r = [arena |-> a, list |-> hashmap_get(a, key)]
  <2> DEFINE i == IndexOf(a, key)
  <2>1. r.arena = a /\ r.list = [block |-> a.map.values_off, idx |-> i]
      BY <1>1 DEF hashmap_get
  <2>2. i \in Entries(a) /\ NameAt(a, i) = key
      BY <1>0, <1>1, IndexFacts DEF Entries
  <2>3. key # NoName
      BY PluginsAssumption DEF NoName
  <2> HIDE DEF i
  <2>4. r.list.idx = i
      BY <2>1
  <2>5. ListOf(a, r.list, key)
      BY <2>1, <2>2, <2>3, <2>4 DEF ListOf
  <2> QED
      BY <2>1, <2>5
<1>2. CASE ~Has(a, key) /\ r.list = NULL /\ \E new : GrownMap(a, shape, r.arena, new)
  <2>1. PICK new : GrownMap(a, shape, r.arena, new)
      BY <1>2
  <2>2. /\ Live(r.arena, new) /\ Entries(r.arena) = Entries(a) /\ Registered(r.arena) = Registered(a)
        /\ \A i \in Entries(a) : NameAt(r.arena, i) = NameAt(a, i)
      BY <2>1, GrowStep
  <2>3. ~Has(r.arena, key)
      BY <1>2, <2>2 DEF Has, Entries
  <2> QED
      BY <1>2, <2>2, <2>3
<1>3. CASE /\ ~Has(a, key) /\ r.list = [block |-> r.arena.map.values_off, idx |-> a.map.count]
           /\ \E new : AddedKey(a, shape, key, r.arena, new)
  <2>1. PICK new : AddedKey(a, shape, key, r.arena, new)
      BY <1>3
  <2> QED
      BY <1>3, <2>1, AddKeyStep
<1> QED
    BY <1>0, <1>1, <1>2, <1>3, AddKey

(* hashmap_remove() *)
LEMMA RemoveStep ==
    ASSUME NEW a, NEW shape, Live(a, shape), NEW key \in Plugins, NEW b, b = hashmap_remove(a, key)
    PROVE  /\ Live(b, shape) /\ Registered(b) = [Registered(a) EXCEPT ![key] = <<>>]
           /\ Nameless(b) => Nameless(a)
<1>0. /\ Proper(a, shape) /\ MapOK(a, shape) /\ Distinct(a) /\ OwnLists(a) /\ OwnTransforms(a)
      /\ a.map.count \in Nat
    BY LiveCount DEF Live
<1>1. CASE ~Has(a, key) /\ b = a
  <2>1. Registered(a)[key] = <<>>
      BY <1>0, <1>1, RegisteredAt
  <2>2. Registered(a) = [Registered(a) EXCEPT ![key] = <<>>]
      BY <2>1, RegisteredMap
  <2> QED
      BY <1>1, <2>2
<1>2. CASE Has(a, key) /\ RemovedKey(a, shape, IndexOf(a, key), b)
  <2> DEFINE i == IndexOf(a, key)
             n == a.map.count
             D == Entries(b)
             f == [j \in D |-> IF j < i THEN j ELSE j + 1]
  <2>1. /\ i \in Entries(a) /\ NameAt(a, i) = key
        /\ \A j \in Entries(a) : NameAt(a, j) = key => j = i
      BY <1>0, <1>2, IndexFacts DEF Entries
  <2>2. /\ Proper(b, shape) /\ MapOK(b, shape) /\ b.map.count = n - 1
        /\ \A o \in Blocks(a) \ {a.map.keys_off, a.map.values_off} : b.heap[o] = a.heap[o]
        /\ \A j \in 0 .. n - 2 : Keys(b)[j] = IF j < i THEN Keys(a)[j] ELSE Keys(a)[j + 1]
        /\ \A j \in 0 .. n - 2 : Values(b)[j] = IF j < i THEN Values(a)[j] ELSE Values(a)[j + 1]
      BY <1>2 DEF RemovedKey
  <2> HIDE DEF i
  <2>3. /\ n \in Nat /\ i \in 0 .. n - 1 /\ Entries(a) = 0 .. n - 1 /\ Entries(b) = 0 .. n - 2
        /\ \A j \in D : /\ f[j] \in Entries(a) /\ f[j] # i
                        /\ Keys(b)[j] = Keys(a)[f[j]] /\ Values(b)[j] = Values(a)[f[j]]
        /\ \A j, k \in D : f[j] = f[k] => j = k
    <3>1. n \in Nat /\ i \in 0 .. n - 1 /\ Entries(a) = 0 .. n - 1 /\ D = 0 .. n - 2
        BY <1>0, <2>1, <2>2 DEF Entries
    <3>2. \A j \in D : f[j] \in 0 .. n - 1 /\ f[j] # i
        BY <3>1
    <3>3. \A j \in D : Keys(b)[j] = Keys(a)[f[j]] /\ Values(b)[j] = Values(a)[f[j]]
        BY <2>2, <3>1
    <3>4. \A j, k \in D : f[j] = f[k] => j = k
        BY <3>1
    <3> QED
        BY <3>1, <3>2, <3>3, <3>4
  <2>4. \A x \in Entries(a) \ {i} : \E j \in D : f[j] = x
    <3> TAKE x \in Entries(a) \ {i}
    <3>1. CASE x < i
      <4>1. x \in D /\ f[x] = x
          BY <2>3, <3>1
      <4> QED
          BY <4>1
    <3>2. CASE x > i
      <4>1. x - 1 \in D /\ f[x - 1] = x
          BY <2>3, <3>2
      <4> QED
          BY <4>1
    <3> QED
        BY <2>3, <3>1, <3>2
  <2>5. Moved(a, b, D, f)
      BY <2>2, <2>3 DEF Moved
  <2> HIDE DEF f, D
  <2>6. OwnLists(b) /\ OwnTransforms(b)
      BY <1>0, <2>5, OwnersMoved
  <2>7. \A j \in D : /\ NameAt(b, j) = NameAt(a, f[j])
                     /\ PatchesOf(b, Values(b)[j]) = PatchesOf(a, Values(a)[f[j]])
      BY <1>0, <2>2, <2>3, SameEntry, SMTT(30)
  <2>8. Distinct(b)
    <3> SUFFICES ASSUME NEW x \in D, NEW y \in D, NameAt(b, x) = NameAt(b, y), NameAt(b, x) # NoName
                 PROVE  x = y
        BY DEF Distinct, D, Entries
    <3>1. f[x] = f[y]
        BY <1>0, <2>3, <2>7 DEF Distinct, Entries
    <3> QED
        BY <2>3, <3>1
  <2>9. Live(b, shape)
      BY <2>2, <2>6, <2>8 DEF Live
  <2>10. ASSUME NEW p \in Plugins, p # key PROVE Registered(b)[p] = Registered(a)[p]
    <3>1. Has(b, p) <=> Has(a, p)
      <4>1. ASSUME Has(b, p) PROVE Has(a, p)
          BY <2>3, <2>7, <4>1 DEF Has, D, Entries
      <4>2. ASSUME Has(a, p) PROVE Has(b, p)
        <5>1. PICK x \in Entries(a) : NameAt(a, x) = p
            BY <4>2 DEF Has, Entries
        <5>2. x # i
            BY <2>1, <2>10, <5>1 DEF i
        <5>3. PICK j \in D : f[j] = x
            BY <2>4, <5>2
        <5> QED
            BY <2>7, <5>1, <5>3 DEF Has, D, Entries
      <4> QED
          BY <4>1, <4>2
    <3>2. \A j \in Entries(b) : NameAt(b, j) = p =>
             \E x \in Entries(a) : /\ NameAt(a, x) = p
                                   /\ PatchesOf(b, Values(b)[j]) = PatchesOf(a, Values(a)[x])
        BY <2>3, <2>7 DEF D
    <3> QED
        BY <2>9, <3>1, <3>2, SameRegistry
  <2>11. Registered(b)[key] = <<>>
    <3>1. ~Has(b, key)
        BY <2>1, <2>3, <2>7 DEF Has, D, Entries, i
    <3>2. b.map.count \in Nat
        BY <2>9, LiveCount
    <3> QED
        BY <2>8, <3>1, <3>2, RegisteredAt
  <2>12. Registered(b) = [Registered(a) EXCEPT ![key] = <<>>]
      BY <2>10, <2>11, RegisteredMap
  <2>13. Nameless(b) => Nameless(a)
      BY <2>3, <2>7 DEF Nameless, D
  <2> QED
      BY <2>9, <2>12, <2>13
<1> QED
    BY <1>0, <1>1, <1>2, RemoveKey

(* What is read from the arena are lists of patches with lists of transforms *)
Texts == Strings \cup {EmptyString}
TransformText == [match : Texts, replace : Texts]
PatchText == [file : Texts, find : Texts, transforms : Seq(TransformText)]

(* a patch read from the arena is a patch of the registry                    *)
LEMMA ContentsType ==
    ASSUME NEW a, NEW shape, Proper(a, shape), NEW p \in PatchCells(shape)
    PROVE  Contents(a, p) \in PatchText
<1>1. DOMAIN shape = Blocks(a)
    BY DEF Proper, WellTyped
<1>2. ASSUME NEW o \in StringCells(shape) PROVE StringAt(a, o) \in Texts
  <2>1. CASE o = 0
      BY <2>1 DEF StringAt, Texts
  <2>2. CASE o # 0
    <3>1. o \in Blocks(a) /\ shape[o].type = "string"
        BY <1>1, <2>2 DEF StringCells
    <3>2. HoldsData(shape, shape[o], a.heap[o].size, Data(a, o))
        BY <3>1 DEF Proper, WellTyped
    <3> QED
        BY <2>2, <3>1, <3>2 DEF HoldsData, StringAt, Texts
  <2> QED
      BY <2>1, <2>2
<1>3. /\ p.file_off \in StringCells(shape) /\ p.find_off \in StringCells(shape)
      /\ p.transform_count \in Nat /\ p.transform_capacity \in Nat
      /\ p.transform_count <= p.transform_capacity
      /\ p.transform_capacity > 0 => Refers(shape, p.transforms_off, "transforms", p.transform_capacity)
    BY DEF PatchCells
<1>4. TransformsOf(a, p) \in [1 .. p.transform_count -> TransformText]
  <2> SUFFICES ASSUME NEW k \in 1 .. p.transform_count
               PROVE  LET t == Data(a, p.transforms_off)[k - 1]
                      IN  StringAt(a, t.match_off) \in Texts /\ StringAt(a, t.replace_off) \in Texts
      BY DEF TransformsOf, TransformText
  <2> DEFINE o == p.transforms_off
  <2>1. /\ k - 1 \in 0 .. p.transform_capacity - 1
        /\ o \in Blocks(a) /\ shape[o].type = "transforms" /\ shape[o].len = p.transform_capacity
      BY <1>1, <1>3 DEF Refers
  <2>2. HoldsData(shape, shape[o], a.heap[o].size, Data(a, o))
      BY <2>1 DEF Proper, WellTyped
  <2>3. Data(a, o)[k - 1] \in TransformCells(shape)
      BY <2>1, <2>2 DEF HoldsData
  <2> QED
      BY <1>2, <2>3 DEF TransformCells
<1>5. TransformsOf(a, p) \in Seq(TransformText)
    BY <1>3, <1>4
<1> QED
    BY <1>2, <1>3, <1>5 DEF Contents, PatchText

(* a list read from the arena is a list of the registry                      *)
LEMMA PatchesType ==
    ASSUME NEW a, NEW shape, Proper(a, shape), MapOK(a, shape), NEW i \in Entries(a)
    PROVE  /\ PatchesOf(a, Values(a)[i]) \in Seq(PatchText)
           /\ Len(PatchesOf(a, Values(a)[i])) = Values(a)[i].patch_count
<1> DEFINE n == Values(a)[i].patch_count
<1>1. n \in Nat
    BY ListFacts
<1>2. ASSUME NEW k \in 1 .. n PROVE Contents(a, PatchAt(a, i, k - 1)) \in PatchText
  <2>1. k - 1 \in PatchesIn(a, i)
      BY <1>1 DEF PatchesIn
  <2> QED
      BY <2>1, PatchFacts, ContentsType
<1>3. PatchesOf(a, Values(a)[i]) = [k \in 1 .. n |-> Contents(a, PatchAt(a, i, k - 1))]
    BY PatchesAsContents
<1>4. PatchesOf(a, Values(a)[i]) \in [1 .. n -> PatchText]
    BY <1>2, <1>3
<1> HIDE DEF n
<1>5. PatchesOf(a, Values(a)[i]) \in Seq(PatchText) /\ Len(PatchesOf(a, Values(a)[i])) = n
    BY <1>1, <1>4
<1> QED
    BY <1>5 DEF n

(* The entry of a plugin changes, and the registry with it unless the entry  *)
(* has no name.                                                              *)
RegistersAs(a, b, list, plugin, new) ==
    Registered(b) = IF NameAt(a, list.idx) = NoName THEN Registered(a)
                    ELSE [Registered(a) EXCEPT ![plugin] = new]

(* a change of one entry changes what one plugin has registered              *)
LEMMA EntryChanged ==
    ASSUME NEW a, NEW shape, Live(a, shape), NEW b, NEW new, Live(b, new),
           b.map = a.map, \A j \in Entries(a) : NameAt(b, j) = NameAt(a, j),
           NEW plugin \in Plugins, NEW list, ListOf(a, list, plugin),
           \A j \in Entries(a) \ {list.idx} : PatchesOf(b, Values(b)[j]) = PatchesOf(a, Values(a)[j])
    PROVE  /\ ListOf(b, list, plugin)
           /\ RegistersAs(a, b, list, plugin, PatchesOf(b, Values(b)[list.idx]))
           /\ NameAt(a, list.idx) # NoName =>
                Registered(a)[plugin] = PatchesOf(a, Values(a)[list.idx])
<1> DEFINE i == list.idx
           x == PatchesOf(b, Values(b)[i])
<1>1. /\ a.map.count \in Nat /\ Distinct(a) /\ b.map.count \in Nat /\ Distinct(b)
      /\ Entries(b) = Entries(a) /\ i \in Entries(a) /\ NameAt(a, i) \in {plugin, NoName}
    BY LiveCount DEF Live, Entries, ListOf
<1>2. plugin # NoName
    BY PluginsAssumption DEF NoName
<1>3. \A p \in Plugins : Has(b, p) <=> Has(a, p)
    BY <1>1 DEF Has, Entries
<1>4. ListOf(b, list, plugin)
    BY <1>1, <1>3 DEF ListOf
<1>5. ASSUME NEW p \in Plugins, p # NameAt(a, i) PROVE Registered(b)[p] = Registered(a)[p]
  <2>1. \A j \in Entries(b) : NameAt(b, j) = p =>
           \E k \in Entries(a) : NameAt(a, k) = p /\ PatchesOf(b, Values(b)[j]) = PatchesOf(a, Values(a)[k])
      BY <1>1, <1>5
  <2> QED
      BY <1>3, <2>1, SameRegistry
<1>6. CASE NameAt(a, i) = NoName
  <2>1. \A p \in Plugins : Registered(b)[p] = Registered(a)[p]
    <3>1. \A p \in Plugins : p # NoName
        BY PluginsAssumption DEF NoName
    <3> QED
        BY <1>5, <1>6, <3>1
  <2>2. Registered(b) = Registered(a)
      BY <2>1, RegisteredMap
  <2> QED
      BY <1>4, <1>6, <2>2 DEF RegistersAs
<1>7. CASE NameAt(a, i) = plugin
  <2>1. Registered(b)[plugin] = x /\ Registered(a)[plugin] = PatchesOf(a, Values(a)[i])
      BY <1>1, <1>7, RegisteredAt
  <2> HIDE DEF x
  <2>2. \A p \in Plugins : p # plugin => Registered(b)[p] = Registered(a)[p]
      BY <1>5, <1>7
  <2>3. Registered(b) = [Registered(a) EXCEPT ![plugin] = x]
      BY <2>1, <2>2, RegisteredMap
  <2> QED
      BY <1>2, <1>4, <1>7, <2>1, <2>3 DEF RegistersAs, x
<1> QED
    BY <1>1, <1>6, <1>7

(* patchlist_add(): the list of the plugin ends with the new patch.  Its     *)
(* strings are those of the request unless the arena had no space for them.  *)
PatchAdded(a, b, list, plugin, patch, file, find, x) ==
    /\ ListOf(b, list, plugin) /\ LastPatch(b, list, patch)
    /\ NameAt(b, list.idx) = NameAt(a, list.idx) /\ (Nameless(b) => Nameless(a))
    /\ RegistersAs(a, b, list, plugin, Append(Registered(a)[plugin], x))
    /\ x \in PatchText /\ x.transforms = <<>>
    /\ Data(b, patch.block)[patch.idx].file_off # 0 => x.file = file
    /\ Data(b, patch.block)[patch.idx].find_off # 0 => x.find = find

(* patchlist_add(), seen by the registry                                     *)
LEMMA NextStep ==
    ASSUME NEW a, NEW shape, Live(a, shape), NEW plugin \in Plugins, NEW list, ListOf(a, list, plugin),
           NEW file \in Strings, NEW find \in Strings, NEW r, r = patchlist_add(a, list, file, find)
    PROVE  \/ r = [arena |-> a, patch |-> NULL]
           \/ \E new, x : /\ Live(r.arena, new)
                          /\ PatchAdded(a, r.arena, list, plugin, r.patch, file, find, x)
<1> DEFINE i == list.idx
           n == Values(a)[i].patch_count
           b == r.arena
<1>0. /\ Proper(a, shape) /\ MapOK(a, shape) /\ Distinct(a) /\ OwnLists(a) /\ OwnTransforms(a)
      /\ list = [block |-> a.map.values_off, idx |-> i] /\ i \in Entries(a)
      /\ list.block = a.map.values_off
      /\ Data(a, list.block)[list.idx].patch_count = n
  <2>1. /\ list = [block |-> a.map.values_off, idx |-> i] /\ i \in Entries(a)
      BY DEF ListOf
  <2>2. list.block = a.map.values_off
      BY <2>1
  <2> QED
      BY <2>1, <2>2 DEF Live, Values
<1>1. list.block \in Blocks(a) /\ shape[list.block].type = "values" /\ i \in 0 .. shape[list.block].len - 1
  <2>1. /\ a.map.values_off \in Blocks(a) /\ shape[a.map.values_off].type = "values"
        /\ shape[a.map.values_off].len = a.map.capacity
        /\ a.map.capacity \in Nat /\ a.map.count \in Nat /\ a.map.count <= a.map.capacity
      BY <1>0, MapFacts
  <2> QED
      BY <1>0, <2>1 DEF Entries
<1>2. CASE r = [arena |-> a, patch |-> NULL]
    BY <1>2
<1>3. CASE \E new, g, so, to :
              /\ AddedPatch(a, shape, list, file, find, b, new, g, so, to)
              /\ r.patch = [block |-> g, idx |-> n]
  <2>1. PICK new, g, so, to : /\ AddedPatch(a, shape, list, file, find, b, new, g, so, to)
                              /\ r.patch = [block |-> g, idx |-> n]
      BY <1>3
  <2> DEFINE x == [file |-> StringAt(b, so), find |-> StringAt(b, to), transforms |-> <<>>]
  <2> HIDE DEF b
  <2>2. /\ MapOK(b, new) /\ Entries(b) = Entries(a) /\ b.map = a.map
        /\ \A j \in Entries(a) : NameAt(b, j) = NameAt(a, j)
        /\ OwnLists(b) /\ OwnTransforms(b)
        /\ Values(b)[i].patch_count = n + 1 /\ Values(b)[i].patches_off = g
        /\ OneMorePatch(a, b, i, x)
      BY <1>0, <2>1, PatchStep
  <2>3. /\ Proper(b, new)
        /\ Data(b, g)[n] = [file_off |-> so, find_off |-> to, transforms_off |-> 0,
                            transform_count |-> 0, transform_capacity |-> 0]
        /\ so # 0 => Data(b, so) = file
        /\ to # 0 => Data(b, to) = find
    <3> HIDE DEF x
    <3> QED
        BY <1>0, <2>1 DEF AddedPatch
  <2>4. Distinct(b)
      BY <1>0, <2>2 DEF Distinct, Entries
  <2>5. Live(b, new)
      BY <2>2, <2>3, <2>4 DEF Live
  <2> HIDE DEF x
  <2>6. /\ \A j \in Entries(a) \ {i} : PatchesOf(b, Values(b)[j]) = PatchesOf(a, Values(a)[j])
        /\ PatchesOf(b, Values(b)[i]) = Append(PatchesOf(a, Values(a)[i]), x)
      BY <2>2 DEF OneMorePatch
  <2>7. /\ ListOf(b, list, plugin)
        /\ RegistersAs(a, b, list, plugin, PatchesOf(b, Values(b)[i]))
        /\ NameAt(a, i) # NoName => Registered(a)[plugin] = PatchesOf(a, Values(a)[i])
      BY <2>2, <2>5, <2>6, EntryChanged, ZenonT(30)
  <2>8. RegistersAs(a, b, list, plugin, Append(Registered(a)[plugin], x))
      BY <2>6, <2>7 DEF RegistersAs
  <2>9. n \in Nat
      BY <1>0, ListFacts
  <2>10. r.patch.block = g /\ r.patch.idx = n
      BY <2>1
  <2>11. LastPatch(b, list, r.patch)
    <3>1. (n + 1) - 1 = n /\ n + 1 > 0
        BY <2>9
    <3> QED
        BY <2>1, <2>2, <3>1 DEF LastPatch
  <2>12. x \in PatchText /\ x.transforms = <<>>
    <3>1. Contents(b, PatchAt(b, i, n)) = x
        BY <2>2, <2>3 DEF Contents, PatchAt, TransformsOf, x
    <3>2. n \in PatchesIn(b, i) /\ i \in Entries(b)
        BY <1>0, <2>2, <2>9 DEF PatchesIn
    <3>3. PatchAt(b, i, n) \in PatchCells(new)
        BY <2>2, <2>3, <3>2, PatchFacts
    <3>4. x \in PatchText
        BY <2>3, <3>1, <3>3, ContentsType
    <3> QED
        BY <3>4 DEF x
  <2>13. /\ Data(b, r.patch.block)[r.patch.idx].file_off = so
         /\ Data(b, r.patch.block)[r.patch.idx].find_off = to
      BY <2>3, <2>10
  <2>14. /\ so # 0 => x.file = file
         /\ to # 0 => x.find = find
      BY <2>3 DEF x, StringAt
  <2>15. Nameless(b) => Nameless(a)
      BY <2>2 DEF Nameless
  <2>16. PatchAdded(a, b, list, plugin, r.patch, file, find, x)
      BY <1>0, <2>2, <2>7, <2>8, <2>11, <2>12, <2>13, <2>14, <2>15 DEF PatchAdded
  <2> QED
      BY <2>5, <2>16 DEF b
<1> QED
    BY <1>0, <1>1, <1>2, <1>3, PatchlistAdd, SMTT(30)

LastWith(list, t) == [list EXCEPT ![Len(list)] = WithTransform(@, t)]

(* patch_add_transform(): the last patch of the list ends with the new       *)
(* transform.                                                                *)
TransformAdded(a, b, list, plugin, patch, match, replace, t) ==
    LET old == Registered(a)[plugin]
        p == Data(b, patch.block)[patch.idx]
        u == Data(b, p.transforms_off)[p.transform_count - 1]
    IN  /\ ListOf(b, list, plugin) /\ LastPatch(b, list, patch)
        /\ NameAt(b, list.idx) = NameAt(a, list.idx) /\ (Nameless(b) => Nameless(a))
        /\ NameAt(a, list.idx) # NoName => old # <<>>
        /\ RegistersAs(a, b, list, plugin, LastWith(old, t))
        /\ t \in TransformText
        /\ u.match_off # 0 => t.match = match
        /\ u.replace_off # 0 => t.replace = replace

(* patch_add_transform(), seen by the registry                               *)
LEMMA TransformsStep ==
    ASSUME NEW a, NEW shape, Live(a, shape), NEW plugin \in Plugins, NEW list, ListOf(a, list, plugin),
           NEW patch, LastPatch(a, list, patch),
           NEW match \in Strings, NEW replace \in Strings,
           NEW b, b = patch_add_transform(a, patch, match, replace)
    PROVE  \/ b = a
           \/ \E new, t : /\ Live(b, new)
                          /\ TransformAdded(a, b, list, plugin, patch, match, replace, t)
<1> DEFINE i == list.idx
           n == Values(a)[i].patch_count
           po == Values(a)[i].patches_off
           k0 == n - 1
<1>0. /\ Proper(a, shape) /\ MapOK(a, shape) /\ Distinct(a) /\ OwnLists(a) /\ OwnTransforms(a)
      /\ i \in Entries(a)
      /\ n > 0 /\ patch = [block |-> po, idx |-> k0]
    BY DEF ListOf, Live, LastPatch
<1>1. /\ n \in Nat /\ k0 \in PatchesIn(a, i) /\ k0 + 1 = n
      /\ po \in Blocks(a) /\ shape[po].type = "patches" /\ k0 \in 0 .. shape[po].len - 1
  <2>1. /\ n \in Nat /\ Values(a)[i].patch_capacity \in Nat /\ n <= Values(a)[i].patch_capacity
        /\ Values(a)[i].patch_capacity > 0 =>
              /\ po \in Blocks(a) /\ shape[po].type = "patches"
              /\ shape[po].len = Values(a)[i].patch_capacity
      BY <1>0, ListFacts
  <2> HIDE DEF po
  <2> QED
      BY <1>0, <2>1 DEF PatchesIn
<1> HIDE DEF n, po, k0
<1>2. patch.block = po /\ patch.idx = k0
    BY <1>0
<1>3. CASE b = a
    BY <1>3
<1>4. CASE \E new, g, so, to : AddedTransform(a, shape, patch, match, replace, b, new, g, so, to)
  <2>1. PICK new, g, so, to : AddedTransform(a, shape, patch, match, replace, b, new, g, so, to)
      BY <1>4
  <2> DEFINE t == [match |-> StringAt(b, so), replace |-> StringAt(b, to)]
             p == PatchAt(a, i, k0)
             m == p.transform_count
  <2>2. /\ MapOK(b, new) /\ Entries(b) = Entries(a) /\ b.map = a.map
        /\ \A j \in Entries(a) : NameAt(b, j) = NameAt(a, j)
        /\ OwnLists(b) /\ OwnTransforms(b) /\ Values(b) = Values(a)
        /\ OneMoreTransform(a, b, i, k0, t)
    <3>1. patch = [block |-> Values(a)[i].patches_off, idx |-> k0]
        BY <1>0 DEF po
    <3> HIDE DEF i
    <3> QED
        BY <1>0, <1>1, <2>1, <3>1, TransformStep
  <2>3. /\ Proper(b, new)
        /\ Data(b, po) = Put(Data(a, po), k0,
               [file_off |-> p.file_off, find_off |-> p.find_off, transforms_off |-> g,
                transform_count |-> m + 1, transform_capacity |-> new[g].len])
        /\ Data(b, g)[m] = [match_off |-> so, replace_off |-> to]
        /\ g \in Blocks(b) /\ new[g].type = "transforms" /\ m \in 0 .. new[g].len - 1
        /\ so # 0 => Data(b, so) = match
        /\ to # 0 => Data(b, to) = replace
    <3>1. Data(a, patch.block)[patch.idx] = p
        BY <1>2 DEF PatchAt, po
    <3> HIDE DEF t
    <3> QED
        BY <1>2, <2>1, <3>1 DEF AddedTransform
  <2> HIDE DEF t
  <2>4. Distinct(b)
      BY <1>0, <2>2 DEF Distinct, Entries
  <2>5. Live(b, new)
      BY <2>2, <2>3, <2>4 DEF Live
  <2>6. /\ \A j \in Entries(a) \ {i} : PatchesOf(b, Values(b)[j]) = PatchesOf(a, Values(a)[j])
        /\ PatchesOf(b, Values(b)[i]) = [PatchesOf(a, Values(a)[i]) EXCEPT ![n] = WithTransform(@, t)]
      BY <1>1, <2>2 DEF OneMoreTransform
  <2>7. /\ ListOf(b, list, plugin)
        /\ RegistersAs(a, b, list, plugin, PatchesOf(b, Values(b)[i]))
        /\ NameAt(a, i) # NoName => Registered(a)[plugin] = PatchesOf(a, Values(a)[i])
      BY <2>2, <2>5, <2>6, EntryChanged
  <2> DEFINE old == Registered(a)[plugin]
  <2>8. NameAt(a, i) # NoName => old = PatchesOf(a, Values(a)[i]) /\ Len(old) = n /\ old # <<>>
    <3>1. /\ PatchesOf(a, Values(a)[i]) \in Seq(PatchText) /\ Len(PatchesOf(a, Values(a)[i])) = n
        BY <1>0, PatchesType DEF n
    <3>2. PatchesOf(a, Values(a)[i]) # <<>>
        BY <1>0, <1>1, <3>1
    <3> QED
        BY <2>7, <3>1, <3>2
  <2> HIDE DEF old
  <2>9. RegistersAs(a, b, list, plugin, LastWith(old, t))
    <3>1. CASE NameAt(a, i) = NoName
        BY <2>7, <3>1 DEF RegistersAs
    <3>2. CASE NameAt(a, i) # NoName
        BY <2>6, <2>7, <2>8, <3>2 DEF RegistersAs, LastWith
    <3> QED
        BY <3>1, <3>2
  <2>10. LastPatch(b, list, patch)
      BY <2>2 DEF LastPatch
  <2> DEFINE q == Data(b, patch.block)[patch.idx]
  <2>11. q.transforms_off = g /\ q.transform_count = m + 1
    <3>1. k0 \in DOMAIN Data(a, po)
      <4>1. HoldsData(shape, shape[po], a.heap[po].size, Data(a, po))
          BY <1>0, <1>1 DEF Proper, WellTyped
      <4> QED
          BY <1>1, <4>1 DEF HoldsData
    <3> QED
        BY <1>2, <2>3, <3>1 DEF Put
  <2>12. Data(b, q.transforms_off)[q.transform_count - 1] = [match_off |-> so, replace_off |-> to]
    <3>1. (m + 1) - 1 = m
        BY <2>3
    <3> HIDE DEF q, m
    <3> QED
        BY <2>3, <2>11, <3>1
  <2>13. t \in TransformText
    <3>1. Data(b, g)[m] \in TransformCells(new)
      <4>1. HoldsData(new, new[g], b.heap[g].size, Data(b, g))
          BY <2>3 DEF Proper, WellTyped
      <4> HIDE DEF m
      <4> QED
          BY <2>3, <4>1 DEF HoldsData
    <3>2. so \in StringCells(new) /\ to \in StringCells(new)
        BY <2>3, <3>1 DEF TransformCells
    <3>3. \A o \in StringCells(new) : StringAt(b, o) \in Texts
      <4>1. DOMAIN new = Blocks(b) /\ \A o \in Blocks(b) : HoldsData(new, new[o], b.heap[o].size, Data(b, o))
          BY <2>3 DEF Proper, WellTyped
      <4> QED
          BY <4>1 DEF StringCells, StringAt, Texts, HoldsData
    <3> QED
        BY <3>2, <3>3 DEF t, TransformText
  <2>14. /\ so # 0 => t.match = match
         /\ to # 0 => t.replace = replace
      BY <2>3 DEF t, StringAt
  <2> DEFINE u == Data(b, q.transforms_off)[q.transform_count - 1]
  <2>15. u.match_off = so /\ u.replace_off = to
      BY <2>12
  <2>16. TransformAdded(a, b, list, plugin, patch, match, replace, t)
    <3> HIDE DEF u, q
    <3>1. /\ u.match_off # 0 => t.match = match
          /\ u.replace_off # 0 => t.replace = replace
        BY <2>14, <2>15
    <3>2. Nameless(b) => Nameless(a)
        BY <2>2 DEF Nameless
    <3> QED
        BY <1>0, <2>2, <2>7, <2>8, <2>9, <2>10, <2>13, <3>1, <3>2 DEF TransformAdded, u, q, old
  <2> QED
      BY <2>5, <2>16
<1> QED
    BY <1>0, <1>1, <1>2, <1>3, <1>4, PatchAddTransform

-----------------------------------------------------------------------------
(* The invariant *)

IsJob(j) ==
    j = [active |-> TRUE, plugin |-> j.plugin, left |-> j.left, list |-> j.list,
         patch |-> j.patch, transforms |-> j.transforms]
JobWith(j, left, patch, transforms) ==
    [j EXCEPT !.left = left, !.patch = patch, !.transforms = transforms]

(* A handler that runs works on the entry of its plugin.  Where it has       *)
(* none, or one without a name, an allocation has failed.                    *)
JobOK(j, a, ref) ==
    \/ j = NoJob
    \/ /\ IsJob(j)
       /\ j.plugin \in Plugins /\ j.left \in Seq(Request) /\ j.transforms \in Seq(Transform)
       /\ \/ j.list = NULL /\ j.patch = NULL /\ ref
          \/ /\ ListOf(a, j.list, j.plugin)
             /\ NameAt(a, j.list.idx) = NoName => ref
             /\ j.patch = NULL \/ LastPatch(a, j.list, j.patch)

(* Every entry has its name as long as no allocation has failed.             *)
Named == Nameless(arena) => refused

ArenaOK == refused \in BOOLEAN /\ Named /\ \E shape : Live(arena, shape)
JobsOK == ~overlapped => \A c \in Children : JobOK(job[c], arena, refused)

(* Children and their processes; m_processes files a child under its plugin. *)
Control ==
    /\ runs \in [Children -> Plugins \cup {NoName}]
    /\ backend \in [Children -> Backends]
    /\ m_processes \in [Plugins -> Children \cup {NoChild}]
    /\ DOMAIN job = Children
    /\ overlapped \in BOOLEAN
    /\ \A p \in Plugins : m_processes[p] # NoChild =>
          runs[m_processes[p]] = p /\ backend[m_processes[p]] \in {"running", "dead"}
    /\ \A c \in Children :
          /\ backend[c] # "absent" => runs[c] \in Plugins
          /\ job[c].active \in BOOLEAN
          /\ job[c].active => backend[c] = "starting"

(* Until threads meet there is one at most in the arena's code.              *)
Alone == ~overlapped => \A c, d \in Inside : c = d

Handled == Control /\ Alone /\ ArenaOK /\ JobsOK

(* the map without entries is the empty registry                             *)
LEMMA EmptyRegistry ==
    ASSUME NEW a, a.map.count = 0
    PROVE  /\ Registered(a) = [p \in Plugins |-> <<>>]
           /\ Distinct(a) /\ OwnLists(a) /\ OwnTransforms(a) /\ ~Nameless(a)
<1>1. Entries(a) = {} /\ 0 .. a.map.count - 1 = {}
    BY DEF Entries
<1> QED
    BY <1>1 DEF Registered, Has, Distinct, OwnLists, OwnTransforms, Nameless

(* what the initial arena holds                                              *)
LEMMA InitialOK ==
    ASSUME NEW a, a = InitialArena
    PROVE  /\ \E shape : Live(a, shape)
           /\ ~Nameless(a) /\ Registered(a) = [p \in Plugins |-> <<>>]
<1>1. PICK shape : /\ Proper(InitialArena, shape) /\ MapOK(InitialArena, shape)
                   /\ InitialArena.map.count = 0
    BY InitialFacts
<1> QED
    BY <1>1, EmptyRegistry DEF Live

(* the initial state satisfies the invariant                                 *)
LEMMA HandledInit == Init => Handled /\ HoldsWhatWasSent /\ Registry!Init
<1> SUFFICES ASSUME Init PROVE Handled /\ HoldsWhatWasSent /\ Registry!Init
    OBVIOUS
<1>1. ArenaOK /\ Registered(arena) = [p \in Plugins |-> <<>>]
    BY InitialOK DEF Init, ArenaOK, Named
<1>2. refused = FALSE /\ overlapped = FALSE /\ sent = [p \in Plugins |-> <<>>]
    BY DEF Init
<1>3. \A c \in Children : job[c] = NoJob /\ job[c].active = FALSE /\ backend[c] = "absent"
    BY DEF Init, NoJob
<1>4. JobsOK /\ Alone
    BY <1>3 DEF JobsOK, JobOK, Alone, Inside
<1>5. Control
  <2>1. /\ runs \in [Children -> Plugins \cup {NoName}] /\ backend \in [Children -> Backends]
        /\ m_processes = [p \in Plugins |-> NoChild] /\ DOMAIN job = Children
      BY DEF Init, Backends
  <2> QED
      BY <1>2, <1>3, <2>1 DEF Control
<1> QED
    BY <1>1, <1>2, <1>4, <1>5 DEF Handled, HoldsWhatWasSent, Registry!Init

(* What a step in the arena's code does to the registry and the invariant,   *)
(* k being what becomes of the handler                                       *)
FaithfulWith(k) ==
    /\ ArenaOK' /\ JobOK(k, arena', refused')
    /\ ~refused => refused' \/ (Registered(arena) = sent => Registered(arena') = sent')
    /\ refused => refused'
    /\ Registry!Change \/ Registered(arena') = Registered(arena)

(* the handler of PATCHES begins                                             *)
LEMMA RequestFaithful ==
    ASSUME ArenaOK, NEW p \in Plugins, NEW message \in Messages[p],
           NEW r, r = hashmap_add_key(arena, p),
           arena' = r.arena, refused' = (refused \/ ~Has(r.arena, p)), sent' = sent,
           NEW k, k = [active |-> TRUE, plugin |-> p, left |-> message, list |-> r.list,
                       patch |-> NULL, transforms |-> <<>>]
    PROVE  FaithfulWith(k)
<1>1. PICK shape : Live(arena, shape)
    BY DEF ArenaOK
<1>3. PICK new : /\ Live(r.arena, new) /\ Registered(r.arena) = Registered(arena)
                 /\ \/ r.list = NULL /\ ~Has(r.arena, p)
                    \/ ListOf(r.arena, r.list, p)
                 /\ Nameless(r.arena) => Nameless(arena) \/ ~Has(r.arena, p)
    BY <1>1, RequestStep
<1>4. /\ k.plugin = p /\ k.left = message /\ k.list = r.list /\ k.patch = NULL
      /\ k.transforms = <<>>
      /\ IsJob(k)
    BY DEF IsJob
<1>5. message \in Seq(Request) /\ <<>> \in Seq(Transform)
    BY MessagesAssumption
<1>6. /\ refused' \in BOOLEAN /\ (refused => refused') /\ (~Has(r.arena, p) => refused')
    BY DEF ArenaOK
<1>7. JobOK(k, arena', refused')
  <2>1. CASE r.list = NULL /\ ~Has(r.arena, p)
      BY <1>4, <1>5, <1>6, <2>1 DEF JobOK
  <2>2. CASE ListOf(r.arena, r.list, p)
    <3>1. NameAt(r.arena, r.list.idx) = NoName => refused'
        BY <1>6, <2>2 DEF ListOf
    <3> QED
        BY <1>4, <1>5, <2>2, <3>1 DEF JobOK
  <2> QED
      BY <1>3, <2>1, <2>2
<1>8. ArenaOK'
    BY <1>3, <1>6 DEF ArenaOK, Named
<1> QED
    BY <1>3, <1>6, <1>7, <1>8 DEF FaithfulWith

(* the entry of a stopped backend is removed                                 *)
LEMMA RemoveFaithful ==
    ASSUME ArenaOK, NEW p \in Plugins,
           arena' = hashmap_remove(arena, p), sent' = [sent EXCEPT ![p] = <<>>], refused' = refused
    PROVE  FaithfulWith(NoJob)
<1> DEFINE b == hashmap_remove(arena, p)
<1>1. PICK shape : Live(arena, shape)
    BY DEF ArenaOK
<1>3. /\ Live(b, shape) /\ Registered(b) = [Registered(arena) EXCEPT ![p] = <<>>]
      /\ Nameless(b) => Nameless(arena)
    BY <1>1, RemoveStep
<1>4. arena' = b
    OBVIOUS
<1> HIDE DEF b
<1>5. ArenaOK'
    BY <1>3, <1>4 DEF ArenaOK, Named
<1>6. Registered(arena) = sent => Registered(arena') = sent'
    BY <1>3, <1>4
<1>7. Registry!Change
    BY <1>3, <1>4 DEF Registry!Change, Registry!Clear, Registry!Becomes
<1> QED
    BY <1>5, <1>6, <1>7 DEF FaithfulWith, JobOK

(* the registry has its type in every state of the invariant                 *)
LEMMA RegisteredType ==
    ASSUME NEW a, NEW shape, Live(a, shape), NEW p \in Plugins
    PROVE  Registered(a)[p] \in Seq(PatchText)
<1>1. a.map.count \in Nat /\ Distinct(a) /\ Proper(a, shape) /\ MapOK(a, shape)
    BY LiveCount DEF Live
<1>2. CASE Has(a, p)
  <2>1. PICK i \in Entries(a) : NameAt(a, i) = p
      BY <1>1, <1>2, RegisteredAt
  <2>2. Registered(a)[p] = PatchesOf(a, Values(a)[i])
      BY <1>1, <2>1, RegisteredAt
  <2> QED
      BY <1>1, <2>2, PatchesType
<1>3. CASE ~Has(a, p)
  <2>1. Registered(a)[p] = <<>>
      BY <1>1, <1>3, RegisteredAt
  <2> QED
      BY <2>1
<1> QED
    BY <1>2, <1>3

(* Growth of a sequence by one element, and of its last element by one       *)
LEMMA AddPatchIs ==
    ASSUME NEW S, NEW old \in Seq(S), NEW x \in S, NEW new, new = Append(old, x)
    PROVE  Len(new) = Len(old) + 1 /\ new[Len(new)] = x
    OBVIOUS

(* a patch that was just added has no transforms yet                         *)
LEMMA NoTransformsIs ==
    ASSUME NEW q \in Request, NEW x \in PatchText,
           x.file = q.file, x.find = q.find, x.transforms = <<>>
    PROVE  x = [q EXCEPT !.transforms = <<>>]
<1> DEFINE y == [q EXCEPT !.transforms = <<>>]
<1>1. /\ y.file = q.file /\ y.find = q.find /\ y.transforms = <<>>
      /\ y = [file |-> y.file, find |-> y.find, transforms |-> y.transforms]
    BY DEF Request
<1>2. x = [file |-> x.file, find |-> x.find, transforms |-> x.transforms]
    BY DEF PatchText
<1> HIDE DEF y
<1>3. x = y
    BY <1>1, <1>2
<1> QED
    BY <1>3 DEF y

(* a sequence that is not empty is its head and its tail                     *)
LEMMA HeadTail ==
    ASSUME NEW S, NEW seq \in Seq(S), seq # <<>>
    PROVE  Head(seq) \in S /\ Tail(seq) \in Seq(S)
    OBVIOUS

(* a handler with another remainder, patch or list of transforms             *)
LEMMA JobExcept ==
    ASSUME NEW j, IsJob(j), NEW l, NEW p, NEW t, NEW k, k = JobWith(j, l, p, t)
    PROVE  /\ k.plugin = j.plugin /\ k.left = l /\ k.list = j.list /\ k.patch = p /\ k.transforms = t
           /\ IsJob(k)
<1>0. k = [j EXCEPT !.left = l, !.patch = p, !.transforms = t]
    BY DEF JobWith
<1>1. k.active = TRUE /\ k.plugin = j.plugin /\ k.list = j.list
    BY <1>0 DEF IsJob
<1>2. k.left = l /\ k.patch = p /\ k.transforms = t
    BY <1>0 DEF IsJob
<1>3. k = [active |-> k.active, plugin |-> k.plugin, left |-> k.left, list |-> k.list,
           patch |-> k.patch, transforms |-> k.transforms]
    BY <1>0 DEF IsJob
<1> QED
    BY <1>1, <1>2, <1>3 DEF IsJob

(* a handler that has something left to do                                   *)
LEMMA ActiveJob ==
    ASSUME NEW j, JobOK(j, arena, refused), j.active, j.list # NULL \/ j.patch # NULL
    PROVE  /\ IsJob(j)
           /\ j.plugin \in Plugins /\ j.left \in Seq(Request) /\ j.transforms \in Seq(Transform)
           /\ ListOf(arena, j.list, j.plugin)
           /\ NameAt(arena, j.list.idx) = NoName => refused
           /\ j.patch = NULL \/ LastPatch(arena, j.list, j.patch)
<1>1. j # NoJob
    BY DEF NoJob
<1> QED
    BY <1>1 DEF JobOK

(* what PatchesNext and PatchesTransform do, j and k being the handler       *)
(* before and after                                                          *)
NextBy(j, k) ==
    /\ j.active /\ j.left # <<>> /\ j.list # NULL
    /\ LET q == Head(j.left)
           r == patchlist_add(arena, j.list, q.file, q.find)
           p == Data(r.arena, r.patch.block)[r.patch.idx]
       IN  /\ arena' = r.arena
           /\ refused' = (refused \/ (r.patch = NULL) \/ p.file_off = 0 \/ p.find_off = 0)
           /\ sent' = [sent EXCEPT ![j.plugin] = Append(@, [q EXCEPT !.transforms = <<>>])]
           /\ k = [j EXCEPT !.left = Tail(@), !.patch = r.patch, !.transforms = q.transforms]
TransformBy(j, k) ==
    /\ j.active /\ j.transforms # <<>> /\ j.patch # NULL
    /\ LET t == Head(j.transforms)
           n == Len(sent[j.plugin])
           a == patch_add_transform(arena, j.patch, t.match, t.replace)
           p == Data(a, j.patch.block)[j.patch.idx]
           u == Data(a, p.transforms_off)[p.transform_count - 1]
       IN  /\ arena' = a
           /\ refused' = (refused \/ p = Data(arena, j.patch.block)[j.patch.idx]
                                  \/ u.match_off = 0 \/ u.replace_off = 0)
           /\ sent' = [sent EXCEPT ![j.plugin][n].transforms = Append(@, t)]
           /\ k = [j EXCEPT !.transforms = Tail(@)]

(* the handler adds the next patch                                           *)
LEMMA NextFaithful ==
    ASSUME ArenaOK, NEW j, NEW k, JobOK(j, arena, refused), NextBy(j, k)
    PROVE  FaithfulWith(k)
<1> DEFINE q == Head(j.left)
           plugin == j.plugin
           list == j.list
           r == patchlist_add(arena, list, q.file, q.find)
           b == r.arena
           p == Data(b, r.patch.block)[r.patch.idx]
<1>1. PICK shape : Live(arena, shape)
    BY DEF ArenaOK
<1>2. /\ j.active /\ j.left # <<>> /\ j.list # NULL
      /\ arena' = b /\ refused' = (refused \/ (r.patch = NULL) \/ p.file_off = 0 \/ p.find_off = 0)
      /\ sent' = [sent EXCEPT ![plugin] = Append(@, [q EXCEPT !.transforms = <<>>])]
      /\ k = [j EXCEPT !.left = Tail(@), !.patch = r.patch, !.transforms = q.transforms]
    BY DEF NextBy
<1>3. /\ IsJob(j)
      /\ plugin \in Plugins /\ j.left \in Seq(Request)
      /\ ListOf(arena, list, plugin) /\ (NameAt(arena, list.idx) = NoName => refused)
    BY <1>2, ActiveJob
<1>4. /\ q \in Request /\ Tail(j.left) \in Seq(Request)
      /\ q.file \in Strings /\ q.find \in Strings /\ q.transforms \in Seq(Transform)
  <2>1. q \in Request /\ Tail(j.left) \in Seq(Request)
    <3>1. j.left # <<>> /\ j.left \in Seq(Request)
        BY <1>2, <1>3
    <3> QED
        BY <3>1, HeadTail
  <2> HIDE DEF q
  <2> QED
      BY <2>1 DEF Request
<1> HIDE DEF q
<1>5. /\ k.plugin = plugin /\ k.left = Tail(j.left) /\ k.list = list
      /\ k.patch = r.patch /\ k.transforms = q.transforms
      /\ IsJob(k)
  <2> DEFINE l == Tail(j.left)
             o == r.patch
             t == q.transforms
  <2>1. k = JobWith(j, l, o, t)
      BY <1>2 DEF JobWith
  <2> HIDE DEF l, o, t
  <2>2. /\ k.plugin = j.plugin /\ k.left = l /\ k.list = j.list /\ k.patch = o
        /\ k.transforms = t /\ IsJob(k)
      BY <1>3, <2>1, JobExcept
  <2> QED
      BY <2>2 DEF l, o, t
<1>6. /\ refused' \in BOOLEAN /\ (refused => refused') /\ (r.patch = NULL => refused')
      /\ (~refused' => p.file_off # 0 /\ p.find_off # 0)
    BY <1>2 DEF ArenaOK
<1>7. \/ r = [arena |-> arena, patch |-> NULL]
      \/ \E new, x : Live(b, new) /\ PatchAdded(arena, b, list, plugin, r.patch, q.file, q.find, x)
  <2> HIDE DEF list, plugin
  <2> QED
      BY <1>1, <1>3, <1>4, NextStep
<1> HIDE DEF r
<1>8. CASE r = [arena |-> arena, patch |-> NULL]
  <2>1. b = arena /\ r.patch = NULL
      BY <1>8
  <2>2. JobOK(k, arena', refused')
      BY <1>2, <1>3, <1>4, <1>5, <1>6, <2>1 DEF JobOK
  <2> QED
      BY <1>1, <1>2, <1>6, <2>1, <2>2 DEF ArenaOK, Named, FaithfulWith
<1>9. CASE \E new, x : Live(b, new) /\ PatchAdded(arena, b, list, plugin, r.patch, q.file, q.find, x)
  <2>1. PICK new, x : Live(b, new) /\ PatchAdded(arena, b, list, plugin, r.patch, q.file, q.find, x)
      BY <1>9
  <2> DEFINE old == Registered(arena)[plugin]
             name == NameAt(arena, list.idx)
  <2> HIDE DEF b, p, plugin, list
  <2>2. /\ ListOf(b, list, plugin) /\ LastPatch(b, list, r.patch)
        /\ Registered(b) = IF name = NoName THEN Registered(arena)
                           ELSE [Registered(arena) EXCEPT ![plugin] = Append(old, x)]
        /\ x \in PatchText /\ x.transforms = <<>>
        /\ p.file_off # 0 => x.file = q.file
        /\ p.find_off # 0 => x.find = q.find
        /\ NameAt(b, list.idx) = name /\ (Nameless(b) => Nameless(arena))
      BY <2>1 DEF PatchAdded, RegistersAs, p
  <2>3. JobOK(k, arena', refused')
    <3>1. k.patch = NULL \/ LastPatch(b, list, r.patch)
        BY <2>2
    <3>2. /\ ListOf(arena', k.list, k.plugin)
          /\ NameAt(arena', k.list.idx) = NoName => refused'
          /\ k.patch = NULL \/ LastPatch(arena', k.list, k.patch)
        BY <1>2, <1>3, <1>5, <1>6, <2>2
    <3>3. k.plugin \in Plugins /\ k.left \in Seq(Request) /\ k.transforms \in Seq(Transform)
        BY <1>3, <1>4, <1>5
    <3> QED
        BY <1>5, <3>2, <3>3 DEF JobOK
  <2>4. ArenaOK'
      BY <1>2, <1>6, <2>1, <2>2, <2>3 DEF ArenaOK, Named
  <2>5. old \in Seq(PatchText)
      BY <1>1, <1>3, RegisteredType
  <2>6. ~refused => refused' \/ (Registered(arena) = sent => Registered(arena') = sent')
    <3> SUFFICES ASSUME Registered(arena) = sent, ~refused' PROVE Registered(b) = sent'
        BY <1>2
    <3>1. ~refused /\ name # NoName /\ Registered(arena) = sent
        BY <1>3, <1>6
    <3>2. x.file = q.file /\ x.find = q.find
        BY <1>6, <2>2
    <3>3. x = [q EXCEPT !.transforms = <<>>]
        BY <1>4, <2>2, <3>2, NoTransformsIs
    <3> QED
        BY <1>2, <2>2, <3>1, <3>3
  <2>7. Registry!Change \/ Registered(b) = Registered(arena)
    <3>1. CASE name = NoName
        BY <2>2, <3>1
    <3>2. CASE name # NoName
      <4> DEFINE new2 == Append(old, x)
      <4>1. Registered(b) = [Registered(arena) EXCEPT ![plugin] = new2] /\ Registered(b)[plugin] = new2
          BY <1>3, <2>2, <3>2, RegisteredMap
      <4>2. Len(new2) = Len(old) + 1 /\ new2[Len(new2)] = x
          BY <2>2, <2>5, AddPatchIs
      <4> HIDE DEF new2
      <4>3. Registry!AddPatch(plugin)
          BY <1>2, <2>2, <4>1, <4>2 DEF Registry!AddPatch, Registry!Becomes, new2
      <4> QED
          BY <1>3, <4>3 DEF Registry!Change
    <3> QED
        BY <3>1, <3>2
  <2> QED
      BY <1>2, <1>6, <2>3, <2>4, <2>6, <2>7 DEF FaithfulWith
<1> QED
    BY <1>7, <1>8, <1>9

(* a transform appended to the last patch, seen in the list                  *)
LEMMA AddTransformIs ==
    ASSUME NEW old \in Seq(PatchText), old # <<>>, NEW t \in TransformText,
           NEW new, new = LastWith(old, t), NEW last, last = new[Len(new)].transforms
    PROVE  /\ Len(new) = Len(old) /\ last # <<>> /\ last[Len(last)] = t
           /\ new = [old EXCEPT ![Len(old)].transforms = Append(@, t)]
<1> DEFINE n == Len(old)
           p == old[n]
           q == WithTransform(p, t)
<1>1. n \in Nat /\ n \in 1 .. n /\ p \in PatchText /\ DOMAIN old = 1 .. n
    OBVIOUS
<1>2. q.transforms = Append(p.transforms, t) /\ p.transforms \in Seq(TransformText) /\ q \in PatchText
  <2>1. p.transforms \in Seq(TransformText) /\ p = [file |-> p.file, find |-> p.find, transforms |-> p.transforms]
      BY <1>1 DEF PatchText
  <2> DEFINE s == Append(p.transforms, t)
  <2>0. q = [p EXCEPT !.transforms = s]
      BY DEF WithTransform
  <2> HIDE DEF p, s, q
  <2>2. /\ q.transforms = s /\ q.file = p.file /\ q.find = p.find
        /\ q = [file |-> q.file, find |-> q.find, transforms |-> q.transforms]
      BY <2>0, <2>1
  <2>3. s \in Seq(TransformText)
      BY <2>1 DEF s
  <2>4. p.file \in Texts /\ p.find \in Texts
      BY <1>1 DEF PatchText, p
  <2> QED
      BY <2>1, <2>2, <2>3, <2>4 DEF PatchText, s
<1>3. new = [old EXCEPT ![n] = q]
    BY DEF LastWith
<1> HIDE DEF q, p
<1>4. new \in Seq(PatchText) /\ Len(new) = n /\ new[n] = q
  <2> HIDE DEF n
  <2>1. new \in [1 .. n -> PatchText] /\ new[n] = q
    <3>1. old \in [1 .. n -> PatchText]
        BY <1>1 DEF n
    <3> QED
        BY <1>1, <1>2, <1>3, <3>1
  <2> QED
      BY <1>1, <2>1
<1>5. last = Append(p.transforms, t)
    BY <1>2, <1>4
<1>6. last # <<>> /\ last[Len(last)] = t
    BY <1>2, <1>5
<1>7. new = [old EXCEPT ![n].transforms = Append(@, t)]
    BY DEF LastWith, WithTransform
<1> QED
    BY <1>4, <1>6, <1>7

(* texts that agree in both fields are the same transform                    *)
LEMMA TransformIs ==
    ASSUME NEW h \in Transform, NEW t \in TransformText, t.match = h.match, t.replace = h.replace
    PROVE  t = h
    BY DEF Transform, TransformText

(* the handler adds the next transform                                       *)
LEMMA TransformFaithful ==
    ASSUME ArenaOK, NEW j, NEW k, JobOK(j, arena, refused), TransformBy(j, k)
    PROVE  FaithfulWith(k)
<1> DEFINE h == Head(j.transforms)
           plugin == j.plugin
           list == j.list
           patch == j.patch
           n == Len(sent[plugin])
           b == patch_add_transform(arena, patch, h.match, h.replace)
           p == Data(b, patch.block)[patch.idx]
           u == Data(b, p.transforms_off)[p.transform_count - 1]
<1>1. PICK shape : Live(arena, shape)
    BY DEF ArenaOK
<1>2. /\ j.active /\ j.transforms # <<>> /\ j.patch # NULL
      /\ arena' = b
      /\ refused' = (refused \/ p = Data(arena, patch.block)[patch.idx]
                             \/ u.match_off = 0 \/ u.replace_off = 0)
      /\ sent' = [sent EXCEPT ![plugin][n].transforms = Append(@, h)]
      /\ k = [j EXCEPT !.transforms = Tail(@)]
    BY DEF TransformBy
<1>3. /\ IsJob(j)
      /\ plugin \in Plugins /\ j.left \in Seq(Request) /\ j.transforms \in Seq(Transform)
      /\ ListOf(arena, list, plugin) /\ (NameAt(arena, list.idx) = NoName => refused)
      /\ LastPatch(arena, list, patch)
    BY <1>2, ActiveJob
<1>4. /\ h \in Transform /\ Tail(j.transforms) \in Seq(Transform)
      /\ h.match \in Strings /\ h.replace \in Strings
  <2>1. h \in Transform /\ Tail(j.transforms) \in Seq(Transform)
    <3>1. j.transforms # <<>> /\ j.transforms \in Seq(Transform)
        BY <1>2, <1>3
    <3> QED
        BY <3>1, HeadTail
  <2> HIDE DEF h
  <2> QED
      BY <2>1 DEF Transform
<1> HIDE DEF h
<1>5. /\ k.plugin = plugin /\ k.left = j.left /\ k.list = list
      /\ k.patch = patch /\ k.transforms = Tail(j.transforms)
      /\ IsJob(k)
  <2> DEFINE t == Tail(j.transforms)
  <2>1. k = [j EXCEPT !.transforms = t]
      BY <1>2
  <2> HIDE DEF t
  <2>2. /\ k.plugin = j.plugin /\ k.left = j.left /\ k.list = j.list
        /\ k.patch = j.patch /\ k.transforms = t /\ k.active = TRUE
      BY <1>3, <2>1 DEF IsJob
  <2>3. k = [active |-> k.active, plugin |-> k.plugin, left |-> k.left, list |-> k.list,
                patch |-> k.patch, transforms |-> k.transforms]
      BY <1>3, <2>1 DEF IsJob
  <2> QED
      BY <2>2, <2>3 DEF t, IsJob
<1>6. /\ refused' \in BOOLEAN /\ (refused => refused')
      /\ (~refused' => p # Data(arena, patch.block)[patch.idx] /\ u.match_off # 0 /\ u.replace_off # 0)
    BY <1>2 DEF ArenaOK
<1>7. \/ b = arena
      \/ \E new, t : /\ Live(b, new)
                     /\ TransformAdded(arena, b, list, plugin, patch, h.match, h.replace, t)
  <2> HIDE DEF list, plugin, patch
  <2> QED
      BY <1>1, <1>3, <1>4, TransformsStep
<1>8. CASE b = arena
  <2>1. refused'
      BY <1>6, <1>8
  <2>2. JobOK(k, arena', refused')
      BY <1>2, <1>3, <1>4, <1>5, <1>6, <1>8 DEF JobOK
  <2> QED
      BY <1>1, <1>2, <1>6, <1>8, <2>1, <2>2 DEF ArenaOK, Named, FaithfulWith
<1> HIDE DEF b
<1>9. CASE \E new, t : /\ Live(b, new)
                       /\ TransformAdded(arena, b, list, plugin, patch, h.match, h.replace, t)
  <2>1. PICK new, t : /\ Live(b, new)
                      /\ TransformAdded(arena, b, list, plugin, patch, h.match, h.replace, t)
      BY <1>9
  <2> DEFINE old == Registered(arena)[plugin]
             name == NameAt(arena, list.idx)
             more == LastWith(old, t)
             last == more[Len(more)].transforms
  <2> HIDE DEF p, u, plugin, list, patch
  <2>2. /\ ListOf(b, list, plugin) /\ LastPatch(b, list, patch)
        /\ NameAt(b, list.idx) = name /\ (Nameless(b) => Nameless(arena))
        /\ name # NoName => old # <<>>
        /\ Registered(b) = IF name = NoName THEN Registered(arena)
                           ELSE [Registered(arena) EXCEPT ![plugin] = more]
        /\ t \in TransformText
        /\ u.match_off # 0 => t.match = h.match
        /\ u.replace_off # 0 => t.replace = h.replace
      BY <2>1 DEF TransformAdded, RegistersAs, p, u
  <2>3. JobOK(k, arena', refused')
    <3>1. /\ ListOf(arena', k.list, k.plugin)
          /\ NameAt(arena', k.list.idx) = NoName => refused'
          /\ k.patch = NULL \/ LastPatch(arena', k.list, k.patch)
        BY <1>2, <1>3, <1>5, <1>6, <2>2
    <3>2. k.plugin \in Plugins /\ k.left \in Seq(Request) /\ k.transforms \in Seq(Transform)
        BY <1>3, <1>4, <1>5
    <3> QED
        BY <1>5, <3>1, <3>2 DEF JobOK
  <2>4. ArenaOK'
      BY <1>2, <1>6, <2>1, <2>2, <2>3 DEF ArenaOK, Named
  <2>5. old \in Seq(PatchText)
      BY <1>1, <1>3, RegisteredType
  <2> HIDE DEF old
  <2>6. name # NoName => /\ Len(more) = Len(old) /\ last # <<>> /\ last[Len(last)] = t
                         /\ more = [old EXCEPT ![Len(old)].transforms = Append(@, t)]
      BY <2>2, <2>5, AddTransformIs
  <2> HIDE DEF more, last
  <2>7. ~refused => refused' \/ (Registered(arena) = sent => Registered(arena') = sent')
    <3> SUFFICES ASSUME Registered(arena) = sent, ~refused' PROVE Registered(b) = sent'
        BY <1>2
    <3>1. ~refused /\ name # NoName /\ Registered(arena) = sent
        BY <1>3, <1>6
    <3>2. t = h
        BY <1>4, <1>6, <2>2, TransformIs
    <3>3. sent' = [sent EXCEPT ![plugin] = [sent[plugin] EXCEPT ![n].transforms = Append(@, h)]]
        BY <1>2
    <3>4. sent[plugin] = old /\ n = Len(old)
        BY <3>1 DEF old
    <3> QED
        BY <2>2, <2>6, <3>1, <3>2, <3>3, <3>4
  <2>8. Registry!Change \/ Registered(b) = Registered(arena)
    <3>1. CASE name = NoName
        BY <2>2, <3>1
    <3>2. CASE name # NoName
      <4>1. Registered(b) = [Registered(arena) EXCEPT ![plugin] = more] /\ Registered(b)[plugin] = more
          BY <1>3, <2>2, <3>2, RegisteredMap
      <4>2. Registry!AddTransform(plugin)
          BY <1>2, <2>2, <2>6, <3>2, <4>1 DEF Registry!AddTransform, Registry!Becomes, last, old
      <4> QED
          BY <1>3, <4>2 DEF Registry!Change
    <3> QED
        BY <3>1, <3>2
  <2> QED
      BY <1>2, <1>6, <2>3, <2>4, <2>7, <2>8 DEF FaithfulWith
<1> QED
    BY <1>7, <1>8, <1>9

(* the invariant of children and processes                                   *)
LEMMA ControlStep ==
    ASSUME Handled, [Next]_vars
    PROVE  Control'
<1> USE DEF Handled
<1>0. /\ NoChild \notin Children
      /\ \A c \in Children : c \in Nat
    BY DEF NoChild, Children
<1>1. CASE UNCHANGED vars
    BY <1>1 DEF Control, vars, childVars
<1>2. ASSUME NEW c \in Children, NEW p \in Plugins, Spawn(p, c) PROVE Control'
  <2>1. /\ runs' = [runs EXCEPT ![c] = p] /\ backend' = [backend EXCEPT ![c] = "starting"]
        /\ UNCHANGED <<m_processes, job, overlapped>> /\ backend[c] = "absent"
      BY <1>2 DEF Spawn
  <2>2. \A q \in Plugins : m_processes[q] # c
      BY <1>0, <2>1 DEF Control
  <2>3. runs' \in [Children -> Plugins \cup {NoName}] /\ backend' \in [Children -> Backends]
      BY <2>1 DEF Control, Backends
  <2>4. ~job[c].active
      BY <2>1 DEF Control
  <2> QED
      BY <2>1, <2>2, <2>3, <2>4 DEF Control
<1>3. ASSUME NEW p \in Plugins, TakeOut(p) PROVE Control'
  <2> DEFINE c == m_processes[p]
  <2>1. /\ backend' = [backend EXCEPT ![c] = "stopping"]
        /\ m_processes' = [m_processes EXCEPT ![p] = NoChild]
        /\ UNCHANGED <<runs, job, overlapped>> /\ c # NoChild
      BY <1>3 DEF TakeOut
  <2>2. c \in Children /\ runs[c] = p /\ backend[c] \in {"running", "dead"}
      BY <2>1 DEF Control
  <2> HIDE DEF c
  <2>3. backend' \in [Children -> Backends] /\ m_processes' \in [Plugins -> Children \cup {NoChild}]
      BY <2>1 DEF Control, Backends
  <2>4. ASSUME NEW q \in Plugins, m_processes'[q] # NoChild
        PROVE  m_processes'[q] = m_processes[q] /\ m_processes[q] # c
      BY <2>1, <2>2, <2>4 DEF Control, c
  <2>5. ~job[c].active
      BY <2>2 DEF Control
  <2> QED
      BY <2>1, <2>2, <2>3, <2>4, <2>5 DEF Control
<1>4. ASSUME NEW c \in Children, NEW message, PatchesRequest(c, message) PROVE Control'
  <2>1. UNCHANGED <<runs, backend, m_processes>> /\ backend[c] = "starting"
      BY <1>4 DEF PatchesRequest, childVars
  <2>2. CASE Meet({c})
    <3>1. /\ overlapped' = TRUE
          /\ job' = [d \in Children |-> IF d \in {c} \/ job[d].active THEN RacedJob ELSE NoJob]
        BY <2>2 DEF Meet
    <3> QED
        BY <2>1, <3>1 DEF Control, RacedJob, NoJob
  <2>3. CASE ~Meet({c})
    <3>1. /\ overlapped' = overlapped
          /\ \E k : k.active = TRUE /\ job' = [job EXCEPT ![c] = k]
        BY <1>4, <2>3 DEF PatchesRequest
    <3>2. PICK k : k.active = TRUE /\ job' = [job EXCEPT ![c] = k]
        BY <3>1
    <3> QED
        BY <2>1, <3>1, <3>2 DEF Control
  <2> QED
      BY <2>2, <2>3
<1>5. ASSUME NEW c \in Children, PatchesNext(c) \/ PatchesTransform(c) PROVE Control'
  <2>1. /\ UNCHANGED <<runs, backend, m_processes, overlapped>> /\ job[c].active
        /\ DOMAIN job' = DOMAIN job
        /\ job'[c].active = job[c].active
        /\ \A d \in Children : d # c => job'[d] = job[d]
    <3>1. Handles(c) /\ UNCHANGED <<runs, backend, m_processes, overlapped>>
        BY <1>5 DEF PatchesNext, PatchesTransform, childVars
    <3>2. IsJob(job[c])
        BY <3>1 DEF Handles, JobsOK, JobOK, NoJob
    <3>3. "active" \in DOMAIN job[c]
        BY <3>2 DEF IsJob
    <3>4. CASE PatchesNext(c)
      <4>1. \E l, o, t : job' = [job EXCEPT ![c] = JobWith(job[c], l, o, t)]
        <5>1. PICK l, o, t : job' = [job EXCEPT ![c].left = l, ![c].patch = o, ![c].transforms = t]
            BY <3>4 DEF PatchesNext
        <5>2. job' = [job EXCEPT ![c] = JobWith(job[c], l, o, t)]
            BY <5>1 DEF JobWith, Control
        <5> QED
            BY <5>2
      <4>2. PICK l, o, t : job' = [job EXCEPT ![c] = JobWith(job[c], l, o, t)]
          BY <4>1
      <4>3. JobWith(job[c], l, o, t).active = job[c].active
          BY <3>3 DEF JobWith
      <4> QED
          BY <3>1, <4>2, <4>3 DEF Handles, Control
    <3>5. CASE PatchesTransform(c)
      <4>1. job' = [job EXCEPT ![c].transforms = Tail(@)]
          BY <3>5 DEF PatchesTransform
      <4>2. job'[c] = [job[c] EXCEPT !.transforms = Tail(@)]
          BY <4>1 DEF Control
      <4>3. job'[c].active = job[c].active
          BY <3>3, <4>2
      <4> QED
          BY <3>1, <4>1, <4>3 DEF Handles, Control
    <3> QED
        BY <1>5, <3>4, <3>5
  <2> QED
      BY <2>1 DEF Control
<1>6. ASSUME NEW c \in Children, PatchesFault(c) PROVE Control'
    BY <1>6 DEF PatchesFault, childVars, Control
<1>7. ASSUME NEW c \in Children, job[c].active, Answered(c) PROVE Control'
  <2>1. /\ job' = [job EXCEPT ![c] = NoJob] /\ backend' = [backend EXCEPT ![c] = "loading"]
        /\ UNCHANGED <<runs, m_processes, overlapped>> /\ backend[c] = "starting"
      BY <1>7 DEF Answered, Control
  <2>2. \A q \in Plugins : m_processes[q] # c
      BY <1>0, <2>1 DEF Control
  <2> QED
      BY <2>1, <2>2 DEF Control, Backends, NoJob
<1>8. ASSUME NEW c \in Children, Started(c) PROVE Control'
  <2> DEFINE p == runs[c]
             old == m_processes[p]
  <2>1. /\ backend[c] \in {"starting", "loading"} /\ ~job[c].active
        /\ runs' = [d \in Children |-> IF d = old THEN NoName ELSE runs[d]]
        /\ backend' = [d \in Children |-> IF d = c THEN "running"
                                          ELSE IF d = old THEN "absent" ELSE backend[d]]
        /\ m_processes' = [m_processes EXCEPT ![p] = c]
        /\ UNCHANGED <<job, overlapped>>
      BY <1>8 DEF Started
  <2>2. /\ p \in Plugins /\ old \in Children \cup {NoChild} /\ old # c
        /\ old # NoChild => runs[old] = p /\ backend[old] \in {"running", "dead"}
      BY <1>0, <2>1 DEF Control
  <2> HIDE DEF p
  <2>3. /\ runs' \in [Children -> Plugins \cup {NoName}] /\ backend' \in [Children -> Backends]
        /\ m_processes' \in [Plugins -> Children \cup {NoChild}]
      BY <2>1, <2>2 DEF Control, Backends
  <2>4. runs'[c] = p /\ backend'[c] = "running"
      BY <2>1, <2>2 DEF p
  <2>5. ASSUME NEW q \in Plugins, m_processes'[q] # NoChild
        PROVE  runs'[m_processes'[q]] = q /\ backend'[m_processes'[q]] \in {"running", "dead"}
    <3>1. CASE q = p
        BY <2>1, <2>2, <2>4, <3>1 DEF Control
    <3>2. CASE q # p
      <4>1. m_processes'[q] = m_processes[q] /\ m_processes[q] \in Children
          BY <2>1, <2>5, <3>2 DEF Control
      <4>2. runs[m_processes[q]] = q /\ backend[m_processes[q]] \in {"running", "dead"}
          BY <2>5, <4>1 DEF Control
      <4>3. m_processes[q] # old /\ m_processes[q] # c
          BY <1>0, <2>1, <2>2, <3>2, <4>1, <4>2
      <4> QED
          BY <2>1, <4>1, <4>2, <4>3
    <3> QED
        BY <3>1, <3>2
  <2>6. ASSUME NEW d \in Children
        PROVE  /\ backend'[d] # "absent" => runs'[d] \in Plugins
               /\ job[d].active => backend'[d] = "starting"
    <3>1. CASE d = c
        BY <2>1, <2>2, <2>4, <3>1
    <3>2. CASE d = old /\ d # c
      <4>1. backend'[d] = "absent" /\ ~job[d].active
          BY <1>0, <2>1, <2>2, <3>2 DEF Control
      <4> QED
          BY <4>1
    <3>3. CASE d # old /\ d # c
      <4>1. backend'[d] = backend[d] /\ runs'[d] = runs[d]
          BY <2>1, <3>3
      <4> QED
          BY <4>1 DEF Control
    <3> QED
        BY <3>1, <3>2, <3>3
  <2> QED
      BY <2>1, <2>3, <2>5, <2>6 DEF Control
<1>9. ASSUME NEW c \in Children, StartFailed(c) \/ RemovePatches(c) PROVE Control'
  <2>1. /\ runs' = [runs EXCEPT ![c] = NoName] /\ backend' = [backend EXCEPT ![c] = "absent"]
        /\ UNCHANGED <<m_processes, job, overlapped>>
        /\ backend[c] \in {"starting", "loading", "removing"} /\ ~job[c].active
      BY <1>9 DEF StartFailed, RemovePatches, Gone, Control
  <2>2. \A q \in Plugins : m_processes[q] # c
      BY <1>0, <2>1 DEF Control
  <2> QED
      BY <2>1, <2>2 DEF Control, Backends
<1>10. ASSUME NEW c \in Children, Crash(c) PROVE Control'
  <2>1. /\ backend' = [backend EXCEPT ![c] = "dead"] /\ backend[c] = "running"
        /\ UNCHANGED <<runs, m_processes, job, overlapped>>
      BY <1>10 DEF Crash
  <2> QED
      BY <2>1 DEF Control, Backends
<1>11. ASSUME NEW c \in Children, RemoveBegins(c) PROVE Control'
  <2>1. /\ backend' = [backend EXCEPT ![c] = "removing"] /\ backend[c] = "stopping"
        /\ UNCHANGED <<runs, m_processes>>
      BY <1>11 DEF RemoveBegins
  <2>2. /\ overlapped' \in BOOLEAN /\ DOMAIN job' = Children
        /\ \A d \in Children : job'[d].active = job[d].active
    <3>1. CASE Meet({})
        BY <3>1 DEF Meet, RacedJob, NoJob, Control
    <3>2. CASE ~Meet({})
        BY <1>11, <3>2 DEF RemoveBegins, Control
    <3> QED
        BY <3>1, <3>2
  <2>3. \A q \in Plugins : m_processes[q] # c
      BY <1>0, <2>1 DEF Control
  <2> QED
      BY <2>1, <2>2, <2>3 DEF Control, Backends
<1>12. ASSUME NEW c \in Children, PatchesDone(c) PROVE Control'
    BY <1>7, <1>12 DEF PatchesDone, Handles
<1>13. ASSUME NEW c \in Children, PatchesRaced(c) PROVE Control'
  <2>1. CASE Answered(c)
      BY <1>7, <1>13, <2>1 DEF PatchesRaced
  <2>2. CASE ~Answered(c)
      BY <1>13, <2>2 DEF PatchesRaced, childVars, Control
  <2> QED
      BY <2>1, <2>2
<1> QED
    BY <1>1, <1>2, <1>3, <1>4, <1>5, <1>6, <1>8, <1>9, <1>10, <1>11, <1>12, <1>13 DEF Next

(* What every step does to the registry and to the invariant                 *)
Faithful ==
    /\ Handled'
    /\ HoldsWhatWasSent => HoldsWhatWasSent'
    /\ overlapped => overlapped'
    /\ ~overlapped' => Registry!Change \/ Registered(arena') = Registered(arena)

(* two threads meet, or one enters where threads have met                    *)
LEMMA MeetFaithful ==
    ASSUME Control', NEW handlers, Meet(handlers)
    PROVE  Faithful
<1>1. overlapped' = TRUE /\ arena' = InitialArena /\ refused' = FALSE
    BY DEF Meet
<1>2. ArenaOK'
    BY <1>1, InitialOK DEF ArenaOK, Named
<1> QED
    BY <1>1, <1>2 DEF Faithful, Handled, Alone, JobsOK, HoldsWhatWasSent

(* a step of the one thread that is in the arena's code, c being its child   *)
LEMMA OneFaithful ==
    ASSUME Control', Alone', ~overlapped, ~overlapped', NEW c \in Children, NEW k,
           FaithfulWith(k), job'[c] = k,
           \A d \in Children : d # c => job'[d] = NoJob
    PROVE  Faithful
<1>1. \A d \in Children : JobOK(job'[d], arena', refused')
    BY DEF FaithfulWith, JobOK
<1>2. JobsOK' /\ ArenaOK'
    BY <1>1 DEF JobsOK, FaithfulWith
<1>3. HoldsWhatWasSent => HoldsWhatWasSent'
    BY DEF FaithfulWith, HoldsWhatWasSent
<1> QED
    BY <1>2, <1>3 DEF Faithful, Handled, FaithfulWith

(* a step outside the arena's code                                           *)
LEMMA QuietFaithful ==
    ASSUME Handled, Control', UNCHANGED <<arena, sent, refused, overlapped>>,
           Inside' \subseteq Inside, \A c \in Children : job'[c] \in {job[c], NoJob}
    PROVE  Faithful
<1>1. ArenaOK' /\ (HoldsWhatWasSent => HoldsWhatWasSent')
    BY DEF Handled, ArenaOK, Named, HoldsWhatWasSent
<1>2. Alone'
    BY DEF Handled, Alone
<1>3. JobsOK'
    BY DEF Handled, JobsOK, JobOK
<1> QED
    BY <1>1, <1>2, <1>3 DEF Faithful, Handled

(* no handler runs but that of a child that is alone in the arena's code     *)
LEMMA OthersIdle ==
    ASSUME Handled, ~overlapped, NEW c \in Children, NEW d \in Children, d # c,
           c \in Inside \/ Inside = {}
    PROVE  job[d] = NoJob
<1>1. d \notin Inside
    BY DEF Handled, Alone
<1>2. ~job[d].active
    BY <1>1 DEF Inside
<1>3. JobOK(job[d], arena, refused)
    BY DEF Handled, JobsOK
<1>4. IsJob(job[d]) => job[d].active = TRUE
    BY DEF IsJob
<1> QED
    BY <1>2, <1>3, <1>4 DEF JobOK

(* every step keeps the invariant and is a step of the registry              *)
LEMMA StepFaithful ==
    ASSUME Handled, [Next]_vars
    PROVE  Faithful
<1>0. Control /\ Control' /\ ArenaOK /\ Alone
    BY ControlStep DEF Handled
<1>1. CASE UNCHANGED vars
  <2>1. UNCHANGED <<arena, sent, refused, overlapped, job, backend>>
      BY <1>1 DEF vars, arenaVars, childVars
  <2>2. Inside' = Inside
      BY <2>1 DEF Inside
  <2> QED
      BY <1>0, <2>1, <2>2, QuietFaithful
<1>2. ASSUME NEW c \in Children, NEW p \in Plugins, Spawn(p, c) PROVE Faithful
  <2>1. /\ UNCHANGED <<arena, sent, refused, overlapped, job>>
        /\ backend' = [backend EXCEPT ![c] = "starting"]
      BY <1>2 DEF Spawn, arenaVars
  <2>2. Inside' \subseteq Inside
      BY <1>0, <2>1 DEF Inside, Control
  <2> QED
      BY <1>0, <2>1, <2>2, QuietFaithful
<1>3. ASSUME NEW p \in Plugins, TakeOut(p) PROVE Faithful
  <2>1. /\ UNCHANGED <<arena, sent, refused, overlapped, job>>
        /\ backend' = [backend EXCEPT ![m_processes[p]] = "stopping"]
      BY <1>3 DEF TakeOut, arenaVars
  <2>2. Inside' \subseteq Inside
      BY <1>0, <2>1 DEF Inside, Control
  <2> QED
      BY <1>0, <2>1, <2>2, QuietFaithful
<1>4. ASSUME NEW c \in Children, NEW message, PatchesRequest(c, message) PROVE Faithful
  <2>1. CASE Meet({c})
      BY <1>0, <2>1, MeetFaithful
  <2>2. CASE ~Meet({c})
    <3> DEFINE p == runs[c]
               r == hashmap_add_key(arena, p)
               k == [active |-> TRUE, plugin |-> p, left |-> message, list |-> r.list,
                     patch |-> NULL, transforms |-> <<>>]
    <3>1. /\ ~overlapped /\ Inside = {} /\ overlapped' = overlapped
          /\ message \in Messages[p] /\ backend[c] = "starting"
          /\ arena' = r.arena /\ refused' = (refused \/ ~Has(r.arena, p)) /\ sent' = sent
          /\ job' = [job EXCEPT ![c] = k] /\ backend' = backend
        BY <1>4, <2>2 DEF PatchesRequest, Meets, childVars
    <3>2. p \in Plugins
        BY <1>0, <3>1 DEF Control
    <3> HIDE DEF p, r
    <3>3. FaithfulWith(k)
        BY <1>0, <3>1, <3>2, RequestFaithful DEF r
    <3> HIDE DEF k
    <3>4. job'[c] = k /\ \A d \in Children : d # c => job'[d] = job[d]
        BY <1>0, <3>1 DEF Control
    <3>5. \A d \in Children : d # c => job'[d] = NoJob
        BY <3>1, <3>4, OthersIdle
    <3>6. Inside' \subseteq {c}
        BY <3>1, <3>4 DEF Inside
    <3>7. Alone'
        BY <3>6 DEF Alone
    <3> QED
        BY <1>0, <3>1, <3>3, <3>4, <3>5, <3>7, OneFaithful
  <2> QED
      BY <2>1, <2>2
<1>5. ASSUME NEW c \in Children, NEW k, job[c].active, ~overlapped, FaithfulWith(k),
             job'[c] = k, \A d \in Children : d # c => job'[d] = job[d],
             UNCHANGED <<backend, overlapped>>
      PROVE  Faithful
  <2>1. c \in Inside
      BY <1>5 DEF Inside
  <2>2. \A d \in Children : d # c => job'[d] = NoJob
      BY <1>5, <2>1, OthersIdle
  <2>3. \A d \in Children : d # c => ~job'[d].active /\ d \notin Inside
      BY <1>0, <1>5, <2>1, <2>2 DEF Alone, NoJob
  <2>4. Inside' \subseteq {c}
      BY <1>5, <2>3 DEF Inside
  <2>5. Alone'
      BY <2>4 DEF Alone
  <2> QED
      BY <1>0, <1>5, <2>2, <2>5, OneFaithful
<1>6. ASSUME NEW c \in Children, PatchesNext(c) PROVE Faithful
  <2> DEFINE j == job[c]
             k == job'[c]
  <2>1. /\ j.active /\ ~overlapped /\ UNCHANGED <<backend, overlapped>>
        /\ \A d \in Children : d # c => job'[d] = job[d]
        /\ NextBy(j, k)
    <3>2. \A d \in Children : d # c => job'[d] = job[d]
        BY <1>0, <1>6 DEF Control, PatchesNext
    <3>3. j.active /\ ~overlapped /\ UNCHANGED <<backend, overlapped>>
        BY <1>6 DEF PatchesNext, Handles, childVars
    <3>4. c \in DOMAIN job
        BY <1>0 DEF Control
    <3>5. NextBy(j, k)
      <4> DEFINE q == Head(j.left)
                 r == patchlist_add(arena, j.list, q.file, q.find)
                 p == Data(r.arena, r.patch.block)[r.patch.idx]
                 new == [j EXCEPT !.left = Tail(@), !.patch = r.patch, !.transforms = q.transforms]
      <4>1. /\ j.left # <<>> /\ j.list # NULL /\ arena' = r.arena
            /\ refused' = (refused \/ (r.patch = NULL) \/ p.file_off = 0 \/ p.find_off = 0)
            /\ sent' = [sent EXCEPT ![j.plugin] = Append(@, [q EXCEPT !.transforms = <<>>])]
            /\ job' = [job EXCEPT ![c].left = Tail(@), ![c].patch = r.patch,
                                  ![c].transforms = q.transforms]
          BY <1>6 DEF PatchesNext
      <4>2. k = new
          BY <3>4, <4>1
      <4> QED
          BY <3>3, <4>1, <4>2 DEF NextBy, new
    <3> QED
        BY <3>2, <3>3, <3>5
  <2>2. JobOK(j, arena, refused)
      BY <2>1 DEF Handled, JobsOK
  <2> HIDE DEF j, k
  <2>3. FaithfulWith(k)
      BY <1>0, <2>1, <2>2, NextFaithful
  <2> QED
      BY <1>5, <2>1, <2>3 DEF j, k
<1>7. ASSUME NEW c \in Children, PatchesTransform(c) PROVE Faithful
  <2> DEFINE j == job[c]
             k == job'[c]
  <2>1. /\ j.active /\ ~overlapped /\ UNCHANGED <<backend, overlapped>>
        /\ \A d \in Children : d # c => job'[d] = job[d]
        /\ TransformBy(j, k)
      BY <1>0, <1>7 DEF PatchesTransform, Handles, childVars, TransformBy, Control
  <2>2. JobOK(j, arena, refused)
      BY <2>1 DEF Handled, JobsOK
  <2> HIDE DEF j, k
  <2>3. FaithfulWith(k)
      BY <1>0, <2>1, <2>2, TransformFaithful
  <2> QED
      BY <1>5, <2>1, <2>3 DEF j, k
<1>8. ASSUME NEW c \in Children, PatchesFault(c) \/ (PatchesRaced(c) /\ ~Answered(c)) PROVE Faithful
  <2>1. UNCHANGED <<arena, sent, refused, overlapped, job, backend>>
      BY <1>8 DEF PatchesFault, PatchesRaced, arenaVars, childVars
  <2>2. Inside' = Inside
      BY <2>1 DEF Inside
  <2> QED
      BY <1>0, <2>1, <2>2, QuietFaithful
<1>9. ASSUME NEW c \in Children, Answered(c) PROVE Faithful
  <2>1. /\ UNCHANGED <<arena, sent, refused, overlapped>>
        /\ job' = [job EXCEPT ![c] = NoJob] /\ backend' = [backend EXCEPT ![c] = "loading"]
      BY <1>9 DEF Answered, arenaVars
  <2>2. \A d \in Children : job'[d] \in {job[d], NoJob}
      BY <1>0, <2>1 DEF Control
  <2>3. Inside' \subseteq Inside
      BY <1>0, <2>1 DEF Inside, Control, NoJob
  <2> QED
      BY <1>0, <2>1, <2>2, <2>3, QuietFaithful
<1>10. ASSUME NEW c \in Children, Started(c) \/ StartFailed(c) \/ Crash(c) PROVE Faithful
  <2>1. /\ UNCHANGED <<arena, sent, refused, overlapped, job>>
        /\ \A d \in Children : backend'[d] = "removing" => backend[d] = "removing"
    <3>1. CASE Started(c)
        BY <1>0, <3>1 DEF Started, arenaVars, Control
    <3>2. CASE StartFailed(c)
        BY <1>0, <3>2 DEF StartFailed, Gone, arenaVars, Control
    <3>3. CASE Crash(c)
        BY <1>0, <3>3 DEF Crash, arenaVars, Control
    <3> QED
        BY <1>10, <3>1, <3>2, <3>3
  <2>2. Inside' \subseteq Inside
      BY <2>1 DEF Inside
  <2> QED
      BY <1>0, <2>1, <2>2, QuietFaithful
<1>11. ASSUME NEW c \in Children, RemoveBegins(c) PROVE Faithful
  <2>1. CASE Meet({})
      BY <1>0, <2>1, MeetFaithful
  <2>2. CASE ~Meet({})
    <3>1. /\ ~overlapped /\ Inside = {} /\ UNCHANGED <<arena, sent, refused, job, overlapped>>
          /\ backend' = [backend EXCEPT ![c] = "removing"]
        BY <1>11, <2>2 DEF RemoveBegins, Meets, arenaVars
    <3>2. Inside' \subseteq {c}
        BY <1>0, <3>1 DEF Inside, Control
    <3>3. Alone'
        BY <3>2 DEF Alone
    <3>4. ArenaOK' /\ JobsOK' /\ (HoldsWhatWasSent => HoldsWhatWasSent')
        BY <3>1 DEF Handled, ArenaOK, Named, JobsOK, HoldsWhatWasSent
    <3> QED
        BY <1>0, <3>1, <3>3, <3>4 DEF Faithful, Handled
  <2> QED
      BY <2>1, <2>2
<1>12. ASSUME NEW c \in Children, RemovePatches(c) PROVE Faithful
  <2>1. /\ UNCHANGED <<refused, job, overlapped>> /\ backend[c] = "removing"
        /\ backend' = [backend EXCEPT ![c] = "absent"]
      BY <1>12 DEF RemovePatches, Gone
  <2>2. Inside' \subseteq Inside /\ c \in Inside
      BY <1>0, <2>1 DEF Inside, Control
  <2>3. CASE overlapped
    <3>1. UNCHANGED <<arena, sent>>
        BY <1>12, <2>3 DEF RemovePatches
    <3> QED
        BY <1>0, <2>1, <2>2, <3>1, QuietFaithful
  <2>4. CASE ~overlapped
    <3> DEFINE p == runs[c]
    <3>1. arena' = hashmap_remove(arena, p) /\ sent' = [sent EXCEPT ![p] = <<>>]
        BY <1>12, <2>4 DEF RemovePatches
    <3>2. p \in Plugins
        BY <1>0, <2>1 DEF Control
    <3> HIDE DEF p
    <3>3. FaithfulWith(NoJob)
        BY <1>0, <2>1, <3>1, <3>2, RemoveFaithful
    <3>4. \A d \in Children : d # c => job'[d] = NoJob
        BY <2>1, <2>2, <2>4, OthersIdle
    <3>5. job'[c] = NoJob
      <4>1. ~job[c].active
          BY <1>0, <2>1 DEF Control
      <4>2. JobOK(job[c], arena, refused)
          BY <2>4 DEF Handled, JobsOK
      <4>3. IsJob(job[c]) => job[c].active = TRUE
          BY DEF IsJob
      <4> QED
          BY <2>1, <4>1, <4>2, <4>3 DEF JobOK
    <3>6. Alone'
        BY <1>0, <2>1, <2>2 DEF Alone
    <3> QED
        BY <1>0, <2>1, <2>4, <3>3, <3>4, <3>5, <3>6, OneFaithful
  <2> QED
      BY <2>3, <2>4
<1> QED
    BY <1>1, <1>2, <1>3, <1>4, <1>6, <1>7, <1>8, <1>9, <1>10, <1>11, <1>12
       DEF Next, PatchesDone

(* the invariant holds always                                                *)
LEMMA HandledAlways == Spec => [](Handled /\ HoldsWhatWasSent)
<1>1. Init => Handled /\ HoldsWhatWasSent
    BY HandledInit
<1>2. Handled /\ HoldsWhatWasSent /\ [Next]_vars => (Handled /\ HoldsWhatWasSent)'
    BY StepFaithful DEF Faithful
<1> QED
    BY <1>1, <1>2, PTL DEF Spec

(* an array of the typed heap has the cells OffsetsValid asks for            *)
LEMMA ArraysAreArrays ==
    ASSUME NEW a, NEW shape, Proper(a, shape), NEW off, NEW n \in Nat
    PROVE  /\ Refers(shape, off, "keys", n) => IsArray(a, off, n, SizeofOffset)
           /\ Refers(shape, off, "values", n) => IsArray(a, off, n, SizeofList)
           /\ Refers(shape, off, "patches", n) => IsArray(a, off, n, SizeofPatch)
           /\ Refers(shape, off, "transforms", n) => IsArray(a, off, n, SizeofTransform)
<1> SUFFICES ASSUME off \in Blocks(a)
             PROVE  /\ Refers(shape, off, "keys", n) => IsArray(a, off, n, SizeofOffset)
                    /\ Refers(shape, off, "values", n) => IsArray(a, off, n, SizeofList)
                    /\ Refers(shape, off, "patches", n) => IsArray(a, off, n, SizeofPatch)
                    /\ Refers(shape, off, "transforms", n) => IsArray(a, off, n, SizeofTransform)
    BY DEF Proper, WellTyped, Refers
<1>1. HoldsData(shape, shape[off], a.heap[off].size, Data(a, off))
    BY DEF Proper, WellTyped
<1>2. ASSUME NEW type, Refers(shape, off, type, n) PROVE shape[off].type = type /\ shape[off].len = n
    BY <1>2 DEF Refers
<1> QED
    BY <1>1, <1>2 DEF HoldsData, IsArray

(* what Valid says follows from the invariant                         *)
LEMMA LiveOffsets ==
    ASSUME NEW shape, Live(arena, shape)
    PROVE  Valid(arena)
<1> DEFINE a == arena
           m == arena.map
           IsString(off) == off = 0 \/ off \in Blocks(a)
<1>1. Proper(a, shape) /\ MapOK(a, shape) /\ Distinct(a) /\ DOMAIN shape = Blocks(a)
    BY DEF Live, Proper, WellTyped
<1>2. /\ m.capacity \in Nat /\ m.count \in 0 .. m.capacity /\ m.count \in Nat
      /\ Refers(shape, m.keys_off, "keys", m.capacity)
      /\ Refers(shape, m.values_off, "values", m.capacity)
    BY <1>1 DEF MapOK
<1>3. /\ IsArray(a, m.keys_off, m.capacity, SizeofOffset)
      /\ IsArray(a, m.values_off, m.capacity, SizeofList)
    BY <1>1, <1>2, ArraysAreArrays
<1>4. \A o \in StringCells(shape) \cup KeyCells(shape) : IsString(o)
    BY <1>1 DEF StringCells, KeyCells
<1>5. ASSUME NEW i \in Entries(a)
      PROVE  IsString(Keys(a)[i])
  <2>1. Keys(a) \in [0 .. m.capacity - 1 -> KeyCells(shape)]
      BY <1>1, MapFacts
  <2>2. i \in 0 .. m.capacity - 1
      BY <1>2 DEF Entries
  <2> QED
      BY <1>4, <2>1, <2>2
<1>6. ASSUME NEW i \in Entries(a)
      PROVE  LET l == Values(a)[i]
             IN  /\ l.patch_count \in 0 .. l.patch_capacity
                 /\ l.patch_capacity > 0 => IsArray(a, l.patches_off, l.patch_capacity, SizeofPatch)
  <2> DEFINE l == Values(a)[i]
  <2>1. l \in ListCells(shape) /\ l.patch_count \in Nat /\ l.patch_capacity \in Nat /\ l.patch_count <= l.patch_capacity
      BY <1>1, ListFacts
  <2>2. l.patch_capacity > 0 => Refers(shape, l.patches_off, "patches", l.patch_capacity)
      BY <2>1 DEF ListCells
  <2> HIDE DEF l
  <2>3. l.patch_capacity > 0 => IsArray(a, l.patches_off, l.patch_capacity, SizeofPatch)
      BY <1>1, <2>1, <2>2, ArraysAreArrays
  <2> QED
      BY <2>1, <2>3 DEF l
<1>7. ASSUME NEW i \in Entries(a), NEW k \in PatchesIn(a, i)
      PROVE  LET p == PatchAt(a, i, k)
             IN  /\ IsString(p.file_off) /\ IsString(p.find_off)
                 /\ p.transform_count \in 0 .. p.transform_capacity
                 /\ p.transform_capacity > 0 =>
                       IsArray(a, p.transforms_off, p.transform_capacity, SizeofTransform)
  <2> DEFINE p == PatchAt(a, i, k)
  <2>1. p \in PatchCells(shape)
      BY <1>1, PatchFacts
  <2> HIDE DEF p
  <2>2. /\ p.file_off \in StringCells(shape) /\ p.find_off \in StringCells(shape)
        /\ p.transform_count \in Nat /\ p.transform_capacity \in Nat
        /\ p.transform_count <= p.transform_capacity
        /\ p.transform_capacity > 0 => Refers(shape, p.transforms_off, "transforms", p.transform_capacity)
      BY <2>1 DEF PatchCells
  <2>3. p.transform_capacity > 0 => IsArray(a, p.transforms_off, p.transform_capacity, SizeofTransform)
      BY <1>1, <2>2, ArraysAreArrays
  <2> QED
      BY <1>4, <2>2, <2>3 DEF p
<1> HIDE DEF IsString
<1> QED
    BY <1>1, <1>2, <1>3, <1>5, <1>6, <1>7 DEF Valid, Distinct, Entries, PatchesIn, PatchAt, IsString

(* For every size of the arena, every set of messages, any number of         *)
(* children and every order of their starts, crashes and stops: up to the    *)
(* moment two threads meet in the arena's code, salloc() never has given out *)
(* a byte twice nor one behind the end of the arena.                         *)
THEOREM AllocationsAreDisjoint == Spec => []BlocksDisjoint
<1>1. Handled => BlocksDisjoint
  <2> SUFFICES ASSUME Handled PROVE BlocksDisjoint
      OBVIOUS
  <2>1. PICK shape : Live(arena, shape)
      BY DEF Handled, ArenaOK
  <2>2. Sound(arena)
      BY <2>1 DEF Live, Proper
  <2> QED
      BY <2>2 DEF Sound, BlocksDisjoint, Disjoint
<1> QED
    BY <1>1, HandledAlways, PTL

(* Up to the moment two threads meet in the arena's code, the loopback hook  *)
(* that follows the offsets of the live entries                              *)
(* finds the arrays it expects, with at least as many cells as are counted,  *)
(* whatever was added, grown and removed before: no entry of                 *)
(* hashmap_add_key(), patchlist_add() or patch_add_transform() is left       *)
(* pointing to a block of another kind or to an array that is too small, and *)
(* no plugin has two entries.                                                *)
THEOREM EntriesAreValid == Spec => []OffsetsValid
<1>1. Handled => OffsetsValid
    BY LiveOffsets DEF Handled, ArenaOK, OffsetsValid
<1> QED
    BY <1>1, HandledAlways, PTL

(* As long as no allocation has failed and no two threads have met in the    *)
(* arena's code, it holds for each plugin, in order, what its children sent  *)
(* in PATCHES since destroy_plugin() last removed its patches.               *)
THEOREM NothingIsLost == Spec => []HoldsWhatWasSent
    BY HandledAlways, PTL

(* The arena implements the registry of patches, also when it is full, up to *)
(* the moment two threads meet in its code, where the registry breaks: a     *)
(* call for one plugin changes the list of that plugin only, and only at its *)
(* end.                                                                      *)
THEOREM ArenaImplementsRegistry == Spec => ImplementsRegistry
<1>1. Init => Registry!Init
    BY HandledInit
<1>2. Handled /\ [Next]_vars => [Registry!Next]_<<Registered(arena), ~overlapped>>
  <2> SUFFICES ASSUME Handled, [Next]_vars
               PROVE  [Registry!Next]_<<Registered(arena), ~overlapped>>
      OBVIOUS
  <2>1. Faithful
      BY StepFaithful
  <2>2. CASE overlapped'
      BY <2>2 DEF Registry!Next, Registry!Break
  <2>3. CASE ~overlapped' /\ Registered(arena') = Registered(arena)
      BY <2>1, <2>3 DEF Faithful
  <2>4. CASE ~overlapped' /\ Registered(arena') # Registered(arena)
      BY <2>1, <2>4 DEF Faithful, Registry!Next
  <2> QED
      BY <2>2, <2>3, <2>4
<1> QED
    BY <1>1, <1>2, HandledAlways, PTL DEF Spec, ImplementsRegistry, Registry!Spec
=============================================================================
