----------------------------- MODULE PatchArena -----------------------------
(***************************************************************************)
(* The shared memory arena (src/state/shared_memory.cc) in which the       *)
(* loader keeps the patches of its plugins for the loopback hook in the    *)
(* web helper, the handler of PATCHES (plugin_loader.cc) that fills it and *)
(* the starts and stops of backends that decide when it is filled and      *)
(* emptied (backend_mgr.cc).                                               *)
(*                                                                         *)
(* The arena is a record: a bump allocator, the blocks it gave out, and    *)
(* the header of the hash map.  Every C function is an operator from an    *)
(* arena to an arena and a result, and one call of it is one step.  A      *)
(* pointer is the offset of its block and an index; offset 0 is NULL for   *)
(* an array and, read as a string, the header of the arena, whose first    *)
(* byte is 0: the empty string.  Sizes are bytes, sums are taken in 32     *)
(* bits (Word).                                                            *)
(*                                                                         *)
(* A name of a plugin is its rank in alphabetical order.                   *)
(*                                                                         *)
(* The arena has no lock.  PATCHES is handled on the reader thread of the  *)
(* child that sends it, and backends are started and stopped by the main   *)
(* thread, by pool threads of the FFI and by threads of the MEP server, so *)
(* that two threads may be in the arena's code at once (Inside).  That is  *)
(* a data race, after which the arena may hold anything (Meet): overlapped *)
(* is set and stays set, arena, sent and refused stand for nothing from    *)
(* then on, and a handler ends anyhow (PatchesRaced).  Every property is   *)
(* about the arena up to the first overlap, and says so.                   *)
(***************************************************************************)
EXTENDS Integers, Sequences, FiniteSets

CONSTANTS
    Plugins,        \* ranks of the plugins' names
    Strings,        \* the texts that occur in patches
    Messages,       \* plugin -> the arrays of patches its child may send
    NameLength,     \* strlen() of a plugin's name
    ArenaSize,      \* SHM_IPC_SIZE
    Word,           \* 2^32
    MapCapacity,    \* 16, the first capacity of the map
    ListCapacity,   \* 4, the first capacity of a list
    MaxChildren,    \* bound on the children there are at once
    MaxStarts       \* bound on the starts of backends

Children == 1 .. MaxChildren

\* What send_patches_to_parent() makes of an entry of the plugin's table; a
\* field that is missing is the empty string.
Transform == [match : Strings, replace : Strings]
Request == [file : Strings, find : Strings, transforms : Seq(Transform)]

ASSUME PluginsAssumption == Plugins \subseteq Nat \ {0}
ASSUME StringsAssumption == \A s \in Strings : Len(s) \in Nat
ASSUME MessagesAssumption ==
    \A p \in Plugins : Messages[p] \subseteq Seq(Request) \ {<<>>}
ASSUME CapacityAssumption == MapCapacity \in Nat \ {0} /\ ListCapacity \in Nat \ {0}

VARIABLES
    arena,      \* g_lb_patch_arena
    runs,       \* child -> the plugin it was started for, NoName if it is absent
    backend,    \* child -> what it does, see Backends
    m_processes, \* plugin -> the child published for it, NoChild if none is
    job,        \* child -> the handler of its PATCHES, NoJob if none runs
    sent,       \* plugin -> its patches, as its children sent them
    refused,    \* an allocation has failed
    overlapped, \* two threads have been in the arena's code at once
    loader,     \* "up", or "down" after a bad pointer was followed
    starts      \* number of starts so far

arenaVars == <<arena, sent, refused>>
childVars == <<runs, backend, m_processes>>
vars == <<arenaVars, childVars, job, overlapped, loader, starts>>

AllMessages == UNION {Messages[p] : p \in Plugins}
NoChild == 0
NoJob == [active |-> FALSE]
RacedJob == [active |-> TRUE]
NULL == [block |-> 0, idx |-> 0]
NoName == 0
EmptyString == <<>>

SizeofArena == 24
SizeofOffset == 4
SizeofList == 12
SizeofPatch == 20
SizeofTransform == 8

EmptyList == [patches_off |-> 0, patch_count |-> 0, patch_capacity |-> 0]
NoPatch == [file_off |-> 0, find_off |-> 0, transforms_off |-> 0,
            transform_count |-> 0, transform_capacity |-> 0]
NoTransform == [match_off |-> 0, replace_off |-> 0]

-----------------------------------------------------------------------------
(* The allocator.                                                          *)

Align(n) == ((n + 7) \div 8) * 8

\* There is room for the empty map, and no request takes the sum of salloc()
\* past 32 bits: an array at most doubles, and a string has come in one frame
\* (MAX_FRAME_SIZE, 16 MiB, in plugin_ipc.h; the arena is 1 MiB).
ASSUME SizesAssumption ==
    /\ ArenaSize \in Nat /\ Word \in Nat /\ NameLength \in Nat
    /\ SizeofArena + Align(MapCapacity * SizeofOffset) + Align(MapCapacity * SizeofList) <= ArenaSize
    /\ 3 * ArenaSize + 8 <= Word
    /\ ArenaSize + ListCapacity * SizeofPatch + 8 <= Word
    /\ ArenaSize + NameLength + 9 <= Word
    /\ \A s \in Strings : ArenaSize + Len(s) + 9 <= Word

\* Variant of salloc(): the size is not part of the test.
sallocUnsized(a, n, data) ==
    LET size == Align(n) % Word
    IN  IF a.used >= ArenaSize
        THEN [arena |-> a, off |-> 0]
        ELSE [arena |-> [used |-> (a.used + size) % Word, map |-> a.map,
                         heap |-> [o \in DOMAIN a.heap \cup {a.used} |->
                             IF o = a.used THEN [size |-> size, data |-> data] ELSE a.heap[o]]],
              off |-> a.used]

\* salloc() of n bytes that then hold data; off is 0 if there is no space.
salloc(a, n, data) ==
    LET size == Align(n) % Word
    IN  IF (a.used + size) % Word > ArenaSize
        THEN [arena |-> a, off |-> 0]
        ELSE [arena |-> [a EXCEPT
                 !.used = (a.used + size) % Word,
                 !.heap = [o \in DOMAIN a.heap \cup {a.used} |->
                     IF o = a.used THEN [size |-> size, data |-> data] ELSE a.heap[o]]],
              off |-> a.used]

shm_strdup(a, str, length) == salloc(a, length + 1, str)

Data(a, off) == a.heap[off].data
Write(a, off, i, cell) == [a EXCEPT !.heap[off].data[i] = cell]

\* An array of n zeroed cells, after the cells of an older one.
Cells(n, zero) == [i \in 0 .. n - 1 |-> zero]
\* Variant of Enlarged: the memcpy() is forgotten.
EnlargedFresh(old, n, zero) == Cells(n, zero)

Enlarged(old, n, zero) ==
    [i \in 0 .. n - 1 |-> IF i \in DOMAIN old THEN old[i] ELSE zero]

-----------------------------------------------------------------------------
(* The hash map: a sequence of names and, in parallel, of lists.           *)

\* screate() and hashmap_init()
InitialArena ==
    LET a == [used |-> SizeofArena, heap |-> [o \in {} |-> 0],
              map |-> [keys_off |-> 0, values_off |-> 0, count |-> 0, capacity |-> MapCapacity]]
        k == salloc(a, MapCapacity * SizeofOffset, Cells(MapCapacity, 0))
        v == salloc(k.arena, MapCapacity * SizeofList, Cells(MapCapacity, EmptyList))
    IN  [v.arena EXCEPT !.map.keys_off = k.off, !.map.values_off = v.off]

Keys(a) == Data(a, a.map.keys_off)
Values(a) == Data(a, a.map.values_off)
NameAt(a, i) == IF Keys(a)[i] = 0 THEN NoName ELSE Data(a, Keys(a)[i])

Has(a, key) == \E i \in 0 .. a.map.count - 1 : NameAt(a, i) = key
IndexOf(a, key) ==
    CHOOSE i \in 0 .. a.map.count - 1 :
        NameAt(a, i) = key /\ \A j \in 0 .. i - 1 : NameAt(a, j) # key

hashmap_get(a, key) ==
    IF Has(a, key) THEN [block |-> a.map.values_off, idx |-> IndexOf(a, key)] ELSE NULL

\* Variant of Grown: the values are not moved to their new array.
GrownKeysOnly(a) ==
    LET n == a.map.capacity * 2
        k == salloc(a, n * SizeofOffset, Enlarged(Keys(a), n, 0))
        v == salloc(k.arena, n * SizeofList, Enlarged(Values(a), n, EmptyList))
    IN  IF a.map.count < a.map.capacity THEN [arena |-> a, ok |-> TRUE]
        ELSE IF k.off = 0 \/ v.off = 0 THEN [arena |-> v.arena, ok |-> FALSE]
        ELSE [arena |-> [v.arena EXCEPT !.map.keys_off = k.off, !.map.capacity = n],
              ok |-> TRUE]

\* The part of hashmap_add_key() that makes room for one more entry.
Grown(a) ==
    LET n == a.map.capacity * 2
        k == salloc(a, n * SizeofOffset, Enlarged(Keys(a), n, 0))
        v == salloc(k.arena, n * SizeofList, Enlarged(Values(a), n, EmptyList))
    IN  IF a.map.count < a.map.capacity THEN [arena |-> a, ok |-> TRUE]
        ELSE IF k.off = 0 \/ v.off = 0 THEN [arena |-> v.arena, ok |-> FALSE]
        ELSE [arena |-> [v.arena EXCEPT !.map.keys_off = k.off, !.map.values_off = v.off,
                                        !.map.capacity = n],
              ok |-> TRUE]

\* The entry is counted whether or not its name could be stored.
hashmap_add_key(a, key) ==
    LET g == Grown(a)
        s == shm_strdup(g.arena, key, NameLength)
        n == a.map.count
        b == Write(s.arena, s.arena.map.keys_off, n, s.off)
        c == Write(b, b.map.values_off, n, EmptyList)
    IN  IF Has(a, key) THEN [arena |-> a, list |-> hashmap_get(a, key)]
        ELSE IF ~g.ok THEN [arena |-> g.arena, list |-> NULL]
        ELSE [arena |-> [c EXCEPT !.map.count = n + 1],
              list |-> [block |-> c.map.values_off, idx |-> n]]

\* memmove() of the cells behind i one place down.
Shifted(cells, i, count) ==
    [j \in DOMAIN cells |-> IF j \in i .. count - 2 THEN cells[j + 1] ELSE cells[j]]

\* Variant of hashmap_remove(): the values are not shifted.
hashmap_removeKey(a, key) ==
    LET i == IndexOf(a, key)
        n == a.map.count
    IN  IF ~Has(a, key) THEN a
        ELSE [a EXCEPT !.heap[a.map.keys_off].data = Shifted(@, i, n), !.map.count = n - 1]

hashmap_remove(a, key) ==
    LET i == IndexOf(a, key)
        n == a.map.count
    IN  IF ~Has(a, key) THEN a
        ELSE [a EXCEPT !.heap[a.map.keys_off].data = Shifted(@, i, n),
                       !.heap[a.map.values_off].data = Shifted(@, i, n),
                       !.map.count = n - 1]

-----------------------------------------------------------------------------
(* Lists of patches and of transforms.  Both double when they are full.    *)

NextCapacity(n) == IF n = 0 THEN ListCapacity ELSE n * 2
ArrayAt(a, off) == IF off = 0 THEN [i \in {} |-> 0] ELSE Data(a, off)

patchlist_add(a, list, file, find) ==
    LET l == Data(a, list.block)[list.idx]
        n == NextCapacity(l.patch_capacity)
        full == l.patch_count >= l.patch_capacity
        g == IF full THEN salloc(a, n * SizeofPatch, Enlarged(ArrayAt(a, l.patches_off), n, NoPatch))
                     ELSE [arena |-> a, off |-> l.patches_off]
        s == shm_strdup(g.arena, file, Len(file))
        t == shm_strdup(s.arena, find, Len(find))
        b == Write(t.arena, g.off, l.patch_count,
                   [NoPatch EXCEPT !.file_off = s.off, !.find_off = t.off])
    IN  IF g.off = 0 THEN [arena |-> a, patch |-> NULL]
        ELSE [arena |-> Write(b, list.block, list.idx,
                  [patches_off |-> g.off, patch_count |-> l.patch_count + 1,
                   patch_capacity |-> IF full THEN n ELSE l.patch_capacity]),
              patch |-> [block |-> g.off, idx |-> l.patch_count]]

patch_add_transform(a, patch, match, replace) ==
    LET p == Data(a, patch.block)[patch.idx]
        n == NextCapacity(p.transform_capacity)
        full == p.transform_count >= p.transform_capacity
        g == IF full THEN salloc(a, n * SizeofTransform,
                                 Enlarged(ArrayAt(a, p.transforms_off), n, NoTransform))
                     ELSE [arena |-> a, off |-> p.transforms_off]
        s == shm_strdup(g.arena, match, Len(match))
        t == shm_strdup(s.arena, replace, Len(replace))
        b == Write(t.arena, g.off, p.transform_count, [match_off |-> s.off, replace_off |-> t.off])
    IN  IF g.off = 0 THEN a
        ELSE Write(b, patch.block, patch.idx,
                   [p EXCEPT !.transforms_off = g.off, !.transform_count = @ + 1,
                             !.transform_capacity = IF full THEN n ELSE @])

-----------------------------------------------------------------------------
(* What is found in the arena by following its offsets.                    *)

StringAt(a, off) == IF off = 0 THEN EmptyString ELSE Data(a, off)

TransformsOf(a, patch) ==
    [k \in 1 .. patch.transform_count |->
        LET t == Data(a, patch.transforms_off)[k - 1]
        IN  [match |-> StringAt(a, t.match_off), replace |-> StringAt(a, t.replace_off)]]

PatchesOf(a, list) ==
    [k \in 1 .. list.patch_count |->
        LET p == Data(a, list.patches_off)[k - 1]
        IN  [file |-> StringAt(a, p.file_off), find |-> StringAt(a, p.find_off),
             transforms |-> TransformsOf(a, p)]]

Registered(a) ==
    [p \in Plugins |-> IF Has(a, p) THEN PatchesOf(a, Values(a)[IndexOf(a, p)]) ELSE <<>>]

-----------------------------------------------------------------------------
(* Starts and stops of backends.                                           *)

\* What a child does; "removing" while its patches are taken out of the arena.
Backends == {"absent", "starting", "loading", "running", "dead", "stopping", "removing"}

\* The process of child c is gone.
Gone(c) ==
    /\ runs' = [runs EXCEPT ![c] = NoName]
    /\ backend' = [backend EXCEPT ![c] = "absent"]

\* The children whose handler or whose stop is in the arena's code.
Inside == {c \in Children : job[c].active \/ backend[c] = "removing"}

\* A thread that enters the arena's code finds another there, or finds what
\* an earlier meeting left.  The arena is not followed any further.
Meets == overlapped \/ Inside # {}
Meet(handlers) ==
    /\ Meets
    /\ overlapped' = TRUE
    /\ job' = [c \in Children |-> IF c \in handlers \/ job[c].active THEN RacedJob ELSE NoJob]
    /\ arena' = InitialArena /\ sent' = [p \in Plugins |-> <<>>] /\ refused' = FALSE

\* spawn_plugin(): a child c is started, under the first free number, and INIT
\* sent to it.  Nothing keeps two threads from starting a plugin that neither
\* sees running.
Spawn(p, c) ==
    /\ loader = "up"
    /\ starts < MaxStarts
    /\ backend[c] = "absent" /\ \A d \in 1 .. c - 1 : backend[d] # "absent"
    /\ m_processes[p] # NoChild => backend[m_processes[p]] = "dead"
    /\ starts' = starts + 1
    /\ runs' = [runs EXCEPT ![c] = p]
    /\ backend' = [backend EXCEPT ![c] = "starting"]
    /\ UNCHANGED <<arenaVars, m_processes, job, overlapped, loader>>

\* The child has loaded its plugin and sends its patches.
PatchesRequest(c, message) ==
    /\ loader = "up" /\ backend[c] = "starting" /\ ~job[c].active
    /\ message \in Messages[runs[c]]
    /\ \/ Meet({c})
       \/ /\ ~Meets
          /\ LET r == hashmap_add_key(arena, runs[c])
             IN  /\ arena' = r.arena
                 /\ refused' = (refused \/ ~Has(r.arena, runs[c]))
                 /\ job' = [job EXCEPT ![c] =
                        [active |-> TRUE, plugin |-> runs[c], left |-> message, list |-> r.list,
                         patch |-> NULL, transforms |-> <<>>]]
          /\ UNCHANGED <<sent, overlapped>>
    /\ UNCHANGED <<childVars, loader, starts>>

\* The handler of c runs, alone in the arena from its first call on.
Handles(c) == loader = "up" /\ job[c].active /\ ~overlapped

\* The next patch of the array.
PatchesNext(c) ==
    /\ Handles(c) /\ job[c].transforms = <<>> /\ job[c].left # <<>>
    /\ job[c].list # NULL
    /\ LET q == Head(job[c].left)
           r == patchlist_add(arena, job[c].list, q.file, q.find)
           p == Data(r.arena, r.patch.block)[r.patch.idx]
       IN  /\ arena' = r.arena
           /\ refused' = (refused \/ (r.patch = NULL) \/ p.file_off = 0 \/ p.find_off = 0)
           /\ sent' = [sent EXCEPT ![job[c].plugin] = Append(@, [q EXCEPT !.transforms = <<>>])]
           /\ job' = [job EXCEPT ![c].left = Tail(@), ![c].patch = r.patch,
                                 ![c].transforms = q.transforms]
    /\ UNCHANGED <<childVars, overlapped, loader, starts>>

\* The next transform of the patch just added.
PatchesTransform(c) ==
    /\ Handles(c) /\ job[c].transforms # <<>>
    /\ job[c].patch # NULL
    /\ LET t == Head(job[c].transforms)
           patch == job[c].patch
           n == Len(sent[job[c].plugin])
           a == patch_add_transform(arena, patch, t.match, t.replace)
           p == Data(a, patch.block)[patch.idx]
           u == Data(a, p.transforms_off)[p.transform_count - 1]
       IN  /\ arena' = a
           /\ refused' = (refused \/ p = Data(arena, patch.block)[patch.idx]
                                  \/ u.match_off = 0 \/ u.replace_off = 0)
           /\ sent' = [sent EXCEPT ![job[c].plugin][n].transforms = Append(@, t)]
           /\ job' = [job EXCEPT ![c].transforms = Tail(@)]
    /\ UNCHANGED <<childVars, overlapped, loader, starts>>

\* The result of an arena without space is used all the same.
PatchesFault(c) ==
    /\ Handles(c)
    /\ \/ job[c].transforms = <<>> /\ job[c].left # <<>> /\ job[c].list = NULL
       \/ job[c].transforms # <<>> /\ job[c].patch = NULL
    /\ loader' = "down"
    /\ UNCHANGED <<arenaVars, childVars, job, overlapped, starts>>

\* The answer to PATCHES; the child goes on to on_load().
Answered(c) ==
    /\ job' = [job EXCEPT ![c] = NoJob]
    /\ backend' = [backend EXCEPT ![c] = "loading"]
    /\ UNCHANGED <<arenaVars, runs, m_processes, overlapped, loader, starts>>

PatchesDone(c) ==
    /\ Handles(c) /\ job[c].transforms = <<>> /\ job[c].left = <<>>
    /\ Answered(c)

\* A handler that works in an arena another thread has changed under it: it
\* comes to its end, or follows what it takes for an offset.
PatchesRaced(c) ==
    /\ loader = "up" /\ job[c].active /\ overlapped
    /\ \/ Answered(c)
       \/ /\ loader' = "down"
          /\ UNCHANGED <<arenaVars, childVars, job, overlapped, starts>>

\* INIT is answered and the process published.  A process that is in the
\* map already is destroyed there, and its patches stay.
Started(c) ==
    /\ loader = "up" /\ backend[c] \in {"starting", "loading"} /\ ~job[c].active
    /\ LET old == m_processes[runs[c]]
       IN  /\ runs' = [d \in Children |-> IF d = old THEN NoName ELSE runs[d]]
           /\ backend' = [d \in Children |-> IF d = c THEN "running"
                                            ELSE IF d = old THEN "absent" ELSE backend[d]]
    /\ m_processes' = [m_processes EXCEPT ![runs[c]] = c]
    /\ UNCHANGED <<arenaVars, job, overlapped, loader, starts>>

\* INIT fails, is not answered in time, or the child ends before it: the
\* process is dropped without having been published.
StartFailed(c) ==
    /\ loader = "up" /\ backend[c] \in {"starting", "loading"} /\ ~job[c].active
    /\ Gone(c)
    /\ UNCHANGED <<arenaVars, m_processes, job, overlapped, loader, starts>>

\* A child that runs ends by itself.
Crash(c) ==
    /\ loader = "up" /\ backend[c] = "running"
    /\ backend' = [backend EXCEPT ![c] = "dead"]
    /\ UNCHANGED <<arenaVars, runs, m_processes, job, overlapped, loader, starts>>

\* destroy_plugin() takes the process it finds out of m_processes and stops it.
TakeOut(p) ==
    /\ loader = "up" /\ m_processes[p] # NoChild
    /\ backend' = [backend EXCEPT ![m_processes[p]] = "stopping"]
    /\ m_processes' = [m_processes EXCEPT ![p] = NoChild]
    /\ UNCHANGED <<arenaVars, runs, job, overlapped, loader, starts>>

\* The process is stopped, hashmap_remove() is called ...
RemoveBegins(c) ==
    /\ loader = "up" /\ backend[c] = "stopping"
    /\ \/ Meet({})
       \/ ~Meets /\ UNCHANGED <<arenaVars, job, overlapped>>
    /\ backend' = [backend EXCEPT ![c] = "removing"]
    /\ UNCHANGED <<runs, m_processes, loader, starts>>

\* ... and has returned.
RemovePatches(c) ==
    /\ loader = "up" /\ backend[c] = "removing"
    /\ Gone(c)
    /\ \/ /\ ~overlapped
          /\ arena' = hashmap_remove(arena, runs[c])
          /\ sent' = [sent EXCEPT ![runs[c]] = <<>>]
       \/ overlapped /\ UNCHANGED <<arena, sent>>
    /\ UNCHANGED <<refused, m_processes, job, overlapped, loader, starts>>

Init ==
    /\ arena = InitialArena
    /\ runs = [c \in Children |-> NoName]
    /\ backend = [c \in Children |-> "absent"]
    /\ m_processes = [p \in Plugins |-> NoChild]
    /\ job = [c \in Children |-> NoJob]
    /\ sent = [p \in Plugins |-> <<>>]
    /\ refused = FALSE
    /\ overlapped = FALSE
    /\ loader = "up"
    /\ starts = 0

Next ==
    \/ \E p \in Plugins : TakeOut(p)
    \/ \E c \in Children :
        \/ \E p \in Plugins : Spawn(p, c)
        \/ \E message \in AllMessages : PatchesRequest(c, message)
        \/ PatchesNext(c)
        \/ PatchesTransform(c)
        \/ PatchesFault(c)
        \/ PatchesDone(c)
        \/ PatchesRaced(c)
        \/ Started(c)
        \/ StartFailed(c)
        \/ Crash(c)
        \/ RemoveBegins(c)
        \/ RemovePatches(c)

Spec == Init /\ [][Next]_vars

-----------------------------------------------------------------------------
(* Properties.                                                             *)

Blocks(a) == DOMAIN a.heap

\* No block has a byte of another, or one behind the end.
Disjoint(a) ==
    /\ a.used <= ArenaSize
    /\ \A o \in Blocks(a) :
        /\ o >= SizeofArena /\ o % 8 = 0
        /\ o + a.heap[o].size <= a.used
        /\ \A q \in Blocks(a) :
            o < q => o + a.heap[o].size <= q

(* As long as no two threads have been in the arena's code at once, the     *)
(* calls of all handlers, grown arrays and failed allocations included,     *)
(* have never been given a byte twice by salloc() nor one behind the end of *)
(* the arena, and every block is aligned for the 64-bit reader.             *)
BlocksDisjoint == ~overlapped => Disjoint(arena)

\* Offset off is the block of an array of n cells of the given size.
IsArray(a, off, n, size) ==
    /\ off \in Blocks(a)
    /\ n * size <= a.heap[off].size
    /\ DOMAIN Data(a, off) = 0 .. n - 1

\* The offsets of the live entries stay in the blocks they were allocated as.
Valid(a) ==
    LET m == a.map
        IsString(off) == off = 0 \/ off \in Blocks(a)
    IN  /\ IsArray(a, m.keys_off, m.capacity, SizeofOffset)
        /\ IsArray(a, m.values_off, m.capacity, SizeofList)
        /\ m.count \in 0 .. m.capacity
        /\ \A i, j \in 0 .. m.count - 1 :
            NameAt(a, i) = NameAt(a, j) => i = j \/ NameAt(a, i) = NoName
        /\ \A i \in 0 .. m.count - 1 :
            LET l == Values(a)[i]
            IN  /\ IsString(Keys(a)[i])
                /\ l.patch_count \in 0 .. l.patch_capacity
                /\ l.patch_capacity > 0 => IsArray(a, l.patches_off, l.patch_capacity, SizeofPatch)
                /\ \A k \in 0 .. l.patch_count - 1 :
                    LET p == Data(a, l.patches_off)[k]
                    IN  /\ IsString(p.file_off) /\ IsString(p.find_off)
                        /\ p.transform_count \in 0 .. p.transform_capacity
                        /\ p.transform_capacity > 0 =>
                            IsArray(a, p.transforms_off, p.transform_capacity, SizeofTransform)

(* As long as no two threads have been in the arena's code at once,         *)
(* whatever was added, grown and removed before, following the offsets of   *)
(* the live entries never leaves the blocks they were allocated as, and no  *)
(* plugin has two entries.                                                  *)
OffsetsValid == ~overlapped => Valid(arena)

(* As long as no allocation failed and no two threads have been in the      *)
(* arena's code at once, the arena holds, plugin by plugin and in order,    *)
(* what the plugin's children sent since destroy_plugin() last removed its  *)
(* patches: those of a start that failed, of a crashed child and of a       *)
(* process that was replaced in m_processes included.                       *)
HoldsWhatWasSent == ~overlapped /\ ~refused => Registered(arena) = sent

Registry == INSTANCE PatchRegistry WITH registry <- Registered(arena), intact <- ~overlapped

(* Up to the first overlap the arena implements the registry, full or not:  *)
(* a handler or a removal never touches the patches of another plugin, and  *)
(* never an older patch.                                                    *)
ImplementsRegistry == Registry!Spec
=============================================================================
