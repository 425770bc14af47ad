----------------------- MODULE LoopbackPatcherProofs -----------------------
(***************************************************************************)
(* What PatchArenaProofs shows of the loader holds while the web helper    *)
(* walks the arena: the hook changes nothing the loader reads.  And what   *)
(* the hook serves is what the children's patches make of the document.    *)
(*                                                                         *)
(* The second part goes from the inside out: loops as sequences of values, *)
(* GlobalReplace(), the edits of one region (the text around the region is *)
(* never touched and the cursor of apply_transform_set_scoped() stays at   *)
(* its end), the patches one after the other, the walk of the arena, the   *)
(* ids of the two walks and their order, and the call of the hook.         *)
(***************************************************************************)
EXTENDS LoopbackPatcher, PatchArenaProofs, SequenceTheorems, FiniteSetTheorems

(* find_file_matches() and the edits leave the shared memory alone: seen     *)
(* from the loader, a system with the hook is one without it.                *)
THEOREM HookOnlyReads == PatcherSpec => Spec
<1>1. PatcherInit => Init
    BY DEF PatcherInit
<1>2. ASSUME LoaderStep PROVE Next
    BY <1>2, Zenon DEF LoaderStep
<1>3. ASSUME \/ \E document \in Documents : MatchFiles(document)
             \/ \E document, out \in Documents : ReadRaced(document, out)
             \/ PatchFile \/ Served
      PROVE  UNCHANGED vars
    BY <1>3, Zenon DEF MatchFiles, PatchFile, Served, ReadRaced
<1>4. [PatcherNext]_patcherVars => [Next]_vars
    BY <1>2, <1>3 DEF PatcherNext, patcherVars
<1> QED
    BY <1>1, <1>4, PTL DEF PatcherSpec, Spec

(* Up to the moment two threads of the loader meet in the arena's code, what *)
(* the hook reads between two calls of a handler is an arena                 *)
(* whose blocks are disjoint and whose offsets lead where they should, that  *)
(* holds what was sent unless an allocation failed, and that implements the  *)
(* registry.                                                                 *)
THEOREM HookReadsSoundArena ==
    PatcherSpec => /\ [](BlocksDisjoint /\ OffsetsValid /\ HoldsWhatWasSent)
                   /\ ImplementsRegistry
    BY HookOnlyReads, AllocationsAreDisjoint, EntriesAreValid, NothingIsLost,
       ArenaImplementsRegistry, PTL

-----------------------------------------------------------------------------
(* Induction, texts and GlobalReplace()                                    *)

(* every nonempty set of naturals has a least element                        *)
LEMMA LeastOf ==
    ASSUME NEW T \in SUBSET Nat, T # {}
    PROVE  \E x \in T : \A y \in T : x <= y
<1> DEFINE R == OpToRel(<, Nat)
<1>1. IsWellFoundedOn(R, Nat)
    BY NatLessThanWellFounded, Zenon
<1> HIDE DEF R
<1>2. PICK x \in T : \A y \in T : ~(<<y, x>> \in R)
    BY <1>1, WFMin
<1>3. ASSUME NEW y \in T, y < x PROVE <<y, x>> \in R
    BY <1>3 DEF R, OpToRel
<1>4. ASSUME NEW y \in T PROVE x <= y
  <2>1. x \in Nat /\ y \in Nat /\ ~(y < x)
      BY <1>2, <1>3
  <2> QED
      BY <2>1
<1> QED
    BY <1>2, <1>4

(* induction up to n, with a set for the induction hypothesis                *)
LEMMA Induct ==
    ASSUME NEW n \in Nat, NEW T, 0 \in T, \A k \in 0 .. n - 1 : k \in T => k + 1 \in T
    PROVE  \A k \in 0 .. n : k \in T
<1> DEFINE B == {k \in 0 .. n : k \notin T}
<1>1. SUFFICES ASSUME B # {} PROVE FALSE
    OBVIOUS
<1>2. B \in SUBSET Nat
    OBVIOUS
<1>3. PICK x \in B : \A y \in B : x <= y
    BY <1>1, <1>2, LeastOf
<1>4. x # 0 /\ x - 1 \in 0 .. n - 1 /\ x - 1 \notin B
    BY <1>3
<1> QED
    BY <1>4

IsRun(g, n, S, base, F) ==
    g \in [0 .. n -> S] /\ g[0] = base /\ \A k \in 1 .. n : g[k] = F[k][g[k - 1]]

(* a loop of n rounds has a run                                              *)
LEMMA LoopRuns ==
    ASSUME NEW n \in Nat, NEW S, NEW base \in S, NEW F \in [1 .. n -> [S -> S]]
    PROVE  \E g : IsRun(g, n, S, base, F)
<1> DEFINE Run(g, m) == g[0] = base /\ \A k \in 1 .. m : g[k] = F[k][g[k - 1]]
           T == {m \in 0 .. n : \E g \in [0 .. m -> S] : Run(g, m)}
<1>1. 0 \in T
  <2> DEFINE g == [k \in 0 .. 0 |-> base]
  <2>1. g \in [0 .. 0 -> S] /\ Run(g, 0)
      OBVIOUS
  <2> HIDE DEF g, Run
  <2> QED
      BY <2>1
<1>2. ASSUME NEW m \in 0 .. n - 1, m \in T PROVE m + 1 \in T
  <2>1. PICK g \in [0 .. m -> S] : Run(g, m)
      BY <1>2
  <2> DEFINE h == [k \in 0 .. m + 1 |-> IF k = m + 1 THEN F[m + 1][g[m]] ELSE g[k]]
  <2>2. h \in [0 .. m + 1 -> S]
    <3>1. g[m] \in S /\ m + 1 \in 1 .. n
        BY <2>1
    <3>2. F[m + 1][g[m]] \in S
        BY <3>1
    <3>3. ASSUME NEW k \in 0 .. m + 1 PROVE h[k] \in S
        BY <2>1, <3>2
    <3> QED
        BY <3>3
  <2>3. h[0] = base /\ h[m + 1] = F[m + 1][h[m]]
    <3>1. h[0] = g[0] /\ h[m] = g[m] /\ h[m + 1] = F[m + 1][g[m]]
        OBVIOUS
    <3> QED
        BY <2>1, <3>1
  <2>4. ASSUME NEW k \in 1 .. m PROVE h[k] = F[k][h[k - 1]]
    <3>1. h[k] = g[k] /\ h[k - 1] = g[k - 1] /\ g[k] = F[k][g[k - 1]]
        BY <2>1
    <3> QED
        BY <3>1
  <2> HIDE DEF h
  <2>5. Run(h, m + 1)
    <3>1. ASSUME NEW k \in 1 .. m + 1 PROVE h[k] = F[k][h[k - 1]]
      <4>1. CASE k = m + 1
          BY <2>3, <4>1
      <4>2. CASE k # m + 1
          BY <2>4, <4>2
      <4> QED
          BY <4>1, <4>2
    <3> QED
        BY <2>3, <3>1
  <2>6. m + 1 \in 0 .. n
      OBVIOUS
  <2> HIDE DEF Run
  <2> QED
      BY <2>2, <2>5, <2>6
<1> HIDE DEF T
<1>3. \A k \in 0 .. n : k \in T
    BY <1>1, <1>2, Induct
<1>4. n \in T
    BY <1>3
<1> QED
    BY <1>4 DEF T, IsRun

-----------------------------------------------------------------------------
(* Texts *)

Tokens(s) == {s[i] : i \in 1 .. Len(s)}
Token == Plugins \cup UNION {Tokens(s) : s \in Strings \cup Documents}
Text == Seq(Token)

(* the strings of patches, the documents and the empty string are texts      *)
LEMMA TextFacts == Strings \subseteq Text /\ Documents \subseteq Text /\ EmptyString \in Text
<1>1. ASSUME NEW s \in Strings \cup Documents PROVE s \in Text
  <2>1. Len(s) \in Nat
      BY StringsAssumption, DocumentsAssumption
  <2>2. s = [i \in 1 .. Len(s) |-> s[i]]
      BY TextsAssumption
  <2>3. \A i \in 1 .. Len(s) : s[i] \in Token
      BY DEF Token, Tokens
  <2>4. s \in [1 .. Len(s) -> Token]
      BY <2>2, <2>3
  <2> QED
      BY <2>1, <2>4 DEF Text
<1> QED
    BY <1>1 DEF Text, EmptyString

(* RE2 finds a pattern where it occurs, and an empty one everywhere          *)
LEMMA PlacesFacts ==
    ASSUME NEW text \in Text, NEW pattern \in Text
    PROVE  /\ Places(text, pattern) # {} => Min(Places(text, pattern)) \in Places(text, pattern)
           /\ Places(text, <<>>) # {}
<1>1. ASSUME Places(text, pattern) # {} PROVE Min(Places(text, pattern)) \in Places(text, pattern)
  <2> DEFINE P == Places(text, pattern)
  <2>1. P \in SUBSET Nat
      BY DEF Places, Text
  <2> HIDE DEF P
  <2>2. PICK x \in P : \A y \in P : x <= y
      BY <1>1, <2>1, LeastOf DEF P
  <2>3. Min(P) \in P
      BY <2>2 DEF Min
  <2> QED
      BY <2>3 DEF P
<1>2. 1 \in Places(text, <<>>)
  <2>1. SubSeq(text, 1, 1 + Len(<<>>) - 1) = <<>>
      BY SubSeqEmpty
  <2> QED
      BY <2>1, RejectedAssumption DEF Places, OccursAt, Text, EmptyString
<1> QED
    BY <1>1, <1>2

(* the name of a plugin is put in the place of one token                     *)
LEMMA ReplacementType ==
    ASSUME NEW text \in Text, NEW name \in Plugins
    PROVE  preprocess_replacement(text, name) \in Text
<1> DEFINE places == {i \in DOMAIN text : text[i] = Self}
<1>1. CASE places = {}
    BY <1>1 DEF preprocess_replacement
<1>2. CASE places # {}
  <2>1. name \in Token
      BY DEF Token
  <2> DEFINE i == Min(places)
  <2>2. Len(text) \in Nat /\ text \in [1 .. Len(text) -> Token]
      BY DEF Text
  <2>3. [text EXCEPT ![i] = name] \in [1 .. Len(text) -> Token]
      BY <2>1, <2>2
  <2>4. \A f \in [1 .. Len(text) -> Token] : f \in Text
      BY <2>2 DEF Text
  <2> QED
      BY <1>2, <2>3, <2>4 DEF preprocess_replacement, ReplaceAt
<1> QED
    BY <1>1, <1>2

(* one step of GlobalReplace(), from place k on, when g holds the rest       *)
Rest(text, pattern, new, g, k) ==
    IF pattern = <<>>
    THEN new \o (IF k > Len(text) THEN <<>> ELSE <<text[k]>> \o g[k + 1])
    ELSE IF k > Len(text) THEN <<>>
    ELSE IF OccursAt(text, pattern, k) THEN new \o g[k + Len(pattern)]
    ELSE <<text[k]>> \o g[k + 1]

(* it looks at later places only                                             *)
LEMMA RestFacts ==
    ASSUME NEW text \in Text, NEW pattern \in Text, NEW new \in Text,
           NEW k \in 1 .. Len(text) + 1, NEW g, \A i \in k + 1 .. Len(text) + 1 : g[i] \in Text
    PROVE  /\ Rest(text, pattern, new, g, k) \in Text
           /\ \A h : (\A i \in k + 1 .. Len(text) + 1 : h[i] = g[i]) =>
                  Rest(text, pattern, new, h, k) = Rest(text, pattern, new, g, k)
<1>1. Len(text) \in Nat /\ Len(pattern) \in Nat /\ (pattern # <<>> => Len(pattern) > 0)
    BY DEF Text
<1>2. ASSUME k <= Len(text)
      PROVE  k + 1 \in k + 1 .. Len(text) + 1 /\ <<text[k]>> \in Text /\ g[k + 1] \in Text
    BY <1>1, <1>2 DEF Text
<1>3. ASSUME pattern # <<>>, OccursAt(text, pattern, k)
      PROVE  k + Len(pattern) \in k + 1 .. Len(text) + 1 /\ g[k + Len(pattern)] \in Text
    BY <1>1, <1>3 DEF OccursAt
<1>4. \A s, t \in Text : s \o t \in Text
    BY ConcatProperties DEF Text
<1>5. <<>> \in Text
    BY DEF Text
<1>6. Rest(text, pattern, new, g, k) \in Text
  <2>1. CASE pattern = <<>> /\ k > Len(text)
      BY <1>4, <1>5, <2>1 DEF Rest
  <2>2. CASE pattern = <<>> /\ ~(k > Len(text))
    <3>1. <<text[k]>> \o g[k + 1] \in Text
        BY <1>1, <1>2, <1>4, <2>2
    <3> QED
        BY <1>4, <2>2, <3>1 DEF Rest
  <2>3. CASE pattern # <<>> /\ k > Len(text)
      BY <1>5, <2>3 DEF Rest
  <2>4. CASE pattern # <<>> /\ ~(k > Len(text)) /\ OccursAt(text, pattern, k)
      BY <1>3, <1>4, <2>4 DEF Rest
  <2>5. CASE pattern # <<>> /\ ~(k > Len(text)) /\ ~OccursAt(text, pattern, k)
      BY <1>1, <1>2, <1>4, <2>5 DEF Rest
  <2> QED
      BY <2>1, <2>2, <2>3, <2>4, <2>5
<1>7. ASSUME NEW h, \A i \in k + 1 .. Len(text) + 1 : h[i] = g[i]
      PROVE  Rest(text, pattern, new, h, k) = Rest(text, pattern, new, g, k)
  <2>1. ~(k > Len(text)) => h[k + 1] = g[k + 1]
      BY <1>1, <1>2, <1>7
  <2>2. pattern # <<>> /\ OccursAt(text, pattern, k) => h[k + Len(pattern)] = g[k + Len(pattern)]
      BY <1>3, <1>7
  <2> QED
      BY <2>1, <2>2, Zenon DEF Rest
<1> QED
    BY <1>6, <1>7

(* g holds texts behind place k, and h the same ones                         *)
SameBehind(text, g, h, k) == \A i \in k + 1 .. Len(text) + 1 : g[i] \in Text /\ h[i] = g[i]

(* with the same rest of the results the step is the same                   *)
LEMMA RestLocal ==
    ASSUME NEW text \in Text, NEW pattern \in Text, NEW new \in Text,
           NEW k \in 1 .. Len(text) + 1, NEW g, NEW h, SameBehind(text, g, h, k)
    PROVE  Rest(text, pattern, new, h, k) = Rest(text, pattern, new, g, k)
<1>1. /\ \A i \in k + 1 .. Len(text) + 1 : g[i] \in Text
      /\ \A i \in k + 1 .. Len(text) + 1 : h[i] = g[i]
    BY DEF SameBehind
<1> QED
    BY <1>1, RestFacts

(* g is the result of GlobalReplace() from every place on that is not before j *)
SolvedFrom(text, pattern, new, g, j) ==
    /\ g \in [j .. Len(text) + 1 -> Text]
    /\ \A k \in j .. Len(text) + 1 : g[k] = Rest(text, pattern, new, g, k)

(* results from place j + 1 on extend to place j                            *)
LEMMA SolvedOneMore ==
    ASSUME NEW text \in Text, NEW pattern \in Text, NEW new \in Text,
           NEW j \in 1 .. Len(text) + 1, NEW g,
           SolvedFrom(text, pattern, new, g, j + 1)
    PROVE  \E h : SolvedFrom(text, pattern, new, h, j)
<1> DEFINE L == Len(text) + 1
           r == Rest(text, pattern, new, g, j)
           h == [k \in j .. L |-> IF k = j THEN r ELSE g[k]]
<1>1. L \in Nat /\ \A k \in j .. L : k = j \/ k \in j + 1 .. L
    BY DEF Text
<1>2. \A i \in j + 1 .. Len(text) + 1 : g[i] \in Text
    BY DEF SolvedFrom
<1>3. r \in Text
    BY <1>2, RestFacts
<1> HIDE DEF r
<1>4. h[j] = r /\ \A k \in j + 1 .. Len(text) + 1 : h[k] = g[k]
    BY <1>1
<1>5. h \in [j .. Len(text) + 1 -> Text]
    BY <1>1, <1>2, <1>3
<1> HIDE DEF h
<1>6. ASSUME NEW k \in j .. Len(text) + 1 PROVE h[k] = Rest(text, pattern, new, h, k)
  <2>1. k \in 1 .. Len(text) + 1 /\ \A i \in k + 1 .. Len(text) + 1 : i \in j + 1 .. Len(text) + 1
      BY <1>1
  <2>2. Rest(text, pattern, new, h, k) = Rest(text, pattern, new, g, k)
    <3>1. SameBehind(text, g, h, k)
        BY <1>2, <1>4, <2>1 DEF SameBehind
    <3>2. PICK c \in 1 .. Len(text) + 1 : c = k
        BY <2>1
    <3> QED
        BY <3>1, <3>2, RestLocal
  <2>3. CASE k = j
      BY <1>4, <2>2, <2>3 DEF r
  <2>4. CASE k \in j + 1 .. Len(text) + 1
      BY <1>4, <2>2, <2>4 DEF SolvedFrom
  <2> QED
      BY <1>1, <2>3, <2>4
<1>7. SolvedFrom(text, pattern, new, h, j)
    BY <1>5, <1>6 DEF SolvedFrom
<1> QED
    BY <1>7

(* the recursion of GlobalReplace() has a solution                           *)
LEMMA ReplacedExists ==
    ASSUME NEW text \in Text, NEW pattern \in Text, NEW new \in Text
    PROVE  \E f : SolvedFrom(text, pattern, new, f, 1)
<1> DEFINE n == Len(text) + 1
           T == {m \in 0 .. n : \E g : SolvedFrom(text, pattern, new, g, n + 1 - m)}
<1>1. n \in Nat /\ n + 1 - n = 1 /\ n + 1 - 0 = n + 1
    BY DEF Text
<1>2. 0 \in T
  <2> DEFINE g == [k \in n + 1 .. n |-> <<>>]
  <2>1. n + 1 .. n = {}
      BY <1>1
  <2>2. g \in [n + 1 .. n -> Text] /\ \A k \in n + 1 .. n : g[k] = Rest(text, pattern, new, g, k)
      BY <2>1
  <2>3. SolvedFrom(text, pattern, new, g, n + 1)
      BY <2>2 DEF SolvedFrom
  <2> HIDE DEF g, n
  <2> QED
      BY <1>1, <2>3
<1>3. ASSUME NEW m \in 0 .. n - 1, m \in T PROVE m + 1 \in T
  <2>1. PICK g : SolvedFrom(text, pattern, new, g, n + 1 - m)
      BY <1>3
  <2>2. /\ n - m \in 1 .. Len(text) + 1 /\ n - m + 1 = n + 1 - m
        /\ m + 1 \in 0 .. n /\ n + 1 - (m + 1) = n - m
      BY <1>1
  <2> HIDE DEF n
  <2>3. \E h : SolvedFrom(text, pattern, new, h, n - m)
      BY <2>1, <2>2, SolvedOneMore
  <2> QED
      BY <2>2, <2>3
<1> HIDE DEF n, T
<1>4. n \in T
    BY <1>1, <1>2, <1>3, Induct
<1> QED
    BY <1>1, <1>4 DEF T

IsReplaced(text, pattern, new, f) ==
    f = [k \in 1 .. Len(text) + 1 |-> Rest(text, pattern, new, f, k)]

(* GlobalReplace() is the solution at the first place                       *)
LEMMA GlobalReplaceIs ==
    ASSUME NEW text \in Text, NEW pattern \in Text, NEW new \in Text
    PROVE  \E f : IsReplaced(text, pattern, new, f) /\ GlobalReplace(text, pattern, new) = f[1]
<1> DEFINE from == CHOOSE f : IsReplaced(text, pattern, new, f)
<1>1. GlobalReplace(text, pattern, new) = from[1]
    BY DEF GlobalReplace, IsReplaced, Rest
<1>2. IsReplaced(text, pattern, new, from)
  <2>1. PICK f : SolvedFrom(text, pattern, new, f, 1)
      BY ReplacedExists
  <2>2. IsReplaced(text, pattern, new, f)
      BY <2>1 DEF SolvedFrom, IsReplaced
  <2> QED
      BY <2>2, Zenon
<1> QED
    BY <1>1, <1>2

(* the result is a text, and the same text where the pattern does not occur *)
LEMMA GlobalReplaceFacts ==
    ASSUME NEW text \in Text, NEW pattern \in Text, NEW new \in Text
    PROVE  /\ GlobalReplace(text, pattern, new) \in Text
           /\ Places(text, pattern) = {} => GlobalReplace(text, pattern, new) = text
<1>1. PICK f : IsReplaced(text, pattern, new, f) /\ GlobalReplace(text, pattern, new) = f[1]
    BY GlobalReplaceIs
<1> DEFINE L == Len(text) + 1
<1>2. L - 1 \in Nat /\ L \in Nat /\ L - 1 \in 0 .. L - 1 /\ L - (L - 1) = 1 /\ L - 0 = L
    BY DEF Text
<1>3. ASSUME NEW k \in 1 .. L PROVE f[k] = Rest(text, pattern, new, f, k)
    BY <1>1, <1>3 DEF IsReplaced
<1>4. f[1] \in Text
  <2> DEFINE T == {m \in 0 .. L - 1 : \A k \in L - m .. L : f[k] \in Text}
  <2>1. ASSUME NEW k \in 1 .. L, \A i \in k + 1 .. L : f[i] \in Text PROVE f[k] \in Text
    <3>1. Rest(text, pattern, new, f, k) \in Text
        BY <2>1, RestFacts
    <3> QED
        BY <1>3, <3>1
  <2>2. 0 \in T
    <3>1. L \in 1 .. L /\ L + 1 .. L = {}
        BY <1>2
    <3>2. f[L] \in Text
        BY <2>1, <3>1
    <3>3. \A k \in L - 0 .. L : k = L
        BY <1>2
    <3> QED
        BY <1>2, <3>2, <3>3
  <2>3. ASSUME NEW m \in 0 .. L - 1 - 1, m \in T PROVE m + 1 \in T
    <3> DEFINE j == L - (m + 1)
    <3>1. /\ j \in 1 .. L /\ j + 1 = L - m /\ m + 1 \in 0 .. L - 1
          /\ \A k \in j .. L : k = j \/ k \in L - m .. L
        BY <1>2
    <3>2. \A k \in L - m .. L : f[k] \in Text
        BY <2>3
    <3> HIDE DEF j, L
    <3>3. f[j] \in Text
        BY <2>1, <3>1, <3>2
    <3>4. \A k \in j .. L : f[k] \in Text
        BY <3>1, <3>2, <3>3
    <3> QED
        BY <3>1, <3>4 DEF j
  <2> HIDE DEF T, L
  <2>4. L - 1 \in T
      BY <1>2, <2>2, <2>3, Induct
  <2>5. 1 \in L - (L - 1) .. L
      BY <1>2
  <2> QED
      BY <2>4, <2>5 DEF T
<1>5. ASSUME Places(text, pattern) = {} PROVE f[1] = text
  <2> DEFINE T == {m \in 0 .. L - 1 : f[L - m] = SubSeq(text, L - m, Len(text))}
  <2>1. pattern # <<>>
      BY <1>5, PlacesFacts
  <2>2. ASSUME NEW k \in 1 .. L PROVE ~OccursAt(text, pattern, k)
      BY <1>5 DEF Places
  <2>3. 0 \in T
    <3>1. SubSeq(text, L, Len(text)) = <<>>
        BY <1>2, SubSeqEmpty
    <3>2. L > Len(text) /\ L \in 1 .. L
        BY <1>2
    <3>3. f[L] = Rest(text, pattern, new, f, L)
        BY <1>3, <3>2
    <3>4. f[L] = <<>>
        BY <2>1, <3>2, <3>3 DEF Rest
    <3>5. f[L - 0] = SubSeq(text, L - 0, Len(text))
        BY <1>2, <3>1, <3>4
    <3> QED
        BY <1>2, <3>5
  <2>4. ASSUME NEW m \in 0 .. L - 1 - 1, m \in T PROVE m + 1 \in T
    <3> DEFINE j == L - (m + 1)
    <3>1. j \in 1 .. L /\ j \in 1 .. Len(text) /\ j + 1 = L - m /\ m + 1 \in 0 .. L - 1
        BY <1>2
    <3>2. ~(j > Len(text)) /\ Len(text) \in j .. Len(text)
        BY <1>2
    <3>3. f[L - m] = SubSeq(text, L - m, Len(text))
        BY <2>4
    <3> HIDE DEF j, L
    <3>4. f[j] = <<text[j]>> \o f[j + 1]
        BY <1>3, <2>1, <2>2, <3>1, <3>2 DEF Rest
    <3>5. SubSeq(text, j, Len(text)) = <<text[j]>> \o SubSeq(text, j + 1, Len(text))
        BY <3>1, <3>2, SubSeqRecursiveFirst DEF Text
    <3>6. f[j] = SubSeq(text, j, Len(text))
        BY <3>1, <3>3, <3>4, <3>5
    <3> QED
        BY <3>1, <3>6 DEF j
  <2> HIDE DEF T
  <2>5. L - 1 \in T
    <3> HIDE DEF L
    <3> QED
        BY <1>2, <2>3, <2>4, Induct
  <2>6. f[L - (L - 1)] = SubSeq(text, L - (L - 1), Len(text))
      BY <2>5 DEF T
  <2>7. f[1] = SubSeq(text, 1, Len(text))
      BY <1>2, <2>6
  <2> QED
      BY <2>7, SubSeqFull DEF Text
<1> QED
    BY <1>1, <1>4, <1>5

-----------------------------------------------------------------------------
(* The edits of a region                                                   *)

Joined(before, region, after) == before \o region \o after

CutAt(buffer, before, region, after) ==
    /\ buffer \in Text
    /\ Len(buffer) = Len(before) + Len(region) + Len(after)
    /\ SubSeq(buffer, 1, Len(before) + 1 - 1) = before
    /\ SubSeq(buffer, Len(before) + 1, Len(before) + 1 + Len(region) - 1) = region
    /\ SubSeq(buffer, Len(before) + 1 + Len(region), Len(buffer)) = after

(* a text put together from three parts is cut into them again               *)
LEMMA Cut ==
    ASSUME NEW before \in Text, NEW region \in Text, NEW after \in Text
    PROVE  CutAt(Joined(before, region, after), before, region, after)
<1> DEFINE head == before \o region
           buffer == head \o after
           b == Len(before)
           r == Len(region)
           a == Len(after)
<1>1. b \in Nat /\ r \in Nat /\ a \in Nat
    BY DEF Text
<1>2. head \in Text /\ Len(head) = b + r
      /\ \A i \in 1 .. b + r : head[i] = IF i <= b THEN before[i] ELSE region[i - b]
    BY ConcatProperties DEF Text
<1> HIDE DEF head
<1>3. buffer \in Text /\ Len(buffer) = b + r + a
      /\ \A i \in 1 .. b + r + a : buffer[i] = IF i <= b + r THEN head[i] ELSE after[i - (b + r)]
  <2>1. buffer \in Seq(Token) /\ Len(buffer) = Len(head) + Len(after)
        /\ \A i \in 1 .. Len(head) + Len(after) :
              buffer[i] = IF i <= Len(head) THEN head[i] ELSE after[i - Len(head)]
    <3>1. head \in Seq(Token) /\ after \in Seq(Token)
        BY <1>2 DEF Text
    <3> QED
        BY <3>1, ConcatProperties
  <2> HIDE DEF buffer
  <2> QED
      BY <1>2, <2>1 DEF Text
<1> HIDE DEF buffer
<1>4. ASSUME NEW i \in 1 .. b PROVE buffer[i] = before[i]
    BY <1>1, <1>2, <1>3
<1>5. ASSUME NEW i \in 1 .. r PROVE buffer[b + i] = region[i]
    BY <1>1, <1>2, <1>3
<1>6. ASSUME NEW i \in 1 .. a PROVE buffer[b + r + i] = after[i]
    BY <1>1, <1>2, <1>3
<1>7. \A i \in 1 .. b + r + a : buffer[i] \in Token
    BY <1>3 DEF Text
<1>8. SubSeq(buffer, 1, b) = before
  <2> DEFINE s == SubSeq(buffer, 1, b)
  <2>1. s \in Text /\ Len(s) = b /\ \A i \in 1 .. b : s[i] = buffer[i]
      BY <1>1, <1>7, SubSeqProperties DEF Text
  <2> HIDE DEF s
  <2> QED
      BY <1>4, <2>1, SeqEqual DEF Text, s
<1>9. SubSeq(buffer, b + 1, b + r) = region
  <2> DEFINE s == SubSeq(buffer, b + 1, b + r)
  <2>1. s \in Text /\ Len(s) = r /\ \A i \in 1 .. r : s[i] = buffer[b + i]
    <3>1. \A i \in b + 1 .. b + r : buffer[i] \in Token
        BY <1>1, <1>7
    <3>2. b + r - (b + 1) + 1 = r /\ (b + 1 <= b + r <=> r > 0) /\ \A i \in 1 .. r : b + 1 + i - 1 = b + i
        BY <1>1
    <3>3. /\ s \in Seq(Token)
          /\ Len(s) = IF b + 1 <= b + r THEN b + r - (b + 1) + 1 ELSE 0
          /\ \A i \in 1 .. b + r - (b + 1) + 1 : s[i] = buffer[b + 1 + i - 1]
        BY <1>1, <3>1, SubSeqProperties
    <3> HIDE DEF s
    <3> QED
        BY <1>1, <3>2, <3>3 DEF Text
  <2> HIDE DEF s
  <2> QED
      BY <1>5, <2>1, SeqEqual DEF Text, s
<1>10. SubSeq(buffer, b + r + 1, b + r + a) = after
  <2> DEFINE s == SubSeq(buffer, b + r + 1, b + r + a)
  <2>1. s \in Text /\ Len(s) = a /\ \A i \in 1 .. a : s[i] = buffer[b + r + i]
    <3>1. \A i \in b + r + 1 .. b + r + a : buffer[i] \in Token
        BY <1>1, <1>7
    <3>2. /\ b + r + a - (b + r + 1) + 1 = a /\ (b + r + 1 <= b + r + a <=> a > 0)
          /\ \A i \in 1 .. a : b + r + 1 + i - 1 = b + r + i
        BY <1>1
    <3>3. /\ s \in Seq(Token)
          /\ Len(s) = IF b + r + 1 <= b + r + a THEN b + r + a - (b + r + 1) + 1 ELSE 0
          /\ \A i \in 1 .. b + r + a - (b + r + 1) + 1 : s[i] = buffer[b + r + 1 + i - 1]
        BY <1>1, <3>1, SubSeqProperties
    <3> HIDE DEF s
    <3> QED
        BY <1>1, <3>2, <3>3 DEF Text
  <2> HIDE DEF s
  <2> QED
      BY <1>6, <2>1, SeqEqual DEF Text, s
<1>11. b + 1 - 1 = b /\ b + 1 + r - 1 = b + r /\ b + 1 + r = b + r + 1
    BY <1>1
<1> QED
    BY <1>3, <1>8, <1>9, <1>10, <1>11 DEF buffer, head, CutAt, Joined

(* one transform on a text by itself                                         *)
Round(text, around, match, new) ==
    LET edited == GlobalReplace(text, match, new)
    IN  IF Len(edited) + around > MaxFileSize THEN text ELSE edited

(* a transform of a text is a text                                          *)
LEMMA RoundType ==
    ASSUME NEW text \in Text, NEW around, NEW match \in Text, NEW new \in Text
    PROVE  Round(text, around, match, new) \in Text
    BY GlobalReplaceFacts DEF Round

(* a substitution in a region leaves what is around it alone                 *)
LEMMA ScopedSubstitution ==
    ASSUME NEW before \in Text, NEW region \in Text, NEW after \in Text,
           NEW match \in Text, NEW new \in Text
    PROVE  apply_scoped_substitution(Joined(before, region, after), Len(before) + 1,
               Len(before) + 1 + Len(region), match, new)
           = Joined(before, Round(region, Len(before) + Len(after), match, new), after)
<1> DEFINE buffer == Joined(before, region, after)
           from == Len(before) + 1
           to == Len(before) + 1 + Len(region)
           edited == GlobalReplace(region, match, new)
           result == Joined(before, edited, after)
<1>1. /\ SubSeq(buffer, from, to - 1) = region
      /\ SubSeq(buffer, 1, from - 1) = before
      /\ SubSeq(buffer, to, Len(buffer)) = after
  <2>1. CutAt(buffer, before, region, after)
      BY Cut
  <2> QED
      BY <2>1 DEF CutAt
<1>2. edited \in Text /\ (Places(region, match) = {} => edited = region)
    BY GlobalReplaceFacts
<1>3. Len(result) = Len(before) + Len(edited) + Len(after)
    BY <1>2, Cut DEF CutAt
<1>4. /\ Len(before) \in Nat /\ Len(edited) \in Nat /\ Len(after) \in Nat /\ Len(region) \in Nat
      /\ MaxFileSize \in Nat
    BY <1>2, DocumentsAssumption DEF Text
<1>5. Len(result) > MaxFileSize <=> Len(edited) + (Len(before) + Len(after)) > MaxFileSize
    BY <1>3, <1>4
<1>6. apply_scoped_substitution(buffer, from, to, match, new)
      = IF Places(region, match) = {} \/ Len(result) > MaxFileSize THEN buffer ELSE result
    BY <1>1 DEF apply_scoped_substitution, Joined
<1>7. CASE Len(result) > MaxFileSize
    BY <1>5, <1>6, <1>7 DEF Round
<1>8. CASE ~(Len(result) > MaxFileSize)
    BY <1>2, <1>5, <1>6, <1>8 DEF Round
<1> QED
    BY <1>7, <1>8

(* EditedAlone() is a run of its loop                                        *)
EditedRun(e, text, around, transforms, name) ==
    /\ e \in [0 .. Len(transforms) -> Text]
    /\ e[0] = text
    /\ \A k \in 1 .. Len(transforms) :
           e[k] = Round(e[k - 1], around, transforms[k].match,
                        preprocess_replacement(transforms[k].replace, name))
    /\ EditedAlone(text, around, transforms, name) = e[Len(transforms)]

TextTransform == [match : Text, replace : Text]

(* the parts of the transforms are texts                                    *)
LEMMA TransformParts ==
    ASSUME NEW transforms \in Seq(TextTransform), NEW name \in Plugins
    PROVE  /\ Len(transforms) \in Nat
           /\ \A k \in 1 .. Len(transforms) :
                  /\ transforms[k].match \in Text
                  /\ preprocess_replacement(transforms[k].replace, name) \in Text
<1>1. ASSUME NEW k \in 1 .. Len(transforms)
      PROVE  transforms[k].match \in Text /\ transforms[k].replace \in Text
  <2>1. transforms[k] \in TextTransform
      OBVIOUS
  <2> QED
      BY <2>1 DEF TextTransform
<1> QED
    BY <1>1, ReplacementType

(* EditedAlone() runs through as many texts as there are transforms         *)
LEMMA EditedRuns ==
    ASSUME NEW text \in Text, NEW around, NEW transforms \in Seq(TextTransform), NEW name \in Plugins
    PROVE  \E e : EditedRun(e, text, around, transforms, name)
<1> DEFINE n == Len(transforms)
           Step(s, k) == Round(s, around, transforms[k].match,
                               preprocess_replacement(transforms[k].replace, name))
           Body(f) == [k \in 0 .. n |-> IF k = 0 THEN text ELSE Step(f[k - 1], k)]
           e == CHOOSE f : f = Body(f)
<1>1. n \in Nat
    OBVIOUS
<1>2. ASSUME NEW s \in Text, NEW k \in 1 .. n PROVE Step(s, k) \in Text
    BY <1>2, TransformParts, RoundType
<1>3. EditedAlone(text, around, transforms, name) = e[n]
    BY DEF EditedAlone, Round
<1> HIDE DEF n, Step
<1>4. \E f : f = Body(f)
  <2> DEFINE F == [k \in 1 .. n |-> [s \in Text |-> Step(s, k)]]
  <2>1. F \in [1 .. n -> [Text -> Text]]
      BY <1>2
  <2>2. \A s \in Text, k \in 1 .. n : F[k][s] = Step(s, k)
      OBVIOUS
  <2> HIDE DEF F
  <2>3. PICK g : IsRun(g, n, Text, text, F)
      BY <1>1, <2>1, LoopRuns
  <2>4. ASSUME NEW k \in 0 .. n PROVE g[k] = IF k = 0 THEN text ELSE Step(g[k - 1], k)
    <3>1. CASE k = 0
        BY <2>3, <3>1 DEF IsRun
    <3>2. CASE k # 0
      <4>1. k \in 1 .. n /\ k - 1 \in 0 .. n
          BY <1>1, <3>2
      <4>2. g[k] = F[k][g[k - 1]] /\ g[k - 1] \in Text
          BY <2>3, <4>1 DEF IsRun
      <4> QED
          BY <2>2, <3>2, <4>1, <4>2
    <3> QED
        BY <3>1, <3>2
  <2> QED
      BY <2>3, <2>4 DEF IsRun
<1>5. e = Body(e)
  <2> HIDE DEF Body
  <2> QED
      BY <1>4
<1> HIDE DEF e
<1>6. e[0] = text /\ \A k \in 1 .. n : e[k] = Step(e[k - 1], k)
  <2>1. \A k \in 0 .. n : e[k] = IF k = 0 THEN text ELSE Step(e[k - 1], k)
      BY <1>5
  <2> HIDE DEF Body
  <2> QED
      BY <1>1, <2>1
<1>7. e \in [0 .. n -> Text]
  <2> DEFINE T == {k \in 0 .. n : e[k] \in Text}
  <2>1. 0 \in T
      BY <1>1, <1>6
  <2>2. ASSUME NEW k \in 0 .. n - 1, k \in T PROVE k + 1 \in T
    <3>1. k + 1 \in 1 .. n /\ k + 1 \in 0 .. n /\ k + 1 - 1 = k
        BY <1>1
    <3> QED
        BY <1>2, <1>6, <2>2, <3>1
  <2> HIDE DEF T
  <2>3. \A k \in 0 .. n : k \in T
      BY <1>1, <2>1, <2>2, Induct
  <2> QED
      BY <1>5, <2>3 DEF T
<1> QED
    BY <1>3, <1>6, <1>7 DEF EditedRun, n, Step

-----------------------------------------------------------------------------
(* apply_transform_set_scoped() and one patch                              *)

(* the buffer and the end of the region apply_transform_set_scoped() keeps   *)
Cursor(before, region, after) ==
    [buffer |-> Joined(before, region, after), to |-> Len(before) + 1 + Len(region)]

OneRound(before, region, after, match, new) ==
    LET s == Cursor(before, region, after)
        b == apply_scoped_substitution(s.buffer, Len(before) + 1, s.to, match, new)
    IN  [buffer |-> b, to |-> s.to + Len(b) - Len(s.buffer)]

(* a round changes the region and moves the end with it                     *)
LEMMA OneRoundIs ==
    ASSUME NEW before \in Text, NEW region \in Text, NEW after \in Text,
           NEW match \in Text, NEW new \in Text
    PROVE  OneRound(before, region, after, match, new)
           = Cursor(before, Round(region, Len(before) + Len(after), match, new), after)
<1> DEFINE edited == Round(region, Len(before) + Len(after), match, new)
           s == Cursor(before, region, after)
           b == apply_scoped_substitution(s.buffer, Len(before) + 1, s.to, match, new)
<1>1. s.buffer = Joined(before, region, after) /\ s.to = Len(before) + 1 + Len(region)
    BY DEF Cursor
<1> HIDE DEF s
<1>2. edited \in Text
    BY RoundType
<1>3. b = Joined(before, edited, after)
    BY <1>1, ScopedSubstitution
<1> HIDE DEF edited
<1>4. /\ Len(Joined(before, region, after)) = Len(before) + Len(region) + Len(after)
      /\ Len(Joined(before, edited, after)) = Len(before) + Len(edited) + Len(after)
    BY <1>2, Cut DEF CutAt
<1>5. Len(before) \in Nat /\ Len(after) \in Nat /\ Len(region) \in Nat /\ Len(edited) \in Nat
    BY <1>2 DEF Text
<1> HIDE DEF b
<1>6. Len(before) + 1 + Len(region) + Len(Joined(before, edited, after))
          - Len(Joined(before, region, after)) = Len(before) + 1 + Len(edited)
    BY <1>4, <1>5
<1> QED
    BY <1>1, <1>3, <1>6 DEF OneRound, Cursor, b, s, edited

(* what the transforms do to a region within a text they do to it by itself  *)
EditsRegion(before, region, after, transforms, name) ==
    apply_transform_set_scoped(Joined(before, region, after), Len(before) + 1,
        Len(before) + 1 + Len(region), transforms, name)
    = Joined(before, EditedAlone(region, Len(before) + Len(after), transforms, name), after)

(* the transforms of a patch edit the region and follow its end              *)
LEMMA ScopedTransforms ==
    ASSUME NEW before \in Text, NEW region \in Text, NEW after \in Text,
           NEW transforms \in Seq(TextTransform), NEW name \in Plugins
    PROVE  EditsRegion(before, region, after, transforms, name)
<1> SUFFICES apply_transform_set_scoped(Joined(before, region, after), Len(before) + 1,
                 Len(before) + 1 + Len(region), transforms, name)
             = Joined(before, EditedAlone(region, Len(before) + Len(after), transforms, name), after)
    BY DEF EditsRegion
<1> DEFINE n == Len(transforms)
           around == Len(before) + Len(after)
           from == Len(before) + 1
           New(k) == preprocess_replacement(transforms[k].replace, name)
           Scoped(s, k) == apply_scoped_substitution(s.buffer, from, s.to, transforms[k].match, New(k))
           Step(s, k) == [buffer |-> Scoped(s, k),
                          to |-> s.to + Len(Scoped(s, k)) - Len(s.buffer)]
           At(text) == Cursor(before, text, after)
           Body(f) == [k \in 0 .. n |-> IF k = 0 THEN At(region) ELSE Step(f[k - 1], k)]
           done == CHOOSE f : f = Body(f)
<1>1. n \in Nat
    OBVIOUS
<1>2. PICK e : EditedRun(e, region, around, transforms, name)
    BY EditedRuns
<1>3. apply_transform_set_scoped(Joined(before, region, after), from, from + Len(region), transforms, name)
      = done[n].buffer
    BY DEF apply_transform_set_scoped, Cursor
<1>4. ASSUME NEW k \in 1 .. n PROVE Step(At(e[k - 1]), k) = At(e[k])
  <2>1. e[k - 1] \in Text /\ e[k] = Round(e[k - 1], around, transforms[k].match, New(k))
    <3>1. k - 1 \in 0 .. n
        BY <1>1
    <3>2. e \in [0 .. n -> Text] /\ e[k] = Round(e[k - 1], around, transforms[k].match, New(k))
        BY <1>2 DEF EditedRun
    <3> QED
        BY <3>1, <3>2
  <2>2. transforms[k].match \in Text /\ New(k) \in Text
      BY TransformParts
  <2> HIDE DEF New
  <2>3. OneRound(before, e[k - 1], after, transforms[k].match, New(k)) = At(e[k])
    <3>1. PICK x \in Text, m \in Text, w \in Text :
              x = e[k - 1] /\ m = transforms[k].match /\ w = New(k)
        BY <2>1, <2>2
    <3>2. OneRound(before, x, after, m, w) = Cursor(before, Round(x, around, m, w), after)
        BY OneRoundIs
    <3> QED
        BY <2>1, <3>1, <3>2
  <2> QED
      BY <2>3 DEF OneRound, Cursor
<1> HIDE DEF n, Step, At
<1>5. \E f : f = Body(f)
  <2> DEFINE g == [k \in 0 .. n |-> At(e[k])]
  <2>1. ASSUME NEW k \in 0 .. n PROVE g[k] = IF k = 0 THEN At(region) ELSE Step(g[k - 1], k)
    <3>1. CASE k = 0
        BY <1>2, <3>1 DEF EditedRun
    <3>2. CASE k # 0
      <4>1. k \in 1 .. n /\ k - 1 \in 0 .. n
          BY <1>1, <3>2
      <4>2. g[k] = At(e[k]) /\ g[k - 1] = At(e[k - 1])
          BY <4>1
      <4> QED
          BY <1>4, <3>2, <4>1, <4>2
    <3> QED
        BY <3>1, <3>2
  <2>2. g = Body(g)
      BY <2>1
  <2> QED
      BY <2>2
<1>6. done = Body(done)
  <2> HIDE DEF Body
  <2> QED
      BY <1>5
<1> HIDE DEF done
<1>7. done[0] = At(region) /\ \A k \in 1 .. n : done[k] = Step(done[k - 1], k)
  <2>1. \A k \in 0 .. n : done[k] = IF k = 0 THEN At(region) ELSE Step(done[k - 1], k)
      BY <1>6
  <2> HIDE DEF Body
  <2> QED
      BY <1>1, <2>1
<1>8. done[n] = At(e[n])
  <2> DEFINE T == {k \in 0 .. n : done[k] = At(e[k])}
  <2>1. 0 \in T
      BY <1>1, <1>2, <1>7 DEF EditedRun
  <2>2. ASSUME NEW k \in 0 .. n - 1, k \in T PROVE k + 1 \in T
    <3>1. k + 1 \in 1 .. n /\ k + 1 \in 0 .. n /\ k + 1 - 1 = k
        BY <1>1
    <3>2. done[k + 1] = Step(done[k], k + 1) /\ Step(At(e[k]), k + 1) = At(e[k + 1])
        BY <1>4, <1>7, <3>1
    <3> QED
        BY <2>2, <3>1, <3>2
  <2> HIDE DEF T
  <2>3. \A k \in 0 .. n : k \in T
      BY <1>1, <2>1, <2>2, Induct
  <2>4. n \in T
      BY <1>1, <2>3
  <2> QED
      BY <2>4 DEF T
<1>9. EditedAlone(region, around, transforms, name) = e[n]
    BY <1>2 DEF EditedRun, n
<1>10. done[n].buffer = Joined(before, e[n], after)
    BY <1>8 DEF At, Cursor
<1> QED
    BY <1>3, <1>9, <1>10

TextPatch == [file : Text, find : Text, transforms : Seq(TextTransform)]

(* one round of handle_file_patches() does what the patch describes          *)
LEMMA ApplyPatchIs ==
    ASSUME NEW document \in Text, NEW patch \in TextPatch, NEW name \in Plugins
    PROVE  /\ ApplyPatch(document, patch, name) = Edited(document, patch, name)
           /\ ApplyPatch(document, patch, name) \in Text
<1>1. patch.find \in Text /\ patch.transforms \in Seq(TextTransform)
    BY DEF TextPatch
<1>2. CASE patch.find = EmptyString \/ Places(document, patch.find) = {}
    BY <1>2 DEF ApplyPatch, Edited
<1>3. CASE ~(patch.find = EmptyString \/ Places(document, patch.find) = {})
  <2> DEFINE from == Min(Places(document, patch.find))
             find == patch.find
             before == SubSeq(document, 1, from - 1)
             after == SubSeq(document, from + Len(find), Len(document))
             alone == EditedAlone(find, Len(before) + Len(after), patch.transforms, name)
  <2>1. from \in Places(document, find)
      BY <1>1, <1>3, PlacesFacts
  <2>2. /\ Len(document) \in Nat /\ Len(find) \in Nat /\ from \in 1 .. Len(document) + 1
        /\ from + Len(find) - 1 <= Len(document)
        /\ SubSeq(document, from, from + Len(find) - 1) = find
    <3>1. Len(document) \in Nat /\ Len(find) \in Nat
        BY <1>1 DEF Text
    <3> HIDE DEF from
    <3> QED
        BY <2>1, <3>1 DEF Places, OccursAt
  <2>3. before \in Text /\ Len(before) + 1 = from
    <3>1. \A i \in 1 .. from - 1 : document[i] \in Token
        BY <2>2 DEF Text
    <3>2. from - 1 \in Int /\ (1 <= from - 1 => from - 1 - 1 + 1 = from - 1) /\ (~(1 <= from - 1) => from = 1)
        BY <2>2
    <3>3. before \in Seq(Token) /\ Len(before) = IF 1 <= from - 1 THEN from - 1 - 1 + 1 ELSE 0
        BY <3>1, <3>2, SubSeqProperties
    <3> HIDE DEF before
    <3> QED
        BY <2>2, <3>2, <3>3 DEF Text
  <2>4. after \in Text
    <3>1. \A i \in from + Len(find) .. Len(document) : document[i] \in Token
        BY <2>2 DEF Text
    <3>2. from + Len(find) \in Int /\ Len(document) \in Int
        BY <2>2
    <3> QED
        BY <3>1, <3>2, SubSeqProperties DEF Text
  <2>5. document = Joined(before, find, after)
    <3>1. document \in Seq(Token)
        BY DEF Text
    <3> DEFINE m == from + Len(find) - 1
               d == Len(document)
    <3>2. /\ from - 1 \in 1 - 1 .. d /\ m \in from - 1 .. d /\ m \in from - 1 + 1 - 1 .. d
          /\ d \in m .. d /\ 1 \in 1 .. d + 1 /\ from - 1 + 1 = from /\ m + 1 = from + Len(find)
          /\ m \in 1 - 1 .. d
        BY <2>2
    <3>3. SubSeq(document, 1, m) = before \o SubSeq(document, from - 1 + 1, m)
        BY <3>1, <3>2, ConcatAdjacentSubSeq
    <3>4. SubSeq(document, 1, d) = SubSeq(document, 1, m) \o SubSeq(document, m + 1, d)
        BY <3>1, <3>2, ConcatAdjacentSubSeq
    <3>5. SubSeq(document, 1, d) = document
        BY <3>1, SubSeqFull
    <3> QED
        BY <2>2, <3>2, <3>3, <3>4, <3>5 DEF Joined
  <2>6. ApplyPatch(document, patch, name) = Joined(before, alone, after)
    <3>1. ApplyPatch(document, patch, name)
          = apply_transform_set_scoped(document, from, from + Len(find), patch.transforms, name)
        BY <1>3 DEF ApplyPatch
    <3>2. PICK t \in Seq(TextTransform) : t = patch.transforms
        BY <1>1
    <3>3. PICK r \in Text : r = find
        BY <1>1
    <3> HIDE DEF from, before, after, find
    <3>4. EditsRegion(before, r, after, t, name)
        BY <2>3, <2>4, ScopedTransforms
    <3> QED
        BY <2>3, <2>5, <3>1, <3>2, <3>3, <3>4 DEF EditsRegion
  <2>7. Edited(document, patch, name) = Joined(before, alone, after)
      BY <1>3 DEF Edited, Joined
  <2>8. alone \in Text
    <3> HIDE DEF before, after
    <3>1. PICK e : EditedRun(e, find, Len(before) + Len(after), patch.transforms, name)
        BY <1>1, EditedRuns
    <3> QED
        BY <1>1, <3>1 DEF EditedRun
  <2>9. Joined(before, alone, after) \in Text
      BY <2>3, <2>4, <2>8, Cut DEF CutAt
  <2> QED
      BY <2>6, <2>7, <2>9
<1> QED
    BY <1>2, <1>3

-----------------------------------------------------------------------------
(* The loop of handle_file_patches()                                       *)

(* the loop of handle_file_patches() over an order of ids does what is       *)
(* described by the order of patches that these ids stand for                *)
LEMMA HandledInOrder ==
    ASSUME NEW document \in Text, NEW order, NEW patch, NEW name, NEW q, NEW patches,
           Len(order) \in Nat, Len(q) = Len(order),
           \A k \in 1 .. Len(order) :
               /\ patch[order[k]] \in TextPatch /\ name[order[k]] \in Plugins
               /\ q[k][1] = name[order[k]]
               /\ patches[q[k][1]][q[k][2]] = patch[order[k]]
    PROVE  /\ handle_file_patches(document, order, patch, name) = EditedInOrder(document, q, patches)
           /\ Len(order) = 0 => EditedInOrder(document, q, patches) = document
<1> DEFINE n == Len(order)
           P(k) == patch[order[k]]
           N(k) == name[order[k]]
           Q(k) == patches[q[k][1]][q[k][2]]
           M(k) == q[k][1]
           BodyA(f) == [k \in 0 .. n |-> IF k = 0 THEN document ELSE ApplyPatch(f[k - 1], P(k), N(k))]
           BodyB(f) == [k \in 0 .. Len(q) |-> IF k = 0 THEN document ELSE Edited(f[k - 1], Q(k), M(k))]
           a == CHOOSE f : f = BodyA(f)
           b == CHOOSE f : f = BodyB(f)
<1>1. n \in Nat /\ Len(q) = n
    OBVIOUS
<1>2. handle_file_patches(document, order, patch, name) = a[n]
    BY DEF handle_file_patches
<1>3. EditedInOrder(document, q, patches) = b[Len(q)]
    BY DEF EditedInOrder
<1>4. ASSUME NEW k \in 1 .. n PROVE P(k) \in TextPatch /\ N(k) \in Plugins /\ Q(k) = P(k) /\ M(k) = N(k)
    OBVIOUS
<1> HIDE DEF n, P, N, Q, M
<1>5. ASSUME NEW s \in Text, NEW k \in 1 .. n
      PROVE  /\ ApplyPatch(s, P(k), N(k)) \in Text
             /\ Edited(s, Q(k), M(k)) = ApplyPatch(s, P(k), N(k))
  <2>1. PICK p \in TextPatch, m \in Plugins : p = P(k) /\ m = N(k)
      BY <1>4
  <2>2. ApplyPatch(s, p, m) = Edited(s, p, m) /\ ApplyPatch(s, p, m) \in Text
      BY ApplyPatchIs
  <2>3. Q(k) = p /\ M(k) = m
      BY <1>4, <2>1
  <2> QED
      BY <2>1, <2>2, <2>3
<1>6. PICK g \in [0 .. n -> Text] :
          g[0] = document /\ \A k \in 1 .. n : g[k] = ApplyPatch(g[k - 1], P(k), N(k))
  <2> DEFINE F == [k \in 1 .. n |-> [s \in Text |-> ApplyPatch(s, P(k), N(k))]]
  <2>1. F \in [1 .. n -> [Text -> Text]]
      BY <1>5
  <2>2. \A s \in Text, k \in 1 .. n : F[k][s] = ApplyPatch(s, P(k), N(k))
      OBVIOUS
  <2> HIDE DEF F
  <2>3. PICK g : IsRun(g, n, Text, document, F)
      BY <1>1, <2>1, LoopRuns
  <2>4. ASSUME NEW k \in 1 .. n PROVE g[k] = ApplyPatch(g[k - 1], P(k), N(k))
    <3>1. k - 1 \in 0 .. n
        BY <1>1
    <3>2. g[k] = F[k][g[k - 1]] /\ g[k - 1] \in Text
        BY <2>3, <3>1 DEF IsRun
    <3> QED
        BY <2>2, <3>2
  <2>5. g \in [0 .. n -> Text] /\ g[0] = document
      BY <2>3 DEF IsRun
  <2> QED
      BY <2>4, <2>5
<1>7. ASSUME NEW k \in 0 .. n, k # 0
      PROVE  /\ k - 1 \in 0 .. n /\ k \in 1 .. n
             /\ g[k - 1] \in Text /\ g[k] = ApplyPatch(g[k - 1], P(k), N(k))
             /\ g[k] = Edited(g[k - 1], Q(k), M(k))
  <2>1. k - 1 \in 0 .. n /\ k \in 1 .. n
      BY <1>1, <1>7
  <2>2. g[k - 1] \in Text /\ g[k] = ApplyPatch(g[k - 1], P(k), N(k))
      BY <1>6, <2>1
  <2> QED
      BY <1>5, <2>1, <2>2
<1>8. a[n] = g[n]
  <2>1. g = BodyA(g)
    <3>1. \A k \in 0 .. n : g[k] = IF k = 0 THEN document ELSE ApplyPatch(g[k - 1], P(k), N(k))
        BY <1>6, <1>7
    <3> QED
        BY <3>1
  <2>2. a = BodyA(a)
    <3> HIDE DEF BodyA
    <3> QED
        BY <2>1
  <2> HIDE DEF a
  <2>3. \A k \in 0 .. n : a[k] = IF k = 0 THEN document ELSE ApplyPatch(a[k - 1], P(k), N(k))
      BY <2>2
  <2> HIDE DEF BodyA
  <2> DEFINE T == {k \in 0 .. n : a[k] = g[k]}
  <2>4. 0 \in T
      BY <1>1, <1>6, <2>3
  <2>5. ASSUME NEW k \in 0 .. n - 1, k \in T PROVE k + 1 \in T
    <3>1. k + 1 \in 1 .. n /\ k + 1 \in 0 .. n /\ k + 1 - 1 = k /\ k + 1 # 0
        BY <1>1
    <3>2. a[k + 1] = ApplyPatch(a[k], P(k + 1), N(k + 1))
        BY <2>3, <3>1
    <3>3. g[k + 1] = ApplyPatch(g[k], P(k + 1), N(k + 1))
        BY <1>7, <3>1
    <3> QED
        BY <2>5, <3>1, <3>2, <3>3
  <2> HIDE DEF T
  <2>6. \A k \in 0 .. n : k \in T
      BY <1>1, <2>4, <2>5, Induct
  <2>7. n \in T
      BY <1>1, <2>6
  <2> QED
      BY <2>7 DEF T
<1>9. b[Len(q)] = g[n]
  <2>1. g = BodyB(g)
    <3>1. \A k \in 0 .. n : g[k] = IF k = 0 THEN document ELSE Edited(g[k - 1], Q(k), M(k))
        BY <1>6, <1>7
    <3> QED
        BY <1>1, <3>1
  <2>2. b = BodyB(b)
    <3> HIDE DEF BodyB
    <3> QED
        BY <2>1
  <2> HIDE DEF b
  <2>3. \A k \in 0 .. n : b[k] = IF k = 0 THEN document ELSE Edited(b[k - 1], Q(k), M(k))
      BY <1>1, <2>2
  <2> HIDE DEF BodyB
  <2> DEFINE T == {k \in 0 .. n : b[k] = g[k]}
  <2>4. 0 \in T
      BY <1>1, <1>6, <2>3
  <2>5. ASSUME NEW k \in 0 .. n - 1, k \in T PROVE k + 1 \in T
    <3>1. k + 1 \in 1 .. n /\ k + 1 \in 0 .. n /\ k + 1 - 1 = k /\ k + 1 # 0
        BY <1>1
    <3>2. b[k + 1] = Edited(b[k], Q(k + 1), M(k + 1))
        BY <2>3, <3>1
    <3>3. g[k + 1] = Edited(g[k], Q(k + 1), M(k + 1))
        BY <1>7, <3>1
    <3> QED
        BY <2>5, <3>1, <3>2, <3>3
  <2> HIDE DEF T
  <2>6. \A k \in 0 .. n : k \in T
      BY <1>1, <2>4, <2>5, Induct
  <2>7. n \in T
      BY <1>1, <2>6
  <2> QED
      BY <1>1, <2>7 DEF T
<1>10. n = 0 => b[Len(q)] = document
    BY <1>6, <1>9
<1>11. n = Len(order)
    BY DEF n
<1> QED
    BY <1>2, <1>3, <1>8, <1>9, <1>10, <1>11

-----------------------------------------------------------------------------
(* The rows of the walk, one after the other                               *)

(* w goes once through patches 1 to c[i] of every entry i below n            *)
Stays(w, n, c) == \A j \in 1 .. Len(w) : w[j][1] \in 0 .. n - 1 /\ w[j][2] \in 1 .. c[w[j][1]]
Once(w) == \A i, j \in 1 .. Len(w) : w[i] = w[j] => i = j
Reaches(w, n, c) ==
    \A i \in Nat : \A k \in 1 .. c[i] : i < n => \E j \in 1 .. Len(w) : w[j] = <<i, k>>
IsWalk(w, n, c) == w \in Seq(Nat \X Nat) /\ Stays(w, n, c) /\ Once(w) /\ Reaches(w, n, c)

Row(m, c) == [k \in 1 .. c[m] |-> <<m, k>>]

(* the row of an entry, place by place                                      *)
LEMMA RowFacts ==
    ASSUME NEW m \in Nat, NEW c, c[m] \in Nat
    PROVE  /\ Row(m, c) \in Seq(Nat \X Nat) /\ Len(Row(m, c)) = c[m]
           /\ \A k \in 1 .. c[m] : Row(m, c)[k] = <<m, k>>
<1>1. \A k \in 1 .. c[m] : <<m, k>> \in Nat \X Nat
    OBVIOUS
<1>2. Row(m, c) \in [1 .. c[m] -> Nat \X Nat]
    BY <1>1 DEF Row
<1>3. Row(m, c) \in Seq(Nat \X Nat)
    BY <1>2
<1>4. Len(Row(m, c)) = c[m]
    BY <1>2, <1>3
<1> QED
    BY <1>3, <1>4 DEF Row

(* one entry more                                                            *)
IsConcat(v, s, t, n, d) ==
    /\ Len(v) = n + d
    /\ \A i \in 1 .. n : v[i] = s[i]
    /\ \A i \in n + 1 .. n + d : v[i] = t[i - n]

(* two sequences laid end to end, place by place                            *)
LEMMA ConcatParts ==
    ASSUME NEW S, NEW s \in Seq(S), NEW t \in Seq(S), NEW n \in Nat, NEW d \in Nat,
           n = Len(s), d = Len(t)
    PROVE  s \o t \in Seq(S) /\ IsConcat(s \o t, s, t, n, d)
<1> DEFINE v == s \o t
<1>1. v \in Seq(S) /\ Len(v) = Len(s) + Len(t)
      /\ \A i \in 1 .. Len(s) + Len(t) : v[i] = IF i <= Len(s) THEN s[i] ELSE t[i - Len(s)]
    BY ConcatProperties
<1> HIDE DEF v
<1>2. \A i \in 1 .. n + d : v[i] = IF i <= n THEN s[i] ELSE t[i - n]
    BY <1>1
<1>3. ASSUME NEW i \in 1 .. n PROVE v[i] = s[i]
    BY <1>2
<1>4. ASSUME NEW i \in n + 1 .. n + d PROVE v[i] = t[i - n]
    BY <1>2
<1> QED
    BY <1>1, <1>3, <1>4 DEF v, IsConcat

(* a walk through m entries and the row of the next one                     *)
LEMMA WalkOn ==
    ASSUME NEW m \in Nat, NEW c, \A i \in 0 .. m : c[i] \in Nat, NEW w, IsWalk(w, m, c)
    PROVE  IsWalk(w \o Row(m, c), m + 1, c)
<1>1. PICK d \in Nat : d = c[m]
    OBVIOUS
<1>2. PICK r \in Seq(Nat \X Nat) : r = Row(m, c) /\ Len(r) = d /\ \A k \in 1 .. d : r[k] = <<m, k>>
    BY <1>1, RowFacts
<1>3. w \in Seq(Nat \X Nat)
    BY DEF IsWalk
<1>4. PICK n \in Nat : n = Len(w)
    BY <1>3
<1>5. PICK v \in Seq(Nat \X Nat) : /\ v = w \o r /\ Len(v) = n + d
                                   /\ \A i \in 1 .. n : v[i] = w[i]
                                   /\ \A i \in n + 1 .. n + d : v[i] = r[i - n]
  <2>1. w \o r \in Seq(Nat \X Nat) /\ IsConcat(w \o r, w, r, n, d)
      BY <1>2, <1>3, <1>4, ConcatParts
  <2> QED
      BY <2>1 DEF IsConcat
<1>6. ASSUME NEW j \in 1 .. n PROVE v[j] = w[j] /\ v[j][1] \in 0 .. m - 1 /\ v[j][2] \in 1 .. c[v[j][1]]
    BY <1>4, <1>5 DEF IsWalk, Stays
<1>7. ASSUME NEW j \in n + 1 .. n + d
      PROVE  v[j] = <<m, j - n>> /\ v[j][1] = m /\ v[j][2] = j - n /\ j - n \in 1 .. d
  <2>1. j - n \in 1 .. d
      OBVIOUS
  <2>2. PICK k \in 1 .. d : k = j - n
      BY <2>1
  <2>3. v[j] = <<m, k>>
      BY <1>2, <1>5, <2>2
  <2> QED
      BY <2>2, <2>3
<1>8. \A j \in 1 .. n + d : j \in 1 .. n \/ j \in n + 1 .. n + d
    OBVIOUS
<1>9. ASSUME NEW j \in 1 .. n + d PROVE v[j][1] \in 0 .. m /\ v[j][2] \in 1 .. c[v[j][1]]
  <2>1. CASE j \in 1 .. n
    <3>1. v[j][1] \in 0 .. m - 1 /\ v[j][2] \in 1 .. c[v[j][1]]
        BY <1>6, <2>1
    <3> QED
        BY <3>1
  <2>2. CASE j \in n + 1 .. n + d
    <3>1. v[j][1] = m /\ v[j][2] \in 1 .. d
        BY <1>7, <2>2
    <3> QED
        BY <1>1, <3>1
  <2> QED
      BY <1>8, <2>1, <2>2
<1>10. ASSUME NEW i \in 1 .. n + d, NEW j \in 1 .. n + d, v[i] = v[j] PROVE i = j
  <2>1. CASE i \in 1 .. n /\ j \in 1 .. n
    <3>1. w[i] = w[j]
        BY <1>6, <1>10, <2>1
    <3> QED
        BY <1>4, <2>1, <3>1 DEF IsWalk, Once
  <2>2. CASE i \in n + 1 .. n + d /\ j \in n + 1 .. n + d
    <3>1. i - n = j - n
        BY <1>7, <1>10, <2>2
    <3> QED
        BY <2>2, <3>1
  <2>3. CASE i \in 1 .. n /\ j \in n + 1 .. n + d
    <3>1. v[i][1] \in 0 .. m - 1 /\ v[j][1] = m
        BY <1>6, <1>7, <2>3
    <3> QED
        BY <1>10, <3>1
  <2>4. CASE j \in 1 .. n /\ i \in n + 1 .. n + d
    <3>1. v[j][1] \in 0 .. m - 1 /\ v[i][1] = m
        BY <1>6, <1>7, <2>4
    <3> QED
        BY <1>10, <3>1
  <2> QED
      BY <1>8, <2>1, <2>2, <2>3, <2>4
<1>11. ASSUME NEW i \in Nat, NEW k \in 1 .. c[i], i < m + 1
       PROVE  \E j \in 1 .. n + d : v[j] = <<i, k>>
  <2>1. CASE i = m
    <3>1. k \in 1 .. d
        BY <1>1, <2>1
    <3>2. n + k \in n + 1 .. n + d /\ n + k \in 1 .. n + d /\ n + k - n = k
        BY <3>1
    <3>3. v[n + k] = <<m, n + k - n>>
        BY <1>7, <3>2
    <3> QED
        BY <2>1, <3>2, <3>3
  <2>2. CASE i # m
    <3>1. i < m
        BY <1>11, <2>2
    <3>2. PICK j \in 1 .. n : w[j] = <<i, k>>
        BY <1>4, <3>1 DEF IsWalk, Reaches
    <3>3. j \in 1 .. n + d
        OBVIOUS
    <3> QED
        BY <1>6, <3>2, <3>3
  <2> QED
      BY <2>1, <2>2
<1>12. IsWalk(v, m + 1, c)
  <2>1. Stays(v, m + 1, c)
      BY <1>5, <1>9 DEF Stays
  <2>2. Once(v)
      BY <1>5, <1>10 DEF Once
  <2>3. Reaches(v, m + 1, c)
    <3>1. \A i \in Nat : \A k \in 1 .. c[i] : i < m + 1 => \E j \in 1 .. n + d : v[j] = <<i, k>>
        BY <1>11
    <3> QED
        BY <1>5, <3>1, Zenon DEF Reaches
  <2> QED
      BY <2>1, <2>2, <2>3 DEF IsWalk
<1> QED
    BY <1>2, <1>5, <1>12

(* there is nothing to walk through below entry 0                           *)
LEMMA WalkNothing ==
    ASSUME NEW c
    PROVE  IsWalk(<<>>, 0, c)
<1>1. <<>> \in Seq(Nat \X Nat) /\ Len(<<>>) = 0 /\ 1 .. 0 = {} /\ 0 .. 0 - 1 = {}
    OBVIOUS
<1> QED
    BY <1>1 DEF IsWalk, Stays, Once, Reaches

(* the first row by itself is a walk                                        *)
LEMMA WalkFirst ==
    ASSUME NEW c, c[0] \in Nat
    PROVE  IsWalk(Row(0, c), 1, c)
<1>1. IsWalk(<<>>, 0, c)
    BY WalkNothing
<1>2. IsWalk(<<>> \o Row(0, c), 0 + 1, c)
  <2>1. 0 \in Nat /\ \A i \in 0 .. 0 : c[i] \in Nat
      OBVIOUS
  <2> QED
      BY <1>1, <2>1, WalkOn
<1>3. <<>> \o Row(0, c) = Row(0, c)
    BY RowFacts, ConcatEmptySeq
<1> QED
    BY <1>2, <1>3

Rows(n, c) == [i \in 1 .. n |-> Row(i - 1, c)]

(* laying the rows end to end is such a walk                                 *)
LEMMA FlattenIsWalk ==
    ASSUME NEW n \in Nat, NEW c, \A i \in 0 .. n - 1 : c[i] \in Nat
    PROVE  IsWalk(FlattenSeq(Rows(n, c)), n, c)
<1> DEFINE R == Rows(n, c)
           S == Seq(Nat \X Nat)
<1>1. \A i \in 1 .. n : R[i] = Row(i - 1, c) /\ R[i] \in S
  <2>1. ASSUME NEW i \in 1 .. n PROVE R[i] = Row(i - 1, c) /\ i - 1 \in Nat /\ c[i - 1] \in Nat
      BY DEF Rows
  <2> QED
      BY <2>1, RowFacts
<1>2. R \in Seq(S) /\ Len(R) = n
  <2>1. R = [i \in 1 .. n |-> R[i]]
      BY DEF Rows
  <2> HIDE DEF R, S
  <2>2. R \in [1 .. n -> S]
      BY <1>1, <2>1
  <2> QED
      BY <2>2
<1> HIDE DEF R
<1>3. CASE n = 0
  <2>1. FlattenSeq(R) = R
      BY <1>2, <1>3 DEF FlattenSeq
  <2>2. R = <<>>
      BY <1>2, <1>3
  <2>3. IsWalk(<<>>, 0, c)
      BY WalkNothing
  <2> QED
      BY <1>3, <2>1, <2>2, <2>3 DEF R
<1>4. CASE n # 0
  <2> DEFINE Body(f) == [i \in 1 .. n |-> IF i = 1 THEN R[i] ELSE f[i - 1] \o R[i]]
             flatten == CHOOSE f : f = Body(f)
  <2>1. FlattenSeq(R) = flatten[n]
      BY <1>2, <1>4 DEF FlattenSeq
  <2>2. \E f : f = Body(f)
    <3> DEFINE F == [i \in 1 .. n |-> [s \in S |-> s \o R[i]]]
    <3>1. F \in [1 .. n -> [S -> S]]
        BY <1>1, ConcatProperties
    <3>2. \A s \in S, i \in 1 .. n : F[i][s] = s \o R[i]
        OBVIOUS
    <3>3. <<>> \in S
        OBVIOUS
    <3> HIDE DEF F, S
    <3>4. PICK g : IsRun(g, n, S, <<>>, F)
        BY <3>1, <3>3, LoopRuns
    <3> DEFINE h == [i \in 1 .. n |-> g[i]]
    <3>5. ASSUME NEW i \in 1 .. n PROVE h[i] = IF i = 1 THEN R[i] ELSE h[i - 1] \o R[i]
      <4>1. g[i] = F[i][g[i - 1]] /\ g[i - 1] \in S /\ g[0] = <<>>
          BY <3>4 DEF IsRun
      <4>2. g[i] = g[i - 1] \o R[i]
          BY <3>2, <4>1
      <4>3. CASE i = 1
        <5>1. R[1] \in Seq(Nat \X Nat) /\ h[1] = g[1] /\ g[1] = <<>> \o R[1]
          <6>1. R[1] \in S /\ h[1] = g[1] /\ 1 - 1 = 0
              BY <1>1, <4>3
          <6> QED
              BY <4>1, <4>2, <4>3, <6>1 DEF S
        <5>2. <<>> \o R[1] = R[1]
            BY <5>1, ConcatEmptySeq
        <5> QED
            BY <4>3, <5>1, <5>2
      <4>4. CASE i # 1
        <5>1. i - 1 \in 1 .. n
            BY <4>4
        <5> QED
            BY <4>2, <4>4, <5>1
      <4> QED
          BY <4>3, <4>4
    <3>6. h = Body(h)
        BY <3>5
    <3> QED
        BY <3>6
  <2>3. flatten = Body(flatten)
    <3> HIDE DEF Body
    <3> QED
        BY <2>2
  <2> HIDE DEF flatten
  <2>4. \A i \in 1 .. n : flatten[i] = IF i = 1 THEN R[i] ELSE flatten[i - 1] \o R[i]
      BY <2>3
  <2>4a. ASSUME NEW i \in 1 .. n, i # 1 PROVE flatten[i] = flatten[i - 1] \o R[i]
      BY <2>4, <2>4a
  <2> HIDE DEF Body
  <2> DEFINE T == {k \in 0 .. n - 1 : \A j \in 1 .. n : j = k + 1 => IsWalk(flatten[j], j, c)}
  <2>5. 0 \in T
    <3>1. flatten[1] = Row(0, c) /\ c[0] \in Nat /\ 0 \in 0 .. n - 1
        BY <1>1, <1>4, <2>4
    <3>2. IsWalk(flatten[1], 1, c)
        BY <3>1, WalkFirst
    <3>3. \A j \in 1 .. n : j = 0 + 1 => j = 1
        OBVIOUS
    <3> QED
        BY <3>1, <3>2, <3>3
  <2>6. ASSUME NEW k \in 0 .. n - 1 - 1, k \in T PROVE k + 1 \in T
    <3>1. k + 1 \in 0 .. n - 1
        OBVIOUS
    <3>2. ASSUME NEW j \in 1 .. n, j = k + 1 + 1 PROVE IsWalk(flatten[j], j, c)
      <4>1. PICK m \in 1 .. n : m = j - 1 /\ m = k + 1 /\ j = m + 1 /\ j # 1
          BY <3>2
      <4>2. IsWalk(flatten[m], m, c)
          BY <2>6, <4>1
      <4>3. flatten[j] = flatten[m] \o Row(m, c)
        <5>1. flatten[j] = flatten[j - 1] \o R[j] /\ R[j] = Row(j - 1, c)
            BY <1>1, <2>4a, <4>1
        <5> QED
            BY <4>1, <5>1
      <4>4. m \in Nat /\ \A i \in 0 .. m : c[i] \in Nat
          BY <4>1
      <4>5. IsWalk(flatten[m] \o Row(m, c), m + 1, c)
          BY <4>2, <4>4, WalkOn
      <4> QED
          BY <4>1, <4>3, <4>5
    <3> QED
        BY <3>1, <3>2
  <2> HIDE DEF T
  <2>7. n - 1 \in Nat /\ n - 1 \in 0 .. n - 1 /\ n - 1 + 1 = n /\ n \in 1 .. n
      BY <1>4
  <2>8. \A k \in 0 .. n - 1 : k \in T
      BY <2>5, <2>6, <2>7, Induct
  <2>9. n - 1 \in T
      BY <2>7, <2>8
  <2>10. IsWalk(flatten[n], n, c)
      BY <2>7, <2>9 DEF T
  <2> QED
      BY <2>1, <2>10 DEF R
<1> QED
    BY <1>3, <1>4

-----------------------------------------------------------------------------
(* The walk of an arena                                                    *)

(* how many patches each entry counts                                        *)
Counts(a) == [i \in Entries(a) |-> Values(a)[i].patch_count]

(* a walk of the arena goes once through all patches of all entries          *)
LEMMA WalkFacts ==
    ASSUME NEW a, NEW shape, Live(a, shape)
    PROVE  IsWalk(Walk(a), a.map.count, Counts(a))
<1>1. Proper(a, shape) /\ MapOK(a, shape)
    BY DEF Live
<1>2. PICK n \in Nat : n = a.map.count /\ Entries(a) = 0 .. n - 1
    BY LiveCount
<1> DEFINE c == Counts(a)
<1>3. ASSUME NEW i \in 0 .. n - 1 PROVE c[i] = Values(a)[i].patch_count /\ c[i] \in Nat
    BY <1>1, <1>2, ListFacts DEF Counts
<1> HIDE DEF c
<1>4. ASSUME NEW i \in 1 .. n
      PROVE  [k \in 1 .. Values(a)[i - 1].patch_count |-> <<i - 1, k>>] = Row(i - 1, c)
  <2>1. i - 1 \in 0 .. n - 1
      OBVIOUS
  <2> QED
      BY <1>3, <2>1 DEF Row
<1>5. Walk(a) = FlattenSeq(Rows(n, c))
  <2>1. [i \in 1 .. n |-> [k \in 1 .. Values(a)[i - 1].patch_count |-> <<i - 1, k>>]] = Rows(n, c)
      BY <1>4 DEF Rows
  <2> QED
      BY <1>2, <2>1 DEF Walk
<1>6. IsWalk(FlattenSeq(Rows(n, c)), n, c)
    BY <1>3, FlattenIsWalk
<1> QED
    BY <1>2, <1>5, <1>6 DEF c

(* a name is that of a plugin, or was not stored                             *)
LEMMA NameType ==
    ASSUME NEW a, NEW shape, Live(a, shape), NEW i \in Entries(a)
    PROVE  NameAt(a, i) \in Plugins \cup {NoName}
<1>1. Proper(a, shape) /\ MapOK(a, shape)
    BY DEF Live
<1>2. Keys(a)[i] \in KeyCells(shape) /\ DOMAIN shape = Blocks(a)
  <2>1. /\ Keys(a) \in [0 .. a.map.capacity - 1 -> KeyCells(shape)]
        /\ a.map.count \in Nat /\ a.map.capacity \in Nat /\ a.map.count <= a.map.capacity
        /\ DOMAIN shape = Blocks(a)
      BY <1>1, MapFacts
  <2> QED
      BY <2>1 DEF Entries
<1>3. CASE Keys(a)[i] = 0
    BY <1>3 DEF NameAt
<1>4. CASE Keys(a)[i] # 0
  <2>1. PICK o \in Blocks(a) : o = Keys(a)[i] /\ shape[o].type = "name"
      BY <1>2, <1>4 DEF KeyCells
  <2>2. HoldsData(shape, shape[o], a.heap[o].size, Data(a, o))
      BY <1>1 DEF Proper, WellTyped
  <2> QED
      BY <1>4, <2>1, <2>2 DEF HoldsData, NameAt
<1> QED
    BY <1>3, <1>4

(* texts of the registry are texts                                           *)
LEMMA TextPatches == PatchText \subseteq TextPatch
<1>1. Texts \subseteq Text
    BY TextFacts DEF Texts
<1>2. TransformText \subseteq TextTransform
    BY <1>1 DEF TransformText, TextTransform
<1>3. Seq(TransformText) \subseteq Seq(TextTransform)
    BY <1>2
<1> QED
    BY <1>1, <1>3 DEF PatchText, TextPatch

-----------------------------------------------------------------------------
(* The order of the ids and the order of the patches                       *)

(* the images of an order of ids are an order of T by first components       *)
SortsAs(order, ids, f, T) ==
    /\ Len(order) \in Nat /\ \A k \in 1 .. Len(order) : order[k] \in ids
    /\ [k \in 1 .. Len(order) |-> f[order[k]]] \in SortedBy([t \in T |-> t[1]], T)

(* a set and its image under an injection have sorted orders that correspond *)
LEMMA SortedImage ==
    ASSUME NEW n \in Nat, NEW ids \in SUBSET (1 .. n), NEW f, NEW name, NEW T,
           \A x, y \in ids : f[x] = f[y] => x = y,
           \A x \in ids : f[x] \in T /\ f[x][1] = name[x],
           \A t \in T : \E x \in ids : f[x] = t,
           NEW order \in SortedBy(name, ids)
    PROVE  SortsAs(order, ids, f, T)
<1>1. IsFiniteSet(ids)
  <2>1. IsFiniteSet(1 .. n)
      BY FS_Interval
  <2> QED
      BY <2>1, FS_Subset
<1>2. PICK m \in Nat : m = Cardinality(ids)
    BY <1>1, FS_CardinalityType
<1>3. Cardinality(T) = m
  <2> DEFINE g == [x \in ids |-> f[x]]
  <2>1. g \in Injection(ids, T) /\ g \in Surjection(ids, T)
    <3>1. g \in [ids -> T] /\ \A x \in ids : g[x] = f[x]
        OBVIOUS
    <3> HIDE DEF g
    <3> QED
        BY <3>1 DEF Injection, IsInjective, Surjection
  <2>2. ExistsBijection(ids, T)
      BY <2>1 DEF ExistsBijection, Bijection
  <2> QED
      BY <1>1, <1>2, <2>2, FS_Bijection
<1>4. /\ order \in [1 .. m -> ids] /\ \A i, j \in 1 .. m : i # j => order[i] # order[j]
      /\ \A i, j \in 1 .. m : i < j => name[order[i]] <= name[order[j]]
    BY <1>2 DEF SortedBy, SetToSeqs
<1>5. Len(order) = m
    BY <1>4
<1> DEFINE q == [k \in 1 .. m |-> f[order[k]]]
<1>6. q \in [1 .. m -> T] /\ DOMAIN q = 1 .. m
    BY <1>4
<1>7. ASSUME NEW i \in 1 .. m, NEW j \in 1 .. m, i # j PROVE q[i] # q[j]
  <2>1. order[i] \in ids /\ order[j] \in ids /\ order[i] # order[j]
      BY <1>4, <1>7
  <2>2. q[i] = f[order[i]] /\ q[j] = f[order[j]]
      OBVIOUS
  <2>3. PICK x \in ids, y \in ids : x = order[i] /\ y = order[j]
      BY <2>1
  <2>4. f[x] # f[y]
      BY <2>1, <2>3
  <2> HIDE DEF q
  <2> QED
      BY <2>2, <2>3, <2>4
<1>8. \A i \in 1 .. m : [t \in T |-> t[1]][q[i]] = name[order[i]]
    BY <1>4, <1>6
<1> HIDE DEF q
<1>9. q \in SetToSeqs(T)
    BY <1>3, <1>6, <1>7 DEF SetToSeqs
<1>10. q \in SortedBy([t \in T |-> t[1]], T)
    BY <1>4, <1>6, <1>8, <1>9 DEF SortedBy
<1> QED
    BY <1>4, <1>5, <1>10 DEF q, SortsAs

(* the patch at a stop of the walk, as one of a plugin                       *)
Owner(a, stop) == <<NameAt(a, stop[1]), stop[2]>>

(* what a stop of the walk reads is a patch registered by a plugin           *)
LEMMA StopFacts ==
    ASSUME NEW a, NEW shape, Live(a, shape), ~Nameless(a), NEW j \in 1 .. Len(Walk(a)),
           NEW p, NEW k, p = NameAt(a, Walk(a)[j][1]), k = Walk(a)[j][2]
    PROVE  /\ Walk(a)[j] \in Nat \X Nat /\ Walk(a)[j][1] \in Entries(a)
           /\ p \in Plugins /\ k \in DOMAIN Registered(a)[p]
           /\ PatchAtStop(a, Walk(a)[j]) = Registered(a)[p][k]
           /\ Registered(a)[p][k] \in TextPatch
<1>1. Proper(a, shape) /\ MapOK(a, shape) /\ Distinct(a)
    BY DEF Live
<1>2. a.map.count \in Nat /\ Entries(a) = 0 .. a.map.count - 1
    BY LiveCount
<1>3. PICK w \in Seq(Nat \X Nat) : w = Walk(a) /\ Stays(w, a.map.count, Counts(a))
    BY WalkFacts DEF IsWalk
<1>4. PICK i \in Entries(a) : i = w[j][1] /\ k \in 1 .. Values(a)[i].patch_count
  <2>1. w[j][1] \in 0 .. a.map.count - 1 /\ w[j][2] \in 1 .. Counts(a)[w[j][1]]
      BY <1>3 DEF Stays
  <2> QED
      BY <1>2, <1>3, <2>1 DEF Counts
<1>5. p \in Plugins
    BY <1>3, <1>4, NameType DEF Nameless
<1>6. Registered(a)[p] = PatchesOf(a, Values(a)[i])
    BY <1>1, <1>2, <1>3, <1>4, <1>5, RegisteredAt
<1>7. Registered(a)[p] \in Seq(PatchText) /\ Len(Registered(a)[p]) = Values(a)[i].patch_count
    BY <1>1, <1>6, PatchesType
<1>8. k \in DOMAIN Registered(a)[p] /\ Registered(a)[p][k] \in PatchText
    BY <1>4, <1>7
<1>9. PatchAtStop(a, Walk(a)[j]) = Registered(a)[p][k]
    BY <1>3, <1>4, <1>6 DEF PatchAtStop
<1>10. w[j] \in Nat \X Nat
    BY <1>3
<1> QED
    BY <1>3, <1>4, <1>5, <1>8, <1>9, <1>10, TextPatches

(* no patch is met twice                                                     *)
LEMMA StopsDiffer ==
    ASSUME NEW a, NEW shape, Live(a, shape), ~Nameless(a),
           NEW i \in 1 .. Len(Walk(a)), NEW j \in 1 .. Len(Walk(a)),
           Owner(a, Walk(a)[i]) = Owner(a, Walk(a)[j])
    PROVE  i = j
<1> DEFINE x == Walk(a)[i]
           y == Walk(a)[j]
<1>1. x \in Nat \X Nat /\ y \in Nat \X Nat /\ x[1] \in Entries(a) /\ y[1] \in Entries(a)
    BY StopFacts
<1>2. Once(Walk(a))
    BY WalkFacts DEF IsWalk
<1> HIDE DEF x, y
<1>3. NameAt(a, x[1]) = NameAt(a, y[1]) /\ x[2] = y[2]
    BY DEF Owner, x, y
<1>4. x[1] = y[1]
    BY <1>1, <1>3 DEF Live, Distinct, Entries, Nameless
<1>5. x = y
    BY <1>1, <1>3, <1>4
<1> QED
    BY <1>2, <1>5 DEF Once, x, y

(* every patch of a plugin is met                                            *)
LEMMA StopsReach ==
    ASSUME NEW a, NEW shape, Live(a, shape), NEW p \in Plugins, NEW k \in DOMAIN Registered(a)[p]
    PROVE  \E j \in 1 .. Len(Walk(a)) : Owner(a, Walk(a)[j]) = <<p, k>>
<1>1. Proper(a, shape) /\ MapOK(a, shape) /\ Distinct(a)
    BY DEF Live
<1>2. a.map.count \in Nat /\ Entries(a) = 0 .. a.map.count - 1
    BY LiveCount
<1>3. Has(a, p)
  <2>1. ~Has(a, p) => Registered(a)[p] = <<>>
      BY <1>1, <1>2, RegisteredAt
  <2>2. DOMAIN <<>> = {}
      OBVIOUS
  <2> QED
      BY <2>1, <2>2
<1>4. PICK i \in Entries(a) : NameAt(a, i) = p /\ Registered(a)[p] = PatchesOf(a, Values(a)[i])
    BY <1>1, <1>2, <1>3, RegisteredAt
<1>5. k \in 1 .. Counts(a)[i]
  <2>1. Registered(a)[p] \in Seq(PatchText) /\ Len(Registered(a)[p]) = Values(a)[i].patch_count
      BY <1>1, <1>4, PatchesType
  <2> QED
      BY <2>1 DEF Counts
<1>6. Reaches(Walk(a), a.map.count, Counts(a))
    BY WalkFacts DEF IsWalk
<1>7. i \in Nat /\ i < a.map.count
    BY <1>2
<1>8. PICK j \in 1 .. Len(Walk(a)) : Walk(a)[j] = <<i, k>>
    BY <1>5, <1>6, <1>7 DEF Reaches
<1> QED
    BY <1>4, <1>8 DEF Owner

-----------------------------------------------------------------------------
(* The ids of the two walks                                                *)

(* their orders by plugin                                                    *)
Orders(document, patches) ==
    SortedBy([id \in Affected(document, patches) |-> id[1]], Affected(document, patches))

Ids(a, document) == re2_multi_match(get_file_regex_pool(a), document)
NamesOf(a, document) == [i \in Ids(a, document) |-> get_file_regex_pool(a)[i].name]
PatchesFound(a, ids) == [i \in ids |-> find_patch_by_id(a, i)]

(* an id matches if the patch it stands for does                             *)
IdsMatch(a, document, n) ==
    /\ Ids(a, document) \in SUBSET (1 .. n)
    /\ \A i \in 1 .. n :
          i \in Ids(a, document) <=> Owner(a, Walk(a)[i]) \in Affected(document, Registered(a))

(* the second walk finds, under the id, the patch p of a plugin              *)
IdReads(a, document, i, p) ==
    /\ NamesOf(a, document)[i] = p[1] /\ p[1] \in Plugins
    /\ find_patch_by_id(a, i) = Registered(a)[p[1]][p[2]]
    /\ find_patch_by_id(a, i) \in TextPatch

(* the two walks read the same patch of the same plugin under an id          *)
LEMMA IdFacts ==
    ASSUME NEW a, NEW shape, Live(a, shape), ~Nameless(a), NEW document, NEW n \in Nat, n = Len(Walk(a))
    PROVE  /\ IdsMatch(a, document, n)
           /\ \A i \in Ids(a, document) : IdReads(a, document, i, Owner(a, Walk(a)[i]))
<1> DEFINE w == Walk(a)
           pool == get_file_regex_pool(a)
           R == Registered(a)
           U == UNION {{p} \X DOMAIN R[p] : p \in Plugins}
<1>1. Len(pool) = n /\ \A i \in 1 .. n : /\ pool[i].name = NameAt(a, w[i][1])
                                        /\ pool[i].file = PatchAtStop(a, w[i]).file
  <2> DEFINE row(i) == [name |-> NameAt(a, w[i][1]), file |-> PatchAtStop(a, w[i]).file]
  <2>1. pool = [i \in 1 .. n |-> row(i)]
      BY DEF get_file_regex_pool
  <2>2. \A i : row(i).name = NameAt(a, w[i][1]) /\ row(i).file = PatchAtStop(a, w[i]).file
      OBVIOUS
  <2> HIDE DEF row, pool
  <2>3. Len(pool) = n /\ \A i \in 1 .. n : pool[i] = row(i)
      BY <2>1
  <2> QED
      BY <2>2, <2>3
<1> HIDE DEF pool
<1>2. Ids(a, document) = {i \in 1 .. n : /\ \A j \in 1 .. n : pool[j].file \notin Rejected
                                        /\ Places(document, pool[i].file) # {}}
    BY <1>1 DEF Ids, re2_multi_match, pool
<1>3. ASSUME NEW i \in 1 .. n, NEW p, NEW k, p = NameAt(a, w[i][1]), k = w[i][2]
      PROVE  /\ Owner(a, w[i]) = <<p, k>> /\ p \in Plugins /\ k \in DOMAIN R[p]
             /\ PatchAtStop(a, w[i]) = R[p][k] /\ R[p][k] \in TextPatch /\ pool[i].name = p
             /\ pool[i].file = R[p][k].file
  <2>1. /\ p \in Plugins /\ k \in DOMAIN R[p] /\ PatchAtStop(a, w[i]) = R[p][k]
        /\ R[p][k] \in TextPatch
      BY <1>3, StopFacts
  <2> QED
      BY <1>1, <1>3, <2>1 DEF Owner
<1>6. ASSUME NEW p \in Plugins, NEW k \in DOMAIN R[p]
      PROVE  \E i \in 1 .. n : pool[i].file = R[p][k].file
  <2>1. PICK i \in 1 .. n : Owner(a, w[i]) = <<p, k>>
      BY StopsReach
  <2>2. NameAt(a, w[i][1]) = p /\ w[i][2] = k
      BY <2>1 DEF Owner
  <2> QED
      BY <1>3, <2>2
<1> HIDE DEF w, R
<1>7. (\A j \in 1 .. n : pool[j].file \notin Rejected)
        <=> (\A id \in U : R[id[1]][id[2]].file \notin Rejected)
  <2>1. ASSUME NEW j \in 1 .. n, pool[j].file \in Rejected
        PROVE  \E id \in U : R[id[1]][id[2]].file \in Rejected
    <3>1. PICK p, k : p = NameAt(a, w[j][1]) /\ k = w[j][2]
        OBVIOUS
    <3>2. p \in Plugins /\ k \in DOMAIN R[p] /\ R[p][k].file \in Rejected
        BY <1>3, <2>1, <3>1
    <3>3. <<p, k>> \in {p} \X DOMAIN R[p] /\ <<p, k>>[1] = p /\ <<p, k>>[2] = k
        BY <3>2
    <3>4. <<p, k>> \in U
        BY <3>2, <3>3
    <3> QED
        BY <3>2, <3>3, <3>4
  <2>2. ASSUME NEW id \in U, R[id[1]][id[2]].file \in Rejected
        PROVE  \E j \in 1 .. n : pool[j].file \in Rejected
    <3>1. PICK p \in Plugins : id \in {p} \X DOMAIN R[p]
        OBVIOUS
    <3>2. id[1] = p /\ id[2] \in DOMAIN R[p]
        BY <3>1
    <3>3. PICK k \in DOMAIN R[p] : k = id[2] /\ R[p][k].file \in Rejected
        BY <2>2, <3>2
    <3>4. PICK j \in 1 .. n : pool[j].file = R[p][k].file
        BY <1>6
    <3> QED
        BY <3>3, <3>4
  <2> QED
      BY <2>1, <2>2
<1>4. ASSUME NEW i \in 1 .. n
      PROVE  i \in Ids(a, document) <=> Owner(a, w[i]) \in Affected(document, R)
  <2>1. PICK p, k : p = NameAt(a, w[i][1]) /\ k = w[i][2]
      OBVIOUS
  <2>2. <<p, k>> \in U /\ <<p, k>>[1] = p /\ <<p, k>>[2] = k
    <3>1. <<p, k>> \in {p} \X DOMAIN R[p] /\ p \in Plugins
        BY <1>3, <2>1
    <3> QED
        BY <3>1
  <2>3. <<p, k>> \in Affected(document, R) <=>
             /\ \A id \in U : R[id[1]][id[2]].file \notin Rejected
             /\ Places(document, R[p][k].file) # {}
      BY <2>2 DEF Affected
  <2> HIDE DEF U
  <2>4. i \in Ids(a, document) <=>
             /\ \A j \in 1 .. n : pool[j].file \notin Rejected
             /\ Places(document, R[p][k].file) # {}
      BY <1>2, <1>3, <2>1
  <2>5. Owner(a, w[i]) = <<p, k>>
      BY <1>3, <2>1
  <2> QED
      BY <1>7, <2>3, <2>4, <2>5
<1>5. ASSUME NEW i \in Ids(a, document), NEW p, p = Owner(a, w[i])
      PROVE  IdReads(a, document, i, p)
  <2>1. i \in 1 .. n
      BY <1>2
  <2>2. find_patch_by_id(a, i) = PatchAtStop(a, w[i])
      BY <2>1 DEF find_patch_by_id, w
  <2>3. NamesOf(a, document)[i] = pool[i].name
      BY DEF NamesOf, pool
  <2>4. PICK x, k : x = NameAt(a, w[i][1]) /\ k = w[i][2]
      OBVIOUS
  <2>5. p = <<x, k>> /\ p[1] = x /\ p[2] = k
      BY <1>3, <1>5, <2>1, <2>4
  <2> QED
      BY <1>3, <2>1, <2>2, <2>3, <2>4, <2>5 DEF IdReads, R
<1> QED
    BY <1>2, <1>4, <1>5 DEF w, R, IdsMatch

(* an order of the ids by name carries out an order of the patches by plugin *)
LEMMA PatchedInOrder ==
    ASSUME NEW a, NEW shape, Live(a, shape), ~Nameless(a), NEW document \in Text,
           NEW ids, ids = Ids(a, document), NEW order \in SortedBy(NamesOf(a, document), ids)
    PROVE  \E q \in Orders(document, Registered(a)) :
               /\ handle_file_patches(document, order, PatchesFound(a, ids), NamesOf(a, document))
                    = EditedInOrder(document, q, Registered(a))
               /\ ids = {} => EditedInOrder(document, q, Registered(a)) = document
<1> DEFINE w == Walk(a)
           R == Registered(a)
           T == Affected(document, R)
           N == NamesOf(a, document)
           P == PatchesFound(a, ids)
<1>1. PICK n \in Nat : n = Len(w)
  <2>1. w \in Seq(Nat \X Nat)
      BY WalkFacts DEF IsWalk
  <2> QED
      BY <2>1
<1> DEFINE f == [i \in 1 .. n |-> Owner(a, w[i])]
<1>2. ids \in SUBSET (1 .. n) /\ \A i \in 1 .. n : i \in ids <=> f[i] \in T
  <2>1. \A i \in 1 .. n : f[i] = Owner(a, w[i])
      OBVIOUS
  <2>2. IdsMatch(a, document, n)
      BY <1>1, IdFacts
  <2> HIDE DEF f
  <2> QED
      BY <2>1, <2>2 DEF IdsMatch
<1>3. ASSUME NEW i \in ids
      PROVE  /\ f[i][1] = N[i] /\ N[i] \in Plugins /\ P[i] \in TextPatch
             /\ R[f[i][1]][f[i][2]] = P[i]
  <2>1. PICK p : p = Owner(a, w[i]) /\ p = f[i]
      BY <1>2
  <2>2. IdReads(a, document, i, p)
      BY <1>1, <2>1, IdFacts
  <2>3. P[i] = find_patch_by_id(a, i)
      BY DEF PatchesFound
  <2>4. /\ N[i] = p[1] /\ p[1] \in Plugins /\ find_patch_by_id(a, i) = R[p[1]][p[2]]
        /\ find_patch_by_id(a, i) \in TextPatch
      BY <2>2 DEF IdReads
  <2> HIDE DEF P, N, R, f
  <2> QED
      BY <2>1, <2>3, <2>4
<1>4. \A x, y \in ids : f[x] = f[y] => x = y
  <2>1. ASSUME NEW x \in 1 .. n, NEW y \in 1 .. n, f[x] = f[y] PROVE x = y
      BY <1>1, <2>1, StopsDiffer
  <2> QED
      BY <1>2, <2>1
<1>5. ASSUME NEW t \in T PROVE \E x \in ids : f[x] = t
  <2>1. PICK p \in Plugins : \E k \in DOMAIN R[p] : t = <<p, k>>
      BY DEF Affected
  <2>2. PICK k \in DOMAIN R[p] : t = <<p, k>>
      BY <2>1
  <2>3. PICK j \in 1 .. n : Owner(a, w[j]) = t
      BY <1>1, <2>2, StopsReach
  <2>4. f[j] = t
      BY <2>3
  <2> HIDE DEF f
  <2> QED
      BY <1>2, <2>3, <2>4
<1> HIDE DEF w, R, T, N, P, f
<1> DEFINE q == [k \in 1 .. Len(order) |-> f[order[k]]]
<1>6. order \in SortedBy(N, ids)
    BY DEF N
<1>7. /\ Len(order) \in Nat /\ (\A k \in 1 .. Len(order) : order[k] \in ids)
      /\ q \in SortedBy([t \in T |-> t[1]], T)
  <2>1. \A x \in ids : f[x] \in T /\ f[x][1] = N[x]
      BY <1>2, <1>3
  <2>2. SortsAs(order, ids, f, T)
      BY <1>2, <1>4, <1>5, <1>6, <2>1, SortedImage
  <2> QED
      BY <2>2 DEF SortsAs
<1>8. Len(q) = Len(order) /\ \A k \in 1 .. Len(order) : q[k] = f[order[k]]
  <2> DEFINE m == Len(order)
  <2>1. m \in Nat /\ q = [k \in 1 .. m |-> f[order[k]]]
      BY <1>7
  <2> HIDE DEF m
  <2>2. Len(q) = m
      BY <2>1
  <2> QED
      BY <2>2 DEF m
<1>9. q \in Orders(document, Registered(a))
    BY <1>7 DEF Orders, T, R
<1> HIDE DEF q
<1>10. \A k \in 1 .. Len(order) : /\ P[order[k]] \in TextPatch /\ N[order[k]] \in Plugins
                                  /\ q[k][1] = N[order[k]]
                                  /\ R[q[k][1]][q[k][2]] = P[order[k]]
    BY <1>3, <1>7, <1>8
<1>11. /\ handle_file_patches(document, order, P, N) = EditedInOrder(document, q, R)
       /\ Len(order) = 0 => EditedInOrder(document, q, R) = document
    BY <1>7, <1>8, <1>10, HandledInOrder
<1>12. ids = {} => Len(order) = 0
  <2>1. ASSUME Len(order) # 0 PROVE 1 \in 1 .. Len(order)
      BY <1>7, <2>1
  <2> QED
      BY <1>7, <2>1
<1> QED
    BY <1>9, <1>11, <1>12 DEF P, N, R

-----------------------------------------------------------------------------
(* The call of the hook                                                    *)

(* What the hook holds, as long as the arena is left alone, is what it would *)
(* read from the arena now.                                                  *)
HookIdle(r) == r = [phase |-> "idle", clean |-> r.clean]
HookMatched(r, a) ==
    /\ r = [phase |-> "matched", clean |-> r.clean, document |-> r.document, names |-> r.names]
    /\ r.document \in Documents
    /\ r.clean => r.names = NamesOf(a, r.document)
HookDone(r, a) ==
    LET d == r.document
        ids == Ids(a, d)
    IN  /\ r = [phase |-> "done", clean |-> r.clean, document |-> d, out |-> r.out]
        /\ d \in Documents
        /\ r.clean =>
              \/ ids = {} /\ r.out = d
              \/ \E order \in SortedBy(NamesOf(a, d), ids) :
                     r.out = handle_file_patches(d, order, PatchesFound(a, ids), NamesOf(a, d))
ReaderOK == HookIdle(reader) \/ HookMatched(reader, arena) \/ HookDone(reader, arena)

(* what the loader does meanwhile is seen in clean only                      *)
LEMMA LoaderKeepsReader ==
    ASSUME ReaderOK, LoaderStep
    PROVE  ReaderOK'
<1> DEFINE c == (reader.clean /\ Inside' = {} /\ arena' = arena)
<1>1. reader' = [reader EXCEPT !.clean = c]
    BY DEF LoaderStep
<1>2. c => reader.clean /\ arena' = arena
    OBVIOUS
<1> HIDE DEF c
<1>3. CASE HookIdle(reader)
    BY <1>1, <1>3 DEF HookIdle, ReaderOK
<1>4. CASE HookMatched(reader, arena)
  <2>1. /\ reader' = [phase |-> "matched", clean |-> c, document |-> reader.document,
                      names |-> reader.names]
      BY <1>1, <1>4 DEF HookMatched
  <2>2. HookMatched(reader', arena')
      BY <1>2, <1>4, <2>1 DEF HookMatched
  <2> QED
      BY <2>2 DEF ReaderOK
<1>5. CASE HookDone(reader, arena)
  <2>1. /\ reader' = [phase |-> "done", clean |-> c, document |-> reader.document,
                      out |-> reader.out]
      BY <1>1, <1>5 DEF HookDone
  <2>2. /\ reader'.clean = c /\ reader'.document = reader.document /\ reader'.out = reader.out
        /\ reader' = [phase |-> "done", clean |-> reader'.clean, document |-> reader'.document,
                      out |-> reader'.out]
      BY <2>1
  <2>3. HookDone(reader', arena')
      BY <1>2, <1>5, <2>2 DEF HookDone
  <2> QED
      BY <2>3 DEF ReaderOK
<1> QED
    BY <1>3, <1>4, <1>5 DEF ReaderOK

(* the steps of the hook                                                     *)
LEMMA MatchKeepsReader ==
    ASSUME NEW document \in Documents, MatchFiles(document)
    PROVE  ReaderOK'
<1> DEFINE ids == Ids(arena, document)
           N == NamesOf(arena, document)
           c == (Inside = {})
<1>1. /\ arena' = arena
      /\ reader' = IF ids = {}
                   THEN [phase |-> "done", clean |-> c, document |-> document, out |-> document]
                   ELSE [phase |-> "matched", clean |-> c, document |-> document, names |-> N]
    BY DEF MatchFiles, vars, arenaVars, Ids, NamesOf
<1> HIDE DEF N, c
<1>2. CASE ids = {}
  <2>1. reader' = [phase |-> "done", clean |-> c, document |-> document, out |-> document]
      BY <1>1, <1>2
  <2>2. /\ reader'.document = document /\ reader'.out = document
        /\ reader' = [phase |-> "done", clean |-> reader'.clean, document |-> reader'.document,
                      out |-> reader'.out]
      BY <2>1
  <2>3. HookDone(reader', arena')
      BY <1>1, <1>2, <2>2 DEF HookDone
  <2> QED
      BY <2>3 DEF ReaderOK
<1>3. CASE ids # {}
  <2>1. reader' = [phase |-> "matched", clean |-> c, document |-> document, names |-> N]
      BY <1>1, <1>3
  <2>2. /\ reader'.document = document /\ reader'.names = N
        /\ reader' = [phase |-> "matched", clean |-> reader'.clean, document |-> reader'.document,
                      names |-> reader'.names]
      BY <2>1
  <2>3. HookMatched(reader', arena')
      BY <1>1, <2>2 DEF HookMatched, N
  <2> QED
      BY <2>3 DEF ReaderOK
<1> QED
    BY <1>2, <1>3

(* the edits are made of what the first walk found and the second one reads  *)
LEMMA PatchKeepsReader ==
    ASSUME ReaderOK, PatchFile
    PROVE  ReaderOK'
<1> DEFINE d == reader.document
           N == reader.names
           P == PatchesFound(arena, DOMAIN N)
<1>1. reader.phase = "matched" /\ arena' = arena
    BY DEF PatchFile, vars, arenaVars
<1>2. PICK order \in SortedBy(N, DOMAIN N) :
          reader' = [phase |-> "done", clean |-> reader.clean, document |-> d,
                     out |-> handle_file_patches(d, order, P, N)]
    BY DEF PatchFile, PatchesFound
<1>3. HookMatched(reader, arena)
  <2>1. ASSUME HookIdle(reader) PROVE FALSE
      BY <1>1, <2>1 DEF HookIdle
  <2>2. ASSUME HookDone(reader, arena) PROVE FALSE
    <3>1. reader = [phase |-> "done", clean |-> reader.clean, document |-> d, out |-> reader.out]
        BY <2>2 DEF HookDone
    <3> QED
        BY <1>1, <3>1
  <2> QED
      BY <2>1, <2>2 DEF ReaderOK
<1>4. d \in Documents /\ (reader.clean => N = NamesOf(arena, d))
    BY <1>3 DEF HookMatched
<1>5. reader.clean => DOMAIN N = Ids(arena, d)
    BY <1>4 DEF NamesOf
<1> DEFINE out == handle_file_patches(d, order, P, N)
<1>6. reader' = [phase |-> "done", clean |-> reader.clean, document |-> d, out |-> out]
    BY <1>2
<1> HIDE DEF out, d, N
<1>7. /\ reader'.document = d /\ reader'.out = out /\ reader'.clean = reader.clean
      /\ reader' = [phase |-> "done", clean |-> reader'.clean, document |-> reader'.document,
                    out |-> reader'.out]
    BY <1>6
<1>8. ASSUME reader.clean
      PROVE  \E o \in SortedBy(NamesOf(arena, d), Ids(arena, d)) :
                 out = handle_file_patches(d, o, PatchesFound(arena, Ids(arena, d)), NamesOf(arena, d))
    BY <1>2, <1>4, <1>5, <1>8 DEF out
<1>9. HookDone(reader', arena')
    BY <1>1, <1>4, <1>7, <1>8 DEF HookDone
<1> QED
    BY <1>9 DEF ReaderOK

(* an empty set has an order                                                 *)
LEMMA NothingSorted ==
    ASSUME NEW name
    PROVE  SortedBy(name, {}) # {}
<1>1. Cardinality({}) = 0
    BY FS_EmptySet
<1> DEFINE o == [k \in 1 .. 0 |-> 0]
<1>2. o \in [1 .. 0 -> {}] /\ DOMAIN o = 1 .. 0 /\ 1 .. 0 = {}
    OBVIOUS
<1> HIDE DEF o
<1>3. o \in SetToSeqs({})
    BY <1>1, <1>2 DEF SetToSeqs
<1>4. o \in SortedBy(name, {})
    BY <1>2, <1>3 DEF SortedBy
<1> QED
    BY <1>4

(* what the invariant says of a document that is served                      *)
LEMMA ServedAsSent ==
    ASSUME Handled, HoldsWhatWasSent, ReaderOK
    PROVE  PatchedAsSent
<1> SUFFICES ASSUME reader.phase = "done", reader.clean, ~overlapped, ~refused
             PROVE  \E q \in Orders(reader.document, sent) :
                        reader.out = EditedInOrder(reader.document, q, sent)
    BY DEF PatchedAsSent, Orders
<1> DEFINE d == reader.document
           ids == Ids(arena, d)
<1>1. PICK shape : Live(arena, shape)
    BY DEF Handled, ArenaOK
<1>2. ~Nameless(arena) /\ Registered(arena) = sent
    BY DEF Handled, ArenaOK, Named, HoldsWhatWasSent
<1>3. HookDone(reader, arena)
  <2>1. ASSUME HookIdle(reader) PROVE FALSE
      BY <2>1 DEF HookIdle
  <2>2. ASSUME HookMatched(reader, arena) PROVE FALSE
    <3>1. reader = [phase |-> "matched", clean |-> reader.clean, document |-> d, names |-> reader.names]
        BY <2>2 DEF HookMatched
    <3> QED
        BY <3>1
  <2> QED
      BY <2>1, <2>2 DEF ReaderOK
<1>4. d \in Text
    BY <1>3, TextFacts DEF HookDone
<1>5. CASE \E order \in SortedBy(NamesOf(arena, d), ids) :
              reader.out = handle_file_patches(d, order, PatchesFound(arena, ids), NamesOf(arena, d))
  <2>1. PICK order \in SortedBy(NamesOf(arena, d), ids) :
            reader.out = handle_file_patches(d, order, PatchesFound(arena, ids), NamesOf(arena, d))
      BY <1>5
  <2> HIDE DEF d, ids
  <2>2. PICK q \in Orders(d, Registered(arena)) :
            handle_file_patches(d, order, PatchesFound(arena, ids), NamesOf(arena, d))
               = EditedInOrder(d, q, Registered(arena))
      BY <1>1, <1>2, <1>4, PatchedInOrder DEF ids
  <2> QED
      BY <1>2, <2>1, <2>2 DEF d
<1>6. CASE ids = {} /\ reader.out = d
  <2>1. PICK order \in SortedBy(NamesOf(arena, d), ids) : TRUE
      BY <1>6, NothingSorted
  <2> HIDE DEF d, ids
  <2>2. PICK q \in Orders(d, Registered(arena)) :
            ids = {} => EditedInOrder(d, q, Registered(arena)) = d
      BY <1>1, <1>2, <1>4, PatchedInOrder DEF ids
  <2> QED
      BY <1>2, <1>6, <2>2 DEF d
<1> QED
    BY <1>3, <1>5, <1>6 DEF HookDone

(* the hook keeps its invariant, whatever the loader does                   *)
LEMMA ReaderAlways == PatcherSpec => []ReaderOK
<1>1. PatcherInit => ReaderOK
    BY DEF PatcherInit, Quiet, ReaderOK, HookIdle
<1>2. ReaderOK /\ [PatcherNext]_patcherVars => ReaderOK'
  <2> SUFFICES ASSUME ReaderOK, [PatcherNext]_patcherVars PROVE ReaderOK'
      OBVIOUS
  <2>1. CASE LoaderStep
      BY <2>1, LoaderKeepsReader
  <2>2. CASE \E document \in Documents : MatchFiles(document)
      BY <2>2, MatchKeepsReader
  <2>3. CASE PatchFile
      BY <2>3, PatchKeepsReader
  <2>4. CASE Served
      BY <2>4 DEF Served, Quiet, ReaderOK, HookIdle
  <2>5. CASE UNCHANGED patcherVars
      BY <2>5 DEF patcherVars, vars, arenaVars, ReaderOK
  <2>6. CASE \E document, out \in Documents : ReadRaced(document, out)
    <3>1. PICK document \in Documents, out \in Documents : ReadRaced(document, out)
        BY <2>6
    <3>2. /\ reader' = [phase |-> "done", clean |-> FALSE, document |-> document, out |-> out]
          /\ reader'.clean = FALSE /\ reader'.document = document /\ reader'.out = out
        BY <3>1 DEF ReadRaced
    <3>3. HookDone(reader', arena')
        BY <3>2 DEF HookDone
    <3> QED
        BY <3>3 DEF ReaderOK
  <2> QED
      BY <2>1, <2>2, <2>3, <2>4, <2>5, <2>6 DEF PatcherNext
<1> QED
    BY <1>1, <1>2, PTL DEF PatcherSpec

(* For every content of the documents, every limit on their size and every   *)
(* set of messages: a document the hook reads while no thread of the loader  *)
(* is in the arena's code, no two have met there before and no allocation    *)
(* has failed is the one that the patches sent by the children make of it,   *)
(* carried out one after the other for the plugins in alphabetical order; a  *)
(* file pattern that RE2 rejects takes all of them out of effect.  The ids   *)
(* of get_file_regex_pool() lead                                             *)
(* find_patch_by_id() to the same patches, none is lost or met twice, and    *)
(* the moving end of the region cuts out what the find pattern matched.      *)
THEOREM DocumentsArePatchedAsSent == PatcherSpec => []PatchedAsSent
<1>1. PatcherSpec => [](Handled /\ HoldsWhatWasSent)
    BY HookOnlyReads, HandledAlways, PTL
<1>2. Handled /\ HoldsWhatWasSent /\ ReaderOK => PatchedAsSent
    BY ServedAsSent
<1> QED
    BY <1>1, <1>2, ReaderAlways, PTL
=============================================================================
