-------------------------- MODULE LoopbackPatcher --------------------------
(***************************************************************************)
(* The loopback hook in the web helper (src/instrumentation/loopback):     *)
(* find_file_matches() opens the arena of PatchArena, walks it once for    *)
(* the 'file' patterns, once more for what the matching patches do, and    *)
(* edits a copy of the requested document.  The web helper is another      *)
(* process: the loader may change the arena between the two walks, and in  *)
(* the midst of one (clean says that it has not).                          *)
(*                                                                         *)
(* A text is a sequence of tokens and a pattern stands for itself, found   *)
(* where RE2 finds it first, or is one that RE2 rejects (Rejected); the    *)
(* rewrite references of a replacement are left out.  The limits on counts (100000 patterns, a million pool        *)
(* entries) are beyond what an arena of 1 MiB can hold.                    *)
(***************************************************************************)
EXTENDS PatchArena, SequencesExt

CONSTANTS
    Documents,      \* contents of the files that are requested
    MaxFileSize,    \* MAX_FILE_SIZE
    Rejected,       \* the texts that are no regular expressions
    Self            \* the placeholder of a replacement, one token

\* Texts are sequences; find_file_matches() rejects larger documents at once.
ASSUME TextsAssumption == \A s \in Strings \cup Documents : s = [i \in 1 .. Len(s) |-> s[i]]
ASSUME DocumentsAssumption ==
    MaxFileSize \in Nat /\ \A d \in Documents : Len(d) \in 0 .. MaxFileSize

ASSUME RejectedAssumption == Rejected \subseteq Strings \ {EmptyString}

VARIABLE reader     \* the call of find_file_matches()

Quiet == [phase |-> "idle", clean |-> TRUE]

-----------------------------------------------------------------------------
(* RE2 on texts that stand for themselves.                                 *)

\* A pattern that RE2 rejects is found nowhere, with a message in the log.
OccursAt(text, pattern, k) ==
    /\ pattern \notin Rejected
    /\ k + Len(pattern) - 1 <= Len(text)
    /\ SubSeq(text, k, k + Len(pattern) - 1) = pattern

Places(text, pattern) == {k \in 1 .. Len(text) + 1 : OccursAt(text, pattern, k)}

\* RE2::GlobalReplace(): matches do not overlap; an empty pattern matches
\* between all tokens.
GlobalReplace(text, pattern, new) ==
    LET from[k \in 1 .. Len(text) + 1] ==
            IF pattern = <<>>
            THEN new \o (IF k > Len(text) THEN <<>> ELSE <<text[k]>> \o from[k + 1])
            ELSE IF k > Len(text) THEN <<>>
            ELSE IF OccursAt(text, pattern, k) THEN new \o from[k + Len(pattern)]
            ELSE <<text[k]>> \o from[k + 1]
    IN  from[1]

-----------------------------------------------------------------------------
(* The two walks of the arena.                                             *)

\* Entry by entry and patch by patch: <<i, k>> is patch k of entry i.
Walk(a) ==
    FlattenSeq([i \in 1 .. a.map.count |->
                   [k \in 1 .. Values(a)[i - 1].patch_count |-> <<i - 1, k>>]])

PatchAtStop(a, stop) == PatchesOf(a, Values(a)[stop[1]])[stop[2]]

\* get_file_regex_pool()
get_file_regex_pool(a) ==
    [i \in 1 .. Len(Walk(a)) |->
        [name |-> NameAt(a, Walk(a)[i][1]), file |-> PatchAtStop(a, Walk(a)[i]).file]]

\* re2_multi_match(): the patterns are tried on the content of the file.  One
\* that RE2 rejects makes the call fail, for the patches of all plugins.
re2_multi_match(pool, document) ==
    {i \in 1 .. Len(pool) :
        /\ \A j \in 1 .. Len(pool) : pool[j].file \notin Rejected
        /\ Places(document, pool[i].file) # {}}

\* find_patch_by_id() counts through the entries again.
find_patch_by_id(a, id) ==
    IF id <= Len(Walk(a)) THEN PatchAtStop(a, Walk(a)[id])
    ELSE [file |-> EmptyString, find |-> EmptyString, transforms |-> <<>>]

-----------------------------------------------------------------------------
(* The edits.                                                              *)

\* preprocess_replacement(): the first placeholder becomes the plugin.
preprocess_replacement(text, name) ==
    LET places == {i \in DOMAIN text : text[i] = Self}
    IN  IF places = {} THEN text ELSE ReplaceAt(text, Min(places), name)

\* apply_scoped_substitution() of the region [from, to); the buffer stays
\* as it is when nothing matches or the result would be too large.
apply_scoped_substitution(buffer, from, to, match, new) ==
    LET region == SubSeq(buffer, from, to - 1)
        result == SubSeq(buffer, 1, from - 1) \o GlobalReplace(region, match, new)
                      \o SubSeq(buffer, to, Len(buffer))
    IN  IF Places(region, match) = {} \/ Len(result) > MaxFileSize THEN buffer ELSE result

\* Variant of apply_transform_set_scoped(): the end of the region is fixed.
apply_transform_set_fixed(buffer, from, to, transforms, name) ==
    LET done[k \in 0 .. Len(transforms)] ==
            IF k = 0 THEN buffer
            ELSE apply_scoped_substitution(done[k - 1], from, to, transforms[k].match,
                     preprocess_replacement(transforms[k].replace, name))
    IN  done[Len(transforms)]

\* apply_transform_set_scoped(): done[k] is the buffer after k transforms, and
\* the end of the region, which moves with the size.
apply_transform_set_scoped(buffer, from, to, transforms, name) ==
    LET done[k \in 0 .. Len(transforms)] ==
            IF k = 0 THEN [buffer |-> buffer, to |-> to]
            ELSE LET s == done[k - 1]
                     b == apply_scoped_substitution(s.buffer, from, s.to, transforms[k].match,
                              preprocess_replacement(transforms[k].replace, name))
                 IN  [buffer |-> b, to |-> s.to + Len(b) - Len(s.buffer)]
    IN  done[Len(transforms)].buffer

\* One round of the loop of handle_file_patches(): the find pattern is run
\* on what the earlier plugins have made of the document.
ApplyPatch(buffer, patch, name) ==
    IF patch.find = EmptyString \/ Places(buffer, patch.find) = {} THEN buffer
    ELSE LET from == Min(Places(buffer, patch.find))
         IN  apply_transform_set_scoped(buffer, from, from + Len(patch.find),
                                        patch.transforms, name)

\* std::sort() by name: the order within a plugin is not determined.
SortedBy(name, ids) ==
    {order \in SetToSeqs(ids) :
        \A i, j \in DOMAIN order : i < j => name[order[i]] <= name[order[j]]}

\* The loop of handle_file_patches(): buffer[k] is the document after k rounds.
handle_file_patches(document, order, patch, name) ==
    LET buffer[k \in 0 .. Len(order)] ==
            IF k = 0 THEN document
            ELSE ApplyPatch(buffer[k - 1], patch[order[k]], name[order[k]])
    IN  buffer[Len(order)]

-----------------------------------------------------------------------------

\* sopen(), get_file_regex_pool() and re2_multi_match(); the document is
\* served as it is when the call fails or nothing matches.
MatchFiles(document) ==
    /\ reader.phase = "idle" /\ ~overlapped
    /\ LET pool == get_file_regex_pool(arena)
           ids == re2_multi_match(pool, document)
       IN  reader' = IF ids = {}
                     THEN [phase |-> "done", clean |-> Inside = {}, document |-> document,
                           out |-> document]
                     ELSE [phase |-> "matched", clean |-> Inside = {}, document |-> document,
                           names |-> [i \in ids |-> pool[i].name]]
    /\ UNCHANGED vars

\* get_transform_from_matches() and the rest of handle_file_patches()
PatchFile ==
    /\ reader.phase = "matched" /\ ~overlapped
    /\ LET patch == [i \in DOMAIN reader.names |-> find_patch_by_id(arena, i)]
       IN  \E order \in SortedBy(reader.names, DOMAIN reader.names) :
               reader' = [phase |-> "done", clean |-> reader.clean, document |-> reader.document,
                          out |-> handle_file_patches(reader.document, order, patch, reader.names)]
    /\ UNCHANGED vars

\* A walk through an arena in which threads have met gives anything.
ReadRaced(document, out) ==
    /\ reader.phase \in {"idle", "matched"} /\ overlapped
    /\ reader' = [phase |-> "done", clean |-> FALSE, document |-> document, out |-> out]
    /\ UNCHANGED vars

\* The document goes to the browser.
Served ==
    /\ reader.phase = "done"
    /\ reader' = Quiet
    /\ UNCHANGED vars

\* A thread of the loader that is in the arena's code changes it at any time.
LoaderStep ==
    /\ Next
    /\ reader' = [reader EXCEPT !.clean = @ /\ Inside' = {} /\ arena' = arena]

PatcherInit == Init /\ reader = Quiet
PatcherNext ==
    \/ LoaderStep
    \/ \E document \in Documents : MatchFiles(document)
    \/ PatchFile
    \/ \E document, out \in Documents : ReadRaced(document, out)
    \/ Served

patcherVars == <<vars, reader>>
PatcherSpec == PatcherInit /\ [][PatcherNext]_patcherVars

-----------------------------------------------------------------------------
(* Properties.                                                             *)

\* A text edited by itself, as long as it fits with what is around it.
EditedAlone(text, around, transforms, name) ==
    LET edited[k \in 0 .. Len(transforms)] ==
            IF k = 0 THEN text
            ELSE LET new == GlobalReplace(edited[k - 1], transforms[k].match,
                                preprocess_replacement(transforms[k].replace, name))
                 IN  IF Len(new) + around > MaxFileSize THEN edited[k - 1] ELSE new
    IN  edited[Len(transforms)]

\* What a patch does by its description: the first place of its find
\* pattern is cut out, edited by itself, and put back.
Edited(document, patch, name) ==
    LET places == Places(document, patch.find)
        from == Min(places)
        before == SubSeq(document, 1, from - 1)
        after == SubSeq(document, from + Len(patch.find), Len(document))
    IN  IF patch.find = EmptyString \/ places = {} THEN document
        ELSE before \o EditedAlone(patch.find, Len(before) + Len(after), patch.transforms, name)
                 \o after

\* The document after the patches of plugins, given as pairs <<p, i>>.
EditedInOrder(document, order, patches) ==
    LET edited[k \in 0 .. Len(order)] ==
            IF k = 0 THEN document
            ELSE Edited(edited[k - 1], patches[order[k][1]][order[k][2]], order[k][1])
    IN  edited[Len(order)]

\* The patches whose file pattern occurs in a document, given as pairs <<p, i>>;
\* none if there is a file pattern that RE2 rejects.
Affected(document, patches) ==
    LET all == UNION {{p} \X DOMAIN patches[p] : p \in Plugins}
        file(id) == patches[id[1]][id[2]].file
    IN  {id \in all : /\ \A other \in all : file(other) \notin Rejected
                      /\ Places(document, file(id)) # {}}

(* A document that was read while no thread of the loader was in the        *)
(* arena's code is the one in which the patches sent by the children, of    *)
(* the plugins in alphabetical order, have been carried out one after the   *)
(* other: the indices of the two walks, the sorting and the moving end of   *)
(* the region lose and mix up nothing.  A patch with a find or match        *)
(* pattern that RE2 rejects does nothing there, and one with such a file    *)
(* pattern takes all patches of all plugins out of effect.                  *)
PatchedAsSent ==
    reader.phase = "done" /\ reader.clean /\ ~overlapped /\ ~refused =>
        LET ids == Affected(reader.document, sent)
        IN  \E order \in SortedBy([id \in ids |-> id[1]], ids) :
                reader.out = EditedInOrder(reader.document, order, sent)
=============================================================================
