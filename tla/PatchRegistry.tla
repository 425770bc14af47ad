--------------------------- MODULE PatchRegistry ---------------------------
(***************************************************************************)
(* What the table of patches promises to the loopback hook, whatever its   *)
(* layout in shared memory: every plugin has a list of patches, a patch    *)
(* has a list of transforms, lists grow at their end only, and a change    *)
(* for one plugin leaves the lists of the others alone.  The promise ends  *)
(* when the table breaks: nothing is said of it from then on.              *)
(***************************************************************************)
EXTENDS Naturals, Sequences

CONSTANT Plugins    \* the plugins that may have patches

VARIABLES
    registry,   \* plugin -> sequence of patches
    intact      \* the table has not broken

Init == registry = [p \in Plugins |-> <<>>] /\ intact = TRUE

\* The list of p becomes new, every other list stays.
Becomes(p, new) == registry' = [registry EXCEPT ![p] = new]

\* One more patch, still without transforms.
AddPatch(p) ==
    LET old == registry[p]
        new == registry'[p]
    IN  /\ Len(new) = Len(old) + 1
        /\ new[Len(new)].transforms = <<>>
        /\ Becomes(p, Append(old, new[Len(new)]))

\* One more transform of the last patch.
AddTransform(p) ==
    LET old == registry[p]
        new == registry'[p]
        last == new[Len(new)].transforms
    IN  /\ old # <<>> /\ Len(new) = Len(old)
        /\ last # <<>>
        /\ Becomes(p, [old EXCEPT ![Len(old)].transforms = Append(@, last[Len(last)])])

Clear(p) == Becomes(p, <<>>)

Change == \E p \in Plugins : AddPatch(p) \/ AddTransform(p) \/ Clear(p)

Break == intact' = FALSE

Next == (intact /\ intact' /\ registry' # registry /\ Change) \/ Break

Spec == Init /\ [][Next]_<<registry, intact>>
=============================================================================
