-------------------------- MODULE MCLoopbackPatcher --------------------------
(* Texts of up to two tokens; the messages make patches overlap, lists      *)
(* grow, documents grow and shrink, and a transform undo an earlier one.    *)
(* <<C>> is a text that RE2 rejects as a pattern.                           *)
EXTENDS LoopbackPatcher

CONSTANTS A, B, C

MCStrings == {<<A>>, <<B>>, <<C>>, <<A, B>>, <<B, Self>>}
MCRejected == {<<C>>}
MCDocuments == {<<A, B, A>>}

Change(match, replace) == [match |-> match, replace |-> replace]
MCMessages ==
    << { << [file |-> <<A>>, find |-> <<A, B>>,
             transforms |-> <<Change(<<A>>, <<A, B>>), Change(<<B>>, <<A>>)>>],
            [file |-> <<B>>, find |-> <<B>>, transforms |-> <<Change(<<B>>, <<B, Self>>)>>] >>,
         << [file |-> <<C>>, find |-> <<A>>, transforms |-> <<>>] >> },
       { << [file |-> <<B>>, find |-> <<A>>,
             transforms |-> <<Change(<<A>>, <<C>>), Change(<<C>>, <<A>>)>>] >> } >>
=============================================================================
