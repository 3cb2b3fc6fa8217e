---------------------------- MODULE IndexContract ----------------------------
(***************************************************************************)
(* What the index promises a reader of the database, with all machinery    *)
(* left out: a file is either not in the index, or in it with one complete *)
(* edition.  Editions are published one file at a time, only where nothing *)
(* is published, and are withdrawn for any number of files at once.  A     *)
(* reader never sees part of an edition, a mixture of two, or one edition  *)
(* change into another without the file being withdrawn in between.        *)
(***************************************************************************)
CONSTANTS
    Files,
    Editions,   \* the complete indexes a file can have
    Nothing     \* a file that is not in the index

VARIABLE published

Init == published = [f \in Files |-> Nothing]

Publish(f, e) ==
    /\ published[f] = Nothing
    /\ published' = [published EXCEPT ![f] = e]

Withdraw(F) ==
    published' = [f \in Files |-> IF f \in F THEN Nothing ELSE published[f]]

Next ==
    \/ \E f \in Files, e \in Editions : Publish(f, e)
    \/ \E F \in SUBSET Files : Withdraw(F)

Spec == Init /\ [][Next]_published
=============================================================================
