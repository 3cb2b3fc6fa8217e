---------------------------- MODULE MCToolServer ----------------------------
(***************************************************************************)
(* An instance of ToolServer for TLC: two source files that may both       *)
(* define x, so that a scan numbers the second x_2, which "b" spells too.  *)
(***************************************************************************)
EXTENDS ToolServer, TLC

CONSTANTS o1, o2, c1, c2

Symmetry == Permutations({o1, o2}) \cup Permutations({c1, c2})

Tool1(n, m) == << [name |-> n, meta |-> m] >>

MCListing == << <<"x">>, <<"x", 2>>, <<"x", 2, 2>> >>
MCResources == << <<"notes">> >>
MCWalk == <<"f", "g">>
MCDefines == [c \in Contents |-> IF c = "a" THEN Tool1(<<"x">>, "m1")
                                 ELSE Tool1(<<"x">>, "m2") \o Tool1(<<"x", 2>>, "m1")]
MCReviews ==
    {[mode |-> "approve-all"], [mode |-> "dev"], [mode |-> "production"],
     [mode |-> "batch", approve |-> << <<"notes">> >>, disable |-> << <<"x">> >>,
      confirm |-> << <<"x", 2>> >>]}
MCTemplates == {[f \in {"f", "g"} |-> IF f = "g" THEN "b" ELSE Null]}
MCEdits == {<<"f", "a">>, <<"f", "b">>, <<"f", Null>>}

OneTool == [f \in {"f", "g"} |-> IF f = "f" THEN "a" ELSE Null]
Unsealed == [n \in Names |-> {}]
Fresh(cfg) == [disk |-> OneTool, store |-> EmptyStore, config |-> cfg, sealed |-> Unsealed]

\* After init, and after reviews: x_2 was confirmed when f still held "b".
Initialised ==
    [Fresh(DefaultConfig) EXCEPT
        !.store = UpsertResource(UpsertToolsBatch(EmptyStore, ScanDirectory(OneTool), DefaultConfig), <<"notes">>)]
Approved ==
    [Initialised EXCEPT
        !.store = UpdateContentHash(SetToolState(@, <<"x">>, "enabled"), <<"x">>, "a"),
        !.store.tools[<<"x", 2>>] = [source |-> "f", meta |-> "m1", dep |-> "resolved",
                                     state |-> "requires_confirmation", hash |-> "b"],
        !.store.resources[<<"notes">>] = "enabled",
        !.config.tools[<<"x">>] = "enabled",
        !.config.tools[<<"x", 2>>] = "requires_confirmation",
        !.sealed = (<<"x">> :> {"a"}) @@ (<<"x", 2>> :> {"b"}) @@ @]

\* The last one leaves room for a file that is edited and edited back.
Budget(n, k, d) == [commands |-> n, calls |-> k, disturbances |-> d]
MCBudgets == {Budget(2, 1, 1), Budget(1, 2, 1), Budget(1, 1, 2)}

MCWorkspaces ==
    {Initialised, Approved, Fresh(Null), Fresh([version |-> 2, tools |-> Unset]),
     Fresh([version |-> 0, tools |-> [n \in Names |-> "enabled"]]),
     Fresh([version |-> 1, tools |-> [n \in Names |-> IF n = <<"x">> THEN "typo" ELSE "enabled"]])}
=============================================================================
