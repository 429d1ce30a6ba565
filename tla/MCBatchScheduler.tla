-------------------------- MODULE MCBatchScheduler --------------------------
(***************************************************************************)
(* Instances of BatchScheduler for TLC.                                    *)
(***************************************************************************)
EXTENDS BatchScheduler, TLC

Opt(modes, retry, failfast, skipFail) ==
    [modes |-> modes, retry |-> retry, failfast |-> failfast, skipFail |-> skipFail]

Both == <<"nydus", "oci">>

\* One format first, then both, with and without --skip-fail.
OptionsResume == {Opt(<<"oci">>, 0, FALSE, FALSE), Opt(Both, 1, FALSE, FALSE),
                  Opt(Both, 1, FALSE, TRUE)}
\* Retries, with and without --failfast.
OptionsStop == {Opt(<<"nydus">>, 1, FALSE, FALSE), Opt(<<"nydus">>, 1, TRUE, FALSE)}

SlotSymmetry == Permutations(Slots)
=============================================================================
