---- MODULE MCReviewDelivery ----
(***************************************************************************)
(* Two reviews of a pull request, of one or two findings and of one, in    *)
(* batches of one; a call fails or a job is interrupted once, and the      *)
(* second review is run again once.                                        *)
(***************************************************************************)
EXTENDS ReviewDelivery

MCResults == << {<<"b">>, <<"a", "b">>}, {<<"b">>} >>

Quiet == [commits |-> <<>>, line |-> TRUE, reaction |-> "none", reply |-> "none",
          resolved |-> FALSE]
Fix == [adds |-> "none", only |-> TRUE, bot |-> FALSE]
MCSignals == {Quiet, [Quiet EXCEPT !.line = FALSE, !.commits = <<Fix>>]}
====
