--------------------------- MODULE AnalysisJobsMC ---------------------------
(***************************************************************************)
(* Instances of AnalysisJobs for TLC, and what the repository says of       *)
(* server analysis and the code does not keep.                              *)
(***************************************************************************)
EXTENDS AnalysisJobs, TLC

Interchangeable == Permutations(Runs) \cup Permutations(Workers)

-----------------------------------------------------------------------------
(* docs/personal-mistake-trainer-v2.md:190: "Terminal failure, cancellation, *)
(* deletion, and max-attempt recovery settle both run and credit."  A job    *)
(* that failed for good has a run in a final state.                          *)
FailedJobFailsRun ==
  \A g \in Games :
    job[g].status = "FAILED" => run[job[g].run].status \in Terminal

(* The same sentence for deletion: no run of a deleted game keeps its        *)
(* reservation, which nothing could settle any more.                         *)
DeletionSettles ==
  \A r \in Runs : run[r].status = "DELETED" => ~Outstanding(r)

(* docs/personal-mistake-trainer-v2.md:186: "a stale worker cannot complete  *)
(* or overwrite a newer claim."  A run that reached a final state is not     *)
(* made active again by an invocation that lost its lease before.            *)
FinishedRunStays ==
  [][\A r \in Runs : run[r].status \in Terminal
                     => run'[r].status \in Terminal \cup {"DELETED"}]_vars

(* docs/personal-mistake-trainer-v2.md:188: "Success atomically settles game *)
(* analysis, moments, solution revisions, run, job, and credit, or uses an   *)
(* explicit durable outbox/reconciler."  A run whose analysis was written is *)
(* charged, never released.                                                  *)
SuccessIsCharged ==
  \A r \in Runs : run[r].wrote => ledger[r] \cap Settlements \subseteq {"consume"}

(* The converse: only a run that wrote its analysis is charged.              *)
ChargedOnSuccess ==
  \A r \in Runs : "consume" \in ledger[r] => run[r].wrote
=============================================================================
