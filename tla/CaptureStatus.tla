---------------------------- MODULE CaptureStatus ----------------------------
(***************************************************************************)
(* The states of a Capture receipt and the changes capture_contracts.py    *)
(* allows between them.                                                    *)
(***************************************************************************)

Statuses == {"discovered", "queued", "extracting", "complete", "retryable",
             "deferred_budget", "failed", "quarantined", "excluded",
             "coalesced"}

Transitions ==
  [discovered      |-> {"queued", "excluded", "coalesced", "deferred_budget",
                        "quarantined", "retryable"},
   queued          |-> {"extracting", "deferred_budget", "excluded",
                        "retryable"},
   extracting      |-> {"complete", "retryable", "failed", "quarantined"},
   retryable       |-> {"queued", "deferred_budget", "failed", "quarantined"},
   deferred_budget |-> {"queued", "excluded"},
   failed          |-> {"queued"},
   quarantined     |-> {"queued"},
   complete        |-> {},
   excluded        |-> {},
   coalesced       |-> {}]

\* validate_capture_transition returns; its reopen_reason is a constant of
\* each call and always the right one.
ValidCaptureTransition(source, target) == target \in Transitions[source]

\* What a runner may take up.
Ready == {"discovered", "queued", "retryable"}

=============================================================================
