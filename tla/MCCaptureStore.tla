--------------------------- MODULE MCCaptureStore ---------------------------
(* Small instances of CaptureStore for TLC. *)
EXTENDS CaptureStore, TLC

Symmetry == Permutations(Workers)

\* Bound: once there is a backup, one process works at a time beside a restore,
\* with one lease before and one after it, and a restore that may fail is alone.
OneBesideRestores ==
    kept.zip # None \/ kept.restores > 0 =>
        /\ Cardinality({w \in Workers : pc[w] \notin {"idle"} \cup Restoring}) <= 1
        /\ disk.epoch <= 1
        /\ kept.former # None => \A w \in Workers : pc[w] \in {"idle"} \cup Restoring
=============================================================================
