-------------------------- MODULE MCCaptureForget --------------------------
(* Small instances of CaptureForget for TLC. *)
EXTENDS CaptureForget

CONSTANTS o1, o2

Both == {{o1, o2}}
Alone == {{"target"}}
WithSibling == {{"target", "sibling"}}
=============================================================================
