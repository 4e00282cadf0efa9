--------------------------- MODULE MCSidecarSweeps ---------------------------
(* One sidecar that hangs beside one that starts in a third of the sweep.    *)
EXTENDS SidecarSweeps

CONSTANTS quick, hang

TwoSidecars == {quick, hang}
OneHangs    == {hang}
=============================================================================
