----------------------- MODULE MCSidecarSupervisor -----------------------
(* An instance of SidecarSupervisor for TLC. *)
EXTENDS SidecarSupervisor

CONSTANTS s1, s2, t1, t2, t3, none

TwoSidecars == {s1, s2}
Restarting  == {s1}
ThreeTasks  == {t1, t2, t3}
=============================================================================
