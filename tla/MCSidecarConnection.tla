----------------------- MODULE MCSidecarConnection -----------------------
(* Instances of SidecarConnection for TLC. *)
EXTENDS SidecarConnection, TLC

CONSTANTS c1, c2, c3, none

ThreeCalls == {c1, c2, c3}
TwoCalls   == {c1, c2}

\* The ids 2 and 3 are also the ids of the first two requests.
ServerRequest == [kind |-> "request", id |-> 2, for |-> none]
LogLine       == [kind |-> "noise",   id |-> 0, for |-> none]
BadBytes      == [kind |-> "garbled", id |-> 0, for |-> none]

Talkative == {ServerRequest, LogLine, BadBytes}
Readable  == {ServerRequest, LogLine}
Quiet     == {LogLine}

AllFaults == {"exit", "closeStdin", "closeStdout"}
Exits     == {"exit", "closeStdin"}
NoFaults  == {}

Symmetry == Permutations(Calls)
=============================================================================
