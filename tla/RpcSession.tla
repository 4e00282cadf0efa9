----------------------------- MODULE RpcSession -----------------------------
(***************************************************************************)
(* What a connection to a sidecar promises its callers, without ids,       *)
(* pipes, locks or tasks: a call is opened only while the session is up,   *)
(* is served at most once, and ends once: either with the answer of its    *)
(* own execution or with an error.  An error says nothing about whether    *)
(* the call was served.  The call a session was made for is opened even if *)
(* the session has closed by then.                                         *)
(***************************************************************************)
CONSTANT Calls          \* the requests made over the session

VARIABLES status,       \* how far each call is, as its caller sees it
          served,       \* the calls the server has executed
          closed        \* the session takes no further calls

vars == <<status, served, closed>>

Statuses == {"new", "open", "answered", "failed"}

TypeOK == /\ status \in [Calls -> Statuses]
          /\ served \subseteq Calls
          /\ closed \in BOOLEAN

Init == /\ status = [c \in Calls |-> "new"]
        /\ served = {}
        /\ closed = FALSE

Open(c) == /\ status[c] = "new"
           /\ ~closed \/ \A d \in Calls : status[d] = "new"
           /\ status' = [status EXCEPT ![c] = "open"]
           /\ UNCHANGED <<served, closed>>

\* The server may execute a call whose caller has given up, never a call
\* nobody made and never a call twice.
Serve(c) == /\ status[c] # "new"
            /\ c \notin served
            /\ served' = served \cup {c}
            /\ UNCHANGED <<status, closed>>

Answer(c) == /\ status[c] = "open"
             /\ c \in served
             /\ status' = [status EXCEPT ![c] = "answered"]
             /\ UNCHANGED <<served, closed>>

Fail(c) == /\ status[c] = "open"
           /\ status' = [status EXCEPT ![c] = "failed"]
           /\ UNCHANGED <<served, closed>>

Close == /\ closed' = TRUE
         /\ UNCHANGED <<status, served>>

Next == \/ Close
        \/ \E c \in Calls : Open(c) \/ Serve(c) \/ Answer(c) \/ Fail(c)

Spec == Init /\ [][Next]_vars
=============================================================================
