-------------------------------- MODULE Proxy --------------------------------
(***************************************************************************)
(* A proxy backend (src/backend/proxy.rs): concurrent exchanges with one   *)
(* remote server, each of which records its outcome in two mutexes, and    *)
(* status(), which reads the two one after the other.  An exchange or a    *)
(* reader may be dropped at any await.                                     *)
(***************************************************************************)
EXTENDS Naturals, Sequences, SequencesExt

CONSTANTS Users     \* who has an exchange or reads the status, once at a time

VARIABLES
  at,           \* where each user is
  got,          \* the outcome of each user's exchange
  contacted,    \* ProxyBackend.contacted
  last_error,   \* ProxyBackend.last_error: {} or {the error}
  seen          \* for each reader, what status() would have said since it began

proxy == <<at, got, contacted, last_error, seen>>

Resting     == {"off", "back", "told"}
AwaitsProxy == {"sent", "recording", "noting", "asking", "asked"}
Errors == {"Failed", "Unavailable"}
Words  == {"ready", "idle"} \cup Errors

ProxyTypeOK ==
  /\ at \in [Users -> Resting \cup AwaitsProxy]
  /\ got \in [Users -> {"none", "ok"} \cup Errors \cup Words]
  /\ contacted \in BOOLEAN
  /\ last_error \in {{}} \cup {{e} : e \in Errors}
  /\ seen \in [Users -> SUBSET Words]

ProxyInit ==
  /\ at = [u \in Users |-> "off"]
  /\ got = [u \in Users |-> "none"]
  /\ contacted = FALSE
  /\ last_error = {}
  /\ seen = [u \in Users |-> {}]

Move(u, place) == at' = [at EXCEPT ![u] = place]

-----------------------------------------------------------------------------
\* What the server sends: nothing usable, a status that is no success, or a
\* body.  A body is one line, or the frames of an SSE stream; "result", "error"
\* and "neither" parse as a Response, and a notification is a "neither".
Response == {"result", "error", "neither"}
Replies  == {[kind |-> "unreachable"], [kind |-> "status"], [kind |-> "cut"]}
            \cup [kind : {"body"}, sse : BOOLEAN, frames : SeqOf(Response \cup {"noise"}, 2)]

\* parse_body: the body itself, else the last frame that parses; "none" if none.
Parsed(reply) ==
  LET parsed == SelectSeq(reply.frames, LAMBDA f : f \in Response) IN
  IF parsed = <<>> \/ (~reply.sse /\ Len(reply.frames) # 1) THEN "none" ELSE Last(parsed)

\* interpret() and into_result().
interpret(reply) ==
  CASE reply.kind \in {"unreachable", "status"} -> "Unavailable"
    [] reply.kind = "cut" -> "Failed"
    [] reply.kind = "body" -> IF Parsed(reply) = "result" THEN "ok" ELSE "Failed"

-----------------------------------------------------------------------------
\* rpc(): the request leaves.
Send(u) ==
  /\ at[u] \in Resting
  /\ Move(u, "sent")
  /\ UNCHANGED <<got, contacted, last_error, seen>>

\* The reply is there, or the exchange has timed out.
Interpret(u, reply) ==
  /\ at[u] = "sent"
  /\ got' = [got EXCEPT ![u] = interpret(reply)]
  /\ Move(u, "recording")
  /\ UNCHANGED <<contacted, last_error, seen>>

\* What status() answers for the fields as they are.
Shown(errors, been) == IF errors # {} THEN CHOOSE e \in errors : TRUE
                       ELSE IF been THEN "ready" ELSE "idle"

Noted(outcome) == IF outcome = "ok" THEN {} ELSE {outcome}

\* record() takes the two locks one after the other.
Mutant_ErrorFirst == <<"last_error", "contacted">>
Fields == <<"contacted", "last_error">>

Reading(u) == at[u] \in {"asking", "asked"}

Write(u, field) ==
  /\ contacted' = (contacted \/ field = "contacted")
  /\ last_error' = IF field = "last_error" THEN Noted(got[u]) ELSE last_error
  /\ seen' = [r \in Users |-> IF Reading(r) THEN seen[r] \cup {Shown(last_error', contacted')}
                              ELSE seen[r]]
  /\ UNCHANGED got

RecordFirst(u)  == at[u] = "recording" /\ Write(u, Fields[1]) /\ Move(u, "noting")
RecordSecond(u) == at[u] = "noting" /\ Write(u, Fields[2]) /\ Move(u, "back")

\* status()
Ask(u) ==
  /\ at[u] \in Resting
  /\ Move(u, "asking")
  /\ seen' = [seen EXCEPT ![u] = {Shown(last_error, contacted)}]
  /\ UNCHANGED <<got, contacted, last_error>>

ReadError(u) ==
  /\ at[u] = "asking"
  /\ IF last_error # {}
       THEN /\ got' = [got EXCEPT ![u] = Shown(last_error, contacted)]
            /\ Move(u, "told")
       ELSE /\ Move(u, "asked")
            /\ UNCHANGED got
  /\ UNCHANGED <<contacted, last_error, seen>>

ReadContacted(u) ==
  /\ at[u] = "asked"
  /\ got' = [got EXCEPT ![u] = Shown({}, contacted)]
  /\ Move(u, "told")
  /\ UNCHANGED <<contacted, last_error, seen>>

\* The future is dropped: discovery_timeout, or a client that hangs up.
Drop(u) ==
  /\ at[u] \in AwaitsProxy
  /\ Move(u, "off")
  /\ UNCHANGED <<got, contacted, last_error, seen>>

\* The outcome or the report is taken away.
Leave(u) ==
  /\ at[u] \in {"back", "told"}
  /\ Move(u, "off")
  /\ UNCHANGED <<got, contacted, last_error, seen>>

\* reqwest's timeout fires, which bounds what a silent server can do.
Mutant_Untimed(u) == FALSE
TimeOut(u) == Interpret(u, [kind |-> "unreachable"])

\* What happens without the server.
ProxyStep(u) == \/ TimeOut(u) \/ RecordFirst(u) \/ RecordSecond(u)
                \/ ReadError(u) \/ ReadContacted(u)

ProxyNext == \E u \in Users : \/ Send(u) \/ Ask(u) \/ Drop(u) \/ Leave(u) \/ ProxyStep(u)
                              \/ \E reply \in Replies : Interpret(u, reply)

ProxySpec == ProxyInit /\ [][ProxyNext]_proxy

-----------------------------------------------------------------------------
(* Properties.                                                             *)

\* Although status() and record() lock the two fields separately, a report
\* says what both said at one moment while it was made: never "ready" for a
\* server whose failure has been noted, nor an error cleared before it began.
ReportIsCurrent == \A u \in Users : at[u] = "told" => got[u] \in seen[u]

\* The inductive invariant behind it: an error is never noted before the
\* contact is, and a reader's moments include what it is about to find.
ContactComesFirst ==
  /\ last_error # {} => contacted
  /\ \A u \in Users : at[u] = "noting" => contacted

OutcomesAreKnown ==
  \A u \in Users : at[u] \in {"recording", "noting", "back"} => got[u] \in {"ok"} \cup Errors

ReadersKeepUp ==
  \A u \in Users : /\ at[u] = "asking" => Shown(last_error, contacted) \in seen[u]
                   /\ at[u] = "asked" => Shown({}, contacted) \in seen[u]

PInv == /\ ProxyTypeOK
        /\ ContactComesFirst
        /\ OutcomesAreKnown
        /\ ReadersKeepUp
        /\ ReportIsCurrent
=============================================================================
