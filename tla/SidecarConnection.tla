------------------------- MODULE SidecarConnection -------------------------
(***************************************************************************)
(* One live connection to a sidecar process (src/backend/sidecar.rs):      *)
(* the calls that share it, the task that reads the child's stdout, and    *)
(* the child.  A member of Calls is one execution of request() under       *)
(* with_deadline(); it starts where connect() hands out the connection.    *)
(* The model begins when the handshake, which uses id 1, is over; the      *)
(* first call to start is then the one whose connect() made the connection.*)
(*                                                                         *)
(* Every await of request(), write_line() and fail_all() is a point where  *)
(* the other tasks run and where the deadline may cancel the call; what    *)
(* lies between two awaits is one action.                                  *)
(***************************************************************************)
EXTENDS Naturals, FiniteSets

CONSTANTS Calls,    \* the requests made over this connection
          NoCall,   \* stands for "no call"
          Extras,   \* lines the child may print that answer no request
          Faults    \* how the child may let go of its pipes

\* A message is a line on the child's stdout: the reply to a request, a
\* request of the child's own with a numeric id, noise (log lines,
\* notifications, messages without a numeric id), or bytes that are no UTF-8.
Message == [kind : {"reply", "request", "noise", "garbled"},
            id   : Nat,
            for  : Calls \cup {NoCall}]

ASSUME NoCallAssumption == NoCall \notin Calls
ASSUME ExtrasAssumption == Extras \subseteq {m \in Message : m.kind # "reply"}
ASSUME FaultsAssumption ==
  Faults \subseteq {"exit", "closeStdin", "closeStdout"}

NoMessage == [kind |-> "none", id |-> 0, for |-> NoCall]

\* A frame is a line on the child's stdin.  It is readable unless truncated
\* bytes of another request stand in front of it.
Frame == [id : Nat, call : Calls, readable : BOOLEAN]

\* An entry of the map from request ids to the senders of waiting calls.
Entry == [id : Nat, call : Calls]

VARIABLES
  \* the gateway's side
  pc,        \* where each call is in request()
  id,        \* the id each call has drawn; 0 before it has one
  mail,      \* what was sent on each call's oneshot channel
  nextId,    \* Connection.next_id
  pending,   \* Connection.pending
  alive,     \* Connection.alive
  writer,    \* the call that holds the lock of Connection.stdin
  reader,    \* where read_responses() is
  \* the pipes and the child
  torn,      \* stdin ends with a part of a line
  frames,    \* whole lines on stdin the child has not read
  stdout,    \* lines on stdout the reader has not read
  working,   \* requests the child has read and not answered
  served,    \* calls the child has executed
  spoilt,    \* calls whose line the child could not read
  printed,   \* the members of Extras printed so far
  childIn,   \* the read end of the child's stdin is open
  childOut   \* the write end of the child's stdout is open

gateway == <<pc, id, mail, nextId, pending, alive, writer, reader>>
child   == <<working, served, spoilt, printed, childIn, childOut>>
pipes   == <<torn, frames, stdout>>
vars    == <<gateway, pipes, child>>

Awaiting == {"numbered", "queued", "writing", "waiting", "removing", "clearing"}
Over     == {"answered", "failed", "timedOut"}
PC       == {"idle"} \cup Awaiting \cup Over

TypeOK ==
  /\ pc \in [Calls -> PC]
  /\ id \in [Calls -> Nat]
  /\ mail \in [Calls -> Message \cup {NoMessage}]
  /\ nextId \in Nat
  /\ pending \subseteq Entry
  /\ alive \in BOOLEAN
  /\ writer \in Calls \cup {NoCall}
  /\ reader \in {"reading", "clearing", "stopped"}
  /\ torn \in BOOLEAN
  /\ frames \subseteq Frame
  /\ stdout \subseteq Message
  /\ working \subseteq Frame
  /\ served \subseteq Calls
  /\ spoilt \subseteq Calls
  /\ printed \subseteq Extras
  /\ childIn \in BOOLEAN
  /\ childOut \in BOOLEAN

Init ==
  /\ pc = [c \in Calls |-> "idle"]
  /\ id = [c \in Calls |-> 0]
  /\ mail = [c \in Calls |-> NoMessage]
  /\ nextId = 2
  /\ pending = {}
  /\ alive = TRUE
  /\ writer = NoCall
  /\ reader = "reading"
  /\ torn = FALSE /\ frames = {} /\ stdout = {}
  /\ working = {} /\ served = {} /\ spoilt = {} /\ printed = {}
  /\ childIn = TRUE /\ childOut = TRUE

-----------------------------------------------------------------------------
(* A call.                                                                 *)

\* HashMap::insert drops the sender an equal id had; remove drops its own.
Insert(entries, i, c) == {e \in entries : e.id # i} \cup {[id |-> i, call |-> c]}
Remove(entries, i)    == {e \in entries : e.id # i}

Goto(c, label) == pc' = [pc EXCEPT ![c] = label]

\* fetch_add(1) on next_id.
Mutant_ConstantId(i) == i
Successor(i) == i + 1

\* connect() returns a connection it has just made as it is, whether the child
\* still lives or not; until then it holds the lock of the slot, so that nobody
\* else can have it.
Fresh == \A c \in Calls : pc[c] = "idle"

\* A connection that connect() finds in the slot is handed out if it is alive.
Mutant_HandOutAnyway == TRUE
HandOut == Fresh \/ alive

\* The first poll of request() draws the id.
Start(c) ==
  /\ pc[c] = "idle"
  /\ HandOut
  /\ id' = [id EXCEPT ![c] = nextId]
  /\ nextId' = Successor(nextId)
  /\ Goto(c, "numbered")
  /\ UNCHANGED <<mail, pending, alive, writer, reader, pipes, child>>

\* The sender is registered; `alive` is not looked at again.
Register(c) ==
  /\ pc[c] = "numbered"
  /\ pending' = Insert(pending, id[c], c)
  /\ Goto(c, "queued")
  /\ UNCHANGED <<id, mail, nextId, alive, writer, reader, pipes, child>>

Mutant_NoLock == TRUE
StdinFree == writer = NoCall

LockStdin(c) ==
  /\ pc[c] = "queued"
  /\ StdinFree
  /\ writer' = c
  /\ Goto(c, "writing")
  /\ UNCHANGED <<id, mail, nextId, pending, alive, reader, pipes, child>>

\* write_all and flush get the whole line into the pipe, behind whatever a
\* cancelled write left there; its newline ends both.
Mutant_NoNewline(partial) == partial
Ended(partial) == FALSE
WriteLine(c) ==
  /\ pc[c] = "writing"
  /\ childIn
  /\ frames' = frames \cup {[id |-> id[c], call |-> c, readable |-> ~torn]}
  /\ torn' = Ended(torn)
  /\ writer' = NoCall
  /\ Goto(c, "waiting")
  /\ UNCHANGED <<id, mail, nextId, pending, alive, reader, stdout, child>>

\* The pipe is broken.
WriteFails(c) ==
  /\ pc[c] = "writing"
  /\ ~childIn
  /\ writer' = NoCall
  /\ Goto(c, "removing")
  /\ UNCHANGED <<id, mail, nextId, pending, alive, reader, pipes, child>>

\* request() takes its own entry back and enters fail_all(), whose store
\* follows without an await.
RemoveAndMarkDead(c) ==
  /\ pc[c] = "removing"
  /\ pending' = Remove(pending, id[c])
  /\ alive' = FALSE
  /\ Goto(c, "clearing")
  /\ UNCHANGED <<id, mail, nextId, writer, reader, pipes, child>>

\* The second half of fail_all(): dropping the senders wakes the waiters.
Mutant_KeepSenders(entries) == entries
Dropped(entries) == {}
Clear(c) ==
  /\ pc[c] = "clearing"
  /\ pending' = Dropped(pending)
  /\ Goto(c, "failed")
  /\ UNCHANGED <<id, mail, nextId, alive, writer, reader, pipes, child>>

\* A response came; into_result() turns one that is no reply into an error.
Mutant_RefuseWhenDead(c) == mail[c] # NoMessage /\ alive
HasMail(c) == mail[c] # NoMessage

Receive(c) ==
  /\ pc[c] = "waiting"
  /\ HasMail(c)
  /\ Goto(c, IF mail[c].kind = "reply" THEN "answered" ELSE "failed")
  /\ UNCHANGED <<id, mail, nextId, pending, alive, writer, reader, pipes, child>>

Registered(c) == \E e \in pending : e.call = c

\* The sender was dropped: the receive fails, and remove() finds nothing.
SenderDropped(c) ==
  /\ pc[c] = "waiting"
  /\ ~HasMail(c)
  /\ ~Registered(c)
  /\ pending' = Remove(pending, id[c])
  /\ Goto(c, "failed")
  /\ UNCHANGED <<id, mail, nextId, alive, writer, reader, pipes, child>>

\* The deadline drops the future at whatever await it is: the lock is
\* released, the entry stays in the map, and of a line that was being
\* written nothing or a part is in the pipe.
Deadline(c) ==
  /\ pc[c] \in Awaiting
  /\ writer' = IF writer = c THEN NoCall ELSE writer
  /\ torn' \in {torn, torn \/ writer = c}
  /\ Goto(c, "timedOut")
  /\ UNCHANGED <<id, mail, nextId, pending, alive, reader, frames, stdout, child>>

Step(c) == \/ Register(c) \/ LockStdin(c) \/ WriteFails(c) \/ RemoveAndMarkDead(c)
           \/ Clear(c) \/ Receive(c) \/ SenderDropped(c)

-----------------------------------------------------------------------------
(* The reader task.                                                        *)

Addressed(m) == {e \in pending : e.id = m.id}

\* What remove(&id) leaves in the map.
Mutant_Get(m) == pending
Remaining(m) == pending \ Addressed(m)

\* What parses as a response and has a numeric id.  Members that Response
\* does not know are ignored and those it lacks are None, so a request of the
\* child's own parses as well.
IsResponse(m) == m.kind \in {"reply", "request"}

\* next_line() fails on bytes that are no UTF-8, and the loop breaks.
Mutant_NoResponse(m) == ~IsResponse(m)
Unreadable(m) == m.kind = "garbled"

\* A line is read; a response goes to the call its id names, if that call
\* still waits, and is discarded otherwise, as every other line is.
Read ==
  /\ reader = "reading"
  /\ \E m \in stdout :
       /\ ~Unreadable(m)
       /\ stdout' = stdout \ {m}
       /\ IF IsResponse(m)
            THEN /\ pending' = Remaining(m)
                 /\ mail' = [c \in Calls |->
                      IF c \in {e.call : e \in Addressed(m)} /\ pc[c] \notin Over
                        THEN m ELSE mail[c]]
            ELSE UNCHANGED <<pending, mail>>
  /\ UNCHANGED <<pc, id, nextId, alive, writer, reader, torn, frames, child>>

\* The stream has ended or cannot be read on; fail_all() begins with its store.
ReaderBreaks ==
  /\ reader = "reading"
  /\ \/ stdout = {} /\ ~childOut /\ UNCHANGED stdout
     \/ \E m \in stdout : Unreadable(m) /\ stdout' = stdout \ {m}
  /\ alive' = FALSE
  /\ reader' = "clearing"
  /\ UNCHANGED <<pc, id, mail, nextId, pending, writer, torn, frames, child>>

ReaderClears ==
  /\ reader = "clearing"
  /\ pending' = Dropped(pending)
  /\ reader' = "stopped"
  /\ UNCHANGED <<pc, id, mail, nextId, alive, writer, pipes, child>>

Reader == Read \/ ReaderBreaks \/ ReaderClears

-----------------------------------------------------------------------------
(* The child.                                                              *)

\* The child reads a line; one that starts with a truncated request is no
\* JSON, and the error the child may report has no id.
TakeFrame ==
  /\ childIn
  /\ \E f \in frames :
       /\ frames' = frames \ {f}
       /\ IF f.readable
            THEN /\ working' = working \cup {f}
                 /\ served' = served \cup {f.call}
                 /\ UNCHANGED spoilt
            ELSE /\ spoilt' = spoilt \cup {f.call}
                 /\ UNCHANGED <<working, served>>
  /\ UNCHANGED <<gateway, torn, stdout, printed, childIn, childOut>>

\* Requests are answered in any order.
Reply ==
  /\ childOut
  /\ \E f \in working :
       /\ working' = working \ {f}
       /\ stdout' = stdout \cup {[kind |-> "reply", id |-> f.id, for |-> f.call]}
  /\ UNCHANGED <<gateway, torn, frames, served, spoilt, printed, childIn, childOut>>

PrintExtra ==
  /\ childOut
  /\ \E m \in Extras \ printed :
       /\ printed' = printed \cup {m}
       /\ stdout' = stdout \cup {m}
  /\ UNCHANGED <<gateway, torn, frames, working, served, spoilt, childIn, childOut>>

Exit ==
  /\ "exit" \in Faults
  /\ childIn \/ childOut
  /\ childIn' = FALSE /\ childOut' = FALSE
  /\ frames' = {} /\ working' = {}
  /\ UNCHANGED <<gateway, torn, stdout, served, spoilt, printed>>

CloseStdin ==
  /\ "closeStdin" \in Faults
  /\ childIn
  /\ childIn' = FALSE
  /\ frames' = {}
  /\ UNCHANGED <<gateway, torn, stdout, working, served, spoilt, printed, childOut>>

CloseStdout ==
  /\ "closeStdout" \in Faults
  /\ childOut
  /\ childOut' = FALSE
  /\ UNCHANGED <<gateway, pipes, working, served, spoilt, printed, childIn>>

Child == TakeFrame \/ Reply \/ PrintExtra \/ Exit \/ CloseStdin \/ CloseStdout

-----------------------------------------------------------------------------
Next == \/ \E c \in Calls : Start(c) \/ Step(c) \/ WriteLine(c) \/ Deadline(c)
        \/ Reader
        \/ Child

Spec == Init /\ [][Next]_vars

\* Tokio keeps polling every task that can run.  Nothing is assumed of the
\* child, so a write may hang on a full pipe, and nothing of the deadlines.
Fairness == /\ \A c \in Calls : WF_vars(Step(c))
            /\ WF_vars(Reader)

FairSpec == Spec /\ Fairness

-----------------------------------------------------------------------------
(* Properties.                                                             *)

\* A call never receives the answer of another call: not out of order, not
\* late, not after other calls timed out.  (read_responses matches by id,
\* next_id never repeats one.)
OwnAnswer ==
  \A c \in Calls : mail[c].kind = "reply" => mail[c].for = c /\ c \in served

\* Only a call its deadline cancelled leaves an entry behind in the pending
\* map: every other way out of request() and read_responses() takes it out.
LeakOnlyOnTimeout ==
  \A e \in pending : pc[e.call] \in Awaiting \cup {"timedOut"}

\* A write cut by its deadline costs at most one other request: the newline
\* of the next line brings the stream back into step.
OneSpoiltPerTimeout ==
  Cardinality(spoilt) + Cardinality({f \in frames : ~f.readable})
    <= Cardinality({c \in Calls : pc[c] = "timedOut"})

\* Once the reader has failed everybody and stopped, no call waits for an
\* answer that nobody is left to deliver (fail_all's comment and its tests).
NoWaiterAfterTeardown ==
  reader = "stopped" => \A c \in Calls : pc[c] = "waiting" => ~Registered(c)

\* The connection is given up only when the child has let go of a pipe or has
\* printed bytes that are no UTF-8: whatever else it prints that answers
\* nothing, and whichever calls time out, costs nobody the connection.
AliveWhileChildServes ==
  ~alive => ~childIn \/ ~childOut \/ \E m \in printed : m.kind = "garbled"

\* What a call receives is a reply, never a message the child sent of its
\* own accord (comment in read_responses).
OnlyReplies == \A c \in Calls : mail[c].kind \in {"none", "reply"}

\* When the child exits, every call comes to its end without waiting for its
\* deadline (fail_all's comment).
ExitWakesCallers ==
  ~childOut ~> [](\A c \in Calls : pc[c] \notin Awaiting)

\* A reply the child has printed ends the call it answers, whatever else is
\* on stdout and whoever has timed out; and once it is in the call's channel
\* the call is answered with it unless its deadline passes, even if the
\* connection is torn down before the call is polled again.
RepliesArrive ==
  \A c \in Calls :
    /\ (\E m \in stdout : m.kind = "reply" /\ m.for = c) ~> pc[c] \in Over
    /\ (mail[c].kind = "reply" /\ pc[c] = "waiting")
         ~> pc[c] \in {"answered", "timedOut"}

\* The abstract session this connection implements.
Status(c) == IF pc[c] = "idle" THEN "new"
             ELSE IF pc[c] \in Awaiting THEN "open"
             ELSE IF pc[c] = "answered" THEN "answered" ELSE "failed"

Session == INSTANCE RpcSession WITH
             status <- [c \in Calls |-> Status(c)], closed <- ~alive

ImplementsSession == Session!Spec

-----------------------------------------------------------------------------
(* The inductive invariant: what ids, entries, lines and locks mean.       *)

\* Every id has been drawn by one call, and by none before it started.
IdsAreUnique ==
  /\ \A c \in Calls : id[c] < nextId
  /\ \A c \in Calls : pc[c] = "idle" <=> id[c] = 0
  /\ \A c, d \in Calls : id[c] = id[d] /\ id[c] # 0 => c = d

\* Whatever names a call names it by the id it drew.
IdsAreTrue ==
  /\ \A e \in pending : e.id = id[e.call] /\ e.id # 0
  /\ \A f \in frames \cup working : f.id = id[f.call] /\ f.id # 0
  /\ \A m \in stdout : m.kind = "reply" =>
       m.for \in Calls /\ m.id = id[m.for] /\ m.id # 0

\* Only the holder of the stdin lock writes.
WriterHoldsLock == \A c \in Calls : pc[c] = "writing" <=> writer = c

\* A call's line is written once, so the child executes it at most once.
WrittenOnce ==
  /\ \A c \in Calls : pc[c] \in {"idle", "numbered", "queued", "writing"} =>
       c \notin served /\ \A f \in frames \cup working : f.call # c
  /\ \A f, g \in frames : f.call = g.call => f = g
  /\ \A f \in frames : f.call \notin served

\* Replies are given only by executing the call.
RepliesAreServed ==
  /\ \A f \in working : f.call \in served
  /\ \A m \in stdout : m.kind = "reply" => m.for \in served

\* A call is given its answer at most once: whoever has one has no entry.
EntryUntilMail ==
  /\ \A c \in Calls : mail[c] # NoMessage => ~Registered(c)
  /\ \A c \in Calls : pc[c] \in {"idle", "numbered"} =>
       mail[c] = NoMessage /\ ~Registered(c)

IInv == /\ TypeOK
        /\ IdsAreUnique
        /\ IdsAreTrue
        /\ WriterHoldsLock
        /\ WrittenOnce
        /\ RepliesAreServed
        /\ OwnAnswer
        /\ EntryUntilMail
        /\ LeakOnlyOnTimeout
=============================================================================
