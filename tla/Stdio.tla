-------------------------------- MODULE Stdio --------------------------------
(***************************************************************************)
(* The stdio transport (src/server/stdio.rs): one task reads lines, each   *)
(* request has a handler task of its own, and one task writes the answers  *)
(* that reader and handlers put into a bounded channel.  A line is         *)
(* identified by its number; what router.handle() does with a request is   *)
(* left open, except that it returns.                                      *)
(***************************************************************************)
EXTENDS Naturals, Sequences, FiniteSets

CONSTANTS ChannelDepth,   \* CHANNEL_DEPTH, the places of the channel
          MaxLines        \* bound: how many lines the client sends

ASSUME DepthAssumption == ChannelDepth \in Nat \ {0}
ASSUME LinesAssumption == MaxLines \in Nat

Numbers == 1 .. MaxLines

\* What serde_json and salvage_id make of a line.  "malformed" is JSON with an
\* id that is no Request; "noise" is blank, or has no id to answer to.
Kinds == {"request", "notification", "malformed", "noise", "notUtf8"}

VARIABLES
  lines,     \* the kinds of the lines read so far
  reader,    \* where serve() is
  handler,   \* the task of each line that has one
  outbox,    \* the channel: the numbers of the lines answered in it
  writing,   \* the answer the writer has taken from the channel, or none
  writer,    \* the writer task: at work, broken by stdout, or finished
  answers    \* how many answers to each line the client has got

vars == <<lines, reader, handler, outbox, writing, writer, answers>>

ReaderStates  == {"reading", "replying", "draining", "closing", "done",
                  "failed", "exited"}
HandlerStates == {"none", "running", "sending", "over", "aborted", "unsent"}

TypeOK ==
  /\ lines \in Seq(Kinds) /\ Len(lines) <= MaxLines
  /\ reader \in ReaderStates
  /\ handler \in [Numbers -> HandlerStates]
  /\ outbox \in Seq(Numbers) /\ Len(outbox) <= ChannelDepth
  /\ writing \in {0} \cup Numbers
  /\ writer \in {"open", "broken", "finished"}
  /\ answers \in [Numbers -> Nat]

Init ==
  /\ lines = <<>>
  /\ reader = "reading"
  /\ handler = [n \in Numbers |-> "none"]
  /\ outbox = <<>> /\ writing = 0
  /\ writer = "open"
  /\ answers = [n \in Numbers |-> 0]

-----------------------------------------------------------------------------
\* The reader.

\* The next line is of one of these kinds.
ReadLine(kinds) ==
  /\ reader = "reading"
  /\ Len(lines) < MaxLines
  /\ \E k \in kinds : lines' = Append(lines, k)

Last == Len(lines)

Skip == /\ ReadLine({"noise"})
        /\ UNCHANGED <<reader, handler, outbox, writing, writer, answers>>

\* Request or notification: a task of the JoinSet handles it.
Spawn ==
  /\ ReadLine({"request", "notification"})
  /\ handler' = [handler EXCEPT ![Len(lines) + 1] = "running"]
  /\ UNCHANGED <<reader, outbox, writing, writer, answers>>

\* An id was salvaged: the reader itself is going to send the parse error.
Mutant_NoSalvage == "reading"
Salvaged == "replying"

Malformed ==
  /\ ReadLine({"malformed"})
  /\ reader' = Salvaged
  /\ UNCHANGED <<handler, outbox, writing, writer, answers>>

\* A send waits for a place in the channel; it gives the answer up when the
\* receiver is gone.
Mutant_Insist(n) == Len(outbox) < ChannelDepth /\ outbox' = Append(outbox, n)
Send(n) ==
  \/ /\ writer = "open"
     /\ Len(outbox) < ChannelDepth
     /\ outbox' = Append(outbox, n)
  \/ /\ writer # "open"
     /\ outbox' = outbox

SendParseError ==
  /\ reader = "replying"
  /\ Send(Last)
  /\ reader' = "reading"
  /\ UNCHANGED <<lines, handler, writing, writer, answers>>

\* next_line() fails: serve() returns the error and drops the JoinSet.
BadBytes ==
  /\ ReadLine({"notUtf8"})
  /\ reader' = "failed"
  /\ UNCHANGED <<handler, outbox, writing, writer, answers>>

EndOfInput ==
  /\ reader = "reading"
  /\ reader' = "draining"
  /\ UNCHANGED <<lines, handler, outbox, writing, writer, answers>>

InFlight == {n \in Numbers : handler[n] \in {"running", "sending"}}

\* join_next() has returned every task: serve() drops its sender.
Mutant_NoDrain == TRUE
Drained == InFlight = {}

CloseOutbox ==
  /\ reader = "draining"
  /\ Drained
  /\ reader' = "closing"
  /\ UNCHANGED <<lines, handler, outbox, writing, writer, answers>>

\* writer.await
JoinWriter ==
  /\ reader = "closing"
  /\ writer # "open"
  /\ reader' = "done"
  /\ UNCHANGED <<lines, handler, outbox, writing, writer, answers>>

-----------------------------------------------------------------------------
\* The handlers.

\* router.handle() returns; only a request has an answer.
Mutant_AnswerAll(n) == "sending"
AfterHandle(n) == IF lines[n] = "request" THEN "sending" ELSE "over"

Return(n) ==
  /\ reader # "exited"
  /\ handler[n] = "running"
  /\ handler' = [handler EXCEPT ![n] = AfterHandle(n)]
  /\ UNCHANGED <<lines, reader, outbox, writing, writer, answers>>

SendAnswer(n) ==
  /\ reader # "exited"
  /\ handler[n] = "sending"
  /\ Send(n)
  /\ handler' = [handler EXCEPT ![n] = "over"]
  /\ UNCHANGED <<lines, reader, writing, writer, answers>>

\* The JoinSet has been dropped; a task stops at its next await.
Abort(n) ==
  /\ reader = "failed"
  /\ n \in InFlight
  /\ handler' = [handler EXCEPT ![n] = IF @ = "running" THEN "aborted" ELSE "unsent"]
  /\ UNCHANGED <<lines, reader, outbox, writing, writer, answers>>

-----------------------------------------------------------------------------
\* The writer.

Receive ==
  /\ reader # "exited"
  /\ writer = "open" /\ writing = 0
  /\ outbox # <<>>
  /\ writing' = Head(outbox)
  /\ outbox' = Tail(outbox)
  /\ UNCHANGED <<lines, reader, handler, writer, answers>>

\* Encoded, written and flushed.
Write ==
  /\ reader # "exited"
  /\ writing # 0
  /\ answers' = [answers EXCEPT ![writing] = @ + 1]
  /\ writing' = 0
  /\ UNCHANGED <<lines, reader, handler, outbox, writer>>

\* stdout is closed: the task ends, and the channel with it.
WriteFails ==
  /\ reader # "exited"
  /\ writing # 0
  /\ writer' = "broken"
  /\ writing' = 0
  /\ outbox' = <<>>
  /\ UNCHANGED <<lines, reader, handler, answers>>

\* The channel is empty and every sender has been dropped.
Mutant_EmptyOnly == writing = 0 /\ outbox = <<>>
AllReceived ==
  /\ writing = 0 /\ outbox = <<>>
  /\ reader \in {"closing", "failed"} /\ InFlight = {}

FinishWriter ==
  /\ writer = "open"
  /\ AllReceived
  /\ writer' = "finished"
  /\ UNCHANGED <<lines, reader, handler, outbox, writing, answers>>

\* main() returns and the runtime drops whatever still runs: the answers in the
\* channel are gone, and the one at the writer may have left or not.
Exit ==
  /\ reader \in {"done", "failed"}
  /\ reader' = "exited"
  /\ outbox' = <<>> /\ writing' = 0
  /\ \/ UNCHANGED answers
     \/ writing # 0 /\ answers' = [answers EXCEPT ![writing] = @ + 1]
  /\ UNCHANGED <<lines, handler, writer>>

-----------------------------------------------------------------------------
Client  == Skip \/ Spawn \/ Malformed \/ BadBytes \/ EndOfInput
Reader  == SendParseError \/ CloseOutbox \/ JoinWriter
Handler(n) == Return(n) \/ SendAnswer(n)
Writer  == Receive \/ Write \/ FinishWriter

Next == \/ Client \/ Reader \/ Writer \/ WriteFails \/ Exit
        \/ \E n \in Numbers : Handler(n) \/ Abort(n)

Spec == Init /\ [][Next]_vars

\* Tokio runs every task that can run, handle() returns, and the client reads
\* what it is sent.  It need not send anything, nor close its end.
FairSpec == /\ Spec
            /\ WF_vars(Reader) /\ WF_vars(Writer)
            /\ \A n \in Numbers : WF_vars(Handler(n))

-----------------------------------------------------------------------------
(* Properties.                                                             *)

\* The lines the client waits for an answer to.
Asks(n) == n <= Len(lines) /\ lines[n] \in {"request", "malformed"}

\* The answer to a line has been handed to the channel.
HandedOver(n) ==
  /\ Asks(n)
  /\ \/ handler[n] = "over"
     \/ lines[n] = "malformed" /\ ~(reader = "replying" /\ n = Last)

Occurrences(s, n) == Cardinality({i \in DOMAIN s : s[i] = n})
Queued(n) == Occurrences(outbox, n) + (IF writing = n THEN 1 ELSE 0)

\* Whatever order the handlers end in, and however long the channel is full,
\* the client gets one answer to a request or a malformed request, and none to
\* a notification or to noise ("notifications must not be answered").
AnsweredOnce ==
  \A n \in Numbers : answers[n] + Queued(n) <= IF HandedOver(n) THEN 1 ELSE 0

\* A line that is not UTF-8 ended the session.
CutShort == \E m \in DOMAIN lines : lines[m] = "notUtf8"

\* The answers that were given and that the client has not got.
Unwritten == {n \in Numbers : HandedOver(n) /\ answers[n] = 0}

\* While stdout works and the process runs no answer is lost between handler
\* and client.  A session whose input has ended returns, and the process ends,
\* only when the client has every answer; one that is cut short takes with it,
\* of the answers given, at most those in the channel and at the writer.
NothingLost ==
  writer # "broken" =>
    /\ reader # "exited" => \A n \in Numbers : HandedOver(n) => answers[n] + Queued(n) = 1
    /\ reader = "done" \/ (reader = "exited" /\ ~CutShort) =>
         \A n \in Numbers : Asks(n) => answers[n] = 1
    /\ Cardinality(Unwritten) <= ChannelDepth + 1

\* The inductive invariant behind them.
SendersAreOpen ==
  /\ writer # "open" => outbox = <<>> /\ writing = 0
  /\ writer = "finished" => InFlight = {} /\ reader \notin {"reading", "replying", "draining"}
  /\ reader \in {"closing", "done"} => InFlight = {}
  /\ reader = "done" => writer # "open"

TasksMatchLines ==
  /\ reader = "replying" => Last > 0 /\ lines[Last] = "malformed"
  /\ reader = "failed" => CutShort
  /\ \A n \in Numbers :
       /\ n > Len(lines) => handler[n] = "none"
       /\ n <= Len(lines) =>
            (handler[n] = "none" <=> lines[n] \notin {"request", "notification"})
       /\ handler[n] \in {"sending", "unsent"} => lines[n] = "request"
       /\ handler[n] \in {"aborted", "unsent"} => reader \in {"failed", "exited"}

IInv == TypeOK /\ SendersAreOpen /\ TasksMatchLines /\ AnsweredOnce /\ NothingLost

\* Every request is answered in the end, unless stdout breaks or a line that
\* is not UTF-8 ends the session: a full channel delays but never blocks.
RequestsAreAnswered ==
  \A n \in Numbers :
    Asks(n) ~> answers[n] = 1 \/ writer = "broken" \/ CutShort

\* Once stdin is closed the session ends, even if stdout broke while answers
\* were waiting for a place in the channel.
DrainEnds == reader = "draining" ~> reader = "done"
=============================================================================
