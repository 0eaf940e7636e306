------------------------------ MODULE Archive ------------------------------
(***************************************************************************)
(* One event on its way to the archive: Sink.Publish of the operator        *)
(* (internal/lifecycle/sink.go), which posts it with retries, and           *)
(* kapro-archiver, which writes event.json and metadata.json to a directory *)
(* (file_sink.go) or to S3 (s3_sink.go).  Retries have the same body and so *)
(* the same dedupeKey.                                                      *)
(***************************************************************************)
EXTENDS Naturals

CONSTANTS
    Sinks,       \* the sinks looked at: file, s3
    MaxRetries,  \* of the operator's sink
    MaxFaults    \* bound: crashes, lost connections, failed writes

VARIABLES
    sink,     \* KAPRO_ARCHIVER_SINK
    files,    \* the two objects under the event's key
    publish,  \* the operator's side
    request,  \* the requests at the archiver, by attempt
    faults

vars == <<sink, files, publish, request, faults>>

-----------------------------------------------------------------------------
Attempts == 1..(MaxRetries + 1)

File == {"none", "torn", "full"}
Steps == {"none", "event", "writeEvent", "metadata", "writeMetadata", "done"}

\* Every variable stays in its type.
TypeOK ==
    /\ sink \in Sinks
    /\ files \in [event : File, metadata : File]
    /\ publish \in [attempt : Attempts, state : {"sending", "backoff", "delivered", "failed"}]
    /\ request \in [Attempts -> Steps]
    /\ faults \in 0..MaxFaults

Init ==
    /\ sink \in Sinks
    /\ files = [event |-> "none", metadata |-> "none"]
    /\ publish = [attempt |-> 1, state |-> "backoff"]
    /\ request = [a \in Attempts |-> "none"]
    /\ faults = 0

Fault == faults < MaxFaults /\ faults' = faults + 1

-----------------------------------------------------------------------------
(* The operator.                                                           *)

\* The body is rendered once; each attempt has its share of the budget.
doRequest ==
    /\ publish.state = "backoff"
    /\ publish' = [publish EXCEPT !.state = "sending"]
    /\ request' = [request EXCEPT ![publish.attempt] = "event"]
    /\ UNCHANGED <<sink, files, faults>>

\* After a transient failure there is another attempt, if one is left and the
\* budget is not used up.
Again ==
    IF publish.attempt <= MaxRetries
    THEN publish' \in {[attempt |-> publish.attempt + 1, state |-> "backoff"], [publish EXCEPT !.state = "failed"]}
    ELSE publish' = [publish EXCEPT !.state = "failed"]

\* isPermanentFailure: a refused or reset connection is transient; an expired
\* attempt, and a connection that ends without an answer, are permanent.  The
\* handler at the archiver goes on.
loseConnection ==
    /\ Fault /\ publish.state = "sending"
    /\ Again \/ publish' = [publish EXCEPT !.state = "failed"]
    /\ UNCHANGED <<sink, files, request>>

\* The archiver's answer, if somebody still waits for it.
Answer(a, ok) ==
    /\ request' = [request EXCEPT ![a] = "done"]
    /\ IF publish.attempt = a /\ publish.state = "sending"
       THEN IF ok THEN publish' = [publish EXCEPT !.state = "delivered"] ELSE Again
       ELSE UNCHANGED publish

Goto(a, step) == request' = [request EXCEPT ![a] = step] /\ UNCHANGED publish

-----------------------------------------------------------------------------
(* FileSink.Write.                                                         *)

\* A file is made with O_EXCL, empty; what exists is kept.  On an error it is
\* removed again.
createEvent(a) ==
    /\ sink = "file" /\ request[a] = "event"
    /\ \/ /\ files.event = "none"
          /\ files' = [files EXCEPT !.event = "torn"]
          /\ Goto(a, "writeEvent")
       \/ /\ files.event # "none"
          /\ Goto(a, "metadata") /\ UNCHANGED files
    /\ UNCHANGED <<sink, faults>>

writeEvent(a) ==
    /\ request[a] = "writeEvent"
    /\ \/ /\ files' = [files EXCEPT !.event = "full"]
          /\ Goto(a, "metadata") /\ UNCHANGED faults
       \/ /\ Fault
          /\ files' = [files EXCEPT !.event = "none"]
          /\ Answer(a, FALSE)
    /\ UNCHANGED sink

createMetadata(a) ==
    /\ sink = "file" /\ request[a] = "metadata"
    /\ \/ /\ files.metadata = "none"
          /\ files' = [files EXCEPT !.metadata = "torn"]
          /\ Goto(a, "writeMetadata")
       \/ /\ files.metadata # "none"
          /\ Answer(a, TRUE) /\ UNCHANGED files
    /\ UNCHANGED <<sink, faults>>

writeMetadata(a) ==
    /\ request[a] = "writeMetadata"
    /\ \/ /\ files' = [files EXCEPT !.metadata = "full"]
          /\ Answer(a, TRUE) /\ UNCHANGED faults
       \/ /\ Fault
          /\ files' = [files EXCEPT !.metadata = "none"]
          /\ Answer(a, FALSE)
    /\ UNCHANGED sink

-----------------------------------------------------------------------------
(* S3Sink.Write: each object is put with If-None-Match, at once or not at  *)
(* all; one that exists counts as put.                                     *)

putEvent(a) ==
    /\ sink = "s3" /\ request[a] = "event"
    /\ \/ files' = [files EXCEPT !.event = "full"] /\ Goto(a, "metadata") /\ UNCHANGED faults
       \/ Fault /\ Answer(a, FALSE) /\ UNCHANGED files
    /\ UNCHANGED sink

putMetadata(a) ==
    /\ sink = "s3" /\ request[a] = "metadata"
    /\ \/ files' = [files EXCEPT !.metadata = "full"] /\ Answer(a, TRUE) /\ UNCHANGED faults
       \/ Fault /\ Answer(a, FALSE) /\ UNCHANGED files
    /\ UNCHANGED sink

-----------------------------------------------------------------------------
\* The archiver dies: its requests end, what was written stays, and a file
\* that was being written stays torn.
crash ==
    /\ Fault
    /\ request' = [a \in Attempts |-> IF request[a] = "none" THEN "none" ELSE "done"]
    /\ IF publish.state = "sending" THEN Again \/ publish' = [publish EXCEPT !.state = "failed"]
       ELSE UNCHANGED publish
    /\ UNCHANGED <<sink, files>>

Handle(a) == createEvent(a) \/ writeEvent(a) \/ createMetadata(a) \/ writeMetadata(a)
             \/ putEvent(a) \/ putMetadata(a)

Next == doRequest \/ loseConnection \/ crash \/ \E a \in Attempts : Handle(a)

Spec == Init /\ [][Next]_vars

-----------------------------------------------------------------------------
(* Properties.                                                             *)

\* What the operator was told is archived has both of its files whole: in S3
\* whatever crashed or overlapped before (Write heals what an earlier attempt
\* left half done), in a directory as long as nothing went wrong.
DeliveredIsArchived ==
    publish.state = "delivered" /\ (sink = "s3" \/ faults = 0) =>
        files = [event |-> "full", metadata |-> "full"]

=============================================================================
