---------------------------- MODULE PublishFollow ----------------------------
(***************************************************************************)
(* Following a deployment: the event stream of routes/deploy.py, which     *)
(* polls the row every half second and sends what is new, and its two      *)
(* readers, `polaris publish` in the workspace container and the publish   *)
(* panel of the web UI.  Composed with Publish, whose steps write the      *)
(* columns the stream compares.                                            *)
(*                                                                         *)
(* build_log is a sequence of pieces of equal length.  A host path is two  *)
(* pieces long until _sanitize_log replaces it by the shorter /workspace.  *)
(***************************************************************************)
EXTENDS Publish, Sequences, SequencesExt

CONSTANTS
    Followed,     \* the publish whose deployment is followed
    Reconnects,   \* does the reader open the stream again when it ends
    MaxStreams    \* bound: streams the reader opens

ASSUME FollowAssumption ==
    /\ Followed \in Publishes
    /\ Reconnects \in BOOLEAN
    /\ MaxStreams \in Nat \ {0}

VARIABLES
    log,      \* its deployments.build_log, as committed
    output,   \* the log its task keeps in memory
    stream,   \* the open stream: the status and the length it has sent
    reader    \* what the reader has shown, and how often it was told the end

followVars == <<log, output, stream, reader>>
allVars == <<vars, followVars>>

Line == <<"line">>
HostPath == <<"host", "path">>
Outputs == {Line, HostPath \o Line}

\* _sanitize_log
Sanitized(text) == IF IsPrefix(HostPath, text)
                   THEN <<"alias">> \o SubSeq(text, 3, Len(text)) ELSE text

NoStream == [status |-> "", sent |-> 0]

FollowInit ==
    /\ Init
    /\ log = <<>>
    /\ output = <<>>
    /\ stream = NoStream
    /\ reader = [st |-> "idle", shown |-> <<>>, ends |-> 0, opened |-> 0]

-----------------------------------------------------------------------------
(* What the pipeline writes to the log.                                    *)

\* docker build fills the list in memory, and the column when it is over.
LogBuild == output' \in Outputs /\ log' = output'

\* A docker build that fails has filled the list only.
LogFailedBuild == output' \in Outputs \cup {<<>>} /\ UNCHANGED log

\* The last commit writes the list, with what the promote has added, sanitized.
LogReady == log' = Sanitized(output \o Line) /\ UNCHANGED output

\* The handler of PublishError writes the list; the other one leaves the column.
LogFailure == log' \in {log, Sanitized(output)} /\ UNCHANGED output

\* What a step does to the log of the followed publish, by where it takes it.
WriteLog ==
    LET from == at[Followed]
        to   == at'[Followed]
    IN  CASE from = "build" /\ to = "preview" -> LogBuild
          [] from = "build" /\ to = "except"  -> LogFailedBuild
          [] from = "commit" /\ row'[Followed] = "ready"  -> LogReady
          [] from = "except" /\ row'[Followed] = "failed" -> LogFailure
          [] OTHER -> UNCHANGED <<log, output>>

PipelineStep == Next /\ deaths' = deaths /\ WriteLog /\ UNCHANGED <<stream, reader>>

-----------------------------------------------------------------------------
(* deployment_events and its reader.                                       *)

\* The command has its deployment from the answer to its POST, the panel from
\* the list it has fetched: one that is in flight.
Follow ==
    /\ reader.st = "idle"
    /\ row[Followed] \in InFlight
    /\ reader' = [reader EXCEPT !.st = "open", !.opened = 1]
    /\ UNCHANGED <<vars, log, output, stream>>

\* The stream is over: the command ends, an EventSource opens it again.
StreamOver == IF Reconnects THEN "lost" ELSE "done"

New == SubSeq(log, stream.sent + 1, Len(log))
LastEvent == row[Followed] \in Ended

\* Mutant of Poll: the end is sent before the log is compared.
PollEndFirst ==
    /\ reader.st = "open"
    /\ \/ LastEvent \/ New # <<>> \/ row[Followed] # stream.status
    /\ stream' = IF LastEvent THEN NoStream
                 ELSE [stream EXCEPT !.sent = @ + Len(New), !.status = row[Followed]]
    /\ reader' = IF LastEvent THEN [reader EXCEPT !.st = StreamOver, !.ends = @ + 1]
                 ELSE [reader EXCEPT !.shown = @ \o New]
    /\ UNCHANGED <<vars, log, output>>

\* Mutant of Poll: only "ready" ends the stream.
PollUntilReady ==
    /\ reader.st = "open"
    /\ LET over == row[Followed] = "ready" IN
       /\ \/ over \/ New # <<>> \/ row[Followed] # stream.status
       /\ stream' = IF over THEN NoStream
                    ELSE [stream EXCEPT !.sent = @ + Len(New), !.status = row[Followed]]
       /\ reader' = [reader EXCEPT !.shown = @ \o New,
                                   !.st = IF over THEN StreamOver ELSE @,
                                   !.ends = IF over THEN @ + 1 ELSE @]
    /\ UNCHANGED <<vars, log, output>>

\* One round of _stream that sends something: the new end of the log, a new
\* status, and after "ready" or "failed" the last event.
Poll ==
    /\ reader.st = "open"
    /\ LastEvent \/ New # <<>> \/ row[Followed] # stream.status
    /\ stream' = IF LastEvent THEN NoStream
                 ELSE [stream EXCEPT !.sent = @ + Len(New), !.status = row[Followed]]
    /\ reader' = [reader EXCEPT !.shown = @ \o New,
                                !.st = IF LastEvent THEN StreamOver ELSE @,
                                !.ends = IF LastEvent THEN @ + 1 ELSE @]
    /\ UNCHANGED <<vars, log, output>>

\* The panel does not clear what it has shown when its EventSource reconnects.
Reconnect ==
    /\ reader.st = "lost"
    /\ reader.opened < MaxStreams
    /\ reader' = [reader EXCEPT !.st = "open", !.opened = @ + 1]
    /\ UNCHANGED <<vars, log, output, stream>>

\* The stream dies with the API.
DieWithApi ==
    /\ ApiDies
    /\ stream' = NoStream
    /\ reader' = IF reader.st = "open" THEN [reader EXCEPT !.st = StreamOver] ELSE reader
    /\ UNCHANGED <<log, output>>

-----------------------------------------------------------------------------

FollowNext == PipelineStep \/ Follow \/ Poll \/ Reconnect \/ DieWithApi

\* As in Publish; and the stream polls, the reader reads.
FollowSpec ==
    /\ FollowInit /\ [][FollowNext]_allVars
    /\ WF_allVars(PublishStep(Followed) /\ PipelineStep)
    /\ WF_allVars(PromoteStep(Followed) /\ PipelineStep)
    /\ WF_allVars(Poll \/ Reconnect)

-----------------------------------------------------------------------------

FollowTypeOK ==
    /\ TypeOK
    /\ log \in Seq({"line", "host", "path", "alias"})
    /\ output \in {<<>>} \cup Outputs
    /\ stream \in [status : {""} \cup InFlight \cup Ended, sent : Nat]
    /\ reader \in [st : {"idle", "open", "lost", "done"}, shown : Seq({"line", "host", "path", "alias"}),
                   ends : 0..MaxStreams, opened : 0..MaxStreams]
    /\ stream # NoStream => reader.st = "open"

\* Whoever has followed a deployment to its end has been shown its whole log,
\* each line once and in order, although the stream compares lengths and the
\* column is overwritten while it does.  Not so when the build prints the path
\* of the workspace: what the stream has sent is longer than what replaces it.
TailComplete ==
    reader.st = "done" /\ reader.ends = 1 /\ output # HostPath \o Line =>
        reader.shown = log

\* `polaris publish` returns: every stream ends, whatever becomes of the
\* deployment, as long as the API lives and its transactions commit.
FollowerReturns ==
    reader.st = "open" ~> reader.st # "open" \/ dbFaults > 0 \/ deaths > 0

\* deploy.py:212: the event of the end is "terminal": a reader gets one.
TerminalOnce == reader.ends <= 1
=============================================================================
