------------------------- MODULE TimelineProjection -------------------------
(***************************************************************************)
(* How the consumer of one run turns the provider's events into rows of    *)
(* the timeline: deltas are collected in DeltaBuffer and written at the    *)
(* next authoritative event or when the buffer is full, always before that *)
(* event's own row; and how a user's answer to a request for input is sent *)
(* and recorded.                                                           *)
(*                                                                         *)
(* This refines one step of RunSupervisor's consumer.  The run keeps its   *)
(* route throughout; a restart loses the buffer and whatever the provider  *)
(* had emitted, and the consumer goes on with what comes next.  Text is    *)
(* the list of the events it came from.  The provider is external: output  *)
(* of a command comes before its completion, which comes once.             *)
(***************************************************************************)
EXTENDS Integers, SequencesExt

CONSTANTS
    None,
    MaxCommands,     \* bound: commands of the run
    EmitKinds,       \* the kinds of event the provider emits
    BatchChunks,     \* DELTA_BATCH_CHUNKS
    MaxEvents,       \* bound: events the provider emits
    MaxStoreFaults,  \* bound: store calls that fail
    MaxRestarts,     \* bound: restarts of the application
    MaxAnswers       \* bound: answers the user gives to one request

(* The commands, numbered in the order of the provider's ids.              *)
Commands == 1..MaxCommands

CommandKinds == {"command_delta", "command_completed"}

(* FileMutation, Unknown and Malformed are items of the same kind here.    *)
Kinds == CommandKinds \cup {"message_delta", "message_completed", "item",
                            "approval", "user_input", "terminal"}

ASSUME ProjectionAssumption ==
    /\ EmitKinds \subseteq Kinds
    /\ BatchChunks \in Nat \ {0}
    /\ {MaxCommands, MaxEvents, MaxStoreFaults, MaxRestarts, MaxAnswers} \subseteq Nat

VARIABLES
    sent,        \* external: the events emitted so far
    taken,       \* how many of them the consumer has received, or lost
    deltas,      \* DeltaBuffer
    consumer,    \* the consumer's step, and the batch it is writing
    timeline,    \* timeline_items of the run
    approvals,   \* approval_requests of the run, as they were recorded
    status,      \* runs.status
    inputs,      \* State.user_inputs
    uncertain,   \* the run is in State.uncertain_runs
    answer,      \* the respond_user_input call in progress
    answers,     \* external: how often the provider got an answer
    faults       \* store failures and restarts so far

consumerVars == <<taken, deltas, consumer>>
requestVars == <<inputs, uncertain, answer, answers>>
vars == <<sent, consumerVars, timeline, approvals, status, requestVars, faults>>

-----------------------------------------------------------------------------
Index == 1..MaxEvents

(* A row: its kind, the events its body is made of, and the provider's id  *)
(* of the item (a command or a request), which is unique in a run.         *)
RowKinds == {"message_delta_batch", "command_output_delta_batch",
             "message_completed", "command_completed", "item", "user_input",
             "user_input_responded"}

Row == [kind : RowKinds, body : Seq(Index),
        key : ({"command"} \X Commands) \cup ({"request"} \X Index) \cup {None}]

NoDeltas == [chunks |-> 0, message |-> <<>>,
             commands |-> [c \in Commands |-> <<>>]]

Receiving == [pc |-> "recv", batch |-> <<>>, event |-> 0]

Stopped == [Receiving EXCEPT !.pc = "done"]

NoAnswer == [pc |-> "idle", request |-> 0]

(* The variables have their types.                                         *)
TypeOK ==
    /\ sent \in Seq([kind : EmitKinds, command : Commands \cup {None}])
    /\ taken \in 0..Len(sent)
    /\ deltas \in [chunks : 0..BatchChunks, message : Seq(Index),
                   commands : [Commands -> Seq(Index)]]
    /\ consumer \in [pc : {"recv", "append", "record", "terminal", "done"},
                     batch : Seq(Row), event : Index \cup {0}]
    /\ timeline \in Seq(Row)
    /\ approvals \in Seq([request : Index, after : Nat])
    /\ status \in {"running", "completed", "disconnected", "outcome_unknown"}
    /\ inputs \subseteq Index
    /\ uncertain \in BOOLEAN
    /\ answer \in [pc : {"idle", "respond", "append", "forget"},
                   request : Index \cup {0}]
    /\ answers \in [Index -> 0..MaxAnswers]
    /\ faults \in [store : 0..MaxStoreFaults, restart : 0..MaxRestarts]

Init ==
    /\ sent = <<>>
    /\ taken = 0
    /\ deltas = NoDeltas
    /\ consumer = Receiving
    /\ timeline = <<>>
    /\ approvals = <<>>
    /\ status = "running"
    /\ inputs = {}
    /\ uncertain = FALSE
    /\ answer = NoAnswer
    /\ answers = [n \in Index |-> 0]
    /\ faults = [store |-> 0, restart |-> 0]

StoreFault ==
    /\ faults.store < MaxStoreFaults
    /\ faults' = [faults EXCEPT !.store = @ + 1]

-----------------------------------------------------------------------------
(* The provider, external.                                                 *)

Emit(kind, c) ==
    /\ Len(sent) < MaxEvents
    /\ \A n \in DOMAIN sent : sent[n].kind # "terminal"
    /\ IF kind \in CommandKinds
       THEN /\ c \in Commands
            /\ \A n \in DOMAIN sent :
                 sent[n] # [kind |-> "command_completed", command |-> c]
       ELSE c = None
    /\ sent' = Append(sent, [kind |-> kind, command |-> c])
    /\ UNCHANGED <<consumerVars, timeline, approvals, status, requestVars,
                   faults>>

-----------------------------------------------------------------------------
(* DeltaBuffer.                                                            *)

PushMessage(buf, n) ==
    [buf EXCEPT !.chunks = @ + 1, !.message = Append(@, n)]

PushCommand(buf, c, n) ==
    [buf EXCEPT !.chunks = @ + 1, !.commands[c] = Append(@, n)]

(* take_items: one row for the message, then one for each command, in the  *)
(* order of the command ids.                                               *)
RowsOf(kind, text, key) ==
    IF text = <<>> THEN <<>> ELSE <<[kind |-> kind, body |-> text, key |-> key]>>

TakeItems(buf) ==
    RowsOf("message_delta_batch", buf.message, None)
        \o FlattenSeq([c \in Commands |->
               RowsOf("command_output_delta_batch", buf.commands[c], <<"command", c>>)])

(* The provider's id of the row an event makes.                            *)
KeyOf(n) ==
    CASE sent[n].kind = "command_completed" -> <<"command", sent[n].command>>
      [] sent[n].kind = "user_input" -> <<"request", n>>
      [] OTHER -> None

RowOf(n) == [kind |-> sent[n].kind, body |-> <<n>>, key |-> KeyOf(n)]

-----------------------------------------------------------------------------
(* consume_run and apply_event.                                            *)

NextKind == sent[taken + 1].kind

Writing(pc, batch) == [pc |-> pc, batch |-> batch, event |-> taken + 1]

(* A delta is collected; a full buffer is written out.                     *)
TakeDelta ==
    LET n == taken + 1
        buf == IF NextKind = "message_delta" THEN PushMessage(deltas, n)
               ELSE PushCommand(deltas, sent[n].command, n) IN
    /\ consumer.pc = "recv"
    /\ taken < Len(sent)
    /\ NextKind \in {"message_delta", "command_delta"}
    /\ IF buf.chunks >= BatchChunks
       THEN /\ deltas' = NoDeltas
            /\ consumer' = Writing("append", TakeItems(buf))
       ELSE /\ deltas' = buf
            /\ UNCHANGED consumer
    /\ taken' = n
    /\ UNCHANGED <<sent, timeline, approvals, status, requestVars, faults>>

(* A mutant of TakeAuthoritative: an approval or a terminal event does not *)
(* wait for the deltas.                                                    *)
TakeWithoutFlush ==
    LET n == taken + 1
        own == NextKind \notin {"approval", "terminal"} IN
    /\ consumer.pc = "recv"
    /\ taken < Len(sent)
    /\ NextKind \notin {"message_delta", "command_delta"}
    /\ consumer' = IF own
                   THEN Writing("append", Append(TakeItems(deltas), RowOf(n)))
                   ELSE Writing(IF NextKind = "approval" THEN "record"
                                                         ELSE "terminal", <<>>)
    /\ deltas' = IF own THEN NoDeltas ELSE deltas
    /\ inputs' = IF NextKind = "user_input" THEN inputs \cup {n} ELSE inputs
    /\ taken' = n
    /\ UNCHANGED <<sent, timeline, approvals, status, uncertain, answer,
                   answers, faults>>

(* Any other event writes the collected deltas first, then itself; a       *)
(* request for input is open before its row is written.                    *)
TakeAuthoritative ==
    LET n == taken + 1
        rows == TakeItems(deltas)
        own == NextKind \notin {"approval", "terminal"}
        last == IF NextKind = "approval" THEN "record" ELSE "terminal" IN
    /\ consumer.pc = "recv"
    /\ taken < Len(sent)
    /\ NextKind \notin {"message_delta", "command_delta"}
    /\ consumer' = IF own THEN Writing("append", Append(rows, RowOf(n)))
                   ELSE Writing(IF rows = <<>> THEN last ELSE "append", rows)
    /\ deltas' = NoDeltas
    /\ inputs' = IF NextKind = "user_input" THEN inputs \cup {n} ELSE inputs
    /\ taken' = n
    /\ UNCHANGED <<sent, timeline, approvals, status, uncertain, answer,
                   answers, faults>>

(* The constraint of timeline_items: one row per provider item of a run.   *)
KeysAreNew(batch) ==
    \A j \in DOMAIN batch :
        batch[j].key # None =>
            /\ \A i \in DOMAIN timeline : timeline[i].key # batch[j].key
            /\ \A k \in DOMAIN batch \ {j} : batch[k].key # batch[j].key

(* What follows the batch: the next event, or the rest of this one.        *)
AfterAppend ==
    CASE sent[consumer.event].kind = "approval" -> [consumer EXCEPT !.pc = "record", !.batch = <<>>]
      [] sent[consumer.event].kind = "terminal" -> [consumer EXCEPT !.pc = "terminal", !.batch = <<>>]
      [] OTHER -> Receiving

(* The consumer ends with close_run, which forgets the run's requests.     *)
ConsumerStops ==
    /\ consumer' = Stopped
    /\ deltas' = NoDeltas
    /\ inputs' = {}
    /\ uncertain' = FALSE

(* A failed event ends the consumer and leaves the outcome unknown.        *)
ConsumerFails ==
    /\ ConsumerStops
    /\ status' = "outcome_unknown"

AppendBatch ==
    /\ consumer.pc = "append"
    /\ \/ /\ KeysAreNew(consumer.batch)
          /\ timeline' = timeline \o consumer.batch
          /\ consumer' = AfterAppend
          /\ UNCHANGED <<status, inputs, uncertain, deltas, faults>>
       \/ /\ \/ ~KeysAreNew(consumer.batch) /\ UNCHANGED faults
             \/ StoreFault
          /\ ConsumerFails
          /\ UNCHANGED timeline
    /\ UNCHANGED <<sent, taken, approvals, answer, answers>>

(* record_pending_approval refuses a run that is not running.              *)
RecordApproval ==
    /\ consumer.pc = "record"
    /\ \/ /\ status = "running"
          /\ approvals' = Append(approvals, [request |-> consumer.event,
                                             after |-> Len(timeline)])
          /\ consumer' = Receiving
          /\ UNCHANGED <<status, inputs, uncertain, deltas, faults>>
       \/ /\ \/ status # "running" /\ UNCHANGED faults
             \/ StoreFault
          /\ ConsumerFails
          /\ UNCHANGED approvals
    /\ UNCHANGED <<sent, taken, timeline, answer, answers>>

ApplyTerminal ==
    /\ consumer.pc = "terminal"
    /\ \/ /\ status' = "completed"
          /\ ConsumerStops
          /\ UNCHANGED faults
       \/ /\ StoreFault
          /\ ConsumerFails
    /\ UNCHANGED <<sent, taken, timeline, approvals, answer, answers>>

-----------------------------------------------------------------------------
(* respond_user_input: the answer is sent, then recorded, then forgotten.  *)

AnswerInput(n) ==
    /\ answer.pc = "idle"
    /\ n \in inputs
    /\ ~uncertain
    /\ answers[n] < MaxAnswers
    /\ answer' = [pc |-> "respond", request |-> n]
    /\ UNCHANGED <<sent, consumerVars, timeline, approvals, status, inputs,
                   uncertain, answers, faults>>

(* A mutant of RespondInput: an answer of unknown outcome is recorded like *)
(* one that was delivered.                                                 *)
RespondAndHope ==
    LET got == [answers EXCEPT ![answer.request] = @ + 1] IN
    /\ answer.pc = "respond"
    /\ \/ /\ answers' \in {got, answers}
          /\ answer' = [answer EXCEPT !.pc = "append"]
       \/ /\ answer' = NoAnswer
          /\ UNCHANGED answers
    /\ UNCHANGED <<sent, consumerVars, timeline, approvals, status, inputs,
                   uncertain, faults>>

(* The provider has the answer, or refuses it, or the outcome is unknown,  *)
(* which call_harness records.                                             *)
RespondInput ==
    LET got == [answers EXCEPT ![answer.request] = @ + 1] IN
    /\ answer.pc = "respond"
    /\ \/ /\ answers' = got
          /\ answer' = [answer EXCEPT !.pc = "append"]
          /\ UNCHANGED <<status, uncertain>>
       \/ /\ answer' = NoAnswer
          /\ UNCHANGED <<answers, status, uncertain>>
       \/ /\ answers' \in {got, answers}
          /\ answer' = NoAnswer
          /\ status' = IF status = "running" THEN "outcome_unknown" ELSE status
          /\ uncertain' = TRUE
    /\ UNCHANGED <<sent, consumerVars, timeline, approvals, inputs, faults>>

(* reconcile_run of a run that still has its route only clears the doubt.  *)
ClearDoubt ==
    /\ uncertain
    /\ consumer.pc # "done"
    /\ uncertain' = FALSE
    /\ UNCHANGED <<sent, consumerVars, timeline, approvals, status, inputs,
                   answer, answers, faults>>

RecordResponse ==
    /\ answer.pc = "append"
    /\ \/ /\ timeline' = Append(timeline,
                 [kind |-> "user_input_responded", body |-> <<answer.request>>,
                  key |-> None])
          /\ answer' = [answer EXCEPT !.pc = "forget"]
          /\ UNCHANGED faults
       \/ /\ StoreFault
          /\ answer' = NoAnswer
          /\ UNCHANGED timeline
    /\ UNCHANGED <<sent, consumerVars, approvals, status, inputs, uncertain,
                   answers>>

(* A mutant of ForgetInput: everything is forgotten.                       *)
ForgetEveryInput ==
    /\ answer.pc = "forget"
    /\ inputs' = {}
    /\ answer' = NoAnswer
    /\ UNCHANGED <<sent, consumerVars, timeline, approvals, status, uncertain,
                   answers, faults>>

ForgetInput ==
    /\ answer.pc = "forget"
    /\ inputs' = inputs \ {answer.request}
    /\ answer' = NoAnswer
    /\ UNCHANGED <<sent, consumerVars, timeline, approvals, status, uncertain,
                   answers, faults>>

-----------------------------------------------------------------------------
(* list_pending_user_inputs_for_run: requested and not responded.          *)
HasRow(kind, n) ==
    \E i \in DOMAIN timeline : timeline[i].kind = kind /\ timeline[i].body = <<n>>

PendingInputs ==
    {n \in Index : HasRow("user_input", n) /\ ~HasRow("user_input_responded", n)}

(* The application restarts: the deltas and the events in flight are lost. *)
(* A run that is reattached gets its open requests back from the timeline; *)
(* one that cannot be reconnected is disconnected and has no consumer.     *)
Restart ==
    /\ status # "completed"
    /\ faults.restart < MaxRestarts
    /\ faults' = [faults EXCEPT !.restart = @ + 1]
    /\ taken' = Len(sent)
    /\ deltas' = NoDeltas
    /\ \/ consumer' = Receiving /\ inputs' = PendingInputs /\ status' = "running"
       \/ /\ consumer' = Stopped /\ inputs' = {}
          /\ status' = IF status = "running" THEN "disconnected" ELSE status
    /\ uncertain' = FALSE
    /\ answer' = NoAnswer
    /\ UNCHANGED <<sent, timeline, approvals, answers>>

Next ==
    \/ \E kind \in EmitKinds, c \in Commands \cup {None} : Emit(kind, c)
    \/ TakeDelta
    \/ TakeAuthoritative
    \/ AppendBatch
    \/ RecordApproval
    \/ ApplyTerminal
    \/ \E n \in Index : AnswerInput(n)
    \/ RespondInput
    \/ ClearDoubt
    \/ RecordResponse
    \/ ForgetInput
    \/ Restart

Spec == Init /\ [][Next]_vars

-----------------------------------------------------------------------------
(* The properties.                                                         *)

(* The text that the rows of a kind hold, and that of the events received. *)
Text(rows, kind, key) ==
    FlattenSeq([i \in DOMAIN rows |->
        IF rows[i].kind = kind /\ rows[i].key = key THEN rows[i].body ELSE <<>>])

Received(kind, c) ==
    FlattenSeq([n \in 1..taken |->
        IF sent[n] = [kind |-> kind, command |-> c] THEN <<n>> ELSE <<>>])

(* No delta is lost, repeated or reordered on its way through the buffer:  *)
(* what is in the timeline, in the batch being written and in the buffer   *)
(* is, in this order, what was received, as long as nothing has failed.    *)
DeltasAreConserved ==
    consumer.pc # "done" /\ faults.restart = 0 =>
        /\ Text(timeline \o consumer.batch, "message_delta_batch", None) \o deltas.message
           = Received("message_delta", None)
        /\ \A c \in Commands :
             Text(timeline \o consumer.batch, "command_output_delta_batch", <<"command", c>>)
               \o deltas.commands[c]
             = Received("command_delta", c)

(* A run that ended with its provider's outcome has every delta and every  *)
(* item of it in the timeline: the flush comes before the transition.      *)
EndedRunsAreComplete ==
    status = "completed" /\ faults.restart = 0 =>
        \A n \in DOMAIN sent :
            sent[n].kind \notin {"approval", "terminal"} =>
                \E i \in DOMAIN timeline : n \in Range(timeline[i].body)

(* Nothing that a run said is lost between the events and the timeline,    *)
(* neither on the way nor at its end, and the buffers are of their types.  *)
NothingIsLost == TypeOK /\ DeltasAreConserved /\ EndedRunsAreComplete

(* Whoever is asked for approval can see everything that was said before:  *)
(* the deltas before a request are written before the request is recorded, *)
(* in whatever way the buffer was filled.                                  *)
ApprovalsFollowTheirContext ==
    \A k \in DOMAIN approvals :
        faults.restart = 0 =>
        \A n \in 1..(approvals[k].request - 1) :
            sent[n].kind \notin {"approval", "terminal"} =>
                \E i \in 1..approvals[k].after : n \in Range(timeline[i].body)

(* An application that restarts offers exactly the requests that have no   *)
(* recorded response, and one that does not restart offers no fewer.       *)
OpenInputsAreOffered ==
    status = "running" => PendingInputs \subseteq inputs

(* A request is recorded as answered, or taken from the user while the run *)
(* goes on, only if the provider has an answer to it: an answer refused or *)
(* of unknown outcome, a failed write and a restart leave the request      *)
(* open (respond_user_input sends, then records, then forgets).            *)
RecordedAnswersWereSent ==
    \A n \in Index :
        \/ HasRow("user_input_responded", n)
        \/ status = "running" /\ HasRow("user_input", n) /\ n \notin inputs
        => answers[n] > 0

(* What settles a request is an answer the provider got and the timeline   *)
(* records, and nothing else takes the request from the user.              *)
InputsAreSettledByAnswers == OpenInputsAreOffered /\ RecordedAnswersWereSent

(* A provider that sends a command's output as it comes and then completes *)
(* the command finalizes it: the run is not lost on the way.               *)
StreamedCommandsFinalize ==
    consumer.pc = "done" /\ faults.store = 0 => status = "completed"

=============================================================================
