---------------------------- MODULE RunSupervisor ----------------------------
(***************************************************************************)
(* RunSupervisor: the component that starts runs on a provider, pumps the  *)
(* provider's single event stream into one bounded channel per run, lets a *)
(* consumer task per channel write what happened to the database, and      *)
(* reattaches to runs whose fate it lost.                                  *)
(*                                                                         *)
(* A step is what a task does between two awaits or under one lock of      *)
(* Inner.state; adjacent locks with nothing awaited between them are one   *)
(* step.  Everything in Inner is lost in a crash, the tables of RunTables  *)
(* and the timeline are not.  The provider (the RunHarness port) is        *)
(* external: it accepts or refuses a start, emits events for runs it       *)
(* accepted in any order, and may leave the outcome of any call unknown.   *)
(* A store call may fail without effect (StoreFault).                      *)
(*                                                                         *)
(* Abstractions: an event is an item, a request for approval or a terminal *)
(* state; a batch carries one item, so the stream cursor of a run is the   *)
(* length of its timeline (batches and deltas are in TimelineProjection,   *)
(* receipts in AppStore).  The broadcast to the user interface and         *)
(* user-input requests are left out.                                       *)
(***************************************************************************)
EXTENDS SupervisorState

CONSTANTS
    Clients,             \* concurrent callers of the supervisor's API
    Calls,               \* the calls they make: reconcile, command, resolve
    EmitKinds,           \* the kinds of event the provider may emit
    MaxStoreFaults,      \* bound: store calls that fail
    MaxPumpFailures,     \* bound: times the event stream breaks
    MaxCrashes           \* bound: times the application stops and restarts

ASSUME SupervisorAssumption ==
    /\ EmitKinds \subseteq {"item", "approval"} \cup Terminal
    /\ {MaxStoreFaults, MaxPumpFailures, MaxCrashes} \subseteq Nat
    /\ Clients \cap {"starter", "pump", "marker"} = {}

VARIABLES
    timeline,    \* timeline_items of each run: the events applied, in order
    state,       \* Inner.state
    pumpHandle,  \* Inner.pump is Some
    task,        \* the start task, the pump, its clean-up, and the API calls
    affected,    \* runs a broken pump still has to mark
    consumers,   \* the consume_run tasks and their channels
    startup,     \* progress of reconcile_startup
    page,        \* the runs reconcile_startup has still to look at
    provider,    \* external: what the provider knows of each run
    sent,        \* external: the kinds of the events it emitted for each run
    stream,      \* external: emitted, not yet taken by next_event
    answers,     \* external: the decisions it received for each approval
    faults       \* how often each kind of failure has happened

storeVars == <<tableVars, timeline, faults>>
pumpVars == <<pumpHandle, affected>>
bootVars == <<startup, page>>
backVars == <<pumpVars, bootVars>>
innerVars == <<state, task, consumers, backVars>>
providerVars == <<provider, sent, stream, answers>>
vars == <<storeVars, innerVars, providerVars>>

-----------------------------------------------------------------------------
KindOf(e) == sent[e.from][e.n]

(* The tasks and what each carries from one await to the next: the run,    *)
(* the status it read, the channel it sends to, the events it has still to *)
(* send, and the approval and decision it is about.                        *)
Tasks == {"starter", "pump", "marker"} \cup Clients

(* After ensure_event_pump a task goes on to one of these.                 *)
AfterPump == [pumpCall |-> "call", pumpSend |-> "send", pumpPick |-> "pick",
              pumpCollect |-> "collect"]

Steps == DOMAIN AfterPump \cup
    {"idle", "next", "take", "register", "call", "calling", "bind", "route",
     "markFailed", "markUnknown", "retain", "retainMark", "attach", "send",
     "pick", "retainSend", "close", "mark", "markWrite", "lost", "lostWrite",
     "reconnect", "attached", "load", "prepare", "promote", "unroute",
     "activate", "collect", "commanding", "unknown", "unknownWrite", "flag",
     "begin", "remember", "respond", "confirm", "forget"}

Task == [pc : Steps, run : Runs \cup {None},
         seen : RunStatus \cup {None}, chan : Consumers \cup {None},
         todo : Seq(Event), overflow : BOOLEAN,
         approval : Approvals \cup {None}, decision : Decisions \cup {None},
         restored : [Approvals -> Decisions \cup {None, "asked"}]]

Blank == [pc |-> "idle", run |-> None, seen |-> None, chan |-> None,
          todo |-> <<>>, overflow |-> FALSE, approval |-> None,
          decision |-> None, restored |-> [a \in Approvals |-> None]]

(* A consumer: prepared (its receiver is held by whoever made the route),  *)
(* waiting in recv, applying an event, or done (its receiver is dropped).  *)
Consumer == [pc : {"done", "prepared", "recv", "append", "record", "register",
                   "terminal", "fail", "failWrite", "close"},
             run : Runs \cup {None}, queue : Seq(Event),
             event : Event \cup {None}, cursor : Nat,
             seen : RunStatus \cup {None}]

Finished == [pc |-> "done", run |-> None, queue |-> <<>>, event |-> None,
             cursor |-> 0, seen |-> None]

(* The variables have their types.                                         *)
TypeOK ==
    /\ TablesTypeOK
    /\ timeline \in [Runs -> Seq(1..MaxEvents)]
    /\ state \in State
    /\ pumpHandle \in BOOLEAN
    /\ task \in [Tasks -> Task]
    /\ affected \subseteq Runs
    /\ consumers \in [Consumers -> Consumer]
    /\ startup \in {"reconciling", "activating", "ready", "failed"}
    /\ page \subseteq Runs
    /\ provider \in [Runs -> {"none", "requested", "live", "ended", "refused"}]
    /\ sent \in [Runs -> Seq(EmitKinds)]
    /\ stream \in Seq(Event)
    /\ answers \in [Approvals -> SUBSET Decisions]
    /\ faults \in [store : 0..MaxStoreFaults, pump : 0..MaxPumpFailures,
                   crash : 0..MaxCrashes]

Init ==
    /\ TablesInit
    /\ timeline = [r \in Runs |-> <<>>]
    /\ state = EmptyState
    /\ pumpHandle = FALSE
    /\ task = [t \in Tasks |-> Blank]
    /\ affected = {}
    /\ consumers = [c \in Consumers |-> Finished]
    /\ startup = "ready"
    /\ page = {}
    /\ provider = [r \in Runs |-> "none"]
    /\ sent = [r \in Runs |-> <<>>]
    /\ stream = <<>>
    /\ answers = [a \in Approvals |-> {}]
    /\ faults = [store |-> 0, pump |-> 0, crash |-> 0]

-----------------------------------------------------------------------------
(* active_run: the run can be commanded.                                   *)
ActiveRun(r) ==
    /\ r \notin state.uncertainRuns
    /\ r \in state.runs
    /\ r \in state.workItems

-----------------------------------------------------------------------------
(* Steps of tasks, store calls and channels.                               *)

At(t, pc) == task[t].pc = pc

Starter == task["starter"]

Go(t, pc) == task' = [task EXCEPT ![t].pc = pc]

(* A task that is through: the pump goes back to next_event.               *)
Done(t) == task' = [task EXCEPT ![t] =
                      IF t = "pump" THEN [Blank EXCEPT !.pc = "next"] ELSE Blank]

StoreFault ==
    /\ faults.store < MaxStoreFaults
    /\ faults' = [faults EXCEPT !.store = @ + 1]

(* A transition_run that returns an error.                                 *)
TransitionFails(r, from, to, p) ==
    /\ \/ ~TransitionAllowed(r, from, to, p) /\ UNCHANGED faults
       \/ StoreFault
    /\ UNCHANGED tableVars

(* A transition whose result is ignored.                                   *)
TryTransition(r, from, to, p) ==
    \/ TransitionRun(r, from, to, p) /\ UNCHANGED faults
    \/ TransitionFails(r, from, to, p)

(* A store read whose error is handled like a missing answer.              *)
ReadFails == StoreFault /\ UNCHANGED tableVars

(* A channel lives as long as a route or a task holds its sender; it takes *)
(* an event while the receiver is there and the queue is not full.         *)
SenderAlive(c) ==
    (\E r \in Runs : state.routes[r] = c) \/ (\E t \in Tasks : task[t].chan = c)

Accepts(c) == consumers[c].pc # "done" /\ Len(consumers[c].queue) < RouteCapacity

Unused(c) == consumers[c].pc = "done" /\ ~SenderAlive(c)

NewConsumer(c, r, pc) ==
    consumers' = [consumers EXCEPT ![c] = [Finished EXCEPT !.pc = pc, !.run = r]]

Enqueue(c, e) ==
    consumers' = [consumers EXCEPT ![c].queue = Append(@, e)]

(* ensure_event_pump, followed by whatever the task does next.             *)
EnsureEventPump(t) ==
    /\ task[t].pc \in DOMAIN AfterPump
    /\ pumpHandle' = TRUE
    /\ task' = [task EXCEPT ![t].pc = AfterPump[@],
                            !["pump"] = IF pumpHandle THEN @
                                        ELSE [Blank EXCEPT !.pc = "next"]]
    /\ UNCHANGED <<storeVars, state, consumers, affected, bootVars,
                   providerVars>>

-----------------------------------------------------------------------------
(* start_run_owned, one at a time under start_lock.                        *)

StartRun(r) ==
    /\ startup = "ready"
    /\ At("starter", "idle")
    /\ CreateRun(r)
    /\ task' = [task EXCEPT !["starter"].pc = "register", !["starter"].run = r]
    /\ UNCHANGED <<timeline, faults, state, consumers, backVars, providerVars>>

RegisterStart ==
    /\ At("starter", "register")
    /\ state' = [state EXCEPT !.workItems = @ \cup {Starter.run},
                              !.startInProgress = Starter.run,
                              !.pendingEvents = <<>>,
                              !.pendingOverflow = FALSE]
    /\ Go("starter", "pumpCall")
    /\ UNCHANGED <<storeVars, consumers, backVars, providerVars>>

CallStart ==
    /\ At("starter", "call")
    /\ provider' = [provider EXCEPT ![Starter.run] = "requested"]
    /\ Go("starter", "calling")
    /\ UNCHANGED <<storeVars, state, consumers, backVars, sent, stream,
                   answers>>

StartAccepted ==
    /\ At("starter", "calling")
    /\ provider[Starter.run] \in {"live", "ended"}
    /\ Go("starter", "bind")
    /\ UNCHANGED <<storeVars, state, consumers, backVars, providerVars>>

(* The outcome is unknown: the provider has the run, or will, or never.    *)
StartUnknown ==
    /\ At("starter", "calling")
    /\ state' = RetainUnknownHandshake(state, Starter.run)
    /\ Go("starter", "markUnknown")
    /\ UNCHANGED <<storeVars, consumers, backVars, providerVars>>

StartRejected ==
    LET r == Starter.run IN
    /\ At("starter", "calling")
    /\ provider[r] = "requested"
    /\ provider' = [provider EXCEPT ![r] = "refused"]
    /\ state' = CloseRun(FinishHandshake(state), r)
    /\ Go("starter", "markFailed")
    /\ UNCHANGED <<storeVars, consumers, backVars, sent, stream, answers>>

(* A mutant of MarkStart: the end of a start is not written down.          *)
MarkStartForgotten ==
    /\ At("starter", "markUnknown") \/ At("starter", "markFailed")
    /\ Done("starter")
    /\ UNCHANGED <<storeVars, state, consumers, backVars, providerVars>>

MarkStart ==
    /\ \/ /\ At("starter", "markUnknown")
          /\ TryTransition(Starter.run, "starting", "outcome_unknown", None)
       \/ /\ At("starter", "markFailed")
          /\ TryTransition(Starter.run, "starting", "failed", None)
    /\ Done("starter")
    /\ UNCHANGED <<timeline, state, consumers, backVars, providerVars>>

BindStart ==
    LET r == Starter.run IN
    /\ At("starter", "bind")
    /\ \/ /\ TransitionRun(r, "starting", "running", r)
          /\ Go("starter", "route")
          /\ UNCHANGED faults
       \/ /\ TransitionFails(r, "starting", "running", r)
          /\ Go("starter", "retain")
    /\ UNCHANGED <<timeline, state, consumers, backVars, providerVars>>

(* The run gets its route; the events buffered for it are taken along and  *)
(* are sent only after the lock is released.                               *)
RouteStart(c) ==
    LET r == Starter.run IN
    /\ At("starter", "route")
    /\ Unused(c)
    /\ state' = [FinishHandshake(state) EXCEPT
                    !.routes[r] = c, !.runs = @ \cup {r},
                    !.runsByProvider = @ \cup {r}]
    /\ NewConsumer(c, r, "recv")
    /\ task' = [task EXCEPT !["starter"].pc = "pumpSend",
                            !["starter"].chan = c,
                            !["starter"].todo = EventsOf(state.pendingEvents, r),
                            !["starter"].overflow = state.pendingOverflow]
    /\ UNCHANGED <<storeVars, backVars, providerVars>>

(* Buffered events go to the channel one by one; a full or closed channel, *)
(* or events lost before, end in handle_route_overflow.                    *)
Send(t) ==
    LET c == task[t].chan
        todo == task[t].todo IN
    /\ At(t, "send")
    /\ \/ /\ task[t].overflow
          /\ Go(t, "close")
          /\ UNCHANGED consumers
       \/ /\ ~task[t].overflow
          /\ todo = <<>>
          /\ Done(t)
          /\ UNCHANGED consumers
       \/ /\ ~task[t].overflow
          /\ todo # <<>>
          /\ \/ /\ Accepts(c)
                /\ Enqueue(c, Head(todo))
                /\ task' = [task EXCEPT ![t].todo = Tail(@)]
             \/ /\ ~Accepts(c)
                /\ Go(t, "close")
                /\ UNCHANGED consumers
    /\ UNCHANGED <<storeVars, state, backVars, providerVars>>

(* handle_route_overflow: close_run, then get_run, then the transition.    *)
OverflowClose(t) ==
    /\ At(t, "close")
    /\ state' = CloseRun(state, task[t].run)
    /\ task' = [task EXCEPT ![t].pc = "mark", ![t].todo = <<>>]
    /\ UNCHANGED <<storeVars, consumers, backVars, providerVars>>

Mark(t) ==
    /\ At(t, "mark")
    /\ \/ /\ task' = [task EXCEPT ![t].pc = "markWrite",
                                  ![t].seen = runStatus[task[t].run]]
          /\ UNCHANGED <<tableVars, faults>>
       \/ ReadFails /\ Done(t)
    /\ UNCHANGED <<timeline, state, consumers, backVars, providerVars>>

(* A mutant of Downgraded: lost events count as a failure of the run.      *)
DowngradedToFailed(s) == "failed"

(* What becomes of a run that lost its events.                             *)
Downgraded(s) == IF s = "starting" THEN "outcome_unknown" ELSE "disconnected"

MarkWrite(t) ==
    LET seen == task[t].seen IN
    /\ At(t, "markWrite")
    /\ IF seen \in {"starting", "running"}
       THEN TryTransition(task[t].run, seen, Downgraded(seen), None)
       ELSE UNCHANGED <<tableVars, faults>>
    /\ Done(t)
    /\ UNCHANGED <<timeline, state, consumers, backVars, providerVars>>

-----------------------------------------------------------------------------
(* retain_uncertain_start: the provider took the run but the database did  *)
(* not, so the run becomes outcome_unknown and yet gets a route.  It also  *)
(* asks the provider to interrupt the run and ignores the answer; what the *)
(* provider then does it may do unasked in this model.  The code holds the *)
(* lock while it sends; other tasks may come in between here, which only   *)
(* adds behaviours.                                                        *)

Retain ==
    LET r == Starter.run IN
    /\ At("starter", "retain")
    /\ state' = FinishHandshake(state)
    /\ task' = [task EXCEPT !["starter"].pc = "retainMark",
                            !["starter"].todo = EventsOf(state.pendingEvents, r),
                            !["starter"].overflow = state.pendingOverflow]
    /\ UNCHANGED <<storeVars, consumers, backVars, providerVars>>

RetainMark ==
    LET r == Starter.run IN
    /\ At("starter", "retainMark")
    /\ TryTransition(r, "starting", "outcome_unknown", r)
    /\ Go("starter", "attach")
    /\ UNCHANGED <<timeline, state, consumers, backVars, providerVars>>

(* attach_route: prepare_route and activate_route with nothing restored.   *)
AttachRoute(c) ==
    LET r == Starter.run IN
    /\ At("starter", "attach")
    /\ \/ /\ Unused(c)
          /\ state' = [PrepareRoute(state, r, c, NoRequests) EXCEPT
                          !.uncertainRuns = @ \ {r}]
          /\ NewConsumer(c, r, "recv")
          /\ Go("starter", "pumpPick")
          /\ UNCHANGED <<tableVars, faults>>
       \/ /\ ReadFails
          /\ Go("starter", "pick")
          /\ UNCHANGED <<state, consumers>>
    /\ UNCHANGED <<timeline, backVars, providerVars>>

RetainPick ==
    LET c == state.routes[Starter.run] IN
    /\ At("starter", "pick")
    /\ task' = [task EXCEPT !["starter"].chan = c,
                            !["starter"].pc = IF c = None THEN "flag" ELSE "retainSend"]
    /\ UNCHANGED <<storeVars, state, consumers, backVars, providerVars>>

(* A channel that is full or closed silently ends the loop.                *)
RetainSend ==
    LET c == Starter.chan
        todo == Starter.todo IN
    /\ At("starter", "retainSend")
    /\ \/ /\ todo # <<>>
          /\ Accepts(c)
          /\ Enqueue(c, Head(todo))
          /\ task' = [task EXCEPT !["starter"].todo = Tail(@)]
       \/ /\ todo = <<>> \/ ~Accepts(c)
          /\ task' = [task EXCEPT !["starter"].pc = "flag",
                                  !["starter"].chan = None,
                                  !["starter"].todo = <<>>]
          /\ UNCHANGED consumers
    /\ UNCHANGED <<storeVars, state, backVars, providerVars>>

(* The run may not be commanded until it is reconciled: the end of         *)
(* retain_uncertain_start and of a call with an unknown outcome.           *)
FlagUncertain(t) ==
    /\ At(t, "flag")
    /\ state' = [state EXCEPT !.uncertainRuns = @ \cup {task[t].run}]
    /\ IF task[t].overflow THEN Go(t, "close") ELSE Done(t)
    /\ UNCHANGED <<storeVars, consumers, backVars, providerVars>>

-----------------------------------------------------------------------------
(* The event pump: next_event and route_event.                             *)

(* An event for a run with a route goes to its channel.                    *)
PumpDeliver ==
    LET e == Head(stream)
        c == state.routes[e.from] IN
    /\ At("pump", "next")
    /\ stream # <<>>
    /\ c # None
    /\ \/ Accepts(c) /\ Enqueue(c, e) /\ UNCHANGED task
       \/ /\ ~Accepts(c)
          /\ UNCHANGED consumers
          /\ IF e.from \in state.runsByProvider \cap state.workItems
             THEN task' = [task EXCEPT
                    !["pump"].pc = IF consumers[c].pc = "done" THEN "lost" ELSE "close",
                    !["pump"].run = e.from]
             ELSE UNCHANGED task
    /\ stream' = Tail(stream)
    /\ UNCHANGED <<storeVars, state, backVars, provider, sent, answers>>

PumpBuffer ==
    /\ At("pump", "next")
    /\ stream # <<>>
    /\ state.routes[Head(stream).from] = None
    /\ state' \in BufferHandshakeEvent(state, Head(stream))
    /\ stream' = Tail(stream)
    /\ UNCHANGED <<storeVars, task, consumers, backVars, provider, sent,
                   answers>>

(* transition_to_disconnected, when the receiver is gone.                  *)
Disconnect ==
    /\ \/ /\ At("pump", "lost")
          /\ \/ /\ task' = [task EXCEPT !["pump"].pc = "lostWrite",
                                        !["pump"].seen = runStatus[task["pump"].run]]
                /\ UNCHANGED <<tableVars, faults>>
             \/ ReadFails /\ Done("pump")
       \/ /\ At("pump", "lostWrite")
          /\ IF task["pump"].seen \in {"starting", "running"}
             THEN TryTransition(task["pump"].run, task["pump"].seen,
                                "disconnected", None)
             ELSE UNCHANGED <<tableVars, faults>>
          /\ Done("pump")
    /\ UNCHANGED <<timeline, state, consumers, backVars, providerVars>>

(* handle_pump_failure: everything is cleared, then the handle is taken,   *)
(* then the runs that were routed are marked one after the other.          *)
PumpFail ==
    /\ At("pump", "next")
    /\ faults.pump < MaxPumpFailures
    /\ faults' = [faults EXCEPT !.pump = @ + 1]
    /\ affected' = affected \cup (state.runs \cap state.workItems)
    /\ state' = EmptyState
    /\ Go("pump", "take")
    /\ UNCHANGED <<tableVars, timeline, consumers, pumpHandle, bootVars,
                   providerVars>>

PumpTake ==
    /\ At("pump", "take")
    /\ pumpHandle' = FALSE
    /\ task' = [task EXCEPT !["pump"] = Blank]
    /\ UNCHANGED <<storeVars, state, consumers, affected, bootVars,
                   providerVars>>

MarkAffected(r) ==
    /\ r \in affected
    /\ At("marker", "idle")
    /\ ~At("pump", "take")
    /\ affected' = affected \ {r}
    /\ task' = [task EXCEPT !["marker"].pc = "mark", !["marker"].run = r]
    /\ UNCHANGED <<storeVars, state, consumers, pumpHandle, bootVars,
                   providerVars>>

-----------------------------------------------------------------------------
(* consume_run and apply_event.  Taking an event and the read that follows *)
(* it (the stream cursor, the status of the run) are one step.             *)

ConsumerAt(c, pc) == consumers[c].pc = pc

ConsumerGo(c, pc) ==
    consumers' = [consumers EXCEPT ![c].pc = pc, ![c].event = None,
                                   ![c].cursor = 0, ![c].seen = None]

AfterTake(kind) == CASE kind = "item" -> "append"
                     [] kind = "approval" -> "record"
                     [] OTHER -> "terminal"

TakeEvent(c) ==
    LET e == Head(consumers[c].queue) IN
    /\ ConsumerAt(c, "recv")
    /\ consumers[c].queue # <<>>
    /\ \/ /\ consumers' = [consumers EXCEPT
                ![c].queue = Tail(@), ![c].event = e,
                ![c].pc = AfterTake(KindOf(e)),
                ![c].cursor = IF KindOf(e) = "item"
                              THEN Len(timeline[consumers[c].run]) ELSE 0,
                ![c].seen = IF IsTerminal(KindOf(e))
                            THEN runStatus[consumers[c].run] ELSE None]
          /\ UNCHANGED <<tableVars, faults>>
       \/ /\ KindOf(e) # "approval"
          /\ ReadFails
          /\ consumers' = [consumers EXCEPT ![c].queue = Tail(@), ![c].pc = "fail"]
    /\ UNCHANGED <<timeline, state, task, backVars, providerVars>>

(* A mutant of AppendItem: an append whose reply is lost is sent again     *)
(* without regard to the cursor.                                           *)
AppendItemAgain(c) ==
    LET r == consumers[c].run IN
    /\ ConsumerAt(c, "append")
    /\ timeline' = [timeline EXCEPT ![r] = Append(@, consumers[c].event.n)]
    /\ \/ ConsumerGo(c, "recv") /\ UNCHANGED faults
       \/ StoreFault /\ UNCHANGED consumers
    /\ UNCHANGED <<tableVars, state, task, backVars, providerVars>>

(* append_timeline_batch from the cursor that was read.                    *)
AppendItem(c) ==
    LET r == consumers[c].run IN
    /\ ConsumerAt(c, "append")
    /\ \/ /\ consumers[c].cursor = Len(timeline[r])
          /\ timeline' = [timeline EXCEPT ![r] = Append(@, consumers[c].event.n)]
          /\ ConsumerGo(c, "recv")
          /\ UNCHANGED faults
       \/ /\ \/ consumers[c].cursor # Len(timeline[r]) /\ UNCHANGED faults
             \/ StoreFault
          /\ ConsumerGo(c, "fail")
          /\ UNCHANGED timeline
    /\ UNCHANGED <<tableVars, state, task, backVars, providerVars>>

RecordApproval(c) ==
    LET r == consumers[c].run
        n == consumers[c].event.n IN
    /\ ConsumerAt(c, "record")
    /\ \/ /\ \E a \in Approvals : RecordPendingApproval(a, r, n)
          /\ consumers' = [consumers EXCEPT ![c].pc = "register"]
          /\ UNCHANGED faults
       \/ /\ \/ UNCHANGED faults /\ runStatus[r] # "running"
             \/ StoreFault
          /\ ConsumerGo(c, "fail")
          /\ UNCHANGED tableVars
    /\ UNCHANGED <<timeline, state, task, backVars, providerVars>>

RegisterApproval(c) ==
    LET mine == {a \in Approvals : /\ approval[a].run = consumers[c].run
                                   /\ approval[a].request = consumers[c].event.n} IN
    /\ ConsumerAt(c, "register")
    /\ state' = [state EXCEPT !.approvals = @ \cup mine]
    /\ ConsumerGo(c, "recv")
    /\ UNCHANGED <<storeVars, task, backVars, providerVars>>

(* transition_to_terminal from the status that was read.                   *)
ApplyTerminal(c) ==
    LET r == consumers[c].run
        kind == KindOf(consumers[c].event) IN
    /\ ConsumerAt(c, "terminal")
    /\ \/ /\ TransitionRun(r, consumers[c].seen, kind, None)
          /\ ConsumerGo(c, "close")
          /\ UNCHANGED faults
       \/ /\ TransitionFails(r, consumers[c].seen, kind, None)
          /\ ConsumerGo(c, "fail")
    /\ UNCHANGED <<timeline, state, task, backVars, providerVars>>

(* An event that cannot be applied ends the consumer.                      *)
ConsumerFails(c) ==
    LET r == consumers[c].run IN
    /\ \/ /\ ConsumerAt(c, "fail")
          /\ \/ /\ consumers' = [consumers EXCEPT
                      ![c].seen = runStatus[r],
                      ![c].pc = IF runStatus[r] \in {"starting", "running"}
                                THEN "failWrite" ELSE "close"]
                /\ UNCHANGED <<tableVars, faults>>
             \/ ReadFails /\ ConsumerGo(c, "close")
       \/ /\ ConsumerAt(c, "failWrite")
          /\ TryTransition(r, consumers[c].seen, "outcome_unknown", None)
          /\ ConsumerGo(c, "close")
    /\ UNCHANGED <<timeline, state, task, backVars, providerVars>>

(* A mutant of ChannelEnds: only a restart ends the consumer.              *)
ChannelEndsAtRestart(c) ==
    /\ startup # "ready"
    /\ ConsumerAt(c, "recv")
    /\ consumers[c].queue = <<>>
    /\ ~SenderAlive(c)
    /\ ConsumerGo(c, "close")
    /\ UNCHANGED <<storeVars, state, task, backVars, providerVars>>

(* recv returns None: nobody holds the sender and the queue is empty.      *)
ChannelEnds(c) ==
    /\ ConsumerAt(c, "recv")
    /\ consumers[c].queue = <<>>
    /\ ~SenderAlive(c)
    /\ ConsumerGo(c, "close")
    /\ UNCHANGED <<storeVars, state, task, backVars, providerVars>>

(* close_run is by run, whichever route the run has by now; the receiver   *)
(* and what is left in its queue go with the task.                         *)
ConsumerCloses(c) ==
    /\ ConsumerAt(c, "close")
    /\ state' = CloseRun(state, consumers[c].run)
    /\ consumers' = [consumers EXCEPT ![c] = Finished]
    /\ UNCHANGED <<storeVars, task, backVars, providerVars>>

-----------------------------------------------------------------------------
(* reconcile_run.                                                          *)

(* The provider still has the run, or events of it that nobody has taken.  *)
Reconnectable(r) ==
    provider[r] = "live" \/ EventsOf(stream, r) # <<>>

ReconcileRun(t, r) ==
    /\ "reconcile" \in Calls
    /\ startup = "ready"
    /\ At(t, "idle")
    /\ runStatus[r] # "absent"
    /\ task' = [task EXCEPT ![t].pc = "reconnect", ![t].run = r,
                            ![t].seen = runStatus[r]]
    /\ UNCHANGED <<storeVars, state, consumers, backVars, providerVars>>

(* lookup_run or reconnect: found, or not, or the answer is an error.      *)
Reconnect(t) ==
    /\ At(t, "reconnect")
    /\ \/ Reconnectable(task[t].run) /\ Go(t, "attached")
       \/ Done(t)
    /\ UNCHANGED <<storeVars, state, consumers, backVars, providerVars>>

(* reattach_run: a run that is attached is only cleared of doubt.          *)
CheckAttached(t) ==
    /\ At(t, "attached")
    /\ \/ /\ task[t].run \in state.runs
          /\ state' = [state EXCEPT !.uncertainRuns = @ \ {task[t].run}]
          /\ Done(t)
       \/ /\ task[t].run \notin state.runs
          /\ Go(t, "load")
          /\ UNCHANGED state
    /\ UNCHANGED <<storeVars, consumers, backVars, providerVars>>

(* load_requests in prepare_startup_reattach: an error downgrades the run. *)
LoadForReattach(t) ==
    /\ At(t, "load")
    /\ \/ /\ task' = [task EXCEPT ![t].pc = "prepare",
                                  ![t].restored = LoadRequests(task[t].run)]
          /\ UNCHANGED <<tableVars, faults>>
       \/ /\ StoreFault
          /\ IF task[t].seen = "running" /\ runStatus[task[t].run] = "running"
             THEN \/ TransitionRun(task[t].run, "running", "disconnected", None)
                  \/ UNCHANGED tableVars
             ELSE UNCHANGED tableVars
          /\ Done(t)
    /\ UNCHANGED <<timeline, state, consumers, backVars, providerVars>>

PrepareReattach(t, c) ==
    LET r == task[t].run IN
    /\ At(t, "prepare")
    /\ Unused(c)
    /\ state' = PrepareRoute(state, r, c, task[t].restored)
    /\ NewConsumer(c, r, "prepared")
    /\ task' = [task EXCEPT
          ![t].pc = IF task[t].seen = "running" THEN "activate" ELSE "promote",
          ![t].restored = NoRequests,
          ![t].chan = c]
    /\ UNCHANGED <<storeVars, backVars, providerVars>>

(* A refused promotion drops the receiver, then removes the route.         *)
Promote(t) ==
    LET r == task[t].run IN
    /\ At(t, "promote")
    /\ \/ /\ TransitionRun(r, task[t].seen, "running", r)
          /\ Go(t, "activate")
          /\ UNCHANGED <<faults, consumers>>
       \/ /\ TransitionFails(r, task[t].seen, "running", r)
          /\ task' = [task EXCEPT ![t].pc = "unroute", ![t].chan = None]
          /\ consumers' = [consumers EXCEPT ![task[t].chan] = Finished]
    /\ UNCHANGED <<timeline, state, backVars, providerVars>>

Unroute(t) ==
    /\ At(t, "unroute")
    /\ state' = RemoveRouteState(state, task[t].run)
    /\ Done(t)
    /\ UNCHANGED <<storeVars, consumers, backVars, providerVars>>

(* activate_route: the consumer runs and the run may be commanded.         *)
ActivateReattach(t) ==
    /\ At(t, "activate")
    /\ consumers' = [consumers EXCEPT ![task[t].chan].pc = "recv"]
    /\ state' = [state EXCEPT !.uncertainRuns = @ \ {task[t].run}]
    /\ task' = [task EXCEPT ![t].pc = "pumpCollect", ![t].chan = None]
    /\ UNCHANGED <<storeVars, backVars, providerVars>>

(* deliver_uncertain_start_events: what a start of unknown outcome had     *)
(* collected is sent to the route the run has by now.                      *)
CollectUncertain(t) ==
    LET r == task[t].run
        pending == state.uncertainStarts[r]
        c == state.routes[r] IN
    /\ At(t, "collect")
    /\ state' = [state EXCEPT
                    !.uncertainStarts[r] = NotHeld,
                    !.uncertainOrder = Among(@, Runs \ {r})]
    /\ IF ~pending.held THEN Done(t)
       ELSE task' = [task EXCEPT
                ![t].pc = IF c = None THEN "close" ELSE "send",
                ![t].chan = c,
                ![t].todo = EventsOf(pending.events, r),
                ![t].overflow = pending.overflow]
    /\ UNCHANGED <<storeVars, consumers, backVars, providerVars>>

-----------------------------------------------------------------------------
(* steer, interrupt, and resolve_approval.                                 *)

Command(t, r) ==
    /\ "command" \in Calls
    /\ startup = "ready"
    /\ At(t, "idle")
    /\ ActiveRun(r)
    /\ task' = [task EXCEPT ![t].pc = "commanding", ![t].run = r]
    /\ UNCHANGED <<storeVars, state, consumers, backVars, providerVars>>

(* call_harness: an unknown outcome makes the run outcome_unknown.         *)
CommandReturns(t) ==
    /\ At(t, "commanding")
    /\ Done(t) \/ Go(t, "unknown")
    /\ UNCHANGED <<storeVars, state, consumers, backVars, providerVars>>

OutcomeUnknown(t) ==
    LET r == task[t].run IN
    /\ \/ /\ At(t, "unknown")
          /\ \/ /\ task' = [task EXCEPT ![t].pc = "unknownWrite",
                                        ![t].seen = runStatus[r]]
                /\ UNCHANGED <<tableVars, faults>>
             \/ ReadFails /\ Go(t, "flag")
       \/ /\ At(t, "unknownWrite")
          /\ IF CanTransitionTo(task[t].seen, "outcome_unknown")
             THEN TryTransition(r, task[t].seen, "outcome_unknown", None)
             ELSE UNCHANGED <<tableVars, faults>>
          /\ Go(t, "flag")
    /\ UNCHANGED <<timeline, state, consumers, backVars, providerVars>>

(* An approval that is being answered is answered again only with the same *)
(* decision.                                                               *)
ResolveApproval(t, a, d) ==
    LET said == state.responses[a] IN
    /\ "resolve" \in Calls
    /\ startup = "ready"
    /\ At(t, "idle")
    /\ a \in state.approvals
    /\ ActiveRun(approval[a].run)
    /\ said \in {None, d}
    /\ task' = [task EXCEPT ![t] = [Blank EXCEPT
                    !.pc = IF said = None THEN "begin" ELSE "respond",
                    !.run = approval[a].run, !.approval = a, !.decision = d]]
    /\ UNCHANGED <<storeVars, state, consumers, backVars, providerVars>>

BeginResponse(t) ==
    /\ At(t, "begin")
    /\ \/ /\ BeginApprovalResponse(task[t].approval, task[t].decision)
          /\ Go(t, "remember")
          /\ UNCHANGED faults
       \/ /\ \/ approval[task[t].approval].status # "pending" /\ UNCHANGED faults
             \/ StoreFault
          /\ Done(t)
          /\ UNCHANGED tableVars
    /\ UNCHANGED <<timeline, state, consumers, backVars, providerVars>>

RememberResponse(t) ==
    /\ At(t, "remember")
    /\ state' = [state EXCEPT !.responses[task[t].approval] = task[t].decision]
    /\ Go(t, "respond")
    /\ UNCHANGED <<storeVars, consumers, backVars, providerVars>>

(* A mutant of Respond: an unknown outcome counts as taken.                *)
RespondAssumed(t) ==
    LET taken == [answers EXCEPT ![task[t].approval] = @ \cup {task[t].decision}] IN
    /\ At(t, "respond")
    /\ \/ answers' \in {taken, answers} /\ Go(t, "confirm")
       \/ UNCHANGED answers /\ Done(t)
    /\ UNCHANGED <<storeVars, state, consumers, backVars, provider, sent,
                   stream>>

(* respond: taken, refused, or unknown (the provider may have taken it).   *)
Respond(t) ==
    LET taken == [answers EXCEPT ![task[t].approval] = @ \cup {task[t].decision}] IN
    /\ At(t, "respond")
    /\ \/ answers' = taken /\ Go(t, "confirm")
       \/ answers' \in {taken, answers} /\ Go(t, "unknown")
       \/ UNCHANGED answers /\ Done(t)
    /\ UNCHANGED <<storeVars, state, consumers, backVars, provider, sent,
                   stream>>

ConfirmResponse(t) ==
    /\ At(t, "confirm")
    /\ \/ /\ ConfirmApprovalResponse(task[t].approval)
          /\ Go(t, "forget")
          /\ UNCHANGED faults
       \/ /\ \/ /\ approval[task[t].approval].status # "responding"
                /\ UNCHANGED faults
             \/ StoreFault
          /\ Done(t)
          /\ UNCHANGED tableVars
    /\ UNCHANGED <<timeline, state, consumers, backVars, providerVars>>

ForgetApproval(t) ==
    /\ At(t, "forget")
    /\ state' = [state EXCEPT !.approvals = @ \ {task[t].approval},
                              !.responses[task[t].approval] = None]
    /\ Done(t)
    /\ UNCHANGED <<storeVars, consumers, backVars, providerVars>>

-----------------------------------------------------------------------------
(* Restart: reconcile_startup looks at every run whose fate is open, one   *)
(* after the other, before the API answers.  Nothing else runs, so what it *)
(* does about one run is one step; pages only group the runs.              *)

(* A mutant of NeedsReconciliation: only runs the provider is bound to.    *)
NeedsReconciliationIfBound(r) ==
    runStatus[r] \in Unsettled /\ runProvider[r] # None

(* list_runs_needing_reconciliation: every status that is not terminal.    *)
NeedsReconciliation(r) == runStatus[r] \in Unsettled

(* The application stops: Inner is gone, and with it whatever the provider *)
(* had emitted; the provider keeps or loses the runs it had.               *)
Crash ==
    /\ faults.crash < MaxCrashes
    /\ faults' = [faults EXCEPT !.crash = @ + 1]
    /\ state' = EmptyState
    /\ pumpHandle' = FALSE
    /\ task' = [t \in Tasks |-> Blank]
    /\ affected' = {}
    /\ consumers' = [c \in Consumers |-> Finished]
    /\ startup' = "reconciling"
    /\ page' = {r \in Runs : NeedsReconciliation(r)}
    /\ \E lost \in SUBSET {r \in Runs : provider[r] \in {"live", "requested"}} :
          provider' = [r \in Runs |-> IF r \in lost THEN "ended" ELSE provider[r]]
    /\ stream' = <<>>
    /\ UNCHANGED <<tableVars, timeline, sent, answers>>

Prepared == {c \in Consumers : consumers[c].pc = "prepared"}

DropReceivers ==
    consumers' = [c \in Consumers |->
                    IF c \in Prepared THEN Finished ELSE consumers[c]]

(* remove_route_state for every plan made so far.                          *)
WithoutPlans ==
    LET planned == {consumers[c].run : c \in Prepared}
        asks == {a \in state.approvals : approval[a].run \notin planned} IN
    [state EXCEPT
        !.routes = [r \in Runs |-> IF r \in planned THEN None ELSE @[r]],
        !.runsByProvider = @ \ planned, !.runs = @ \ planned,
        !.workItems = @ \ planned, !.approvals = asks,
        !.responses = Only(@, asks), !.uncertainRuns = @ \ planned]

(* The provider does not have the run, cannot say, or was never bound to   *)
(* it.                                                                     *)
StartupDowngrade(r) ==
    LET s == runStatus[r] IN
    /\ startup = "reconciling"
    /\ r \in page
    /\ \/ /\ IF s \in {"starting", "running"}
             THEN TransitionRun(r, s, Downgraded(s), None)
             ELSE UNCHANGED tableVars
          /\ page' = page \ {r}
          /\ UNCHANGED <<faults, state, consumers, startup>>
       \/ /\ s \in {"starting", "running"}
          /\ StoreFault
          /\ startup' = "failed"
          /\ DropReceivers
             \* only a run that is bound to a provider cleans up the plans
          /\ state' = IF runProvider[r] = None THEN state ELSE WithoutPlans
          /\ page' = {}
          /\ UNCHANGED tableVars
    /\ UNCHANGED <<timeline, task, pumpVars, providerVars>>

(* prepare_startup_reattach.                                               *)
StartupPrepare(r, c) ==
    /\ startup = "reconciling"
    /\ r \in page
    /\ runProvider[r] # None
    /\ Reconnectable(r)
    /\ Unused(c)
    /\ IF runStatus[r] = "running" THEN UNCHANGED tableVars
       ELSE TransitionRun(r, runStatus[r], "running", r)
    /\ state' = PrepareRoute(state, r, c, LoadRequests(r))
    /\ NewConsumer(c, r, "prepared")
    /\ page' = page \ {r}
    /\ UNCHANGED <<timeline, faults, task, pumpVars, startup, providerVars>>

(* A store call of prepare_startup_reattach fails: load_requests, after    *)
(* which a running run is downgraded, or the transition; or a page of runs *)
(* cannot be read.                                                         *)
StartupFails ==
    /\ startup = "reconciling"
    /\ StoreFault
    /\ \/ /\ \E r \in page : /\ runStatus[r] = "running"
                             /\ runProvider[r] # None
                             /\ Reconnectable(r)
                             /\ TransitionRun(r, "running", "disconnected", None)
       \/ UNCHANGED tableVars
    /\ startup' = "failed"
    /\ state' = WithoutPlans
    /\ DropReceivers
    /\ page' = {}
    /\ UNCHANGED <<timeline, task, pumpVars, providerVars>>

(* activate_startup_reattach, plan by plan, once every run has been seen.  *)
StartupActivate(c) ==
    /\ startup \in {"reconciling", "activating"}
    /\ page = {}
    /\ c \in Prepared
    /\ consumers' = [consumers EXCEPT ![c].pc = "recv"]
    /\ state' = [state EXCEPT !.uncertainRuns = @ \ {consumers[c].run}]
    /\ pumpHandle' = TRUE
    /\ task' = IF pumpHandle THEN task
               ELSE [task EXCEPT !["pump"] = [Blank EXCEPT !.pc = "next"]]
    /\ startup' = "activating"
    /\ UNCHANGED <<storeVars, affected, page, providerVars>>

StartupDone ==
    /\ startup \in {"reconciling", "activating"}
    /\ page = {}
    /\ Prepared = {}
    /\ startup' = "ready"
    /\ UNCHANGED <<storeVars, state, task, consumers, pumpVars, page,
                   providerVars>>

-----------------------------------------------------------------------------
(* The provider, external.                                                 *)

Accept(r) ==
    /\ provider[r] = "requested"
    /\ provider' = [provider EXCEPT ![r] = "live"]
    /\ UNCHANGED <<storeVars, innerVars, sent, stream, answers>>

Asked == {e \in Event : e.n \in DOMAIN sent[e.from] /\ KindOf(e) = "approval"}

Emit(r, kind) ==
    /\ provider[r] = "live"
    /\ Len(sent[r]) < MaxEvents
    /\ kind = "approval" => Cardinality(Asked) < Cardinality(Approvals)
    /\ sent' = [sent EXCEPT ![r] = Append(@, kind)]
    /\ stream' = Append(stream, [from |-> r, n |-> Len(sent[r]) + 1])
    /\ provider' = IF IsTerminal(kind)
                   THEN [provider EXCEPT ![r] = "ended"] ELSE provider
    /\ UNCHANGED <<storeVars, innerVars, answers>>

-----------------------------------------------------------------------------
StartStep ==
    \/ RegisterStart
    \/ CallStart
    \/ StartAccepted
    \/ StartUnknown
    \/ StartRejected
    \/ MarkStart
    \/ BindStart
    \/ \E c \in Consumers : RouteStart(c) \/ AttachRoute(c)
    \/ Retain
    \/ RetainMark
    \/ RetainPick
    \/ RetainSend

PumpStep ==
    \/ PumpDeliver
    \/ PumpBuffer
    \/ Disconnect
    \/ PumpTake
    \/ \E r \in Runs : MarkAffected(r)

(* The steps several tasks have in common.                                 *)
SharedStep(t) ==
    \/ EnsureEventPump(t)
    \/ Send(t)
    \/ OverflowClose(t)
    \/ Mark(t)
    \/ MarkWrite(t)
    \/ FlagUncertain(t)

ConsumerStep(c) ==
    \/ TakeEvent(c)
    \/ AppendItem(c)
    \/ RecordApproval(c)
    \/ RegisterApproval(c)
    \/ ApplyTerminal(c)
    \/ ConsumerFails(c)
    \/ ChannelEnds(c)
    \/ ConsumerCloses(c)

ClientStep(t) ==
    \/ Reconnect(t)
    \/ CheckAttached(t)
    \/ LoadForReattach(t)
    \/ \E c \in Consumers : PrepareReattach(t, c)
    \/ Promote(t)
    \/ Unroute(t)
    \/ ActivateReattach(t)
    \/ CollectUncertain(t)
    \/ CommandReturns(t)
    \/ OutcomeUnknown(t)
    \/ BeginResponse(t)
    \/ RememberResponse(t)
    \/ Respond(t)
    \/ ConfirmResponse(t)
    \/ ForgetApproval(t)

StartupStep ==
    \/ \E r \in Runs : StartupDowngrade(r)
    \/ \E r \in Runs, c \in Consumers : StartupPrepare(r, c)
    \/ StartupFails
    \/ \E c \in Consumers : StartupActivate(c)
    \/ StartupDone

(* What nobody is obliged to do: users, the provider, and failures.        *)
Environment ==
    \/ \E r \in Runs : StartRun(r)
    \/ \E t \in Clients, r \in Runs : ReconcileRun(t, r) \/ Command(t, r)
    \/ \E t \in Clients, a \in Approvals, d \in Decisions : ResolveApproval(t, a, d)
    \/ \E r \in Runs : Accept(r)
    \/ \E r \in Runs, kind \in EmitKinds : Emit(r, kind)
    \/ PumpFail
    \/ Crash

Next ==
    \/ Environment
    \/ StartStep
    \/ PumpStep
    \/ \E t \in Tasks : SharedStep(t)
    \/ \E c \in Consumers : ConsumerStep(c)
    \/ \E t \in Clients : ClientStep(t)
    \/ StartupStep

Spec == Init /\ [][Next]_vars

(* The runtime polls every task that is ready, the store answers, and a    *)
(* harness call returns: the provider answers, or its process ends and the *)
(* actor settles every pending request.  Requests have no deadline, so a   *)
(* provider that stays silent for ever is excluded by this assumption.     *)
Fairness ==
    /\ WF_vars(StartStep)
    /\ WF_vars(PumpStep)
    /\ \A t \in Tasks : WF_vars(SharedStep(t))
    /\ \A c \in Consumers : WF_vars(ConsumerStep(c))
    /\ \A t \in Clients : WF_vars(ClientStep(t))
    /\ WF_vars(StartupStep)

FairSpec == Spec /\ Fairness

-----------------------------------------------------------------------------
(* The properties.                                                         *)

(* The decision the provider receives for an approval is the one the       *)
(* database holds, whatever is retried, reattached, raced or restarted:    *)
(* resolve_approval writes it before it sends it and never sends another,  *)
(* so a provider cannot be told both yes and no.                           *)
ProviderHearsTheRecordedDecision ==
    \A a \in Approvals : \A d \in answers[a] :
        /\ approval[a].status \in {"responding", "resolved"}
        /\ approval[a].decision = d

(* An approval is resolved only after the provider has taken the decision: *)
(* confirm_approval_response never runs ahead of respond.                  *)
ResolvedMeansDelivered ==
    \A a \in Approvals :
        approval[a].status = "resolved" => approval[a].decision \in answers[a]

(* An event is written to the timeline of its own run at most once, however*)
(* often it changes hands between the handshake buffer, the uncertain      *)
(* starts, the channels and the consumers of two routes.                   *)
TimelineHasEachEventOnce ==
    \A r \in Runs :
        /\ \A i, j \in DOMAIN timeline[r] : timeline[r][i] = timeline[r][j] => i = j
        /\ \A i \in DOMAIN timeline[r] : sent[r][timeline[r][i]] = "item"

(* A run ends with the outcome its provider reported, or failed because    *)
(* its start was refused: no mix-up of events and no failure path of the   *)
(* supervisor invents an outcome.                                          *)
OutcomeIsTheProviders ==
    \A r \in Runs :
        IsTerminal(runStatus[r]) =>
            \/ /\ runStatus[r] = "failed"
               /\ provider[r] = "refused"
            \/ /\ sent[r] # <<>>
               /\ sent[r][Len(sent[r])] = runStatus[r]

(* The maps of State describe the same attached runs: a route without its  *)
(* run could never be closed.                                              *)
RouteMapsAgree ==
    /\ state.runs = state.runsByProvider
    /\ state.runs = {r \in Runs : state.routes[r] # None}
    /\ \A r \in state.runs : consumers[state.routes[r]].run \in {r, None}

(* The queue of uncertain starts and the map of their events name the same *)
(* runs, each once, and both stay within MAX_UNCERTAIN_STARTS; every       *)
(* buffer stays within ROUTE_CHANNEL_CAPACITY.                             *)
BuffersAreBounded ==
    LET order == state.uncertainOrder IN
    /\ {r \in Runs : state.uncertainStarts[r].held} = {order[i] : i \in DOMAIN order}
    /\ \A i, j \in DOMAIN order : order[i] = order[j] => i = j
    /\ Len(order) <= MaxUncertainStarts
    /\ Len(state.pendingEvents) <= RouteCapacity
    /\ \A r \in Runs : Len(state.uncertainStarts[r].events) <= RouteCapacity
    /\ \A c \in Consumers : Len(consumers[c].queue) <= RouteCapacity

(* What State holds has its type and is consistent at every unlock,        *)
(* however starts, routes and restarts interleave, and no buffer outgrows  *)
(* its bound.                                                              *)
StateIsConsistent == TypeOK /\ RouteMapsAgree /\ BuffersAreBounded

(* When the restart is through, no run is left starting, and a run that is *)
(* running has a route, unless it has just lost it again and some task is  *)
(* about to say so.                                                        *)
Accounted(r) ==
    \/ state.routes[r] # None
    \/ r \in affected
    \/ \E t \in Tasks : task[t].run = r
    \/ \E c \in Consumers : consumers[c].run = r /\ consumers[c].pc # "recv"

RestartAccountsForEveryRun ==
    [][startup # "ready" /\ startup' = "ready" =>
         \A r \in Runs :
            /\ runStatus[r] # "starting"
            /\ runStatus[r] = "running" => Accounted(r)]_vars

(* The supervisor keeps the promise made about runs and approvals.         *)
ImplementsLifecycle == Lifecycle!Spec

(* As long as the store answers, a start does not stay starting: it is     *)
(* bound, refused or unknown, even if its caller, the pump or the whole    *)
(* application goes away in between.                                       *)
StartSettles ==
    \A r \in Runs : runStatus[r] = "starting" ~> runStatus[r] # "starting"

(* A channel whose senders are gone is drained and its consumer ends.      *)
OrphanedConsumersEnd ==
    \A c \in Consumers :
        (consumers[c].pc = "recv" /\ ~SenderAlive(c)) ~> (consumers[c].pc = "done")

(* As long as the store answers, a terminal event that a consumer has      *)
(* taken finalizes its run.                                                *)
TerminalEventsFinalize ==
    \A r \in Runs :
        (\E c \in Consumers : consumers[c].run = r /\ consumers[c].pc = "terminal")
            ~> IsTerminal(runStatus[r])

=============================================================================
