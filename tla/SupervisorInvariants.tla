------------------------- MODULE SupervisorInvariants -------------------------
(***************************************************************************)
(* The invariants of RunSupervisor that its theorems rest on, and what     *)
(* each step may change, in the order in which RunSupervisorProofs uses    *)
(* them: the tables and the approvals; the state under the lock; tasks and *)
(* channels; the provider; where every event is; the restart.              *)
(***************************************************************************)
EXTENDS RunSupervisor

(* What the lemmas need of the tables: of the columns that hold what a     *)
(* provider sent, nothing.                                                 *)
RowsWith(requests) ==
    [status : {"absent", "pending", "responding", "resolved", "voided"},
     run : Runs \cup {None}, request : requests, decision : Decisions \cup {None}]

(* The tables hold such rows.                                              *)
Tabled ==
    /\ runStatus \in [Runs -> RunStatus \cup {"absent"}]
    /\ \E requests : approval \in [Approvals -> RowsWith(requests)]

(* The transactions, with whatever arguments the components pass.          *)
Unconfirming ==
    \/ \E r \in Runs : CreateRun(r)
    \/ \E r \in Runs, to \in RunStatus, p \in Providers \cup {None} :
          TransitionRun(r, runStatus[r], to, p)
    \/ \E a \in Approvals, r \in Runs : \E q : RecordPendingApproval(a, r, q)
    \/ \E a \in Approvals, d \in Decisions : BeginApprovalResponse(a, d)

(* All of them.                                                            *)
Transaction == Unconfirming \/ \E a \in Approvals : ConfirmApprovalResponse(a)

(* The decision that the database holds for an approval.                   *)
Decided(a, d) == approval[a].status \in {"responding", "resolved"} /\ approval[a].decision = d

(* One value of the function, from those before.                           *)
AmongStep(seq, keep, upTo, n) ==
    IF n = 0 THEN <<>>
    ELSE IF seq[n] \in keep THEN Append(upTo[n - 1], seq[n])
    ELSE upTo[n - 1]

(* got has entries of seq at rising places, and every entry of keep up to  *)
(* the place m.                                                            *)
Picks(seq, keep, m, got, at) ==
    /\ at \in [1..Len(got) -> 1..m]
    /\ \A i \in 1..Len(got) : got[i] = seq[at[i]] /\ got[i] \in keep
    /\ \A i, j \in 1..Len(got) : i < j => at[i] < at[j]
    /\ \A k \in 1..m : seq[k] \in keep => \E i \in 1..Len(got) : at[i] = k

(* What a sequence has.                                                    *)
Entries(s) == {s[i] : i \in DOMAIN s}

(* A sequence that has nothing twice.                                      *)
NoRepeats(s) == \A i, j \in DOMAIN s : s[i] = s[j] => i = j

(* The fields of State that the theorems about approvals need.             *)
StateOK(st) ==
    /\ {"routes", "runs", "runsByProvider", "workItems", "approvals", "responses",
        "uncertainRuns", "startInProgress", "pendingEvents", "pendingOverflow",
        "uncertainStarts", "uncertainOrder"} \subseteq DOMAIN st
    /\ st.runs \subseteq Runs
    /\ st.runsByProvider \subseteq Runs
    /\ DOMAIN st.responses = Approvals

(* A state with no answer under way that was not under way in st.          *)
NoNewAnswers(st, new) ==
    /\ StateOK(new)
    /\ \A a \in Approvals : new.responses[a] \in {st.responses[a], None}

(* The fields of a task.                                                   *)
Fields == {"pc", "run", "seen", "chan", "todo", "overflow", "approval", "decision",
           "restored"}

(* A task between two events or calls is about no run.                     *)
Resting == {"idle", "next", "take"}

(* The steps of a reattachment that was not made at a restart.             *)
Reattaching == {"reconnect", "attached", "load", "prepare", "promote", "activate"}

(* Those in which the task holds the receiver of the channel it made.      *)
Holding == {"promote", "activate"}

(* A task has its fields, and is about a run unless it rests.              *)
TasksOK ==
    /\ DOMAIN task = Tasks
    /\ \A t \in Tasks : DOMAIN task[t] = Fields
    /\ \A t \in Tasks : task[t].pc \notin Resting => task[t].run \in Runs

(* A consumer has its fields, and is about a run unless it is done.        *)
ConsumersOK ==
    /\ DOMAIN consumers = Consumers
    /\ \A c \in Consumers : {"pc", "run", "queue", "event", "cursor", "seen"}
                                \subseteq DOMAIN consumers[c]
    /\ \A c \in Consumers : consumers[c].pc # "done" => consumers[c].run \in Runs

(* The receiver of a channel is held by one task, which waits for it; at a *)
(* restart by none.                                                        *)
ReceiversHeld ==
    /\ startup # "ready" => \A t \in Tasks : task[t].pc \notin Reattaching
    /\ \A t \in Tasks : task[t].pc \in Holding =>
          /\ task[t].chan \in Consumers
          /\ consumers[task[t].chan].pc = "prepared"
          /\ \A u \in Tasks \ {t} : task[u].pc \in Holding => task[u].chan # task[t].chan

(* What is known of the runs of tasks and consumers.                       *)
RunsInv == StateOK(state) /\ TasksOK /\ ConsumersOK /\ ReceiversHeld /\ page \subseteq Runs

(* The steps of resolve_approval, and those after the decision is durable. *)
Answering == {"begin", "remember", "respond", "confirm"}

(* The steps at which the decision is in the database.                     *)
Durable == {"remember", "respond", "confirm"}

(* Whatever holds a decision that may be sent, holds the one the database  *)
(* has: the provider itself, the responses under the lock, those restored  *)
(* for a reattachment, and the tasks that send and confirm them.           *)
AnswersInv ==
    /\ DOMAIN answers = Approvals
    /\ ProviderHearsTheRecordedDecision
    /\ ResolvedMeansDelivered
    /\ \A a \in Approvals : state.responses[a] # None => Decided(a, state.responses[a])
    /\ \A t \in Tasks, a \in Approvals :
          task[t].restored[a] \in Decisions => Decided(a, task[t].restored[a])
    /\ \A t \in Tasks : task[t].pc \in Answering =>
          /\ task[t].approval \in Approvals
          /\ task[t].decision \in Decisions
          /\ task[t].pc \in Durable => Decided(task[t].approval, task[t].decision)
          /\ task[t].pc = "confirm" => task[t].decision \in answers[task[t].approval]

(* What a step that confirms nothing may write.                            *)
Written == Unconfirming \/ UNCHANGED tableVars

(* Who ends a run: a start that was refused, and the consumer that applies *)
(* a terminal event.                                                       *)
EndedBy(r, to) ==
    \/ Starter.pc = "markFailed" /\ r = Starter.run /\ to = "failed"
    \/ \E c \in Consumers : /\ consumers[c].pc = "terminal" /\ consumers[c].run = r
                            /\ to = KindOf(consumers[c].event)

(* What a step writes, and for which task or consumer.                     *)
Writes ==
    \/ UNCHANGED tableVars
    \/ \E r \in Runs : CreateRun(r)
    \/ \E r \in Runs, to \in RunStatus, p \in Providers \cup {None} :
          TransitionRun(r, runStatus[r], to, p) /\ (IsTerminal(to) => EndedBy(r, to))
    \/ \E c \in Consumers : RecordApproval(c)
    \/ \E a \in Approvals, d \in Decisions : BeginApprovalResponse(a, d)
    \/ \E t \in Clients : ConfirmResponse(t)

(* The invariant of the approvals.                                         *)
SupervisorInv == Tabled /\ RunsInv /\ AnswersInv

(* The routes are those of the runs that are attached; the order of the    *)
(* uncertain starts names those that are held; the buffers are bounded.    *)
Routed(st) ==
    /\ st.runs = st.runsByProvider
    /\ st.runs = {r \in Runs : st.routes[r] # None}

(* The uncertain starts are the ones of the queue, each once, and no       *)
(* buffer is over its bound.                                               *)
Bounded(st) ==
    /\ {r \in Runs : st.uncertainStarts[r].held} = Entries(st.uncertainOrder)
    /\ NoRepeats(st.uncertainOrder)
    /\ Len(st.uncertainOrder) <= MaxUncertainStarts
    /\ Len(st.pendingEvents) <= RouteCapacity
    /\ \A r \in Runs : Len(st.uncertainStarts[r].events) <= RouteCapacity
    /\ \A r \in Runs : ~st.uncertainStarts[r].held => st.uncertainStarts[r].events = <<>>

(* What holds of State at every unlock.                                    *)
StateInv(st) == st \in State /\ Routed(st) /\ Bounded(st)

(* A sequence that has no more than another.                               *)
Within(new, old) ==
    Entries(new) \subseteq Entries(old) /\ (NoRepeats(old) => NoRepeats(new))

(* A state that has no route, no event and no uncertain start that st does *)
(* not have.                                                               *)
Lessened(st, new) ==
    /\ StateInv(new)
    /\ \A r \in Runs : new.routes[r] \in {st.routes[r], None}
    /\ Within(new.pendingEvents, st.pendingEvents)
    /\ \A r \in Runs : /\ new.uncertainStarts[r].events \in {st.uncertainStarts[r].events, <<>>}
                       /\ new.uncertainStarts[r].held => st.uncertainStarts[r].held

(* A run gets a route; no event is new.                                    *)
RouteAdded(st, new, r, c) ==
    /\ StateInv(new)
    /\ \A q \in Runs : new.routes[q] = IF q = r THEN c ELSE st.routes[q]
    /\ Within(new.pendingEvents, st.pendingEvents)
    /\ new.uncertainStarts = st.uncertainStarts

(* An event finds its place: it goes to the buffer of the start under way, *)
(* or to the end of one uncertain start's, or it is dropped.               *)
Kept(st, new, e) ==
    /\ StateInv(new)
    /\ new.routes = st.routes
    /\ \A r \in Runs : new.uncertainStarts[r].held => st.uncertainStarts[r].held
    /\ \/ /\ new.pendingEvents = Append(st.pendingEvents, e)
          /\ \A r \in Runs : new.uncertainStarts[r].events = st.uncertainStarts[r].events
       \/ /\ new.pendingEvents = st.pendingEvents
          /\ \A r \in Runs : new.uncertainStarts[r].events = st.uncertainStarts[r].events
       \/ /\ new.pendingEvents = st.pendingEvents
          /\ \E h \in Runs : \A r \in Runs : new.uncertainStarts[r].events =
                IF r = h THEN Append(st.uncertainStarts[r].events, e)
                ELSE st.uncertainStarts[r].events

(* An uncertain start is kept with what the handshake had buffered.        *)
Retained(st, new, r) ==
    /\ StateInv(new)
    /\ new.routes = st.routes
    /\ new.pendingEvents = <<>>
    /\ \A q \in Runs : new.uncertainStarts[q].held => q = r \/ st.uncertainStarts[q].held
    /\ \A q \in Runs : IF q = r THEN new.uncertainStarts[q].events = st.pendingEvents
                       ELSE new.uncertainStarts[q].events \in {st.uncertainStarts[q].events, <<>>}

(* A start that is under way is not yet uncertain.                         *)
Starting == {"register", "pumpCall", "call", "calling"}

(* A start in flight is not among the uncertain ones yet.                  *)
StartsOnce ==
    Starter.pc \in Starting => ~state.uncertainStarts[Starter.run].held

(* The runs that tasks and the restart are about.                          *)
Named == page \cup {task[t].run : t \in {u \in Tasks : task[u].pc \notin Resting}}

(* A run gets a route to a consumer that is new.                           *)
RouteMade(r, c) ==
    /\ r \in Named
    /\ Unused(c)
    /\ NewConsumer(c, r, "recv") \/ NewConsumer(c, r, "prepared")
    /\ \A q \in Runs : state'.routes[q] = IF q = r THEN c ELSE state.routes[q]

(* How State changes in a step: a route at a time is added, a start in     *)
(* flight becomes uncertain, and events are only dropped or handed on.     *)
StateMoves ==
    /\ StateInv(state')
    /\ \/ \A r \in Runs : state'.routes[r] \in {state.routes[r], None}
       \/ \E r \in Runs, c \in Consumers : RouteMade(r, c)
    /\ \A r \in Runs : state'.uncertainStarts[r].held =>
          \/ state.uncertainStarts[r].held
          \/ At("starter", "calling") /\ r = Starter.run /\ Starter'.pc = "markUnknown"
    /\ \/ PumpBuffer \/ StartUnknown
       \/ /\ Within(state'.pendingEvents, state.pendingEvents)
          /\ \A r \in Runs : state'.uncertainStarts[r].events
                                \in {state.uncertainStarts[r].events, <<>>}

(* Whatever names a run names one that was created.                        *)
PresentRuns == {r \in Runs : runStatus[r] # "absent"}

(* Whatever tasks, channels, the restart and the provider are about is in  *)
(* the table of runs.                                                      *)
Present ==
    /\ \A t \in Tasks : task[t].pc \notin Resting => task[t].run \in PresentRuns
    /\ \A c \in Consumers : consumers[c].pc # "done" => consumers[c].run \in PresentRuns
    /\ affected \cup page \subseteq PresentRuns
    /\ \A r \in Runs : provider[r] # "none" => r \in PresentRuns

(* So is whatever State is about.                                          *)
StatePresent ==
    \A r \in Runs : state.routes[r] # None \/ state.uncertainStarts[r].held
                       => r \in PresentRuns

(* Tasks have their type.                                                  *)
Typed == task \in [Tasks -> Task]

(* Consumers have their type.                                              *)
Channelled == consumers \in [Consumers -> Consumer]

(* The steps of a consumer.                                                *)
ConsumerSteps == {"done", "prepared", "recv", "append", "record", "register", "terminal",
                  "fail", "failWrite", "close"}

(* The steps in which a consumer has an event in hand.                     *)
Handling == {"append", "record", "register", "terminal"}

(* A channel holds events of its consumer's run, and not too many.         *)
ChannelsInv ==
    \A c \in Consumers :
        /\ consumers[c].pc = "done" => consumers[c].run = None
        /\ Len(consumers[c].queue) <= RouteCapacity
        /\ \A e \in Entries(consumers[c].queue) : e.from = consumers[c].run
        /\ consumers[c].pc \in Handling =>
              consumers[c].event \in Event /\ consumers[c].event.from = consumers[c].run

(* A task sends to a channel of its run, if that has one still.            *)
SendersInv ==
    \A t \in Tasks :
        /\ task[t].chan # None => consumers[task[t].chan].run \in {task[t].run, None}
        /\ task[t].pc \in Resting => task[t].chan = None /\ task[t].todo = <<>>
        /\ \A e \in Entries(task[t].todo) : e.from = task[t].run

(* A route leads to a consumer of its run, if that has not ended.          *)
RoutesInv ==
    \A r \in Runs : state.routes[r] # None => consumers[state.routes[r]].run \in {r, None}

(* Only a channel that has no sender gets a new run.                       *)
RunsChange ==
    \A d \in Consumers : consumers'[d].run \in {consumers[d].run, None} \/ Unused(d)

(* What a task may do with its channel and the events it has to send.      *)
Sends(u) ==
    /\ \/ task'[u].chan = None
       \/ task'[u].chan = task[u].chan /\ task'[u].run = task[u].run
       \/ task'[u].chan \in Consumers
          /\ consumers'[task'[u].chan].run \in {task'[u].run, None}
    /\ task'[u].pc \in Resting => task'[u].chan = None /\ task'[u].todo = <<>>
    /\ \/ task'[u].todo = <<>>
       \/ task'[u].run = task[u].run /\ task'[u].todo = task[u].todo
       \/ \A e \in Entries(task'[u].todo) : e.from = task'[u].run

(* Every task is left alone or goes on with its own channel and events.    *)
AllSend == \A u \in Tasks : task'[u] = task[u] \/ Sends(u)

(* What is neither in the tables nor in Inner.state, a task or a channel.  *)
Around ==
    /\ timeline \in [Runs -> Seq(1..MaxEvents)]
    /\ pumpHandle \in BOOLEAN
    /\ affected \subseteq Runs
    /\ startup \in {"reconciling", "activating", "ready", "failed"}
    /\ page \subseteq Runs
    /\ provider \in [Runs -> {"none", "requested", "live", "ended", "refused"}]
    /\ sent \in [Runs -> Seq(EmitKinds)]
    /\ stream \in Seq(Event)
    /\ answers \in [Approvals -> SUBSET Decisions]
    /\ faults \in [store : 0..MaxStoreFaults, pump : 0..MaxPumpFailures,
                   crash : 0..MaxCrashes]

(* Before the provider has answered, the provider has not heard of the     *)
(* run; when it has refused it, it knows that.                             *)
StarterInv ==
    /\ Starter.pc \in {"register", "pumpCall", "call"} => provider[Starter.run] = "none"
    /\ Starter.pc = "markFailed" => provider[Starter.run] = "refused"

(* The provider emits for runs it has, and a terminal event last.          *)
EmissionsInv ==
    \A r \in Runs :
        /\ sent[r] # <<>> => provider[r] \in {"live", "ended"}
        /\ provider[r] = "live" => \A i \in DOMAIN sent[r] : ~IsTerminal(sent[r][i])
        /\ \A i \in DOMAIN sent[r] : IsTerminal(sent[r][i]) => i = Len(sent[r])

(* A start begins with a run that is not there, and goes on with that run; *)
(* what a provider knows it forgets only with the start task at rest.      *)
StarterMoves ==
    /\ Starter'.pc \in Starting =>
          \/ Starter'.run = Starter.run /\ Starter.pc \in Starting
          \/ Starter'.run \in Runs /\ runStatus[Starter'.run] = "absent"
    /\ Starter'.pc \in {"register", "pumpCall", "call"} =>
          \/ /\ Starter'.run = Starter.run
             /\ Starter.pc \in {"register", "pumpCall", "call"}
             /\ Starter.run \in Runs
             /\ provider[Starter.run] = "none" => provider'[Starter.run] = "none"
          \/ /\ Starter'.run \in Runs /\ runStatus[Starter'.run] = "absent"
             /\ provider' = provider
    /\ Starter'.pc = "markFailed" =>
          \/ /\ Starter'.run = Starter.run /\ Starter.pc = "markFailed"
             /\ provider[Starter.run] = "refused" => provider'[Starter.run] = "refused"
          \/ provider'[Starter'.run] = "refused"

(* What a provider forgets and emits.                                      *)
EmissionMoves ==
    /\ EmissionsInv'
    /\ \A r \in Runs :
          /\ provider[r] = "refused" => provider'[r] = "refused"
          /\ \/ sent'[r] = sent[r]
             \/ provider[r] = "live" /\ \E kind \in EmitKinds : sent'[r] = Append(sent[r], kind)

(* The runs that a step ends.                                              *)
StatusMoves ==
    \A r \in Runs : IsTerminal(runStatus'[r]) =>
        runStatus'[r] = runStatus[r] \/ EndedBy(r, runStatus'[r])

(* The events that consumers handle were emitted.                          *)
HandledAreKnown ==
    \A c \in Consumers : consumers[c].pc \in Handling =>
        consumers[c].event.n \in DOMAIN sent[consumers[c].event.from]

(* The places an event can be at, by name: the provider's stream.          *)
InStream == <<"stream", None>>

(* The buffer of the handshake.                                            *)
InPending == <<"pending", None>>

(* The buffer of an uncertain start.                                       *)
InStart(r) == <<"start", r>>

(* The timeline of a run.                                                  *)
InTimeline(r) == <<"timeline", r>>

(* What a task still has to send.                                          *)
InTodo(t) == <<"todo", t>>

(* A channel.                                                              *)
InQueue(c) == <<"queue", c>>

(* What a consumer is about to apply.                                      *)
InHand(c) == <<"hand", c>>

(* All of them.                                                            *)
Places == {InStream, InPending} \cup {InStart(r) : r \in Runs}
             \cup {InTimeline(r) : r \in Runs} \cup {InTodo(t) : t \in Tasks}
             \cup {InQueue(c) : c \in Consumers} \cup {InHand(c) : c \in Consumers}

(* The event a consumer is applying, and those a timeline has.             *)
Hand(consumer) == IF consumer.pc \in Handling THEN <<consumer.event>> ELSE <<>>

(* The events of a timeline.                                               *)
Applied(r, line) == [i \in DOMAIN line |-> [from |-> r, n |-> line[i]]]

(* What there is at each place.                                            *)
Where == [p \in Places |->
    CASE p[1] = "stream" -> stream
      [] p[1] = "pending" -> state.pendingEvents
      [] p[1] = "start" -> state.uncertainStarts[p[2]].events
      [] p[1] = "timeline" -> Applied(p[2], timeline[p[2]])
      [] p[1] = "todo" -> task[p[2]].todo
      [] p[1] = "queue" -> consumers[p[2]].queue
      [] p[1] = "hand" -> Hand(consumers[p[2]])]

(* No event is at a place twice, or at two places.                         *)
Separate(P, W) ==
    /\ \A p \in P : NoRepeats(W[p])
    /\ \A p, q \in P : p # q => Entries(W[p]) \cap Entries(W[q]) = {}

(* Every event at a place was at some place before.                        *)
NothingNew(P, W, V) ==
    \A p \in P : \A e \in Entries(V[p]) : \E q \in P : e \in Entries(W[q])

(* Away from the excepted places, nothing comes in.                        *)
Quiet(except) ==
    /\ InStream \notin except => Within(stream', stream)
    /\ InPending \notin except => Within(state'.pendingEvents, state.pendingEvents)
    /\ \A r \in Runs : InStart(r) \notin except =>
          Within(state'.uncertainStarts[r].events, state.uncertainStarts[r].events)
    /\ \A r \in Runs : InTimeline(r) \notin except => timeline'[r] = timeline[r]
    /\ \A t \in Tasks : InTodo(t) \notin except => Within(task'[t].todo, task[t].todo)
    /\ \A c \in Consumers : InQueue(c) \notin except =>
          Within(consumers'[c].queue, consumers[c].queue)
    /\ \A c \in Consumers : InHand(c) \notin except =>
          Within(Hand(consumers'[c]), Hand(consumers[c]))

(* The steps in which an event changes hands.                              *)
Flows ==
    \/ PumpDeliver \/ PumpBuffer \/ StartUnknown \/ Retain \/ RetainSend
    \/ \E c \in Consumers : RouteStart(c) \/ TakeEvent(c) \/ AppendItem(c)
    \/ \E t \in Tasks : Send(t)
    \/ \E t \in Clients : CollectUncertain(t)
    \/ \E r \in Runs, kind \in EmitKinds : Emit(r, kind)

(* A consumer begins to apply no event.                                    *)
HandsStill ==
    \A c \in Consumers : consumers'[c].pc \in Handling =>
        /\ consumers[c].pc \in Handling
        /\ consumers'[c].event = consumers[c].event
        /\ consumers'[c].pc = "append" => consumers[c].pc = "append"

(* In the others events are at most dropped.                               *)
Still ==
    /\ stream' \in {stream, <<>>}
    /\ timeline' = timeline
    /\ \A t \in Tasks : task'[t].todo \in {task[t].todo, <<>>}
    /\ \A c \in Consumers : consumers'[c].queue \in {consumers[c].queue, <<>>}
    /\ HandsStill

(* No task gets events.                                                    *)
TasksStill == \A t \in Tasks : task'[t].todo \in {task[t].todo, <<>>}

(* No channel and no hand gets events.                                     *)
ChannelsStill ==
    /\ \A c \in Consumers : consumers'[c].queue \in {consumers[c].queue, <<>>}
    /\ HandsStill

(* The events are still apart, and none is new.                            *)
Passed == Separate(Places, Where') /\ NothingNew(Places, Where, Where')

(* The events the provider has sent so far.                                *)
Emitted == {e \in Event : e.n \in DOMAIN sent[e.from]}

(* Whatever is in a place was sent.                                        *)
Known == \A p \in Places : Entries(Where[p]) \subseteq Emitted

(* Every event is in at most one place, and there once.                    *)
Once == Separate(Places, Where)

(* Only items are appended.                                                *)
KindsRight ==
    /\ \A c \in Consumers : consumers[c].pc = "append" => KindOf(consumers[c].event) = "item"
    /\ \A r \in Runs : \A n \in Entries(timeline[r]) : sent[r][n] = "item"

(* The hand of a consumer changes only when it takes an event or has done  *)
(* with it; a timeline only when an item is appended.                      *)
Hands ==
    \A c \in Consumers : consumers'[c].pc = "append" =>
        \/ consumers[c].pc = "append" /\ consumers'[c].event = consumers[c].event
        \/ consumers'[c].event \in Emitted /\ KindOf(consumers'[c].event) = "item"

(* What is new on a timeline was in the hand of a consumer of that run.    *)
Lines ==
    \A r \in Runs : Entries(timeline'[r]) \subseteq Entries(timeline[r]) \cup
        {consumers[c].event.n : c \in {d \in Consumers : /\ consumers[d].pc = "append"
                                                         /\ consumers[d].event.from = r}}

(* The invariant of the events.                                            *)
EventsInv == Once /\ Known /\ KindsRight

(* The invariant of tasks, channels and routes.                            *)
TasksInv == StartsOnce /\ Present /\ StatePresent /\ ChannelsInv /\ SendersInv /\ RoutesInv

(* All that holds of the supervisor.                                       *)
WholeInv ==
    /\ SupervisorInv /\ TypeOK /\ StateInv(state)
    /\ TasksInv
    /\ StarterInv /\ EmissionsInv /\ OutcomeIsTheProviders
    /\ EventsInv

(* While reconcile_startup works.                                          *)
AtBoot == startup \in {"reconciling", "activating"}

(* The pump or its clean-up is about to write that it lost its run.        *)
Losing(t) ==
    \/ task[t].pc \in {"close", "mark", "lost"}
    \/ task[t].pc \in {"markWrite", "lostWrite"} /\ task[t].seen = "running"

(* A consumer is about to write that it failed.                            *)
Failing(c) ==
    \/ consumers[c].pc = "fail"
    \/ consumers[c].pc = "failWrite" /\ consumers[c].seen = "running"

(* A run that has a route, or whose loss somebody is about to write.       *)
Watched(r) ==
    \/ state.routes[r] # None
    \/ r \in affected
    \/ \E t \in {"pump", "marker"} : task[t].run = r /\ Losing(t)
    \/ \E c \in Consumers : consumers[c].run = r /\ Failing(c)

(* Only the restart, the pump and its clean-up, and the consumers that     *)
(* are started again are at work.                                          *)
BootTasks ==
    /\ \A t \in Tasks \ {"pump", "marker"} : task[t].pc = "idle"
    /\ task["pump"].pc \in {"idle", "next", "take", "close", "mark", "markWrite", "lost", "lostWrite"}
    /\ task["marker"].pc \in {"idle", "mark", "markWrite"}
    /\ ~pumpHandle => task["pump"].pc = "idle"
    /\ startup = "activating" => page = {}
    /\ startup = "reconciling" =>
           /\ task["pump"].pc = "idle" /\ task["marker"].pc = "idle" /\ affected = {}
           /\ \A c \in Consumers : consumers[c].pc \in {"done", "prepared"}
    /\ \A c \in Consumers : consumers[c].pc = "failWrite" => consumers[c].seen = "running"

(* A run has one channel at most, to which its route leads if it has one;  *)
(* a consumer that closes a running run has lost the route.                *)
BootChannels ==
    /\ \A c, d \in Consumers : consumers[c].run # None /\ consumers[c].run = consumers[d].run => c = d
    /\ \A c \in Consumers : consumers[c].run \notin page
    /\ \A r \in Runs :
           state.routes[r] # None => consumers[state.routes[r]].run = r /\ r \in state.workItems
    /\ \A c \in Consumers : \A r \in Runs :
           consumers[c].pc = "close" /\ consumers[c].run = r /\ runStatus[r] = "running"
           => state.routes[r] = None

(* The runs that reconcile_startup has looked at.                          *)
BootRuns ==
    \A r \in Runs \ page : runStatus[r] # "starting" /\ (runStatus[r] = "running" => Watched(r))

(* All of this.                                                            *)
BootInv == AtBoot => BootTasks /\ BootChannels /\ BootRuns

(* A step that makes no run starting or running.                           *)
Calm ==
    \A r \in Runs : runStatus'[r] = runStatus[r] \/ runStatus'[r] \notin {"starting", "running"}

===============================================================================
