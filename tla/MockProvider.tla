------------------------------ MODULE MockProvider ------------------------------
(***************************************************************************)
(* The deterministic provider (provider-mock) behind which the other parts *)
(* are tested: each run follows a script, and its events go through the    *)
(* bounded channel of the harness port.  Calls interleave at every await   *)
(* and may be dropped at any of them.  A call looks at the run under the   *)
(* lock, waits for a place in the channel without it, looks again under    *)
(* the lock, and only then sends and records, in one step.                 *)
(*                                                                         *)
(* The channel is first in, first out, so it is kept as what has been sent *)
(* for each run and how much of it waits for the subscriber.               *)
(***************************************************************************)
EXTENDS Selections, FiniteSets, SequencesExt

CONSTANTS
    None,
    Callers,
    Ids,            \* request ids and texts
    Answers,
    PlanLists,      \* the plans a provider may be configured with
    Capacity,       \* EVENT_BUFFER_CAPACITY
    MaxRuns,        \* bound: runs accepted
    MaxCalls,       \* bound: calls made
    MaxRefusals     \* bound: faults of the runtime

VARIABLES
    plans,          \* the plans that no run follows yet
    runs,           \* the record of each accepted run
    requests,       \* the answer to each request, None until there is one
    sent,           \* the events of each run
    buffered,       \* how many events the subscriber has not received
    refusals,       \* runtime faults left
    call,           \* where each caller is
    calls           \* calls made

vars == <<plans, runs, requests, sent, buffered, refusals, call, calls>>

StepKinds == {"message", "mutation", "approval", "input", "await", "complete"}
Asks == {"approval", "input"}

(* A request, and the step that awaits its answer, names the request.      *)
Step == {step \in [kind : StepKinds, id : Ids \cup {None}] :
             step.kind \in Asks \cup {"await"} => step.id \in Ids}

Faults == {"exit_accepted", "exit_mutation", "delay", "emit", "never", "reject"}
Plan == [steps : Seq(Step), fault : Faults \cup {None}]

(* What is sent is a step of the script, or one of these.                  *)
Note(kind) == [kind |-> kind, id |-> None]
Notes == {Note(kind) : kind \in {"accepted", "fault", "steer", "crashed", "interrupted"}}

Terminals == {"complete", "crashed", "interrupted"}

(* PendingDelivery: an event with what its delivery commits.  One after    *)
(* which the runtime exits leaves the terminal event pending.              *)
Delivery == [event : Step \cup Notes,
             commit : {"step", "exit", "standalone", "terminal", "consume"}]

Crash == [event |-> Note("crashed"), commit |-> "terminal"]

ASSUME MockAssumption ==
    /\ Capacity \in Nat \ {0} /\ MaxRuns \in Nat /\ MaxCalls \in Nat /\ MaxRefusals \in Nat
    /\ IsFiniteSet(Callers)
    /\ None \notin Ids \cup Answers \cup Faults \cup Step \cup Delivery
    /\ PlanLists \subseteq Seq(Plan)

Run == [active : BOOLEAN, delayed : BOOLEAN, steps : Seq(Step), plan : Plan,
        fault : Faults \cup {None}, pending : Delivery \cup {None}]

Idle == [at |-> "idle"]

(* A call: where it is, and what it has read under the lock: the delivery  *)
(* or the step that it waits for a place for.                              *)
Call == {Idle} \cup
    [at : {"check", "flush", "look", "reserve", "commit"},
     kind : {"start", "drive", "steer", "interrupt"}, run : 1..MaxRuns \cup {None},
     release : BOOLEAN, delivery : Delivery \cup {None}, step : Step \cup {None}]

TypeOK ==
    /\ plans \in Seq(Plan)
    /\ runs \in Seq(Run) /\ Len(runs) <= MaxRuns
    /\ DOMAIN requests \subseteq (1..MaxRuns) \X Ids
    /\ \A q \in DOMAIN requests : requests[q] \in Answers \cup {None}
    /\ sent \in Seq(Seq(Step \cup Notes)) /\ Len(sent) = Len(runs)
    /\ buffered \in 0..Capacity
    /\ refusals \in 0..MaxRefusals
    /\ call \in [Callers -> Call]
    /\ calls \in 0..MaxCalls

Init ==
    /\ plans \in PlanLists
    /\ runs = <<>>
    /\ requests = [q \in {} |-> None]
    /\ sent = <<>>
    /\ buffered = 0
    /\ refusals \in 0..MaxRefusals
    /\ call = [c \in Callers |-> Idle]
    /\ calls = 0

------------------------------------------------------------------------------
(* A caller.                                                               *)

At(c, at) == call[c].at = at

Enters(c, at, kind, r, release) ==
    /\ At(c, "idle") /\ calls < MaxCalls
    /\ calls' = calls + 1
    /\ call' = [call EXCEPT ![c] =
           [at |-> at, kind |-> kind, run |-> r, release |-> release,
            delivery |-> None, step |-> None]]

Goes(c, at) ==
    /\ call' = [call EXCEPT ![c] = [@ EXCEPT !.at = at, !.delivery = None, !.step = None]]
    /\ UNCHANGED calls

Returns(c) == call' = [call EXCEPT ![c] = Idle] /\ UNCHANGED calls

Sees(c, delivery, step) ==
    /\ call' = [call EXCEPT ![c] =
           [@ EXCEPT !.at = "reserve", !.delivery = delivery, !.step = step]]
    /\ UNCHANGED calls

Looks == UNCHANGED <<plans, runs, requests, sent, buffered, refusals>>

(* HarnessEventSender::reserve: a place in the channel, that of a permit   *)
(* or of an event that was not received.                                   *)
Permits == Cardinality({c \in Callers : At(c, "commit")})

Reserve(c) ==
    /\ At(c, "reserve")
    /\ buffered + Permits < Capacity
    /\ call' = [call EXCEPT ![c].at = "commit"]
    /\ Looks /\ UNCHANGED calls

Receive ==
    /\ buffered > 0
    /\ buffered' = buffered - 1
    /\ UNCHANGED <<plans, runs, requests, sent, refusals, call, calls>>

(* The future is dropped, with the permit if it has one.                   *)
Cancel(c) == ~At(c, "idle") /\ Returns(c) /\ Looks

------------------------------------------------------------------------------
(* Deliveries.                                                             *)

(* HarnessEventPermit::send.                                               *)
Send(r, event) ==
    /\ sent' = [sent EXCEPT ![r] = Append(@, event)]
    /\ buffered' = buffered + 1

(* commit_pending: the record of the run after a delivery.                 *)
Committed(run, delivery) ==
    CASE delivery.commit = "step"       -> [run EXCEPT !.steps = Tail(@), !.pending = None]
      [] delivery.commit = "exit"       -> [run EXCEPT !.steps = Tail(@), !.pending = Crash,
                                                       !.fault = None]
      [] delivery.commit = "standalone" -> [run EXCEPT !.pending = None]
      [] delivery.commit = "terminal"   -> [run EXCEPT !.pending = None, !.active = FALSE]
      [] delivery.commit = "consume"    -> [run EXCEPT !.steps = Tail(@), !.pending = None,
                                                       !.active = FALSE]

Ends(delivery) == delivery.commit \in {"terminal", "consume"}

Delivers(c, r, run, delivery) ==
    /\ Send(r, delivery.event)
    /\ runs' = [runs EXCEPT ![r] = Committed(run, delivery)]
    /\ IF Ends(delivery) THEN Returns(c) ELSE Goes(c, "flush")

(* flush_pending, with which every call on a run begins and begins again.  *)
Flush(c) ==
    LET pending == runs[call[c].run].pending IN
    /\ At(c, "flush")
    /\ IF pending = None THEN Goes(c, "look") ELSE Sees(c, pending, None)
    /\ Looks

CommitFlush(c) ==
    LET r == call[c].run IN
    /\ At(c, "commit") /\ call[c].delivery # None
    /\ IF runs[r].pending = call[c].delivery
       THEN Delivers(c, r, runs[r], call[c].delivery)
       ELSE Goes(c, "flush") /\ UNCHANGED <<runs, sent, buffered>>
    /\ UNCHANGED <<plans, requests, refusals>>

------------------------------------------------------------------------------
(* start_run.                                                              *)

(* check_runtime, which uses up one fault of the runtime.                  *)
Starting == {c \in Callers : ~At(c, "idle") /\ call[c].kind = "start"}

StartRun(c) ==
    /\ refusals = 0
    /\ Len(runs) + Cardinality(Starting) < MaxRuns
    /\ Enters(c, "check", "start", None, FALSE)
    /\ Looks

Refuse(c) ==
    /\ At(c, "idle") /\ calls < MaxCalls
    /\ refusals > 0
    /\ refusals' = refusals - 1
    /\ calls' = calls + 1
    /\ UNCHANGED <<plans, runs, requests, sent, buffered, call>>

Rejects == plans # <<>> /\ Head(plans).fault = "reject"

Check(c) ==
    /\ At(c, "check")
    /\ IF Rejects THEN Returns(c) ELSE Sees(c, None, None)
    /\ Looks

NextPlan ==
    IF plans = <<>> THEN [steps |-> <<[kind |-> "complete", id |-> None]>>, fault |-> None]
                    ELSE Head(plans)

FirstPending(fault) ==
    CASE fault = "exit_accepted" -> Crash
      [] fault = "emit"          -> [event |-> Note("fault"), commit |-> "standalone"]
      [] OTHER                   -> None

Accepted(plan) ==
    [active |-> TRUE, delayed |-> FALSE, steps |-> plan.steps, plan |-> plan,
     fault |-> plan.fault, pending |-> FirstPending(plan.fault)]

(* A plan is taken, a run is recorded and its acceptance sent, or nothing  *)
(* of it; the call goes on to drive the run.                               *)
CommitStart(c) ==
    /\ At(c, "commit") /\ call[c].kind = "start"
    /\ IF Rejects
       THEN Returns(c) /\ UNCHANGED <<plans, runs, sent, buffered>>
       ELSE /\ plans' = IF plans = <<>> THEN <<>> ELSE Tail(plans)
            /\ runs' = Append(runs, Accepted(NextPlan))
            /\ sent' = Append(sent, <<Note("accepted")>>)
            /\ buffered' = buffered + 1
            /\ call' = [call EXCEPT ![c] =
                   IF NextPlan.fault = "never" THEN Idle
                   ELSE [@ EXCEPT !.at = "flush", !.kind = "drive", !.run = Len(runs')]]
            /\ UNCHANGED calls
    /\ UNCHANGED <<requests, refusals>>

------------------------------------------------------------------------------
(* drive_run.                                                              *)

Known(r, step) == step.kind \in Asks /\ <<r, step.id>> \in DOMAIN requests

Answered(r, step) ==
    <<r, step.id>> \in DOMAIN requests /\ requests[<<r, step.id>>] # None

Held(c, run) ==
    /\ run.fault = "delay" /\ ~call[c].release
    /\ run.steps # <<>> /\ Head(run.steps).kind = "approval"

(* The next step of the script, once nothing is pending.                   *)
Look(c) ==
    LET r   == call[c].run
        run == runs[r]
        Keeps == UNCHANGED runs
    IN
    /\ At(c, "look") /\ call[c].kind = "drive"
    /\ CASE ~run.active         -> Returns(c) /\ Keeps
         [] run.active /\ run.pending # None -> Goes(c, "flush") /\ Keeps
         [] run.active /\ run.pending = None /\ Held(c, run) ->
                Returns(c) /\ runs' = [runs EXCEPT ![r].delayed = TRUE]
         [] run.active /\ run.pending = None /\ run.steps = <<>> -> Returns(c) /\ Keeps
         [] OTHER ->
                LET step == Head(run.steps) IN
                IF step.kind = "await"
                THEN IF Answered(r, step)
                     THEN Goes(c, "flush") /\ runs' = [runs EXCEPT ![r].steps = Tail(@)]
                     ELSE Returns(c) /\ Keeps
                ELSE IF Known(r, step) THEN Returns(c) /\ Keeps
                                       ELSE Sees(c, None, step) /\ Keeps
    /\ UNCHANGED <<plans, requests, sent, buffered, refusals>>

DeliveryOf(run, step) ==
    [event  |-> step,
     commit |-> CASE step.kind = "complete" -> "consume"
                  [] step.kind = "mutation" /\ run.fault = "exit_mutation" -> "exit"
                  [] OTHER -> "step"]

Released(c, run, step) ==
    IF call[c].release /\ step.kind = "approval"
    THEN [run EXCEPT !.delayed = FALSE, !.fault = None] ELSE run

(* A mutant of Stale: another call may have sent the step.                 *)
StaleIfPending(run, step) == run.pending # None

(* The run may have ended or gone on in the meantime.                      *)
Stale(run, step) == run.pending # None \/ run.steps = <<>> \/ Head(run.steps) # step

CommitStep(c) ==
    LET r    == call[c].run
        run  == runs[r]
        step == call[c].step
    IN
    /\ At(c, "commit") /\ step # None
    /\ \/ /\ ~run.active \/ (~Stale(run, step) /\ Known(r, step))
          /\ Returns(c) /\ UNCHANGED <<runs, requests, sent, buffered>>
       \/ /\ run.active /\ Stale(run, step)
          /\ Goes(c, "flush") /\ UNCHANGED <<runs, requests, sent, buffered>>
       \/ /\ run.active /\ ~Stale(run, step) /\ ~Known(r, step)
          /\ requests' = [q \in DOMAIN requests \cup
                              (IF step.kind \in Asks THEN {<<r, step.id>>} ELSE {}) |->
                             IF q \in DOMAIN requests THEN requests[q] ELSE None]
          /\ Delivers(c, r, Released(c, run, step), DeliveryOf(run, step))
    /\ UNCHANGED <<plans, refusals>>

(* release_delayed_approval.                                               *)
Release(c) ==
    /\ \E r \in DOMAIN runs : runs[r].delayed /\ Enters(c, "flush", "drive", r, TRUE)
    /\ Looks

(* respond_to_request: the answer is recorded, or it is the one recorded;  *)
(* either way the run is driven.                                           *)
Respond(c, q, answer) ==
    /\ q \in DOMAIN requests /\ requests[q] \in {None, answer}
    /\ requests' = [requests EXCEPT ![q] = answer]
    /\ Enters(c, "flush", "drive", q[1], FALSE)
    /\ UNCHANGED <<plans, runs, sent, buffered, refusals>>

------------------------------------------------------------------------------
(* steer and interrupt.                                                    *)

Control(c, kind, r) == r \in DOMAIN runs /\ Enters(c, "flush", kind, r, FALSE) /\ Looks

(* A mutant of LookAtRun: a run that has ended is looked at again.         *)
LookAtRunAgain(c) ==
    /\ At(c, "look") /\ call[c].kind \in {"steer", "interrupt"}
    /\ IF runs[call[c].run].active THEN Sees(c, None, None) ELSE Goes(c, "flush")
    /\ Looks

LookAtRun(c) ==
    /\ At(c, "look") /\ call[c].kind \in {"steer", "interrupt"}
    /\ IF runs[call[c].run].active THEN Sees(c, None, None) ELSE Returns(c)
    /\ Looks

CommitControl(c) ==
    LET r == call[c].run IN
    /\ At(c, "commit") /\ call[c].kind \in {"steer", "interrupt"} /\ call[c].delivery = None
    /\ \/ ~runs[r].active /\ Returns(c) /\ UNCHANGED <<runs, sent, buffered>>
       \/ /\ runs[r].active /\ runs[r].pending # None
          /\ Goes(c, "flush") /\ UNCHANGED <<runs, sent, buffered>>
       \/ /\ runs[r].active /\ runs[r].pending = None /\ call[c].kind = "steer"
          /\ Send(r, Note("steer"))
          /\ Returns(c) /\ UNCHANGED runs
       \/ /\ runs[r].active /\ runs[r].pending = None /\ call[c].kind = "interrupt"
          /\ Delivers(c, r, runs[r], [event |-> Note("interrupted"), commit |-> "terminal"])
    /\ UNCHANGED <<plans, requests, refusals>>

------------------------------------------------------------------------------
Polled(c) ==
    \/ Check(c) \/ Reserve(c) \/ CommitStart(c) \/ Flush(c) \/ CommitFlush(c)
    \/ Look(c) \/ CommitStep(c) \/ LookAtRun(c) \/ CommitControl(c)

Next ==
    \/ Receive
    \/ \E c \in Callers :
        \/ StartRun(c) \/ Refuse(c) \/ Release(c)
        \/ \E q \in DOMAIN requests, answer \in Answers : Respond(c, q, answer)
        \/ \E r \in 1..MaxRuns, kind \in {"steer", "interrupt"} : Control(c, kind, r)
        \/ Polled(c)
        \/ Cancel(c)

Spec == Init /\ [][Next]_vars

(* The subscriber receives, and a call that is not dropped is polled.      *)
FairSpec == Spec /\ WF_vars(Receive) /\ \A c \in Callers : WF_vars(Polled(c))

------------------------------------------------------------------------------
(* The properties.                                                         *)

Ending(event) == event.kind \in Terminals

(* The steps that are sent.                                                *)
Spoken == {step \in Step : step.kind # "await"}

(* What was sent for a run is its acceptance, the fault of its plan, then  *)
(* as much of its script as it has left behind, in order, each step once,  *)
(* with what was steered in between; one terminal event ends it, at once   *)
(* after the mutation that the runtime exits after.                        *)
InOrder(said, run) ==
    /\ Among(said, Step) \o Among(run.steps, Spoken) = Among(run.plan.steps, Spoken)
    /\ \A i \in DOMAIN said :
           /\ said[i] = Note("accepted") <=> i = 1
           /\ said[i] = Note("fault") <=> i = 2 /\ run.plan.fault = "emit"
           /\ Ending(said[i]) => i = Len(said)
           /\ said[i].kind = "mutation" /\ run.plan.fault = "exit_mutation" /\ i < Len(said)
                  => said[i + 1] = Note("crashed")
    /\ run.active <=> ~Ending(Last(said))

(* A request can be answered from the moment it is sent, and a script goes *)
(* past the point where it awaits an answer only when it has one.          *)
LeftBehind(run) ==
    SubSeq(run.plan.steps, 1, Len(run.plan.steps) - Len(run.steps))

RequestsAreOffered(r) ==
    /\ \A id \in Ids :
           <<r, id>> \in DOMAIN requests <=>
               \E i \in DOMAIN sent[r] : sent[r][i].kind \in Asks /\ sent[r][i].id = id
    /\ \A i \in DOMAIN LeftBehind(runs[r]) :
           LET step == LeftBehind(runs[r])[i] IN
           step.kind = "await" => Answered(r, step)

(* However the calls on a run interleave, and at whatever await they are   *)
(* dropped: its events are those of its plan, in order, each once, and its *)
(* requests those it has sent.                                             *)
ScriptsAreFollowed ==
    /\ TypeOK
    /\ \A r \in DOMAIN runs : InOrder(sent[r], runs[r]) /\ RequestsAreOffered(r)

(* The places of the channel, the lock and the loops that begin again when *)
(* a run has changed never keep a call for ever, while the subscriber      *)
(* receives.                                                               *)
CallsReturn == \A c \in Callers : ~At(c, "idle") ~> At(c, "idle")
================================================================================
