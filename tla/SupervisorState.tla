--------------------------- MODULE SupervisorState ---------------------------
(***************************************************************************)
(* Inner.state of the run supervisor: the record it keeps under one mutex, *)
(* and what its methods do to that record while they hold the lock.  They  *)
(* are functions from one state to the next; RunSupervisor says which task *)
(* calls which, and when.                                                  *)
(*                                                                         *)
(* The provider's name of run r is r.  A map whose values are determined   *)
(* by their keys is the set of its keys, and a map from provider runs to   *)
(* events is one sequence.                                                 *)
(***************************************************************************)
EXTENDS RunTables, Selections, Integers, FiniteSets

CONSTANTS
    Consumers,           \* channels, each with the consumer task that reads it
    RouteCapacity,       \* ROUTE_CHANNEL_CAPACITY
    MaxUncertainStarts,  \* MAX_UNCERTAIN_STARTS
    MaxEvents            \* bound: events the provider emits for one run

ASSUME StateAssumption ==
    /\ Providers = Runs
    /\ Requests = 1..MaxEvents
    /\ RouteCapacity \in Nat \ {0}
    /\ MaxUncertainStarts \in Nat \ {0}
    /\ MaxEvents \in Nat
    /\ None \notin Consumers \cup {"asked"} \cup RunStatus
    /\ "asked" \notin Decisions

(* An event: the run it is about and its place among that run's events.    *)
Event == [from : Runs, n : 1..MaxEvents]

EventsOf(seq, r) == Among(seq, [from : {r}, n : 1..MaxEvents])

(* struct PendingStart, and whether the map holds one for the run.         *)
PendingStart == [held : BOOLEAN, events : Seq(Event), overflow : BOOLEAN]

NotHeld == [held |-> FALSE, events |-> <<>>, overflow |-> FALSE]

(* struct State.                                                           *)
State == [routes : [Runs -> Consumers \cup {None}],
          runs : SUBSET Runs,
          runsByProvider : SUBSET Runs,
          workItems : SUBSET Runs,
          approvals : SUBSET Approvals,
          responses : [Approvals -> Decisions \cup {None}],
          uncertainRuns : SUBSET Runs,
          startInProgress : Runs \cup {None},
          pendingEvents : Seq(Event),
          pendingOverflow : BOOLEAN,
          uncertainStarts : [Runs -> PendingStart],
          uncertainOrder : Seq(Runs)]

EmptyState ==
    [routes |-> [r \in Runs |-> None], runs |-> {}, runsByProvider |-> {},
     workItems |-> {}, approvals |-> {},
     responses |-> [a \in Approvals |-> None], uncertainRuns |-> {},
     startInProgress |-> None, pendingEvents |-> <<>>,
     pendingOverflow |-> FALSE,
     uncertainStarts |-> [r \in Runs |-> NotHeld], uncertainOrder |-> <<>>]

-----------------------------------------------------------------------------
(* What is done to State under one lock.                                   *)

AsksWithout(st, r) == {a \in st.approvals : approval[a].run # r}

Only(responses, asks) ==
    [a \in Approvals |-> IF a \in asks THEN responses[a] ELSE None]

(* close_run: the route goes only if the run is attached.                  *)
CloseRun(st, r) ==
    LET asks == AsksWithout(st, r) IN
    [st EXCEPT
        !.routes[r] = IF r \in st.runs THEN None ELSE @,
        !.runsByProvider = IF r \in st.runs THEN @ \ {r} ELSE @,
        !.pendingEvents = IF r \in st.runs
                          THEN Among(@, [from : Runs \ {r}, n : 1..MaxEvents]) ELSE @,
        !.runs = @ \ {r},
        !.workItems = @ \ {r},
        !.approvals = asks,
        !.responses = Only(@, asks),
        !.uncertainRuns = @ \ {r},
        !.uncertainStarts[r] = NotHeld,
        !.uncertainOrder = Among(@, Runs \ {r})]

(* remove_route_state leaves the uncertain starts alone.                   *)
RemoveRouteState(st, r) ==
    LET asks == AsksWithout(st, r) IN
    [st EXCEPT
        !.routes[r] = None,
        !.runsByProvider = @ \ {r},
        !.runs = @ \ {r},
        !.workItems = @ \ {r},
        !.approvals = asks,
        !.responses = Only(@, asks),
        !.uncertainRuns = @ \ {r}]

(* prepare_route, with the requests load_requests restored.                *)
PrepareRoute(st, r, c, restored) ==
    [st EXCEPT
        !.routes[r] = c,
        !.runsByProvider = @ \cup {r},
        !.runs = @ \cup {r},
        !.workItems = @ \cup {r},
        !.approvals = @ \cup {a \in Approvals : restored[a] # None},
        !.responses = [a \in Approvals |->
                         IF restored[a] \in Decisions THEN restored[a] ELSE @[a]],
        !.uncertainRuns = @ \cup {r}]

(* load_requests: the unanswered approvals of a run, with the decision of  *)
(* each one that is being answered.                                        *)
LoadRequests(r) ==
    [a \in Approvals |->
        IF approval[a].run # r THEN None
        ELSE CASE approval[a].status = "pending" -> "asked"
               [] approval[a].status = "responding" -> approval[a].decision
               [] OTHER -> None]

NoRequests == [a \in Approvals |-> None]

(* buffer_handshake_event: an event of a run that has no route is kept for *)
(* the start in progress, else for an uncertain start that already holds   *)
(* events of that run (any one, the map has no order), else for the oldest *)
(* uncertain start that holds none; else it is dropped.                    *)
BufferHandshakeEvent(st, e) ==
    LET holders == {r \in Runs :
                      /\ st.uncertainStarts[r].held
                      /\ EventsOf(st.uncertainStarts[r].events, e.from) # <<>>}
        empty == {i \in DOMAIN st.uncertainOrder :
                    st.uncertainStarts[st.uncertainOrder[i]].held
                    /\ st.uncertainStarts[st.uncertainOrder[i]].events = <<>>}
        first == CHOOSE i \in empty : \A j \in empty : i <= j
    IN  IF st.startInProgress # None
        THEN {IF Len(st.pendingEvents) < RouteCapacity
              THEN [st EXCEPT !.pendingEvents = Append(@, e)]
              ELSE [st EXCEPT !.pendingOverflow = TRUE]}
        ELSE IF holders # {}
        THEN {IF Len(st.uncertainStarts[r].events) < RouteCapacity
              THEN [st EXCEPT !.uncertainStarts[r].events = Append(@, e)]
              ELSE [st EXCEPT !.uncertainStarts[r].overflow = TRUE] : r \in holders}
        ELSE IF empty # {}
        THEN {[st EXCEPT !.uncertainStarts[st.uncertainOrder[first]].events = <<e>>]}
        ELSE {st}

(* finish_start_handshake, and the same lines in the other ends of a start *)
FinishHandshake(st) ==
    [st EXCEPT !.startInProgress = None, !.pendingEvents = <<>>,
               !.pendingOverflow = FALSE]

(* A mutant of RetainUnknownHandshake: nothing makes room.                 *)
RetainWithoutEviction(st, r) ==
    [FinishHandshake(st) EXCEPT
        !.uncertainStarts[r] = [held |-> TRUE, events |-> st.pendingEvents,
                                overflow |-> st.pendingOverflow],
        !.uncertainOrder = Append(@, r),
        !.uncertainRuns = @ \cup {r}]

(* retain_unknown_handshake: the events buffered so far wait for whoever   *)
(* reconciles the run; the oldest uncertain start makes room.              *)
RetainUnknownHandshake(st, r) ==
    LET held == {q \in Runs : st.uncertainStarts[q].held}
        evict == /\ Cardinality(held) >= MaxUncertainStarts
                 /\ st.uncertainOrder # <<>>
        kept == [q \in Runs |->
                   IF evict /\ q = Head(st.uncertainOrder)
                   THEN NotHeld ELSE st.uncertainStarts[q]]
        order == IF evict THEN Tail(st.uncertainOrder) ELSE st.uncertainOrder
    IN  [FinishHandshake(st) EXCEPT
            !.uncertainStarts =
               [kept EXCEPT ![r] = [held |-> TRUE, events |-> st.pendingEvents,
                                    overflow |-> st.pendingOverflow]],
            !.uncertainOrder = Append(order, r),
            !.uncertainRuns = @ \cup {r}]

=============================================================================
