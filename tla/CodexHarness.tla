----------------------------- MODULE CodexHarness -----------------------------
(***************************************************************************)
(* The harness of the desktop (CodexHarness in yakshed-desktop/macos.rs):  *)
(* one adapter per connection, the runs it has started, and one stream of  *)
(* the events of all adapters.  An adapter starts its process when a call  *)
(* needs one.  The runs of a connection with a secret of its own need a    *)
(* process that was started with it (prepare_mode_b_runtime).              *)
(*                                                                         *)
(* The supervisor starts one run at a time (start_lock) and reads events   *)
(* with one task; account calls and commands may run beside them.  An      *)
(* adapter and its process are what CodexActor models in detail: here only *)
(* the story a run's events tell and how a process ends are left of them.  *)
(***************************************************************************)
EXTENDS Naturals, FiniteSets, Sequences

CONSTANTS
    None,
    Connections,
    Homes,            \* provider states a connection may be configured with
    Secrets,          \* values of the secret of a connection
    InitialSettings,  \* what may be configured at first
    MaxRuns,          \* bound: runs started
    ChannelCapacity,  \* of the channel all adapters send into
    PendingCapacity,  \* of the events kept for runs that are not registered
    MaxAdapters,      \* bound: adapters created
    MaxProgress,      \* bound: events of a run before its last
    FaultPlans        \* bound: how many disturbances of each kind, one record per plan

Disturbances == {"death", "change", "call", "failure"}

(* Codex keeps the account of a delegated connection itself (openai); the  *)
(* others have a secret of their own.                                      *)
Settings == [Connections -> [home : Homes, delegated : BOOLEAN, secret : Secrets]]

ASSUME HarnessAssumption ==
    /\ None \notin Connections \cup Homes \cup Secrets
    /\ MaxRuns \in Nat
    /\ InitialSettings \subseteq Settings
    /\ ChannelCapacity \in Nat \ {0} /\ PendingCapacity \in Nat \ {0}
    /\ MaxAdapters \in Nat /\ MaxProgress \in Nat \ {0}
    /\ FaultPlans \subseteq [Disturbances -> Nat]

VARIABLES
    settings,     \* external: the connections as configured, and their secrets
    adapter,      \* the adapters and the process each owns
    made,         \* how many adapters were created
    providers,    \* the adapter of each connection and its credential generation
    borrowed,     \* adapters held by an account call or a command
    start,        \* the start in progress
    turn,         \* external: what became of each run at its adapter
    registered,   \* runs, native_refs and correlations: the connection of each known run
    channel,      \* events the consumer has not received
    pending,      \* events of runs that are not registered
    replay,       \* events to be handed out before any other
    permit,       \* event_ready holds a notification
    consumer,     \* where next_event is
    delivered,    \* events handed to the supervisor
    refused,      \* events whose run was no longer known
    faults        \* external: disturbances that may still happen

harnessVars  == <<providers, start, registered>>
adapterVars  == <<adapter, made, borrowed>>
eventVars    == <<channel, pending, replay, permit, consumer, delivered, refused>>
externalVars == <<settings, turn, faults>>
vars == <<harnessVars, adapterVars, eventVars, externalVars>>

(* A run stands for its correlation and its reference: each is started     *)
(* once, under the next id the supervisor makes.                           *)
Runs     == 1..MaxRuns
Adapters == 1..MaxAdapters
Kinds    == {"progress", "ended", "crashed"}
Event    == [run : Runs, n : 1..(MaxProgress + 1), kind : Kinds]
Terminal(e) == e.kind \in {"ended", "crashed"}

Adapter == [connection : Connections \cup {None}, home : Homes \cup {None},
            process : {"none", "live", "dead"}, env : Secrets \cup {None}]
Provider == [adapter : 0..MaxAdapters, generation : Secrets \cup {None}]
Start == [step : {"idle", "adapter", "prepare", "check", "probe", "remove", "shutdown", "again",
                  "environment", "generation", "status", "session", "turn", "register"},
          run : 0..MaxRuns, connection : Connections \cup {None},
          home : Homes \cup {None}, adapter : 0..MaxAdapters,
          delegated : BOOLEAN, secret : Secrets \cup {None}, active : BOOLEAN, retried : BOOLEAN]
Turn == [state : {"none", "starting", "open", "crashing", "interrupting", "over"},
         adapter : 0..MaxAdapters, secret : Secrets \cup {None}, env : Secrets \cup {None},
         told : 0..(MaxProgress + 1)]

NoAdapter  == [connection |-> None, home |-> None, process |-> "none", env |-> None]
NoProvider == [adapter |-> 0, generation |-> None]
NoStart    == [step |-> "idle", run |-> 0, connection |-> None, home |-> None,
               adapter |-> 0, delegated |-> FALSE, secret |-> None, active |-> FALSE,
               retried |-> FALSE]
NoTurn     == [state |-> "none", adapter |-> 0, secret |-> None, env |-> None, told |-> 0]
NoEvent    == [step |-> "idle", event |-> None]

----------------------------------------------------------------------------
(* Helpers.                                                                *)

HasRuns(c) == \E r \in Runs : registered[r] = c

Live(a) == adapter[a].process = "live"

(* adapter(connection): the adapter at hand, or a new one in its place.    *)
Matches(c, home) == /\ providers[c].adapter # 0
                    /\ adapter[providers[c].adapter].home = home

Conflicts(c, home) == providers[c].adapter # 0 /\ ~Matches(c, home) /\ HasRuns(c)

Obtain(c, home, a) ==
    \/ /\ Matches(c, home) /\ a = providers[c].adapter
       /\ UNCHANGED <<adapter, made, providers>>
    \/ /\ ~Matches(c, home) /\ ~Conflicts(c, home)
       /\ made < MaxAdapters /\ a = made + 1
       /\ made' = a
       /\ adapter' = [adapter EXCEPT ![a] = [NoAdapter EXCEPT !.connection = c, !.home = home]]
       /\ providers' = [providers EXCEPT ![c] = [adapter |-> a, generation |-> None]]

(* runtime(handle): a process that ended is replaced, with the secret only *)
(* when the caller gives one.                                              *)
WithProcess(a, env) ==
    adapter' = IF Live(a) THEN adapter
               ELSE [adapter EXCEPT ![a] = [@ EXCEPT !.process = "live", !.env = env]]

(* The actor settles its runs when its process ends.                       *)
Ending(a, state) ==
    turn' = [r \in Runs |-> IF turn[r].adapter = a /\ turn[r].state = "open"
                            THEN [turn[r] EXCEPT !.state = state] ELSE turn[r]]

Held(a) == a \in borrowed \cup {start.adapter} \cup {providers[c].adapter : c \in Connections}

Spend(kind) == /\ faults[kind] > 0
               /\ faults' = [faults EXCEPT ![kind] = @ - 1]

At(step)   == start.step = step
Goes(step) == start' = [start EXCEPT !.step = step]

Prepared == IF start.retried THEN "session" ELSE "status"

----------------------------------------------------------------------------
(* start_run.                                                              *)

BeginStart(r, c) ==
    /\ At("idle") /\ turn[r].state = "none"
    /\ \A earlier \in 1..(r - 1) : turn[earlier].state # "none"
    /\ turn' = [turn EXCEPT ![r].state = "starting"]
    /\ start' = [NoStart EXCEPT !.step = "adapter", !.run = r, !.connection = c,
                                !.home = settings[c].home, !.delegated = settings[c].delegated]
    /\ UNCHANGED <<providers, registered, adapterVars, eventVars, settings, faults>>

GetAdapter ==
    /\ At("adapter")
    /\ \E a \in Adapters :
           /\ Obtain(start.connection, start.home, a)
           /\ start' = [start EXCEPT !.adapter = a,
                            !.step = IF start.delegated THEN Prepared ELSE "prepare"]
    /\ UNCHANGED <<registered, borrowed, eventVars, externalVars>>

(* Every call of a start may fail and end it, and does if the process ends *)
(* under it; so does a conflict, and a provider that is gone.  The provider*)
(* of a shutdown that fails has been removed and is not put back.          *)
StartFails ==
    /\ \/ /\ start.step \in {"prepare", "shutdown", "environment", "status", "session", "turn"}
          /\ Spend("failure")
       \/ /\ \/ /\ start.step \in {"status", "session", "turn"}
                /\ adapter[start.adapter].process = "dead"
             \/ /\ start.step \in {"adapter", "again"}
                /\ Conflicts(start.connection, start.home)
             \/ At("check") /\ providers[start.connection].adapter = 0
          /\ UNCHANGED faults
    /\ start' = NoStart
    /\ UNCHANGED <<providers, registered, adapterVars, eventVars, settings, turn>>

----------------------------------------------------------------------------
(* prepare_mode_b_runtime.                                                 *)

ResolveSecret ==
    /\ At("prepare")
    /\ start' = [start EXCEPT !.step = "check", !.secret = settings[start.connection].secret]
    /\ UNCHANGED <<providers, registered, adapterVars, eventVars, externalVars>>

(* Mutants of CheckGeneration: any generation will do, or no run is seen.  *)
CheckNoGeneration ==
    LET p == providers[start.connection] IN
    /\ At("check") /\ p.adapter # 0
    /\ start' = [start EXCEPT !.step = "probe", !.adapter = p.adapter,
                              !.active = HasRuns(start.connection)]
    /\ UNCHANGED <<providers, registered, adapterVars, eventVars, externalVars>>

CheckNoRuns ==
    LET p == providers[start.connection] IN
    /\ At("check") /\ p.adapter # 0
    /\ start' = [start EXCEPT !.step = IF p.generation = start.secret THEN "probe" ELSE "remove",
                              !.adapter = p.adapter]
    /\ UNCHANGED <<providers, registered, adapterVars, eventVars, externalVars>>

CheckGeneration ==
    LET p == providers[start.connection]  active == HasRuns(start.connection) IN
    /\ At("check") /\ p.adapter # 0
    /\ start' = CASE p.generation = start.secret
                         -> [start EXCEPT !.step = "probe", !.adapter = p.adapter,
                                          !.active = active]
                  [] p.generation # start.secret /\ active -> NoStart
                  [] OTHER -> [start EXCEPT !.step = "remove", !.adapter = p.adapter]
    /\ UNCHANGED <<providers, registered, adapterVars, eventVars, externalVars>>

(* has_live_credential_environment.                                        *)
ProbeEnvironment ==
    LET usable == Live(start.adapter) /\ adapter[start.adapter].env # None IN
    /\ At("probe")
    /\ start' = CASE usable                  -> [start EXCEPT !.step = Prepared]
                  [] ~usable /\ start.active -> NoStart
                  [] OTHER                   -> [start EXCEPT !.step = "remove"]
    /\ UNCHANGED <<providers, registered, adapterVars, eventVars, externalVars>>

RemoveProvider ==
    LET p == providers[start.connection] IN
    /\ At("remove")
    /\ start' = [start EXCEPT !.step = "shutdown",
                              !.adapter = IF p.adapter = 0 THEN @ ELSE p.adapter]
    /\ providers' = [providers EXCEPT ![start.connection] = NoProvider]
    /\ UNCHANGED <<registered, adapterVars, eventVars, externalVars>>

Shutdown ==
    /\ At("shutdown")
    /\ adapter' = [adapter EXCEPT ![start.adapter] = [@ EXCEPT !.process = "none", !.env = None]]
    /\ Ending(start.adapter, "interrupting")
    /\ Goes("again")
    /\ UNCHANGED <<providers, registered, made, borrowed, eventVars, settings, faults>>

GetAdapterAgain ==
    /\ At("again")
    /\ \E a \in Adapters :
           /\ Obtain(start.connection, start.home, a)
           /\ start' = [start EXCEPT !.adapter = a, !.step = "environment"]
    /\ UNCHANGED <<registered, borrowed, eventVars, externalVars>>

StartWithEnvironment ==
    /\ At("environment")
    /\ WithProcess(start.adapter, start.secret)
    /\ Goes("generation")
    /\ UNCHANGED <<providers, registered, made, borrowed, eventVars, externalVars>>

SetGeneration ==
    /\ At("generation")
    /\ providers' = IF providers[start.connection].adapter = 0 THEN providers
                    ELSE [providers EXCEPT ![start.connection].generation = start.secret]
    /\ Goes(Prepared)
    /\ UNCHANGED <<registered, adapterVars, eventVars, externalVars>>

----------------------------------------------------------------------------
(* The rest of start_run.                                                  *)

AccountStatus ==
    /\ At("status")
    /\ WithProcess(start.adapter, None)
    /\ Goes("session")
    /\ UNCHANGED <<providers, registered, made, borrowed, eventVars, externalVars>>

StartSession ==
    /\ At("session")
    /\ WithProcess(start.adapter, None)
    /\ Goes("turn")
    /\ UNCHANGED <<providers, registered, made, borrowed, eventVars, externalVars>>

(* start_session found its process ended: the adapter is evicted, unless a *)
(* run needs it or it was replaced, and the start tries once more.         *)
EvictIdleAdapter ==
    /\ At("session") /\ ~start.retried
    /\ ~HasRuns(start.connection)
    /\ providers[start.connection].adapter = start.adapter
    /\ adapter[start.adapter].process = "dead"
    /\ providers' = [providers EXCEPT ![start.connection] = NoProvider]
    /\ start' = [start EXCEPT !.step = "adapter", !.adapter = 0, !.retried = TRUE]
    /\ UNCHANGED <<registered, adapterVars, eventVars, externalVars>>

StartTurn ==
    LET a == start.adapter IN
    /\ At("turn")
    /\ WithProcess(a, None)
    /\ turn' = [turn EXCEPT ![start.run] =
                    [@ EXCEPT !.state = "open", !.adapter = a, !.secret = start.secret,
                              !.env = adapter'[a].env]]
    /\ Goes("register")
    /\ UNCHANGED <<providers, registered, made, borrowed, eventVars, settings, faults>>

(* A mutant of RegisterRun: nobody is told of the early events.            *)
RegisterSilently ==
    /\ At("register")
    /\ registered' = [registered EXCEPT ![start.run] = start.connection]
    /\ replay' = replay \o pending[start.run]
    /\ pending' = [pending EXCEPT ![start.run] = <<>>]
    /\ start' = NoStart
    /\ UNCHANGED <<providers, adapterVars, channel, permit, consumer, delivered, refused,
                   externalVars>>

RegisterRun ==
    /\ At("register")
    /\ registered' = [registered EXCEPT ![start.run] = start.connection]
    /\ replay' = replay \o pending[start.run]
    /\ pending' = [pending EXCEPT ![start.run] = <<>>]
    /\ permit' = (permit \/ pending[start.run] # <<>>)
    /\ start' = NoStart
    /\ UNCHANGED <<providers, adapterVars, channel, consumer, delivered, refused, externalVars>>

----------------------------------------------------------------------------
(* next_event.                                                             *)

(* convert_event, and retire_run for the last event of a run.              *)
Convert(e) ==
    LET c == registered[e.run] IN
    IF c = None
    THEN /\ refused' = refused \cup {e}
         /\ UNCHANGED <<delivered, registered, providers>>
    ELSE /\ delivered' = delivered \cup {e}
         /\ registered' = IF Terminal(e) THEN [registered EXCEPT ![e.run] = None] ELSE registered
         /\ providers' = IF e.kind = "crashed" /\ \A r \in Runs \ {e.run} : registered[r] # c
                         THEN [providers EXCEPT ![c] = NoProvider] ELSE providers
         /\ UNCHANGED refused

PopReplay ==
    /\ consumer.step = "idle" /\ replay # <<>>
    /\ Convert(Head(replay))
    /\ replay' = Tail(replay)
    /\ UNCHANGED <<start, adapterVars, channel, pending, permit, consumer, externalVars>>

NothingToReplay ==
    /\ consumer.step = "idle" /\ replay = <<>>
    /\ consumer' = [consumer EXCEPT !.step = "looking"]
    /\ UNCHANGED <<harnessVars, adapterVars, channel, pending, replay, permit, delivered, refused,
                   externalVars>>

(* How many events are kept, run by run.                                   *)
EventsIn(kept) ==
    LET upTo[r \in 0..MaxRuns] == IF r = 0 THEN 0 ELSE upTo[r - 1] + Len(kept[r])
    IN  upTo[MaxRuns]

PendingEvents == EventsIn(pending)

(* A mutant of LookAtPending: there is always room.                        *)
LookAway ==
    /\ consumer.step = "looking"
    /\ consumer' = [consumer EXCEPT !.step = "listening"]
    /\ UNCHANGED <<harnessVars, adapterVars, channel, pending, replay, permit, delivered, refused,
                   externalVars>>

LookAtPending ==
    /\ consumer.step = "looking"
    /\ consumer' = [consumer EXCEPT !.step = IF PendingEvents >= PendingCapacity
                                             THEN "full" ELSE "listening"]
    /\ UNCHANGED <<harnessVars, adapterVars, channel, pending, replay, permit, delivered, refused,
                   externalVars>>

WakeUp ==
    /\ consumer.step \in {"full", "listening"} /\ permit
    /\ permit' = FALSE
    /\ consumer' = NoEvent
    /\ UNCHANGED <<harnessVars, adapterVars, channel, pending, replay, delivered, refused,
                   externalVars>>

Receive ==
    /\ consumer.step = "listening" /\ ~permit /\ channel # <<>>
    /\ consumer' = [step |-> "received", event |-> Head(channel)]
    /\ channel' = Tail(channel)
    /\ UNCHANGED <<harnessVars, adapterVars, pending, replay, permit, delivered, refused,
                   externalVars>>

Route ==
    LET e == consumer.event IN
    /\ consumer.step = "received"
    /\ IF registered[e.run] = None
       THEN /\ pending' = [pending EXCEPT ![e.run] = Append(@, e)]
            /\ UNCHANGED <<delivered, refused, registered, providers>>
       ELSE /\ Convert(e)
            /\ UNCHANGED pending
    /\ consumer' = NoEvent
    /\ UNCHANGED <<start, adapterVars, channel, replay, permit, externalVars>>

----------------------------------------------------------------------------
(* Account calls and commands: each holds an adapter until it returns, and *)
(* starts its process if there is none.                                    *)

AccountAdapter(c) ==
    /\ settings[c].delegated
    /\ Spend("call")
    /\ \E a \in Adapters : /\ Obtain(c, settings[c].home, a)
                           /\ borrowed' = borrowed \cup {a}
    /\ UNCHANGED <<start, registered, eventVars, settings, turn>>

NativeRun(r) ==
    /\ registered[r] # None /\ providers[registered[r]].adapter # 0
    /\ Spend("call")
    /\ borrowed' = borrowed \cup {providers[registered[r]].adapter}
    /\ UNCHANGED <<harnessVars, adapter, made, eventVars, settings, turn>>

UseAdapter(a) ==
    /\ a \in borrowed /\ ~Live(a)
    /\ WithProcess(a, None)
    /\ UNCHANGED <<harnessVars, made, borrowed, eventVars, externalVars>>

CallReturns(a) ==
    /\ a \in borrowed
    /\ borrowed' = borrowed \ {a}
    /\ UNCHANGED <<harnessVars, adapter, made, eventVars, externalVars>>

----------------------------------------------------------------------------
(* The adapters (external) and the user.                                   *)

(* The actor's events of a run: it begins with its acceptance and ends once*)
(* (RunsEndOnce of CodexActor); forward moves them into the channel.       *)
Emit(r) ==
    LET t == turn[r]
        next(kind) == [run |-> r, n |-> t.told + 1, kind |-> kind]
        Tells(kind, state) ==
            /\ channel' = Append(channel, next(kind))
            /\ turn' = [turn EXCEPT ![r].told = @ + 1, ![r].state = state]
    IN
    /\ t.state \in {"open", "crashing", "interrupting"} /\ Len(channel) < ChannelCapacity
    /\ \/ /\ t.told < MaxProgress /\ (t.told = 0 \/ t.state = "open")
          /\ Tells("progress", t.state)
       \/ t.told > 0 /\ t.state # "crashing" /\ Tells("ended", "over")
       \/ t.told > 0 /\ t.state = "crashing" /\ Tells("crashed", "over")
    /\ UNCHANGED <<harnessVars, adapterVars, pending, replay, permit, consumer, delivered,
                   refused, settings, faults>>

ProcessDies(a) ==
    /\ Live(a) /\ Spend("death")
    /\ adapter' = [adapter EXCEPT ![a].process = "dead"]
    /\ Ending(a, "crashing")
    /\ UNCHANGED <<harnessVars, made, borrowed, eventVars, settings>>

(* Nobody holds the adapter any more: dropping it kills its process, and   *)
(* the actor sees the end of the pipe or of the channel of commands first. *)
DropAdapter(a) ==
    /\ Live(a) /\ ~Held(a)
    /\ adapter' = [adapter EXCEPT ![a].process = "dead"]
    /\ \/ Ending(a, "crashing")
       \/ Ending(a, "interrupting")
    /\ UNCHANGED <<harnessVars, made, borrowed, eventVars, settings, faults>>

ChangeSettings(c) ==
    /\ Spend("change")
    /\ \/ \E home \in Homes, delegated \in BOOLEAN :
              settings' = [settings EXCEPT ![c] = [@ EXCEPT !.home = home,
                                                            !.delegated = delegated]]
       \/ \E secret \in Secrets : settings' = [settings EXCEPT ![c].secret = secret]
    /\ UNCHANGED <<harnessVars, adapterVars, eventVars, turn>>

----------------------------------------------------------------------------
Init ==
    /\ settings \in InitialSettings
    /\ adapter = [a \in Adapters |-> NoAdapter] /\ made = 0
    /\ providers = [c \in Connections |-> NoProvider]
    /\ borrowed = {}
    /\ start = NoStart
    /\ turn = [r \in Runs |-> NoTurn]
    /\ registered = [r \in Runs |-> None]
    /\ channel = <<>> /\ pending = [r \in Runs |-> <<>>] /\ replay = <<>>
    /\ permit = FALSE /\ consumer = NoEvent
    /\ delivered = {} /\ refused = {}
    /\ faults \in FaultPlans

PrepareModeBRuntime ==
    ResolveSecret \/ CheckGeneration \/ ProbeEnvironment \/ RemoveProvider \/ Shutdown
    \/ GetAdapterAgain \/ StartWithEnvironment \/ SetGeneration

StartGoesOn ==
    GetAdapter \/ StartFails \/ PrepareModeBRuntime \/ AccountStatus \/ StartSession
    \/ EvictIdleAdapter \/ StartTurn \/ RegisterRun

NextEvent == PopReplay \/ NothingToReplay \/ LookAtPending \/ WakeUp \/ Receive \/ Route

Next ==
    \/ \E r \in Runs, c \in Connections : BeginStart(r, c)
    \/ StartGoesOn \/ NextEvent
    \/ \E c \in Connections : AccountAdapter(c) \/ ChangeSettings(c)
    \/ \E r \in Runs : NativeRun(r) \/ Emit(r)
    \/ \E a \in Adapters : UseAdapter(a) \/ CallReturns(a) \/ ProcessDies(a) \/ DropAdapter(a)

Spec == Init /\ [][Next]_vars

(* The task of a start and the pump go on; nothing is assumed of others.   *)
FairSpec == Spec /\ WF_vars(StartGoesOn) /\ WF_vars(NextEvent)

----------------------------------------------------------------------------
(* Every value is of its type, and no buffer holds more than it may.       *)
TypeOK ==
    /\ settings \in Settings
    /\ adapter \in [Adapters -> Adapter] /\ made \in 0..MaxAdapters
    /\ providers \in [Connections -> Provider]
    /\ borrowed \subseteq Adapters
    /\ start \in Start
    /\ turn \in [Runs -> Turn]
    /\ registered \in [Runs -> Connections \cup {None}]
    /\ channel \in Seq(Event) /\ Len(channel) <= ChannelCapacity
    /\ pending \in [Runs -> Seq(Event)] /\ PendingEvents <= PendingCapacity
    /\ replay \in Seq(Event)
    /\ permit \in BOOLEAN
    /\ consumer.step \in {"idle", "looking", "full", "listening", "received"}
    /\ consumer.event \in IF consumer.step = "received" THEN Event ELSE {None}
    /\ delivered \subseteq Event /\ refused \subseteq Event
    /\ faults \in [Disturbances -> Nat]

(* A run of a connection with a secret of its own never works with a       *)
(* secret that was replaced before the run's start read it: its process    *)
(* has the one the start read or, if it was restarted meanwhile, none.     *)
NoRunUsesAStaleSecret ==
    \A r \in Runs : turn[r].secret # None => turn[r].env \in {None, turn[r].secret}

(* A credential is not rotated under a run: the runtime a start shuts down *)
(* has no registered run that still works, whatever account calls, crashes *)
(* and changes of the settings did since the start looked for runs.        *)
NoRotationUnderRuns ==
    [][At("shutdown") /\ start' # start
       => \A r \in Runs : registered[r] # None => turn'[r].state = turn[r].state]_vars

(* Every event of a run is handed out or refused in the end: next_event is *)
(* never left waiting for a notification that has already come, and events *)
(* kept for an unregistered run do not block those of the others for ever. *)
EventsAreDelivered ==
    \A r \in Runs : \A n \in 1..(MaxProgress + 1) :
        turn[r].told >= n ~> \E e \in delivered \cup refused : e.run = r /\ e.n = n

===============================================================================
