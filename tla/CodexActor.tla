------------------------------ MODULE CodexActor ------------------------------
(***************************************************************************)
(* The provider actor of Codex (provider-codex): one task per runtime that *)
(* owns the child process, correlates JSON-RPC requests with responses,    *)
(* keeps the provider's open requests, the active runs and the login in    *)
(* progress, and emits the events of the runs.  Callers reach it through a *)
(* channel; the adapter keeps at most one live runtime and starts another  *)
(* when the last one has closed.                                           *)
(*                                                                         *)
(* A step is what the actor does with one command or one frame.  The child *)
(* process is external: it answers in any order, or never, or what nobody  *)
(* asked, sends notifications and requests at any time, and may die between*)
(* any two steps.  Frames reach the actor in the order they were written.  *)
(***************************************************************************)
EXTENDS Naturals, Sequences, FiniteSets, SequencesExt

CONSTANTS
    None,
    Calls,          \* calls of the adapter's methods
    Runs,           \* turn ids, none of them used twice by the provider
    Requests,       \* ids of the provider's own requests
    Kinds,          \* what a call may ask for
    Notices,        \* what the provider may say of a run
    InFlight,       \* bound: frames between the child and the actor
    MaxNotices,     \* bound: notifications of one runtime about runs
    MaxRuntimes     \* bound: runtimes started one after the other

Mutations == {"logout", "start", "steer", "login"}
Terminals == {"completed", "interrupted", "crashed"}
Answers   == {"ok", "refused", "disconnected", "unknown", "notfound", "invalid"}

ASSUME ActorAssumption ==
    /\ None \notin Calls \cup Runs \cup Requests \cup Answers \cup Terminals \cup Mutations
    /\ Requests \cap ({"accepted", "item", "output", "malformed"} \cup Terminals) = {}
    /\ Kinds \subseteq {"read", "account", "logout", "start", "steer",
                        "login", "respond", "shutdown"}
    /\ Notices \subseteq {"item", "begin", "output", "finish", "completed",
                          "interrupted", "garbled"}
    /\ InFlight \in Nat /\ MaxNotices \in Nat /\ MaxRuntimes \in Nat

VARIABLES
    runtime,        \* the runtime: how many were started, and is the last one live
    calls,          \* what each call asks for, where it is and what it was told
    commands,       \* the channel into the actor
    pending,        \* calls written to the child and not answered
    serverRequests, \* the provider's requests nobody has answered
    runs,           \* active runs
    busy,           \* runs whose command has started (the reducer's commands)
    login,          \* AccountLoginState
    events,         \* what the event stream has said of each run
    frames,         \* frames the child has written and the actor has not read
    child           \* external: the child process.  Whether it is up; how often
                    \* it spoke of runs; the calls it read since it was started
                    \* (read), the mutations and responses it ever read (heard);
                    \* the call each turn is for and how the turn ended; the run
                    \* each request is about and the calls whose response it
                    \* got; whether the login of a call is over

vars == <<runtime, calls, commands, pending, serverRequests, runs, busy, login,
          events, frames, child>>

(* The login of a call is named by that call; completion is what was said  *)
(* of a login while the actor waited for the answer to its start.          *)
NoLogin == [state |-> "none", id |-> None, waiters |-> {},
            completion |-> [id |-> None, success |-> FALSE], updated |-> FALSE]

NewCall == [kind |-> None, about |-> None, step |-> "idle", client |-> 0,
            again |-> FALSE, answer |-> None]

(* What the child writes: responses, notifications about runs, requests,   *)
(* and the two notifications about the account.                            *)
Frame ==
    [type : {"response"}, call : Calls \cup {None},
     result : {"ok", "nobody", "error", "malformed"}, run : Runs \cup {None}]
    \cup [type : {"notice"}, run : Runs, what : Notices]
    \cup [type : {"request"}, request : Requests, run : Runs]
    \cup [type : {"login"}, call : Calls, success : BOOLEAN]
    \cup [type : {"updated"}, success : BOOLEAN]

CallRow == [kind : Kinds \cup {None}, about : Runs \cup Requests \cup {None},
            step : {"idle", "ready", "sent", "done"}, client : 0..MaxRuntimes,
            again : BOOLEAN, answer : Answers \cup {None}]

LoginState == [state : {"none", "starting", "pending", "failed"},
               id : Calls \cup {None}, waiters : SUBSET Calls,
               completion : [id : Calls \cup {None}, success : BOOLEAN],
               updated : BOOLEAN]

ChildState == [up : BOOLEAN, spoken : 0..MaxNotices, read : SUBSET Calls,
               heard : SUBSET Calls, turn : [Runs -> Calls \cup {None}],
               ended : [Runs -> {None, "completed", "interrupted", "garbled"}],
               asked : [Requests -> Runs \cup {None}],
               replies : [Requests -> Seq(Calls \cup {None})],
               over : [Calls -> BOOLEAN]]

Story == Seq({"accepted", "item", "output", "malformed"} \cup Requests \cup Terminals)

TypeOK ==
    /\ runtime \in [started : 0..MaxRuntimes, live : BOOLEAN]
    /\ calls \in [Calls -> CallRow]
    /\ commands \in Seq(Calls)
    /\ pending \subseteq Calls
    /\ serverRequests \subseteq Requests
    /\ runs \subseteq Runs
    /\ busy \subseteq Runs
    /\ login \in LoginState
    /\ events \in [Runs -> Story]
    /\ frames \in Seq(Frame)
    /\ child \in ChildState
    /\ \A c \in Calls : (calls[c].step = "done") = (calls[c].answer # None)

Init ==
    /\ runtime = [started |-> 0, live |-> FALSE]
    /\ calls = [c \in Calls |-> NewCall]
    /\ commands = <<>>
    /\ pending = {}
    /\ serverRequests = {}
    /\ runs = {}
    /\ busy = {}
    /\ login = NoLogin
    /\ events = [r \in Runs |-> <<>>]
    /\ frames = <<>>
    /\ child = [up |-> FALSE, spoken |-> 0, read |-> {}, heard |-> {},
                turn |-> [r \in Runs |-> None], ended |-> [r \in Runs |-> None],
                asked |-> [q \in Requests |-> None],
                replies |-> [q \in Requests |-> <<>>],
                over |-> [c \in Calls |-> FALSE]]

-----------------------------------------------------------------------------
(* Answers to the callers.                                                 *)

Answered(all, some, answer) ==
    [c \in Calls |-> IF c \in some
                     THEN [all[c] EXCEPT !.step = "done", !.client = 0, !.answer = answer]
                     ELSE all[c]]

(* A mutant of Dropped: the caller is not told.                            *)
DroppedUnanswered(all, some) ==
    [c \in Calls |-> IF c \in some THEN [all[c] EXCEPT !.step = "done"] ELSE all[c]]

(* The sender of a reply is dropped before it is used.                     *)
Dropped(all, some) ==
    [c \in Calls |->
        IF c \in some
        THEN [all[c] EXCEPT !.step = "done",
                !.answer = CASE all[c].kind = "respond" -> "notfound"
                             [] all[c].kind = "login"   -> "unknown"
                             [] OTHER                   -> "disconnected"]
        ELSE all[c]]

(* A mutant of Lost: a mutation that was written counts as never sent.     *)
LostUnsent(c) == "disconnected"

(* What is settled for a request that was written and will get no usable   *)
(* answer.                                                                 *)
Lost(c) == IF calls[c].kind \in Mutations THEN "unknown" ELSE "disconnected"

Emit(r, kind) == [events EXCEPT ![r] = Append(@, kind)]

(* Mutants of Retire: the run stays active; its requests stay open.        *)
RetireKeepingRun(r, before, terminal) ==
    /\ events' = [events EXCEPT ![r] = @ \o before \o <<terminal>>]
    /\ serverRequests' = {q \in serverRequests : child.asked[q] # r}
    /\ busy' = busy \ {r}
    /\ UNCHANGED runs

RetireKeepingRequests(r, before, terminal) ==
    /\ events' = [events EXCEPT ![r] = @ \o before \o <<terminal>>]
    /\ runs' = runs \ {r}
    /\ busy' = busy \ {r}
    /\ UNCHANGED serverRequests

(* emit_terminal_and_retire: the terminal event, then the run, its requests*)
(* and its commands are forgotten.                                         *)
Retire(r, before, terminal) ==
    /\ events' = [events EXCEPT ![r] = @ \o before \o <<terminal>>]
    /\ runs' = runs \ {r}
    /\ serverRequests' = {q \in serverRequests : child.asked[q] # r}
    /\ busy' = busy \ {r}

(* settle_runtime, and the end of the actor's task: what is pending is     *)
(* answered, every active run gets its terminal, the commands still in the *)
(* channel and the callers that wait for a login lose their senders.       *)
Settled(all) ==
    [c \in Calls |->
        IF c \in pending /\ all[c].kind # "login"
        THEN [all[c] EXCEPT !.step = "done", !.answer = Lost(c)]
        ELSE all[c]]

Unreached(left) == ToSet(left) \cup login.waiters

Close(all, left, terminal) ==
    /\ calls' = Dropped(Settled(all), Unreached(left))
    /\ commands' = <<>>
    /\ pending' = {}
    /\ serverRequests' = {}
    /\ events' = [r \in Runs |-> IF r \in runs THEN Append(events[r], terminal)
                                               ELSE events[r]]
    /\ runs' = {}
    /\ busy' = {}
    /\ login' = NoLogin
    /\ frames' = <<>>
    /\ runtime' = [runtime EXCEPT !.live = FALSE]

Killed == [child EXCEPT !.up = FALSE, !.read = {}]

-----------------------------------------------------------------------------
(* The adapter: one live runtime, started by the first call that needs it. *)

(* A call is made; its client belongs to the runtime that is live now, or  *)
(* to the one it starts.  The handshake fails if the child dies, answers   *)
(* wrongly or lets the start-up time pass.                                 *)
Enter(c, kind, about) ==
    calls' = [calls EXCEPT ![c] = [@ EXCEPT !.kind = kind, !.about = about,
                  !.step = "ready", !.client = runtime'.started]]

Subjects(kind) ==
    CASE kind = "steer"   -> {r \in Runs : events[r] # <<>>}
      [] kind = "respond" -> {q \in Requests : \E r \in Runs : q \in ToSet(events[r])}
      [] OTHER            -> {None}

UseRuntime(c) ==
    /\ calls[c].step = "idle"
    /\ runtime.live
    /\ UNCHANGED runtime
    /\ \E kind \in Kinds : \E about \in Subjects(kind) :
           /\ calls[c].again => kind = "account"
           /\ Enter(c, kind, about)
    /\ UNCHANGED <<commands, pending, serverRequests, runs, busy, login,
                   events, frames, child>>

(* The child answers the handshake, or the call is told why it did not; a  *)
(* start that fails is not tried again.                                    *)
StartRuntime(c) ==
    /\ calls[c].step = "idle"
    /\ ~runtime.live
    /\ runtime.started < MaxRuntimes
    /\ \E kind \in Kinds \ {"shutdown"} : \E about \in Subjects(kind) :
           /\ calls[c].again => kind = "account"
           /\ \/ /\ runtime' = [started |-> runtime.started + 1, live |-> TRUE]
                 /\ child' = [child EXCEPT !.up = TRUE, !.spoken = 0]
                 /\ Enter(c, kind, about)
              \/ /\ \E answer \in {"refused", "disconnected"} :
                        calls' = [calls EXCEPT ![c] =
                            [@ EXCEPT !.kind = kind, !.about = about, !.step = "done",
                                      !.again = (kind = "account"), !.answer = answer]]
                 /\ UNCHANGED <<runtime, child>>
    /\ UNCHANGED <<commands, pending, serverRequests, runs, busy, login,
                   events, frames>>

(* The client sends its command; the channel of a closed runtime refuses.  *)
Send(c) ==
    /\ calls[c].step = "ready"
    /\ IF runtime.live /\ calls[c].client = runtime.started
       THEN /\ calls' = [calls EXCEPT ![c].step = "sent", ![c].client = 0]
            /\ commands' = Append(commands, c)
       ELSE /\ calls' = Answered(calls, {c},
                   IF calls[c].kind = "respond" THEN "notfound" ELSE "disconnected")
            /\ UNCHANGED commands
    /\ UNCHANGED <<runtime, pending, serverRequests, runs, busy, login,
                   events, frames, child>>

(* account_read tries once more when the runtime was lost.                 *)
RetryAccountRead(c) ==
    /\ calls[c].step = "done"
    /\ calls[c].kind = "account"
    /\ calls[c].answer = "disconnected"
    /\ ~calls[c].again
    /\ calls' = [calls EXCEPT ![c] = [NewCall EXCEPT !.again = TRUE]]
    /\ UNCHANGED <<runtime, commands, pending, serverRequests, runs, busy,
                   login, events, frames, child>>

-----------------------------------------------------------------------------
(* Commands.                                                               *)

(* write_frame: a living child reads what is written; the pipe to a dead   *)
(* one fails, or takes the frame when its end is not noticed yet.          *)
Writes     == child.up
Swallows   == ~child.up
WriteFails == ~child.up

Reads(c) == [child EXCEPT !.read = @ \cup {c},
    !.heard = IF calls[c].kind \in Mutations THEN @ \cup {c} ELSE @]

Taken(c) == runtime.live /\ commands # <<>> /\ c = Head(commands)

(* CommandMessage::Request: a steering call of a run that is not active is *)
(* refused unsent; anything else is written and remembered.  If the pipe   *)
(* is broken the actor ends.                                               *)
TakeUnknownRun(c) ==
    /\ Taken(c)
    /\ calls[c].kind = "steer"
    /\ calls[c].about \notin runs
    /\ commands' = Tail(commands)
    /\ calls' = Answered(calls, {c}, "notfound")
    /\ UNCHANGED <<runtime, pending, serverRequests, runs, busy, login,
                   events, frames, child>>

Requested(c) ==
    \/ calls[c].kind \in {"read", "account", "logout", "start"}
    \/ calls[c].kind = "steer" /\ calls[c].about \in runs

TakeRequest(c) ==
    /\ Taken(c)
    /\ Requested(c)
    /\ \/ /\ Writes /\ child' = Reads(c)
       \/ Swallows /\ UNCHANGED child
    /\ commands' = Tail(commands)
    /\ pending' = pending \cup {c}
    /\ UNCHANGED <<runtime, calls, serverRequests, runs, busy, login, events, frames>>

TakeRequestFails(c) ==
    /\ Taken(c)
    /\ Requested(c)
    /\ WriteFails
    /\ child' = Killed
    /\ Close(Answered(calls, {c}, Lost(c)), Tail(commands), "crashed")

(* A mutant of TakeResponse: the request stays open.                       *)
TakeResponseKeeping(c) ==
    /\ Taken(c)
    /\ calls[c].kind = "respond"
    /\ calls[c].about \in serverRequests
    /\ Writes
    /\ child' = [child EXCEPT !.heard = @ \cup {c},
                              !.replies[calls[c].about] = Append(@, c)]
    /\ calls' = Answered(calls, {c}, "ok")
    /\ commands' = Tail(commands)
    /\ UNCHANGED <<runtime, pending, serverRequests, runs, busy, login, events, frames>>

(* CommandMessage::Respond                                                 *)
TakeResponse(c) ==
    /\ Taken(c)
    /\ calls[c].kind = "respond"
    /\ LET q == calls[c].about IN
       \/ /\ q \notin serverRequests
          /\ calls' = Answered(calls, {c}, "notfound")
          /\ UNCHANGED <<serverRequests, child>>
       \/ /\ q \in serverRequests
          /\ calls' = Answered(calls, {c}, "invalid")
          /\ UNCHANGED <<serverRequests, child>>
       \/ /\ q \in serverRequests
          /\ \/ /\ Writes
                /\ child' = [child EXCEPT !.heard = @ \cup {c},
                                          !.replies[q] = Append(@, c)]
             \/ Swallows /\ UNCHANGED child
          /\ calls' = Answered(calls, {c}, "ok")
          /\ serverRequests' = serverRequests \ {q}
    /\ commands' = Tail(commands)
    /\ UNCHANGED <<runtime, pending, runs, busy, login, events, frames>>

TakeResponseFails(c) ==
    /\ Taken(c)
    /\ calls[c].kind = "respond"
    /\ calls[c].about \in serverRequests
    /\ WriteFails
    /\ child' = Killed
    /\ Close(Answered(calls, {c}, "unknown"), Tail(commands), "crashed")

(* CommandMessage::AccountLoginStart: a start under way is joined, a login *)
(* in progress is reported, anything else starts one.                      *)
Starting(c) == [NoLogin EXCEPT !.state = "starting", !.waiters = {c}]

TakeLogin(c) ==
    /\ Taken(c)
    /\ calls[c].kind = "login"
    /\ CASE login.state = "starting" ->
              /\ login' = [login EXCEPT !.waiters = @ \cup {c}]
              /\ UNCHANGED <<calls, pending, child>>
         [] login.state = "pending" ->
              /\ calls' = Answered(calls, {c}, "ok")
              /\ UNCHANGED <<login, pending, child>>
         [] OTHER ->
              /\ \/ Writes /\ child' = Reads(c)
                 \/ Swallows /\ UNCHANGED child
              /\ login' = Starting(c)
              /\ pending' = pending \cup {c}
              /\ UNCHANGED calls
    /\ commands' = Tail(commands)
    /\ UNCHANGED <<runtime, serverRequests, runs, busy, events, frames>>

TakeLoginFails(c) ==
    /\ Taken(c)
    /\ calls[c].kind = "login"
    /\ login.state \notin {"starting", "pending"}
    /\ WriteFails
    /\ child' = Killed
    /\ Close(Answered(calls, {c}, "unknown"), Tail(commands), "crashed")

(* CommandMessage::Shutdown                                                *)
TakeShutdown(c) ==
    /\ Taken(c)
    /\ calls[c].kind = "shutdown"
    /\ child' = Killed
    /\ Close(Answered(calls, {c}, "ok"), Tail(commands), "interrupted")

(* The adapter is dropped, which no call can outlive: the actor finds its  *)
(* channel closed, or its child killed by the adapter's own drop.          *)
DropAdapter ==
    /\ runtime.live
    /\ \A c \in Calls : calls[c].step \in {"idle", "done"}
    /\ child' = Killed
    /\ \E terminal \in {"interrupted", "crashed"} : Close(calls, <<>>, terminal)

-----------------------------------------------------------------------------
(* Frames.                                                                 *)

Read(f) == runtime.live /\ frames # <<>> /\ f = Head(frames)

(* A mutant of AfterStart: what was said before the answer is lost.        *)
AfterStartForgetful(id) == [NoLogin EXCEPT !.state = "pending", !.id = id]

(* settle_login_start: whatever was kept of the login is taken away; a     *)
(* start that succeeds leaves what became of the login meanwhile.          *)
AfterStart(id) ==
    LET over == login.completion.id = id IN
    CASE login.updated \/ (over /\ login.completion.success) -> NoLogin
      [] ~login.updated /\ over /\ ~login.completion.success ->
             [NoLogin EXCEPT !.state = "failed"]
      [] OTHER -> [NoLogin EXCEPT !.state = "pending", !.id = id]

(* A mutant of SettleLoginStart: only the caller that started it hears.    *)
SettleFirstWaiter(c, answer) ==
    IF login.state = "starting"
    THEN /\ calls' = Answered(calls, {c}, answer)
         /\ login' = IF answer = "ok" THEN AfterStart(c) ELSE NoLogin
    ELSE /\ login' = NoLogin
         /\ UNCHANGED calls

SettleLoginStart(c, answer) ==
    IF login.state = "starting"
    THEN /\ calls' = Answered(calls, login.waiters, answer)
         /\ login' = IF answer = "ok" THEN AfterStart(c) ELSE NoLogin
    ELSE /\ login' = NoLogin
         /\ UNCHANGED calls

(* Whoever waits for a login that is cleared loses its sender.             *)
ClearLogin(all) ==
    /\ login' = NoLogin
    /\ calls' = Dropped(all, login.waiters)

(* A response: of nothing that is pending, an error, one that breaks the   *)
(* schema, or a result.                                                    *)
ReadStray(f) ==
    /\ Read(f)
    /\ f.type = "response"
    /\ f.call \notin pending
    /\ frames' = Tail(frames)
    /\ UNCHANGED <<runtime, calls, commands, pending, serverRequests, runs,
                   busy, login, events, child>>

ReadFailure(f) ==
    /\ Read(f)
    /\ f.type = "response"
    /\ f.call \in pending
    /\ f.result \in {"error", "malformed"}
    /\ LET answer == IF f.result = "malformed" /\ calls[f.call].kind \in Mutations
                     THEN "unknown" ELSE "refused" IN
       IF calls[f.call].kind = "login"
       THEN SettleLoginStart(f.call, answer)
       ELSE /\ calls' = Answered(calls, {f.call}, answer)
            /\ UNCHANGED login
    /\ pending' = pending \ {f.call}
    /\ frames' = Tail(frames)
    /\ UNCHANGED <<runtime, commands, serverRequests, runs, busy, events, child>>

(* RunAccepted is sent before the caller hears of its run.                 *)
ReadResult(f) ==
    /\ Read(f)
    /\ f.type = "response"
    /\ f.call \in pending
    /\ f.result \in {"ok", "nobody"}
    /\ LET c == f.call
           told == Answered(calls, {c}, "ok")
       IN CASE calls[c].kind = "login" ->
                 /\ SettleLoginStart(c, "ok")
                 /\ UNCHANGED <<runs, events>>
            [] calls[c].kind = "start" /\ f.run # None ->
                 /\ calls' = told
                 /\ runs' = runs \cup {f.run}
                 /\ events' = Emit(f.run, "accepted")
                 /\ UNCHANGED login
            [] calls[c].kind = "logout" \/ (calls[c].kind = "account" /\ f.result = "ok") ->
                 /\ ClearLogin(told)
                 /\ UNCHANGED <<runs, events>>
            [] OTHER ->
                 /\ calls' = told
                 /\ UNCHANGED <<login, runs, events>>
    /\ pending' = pending \ {f.call}
    /\ frames' = Tail(frames)
    /\ UNCHANGED <<runtime, commands, serverRequests, busy, child>>

(* account/login/completed                                                 *)
ReadLoginCompleted(f) ==
    /\ Read(f)
    /\ f.type = "login"
    /\ CASE login.state = "starting" ->
              /\ login' = [login EXCEPT !.completion = [id |-> f.call, success |-> f.success]]
              /\ UNCHANGED calls
         [] login.state = "pending" /\ login.id = f.call ->
              /\ login' = IF f.success THEN NoLogin
                          ELSE [NoLogin EXCEPT !.state = "failed"]
              /\ UNCHANGED calls
         [] OTHER -> UNCHANGED <<login, calls>>
    /\ frames' = Tail(frames)
    /\ UNCHANGED <<runtime, commands, pending, serverRequests, runs, busy,
                   events, child>>

(* account/updated, and a malformed account/login/completed                *)
ReadAccountUpdated(f) ==
    /\ Read(f)
    /\ f.type = "updated"
    /\ IF login.state = "starting" /\ f.success
       THEN login' = [login EXCEPT !.updated = TRUE] /\ UNCHANGED calls
       ELSE ClearLogin(calls)
    /\ frames' = Tail(frames)
    /\ UNCHANGED <<runtime, commands, pending, serverRequests, runs, busy,
                   events, child>>

(* A notification about a run, through the reducer.  Of a run that is not  *)
(* active it says nothing; output of a command that has not started, or an *)
(* end that breaks the schema, is malformed.                               *)
ReadNotice(f) ==
    /\ Read(f)
    /\ f.type = "notice"
    /\ f.what \notin {"completed", "interrupted", "garbled"}
    /\ IF f.run \in runs
       THEN /\ events' = CASE f.what = "item" -> Emit(f.run, "item")
                            [] f.what = "begin" -> events
                            [] f.run \in busy -> Emit(f.run, "output")
                            [] OTHER -> Emit(f.run, "malformed")
            /\ busy' = CASE f.what = "begin" -> busy \cup {f.run}
                          [] f.what = "finish" -> busy \ {f.run}
                          [] OTHER -> busy
       ELSE UNCHANGED <<events, busy>>
    /\ frames' = Tail(frames)
    /\ UNCHANGED <<runtime, calls, commands, pending, serverRequests, runs,
                   login, child>>

(* A mutant of ReadTurnCompleted: the status of the turn is not read.      *)
ReadAnyEndAsCompleted(f) ==
    /\ Read(f)
    /\ f.type = "notice"
    /\ f.what \in {"completed", "interrupted", "garbled"}
    /\ f.run \in runs
    /\ Retire(f.run, <<>>, "completed")
    /\ frames' = Tail(frames)
    /\ UNCHANGED <<runtime, calls, commands, pending, login, child>>

ReadTurnCompleted(f) ==
    /\ Read(f)
    /\ f.type = "notice"
    /\ f.what \in {"completed", "interrupted", "garbled"}
    /\ IF f.run \in runs
       THEN IF f.what = "garbled"
            THEN Retire(f.run, <<"malformed">>, "crashed")
            ELSE Retire(f.run, <<>>, f.what)
       ELSE UNCHANGED <<events, runs, serverRequests, busy>>
    /\ frames' = Tail(frames)
    /\ UNCHANGED <<runtime, calls, commands, pending, login, child>>

(* A request of the provider: it is kept and offered if it is valid and    *)
(* its run is active.  A question without a text passes the validation and *)
(* is kept, but the reducer calls it malformed.                            *)
ReadRequest(f) ==
    /\ Read(f)
    /\ f.type = "request"
    /\ f.run \in runs
    /\ serverRequests' = serverRequests \cup {f.request}
    /\ \/ events' = Emit(f.run, f.request)
       \/ events' = Emit(f.run, "malformed")
    /\ frames' = Tail(frames)
    /\ UNCHANGED <<runtime, calls, commands, pending, runs, busy, login, child>>

(* It is rejected with an error if no active run is named, or its method   *)
(* or contents are not valid; an active run hears of it, of an unknown     *)
(* method or malformed contents alike as "malformed".                      *)
RejectRequest(f) ==
    /\ Read(f)
    /\ f.type = "request"
    /\ \/ /\ Writes
          /\ child' = [child EXCEPT !.replies[f.request] = Append(@, None)]
       \/ Swallows /\ UNCHANGED child
    /\ events' = IF f.run \in runs THEN Emit(f.run, "malformed") ELSE events
    /\ frames' = Tail(frames)
    /\ UNCHANGED <<runtime, calls, commands, pending, serverRequests, runs,
                   busy, login>>

RejectRequestFails(f) ==
    /\ Read(f)
    /\ f.type = "request"
    /\ WriteFails
    /\ child' = Killed
    /\ Close(calls, commands, "crashed")

(* Inbound::Eof                                                            *)
ReadEof ==
    /\ runtime.live
    /\ ~child.up
    /\ frames = <<>>
    /\ child' = Killed
    /\ Close(calls, commands, "crashed")

-----------------------------------------------------------------------------
(* The child.                                                              *)

Says(f) == Len(frames) < InFlight /\ frames' = Append(frames, f)

ChildOnly == UNCHANGED <<runtime, calls, commands, pending, serverRequests,
                         runs, busy, login, events>>

(* A turn is opened for a call that was read; what is said of the turn, or *)
(* of a login, may come before the response.                               *)
OpenTurn(c, r) ==
    /\ child.up /\ c \in child.read
    /\ calls[c].kind = "start"
    /\ child.turn[r] = None
    /\ \A other \in Runs : child.turn[other] # c
    /\ child' = [child EXCEPT !.turn[r] = c]
    /\ ChildOnly /\ UNCHANGED frames

Results(c) ==
    {[type |-> "response", call |-> c, result |-> x, run |-> None] :
        x \in {"error", "malformed"}}
    \cup CASE calls[c].kind = "start" ->
               {[type |-> "response", call |-> c, result |-> "ok", run |-> r] :
                    r \in {t \in Runs : child.turn[t] = c}}
          [] calls[c].kind = "account" ->
               {[type |-> "response", call |-> c, result |-> x, run |-> None] :
                    x \in {"ok", "nobody"}}
          [] OTHER ->
               {[type |-> "response", call |-> c, result |-> "ok", run |-> None]}

Answer(c) ==
    /\ child.up /\ c \in child.read \cap pending
    /\ \A i \in DOMAIN frames : frames[i].type = "response" => frames[i].call # c
    /\ \E f \in Results(c) : Says(f)
    /\ ChildOnly /\ UNCHANGED child

AnswerNothing ==
    /\ child.up
    /\ Says([type |-> "response", call |-> None, result |-> "ok", run |-> None])
    /\ ChildOnly /\ UNCHANGED child

Notify(r, what) ==
    /\ child.up
    /\ child.turn[r] \in child.read
    /\ child.ended[r] = None
    /\ child.spoken < MaxNotices
    /\ Says([type |-> "notice", run |-> r, what |-> what])
    /\ child' = [child EXCEPT !.spoken = @ + 1,
                     !.ended[r] = IF what \in {"completed", "interrupted", "garbled"}
                                  THEN what ELSE None]
    /\ ChildOnly

Ask(q, r) ==
    /\ child.up
    /\ child.turn[r] \in child.read
    /\ child.asked[q] = None
    /\ Says([type |-> "request", request |-> q, run |-> r])
    /\ child' = [child EXCEPT !.asked[q] = r]
    /\ ChildOnly

CompleteLogin(c, success) ==
    /\ child.up /\ c \in child.read
    /\ calls[c].kind = "login"
    /\ ~child.over[c]
    /\ Says([type |-> "login", call |-> c, success |-> success])
    /\ child' = [child EXCEPT !.over[c] = TRUE]
    /\ ChildOnly

UpdateAccount(valid) ==
    /\ child.up
    /\ child.spoken < MaxNotices
    /\ Says([type |-> "updated", success |-> valid])
    /\ child' = [child EXCEPT !.spoken = @ + 1]
    /\ ChildOnly

Die ==
    /\ child.up
    /\ child' = [child EXCEPT !.up = FALSE]
    /\ ChildOnly /\ UNCHANGED frames

Child ==
    \/ \E c \in Calls :
          \/ Answer(c)
          \/ \E r \in Runs : OpenTurn(c, r)
          \/ \E success \in BOOLEAN : CompleteLogin(c, success)
    \/ \E r \in Runs :
          \/ \E what \in Notices : Notify(r, what)
          \/ \E q \in Requests : Ask(q, r)
    \/ \E valid \in BOOLEAN : UpdateAccount(valid)
    \/ AnswerNothing
    \/ Die

-----------------------------------------------------------------------------
Adapter(c) == UseRuntime(c) \/ StartRuntime(c) \/ Send(c) \/ RetryAccountRead(c)

Command(c) ==
    \/ TakeUnknownRun(c) \/ TakeRequest(c) \/ TakeRequestFails(c)
    \/ TakeResponse(c) \/ TakeResponseFails(c)
    \/ TakeLogin(c) \/ TakeLoginFails(c)
    \/ TakeShutdown(c)

Inbound(f) ==
    \/ ReadStray(f) \/ ReadFailure(f) \/ ReadResult(f)
    \/ ReadLoginCompleted(f) \/ ReadAccountUpdated(f)
    \/ ReadNotice(f) \/ ReadTurnCompleted(f)
    \/ ReadRequest(f) \/ RejectRequest(f) \/ RejectRequestFails(f)

Next ==
    \/ \E c \in Calls : Adapter(c) \/ Command(c)
    \/ \E f \in ToSet(frames) : Inbound(f)
    \/ ReadEof
    \/ DropAdapter
    \/ Child

Spec == Init /\ [][Next]_vars

-----------------------------------------------------------------------------
(* Properties.                                                             *)

(* A caller that is told "disconnected" or "not found" may safely try      *)
(* again: the provider has not heard of a mutation that failed this way.   *)
(* What may have been heard is "unknown", whichever way the actor ended.   *)
UnsentMeansUnheard ==
    \A c \in Calls :
        calls[c].kind \in Mutations \cup {"respond"}
          /\ calls[c].answer \in {"disconnected", "notfound", "invalid"}
        => c \notin child.heard

(* The story of a run in the event stream: it is accepted, then it is      *)
(* heard of, then it ends, once; it has ended exactly when the actor has   *)
(* forgotten it, whether the provider, a shutdown or a crash ended it.     *)
RunsEndOnce ==
    \A r \in Runs : LET story == events[r] IN
        /\ \A i \in DOMAIN story : (story[i] = "accepted") = (i = 1)
        /\ \A i \in DOMAIN story : story[i] \in Terminals => i = Len(story)
        /\ (r \in runs) = (story # <<>> /\ Last(story) \notin Terminals)

(* Nothing the actor keeps is about a run that has ended, so a request of  *)
(* an ended run cannot be answered any more.                               *)
NothingOutlivesItsRun ==
    /\ \A q \in serverRequests : child.asked[q] \in runs
    /\ busy \subseteq runs
    /\ ~runtime.live => runs = {} /\ pending = {}

(* The provider gets at most one response to each of its requests, and a   *)
(* caller that is told so was the one that gave it.                        *)
RequestsAreAnsweredOnce ==
    \A q \in Requests :
        /\ Len(child.replies[q]) <= 1
        /\ \A c \in ToSet(child.replies[q]) \ {None} :
               calls[c].answer = "ok" /\ calls[c].about = q

(* Each waiting call can still be answered: it is in the channel, it is    *)
(* pending with a child that may answer or end, or it waits for a login    *)
(* whose start is pending.                                                 *)
WaitersAreReachable ==
    \A c \in Calls :
        calls[c].step = "sent" =>
            \/ c \in ToSet(commands)
            \/ c \in pending /\ calls[c].kind # "login"
            \/ /\ c \in login.waiters
               /\ login.state = "starting"
               /\ \E p \in pending : calls[p].kind = "login"

(* A login is shown as in progress only while it is: what the provider     *)
(* said of its end is not lost, not even when it came before the answer to *)
(* the start.  Starts that overlap are left out: the actor keeps one login.*)
PendingLoginIsOpen ==
    LET only == \A c \in child.read \cup pending : calls[c].kind = "login" => c = login.id
        said == \E i \in DOMAIN frames :
                    frames[i].type = "login" /\ frames[i].call = login.id
    IN login.state = "pending" /\ only
       => (child.over[login.id] => said)

(* An outcome of the provider is passed on, not invented.                  *)
OutcomeIsTheTurns ==
    \A r \in Runs :
        events[r] # <<>> /\ Last(events[r]) = "completed" => child.ended[r] = "completed"

===============================================================================
