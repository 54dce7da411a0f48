--------------------------- MODULE CodexActorProofs ---------------------------
(***************************************************************************)
(* Theorems about CodexActor, for every number of calls, runs and requests *)
(* and every bound.                                                        *)
(***************************************************************************)
EXTENDS CodexActor, SequenceTheorems, TLAPS

-----------------------------------------------------------------------------
(* Types.                                                                  *)

AnswersAreGiven(all) ==
    \A c \in Calls : (all[c].step = "done") = (all[c].answer # None)

(* Changing one row of the table.                                          *)
LEMMA RowType ==
    ASSUME NEW all \in [Calls -> CallRow], AnswersAreGiven(all), NEW c \in Calls,
           NEW row \in CallRow, (row.step = "done") = (row.answer # None)
    PROVE  /\ [all EXCEPT ![c] = row] \in [Calls -> CallRow]
           /\ AnswersAreGiven([all EXCEPT ![c] = row])
  BY DEF AnswersAreGiven

(* The child of a new runtime.                                             *)
LEMMA StartedChild ==
    TypeOK => [child EXCEPT !.up = TRUE, !.spoken = 0] \in ChildState
  <1>1. 0 \in 0..MaxNotices
    BY ActorAssumption
  <1> QED BY <1>1 DEF TypeOK, ChildState

(* Answering some of the calls leaves a table of calls.                    *)
LEMMA AnsweredType ==
    ASSUME NEW all \in [Calls -> CallRow], AnswersAreGiven(all),
           NEW some, NEW answer \in Answers
    PROVE  /\ Answered(all, some, answer) \in [Calls -> CallRow]
           /\ AnswersAreGiven(Answered(all, some, answer))
  <1>1. 0 \in 0..MaxRuntimes
    BY ActorAssumption
  <1>2. ASSUME NEW c \in Calls
        PROVE  [all[c] EXCEPT !.step = "done", !.client = 0, !.answer = answer] \in CallRow
    BY <1>1 DEF CallRow
  <1>3. Answered(all, some, answer) \in [Calls -> CallRow]
    BY <1>2 DEF Answered
  <1>4. answer # None
    BY ActorAssumption
  <1>5. ASSUME NEW c \in Calls
        PROVE  Answered(all, some, answer)[c] =
                 IF c \in some THEN [all[c] EXCEPT !.step = "done", !.client = 0, !.answer = answer]
                 ELSE all[c]
    BY DEF Answered
  <1>6. ASSUME NEW c \in Calls
        PROVE  (Answered(all, some, answer)[c].step = "done")
                 = (Answered(all, some, answer)[c].answer # None)
    <2>1. all[c] \in CallRow /\ (all[c].step = "done") = (all[c].answer # None)
      BY DEF AnswersAreGiven
    <2> QED BY <1>4, <1>5, <2>1 DEF CallRow
  <1> QED BY <1>3, <1>6 DEF AnswersAreGiven

(* So does dropping the senders of some of them.                           *)
LEMMA DroppedType ==
    ASSUME NEW all \in [Calls -> CallRow], AnswersAreGiven(all), NEW some
    PROVE  /\ Dropped(all, some) \in [Calls -> CallRow]
           /\ AnswersAreGiven(Dropped(all, some))
  <1> DEFINE told(c) == CASE all[c].kind = "respond" -> "notfound"
                          [] all[c].kind = "login"   -> "unknown"
                          [] OTHER                   -> "disconnected"
  <1>1. ASSUME NEW c \in Calls PROVE told(c) \in Answers \ {None}
    BY ActorAssumption DEF Answers
  <1>2. Dropped(all, some) =
           [c \in Calls |-> IF c \in some
                            THEN [all[c] EXCEPT !.step = "done", !.answer = told(c)]
                            ELSE all[c]]
    BY DEF Dropped
  <1> HIDE DEF told
  <1>3. ASSUME NEW c \in Calls
        PROVE  [all[c] EXCEPT !.step = "done", !.answer = told(c)] \in CallRow
    BY <1>1 DEF CallRow
  <1>4. Dropped(all, some) \in [Calls -> CallRow]
    BY <1>2, <1>3
  <1>5. ASSUME NEW c \in Calls
        PROVE  (Dropped(all, some)[c].step = "done") = (Dropped(all, some)[c].answer # None)
    <2>1. CASE c \in some
      <3>1. Dropped(all, some)[c] = [all[c] EXCEPT !.step = "done", !.answer = told(c)]
        BY <1>2, <2>1
      <3>2. all[c] \in CallRow
        OBVIOUS
      <3>3. Dropped(all, some)[c].step = "done" /\ Dropped(all, some)[c].answer = told(c)
        BY <3>1, <3>2 DEF CallRow
      <3> QED BY <3>3, <1>1
    <2>2. CASE c \notin some
      BY <1>2, <2>2 DEF AnswersAreGiven
    <2> QED BY <2>1, <2>2
  <1> QED BY <1>4, <1>5 DEF AnswersAreGiven

(* And settling what is pending.                                           *)
LEMMA SettledType ==
    ASSUME NEW all \in [Calls -> CallRow], AnswersAreGiven(all)
    PROVE  /\ Settled(all) \in [Calls -> CallRow]
           /\ AnswersAreGiven(Settled(all))
  <1>1. ASSUME NEW c \in Calls PROVE Lost(c) \in Answers \ {None}
    BY ActorAssumption DEF Answers, Lost
  <1>2. ASSUME NEW c \in Calls
        PROVE  [all[c] EXCEPT !.step = "done", !.answer = Lost(c)] \in CallRow
    BY <1>1 DEF CallRow
  <1> QED BY <1>1, <1>2 DEF Settled, AnswersAreGiven, CallRow

-----------------------------------------------------------------------------
LEMMA FrameFields ==
    ASSUME NEW f \in Frame
    PROVE  /\ f.type = "response" => f.call \in Calls \cup {None} /\ f.run \in Runs \cup {None}
           /\ f.type = "notice" => f.run \in Runs /\ f.what \in Notices
           /\ f.type = "request" => f.run \in Runs /\ f.request \in Requests
           /\ f.type = "login" => f.call \in Calls /\ f.success \in BOOLEAN
  BY DEF Frame

Words == {"accepted", "item", "output", "malformed"} \cup Requests \cup Terminals

LEMMA EmitType ==
    ASSUME TypeOK, NEW r \in Runs, NEW kind \in Words
    PROVE  Emit(r, kind) \in [Runs -> Story]
  <1>1. Append(events[r], kind) \in Story
    BY DEF TypeOK, Story, Words
  <1> QED BY <1>1 DEF Emit, TypeOK

LEMMA NoLoginType == NoLogin \in LoginState
  <1>1. {} \in SUBSET Calls /\ FALSE \in BOOLEAN
    OBVIOUS
  <1> QED BY <1>1 DEF NoLogin, LoginState

LEMMA KilledType == TypeOK => Killed \in ChildState
  BY DEF TypeOK, ChildState, Killed

LEMMA CloseType ==
    ASSUME TypeOK, NEW all \in [Calls -> CallRow], AnswersAreGiven(all),
           NEW left, NEW terminal \in Terminals,
           Close(all, left, terminal), child' \in ChildState
    PROVE  TypeOK'
  <1>1. /\ calls' \in [Calls -> CallRow]
        /\ AnswersAreGiven(calls')
    BY SettledType, DroppedType DEF Close
  <1>2. events' \in [Runs -> Story]
    <2>1. ASSUME NEW r \in Runs PROVE Append(events[r], terminal) \in Story
      BY DEF TypeOK, Story
    <2> QED BY <2>1 DEF Close, TypeOK
  <1>3. runtime' \in [started : 0..MaxRuntimes, live : BOOLEAN]
    BY DEF Close, TypeOK
  <1>4. login' \in LoginState
    BY NoLoginType DEF Close
  <1>5. commands' \in Seq(Calls) /\ frames' \in Seq(Frame)
    BY DEF Close
  <1> QED BY <1>1, <1>2, <1>3, <1>4, <1>5 DEF Close, TypeOK, AnswersAreGiven

-----------------------------------------------------------------------------
(* Steps of the adapter keep the types.                                    *)
LEMMA AdapterType ==
    ASSUME TypeOK, NEW c \in Calls, Adapter(c)
    PROVE  TypeOK'
  <1> USE DEF TypeOK
  <1>0. /\ 0 \in 0..MaxRuntimes
        /\ "disconnected" \in Answers \ {None} /\ "notfound" \in Answers \ {None}
        /\ "refused" \in Answers \ {None}
    BY ActorAssumption DEF Answers
  <1>1. ASSUME NEW kind \in Kinds, NEW about \in Subjects(kind)
        PROVE  about \in Runs \cup Requests \cup {None}
    BY DEF Subjects
  <1>2. AnswersAreGiven(calls)
    BY DEF AnswersAreGiven
  <1>3. CASE UseRuntime(c)
    <2>1. PICK kind \in Kinds : \E about \in Subjects(kind) : Enter(c, kind, about)
      BY <1>3 DEF UseRuntime
    <2>2. PICK about \in Subjects(kind) : Enter(c, kind, about)
      BY <2>1
    <2>3. runtime' = runtime /\ calls[c].step = "idle"
      BY <1>3 DEF UseRuntime
    <2> DEFINE row == [calls[c] EXCEPT !.kind = kind, !.about = about,
                                       !.step = "ready", !.client = runtime'.started]
    <2>4. row \in CallRow /\ (row.step = "done") = (row.answer # None)
      <3>1. calls[c] \in CallRow /\ calls[c].answer = None
        BY <2>3
      <3>2. runtime'.started \in 0..MaxRuntimes
        BY <2>3
      <3>3. about \in Runs \cup Requests \cup {None}
        BY <1>1
      <3> HIDE DEF TypeOK
      <3> QED BY <3>1, <3>2, <3>3 DEF CallRow
    <2>5. calls' = [calls EXCEPT ![c] = row]
      BY <2>2 DEF Enter
    <2>6. calls' \in [Calls -> CallRow] /\ AnswersAreGiven(calls')
      <3> HIDE DEF row
      <3> QED BY <1>2, <2>4, <2>5, RowType
    <2> QED BY <1>3, <2>6 DEF UseRuntime, AnswersAreGiven
  <1>4. CASE StartRuntime(c)
    <2> DEFINE Starts(kind, about) ==
                   /\ runtime' = [started |-> runtime.started + 1, live |-> TRUE]
                   /\ child' = [child EXCEPT !.up = TRUE, !.spoken = 0]
                   /\ Enter(c, kind, about)
               Refuses(kind, about) ==
                   /\ \E answer \in {"refused", "disconnected"} :
                          calls' = [calls EXCEPT ![c] =
                              [@ EXCEPT !.kind = kind, !.about = about, !.step = "done",
                                        !.again = (kind = "account"), !.answer = answer]]
                   /\ UNCHANGED <<runtime, child>>
    <2>1. PICK kind \in Kinds : \E about \in Subjects(kind) :
              Starts(kind, about) \/ Refuses(kind, about)
      BY <1>4 DEF StartRuntime
    <2>2. PICK about \in Subjects(kind) : Starts(kind, about) \/ Refuses(kind, about)
      BY <2>1
    <2>3. /\ calls[c].step = "idle"
          /\ runtime.started < MaxRuntimes
      BY <1>4 DEF StartRuntime
    <2>4. CASE Starts(kind, about)
      <3> DEFINE n == runtime.started + 1
                 row == [calls[c] EXCEPT !.kind = kind, !.about = about,
                                         !.step = "ready", !.client = n]
      <3>1. n \in 0..MaxRuntimes
        BY <2>3, ActorAssumption
      <3>2. runtime' = [started |-> n, live |-> TRUE]
        BY <2>4
      <3> HIDE DEF n
      <3>3. row \in CallRow /\ (row.step = "done") = (row.answer # None)
        <4>1. calls[c] \in CallRow /\ calls[c].answer = None
          BY <2>3
        <4>2. about \in Runs \cup Requests \cup {None}
          BY <1>1
        <4> HIDE DEF TypeOK
        <4> QED BY <3>1, <4>1, <4>2 DEF CallRow
      <3>4. child' \in ChildState
        BY <2>4, StartedChild
      <3>5. calls' = [calls EXCEPT ![c] = row]
        <4>1. runtime'.started = n
          BY <3>2
        <4> QED BY <2>4, <4>1 DEF Enter
      <3>6. calls' \in [Calls -> CallRow] /\ AnswersAreGiven(calls')
        <4> HIDE DEF row
        <4> QED BY <1>2, <3>3, <3>5, RowType
      <3>7. runtime' \in [started : 0..MaxRuntimes, live : BOOLEAN]
        BY <3>1, <3>2
      <3> QED BY <1>4, <3>4, <3>6, <3>7 DEF StartRuntime, AnswersAreGiven
    <2>5. CASE Refuses(kind, about)
      <3>0. PICK answer \in {"refused", "disconnected"} :
                calls' = [calls EXCEPT ![c] =
                    [@ EXCEPT !.kind = kind, !.about = about, !.step = "done",
                              !.again = (kind = "account"), !.answer = answer]]
        BY <2>5
      <3> DEFINE last == (kind = "account")
                 row == [calls[c] EXCEPT !.kind = kind, !.about = about, !.step = "done",
                                         !.again = last, !.answer = answer]
      <3>1. row \in CallRow /\ (row.step = "done") = (row.answer # None)
        <4>1. calls[c] \in CallRow
          OBVIOUS
        <4>2. about \in Runs \cup Requests \cup {None}
          BY <1>1
        <4>3. answer \in Answers \ {None} /\ last \in BOOLEAN
          BY <1>0, <3>0
        <4> HIDE DEF TypeOK, last
        <4> QED BY <4>1, <4>2, <4>3 DEF CallRow
      <3>2. calls' = [calls EXCEPT ![c] = row]
        BY <3>0
      <3>3. calls' \in [Calls -> CallRow] /\ AnswersAreGiven(calls')
        <4> HIDE DEF row
        <4> QED BY <1>2, <3>1, <3>2, RowType
      <3>4. UNCHANGED <<runtime, child>>
        BY <2>5
      <3> QED BY <1>4, <3>3, <3>4 DEF StartRuntime, AnswersAreGiven
    <2> QED BY <2>2, <2>4, <2>5
  <1>5. CASE Send(c)
    <2>1. CASE /\ calls' = [calls EXCEPT ![c].step = "sent", ![c].client = 0]
               /\ commands' = Append(commands, c)
      <3> DEFINE row == [calls[c] EXCEPT !.step = "sent", !.client = 0]
      <3>1. calls[c].step = "ready"
        BY <1>5 DEF Send
      <3>2. row \in CallRow /\ (row.step = "done") = (row.answer # None)
        <4>1. /\ calls[c] \in CallRow /\ 0 \in 0..MaxRuntimes
              /\ (calls[c].step = "done") = (calls[c].answer # None)
          BY <1>0, ActorAssumption
        <4> HIDE DEF TypeOK
        <4> QED BY <3>1, <4>1 DEF CallRow
      <3>3. calls' = [calls EXCEPT ![c] = row]
        BY <2>1
      <3>4. calls' \in [Calls -> CallRow] /\ AnswersAreGiven(calls')
        <4> HIDE DEF row
        <4> QED BY <1>2, <3>2, <3>3, RowType
      <3> QED BY <1>5, <2>1, <3>4 DEF Send, AnswersAreGiven
    <2>2. CASE /\ \/ calls' = Answered(calls, {c}, "notfound")
                  \/ calls' = Answered(calls, {c}, "disconnected")
               /\ UNCHANGED commands
      <3>1. calls' \in [Calls -> CallRow] /\ AnswersAreGiven(calls')
        BY <1>0, <1>2, <2>2, AnsweredType
      <3> QED BY <1>5, <2>2, <3>1 DEF Send, AnswersAreGiven
    <2> QED BY <1>5, <2>1, <2>2 DEF Send
  <1>6. CASE RetryAccountRead(c)
    <2> DEFINE row == [NewCall EXCEPT !.again = TRUE]
    <2>1. row \in CallRow /\ (row.step = "done") = (row.answer # None)
      BY <1>0 DEF NewCall, CallRow
    <2>2. calls' = [calls EXCEPT ![c] = row]
      BY <1>6 DEF RetryAccountRead
    <2>3. calls' \in [Calls -> CallRow] /\ AnswersAreGiven(calls')
      <3> HIDE DEF row
      <3> QED BY <1>2, <2>1, <2>2, RowType
    <2> QED BY <1>6, <2>3 DEF RetryAccountRead, AnswersAreGiven
  <1> QED BY <1>3, <1>4, <1>5, <1>6 DEF Adapter

-----------------------------------------------------------------------------
(* Steps of the actor that take a command keep the types.                  *)
LEMMA ReadsType ==
    ASSUME TypeOK, NEW c \in Calls
    PROVE  Reads(c) \in ChildState
  BY DEF TypeOK, ChildState, Reads

LEMMA RepliedType ==
    ASSUME TypeOK, NEW c \in Calls, NEW q \in Requests
    PROVE  [child EXCEPT !.heard = @ \cup {c}, !.replies[q] = Append(@, c)] \in ChildState
  <1> DEFINE replies == [child.replies EXCEPT ![q] = Append(@, c)]
  <1>1. child \in ChildState
    BY DEF TypeOK
  <1>2. replies \in [Requests -> Seq(Calls \cup {None})]
    BY <1>1 DEF ChildState
  <1> HIDE DEF replies
  <1>3. [child EXCEPT !.heard = @ \cup {c}, !.replies = replies] \in ChildState
    BY <1>1, <1>2 DEF ChildState
  <1> QED BY <1>3 DEF replies

LEMMA StartingType ==
    ASSUME NEW c \in Calls
    PROVE  Starting(c) \in LoginState
  BY DEF Starting, NoLogin, LoginState

LEMMA LostType ==
    ASSUME NEW c
    PROVE  Lost(c) \in Answers \ {None}
  BY ActorAssumption DEF Lost, Answers

LEMMA CommandType ==
    ASSUME TypeOK, NEW c \in Calls, Command(c)
    PROVE  TypeOK'
  <1>0. /\ "ok" \in Answers \ {None} /\ "notfound" \in Answers \ {None}
        /\ "invalid" \in Answers \ {None} /\ "unknown" \in Answers \ {None}
        /\ "crashed" \in Terminals /\ "interrupted" \in Terminals
    BY ActorAssumption DEF Answers, Terminals
  <1>1. calls \in [Calls -> CallRow] /\ AnswersAreGiven(calls)
    BY DEF TypeOK, AnswersAreGiven
  <1>2. ASSUME NEW answer \in Answers \ {None}
        PROVE  /\ Answered(calls, {c}, answer) \in [Calls -> CallRow]
               /\ AnswersAreGiven(Answered(calls, {c}, answer))
    BY <1>1, AnsweredType
  <1>3. commands # <<>> => Tail(commands) \in Seq(Calls)
    BY DEF TypeOK
  <1>4. Killed \in ChildState
    BY KilledType
  <1>5. CASE TakeUnknownRun(c)
    BY <1>0, <1>2, <1>3, <1>5 DEF TakeUnknownRun, Taken, TypeOK, AnswersAreGiven
  <1>6. CASE TakeRequest(c)
    <2>1. child' \in ChildState
      BY <1>6, ReadsType DEF TakeRequest, TypeOK
    <2> QED BY <1>3, <1>6, <2>1 DEF TakeRequest, Taken, TypeOK
  <1>7. CASE TakeRequestFails(c)
    BY <1>0, <1>2, <1>4, <1>7, LostType, CloseType DEF TakeRequestFails
  <1>8. CASE TakeResponse(c)
    <2>1. child' \in ChildState
      <3> DEFINE q == calls[c].about
      <3>1. \/ child' = child
            \/ /\ q \in serverRequests
               /\ child' = [child EXCEPT !.heard = @ \cup {c}, !.replies[q] = Append(@, c)]
        BY <1>8 DEF TakeResponse
      <3>2. serverRequests \subseteq Requests /\ child \in ChildState
        BY DEF TypeOK
      <3> QED BY <3>1, <3>2, RepliedType
    <2>2. calls' \in [Calls -> CallRow] /\ AnswersAreGiven(calls')
      BY <1>0, <1>2, <1>8 DEF TakeResponse
    <2>3. serverRequests' \subseteq Requests
      BY <1>8 DEF TakeResponse, TypeOK
    <2> QED BY <1>3, <1>8, <2>1, <2>2, <2>3 DEF TakeResponse, Taken, TypeOK, AnswersAreGiven
  <1>9. CASE TakeResponseFails(c)
    BY <1>0, <1>2, <1>4, <1>9, CloseType DEF TakeResponseFails
  <1>10. CASE TakeLogin(c)
    <2>1. child' \in ChildState
      BY <1>10, ReadsType DEF TakeLogin, TypeOK
    <2>2. calls' \in [Calls -> CallRow] /\ AnswersAreGiven(calls')
      BY <1>0, <1>1, <1>2, <1>10 DEF TakeLogin
    <2>3. login' \in LoginState
      <3>1. [login EXCEPT !.waiters = @ \cup {c}] \in LoginState
        BY DEF TypeOK, LoginState
      <3> QED BY <1>10, <3>1, StartingType DEF TakeLogin, TypeOK
    <2>4. pending' \subseteq Calls
      BY <1>10 DEF TakeLogin, TypeOK
    <2> QED BY <1>3, <1>10, <2>1, <2>2, <2>3, <2>4 DEF TakeLogin, Taken, TypeOK, AnswersAreGiven
  <1>11. CASE TakeLoginFails(c)
    BY <1>0, <1>2, <1>4, <1>11, CloseType DEF TakeLoginFails
  <1>12. CASE TakeShutdown(c)
    BY <1>0, <1>2, <1>4, <1>12, CloseType DEF TakeShutdown
  <1> QED BY <1>5, <1>6, <1>7, <1>8, <1>9, <1>10, <1>11, <1>12 DEF Command

-----------------------------------------------------------------------------
(* Steps of the actor that read a frame keep the types.                    *)
LEMMA AfterStartType ==
    ASSUME NEW c \in Calls
    PROVE  AfterStart(c) \in LoginState
  <1>1. /\ NoLogin \in LoginState
        /\ [NoLogin EXCEPT !.state = "failed"] \in LoginState
        /\ [NoLogin EXCEPT !.state = "pending", !.id = c] \in LoginState
    BY NoLoginType DEF LoginState
  <1> QED BY <1>1 DEF AfterStart

LEMMA SettleLoginType ==
    ASSUME TypeOK, NEW c \in Calls, NEW answer \in Answers \ {None},
           SettleLoginStart(c, answer)
    PROVE  /\ calls' \in [Calls -> CallRow] /\ AnswersAreGiven(calls')
           /\ login' \in LoginState
  BY AnsweredType, AfterStartType, NoLoginType DEF SettleLoginStart, TypeOK, AnswersAreGiven

LEMMA ClearLoginType ==
    ASSUME NEW all \in [Calls -> CallRow], AnswersAreGiven(all), ClearLogin(all)
    PROVE  /\ calls' \in [Calls -> CallRow] /\ AnswersAreGiven(calls')
           /\ login' \in LoginState
  BY DroppedType, NoLoginType DEF ClearLogin

LEMMA RetireType ==
    ASSUME TypeOK, NEW r \in Runs, NEW before \in Seq(Words), NEW terminal \in Terminals,
           Retire(r, before, terminal)
    PROVE  /\ events' \in [Runs -> Story] /\ runs' \subseteq Runs
           /\ serverRequests' \subseteq Requests /\ busy' \subseteq Runs
  <1>1. events[r] \in Seq(Words) /\ <<terminal>> \in Seq(Words)
    BY DEF TypeOK, Story, Words
  <1>2. events[r] \o before \o <<terminal>> \in Story
    BY <1>1 DEF Story, Words
  <1>3. events' = [events EXCEPT ![r] = @ \o before \o <<terminal>>]
    BY DEF Retire
  <1>4. events' \in [Runs -> Story]
    BY <1>2, <1>3 DEF TypeOK
  <1> QED BY <1>4 DEF Retire, TypeOK

LEMMA InboundType ==
    ASSUME TypeOK, NEW f, Inbound(f)
    PROVE  TypeOK'
  <1>0. /\ "ok" \in Answers \ {None} /\ "refused" \in Answers \ {None}
        /\ "unknown" \in Answers \ {None}
        /\ "crashed" \in Terminals /\ "interrupted" \in Terminals
        /\ "completed" \in Terminals
    BY ActorAssumption DEF Answers, Terminals
  <1>1. calls \in [Calls -> CallRow] /\ AnswersAreGiven(calls)
    BY DEF TypeOK, AnswersAreGiven
  <1>2. Read(f)
    BY DEF Inbound, ReadStray, ReadFailure, ReadResult, ReadLoginCompleted,
           ReadAccountUpdated, ReadNotice, ReadTurnCompleted, ReadRequest,
           RejectRequest, RejectRequestFails
  <1>3. f \in Frame /\ Tail(frames) \in Seq(Frame)
    BY <1>2 DEF Read, TypeOK
  <1>4. pending \subseteq Calls
    BY DEF TypeOK
  <1>5. CASE ReadStray(f)
    BY <1>3, <1>5 DEF ReadStray, TypeOK
  <1>6. CASE ReadFailure(f)
    <2>1. f.call \in Calls
      BY <1>4, <1>6 DEF ReadFailure
    <2> DEFINE answer == IF f.result = "malformed" /\ calls[f.call].kind \in Mutations
                         THEN "unknown" ELSE "refused"
    <2>2. answer \in Answers \ {None}
      BY <1>0
    <2>3. /\ calls' \in [Calls -> CallRow] /\ AnswersAreGiven(calls')
          /\ login' \in LoginState
      <3>1. CASE SettleLoginStart(f.call, answer)
        <4> HIDE DEF answer
        <4> QED BY <2>1, <2>2, <3>1, SettleLoginType
      <3>2. CASE calls' = Answered(calls, {f.call}, answer) /\ UNCHANGED login
        <4> HIDE DEF answer
        <4> QED BY <1>1, <2>2, <3>2, AnsweredType DEF TypeOK
      <3> QED BY <1>6, <3>1, <3>2 DEF ReadFailure
    <2> QED BY <1>3, <1>6, <2>3 DEF ReadFailure, TypeOK, AnswersAreGiven
  <1>7. CASE ReadResult(f)
    <2>1. f.call \in Calls
      BY <1>4, <1>7 DEF ReadResult
    <2> DEFINE told == Answered(calls, {f.call}, "ok")
    <2>2. told \in [Calls -> CallRow] /\ AnswersAreGiven(told)
      BY <1>0, <1>1, AnsweredType
    <2>3. /\ calls' \in [Calls -> CallRow] /\ AnswersAreGiven(calls')
          /\ login' \in LoginState
          /\ runs' \subseteq Runs /\ events' \in [Runs -> Story]
      <3> HIDE DEF told
      <3>1. CASE SettleLoginStart(f.call, "ok") /\ UNCHANGED <<runs, events>>
        BY <1>0, <2>1, <3>1, SettleLoginType DEF TypeOK
      <3>2. CASE /\ f.run # None /\ f.type = "response"
                 /\ calls' = told /\ runs' = runs \cup {f.run}
                 /\ events' = Emit(f.run, "accepted") /\ UNCHANGED login
        <4>1. f.run \in Runs /\ "accepted" \in Words
          BY <1>3, <3>2, FrameFields DEF Words
        <4> QED BY <2>2, <3>2, <4>1, EmitType DEF TypeOK
      <3>3. CASE ClearLogin(told) /\ UNCHANGED <<runs, events>>
        BY <2>2, <3>3, ClearLoginType DEF TypeOK
      <3>4. CASE calls' = told /\ UNCHANGED <<login, runs, events>>
        BY <2>2, <3>4 DEF TypeOK
      <3> QED BY <1>7, <3>1, <3>2, <3>3, <3>4 DEF ReadResult, told
    <2> QED BY <1>3, <1>7, <2>3 DEF ReadResult, TypeOK, AnswersAreGiven
  <1>8. CASE ReadLoginCompleted(f)
    <2>1. f.call \in Calls /\ f.success \in BOOLEAN
      BY <1>3, <1>8, FrameFields DEF ReadLoginCompleted
    <2>2. /\ [login EXCEPT !.completion = [id |-> f.call, success |-> f.success]] \in LoginState
          /\ [NoLogin EXCEPT !.state = "failed"] \in LoginState
      BY <2>1, NoLoginType DEF TypeOK, LoginState
    <2> QED BY <1>1, <1>3, <1>8, <2>2, NoLoginType DEF ReadLoginCompleted, TypeOK, AnswersAreGiven
  <1>9. CASE ReadAccountUpdated(f)
    <2>1. [login EXCEPT !.updated = TRUE] \in LoginState
      BY DEF TypeOK, LoginState
    <2> QED BY <1>1, <1>3, <1>9, <2>1, ClearLoginType DEF ReadAccountUpdated, TypeOK, AnswersAreGiven
  <1>10. CASE ReadNotice(f)
    <2>1. f.run \in Runs
      BY <1>3, <1>10, FrameFields DEF ReadNotice
    <2>2. events' \in [Runs -> Story] /\ busy' \subseteq Runs
      <3>1. "item" \in Words /\ "output" \in Words /\ "malformed" \in Words
        BY DEF Words
      <3> QED BY <1>10, <2>1, <3>1, EmitType DEF ReadNotice, TypeOK
    <2> QED BY <1>3, <1>10, <2>2 DEF ReadNotice, TypeOK
  <1>11. CASE ReadTurnCompleted(f)
    <2>1. f.run \in Runs
      BY <1>3, <1>11, FrameFields DEF ReadTurnCompleted
    <2>2. /\ events' \in [Runs -> Story] /\ runs' \subseteq Runs
          /\ serverRequests' \subseteq Requests /\ busy' \subseteq Runs
      <3>1. <<>> \in Seq(Words) /\ <<"malformed">> \in Seq(Words)
        BY DEF Words
      <3> QED BY <1>0, <1>11, <2>1, <3>1, RetireType DEF ReadTurnCompleted, TypeOK
    <2> QED BY <1>3, <1>11, <2>2 DEF ReadTurnCompleted, TypeOK
  <1>12. CASE ReadRequest(f)
    <2>1. f.run \in Runs /\ f.request \in Words /\ "malformed" \in Words /\ f.request \in Requests
      BY <1>3, <1>12, FrameFields DEF ReadRequest, Words
    <2> QED BY <1>3, <1>12, <2>1, EmitType DEF ReadRequest, TypeOK
  <1>13. CASE RejectRequest(f)
    <2>1. f.request \in Requests
      BY <1>3, <1>13, FrameFields DEF RejectRequest
    <2>2. child' \in ChildState
      <3> DEFINE q == f.request
                 replies == [child.replies EXCEPT ![q] = Append(@, None)]
      <3>1. child \in ChildState
        BY DEF TypeOK
      <3>2. replies \in [Requests -> Seq(Calls \cup {None})]
        BY <2>1, <3>1 DEF ChildState
      <3>3. child' = child \/ child' = [child EXCEPT !.replies = replies]
        BY <1>13 DEF RejectRequest
      <3> HIDE DEF replies
      <3> QED BY <3>1, <3>2, <3>3 DEF ChildState
    <2>3. events' = events \/ (events' = Emit(f.run, "malformed") /\ f.run \in runs)
      BY <1>13 DEF RejectRequest
    <2>4. events' \in [Runs -> Story]
      <3>1. "malformed" \in Words /\ (f.run \in runs => f.run \in Runs)
        BY DEF Words, TypeOK
      <3> QED BY <2>3, <3>1, EmitType DEF TypeOK
    <2> QED BY <1>3, <1>13, <2>2, <2>4 DEF RejectRequest, TypeOK
  <1>14. CASE RejectRequestFails(f)
    BY <1>0, <1>1, <1>14, KilledType, CloseType DEF RejectRequestFails
  <1> QED BY <1>5, <1>6, <1>7, <1>8, <1>9, <1>10, <1>11, <1>12, <1>13, <1>14 DEF Inbound

-----------------------------------------------------------------------------
(* Steps of the child keep the types.                                      *)
LEMMA SaysType ==
    ASSUME TypeOK, NEW f \in Frame, Says(f)
    PROVE  frames' \in Seq(Frame)
  BY DEF Says, TypeOK

LEMMA ResultsType ==
    ASSUME NEW c \in Calls, NEW f \in Results(c)
    PROVE  f \in Frame
  BY DEF Results, Frame

LEMMA SpokenType ==
    ASSUME TypeOK, child.spoken < MaxNotices
    PROVE  child.spoken + 1 \in 0..MaxNotices
  <1>1. child.spoken \in 0..MaxNotices
    BY DEF TypeOK, ChildState
  <1> QED BY <1>1, ActorAssumption

LEMMA ChildType ==
    ASSUME TypeOK, Child
    PROVE  TypeOK'
  <1>1. child \in ChildState
    BY DEF TypeOK
  <1>2. ASSUME child' \in ChildState, frames' \in Seq(Frame), ChildOnly
        PROVE  TypeOK'
    BY <1>2 DEF TypeOK, ChildOnly
  <1>3. frames \in Seq(Frame)
    BY DEF TypeOK
  <1>4. ASSUME NEW c \in Calls, Answer(c)
        PROVE  TypeOK'
    BY <1>1, <1>2, <1>4, ResultsType, SaysType DEF Answer
  <1>5. ASSUME NEW c \in Calls, NEW r \in Runs, OpenTurn(c, r)
        PROVE  TypeOK'
    <2>1. [child EXCEPT !.turn[r] = c] \in ChildState
      BY <1>1 DEF ChildState
    <2> QED BY <1>2, <1>3, <1>5, <2>1 DEF OpenTurn
  <1>6. ASSUME NEW c \in Calls, NEW success \in BOOLEAN, CompleteLogin(c, success)
        PROVE  TypeOK'
    <2>1. [child EXCEPT !.over[c] = TRUE] \in ChildState
      BY <1>1 DEF ChildState
    <2>2. [type |-> "login", call |-> c, success |-> success] \in Frame
      BY DEF Frame
    <2> QED BY <1>2, <1>6, <2>1, <2>2, SaysType DEF CompleteLogin
  <1>7. ASSUME NEW r \in Runs, NEW what \in Notices, Notify(r, what)
        PROVE  TypeOK'
    <2> DEFINE n == child.spoken + 1
               outcome == IF what \in {"completed", "interrupted", "garbled"}
                          THEN what ELSE None
               ended == [child.ended EXCEPT ![r] = outcome]
    <2>1. n \in 0..MaxNotices
      BY <1>7, SpokenType DEF Notify
    <2>2. ended \in [Runs -> {None, "completed", "interrupted", "garbled"}]
      BY <1>1 DEF ChildState
    <2>3. child' = [child EXCEPT !.spoken = n, !.ended = ended]
      BY <1>7 DEF Notify
    <2>4. child' \in ChildState
      <3> HIDE DEF n, ended
      <3> QED BY <1>1, <2>1, <2>2, <2>3 DEF ChildState
    <2>5. [type |-> "notice", run |-> r, what |-> what] \in Frame
      BY DEF Frame
    <2> QED BY <1>2, <1>7, <2>4, <2>5, SaysType DEF Notify
  <1>8. ASSUME NEW q \in Requests, NEW r \in Runs, Ask(q, r)
        PROVE  TypeOK'
    <2>1. [child EXCEPT !.asked[q] = r] \in ChildState
      BY <1>1 DEF ChildState
    <2>2. [type |-> "request", request |-> q, run |-> r] \in Frame
      BY DEF Frame
    <2> QED BY <1>2, <1>8, <2>1, <2>2, SaysType DEF Ask
  <1>9. ASSUME NEW valid \in BOOLEAN, UpdateAccount(valid)
        PROVE  TypeOK'
    <2> DEFINE n == child.spoken + 1
    <2>1. n \in 0..MaxNotices
      BY <1>9, SpokenType DEF UpdateAccount
    <2>2. child' = [child EXCEPT !.spoken = n]
      BY <1>9 DEF UpdateAccount
    <2>3. child' \in ChildState
      <3> HIDE DEF n
      <3> QED BY <1>1, <2>1, <2>2 DEF ChildState
    <2>4. [type |-> "updated", success |-> valid] \in Frame
      BY DEF Frame
    <2> QED BY <1>2, <1>9, <2>3, <2>4, SaysType DEF UpdateAccount
  <1>10. ASSUME AnswerNothing PROVE TypeOK'
    <2>1. [type |-> "response", call |-> None, result |-> "ok", run |-> None] \in Frame
      BY DEF Frame
    <2> QED BY <1>1, <1>2, <1>10, <2>1, SaysType DEF AnswerNothing
  <1>11. ASSUME Die PROVE TypeOK'
    <2>1. [child EXCEPT !.up = FALSE] \in ChildState
      BY <1>1 DEF ChildState
    <2> QED BY <1>2, <1>3, <1>11, <2>1 DEF Die
  <1> QED BY <1>4, <1>5, <1>6, <1>7, <1>8, <1>9, <1>10, <1>11 DEF Child

-----------------------------------------------------------------------------
LEMMA InitType == Init => TypeOK
  <1> SUFFICES ASSUME Init PROVE TypeOK
    OBVIOUS
  <1>1. 0 \in 0..MaxRuntimes /\ 0 \in 0..MaxNotices
    BY ActorAssumption
  <1>2. NewCall \in CallRow
    BY <1>1 DEF NewCall, CallRow
  <1>3. NewCall.step = "idle" /\ NewCall.answer = None
    BY DEF NewCall
  <1>4. child \in ChildState
    BY <1>1 DEF Init, ChildState
  <1>5. login \in LoginState
    BY NoLoginType DEF Init
  <1>6. calls \in [Calls -> CallRow] /\ AnswersAreGiven(calls)
    BY <1>2, <1>3 DEF Init, AnswersAreGiven
  <1>7. events \in [Runs -> Story]
    BY DEF Init, Story
  <1>8. runtime \in [started : 0..MaxRuntimes, live : BOOLEAN]
    BY <1>1 DEF Init
  <1>9. commands \in Seq(Calls) /\ frames \in Seq(Frame)
    BY DEF Init
  <1> QED BY <1>4, <1>5, <1>6, <1>7, <1>8, <1>9 DEF Init, TypeOK, AnswersAreGiven

LEMMA TypeStep == TypeOK /\ [Next]_vars => TypeOK'
  <1> SUFFICES ASSUME TypeOK, [Next]_vars PROVE TypeOK'
    OBVIOUS
  <1>1. calls \in [Calls -> CallRow] /\ AnswersAreGiven(calls)
    BY DEF TypeOK, AnswersAreGiven
  <1>2. CASE UNCHANGED vars
    BY <1>2 DEF vars, TypeOK
  <1>3. CASE ReadEof
    <2>1. "crashed" \in Terminals
      BY DEF Terminals
    <2> QED BY <1>1, <1>3, <2>1, KilledType, CloseType DEF ReadEof
  <1>4. CASE DropAdapter
    <2>1. {"interrupted", "crashed"} \subseteq Terminals
      BY DEF Terminals
    <2> QED BY <1>1, <1>4, <2>1, KilledType, CloseType DEF DropAdapter
  <1> QED BY <1>2, <1>3, <1>4, AdapterType, CommandType, InboundType, ChildType DEF Next

(* Every reachable state has its types; in particular a call has an answer *)
(* exactly when it is done, whichever way the actor settled it.            *)
THEOREM TypeCorrect == Spec => []TypeOK
  BY InitType, TypeStep, PTL DEF Spec

-----------------------------------------------------------------------------
(* Nothing outlives its run.                                               *)

(* A request on its way to the actor names the run it was made for.        *)
RequestsNameTheirRun ==
    \A i \in DOMAIN frames :
        frames[i].type = "request" => child.asked[frames[i].request] = frames[i].run

RunInv == TypeOK /\ RequestsNameTheirRun /\ NothingOutlivesItsRun

(* What is left of the frames still names its runs.                        *)
LEMMA FramesRest ==
    ASSUME TypeOK, RequestsNameTheirRun, frames # <<>>, frames' = Tail(frames),
           child'.asked = child.asked
    PROVE  RequestsNameTheirRun'
  <1>1. frames \in Seq(Frame)
    BY DEF TypeOK
  <1>2. ASSUME NEW i \in DOMAIN frames'
        PROVE  i + 1 \in DOMAIN frames /\ frames'[i] = frames[i + 1]
    BY <1>1
  <1> QED BY <1>2 DEF RequestsNameTheirRun

(* One frame more: it is no request, or it names its run.                  *)
LEMMA FramesMore ==
    ASSUME TypeOK, RequestsNameTheirRun, NEW f \in Frame, Says(f),
           f.type # "request" \/ child'.asked[f.request] = f.run,
           \A q \in Requests : child.asked[q] # None => child'.asked[q] = child.asked[q]
    PROVE  RequestsNameTheirRun'
  <1>1. frames \in Seq(Frame)
    BY DEF TypeOK
  <1>2. frames' = Append(frames, f)
    BY DEF Says
  <1>3. ASSUME NEW i \in DOMAIN frames'
        PROVE  (i \in DOMAIN frames /\ frames'[i] = frames[i]) \/ frames'[i] = f
    BY <1>1, <1>2
  <1>4. ASSUME NEW i \in DOMAIN frames, frames[i].type = "request"
        PROVE  child'.asked[frames[i].request] = frames[i].run
    <2>1. frames[i] \in Frame
      BY <1>1
    <2>2. frames[i].request \in Requests /\ frames[i].run \in Runs
      BY <1>4, <2>1, FrameFields
    <2>3. child.asked[frames[i].request] # None
      BY <1>4, <2>2, ActorAssumption DEF RequestsNameTheirRun
    <2> QED BY <1>4, <2>2, <2>3 DEF RequestsNameTheirRun
  <1> QED BY <1>3, <1>4 DEF RequestsNameTheirRun

LEMMA CloseRuns ==
    ASSUME NEW all, NEW left, NEW terminal, Close(all, left, terminal)
    PROVE  RequestsNameTheirRun' /\ NothingOutlivesItsRun'
  BY DEF Close, RequestsNameTheirRun, NothingOutlivesItsRun

LEMMA RunStep == RunInv /\ [Next]_vars => RunInv'
  <1> SUFFICES ASSUME RunInv, [Next]_vars PROVE RequestsNameTheirRun' /\ NothingOutlivesItsRun'
    BY TypeStep DEF RunInv
  <1>0. TypeOK /\ RequestsNameTheirRun /\ NothingOutlivesItsRun
    BY DEF RunInv
  <1>1. CASE UNCHANGED vars
    BY <1>0, <1>1 DEF vars, RequestsNameTheirRun, NothingOutlivesItsRun
  <1>2. ASSUME NEW c \in Calls, Adapter(c)
        PROVE  RequestsNameTheirRun' /\ NothingOutlivesItsRun'
    <2>1. /\ child'.asked = child.asked
          /\ runtime'.live \/ UNCHANGED runtime
          /\ UNCHANGED <<frames, serverRequests, runs, busy, pending>>
      <3>1. CASE StartRuntime(c)
        <4>1. \/ /\ runtime' = [started |-> runtime.started + 1, live |-> TRUE]
                 /\ child' = [child EXCEPT !.up = TRUE, !.spoken = 0]
              \/ UNCHANGED <<runtime, child>>
          BY <3>1 DEF StartRuntime
        <4>2. child'.asked = child.asked /\ (runtime'.live \/ UNCHANGED runtime)
          <5>1. child \in ChildState
            BY <1>0 DEF TypeOK
          <5>2. CASE /\ runtime' = [started |-> runtime.started + 1, live |-> TRUE]
                     /\ child' = [child EXCEPT !.up = TRUE, !.spoken = 0]
            <6>1. runtime'.live
              BY <5>2, Zenon
            <6>2. child'.asked = child.asked
              BY <5>1, <5>2 DEF ChildState
            <6> QED BY <6>1, <6>2
          <5> QED BY <4>1, <5>2
        <4> QED BY <3>1, <4>2 DEF StartRuntime
      <3>2. CASE UseRuntime(c) \/ Send(c) \/ RetryAccountRead(c)
        BY <3>2 DEF UseRuntime, Send, RetryAccountRead
      <3> QED BY <1>2, <3>1, <3>2 DEF Adapter
    <2> QED BY <1>0, <2>1 DEF RequestsNameTheirRun, NothingOutlivesItsRun
  <1>3. ASSUME NEW c \in Calls, Command(c)
        PROVE  RequestsNameTheirRun' /\ NothingOutlivesItsRun'
    <2>1. CASE TakeRequestFails(c) \/ TakeResponseFails(c) \/ TakeLoginFails(c) \/ TakeShutdown(c)
      BY <2>1, CloseRuns DEF TakeRequestFails, TakeResponseFails, TakeLoginFails, TakeShutdown
    <2>2. CASE TakeUnknownRun(c) \/ TakeRequest(c) \/ TakeResponse(c) \/ TakeLogin(c)
      <3>1. /\ child'.asked = child.asked
            /\ runtime'.live
            /\ UNCHANGED <<frames, runs, busy>>
            /\ serverRequests' \subseteq serverRequests
        BY <1>0, <2>2 DEF TakeUnknownRun, TakeRequest, TakeResponse, TakeLogin, Taken, Reads,
                     TypeOK, ChildState
      <3> QED BY <1>0, <3>1 DEF RequestsNameTheirRun, NothingOutlivesItsRun
    <2> QED BY <1>3, <2>1, <2>2 DEF Command
  <1>4. ASSUME NEW f \in ToSet(frames), Inbound(f)
        PROVE  RequestsNameTheirRun' /\ NothingOutlivesItsRun'
    <2>1. CASE RejectRequestFails(f)
      BY <2>1, CloseRuns DEF RejectRequestFails
    <2>2. CASE ~RejectRequestFails(f)
      <3>1. /\ frames # <<>> /\ f = Head(frames) /\ runtime.live /\ UNCHANGED runtime
            /\ frames' = Tail(frames) /\ child'.asked = child.asked
        BY <1>0, <1>4, <2>2 DEF Inbound, Read, ReadStray, ReadFailure, ReadResult,
               ReadLoginCompleted, ReadAccountUpdated, ReadNotice, ReadTurnCompleted,
               ReadRequest, RejectRequest, TypeOK, ChildState
      <3>2. RequestsNameTheirRun'
        BY <1>0, <3>1, FramesRest
      <3>3. (\A q \in serverRequests' : child.asked[q] \in runs') /\ busy' \subseteq runs'
        <4>1. CASE ReadStray(f) \/ ReadFailure(f) \/ ReadResult(f) \/ ReadLoginCompleted(f)
                     \/ ReadAccountUpdated(f) \/ RejectRequest(f)
          <5>1. serverRequests' = serverRequests /\ busy' = busy /\ runs \subseteq runs'
            BY <4>1 DEF ReadStray, ReadFailure, ReadResult, ReadLoginCompleted,
                        ReadAccountUpdated, RejectRequest
          <5> QED BY <1>0, <5>1 DEF NothingOutlivesItsRun
        <4>2. CASE ReadNotice(f)
          BY <1>0, <4>2 DEF ReadNotice, NothingOutlivesItsRun
        <4>3. CASE ReadTurnCompleted(f)
          BY <1>0, <4>3 DEF ReadTurnCompleted, Retire, NothingOutlivesItsRun
        <4>4. CASE ReadRequest(f)
          <5>1. 1 \in DOMAIN frames /\ f = frames[1]
            BY <1>0, <3>1 DEF TypeOK
          <5>2. child.asked[f.request] = f.run
            BY <1>0, <4>4, <5>1 DEF ReadRequest, RequestsNameTheirRun
          <5> QED BY <1>0, <4>4, <5>2 DEF ReadRequest, NothingOutlivesItsRun
        <4> QED BY <1>4, <2>2, <4>1, <4>2, <4>3, <4>4 DEF Inbound
      <3> QED BY <3>1, <3>2, <3>3 DEF NothingOutlivesItsRun
    <2> QED BY <2>1, <2>2
  <1>5. CASE ReadEof \/ DropAdapter
    BY <1>5, CloseRuns DEF ReadEof, DropAdapter
  <1>6. CASE Child
    <2>1. /\ runtime' = runtime
          /\ UNCHANGED <<serverRequests, runs, busy, pending>>
      BY <1>6 DEF Child, Answer, OpenTurn, CompleteLogin, Notify, Ask, UpdateAccount,
                  AnswerNothing, Die, ChildOnly
    <2>2. ASSUME NEW f \in Frame, Says(f), f.type # "request", child'.asked = child.asked
          PROVE  RequestsNameTheirRun'
      BY <1>0, <2>2, FramesMore
    <2>3. /\ RequestsNameTheirRun'
          /\ \A q \in Requests : child.asked[q] # None => child'.asked[q] = child.asked[q]
      <3>1. ASSUME NEW c \in Calls, Answer(c)
            PROVE  RequestsNameTheirRun' /\ child' = child
        <4>1. PICK f \in Results(c) : Says(f)
          BY <3>1 DEF Answer
        <4>2. f \in Frame /\ f.type # "request"
          BY <4>1, ResultsType DEF Results
        <4> QED BY <2>2, <3>1, <4>1, <4>2 DEF Answer
      <3>2. ASSUME NEW c \in Calls, NEW r \in Runs, OpenTurn(c, r)
            PROVE  RequestsNameTheirRun' /\ child'.asked = child.asked
        BY <1>0, <3>2 DEF OpenTurn, TypeOK, ChildState, RequestsNameTheirRun
      <3>3. ASSUME NEW c \in Calls, NEW success \in BOOLEAN, CompleteLogin(c, success)
            PROVE  RequestsNameTheirRun' /\ child'.asked = child.asked
        <4>1. [type |-> "login", call |-> c, success |-> success] \in Frame
          BY DEF Frame
        <4> QED BY <1>0, <2>2, <3>3, <4>1 DEF CompleteLogin, TypeOK, ChildState
      <3>4. ASSUME NEW r \in Runs, NEW what \in Notices, Notify(r, what)
            PROVE  RequestsNameTheirRun' /\ child'.asked = child.asked
        <4>1. [type |-> "notice", run |-> r, what |-> what] \in Frame
          BY DEF Frame
        <4>2. child'.asked = child.asked
          BY <1>0, <3>4 DEF Notify, TypeOK, ChildState
        <4> QED BY <2>2, <3>4, <4>1, <4>2 DEF Notify
      <3>5. ASSUME NEW q \in Requests, NEW r \in Runs, Ask(q, r)
            PROVE  /\ RequestsNameTheirRun'
                   /\ \A p \in Requests : child.asked[p] # None => child'.asked[p] = child.asked[p]
        <4> DEFINE f == [type |-> "request", request |-> q, run |-> r]
        <4>1. f \in Frame /\ Says(f)
          BY <3>5 DEF Ask, Frame
        <4>2. /\ child'.asked[q] = r /\ child.asked[q] = None
              /\ \A p \in Requests \ {q} : child'.asked[p] = child.asked[p]
          BY <1>0, <3>5 DEF Ask, TypeOK, ChildState
        <4>3. child'.asked[f.request] = f.run
          BY <4>2
        <4>4. \A p \in Requests : child.asked[p] # None => child'.asked[p] = child.asked[p]
          BY <4>2
        <4> HIDE DEF f
        <4> QED BY <1>0, <4>1, <4>3, <4>4, FramesMore
      <3>6. ASSUME NEW valid \in BOOLEAN, UpdateAccount(valid)
            PROVE  RequestsNameTheirRun' /\ child'.asked = child.asked
        <4>1. [type |-> "updated", success |-> valid] \in Frame
          BY DEF Frame
        <4>2. child'.asked = child.asked
          BY <1>0, <3>6 DEF UpdateAccount, TypeOK, ChildState
        <4> QED BY <2>2, <3>6, <4>1, <4>2 DEF UpdateAccount
      <3>7. ASSUME AnswerNothing PROVE RequestsNameTheirRun' /\ child' = child
        <4>1. [type |-> "response", call |-> None, result |-> "ok", run |-> None] \in Frame
          BY DEF Frame
        <4> QED BY <2>2, <3>7, <4>1 DEF AnswerNothing
      <3>8. ASSUME Die PROVE RequestsNameTheirRun' /\ child'.asked = child.asked
        BY <1>0, <3>8 DEF Die, TypeOK, ChildState, RequestsNameTheirRun
      <3> QED BY <1>6, <3>1, <3>2, <3>3, <3>4, <3>5, <3>6, <3>7, <3>8 DEF Child
    <2>4. \A q \in serverRequests : child'.asked[q] \in runs
      <3>1. ASSUME NEW q \in serverRequests
            PROVE  q \in Requests /\ child.asked[q] # None /\ child.asked[q] \in runs
        BY <1>0, ActorAssumption DEF NothingOutlivesItsRun, TypeOK
      <3> QED BY <2>3, <3>1
    <2> QED BY <1>0, <2>1, <2>3, <2>4 DEF NothingOutlivesItsRun
  <1> QED BY <1>1, <1>2, <1>3, <1>4, <1>5, <1>6 DEF Next

(* No request and no command the actor keeps is about a run it has ended,  *)
(* and a closed runtime keeps neither runs nor unanswered requests,        *)
(* however many runs, requests and callers there are.                      *)
THEOREM RunsOutlived == Spec => []NothingOutlivesItsRun
  <1>1. Init => RunInv
    BY InitType DEF Init, RunInv, RequestsNameTheirRun, NothingOutlivesItsRun
  <1>2. RunInv => NothingOutlivesItsRun
    BY DEF RunInv
  <1> QED BY <1>1, <1>2, RunStep, PTL DEF Spec

-----------------------------------------------------------------------------
(* Where the calls are.  A call that waits is in one place: in the channel,*)
(* pending, or with the waiters of a login; the provider has heard only of *)
(* calls that are pending, wait for a login or were told so.               *)

Distinct(s) == \A i, j \in DOMAIN s : s[i] = s[j] => i = j

Quiet ==
    \A c \in Calls : calls[c].step \in {"idle", "ready"} =>
        c \notin ToSet(commands) \cup pending \cup login.waiters \cup child.heard

Queued ==
    /\ Distinct(commands)
    /\ \A c \in ToSet(commands) :
           calls[c].step = "sent" /\ c \notin pending \cup login.waiters \cup child.heard

Written ==
    \A c \in pending :
        /\ calls[c].kind \notin {"respond", "shutdown"}
        /\ calls[c].step = "sent" \/ (calls[c].kind = "login" /\ calls[c].step = "done")

Joined ==
    /\ login.state # "starting" => login.waiters = {}
    /\ login.state = "starting" => \E p \in pending : calls[p].kind = "login"
    /\ \A c \in login.waiters : calls[c].step = "sent" /\ calls[c].kind = "login"

Placed ==
    \A c \in Calls : calls[c].step = "sent" =>
        \/ c \in ToSet(commands)
        \/ c \in pending /\ calls[c].kind # "login"
        \/ c \in login.waiters

Heard ==
    \A c \in child.heard :
        /\ calls[c].kind \in Mutations \cup {"respond"}
        /\ \/ calls[c].step = "sent"
           \/ calls[c].step = "done" /\ calls[c].answer \in {"ok", "refused", "unknown"}

CallsInv == Quiet /\ Queued /\ Written /\ Joined /\ Placed /\ Heard
CallInv == TypeOK /\ CallsInv

LEMMA HeadOut ==
    ASSUME NEW s \in Seq(Calls), s # <<>>, Distinct(s)
    PROVE  /\ Head(s) \in Calls /\ Tail(s) \in Seq(Calls) /\ Distinct(Tail(s))
           /\ ToSet(s) = {Head(s)} \cup ToSet(Tail(s))
           /\ Head(s) \notin ToSet(Tail(s))
  <1>1. /\ Head(s) = s[1] /\ 1 \in DOMAIN s
        /\ Tail(s) \in Seq(Calls)
        /\ \A i \in DOMAIN Tail(s) : i + 1 \in DOMAIN s /\ Tail(s)[i] = s[i + 1]
        /\ \A i \in DOMAIN s : i # 1 => i - 1 \in DOMAIN Tail(s) /\ Tail(s)[i - 1] = s[i]
        /\ DOMAIN s \subseteq Nat \ {0} /\ DOMAIN Tail(s) \subseteq Nat \ {0}
    OBVIOUS
  <1>2. Distinct(Tail(s))
    BY <1>1 DEF Distinct
  <1>3. ToSet(s) = {Head(s)} \cup ToSet(Tail(s))
    <2>1. ASSUME NEW i \in DOMAIN s PROVE s[i] \in {Head(s)} \cup ToSet(Tail(s))
      BY <1>1 DEF ToSet
    <2>2. ASSUME NEW i \in DOMAIN Tail(s) PROVE Tail(s)[i] \in ToSet(s)
      BY <1>1 DEF ToSet
    <2>3. Head(s) \in ToSet(s)
      BY <1>1 DEF ToSet
    <2>4. ToSet(s) \subseteq {Head(s)} \cup ToSet(Tail(s))
      BY <2>1 DEF ToSet
    <2>5. ToSet(Tail(s)) \subseteq ToSet(s)
      BY <2>2 DEF ToSet
    <2> QED BY <2>3, <2>4, <2>5
  <1>4. ASSUME NEW i \in DOMAIN Tail(s) PROVE Tail(s)[i] # Head(s)
    BY <1>1 DEF Distinct
  <1>5. Head(s) \notin ToSet(Tail(s))
    BY <1>4 DEF ToSet
  <1> QED BY <1>1, <1>2, <1>3, <1>5

LEMMA AppendIn ==
    ASSUME NEW s \in Seq(Calls), NEW c \in Calls, c \notin ToSet(s), Distinct(s)
    PROVE  Distinct(Append(s, c)) /\ ToSet(Append(s, c)) = ToSet(s) \cup {c}
  <1> DEFINE t == Append(s, c)
             n == Len(s) + 1
  <1>1. /\ DOMAIN t = DOMAIN s \cup {n} /\ n \notin DOMAIN s
        /\ t[n] = c /\ \A i \in DOMAIN s : t[i] = s[i]
    OBVIOUS
  <1> HIDE DEF t, n
  <1>2. \A i \in DOMAIN s : s[i] # c
    BY DEF ToSet
  <1>3. Distinct(t)
    BY <1>1, <1>2 DEF Distinct
  <1>4. ToSet(t) = ToSet(s) \cup {c}
    <2>1. \A x : x \in ToSet(t) <=> \E i \in DOMAIN t : x = t[i]
      BY DEF ToSet
    <2>2. \A x : x \in ToSet(s) <=> \E i \in DOMAIN s : x = s[i]
      BY DEF ToSet
    <2> QED BY <1>1, <2>1, <2>2
  <1> QED BY <1>3, <1>4 DEF t

LEMMA EmptySet == ToSet(<<>>) = {} /\ Distinct(<<>>)
  BY DEF ToSet, Distinct

(* The rows of a table in which some calls were answered.                  *)
LEMMA AnsweredRows ==
    ASSUME NEW all \in [Calls -> CallRow], NEW some, NEW answer, NEW c \in Calls
    PROVE  /\ c \in some => /\ Answered(all, some, answer)[c].step = "done"
                            /\ Answered(all, some, answer)[c].answer = answer
                            /\ Answered(all, some, answer)[c].kind = all[c].kind
           /\ c \notin some => Answered(all, some, answer)[c] = all[c]
  <1>1. all[c] \in CallRow
    OBVIOUS
  <1> QED BY <1>1 DEF Answered, CallRow

LEMMA DroppedRows ==
    ASSUME NEW all \in [Calls -> CallRow], NEW some, NEW c \in Calls
    PROVE  /\ c \in some => /\ Dropped(all, some)[c].step = "done"
                            /\ Dropped(all, some)[c].kind = all[c].kind
                            /\ all[c].kind = "login" => Dropped(all, some)[c].answer = "unknown"
           /\ c \notin some => Dropped(all, some)[c] = all[c]
  <1> DEFINE told == CASE all[c].kind = "respond" -> "notfound"
                       [] all[c].kind = "login"   -> "unknown"
                       [] OTHER                   -> "disconnected"
  <1>1. c \in some => Dropped(all, some)[c] = [all[c] EXCEPT !.step = "done", !.answer = told]
    BY DEF Dropped
  <1>2. all[c].kind = "login" => told = "unknown"
    OBVIOUS
  <1>3. all[c] \in CallRow
    OBVIOUS
  <1> HIDE DEF told
  <1>4. c \in some => /\ Dropped(all, some)[c].step = "done"
                      /\ Dropped(all, some)[c].kind = all[c].kind
                      /\ Dropped(all, some)[c].answer = told
    BY <1>1, <1>3 DEF CallRow
  <1>5. c \notin some => Dropped(all, some)[c] = all[c]
    BY DEF Dropped
  <1> QED BY <1>2, <1>4, <1>5

LEMMA SettledRows ==
    ASSUME NEW all \in [Calls -> CallRow], NEW c \in Calls
    PROVE  LET settles == c \in pending /\ all[c].kind # "login" IN
           /\ settles => /\ Settled(all)[c].step = "done"
                         /\ Settled(all)[c].answer = Lost(c)
                         /\ Settled(all)[c].kind = all[c].kind
           /\ ~settles => Settled(all)[c] = all[c]
  <1>1. all[c] \in CallRow
    OBVIOUS
  <1> QED BY <1>1 DEF Settled, CallRow

(* The end of the actor.  Some of the calls (over) were answered just      *)
(* before, nobody had heard of them, and they are in none of the places.   *)
LEMMA CloseCalls ==
    ASSUME CallInv, NEW all \in [Calls -> CallRow], NEW left \in Seq(Calls),
           NEW terminal, NEW over,
           Close(all, left, terminal), child'.heard = child.heard,
           ToSet(commands) \subseteq over \cup ToSet(left),
           ToSet(left) \subseteq ToSet(commands),
           \A c \in Calls \ over : all[c] = calls[c],
           \A c \in over : /\ all[c].step = "done"
                           /\ c \notin child.heard \cup pending \cup login.waiters
    PROVE  CallsInv'
  <1>1. /\ calls \in [Calls -> CallRow] /\ pending \subseteq Calls
        /\ child.heard \subseteq Calls /\ login.waiters \subseteq Calls
    BY DEF CallInv, TypeOK, ChildState, LoginState
  <1>2. CallsInv
    BY DEF CallInv
  <1>3. Settled(all) \in [Calls -> CallRow]
    <2>1. ASSUME NEW row \in CallRow, NEW answer \in Answers \cup {None}
          PROVE  [row EXCEPT !.step = "done", !.answer = answer] \in CallRow
      BY DEF CallRow
    <2>2. ASSUME NEW c \in Calls
          PROVE  [all[c] EXCEPT !.step = "done", !.answer = Lost(c)] \in CallRow
      <3>1. all[c] \in CallRow /\ Lost(c) \in Answers \cup {None}
        BY LostType
      <3> QED BY <2>1, <3>1
    <2> QED BY <2>2 DEF Settled
  <1> DEFINE lost == ToSet(left) \cup login.waiters
  <1>4. calls' = Dropped(Settled(all), lost)
    BY DEF Close, Unreached
  <1>5. /\ ToSet(commands') = {} /\ Distinct(commands')
        /\ pending' = {} /\ login'.waiters = {} /\ login'.state = "none"
    BY EmptySet DEF Close, NoLogin
  <1>6. ASSUME NEW c \in Calls
        PROVE  calls'[c].step # "sent"
    <2> HIDE DEF lost
    <2>1. CASE c \in lost
      BY <1>3, <1>4, <2>1, DroppedRows
    <2>2. CASE c \notin lost /\ c \in pending /\ all[c].kind # "login"
      BY <1>3, <1>4, <2>2, DroppedRows, SettledRows
    <2>3. CASE c \notin lost /\ ~(c \in pending /\ all[c].kind # "login")
      <3>1. calls'[c] = all[c]
        BY <1>3, <1>4, <2>3, DroppedRows, SettledRows
      <3>2. CASE c \in over
        BY <3>1, <3>2
      <3>3. CASE c \notin over
        <4>1. all[c] = calls[c] /\ c \notin ToSet(commands) /\ c \notin login.waiters
          BY <2>3, <3>3 DEF lost
        <4> QED BY <1>2, <2>3, <3>1, <4>1 DEF CallsInv, Placed
      <3> QED BY <3>2, <3>3
    <2> QED BY <2>1, <2>2, <2>3
  <1>7. ASSUME NEW c \in child.heard
        PROVE  /\ calls'[c].kind \in Mutations \cup {"respond"}
               /\ calls'[c].step = "done" /\ calls'[c].answer \in {"ok", "refused", "unknown"}
    <2>1. /\ c \in Calls /\ c \notin over /\ all[c] = calls[c] /\ c \notin ToSet(left)
          /\ calls[c].kind \in Mutations \cup {"respond"}
      BY <1>1, <1>2, <1>7 DEF CallsInv, Queued, Heard
    <2>2. CASE c \in login.waiters
      <3>1. calls[c].kind = "login" /\ c \in lost
        BY <1>2, <2>2 DEF CallsInv, Joined
      <3>2. Settled(all)[c] = all[c]
        BY <2>1, <3>1, SettledRows
      <3> HIDE DEF lost
      <3> QED BY <1>3, <1>4, <2>1, <3>1, <3>2, DroppedRows
    <2>3. CASE c \notin login.waiters /\ c \in pending /\ calls[c].kind # "login"
      <3>1. c \notin lost
        BY <2>1, <2>3
      <3>2. Lost(c) = "unknown"
        BY <1>2, <2>1, <2>3 DEF CallsInv, Written, Lost
      <3> HIDE DEF lost
      <3> QED BY <1>3, <1>4, <2>1, <2>3, <3>1, <3>2, DroppedRows, SettledRows
    <2>4. CASE c \notin login.waiters /\ ~(c \in pending /\ calls[c].kind # "login")
      <3>1. c \notin lost
        BY <2>1, <2>4
      <3>2. c \notin ToSet(commands)
        BY <1>2, <1>7 DEF CallsInv, Queued
      <3>3. calls[c].step # "sent"
        BY <1>2, <2>1, <2>4, <3>2 DEF CallsInv, Placed
      <3>4. calls'[c] = calls[c]
        <4> HIDE DEF lost
        <4> QED BY <1>3, <1>4, <2>1, <2>4, <3>1, DroppedRows, SettledRows
      <3> QED BY <1>2, <1>7, <3>3, <3>4 DEF CallsInv, Heard
    <2> QED BY <2>2, <2>3, <2>4
  <1>8. ASSUME NEW c \in Calls, c \in child.heard PROVE calls'[c].step \notin {"idle", "ready"}
    BY <1>7, <1>8
  <1> QED BY <1>1, <1>5, <1>6, <1>7, <1>8
          DEF CallsInv, Quiet, Queued, Written, Joined, Placed, Heard

LEMMA AdapterCalls ==
    ASSUME CallInv, NEW c \in Calls, Adapter(c)
    PROVE  CallsInv'
  <1>1. /\ calls \in [Calls -> CallRow] /\ pending \subseteq Calls
        /\ child \in ChildState /\ login.waiters \subseteq Calls
        /\ child.heard \subseteq Calls /\ commands \in Seq(Calls)
        /\ calls[c] \in CallRow
    BY DEF CallInv, TypeOK, ChildState, LoginState
  <1>2. CallsInv
    BY DEF CallInv
  <1> USE DEF CallsInv
  <1>3. UNCHANGED <<pending, login>> /\ child'.heard = child.heard
    <2>1. child' = child \/ child' = [child EXCEPT !.up = TRUE, !.spoken = 0]
      BY DEF Adapter, UseRuntime, StartRuntime, Send, RetryAccountRead
    <2>2. child'.heard = child.heard
      BY <1>1, <2>1 DEF ChildState
    <2> QED BY <2>2 DEF Adapter, UseRuntime, StartRuntime, Send, RetryAccountRead
  <1>4. ASSUME calls[c].step = "idle", UNCHANGED commands,
               calls'[c].step \in {"ready", "done"},
               \A d \in Calls \ {c} : calls'[d] = calls[d]
        PROVE  CallsInv'
    <2>1. c \notin ToSet(commands) \cup pending \cup login.waiters \cup child.heard
      BY <1>2, <1>4 DEF Quiet
    <2>2. ToSet(commands) \subseteq Calls
      BY <1>1 DEF ToSet
    <2> QED BY <1>1, <1>2, <1>3, <1>4, <2>1, <2>2
            DEF Quiet, Queued, Written, Joined, Placed, Heard
  <1>5. CASE UseRuntime(c) \/ StartRuntime(c)
    <2>1. calls[c].step = "idle" /\ UNCHANGED commands
      BY <1>5 DEF UseRuntime, StartRuntime
    <2>2. /\ calls'[c].step \in {"ready", "done"}
          /\ \A d \in Calls \ {c} : calls'[d] = calls[d]
      <3>1. ASSUME NEW kind, NEW about, Enter(c, kind, about)
            PROVE  /\ calls'[c].step = "ready"
                   /\ \A d \in Calls \ {c} : calls'[d] = calls[d]
        BY <1>1, <3>1 DEF Enter, CallRow
      <3>2. ASSUME NEW kind, NEW about, NEW last, NEW answer,
                   calls' = [calls EXCEPT ![c] = [@ EXCEPT !.kind = kind, !.about = about,
                                !.step = "done", !.again = last, !.answer = answer]]
            PROVE  /\ calls'[c].step = "done"
                   /\ \A d \in Calls \ {c} : calls'[d] = calls[d]
        BY <1>1, <3>2 DEF CallRow
      <3>3. CASE UseRuntime(c)
        BY <3>1, <3>3 DEF UseRuntime
      <3>4. CASE StartRuntime(c)
        <4> DEFINE
              Fails(kind, about) ==
                  \E answer \in {"refused", "disconnected"} :
                      calls' = [calls EXCEPT ![c] = [@ EXCEPT !.kind = kind, !.about = about,
                          !.step = "done", !.again = (kind = "account"), !.answer = answer]]
        <4>0. PICK kind \in Kinds :
                  \E about \in Subjects(kind) : Enter(c, kind, about) \/ Fails(kind, about)
          BY <3>4 DEF StartRuntime
        <4>1. PICK about \in Subjects(kind) : Enter(c, kind, about) \/ Fails(kind, about)
          BY <4>0
        <4>2. CASE Enter(c, kind, about)
          <5>1. /\ calls'[c].step = "ready"
                /\ \A d \in Calls \ {c} : calls'[d] = calls[d]
            BY ONLY <3>1, <4>2, Zenon
          <5> QED BY ONLY <5>1
        <4>3. CASE Fails(kind, about)
          <5>1. PICK answer \in {"refused", "disconnected"} :
                    calls' = [calls EXCEPT ![c] = [@ EXCEPT !.kind = kind, !.about = about,
                        !.step = "done", !.again = (kind = "account"), !.answer = answer]]
            BY <4>3
          <5>2. /\ calls'[c].step = "done"
                /\ \A d \in Calls \ {c} : calls'[d] = calls[d]
            BY ONLY <3>2, <5>1, Zenon
          <5> QED BY ONLY <5>2
        <4> QED BY ONLY <4>1, <4>2, <4>3, Zenon
      <3> QED BY <1>5, <3>3, <3>4
    <2> QED BY <1>4, <2>1, <2>2
  <1>6. CASE Send(c)
    <2>1. c \notin ToSet(commands) \cup pending \cup login.waiters \cup child.heard
      BY <1>2, <1>6 DEF Quiet, Send
    <2>2. ToSet(commands) \subseteq Calls
      BY <1>1 DEF ToSet
    <2>3. CASE /\ calls' = [calls EXCEPT ![c].step = "sent", ![c].client = 0]
               /\ commands' = Append(commands, c)
      <3>1. /\ calls'[c].step = "sent" /\ calls'[c].kind = calls[c].kind
            /\ \A d \in Calls \ {c} : calls'[d] = calls[d]
        BY <1>1, <2>3 DEF CallRow
      <3>2. Distinct(commands') /\ ToSet(commands') = ToSet(commands) \cup {c}
        BY <1>1, <1>2, <2>1, <2>3, AppendIn DEF Queued
      <3> QED BY <1>1, <1>2, <1>3, <2>1, <2>2, <3>1, <3>2
              DEF Quiet, Queued, Written, Joined, Placed, Heard
    <2>4. CASE /\ \E answer : calls' = Answered(calls, {c}, answer)
               /\ UNCHANGED commands
      <3>1. /\ calls'[c].step = "done"
            /\ \A d \in Calls \ {c} : calls'[d] = calls[d]
        BY <1>1, <2>4, AnsweredRows
      <3>2. UNCHANGED commands
        BY <2>4
      <3> QED BY <1>1, <1>2, <1>3, <2>1, <2>2, <3>1, <3>2
              DEF Quiet, Queued, Written, Joined, Placed, Heard
    <2> QED BY <1>6, <2>3, <2>4 DEF Send
  <1>7. CASE RetryAccountRead(c)
    <2>1. calls[c].step = "done" /\ calls[c].kind = "account" /\ UNCHANGED commands
      BY <1>7 DEF RetryAccountRead
    <2>2. c \notin ToSet(commands) \cup pending \cup login.waiters \cup child.heard
      BY <1>2, <2>1 DEF Queued, Written, Joined, Heard, Mutations
    <2>3. /\ calls'[c].step = "idle"
          /\ \A d \in Calls \ {c} : calls'[d] = calls[d]
      BY <1>1, <1>7 DEF RetryAccountRead, NewCall
    <2>4. ToSet(commands) \subseteq Calls
      BY <1>1 DEF ToSet
    <2> QED BY <1>1, <1>2, <1>3, <2>1, <2>2, <2>3, <2>4
            DEF Quiet, Queued, Written, Joined, Placed, Heard
  <1> QED BY <1>5, <1>6, <1>7 DEF Adapter

LEMMA CommandCalls ==
    ASSUME CallInv, NEW c \in Calls, Command(c)
    PROVE  CallsInv'
  <1>1. /\ calls \in [Calls -> CallRow] /\ pending \subseteq Calls
        /\ child \in ChildState /\ login.waiters \subseteq Calls
        /\ child.heard \subseteq Calls /\ commands \in Seq(Calls)
        /\ login \in LoginState
        /\ calls[c] \in CallRow /\ Killed.heard = child.heard
    BY DEF CallInv, TypeOK, ChildState, LoginState, Killed
  <1>2. CallsInv
    BY DEF CallInv
  <1>3. commands # <<>> /\ c = Head(commands)
    BY DEF Command, TakeUnknownRun, TakeRequest, TakeRequestFails, TakeResponse,
           TakeResponseFails, TakeLogin, TakeLoginFails, TakeShutdown, Taken
  <1> DEFINE rest == Tail(commands)
  <1>4. /\ rest \in Seq(Calls) /\ Distinct(rest) /\ c \notin ToSet(rest)
        /\ ToSet(commands) = {c} \cup ToSet(rest)
    BY <1>1, <1>2, <1>3, HeadOut DEF CallsInv, Queued
  <1>5. /\ calls[c].step = "sent"
        /\ c \notin pending \cup login.waiters \cup child.heard
    BY <1>2, <1>4 DEF CallsInv, Queued
  <1>6. ToSet(rest) \subseteq Calls /\ ToSet(rest) \subseteq ToSet(commands)
    BY <1>4 DEF ToSet
  <1> HIDE DEF rest
  <1>7. CASE TakeRequestFails(c) \/ TakeResponseFails(c) \/ TakeLoginFails(c) \/ TakeShutdown(c)
    <2>1. PICK answer, terminal :
              /\ answer \in Answers
              /\ Close(Answered(calls, {c}, answer), rest, terminal)
              /\ child' = Killed
      BY <1>7, LostType DEF TakeRequestFails, TakeResponseFails, TakeLoginFails, TakeShutdown,
                  Answers, rest
    <2> DEFINE all == Answered(calls, {c}, answer)
    <2>2. all \in [Calls -> CallRow]
      <3>1. AnswersAreGiven(calls)
        BY DEF CallInv, TypeOK, AnswersAreGiven
      <3> QED BY <1>1, <2>1, <3>1, AnsweredType
    <2>3. all[c].step = "done" /\ \A d \in Calls \ {c} : all[d] = calls[d]
      BY <1>1, AnsweredRows
    <2> HIDE DEF all
    <2>4. Close(all, rest, terminal) /\ child'.heard = child.heard
      BY <1>1, <2>1 DEF all
    <2> DEFINE over == {c}
    <2>5. /\ ToSet(commands) \subseteq over \cup ToSet(rest)
          /\ \A d \in Calls \ over : all[d] = calls[d]
          /\ \A d \in over : /\ all[d].step = "done"
                            /\ d \notin child.heard \cup pending \cup login.waiters
      BY <1>4, <1>5, <2>3
    <2> HIDE DEF over
    <2> QED BY <1>4, <1>6, <2>2, <2>4, <2>5, CloseCalls
  <1>8. CASE TakeUnknownRun(c)
    <2>1. /\ calls'[c].step = "done" /\ \A d \in Calls \ {c} : calls'[d] = calls[d]
          /\ commands' = rest /\ UNCHANGED <<pending, login, child>>
      BY <1>1, <1>8, AnsweredRows DEF TakeUnknownRun, rest
    <2> QED BY <1>1, <1>2, <1>4, <1>5, <1>6, <2>1
            DEF CallsInv, Quiet, Queued, Written, Joined, Placed, Heard
  <1>9. CASE TakeRequest(c)
    <2>1. /\ commands' = rest /\ pending' = pending \cup {c}
          /\ calls[c].kind \in {"read", "account", "logout", "start", "steer"}
          /\ UNCHANGED <<calls, login>>
          /\ child' = Reads(c) \/ child' = child
      BY <1>9 DEF TakeRequest, Requested, rest
    <2>2. \/ child'.heard = child.heard
          \/ child'.heard = child.heard \cup {c} /\ calls[c].kind \in Mutations
      BY <1>1, <2>1 DEF Reads, ChildState
    <2> QED BY <1>1, <1>2, <1>4, <1>5, <1>6, <2>1, <2>2
            DEF CallsInv, Quiet, Queued, Written, Joined, Placed, Heard
  <1>10. CASE TakeResponse(c)
    <2>1. commands' = rest /\ calls[c].kind = "respond" /\ UNCHANGED <<pending, login>>
      BY <1>10 DEF TakeResponse, rest
    <2>2. /\ calls'[c].step = "done" /\ calls'[c].kind = "respond"
          /\ \A d \in Calls \ {c} : calls'[d] = calls[d]
          /\ calls'[c].answer = "ok" \/ child' = child
      <3>1. PICK answer : calls' = Answered(calls, {c}, answer) /\ (answer = "ok" \/ child' = child)
        BY <1>10 DEF TakeResponse
      <3> QED BY <1>1, <2>1, <3>1, AnsweredRows
    <2>3. child'.heard = child.heard \/ (calls'[c].answer = "ok" /\ child'.heard = child.heard \cup {c})
      <3>1. \/ child' = child
            \/ child' = [child EXCEPT !.heard = @ \cup {c},
                                      !.replies[calls[c].about] = Append(@, c)]
        BY <1>10 DEF TakeResponse
      <3>2. child'.heard = child.heard \/ child'.heard = child.heard \cup {c}
        <4> DEFINE replies == [child.replies EXCEPT ![calls[c].about] = Append(@, c)]
        <4>1. child' = child \/ child' = [child EXCEPT !.heard = @ \cup {c}, !.replies = replies]
          BY <3>1
        <4> HIDE DEF replies
        <4> QED BY <1>1, <4>1 DEF ChildState
      <3> QED BY <2>2, <3>2
    <2> QED BY <1>1, <1>2, <1>4, <1>5, <1>6, <2>1, <2>2, <2>3
            DEF CallsInv, Quiet, Queued, Written, Joined, Placed, Heard
  <1>11. CASE TakeLogin(c)
    <2>1. commands' = rest /\ calls[c].kind = "login"
      BY <1>11 DEF TakeLogin, rest
    <2>2. CASE login.state = "starting"
      <3>1. /\ UNCHANGED <<calls, pending, child>>
            /\ login' = [login EXCEPT !.waiters = @ \cup {c}]
        BY <1>11, <2>2 DEF TakeLogin
      <3>2. login'.waiters = login.waiters \cup {c} /\ login'.state = "starting"
        BY <1>1, <2>2, <3>1 DEF LoginState
      <3> QED BY <1>1, <1>2, <1>4, <1>5, <1>6, <2>1, <2>2, <3>1, <3>2
              DEF CallsInv, Quiet, Queued, Written, Joined, Placed, Heard
    <2>3. CASE login.state = "pending"
      <3>1. UNCHANGED <<login, pending, child>> /\ calls' = Answered(calls, {c}, "ok")
        BY <1>11, <2>3 DEF TakeLogin
      <3>2. calls'[c].step = "done" /\ \A d \in Calls \ {c} : calls'[d] = calls[d]
        BY <1>1, <3>1, AnsweredRows
      <3>3. UNCHANGED <<login, pending, child>>
        BY <3>1
      <3> QED BY SMTT(30), <1>1, <1>2, <1>4, <1>5, <1>6, <2>1, <3>2, <3>3
              DEF CallsInv, Quiet, Queued, Written, Joined, Placed, Heard
    <2>4. CASE login.state \notin {"starting", "pending"}
      <3>1. /\ UNCHANGED calls /\ pending' = pending \cup {c} /\ login' = Starting(c)
            /\ child' = Reads(c) \/ child' = child
        BY <1>11, <2>4 DEF TakeLogin
      <3>2. login'.waiters = {c} /\ login'.state = "starting"
        BY <3>1 DEF Starting, NoLogin
      <3>3. child'.heard = child.heard \/ child'.heard = child.heard \cup {c}
        BY <1>1, <3>1 DEF Reads, ChildState
      <3>4. login.waiters = {}
        BY <1>2, <2>4 DEF CallsInv, Joined
      <3> QED BY <1>1, <1>2, <1>4, <1>5, <1>6, <2>1, <3>1, <3>2, <3>3, <3>4
              DEF CallsInv, Quiet, Queued, Written, Joined, Placed, Heard, Mutations
    <2> QED BY <2>2, <2>3, <2>4
  <1> QED BY <1>7, <1>8, <1>9, <1>10, <1>11 DEF Command

(* The login's waiters are settled, with some of the pending calls (over). *)
LEMMA WaitersSettled ==
    ASSUME CallInv, NEW over, UNCHANGED commands, child'.heard = child.heard,
           login'.waiters = {}, login'.state # "starting",
           pending' \subseteq pending \ over,
           \A d \in pending \ pending' : d \in over \/ calls[d].kind = "login",
           \A d \in over : d \in pending /\ calls[d].kind # "login",
           \A d \in over \cup login.waiters :
               /\ calls'[d].step = "done" /\ calls'[d].kind = calls[d].kind
               /\ calls'[d].answer \in {"ok", "refused", "unknown"},
           \A d \in Calls \ (over \cup login.waiters) : calls'[d] = calls[d]
    PROVE  CallsInv'
  <1>1. /\ pending \subseteq Calls /\ login.waiters \subseteq Calls
        /\ child.heard \subseteq Calls /\ ToSet(commands) \subseteq Calls
    BY DEF CallInv, TypeOK, ChildState, LoginState, ToSet
  <1>2. CallsInv
    BY DEF CallInv
  <1>3. Quiet'
    BY <1>1, <1>2 DEF CallsInv, Quiet
  <1>4. Queued'
    BY <1>1, <1>2 DEF CallsInv, Queued
  <1>5. Written'
    BY <1>1, <1>2 DEF CallsInv, Written, Joined
  <1>6. Joined'
    BY DEF Joined
  <1>7. Placed'
    BY <1>1, <1>2 DEF CallsInv, Placed
  <1>8. Heard'
    BY <1>1, <1>2 DEF CallsInv, Heard
  <1> QED BY <1>3, <1>4, <1>5, <1>6, <1>7, <1>8 DEF CallsInv

LEMMA AfterStartSettles ==
    ASSUME NEW c
    PROVE  AfterStart(c).waiters = {} /\ AfterStart(c).state # "starting"
  BY DEF AfterStart, NoLogin

LEMMA LoginStartCalls ==
    ASSUME CallInv, NEW c \in pending, calls[c].kind = "login",
           NEW answer \in {"ok", "refused", "unknown"}, SettleLoginStart(c, answer),
           pending' = pending \ {c}, UNCHANGED commands, child'.heard = child.heard
    PROVE  CallsInv'
  <1>1. calls \in [Calls -> CallRow] /\ login.waiters \subseteq Calls
    BY DEF CallInv, TypeOK, LoginState
  <1>2. login'.waiters = {} /\ login'.state # "starting"
    BY AfterStartSettles DEF SettleLoginStart, NoLogin
  <1>3. /\ \A d \in login.waiters :
               /\ calls'[d].step = "done" /\ calls'[d].kind = calls[d].kind
               /\ calls'[d].answer = answer
        /\ \A d \in Calls \ login.waiters : calls'[d] = calls[d]
    <2>1. CASE login.state = "starting"
      BY <1>1, <2>1, AnsweredRows DEF SettleLoginStart
    <2>2. CASE login.state # "starting"
      BY <2>2 DEF CallInv, CallsInv, Joined, SettleLoginStart
    <2> QED BY <2>1, <2>2
  <1> DEFINE over == {}
  <1>4. /\ pending' \subseteq pending \ over
        /\ \A d \in pending \ pending' : d \in over \/ calls[d].kind = "login"
        /\ \A d \in over : d \in pending /\ calls[d].kind # "login"
        /\ over \cup login.waiters = login.waiters
    OBVIOUS
  <1> HIDE DEF over
  <1> QED BY <1>2, <1>3, <1>4, WaitersSettled

LEMMA ClearedCalls ==
    ASSUME CallInv, NEW all \in [Calls -> CallRow], NEW over, ClearLogin(all),
           UNCHANGED commands, child'.heard = child.heard, pending' = pending \ over,
           \A d \in over : /\ d \in pending /\ calls[d].kind # "login"
                          /\ all[d].step = "done" /\ all[d].kind = calls[d].kind
                          /\ all[d].answer = "ok",
           \A d \in Calls \ over : all[d] = calls[d]
    PROVE  CallsInv'
  <1>1. login.waiters \subseteq Calls /\ pending \subseteq Calls
    BY DEF CallInv, TypeOK, LoginState
  <1>2. login'.waiters = {} /\ login'.state # "starting"
    BY DEF ClearLogin, NoLogin
  <1>3. \A d \in login.waiters : calls[d].kind = "login" /\ d \notin over /\ all[d] = calls[d]
    BY <1>1 DEF CallInv, CallsInv, Joined
  <1>4. \A d \in over \cup login.waiters :
            /\ calls'[d].step = "done" /\ calls'[d].kind = calls[d].kind
            /\ calls'[d].answer \in {"ok", "refused", "unknown"}
    <2>1. ASSUME NEW d \in login.waiters
          PROVE  /\ calls'[d].step = "done" /\ calls'[d].kind = calls[d].kind
                 /\ calls'[d].answer = "unknown"
      BY <1>1, <1>3, DroppedRows DEF ClearLogin
    <2>2. ASSUME NEW d \in over
          PROVE  calls'[d] = all[d]
      BY <1>1, <1>3, DroppedRows DEF ClearLogin
    <2> QED BY <2>1, <2>2
  <1>5. \A d \in Calls \ (over \cup login.waiters) : calls'[d] = calls[d]
    BY <1>1, DroppedRows DEF ClearLogin
  <1> QED BY <1>1, <1>2, <1>4, <1>5, WaitersSettled

LEMMA SameCalls ==
    ASSUME CallInv, UNCHANGED <<calls, commands, pending>>, child'.heard = child.heard,
           login'.state = login.state /\ login'.waiters = login.waiters
    PROVE  CallsInv'
  BY DEF CallInv, CallsInv, Quiet, Queued, Written, Joined, Placed, Heard

LEMMA PendingAnswered ==
    ASSUME CallInv, NEW c \in pending, calls[c].kind # "login",
           NEW answer \in {"ok", "refused", "unknown"}, calls' = Answered(calls, {c}, answer),
           pending' = pending \ {c}, UNCHANGED <<commands, login>>, child'.heard = child.heard
    PROVE  CallsInv'
  <1>1. /\ calls \in [Calls -> CallRow] /\ c \in Calls /\ pending \subseteq Calls
        /\ login.waiters \subseteq Calls /\ child.heard \subseteq Calls
        /\ ToSet(commands) \subseteq Calls
    BY DEF CallInv, TypeOK, ChildState, LoginState, ToSet
  <1>2. CallsInv
    BY DEF CallInv
  <1>3. /\ calls'[c].step = "done" /\ calls'[c].kind = calls[c].kind
        /\ calls'[c].answer \in {"ok", "refused", "unknown"}
        /\ \A d \in Calls \ {c} : calls'[d] = calls[d]
    BY <1>1, AnsweredRows
  <1>4. c \notin ToSet(commands) \cup login.waiters
    BY <1>2 DEF CallsInv, Queued, Joined
  <1>5. Quiet'
    BY <1>1, <1>2, <1>3 DEF CallsInv, Quiet
  <1>6. Queued'
    BY <1>1, <1>2, <1>3, <1>4 DEF CallsInv, Queued
  <1>7. Written'
    BY <1>1, <1>2, <1>3 DEF CallsInv, Written
  <1>8. Joined'
    BY <1>1, <1>2, <1>3, <1>4 DEF CallsInv, Joined
  <1>9. Placed'
    BY <1>1, <1>2, <1>3 DEF CallsInv, Placed
  <1>10. Heard'
    BY <1>1, <1>2, <1>3 DEF CallsInv, Heard
  <1> QED BY <1>5, <1>6, <1>7, <1>8, <1>9, <1>10 DEF CallsInv

LEMMA InboundCalls ==
    ASSUME CallInv, NEW f, Inbound(f)
    PROVE  CallsInv'
  <1>1. /\ calls \in [Calls -> CallRow] /\ child \in ChildState /\ login \in LoginState
        /\ commands \in Seq(Calls) /\ pending \subseteq Calls
    BY DEF CallInv, TypeOK
  <1>2. CASE ReadStray(f) \/ ReadNotice(f) \/ ReadTurnCompleted(f) \/ ReadRequest(f)
               \/ RejectRequest(f)
    <2>1. UNCHANGED <<calls, commands, pending, login>>
      BY <1>2 DEF ReadStray, ReadNotice, ReadTurnCompleted, ReadRequest, RejectRequest
    <2>2. child'.heard = child.heard
      BY <1>1, <1>2 DEF ReadStray, ReadNotice, ReadTurnCompleted, ReadRequest, RejectRequest,
                        ChildState
    <2> QED BY <2>1, <2>2, SameCalls
  <1>3. CASE RejectRequestFails(f)
    <2> DEFINE over == {}
    <2>1. Close(calls, commands, "crashed") /\ child'.heard = child.heard
      BY <1>1, <1>3 DEF RejectRequestFails, Killed, ChildState
    <2>2. /\ ToSet(commands) \subseteq over \cup ToSet(commands)
          /\ \A d \in Calls \ over : calls[d] = calls[d]
          /\ \A d \in over : /\ calls[d].step = "done"
                            /\ d \notin child.heard \cup pending \cup login.waiters
      OBVIOUS
    <2> HIDE DEF over
    <2> QED BY <1>1, <2>1, <2>2, CloseCalls
  <1>4. CASE ReadLoginCompleted(f)
    <2>1. UNCHANGED <<calls, commands, pending, child>>
      BY <1>4 DEF ReadLoginCompleted
    <2>2. CASE login.state = "starting"
      <3>1. login' = [login EXCEPT !.completion = [id |-> f.call, success |-> f.success]]
        BY <1>4, <2>2 DEF ReadLoginCompleted
      <3>2. login'.state = login.state /\ login'.waiters = login.waiters
        BY <1>1, <3>1 DEF LoginState
      <3> QED BY <2>1, <3>2, SameCalls
    <2>3. CASE login.state # "starting"
      <3>1. login' = login \/ (login'.state # "starting" /\ login'.waiters = {})
        BY <1>4, <2>3 DEF ReadLoginCompleted, NoLogin
      <3>2. CASE login'.state # "starting" /\ login'.waiters = {}
        <4>1. login.waiters = {}
          BY <2>3 DEF CallInv, CallsInv, Joined
        <4> QED BY <2>1, <3>2, <4>1 DEF CallInv, CallsInv, Quiet, Queued, Written, Joined, Placed, Heard
      <3> QED BY <2>1, <3>1, <3>2, SameCalls
    <2> QED BY <2>2, <2>3
  <1>5. CASE ReadAccountUpdated(f)
    <2>1. UNCHANGED <<commands, pending, child>>
      BY <1>5 DEF ReadAccountUpdated
    <2>2. CASE login' = [login EXCEPT !.updated = TRUE] /\ UNCHANGED calls
      <3>1. login'.state = login.state /\ login'.waiters = login.waiters
        BY <1>1, <2>2 DEF LoginState
      <3> QED BY <2>1, <2>2, <3>1, SameCalls
    <2>3. CASE ClearLogin(calls)
      <3> DEFINE over == {}
      <3>1. /\ pending' = pending \ over
            /\ \A d \in over : /\ d \in pending /\ calls[d].kind # "login"
                              /\ calls[d].step = "done" /\ calls[d].answer = "ok"
        BY <2>1
      <3> HIDE DEF over
      <3> QED BY <1>1, <2>1, <2>3, <3>1, ClearedCalls
    <2> QED BY <1>5, <2>2, <2>3 DEF ReadAccountUpdated
  <1>6. CASE ReadFailure(f)
    <2>1. f.call \in pending /\ pending' = pending \ {f.call} /\ UNCHANGED <<commands, child>>
      BY <1>6 DEF ReadFailure
    <2>2. PICK answer \in {"refused", "unknown"} :
             IF calls[f.call].kind = "login"
             THEN SettleLoginStart(f.call, answer)
             ELSE calls' = Answered(calls, {f.call}, answer) /\ UNCHANGED login
      BY <1>6 DEF ReadFailure
    <2> QED BY <2>1, <2>2, LoginStartCalls, PendingAnswered
  <1>7. CASE ReadResult(f)
    <2>1. f.call \in pending /\ pending' = pending \ {f.call} /\ UNCHANGED <<commands, child>>
      BY <1>7 DEF ReadResult
    <2>2. CASE calls[f.call].kind = "login"
      <3>1. SettleLoginStart(f.call, "ok")
        BY <1>7, <2>2 DEF ReadResult
      <3> QED BY <2>1, <2>2, <3>1, LoginStartCalls
    <2>3. CASE calls[f.call].kind # "login"
      <3> DEFINE told == Answered(calls, {f.call}, "ok")
      <3>1. ClearLogin(told) \/ (calls' = told /\ UNCHANGED login)
        BY <1>7, <2>3 DEF ReadResult
      <3>2. CASE calls' = told /\ UNCHANGED login
        BY <2>1, <2>3, <3>2, PendingAnswered
      <3>3. CASE ClearLogin(told)
        <4>1. told \in [Calls -> CallRow]
          <5>1. AnswersAreGiven(calls) /\ "ok" \in Answers
            BY DEF CallInv, TypeOK, AnswersAreGiven, Answers
          <5> QED BY <1>1, <5>1, AnsweredType
        <4>2. /\ told[f.call].step = "done" /\ told[f.call].kind = calls[f.call].kind
              /\ told[f.call].answer = "ok"
              /\ \A d \in Calls \ {f.call} : told[d] = calls[d]
          <5>1. f.call \in Calls
            BY <1>1, <2>1
          <5>2. ASSUME NEW d \in Calls
                PROVE  /\ d = f.call => /\ told[d].step = "done" /\ told[d].answer = "ok"
                                       /\ told[d].kind = calls[d].kind
                       /\ d # f.call => told[d] = calls[d]
            BY <1>1, AnsweredRows
          <5> HIDE DEF told
          <5> QED BY <5>1, <5>2
        <4> HIDE DEF told
        <4> DEFINE over == {f.call}
        <4>3. /\ pending' = pending \ over
              /\ \A d \in over : /\ d \in pending /\ calls[d].kind # "login"
                                /\ told[d].step = "done" /\ told[d].kind = calls[d].kind
                                /\ told[d].answer = "ok"
              /\ \A d \in Calls \ over : told[d] = calls[d]
          BY <2>1, <2>3, <4>2
        <4> HIDE DEF over
        <4> QED BY <2>1, <3>3, <4>1, <4>3, ClearedCalls
      <3> QED BY <3>1, <3>2, <3>3
    <2> QED BY <2>2, <2>3
  <1> QED BY <1>2, <1>3, <1>4, <1>5, <1>6, <1>7 DEF Inbound

LEMMA ChildCalls ==
    ASSUME CallInv, Child
    PROVE  CallsInv'
  <1>1. child \in ChildState
    BY DEF CallInv, TypeOK
  <1>2. UNCHANGED <<calls, commands, pending, login>>
    BY DEF Child, Answer, OpenTurn, CompleteLogin, Notify, Ask, UpdateAccount, AnswerNothing,
           Die, ChildOnly
  <1>3. ASSUME NEW c, NEW r, OpenTurn(c, r)
        PROVE  child'.heard = child.heard
    BY <1>1, <1>3 DEF OpenTurn, ChildState
  <1>4. ASSUME NEW c, NEW success, CompleteLogin(c, success)
        PROVE  child'.heard = child.heard
    BY <1>1, <1>4 DEF CompleteLogin, ChildState
  <1>5. ASSUME NEW r, NEW what, Notify(r, what)
        PROVE  child'.heard = child.heard
    BY <1>1, <1>5 DEF Notify, ChildState
  <1>6. ASSUME NEW q, NEW r, Ask(q, r)
        PROVE  child'.heard = child.heard
    BY <1>1, <1>6 DEF Ask, ChildState
  <1>7. ASSUME NEW valid, UpdateAccount(valid)
        PROVE  child'.heard = child.heard
    BY <1>1, <1>7 DEF UpdateAccount, ChildState
  <1>8. ASSUME Die PROVE child'.heard = child.heard
    BY <1>1, <1>8 DEF Die, ChildState
  <1>9. child'.heard = child.heard
    BY <1>3, <1>4, <1>5, <1>6, <1>7, <1>8 DEF Child, Answer, AnswerNothing
  <1> QED BY <1>2, <1>9, SameCalls

LEMMA CallStep == CallInv /\ [Next]_vars => CallInv'
  <1> SUFFICES ASSUME CallInv, [Next]_vars PROVE CallsInv'
    BY TypeStep DEF CallInv
  <1>1. CASE UNCHANGED vars
    BY <1>1, SameCalls DEF vars
  <1>2. CASE ReadEof \/ DropAdapter
    <2>1. calls \in [Calls -> CallRow] /\ commands \in Seq(Calls) /\ child \in ChildState
      BY DEF CallInv, TypeOK
    <2>2. PICK left, terminal : /\ Close(calls, left, terminal)
                                /\ left = commands \/ (left = <<>> /\ DropAdapter)
      BY <1>2 DEF ReadEof, DropAdapter
    <2>3. child'.heard = child.heard
      BY <1>2, <2>1 DEF ReadEof, DropAdapter, Killed, ChildState
    <2>4. left \in Seq(Calls) /\ ToSet(left) = ToSet(commands)
      <3>1. CASE left = <<>> /\ DropAdapter
        <4>1. \A d \in ToSet(commands) : d \in Calls /\ calls[d].step = "sent"
          BY <2>1 DEF CallInv, CallsInv, Queued, ToSet
        <4>2. ToSet(commands) = {}
          BY <3>1, <4>1 DEF DropAdapter
        <4>3. left \in Seq(Calls)
          BY <3>1
        <4> QED BY <3>1, <4>2, <4>3, EmptySet
      <3> QED BY <2>1, <2>2, <3>1
    <2> DEFINE over == {}
    <2>5. /\ ToSet(commands) \subseteq over \cup ToSet(left)
          /\ ToSet(left) \subseteq ToSet(commands)
          /\ \A d \in Calls \ over : calls[d] = calls[d]
          /\ \A d \in over : /\ calls[d].step = "done"
                            /\ d \notin child.heard \cup pending \cup login.waiters
      BY <2>4
    <2> HIDE DEF over
    <2> QED BY <2>1, <2>2, <2>3, <2>4, <2>5, CloseCalls
  <1> QED BY <1>1, <1>2, AdapterCalls, CommandCalls, InboundCalls, ChildCalls DEF Next

LEMMA CallsReachable == Spec => []CallInv
  <1>1. Init => CallInv
    BY InitType, EmptySet DEF Init, CallInv, CallsInv, Quiet, Queued, Written, Joined, Placed,
                    Heard, NewCall, NoLogin
  <1> QED BY <1>1, CallStep, PTL DEF Spec

(* A mutation or a response that fails with an error that allows it to be  *)
(* sent again was not heard by the provider, at whatever step the child,   *)
(* the pipe or the actor ended and however many callers there are.         *)
THEOREM UnsentUnheard == Spec => []UnsentMeansUnheard
  <1>1. CallInv => UnsentMeansUnheard
    BY ActorAssumption DEF CallInv, TypeOK, CallsInv, Heard, UnsentMeansUnheard, Answers
  <1> QED BY <1>1, CallsReachable, PTL

(* A caller that waits is in a place from which the actor answers it.      *)
THEOREM WaitersReachable == Spec => []WaitersAreReachable
  <1>1. CallInv => WaitersAreReachable
    BY DEF CallInv, CallsInv, Joined, Placed, WaitersAreReachable
  <1> QED BY <1>1, CallsReachable, PTL

-----------------------------------------------------------------------------
(* The story of a run.                                                     *)

StoryOK(story) ==
    /\ \A i \in DOMAIN story : (story[i] = "accepted") = (i = 1)
    /\ \A i \in DOMAIN story : story[i] \in Terminals => i = Len(story)

Told(story) == story # <<>> /\ Last(story) \notin Terminals

(* A run is told of when its start was answered, and was opened for it.    *)
Accepted ==
    \A r \in Runs : events[r] # <<>> =>
        /\ child.turn[r] \in Calls
        /\ calls[child.turn[r]].kind = "start"
        /\ calls[child.turn[r]].step = "done"

(* A response on its way names the turn that was opened for its call.      *)
ResponsesNameTheirTurn ==
    \A i \in DOMAIN frames :
        frames[i].type = "response" /\ frames[i].run # None =>
            frames[i].call # None /\ child.turn[frames[i].run] = frames[i].call

StoryInv == CallInv /\ Accepted /\ ResponsesNameTheirTurn /\ RunsEndOnce

LEMMA StoryBegins ==
    /\ StoryOK(<<>>) /\ ~Told(<<>>)
    /\ StoryOK(<<"accepted">>) /\ Told(<<"accepted">>)
  BY DEF StoryOK, Told, Last, Terminals

LEMMA StoryGrows ==
    ASSUME NEW story \in Story, StoryOK(story), Told(story),
           NEW word, word # "accepted"
    PROVE  /\ StoryOK(Append(story, word))
           /\ (Told(Append(story, word)) <=> (word \notin Terminals))
           /\ Append(story, word) # <<>>
  <1>1. story \in Seq(Words) /\ story # <<>> /\ story[Len(story)] \notin Terminals
    BY DEF Story, Words, Told, Last
  <1> DEFINE longer == Append(story, word)
             n == Len(story)
  <1>2. /\ n \in Nat \ {0} /\ DOMAIN story = 1..n /\ DOMAIN longer = 1..(n + 1)
        /\ longer[n + 1] = word /\ \A i \in 1..n : longer[i] = story[i]
        /\ Len(longer) = n + 1 /\ longer # <<>>
    BY <1>1
  <1>3. Told(longer) <=> (word \notin Terminals)
    BY <1>2 DEF Told, Last
  <1> HIDE DEF longer
  <1>4. ASSUME NEW i \in DOMAIN longer
        PROVE  /\ (longer[i] = "accepted") = (i = 1)
               /\ longer[i] \in Terminals => i = n + 1
    <2>1. CASE i \in 1..n
      BY <1>1, <1>2, <2>1 DEF StoryOK
    <2>2. CASE i = n + 1
      BY <1>2, <2>2
    <2> QED BY <1>2, <2>1, <2>2
  <1>5. StoryOK(longer)
    BY <1>2, <1>4 DEF StoryOK
  <1> QED BY <1>2, <1>3, <1>5 DEF longer

(* RunsEndOnce in these words.                                             *)
LEMMA StoriesOK ==
    RunsEndOnce <=> \A r \in Runs : StoryOK(events[r]) /\ (r \in runs <=> Told(events[r]))
  BY DEF RunsEndOnce, StoryOK, Told

(* A call of start that is answered stays so.                              *)
LEMMA StartsStayDone ==
    ASSUME CallInv, [Next]_vars, NEW d \in Calls,
           calls[d].kind = "start", calls[d].step = "done"
    PROVE  calls'[d].kind = "start" /\ calls'[d].step = "done"
  <1>1. /\ calls \in [Calls -> CallRow] /\ commands \in Seq(Calls) /\ pending \subseteq Calls
        /\ login.waiters \subseteq Calls /\ CallsInv /\ calls[d] \in CallRow
    BY DEF CallInv, TypeOK, LoginState
  <1>2. ASSUME NEW all \in [Calls -> CallRow], NEW left, NEW terminal,
               all[d].kind = "start", all[d].step = "done", Close(all, left, terminal)
        PROVE  calls'[d].kind = "start" /\ calls'[d].step = "done"
    <2>1. Settled(all) \in [Calls -> CallRow]
      <3>1. ASSUME NEW c \in Calls
            PROVE  [all[c] EXCEPT !.step = "done", !.answer = Lost(c)] \in CallRow
        BY LostType DEF CallRow
      <3> QED BY <3>1 DEF Settled
    <2> QED BY <1>2, <2>1, SettledRows, DroppedRows DEF Close
  <1>3. ASSUME NEW c \in Calls, Adapter(c)
        PROVE  calls'[d].kind = "start" /\ calls'[d].step = "done"
    <2>1. calls[c].step # "done" \/ calls[c].kind = "account"
      BY <1>3 DEF Adapter, UseRuntime, StartRuntime, Send, RetryAccountRead
    <2>2. c # d
      BY <2>1
    <2>3. calls'[d] = calls[d]
      <3>1. CASE UseRuntime(c)
        BY <1>1, <2>2, <3>1 DEF UseRuntime, Enter
      <3>2. CASE StartRuntime(c)
        BY <1>1, <2>2, <3>2 DEF StartRuntime, Enter
      <3>3. CASE Send(c)
        BY <1>1, <2>2, <3>3 DEF Send, Answered
      <3>4. CASE RetryAccountRead(c)
        BY <1>1, <2>2, <3>4 DEF RetryAccountRead
      <3> QED BY <1>3, <3>1, <3>2, <3>3, <3>4 DEF Adapter
    <2> QED BY <2>3
  <1>4. ASSUME NEW c \in Calls, Command(c)
        PROVE  calls'[d].kind = "start" /\ calls'[d].step = "done"
    <2>1. c \in ToSet(commands)
      <3>1. commands # <<>> /\ c = Head(commands)
        BY <1>4 DEF Command, TakeUnknownRun, TakeRequest, TakeRequestFails, TakeResponse,
               TakeResponseFails, TakeLogin, TakeLoginFails, TakeShutdown, Taken
      <3> QED BY <1>1, <3>1, HeadOut DEF CallsInv, Queued
    <2>2. c # d
      BY <1>1, <2>1 DEF CallsInv, Queued
    <2>3. ASSUME NEW answer \in Answers
          PROVE  /\ Answered(calls, {c}, answer)[d] = calls[d]
                 /\ Answered(calls, {c}, answer) \in [Calls -> CallRow]
      <3>1. AnswersAreGiven(calls)
        BY DEF CallInv, TypeOK, AnswersAreGiven
      <3> QED BY <1>1, <2>2, <3>1, AnsweredType, AnsweredRows
    <2>4. CASE TakeRequestFails(c) \/ TakeResponseFails(c) \/ TakeLoginFails(c) \/ TakeShutdown(c)
      <3>1. PICK answer, left, terminal :
                /\ answer \in Answers
                /\ Close(Answered(calls, {c}, answer), left, terminal)
        BY <2>4, LostType DEF TakeRequestFails, TakeResponseFails, TakeLoginFails,
                    TakeShutdown, Answers
      <3> QED BY <1>2, <2>3, <3>1
    <2>5. CASE TakeUnknownRun(c) \/ TakeRequest(c) \/ TakeResponse(c) \/ TakeLogin(c)
      <3>1. calls' = calls \/ \E answer \in Answers : calls' = Answered(calls, {c}, answer)
        BY <2>5 DEF TakeUnknownRun, TakeRequest, TakeResponse, TakeLogin, Answers
      <3> QED BY <2>3, <3>1
    <2> QED BY <1>4, <2>4, <2>5 DEF Command
  <1>5. ASSUME NEW f, Inbound(f)
        PROVE  calls'[d].kind = "start" /\ calls'[d].step = "done"
    <2>1. d \notin login.waiters
      BY <1>1 DEF CallsInv, Joined
    <2>2. ASSUME NEW c \in Calls, NEW answer \in Answers \ {None}
          PROVE  /\ Answered(calls, {c}, answer)[d].kind = "start"
                 /\ Answered(calls, {c}, answer)[d].step = "done"
                 /\ Answered(calls, {c}, answer) \in [Calls -> CallRow]
      <3>1. AnswersAreGiven(calls)
        BY DEF CallInv, TypeOK, AnswersAreGiven
      <3> QED BY <1>1, <3>1, AnsweredType, AnsweredRows
    <2>3. ASSUME NEW all \in [Calls -> CallRow], all[d].kind = "start", all[d].step = "done",
                 ClearLogin(all)
          PROVE  calls'[d].kind = "start" /\ calls'[d].step = "done"
      BY <2>1, <2>3, DroppedRows DEF ClearLogin
    <2>4. ASSUME NEW c, NEW answer, SettleLoginStart(c, answer)
          PROVE  calls'[d] = calls[d]
      BY <1>1, <2>1, <2>4, AnsweredRows DEF SettleLoginStart
    <2>5. {"ok", "refused", "unknown"} \subseteq Answers \ {None}
      BY ActorAssumption DEF Answers
    <2>6. CASE ReadFailure(f)
      <3>1. PICK answer \in Answers \ {None} :
                \/ SettleLoginStart(f.call, answer)
                \/ calls' = Answered(calls, {f.call}, answer) /\ f.call \in Calls
        BY <1>1, <2>5, <2>6 DEF ReadFailure
      <3> QED BY <2>2, <2>4, <3>1
    <2>7. CASE ReadResult(f)
      <3>1. f.call \in Calls
        BY <1>1, <2>7 DEF ReadResult
      <3>2. \/ SettleLoginStart(f.call, "ok")
            \/ calls' = Answered(calls, {f.call}, "ok")
            \/ ClearLogin(Answered(calls, {f.call}, "ok"))
        BY <2>7 DEF ReadResult
      <3> DEFINE all == Answered(calls, {f.call}, "ok")
      <3>3. all \in [Calls -> CallRow] /\ all[d].kind = "start" /\ all[d].step = "done"
        BY <2>2, <2>5, <3>1
      <3> HIDE DEF all
      <3>4. CASE SettleLoginStart(f.call, "ok")
        BY <2>4, <3>4
      <3>5. CASE calls' = all
        BY <3>3, <3>5
      <3>6. CASE ClearLogin(all)
        BY <2>3, <3>3, <3>6
      <3> QED BY <3>2, <3>4, <3>5, <3>6 DEF all
    <2>8. CASE ReadAccountUpdated(f)
      BY <1>1, <2>3, <2>8 DEF ReadAccountUpdated
    <2>9. CASE RejectRequestFails(f)
      BY <1>1, <1>2, <2>9 DEF RejectRequestFails
    <2>10. CASE ReadStray(f) \/ ReadLoginCompleted(f) \/ ReadNotice(f) \/ ReadTurnCompleted(f)
                  \/ ReadRequest(f) \/ RejectRequest(f)
      BY <2>10 DEF ReadStray, ReadLoginCompleted, ReadNotice, ReadTurnCompleted,
                   ReadRequest, RejectRequest
    <2> QED BY <1>5, <2>6, <2>7, <2>8, <2>9, <2>10 DEF Inbound
  <1>6. CASE ReadEof \/ DropAdapter
    BY <1>1, <1>2, <1>6 DEF ReadEof, DropAdapter
  <1>7. CASE Child \/ UNCHANGED vars
    BY <1>7 DEF Child, Answer, OpenTurn, CompleteLogin, Notify, Ask, UpdateAccount,
                AnswerNothing, Die, ChildOnly, vars
  <1> QED BY <1>3, <1>4, <1>5, <1>6, <1>7 DEF Next

(* A turn stays the turn of the call it was opened for.                    *)
LEMMA TurnsStay ==
    ASSUME TypeOK, [Next]_vars, NEW r \in Runs, child.turn[r] # None
    PROVE  child'.turn[r] = child.turn[r]
  <1>1. child \in ChildState
    BY DEF TypeOK
  <1>2. CASE child' = child \/ child' = Killed \/ child' = [child EXCEPT !.up = FALSE]
               \/ child' = [child EXCEPT !.up = TRUE, !.spoken = 0]
    BY <1>1, <1>2 DEF Killed, ChildState
  <1>3. ASSUME NEW c \in Calls, Adapter(c)
        PROVE  child' = child \/ child' = [child EXCEPT !.up = TRUE, !.spoken = 0]
    BY <1>3 DEF Adapter, UseRuntime, StartRuntime, Send, RetryAccountRead
  <1>4. ASSUME NEW c \in Calls, Command(c)
        PROVE  child'.turn = child.turn
    <2>1. \/ child' = child \/ child' = Killed \/ child' = Reads(c)
          \/ child' = [child EXCEPT !.heard = @ \cup {c},
                                    !.replies[calls[c].about] = Append(@, c)]
      BY <1>4 DEF Command, TakeUnknownRun, TakeRequest, TakeRequestFails, TakeResponse,
             TakeResponseFails, TakeLogin, TakeLoginFails, TakeShutdown
    <2>2. Reads(c).turn = child.turn /\ Killed.turn = child.turn
      BY <1>1 DEF Reads, Killed, ChildState
    <2> DEFINE replies == [child.replies EXCEPT ![calls[c].about] = Append(@, c)]
    <2>3. [child EXCEPT !.heard = @ \cup {c}, !.replies[calls[c].about] = Append(@, c)]
             = [child EXCEPT !.heard = @ \cup {c}, !.replies = replies]
      OBVIOUS
    <2> HIDE DEF replies
    <2>4. [child EXCEPT !.heard = @ \cup {c}, !.replies = replies].turn = child.turn
      BY <1>1 DEF ChildState
    <2> QED BY <2>1, <2>2, <2>3, <2>4
  <1>5. ASSUME NEW f, Inbound(f)
        PROVE  child'.turn = child.turn
    <2>1. \/ child' = child \/ child' = Killed
          \/ child' = [child EXCEPT !.replies[f.request] = Append(@, None)]
      BY <1>5 DEF Inbound, ReadStray, ReadFailure, ReadResult, ReadLoginCompleted,
             ReadAccountUpdated, ReadNotice, ReadTurnCompleted, ReadRequest,
             RejectRequest, RejectRequestFails
    <2> QED BY <1>1, <2>1 DEF Killed, ChildState
  <1>6. CASE ReadEof \/ DropAdapter
    BY <1>2, <1>6 DEF ReadEof, DropAdapter
  <1>7. CASE Child
    <2>1. ASSUME NEW c \in Calls, NEW t \in Runs, OpenTurn(c, t)
          PROVE  child'.turn[r] = child.turn[r]
      BY <1>1, <2>1 DEF OpenTurn, ChildState
    <2>2. ASSUME NEW c, NEW success, CompleteLogin(c, success)
          PROVE  child'.turn = child.turn
      BY <1>1, <2>2 DEF CompleteLogin, ChildState
    <2>3. ASSUME NEW t, NEW what, Notify(t, what)
          PROVE  child'.turn = child.turn
      BY <1>1, <2>3 DEF Notify, ChildState
    <2>4. ASSUME NEW q, NEW t, Ask(q, t)
          PROVE  child'.turn = child.turn
      BY <1>1, <2>4 DEF Ask, ChildState
    <2>5. ASSUME NEW valid, UpdateAccount(valid)
          PROVE  child'.turn = child.turn
      BY <1>1, <2>5 DEF UpdateAccount, ChildState
    <2>6. ASSUME Die PROVE child'.turn = child.turn
      BY <1>1, <2>6 DEF Die, ChildState
    <2> QED BY <1>7, <2>1, <2>2, <2>3, <2>4, <2>5, <2>6 DEF Child, Answer, AnswerNothing
  <1> QED BY <1>2, <1>3, <1>4, <1>5, <1>6, <1>7 DEF Next, vars

(* What a step adds to the frames are frames of the child's; the actor     *)
(* takes the first or, when it ends, all.                                  *)
LEMMA ResponsesStep ==
    ASSUME TypeOK, [Next]_vars, ResponsesNameTheirTurn
    PROVE  ResponsesNameTheirTurn'
  <1>1. frames \in Seq(Frame)
    BY DEF TypeOK
  <1>2. ASSUME NEW f \in Frame, f.type = "response", f.run # None,
               f.call # None, child.turn[f.run] = f.call
        PROVE  child'.turn[f.run] = f.call
    BY <1>2, FrameFields, TurnsStay
  <1>3. ASSUME NEW i \in DOMAIN frames, frames[i].type = "response", frames[i].run # None
        PROVE  frames[i].call # None /\ child'.turn[frames[i].run] = frames[i].call
    BY <1>1, <1>2, <1>3 DEF ResponsesNameTheirTurn
  <1>4. CASE frames' = frames
    BY <1>3, <1>4 DEF ResponsesNameTheirTurn
  <1>5. CASE frames # <<>> /\ frames' = Tail(frames)
    <2>1. \A i \in DOMAIN frames' : i + 1 \in DOMAIN frames /\ frames'[i] = frames[i + 1]
      BY <1>1, <1>5
    <2> QED BY <1>3, <2>1 DEF ResponsesNameTheirTurn
  <1>6. CASE frames' = <<>>
    BY <1>6 DEF ResponsesNameTheirTurn
  <1>7. ASSUME NEW f \in Frame, Says(f),
               f.type = "response" /\ f.run # None =>
                   f.call # None /\ child.turn[f.run] = f.call
        PROVE  ResponsesNameTheirTurn'
    <2>1. \A i \in DOMAIN frames' : (i \in DOMAIN frames /\ frames'[i] = frames[i]) \/ frames'[i] = f
      BY <1>1, <1>7 DEF Says
    <2>2. f.type = "response" /\ f.run # None =>
              f.call # None /\ child'.turn[f.run] = f.call
      BY <1>2, <1>7
    <2> QED BY <1>3, <2>1, <2>2 DEF ResponsesNameTheirTurn
  <1>8. CASE Child
    <2>1. ASSUME NEW c \in Calls, Answer(c)
          PROVE  ResponsesNameTheirTurn'
      <3>1. PICK f \in Results(c) : Says(f)
        BY <2>1 DEF Answer
      <3>2. f.call = c /\ (f.run = None \/ child.turn[f.run] = c)
        BY <3>1 DEF Results
      <3>3. f \in Frame /\ c # None
        BY <3>1, ResultsType, ActorAssumption
      <3> QED BY <1>7, <3>1, <3>2, <3>3
    <2>2. ASSUME AnswerNothing PROVE ResponsesNameTheirTurn'
      <3> DEFINE f == [type |-> "response", call |-> None, result |-> "ok", run |-> None]
      <3>1. f \in Frame /\ f.run = None /\ Says(f)
        BY <2>2 DEF Frame, AnswerNothing
      <3> HIDE DEF f
      <3> QED BY <1>7, <3>1
    <2>3. ASSUME NEW f, f.type # "response", f \in Frame, Says(f)
          PROVE  ResponsesNameTheirTurn'
      BY <1>7, <2>3
    <2>4. ASSUME NEW r \in Runs, NEW what \in Notices, Notify(r, what)
          PROVE  ResponsesNameTheirTurn'
      <3>1. [type |-> "notice", run |-> r, what |-> what] \in Frame
        BY DEF Frame
      <3> QED BY <2>3, <2>4, <3>1 DEF Notify
    <2>5. ASSUME NEW q \in Requests, NEW r \in Runs, Ask(q, r)
          PROVE  ResponsesNameTheirTurn'
      <3>1. [type |-> "request", request |-> q, run |-> r] \in Frame
        BY DEF Frame
      <3> QED BY <2>3, <2>5, <3>1 DEF Ask
    <2>6. ASSUME NEW c \in Calls, NEW success \in BOOLEAN, CompleteLogin(c, success)
          PROVE  ResponsesNameTheirTurn'
      <3>1. [type |-> "login", call |-> c, success |-> success] \in Frame
        BY DEF Frame
      <3> QED BY <2>3, <2>6, <3>1 DEF CompleteLogin
    <2>7. ASSUME NEW valid \in BOOLEAN, UpdateAccount(valid)
          PROVE  ResponsesNameTheirTurn'
      <3>1. [type |-> "updated", success |-> valid] \in Frame
        BY DEF Frame
      <3> QED BY <2>3, <2>7, <3>1 DEF UpdateAccount
    <2>8. CASE Die \/ \E c \in Calls, r \in Runs : OpenTurn(c, r)
      BY <1>4, <2>8 DEF Die, OpenTurn
    <2> QED BY <1>8, <2>1, <2>2, <2>4, <2>5, <2>6, <2>7, <2>8 DEF Child
  <1>9. ASSUME NEW c \in Calls, Adapter(c) \/ Command(c)
        PROVE  frames' = frames \/ frames' = <<>>
    BY <1>9 DEF Adapter, UseRuntime, StartRuntime, Send, RetryAccountRead, Command,
           TakeUnknownRun, TakeRequest, TakeRequestFails, TakeResponse, TakeResponseFails,
           TakeLogin, TakeLoginFails, TakeShutdown, Close
  <1>10. ASSUME NEW f, Inbound(f)
         PROVE  (frames # <<>> /\ frames' = Tail(frames)) \/ frames' = <<>>
    BY <1>10 DEF Inbound, Read, ReadStray, ReadFailure, ReadResult, ReadLoginCompleted,
           ReadAccountUpdated, ReadNotice, ReadTurnCompleted, ReadRequest,
           RejectRequest, RejectRequestFails, Close
  <1>11. CASE ReadEof \/ DropAdapter \/ UNCHANGED vars
    BY <1>4, <1>6, <1>11 DEF ReadEof, DropAdapter, Close, vars
  <1> QED BY <1>4, <1>5, <1>6, <1>8, <1>9, <1>10, <1>11 DEF Next

(* What a step may do to the story of a run: nothing; one word more, the   *)
(* last one if the run is then forgotten; or its beginning.                *)
Goes(r) ==
    \/ events'[r] = events[r] /\ (r \in runs') = (r \in runs)
    \/ /\ r \in runs
       /\ \E word : /\ word # "accepted"
                    /\ events'[r] = Append(events[r], word)
                    /\ (r \in runs') = (word \notin Terminals)
    \/ /\ r \in runs /\ r \notin runs'
       /\ \E terminal \in Terminals :
              events'[r] = Append(Append(events[r], "malformed"), terminal)
    \/ /\ events[r] = <<>> /\ events'[r] = <<"accepted">> /\ r \in runs'
       /\ child'.turn[r] \in Calls
       /\ calls'[child'.turn[r]].kind = "start" /\ calls'[child'.turn[r]].step = "done"

LEMMA CloseGoes ==
    ASSUME TypeOK, NEW all, NEW left, NEW terminal \in Terminals, Close(all, left, terminal),
           NEW r \in Runs
    PROVE  Goes(r)
  <1>1. terminal # "accepted"
    BY DEF Terminals
  <1> QED BY <1>1 DEF Close, Goes

LEMMA EmitGoes ==
    ASSUME TypeOK, NEW r \in Runs, NEW r2 \in runs, NEW word,
           word \in ({"item", "output", "malformed"} \cup Requests),
           events' = Emit(r2, word), UNCHANGED runs
    PROVE  Goes(r)
  <1>1. word # "accepted" /\ word \notin Terminals
    BY ActorAssumption DEF Terminals
  <1>2. r2 \in Runs /\ events \in [Runs -> Story]
    BY DEF TypeOK
  <1>3. CASE r = r2
    BY <1>1, <1>2, <1>3 DEF Emit, Goes
  <1>4. CASE r # r2
    BY <1>2, <1>4 DEF Emit, Goes
  <1> QED BY <1>3, <1>4

LEMMA StartGoes ==
    ASSUME StoryInv, NEW f, ReadResult(f), calls[f.call].kind = "start", f.run # None,
           NEW r \in Runs
    PROVE  Goes(r)
  <1>1. /\ TypeOK /\ CallsInv /\ events \in [Runs -> Story] /\ calls \in [Calls -> CallRow]
        /\ pending \subseteq Calls
    BY DEF StoryInv, CallInv, TypeOK
  <1>2. /\ f.call \in pending /\ f.type = "response" /\ frames # <<>> /\ f = Head(frames)
        /\ child' = child
        /\ calls' = Answered(calls, {f.call}, "ok")
        /\ runs' = runs \cup {f.run}
        /\ events' = Emit(f.run, "accepted")
    BY DEF ReadResult, Read
  <1>3. 1 \in DOMAIN frames /\ f = frames[1] /\ f \in Frame
    BY <1>1, <1>2 DEF TypeOK
  <1>4. f.run \in Runs /\ child.turn[f.run] = f.call
    BY <1>2, <1>3, FrameFields DEF StoryInv, ResponsesNameTheirTurn
  <1>5. f.call \in Calls /\ calls[f.call].step = "sent"
    BY <1>1, <1>2 DEF CallsInv, Written
  <1>6. events[f.run] = <<>>
    BY <1>4, <1>5 DEF StoryInv, Accepted
  <1>7. /\ calls'[f.call].kind = "start" /\ calls'[f.call].step = "done"
    <2>1. ASSUME NEW c \in Calls
          PROVE  /\ Answered(calls, {c}, "ok")[c].step = "done"
                 /\ Answered(calls, {c}, "ok")[c].kind = calls[c].kind
      BY <1>1, AnsweredRows
    <2> QED BY <1>2, <1>5, <2>1
  <1>8. CASE r = f.run
    <2>1. events'[r] = Append(<<>>, "accepted")
      BY <1>1, <1>2, <1>4, <1>6, <1>8 DEF Emit
    <2>2. events'[r] = <<"accepted">>
      BY <2>1
    <2>3. /\ events[r] = <<>> /\ r \in runs' /\ child'.turn[r] = f.call
      BY <1>2, <1>4, <1>6, <1>8
    <2> QED BY <1>5, <1>7, <2>2, <2>3 DEF Goes
  <1>9. CASE r # f.run
    BY <1>1, <1>2, <1>4, <1>9 DEF Emit, Goes
  <1> QED BY <1>8, <1>9

LEMMA RetireGoes ==
    ASSUME TypeOK, NEW r \in Runs, NEW r2 \in runs, NEW terminal \in Terminals,
           Retire(r2, <<>>, terminal) \/ Retire(r2, <<"malformed">>, terminal)
    PROVE  Goes(r)
  <1>1. r2 \in Runs /\ events \in [Runs -> Story] /\ runs' = runs \ {r2} /\ terminal # "accepted"
    BY DEF TypeOK, Retire, Terminals
  <1>2. CASE r # r2
    BY <1>1, <1>2 DEF Retire, Goes
  <1>3. CASE r = r2
    <2>1. events[r] \in Seq(Words)
      BY <1>1 DEF Story, Words
    <2>2. events[r] \o <<>> = events[r]
      BY <2>1
    <2>3. \/ events'[r] = events[r] \o <<>> \o <<terminal>>
          \/ events'[r] = events[r] \o <<"malformed">> \o <<terminal>>
      BY <1>1, <1>3 DEF Retire
    <2>4. /\ events[r] \o <<"malformed">> = Append(events[r], "malformed")
          /\ terminal \in Words /\ "malformed" \in Words
      BY <2>1 DEF Words
    <2>5. /\ events[r] \o <<terminal>> = Append(events[r], terminal)
          /\ Append(events[r], "malformed") \o <<terminal>>
                = Append(Append(events[r], "malformed"), terminal)
      BY <2>1, <2>4
    <2>6. \/ events'[r] = Append(events[r], terminal)
          \/ events'[r] = Append(Append(events[r], "malformed"), terminal)
      BY <2>2, <2>3, <2>4, <2>5
    <2> QED BY <1>1, <1>3, <2>6 DEF Goes
  <1> QED BY <1>2, <1>3

LEMMA AllGo ==
    ASSUME StoryInv, [Next]_vars, NEW r \in Runs
    PROVE  Goes(r)
  <1>1. TypeOK /\ {"crashed", "interrupted", "completed"} \subseteq Terminals
    BY DEF StoryInv, CallInv, Terminals
  <1>2. ASSUME UNCHANGED <<events, runs>> PROVE Goes(r)
    BY <1>2 DEF Goes
  <1>3. ASSUME NEW c \in Calls, Command(c) PROVE Goes(r)
    <2>1. CASE TakeRequestFails(c) \/ TakeResponseFails(c) \/ TakeLoginFails(c) \/ TakeShutdown(c)
      BY <1>1, <2>1, CloseGoes DEF TakeRequestFails, TakeResponseFails, TakeLoginFails, TakeShutdown
    <2>2. CASE TakeUnknownRun(c) \/ TakeRequest(c) \/ TakeResponse(c) \/ TakeLogin(c)
      BY <1>2, <2>2 DEF TakeUnknownRun, TakeRequest, TakeResponse, TakeLogin
    <2> QED BY <1>3, <2>1, <2>2 DEF Command
  <1>4. ASSUME NEW f, Inbound(f) PROVE Goes(r)
    <2>1. CASE ReadResult(f)
      <3>1. CASE calls[f.call].kind = "start" /\ f.run # None
        BY <2>1, <3>1, StartGoes
      <3>2. CASE UNCHANGED <<events, runs>>
        BY <1>2, <3>2
      <3> QED BY <2>1, <3>1, <3>2 DEF ReadResult
    <2>2. CASE ReadNotice(f)
      <3>1. UNCHANGED runs
        BY <2>2 DEF ReadNotice
      <3>2. \/ UNCHANGED events
            \/ f.run \in runs /\ \E word \in {"item", "output", "malformed"} : events' = Emit(f.run, word)
        BY <2>2 DEF ReadNotice
      <3> QED BY <1>1, <1>2, <3>1, <3>2, EmitGoes
    <2>3. CASE ReadTurnCompleted(f)
      <3>1. \/ UNCHANGED <<events, runs>>
            \/ /\ f.run \in runs
               /\ \E terminal \in Terminals :
                     Retire(f.run, <<>>, terminal) \/ Retire(f.run, <<"malformed">>, terminal)
        BY <1>1, <2>3 DEF ReadTurnCompleted
      <3> QED BY <1>1, <1>2, <3>1, RetireGoes
    <2>4. CASE ReadRequest(f)
      <3>1. f \in Frame
        BY <1>1, <2>4 DEF ReadRequest, Read, TypeOK
      <3>2. /\ f.run \in runs /\ UNCHANGED runs
            /\ events' = Emit(f.run, f.request) \/ events' = Emit(f.run, "malformed")
            /\ f.request \in Requests
        BY <2>4, <3>1, FrameFields DEF ReadRequest
      <3> QED BY <1>1, <3>2, EmitGoes
    <2>5. CASE RejectRequestFails(f)
      BY <1>1, <2>5, CloseGoes DEF RejectRequestFails
    <2>6. CASE RejectRequest(f)
      <3>1. /\ UNCHANGED runs
            /\ \/ UNCHANGED events
               \/ /\ f.run \in runs
                  /\ \E what \in {"item", "malformed"} : events' = Emit(f.run, what)
        BY <2>6 DEF RejectRequest
      <3> QED BY <1>1, <1>2, <3>1, EmitGoes
    <2>7. CASE ReadStray(f) \/ ReadFailure(f) \/ ReadLoginCompleted(f) \/ ReadAccountUpdated(f)
      BY <1>2, <2>7 DEF ReadStray, ReadFailure, ReadLoginCompleted, ReadAccountUpdated
    <2> QED BY <1>4, <2>1, <2>2, <2>3, <2>4, <2>5, <2>6, <2>7 DEF Inbound
  <1>5. ASSUME NEW c \in Calls, Adapter(c) PROVE Goes(r)
    BY <1>2, <1>5 DEF Adapter, UseRuntime, StartRuntime, Send, RetryAccountRead
  <1>6. CASE ReadEof \/ DropAdapter
    BY <1>1, <1>6, CloseGoes DEF ReadEof, DropAdapter
  <1>7. CASE Child \/ UNCHANGED vars
    BY <1>2, <1>7 DEF Child, Answer, OpenTurn, CompleteLogin, Notify, Ask, UpdateAccount,
                AnswerNothing, Die, ChildOnly, vars
  <1> QED BY <1>3, <1>4, <1>5, <1>6, <1>7 DEF Next

LEMMA StoryStep == StoryInv /\ [Next]_vars => StoryInv'
  <1> SUFFICES ASSUME StoryInv, [Next]_vars PROVE StoryInv'
    OBVIOUS
  <1>1. CallInv /\ Accepted /\ ResponsesNameTheirTurn /\ RunsEndOnce /\ TypeOK
    BY DEF StoryInv, CallInv
  <1>2. CallInv' /\ ResponsesNameTheirTurn'
    BY <1>1, CallStep, ResponsesStep
  <1>3. ASSUME NEW r \in Runs
        PROVE  /\ StoryOK(events'[r]) /\ (r \in runs' <=> Told(events'[r]))
               /\ events'[r] # <<>> => \/ events[r] # <<>>
                                       \/ /\ child'.turn[r] \in Calls
                                          /\ calls'[child'.turn[r]].kind = "start"
                                          /\ calls'[child'.turn[r]].step = "done"
    <2>1. StoryOK(events[r]) /\ (r \in runs <=> Told(events[r])) /\ events[r] \in Story
      BY <1>1, StoriesOK DEF TypeOK
    <2>2. Goes(r)
      BY <1>1, AllGo
    <2>3. CASE events'[r] = events[r] /\ (r \in runs') = (r \in runs)
      BY <2>1, <2>3
    <2>4. CASE /\ r \in runs
               /\ \E word : /\ word # "accepted"
                            /\ events'[r] = Append(events[r], word)
                            /\ (r \in runs') = (word \notin Terminals)
      <3>1. PICK word : /\ word # "accepted"
                        /\ events'[r] = Append(events[r], word)
                        /\ (r \in runs') = (word \notin Terminals)
        BY <2>4
      <3>2. Told(events[r])
        BY <2>1, <2>4
      <3>3. /\ StoryOK(Append(events[r], word))
            /\ (Told(Append(events[r], word)) <=> (word \notin Terminals))
        BY <2>1, <3>1, <3>2, StoryGrows
      <3>4. events[r] # <<>>
        BY <3>2 DEF Told
      <3> QED BY <3>1, <3>3, <3>4
    <2>5. CASE /\ r \in runs /\ r \notin runs'
               /\ \E terminal \in Terminals :
                      events'[r] = Append(Append(events[r], "malformed"), terminal)
      <3>1. PICK terminal \in Terminals :
                events'[r] = Append(Append(events[r], "malformed"), terminal)
        BY <2>5
      <3>2. Told(events[r]) /\ "malformed" \notin Terminals /\ terminal # "accepted"
        BY <2>1, <2>5 DEF Terminals
      <3> DEFINE longer == Append(events[r], "malformed")
      <3>3. StoryOK(longer) /\ Told(longer)
        BY <2>1, <3>2, StoryGrows
      <3>4. longer \in Story
        BY <2>1 DEF Story
      <3> HIDE DEF longer
      <3>5. /\ StoryOK(Append(longer, terminal))
            /\ (Told(Append(longer, terminal)) <=> (terminal \notin Terminals))
        BY <3>2, <3>3, <3>4, StoryGrows
      <3>6. events[r] # <<>>
        BY <3>2 DEF Told
      <3>7. events'[r] = Append(longer, terminal)
        BY <3>1 DEF longer
      <3>8. r \notin runs' /\ ~Told(events'[r]) /\ StoryOK(events'[r])
        BY <2>5, <3>5, <3>7
      <3> QED BY <3>6, <3>8
    <2>6. CASE /\ events[r] = <<>> /\ events'[r] = <<"accepted">> /\ r \in runs'
               /\ child'.turn[r] \in Calls
               /\ calls'[child'.turn[r]].kind = "start" /\ calls'[child'.turn[r]].step = "done"
      BY <2>6, StoryBegins
    <2> QED BY <2>2, <2>3, <2>4, <2>5, <2>6 DEF Goes
  <1>4. RunsEndOnce'
    <2>1. \A r \in Runs : StoryOK(events'[r]) /\ (r \in runs' <=> Told(events'[r]))
      BY <1>3
    <2> QED BY <2>1 DEF RunsEndOnce, StoryOK, Told
  <1>5. Accepted'
    <2>1. ASSUME NEW r \in Runs, events'[r] # <<>>
          PROVE  /\ child'.turn[r] \in Calls
                 /\ calls'[child'.turn[r]].kind = "start"
                 /\ calls'[child'.turn[r]].step = "done"
      <3>1. CASE events[r] # <<>>
        <4>1. /\ child.turn[r] \in Calls /\ calls[child.turn[r]].kind = "start"
              /\ calls[child.turn[r]].step = "done"
          BY <1>1, <3>1 DEF Accepted
        <4>2. child'.turn[r] = child.turn[r]
          BY <1>1, <4>1, TurnsStay, ActorAssumption
        <4> QED BY <1>1, <4>1, <4>2, StartsStayDone
      <3>2. CASE events[r] = <<>>
        BY <1>3, <2>1, <3>2
      <3> QED BY <3>1, <3>2
    <2> QED BY <2>1 DEF Accepted
  <1> QED BY <1>2, <1>4, <1>5 DEF StoryInv

(* The event stream tells of each run that it was accepted, then what      *)
(* became of it, then once how it ended, whether the provider, a shutdown, *)
(* a broken pipe or the death of the child ended it.                       *)
THEOREM StoriesEndOnce == Spec => []RunsEndOnce
  <1>1. Init => StoryInv
    <2> SUFFICES ASSUME Init PROVE StoryInv
      OBVIOUS
    <2>1. CallInv
      BY InitType, EmptySet DEF Init, CallInv, CallsInv, Quiet, Queued, Written, Joined, Placed,
                      Heard, NewCall, NoLogin
    <2>2. Accepted /\ ResponsesNameTheirTurn
      BY DEF Init, Accepted, ResponsesNameTheirTurn
    <2>3. RunsEndOnce
      <3>1. \A r \in Runs : events[r] = <<>> /\ r \notin runs
        BY DEF Init
      <3>2. \A r \in Runs : StoryOK(events[r]) /\ ~Told(events[r])
        BY <3>1, StoryBegins
      <3> QED BY <3>1, <3>2, StoriesOK
    <2> QED BY <2>1, <2>2, <2>3 DEF StoryInv
  <1>2. StoryInv => RunsEndOnce
    BY DEF StoryInv
  <1> QED BY <1>1, <1>2, StoryStep, PTL DEF Spec
-----------------------------------------------------------------------------
(* The outcome of a run.                                                   *)

(* A turn that is said to be completed has been.                           *)
EndsAreTrue ==
    \A i \in DOMAIN frames :
        frames[i].type = "notice" /\ frames[i].what = "completed" =>
            child.ended[frames[i].run] = "completed"

OutcomeInv == TypeOK /\ EndsAreTrue /\ OutcomeIsTheTurns

(* A turn ends once.                                                       *)
LEMMA EndsStay ==
    ASSUME TypeOK, [Next]_vars, NEW r \in Runs, child.ended[r] # None
    PROVE  child'.ended[r] = child.ended[r]
  <1>1. child \in ChildState
    BY DEF TypeOK
  <1>2. CASE child' = child \/ child' = Killed \/ child' = [child EXCEPT !.up = FALSE]
               \/ child' = [child EXCEPT !.up = TRUE, !.spoken = 0]
    BY <1>1, <1>2 DEF Killed, ChildState
  <1>3. ASSUME NEW c \in Calls, Adapter(c)
        PROVE  child' = child \/ child' = [child EXCEPT !.up = TRUE, !.spoken = 0]
    BY <1>3 DEF Adapter, UseRuntime, StartRuntime, Send, RetryAccountRead
  <1>4. ASSUME NEW c \in Calls, Command(c)
        PROVE  child'.ended = child.ended
    <2>1. \/ child' = child \/ child' = Killed \/ child' = Reads(c)
          \/ child' = [child EXCEPT !.heard = @ \cup {c},
                                    !.replies[calls[c].about] = Append(@, c)]
      BY <1>4 DEF Command, TakeUnknownRun, TakeRequest, TakeRequestFails, TakeResponse,
             TakeResponseFails, TakeLogin, TakeLoginFails, TakeShutdown
    <2>2. Reads(c).ended = child.ended /\ Killed.ended = child.ended
      BY <1>1 DEF Reads, Killed, ChildState
    <2> DEFINE replies == [child.replies EXCEPT ![calls[c].about] = Append(@, c)]
    <2>3. [child EXCEPT !.heard = @ \cup {c}, !.replies[calls[c].about] = Append(@, c)]
             = [child EXCEPT !.heard = @ \cup {c}, !.replies = replies]
      OBVIOUS
    <2> HIDE DEF replies
    <2>4. [child EXCEPT !.heard = @ \cup {c}, !.replies = replies].ended = child.ended
      BY <1>1 DEF ChildState
    <2> QED BY <2>1, <2>2, <2>3, <2>4
  <1>5. ASSUME NEW f, Inbound(f)
        PROVE  child'.ended = child.ended
    <2>1. \/ child' = child \/ child' = Killed
          \/ child' = [child EXCEPT !.replies[f.request] = Append(@, None)]
      BY <1>5 DEF Inbound, ReadStray, ReadFailure, ReadResult, ReadLoginCompleted,
             ReadAccountUpdated, ReadNotice, ReadTurnCompleted, ReadRequest,
             RejectRequest, RejectRequestFails
    <2> QED BY <1>1, <2>1 DEF Killed, ChildState
  <1>6. CASE ReadEof \/ DropAdapter
    BY <1>2, <1>6 DEF ReadEof, DropAdapter
  <1>7. CASE Child
    <2>1. ASSUME NEW c \in Calls, NEW t \in Runs, OpenTurn(c, t)
          PROVE  child'.ended = child.ended
      BY <1>1, <2>1 DEF OpenTurn, ChildState
    <2>2. ASSUME NEW c, NEW success, CompleteLogin(c, success)
          PROVE  child'.ended = child.ended
      BY <1>1, <2>2 DEF CompleteLogin, ChildState
    <2>3. ASSUME NEW t \in Runs, NEW what, Notify(t, what)
          PROVE  child'.ended[r] = child.ended[r]
      <3>1. r # t
        BY <2>3 DEF Notify
      <3> QED BY <1>1, <2>3, <3>1 DEF Notify, ChildState
    <2>4. ASSUME NEW q, NEW t, Ask(q, t)
          PROVE  child'.ended = child.ended
      BY <1>1, <2>4 DEF Ask, ChildState
    <2>5. ASSUME NEW valid, UpdateAccount(valid)
          PROVE  child'.ended = child.ended
      BY <1>1, <2>5 DEF UpdateAccount, ChildState
    <2>6. ASSUME Die PROVE child'.ended = child.ended
      BY <1>1, <2>6 DEF Die, ChildState
    <2> QED BY <1>7, <2>1, <2>2, <2>3, <2>4, <2>5, <2>6 DEF Child, Answer, AnswerNothing
  <1> QED BY <1>2, <1>3, <1>4, <1>5, <1>6, <1>7 DEF Next, vars

(* What a step does to the frames: the actor takes the first or, when it   *)
(* ends, all; the child adds what it says.                                 *)
Said(f) ==
    /\ Says(f)
    /\ f.type = "notice" => Notify(f.run, f.what)
    /\ f.type = "request" => Ask(f.request, f.run)
    /\ f.type = "login" => CompleteLogin(f.call, f.success)
    /\ f.type = "response" /\ f.call # None => f.call \in child.read

LEMMA FramesMove ==
    ASSUME TypeOK, [Next]_vars
    PROVE  \/ frames' = frames
           \/ frames # <<>> /\ frames' = Tail(frames)
           \/ frames' = <<>>
           \/ \E f \in Frame : Said(f)
  <1>1. ASSUME NEW c \in Calls, Adapter(c) \/ Command(c)
        PROVE  frames' = frames \/ frames' = <<>>
    BY <1>1 DEF Adapter, UseRuntime, StartRuntime, Send, RetryAccountRead, Command,
           TakeUnknownRun, TakeRequest, TakeRequestFails, TakeResponse, TakeResponseFails,
           TakeLogin, TakeLoginFails, TakeShutdown, Close
  <1>2. ASSUME NEW f, Inbound(f)
        PROVE  (frames # <<>> /\ frames' = Tail(frames)) \/ frames' = <<>>
    BY <1>2 DEF Inbound, Read, ReadStray, ReadFailure, ReadResult, ReadLoginCompleted,
           ReadAccountUpdated, ReadNotice, ReadTurnCompleted, ReadRequest,
           RejectRequest, RejectRequestFails, Close
  <1>3. CASE ReadEof \/ DropAdapter \/ UNCHANGED vars
    BY <1>3 DEF ReadEof, DropAdapter, Close, vars
  <1>4. CASE Child
    <2>1. ASSUME NEW c \in Calls, Answer(c) PROVE \E f \in Frame : Said(f)
      <3>1. PICK f \in Results(c) : Says(f)
        BY <2>1 DEF Answer
      <3>2. f.type = "response" /\ f.call = c
        BY <3>1 DEF Results
      <3> QED BY <2>1, <3>1, <3>2, ResultsType DEF Answer, Said
    <2>2. ASSUME NEW r \in Runs, NEW what \in Notices, Notify(r, what)
          PROVE  \E f \in Frame : Said(f)
      <3>1. [type |-> "notice", run |-> r, what |-> what] \in Frame
        BY DEF Frame
      <3> QED BY <2>2, <3>1 DEF Notify, Said
    <2>3. ASSUME NEW q \in Requests, NEW r \in Runs, Ask(q, r)
          PROVE  \E f \in Frame : Said(f)
      <3>1. [type |-> "request", request |-> q, run |-> r] \in Frame
        BY DEF Frame
      <3> QED BY <2>3, <3>1 DEF Ask, Said
    <2>4. ASSUME NEW c \in Calls, NEW success \in BOOLEAN, CompleteLogin(c, success)
          PROVE  \E f \in Frame : Said(f)
      <3>1. [type |-> "login", call |-> c, success |-> success] \in Frame
        BY DEF Frame
      <3> QED BY <2>4, <3>1 DEF CompleteLogin, Said
    <2>5. ASSUME NEW valid \in BOOLEAN, UpdateAccount(valid)
          PROVE  \E f \in Frame : Said(f)
      <3>1. [type |-> "updated", success |-> valid] \in Frame
        BY DEF Frame
      <3> QED BY <2>5, <3>1 DEF UpdateAccount, Said
    <2>6. ASSUME AnswerNothing PROVE \E f \in Frame : Said(f)
      <3>1. [type |-> "response", call |-> None, result |-> "ok", run |-> None] \in Frame
        BY DEF Frame
      <3> QED BY <2>6, <3>1 DEF AnswerNothing, Said
    <2>7. CASE Die \/ \E c \in Calls, r \in Runs : OpenTurn(c, r)
      BY <2>7 DEF Die, OpenTurn
    <2> QED BY <1>4, <2>1, <2>2, <2>3, <2>4, <2>5, <2>6, <2>7 DEF Child
  <1> QED BY <1>1, <1>2, <1>3, <1>4 DEF Next
LEMMA EndsStep ==
    ASSUME TypeOK, EndsAreTrue, [Next]_vars
    PROVE  EndsAreTrue'
  <1>1. frames \in Seq(Frame) /\ child \in ChildState /\ None # "completed"
    BY ActorAssumption DEF TypeOK, Terminals
  <1>2. ASSUME NEW i \in DOMAIN frames, frames[i].type = "notice", frames[i].what = "completed"
        PROVE  child'.ended[frames[i].run] = "completed"
    <2>1. frames[i] \in Frame
      BY <1>1
    <2>2. frames[i].run \in Runs /\ child.ended[frames[i].run] = "completed"
      BY <1>2, <2>1, FrameFields DEF EndsAreTrue
    <2> QED BY <1>1, <2>2, EndsStay
  <1>3. CASE frames' = frames \/ frames' = <<>>
    BY <1>2, <1>3 DEF EndsAreTrue
  <1>4. CASE frames # <<>> /\ frames' = Tail(frames)
    <2>1. \A i \in DOMAIN frames' : i + 1 \in DOMAIN frames /\ frames'[i] = frames[i + 1]
      BY <1>1, <1>4
    <2> QED BY <1>2, <2>1 DEF EndsAreTrue
  <1>5. ASSUME NEW f \in Frame, Said(f) PROVE EndsAreTrue'
    <2>1. \A i \in DOMAIN frames' : (i \in DOMAIN frames /\ frames'[i] = frames[i]) \/ frames'[i] = f
      BY <1>1, <1>5 DEF Said, Says
    <2>2. ASSUME f.type = "notice", f.what = "completed"
          PROVE  child'.ended[f.run] = "completed"
      <3>1. f.run \in Runs /\ Notify(f.run, f.what)
        BY <1>5, <2>2, FrameFields DEF Said
      <3> QED BY <1>1, <2>2, <3>1 DEF Notify, ChildState
    <2> QED BY <1>2, <2>1, <2>2 DEF EndsAreTrue
  <1> QED BY <1>3, <1>4, <1>5, FramesMove

(* The last word of a story, and what a step that is not the end of a      *)
(* completed turn makes it.                                                *)
LEMMA LastOfLonger ==
    ASSUME NEW story \in Seq(Words), NEW word \in Words
    PROVE  Append(story, word) # <<>> /\ Last(Append(story, word)) = word
  BY DEF Last

LEMMA LastOfEmitted ==
    ASSUME TypeOK, NEW r \in Runs, NEW q \in Runs, NEW word \in Words, word # "completed",
           events' = Emit(q, word)
    PROVE  events'[r] = events[r] \/ Last(events'[r]) # "completed"
  <1>1. events \in [Runs -> Story] /\ events[q] \in Seq(Words)
    BY DEF TypeOK, Story, Words
  <1>2. events'[q] = Append(events[q], word) /\ (r # q => events'[r] = events[r])
    BY <1>1 DEF Emit
  <1> QED BY <1>1, <1>2, LastOfLonger

LEMMA LastOfClosed ==
    ASSUME TypeOK, NEW r \in Runs, NEW all, NEW left, NEW terminal \in {"interrupted", "crashed"},
           Close(all, left, terminal)
    PROVE  events'[r] = events[r] \/ Last(events'[r]) # "completed"
  <1>1. events[r] \in Seq(Words) /\ terminal \in Words
    BY DEF TypeOK, Story, Words, Terminals
  <1>2. events'[r] = events[r] \/ events'[r] = Append(events[r], terminal)
    BY DEF Close
  <1> QED BY <1>1, <1>2, LastOfLonger

LEMMA LastOfRetired ==
    ASSUME TypeOK, NEW r \in Runs, NEW q \in Runs, NEW before \in Seq(Words),
           NEW terminal \in Terminals, Retire(q, before, terminal)
    PROVE  events'[r] = events[r] \/ (r = q /\ Last(events'[r]) = terminal)
  <1>1. events \in [Runs -> Story] /\ events[q] \in Seq(Words) /\ terminal \in Words
    BY DEF TypeOK, Story, Words
  <1>2. events'[q] = events[q] \o before \o <<terminal>> /\ (r # q => events'[r] = events[r])
    BY <1>1 DEF Retire
  <1>3. events[q] \o before \in Seq(Words)
    BY <1>1
  <1>4. (events[q] \o before) \o <<terminal>> = Append(events[q] \o before, terminal)
    BY <1>1, <1>3
  <1> QED BY <1>2, <1>3, <1>4, <1>1, LastOfLonger

(* The word completed is said of a run when its turn is read to have ended *)
(* so, and by no other step.                                               *)
Truthful(r) ==
    \/ events'[r] = events[r]
    \/ Last(events'[r]) # "completed"
    \/ child.ended[r] = "completed"

LEMMA OutcomeStep ==
    ASSUME TypeOK, EndsAreTrue, [Next]_vars, NEW r \in Runs
    PROVE  Truthful(r)
  <1>1. /\ events \in [Runs -> Story] /\ frames \in Seq(Frame)
        /\ {"item", "output", "malformed"} \cup Requests \subseteq Words \ {"completed"}
    BY ActorAssumption DEF TypeOK, Words, Terminals
  <1>2. ASSUME UNCHANGED events PROVE Truthful(r)
    BY <1>2 DEF Truthful
  <1>3. ASSUME NEW c \in Calls, Command(c) PROVE Truthful(r)
    <2>1. CASE TakeRequestFails(c) \/ TakeResponseFails(c) \/ TakeLoginFails(c) \/ TakeShutdown(c)
      BY <2>1, LastOfClosed DEF Truthful, TakeRequestFails, TakeResponseFails, TakeLoginFails, TakeShutdown
    <2>2. CASE TakeUnknownRun(c) \/ TakeRequest(c) \/ TakeResponse(c) \/ TakeLogin(c)
      BY <1>2, <2>2 DEF TakeUnknownRun, TakeRequest, TakeResponse, TakeLogin
    <2> QED BY <1>3, <2>1, <2>2 DEF Command
  <1>4. ASSUME NEW f, Inbound(f) PROVE Truthful(r)
    <2>1. CASE ~RejectRequestFails(f)
      <3>1. frames # <<>> /\ f = Head(frames)
        BY <1>4, <2>1 DEF Inbound, Read, ReadStray, ReadFailure, ReadResult, ReadLoginCompleted,
               ReadAccountUpdated, ReadNotice, ReadTurnCompleted, ReadRequest, RejectRequest
      <3>2. 1 \in DOMAIN frames /\ f = frames[1] /\ f \in Frame
        BY <1>1, <3>1
      <3>3. CASE ReadResult(f)
        <4>1. \/ UNCHANGED events
              \/ f.type = "response" /\ f.run # None /\ events' = Emit(f.run, "accepted")
          BY <3>3 DEF ReadResult
        <4>2. "accepted" \in Words \ {"completed"}
          BY DEF Words
        <4> QED BY <1>2, <3>2, <4>1, <4>2, FrameFields, LastOfEmitted DEF Truthful
      <3>4. CASE ReadNotice(f)
        <4>1. \/ UNCHANGED events
              \/ /\ f.type = "notice"
                 /\ \E word \in {"item", "output", "malformed"} : events' = Emit(f.run, word)
          BY <3>4 DEF ReadNotice
        <4>2. f.type = "notice" => f.run \in Runs
          BY <3>2, FrameFields
        <4>3. {"item", "output", "malformed"} \subseteq Words \ {"completed"}
          BY <1>1
        <4>4. ASSUME NEW word \in {"item", "output", "malformed"}, f.run \in Runs,
                     events' = Emit(f.run, word)
              PROVE  Truthful(r)
          <5>1. word \in Words /\ word # "completed"
            BY <4>3
          <5> QED BY <4>4, <5>1, LastOfEmitted DEF Truthful
        <4> QED BY <1>2, <4>1, <4>2, <4>4
      <3>5. CASE ReadTurnCompleted(f)
        <4>1. CASE f.run \notin runs
          BY <1>2, <3>5, <4>1 DEF ReadTurnCompleted
        <4>2. CASE f.run \in runs
          <5>1. f.run \in Runs /\ <<>> \in Seq(Words) /\ <<"malformed">> \in Seq(Words)
            BY <4>2 DEF TypeOK, Words
          <5>2. CASE f.what = "garbled"
            <6>1. Retire(f.run, <<"malformed">>, "crashed") /\ "crashed" \in Terminals
              BY <3>5, <4>2, <5>2 DEF ReadTurnCompleted, Terminals
            <6>2. events'[r] = events[r] \/ Last(events'[r]) = "crashed"
              BY <5>1, <6>1, LastOfRetired
            <6> QED BY <6>2 DEF Truthful
          <5>3. CASE f.what \in {"completed", "interrupted"}
            <6>1. Retire(f.run, <<>>, f.what) /\ f.what \in Terminals
              BY <3>5, <4>2, <5>3 DEF ReadTurnCompleted, Terminals
            <6>2. events'[r] = events[r] \/ (r = f.run /\ Last(events'[r]) = f.what)
              BY <5>1, <6>1, LastOfRetired
            <6>3. f.what = "completed" => child.ended[f.run] = "completed"
              BY <3>2, <3>5 DEF EndsAreTrue, ReadTurnCompleted
            <6> QED BY <6>2, <6>3 DEF Truthful
          <5> QED BY <3>5, <5>2, <5>3 DEF ReadTurnCompleted
        <4> QED BY <4>1, <4>2
      <3>6. CASE ReadRequest(f)
        <4>1. /\ f.run \in Runs /\ f.request \in Requests
              /\ events' = Emit(f.run, f.request) \/ events' = Emit(f.run, "malformed")
          BY <3>2, <3>6, FrameFields DEF ReadRequest
        <4>2. {f.request, "malformed"} \subseteq Words \ {"completed"}
          BY <1>1, <4>1
        <4>3. ASSUME events' = Emit(f.run, f.request) PROVE Truthful(r)
          BY <4>1, <4>2, <4>3, LastOfEmitted DEF Truthful
        <4>4. ASSUME events' = Emit(f.run, "malformed") PROVE Truthful(r)
          BY <4>1, <4>2, <4>4, LastOfEmitted DEF Truthful
        <4> QED BY <4>1, <4>3, <4>4
      <3>7. CASE RejectRequest(f)
        <4>1. \/ UNCHANGED events
              \/ /\ f.run \in runs
                 /\ \E what \in {"item", "malformed"} : events' = Emit(f.run, what)
          BY <3>7 DEF RejectRequest
        <4>2. ASSUME NEW what \in {"item", "malformed"}, f.run \in runs,
                     events' = Emit(f.run, what)
              PROVE  Truthful(r)
          <5>1. what \in Words /\ what # "completed" /\ f.run \in Runs
            BY <1>1, <4>2 DEF TypeOK
          <5> QED BY <4>2, <5>1, LastOfEmitted DEF Truthful
        <4> QED BY <1>2, <4>1, <4>2
      <3>8. CASE ReadStray(f) \/ ReadFailure(f) \/ ReadLoginCompleted(f) \/ ReadAccountUpdated(f)
        BY <1>2, <3>8 DEF ReadStray, ReadFailure, ReadLoginCompleted, ReadAccountUpdated
      <3> QED BY <1>4, <2>1, <3>3, <3>4, <3>5, <3>6, <3>7, <3>8 DEF Inbound
    <2>2. CASE RejectRequestFails(f)
      BY <2>2, LastOfClosed DEF Truthful, RejectRequestFails
    <2> QED BY <2>1, <2>2
  <1>5. CASE ReadEof \/ DropAdapter
    BY <1>5, LastOfClosed DEF Truthful, ReadEof, DropAdapter
  <1>6. ASSUME NEW c \in Calls, Adapter(c) PROVE Truthful(r)
    BY <1>2, <1>6 DEF Adapter, UseRuntime, StartRuntime, Send, RetryAccountRead
  <1>7. CASE Child \/ UNCHANGED vars
    BY <1>2, <1>7 DEF Child, Answer, OpenTurn, CompleteLogin, Notify, Ask, UpdateAccount,
                AnswerNothing, Die, ChildOnly, vars
  <1> QED BY <1>3, <1>4, <1>5, <1>6, <1>7 DEF Next

(* A run is said to be completed only if the provider completed its turn:  *)
(* the end of the child, of the pipe or of the actor, and an end that      *)
(* breaks the schema, are never taken for it.                              *)
THEOREM OutcomesAreTheTurns == Spec => []OutcomeIsTheTurns
  <1>1. Init => OutcomeInv
    BY InitType DEF Init, OutcomeInv, EndsAreTrue, OutcomeIsTheTurns
  <1>2. OutcomeInv /\ [Next]_vars => OutcomeInv'
    <2> SUFFICES ASSUME TypeOK, EndsAreTrue, OutcomeIsTheTurns, [Next]_vars
                 PROVE  OutcomeInv'
      BY DEF OutcomeInv
    <2>1. TypeOK' /\ EndsAreTrue'
      BY TypeStep, EndsStep
    <2>2. ASSUME NEW r \in Runs, events'[r] # <<>>, Last(events'[r]) = "completed"
          PROVE  child'.ended[r] = "completed"
      <3>1. child.ended[r] = "completed"
        BY <2>2, OutcomeStep DEF OutcomeIsTheTurns, Truthful
      <3> QED BY <3>1, EndsStay, ActorAssumption DEF Terminals
    <2> QED BY <2>1, <2>2 DEF OutcomeInv, OutcomeIsTheTurns
  <1>3. OutcomeInv => OutcomeIsTheTurns
    BY DEF OutcomeInv
  <1> QED BY <1>1, <1>2, <1>3, PTL DEF Spec

-----------------------------------------------------------------------------
(* Answers to the provider's requests.                                     *)

(* A response that was answered stays as it is.                            *)
LEMMA RespondersStay ==
    ASSUME CallInv, [Next]_vars, NEW d \in Calls,
           calls[d].kind = "respond", calls[d].step = "done"
    PROVE  calls'[d] = calls[d]
  <1>1. /\ calls \in [Calls -> CallRow] /\ commands \in Seq(Calls) /\ pending \subseteq Calls
        /\ login.waiters \subseteq Calls /\ CallsInv /\ AnswersAreGiven(calls)
    BY DEF CallInv, TypeOK, LoginState, AnswersAreGiven
  <1>2. d \notin ToSet(commands) \cup pending \cup login.waiters
    BY <1>1 DEF CallsInv, Queued, Written, Joined
  <1>3. ASSUME NEW all \in [Calls -> CallRow], NEW left, NEW terminal,
               all[d] = calls[d], ToSet(left) \subseteq ToSet(commands),
               Close(all, left, terminal)
        PROVE  calls'[d] = calls[d]
    <2>1. Settled(all) \in [Calls -> CallRow]
      <3>1. ASSUME NEW c \in Calls
            PROVE  [all[c] EXCEPT !.step = "done", !.answer = Lost(c)] \in CallRow
        BY LostType DEF CallRow
      <3> QED BY <3>1 DEF Settled
    <2>2. Settled(all)[d] = all[d]
      BY <1>2 DEF Settled
    <2>3. d \notin Unreached(left)
      BY <1>2, <1>3 DEF Unreached
    <2>4. calls' = Dropped(Settled(all), Unreached(left))
      BY <1>3 DEF Close
    <2> QED BY <1>3, <2>1, <2>2, <2>3, <2>4, DroppedRows
  <1>4. ASSUME NEW c \in Calls, Adapter(c) PROVE calls'[d] = calls[d]
    <2>1. c # d
      BY <1>4 DEF Adapter, UseRuntime, StartRuntime, Send, RetryAccountRead
    <2>2. CASE UseRuntime(c)
      BY <1>1, <2>1, <2>2 DEF UseRuntime, Enter
    <2>3. CASE StartRuntime(c)
      BY <1>1, <2>1, <2>3 DEF StartRuntime, Enter
    <2>4. CASE Send(c)
      BY <1>1, <2>1, <2>4 DEF Send, Answered
    <2>5. CASE RetryAccountRead(c)
      BY <1>1, <2>1, <2>5 DEF RetryAccountRead
    <2> QED BY <1>4, <2>2, <2>3, <2>4, <2>5 DEF Adapter
  <1>5. ASSUME NEW c \in Calls, Command(c) PROVE calls'[d] = calls[d]
    <2>1. /\ commands # <<>> /\ c = Head(commands)
      BY <1>5 DEF Command, TakeUnknownRun, TakeRequest, TakeRequestFails, TakeResponse,
             TakeResponseFails, TakeLogin, TakeLoginFails, TakeShutdown, Taken
    <2>2. c \in ToSet(commands) /\ ToSet(Tail(commands)) \subseteq ToSet(commands)
      BY <1>1, <2>1, HeadOut DEF CallsInv, Queued
    <2>3. c # d
      BY <1>2, <2>2
    <2>4. ASSUME NEW answer \in Answers
          PROVE  /\ Answered(calls, {c}, answer)[d] = calls[d]
                 /\ Answered(calls, {c}, answer) \in [Calls -> CallRow]
      BY <1>1, <2>3, AnsweredType, AnsweredRows
    <2>5. CASE TakeRequestFails(c) \/ TakeResponseFails(c) \/ TakeLoginFails(c) \/ TakeShutdown(c)
      <3>1. PICK answer, terminal :
                /\ answer \in Answers
                /\ Close(Answered(calls, {c}, answer), Tail(commands), terminal)
        BY <2>5, LostType DEF TakeRequestFails, TakeResponseFails, TakeLoginFails,
                    TakeShutdown, Answers
      <3> QED BY <1>3, <2>2, <2>4, <3>1
    <2>6. CASE TakeUnknownRun(c) \/ TakeRequest(c) \/ TakeResponse(c) \/ TakeLogin(c)
      <3>1. calls' = calls \/ \E answer \in Answers : calls' = Answered(calls, {c}, answer)
        BY <2>6 DEF TakeUnknownRun, TakeRequest, TakeResponse, TakeLogin, Answers
      <3> QED BY <2>4, <3>1
    <2> QED BY <1>5, <2>5, <2>6 DEF Command
  <1>6. ASSUME NEW f, Inbound(f) PROVE calls'[d] = calls[d]
    <2>1. ASSUME NEW c \in pending, NEW answer \in Answers
          PROVE  /\ Answered(calls, {c}, answer)[d] = calls[d]
                 /\ Answered(calls, {c}, answer) \in [Calls -> CallRow]
      BY <1>1, <1>2, AnsweredType, AnsweredRows
    <2>2. ASSUME NEW c, NEW answer, SettleLoginStart(c, answer)
          PROVE  calls'[d] = calls[d]
      BY <1>1, <1>2, <2>2, AnsweredRows DEF SettleLoginStart
    <2>3. ASSUME NEW all \in [Calls -> CallRow], all[d] = calls[d], ClearLogin(all)
          PROVE  calls'[d] = calls[d]
      BY <1>2, <2>3, DroppedRows DEF ClearLogin
    <2>4. {"ok", "refused", "unknown"} \subseteq Answers
      BY DEF Answers
    <2>5. CASE ReadFailure(f)
      <3>1. PICK answer \in Answers :
                \/ SettleLoginStart(f.call, answer)
                \/ calls' = Answered(calls, {f.call}, answer) /\ f.call \in pending
        BY <2>4, <2>5 DEF ReadFailure
      <3> QED BY <2>1, <2>2, <3>1
    <2>6. CASE ReadResult(f)
      <3> DEFINE all == Answered(calls, {f.call}, "ok")
      <3>1. /\ f.call \in pending
            /\ SettleLoginStart(f.call, "ok") \/ calls' = all \/ ClearLogin(all)
        BY <2>6 DEF ReadResult
      <3>2. all \in [Calls -> CallRow] /\ all[d] = calls[d]
        BY <2>1, <2>4, <3>1
      <3> HIDE DEF all
      <3> QED BY <2>2, <2>3, <3>1, <3>2
    <2>7. CASE ReadAccountUpdated(f)
      BY <1>1, <2>3, <2>7 DEF ReadAccountUpdated
    <2>8. CASE RejectRequestFails(f)
      BY <1>1, <1>3, <2>8 DEF RejectRequestFails
    <2>9. CASE ReadStray(f) \/ ReadLoginCompleted(f) \/ ReadNotice(f) \/ ReadTurnCompleted(f)
                 \/ ReadRequest(f) \/ RejectRequest(f)
      BY <2>9 DEF ReadStray, ReadLoginCompleted, ReadNotice, ReadTurnCompleted,
                   ReadRequest, RejectRequest
    <2> QED BY <1>6, <2>5, <2>6, <2>7, <2>8, <2>9 DEF Inbound
  <1>7. CASE ReadEof
    BY <1>1, <1>3, <1>7 DEF ReadEof
  <1>8. CASE DropAdapter
    <2>1. PICK terminal : Close(calls, <<>>, terminal)
      BY <1>8 DEF DropAdapter
    <2>2. ToSet(<<>>) \subseteq ToSet(commands)
      BY EmptySet
    <2> QED BY <1>1, <1>3, <2>1, <2>2
  <1>9. CASE Child \/ UNCHANGED vars
    BY <1>9 DEF Child, Answer, OpenTurn, CompleteLogin, Notify, Ask, UpdateAccount,
                AnswerNothing, Die, ChildOnly, vars
  <1> QED BY <1>4, <1>5, <1>6, <1>7, <1>8, <1>9 DEF Next

(* A request is on its way once; it is not open and not answered before it *)
(* is read; while it is open nobody has answered it.                       *)
AskedOnce ==
    \A i, j \in DOMAIN frames :
        frames[i].type = "request" /\ frames[j].type = "request"
          /\ frames[i].request = frames[j].request
        => i = j

AskedAnew ==
    \A i \in DOMAIN frames :
        frames[i].type = "request" =>
            /\ frames[i].request \notin serverRequests
            /\ child.replies[frames[i].request] = <<>>

OpenUnanswered == \A q \in serverRequests : child.replies[q] = <<>>

AnswersWereAsked ==
    \A q \in Requests : child.replies[q] # <<>> => child.asked[q] # None

(* What answers a request is one response that was told so, or a rejection.*)
Replied(q, x) ==
    /\ child.replies[q] = <<x>>
    /\ x # None => /\ x \in Calls
                   /\ calls[x].kind = "respond" /\ calls[x].about = q
                   /\ calls[x].step = "done" /\ calls[x].answer = "ok"

RepliedOnce ==
    \A q \in Requests :
        child.replies[q] = <<>> \/ \E x \in Calls \cup {None} : Replied(q, x)

AskInv == AskedOnce /\ AskedAnew /\ OpenUnanswered /\ AnswersWereAsked /\ RepliedOnce

(* What a step may do to the requests: nothing that opens or answers one;  *)
(* a caller answers one; a request is kept, or rejected; one is asked.     *)
Remains ==
    \E k \in {0, 1} : \A i \in DOMAIN frames' :
        frames'[i].type = "request" => i + k \in DOMAIN frames /\ frames'[i] = frames[i + k]

NoneAnswered ==
    /\ Remains
    /\ serverRequests' \subseteq serverRequests
    /\ child'.replies = child.replies /\ child'.asked = child.asked

CallerAnswers(c, q) ==
    /\ frames' = frames
    /\ q \in serverRequests /\ serverRequests' = serverRequests \ {q}
    /\ child'.replies = [child.replies EXCEPT ![q] = Append(@, c)]
    /\ child'.asked = child.asked
    /\ calls'[c].kind = "respond" /\ calls'[c].about = q
    /\ calls'[c].step = "done" /\ calls'[c].answer = "ok"

FirstIs(f) == frames # <<>> /\ f = Head(frames) /\ frames' = Tail(frames)

Keeps(f) ==
    /\ FirstIs(f) /\ f.type = "request"
    /\ serverRequests' = serverRequests \cup {f.request}
    /\ child' = child

Rejects(f) ==
    /\ FirstIs(f) /\ f.type = "request"
    /\ serverRequests' = serverRequests
    /\ child'.replies = [child.replies EXCEPT ![f.request] = Append(@, None)]
    /\ child'.asked = child.asked

LEMMA FramesRemain ==
    ASSUME TypeOK,
           \/ frames' = frames
           \/ frames # <<>> /\ frames' = Tail(frames)
           \/ frames' = <<>>
           \/ \E f \in Frame : f.type # "request" /\ Says(f)
    PROVE  Remains
  <1>1. frames \in Seq(Frame)
    BY DEF TypeOK
  <1>2. CASE frames' = frames
    <2>1. \A i \in DOMAIN frames' : i + 0 = i
      BY <1>1, <1>2
    <2> QED BY <1>2, <2>1 DEF Remains
  <1>3. CASE frames # <<>> /\ frames' = Tail(frames)
    <2>1. \A i \in DOMAIN frames' : i + 1 \in DOMAIN frames /\ frames'[i] = frames[i + 1]
      BY <1>1, <1>3
    <2> QED BY <2>1 DEF Remains
  <1>4. CASE frames' = <<>>
    <2>1. DOMAIN frames' = {}
      BY <1>4
    <2> QED BY <2>1 DEF Remains
  <1>5. ASSUME NEW f \in Frame, f.type # "request", Says(f) PROVE Remains
    <2>1. frames' = Append(frames, f)
      BY <1>5 DEF Says
    <2>2. \A i \in DOMAIN frames' :
              (i + 0 \in DOMAIN frames /\ frames'[i] = frames[i + 0]) \/ frames'[i] = f
      BY <1>1, <2>1
    <2> QED BY <1>5, <2>2 DEF Remains
  <1> QED BY <1>2, <1>3, <1>4, <1>5

LEMMA SameShift == \A i, j, k \in Int : i + k = j + k => i = j
  OBVIOUS

(* Nothing is opened or answered.                                          *)
LEMMA NoneAnsweredStep ==
    ASSUME TypeOK, TypeOK', AskInv, NoneAnswered
    PROVE  /\ AskedOnce' /\ AskedAnew' /\ OpenUnanswered' /\ AnswersWereAsked'
           /\ child'.replies = child.replies
  <1>1. PICK k \in {0, 1} : \A i \in DOMAIN frames' :
            frames'[i].type = "request" => i + k \in DOMAIN frames /\ frames'[i] = frames[i + k]
    BY DEF NoneAnswered, Remains
  <1>2. DOMAIN frames' \subseteq Int /\ k \in Int
    <2>1. frames' \in Seq(Frame)
      BY DEF TypeOK
    <2> QED BY <2>1
  <1>3. AskedAnew' /\ OpenUnanswered' /\ AnswersWereAsked' /\ child'.replies = child.replies
    BY <1>1 DEF AskInv, NoneAnswered, AskedAnew, OpenUnanswered, AnswersWereAsked
  <1>4. ASSUME NEW i \in DOMAIN frames', NEW j \in DOMAIN frames',
               frames'[i].type = "request", frames'[j].type = "request",
               frames'[i].request = frames'[j].request
        PROVE  i = j
    <2>1. i + k = j + k
      BY <1>1, <1>4 DEF AskInv, AskedOnce
    <2>2. i \in Int /\ j \in Int /\ k \in Int
      BY <1>2
    <2> QED BY <2>1, <2>2, SameShift
  <1>5. AskedOnce'
    BY <1>4 DEF AskedOnce
  <1> QED BY <1>3, <1>5

(* A caller answers an open request.                                       *)
LEMMA CallerAnswersStep ==
    ASSUME TypeOK, NothingOutlivesItsRun, AskInv,
           NEW c \in Calls, NEW q \in Requests, CallerAnswers(c, q)
    PROVE  /\ AskedOnce' /\ AskedAnew' /\ OpenUnanswered' /\ AnswersWereAsked'
           /\ Replied(q, c)' /\ \A p \in Requests \ {q} : child'.replies[p] = child.replies[p]
  <1>1. child.replies \in [Requests -> Seq(Calls \cup {None})] /\ frames \in Seq(Frame)
    BY DEF TypeOK, ChildState
  <1>2. child.replies[q] = <<>> /\ child.asked[q] # None
    BY ActorAssumption
       DEF AskInv, OpenUnanswered, CallerAnswers, NothingOutlivesItsRun, TypeOK
  <1>3. /\ child'.replies[q] = <<c>>
        /\ \A p \in Requests \ {q} : child'.replies[p] = child.replies[p]
    <2>1. child'.replies[q] = Append(child.replies[q], c)
      BY <1>1 DEF CallerAnswers
    <2>2. Append(<<>>, c) = <<c>>
      OBVIOUS
    <2>3. \A p \in Requests \ {q} : child'.replies[p] = child.replies[p]
      BY <1>1 DEF CallerAnswers
    <2> QED BY <1>2, <2>1, <2>2, <2>3
  <1>4. AskedOnce'
    BY DEF AskInv, AskedOnce, CallerAnswers
  <1>5. AskedAnew'
    <2>1. ASSUME NEW i \in DOMAIN frames, frames[i].type = "request"
          PROVE  /\ frames[i].request \notin serverRequests'
                 /\ child'.replies[frames[i].request] = <<>>
      <3>1. frames[i] \in Frame
        BY <1>1
      <3>2. /\ frames[i].request \in Requests /\ frames[i].request \notin serverRequests
            /\ child.replies[frames[i].request] = <<>>
        BY <2>1, <3>1, FrameFields DEF AskInv, AskedAnew
      <3> QED BY <1>3, <3>2 DEF CallerAnswers
    <2> QED BY <2>1 DEF AskedAnew, CallerAnswers
  <1>6. OpenUnanswered'
    BY <1>3 DEF AskInv, OpenUnanswered, CallerAnswers, TypeOK
  <1>7. AnswersWereAsked'
    BY <1>2, <1>3 DEF AskInv, AnswersWereAsked, CallerAnswers
  <1>8. Replied(q, c)'
    BY <1>3 DEF Replied, CallerAnswers
  <1> QED BY <1>3, <1>4, <1>5, <1>6, <1>7, <1>8

(* The first frame is gone; the others do not ask the same.                *)
LEMMA FirstIsGone ==
    ASSUME TypeOK, AskInv, NEW f, FirstIs(f), f.type = "request"
    PROVE  /\ f \in Frame /\ f = frames[1] /\ 1 \in DOMAIN frames
           /\ f.request \in Requests /\ f.run \in Runs
           /\ f.request \notin serverRequests /\ child.replies[f.request] = <<>>
           /\ AskedOnce'
           /\ \A i \in DOMAIN frames' :
                  frames'[i].type = "request" =>
                      /\ frames'[i].request \in Requests \ {f.request}
                      /\ frames'[i].request \notin serverRequests
                      /\ child.replies[frames'[i].request] = <<>>
  <1>1. frames \in Seq(Frame)
    BY DEF TypeOK
  <1>2. 1 \in DOMAIN frames /\ f = frames[1] /\ f \in Frame
    BY <1>1 DEF FirstIs
  <1>3. f.request \in Requests /\ f.run \in Runs
    BY <1>2, FrameFields
  <1>4. f.request \notin serverRequests /\ child.replies[f.request] = <<>>
    BY <1>2 DEF AskInv, AskedAnew
  <1>5. ASSUME NEW i \in DOMAIN frames'
        PROVE  i + 1 \in DOMAIN frames /\ i + 1 # 1 /\ i \in Int /\ frames'[i] = frames[i + 1]
    BY <1>1 DEF FirstIs
  <1>6. ASSUME NEW i \in DOMAIN frames', frames'[i].type = "request"
        PROVE  /\ frames'[i].request \in Requests \ {f.request}
               /\ frames'[i].request \notin serverRequests
               /\ child.replies[frames'[i].request] = <<>>
    <2>1. frames[i + 1] \in Frame
      BY <1>1, <1>5
    <2>2. frames[i + 1].request # f.request
      BY <1>2, <1>5, <1>6 DEF AskInv, AskedOnce
    <2> QED BY <1>5, <1>6, <2>1, <2>2, FrameFields DEF AskInv, AskedAnew
  <1>7. ASSUME NEW i \in DOMAIN frames', NEW j \in DOMAIN frames',
               frames'[i].type = "request", frames'[j].type = "request",
               frames'[i].request = frames'[j].request
        PROVE  i = j
    <2>1. i + 1 = j + 1
      BY <1>5, <1>7 DEF AskInv, AskedOnce
    <2> QED BY <1>5, <2>1
  <1>8. AskedOnce'
    BY <1>7 DEF AskedOnce
  <1> QED BY <1>2, <1>3, <1>4, <1>6, <1>8

LEMMA KeepsStep ==
    ASSUME TypeOK, AskInv, NEW f, Keeps(f)
    PROVE  /\ AskedOnce' /\ AskedAnew' /\ OpenUnanswered' /\ AnswersWereAsked'
           /\ child'.replies = child.replies
  <1>1. FirstIs(f) /\ f.type = "request" /\ child' = child
    BY DEF Keeps
  <1>2. AskedAnew' /\ OpenUnanswered'
    BY <1>1, FirstIsGone DEF AskInv, AskedAnew, OpenUnanswered, Keeps
  <1>3. AnswersWereAsked'
    BY <1>1 DEF AskInv, AnswersWereAsked
  <1> QED BY <1>1, <1>2, <1>3, FirstIsGone

LEMMA RejectsStep ==
    ASSUME TypeOK, RequestsNameTheirRun, AskInv, NEW f, Rejects(f)
    PROVE  /\ AskedOnce' /\ AskedAnew' /\ OpenUnanswered' /\ AnswersWereAsked'
           /\ Replied(f.request, None)'
           /\ f.request \in Requests
           /\ \A p \in Requests \ {f.request} : child'.replies[p] = child.replies[p]
  <1> DEFINE q == f.request
  <1>1. FirstIs(f) /\ f.type = "request"
    BY DEF Rejects
  <1>2. /\ child.replies \in [Requests -> Seq(Calls \cup {None})]
        /\ q \in Requests /\ q \notin serverRequests /\ child.replies[q] = <<>>
        /\ f = frames[1] /\ 1 \in DOMAIN frames /\ f.run \in Runs
    BY <1>1, FirstIsGone DEF TypeOK, ChildState
  <1>3. child.asked[q] # None
    BY <1>1, <1>2, ActorAssumption DEF RequestsNameTheirRun
  <1>4. /\ child'.replies[q] = <<None>>
        /\ \A p \in Requests \ {q} : child'.replies[p] = child.replies[p]
    <2>1. child'.replies[q] = Append(child.replies[q], None)
      BY <1>2 DEF Rejects
    <2>2. Append(<<>>, None) = <<None>>
      OBVIOUS
    <2>3. \A p \in Requests \ {q} : child'.replies[p] = child.replies[p]
      BY <1>2 DEF Rejects
    <2> QED BY <1>2, <2>1, <2>2, <2>3
  <1> HIDE DEF q
  <1>5. AskedOnce'
    BY <1>1, FirstIsGone
  <1>6. AskedAnew'
    <2>1. ASSUME NEW i \in DOMAIN frames', frames'[i].type = "request"
          PROVE  /\ frames'[i].request \in Requests \ {q}
                 /\ frames'[i].request \notin serverRequests
                 /\ child.replies[frames'[i].request] = <<>>
      BY <1>1, <2>1, FirstIsGone DEF q
    <2> QED BY <1>4, <2>1 DEF AskedAnew, Rejects
  <1>7. OpenUnanswered'
    BY <1>2, <1>4 DEF AskInv, OpenUnanswered, Rejects, TypeOK
  <1>8. AnswersWereAsked'
    BY <1>3, <1>4 DEF AskInv, AnswersWereAsked, Rejects
  <1>9. Replied(q, None)'
    BY <1>4 DEF Replied
  <1> QED BY <1>2, <1>4, <1>5, <1>6, <1>7, <1>8, <1>9 DEF q

(* The child asks; whatever it asked before is another request.            *)
LEMMA AskStep ==
    ASSUME TypeOK, RequestsNameTheirRun, NothingOutlivesItsRun, AskInv,
           NEW q \in Requests, NEW r \in Runs, Ask(q, r)
    PROVE  /\ AskedOnce' /\ AskedAnew' /\ OpenUnanswered' /\ AnswersWereAsked'
           /\ child'.replies = child.replies
  <1> DEFINE f == [type |-> "request", request |-> q, run |-> r]
  <1>1. /\ frames \in Seq(Frame) /\ f \in Frame /\ frames' = Append(frames, f)
        /\ child \in ChildState /\ child.asked[q] = None
        /\ serverRequests' = serverRequests /\ r # None
    BY ActorAssumption DEF TypeOK, Ask, Says, Frame, ChildOnly
  <1>2. f.request = q /\ f.type = "request"
    OBVIOUS
  <1> HIDE DEF f
  <1>3. /\ child'.replies = child.replies /\ child'.asked[q] = r
        /\ \A p \in Requests \ {q} : child'.asked[p] = child.asked[p]
    BY <1>1 DEF Ask, ChildState
  <1>4. q \notin serverRequests /\ child.replies[q] = <<>>
    BY <1>1, ActorAssumption DEF NothingOutlivesItsRun, TypeOK, AskInv, AnswersWereAsked
  <1>5. ASSUME NEW i \in DOMAIN frames, frames[i].type = "request"
        PROVE  frames[i].request # q
    <2>1. frames[i].run \in Runs
      BY <1>1, <1>5, FrameFields
    <2>2. frames[i].run # None
      BY <2>1, ActorAssumption
    <2> QED BY <1>1, <1>5, <2>2 DEF RequestsNameTheirRun
  <1>6. /\ DOMAIN frames' = DOMAIN frames \cup {Len(frames) + 1}
        /\ frames'[Len(frames) + 1] = f
        /\ \A i \in DOMAIN frames : frames'[i] = frames[i]
    BY <1>1
  <1>7. AskedOnce'
    BY <1>2, <1>5, <1>6 DEF AskInv, AskedOnce
  <1>8. AskedAnew'
    BY <1>1, <1>2, <1>3, <1>4, <1>6 DEF AskInv, AskedAnew
  <1>9. OpenUnanswered'
    BY <1>1, <1>3 DEF AskInv, OpenUnanswered
  <1>10. AnswersWereAsked'
    BY <1>1, <1>3 DEF AskInv, AnswersWereAsked
  <1> QED BY <1>3, <1>7, <1>8, <1>9, <1>10

AsksMove ==
    \/ NoneAnswered
    \/ \E c \in Calls, q \in Requests : CallerAnswers(c, q)
    \/ \E f : Keeps(f) \/ Rejects(f)
    \/ \E q \in Requests, r \in Runs : Ask(q, r)

LEMMA TakeResponseMoves ==
    ASSUME CallInv, Remains, NEW c \in Calls, TakeResponse(c)
    PROVE  AsksMove
  <1> DEFINE q == calls[c].about
  <1>1. /\ calls \in [Calls -> CallRow] /\ serverRequests \subseteq Requests
        /\ child \in ChildState /\ AnswersAreGiven(calls)
    BY DEF CallInv, TypeOK, AnswersAreGiven
  <1>2. \/ child' = child /\ serverRequests' \subseteq serverRequests
        \/ /\ q \in serverRequests /\ serverRequests' = serverRequests \ {q}
           /\ child' = [child EXCEPT !.heard = @ \cup {c}, !.replies[q] = Append(@, c)]
           /\ calls' = Answered(calls, {c}, "ok")
    BY DEF TakeResponse
  <1>3. CASE child' = child /\ serverRequests' \subseteq serverRequests
    BY <1>3 DEF AsksMove, NoneAnswered
  <1>4. CASE /\ q \in serverRequests /\ serverRequests' = serverRequests \ {q}
             /\ child' = [child EXCEPT !.heard = @ \cup {c}, !.replies[q] = Append(@, c)]
             /\ calls' = Answered(calls, {c}, "ok")
    <2>1. frames' = frames /\ calls[c].kind = "respond"
      BY DEF TakeResponse
    <2>2. /\ calls'[c].step = "done" /\ calls'[c].answer = "ok"
          /\ calls'[c].kind = "respond" /\ calls'[c].about = q
      <3>1. calls[c] \in CallRow
        BY <1>1
      <3>2. calls'[c] = [calls[c] EXCEPT !.step = "done", !.client = 0, !.answer = "ok"]
        BY <1>4 DEF Answered
      <3> QED BY <2>1, <3>1, <3>2 DEF CallRow
    <2> DEFINE replies == [child.replies EXCEPT ![q] = Append(@, c)]
    <2>3. [child EXCEPT !.heard = @ \cup {c}, !.replies[q] = Append(@, c)]
             = [child EXCEPT !.heard = @ \cup {c}, !.replies = replies]
      OBVIOUS
    <2> HIDE DEF replies
    <2>4. child'.replies = replies /\ child'.asked = child.asked
      BY <1>1, <1>4, <2>3 DEF ChildState
    <2>5. CallerAnswers(c, q)
      BY <1>4, <2>1, <2>2, <2>4 DEF CallerAnswers, replies
    <2> QED BY <1>1, <1>4, <2>5 DEF AsksMove
  <1> QED BY <1>2, <1>3, <1>4

LEMMA RequestsMove ==
    ASSUME CallInv, [Next]_vars
    PROVE  AsksMove
  <1>1. TypeOK /\ child \in ChildState
    BY DEF CallInv, TypeOK
  <1>2. Remains \/ \E q \in Requests, r \in Runs : Ask(q, r)
    <2>1. ASSUME NEW f \in Frame, Said(f), f.type = "request"
          PROVE  \E q \in Requests, r \in Runs : Ask(q, r)
      BY <2>1, FrameFields DEF Said
    <2>2. ASSUME NEW f \in Frame, Said(f), f.type # "request"
          PROVE  Remains
      BY <1>1, <2>2, FramesRemain DEF Said
    <2> QED BY <1>1, <2>1, <2>2, FramesMove, FramesRemain
  <1>3. ASSUME serverRequests' \subseteq serverRequests,
               child'.replies = child.replies, child'.asked = child.asked
        PROVE  AsksMove
    BY <1>2, <1>3 DEF AsksMove, NoneAnswered
  <1>4. ASSUME NEW all, NEW left, NEW terminal, Close(all, left, terminal), child' = Killed
        PROVE  AsksMove
    <2>1. child'.replies = child.replies /\ child'.asked = child.asked
      BY <1>1, <1>4 DEF Killed, ChildState
    <2>2. serverRequests' = {}
      BY <1>4 DEF Close
    <2> QED BY <1>3, <2>1, <2>2
  <1>5. ASSUME NEW c \in Calls, Adapter(c) PROVE AsksMove
    <2>1. /\ serverRequests' = serverRequests
          /\ child' = child \/ child' = [child EXCEPT !.up = TRUE, !.spoken = 0]
      BY <1>5 DEF Adapter, UseRuntime, StartRuntime, Send, RetryAccountRead
    <2>2. child'.replies = child.replies /\ child'.asked = child.asked
      BY <1>1, <2>1 DEF ChildState
    <2> QED BY <1>3, <2>1, <2>2
  <1>6. ASSUME NEW c \in Calls, Command(c) PROVE AsksMove
    <2>1. CASE TakeRequestFails(c) \/ TakeResponseFails(c) \/ TakeLoginFails(c) \/ TakeShutdown(c)
      BY <1>4, <2>1 DEF TakeRequestFails, TakeResponseFails, TakeLoginFails, TakeShutdown
    <2>2. CASE TakeUnknownRun(c) \/ TakeRequest(c) \/ TakeLogin(c)
      <3>1. /\ serverRequests' = serverRequests
            /\ child' = child \/ child' = Reads(c)
        BY <2>2 DEF TakeUnknownRun, TakeRequest, TakeLogin
      <3>2. child'.replies = child.replies /\ child'.asked = child.asked
        BY <1>1, <3>1 DEF Reads, ChildState
      <3> QED BY <1>3, <3>1, <3>2
    <2>3. CASE TakeResponse(c)
      <3>1. frames' = frames
        BY <2>3 DEF TakeResponse
      <3>2. Remains
        BY <1>1, <3>1, FramesRemain
      <3> QED BY <2>3, <3>2, TakeResponseMoves
    <2> QED BY <1>6, <2>1, <2>2, <2>3 DEF Command
  <1>7. ASSUME NEW f, Inbound(f) PROVE AsksMove
    <2>1. CASE RejectRequestFails(f)
      BY <1>4, <2>1 DEF RejectRequestFails
    <2>2. CASE RejectRequest(f)
      <3>1. /\ FirstIs(f) /\ f.type = "request" /\ serverRequests' = serverRequests
            /\ \/ child' = child
               \/ child' = [child EXCEPT !.replies[f.request] = Append(@, None)]
        BY <2>2 DEF RejectRequest, Read, FirstIs
      <3>2. CASE child' = child
        BY <1>3, <3>1, <3>2
      <3>3. CASE child' = [child EXCEPT !.replies[f.request] = Append(@, None)]
        <4>1. /\ child'.replies = [child.replies EXCEPT ![f.request] = Append(@, None)]
              /\ child'.asked = child.asked
          BY <1>1, <3>3 DEF ChildState
        <4>2. Rejects(f)
          BY <3>1, <4>1 DEF Rejects
        <4> QED BY <4>2 DEF AsksMove
      <3> QED BY <3>1, <3>2, <3>3
    <2>3. CASE ReadRequest(f)
      <3>1. Keeps(f)
        BY <2>3 DEF ReadRequest, Read, FirstIs, Keeps
      <3> QED BY <3>1 DEF AsksMove
    <2>4. CASE ReadStray(f) \/ ReadFailure(f) \/ ReadResult(f) \/ ReadLoginCompleted(f)
                 \/ ReadAccountUpdated(f) \/ ReadNotice(f) \/ ReadTurnCompleted(f)
      <3>1. child' = child /\ serverRequests' \subseteq serverRequests
        BY <2>4 DEF ReadStray, ReadFailure, ReadResult, ReadLoginCompleted,
               ReadAccountUpdated, ReadNotice, ReadTurnCompleted, Retire
      <3> QED BY <1>3, <3>1
    <2> QED BY <1>7, <2>1, <2>2, <2>3, <2>4 DEF Inbound
  <1>8. CASE ReadEof \/ DropAdapter
    BY <1>4, <1>8 DEF ReadEof, DropAdapter
  <1>9. CASE Child
    <2>1. serverRequests' = serverRequests
      BY <1>9 DEF Child, Answer, OpenTurn, CompleteLogin, Notify, Ask, UpdateAccount,
             AnswerNothing, Die, ChildOnly
    <2>2. ASSUME NEW q \in Requests, NEW r \in Runs, Ask(q, r) PROVE AsksMove
      BY <2>2 DEF AsksMove
    <2>3. ASSUME NEW c \in Calls, NEW r \in Runs, OpenTurn(c, r) PROVE AsksMove
      BY <1>1, <1>3, <2>1, <2>3 DEF OpenTurn, ChildState
    <2>4. ASSUME NEW c \in Calls, NEW success \in BOOLEAN, CompleteLogin(c, success)
          PROVE  AsksMove
      BY <1>1, <1>3, <2>1, <2>4 DEF CompleteLogin, ChildState
    <2>5. ASSUME NEW r \in Runs, NEW what \in Notices, Notify(r, what) PROVE AsksMove
      BY <1>1, <1>3, <2>1, <2>5 DEF Notify, ChildState
    <2>6. ASSUME NEW valid \in BOOLEAN, UpdateAccount(valid) PROVE AsksMove
      BY <1>1, <1>3, <2>1, <2>6 DEF UpdateAccount, ChildState
    <2>7. ASSUME Die PROVE AsksMove
      BY <1>1, <1>3, <2>1, <2>7 DEF Die, ChildState
    <2>8. ASSUME child' = child PROVE AsksMove
      BY <1>3, <2>1, <2>8
    <2> QED BY <1>9, <2>2, <2>3, <2>4, <2>5, <2>6, <2>7, <2>8 DEF Child, Answer, AnswerNothing
  <1>10. CASE UNCHANGED vars
    BY <1>3, <1>10 DEF vars
  <1> QED BY <1>5, <1>6, <1>7, <1>8, <1>9, <1>10 DEF Next

LEMMA AskInvStep ==
    ASSUME CallInv, CallInv', RunInv, AskInv, [Next]_vars
    PROVE  AskInv'
  <1>1. TypeOK /\ TypeOK' /\ RequestsNameTheirRun /\ NothingOutlivesItsRun
    BY DEF CallInv, RunInv
  <1>2. ASSUME NEW p \in Requests, child'.replies[p] = child.replies[p]
        PROVE  child'.replies[p] = <<>> \/ \E x \in Calls \cup {None} : Replied(p, x)'
    <2>1. CASE child.replies[p] = <<>>
      BY <1>2, <2>1
    <2>2. CASE child.replies[p] # <<>>
      <3>1. PICK x \in Calls \cup {None} : Replied(p, x)
        BY <2>2 DEF AskInv, RepliedOnce
      <3>2. x # None => x \in Calls /\ calls'[x] = calls[x]
        BY <3>1, RespondersStay DEF Replied
      <3>3. Replied(p, x)'
        BY <1>2, <3>1, <3>2 DEF Replied
      <3> QED BY <3>3
    <2> QED BY <2>1, <2>2
  <1>3. CASE NoneAnswered \/ (\E f : Keeps(f)) \/ (\E q \in Requests, r \in Runs : Ask(q, r))
    <2>1. /\ AskedOnce' /\ AskedAnew' /\ OpenUnanswered' /\ AnswersWereAsked'
          /\ child'.replies = child.replies
      BY <1>1, <1>3, NoneAnsweredStep, KeepsStep, AskStep
    <2>2. RepliedOnce'
      BY <1>2, <2>1 DEF RepliedOnce
    <2> QED BY <2>1, <2>2 DEF AskInv
  <1>4. ASSUME NEW c \in Calls, NEW q \in Requests, CallerAnswers(c, q) PROVE AskInv'
    <2>1. /\ AskedOnce' /\ AskedAnew' /\ OpenUnanswered' /\ AnswersWereAsked'
          /\ Replied(q, c)' /\ \A p \in Requests \ {q} : child'.replies[p] = child.replies[p]
      BY <1>1, <1>4, CallerAnswersStep
    <2>2. RepliedOnce'
      BY <1>2, <2>1 DEF RepliedOnce
    <2> QED BY <2>1, <2>2 DEF AskInv
  <1>5. ASSUME NEW f, Rejects(f) PROVE AskInv'
    <2>1. /\ AskedOnce' /\ AskedAnew' /\ OpenUnanswered' /\ AnswersWereAsked'
          /\ Replied(f.request, None)'
          /\ \A p \in Requests \ {f.request} : child'.replies[p] = child.replies[p]
      BY <1>1, <1>5, RejectsStep
    <2>2. RepliedOnce'
      BY <1>2, <2>1 DEF RepliedOnce
    <2> QED BY <2>1, <2>2 DEF AskInv
  <1> QED BY <1>3, <1>4, <1>5, RequestsMove DEF AsksMove

(* The provider gets at most one response to each of its requests, however *)
(* many callers answer it and whatever the actor rejects, and a caller     *)
(* whose response it got was told so and was answering that request.       *)
THEOREM RequestsAnsweredOnce == Spec => []RequestsAreAnsweredOnce
  <1>1. Init => CallInv /\ RunInv /\ AskInv
    <2>1. Init => CallInv
      BY InitType, EmptySet DEF Init, CallInv, CallsInv, Quiet, Queued, Written, Joined,
             Placed, Heard, NewCall, NoLogin
    <2>2. Init => RunInv
      BY InitType DEF Init, RunInv, RequestsNameTheirRun, NothingOutlivesItsRun
    <2>3. Init => AskInv
      BY DEF Init, AskInv, AskedOnce, AskedAnew, OpenUnanswered, AnswersWereAsked, RepliedOnce
    <2> QED BY <2>1, <2>2, <2>3
  <1>2. (CallInv /\ RunInv /\ AskInv) /\ [Next]_vars => (CallInv /\ RunInv /\ AskInv)'
    BY CallStep, RunStep, AskInvStep
  <1>3. CallInv /\ RunInv /\ AskInv => RequestsAreAnsweredOnce
    <2> SUFFICES ASSUME AskInv, NEW q \in Requests
                 PROVE  /\ Len(child.replies[q]) <= 1
                        /\ \A c \in ToSet(child.replies[q]) \ {None} :
                               calls[c].answer = "ok" /\ calls[c].about = q
      BY DEF RequestsAreAnsweredOnce
    <2>1. CASE child.replies[q] = <<>>
      BY <2>1, EmptySet
    <2>2. ASSUME NEW x, Replied(q, x)
          PROVE  /\ Len(child.replies[q]) <= 1
                 /\ \A c \in ToSet(child.replies[q]) \ {None} :
                        calls[c].answer = "ok" /\ calls[c].about = q
      <3>1. ToSet(<<x>>) = {x} /\ Len(<<x>>) = 1
        BY DEF ToSet
      <3> QED BY <2>2, <3>1 DEF Replied
    <2> QED BY <2>1, <2>2 DEF AskInv, RepliedOnce
  <1> QED BY <1>1, <1>2, <1>3, PTL DEF Spec

-----------------------------------------------------------------------------
(* The login: one that the actor shows as in progress is one.              *)

(* The rows of the calls.                                                  *)

(* What becomes of the row of a call: its kind is settled when it is made, *)
(* and only an account call is made again, as another one.                 *)
SameCall(row, next) ==
    /\ next.kind = row.kind /\ next.again = row.again
    /\ row.step \in {"sent", "done"} => next.step \in {"sent", "done"}

RowMoves(row, next) ==
    \/ SameCall(row, next)
    \/ /\ row.step = "idle" /\ (row.again => next.again)
       /\ next.again => next.kind = "account"
    \/ row.kind = "account" /\ next.again /\ next.kind = None

(* Answering calls, dropping their senders and settling leave them what    *)
(* they are.                                                               *)
Same(all) == all \in [Calls -> CallRow] /\ AnswersAreGiven(all)
             /\ \A d \in Calls : SameCall(calls[d], all[d])

LEMMA RowChanged ==
    ASSUME NEW row \in CallRow, NEW x, NEW n
    PROVE  /\ SameCall(row, row)
           /\ SameCall(row, [row EXCEPT !.step = "done", !.answer = x])
           /\ SameCall(row, [row EXCEPT !.step = "done", !.client = n, !.answer = x])
  BY DEF CallRow, SameCall

LEMMA SameAgain ==
    ASSUME NEW a, NEW b, NEW c, SameCall(a, b), SameCall(b, c)
    PROVE  SameCall(a, c)
  BY DEF SameCall

LEMMA CallsSame == CallInv => Same(calls)
  BY RowChanged DEF CallInv, TypeOK, AnswersAreGiven, Same

LEMMA AnsweredSame ==
    ASSUME NEW all, Same(all), NEW some, NEW answer \in Answers
    PROVE  Same(Answered(all, some, answer))
  <1>1. all \in [Calls -> CallRow] /\ \A d \in Calls : SameCall(calls[d], all[d])
    BY DEF Same
  <1>2. ASSUME NEW d \in Calls PROVE SameCall(all[d], Answered(all, some, answer)[d])
    BY <1>1, RowChanged DEF Answered
  <1> QED BY <1>1, <1>2, SameAgain, AnsweredType DEF Same

LEMMA DroppedSame ==
    ASSUME NEW all, Same(all), NEW some
    PROVE  Same(Dropped(all, some))
  <1>1. all \in [Calls -> CallRow] /\ \A d \in Calls : SameCall(calls[d], all[d])
    BY DEF Same
  <1>2. ASSUME NEW d \in Calls PROVE SameCall(all[d], Dropped(all, some)[d])
    <2> DEFINE told == CASE all[d].kind = "respond" -> "notfound"
                         [] all[d].kind = "login"   -> "unknown"
                         [] OTHER                   -> "disconnected"
    <2>1. Dropped(all, some)[d] = IF d \in some
                                  THEN [all[d] EXCEPT !.step = "done", !.answer = told]
                                  ELSE all[d]
      BY DEF Dropped
    <2> HIDE DEF told
    <2>2. all[d] \in CallRow
      BY <1>1
    <2>3. /\ SameCall(all[d], all[d])
          /\ SameCall(all[d], [all[d] EXCEPT !.step = "done", !.answer = told])
      BY <2>2, RowChanged
    <2> QED BY <2>1, <2>3
  <1> QED BY <1>1, <1>2, SameAgain, DroppedType DEF Same

LEMMA ClosedSame ==
    ASSUME NEW all, Same(all), NEW left, NEW terminal, Close(all, left, terminal)
    PROVE  Same(calls')
  <1>1. all \in [Calls -> CallRow] /\ \A d \in Calls : SameCall(calls[d], all[d])
    BY DEF Same
  <1>2. ASSUME NEW d \in Calls PROVE SameCall(all[d], Settled(all)[d])
    BY <1>1, RowChanged DEF Settled
  <1>3. Same(Settled(all))
    BY <1>1, <1>2, SameAgain, SettledType DEF Same
  <1> QED BY <1>3, DroppedSame DEF Close

LEMMA SettledLoginSame ==
    ASSUME Same(calls), NEW c, NEW answer \in Answers, SettleLoginStart(c, answer)
    PROVE  Same(calls')
  BY AnsweredSame DEF SettleLoginStart

(* Every step moves the rows that way.                                     *)
LEMMA AdapterRows ==
    ASSUME CallInv, NEW c \in Calls, Adapter(c), NEW d \in Calls
    PROVE  RowMoves(calls[d], calls'[d])
  <1>1. calls \in [Calls -> CallRow] /\ calls[c] \in CallRow /\ calls[d] \in CallRow
    BY DEF CallInv, TypeOK
  <1>2. ASSUME NEW row, calls[c].again => row.again, row.again => row.kind = "account",
               calls[c].step = "idle", calls' = [calls EXCEPT ![c] = row]
        PROVE  RowMoves(calls[d], calls'[d])
    <2>1. CASE d = c
      BY <1>1, <1>2, <2>1 DEF RowMoves
    <2>2. CASE d # c
      BY <1>1, <1>2, <2>2 DEF RowMoves, SameCall
    <2> QED BY <2>1, <2>2
  <1>3. CASE UseRuntime(c) \/ StartRuntime(c)
    <2>1. PICK kind, about :
              /\ calls[c].step = "idle" /\ (calls[c].again => kind = "account")
              /\ \/ Enter(c, kind, about)
                 \/ \E answer \in {"refused", "disconnected"} :
                        calls' = [calls EXCEPT ![c] =
                            [@ EXCEPT !.kind = kind, !.about = about, !.step = "done",
                                      !.again = (kind = "account"), !.answer = answer]]
      BY <1>3 DEF UseRuntime, StartRuntime
    <2>2. CASE Enter(c, kind, about)
      <3> DEFINE row == [calls[c] EXCEPT !.kind = kind, !.about = about,
                             !.step = "ready", !.client = runtime'.started]
      <3>1. row.again = calls[c].again /\ row.kind = kind
        BY <1>1 DEF CallRow
      <3>2. calls' = [calls EXCEPT ![c] = row]
        BY <2>2 DEF Enter
      <3> HIDE DEF row
      <3> QED BY <1>2, <2>1, <3>1, <3>2
    <2>3. ASSUME NEW answer,
                 calls' = [calls EXCEPT ![c] =
                     [@ EXCEPT !.kind = kind, !.about = about, !.step = "done",
                               !.again = (kind = "account"), !.answer = answer]]
          PROVE  RowMoves(calls[d], calls'[d])
      <3> DEFINE last == (kind = "account")
                 row == [calls[c] EXCEPT !.kind = kind, !.about = about, !.step = "done",
                                         !.again = last, !.answer = answer]
      <3>1. row.again = last /\ row.kind = kind
        BY <1>1 DEF CallRow
      <3>2. calls' = [calls EXCEPT ![c] = row]
        BY <2>3
      <3> HIDE DEF row
      <3> QED BY <1>2, <2>1, <3>1, <3>2
    <2> QED BY <2>1, <2>2, <2>3
  <1>4. CASE Send(c)
    <2>1. CASE calls' = [calls EXCEPT ![c].step = "sent", ![c].client = 0]
      <3>1. calls'[d] = calls[d] \/ calls'[d] = [calls[d] EXCEPT !.step = "sent", !.client = 0]
        BY <1>1, <2>1
      <3>2. SameCall(calls[d], calls'[d])
        BY <1>1, <3>1 DEF SameCall, CallRow
      <3> QED BY <3>2 DEF RowMoves
    <2>2. ASSUME NEW answer \in Answers, calls' = Answered(calls, {c}, answer)
          PROVE  RowMoves(calls[d], calls'[d])
      BY <2>2, CallsSame, AnsweredSame DEF Same, RowMoves
    <2> QED BY <1>4, <2>1, <2>2 DEF Send, Answers
  <1>5. CASE RetryAccountRead(c)
    <2>1. CASE d = c
      BY <1>1, <1>5, <2>1 DEF RetryAccountRead, RowMoves, NewCall
    <2>2. CASE d # c
      BY <1>1, <1>5, <2>2 DEF RetryAccountRead, RowMoves, SameCall
    <2> QED BY <2>1, <2>2
  <1> QED BY <1>3, <1>4, <1>5 DEF Adapter

LEMMA CommandRows ==
    ASSUME CallInv, NEW c \in Calls, Command(c)
    PROVE  Same(calls')
  <1>1. ASSUME NEW answer \in Answers PROVE Same(Answered(calls, {c}, answer))
    BY CallsSame, AnsweredSame
  <1>2. CASE TakeRequestFails(c) \/ TakeResponseFails(c) \/ TakeLoginFails(c) \/ TakeShutdown(c)
    <2>1. PICK answer, left, terminal :
              /\ answer \in Answers
              /\ Close(Answered(calls, {c}, answer), left, terminal)
      BY <1>2, LostType DEF TakeRequestFails, TakeResponseFails, TakeLoginFails,
                  TakeShutdown, Answers
    <2> QED BY <1>1, <2>1, ClosedSame
  <1>3. CASE TakeUnknownRun(c) \/ TakeRequest(c) \/ TakeResponse(c) \/ TakeLogin(c)
    <2>1. calls' = calls \/ \E answer \in Answers : calls' = Answered(calls, {c}, answer)
      BY <1>3 DEF TakeUnknownRun, TakeRequest, TakeResponse, TakeLogin, Answers
    <2> QED BY <1>1, <2>1, CallsSame
  <1> QED BY <1>2, <1>3 DEF Command

LEMMA InboundRows ==
    ASSUME CallInv, NEW f, Inbound(f)
    PROVE  Same(calls')
  <1>1. Same(calls) /\ {"ok", "refused", "unknown"} \subseteq Answers
    BY CallsSame DEF Answers
  <1>2. ASSUME NEW c, NEW answer \in Answers
        PROVE  Same(Answered(calls, {c}, answer))
    BY <1>1, AnsweredSame
  <1>3. ASSUME NEW all, Same(all), ClearLogin(all) PROVE Same(calls')
    BY <1>3, DroppedSame DEF ClearLogin
  <1>4. CASE ReadFailure(f)
    <2>1. PICK answer \in Answers : \/ SettleLoginStart(f.call, answer)
                                   \/ calls' = Answered(calls, {f.call}, answer)
      BY <1>1, <1>4 DEF ReadFailure
    <2> QED BY <1>1, <1>2, <2>1, SettledLoginSame
  <1>5. CASE ReadResult(f)
    <2>1. \/ SettleLoginStart(f.call, "ok")
          \/ calls' = Answered(calls, {f.call}, "ok")
          \/ ClearLogin(Answered(calls, {f.call}, "ok"))
      BY <1>5 DEF ReadResult
    <2> QED BY <1>1, <1>2, <1>3, <2>1, SettledLoginSame
  <1>6. CASE ReadAccountUpdated(f)
    BY <1>1, <1>3, <1>6 DEF ReadAccountUpdated
  <1>7. CASE RejectRequestFails(f)
    BY <1>1, <1>7, ClosedSame DEF RejectRequestFails
  <1>8. CASE ReadStray(f) \/ ReadLoginCompleted(f) \/ ReadNotice(f) \/ ReadTurnCompleted(f)
                \/ ReadRequest(f) \/ RejectRequest(f)
    <2>1. calls' = calls
      BY <1>8 DEF ReadStray, ReadLoginCompleted, ReadNotice, ReadTurnCompleted,
                  ReadRequest, RejectRequest
    <2> QED BY <1>1, <2>1
  <1> QED BY <1>4, <1>5, <1>6, <1>7, <1>8 DEF Inbound

LEMMA RowsMove ==
    ASSUME CallInv, [Next]_vars, NEW d \in Calls
    PROVE  RowMoves(calls[d], calls'[d])
  <1>1. ASSUME Same(calls') PROVE RowMoves(calls[d], calls'[d])
    BY <1>1 DEF Same, RowMoves
  <1>2. CASE ReadEof \/ DropAdapter
    BY <1>1, <1>2, CallsSame, ClosedSame DEF ReadEof, DropAdapter
  <1>3. CASE Child \/ UNCHANGED vars
    <2>1. calls' = calls
      BY <1>3 DEF Child, Answer, OpenTurn, CompleteLogin, Notify, Ask, UpdateAccount,
                  AnswerNothing, Die, ChildOnly, vars
    <2> QED BY <1>1, <2>1, CallsSame
  <1> QED BY <1>1, <1>2, <1>3, AdapterRows, CommandRows, InboundRows DEF Next

-----------------------------------------------------------------------------
(* The end of the actor, as far as a login is concerned.                   *)
Ended ==
    /\ login' = NoLogin /\ frames' = <<>> /\ pending' = {}
    /\ child'.read = {} /\ child'.over = child.over /\ child'.heard = child.heard

(* A step that reads nothing and ends no login.                            *)
Unread ==
    /\ child'.read = child.read /\ child'.over = child.over
    /\ child.heard \subseteq child'.heard

LEMMA ClosedEnds ==
    ASSUME TypeOK, NEW all, NEW left, NEW terminal, Close(all, left, terminal), child' = Killed
    PROVE  Ended
  BY DEF Close, Killed, TypeOK, ChildState, Ended

LEMMA ChildMoves ==
    ASSUME TypeOK, [Next]_vars
    PROVE  \/ Ended
           \/ Unread
           \/ \E c \in Calls : Taken(c) /\ child' = Reads(c) /\ UNCHANGED <<calls, frames>>
           \/ \E c \in Calls, success \in BOOLEAN : CompleteLogin(c, success)
  <1> DEFINE Goal == \/ Ended
                     \/ Unread
                     \/ \E c \in Calls : Taken(c) /\ child' = Reads(c) /\ UNCHANGED <<calls, frames>>
                     \/ \E c \in Calls, success \in BOOLEAN : CompleteLogin(c, success)
  <1>1. child \in ChildState
    BY DEF TypeOK
  <1>2. CASE \/ child' = child \/ child' = [child EXCEPT !.up = FALSE]
             \/ child' = [child EXCEPT !.up = TRUE, !.spoken = 0]
    BY <1>1, <1>2 DEF Unread, ChildState
  <1>3. ASSUME NEW c \in Calls, Adapter(c) PROVE Goal
    BY <1>2, <1>3 DEF Adapter, UseRuntime, StartRuntime, Send, RetryAccountRead
  <1>4. ASSUME NEW c \in Calls, NEW replies,
               child' = [child EXCEPT !.heard = @ \cup {c}, !.replies = replies]
        PROVE  Unread
    BY <1>1, <1>4 DEF Unread, ChildState
  <1>5. ASSUME NEW c \in Calls, Command(c) PROVE Goal
    <2>1. CASE TakeRequestFails(c) \/ TakeResponseFails(c) \/ TakeLoginFails(c) \/ TakeShutdown(c)
      BY <2>1, ClosedEnds DEF TakeRequestFails, TakeResponseFails, TakeLoginFails, TakeShutdown
    <2>2. CASE TakeUnknownRun(c)
      BY <1>2, <2>2 DEF TakeUnknownRun
    <2>3. CASE TakeRequest(c) \/ TakeLogin(c)
      BY <1>2, <2>3 DEF TakeRequest, TakeLogin
    <2>4. CASE TakeResponse(c)
      <3> DEFINE replies == [child.replies EXCEPT ![calls[c].about] = Append(@, c)]
      <3>1. \/ child' = child
            \/ child' = [child EXCEPT !.heard = @ \cup {c}, !.replies[calls[c].about] = Append(@, c)]
        BY <2>4 DEF TakeResponse
      <3>2. [child EXCEPT !.heard = @ \cup {c}, !.replies[calls[c].about] = Append(@, c)]
                = [child EXCEPT !.heard = @ \cup {c}, !.replies = replies]
        OBVIOUS
      <3> HIDE DEF replies
      <3> QED BY <1>2, <1>4, <3>1, <3>2
    <2> QED BY <1>5, <2>1, <2>2, <2>3, <2>4 DEF Command
  <1>6. ASSUME NEW f, Inbound(f) PROVE Goal
    <2>1. CASE RejectRequestFails(f)
      BY <2>1, ClosedEnds DEF RejectRequestFails
    <2>2. CASE RejectRequest(f)
      <3>1. child' = child \/ child' = [child EXCEPT !.replies[f.request] = Append(@, None)]
        BY <2>2 DEF RejectRequest
      <3> QED BY <1>1, <1>2, <3>1 DEF Unread, ChildState
    <2>3. CASE ~RejectRequest(f) /\ ~RejectRequestFails(f)
      BY <1>2, <1>6, <2>3 DEF Inbound, ReadStray, ReadFailure, ReadResult, ReadLoginCompleted,
             ReadAccountUpdated, ReadNotice, ReadTurnCompleted, ReadRequest
    <2> QED BY <2>1, <2>2, <2>3
  <1>7. CASE ReadEof \/ DropAdapter
    BY <1>7, ClosedEnds DEF ReadEof, DropAdapter
  <1>8. CASE Child
    <2>1. ASSUME NEW c, NEW r, OpenTurn(c, r) PROVE Unread
      BY <1>1, <2>1 DEF OpenTurn, Unread, ChildState
    <2>2. ASSUME NEW r, NEW what, Notify(r, what) PROVE Unread
      BY <1>1, <2>2 DEF Notify, Unread, ChildState
    <2>3. ASSUME NEW q, NEW r, Ask(q, r) PROVE Unread
      BY <1>1, <2>3 DEF Ask, Unread, ChildState
    <2>4. ASSUME NEW valid, UpdateAccount(valid) PROVE Unread
      BY <1>1, <2>4 DEF UpdateAccount, Unread, ChildState
    <2>5. CASE AnswerNothing \/ Die \/ \E c \in Calls : Answer(c)
      BY <1>2, <2>5 DEF AnswerNothing, Die, Answer
    <2> QED BY <1>8, <2>1, <2>2, <2>3, <2>4, <2>5 DEF Child
  <1> QED BY <1>2, <1>3, <1>5, <1>6, <1>7, <1>8 DEF Next, vars

(* The logins the child knows of, and what it has said of their end.       *)
Logins == {c \in child.read \cup pending : calls[c].kind = "login"}

Coming(c) == \E i \in DOMAIN frames : frames[i].type = "login" /\ frames[i].call = c

(* A login that was read or is over was heard of; a call that is made      *)
(* again is none.                                                          *)
LoginsHeard ==
    /\ \A c \in child.read : calls[c].step \in {"idle", "ready"} => calls[c].again
    /\ \A c \in Calls : calls[c].again => calls[c].kind # "login"
    /\ \A c \in child.read : calls[c].kind = "login" => c \in child.heard
    /\ \A c \in Calls : child.over[c] => c \in child.heard

(* The child answers what it has read, and tells of logins it has read.    *)
FramesOfRead ==
    \A i \in DOMAIN frames :
        /\ frames[i].type = "response" /\ frames[i].call # None => frames[i].call \in child.read
        /\ frames[i].type = "login" => /\ frames[i].call \in child.read
                                       /\ calls[frames[i].call].kind = "login"

LoginsKnown == LoginsHeard /\ FramesOfRead

LEMMA LoginsStay ==
    ASSUME CallInv, LoginsHeard, [Next]_vars, NEW c \in child.read \cup pending
    PROVE  calls[c].kind = "login" => calls'[c].kind = "login"
  <1>1. c \in Calls /\ RowMoves(calls[c], calls'[c])
    BY RowsMove DEF CallInv, TypeOK, ChildState
  <1>2. c \in pending => calls[c].step \in {"sent", "done"}
    BY DEF CallInv, CallsInv, Written
  <1>3. calls[c].step = "idle" => calls[c].again
    BY <1>2 DEF LoginsHeard
  <1> QED BY <1>1, <1>3 DEF RowMoves, SameCall, LoginsHeard

LEMMA LoginsHeardStep ==
    ASSUME CallInv, LoginsHeard, [Next]_vars
    PROVE  LoginsHeard'
  <1>1. /\ calls \in [Calls -> CallRow] /\ child \in ChildState /\ commands \in Seq(Calls)
        /\ child.read \subseteq Calls /\ pending \subseteq Calls
        /\ TypeOK /\ CallsInv
    BY DEF CallInv, TypeOK, ChildState
  <1>2. None # "login" /\ "login" \in Mutations
    BY ActorAssumption DEF Mutations
  <1>3. ASSUME NEW c \in Calls, calls'[c].again PROVE calls'[c].kind # "login"
    <2>1. RowMoves(calls[c], calls'[c])
      BY RowsMove
    <2> QED BY <1>2, <1>3, <2>1 DEF RowMoves, SameCall, LoginsHeard
  <1>4. ASSUME NEW c \in child.read
        PROVE  /\ calls'[c].step \in {"idle", "ready"} => calls'[c].again
               /\ calls'[c].kind = "login" => c \in child.heard
    <2>1. c \in Calls /\ calls[c] \in CallRow
      BY <1>1
    <2>2. RowMoves(calls[c], calls'[c])
      BY <2>1, RowsMove
    <2> QED BY <1>2, <2>1, <2>2 DEF RowMoves, SameCall, LoginsHeard, CallRow
  <1>5. CASE Ended
    BY <1>3, <1>5 DEF LoginsHeard, Ended
  <1>6. CASE Unread
    BY <1>3, <1>4, <1>6 DEF LoginsHeard, Unread
  <1>7. ASSUME NEW c \in Calls, Taken(c), child' = Reads(c), UNCHANGED <<calls, frames>>
        PROVE  LoginsHeard'
    <2>1. c \in ToSet(commands)
      BY <1>1, <1>7, HeadOut DEF Taken, CallsInv, Queued
    <2>2. calls[c].step = "sent"
      BY <1>1, <2>1 DEF CallsInv, Queued
    <2>3. /\ child'.read = child.read \cup {c} /\ child'.over = child.over
          /\ child.heard \subseteq child'.heard
          /\ calls[c].kind \in Mutations => c \in child'.heard
      BY <1>1, <1>7 DEF Reads, ChildState
    <2> QED BY <1>2, <1>3, <1>4, <1>7, <2>2, <2>3 DEF LoginsHeard
  <1>8. ASSUME NEW c \in Calls, NEW success \in BOOLEAN, CompleteLogin(c, success)
        PROVE  LoginsHeard'
    <2>1. /\ child'.read = child.read /\ child'.heard = child.heard
          /\ \A d \in Calls \ {c} : child'.over[d] = child.over[d]
          /\ c \in child.read /\ calls[c].kind = "login"
      BY <1>1, <1>8 DEF CompleteLogin, ChildState
    <2> QED BY <1>3, <1>4, <2>1 DEF LoginsHeard
  <1> QED BY <1>1, <1>5, <1>6, <1>7, <1>8, ChildMoves

LEMMA ReadStays ==
    ASSUME TypeOK, [Next]_vars, ~Ended
    PROVE  child.read \subseteq child'.read
  <1>1. child \in ChildState
    BY DEF TypeOK
  <1>2. ASSUME NEW c, child' = Reads(c) PROVE child.read \subseteq child'.read
    BY <1>1, <1>2 DEF Reads, ChildState
  <1>3. ASSUME NEW c, NEW success, CompleteLogin(c, success) PROVE child'.read = child.read
    BY <1>1, <1>3 DEF CompleteLogin, ChildState
  <1> QED BY <1>2, <1>3, ChildMoves DEF Unread

LEMMA FramesOfReadStep ==
    ASSUME CallInv, LoginsKnown, [Next]_vars
    PROVE  FramesOfRead'
  <1>1. frames \in Seq(Frame) /\ TypeOK /\ LoginsHeard /\ FramesOfRead
    BY DEF CallInv, TypeOK, LoginsKnown
  <1>2. CASE frames' = <<>>
    BY <1>2 DEF FramesOfRead
  <1>3. ASSUME frames' # <<>>
        PROVE  /\ child.read \subseteq child'.read
               /\ \A i \in DOMAIN frames :
                     /\ frames[i].type = "response" /\ frames[i].call # None
                            => frames[i].call \in child'.read
                     /\ frames[i].type = "login" => /\ frames[i].call \in child'.read
                                                    /\ calls'[frames[i].call].kind = "login"
    <2>1. child.read \subseteq child'.read
      BY <1>1, <1>3, ReadStays DEF Ended
    <2> QED BY <1>1, <2>1, LoginsStay DEF FramesOfRead
  <1>4. CASE frames' = frames
    BY <1>2, <1>3, <1>4 DEF FramesOfRead
  <1>5. CASE frames # <<>> /\ frames' = Tail(frames)
    <2>1. \A i \in DOMAIN frames' : i + 1 \in DOMAIN frames /\ frames'[i] = frames[i + 1]
      BY <1>1, <1>5
    <2> QED BY <1>2, <1>3, <2>1 DEF FramesOfRead
  <1>6. ASSUME NEW f \in Frame, Said(f) PROVE FramesOfRead'
    <2>1. \A i \in DOMAIN frames' : (i \in DOMAIN frames /\ frames'[i] = frames[i]) \/ frames'[i] = f
      BY <1>1, <1>6 DEF Said, Says
    <2>2. frames' # <<>>
      BY <1>1, <1>6 DEF Said, Says
    <2>3. f.type = "login" => f.call \in child.read /\ calls[f.call].kind = "login"
      BY <1>6 DEF Said, CompleteLogin
    <2>4. f.type = "login" => calls'[f.call].kind = "login"
      BY <1>1, <2>3, LoginsStay
    <2> QED BY <1>3, <1>6, <2>1, <2>2, <2>3, <2>4 DEF FramesOfRead, Said
  <1> QED BY <1>1, <1>2, <1>4, <1>5, <1>6, FramesMove

-----------------------------------------------------------------------------
(* Of a login that is over and the only one the child knows of, the actor  *)
(* will hear, or it has heard while it waits for the answer to the start.  *)
EndsAreHeard ==
    /\ login.state = "pending" => login.id \in Calls
    /\ \A c \in Calls : child.over[c] /\ Logins \subseteq {c} =>
           /\ login.state = "starting" => Coming(c) \/ login.completion.id = c
           /\ login.state = "pending" /\ login.id = c => Coming(c)

(* What becomes of the login when nothing is said of it.                   *)
LoginUntold ==
    \/ login'.state \in {"none", "failed"}
    \/ /\ login'.state = login.state /\ login'.id = login.id
       /\ login'.completion = login.completion

LEMMA NoLoginUntold ==
    /\ NoLogin.state = "none"
    /\ [NoLogin EXCEPT !.state = "failed"].state = "failed"
    /\ login' = NoLogin => LoginUntold
    /\ login' = [NoLogin EXCEPT !.state = "failed"] => LoginUntold
    /\ UNCHANGED login => LoginUntold
  BY DEF NoLogin, LoginUntold

LEMMA Untold ==
    ASSUME EndsAreHeard, LoginUntold, Logins \subseteq Logins',
           \A c \in Calls : child'.over[c] => child.over[c] \/ Coming(c)',
           \A c \in Calls : Coming(c) => Coming(c)'
    PROVE  EndsAreHeard'
  BY DEF EndsAreHeard, LoginUntold

(* What is coming comes: the frame that is taken is of another kind.       *)
LEMMA StillComing ==
    ASSUME TypeOK,
           \/ frames' = frames
           \/ frames # <<>> /\ frames' = Tail(frames) /\ Head(frames).type # "login"
           \/ \E f \in Frame : Says(f),
           NEW c, Coming(c)
    PROVE  Coming(c)'
  <1>1. frames \in Seq(Frame)
    BY DEF TypeOK
  <1>2. PICK i \in DOMAIN frames : frames[i].type = "login" /\ frames[i].call = c
    BY DEF Coming
  <1>3. CASE frames' = frames
    BY <1>2, <1>3 DEF Coming
  <1>4. CASE frames # <<>> /\ frames' = Tail(frames) /\ Head(frames).type # "login"
    <2>1. i # 1
      BY <1>1, <1>2, <1>4
    <2>2. i - 1 \in DOMAIN frames' /\ frames'[i - 1] = frames[i]
      BY <1>1, <1>2, <1>4, <2>1
    <2> QED BY <1>2, <2>2 DEF Coming
  <1>5. ASSUME NEW f \in Frame, Says(f) PROVE Coming(c)'
    <2>1. i \in DOMAIN frames' /\ frames'[i] = frames[i]
      BY <1>1, <1>2, <1>5 DEF Says
    <2> QED BY <1>2, <2>1 DEF Coming
  <1> QED BY <1>3, <1>4, <1>5

LEMMA SaidComes ==
    ASSUME TypeOK, NEW f \in Frame, Says(f), f.type = "login"
    PROVE  Coming(f.call)'
  <1>1. /\ frames \in Seq(Frame) /\ frames' = Append(frames, f)
    BY DEF TypeOK, Says
  <1>2. Len(frames) + 1 \in DOMAIN frames' /\ frames'[Len(frames) + 1] = f
    BY <1>1
  <1> QED BY <1>2 DEF Coming

(* While the actor lives, the logins the child knows of become no fewer.   *)
LEMMA LoginsGrow ==
    ASSUME CallInv, LoginsKnown, [Next]_vars, ~Ended,
           \/ pending \subseteq pending'
           \/ \E f : /\ Read(f) /\ f.type = "response" /\ f.call \in pending
                     /\ pending' = pending \ {f.call}
    PROVE  Logins \subseteq Logins'
  <1>1. TypeOK /\ LoginsHeard /\ child.read \subseteq child'.read
    BY ReadStays DEF CallInv, LoginsKnown
  <1>2. ASSUME NEW f, Read(f), f.type = "response", f.call \in pending
        PROVE  f.call \in child.read
    <2>1. frames \in Seq(Frame) /\ f.call \in Calls
      BY <1>1, <1>2 DEF TypeOK
    <2>2. 1 \in DOMAIN frames /\ f = frames[1] /\ f.call # None
      BY <1>2, <2>1, ActorAssumption DEF Read
    <2> QED BY <1>2, <2>2 DEF LoginsKnown, FramesOfRead
  <1>3. pending \subseteq pending' \cup child'.read
    BY <1>1, <1>2
  <1> QED BY <1>1, <1>3, LoginsStay DEF Logins

LEMMA EndedHeard == Ended => EndsAreHeard'
  BY NoLoginUntold DEF Ended, EndsAreHeard

LEMMA CommandEnds ==
    ASSUME CallInv, LoginsKnown, EndsAreHeard, [Next]_vars, ~Ended, NEW c \in Calls, Command(c)
    PROVE  EndsAreHeard'
  <1>1. /\ TypeOK /\ child \in ChildState /\ login \in LoginState /\ commands \in Seq(Calls)
        /\ CallsInv /\ pending \subseteq Calls
    BY DEF CallInv, TypeOK
  <1>2. ~(TakeRequestFails(c) \/ TakeResponseFails(c) \/ TakeLoginFails(c) \/ TakeShutdown(c))
    BY <1>1, ClosedEnds DEF TakeRequestFails, TakeResponseFails, TakeLoginFails, TakeShutdown
  <1>3. frames' = frames /\ pending \subseteq pending'
    BY <1>2 DEF Command, TakeUnknownRun, TakeRequest, TakeResponse, TakeLogin
  <1>4. Logins \subseteq Logins' /\ \A d \in Calls : Coming(d) => Coming(d)'
    BY <1>1, <1>3, LoginsGrow, StillComing
  <1>5. child'.over = child.over
    <2>1. \A d, success : ~CompleteLogin(d, success)
      BY <1>1, <1>3 DEF CompleteLogin, Says, TypeOK
    <2>2. \A d : child' = Reads(d) => child'.over = child.over
      BY <1>1 DEF Reads, ChildState
    <2> QED BY <1>1, <2>1, <2>2, ChildMoves DEF Unread
  <1>6. CASE LoginUntold
    BY <1>4, <1>5, <1>6, Untold
  <1>7. CASE TakeUnknownRun(c) \/ TakeRequest(c) \/ TakeResponse(c)
    <2>1. UNCHANGED login
      BY <1>7 DEF TakeUnknownRun, TakeRequest, TakeResponse
    <2> QED BY <1>6, <2>1, NoLoginUntold
  <1>8. CASE TakeLogin(c)
    <2>1. CASE login.state = "starting"
      <3>1. login' = [login EXCEPT !.waiters = @ \cup {c}]
        BY <1>8, <2>1 DEF TakeLogin
      <3>2. LoginUntold
        BY <1>1, <3>1 DEF LoginUntold, LoginState
      <3> QED BY <1>6, <3>2
    <2>2. CASE login.state = "pending"
      BY <1>6, <1>8, <2>2, NoLoginUntold DEF TakeLogin
    <2>3. CASE login.state \notin {"starting", "pending"}
      <3>1. /\ login' = Starting(c) /\ pending' = pending \cup {c} /\ UNCHANGED calls
            /\ calls[c].kind = "login" /\ Taken(c)
        BY <1>8, <2>3 DEF TakeLogin
      <3>2. login'.state = "starting"
        BY <3>1 DEF Starting, NoLogin
      <3>3. c \in Logins'
        BY <3>1 DEF Logins
      <3>4. c \in ToSet(commands)
        BY <1>1, <3>1, HeadOut DEF Taken, CallsInv, Queued
      <3>5. ~child'.over[c]
        BY <1>1, <1>5, <3>4 DEF CallsInv, Queued, LoginsKnown, LoginsHeard
      <3> QED BY <3>2, <3>3, <3>5 DEF EndsAreHeard
    <2> QED BY <2>1, <2>2, <2>3
  <1> QED BY <1>2, <1>7, <1>8 DEF Command

(* A start that is answered leaves the login as what was heard of it.      *)
LEMMA StartEnds ==
    ASSUME CallInv, EndsAreHeard, NEW c \in Logins, c \in pending, login.state = "starting",
           login' = AfterStart(c), child'.over = child.over, Logins \subseteq Logins',
           \A d \in Calls : Coming(d) => Coming(d)'
    PROVE  EndsAreHeard'
  <1>1. c \in Calls
    BY DEF CallInv, TypeOK
  <1>2. CASE LoginUntold
    BY <1>2, Untold
  <1>3. CASE login' = NoLogin \/ login' = [NoLogin EXCEPT !.state = "failed"]
    BY <1>2, <1>3, NoLoginUntold
  <1>4. CASE login' = [NoLogin EXCEPT !.state = "pending", !.id = c] /\ login.completion.id # c
    <2>1. login'.state = "pending" /\ login'.id = c
      BY <1>4 DEF NoLogin
    <2>2. ASSUME child.over[c], Logins' \subseteq {c} PROVE Coming(c)'
      BY <1>1, <1>4, <2>2 DEF EndsAreHeard
    <2> QED BY <1>1, <2>1, <2>2 DEF EndsAreHeard
  <1> QED BY <1>3, <1>4 DEF AfterStart

(* The actor reads that a login is over.                                   *)
LEMMA CompletedEnds ==
    ASSUME CallInv, LoginsKnown, EndsAreHeard, NEW f, ReadLoginCompleted(f),
           Logins \subseteq Logins', child'.over = child.over
    PROVE  EndsAreHeard'
  <1>1. login \in LoginState /\ frames \in Seq(Frame) /\ Read(f) /\ f.type = "login"
    BY DEF CallInv, TypeOK, ReadLoginCompleted
  <1>2. 1 \in DOMAIN frames /\ f = frames[1] /\ f \in Frame
    BY <1>1 DEF Read
  <1>3. f.call \in Logins /\ f.call \in Calls
    BY <1>1, <1>2, FrameFields DEF LoginsKnown, FramesOfRead, Logins
  <1>4. CASE login.state = "starting"
    <2>1. login' = [login EXCEPT !.completion = [id |-> f.call, success |-> f.success]]
      BY <1>4 DEF ReadLoginCompleted
    <2>2. login'.state = "starting" /\ login'.completion.id = f.call
      BY <1>1, <1>4, <2>1 DEF LoginState
    <2> QED BY <1>3, <2>2 DEF EndsAreHeard
  <1>5. CASE login.state = "pending" /\ login.id = f.call
    <2>1. login' = NoLogin \/ login' = [NoLogin EXCEPT !.state = "failed"]
      BY <1>5 DEF ReadLoginCompleted
    <2> QED BY <2>1, NoLoginUntold DEF EndsAreHeard
  <1>6. CASE login.state # "starting" /\ ~(login.state = "pending" /\ login.id = f.call)
    <2>1. login' = login
      BY <1>6 DEF ReadLoginCompleted
    <2>2. login.state = "pending" => ~(Logins' \subseteq {login.id})
      BY <1>3, <1>6
    <2> QED BY <1>6, <2>1, <2>2 DEF EndsAreHeard
  <1> QED BY <1>4, <1>5, <1>6

LEMMA InboundEnds ==
    ASSUME CallInv, LoginsKnown, EndsAreHeard, [Next]_vars, ~Ended, NEW f, Inbound(f)
    PROVE  EndsAreHeard'
  <1>1. /\ TypeOK /\ child \in ChildState /\ login \in LoginState /\ frames \in Seq(Frame)
        /\ pending \subseteq Calls
    BY DEF CallInv, TypeOK
  <1>2. ~RejectRequestFails(f)
    BY <1>1, ClosedEnds DEF RejectRequestFails
  <1>3. Read(f) /\ frames # <<>> /\ frames' = Tail(frames) /\ f = Head(frames)
    BY <1>2 DEF Inbound, Read, ReadStray, ReadFailure, ReadResult, ReadLoginCompleted,
           ReadAccountUpdated, ReadNotice, ReadTurnCompleted, ReadRequest, RejectRequest
  <1>4. \/ pending \subseteq pending'
        \/ f.type = "response" /\ f.call \in pending /\ pending' = pending \ {f.call}
    BY <1>2 DEF Inbound, ReadStray, ReadFailure, ReadResult, ReadLoginCompleted,
           ReadAccountUpdated, ReadNotice, ReadTurnCompleted, ReadRequest, RejectRequest
  <1>5. Logins \subseteq Logins'
    BY <1>3, <1>4, LoginsGrow
  <1>6. child'.over = child.over
    <2>1. child' = child \/ child' = [child EXCEPT !.replies[f.request] = Append(@, None)]
      BY <1>2 DEF Inbound, ReadStray, ReadFailure, ReadResult, ReadLoginCompleted,
             ReadAccountUpdated, ReadNotice, ReadTurnCompleted, ReadRequest, RejectRequest
    <2> QED BY <1>1, <2>1 DEF ChildState
  <1>7. CASE f.type = "login"
    <2>1. ReadLoginCompleted(f)
      BY <1>2, <1>7 DEF Inbound, ReadStray, ReadFailure, ReadResult, ReadAccountUpdated,
             ReadNotice, ReadTurnCompleted, ReadRequest, RejectRequest
    <2> QED BY <1>5, <1>6, <2>1, CompletedEnds
  <1>8. CASE f.type # "login"
    <2>1. \A d \in Calls : Coming(d) => Coming(d)'
      BY <1>1, <1>3, <1>8, StillComing
    <2>2. ASSUME LoginUntold PROVE EndsAreHeard'
      BY <1>5, <1>6, <2>1, <2>2, Untold
    <2>3. ASSUME NEW answer, SettleLoginStart(f.call, answer), f.call \in pending,
                 calls[f.call].kind = "login"
          PROVE  EndsAreHeard'
      <3>1. CASE login' = NoLogin
        BY <2>2, <3>1, NoLoginUntold
      <3>2. CASE login.state = "starting" /\ login' = AfterStart(f.call)
        <4>1. f.call \in Logins
          BY <2>3 DEF Logins
        <4> QED BY <1>5, <1>6, <2>1, <2>3, <3>2, <4>1, StartEnds
      <3> QED BY <2>3, <3>1, <3>2 DEF SettleLoginStart
    <2>4. CASE ReadFailure(f)
      <3>1. \/ UNCHANGED login
            \/ \E answer : /\ SettleLoginStart(f.call, answer) /\ f.call \in pending
                           /\ calls[f.call].kind = "login"
        BY <2>4 DEF ReadFailure
      <3> QED BY <2>2, <2>3, <3>1, NoLoginUntold
    <2>5. CASE ReadResult(f)
      <3>1. \/ UNCHANGED login
            \/ login' = NoLogin
            \/ /\ SettleLoginStart(f.call, "ok") /\ f.call \in pending
               /\ calls[f.call].kind = "login"
        BY <2>5 DEF ReadResult, ClearLogin
      <3> QED BY <2>2, <2>3, <3>1, NoLoginUntold
    <2>6. CASE ReadAccountUpdated(f)
      <3>1. login' = NoLogin \/ login' = [login EXCEPT !.updated = TRUE]
        BY <2>6 DEF ReadAccountUpdated, ClearLogin
      <3>2. login' = [login EXCEPT !.updated = TRUE] => LoginUntold
        BY <1>1 DEF LoginUntold, LoginState
      <3> QED BY <2>2, <3>1, <3>2, NoLoginUntold
    <2>7. CASE ReadStray(f) \/ ReadNotice(f) \/ ReadTurnCompleted(f) \/ ReadRequest(f)
                 \/ RejectRequest(f)
      <3>1. UNCHANGED login
        BY <2>7 DEF ReadStray, ReadNotice, ReadTurnCompleted, ReadRequest, RejectRequest
      <3> QED BY <2>2, <3>1, NoLoginUntold
    <2> QED BY <1>2, <1>8, <2>4, <2>5, <2>6, <2>7 DEF Inbound, ReadLoginCompleted
  <1> QED BY <1>7, <1>8

LEMMA AroundEnds ==
    ASSUME CallInv, LoginsKnown, EndsAreHeard, [Next]_vars, ~Ended,
           Child \/ UNCHANGED vars \/ \E c \in Calls : Adapter(c)
    PROVE  EndsAreHeard'
  <1>1. TypeOK /\ child \in ChildState /\ frames \in Seq(Frame)
    BY DEF CallInv, TypeOK
  <1>2. UNCHANGED <<login, pending>>
    BY DEF Child, Answer, OpenTurn, CompleteLogin, Notify, Ask, UpdateAccount, AnswerNothing,
           Die, ChildOnly, Adapter, UseRuntime, StartRuntime, Send, RetryAccountRead, vars
  <1>3. frames' = frames \/ \E f \in Frame : Said(f)
    <2>1. CASE Child
      <3>1. frames' = frames \/ \E f : frames' = Append(frames, f)
        BY <2>1 DEF Child, Answer, OpenTurn, CompleteLogin, Notify, Ask, UpdateAccount,
                    AnswerNothing, Die, Says
      <3>2. frames' # <<>> \/ frames' = frames
        BY <1>1, <3>1
      <3>3. ~(frames # <<>> /\ frames' = Tail(frames)) \/ frames' = frames
        BY <1>1, <3>1
      <3> QED BY <1>1, <3>2, <3>3, FramesMove
    <2>2. CASE UNCHANGED vars \/ \E c \in Calls : Adapter(c)
      BY <2>2 DEF Adapter, UseRuntime, StartRuntime, Send, RetryAccountRead, vars
    <2> QED BY <2>1, <2>2
  <1>4. Logins \subseteq Logins'
    BY <1>2, LoginsGrow
  <1>5. \A c \in Calls : Coming(c) => Coming(c)'
    BY <1>1, <1>3, StillComing DEF Said
  <1>6. ASSUME NEW c \in Calls, child'.over[c] PROVE child.over[c] \/ Coming(c)'
    <2>1. ASSUME NEW d \in Calls, NEW success \in BOOLEAN, CompleteLogin(d, success)
          PROVE  child.over[c] \/ Coming(c)'
      <3> DEFINE f == [type |-> "login", call |-> d, success |-> success]
      <3>1. f \in Frame /\ Says(f) /\ f.type = "login" /\ f.call = d
        BY <2>1 DEF Frame, CompleteLogin
      <3> HIDE DEF f
      <3>2. Coming(d)'
        BY <1>1, <3>1, SaidComes
      <3>3. c # d => child'.over[c] = child.over[c]
        BY <1>1, <2>1 DEF CompleteLogin, ChildState
      <3> QED BY <1>6, <3>2, <3>3
    <2>2. ASSUME NEW d, child' = Reads(d) PROVE child.over[c]
      BY <1>1, <1>6, <2>2 DEF Reads, ChildState
    <2> QED BY <1>1, <1>6, <2>1, <2>2, ChildMoves DEF Unread
  <1> QED BY <1>2, <1>4, <1>5, <1>6, NoLoginUntold, Untold

LEMMA EndsHeardStep ==
    ASSUME CallInv, LoginsKnown, EndsAreHeard, [Next]_vars
    PROVE  EndsAreHeard'
  <1>1. CASE Ended
    BY <1>1, EndedHeard
  <1>2. CASE ReadEof \/ DropAdapter
    <2>1. TypeOK
      BY DEF CallInv
    <2> QED BY <1>1, <1>2, <2>1, ClosedEnds DEF ReadEof, DropAdapter
  <1> QED BY <1>1, <1>2, CommandEnds, InboundEnds, AroundEnds DEF Next

(* A login that is reported as in progress is in progress, or the child's  *)
(* word that it is over is on its way.                                     *)
THEOREM PendingLoginsAreOpen == Spec => []PendingLoginIsOpen
  <1>1. Init => CallInv /\ LoginsKnown /\ EndsAreHeard
    <2>1. Init => CallInv
      BY InitType, EmptySet DEF Init, CallInv, CallsInv, Quiet, Queued, Written, Joined,
             Placed, Heard, NewCall, NoLogin
    <2>2. Init => LoginsKnown /\ EndsAreHeard
      BY DEF Init, LoginsKnown, LoginsHeard, FramesOfRead, EndsAreHeard, NewCall, NoLogin
    <2> QED BY <2>1, <2>2
  <1>2. (CallInv /\ LoginsKnown /\ EndsAreHeard) /\ [Next]_vars
            => (CallInv /\ LoginsKnown /\ EndsAreHeard)'
    <2>1. LoginsKnown <=> LoginsHeard /\ FramesOfRead
      BY DEF LoginsKnown
    <2>2. (LoginsHeard /\ FramesOfRead)' => LoginsKnown'
      BY DEF LoginsKnown
    <2> QED BY <2>1, <2>2, CallStep, LoginsHeardStep, FramesOfReadStep, EndsHeardStep
  <1>3. CallInv /\ EndsAreHeard => PendingLoginIsOpen
    <2> SUFFICES ASSUME CallInv, EndsAreHeard, login.state = "pending",
                        \A c \in child.read \cup pending : calls[c].kind = "login" => c = login.id,
                        child.over[login.id]
                 PROVE  Coming(login.id)
      BY DEF PendingLoginIsOpen, Coming
    <2>1. login.id \in Calls /\ Logins \subseteq {login.id}
      BY DEF EndsAreHeard, Logins
    <2> QED BY <2>1 DEF EndsAreHeard
  <1> QED BY <1>1, <1>2, <1>3, PTL DEF Spec

=============================================================================
