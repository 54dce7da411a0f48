--------------------------- MODULE CodexHarnessProofs ---------------------------
(***************************************************************************)
(* Theorems about the harness of the desktop, for every set of connections,*)
(* provider states and secrets, and every number of runs, adapters and     *)
(* disturbances: what the credential generation of a connection is for, and*)
(* that no buffer of events holds more than it may.                        *)
(***************************************************************************)
EXTENDS CodexHarness, FiniteSetTheorems, TLAPS

-----------------------------------------------------------------------------
(* Induction over the numbers, stated for sets instead of predicates.      *)

(* A set of numbers that is not empty has a least one.                     *)
LEMMA LeastNumber ==
    ASSUME NEW T \in SUBSET Nat, T # {}
    PROVE  \E x \in T : \A y \in T : x <= y
  <1>1. \E x \in T : \A y \in T : ~ (<<y, x>> \in OpToRel(<, Nat))
    BY NatLessThanWellFounded, WFMin, Zenon
  <1>2. ASSUME NEW x \in T, NEW y \in T, ~ (<<y, x>> \in OpToRel(<, Nat))
        PROVE  x <= y
    BY <1>2 DEF OpToRel
  <1> QED BY <1>1, <1>2

(* A set of numbers with zero, and with every successor, has them all.     *)
LEMMA EveryNumber ==
    ASSUME NEW T \in SUBSET Nat, 0 \in T, \A n \in T : n + 1 \in T
    PROVE  T = Nat
  <1>1. SUFFICES ASSUME Nat \ T # {} PROVE FALSE
    OBVIOUS
  <1>2. PICK x \in Nat \ T : \A y \in Nat \ T : x <= y
    <2>1. Nat \ T \in SUBSET Nat
      OBVIOUS
    <2> QED BY <1>1, <2>1, LeastNumber
  <1>3. x # 0 /\ x - 1 \in Nat /\ x - 1 \notin Nat \ T
    BY <1>2
  <1> QED BY <1>2, <1>3

-----------------------------------------------------------------------------
(* Types, of what credentials depend on: the events come last.             *)

(* A turn, with any number of events told.                                 *)
AnyTurn == [state : {"none", "starting", "open", "crashing", "interrupting", "over"},
            adapter : 0..MaxAdapters, secret : Secrets \cup {None}, env : Secrets \cup {None},
            told : Nat]

Types ==
    /\ settings \in Settings
    /\ adapter \in [Adapters -> Adapter] /\ made \in 0..MaxAdapters
    /\ providers \in [Connections -> Provider]
    /\ borrowed \subseteq Adapters
    /\ start \in Start
    /\ turn \in [Runs -> AnyTurn]
    /\ registered \in [Runs -> Connections \cup {None}]

(* A start has a run and a connection, and an adapter after its first step.*)
Begun ==
    /\ ~At("idle") => start.run \in Runs /\ start.connection \in Connections
    /\ ~At("idle") /\ ~At("adapter") => start.adapter # 0

LEMMA NoneTypes ==
    /\ NoAdapter \in Adapter /\ NoProvider \in Provider /\ NoTurn \in AnyTurn
    /\ NoStart \in Start /\ 0 \in 0..MaxAdapters
  <1>1. 0 \in 0..MaxAdapters /\ 0 \in 0..MaxRuns
    BY HarnessAssumption
  <1> QED BY <1>1 DEF NoAdapter, Adapter, NoProvider, Provider, NoTurn, AnyTurn, NoStart, Start

LEMMA AdapterRange ==
    ASSUME NEW a \in 0..MaxAdapters, a # 0
    PROVE  a \in Adapters
  BY HarnessAssumption DEF Adapters

LEMMA InRange ==
    ASSUME NEW a \in Adapters
    PROVE  a \in 0..MaxAdapters /\ a # 0 /\ a \in Nat
  BY HarnessAssumption DEF Adapters

(* The adapter at hand, or a new one in its place.                         *)
LEMMA ObtainTypes ==
    ASSUME Types, NEW c \in Connections, NEW home \in Homes \cup {None}, NEW a \in Adapters,
           Obtain(c, home, a)
    PROVE  /\ adapter' \in [Adapters -> Adapter] /\ made' \in 0..MaxAdapters
           /\ providers' \in [Connections -> Provider]
  <1>1. CASE UNCHANGED <<adapter, made, providers>>
    BY <1>1 DEF Types
  <1>2. CASE /\ made < MaxAdapters /\ a = made + 1 /\ made' = a
             /\ adapter' = [adapter EXCEPT ![a] = [NoAdapter EXCEPT !.connection = c,
                                                                    !.home = home]]
             /\ providers' = [providers EXCEPT ![c] = [adapter |-> a, generation |-> None]]
    <2>1. [NoAdapter EXCEPT !.connection = c, !.home = home] \in Adapter
      BY DEF NoAdapter, Adapter
    <2>2. [adapter |-> a, generation |-> None] \in Provider
      BY InRange DEF Provider
    <2>3. made' \in 0..MaxAdapters
      BY <1>2, InRange
    <2> QED BY <1>2, <2>1, <2>2, <2>3 DEF Types
  <1> QED BY <1>1, <1>2 DEF Obtain

LEMMA WithProcessTypes ==
    ASSUME Types, NEW a, NEW env \in Secrets \cup {None}, WithProcess(a, env)
    PROVE  adapter' \in [Adapters -> Adapter]
  <1>1. CASE adapter' = adapter
    BY <1>1 DEF Types
  <1>2. CASE adapter' = [adapter EXCEPT ![a] = [@ EXCEPT !.process = "live", !.env = env]]
    <2>1. CASE a \in Adapters
      <3>1. adapter[a] \in Adapter
        BY <2>1 DEF Types
      <3>2. [adapter[a] EXCEPT !.process = "live", !.env = env] \in Adapter
        BY <3>1 DEF Adapter
      <3> QED BY <1>2, <3>2 DEF Types
    <2>2. CASE a \notin Adapters
      BY <1>2, <2>2 DEF Types
    <2> QED BY <2>1, <2>2
  <1> QED BY <1>1, <1>2 DEF WithProcess

LEMMA EndingTypes ==
    ASSUME Types, NEW a, NEW state \in {"crashing", "interrupting"}, Ending(a, state)
    PROVE  turn' \in [Runs -> AnyTurn]
  <1>1. ASSUME NEW r \in Runs PROVE [turn[r] EXCEPT !.state = state] \in AnyTurn /\ turn[r] \in AnyTurn
    <2>1. turn[r] \in AnyTurn
      BY DEF Types
    <2> QED BY <2>1 DEF AnyTurn
  <1> QED BY <1>1 DEF Ending

LEMMA ConvertTypes ==
    ASSUME Types, NEW e, Convert(e)
    PROVE  /\ providers' \in [Connections -> Provider]
           /\ registered' \in [Runs -> Connections \cup {None}]
  <1>1. \/ providers' = providers
        \/ \E c : providers' = [providers EXCEPT ![c] = NoProvider]
    BY DEF Convert
  <1>2. \/ registered' = registered
        \/ registered' = [registered EXCEPT ![e.run] = None]
    BY DEF Convert
  <1> QED BY <1>1, <1>2, NoneTypes DEF Types

(* The steps of a start keep its type.                                     *)
LEMMA StartTypes ==
    ASSUME Types, Begun,
           StartGoesOn \/ \E r \in Runs, c \in Connections : BeginStart(r, c)
    PROVE  start' \in Start /\ Begun'
  <1> DEFINE Goal == start' \in Start /\ Begun'
  <1>1. start \in Start /\ settings \in Settings /\ providers \in [Connections -> Provider]
    BY DEF Types
  <1>2. ASSUME start' = NoStart PROVE Goal
    BY <1>2, NoneTypes DEF NoStart, Begun, At
  <1>3. ASSUME NEW r \in Runs, NEW c \in Connections, BeginStart(r, c) PROVE Goal
    <2>1. /\ settings[c].home \in Homes /\ settings[c].delegated \in BOOLEAN
          /\ r \in 0..MaxRuns
      BY <1>1, HarnessAssumption DEF Settings, Runs
    <2>2. start' = [NoStart EXCEPT !.step = "adapter", !.run = r, !.connection = c,
                                   !.home = settings[c].home,
                                   !.delegated = settings[c].delegated]
      BY <1>3 DEF BeginStart
    <2> QED BY <2>1, <2>2, NoneTypes, <1>3 DEF NoStart, Start, Begun, At
  <1>4. ASSUME NEW step \in {"prepare", "check", "probe", "remove", "shutdown", "again",
                             "environment", "generation", "status", "session", "turn",
                             "register"},
               NEW a \in 0..MaxAdapters, a # 0, ~At("idle"),
               start' = [start EXCEPT !.step = step, !.adapter = a]
        PROVE  Goal
    BY <1>1, <1>4 DEF Start, Begun, At
  <1>5. ASSUME NEW step \in {"prepare", "check", "probe", "remove", "shutdown", "again",
                             "environment", "generation", "status", "session", "turn",
                             "register"},
               ~At("idle"), ~At("adapter"), start' = [start EXCEPT !.step = step]
        PROVE  Goal
    BY <1>1, <1>5 DEF Start, Begun, At
  <1>6. Prepared \in {"session", "status"}
    BY DEF Prepared
  <1>7. CASE GetAdapter
    <2>1. PICK a \in Adapters :
              start' = [start EXCEPT !.adapter = a,
                            !.step = IF start.delegated THEN Prepared ELSE "prepare"]
      BY <1>7 DEF GetAdapter
    <2>2. start' = [start EXCEPT !.step = IF start.delegated THEN Prepared ELSE "prepare",
                                 !.adapter = a]
      BY <2>1
    <2>3. ~At("idle")
      BY <1>7 DEF GetAdapter, At
    <2> QED BY <1>4, <1>6, <2>2, <2>3, InRange
  <1>8. CASE StartFails
    BY <1>2, <1>8 DEF StartFails
  <1>9. CASE ResolveSecret
    <2>1. start.connection \in Connections /\ settings[start.connection].secret \in Secrets
      BY <1>1, <1>9 DEF ResolveSecret, Begun, At, Settings
    <2> QED BY <1>1, <1>9, <2>1 DEF ResolveSecret, Start, Begun, At
  <1>10. CASE CheckGeneration
    <2>1. start.connection \in Connections /\ providers[start.connection] \in Provider
      BY <1>1, <1>10 DEF CheckGeneration, Begun, At
    <2>2. /\ providers[start.connection].adapter \in 0..MaxAdapters
          /\ providers[start.connection].adapter # 0 /\ At("check")
      BY <1>10, <2>1 DEF CheckGeneration, Provider
    <2>3. HasRuns(start.connection) \in BOOLEAN
      BY DEF HasRuns
    <2>4. \/ start' = [start EXCEPT !.step = "probe",
                                    !.adapter = providers[start.connection].adapter,
                                    !.active = HasRuns(start.connection)]
          \/ start' = NoStart
          \/ start' = [start EXCEPT !.step = "remove",
                                    !.adapter = providers[start.connection].adapter]
      BY <1>10 DEF CheckGeneration
    <2>5. CASE start' = [start EXCEPT !.step = "probe",
                                      !.adapter = providers[start.connection].adapter,
                                      !.active = HasRuns(start.connection)]
      BY <1>1, <2>1, <2>2, <2>3, <2>5 DEF Start, Begun, At
    <2>6. CASE start' = [start EXCEPT !.step = "remove",
                                      !.adapter = providers[start.connection].adapter]
      BY <1>4, <2>2, <2>6 DEF At
    <2> QED BY <1>2, <2>4, <2>5, <2>6
  <1>11. CASE ProbeEnvironment
    <2>1. /\ At("probe")
          /\ \/ start' = [start EXCEPT !.step = Prepared]
             \/ start' = NoStart
             \/ start' = [start EXCEPT !.step = "remove"]
      BY <1>11 DEF ProbeEnvironment
    <2> QED BY <1>2, <1>5, <1>6, <2>1 DEF At
  <1>12. CASE RemoveProvider
    <2> DEFINE a == IF providers[start.connection].adapter = 0 THEN start.adapter
                    ELSE providers[start.connection].adapter
    <2>1. At("remove") /\ start' = [start EXCEPT !.step = "shutdown", !.adapter = a]
      BY <1>12 DEF RemoveProvider
    <2>2. start.connection \in Connections /\ start.adapter # 0
      BY <2>1 DEF Begun, At
    <2>3. a \in 0..MaxAdapters /\ a # 0
      BY <1>1, <2>2 DEF Provider, Start
    <2> HIDE DEF a
    <2> QED BY <1>4, <2>1, <2>3 DEF At
  <1>13. CASE GetAdapterAgain
    <2>1. PICK a \in Adapters : start' = [start EXCEPT !.adapter = a, !.step = "environment"]
      BY <1>13 DEF GetAdapterAgain
    <2>2. start' = [start EXCEPT !.step = "environment", !.adapter = a]
      BY <2>1
    <2>3. ~At("idle")
      BY <1>13 DEF GetAdapterAgain, At
    <2> QED BY <1>4, <2>2, <2>3, InRange
  <1>14. CASE \/ Shutdown \/ StartWithEnvironment \/ SetGeneration \/ AccountStatus
              \/ StartSession \/ StartTurn
    <2>1. /\ ~At("idle") /\ ~At("adapter")
          /\ \E step \in {"again", "generation", Prepared, "session", "turn", "register"} :
                 start' = [start EXCEPT !.step = step]
      BY <1>14 DEF Shutdown, StartWithEnvironment, SetGeneration, AccountStatus,
             StartSession, StartTurn, Goes, At
    <2> QED BY <1>5, <1>6, <2>1
  <1>15. CASE EvictIdleAdapter
    BY <1>1, <1>15, NoneTypes DEF EvictIdleAdapter, Start, Begun, At
  <1>16. CASE RegisterRun
    BY <1>2, <1>16 DEF RegisterRun
  <1> QED BY <1>3, <1>7, <1>8, <1>9, <1>10, <1>11, <1>12, <1>13, <1>14, <1>15, <1>16
          DEF StartGoesOn, PrepareModeBRuntime

(* What a step leaves of the types but for the start.                      *)
Rest ==
    /\ settings \in Settings
    /\ adapter \in [Adapters -> Adapter] /\ made \in 0..MaxAdapters
    /\ providers \in [Connections -> Provider]
    /\ borrowed \subseteq Adapters
    /\ turn \in [Runs -> AnyTurn]
    /\ registered \in [Runs -> Connections \cup {None}]

LEMMA RestOfTypes == Types <=> Rest /\ start \in Start
  BY DEF Types, Rest

LEMMA ObtainRest ==
    ASSUME Types, NEW c \in Connections, NEW home \in Homes \cup {None}, NEW a \in Adapters,
           Obtain(c, home, a), borrowed' \in {borrowed, borrowed \cup {a}},
           settings' = settings, turn' = turn, registered' = registered
    PROVE  Rest'
  <1>1. /\ adapter' \in [Adapters -> Adapter] /\ made' \in 0..MaxAdapters
        /\ providers' \in [Connections -> Provider]
    BY ObtainTypes
  <1> QED BY <1>1 DEF Types, Rest

LEMMA WithProcessRest ==
    ASSUME Types, NEW a, NEW env \in Secrets \cup {None}, WithProcess(a, env),
           UNCHANGED <<settings, made, providers, borrowed, turn, registered>>
    PROVE  Rest'
  <1>1. adapter' \in [Adapters -> Adapter]
    BY WithProcessTypes
  <1> QED BY <1>1 DEF Types, Rest

LEMMA ConvertRest ==
    ASSUME Types, NEW e, Convert(e),
           UNCHANGED <<settings, adapter, made, borrowed, turn>>
    PROVE  Rest'
  <1>1. /\ providers' \in [Connections -> Provider]
        /\ registered' \in [Runs -> Connections \cup {None}]
    BY ConvertTypes
  <1> QED BY <1>1 DEF Types, Rest

LEMMA SameRest ==
    ASSUME Types, UNCHANGED <<settings, adapter, made, providers, borrowed, turn, registered>>
    PROVE  Rest'
  BY DEF Types, Rest

(* The steps of a start.                                                   *)
LEMMA StartRest ==
    ASSUME Types, Begun,
           StartGoesOn \/ \E r \in Runs, c \in Connections : BeginStart(r, c)
    PROVE  Rest'
  <1>1. start \in Start
    BY DEF Types
  <1>2. ASSUME ~At("idle")
        PROVE  /\ start.connection \in Connections /\ start.run \in Runs
               /\ start.home \in Homes \cup {None} /\ start.secret \in Secrets \cup {None}
               /\ None \in Secrets \cup {None}
    BY <1>1, <1>2 DEF Begun, Start
  <1>3. ASSUME NEW r \in Runs, NEW c \in Connections, BeginStart(r, c) PROVE Rest'
    <2>1. turn[r] \in AnyTurn
      BY DEF Types
    <2>2. [turn[r] EXCEPT !.state = "starting"] \in AnyTurn
      BY <2>1 DEF AnyTurn
    <2>3. turn' = [turn EXCEPT ![r] = [turn[r] EXCEPT !.state = "starting"]]
      BY <1>3 DEF BeginStart
    <2>4. turn' \in [Runs -> AnyTurn]
      BY <2>2, <2>3 DEF Types
    <2> QED BY <1>3, <2>4 DEF BeginStart, Types, adapterVars, Rest
  <1>4. CASE GetAdapter \/ GetAdapterAgain
    <2>1. /\ ~At("idle") /\ \E a \in Adapters : Obtain(start.connection, start.home, a)
          /\ UNCHANGED <<registered, borrowed, settings, turn>>
      BY <1>4 DEF GetAdapter, GetAdapterAgain, At, externalVars
    <2> QED BY <1>2, <2>1, ObtainRest
  <1>5. CASE StartFails \/ ResolveSecret \/ CheckGeneration \/ ProbeEnvironment
    BY <1>5, SameRest DEF StartFails, ResolveSecret, CheckGeneration, ProbeEnvironment,
           adapterVars, externalVars
  <1>6. CASE RemoveProvider \/ EvictIdleAdapter
    <2>1. /\ providers' = [providers EXCEPT ![start.connection] = NoProvider]
          /\ UNCHANGED <<settings, adapter, made, borrowed, turn, registered>>
      BY <1>6 DEF RemoveProvider, EvictIdleAdapter, adapterVars, externalVars
    <2>2. providers' \in [Connections -> Provider]
      BY <2>1, NoneTypes DEF Types
    <2> QED BY <2>1, <2>2 DEF Types, Rest
  <1>7. CASE SetGeneration
    <2>1. /\ \/ providers' = providers
             \/ providers' = [providers EXCEPT ![start.connection].generation = start.secret]
          /\ UNCHANGED <<settings, adapter, made, borrowed, turn, registered>>
          /\ ~At("idle")
      BY <1>7 DEF SetGeneration, adapterVars, externalVars, At
    <2>2. providers[start.connection] \in Provider
      BY <1>2, <2>1 DEF Types
    <2>3. [providers[start.connection] EXCEPT !.generation = start.secret] \in Provider
      BY <1>2, <2>1, <2>2 DEF Provider
    <2>4. providers' \in [Connections -> Provider]
      BY <2>1, <2>3 DEF Types
    <2> QED BY <2>1, <2>4 DEF Types, Rest
  <1>8. CASE Shutdown
    <2>1. /\ adapter' = [adapter EXCEPT ![start.adapter] =
                             [@ EXCEPT !.process = "none", !.env = None]]
          /\ Ending(start.adapter, "interrupting")
          /\ UNCHANGED <<settings, made, providers, borrowed, registered>>
      BY <1>8 DEF Shutdown
    <2>2. ASSUME NEW a \in Adapters
          PROVE  [adapter[a] EXCEPT !.process = "none", !.env = None] \in Adapter
      <3>1. adapter[a] \in Adapter
        BY DEF Types
      <3> QED BY <3>1 DEF Adapter
    <2>3. adapter' \in [Adapters -> Adapter]
      BY <2>1, <2>2 DEF Types
    <2>4. turn' \in [Runs -> AnyTurn]
      BY <2>1, EndingTypes
    <2> QED BY <2>1, <2>3, <2>4 DEF Types, Rest
  <1>9. CASE StartWithEnvironment
    <2>1. /\ WithProcess(start.adapter, start.secret) /\ ~At("idle")
          /\ UNCHANGED <<settings, made, providers, borrowed, turn, registered>>
      BY <1>9 DEF StartWithEnvironment, externalVars, At
    <2> QED BY <1>2, <2>1, WithProcessRest
  <1>10. CASE AccountStatus \/ StartSession
    <2>1. /\ WithProcess(start.adapter, None) /\ ~At("idle")
          /\ UNCHANGED <<settings, made, providers, borrowed, turn, registered>>
      BY <1>10 DEF AccountStatus, StartSession, externalVars, At
    <2> QED BY <1>2, <2>1, WithProcessRest
  <1>11. CASE StartTurn
    <2>1. /\ WithProcess(start.adapter, None) /\ At("turn")
          /\ turn' = [turn EXCEPT ![start.run] =
                          [turn[start.run] EXCEPT !.state = "open", !.adapter = start.adapter,
                                    !.secret = start.secret, !.env = adapter'[start.adapter].env]]
          /\ UNCHANGED <<settings, made, providers, borrowed, registered>>
      BY <1>11 DEF StartTurn
    <2>2. ~At("idle") /\ start.adapter \in Adapters
      BY <1>1, <2>1, AdapterRange DEF At, Begun, Start
    <2>3. adapter' \in [Adapters -> Adapter]
      BY <1>2, <2>1, <2>2, WithProcessTypes
    <2>4. adapter'[start.adapter].env \in Secrets \cup {None} /\ start.adapter \in 0..MaxAdapters
      BY <2>2, <2>3, InRange DEF Adapter
    <2>5. turn[start.run] \in AnyTurn
      BY <1>2, <2>2 DEF Types
    <2>6. [turn[start.run] EXCEPT !.state = "open", !.adapter = start.adapter,
                        !.secret = start.secret, !.env = adapter'[start.adapter].env] \in AnyTurn
      BY <1>2, <2>2, <2>4, <2>5 DEF AnyTurn
    <2>7. turn' \in [Runs -> AnyTurn]
      BY <2>1, <2>6 DEF Types
    <2> QED BY <2>1, <2>3, <2>7 DEF Types, Rest
  <1>12. CASE RegisterRun
    <2>1. /\ registered' = [registered EXCEPT ![start.run] = start.connection]
          /\ UNCHANGED <<settings, adapter, made, providers, borrowed, turn>> /\ ~At("idle")
      BY <1>12 DEF RegisterRun, adapterVars, externalVars, At
    <2>2. registered' \in [Runs -> Connections \cup {None}]
      BY <1>2, <2>1 DEF Types
    <2> QED BY <2>1, <2>2 DEF Types, Rest
  <1> QED BY <1>3, <1>4, <1>5, <1>6, <1>7, <1>8, <1>9, <1>10, <1>11, <1>12
          DEF StartGoesOn, PrepareModeBRuntime

LEMMA TypesStep ==
    ASSUME Types, Begun, [Next]_vars
    PROVE  Types' /\ Begun'
  <1>1. ASSUME Rest', start' = start PROVE Types' /\ Begun'
    <2>1. start' \in Start
      BY <1>1 DEF Types
    <2>2. Begun'
      BY <1>1 DEF Begun, At
    <2> QED BY <1>1, <2>1, <2>2 DEF Types, Rest
  <1>2. CASE StartGoesOn \/ \E r \in Runs, c \in Connections : BeginStart(r, c)
    <2>1. start' \in Start /\ Begun' /\ Rest'
      BY <1>2, StartTypes, StartRest
    <2> QED BY <2>1 DEF Types, Rest
  <1>3. CASE NextEvent
    <2>1. CASE PopReplay
      <3>1. /\ Convert(Head(replay)) /\ start' = start
            /\ UNCHANGED <<settings, adapter, made, borrowed, turn>>
        BY <2>1 DEF PopReplay, adapterVars, externalVars
      <3> QED BY <1>1, <3>1, ConvertRest
    <2>2. CASE Route
      <3>1. /\ start' = start /\ UNCHANGED <<settings, adapter, made, borrowed, turn>>
            /\ \/ UNCHANGED <<providers, registered>>
               \/ Convert(consumer.event)
        BY <2>2 DEF Route, adapterVars, externalVars
      <3> QED BY <1>1, <3>1, ConvertRest, SameRest
    <2>3. CASE NothingToReplay \/ LookAtPending \/ WakeUp \/ Receive
      <3>1. UNCHANGED <<start, settings, adapter, made, providers, borrowed, turn, registered>>
        BY <2>3 DEF NothingToReplay, LookAtPending, WakeUp, Receive, harnessVars,
               adapterVars, externalVars
      <3> QED BY <1>1, <3>1, SameRest
    <2> QED BY <1>3, <2>1, <2>2, <2>3 DEF NextEvent
  <1>4. ASSUME NEW c \in Connections, AccountAdapter(c) PROVE Types' /\ Begun'
    <2>1. /\ settings[c].home \in Homes \cup {None}
          /\ UNCHANGED <<start, registered, settings, turn>>
      BY <1>4 DEF AccountAdapter, Types, Settings
    <2>2. PICK a \in Adapters : Obtain(c, settings[c].home, a) /\ borrowed' = borrowed \cup {a}
      BY <1>4 DEF AccountAdapter
    <2>3. Rest'
      BY <2>1, <2>2, ObtainRest
    <2> QED BY <1>1, <2>1, <2>3
  <1>5. ASSUME NEW c \in Connections, ChangeSettings(c) PROVE Types' /\ Begun'
    <2>1. /\ settings[c].secret \in Secrets
          /\ settings[c] \in [home : Homes, delegated : BOOLEAN, secret : Secrets]
      BY DEF Types, Settings
    <2>2. UNCHANGED <<start, adapter, made, providers, borrowed, turn, registered>>
      BY <1>5 DEF ChangeSettings, harnessVars, adapterVars
    <2>3. CASE \E home \in Homes, delegated \in BOOLEAN :
                   settings' = [settings EXCEPT ![c] = [@ EXCEPT !.home = home,
                                                                 !.delegated = delegated]]
      <3>1. PICK home \in Homes, delegated \in BOOLEAN :
                   settings' = [settings EXCEPT ![c] = [settings[c] EXCEPT !.home = home,
                                                                 !.delegated = delegated]]
        BY <2>3
      <3>2. [settings[c] EXCEPT !.home = home, !.delegated = delegated]
                \in [home : Homes, delegated : BOOLEAN, secret : Secrets]
        BY <2>1
      <3>3. settings' \in Settings
        BY <3>1, <3>2 DEF Types, Settings
      <3>4. Rest'
        BY <2>2, <3>3 DEF Types, Rest
      <3> QED BY <1>1, <2>2, <3>4
    <2>4. CASE \E secret \in Secrets : settings' = [settings EXCEPT ![c].secret = secret]
      <3>1. PICK secret \in Secrets :
                settings' = [settings EXCEPT ![c] = [settings[c] EXCEPT !.secret = secret]]
        BY <2>4
      <3>2. [settings[c] EXCEPT !.secret = secret]
                \in [home : Homes, delegated : BOOLEAN, secret : Secrets]
        BY <2>1
      <3>3. settings' \in Settings
        BY <3>1, <3>2 DEF Types, Settings
      <3>4. Rest'
        BY <2>2, <3>3 DEF Types, Rest
      <3> QED BY <1>1, <2>2, <3>4
    <2> QED BY <1>5, <2>3, <2>4 DEF ChangeSettings
  <1>6. ASSUME NEW r \in Runs, NativeRun(r) PROVE Types' /\ Begun'
    <2>1. /\ registered[r] \in Connections /\ providers[registered[r]].adapter # 0
          /\ borrowed' = borrowed \cup {providers[registered[r]].adapter}
          /\ UNCHANGED <<start, settings, adapter, made, providers, turn, registered>>
      BY <1>6 DEF NativeRun, Types, harnessVars
    <2>2. providers[registered[r]].adapter \in 0..MaxAdapters
      BY <2>1 DEF Types, Provider
    <2>3. borrowed' \subseteq Adapters
      BY <2>1, <2>2, AdapterRange DEF Types
    <2>4. Rest'
      BY <2>1, <2>3 DEF Types, Rest
    <2> QED BY <1>1, <2>1, <2>4
  <1>7. ASSUME NEW r \in Runs, Emit(r) PROVE Types' /\ Begun'
    <2>1. turn[r] \in AnyTurn
      BY DEF Types
    <2>2. PICK state \in {turn[r].state, "over"} :
              turn' = [turn EXCEPT ![r].told = @ + 1, ![r].state = state]
      BY <1>7 DEF Emit
    <2> DEFINE row == [turn[r] EXCEPT !.told = turn[r].told + 1, !.state = state]
    <2>3. row \in AnyTurn
      <3>1. /\ turn[r].told + 1 \in Nat
            /\ state \in {"none", "starting", "open", "crashing", "interrupting", "over"}
        BY <2>1, <2>2 DEF AnyTurn
      <3> QED BY <2>1, <3>1 DEF AnyTurn
    <2>4. turn' \in [Runs -> AnyTurn]
      <3>1. turn' = [turn EXCEPT ![r] = row]
        BY <2>1, <2>2 DEF Types, AnyTurn
      <3> HIDE DEF row
      <3> QED BY <2>3, <3>1 DEF Types
    <2>5. UNCHANGED <<start, settings, adapter, made, providers, borrowed, registered>>
      BY <1>7 DEF Emit, harnessVars, adapterVars
    <2>6. Rest'
      BY <2>4, <2>5 DEF Types, Rest
    <2> QED BY <1>1, <2>5, <2>6
  <1>8. ASSUME NEW a \in Adapters,
               UseAdapter(a) \/ CallReturns(a) \/ ProcessDies(a) \/ DropAdapter(a)
        PROVE  Types' /\ Begun'
    <2>1. UNCHANGED <<start, settings, made, providers, registered>>
      BY <1>8 DEF UseAdapter, CallReturns, ProcessDies, DropAdapter, harnessVars, externalVars
    <2>2. CASE UseAdapter(a)
      <3>1. WithProcess(a, None) /\ None \in Secrets \cup {None}
            /\ UNCHANGED <<borrowed, turn>>
        BY <2>2 DEF UseAdapter, externalVars
      <3> QED BY <1>1, <2>1, <3>1, WithProcessRest
    <2>3. CASE CallReturns(a)
      <3>1. borrowed' \subseteq borrowed /\ UNCHANGED <<adapter, turn>>
        BY <2>3 DEF CallReturns, externalVars
      <3>2. Rest'
        BY <2>1, <3>1 DEF Types, Rest
      <3> QED BY <1>1, <2>1, <3>2
    <2>4. CASE ProcessDies(a) \/ DropAdapter(a)
      <3>1. /\ adapter' = [adapter EXCEPT ![a] = [adapter[a] EXCEPT !.process = "dead"]]
            /\ Ending(a, "crashing") \/ Ending(a, "interrupting")
            /\ borrowed' = borrowed
        BY <2>4 DEF ProcessDies, DropAdapter
      <3>2. adapter[a] \in Adapter
        BY DEF Types
      <3>3. [adapter[a] EXCEPT !.process = "dead"] \in Adapter
        BY <3>2 DEF Adapter
      <3>4. adapter' \in [Adapters -> Adapter]
        BY <3>1, <3>3 DEF Types
      <3>5. turn' \in [Runs -> AnyTurn]
        BY <3>1, EndingTypes
      <3>6. Rest'
        BY <2>1, <3>1, <3>4, <3>5 DEF Types, Rest
      <3> QED BY <1>1, <2>1, <3>6
    <2> QED BY <1>8, <2>2, <2>3, <2>4
  <1>9. CASE UNCHANGED vars
    BY <1>1, <1>9, SameRest DEF vars, harnessVars, adapterVars, externalVars
  <1> QED BY <1>2, <1>3, <1>4, <1>5, <1>6, <1>7, <1>8, <1>9 DEF Next

-----------------------------------------------------------------------------
(* The invariant.  An adapter belongs to the connection it was made for,   *)
(* and so does the one a start uses.                                       *)

Owned ==
    /\ \A a \in Adapters : a > made => adapter[a].connection = None
    /\ \A c \in Connections :
           providers[c].adapter # 0 => adapter[providers[c].adapter].connection = c

StartOwns ==
    ~At("idle") /\ start.adapter # 0 => adapter[start.adapter].connection = start.connection

(* The steps of a start that uses no secret.                               *)
Direct == {"idle", "adapter", "status", "session", "turn", "register"}

(* The steps of a start after the old provider of its connection went, and *)
(* those at which its adapter's process has its secret or none.            *)
Renewing == {"shutdown", "again", "environment", "generation"}
Using    == {"probe", "environment", "generation", "status", "session", "turn"}

(* The generation of a provider tells the secret its process may have, but *)
(* for the step that is about to set it.                                   *)
Promised(c) == IF At("generation") /\ c = start.connection THEN start.secret
                                                           ELSE providers[c].generation

GenerationsTell ==
    \A c \in Connections :
        providers[c].adapter # 0 => adapter[providers[c].adapter].env \in {None, Promised(c)}

StartKnowsSecret ==
    /\ start.delegated => start.secret = None /\ start.step \in Direct
    /\ start.step \in Renewing => providers[start.connection].generation = None
    /\ start.step \in Using /\ start.secret # None
           => adapter[start.adapter].env \in {None, start.secret}

(* A registered run works at an adapter of its connection; the run of a    *)
(* start is not registered yet; what a start is about to shut down has no  *)
(* registered run.                                                         *)
RunsKnown ==
    \A r \in Runs :
        registered[r] # None => /\ turn[r].state # "none" /\ turn[r].adapter # 0
                                /\ adapter[turn[r].adapter].connection = registered[r]

StartKnowsRuns ==
    /\ ~At("idle") => turn[start.run].state # "none" /\ registered[start.run] = None
    /\ At("register") => turn[start.run].adapter = start.adapter
    /\ At("remove") \/ At("shutdown") \/ (At("probe") /\ ~start.active)
           => ~HasRuns(start.connection)

CredentialInv ==
    /\ Owned /\ StartOwns /\ GenerationsTell /\ StartKnowsSecret
    /\ RunsKnown /\ StartKnowsRuns /\ NoRunUsesAStaleSecret

-----------------------------------------------------------------------------
(* What becomes of adapters, providers and runs.                           *)

(* An adapter keeps its connection, and a process that is replaced beside  *)
(* a start has no secret.                                                  *)
AdaptersMove ==
    \A a \in Adapters :
        adapter[a].connection # None => /\ adapter'[a].connection = adapter[a].connection
                                        /\ adapter'[a].env \in {None, adapter[a].env}

ProvidersMove ==
    \A c \in Connections :
        \/ providers'[c] \in {providers[c], NoProvider}
        \/ /\ providers'[c].adapter # 0 /\ providers'[c].generation = None
           /\ adapter'[providers'[c].adapter].env = None

TurnsMove ==
    \A r \in Runs :
        /\ turn'[r].adapter = turn[r].adapter
        /\ turn'[r].secret = turn[r].secret /\ turn'[r].env = turn[r].env
        /\ turn[r].state # "none" => turn'[r].state # "none"

RegisteredMove == \A r \in Runs : registered'[r] \in {registered[r], None}

Moves == Owned' /\ AdaptersMove /\ ProvidersMove /\ TurnsMove /\ RegisteredMove

LEMMA ProviderAdapter ==
    ASSUME Types, NEW c \in Connections, providers[c].adapter # 0
    PROVE  providers[c].adapter \in Adapters
  <1>1. providers[c].adapter \in 0..MaxAdapters
    BY DEF Types, Provider
  <1> QED BY <1>1, AdapterRange

LEMMA StartAdapter ==
    ASSUME Types, start.adapter # 0
    PROVE  start.adapter \in Adapters
  <1>1. start.adapter \in 0..MaxAdapters
    BY DEF Types, Start
  <1> QED BY <1>1, AdapterRange

(* adapter(connection).                                                    *)
LEMMA ObtainMoves ==
    ASSUME Types, Owned, NEW c \in Connections, NEW home \in Homes \cup {None},
           NEW a \in Adapters, Obtain(c, home, a)
    PROVE  /\ Owned' /\ AdaptersMove /\ ProvidersMove
           /\ adapter'[a].connection = c
           /\ providers'[c].adapter = a
           /\ providers'[c].generation \in {None, providers[c].generation}
  <1>1. CASE /\ Matches(c, home) /\ a = providers[c].adapter
             /\ UNCHANGED <<adapter, made, providers>>
    <2>1. providers[c].adapter # 0
      BY <1>1 DEF Matches
    <2> QED BY <1>1, <2>1 DEF Owned, AdaptersMove, ProvidersMove
  <1>2. CASE /\ made < MaxAdapters /\ a = made + 1 /\ made' = a
             /\ adapter' = [adapter EXCEPT ![a] = [NoAdapter EXCEPT !.connection = c,
                                                                    !.home = home]]
             /\ providers' = [providers EXCEPT ![c] = [adapter |-> a, generation |-> None]]
    <2>1. a \in Nat /\ made \in Nat /\ a > made /\ a # 0
      BY <1>2, InRange DEF Types
    <2>2. adapter[a].connection = None /\ None \notin Connections
      BY <2>1, HarnessAssumption DEF Owned
    <2> DEFINE new == [NoAdapter EXCEPT !.connection = c, !.home = home]
    <2>3. new.connection = c /\ new.env = None
      BY DEF NoAdapter
    <2>4. /\ adapter'[a] = new
          /\ \A b \in Adapters \ {a} : adapter'[b] = adapter[b]
      BY <1>2 DEF Types
    <2> HIDE DEF new
    <2>5. AdaptersMove
      BY <2>2, <2>4 DEF AdaptersMove
    <2>6. /\ providers'[c] = [adapter |-> a, generation |-> None]
          /\ \A d \in Connections \ {c} : providers'[d] = providers[d]
      BY <1>2 DEF Types
    <2>7. ProvidersMove
      BY <2>1, <2>3, <2>4, <2>6 DEF ProvidersMove
    <2>8. \A b \in Adapters : b > made' => adapter'[b].connection = None
      <3> SUFFICES ASSUME NEW b \in Adapters, b > made' PROVE adapter'[b].connection = None
        OBVIOUS
      <3>1. b \in Nat /\ b > made /\ b # a
        BY <1>2, <2>1, InRange
      <3> QED BY <2>4, <3>1 DEF Owned
    <2>9. ASSUME NEW d \in Connections, providers'[d].adapter # 0
          PROVE  adapter'[providers'[d].adapter].connection = d
      <3>1. CASE d = c
        BY <2>3, <2>4, <2>6, <3>1
      <3>2. CASE d # c
        <4>1. /\ providers'[d] = providers[d] /\ providers[d].adapter \in Adapters
              /\ adapter[providers[d].adapter].connection = d
          BY <2>6, <2>9, <3>2, ProviderAdapter DEF Owned
        <4>2. providers[d].adapter # a
          BY <2>2, <4>1
        <4> QED BY <2>4, <4>1, <4>2
      <3> QED BY <3>1, <3>2
    <2> QED BY <2>3, <2>4, <2>5, <2>6, <2>7, <2>8, <2>9 DEF Owned
  <1> QED BY <1>1, <1>2 DEF Obtain

(* The other steps make no adapter.                                        *)
LEMMA OwnedStays ==
    ASSUME Types, Owned, made' = made,
           \A a \in Adapters : adapter'[a].connection = adapter[a].connection,
           \A c \in Connections : providers'[c].adapter \in {0, providers[c].adapter}
    PROVE  Owned'
  <1>1. ASSUME NEW c \in Connections, providers'[c].adapter # 0
        PROVE  adapter'[providers'[c].adapter].connection = c
    <2>1. /\ providers'[c].adapter = providers[c].adapter
          /\ providers[c].adapter \in Adapters
          /\ adapter[providers[c].adapter].connection = c
      BY <1>1, ProviderAdapter DEF Owned
    <2> QED BY <2>1
  <1> QED BY <1>1 DEF Owned

LEMMA WithProcessMoves ==
    ASSUME Types, Owned, NEW a, NEW env, WithProcess(a, env), made' = made,
           providers' = providers
    PROVE  /\ Owned' /\ ProvidersMove
           /\ env = None => AdaptersMove
           /\ \A b \in Adapters : /\ adapter'[b].connection = adapter[b].connection
                                  /\ adapter'[b].env \in {adapter[b].env, env}
                                  /\ b # a => adapter'[b].env = adapter[b].env
           /\ a \in Adapters => \/ adapter'[a].env = env
                                \/ Live(a) /\ adapter'[a].env = adapter[a].env
  <1>1. /\ \A b \in Adapters : /\ adapter'[b].connection = adapter[b].connection
                               /\ adapter'[b].env \in {adapter[b].env, env}
                               /\ b # a => adapter'[b].env = adapter[b].env
        /\ a \in Adapters => \/ adapter'[a].env = env
                             \/ Live(a) /\ adapter'[a].env = adapter[a].env
    <2>1. CASE Live(a)
      <3>1. adapter' = adapter
        BY <2>1 DEF WithProcess
      <3> QED BY <2>1, <3>1
    <2>2. CASE ~Live(a)
      <3>1. adapter' = [adapter EXCEPT ![a] = [adapter[a] EXCEPT !.process = "live",
                                                                 !.env = env]]
        BY <2>2 DEF WithProcess
      <3>2. \A b \in Adapters : adapter[b] \in Adapter
        BY DEF Types
      <3> DEFINE new == [adapter[a] EXCEPT !.process = "live", !.env = env]
      <3>3. a \in Adapters => new.connection = adapter[a].connection /\ new.env = env
        BY <3>2 DEF Adapter
      <3> HIDE DEF new
      <3>4. /\ a \in Adapters => adapter'[a] = new
            /\ \A b \in Adapters \ {a} : adapter'[b] = adapter[b]
        BY <3>1 DEF Types, new
      <3> QED BY <3>3, <3>4
    <2> QED BY <2>1, <2>2
  <1>2. ProvidersMove
    BY DEF ProvidersMove
  <1>3. Owned'
    BY <1>1, OwnedStays
  <1>4. env = None => AdaptersMove
    BY <1>1 DEF AdaptersMove
  <1> QED BY <1>1, <1>2, <1>3, <1>4

LEMMA EndingMoves ==
    ASSUME Types, NEW a, NEW state \in {"crashing", "interrupting"}, Ending(a, state)
    PROVE  /\ TurnsMove
           /\ \A r \in Runs : turn'[r].state # turn[r].state => turn[r].adapter = a
  <1>1. ASSUME NEW r \in Runs
        PROVE  /\ turn'[r].adapter = turn[r].adapter
               /\ turn'[r].secret = turn[r].secret /\ turn'[r].env = turn[r].env
               /\ turn[r].state # "none" => turn'[r].state # "none"
               /\ turn'[r].state # turn[r].state => turn[r].adapter = a
    <2>1. turn[r] \in AnyTurn
      BY DEF Types
    <2>2. CASE turn[r].adapter = a /\ turn[r].state = "open"
      <3>1. turn'[r] = [turn[r] EXCEPT !.state = state]
        BY <2>2 DEF Ending
      <3> QED BY <2>1, <2>2, <3>1 DEF AnyTurn
    <2>3. CASE ~(turn[r].adapter = a /\ turn[r].state = "open")
      <3>1. turn'[r] = turn[r]
        BY <2>3 DEF Ending
      <3> QED BY <3>1
    <2> QED BY <2>2, <2>3
  <1> QED BY <1>1 DEF TurnsMove

LEMMA ConvertMoves ==
    ASSUME Types, Owned, NEW e, Convert(e), adapter' = adapter, made' = made
    PROVE  Owned' /\ ProvidersMove /\ RegisteredMove
  <1>1. \/ providers' = providers
        \/ \E c : providers' = [providers EXCEPT ![c] = NoProvider]
    BY DEF Convert
  <1>2. \A c \in Connections : providers'[c] \in {providers[c], NoProvider}
    BY <1>1 DEF Types
  <1>3. \/ registered' = registered
        \/ registered' = [registered EXCEPT ![e.run] = None]
    BY DEF Convert
  <1>4. RegisteredMove
    BY <1>3 DEF RegisteredMove, Types
  <1>5. Owned'
    BY <1>2, OwnedStays DEF NoProvider
  <1> QED BY <1>2, <1>4, <1>5 DEF ProvidersMove

LEMMA SameMoves ==
    /\ adapter' = adapter => AdaptersMove
    /\ providers' = providers => ProvidersMove
    /\ turn' = turn => TurnsMove
    /\ registered' = registered => RegisteredMove
    /\ Owned /\ UNCHANGED <<adapter, made, providers>> => Owned'
  BY DEF AdaptersMove, ProvidersMove, TurnsMove, RegisteredMove, Owned

(* The steps of others than the start.                                     *)
LEMMA AroundMoves ==
    ASSUME Types, Owned, [Next]_vars,
           ~StartGoesOn, ~\E r \in Runs, c \in Connections : BeginStart(r, c)
    PROVE  start' = start /\ Moves
  <1>1. CASE NextEvent
    <2>1. CASE PopReplay
      <3>1. Convert(Head(replay)) /\ UNCHANGED <<start, adapter, made, turn>>
        BY <2>1 DEF PopReplay, adapterVars, externalVars
      <3> QED BY <3>1, ConvertMoves, SameMoves DEF Moves
    <2>2. CASE Route
      <3>1. /\ UNCHANGED <<start, adapter, made, turn>>
            /\ Convert(consumer.event) \/ UNCHANGED <<providers, registered>>
        BY <2>2 DEF Route, adapterVars, externalVars
      <3> QED BY <3>1, ConvertMoves, SameMoves DEF Moves
    <2>3. CASE NothingToReplay \/ LookAtPending \/ WakeUp \/ Receive
      <3>1. UNCHANGED <<start, adapter, made, providers, turn, registered>>
        BY <2>3 DEF NothingToReplay, LookAtPending, WakeUp, Receive, harnessVars,
               adapterVars, externalVars
      <3> QED BY <3>1, SameMoves DEF Moves
    <2> QED BY <1>1, <2>1, <2>2, <2>3 DEF NextEvent
  <1>2. ASSUME NEW c \in Connections, AccountAdapter(c) PROVE start' = start /\ Moves
    <2>1. settings[c].home \in Homes \cup {None} /\ UNCHANGED <<start, registered, turn>>
      BY <1>2 DEF AccountAdapter, Types, Settings
    <2>2. PICK a \in Adapters : Obtain(c, settings[c].home, a)
      BY <1>2 DEF AccountAdapter
    <2>3. Owned' /\ AdaptersMove /\ ProvidersMove
      BY <2>1, <2>2, ObtainMoves
    <2> QED BY <2>1, <2>3, SameMoves DEF Moves
  <1>3. ASSUME NEW r \in Runs, Emit(r) PROVE start' = start /\ Moves
    <2>1. UNCHANGED <<start, adapter, made, providers, registered>>
      BY <1>3 DEF Emit, harnessVars, adapterVars
    <2>2. PICK state \in {turn[r].state, "over"} :
              turn' = [turn EXCEPT ![r].told = @ + 1, ![r].state = state]
      BY <1>3 DEF Emit
    <2>3. turn[r].state \in {"open", "crashing", "interrupting"}
      BY <1>3 DEF Emit
    <2>4. turn[r] \in AnyTurn
      BY DEF Types
    <2> DEFINE row == [turn[r] EXCEPT !.told = turn[r].told + 1, !.state = state]
    <2>5. /\ row.adapter = turn[r].adapter /\ row.secret = turn[r].secret
          /\ row.env = turn[r].env /\ row.state = state
      BY <2>4 DEF AnyTurn
    <2>6. turn' = [turn EXCEPT ![r] = row]
      BY <2>2
    <2> HIDE DEF row
    <2>7. TurnsMove
      BY <2>2, <2>3, <2>5, <2>6 DEF TurnsMove, Types
    <2> QED BY <2>1, <2>7, SameMoves DEF Moves
  <1>4. ASSUME NEW a \in Adapters, ProcessDies(a) \/ DropAdapter(a)
        PROVE  start' = start /\ Moves
    <2>1. /\ adapter' = [adapter EXCEPT ![a] = [adapter[a] EXCEPT !.process = "dead"]]
          /\ Ending(a, "crashing") \/ Ending(a, "interrupting")
          /\ UNCHANGED <<start, made, providers, registered>>
      BY <1>4 DEF ProcessDies, DropAdapter, harnessVars
    <2>2. TurnsMove
      BY <2>1, EndingMoves
    <2>3. ASSUME NEW b \in Adapters
          PROVE  adapter'[b].connection = adapter[b].connection /\ adapter'[b].env = adapter[b].env
      <3>1. adapter[b] \in Adapter
        BY DEF Types
      <3> QED BY <2>1, <3>1 DEF Types, Adapter
    <2>4. AdaptersMove
      BY <2>3 DEF AdaptersMove
    <2>5. Owned'
      BY <2>1, <2>3, OwnedStays
    <2> QED BY <2>1, <2>2, <2>4, <2>5, SameMoves DEF Moves
  <1>5. ASSUME NEW a \in Adapters, UseAdapter(a) \/ CallReturns(a)
        PROVE  start' = start /\ Moves
    <2>1. /\ UNCHANGED <<start, made, providers, turn, registered>>
          /\ WithProcess(a, None) \/ adapter' = adapter
      BY <1>5 DEF UseAdapter, CallReturns, harnessVars, externalVars
    <2> QED BY <2>1, WithProcessMoves, SameMoves DEF Moves
  <1>6. CASE \/ \E c \in Connections : ChangeSettings(c)
             \/ \E r \in Runs : NativeRun(r)
             \/ UNCHANGED vars
    <2>1. UNCHANGED <<start, adapter, made, providers, turn, registered>>
      BY <1>6 DEF ChangeSettings, NativeRun, vars, harnessVars, adapterVars, externalVars
    <2> QED BY <2>1, SameMoves DEF Moves
  <1> QED BY <1>1, <1>2, <1>3, <1>4, <1>5, <1>6 DEF Next

(* What the moves keep, whatever the start does.                           *)
LEMMA MovesKeep ==
    ASSUME Types, Begun, CredentialInv, Moves
    PROVE  /\ RunsKnown'
           /\ NoRunUsesAStaleSecret'
           /\ \A a \in Adapters, c \in Connections :
                  adapter[a].connection = c => /\ adapter'[a].connection = c
                                               /\ adapter'[a].env \in {None, adapter[a].env}
           /\ \A c \in Connections :
                  /\ ~HasRuns(c) => ~HasRuns(c)'
                  /\ providers[c].generation = None => providers'[c].generation = None
                  /\ ~(At("generation") /\ c = start.connection) /\ providers'[c].adapter # 0
                         => adapter'[providers'[c].adapter].env
                                \in {None, providers'[c].generation}
                  /\ providers'[c].adapter # 0
                         => adapter'[providers'[c].adapter].env \in {None, Promised(c)}
  <1>1. ASSUME NEW a \in Adapters, NEW c \in Connections, adapter[a].connection = c
        PROVE  adapter'[a].connection = c /\ adapter'[a].env \in {None, adapter[a].env}
    <2>1. adapter[a].connection # None
      BY <1>1, HarnessAssumption
    <2> QED BY <1>1, <2>1 DEF Moves, AdaptersMove
  <1>2. ASSUME NEW r \in Runs, registered'[r] # None
        PROVE  /\ turn'[r].state # "none" /\ turn'[r].adapter # 0
               /\ adapter'[turn'[r].adapter].connection = registered'[r]
    <2>1. registered'[r] = registered[r] /\ registered[r] \in Connections
      BY <1>2 DEF Moves, RegisteredMove, Types
    <2>2. /\ turn[r].state # "none" /\ turn[r].adapter # 0
          /\ adapter[turn[r].adapter].connection = registered[r]
      BY <1>2, <2>1 DEF CredentialInv, RunsKnown
    <2>3. turn[r].adapter \in 0..MaxAdapters
      BY DEF Types, AnyTurn
    <2>4. turn[r].adapter \in Adapters
      BY <2>2, <2>3, AdapterRange
    <2>5. adapter'[turn[r].adapter].connection = registered[r]
      BY <1>1, <2>1, <2>2, <2>4
    <2> QED BY <2>1, <2>2, <2>5 DEF Moves, TurnsMove
  <1>3. RunsKnown'
    BY <1>2 DEF RunsKnown
  <1>4. NoRunUsesAStaleSecret'
    BY DEF CredentialInv, NoRunUsesAStaleSecret, Moves, TurnsMove
  <1>5. ASSUME NEW c \in Connections, ~HasRuns(c)
        PROVE  ~HasRuns(c)'
    <2>1. c # None
      BY HarnessAssumption
    <2> QED BY <1>5, <2>1 DEF HasRuns, Moves, RegisteredMove
  <1>6. ASSUME NEW c \in Connections, providers[c].generation = None
        PROVE  providers'[c].generation = None
    BY <1>6 DEF Moves, ProvidersMove, NoProvider
  <1>7. ASSUME NEW c \in Connections, providers'[c].adapter # 0
        PROVE  \/ adapter'[providers'[c].adapter].env = None
               \/ /\ providers'[c] = providers[c]
                  /\ adapter'[providers'[c].adapter].env = adapter[providers[c].adapter].env
                  /\ adapter[providers[c].adapter].env \in {None, Promised(c)}
    <2>1. CASE providers'[c] = providers[c]
      <3>1. /\ providers[c].adapter \in Adapters
            /\ adapter[providers[c].adapter].connection = c
            /\ adapter[providers[c].adapter].env \in {None, Promised(c)}
        BY <1>7, <2>1, ProviderAdapter DEF CredentialInv, Owned, GenerationsTell
      <3>2. adapter'[providers[c].adapter].env \in {None, adapter[providers[c].adapter].env}
        BY <1>1, <3>1
      <3> QED BY <2>1, <3>1, <3>2
    <2> QED BY <1>7, <2>1 DEF Moves, ProvidersMove, NoProvider
  <1>8. ASSUME NEW c \in Connections, providers'[c].adapter # 0,
               ~(At("generation") /\ c = start.connection)
        PROVE  adapter'[providers'[c].adapter].env \in {None, providers'[c].generation}
    BY <1>7, <1>8 DEF Promised
  <1> QED BY <1>1, <1>3, <1>4, <1>5, <1>6, <1>7, <1>8

(* A step of others keeps the invariant.                                   *)
LEMMA AroundKeeps ==
    ASSUME Types, Begun, CredentialInv, Moves, start' = start
    PROVE  CredentialInv'
  <1>1. RunsKnown' /\ NoRunUsesAStaleSecret' /\ Owned'
    BY MovesKeep DEF Moves
  <1>2. ~At("idle") /\ start.adapter # 0
            => /\ start.adapter \in Adapters
               /\ adapter[start.adapter].connection = start.connection
    BY StartAdapter DEF CredentialInv, StartOwns
  <1>3. ~At("idle") => start.connection \in Connections /\ start.run \in Runs
    BY DEF Begun
  <1>4. At("idle") \/ At("adapter") \/ start.adapter # 0
    BY DEF Begun
  <1>5. ASSUME ~At("idle"), start.adapter # 0
        PROVE  /\ adapter'[start.adapter].connection = start.connection
               /\ adapter'[start.adapter].env \in {None, adapter[start.adapter].env}
    BY <1>2, <1>3, <1>5, MovesKeep
  <1>6. GenerationsTell'
    <2>1. ASSUME NEW c \in Connections, providers'[c].adapter # 0
          PROVE  adapter'[providers'[c].adapter].env \in {None, Promised(c)'}
      <3>1. CASE At("generation") /\ c = start.connection
        <4>1. Promised(c)' = Promised(c)
          BY <3>1 DEF Promised, At
        <4> QED BY <2>1, <4>1, MovesKeep
      <3>2. CASE ~(At("generation") /\ c = start.connection)
        <4>1. Promised(c)' = providers'[c].generation
          BY <3>2 DEF Promised, At
        <4> QED BY <2>1, <3>2, <4>1, MovesKeep
      <3> QED BY <3>1, <3>2
    <2> QED BY <2>1 DEF GenerationsTell
  <1>7. StartOwns'
    BY <1>5 DEF StartOwns, At
  <1>8. StartKnowsSecret'
    <2>1. start.delegated => start.secret = None /\ start.step \in Direct
      BY DEF CredentialInv, StartKnowsSecret
    <2>2. ASSUME start.step \in Renewing PROVE providers'[start.connection].generation = None
      <3>1. ~At("idle")
        BY <2>2 DEF At, Renewing
      <3>2. providers[start.connection].generation = None
        BY <2>2 DEF CredentialInv, StartKnowsSecret
      <3> QED BY <1>3, <3>1, <3>2, MovesKeep
    <2>3. ASSUME start.step \in Using, start.secret # None
          PROVE  adapter'[start.adapter].env \in {None, start.secret}
      <3>1. ~At("idle") /\ ~At("adapter")
        BY <2>3 DEF At, Using
      <3>2. adapter[start.adapter].env \in {None, start.secret}
        BY <2>3 DEF CredentialInv, StartKnowsSecret
      <3> QED BY <1>4, <1>5, <3>1, <3>2
    <2> QED BY <2>1, <2>2, <2>3 DEF StartKnowsSecret
  <1>9. StartKnowsRuns'
    <2>1. ASSUME ~At("idle")
          PROVE  turn'[start.run].state # "none" /\ registered'[start.run] = None
      BY <1>3, <2>1 DEF CredentialInv, StartKnowsRuns, Moves, TurnsMove, RegisteredMove
    <2>2. ASSUME At("register") PROVE turn'[start.run].adapter = start.adapter
      <3>1. ~At("idle")
        BY <2>2 DEF At
      <3> QED BY <1>3, <2>2, <3>1 DEF CredentialInv, StartKnowsRuns, Moves, TurnsMove
    <2>3. ASSUME At("remove") \/ At("shutdown") \/ (At("probe") /\ ~start.active)
          PROVE  ~HasRuns(start.connection)'
      <3>1. ~HasRuns(start.connection) /\ start.connection \in Connections
        BY <1>3, <2>3 DEF CredentialInv, StartKnowsRuns, At
      <3> DEFINE c == start.connection
      <3>2. ~HasRuns(c)'
        BY <3>1, MovesKeep
      <3> QED BY <3>2
    <2> QED BY <2>1, <2>2, <2>3 DEF StartKnowsRuns, At
  <1> QED BY <1>1, <1>6, <1>7, <1>8, <1>9 DEF CredentialInv

-----------------------------------------------------------------------------
(* The steps of a start.                                                   *)

(* A step that moves nothing but what the others may, and is not about the *)
(* generation.                                                             *)
LEMMA GoesOnKeeps ==
    ASSUME Types, Begun, CredentialInv, Moves, ~At("generation"), start'.step # "generation",
           StartOwns', StartKnowsSecret', StartKnowsRuns'
    PROVE  CredentialInv'
  <1>1. RunsKnown' /\ NoRunUsesAStaleSecret' /\ Owned'
    BY MovesKeep DEF Moves
  <1>2. ASSUME NEW c \in Connections, providers'[c].adapter # 0
        PROVE  adapter'[providers'[c].adapter].env \in {None, Promised(c)'}
    <2>1. Promised(c)' = providers'[c].generation
      BY DEF Promised, At
    <2> QED BY <1>2, <2>1, MovesKeep
  <1>3. GenerationsTell'
    BY <1>2 DEF GenerationsTell
  <1> QED BY <1>1, <1>3 DEF CredentialInv

LEMMA EndKeeps ==
    ASSUME Types, Begun, CredentialInv, Moves, ~At("generation"), start' = NoStart
    PROVE  CredentialInv'
  <1>1. start'.step = "idle" /\ start'.adapter = 0 /\ ~start'.delegated /\ start'.secret = None
    BY DEF NoStart
  <1>2. StartOwns' /\ StartKnowsSecret' /\ StartKnowsRuns'
    BY <1>1 DEF StartOwns, StartKnowsSecret, StartKnowsRuns, At, Renewing, Using
  <1> QED BY <1>1, <1>2, GoesOnKeeps

(* What a start that is under way knows.                                   *)
LEMMA UnderWay ==
    ASSUME Types, Begun, CredentialInv, ~At("idle")
    PROVE  /\ start.connection \in Connections /\ start.run \in Runs
           /\ start \in Start
           /\ turn[start.run].state # "none" /\ registered[start.run] = None
           /\ ~At("adapter") => /\ start.adapter \in Adapters /\ start.adapter # 0
                                /\ adapter[start.adapter].connection = start.connection
  BY StartAdapter DEF Types, Begun, CredentialInv, StartOwns, StartKnowsRuns

(* A step of a start that keeps its run and connection, if what it says of *)
(* the adapter, the secret and the runs holds.                             *)
LEMMA StepKeeps ==
    ASSUME Types, Begun, CredentialInv, Moves, ~At("idle"), ~At("generation"),
           start'.step \notin {"generation", "register"},
           start'.run = start.run, start'.connection = start.connection,
           start'.delegated = start.delegated,
           start'.adapter # 0 => adapter'[start'.adapter].connection = start.connection,
           start'.delegated => start'.secret = None /\ start'.step \in Direct,
           start'.step \in Renewing => providers'[start.connection].generation = None,
           start'.step \in Using /\ start'.secret # None
               => adapter'[start'.adapter].env \in {None, start'.secret},
           start'.step \in {"remove", "shutdown"} \/ (start'.step = "probe" /\ ~start'.active)
               => ~HasRuns(start.connection)
    PROVE  CredentialInv'
  <1>1. /\ start.connection \in Connections /\ start.run \in Runs
        /\ turn[start.run].state # "none" /\ registered[start.run] = None
    BY UnderWay
  <1>2. StartOwns'
    BY DEF StartOwns
  <1>3. StartKnowsSecret'
    BY DEF StartKnowsSecret
  <1>4. turn'[start.run].state # "none" /\ registered'[start.run] = None
    BY <1>1 DEF Moves, TurnsMove, RegisteredMove
  <1>5. ~HasRuns(start.connection) => ~HasRuns(start.connection)'
    <2>1. ASSUME NEW c \in Connections, c = start.connection, ~HasRuns(c)
          PROVE  ~\E r \in Runs : registered'[r] = c
      BY <2>1, MovesKeep DEF HasRuns
    <2>2. ~HasRuns(start.connection) => ~\E r \in Runs : registered'[r] = start.connection
      BY <1>1, <2>1
    <2> QED BY <2>2 DEF HasRuns
  <1>6. StartKnowsRuns'
    BY <1>4, <1>5 DEF StartKnowsRuns, At
  <1> QED BY <1>2, <1>3, <1>6, GoesOnKeeps

LEMMA BeginKeeps ==
    ASSUME Types, Begun, CredentialInv, NEW r \in Runs, NEW c \in Connections, BeginStart(r, c)
    PROVE  CredentialInv'
  <1>1. /\ turn' = [turn EXCEPT ![r] = [turn[r] EXCEPT !.state = "starting"]]
        /\ turn[r].state = "none" /\ At("idle")
        /\ UNCHANGED <<adapter, made, providers, registered>>
    BY DEF BeginStart, adapterVars
  <1>2. start' = [NoStart EXCEPT !.step = "adapter", !.run = r, !.connection = c,
                                 !.home = settings[c].home,
                                 !.delegated = settings[c].delegated]
    BY DEF BeginStart
  <1>3. /\ start'.step = "adapter" /\ start'.run = r /\ start'.adapter = 0
        /\ start'.secret = None
    BY <1>2 DEF NoStart
  <1>4. \A q \in Runs : turn[q] \in AnyTurn
    BY DEF Types
  <1> DEFINE row == [turn[r] EXCEPT !.state = "starting"]
  <1>5. /\ row.adapter = turn[r].adapter /\ row.secret = turn[r].secret
        /\ row.env = turn[r].env /\ row.state = "starting"
    BY <1>4 DEF AnyTurn
  <1>6. turn' = [turn EXCEPT ![r] = row]
    BY <1>1
  <1> HIDE DEF row
  <1>7. turn'[r] = row /\ \A q \in Runs \ {r} : turn'[q] = turn[q]
    BY <1>6 DEF Types
  <1>8. TurnsMove
    BY <1>5, <1>7 DEF TurnsMove
  <1>9. Moves
    BY <1>1, <1>8, SameMoves DEF Moves, CredentialInv
  <1>10. registered'[r] = None
    BY <1>1 DEF CredentialInv, RunsKnown
  <1>11. StartOwns' /\ StartKnowsSecret'
    BY <1>3 DEF StartOwns, StartKnowsSecret, Direct, Renewing, Using
  <1>12. StartKnowsRuns'
    BY <1>3, <1>5, <1>7, <1>10 DEF StartKnowsRuns, At
  <1> QED BY <1>1, <1>3, <1>9, <1>11, <1>12, GoesOnKeeps DEF At

LEMMA GetAdapterKeeps ==
    ASSUME Types, Begun, CredentialInv, GetAdapter
    PROVE  CredentialInv'
  <1>1. At("adapter") /\ UNCHANGED <<registered, turn>>
    BY DEF GetAdapter, externalVars
  <1>2. PICK a \in Adapters :
            /\ Obtain(start.connection, start.home, a)
            /\ start' = [start EXCEPT !.adapter = a,
                             !.step = IF start.delegated THEN Prepared ELSE "prepare"]
    BY DEF GetAdapter
  <1>3. /\ start \in Start /\ start.connection \in Connections
        /\ start.home \in Homes \cup {None} /\ ~At("idle") /\ ~At("generation")
    BY <1>1, UnderWay DEF At, Start
  <1>4. Prepared \in {"session", "status"}
    BY DEF Prepared
  <1>5. /\ start'.step = IF start.delegated THEN Prepared ELSE "prepare"
        /\ start'.adapter = a /\ start'.run = start.run
        /\ start'.connection = start.connection /\ start'.delegated = start.delegated
        /\ start'.secret = start.secret
    BY <1>2, <1>3 DEF Start
  <1>6. Owned' /\ AdaptersMove /\ ProvidersMove /\ adapter'[a].connection = start.connection
    BY <1>2, <1>3, ObtainMoves DEF CredentialInv
  <1>7. Moves
    BY <1>1, <1>6, SameMoves DEF Moves
  <1>8. start.delegated => start.secret = None
    BY DEF CredentialInv, StartKnowsSecret
  <1>9. CASE start.delegated
    BY <1>3, <1>4, <1>5, <1>6, <1>7, <1>8, <1>9, StepKeeps DEF Direct, Renewing, Using
  <1>10. CASE ~start.delegated
    BY <1>3, <1>5, <1>6, <1>7, <1>10, StepKeeps DEF Direct, Renewing, Using
  <1> QED BY <1>9, <1>10

LEMMA StartFailsKeeps ==
    ASSUME Types, Begun, CredentialInv, StartFails
    PROVE  CredentialInv'
  <1>1. /\ start' = NoStart /\ UNCHANGED <<adapter, made, providers, registered, turn>>
        /\ ~At("generation")
    BY DEF StartFails, adapterVars, At
  <1>2. Moves
    BY <1>1, SameMoves DEF Moves, CredentialInv
  <1> QED BY <1>1, <1>2, EndKeeps

(* Only a start with a secret gets there.                                  *)
LEMMA NotDirect ==
    ASSUME CredentialInv, start.step \notin Direct
    PROVE  ~start.delegated
  BY DEF CredentialInv, StartKnowsSecret

LEMMA ResolveSecretKeeps ==
    ASSUME Types, Begun, CredentialInv, ResolveSecret
    PROVE  CredentialInv'
  <1>1. /\ At("prepare") /\ UNCHANGED <<adapter, made, providers, registered, turn>>
        /\ start' = [start EXCEPT !.step = "check",
                                  !.secret = settings[start.connection].secret]
    BY DEF ResolveSecret, adapterVars, externalVars
  <1>2. ~At("idle") /\ ~At("adapter") /\ ~At("generation") /\ start.step \notin Direct
    BY <1>1 DEF At, Direct
  <1>3. /\ start'.step = "check" /\ start'.adapter = start.adapter /\ start'.run = start.run
        /\ start'.connection = start.connection /\ start'.delegated = start.delegated
    BY <1>1 DEF Types, Start
  <1>4. Moves
    BY <1>1, SameMoves DEF Moves, CredentialInv
  <1>5. ~start.delegated
    BY <1>2, NotDirect
  <1>6. adapter'[start.adapter].connection = start.connection
    BY <1>1, <1>2, UnderWay
  <1> QED BY <1>2, <1>3, <1>4, <1>5, <1>6, StepKeeps DEF Renewing, Using

LEMMA CheckGenerationKeeps ==
    ASSUME Types, Begun, CredentialInv, CheckGeneration
    PROVE  CredentialInv'
  <1> DEFINE c == start.connection
             a == providers[c].adapter
  <1>1. /\ At("check") /\ a # 0 /\ UNCHANGED <<adapter, made, providers, registered, turn>>
    BY DEF CheckGeneration, adapterVars, externalVars
  <1>2. ~At("idle") /\ ~At("adapter") /\ ~At("generation") /\ start.step \notin Direct
    BY <1>1 DEF At, Direct
  <1>3. Moves
    BY <1>1, SameMoves DEF Moves, CredentialInv
  <1>4. c \in Connections /\ start \in Start /\ ~start.delegated
    BY <1>2, UnderWay, NotDirect
  <1>5. /\ adapter[a].connection = c
        /\ adapter[a].env \in {None, providers[c].generation}
    BY <1>1, <1>2, <1>4 DEF CredentialInv, Owned, GenerationsTell, Promised
  <1>6. \/ /\ providers[c].generation = start.secret
           /\ start' = [start EXCEPT !.step = "probe", !.adapter = a, !.active = HasRuns(c)]
        \/ start' = NoStart
        \/ /\ ~HasRuns(c)
           /\ start' = [start EXCEPT !.step = "remove", !.adapter = a]
    BY DEF CheckGeneration
  <1>7. CASE /\ providers[c].generation = start.secret
             /\ start' = [start EXCEPT !.step = "probe", !.adapter = a, !.active = HasRuns(c)]
    <2>1. /\ start'.step = "probe" /\ start'.adapter = a /\ start'.run = start.run
          /\ start'.connection = c /\ start'.delegated = start.delegated
          /\ start'.secret = start.secret /\ start'.active = HasRuns(c)
      BY <1>4, <1>7 DEF Start
    <2> QED BY <1>1, <1>2, <1>3, <1>4, <1>5, <1>7, <2>1, StepKeeps DEF Renewing
  <1>8. CASE /\ ~HasRuns(c)
             /\ start' = [start EXCEPT !.step = "remove", !.adapter = a]
    <2>1. /\ start'.step = "remove" /\ start'.adapter = a /\ start'.run = start.run
          /\ start'.connection = c /\ start'.delegated = start.delegated
          /\ start'.secret = start.secret
      BY <1>4, <1>8 DEF Start
    <2> QED BY <1>1, <1>2, <1>3, <1>4, <1>5, <1>8, <2>1, StepKeeps DEF Renewing, Using
  <1> QED BY <1>2, <1>3, <1>6, <1>7, <1>8, EndKeeps

LEMMA ProbeEnvironmentKeeps ==
    ASSUME Types, Begun, CredentialInv, ProbeEnvironment
    PROVE  CredentialInv'
  <1>1. At("probe") /\ UNCHANGED <<adapter, made, providers, registered, turn>>
    BY DEF ProbeEnvironment, adapterVars, externalVars
  <1>2. ~At("idle") /\ ~At("adapter") /\ ~At("generation") /\ start.step \notin Direct
    BY <1>1 DEF At, Direct
  <1>3. Moves
    BY <1>1, SameMoves DEF Moves, CredentialInv
  <1>4. /\ start \in Start /\ ~start.delegated
        /\ adapter'[start.adapter].connection = start.connection
    BY <1>1, <1>2, UnderWay, NotDirect
  <1>5. start.secret # None => adapter[start.adapter].env \in {None, start.secret}
    BY <1>1 DEF CredentialInv, StartKnowsSecret, Using, At
  <1>6. \/ start' = [start EXCEPT !.step = Prepared]
        \/ start' = NoStart
        \/ ~start.active /\ start' = [start EXCEPT !.step = "remove"]
    BY DEF ProbeEnvironment
  <1>7. Prepared \in {"session", "status"}
    BY DEF Prepared
  <1>8. ASSUME NEW step \in {"session", "status", "remove"},
               start' = [start EXCEPT !.step = step]
        PROVE  /\ start'.step = step /\ start'.adapter = start.adapter
               /\ start'.run = start.run /\ start'.connection = start.connection
               /\ start'.delegated = start.delegated /\ start'.secret = start.secret
    BY <1>4, <1>8 DEF Start
  <1>9. CASE start' = [start EXCEPT !.step = Prepared]
    BY <1>1, <1>2, <1>3, <1>4, <1>5, <1>7, <1>8, <1>9, StepKeeps DEF Renewing
  <1>10. CASE ~start.active /\ start' = [start EXCEPT !.step = "remove"]
    <2>1. ~HasRuns(start.connection)
      BY <1>1, <1>10 DEF CredentialInv, StartKnowsRuns
    <2> QED BY <1>2, <1>3, <1>4, <1>8, <1>10, <2>1, StepKeeps DEF Renewing, Using
  <1> QED BY <1>2, <1>3, <1>6, <1>9, <1>10, EndKeeps

(* A provider that is taken away.                                          *)
LEMMA RemovalMoves ==
    ASSUME Types, CredentialInv, NEW c,
           providers' = [providers EXCEPT ![c] = NoProvider],
           UNCHANGED <<adapter, made, registered, turn>>
    PROVE  Moves /\ (c \in Connections => providers'[c].generation = None)
  <1>1. \A d \in Connections : providers'[d] \in {providers[d], NoProvider}
    BY DEF Types
  <1>2. Owned'
    BY <1>1, OwnedStays DEF CredentialInv, NoProvider
  <1>3. ProvidersMove
    BY <1>1 DEF ProvidersMove
  <1>4. c \in Connections => providers'[c].generation = None
    BY DEF Types, NoProvider
  <1> QED BY <1>2, <1>3, <1>4, SameMoves DEF Moves

LEMMA RemoveProviderKeeps ==
    ASSUME Types, Begun, CredentialInv, RemoveProvider
    PROVE  CredentialInv'
  <1> DEFINE c == start.connection
             a == IF providers[c].adapter = 0 THEN start.adapter ELSE providers[c].adapter
  <1>1. /\ At("remove") /\ UNCHANGED <<adapter, made, registered, turn>>
        /\ providers' = [providers EXCEPT ![c] = NoProvider]
        /\ start' = [start EXCEPT !.step = "shutdown", !.adapter = a]
    BY DEF RemoveProvider, adapterVars, externalVars
  <1>2. ~At("idle") /\ ~At("adapter") /\ ~At("generation") /\ start.step \notin Direct
    BY <1>1 DEF At, Direct
  <1>3. c \in Connections /\ start \in Start /\ ~start.delegated
    BY <1>2, UnderWay, NotDirect
  <1>4. Moves /\ providers'[c].generation = None
    BY <1>1, <1>3, RemovalMoves
  <1>5. adapter[a].connection = c
    BY <1>2, <1>3, UnderWay DEF CredentialInv, Owned
  <1>6. ~HasRuns(c)
    BY <1>1 DEF CredentialInv, StartKnowsRuns
  <1> HIDE DEF a
  <1>7. /\ start'.step = "shutdown" /\ start'.adapter = a /\ start'.run = start.run
        /\ start'.connection = c /\ start'.delegated = start.delegated
    BY <1>1, <1>3 DEF Start
  <1> QED BY <1>1, <1>2, <1>3, <1>4, <1>5, <1>6, <1>7, StepKeeps DEF Using

LEMMA ShutdownKeeps ==
    ASSUME Types, Begun, CredentialInv, Shutdown
    PROVE  CredentialInv'
  <1>1. /\ At("shutdown") /\ UNCHANGED <<made, providers, registered>>
        /\ adapter' = [adapter EXCEPT ![start.adapter] =
                           [adapter[start.adapter] EXCEPT !.process = "none", !.env = None]]
        /\ Ending(start.adapter, "interrupting")
        /\ start' = [start EXCEPT !.step = "again"]
    BY DEF Shutdown, Goes
  <1>2. ~At("idle") /\ ~At("adapter") /\ ~At("generation") /\ start.step \notin Direct
    BY <1>1 DEF At, Direct
  <1>3. /\ start \in Start /\ ~start.delegated /\ start.connection \in Connections
        /\ start.adapter \in Adapters /\ adapter[start.adapter].connection = start.connection
    BY <1>2, UnderWay, NotDirect
  <1>4. ASSUME NEW b \in Adapters
        PROVE  /\ adapter'[b].connection = adapter[b].connection
               /\ adapter'[b].env \in {None, adapter[b].env}
    <2>1. adapter[b] \in Adapter
      BY DEF Types
    <2> QED BY <1>1, <2>1 DEF Types, Adapter
  <1>5. AdaptersMove
    BY <1>4 DEF AdaptersMove
  <1>6. Owned'
    BY <1>1, <1>4, OwnedStays DEF CredentialInv
  <1>7. TurnsMove
    BY <1>1, EndingMoves
  <1>8. Moves
    BY <1>1, <1>5, <1>6, <1>7, SameMoves DEF Moves
  <1>9. /\ start'.step = "again" /\ start'.adapter = start.adapter /\ start'.run = start.run
        /\ start'.connection = start.connection /\ start'.delegated = start.delegated
    BY <1>1, <1>3 DEF Start
  <1>10. providers'[start.connection].generation = None
    BY <1>1 DEF CredentialInv, StartKnowsSecret, Renewing, At
  <1> QED BY <1>2, <1>3, <1>4, <1>8, <1>9, <1>10, StepKeeps DEF Using

LEMMA GetAdapterAgainKeeps ==
    ASSUME Types, Begun, CredentialInv, GetAdapterAgain
    PROVE  CredentialInv'
  <1>1. At("again") /\ UNCHANGED <<registered, turn>>
    BY DEF GetAdapterAgain, externalVars
  <1>2. PICK a \in Adapters :
            /\ Obtain(start.connection, start.home, a)
            /\ start' = [start EXCEPT !.adapter = a, !.step = "environment"]
    BY DEF GetAdapterAgain
  <1>3. ~At("idle") /\ ~At("adapter") /\ ~At("generation") /\ start.step \notin Direct
    BY <1>1 DEF At, Direct
  <1>4. /\ start \in Start /\ ~start.delegated /\ start.connection \in Connections
        /\ start.home \in Homes \cup {None}
    BY <1>3, UnderWay, NotDirect DEF Start
  <1>5. /\ Owned' /\ AdaptersMove /\ ProvidersMove /\ adapter'[a].connection = start.connection
        /\ providers'[start.connection].adapter = a
        /\ providers'[start.connection].generation \in
               {None, providers[start.connection].generation}
    BY <1>2, <1>4, ObtainMoves DEF CredentialInv
  <1>6. Moves
    BY <1>1, <1>5, SameMoves DEF Moves
  <1>7. providers[start.connection].generation = None
    BY <1>1 DEF CredentialInv, StartKnowsSecret, Renewing, At
  <1>8. adapter'[a].env = None
    <2>1. a # 0
      BY InRange
    <2> QED BY <1>3, <1>4, <1>5, <1>6, <1>7, <2>1, MovesKeep
  <1>9. /\ start'.step = "environment" /\ start'.adapter = a /\ start'.run = start.run
        /\ start'.connection = start.connection /\ start'.delegated = start.delegated
    BY <1>2, <1>4 DEF Start
  <1> QED BY <1>3, <1>4, <1>5, <1>6, <1>7, <1>8, <1>9, StepKeeps

(* runtime(handle) of a start that gives no secret.                        *)
LEMMA ProcessKeeps ==
    ASSUME Types, Begun, CredentialInv, AccountStatus \/ StartSession
    PROVE  CredentialInv'
  <1>1. /\ At("status") \/ At("session")
        /\ UNCHANGED <<made, providers, registered, turn>>
        /\ WithProcess(start.adapter, None)
    BY DEF AccountStatus, StartSession, externalVars
  <1>2. PICK step \in {"session", "turn"} : start' = [start EXCEPT !.step = step]
    BY DEF AccountStatus, StartSession, Goes
  <1>3. ~At("idle") /\ ~At("adapter") /\ ~At("generation")
    BY <1>1 DEF At
  <1>4. /\ start \in Start /\ start.adapter \in Adapters
        /\ adapter[start.adapter].connection = start.connection
    BY <1>3, UnderWay
  <1>5. /\ Owned' /\ AdaptersMove /\ ProvidersMove
        /\ adapter'[start.adapter].connection = start.connection
        /\ adapter'[start.adapter].env \in {None, adapter[start.adapter].env}
    BY <1>1, <1>4, WithProcessMoves DEF CredentialInv
  <1>6. Moves
    BY <1>1, <1>5, SameMoves DEF Moves
  <1>7. /\ start'.step = step /\ start'.adapter = start.adapter /\ start'.run = start.run
        /\ start'.connection = start.connection /\ start'.delegated = start.delegated
        /\ start'.secret = start.secret
    BY <1>2, <1>4 DEF Start
  <1>8. /\ start.delegated => start.secret = None
        /\ start.secret # None => adapter[start.adapter].env \in {None, start.secret}
    BY <1>1 DEF CredentialInv, StartKnowsSecret, Using, At
  <1> QED BY <1>2, <1>3, <1>5, <1>6, <1>7, <1>8, StepKeeps DEF Direct, Renewing

LEMMA EvictKeeps ==
    ASSUME Types, Begun, CredentialInv, EvictIdleAdapter
    PROVE  CredentialInv'
  <1>1. /\ At("session") /\ UNCHANGED <<adapter, made, registered, turn>>
        /\ providers' = [providers EXCEPT ![start.connection] = NoProvider]
        /\ start' = [start EXCEPT !.step = "adapter", !.adapter = 0, !.retried = TRUE]
    BY DEF EvictIdleAdapter, adapterVars, externalVars
  <1>2. ~At("idle") /\ ~At("generation")
    BY <1>1 DEF At
  <1>3. Moves
    BY <1>1, RemovalMoves
  <1>4. /\ start'.step = "adapter" /\ start'.adapter = 0 /\ start'.run = start.run
        /\ start'.connection = start.connection /\ start'.delegated = start.delegated
        /\ start'.secret = start.secret
    BY <1>1 DEF Types, Start
  <1>5. start.delegated => start.secret = None
    BY DEF CredentialInv, StartKnowsSecret
  <1> QED BY <1>2, <1>3, <1>4, <1>5, StepKeeps DEF Direct, Renewing, Using

(* The process gets the secret, and the generation is not set yet.         *)
LEMMA StartWithEnvironmentKeeps ==
    ASSUME Types, Begun, CredentialInv, StartWithEnvironment
    PROVE  CredentialInv'
  <1> DEFINE a == start.adapter
             c == start.connection
  <1>1. /\ At("environment") /\ UNCHANGED <<made, providers, registered, turn>>
        /\ WithProcess(a, start.secret)
        /\ start' = [start EXCEPT !.step = "generation"]
    BY DEF StartWithEnvironment, externalVars, Goes
  <1>2. ~At("idle") /\ ~At("adapter") /\ ~At("generation") /\ start.step \notin Direct
    BY <1>1 DEF At, Direct
  <1>3. /\ start \in Start /\ ~start.delegated /\ c \in Connections
        /\ a \in Adapters /\ a # 0 /\ adapter[a].connection = c
        /\ turn[start.run].state # "none" /\ registered[start.run] = None
    BY <1>2, UnderWay, NotDirect
  <1>4. /\ Owned'
        /\ \A b \in Adapters : adapter'[b].connection = adapter[b].connection
        /\ \A b \in Adapters \ {a} : adapter'[b].env = adapter[b].env
        /\ adapter'[a].env \in {adapter[a].env, start.secret}
    BY <1>1, <1>3, WithProcessMoves DEF CredentialInv
  <1>5. /\ start'.step = "generation" /\ start'.adapter = a /\ start'.run = start.run
        /\ start'.connection = c /\ start'.delegated = start.delegated
        /\ start'.secret = start.secret
    BY <1>1, <1>3 DEF Start
  <1>6. providers[c].generation = None
    BY <1>1 DEF CredentialInv, StartKnowsSecret, Renewing, At
  <1>7. start.secret # None => adapter[a].env \in {None, start.secret}
    BY <1>1 DEF CredentialInv, StartKnowsSecret, Using, At
  <1>8. ASSUME NEW d \in Connections, providers[d].adapter # 0
        PROVE  adapter'[providers[d].adapter].env \in {None, Promised(d)'}
    <2> DEFINE b == providers[d].adapter
    <2>1. b \in Adapters /\ adapter[b].connection = d
      BY <1>8, ProviderAdapter DEF CredentialInv, Owned
    <2>2. adapter[b].env \in {None, providers[d].generation}
      BY <1>2, <1>8 DEF CredentialInv, GenerationsTell, Promised
    <2>3. Promised(d)' = IF d = c THEN start.secret ELSE providers[d].generation
      BY <1>1, <1>5 DEF Promised, At
    <2>4. CASE d = c
      <3>1. adapter[b].env = None
        BY <1>6, <2>2, <2>4
      <3>2. adapter'[b].env \in {None, start.secret}
        BY <1>4, <2>1, <3>1
      <3> QED BY <2>3, <2>4, <3>2
    <2>5. CASE d # c
      <3>1. b # a
        BY <1>3, <2>1, <2>5
      <3> QED BY <1>4, <2>1, <2>2, <2>3, <2>5, <3>1
    <2> QED BY <2>4, <2>5
  <1>9. GenerationsTell'
    BY <1>1, <1>8 DEF GenerationsTell
  <1>10. StartOwns'
    BY <1>3, <1>4, <1>5 DEF StartOwns
  <1>11. StartKnowsSecret'
    BY <1>1, <1>3, <1>4, <1>5, <1>6, <1>7 DEF StartKnowsSecret
  <1>12. RunsKnown'
    <2>1. ASSUME NEW r \in Runs, registered[r] # None
          PROVE  /\ turn[r].state # "none" /\ turn[r].adapter # 0
                 /\ adapter'[turn[r].adapter].connection = registered[r]
      <3>1. /\ turn[r].state # "none" /\ turn[r].adapter # 0
            /\ adapter[turn[r].adapter].connection = registered[r]
        BY <2>1 DEF CredentialInv, RunsKnown
      <3>2. turn[r].adapter \in 0..MaxAdapters
        BY DEF Types, AnyTurn
      <3>3. turn[r].adapter \in Adapters
        BY <3>1, <3>2, AdapterRange
      <3> QED BY <1>4, <3>1, <3>3
    <2> QED BY <1>1, <2>1 DEF RunsKnown
  <1>13. StartKnowsRuns'
    BY <1>1, <1>3, <1>5 DEF StartKnowsRuns, At
  <1>14. NoRunUsesAStaleSecret'
    BY <1>1 DEF CredentialInv, NoRunUsesAStaleSecret
  <1> QED BY <1>4, <1>9, <1>10, <1>11, <1>12, <1>13, <1>14 DEF CredentialInv

LEMMA SetGenerationKeeps ==
    ASSUME Types, Begun, CredentialInv, SetGeneration
    PROVE  CredentialInv'
  <1> DEFINE c == start.connection
  <1>1. /\ At("generation") /\ UNCHANGED <<adapter, made, registered, turn>>
        /\ providers' = IF providers[c].adapter = 0 THEN providers
                        ELSE [providers EXCEPT ![c].generation = start.secret]
        /\ start' = [start EXCEPT !.step = Prepared]
    BY DEF SetGeneration, adapterVars, externalVars, Goes
  <1>2. ~At("idle") /\ ~At("adapter") /\ start.step \notin Direct
    BY <1>1 DEF At, Direct
  <1>3. /\ start \in Start /\ ~start.delegated /\ c \in Connections
        /\ start.adapter # 0 /\ adapter[start.adapter].connection = c
        /\ turn[start.run].state # "none" /\ registered[start.run] = None
    BY <1>2, UnderWay, NotDirect
  <1>4. Prepared \in {"session", "status"}
    BY DEF Prepared
  <1>5. /\ start'.step \in {"session", "status"} /\ start'.adapter = start.adapter
        /\ start'.run = start.run /\ start'.connection = c
        /\ start'.delegated = start.delegated /\ start'.secret = start.secret
    BY <1>1, <1>3, <1>4 DEF Start
  <1>6. \A d \in Connections :
            /\ providers'[d].adapter = providers[d].adapter
            /\ d # c => providers'[d].generation = providers[d].generation
            /\ providers[c].adapter # 0 => providers'[c].generation = start.secret
    <2>1. \A d \in Connections : providers[d] \in Provider
      BY DEF Types
    <2> QED BY <1>1, <1>3, <2>1 DEF Types, Provider
  <1>7. ASSUME NEW d \in Connections, providers'[d].adapter # 0
        PROVE  adapter'[providers'[d].adapter].env \in {None, Promised(d)'}
    <2>1. Promised(d)' = providers'[d].generation
      BY <1>5 DEF Promised, At
    <2>2. adapter[providers[d].adapter].env
              \in {None, IF d = c THEN start.secret ELSE providers[d].generation}
      BY <1>1, <1>6, <1>7 DEF CredentialInv, GenerationsTell, Promised
    <2>3. CASE d = c
      BY <1>1, <1>6, <1>7, <2>1, <2>2, <2>3
    <2>4. CASE d # c
      BY <1>1, <1>6, <2>1, <2>2, <2>4
    <2> QED BY <2>3, <2>4
  <1>8. GenerationsTell'
    BY <1>7 DEF GenerationsTell
  <1>9. Owned'
    BY <1>1, <1>6, OwnedStays DEF CredentialInv
  <1>10. StartOwns'
    BY <1>1, <1>3, <1>5 DEF StartOwns
  <1>11. start.secret # None => adapter[start.adapter].env \in {None, start.secret}
    BY <1>1 DEF CredentialInv, StartKnowsSecret, Using, At
  <1>12. StartKnowsSecret'
    BY <1>1, <1>3, <1>5, <1>11 DEF StartKnowsSecret, Direct, Renewing, Using
  <1>13. RunsKnown'
    BY <1>1 DEF CredentialInv, RunsKnown
  <1>14. StartKnowsRuns'
    BY <1>1, <1>3, <1>5 DEF StartKnowsRuns, At
  <1>15. NoRunUsesAStaleSecret'
    BY <1>1 DEF CredentialInv, NoRunUsesAStaleSecret
  <1> QED BY <1>8, <1>9, <1>10, <1>12, <1>13, <1>14, <1>15 DEF CredentialInv

(* A turn begins with the environment that its process has.                *)
LEMMA StartTurnKeeps ==
    ASSUME Types, Begun, CredentialInv, StartTurn
    PROVE  CredentialInv'
  <1> DEFINE a == start.adapter
             run == start.run
  <1>1. /\ At("turn") /\ UNCHANGED <<made, providers, registered>>
        /\ WithProcess(a, None)
        /\ turn' = [turn EXCEPT ![run] = [turn[run] EXCEPT !.state = "open", !.adapter = a,
                                             !.secret = start.secret, !.env = adapter'[a].env]]
        /\ start' = [start EXCEPT !.step = "register"]
    BY DEF StartTurn, Goes
  <1>2. ~At("idle") /\ ~At("adapter") /\ ~At("generation")
    BY <1>1 DEF At
  <1>3. /\ start \in Start /\ start.connection \in Connections /\ run \in Runs
        /\ a \in Adapters /\ a # 0 /\ adapter[a].connection = start.connection
        /\ registered[run] = None
    BY <1>2, UnderWay
  <1>4. /\ Owned' /\ AdaptersMove /\ ProvidersMove
        /\ \A b \in Adapters : adapter'[b].connection = adapter[b].connection
        /\ adapter'[a].env \in {None, adapter[a].env}
    BY <1>1, <1>3, WithProcessMoves DEF CredentialInv
  <1>5. /\ start'.step = "register" /\ start'.adapter = a /\ start'.run = run
        /\ start'.connection = start.connection /\ start'.delegated = start.delegated
        /\ start'.secret = start.secret
    BY <1>1, <1>3 DEF Start
  <1>6. \A r \in Runs : turn[r] \in AnyTurn
    BY DEF Types
  <1>7. /\ turn'[run].state = "open" /\ turn'[run].adapter = a
        /\ turn'[run].secret = start.secret /\ turn'[run].env = adapter'[a].env
        /\ \A r \in Runs \ {run} : turn'[r] = turn[r]
    BY <1>1, <1>3, <1>6 DEF Types, AnyTurn
  <1>8. /\ start.delegated => start.secret = None
        /\ start.secret # None => adapter[a].env \in {None, start.secret}
    BY <1>1 DEF CredentialInv, StartKnowsSecret, Using, At
  <1>9. NoRunUsesAStaleSecret'
    <2>1. start.secret # None => adapter'[a].env \in {None, start.secret}
      BY <1>4, <1>8
    <2> QED BY <1>7, <2>1 DEF CredentialInv, NoRunUsesAStaleSecret
  <1>10. RunsKnown'
    <2>1. ASSUME NEW r \in Runs, registered[r] # None
          PROVE  /\ turn'[r].state # "none" /\ turn'[r].adapter # 0
                 /\ adapter'[turn'[r].adapter].connection = registered[r]
      <3>1. turn'[r] = turn[r]
        BY <1>3, <1>7, <2>1
      <3>2. /\ turn[r].state # "none" /\ turn[r].adapter # 0
            /\ adapter[turn[r].adapter].connection = registered[r]
        BY <2>1 DEF CredentialInv, RunsKnown
      <3>3. turn[r].adapter \in 0..MaxAdapters
        BY <1>6 DEF AnyTurn
      <3>4. turn[r].adapter \in Adapters
        BY <3>2, <3>3, AdapterRange
      <3> QED BY <1>4, <3>1, <3>2, <3>4
    <2> QED BY <1>1, <2>1 DEF RunsKnown
  <1>11. GenerationsTell'
    <2>1. ASSUME NEW c \in Connections, providers[c].adapter # 0
          PROVE  adapter'[providers[c].adapter].env \in {None, Promised(c)'}
      <3>1. Promised(c)' = providers[c].generation
        BY <1>1, <1>5 DEF Promised, At
      <3>2. /\ providers[c].adapter \in Adapters
            /\ adapter[providers[c].adapter].connection = c
        BY <2>1, ProviderAdapter DEF CredentialInv, Owned
      <3>3. adapter[providers[c].adapter].env \in {None, providers[c].generation}
        BY <1>2, <2>1 DEF CredentialInv, GenerationsTell, Promised
      <3>4. c # None
        BY HarnessAssumption
      <3>5. adapter'[providers[c].adapter].env \in {None, adapter[providers[c].adapter].env}
        BY <1>4, <3>2, <3>4 DEF AdaptersMove
      <3> QED BY <3>1, <3>3, <3>5
    <2> QED BY <1>1, <2>1 DEF GenerationsTell
  <1>12. StartOwns'
    BY <1>3, <1>4, <1>5 DEF StartOwns
  <1>13. StartKnowsSecret'
    BY <1>5, <1>8 DEF StartKnowsSecret, Direct, Renewing, Using
  <1>14. StartKnowsRuns'
    BY <1>1, <1>3, <1>5, <1>7 DEF StartKnowsRuns, At
  <1> QED BY <1>4, <1>9, <1>10, <1>11, <1>12, <1>13, <1>14 DEF CredentialInv

LEMMA RegisterRunKeeps ==
    ASSUME Types, Begun, CredentialInv, RegisterRun
    PROVE  CredentialInv'
  <1>1. /\ At("register") /\ UNCHANGED <<adapter, made, providers, turn>>
        /\ registered' = [registered EXCEPT ![start.run] = start.connection]
        /\ start' = NoStart
    BY DEF RegisterRun, adapterVars, externalVars
  <1>2. ~At("idle") /\ ~At("adapter") /\ ~At("generation")
    BY <1>1 DEF At
  <1>3. /\ start.run \in Runs /\ start.adapter # 0
        /\ adapter[start.adapter].connection = start.connection
        /\ turn[start.run].state # "none" /\ turn[start.run].adapter = start.adapter
    BY <1>1, <1>2, UnderWay DEF CredentialInv, StartKnowsRuns
  <1>4. /\ registered'[start.run] = start.connection
        /\ \A r \in Runs \ {start.run} : registered'[r] = registered[r]
    BY <1>1, <1>3 DEF Types
  <1>5. RunsKnown'
    BY <1>1, <1>3, <1>4 DEF CredentialInv, RunsKnown
  <1>6. start'.step = "idle" /\ start'.adapter = 0 /\ ~start'.delegated /\ start'.secret = None
    BY <1>1 DEF NoStart
  <1>7. StartOwns' /\ StartKnowsSecret' /\ StartKnowsRuns'
    BY <1>6 DEF StartOwns, StartKnowsSecret, StartKnowsRuns, At, Renewing, Using
  <1>8. ASSUME NEW c \in Connections
        PROVE  Promised(c)' = Promised(c)
    BY <1>1, <1>2, <1>6 DEF Promised, At
  <1>9. GenerationsTell'
    BY <1>1, <1>8 DEF CredentialInv, GenerationsTell
  <1>10. Owned' /\ NoRunUsesAStaleSecret'
    BY <1>1 DEF CredentialInv, Owned, NoRunUsesAStaleSecret
  <1> QED BY <1>5, <1>7, <1>9, <1>10 DEF CredentialInv

LEMMA CredentialStep ==
    ASSUME Types, Begun, CredentialInv, [Next]_vars
    PROVE  CredentialInv'
  <1>1. CASE StartGoesOn
    BY <1>1, GetAdapterKeeps, StartFailsKeeps, ResolveSecretKeeps, CheckGenerationKeeps,
       ProbeEnvironmentKeeps, RemoveProviderKeeps, ShutdownKeeps, GetAdapterAgainKeeps,
       StartWithEnvironmentKeeps, SetGenerationKeeps, ProcessKeeps, EvictKeeps,
       StartTurnKeeps, RegisterRunKeeps DEF StartGoesOn, PrepareModeBRuntime
  <1>2. CASE \E r \in Runs, c \in Connections : BeginStart(r, c)
    BY <1>2, BeginKeeps
  <1>3. CASE ~StartGoesOn /\ ~\E r \in Runs, c \in Connections : BeginStart(r, c)
    <2>1. start' = start /\ Moves
      BY <1>3, AroundMoves DEF CredentialInv
    <2> QED BY <2>1, AroundKeeps
  <1> QED BY <1>1, <1>2, <1>3

LEMMA CredentialInit == Init => Types /\ Begun /\ CredentialInv
  <1> SUFFICES ASSUME Init PROVE Types /\ Begun /\ CredentialInv
    OBVIOUS
  <1>1. Types
    BY NoneTypes, HarnessAssumption DEF Init, Types
  <1>2. start.step = "idle" /\ start.adapter = 0 /\ ~start.delegated /\ start.secret = None
    BY DEF Init, NoStart
  <1>3. Begun
    BY <1>2 DEF Begun, At
  <1>4. StartOwns /\ StartKnowsSecret /\ StartKnowsRuns
    BY <1>2 DEF StartOwns, StartKnowsSecret, StartKnowsRuns, At, Renewing, Using
  <1>5. Owned /\ GenerationsTell /\ RunsKnown /\ NoRunUsesAStaleSecret
    BY DEF Init, Owned, GenerationsTell, RunsKnown, NoRunUsesAStaleSecret, NoAdapter,
           NoProvider, NoTurn
  <1> QED BY <1>1, <1>3, <1>4, <1>5 DEF CredentialInv

LEMMA CredentialsHold == Spec => [](Types /\ Begun /\ CredentialInv)
  <1>1. Types /\ Begun /\ CredentialInv /\ [Next]_vars => Types' /\ Begun' /\ CredentialInv'
    BY TypesStep, CredentialStep
  <1> QED BY CredentialInit, <1>1, PTL DEF Spec

(* A run of a connection with a secret of its own never works with a       *)
(* secret that its start did not read, whatever account calls, crashes and *)
(* changes of the settings happen beside the start.                        *)
THEOREM SecretsAreFresh == Spec => []NoRunUsesAStaleSecret
  <1>1. CredentialInv => NoRunUsesAStaleSecret
    BY DEF CredentialInv
  <1> QED BY CredentialsHold, <1>1, PTL

(* The runtime a start shuts down has no registered run that still works.  *)
THEOREM RotationsAreIdle == Spec => NoRotationUnderRuns
  <1>1. ASSUME Types, Begun, CredentialInv, [Next]_vars, At("shutdown"), start' # start
        PROVE  \A r \in Runs : registered[r] # None => turn'[r].state = turn[r].state
    <2>1. ~At("idle") /\ ~At("adapter")
      BY <1>1 DEF At
    <2>2. Shutdown \/ StartFails
      <3>1. StartGoesOn \/ \E r \in Runs, c \in Connections : BeginStart(r, c)
        BY <1>1, AroundMoves DEF CredentialInv
      <3> QED BY <1>1, <3>1 DEF StartGoesOn, PrepareModeBRuntime, GetAdapter,
                 ResolveSecret, CheckGeneration, ProbeEnvironment, RemoveProvider,
                 GetAdapterAgain, StartWithEnvironment, SetGeneration, AccountStatus,
                 StartSession, EvictIdleAdapter, StartTurn, RegisterRun, BeginStart, At
    <2>3. ~HasRuns(start.connection)
      BY <1>1 DEF CredentialInv, StartKnowsRuns
    <2>4. ASSUME NEW r \in Runs, registered[r] # None
          PROVE  turn'[r].state = turn[r].state
      <3>1. adapter[turn[r].adapter].connection = registered[r]
        BY <1>1, <2>4 DEF CredentialInv, RunsKnown
      <3>2. adapter[start.adapter].connection = start.connection
        BY <1>1, <2>1, UnderWay
      <3>3. turn[r].adapter # start.adapter
        BY <2>3, <3>1, <3>2 DEF HasRuns
      <3>4. CASE Shutdown
        <4>1. Ending(start.adapter, "interrupting")
          BY <3>4 DEF Shutdown
        <4> QED BY <1>1, <3>3, <4>1, EndingMoves
      <3>5. CASE StartFails
        BY <3>5 DEF StartFails
      <3> QED BY <2>2, <3>4, <3>5
    <2> QED BY <2>4
  <1>2. ASSUME Types, Begun, CredentialInv, [Next]_vars
        PROVE  [At("shutdown") /\ start' # start
                => \A r \in Runs : registered[r] # None => turn'[r].state = turn[r].state]_vars
    BY <1>1, <1>2
  <1> QED BY CredentialsHold, <1>2, PTL DEF Spec, NoRotationUnderRuns

-----------------------------------------------------------------------------
(* The number of events kept.                                              *)

(* One value of the recursive function in EventsIn, from the one before.   *)
CountStep(kept, upTo, r) == IF r = 0 THEN 0 ELSE upTo[r - 1] + Len(kept[r])

(* The recursion has a solution up to every number.                        *)
LEMMA CountSolved ==
    ASSUME NEW kept
    PROVE  \A m \in Nat : \E f : f = [r \in 0..m |-> CountStep(kept, f, r)]
  <1> DEFINE T == {m \in Nat : \E f : f = [r \in 0..m |-> CountStep(kept, f, r)]}
  <1>1. 0 \in T
    <2> DEFINE f == [r \in 0..0 |-> 0]
    <2>1. f = [r \in 0..0 |-> CountStep(kept, f, r)]
      BY DEF CountStep
    <2> QED BY <2>1
  <1>2. ASSUME NEW m \in T PROVE m + 1 \in T
    <2>1. PICK f : f = [r \in 0..m |-> CountStep(kept, f, r)]
      OBVIOUS
    <2> DEFINE g == [r \in 0..(m + 1) |->
                        IF r = m + 1 THEN CountStep(kept, f, m + 1) ELSE f[r]]
    <2>2. ASSUME NEW r \in 0..(m + 1) PROVE g[r] = CountStep(kept, g, r)
      <3>1. CASE r = m + 1
        BY <3>1 DEF CountStep
      <3>2. CASE r # m + 1
        <4>1. f[r] = CountStep(kept, f, r)
          BY <2>1, <3>2
        <4> QED BY <4>1, <3>2 DEF CountStep
      <3> QED BY <3>1, <3>2
    <2>3. g = [r \in 0..(m + 1) |-> CountStep(kept, g, r)]
      BY <2>2, Zenon
    <2> HIDE DEF g
    <2>4. \E h : h = [r \in 0..(m + 1) |-> CountStep(kept, h, r)]
      BY <2>3
    <2>5. m + 1 \in Nat
      OBVIOUS
    <2> QED BY <2>4, <2>5
  <1>3. T = Nat
    <2>1. T \in SUBSET Nat
      OBVIOUS
    <2> HIDE DEF T
    <2> QED BY <1>1, <1>2, <2>1, EveryNumber
  <1> QED BY <1>3

LEMMA CountDefined ==
    ASSUME NEW kept
    PROVE  \E f : /\ EventsIn(kept) = f[MaxRuns] /\ f[0] = 0
                  /\ \A r \in Nat : r + 1 <= MaxRuns => f[r + 1] = f[r] + Len(kept[r + 1])
  <1> DEFINE f == CHOOSE f : f = [r \in 0..MaxRuns |-> CountStep(kept, f, r)]
  <1>1. f = [r \in 0..MaxRuns |-> CountStep(kept, f, r)]
    BY CountSolved, HarnessAssumption
  <1>2. EventsIn(kept) = f[MaxRuns]
    BY DEF EventsIn, CountStep
  <1> HIDE DEF f
  <1>3. f[0] = 0
    <2>1. 0 \in 0..MaxRuns
      BY HarnessAssumption
    <2> QED BY <1>1, <2>1 DEF CountStep
  <1>4. ASSUME NEW r \in Nat, r + 1 <= MaxRuns PROVE f[r + 1] = f[r] + Len(kept[r + 1])
    <2>1. r + 1 \in 0..MaxRuns /\ r + 1 # 0 /\ (r + 1) - 1 = r
      BY <1>4, HarnessAssumption
    <2> QED BY <1>1, <2>1 DEF CountStep
  <1> QED BY <1>2, <1>3, <1>4

(* Two buffers that differ for one run differ by the events of that run.   *)
LEMMA CountDiffers ==
    ASSUME NEW kept \in [Runs -> Seq(Event)], NEW other \in [Runs -> Seq(Event)],
           NEW x \in Runs, \A r \in Runs : r # x => other[r] = kept[r]
    PROVE  /\ EventsIn(kept) \in Nat /\ EventsIn(other) \in Nat
           /\ EventsIn(other) + Len(kept[x]) = EventsIn(kept) + Len(other[x])
  <1>1. PICK f : /\ EventsIn(kept) = f[MaxRuns] /\ f[0] = 0
                 /\ \A r \in Nat : r + 1 <= MaxRuns => f[r + 1] = f[r] + Len(kept[r + 1])
    BY CountDefined
  <1>2. PICK g : /\ EventsIn(other) = g[MaxRuns] /\ g[0] = 0
                 /\ \A r \in Nat : r + 1 <= MaxRuns => g[r + 1] = g[r] + Len(other[r + 1])
    BY CountDefined
  <1>3. MaxRuns \in Nat /\ x \in Nat /\ 1 <= x /\ x <= MaxRuns
    BY HarnessAssumption DEF Runs
  <1>4. ASSUME NEW r \in Runs PROVE Len(kept[r]) \in Nat /\ Len(other[r]) \in Nat
    OBVIOUS
  <1> DEFINE Good(m) == /\ f[m] \in Nat /\ g[m] \in Nat
                        /\ m < x => g[m] = f[m]
                        /\ x <= m => g[m] + Len(kept[x]) = f[m] + Len(other[x])
             T == {m \in Nat : m <= MaxRuns => Good(m)}
  <1>5. 0 \in T
    BY <1>1, <1>2, <1>3
  <1>6. ASSUME NEW m \in T PROVE m + 1 \in T
    <2>1. SUFFICES ASSUME m + 1 <= MaxRuns PROVE Good(m + 1)
      OBVIOUS
    <2>2. m \in Nat /\ Good(m)
      BY <1>3, <2>1
    <2>3. /\ f[m + 1] = f[m] + Len(kept[m + 1])
          /\ g[m + 1] = g[m] + Len(other[m + 1])
      BY <1>1, <1>2, <2>1, <2>2
    <2>4. m + 1 \in Runs
      BY <2>1, <2>2, <1>3 DEF Runs
    <2>5. Len(kept[m + 1]) \in Nat /\ Len(other[m + 1]) \in Nat
      BY <1>4, <2>4
    <2>6. m + 1 # x => Len(kept[m + 1]) = Len(other[m + 1])
      BY <2>4
    <2>7. Len(kept[x]) \in Nat /\ Len(other[x]) \in Nat
      BY <1>4
    <2>8. f[m + 1] \in Nat /\ g[m + 1] \in Nat
      BY <2>2, <2>3, <2>5
    <2>9. CASE m + 1 < x
      <3>1. g[m] = f[m] /\ Len(kept[m + 1]) = Len(other[m + 1])
        BY <1>3, <2>2, <2>6, <2>9
      <3> QED BY <1>3, <2>2, <2>3, <2>8, <2>9, <3>1
    <2>10. CASE m + 1 = x
      <3>1. g[m] = f[m]
        BY <1>3, <2>2, <2>10
      <3> QED BY <2>2, <2>3, <2>7, <2>8, <2>10, <3>1
    <2>11. CASE x < m + 1
      <3>1. /\ g[m] + Len(kept[x]) = f[m] + Len(other[x])
            /\ Len(kept[m + 1]) = Len(other[m + 1])
        BY <1>3, <2>2, <2>6, <2>11
      <3>2. g[m + 1] + Len(kept[x]) = f[m + 1] + Len(other[x])
        <4> DEFINE i == g[m]  j == f[m]  k == Len(kept[x])  l == Len(other[x])
                   n == Len(kept[m + 1])
        <4>1. i \in Nat /\ j \in Nat /\ k \in Nat /\ l \in Nat /\ n \in Nat /\ i + k = j + l
          BY <2>2, <2>5, <2>7, <3>1
        <4>2. g[m + 1] = i + n /\ f[m + 1] = j + n
          BY <2>3, <3>1
        <4> HIDE DEF i, j, n
        <4>3. (i + n) + k = (j + n) + l
          <5> HIDE DEF k, l
          <5> QED BY <4>1
        <4> QED BY <4>2, <4>3
      <3> QED BY <1>3, <2>2, <2>8, <2>11, <3>2
    <2> QED BY <1>3, <2>2, <2>9, <2>10, <2>11
  <1>7. T = Nat
    <2>1. T \in SUBSET Nat
      OBVIOUS
    <2> HIDE DEF T
    <2> QED BY <1>5, <1>6, <2>1, EveryNumber
  <1>8. Good(MaxRuns)
    BY <1>3, <1>7
  <1> QED BY <1>1, <1>2, <1>3, <1>8

(* A buffer of empty sequences holds nothing.                              *)
LEMMA CountNothing == EventsIn([r \in Runs |-> <<>>]) = 0
  <1> DEFINE kept == [r \in Runs |-> <<>>]
  <1>1. PICK f : /\ EventsIn(kept) = f[MaxRuns] /\ f[0] = 0
                 /\ \A r \in Nat : r + 1 <= MaxRuns => f[r + 1] = f[r] + Len(kept[r + 1])
    BY CountDefined
  <1> DEFINE T == {m \in Nat : m <= MaxRuns => f[m] = 0}
  <1>2. 0 \in T
    BY <1>1
  <1>3. ASSUME NEW m \in T PROVE m + 1 \in T
    <2>1. SUFFICES ASSUME m + 1 <= MaxRuns PROVE f[m + 1] = 0
      OBVIOUS
    <2>2. m \in Nat /\ f[m] = 0 /\ f[m + 1] = f[m] + Len(kept[m + 1])
      BY <1>1, <2>1, HarnessAssumption
    <2>3. m + 1 \in Runs
      BY <2>1, <2>2, HarnessAssumption DEF Runs
    <2>4. Len(kept[m + 1]) = 0
      BY <2>3
    <2> QED BY <2>2, <2>4
  <1>4. T = Nat
    <2>1. T \in SUBSET Nat
      OBVIOUS
    <2> HIDE DEF T
    <2> QED BY <1>2, <1>3, <2>1, EveryNumber
  <1>5. MaxRuns \in T
    BY <1>4, HarnessAssumption
  <1> QED BY <1>1, <1>5, HarnessAssumption

-----------------------------------------------------------------------------
(* The events.                                                             *)

(* What was told of a run leaves room for its last event.                  *)
Told ==
    \A r \in Runs :
        turn[r].told <= IF turn[r].state = "over" THEN MaxProgress + 1 ELSE MaxProgress

(* A start has opened no turn until its last step.                         *)
TurnAhead == ~At("idle") /\ ~At("register") => turn[start.run].state = "starting"

Consumer == [step : {"idle", "looking", "full", "listening", "received"},
             event : Event \cup {None}]

Streams ==
    /\ channel \in Seq(Event) /\ Len(channel) <= ChannelCapacity
    /\ replay \in Seq(Event)
    /\ permit \in BOOLEAN
    /\ consumer \in Consumer
    /\ consumer.event \in IF consumer.step = "received" THEN Event ELSE {None}
    /\ delivered \subseteq Event /\ refused \subseteq Event

(* Only a consumer that found room listens, and one event is all it takes. *)
Room ==
    /\ pending \in [Runs -> Seq(Event)] /\ PendingEvents <= PendingCapacity
    /\ consumer.step \in {"listening", "received"} => PendingEvents < PendingCapacity

Disturbed == faults \in [Disturbances -> Nat]

EventsInv == Told /\ TurnAhead /\ Streams /\ Room /\ Disturbed

LEMMA SpendTypes ==
    ASSUME Disturbed, NEW kind \in Disturbances, Spend(kind)
    PROVE  Disturbed'
  <1>1. faults[kind] \in Nat /\ faults[kind] > 0
    BY DEF Disturbed, Spend
  <1>2. faults[kind] - 1 \in Nat
    BY <1>1
  <1> QED BY <1>2 DEF Disturbed, Spend

LEMMA DisturbedStep ==
    ASSUME Disturbed, [Next]_vars
    PROVE  Disturbed'
  <1>1. CASE UNCHANGED faults
    BY <1>1 DEF Disturbed
  <1>2. CASE \E kind \in Disturbances : Spend(kind)
    BY <1>2, SpendTypes
  <1>3. {"death", "change", "call", "failure"} = Disturbances
    BY DEF Disturbances
  <1>4. CASE StartGoesOn \/ \E r \in Runs, c \in Connections : BeginStart(r, c)
    <2>1. UNCHANGED faults \/ Spend("failure")
      BY <1>4 DEF StartGoesOn, PrepareModeBRuntime, GetAdapter, StartFails,
                 ResolveSecret, CheckGeneration, ProbeEnvironment, RemoveProvider, Shutdown,
                 GetAdapterAgain, StartWithEnvironment, SetGeneration, AccountStatus,
                 StartSession, EvictIdleAdapter, StartTurn, RegisterRun, BeginStart, externalVars
    <2> QED BY <1>1, <1>2, <1>3, <2>1
  <1>5. CASE NextEvent
    BY <1>1, <1>5 DEF NextEvent, PopReplay, NothingToReplay, LookAtPending, WakeUp, Receive,
           Route, externalVars
  <1>6. ASSUME NEW c \in Connections, AccountAdapter(c) \/ ChangeSettings(c)
        PROVE  Disturbed'
    BY <1>2, <1>3, <1>6 DEF AccountAdapter, ChangeSettings
  <1>7. ASSUME NEW r \in Runs, NativeRun(r) \/ Emit(r) PROVE Disturbed'
    BY <1>1, <1>2, <1>3, <1>7 DEF NativeRun, Emit
  <1>8. ASSUME NEW a \in Adapters,
               UseAdapter(a) \/ CallReturns(a) \/ ProcessDies(a) \/ DropAdapter(a)
        PROVE  Disturbed'
    BY <1>1, <1>2, <1>3, <1>8 DEF UseAdapter, CallReturns, ProcessDies, DropAdapter, externalVars
  <1>9. CASE UNCHANGED vars
    BY <1>1, <1>9 DEF vars, externalVars
  <1> QED BY <1>4, <1>5, <1>6, <1>7, <1>8, <1>9 DEF Next

(* The end of a process changes the state of open turns only.              *)
LEMMA EndingTold ==
    ASSUME Types, Told, TurnAhead, Begun, NEW a, NEW state \in {"crashing", "interrupting"},
           Ending(a, state)
    PROVE  Told' /\ (~At("idle") /\ ~At("register") => turn'[start.run].state = "starting")
  <1>1. ASSUME NEW r \in Runs
        PROVE  /\ turn'[r].told = turn[r].told
               /\ turn'[r].state = turn[r].state
                     \/ (turn[r].state = "open" /\ turn'[r].state = state)
    <2>1. turn[r] \in AnyTurn
      BY DEF Types
    <2>2. turn'[r] = IF turn[r].adapter = a /\ turn[r].state = "open"
                     THEN [turn[r] EXCEPT !.state = state] ELSE turn[r]
      BY DEF Ending
    <2> QED BY <2>1, <2>2 DEF AnyTurn
  <1>2. Told'
    BY <1>1 DEF Told
  <1>3. ~At("idle") /\ ~At("register") => turn'[start.run].state = "starting"
    BY <1>1 DEF TurnAhead, Begun
  <1> QED BY <1>2, <1>3

LEMMA ToldStep ==
    ASSUME Types, Begun, Told, TurnAhead, [Next]_vars
    PROVE  Told' /\ TurnAhead'
  <1>1. ASSUME turn' = turn, \/ start'.step \in {"idle", "register"}
                             \/ ~At("idle") /\ ~At("register") /\ start'.run = start.run
                             \/ start' = start
        PROVE  Told' /\ TurnAhead'
    BY <1>1 DEF Told, TurnAhead, At
  <1>2. NoStart.step = "idle" /\ start \in Start
    BY DEF NoStart, Types
  <1>3. ASSUME NEW r \in Runs, NEW c \in Connections, BeginStart(r, c)
        PROVE  Told' /\ TurnAhead'
    <2>1. turn[r] \in AnyTurn /\ turn \in [Runs -> AnyTurn]
      BY DEF Types
    <2>2. /\ turn[r].state = "none" /\ start'.run = r
          /\ turn' = [turn EXCEPT ![r] = [turn[r] EXCEPT !.state = "starting"]]
      BY <1>3 DEF BeginStart, NoStart
    <2>3. /\ turn'[r].state = "starting" /\ turn'[r].told = turn[r].told
          /\ \A s \in Runs : s # r => turn'[s] = turn[s]
      BY <2>1, <2>2 DEF AnyTurn
    <2> QED BY <2>2, <2>3 DEF Told, TurnAhead, At
  <1>4. CASE GetAdapter \/ StartFails \/ ResolveSecret \/ CheckGeneration \/ ProbeEnvironment
             \/ RemoveProvider \/ GetAdapterAgain \/ StartWithEnvironment \/ SetGeneration
             \/ AccountStatus \/ StartSession \/ EvictIdleAdapter \/ RegisterRun
    <2>1. turn' = turn
      BY <1>4 DEF GetAdapter, StartFails, ResolveSecret, CheckGeneration, ProbeEnvironment,
             RemoveProvider, GetAdapterAgain, StartWithEnvironment, SetGeneration,
             AccountStatus, StartSession, EvictIdleAdapter, RegisterRun, externalVars
    <2>2. CASE start' = NoStart
      BY <1>1, <1>2, <2>1, <2>2
    <2>3. CASE start' # NoStart
      <3>1. ~At("idle") /\ ~At("register") /\ start'.run = start.run
        BY <1>2, <1>4, <2>3 DEF GetAdapter, StartFails, ResolveSecret, CheckGeneration,
               ProbeEnvironment, RemoveProvider, GetAdapterAgain, StartWithEnvironment,
               SetGeneration, AccountStatus, StartSession, EvictIdleAdapter, RegisterRun,
               Goes, At, Start
      <3> QED BY <1>1, <2>1, <3>1
    <2> QED BY <2>2, <2>3
  <1>5. CASE Shutdown
    <2>1. Ending(start.adapter, "interrupting") /\ At("shutdown")
          /\ start'.run = start.run
      BY <1>2, <1>5 DEF Shutdown, Goes, Start
    <2> QED BY <2>1, EndingTold DEF TurnAhead, At
  <1>6. CASE StartTurn
    <2>1. At("turn") /\ start'.step = "register" /\ start.run \in Runs
      BY <1>2, <1>6 DEF StartTurn, Goes, Start, Begun, At
    <2>2. turn[start.run] \in AnyTurn /\ turn \in [Runs -> AnyTurn]
          /\ turn[start.run].state = "starting"
      BY <2>1 DEF Types, TurnAhead, At
    <2>3. turn' = [turn EXCEPT ![start.run] =
                      [turn[start.run] EXCEPT !.state = "open", !.adapter = start.adapter,
                                !.secret = start.secret, !.env = adapter'[start.adapter].env]]
      BY <1>6 DEF StartTurn
    <2>4. /\ turn'[start.run].state = "open" /\ turn'[start.run].told = turn[start.run].told
          /\ \A s \in Runs : s # start.run => turn'[s] = turn[s]
      BY <2>1, <2>2, <2>3 DEF AnyTurn
    <2> QED BY <2>1, <2>2, <2>4 DEF Told, TurnAhead, At
  <1>7. CASE NextEvent
    BY <1>1, <1>7 DEF NextEvent, PopReplay, NothingToReplay, LookAtPending, WakeUp, Receive,
           Route, externalVars, harnessVars
  <1>8. ASSUME NEW c \in Connections, AccountAdapter(c) \/ ChangeSettings(c)
        PROVE  Told' /\ TurnAhead'
    BY <1>1, <1>8 DEF AccountAdapter, ChangeSettings, harnessVars
  <1>9. ASSUME NEW r \in Runs, NativeRun(r) PROVE Told' /\ TurnAhead'
    BY <1>1, <1>9 DEF NativeRun, harnessVars
  <1>10. ASSUME NEW r \in Runs, Emit(r) PROVE Told' /\ TurnAhead'
    <2>1. turn[r] \in AnyTurn /\ turn \in [Runs -> AnyTurn]
      BY DEF Types
    <2>2. PICK state \in {turn[r].state, "over"} :
              turn' = [turn EXCEPT ![r].told = @ + 1, ![r].state = state]
              /\ (state = "over" \/ turn[r].told < MaxProgress)
      BY <1>10 DEF Emit
    <2>3. /\ turn[r].state \notin {"over", "starting"} /\ start' = start
      BY <1>10 DEF Emit, harnessVars
    <2>4. /\ turn'[r].told = turn[r].told + 1 /\ turn'[r].state = state
          /\ \A s \in Runs : s # r => turn'[s] = turn[s]
      BY <2>1, <2>2 DEF AnyTurn
    <2>5. turn[r].told \in Nat /\ MaxProgress \in Nat
      BY <2>1, HarnessAssumption DEF AnyTurn
    <2>6. turn[r].told <= MaxProgress
      BY <2>3 DEF Told
    <2>7. turn'[r].told <= IF turn'[r].state = "over" THEN MaxProgress + 1 ELSE MaxProgress
      BY <2>2, <2>3, <2>4, <2>5, <2>6
    <2>8. Told'
      BY <2>4, <2>7 DEF Told
    <2>9. TurnAhead'
      BY <2>3, <2>4 DEF TurnAhead, At, Begun
    <2> QED BY <2>8, <2>9
  <1>11. ASSUME NEW a \in Adapters, UseAdapter(a) \/ CallReturns(a) PROVE Told' /\ TurnAhead'
    BY <1>1, <1>11 DEF UseAdapter, CallReturns, harnessVars, externalVars
  <1>12. ASSUME NEW a \in Adapters, ProcessDies(a) \/ DropAdapter(a) PROVE Told' /\ TurnAhead'
    <2>1. (Ending(a, "crashing") \/ Ending(a, "interrupting")) /\ start' = start
      BY <1>12 DEF ProcessDies, DropAdapter, harnessVars
    <2> QED BY <2>1, EndingTold DEF TurnAhead, At
  <1>13. CASE UNCHANGED vars
    BY <1>1, <1>13 DEF vars, harnessVars, externalVars
  <1> QED BY <1>3, <1>4, <1>5, <1>6, <1>7, <1>8, <1>9, <1>10, <1>11, <1>12, <1>13
          DEF Next, StartGoesOn, PrepareModeBRuntime

(* Steps that leave the events alone.                                      *)
LEMMA OtherStreams ==
    ASSUME Streams, Room, UNCHANGED eventVars
    PROVE  Streams' /\ Room'
  BY DEF Streams, Room, eventVars, PendingEvents

LEMMA ConvertStreams ==
    ASSUME Streams, NEW e \in Event, Convert(e)
    PROVE  delivered' \subseteq Event /\ refused' \subseteq Event
  BY DEF Convert, Streams

(* The events of a run that is registered leave the buffer.                *)
LEMMA RegisterStreams ==
    ASSUME Types, Begun, Streams, Room, RegisterRun
    PROVE  Streams' /\ Room'
  <1> DEFINE x == start.run
  <1>1. /\ x \in Runs /\ pending \in [Runs -> Seq(Event)] /\ pending[x] \in Seq(Event)
        /\ replay \in Seq(Event)
    BY DEF RegisterRun, Begun, At, Room, Streams
  <1>2. /\ replay' = replay \o pending[x] /\ pending' = [pending EXCEPT ![x] = <<>>]
        /\ permit' \in BOOLEAN /\ UNCHANGED <<channel, consumer, delivered, refused>>
    BY DEF RegisterRun, Streams
  <1>3. <<>> \in Seq(Event) /\ Len(<<>>) = 0
    OBVIOUS
  <1>4. /\ pending' \in [Runs -> Seq(Event)] /\ pending'[x] = <<>>
        /\ \A r \in Runs : r # x => pending'[r] = pending[r]
    BY <1>1, <1>2, <1>3
  <1>5. /\ EventsIn(pending) \in Nat /\ EventsIn(pending') \in Nat
        /\ EventsIn(pending') + Len(pending[x]) = EventsIn(pending) + Len(pending'[x])
    BY <1>1, <1>4, CountDiffers
  <1>6. EventsIn(pending') <= EventsIn(pending)
    BY <1>1, <1>3, <1>4, <1>5
  <1>7. PendingEvents' = EventsIn(pending') /\ PendingEvents = EventsIn(pending)
    BY DEF PendingEvents
  <1>8. Room'
    <2>1. PendingCapacity \in Nat
      BY HarnessAssumption
    <2> QED BY <1>2, <1>4, <1>5, <1>6, <1>7, <2>1 DEF Room
  <1>9. replay' \in Seq(Event)
    BY <1>1, <1>2
  <1> QED BY <1>2, <1>8, <1>9 DEF Streams

(* An event of a run that is not registered is kept, and there is room.    *)
LEMMA RouteStreams ==
    ASSUME Types, Streams, Room, Route
    PROVE  Streams' /\ Room'
  <1> DEFINE e == consumer.event
  <1>1. /\ consumer.step = "received" /\ e \in Event /\ consumer' = NoEvent
        /\ UNCHANGED <<channel, replay, permit>>
    BY DEF Route, Streams
  <1>2. NoEvent \in Consumer /\ NoEvent.step = "idle" /\ NoEvent.event = None
    BY DEF NoEvent, Consumer
  <1>3. CASE Convert(e) /\ pending' = pending
    <2>1. delivered' \subseteq Event /\ refused' \subseteq Event
      BY <1>1, <1>3, ConvertStreams
    <2> QED BY <1>1, <1>2, <1>3, <2>1 DEF Streams, Room, PendingEvents
  <1>4. CASE pending' = [pending EXCEPT ![e.run] = Append(@, e)] /\ UNCHANGED <<delivered, refused>>
    <2>1. /\ e.run \in Runs /\ pending \in [Runs -> Seq(Event)]
          /\ PendingEvents < PendingCapacity
      BY <1>1 DEF Event, Room
    <2>2. pending[e.run] \in Seq(Event)
      BY <2>1
    <2>3. /\ Append(pending[e.run], e) \in Seq(Event)
          /\ Len(Append(pending[e.run], e)) = Len(pending[e.run]) + 1
      BY <1>1, <2>2
    <2>4. /\ pending' \in [Runs -> Seq(Event)] /\ pending'[e.run] = Append(pending[e.run], e)
          /\ \A r \in Runs : r # e.run => pending'[r] = pending[r]
      BY <1>4, <2>1, <2>3
    <2>5. /\ EventsIn(pending) \in Nat /\ EventsIn(pending') \in Nat
          /\ EventsIn(pending') + Len(pending[e.run]) = EventsIn(pending) + Len(pending'[e.run])
      BY <2>1, <2>4, CountDiffers
    <2>6. EventsIn(pending') = EventsIn(pending) + 1
      <3>1. Len(pending[e.run]) \in Nat /\ Len(pending'[e.run]) = Len(pending[e.run]) + 1
        BY <2>2, <2>3, <2>4
      <3>2. ASSUME NEW i \in Nat, NEW j \in Nat, NEW k \in Nat, i + k = j + (k + 1)
            PROVE  i = j + 1
        BY <3>2
      <3>3. EventsIn(pending') + Len(pending[e.run]) = EventsIn(pending) + (Len(pending[e.run]) + 1)
        BY <2>5, <3>1
      <3> HIDE DEF e
      <3> QED BY <2>5, <3>1, <3>2, <3>3
    <2>7. PendingEvents' <= PendingCapacity
      <3>1. PendingCapacity \in Nat
        BY HarnessAssumption
      <3> QED BY <2>1, <2>5, <2>6, <3>1 DEF PendingEvents
    <2> QED BY <1>1, <1>2, <1>4, <2>4, <2>7 DEF Streams, Room
  <1> QED BY <1>3, <1>4 DEF Route

LEMMA NextEventStreams ==
    ASSUME Types, Streams, Room, NextEvent
    PROVE  Streams' /\ Room'
  <1>1. CASE Route
    BY <1>1, RouteStreams
  <1>2. CASE PopReplay
    <2>1. /\ Head(replay) \in Event /\ Tail(replay) \in Seq(Event)
      BY <1>2 DEF PopReplay, Streams
    <2>2. delivered' \subseteq Event /\ refused' \subseteq Event
      BY <1>2, <2>1, ConvertStreams DEF PopReplay
    <2>3. replay' = Tail(replay) /\ UNCHANGED <<channel, pending, permit, consumer>>
      BY <1>2 DEF PopReplay
    <2> QED BY <2>1, <2>2, <2>3 DEF Streams, Room, PendingEvents
  <1>3. CASE NothingToReplay \/ LookAtPending
    <2>1. PICK step \in {"looking", "full", "listening"} :
              /\ consumer' = [consumer EXCEPT !.step = step]
              /\ step = "listening" => ~(PendingEvents >= PendingCapacity)
      BY <1>3 DEF NothingToReplay, LookAtPending
    <2>2. /\ UNCHANGED <<channel, pending, replay, permit, delivered, refused>>
          /\ consumer.step # "received" /\ consumer \in Consumer
      BY <1>3 DEF NothingToReplay, LookAtPending, Streams
    <2>3. /\ consumer' \in Consumer /\ consumer'.step = step
          /\ consumer'.event = consumer.event
      BY <2>1, <2>2 DEF Consumer
    <2>4. PendingEvents \in Nat /\ PendingCapacity \in Nat
      <3>1. CASE Runs = {}
        <4>1. MaxRuns = 0
          BY <3>1, HarnessAssumption DEF Runs
        <4>2. PICK f : EventsIn(pending) = f[MaxRuns] /\ f[0] = 0
          BY CountDefined
        <4> QED BY <4>1, <4>2, HarnessAssumption DEF PendingEvents
      <3>2. CASE Runs # {}
        <4>1. PICK x \in Runs : TRUE
          BY <3>2
        <4>2. pending \in [Runs -> Seq(Event)]
          BY DEF Room
        <4>3. EventsIn(pending) \in Nat
          BY <4>1, <4>2, CountDiffers
        <4> QED BY <4>3, HarnessAssumption DEF PendingEvents
      <3> QED BY <3>1, <3>2
    <2>5. PendingEvents' = PendingEvents
      BY <2>2 DEF PendingEvents
    <2>6. Streams'
      BY <2>1, <2>2, <2>3 DEF Streams
    <2>7. Room'
      BY <2>1, <2>2, <2>3, <2>4, <2>5 DEF Room
    <2> QED BY <2>6, <2>7
  <1>4. CASE WakeUp
    <2>1. /\ consumer' = NoEvent /\ permit' = FALSE
          /\ UNCHANGED <<channel, pending, replay, delivered, refused>>
      BY <1>4 DEF WakeUp
    <2>2. NoEvent \in Consumer /\ NoEvent.step = "idle" /\ NoEvent.event = None
      BY DEF NoEvent, Consumer
    <2> QED BY <2>1, <2>2 DEF Streams, Room, PendingEvents
  <1>5. CASE Receive
    <2>1. /\ consumer.step = "listening"
          /\ consumer' = [step |-> "received", event |-> Head(channel)]
          /\ channel # <<>> /\ channel \in Seq(Event) /\ channel' = Tail(channel)
          /\ Len(channel) <= ChannelCapacity /\ ChannelCapacity \in Nat
          /\ UNCHANGED <<pending, replay, permit, delivered, refused>>
      BY <1>5, HarnessAssumption DEF Receive, Streams
    <2>2. /\ Head(channel) \in Event /\ channel' \in Seq(Event)
          /\ Len(channel') <= ChannelCapacity
      BY <2>1
    <2>3. /\ consumer' \in Consumer /\ consumer'.step = "received"
          /\ consumer'.event \in Event
      BY <2>1, <2>2 DEF Consumer
    <2> QED BY <2>1, <2>2, <2>3 DEF Streams, Room, PendingEvents
  <1> QED BY <1>1, <1>2, <1>3, <1>4, <1>5 DEF NextEvent

(* The channel takes an event only while it has room.                      *)
LEMMA EmitStreams ==
    ASSUME Types, Told, Streams, Room, NEW r \in Runs, Emit(r)
    PROVE  Streams' /\ Room'
  <1>1. PICK kind \in Kinds :
            channel' = Append(channel, [run |-> r, n |-> turn[r].told + 1, kind |-> kind])
    BY DEF Emit, Kinds
  <1>2. /\ Len(channel) < ChannelCapacity /\ turn[r].state # "over"
        /\ UNCHANGED <<pending, replay, permit, consumer, delivered, refused>>
    BY DEF Emit
  <1>3. turn[r].told \in Nat /\ MaxProgress \in Nat /\ ChannelCapacity \in Nat
    BY HarnessAssumption DEF Types, AnyTurn
  <1>4. turn[r].told + 1 \in 1..(MaxProgress + 1)
    BY <1>2, <1>3 DEF Told
  <1> DEFINE e == [run |-> r, n |-> turn[r].told + 1, kind |-> kind]
  <1>5. e \in Event
    BY <1>4 DEF Event
  <1> HIDE DEF e
  <1>6. channel' = Append(channel, e)
    BY <1>1 DEF e
  <1>7. channel' \in Seq(Event) /\ Len(channel') <= ChannelCapacity
    BY <1>2, <1>3, <1>5, <1>6 DEF Streams
  <1> QED BY <1>2, <1>7 DEF Streams, Room, PendingEvents

LEMMA StreamsStep ==
    ASSUME Types, Begun, Told, Streams, Room, [Next]_vars
    PROVE  Streams' /\ Room'
  <1>1. CASE NextEvent
    BY <1>1, NextEventStreams
  <1>2. CASE RegisterRun
    BY <1>2, RegisterStreams
  <1>3. ASSUME NEW r \in Runs, Emit(r) PROVE Streams' /\ Room'
    BY <1>3, EmitStreams
  <1>4. CASE \/ \E r \in Runs, c \in Connections : BeginStart(r, c)
             \/ GetAdapter \/ StartFails \/ PrepareModeBRuntime \/ AccountStatus
             \/ StartSession \/ EvictIdleAdapter \/ StartTurn
    BY <1>4, OtherStreams DEF BeginStart, PrepareModeBRuntime, GetAdapter, StartFails,
           ResolveSecret, CheckGeneration, ProbeEnvironment, RemoveProvider, Shutdown,
           GetAdapterAgain, StartWithEnvironment, SetGeneration, AccountStatus,
           StartSession, EvictIdleAdapter, StartTurn
  <1>5. CASE \/ \E c \in Connections : AccountAdapter(c) \/ ChangeSettings(c)
             \/ \E r \in Runs : NativeRun(r)
             \/ \E a \in Adapters :
                    UseAdapter(a) \/ CallReturns(a) \/ ProcessDies(a) \/ DropAdapter(a)
    BY <1>5, OtherStreams DEF AccountAdapter, ChangeSettings, NativeRun, UseAdapter,
           CallReturns, ProcessDies, DropAdapter
  <1>6. CASE UNCHANGED vars
    BY <1>6, OtherStreams DEF vars
  <1> QED BY <1>1, <1>2, <1>3, <1>4, <1>5, <1>6 DEF Next, StartGoesOn

LEMMA EventsInit == Init => EventsInv
  <1> SUFFICES ASSUME Init PROVE EventsInv
    OBVIOUS
  <1>1. Told
    BY HarnessAssumption DEF Init, Told, NoTurn
  <1>2. TurnAhead
    BY DEF Init, TurnAhead, NoStart, At
  <1>3. Streams
    <2>1. NoEvent \in Consumer /\ NoEvent.step = "idle" /\ NoEvent.event = None
      BY DEF NoEvent, Consumer
    <2>2. <<>> \in Seq(Event) /\ Len(<<>>) <= ChannelCapacity
      BY HarnessAssumption
    <2> QED BY <2>1, <2>2 DEF Init, Streams
  <1>4. Room
    <2>1. pending = [r \in Runs |-> <<>>] /\ consumer.step = "idle"
      BY DEF Init, NoEvent
    <2>2. PendingEvents = 0
      BY <2>1, CountNothing DEF PendingEvents
    <2> QED BY <2>1, <2>2, HarnessAssumption DEF Room
  <1>5. Disturbed
    BY HarnessAssumption DEF Init, Disturbed
  <1> QED BY <1>1, <1>2, <1>3, <1>4, <1>5 DEF EventsInv

(* Every value is of its type at every step, however calls, crashes and    *)
(* events interleave: the channel and the buffer of early events never     *)
(* hold more than their capacity, though next_event measures the buffer    *)
(* under one lock and fills it under another.                              *)
THEOREM TypeCorrect == Spec => []TypeOK
  <1>1. Init => Types /\ Begun /\ EventsInv
    BY CredentialInit, EventsInit
  <1>2. Types /\ Begun /\ EventsInv /\ [Next]_vars => Types' /\ Begun' /\ EventsInv'
    BY TypesStep, ToldStep, StreamsStep, DisturbedStep DEF EventsInv
  <1>3. ASSUME Types, EventsInv PROVE TypeOK
    <2>1. ASSUME NEW r \in Runs PROVE turn[r] \in Turn
      <3>1. turn[r] \in AnyTurn
        BY <1>3 DEF Types
      <3>2. turn[r].told <= MaxProgress + 1 /\ turn[r].told \in Nat /\ MaxProgress \in Nat
        BY <1>3, <3>1, HarnessAssumption DEF EventsInv, Told, AnyTurn
      <3>3. turn[r].told \in 0..(MaxProgress + 1)
        BY <3>2
      <3> QED BY <3>1, <3>3 DEF AnyTurn, Turn
    <2>2. turn \in [Runs -> Turn]
      BY <1>3, <2>1 DEF Types
    <2>3. consumer.step \in {"idle", "looking", "full", "listening", "received"}
      BY <1>3 DEF EventsInv, Streams, Consumer
    <2> QED BY <1>3, <2>2, <2>3 DEF Types, EventsInv, Streams, Room, Disturbed, TypeOK
  <1> QED BY <1>1, <1>2, <1>3, PTL DEF Spec

=============================================================================
