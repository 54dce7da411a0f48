---------------------------- MODULE CredentialBroker ----------------------------
(***************************************************************************)
(* The broker (broker.rs) between the application's requests for a         *)
(* connection's secret and the backends: one keyed lock per secret         *)
(* reference, a deadline and a cancellation that both drop the work of a   *)
(* request, and an answer that says of a write whether it is done, was not *)
(* done, or is uncertain.                                                  *)
(*                                                                         *)
(* "promised" is what a caller may conclude from the answers: for each     *)
(* place and locator the values that reading it may show.                  *)
(***************************************************************************)
EXTENDS SecretBackends

VARIABLES
    handles,        \* the backends the broker was built with
    request,        \* what each caller is waiting for
    promised        \* the values that each entry may have

brokerVars == <<handles, request, promised>>

NoRequest == [step |-> "idle"]

(* Waiting for the keyed lock, or holding it while a thread works.         *)
Request == {NoRequest} \cup [step : {"lock", "work"}, job : Job]

BrokerTypeOK ==
    /\ handles \in [BackendIds -> Settings \cup {None}]
    /\ request \in [Clients -> Request]
    /\ promised \in [Places -> [Locators -> SUBSET (Values \cup {None})]]

(* validate_bindings: no two connections share a reference.                *)
ReferencesAreDistinct(config) ==
    \A c, d \in Connections :
        config.bindings[c] = config.bindings[d] /\ config.bindings[c] # None => c = d

(* build_broker: the backends of the configuration, and the keychain where *)
(* no backend has its id.                                                  *)
Handles(config) ==
    [config.backends EXCEPT ![Target] = IF @ = None THEN "keychain" ELSE @]

------------------------------------------------------------------------------
(* set_connection_credential looks at the snapshot once: the binding must  *)
(* not be to the source of a migration that is still copying.  The broker  *)
(* gets this one connection, with the binding it has just been given, and  *)
(* has a backend for it or not.                                            *)
JobFor(b, kind, v, overwrite) ==
    [kind |-> kind, backend |-> b.backend, place |-> PlaceOf(handles[b.backend]),
     locator |-> b.locator, value |-> v, overwrite |-> overwrite]

Ask(t, c, kind, v, overwrite) ==
    LET b == memory.config.bindings[c] IN
    /\ request[t] = NoRequest
    /\ b # None
    /\ kind # "resolve" => ~(Copying(memory.config) /\ b.backend = Legacy)
    /\ handles[b.backend] # None
    /\ request' = [request EXCEPT ![t] =
           [step |-> "lock", job |-> JobFor(b, kind, v, overwrite)]]
    /\ UNCHANGED <<backendVars, handles, promised>>

SameReference(i, j) == i.backend = j.backend /\ i.locator = j.locator

(* run: the keyed lock of the reference, and from then on the request      *)
(* counts as dispatched.                                                   *)
KeyedLockFree(job) ==
    \A u \in Clients :
        request[u].step = "work" => ~SameReference(request[u].job, job)

Dispatch(t) ==
    /\ request[t].step = "lock"
    /\ KeyedLockFree(request[t].job)
    /\ \E k \in Workers : Spawn(k, request[t].job, t)
    /\ request' = [request EXCEPT ![t].step = "work"]
    /\ UNCHANGED <<files, keychain, handles, promised>>

(* The deadline passes or the caller cancels.  Before the dispatch that is *)
(* TimedOut or Cancelled, a definite answer.                               *)
GiveUpWaiting(t) ==
    /\ request[t].step = "lock"
    /\ request' = [request EXCEPT ![t] = NoRequest]
    /\ UNCHANGED <<backendVars, handles, promised>>

(* After it, a write becomes UncertainWrite; the lock is released.         *)
Uncertain(job) ==
    IF job.kind = "resolve" THEN promised
    ELSE [promised EXCEPT ![job.place][job.locator] = @ \cup {job.value}]

GiveUpWork(t) ==
    /\ request[t].step = "work"
    /\ \E k \in Workers : Working(k) /\ worker[k].client = t /\ Abandon(k)
    /\ request' = [request EXCEPT ![t] = NoRequest]
    /\ promised' = Uncertain(request[t].job)
    /\ UNCHANGED <<files, keychain, handles>>

------------------------------------------------------------------------------
(* A thread's last step is the broker's answer, if the caller still waits. *)
Answered(t) ==
    request' = IF t = None THEN request ELSE [request EXCEPT ![t] = NoRequest]

(* Values that a write of the keychain which nobody waits for any longer   *)
(* may yet bring.                                                          *)
Outstanding(job) ==
    {worker[k].job.value : k \in
        {j \in Workers : /\ Working(j) /\ worker[j].client = None
                         /\ job.place = "keychain" /\ worker[j].job.place = "keychain"
                         /\ worker[j].job.locator = job.locator
                         /\ worker[j].job.kind # "resolve"}}

Done(k) ==
    LET job == worker[k].job IN
    /\ Answered(worker[k].client)
    /\ promised' = IF worker[k].client = None THEN promised
                   ELSE [promised EXCEPT ![job.place][job.locator] =
                             {job.value} \cup Outstanding(job)]

NotDone(k) == Answered(worker[k].client) /\ UNCHANGED promised

Unsure(k) ==
    /\ Answered(worker[k].client)
    /\ promised' = IF worker[k].client = None THEN promised ELSE Uncertain(worker[k].job)

(* A thread between two steps, or at its end.                              *)
Goes(k) ==
    /\ FileLock(k) \/ FileLoad(k) \/ KeychainFind(k)
    /\ UNCHANGED <<request, promised>>

Succeeds(k) == (FileSave(k, TRUE) \/ KeychainPut(k) \/ KeychainDelete(k)) /\ Done(k)

Answers(k) ==
    /\ FileCancelled(k) \/ FileRefused(k) \/ FileAnswer(k) \/ KeychainAnswer(k)
    /\ NotDone(k)

(* The environment fails a write, or the keychain is locked or denied.     *)
Fails(k) ==
    \/ /\ \/ FileClaimFails(k, FALSE) \/ FileInsecure(k)
          \/ FileSave(k, FALSE) \/ KeychainFails(k)
       /\ NotDone(k)
    \/ \E done \in BOOLEAN : (FileClaimFails(k, done) \/ FileSave(k, done)) /\ Unsure(k)

WorkerStep(k) == (Goes(k) \/ Succeeds(k) \/ Answers(k)) /\ UNCHANGED handles

WorkerFails(k) == Fails(k) /\ UNCHANGED handles

(* What a reader may find: what was promised, or what somebody is about to *)
(* be told.                                                                *)
InFlight(place, l) ==
    {worker[k].job.value : k \in
        {j \in Workers : /\ Working(j) /\ worker[j].client # None
                         /\ worker[j].job.place = place /\ worker[j].job.locator = l
                         /\ worker[j].job.kind # "resolve"}}

Kept(place, l) == Held(place, l) \in promised[place][l] \cup InFlight(place, l)
==================================================================================
