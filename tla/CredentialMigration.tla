-------------------------- MODULE CredentialMigration --------------------------
(***************************************************************************)
(* The secrets of an installation over its launches (macos.rs): at each    *)
(* launch migrate_interim_secrets moves what the interim releases kept in  *)
(* secrets.json into the keychain, as far as it gets; then the broker is   *)
(* built and the application sets credentials and stores connections until *)
(* it is left or killed.                                                   *)
(*                                                                         *)
(* Every await of the migration is a step, so the process may be killed    *)
(* between any two.  Nothing else runs during the migration: compose       *)
(* awaits it before it builds the broker and serves requests.              *)
(***************************************************************************)
EXTENDS CredentialBroker

CONSTANTS
    Installations   \* what a launch may find, with bounds for what follows

(* The bounds: processes killed, writes of config.toml and of the stores   *)
(* that fail, failures of the keychain, and requests of the callers.       *)
Bounds == [kill : Nat, config : Nat, file : Nat, keychain : Nat, ask : Nat]

Installation == [config : Config, files : [Files -> Store \cup {None}],
                 keychain : Entries, bounds : Bounds]

ASSUME InstallationAssumption ==
    /\ Installations \subseteq Installation
    /\ \A i \in Installations : /\ Valid(i.config)
                                 /\ i.config.backends[Legacy] \in {None, "plaintext"}

VARIABLES
    app,            \* where the launch is, with what it has read
    status,         \* what the last migration came to
    left            \* the bounds that are left

vars == <<configVars, backendVars, brokerVars, app, status, left>>

Steps == {"off", "look", "list", "begin", "check", "read", "peek", "mark", "copy",
          "verify", "record", "checkpoint", "purge", "zeroed", "finish", "build",
          "serving"}

(* The locals of migrate_interim_secrets: whether the file was there, the  *)
(* locators of the manifest to come, the manifest left to do, the locator  *)
(* and the secret at hand, and its receipt when its turn came.             *)
App == [step : Steps, exists : BOOLEAN, listed : SUBSET Locators,
        todo : SUBSET Locators, locator : Locators \cup {None},
        secret : Values \cup {None}, receipt : {"none", "copying", "copied"}]

Fresh == [step |-> "off", exists |-> FALSE, listed |-> {}, todo |-> {},
          locator |-> None, secret |-> None, receipt |-> "none"]

TypeOK ==
    /\ ConfigTypeOK
    /\ BackendsTypeOK
    /\ BrokerTypeOK
    /\ app \in App
    /\ status \in {"none", "ready", "pending"}
    /\ left \in Bounds

Init ==
    \E i \in Installations :
        /\ disk = i.config
        /\ memory = None
        /\ files = i.files
        /\ keychain = i.keychain
        /\ worker = [k \in Workers |-> Idle]
        /\ handles = [b \in BackendIds |-> None]
        /\ request = [t \in Clients |-> NoRequest]
        /\ promised = [p \in Places |-> [l \in Locators |->
               {IF p = "keychain" THEN i.keychain[l]
                ELSE IF i.files[p] = None THEN None ELSE i.files[p].entries[l]}]]
        /\ app = Fresh
        /\ status = "none"
        /\ left = i.bounds

Spend(kind) == left[kind] > 0 /\ left' = [left EXCEPT ![kind] = @ - 1]

At(step) == app.step = step

Goto(step) == app' = [app EXCEPT !.step = step]

(* The migration returns; the broker is built whatever it came to.         *)
Returns(result) == status' = result /\ Goto("build")

Reads == UNCHANGED <<configVars, backendVars, brokerVars, left>>

------------------------------------------------------------------------------
(* The launch, and the decisions at its start.                             *)

Launch ==
    /\ At("off")
    /\ Open
    /\ app' = [Fresh EXCEPT !.step = "look", !.exists = files["plaintext"] # None]
    /\ status' = "none"
    /\ UNCHANGED <<backendVars, brokerVars, left>>

(* configured_local_file_owns_path: another backend is at the same file.   *)
OwnsPath(config, except) ==
    /\ files["plaintext"] # None
    /\ \E b \in BackendIds \ except :
           config.backends[b] \in FileSettings /\ PlaceOf(config.backends[b]) = "plaintext"

(* No migration is recorded: nothing to do, or a reason not to begin.      *)
Interim(config) == config.backends[Legacy] = "plaintext"

MayBegin(config) ==
    /\ Interim(config)
    /\ config.backends[Target] \in {None, "keychain"}
    /\ ~OwnsPath(config, {Legacy})

LookForInterim ==
    /\ At("look") /\ memory.config.migration = None
    /\ IF MayBegin(memory.config)
       THEN /\ Goto(IF app.exists THEN "list" ELSE "begin")
            /\ UNCHANGED status
       ELSE Returns(IF ~Interim(memory.config) /\ ~app.exists THEN "ready" ELSE "pending")
    /\ Reads

(* source.locators, and the locators that connections name.                *)
Named(config) ==
    {config.bindings[c].locator : c \in
        {d \in Connections : /\ config.bindings[d] # None
                             /\ config.bindings[d].backend = Legacy}}

Readable == files["plaintext"] # None /\ files["plaintext"].owner = Legacy

Stored == {l \in Locators : Held("plaintext", l) # None}

List ==
    /\ At("list")
    /\ IF Readable
       THEN /\ app' = [app EXCEPT !.step = "begin",
                                  !.listed = Stored \cup Named(memory.config)]
            /\ UNCHANGED status
       ELSE Returns("pending")
    /\ Reads

(* A recorded migration is taken up where it was left.                     *)
TakeUp(config, exists) ==
    IF Cleaning(config)
    THEN IF OwnsPath(config, {}) THEN "return" ELSE IF exists THEN "purge" ELSE "finish"
    ELSE IF exists THEN "check"
    ELSE IF DOMAIN config.migration.receipts = {} THEN "checkpoint" ELSE "return"

TakesUp(config) ==
    LET step == TakeUp(config, app.exists) IN
    IF step = "return" THEN Returns("pending") ELSE Goto(step) /\ UNCHANGED status

Resume ==
    /\ At("look") /\ memory.config.migration # None
    /\ TakesUp(memory.config)
    /\ Reads

------------------------------------------------------------------------------
(* A change of the configuration: it is made and the migration goes on, or *)
(* its write fails, whatever that did to the file, and it returns.         *)

(* What the callers rely on moves with the bindings, once they are on the  *)
(* disk.                                                                   *)
Moved(config) ==
    IF Cleaning(config) /\ ~Cleaning(disk)
    THEN [promised EXCEPT !["keychain"] = [l \in Locators |->
             IF l \in DOMAIN config.migration.receipts
             THEN promised["plaintext"][l] ELSE promised["keychain"][l]]]
    ELSE promised

Changes(config) ==
    /\ Update(config, "written")
    /\ promised' = Moved(disk')
    /\ UNCHANGED <<backendVars, handles, request, left>>

ChangeFails(config) ==
    /\ Spend("config")
    /\ \E result \in WriteResults \ {"written"} : Update(config, result)
    /\ promised' = Moved(disk')
    /\ Returns("pending")
    /\ UNCHANGED <<backendVars, handles, request>>

Begun == WithMigration(memory.config, app.listed)

Begin ==
    /\ At("begin") /\ CanBegin(memory.config)
    /\ \/ Changes(Begun) /\ TakesUp(Begun)
       \/ ChangeFails(Begun)

(* The file may hold no locator that the manifest does not.                *)
Check ==
    LET manifest == DOMAIN memory.config.migration.receipts IN
    /\ At("check")
    /\ IF Readable /\ Stored \subseteq manifest
       THEN /\ app' = [app EXCEPT !.step = IF manifest = {} THEN "checkpoint" ELSE "read",
                                  !.todo = manifest]
            /\ UNCHANGED status
       ELSE Returns("pending")
    /\ Reads

------------------------------------------------------------------------------
(* One locator of the manifest.                                            *)

(* source.resolve; a locator without a secret ends the migration here.     *)
Read ==
    /\ At("read")
    /\ \E l \in app.todo :
           IF Held("plaintext", l) = None
           THEN Returns("pending")
           ELSE /\ app' = [app EXCEPT !.step = "peek", !.locator = l,
                                      !.todo = @ \ {l}, !.secret = Held("plaintext", l),
                                      !.receipt = memory.config.migration.receipts[l]]
                /\ UNCHANGED status
    /\ Reads

(* A mutant of Ours: a copy of which only the intention is recorded is     *)
(* another's.                                                              *)
OursOnceCopied == keychain[app.locator] = app.secret /\ app.receipt = "copied"

(* target.resolve: what is there already must be a copy that an earlier    *)
(* launch was known to be making, and what is not there must not be known  *)
(* as copied.                                                              *)
Ours == keychain[app.locator] = app.secret /\ app.receipt # "none"

AfterPeek ==
    IF keychain[app.locator] # None
    THEN IF Ours THEN "verify" ELSE "return"
    ELSE CASE app.receipt = "none"    -> "mark"
           [] app.receipt = "copying" -> "copy"
           [] app.receipt = "copied"  -> "return"

Peek ==
    /\ At("peek")
    /\ IF AfterPeek = "return" THEN Returns("pending") ELSE Goto(AfterPeek) /\ UNCHANGED status
    /\ Reads

Records(state, next) ==
    LET config == WithReceipt(memory.config, app.locator, state) IN
    /\ CanRecord(memory.config, app.locator, state)
    /\ \/ Changes(config) /\ Goto(next) /\ UNCHANGED status
       \/ ChangeFails(config)

Mark == At("mark") /\ Records("copying", "copy")

(* target.put without overwriting.                                         *)
Copy ==
    /\ At("copy") /\ keychain[app.locator] = None
    /\ keychain' = [keychain EXCEPT ![app.locator] = app.secret]
    /\ Goto("verify")
    /\ UNCHANGED <<configVars, files, worker, brokerVars, status, left>>

AfterLocator == IF app.todo = {} THEN "checkpoint" ELSE "read"

(* target.resolve again; a locator known as copied needs no receipt.       *)
Verify ==
    /\ At("verify")
    /\ IF keychain[app.locator] = app.secret
       THEN Goto(IF app.receipt = "copied" THEN AfterLocator ELSE "record") /\ UNCHANGED status
       ELSE Returns("pending")
    /\ Reads

Record == At("record") /\ Records("copied", AfterLocator)

(* The keychain is locked, denied or not available.                        *)
KeychainRefuses ==
    /\ At("peek") \/ At("copy") \/ At("verify")
    /\ Spend("keychain")
    /\ Returns("pending")
    /\ UNCHANGED <<configVars, backendVars, brokerVars>>

------------------------------------------------------------------------------
(* The end of the migration.                                               *)

(* A mutant of AfterCheckpoint: the file is left.                          *)
AfterCheckpointFinish == "finish"

(* The bindings move; then the file may go, unless another backend is at   *)
(* the same path.                                                          *)
AfterCheckpoint ==
    IF ~app.exists THEN "finish"
    ELSE IF OwnsPath(Checkpointed(memory.config), {}) THEN "return" ELSE "purge"

Checkpoint ==
    LET config == Checkpointed(memory.config) IN
    /\ At("checkpoint") /\ CanCheckpoint(memory.config)
    /\ \/ /\ Changes(config)
          /\ IF AfterCheckpoint = "return"
             THEN Returns("pending") ELSE Goto(AfterCheckpoint) /\ UNCHANGED status
       \/ ChangeFails(config)

(* purge_after_migration: zeroes over the file, if that can be done, and   *)
(* then its removal.  What it holds is not looked at.                      *)
Zero ==
    /\ At("purge")
    /\ \/ files' = [files EXCEPT !["plaintext"] = IF @ = None THEN None ELSE Zeroes]
       \/ UNCHANGED files
    /\ Goto("zeroed")
    /\ UNCHANGED <<configVars, keychain, worker, brokerVars, status, left>>

Remove ==
    /\ At("zeroed")
    /\ files' = [files EXCEPT !["plaintext"] = None]
    /\ Goto("finish")
    /\ UNCHANGED <<configVars, keychain, worker, brokerVars, status, left>>

(* It fails, before the removal or in the sync of the directory after it.  *)
PurgeFails ==
    /\ At("purge") \/ At("zeroed")
    /\ Spend("file")
    /\ Returns("pending")
    /\ \/ UNCHANGED files
       \/ At("zeroed") /\ files' = [files EXCEPT !["plaintext"] = None]
    /\ UNCHANGED <<configVars, keychain, worker, brokerVars>>

Finish ==
    LET config == WithoutMigration(memory.config) IN
    /\ At("finish") /\ CanFinish(memory.config)
    /\ \/ Changes(config) /\ Returns("ready")
       \/ ChangeFails(config)

------------------------------------------------------------------------------
(* The application, once it is composed.                                   *)

(* The broker refuses bindings that share a reference; then the launch     *)
(* fails.                                                                  *)
Build ==
    /\ At("build")
    /\ IF ReferencesAreDistinct(memory.config)
       THEN /\ Goto("serving") /\ handles' = Handles(memory.config)
            /\ UNCHANGED memory
       ELSE /\ app' = Fresh /\ memory' = None /\ UNCHANGED handles
    /\ UNCHANGED <<disk, backendVars, request, promised, status, left>>

(* put_connection, with the revision the caller has seen: an older one is  *)
(* a conflict.                                                             *)
PutConnection(c, b) ==
    LET config == WithConnection(memory.config, c, b) IN
    /\ At("serving") /\ ~Copying(memory.config)
    /\ Spend("ask")
    /\ Update(config, "written")
    /\ UNCHANGED <<backendVars, brokerVars, app, status>>

PutConnectionFails(c, b) ==
    LET config == WithConnection(memory.config, c, b) IN
    /\ At("serving") /\ ~Copying(memory.config)
    /\ Spend("config")
    /\ \E result \in WriteResults \ {"written"} : Update(config, result)
    /\ UNCHANGED <<backendVars, brokerVars, app, status>>

Requests(t) ==
    /\ At("serving")
    /\ Spend("ask")
    /\ \E c \in Connections :
        \/ \E v \in Values, overwrite \in BOOLEAN : Ask(t, c, "put", v, overwrite)
        \/ \E kind \in {"delete", "resolve"} : Ask(t, c, kind, None, FALSE)
    /\ UNCHANGED <<configVars, app, status>>

Serve ==
    /\ At("serving")
    /\ \/ \E t \in Clients : Dispatch(t) \/ GiveUpWaiting(t) \/ GiveUpWork(t)
       \/ \E k \in Workers : WorkerStep(k)
    /\ UNCHANGED <<configVars, app, status, left>>

ServeFails ==
    /\ At("serving")
    /\ \E k \in Workers :
           /\ WorkerFails(k)
           /\ Spend(IF worker[k].job.place = "keychain" THEN "keychain" ELSE "file")
    /\ UNCHANGED <<configVars, app, status>>

(* The process ends.  What its threads were asked for and not answered     *)
(* stays uncertain.                                                        *)
Ended ==
    /\ Close
    /\ Killed
    /\ request' = [t \in Clients |-> NoRequest]
    /\ promised' = [p \in Places |-> [l \in Locators |->
                       promised[p][l] \cup InFlight(p, l)]]
    /\ app' = Fresh
    /\ UNCHANGED <<files, keychain, handles, status>>

Kill == ~At("off") /\ Spend("kill") /\ Ended

(* The user leaves the application, and may start it again.                *)
Quit == At("serving") /\ Ended /\ UNCHANGED left

------------------------------------------------------------------------------
MigrationStep ==
    \/ Launch \/ LookForInterim \/ List \/ Resume \/ Begin \/ Check
    \/ Read \/ Peek \/ Mark \/ Copy \/ Verify \/ Record
    \/ Checkpoint \/ Zero \/ Remove \/ Finish \/ Build

Next ==
    \/ MigrationStep
    \/ KeychainRefuses
    \/ PurgeFails
    \/ \E c \in Connections, b \in Binding : PutConnection(c, b) \/ PutConnectionFails(c, b)
    \/ \E t \in Clients : Requests(t)
    \/ Serve
    \/ ServeFails
    \/ Kill
    \/ Quit

Spec == Init /\ [][Next]_vars

(* Every step of a launch is taken, and the user comes back after leaving. *)
FairSpec == Spec /\ WF_vars(MigrationStep) /\ WF_vars(Quit)

------------------------------------------------------------------------------
(* The properties.                                                         *)

(* Whatever fails, is killed or is given up, and however writes, purges    *)
(* and launches interleave: where a connection's binding on the disk leads *)
(* there is a secret that its callers have reason to expect, the last one  *)
(* acknowledged or one whose outcome they know to be uncertain, never an   *)
(* older one, another locator's or none.  An entry of the keychain that    *)
(* may not be set yet may come to have the secret that the migration finds *)
(* under its locator.                                                      *)
Arrives(place, l) ==
    /\ place = "keychain" /\ None \in promised[place][l]
    /\ Copying(disk) /\ l \in DOMAIN disk.migration.receipts
    /\ keychain[l] \in promised["plaintext"][l]

SecretsAreKept ==
    \A c \in Connections :
        LET b == disk.bindings[c]
            place == PlaceOf(disk.backends[b.backend]) IN
        b # None => Kept(place, b.locator) \/ Arrives(place, b.locator)

(* "Ready" means what the user reads in it: no store of the interim        *)
(* releases is left, not even zeroed, and no backend leads to one, neither *)
(* on the disk nor in the snapshot that requests are checked against.      *)
PlaintextIsGone ==
    status = "ready" =>
        /\ files["plaintext"] # None => files["plaintext"].owner \notin {Legacy, None}
        /\ ~Interim(disk)
        /\ memory # None => ~Interim(memory.config)

InterimIsOver == TypeOK /\ PlaintextIsGone

(* What no launch can get past without the user: a path or an id that is   *)
(* in use, a store that is not the interim one or is not configured, a     *)
(* locator without a secret, an entry of the keychain that is not the      *)
(* migration's copy, and an entry of the store that the manifest lacks.    *)
(* The last takes two faults at once: the write that began the migration   *)
(* reported a failure though it was made, and could not be read back, so   *)
(* that the process went on without it and let a credential be set.        *)
Manifest == IF Copying(disk) THEN DOMAIN disk.migration.receipts
                             ELSE Stored \cup Named(disk)

ReceiptOf(l) == IF Copying(disk) THEN disk.migration.receipts[l] ELSE "none"

Obstructed ==
    \/ disk.backends[Target] \notin {None, "keychain"}
    \/ OwnsPath(disk, {Legacy})
    \/ ~Cleaning(disk) /\ files["plaintext"] # None /\ ~(Interim(disk) /\ Readable)
    \/ Copying(disk) /\ ~(Stored \subseteq DOMAIN disk.migration.receipts)
    \/ /\ ~Cleaning(disk)
       /\ \E l \in Manifest :
              \/ Held("plaintext", l) = None
              \/ /\ keychain[l] # None
                 /\ ReceiptOf(l) = "none" \/ keychain[l] # Held("plaintext", l)
              \/ keychain[l] = None /\ ReceiptOf(l) = "copied"

(* A launch takes up what an earlier one left, at whatever point that was  *)
(* killed or failed: the user who starts the application again gets to     *)
(* "Ready" in the end, unless there is such an obstacle.                   *)
MigrationSettles == []<>(status = "ready" \/ Obstructed)
================================================================================
