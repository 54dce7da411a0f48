----------------------- MODULE CredentialMigrationProofs -----------------------
(***************************************************************************)
(* What is proved about CredentialMigration, for every set of connections, *)
(* locators, secrets, callers, threads and installations.                  *)
(***************************************************************************)
EXTENDS CredentialMigration, TLAPS

(* The configurations that occur: the id of the interim releases is only   *)
(* that of their own store, and a migration that has come to its cleanup   *)
(* has no such backend any more.                                           *)
Sound(config) ==
    /\ config \in Config
    /\ config.backends[Legacy] \in {None, "plaintext"}
    /\ Cleaning(config) => ~Interim(config)

ConfigsAreSound ==
    /\ Sound(disk)
    /\ At("off") => memory = None
    /\ ~At("off") => memory \in [revision : Nat, config : Config] /\ Sound(memory.config)

(* A thread that has the lock of a store works on a store of its backend.  *)
LocksHold ==
    \A k \in Workers, f \in Files :
        HoldsLock(k, f) => files[f] \in Store /\ files[f].owner = worker[k].job.backend

(* Nothing else runs while the migration does.                             *)
MigrationIsAlone ==
    ~At("serving") => /\ worker = [k \in Workers |-> Idle]
                      /\ request = [t \in Clients |-> NoRequest]

(* What a step of the migration may rely on.                               *)
Recorded == {"check", "read", "peek", "mark", "copy", "verify", "record", "checkpoint"}

Looping == {"read", "peek", "mark", "copy", "verify", "record"}

StepsRely ==
    /\ At("look") => memory.config = disk
    /\ app.step \in {"look", "list", "begin", "purge"} \cup Recorded =>
           (app.exists <=> (files["plaintext"] # None))
    /\ app.step \in Recorded => memory.config.migration \in Migration
    /\ app.step \in Looping => app.todo \subseteq DOMAIN memory.config.migration.receipts
    /\ At("finish") => files["plaintext"] = None

(* Once the migration is ready, nothing leads back to its source.          *)
NoJobAtTheSource ==
    /\ \A t \in Clients : request[t].step # "idle" => request[t].job.backend # Legacy
    /\ \A k \in Workers : Working(k) => worker[k].job.backend # Legacy

NothingAtTheSource ==
    At("serving") => handles[Legacy] = None /\ NoJobAtTheSource

ReadyIsOver ==
    status = "ready" =>
        /\ app.step \in {"off", "build", "serving"}
        /\ files["plaintext"] # None => files["plaintext"].owner \notin {Legacy, None}
        /\ ~Interim(disk)
        /\ ~At("off") => ~Interim(memory.config)
        /\ NothingAtTheSource

IInv ==
    /\ TypeOK
    /\ ConfigsAreSound
    /\ LocksHold
    /\ MigrationIsAlone
    /\ StepsRely
    /\ ReadyIsOver

------------------------------------------------------------------------------
(* The changes of the configuration.                                       *)

LEMMA WithConnectionSound ==
    ASSUME NEW config, Sound(config), NEW c \in Connections, NEW b \in Binding
    PROVE  /\ Sound(WithConnection(config, c, b))
           /\ Interim(config) <=> Interim(WithConnection(config, c, b))
  <1> DEFINE bindings == [config.bindings EXCEPT ![c] = b]
             backends == [config.backends EXCEPT ![Target] =
                              IF b.backend = Target THEN "keychain" ELSE @]
  <1>1. config \in Config
    BY DEF Sound
  <1>2. bindings \in [Connections -> Binding \cup {None}]
    BY <1>1 DEF Config
  <1>3. /\ backends \in [BackendIds -> Settings \cup {None}]
        /\ backends[Legacy] = config.backends[Legacy]
    BY <1>1 DEF Config, Settings, BackendIds, Legacy, Target
  <1>4. /\ WithConnection(config, c, b) \in Config
        /\ WithConnection(config, c, b).backends = backends
        /\ WithConnection(config, c, b).migration = config.migration
    BY <1>1, <1>2, <1>3 DEF Config, WithConnection
  <1> QED BY <1>3, <1>4 DEF Sound, Interim, Cleaning

LEMMA WithMigrationSound ==
    ASSUME NEW config, Sound(config), NEW manifest \in SUBSET Locators
    PROVE  /\ Sound(WithMigration(config, manifest))
           /\ WithMigration(config, manifest).migration \in Migration
           /\ ~Cleaning(WithMigration(config, manifest))
  <1> DEFINE receipts == [l \in manifest |-> "none"]
             migration == [phase |-> "copying", receipts |-> receipts]
  <1>1. config \in Config
    BY DEF Sound
  <1>2. receipts \in Receipts
    <2>1. receipts \in [manifest -> {"none", "copying", "copied"}]
      OBVIOUS
    <2> QED BY <2>1 DEF Receipts
  <1>3. migration \in Migration
    BY <1>2 DEF Migration
  <1> HIDE DEF receipts
  <1>4. /\ WithMigration(config, manifest) \in Config
        /\ WithMigration(config, manifest).backends = config.backends
        /\ WithMigration(config, manifest).migration = migration
    BY <1>1, <1>3 DEF Config, WithMigration, receipts
  <1> QED BY <1>3, <1>4 DEF Sound, Cleaning

LEMMA WithReceiptSound ==
    ASSUME NEW config, Sound(config), config.migration \in Migration \ {None}, NEW l,
           NEW state \in {"copying", "copied"}
    PROVE  /\ Sound(WithReceipt(config, l, state))
           /\ WithReceipt(config, l, state).migration \in Migration
           /\ DOMAIN WithReceipt(config, l, state).migration.receipts
                  = DOMAIN config.migration.receipts
  <1> DEFINE old == config.migration
             receipts == [old.receipts EXCEPT ![l] = state]
             migration == [old EXCEPT !.receipts = receipts]
  <1>1. config \in Config
    BY DEF Sound
  <1>2. receipts \in Receipts /\ DOMAIN receipts = DOMAIN old.receipts
    <2>1. PICK manifest \in SUBSET Locators :
              old.receipts \in [manifest -> {"none", "copying", "copied"}]
      BY DEF Migration, Receipts
    <2>2. receipts \in [manifest -> {"none", "copying", "copied"}]
      BY <2>1
    <2> QED BY <2>1, <2>2 DEF Receipts
  <1> HIDE DEF receipts
  <1>3. migration \in Migration /\ migration.receipts = receipts /\ migration.phase = old.phase
    BY <1>2 DEF Migration
  <1> HIDE DEF migration
  <1>4. WithReceipt(config, l, state) = [config EXCEPT !.migration = migration]
    BY <1>1 DEF WithReceipt, migration, receipts, Config, Migration
  <1>5. /\ WithReceipt(config, l, state) \in Config
        /\ WithReceipt(config, l, state).backends = config.backends
        /\ WithReceipt(config, l, state).migration = migration
    BY <1>1, <1>3, <1>4 DEF Config
  <1>6. Cleaning(WithReceipt(config, l, state)) => Cleaning(config)
    BY <1>3, <1>5 DEF Cleaning
  <1> QED BY <1>2, <1>3, <1>5, <1>6 DEF Sound, Interim

LEMMA CheckpointedSound ==
    ASSUME NEW config, Sound(config), config.migration \in Migration
    PROVE  Sound(Checkpointed(config)) /\ ~Interim(Checkpointed(config))
  <1> DEFINE new == Checkpointed(config)
  <1>1. config \in Config
    BY DEF Sound
  <1>2. Rebound(config) \in [Connections -> Binding \cup {None}]
    <2>1. ASSUME NEW c \in Connections
          PROVE  [config.bindings[c] EXCEPT !.backend = Target] \in Binding
                 \/ config.bindings[c] = None
      BY <1>1 DEF Config, Binding, BackendIds
    <2>2. \A c \in Connections : config.bindings[c] \in Binding \cup {None}
      BY <1>1 DEF Config
    <2> QED BY <2>1, <2>2 DEF Rebound
  <1>3. new.backends \in [BackendIds -> Settings \cup {None}] /\ new.backends[Legacy] = None
    BY <1>1 DEF Config, Checkpointed, BackendIds, Settings, Legacy, Target
  <1>4. new.migration \in Migration
    BY DEF Checkpointed, Migration
  <1>5. new = [bindings |-> Rebound(config), backends |-> new.backends, migration |-> new.migration]
    BY DEF Checkpointed
  <1>6. new \in Config
    <2> HIDE DEF new
    <2> QED BY <1>2, <1>3, <1>4, <1>5 DEF Config
  <1>7. ~Interim(new)
    BY <1>3, ConfigAssumption DEF Interim, Settings, FileSettings
  <1> QED BY <1>3, <1>6, <1>7 DEF Sound

LEMMA WithoutMigrationSound ==
    ASSUME NEW config, Sound(config)
    PROVE  /\ Sound(WithoutMigration(config))
           /\ Interim(config) <=> Interim(WithoutMigration(config))
  <1>1. config \in Config
    BY DEF Sound
  <1>2. /\ WithoutMigration(config) \in Config
        /\ WithoutMigration(config).backends = config.backends
        /\ WithoutMigration(config).migration = None
    BY <1>1 DEF Config, WithoutMigration
  <1> QED BY <1>2 DEF Sound, Interim, Cleaning

(* A write leaves the old configuration or the new one in both places.     *)
LEMMA UpdateKeepsSound ==
    ASSUME Sound(disk), memory \in [revision : Nat, config : Config], Sound(memory.config),
           NEW config, Sound(config), NEW result \in WriteResults, Update(config, result)
    PROVE  /\ Sound(disk') /\ disk' \in {disk, config}
           /\ memory' \in [revision : Nat, config : Config]
           /\ Sound(memory'.config) /\ memory'.config \in {memory.config, disk, config}
           /\ result = "written" => disk' = config /\ memory'.config = config
  <1> DEFINE next == [revision |-> memory.revision + 1, config |-> config]
             read == [revision |-> memory.revision + 1, config |-> disk]
  <1>1. disk \in Config /\ config \in Config
    BY DEF Sound
  <1>2. /\ next \in [revision : Nat, config : Config]
        /\ read \in [revision : Nat, config : Config]
        /\ next.config = config /\ read.config = disk
    BY <1>1
  <1>3. [next EXCEPT !.config = ReadConfig] = read
    BY DEF ReadConfig
  <1>4. /\ disk' = (IF result = "unwritten" THEN disk ELSE config)
        /\ memory' = CASE result = "written"  -> next
                        [] result = "reported" -> IF config = memory.config THEN memory ELSE next
                        [] result = "unread"   -> memory
                        [] result = "unwritten" -> IF ReadConfig = memory.config THEN memory ELSE read
    BY <1>3 DEF Update
  <1> HIDE DEF next, read
  <1> QED BY <1>2, <1>4 DEF WriteResults

------------------------------------------------------------------------------
(* The blocking threads.                                                   *)

Row == [step : {"queued", "locked", "loaded", "found"}, job : Job,
        client : Clients \cup {None}, abandoned : BOOLEAN, copy : Entries]

LEMMA WorkerIsRow ==
    ASSUME worker \in [Workers -> Worker], NEW k \in Workers, Working(k)
    PROVE  worker[k] \in Row
  BY DEF Working, Worker, Idle, Row

LEMMA WorkersWithRow ==
    ASSUME worker \in [Workers -> Worker], NEW k \in Workers, NEW row \in Row \cup {Idle}
    PROVE  [worker EXCEPT ![k] = row] \in [Workers -> Worker]
  BY DEF Worker, Row

LEMMA EndsRow ==
    ASSUME worker \in [Workers -> Worker], NEW k \in Workers, Ends(k)
    PROVE  /\ worker' \in [Workers -> Worker]
           /\ \A j \in Workers : worker'[j] = IF j = k THEN Idle ELSE worker[j]
  BY DEF Ends, Worker

LEMMA MovesRow ==
    ASSUME worker \in [Workers -> Worker], NEW k \in Workers, Working(k),
           NEW s \in {"queued", "locked", "loaded", "found"}, Moves(k, s)
    PROVE  /\ worker' \in [Workers -> Worker]
           /\ \A j \in Workers \ {k} : worker'[j] = worker[j]
           /\ worker'[k].step = s /\ worker'[k].job = worker[k].job
  <1>1. worker[k] \in Row
    BY WorkerIsRow
  <1>2. /\ [worker[k] EXCEPT !.step = s] \in Row
        /\ [worker[k] EXCEPT !.step = s].job = worker[k].job
        /\ [worker[k] EXCEPT !.step = s].step = s
    BY <1>1 DEF Row
  <1>3. worker' = [worker EXCEPT ![k] = [worker[k] EXCEPT !.step = s]]
    BY DEF Moves
  <1>4. worker' \in [Workers -> Worker]
    BY <1>2, <1>3, WorkersWithRow
  <1> QED BY <1>2, <1>3, <1>4

LEMMA LoadsRow ==
    ASSUME worker \in [Workers -> Worker], NEW k \in Workers, Working(k),
           NEW s \in {"queued", "locked", "loaded", "found"}, NEW entries \in Entries,
           worker' = [worker EXCEPT ![k].step = s, ![k].copy = entries]
    PROVE  /\ worker' \in [Workers -> Worker]
           /\ \A j \in Workers \ {k} : worker'[j] = worker[j]
           /\ worker'[k].step = s /\ worker'[k].job = worker[k].job
  <1> DEFINE row == [worker[k] EXCEPT !.step = s, !.copy = entries]
  <1>1. worker[k] \in Row
    BY WorkerIsRow
  <1>2. row \in Row /\ row.job = worker[k].job /\ row.step = s
    BY <1>1 DEF Row
  <1>3. worker' = [worker EXCEPT ![k] = row]
    OBVIOUS
  <1> HIDE DEF row
  <1>4. row \in Row \cup {Idle}
    BY <1>2
  <1>5. [worker EXCEPT ![k] = row] \in [Workers -> Worker]
    BY ONLY <1>4, WorkersWithRow, worker \in [Workers -> Worker], k \in Workers
  <1> QED BY <1>2, <1>3, <1>5

(* A step of a thread leaves the jobs of the others alone, and a store     *)
(* that it changes is its backend's, then and before.                      *)
Stepped(k) ==
    /\ worker' \in [Workers -> Worker]
    /\ files' \in [Files -> Store \cup {None}]
    /\ keychain' \in Entries
    /\ \A j \in Workers : Working(j)' => Working(j) /\ worker'[j].job = worker[j].job
    /\ LocksHold'
    /\ \A f \in Files : files'[f] # files[f] => files'[f].owner = worker[k].job.backend

(* The last step of a thread, when it has not changed a store.             *)
LEMMA EndsStepped ==
    ASSUME BackendsTypeOK, LocksHold, NEW k \in Workers, Ends(k), UNCHANGED files,
           keychain' \in Entries
    PROVE  Stepped(k)
  <1>1. /\ worker' \in [Workers -> Worker]
        /\ \A j \in Workers : worker'[j] = IF j = k THEN Idle ELSE worker[j]
    BY EndsRow DEF BackendsTypeOK
  <1>2. \A j \in Workers : Working(j)' => Working(j) /\ worker'[j] = worker[j]
    BY <1>1 DEF Working, Idle
  <1>3. \A j \in Workers, f \in Files : HoldsLock(j, f)' => HoldsLock(j, f)
    BY <1>2 DEF HoldsLock
  <1>4. LocksHold'
    BY <1>2, <1>3 DEF LocksHold, HoldsLock
  <1> QED BY <1>1, <1>2, <1>4 DEF Stepped, BackendsTypeOK

(* A step on the way that changes no store and takes no lock.              *)
LEMMA GoesOnStepped ==
    ASSUME BackendsTypeOK, LocksHold, NEW k \in Workers, Working(k),
           worker' \in [Workers -> Worker],
           \A j \in Workers \ {k} : worker'[j] = worker[j],
           worker'[k].job = worker[k].job,
           \A f \in Files : HoldsLock(k, f)' => HoldsLock(k, f),
           UNCHANGED <<files, keychain>>
    PROVE  Stepped(k)
  <1>1. \A j \in Workers : Working(j)' => Working(j) /\ worker'[j].job = worker[j].job
    BY DEF Working
  <1>2. \A j \in Workers, f \in Files : HoldsLock(j, f)' => HoldsLock(j, f)
    BY DEF HoldsLock, Working
  <1>3. LocksHold'
    BY <1>1, <1>2 DEF LocksHold, HoldsLock
  <1> QED BY <1>1, <1>3 DEF Stepped, BackendsTypeOK

(* A thread that finds no store claims it, and nobody had its lock.        *)
LEMMA ClaimIsStore == ASSUME NEW b \in BackendIds PROVE Claimed(b) \in Store
  BY DEF Claimed, Store, NoEntries, Entries

LEMMA JobIsJob ==
    ASSUME BackendsTypeOK, NEW k \in Workers, Working(k)
    PROVE  worker[k] \in Row /\ worker[k].job \in Job
  BY WorkerIsRow DEF BackendsTypeOK, Row

LEMMA FileLockStepped ==
    ASSUME BackendsTypeOK, LocksHold, NEW k \in Workers, FileLock(k)
    PROVE  Working(k) /\ Stepped(k)
  <1>1. PICK f \in Files :
            /\ Doing(k, f, "queued") /\ LockFree(f) /\ Opens(f, worker[k].job.backend)
            /\ files' = [files EXCEPT ![f] =
                   IF @ = None THEN Claimed(worker[k].job.backend) ELSE @]
            /\ Moves(k, "locked") /\ UNCHANGED keychain
    BY DEF FileLock
  <1>2. Working(k) /\ worker[k].job.place = f
    BY <1>1 DEF Working, Doing
  <1>3. worker[k].job.backend \in BackendIds
    BY <1>2, JobIsJob DEF Job
  <1>4. /\ worker' \in [Workers -> Worker]
        /\ \A j \in Workers \ {k} : worker'[j] = worker[j]
        /\ worker'[k].step = "locked" /\ worker'[k].job = worker[k].job
    BY <1>1, <1>2, MovesRow DEF BackendsTypeOK
  <1>5. /\ files' \in [Files -> Store \cup {None}]
        /\ \A g \in Files \ {f} : files'[g] = files[g]
        /\ files'[f] = IF files[f] = None THEN Claimed(worker[k].job.backend) ELSE files[f]
    BY <1>1, <1>3, ClaimIsStore DEF BackendsTypeOK
  <1>6. files'[f] \in Store /\ files'[f].owner = worker[k].job.backend
    <2>1. files[f] # None => files[f] \in Store
      BY DEF BackendsTypeOK
    <2> QED BY <1>1, <1>3, <1>5, <2>1, ClaimIsStore DEF Opens, Claimed
  <1>7. \A j \in Workers : Working(j)' => Working(j) /\ worker'[j].job = worker[j].job
    BY <1>2, <1>4 DEF Working
  <1>8. ASSUME NEW j \in Workers, NEW g \in Files, HoldsLock(j, g)'
        PROVE  files'[g] \in Store /\ files'[g].owner = worker'[j].job.backend
    <2>1. CASE j = k
      <3>1. g = f
        BY <1>2, <1>4, <1>8, <2>1 DEF HoldsLock
      <3> QED BY <1>4, <1>6, <2>1, <3>1
    <2>2. CASE j # k
      <3>1. HoldsLock(j, g) /\ worker'[j] = worker[j]
        BY <1>4, <1>8, <2>2 DEF HoldsLock, Working
      <3>2. g # f
        BY <1>1, <3>1 DEF LockFree
      <3> QED BY <1>5, <3>1, <3>2 DEF LocksHold
    <2> QED BY <2>1, <2>2
  <1>9. LocksHold'
    BY <1>8 DEF LocksHold
  <1> QED BY <1>1, <1>2, <1>4, <1>5, <1>6, <1>7, <1>9 DEF Stepped, BackendsTypeOK

LEMMA FileClaimFailsStepped ==
    ASSUME BackendsTypeOK, LocksHold, NEW k \in Workers, NEW done \in BOOLEAN,
           FileClaimFails(k, done)
    PROVE  Working(k) /\ Stepped(k)
  <1>1. PICK f \in Files :
            /\ Doing(k, f, "queued") /\ LockFree(f)
            /\ files' = IF done THEN [files EXCEPT ![f] = Claimed(worker[k].job.backend)]
                                ELSE files
            /\ Ends(k) /\ UNCHANGED keychain
    BY DEF FileClaimFails
  <1>2. Working(k)
    BY <1>1 DEF Working, Doing
  <1>3. worker[k].job.backend \in BackendIds
    BY <1>2, JobIsJob DEF Job
  <1>4. CASE ~done
    BY <1>1, <1>2, <1>4, EndsStepped DEF BackendsTypeOK
  <1>5. CASE done
    <2>1. /\ worker' \in [Workers -> Worker]
          /\ \A j \in Workers : worker'[j] = IF j = k THEN Idle ELSE worker[j]
      BY <1>1, EndsRow DEF BackendsTypeOK
    <2>2. /\ files' \in [Files -> Store \cup {None}]
          /\ \A g \in Files \ {f} : files'[g] = files[g]
          /\ files'[f] = Claimed(worker[k].job.backend)
      BY <1>1, <1>3, <1>5, ClaimIsStore DEF BackendsTypeOK
    <2>3. files'[f].owner = worker[k].job.backend
      BY <2>2 DEF Claimed
    <2>4. \A j \in Workers : Working(j)' => Working(j) /\ worker'[j] = worker[j]
      BY <2>1 DEF Working, Idle
    <2>5. ASSUME NEW j \in Workers, NEW g \in Files, HoldsLock(j, g)'
          PROVE  files'[g] \in Store /\ files'[g].owner = worker'[j].job.backend
      <3>1. HoldsLock(j, g) /\ worker'[j] = worker[j]
        BY <2>4, <2>5 DEF HoldsLock
      <3>2. g # f
        BY <1>1, <3>1 DEF LockFree
      <3> QED BY <2>2, <3>1, <3>2 DEF LocksHold
    <2>6. LocksHold'
      BY <2>5 DEF LocksHold
    <2> QED BY <1>1, <1>2, <2>1, <2>2, <2>3, <2>4, <2>6 DEF Stepped, BackendsTypeOK
  <1> QED BY <1>4, <1>5

(* A store that is saved stays its owner's.                                *)
LEMMA FileSaveStepped ==
    ASSUME BackendsTypeOK, LocksHold, NEW k \in Workers, NEW done \in BOOLEAN,
           FileSave(k, done)
    PROVE  Working(k) /\ Stepped(k)
  <1>1. PICK f \in Files :
            /\ Doing(k, f, "loaded")
            /\ files' = IF done THEN [files EXCEPT ![f].entries = Saved(k)] ELSE files
            /\ Ends(k) /\ UNCHANGED keychain
    BY DEF FileSave
  <1>2. Working(k) /\ HoldsLock(k, f)
    BY <1>1 DEF Working, Doing, HoldsLock
  <1>3. files[f] \in Store /\ files[f].owner = worker[k].job.backend
    BY <1>2 DEF LocksHold
  <1>4. CASE ~done
    BY <1>1, <1>2, <1>4, EndsStepped DEF BackendsTypeOK
  <1>5. CASE done
    <2> DEFINE store == [files[f] EXCEPT !.entries = Saved(k)]
    <2>1. /\ worker' \in [Workers -> Worker]
          /\ \A j \in Workers : worker'[j] = IF j = k THEN Idle ELSE worker[j]
      BY <1>1, EndsRow DEF BackendsTypeOK
    <2>2. Saved(k) \in Entries
      <3>1. worker[k].copy \in Entries /\ worker[k].job.value \in Values \cup {None}
        BY <1>2, JobIsJob DEF Row, Job
      <3> QED BY <3>1 DEF Saved, Entries
    <2>3. store \in Store /\ store.owner = files[f].owner
      BY <1>3, <2>2 DEF Store
    <2>4. files' = [files EXCEPT ![f] = store]
      BY <1>1, <1>5
    <2> HIDE DEF store
    <2>5. /\ files' \in [Files -> Store \cup {None}]
          /\ \A g \in Files \ {f} : files'[g] = files[g]
          /\ files'[f] = store
      BY <2>3, <2>4 DEF BackendsTypeOK
    <2>6. \A j \in Workers : Working(j)' => Working(j) /\ worker'[j] = worker[j]
      BY <2>1 DEF Working, Idle
    <2>7. ASSUME NEW j \in Workers, NEW g \in Files, HoldsLock(j, g)'
          PROVE  files'[g] \in Store /\ files'[g].owner = worker'[j].job.backend
      <3>1. HoldsLock(j, g) /\ worker'[j] = worker[j]
        BY <2>6, <2>7 DEF HoldsLock
      <3>2. files[g] \in Store /\ files[g].owner = worker[j].job.backend
        BY <3>1 DEF LocksHold
      <3> QED BY <2>3, <2>5, <3>1, <3>2
    <2>8. LocksHold'
      BY <2>7 DEF LocksHold
    <2> QED BY <1>1, <1>2, <1>3, <2>1, <2>3, <2>5, <2>6, <2>8 DEF Stepped, BackendsTypeOK
  <1> QED BY <1>4, <1>5

LEMMA FileLoadStepped ==
    ASSUME BackendsTypeOK, LocksHold, NEW k \in Workers, FileLoad(k)
    PROVE  Working(k) /\ Stepped(k)
  <1>1. PICK f \in Files :
            /\ Doing(k, f, "locked")
            /\ worker' = [worker EXCEPT ![k].step = "loaded", ![k].copy = files[f].entries]
            /\ UNCHANGED <<files, keychain>>
    BY DEF FileLoad
  <1>2. Working(k) /\ HoldsLock(k, f) /\ worker[k].job.place = f
    BY <1>1 DEF Working, Doing, HoldsLock
  <1>3. files[f].entries \in Entries
    BY <1>2 DEF LocksHold, Store
  <1>4. /\ worker' \in [Workers -> Worker]
        /\ \A j \in Workers \ {k} : worker'[j] = worker[j]
        /\ worker'[k].job = worker[k].job
    BY <1>1, <1>2, <1>3, LoadsRow DEF BackendsTypeOK
  <1>5. \A g \in Files : HoldsLock(k, g)' => HoldsLock(k, g)
    BY <1>2, <1>4 DEF HoldsLock
  <1> QED BY <1>1, <1>2, <1>4, <1>5, GoesOnStepped

LEMMA KeychainFindStepped ==
    ASSUME BackendsTypeOK, LocksHold, NEW k \in Workers, KeychainFind(k)
    PROVE  Working(k) /\ Stepped(k)
  <1>1. /\ Working(k) /\ worker[k].job.place = "keychain" /\ keychain \in Entries
        /\ worker' = [worker EXCEPT ![k].step = "found", ![k].copy = keychain]
        /\ UNCHANGED <<files, keychain>>
    BY DEF KeychainFind, Working, Doing, BackendsTypeOK
  <1>2. /\ worker' \in [Workers -> Worker]
        /\ \A j \in Workers \ {k} : worker'[j] = worker[j]
        /\ worker'[k].step = "found" /\ worker'[k].job = worker[k].job
    BY <1>1, LoadsRow DEF BackendsTypeOK
  <1>3. \A g \in Files : HoldsLock(k, g)' => HoldsLock(k, g)
    BY <1>2 DEF HoldsLock
  <1> QED BY <1>1, <1>2, <1>3, GoesOnStepped

(* What the keychain gets is a secret, or nothing.                         *)
LEMMA KeychainStepped ==
    ASSUME BackendsTypeOK, LocksHold, NEW k \in Workers, KeychainPut(k) \/ KeychainDelete(k)
    PROVE  Working(k) /\ Stepped(k)
  <1>1. Working(k) /\ Ends(k) /\ UNCHANGED files
    BY DEF KeychainPut, KeychainDelete, Doing, Working
  <1>2. worker[k].job.value \in Values \cup {None}
    BY <1>1, JobIsJob DEF Job
  <1>3. keychain' \in Entries
    BY <1>2 DEF KeychainPut, KeychainDelete, BackendsTypeOK, Entries
  <1> QED BY <1>1, <1>3, EndsStepped

(* What ends without an effect.                                            *)
LEMMA AnswerStepped ==
    ASSUME BackendsTypeOK, LocksHold, NEW k \in Workers,
           \/ FileCancelled(k) \/ FileRefused(k) \/ FileInsecure(k) \/ FileAnswer(k)
           \/ KeychainAnswer(k) \/ KeychainFails(k)
    PROVE  Working(k) /\ Stepped(k)
  <1>1. Working(k) /\ Ends(k) /\ UNCHANGED <<files, keychain>>
    BY DEF FileCancelled, FileRefused, FileInsecure, FileAnswer, KeychainAnswer,
           KeychainFails, Doing, Working
  <1> QED BY <1>1, EndsStepped DEF BackendsTypeOK

------------------------------------------------------------------------------
(* The broker.                                                             *)

(* Answers settle requests, and what they add to the promises are values   *)
(* that the job brings, or brings in vain.                                 *)
Settled ==
    /\ BrokerTypeOK'
    /\ \A t \in Clients : request'[t] \in {request[t], NoRequest}
    /\ UNCHANGED handles

LEMMA AnsweredType ==
    ASSUME BrokerTypeOK, NEW t, Answered(t)
    PROVE  /\ request' \in [Clients -> Request]
           /\ \A u \in Clients : request'[u] \in {request[u], NoRequest}
  <1>1. NoRequest \in Request
    BY DEF Request
  <1> QED BY <1>1 DEF Answered, BrokerTypeOK

Promises == [Places -> [Locators -> SUBSET (Values \cup {None})]]

LEMMA PromisedType ==
    ASSUME NEW old \in Promises, NEW place, NEW l, NEW some \in SUBSET (Values \cup {None})
    PROVE  [old EXCEPT ![place][l] = some] \in Promises
  <1>1. CASE place \in Places
    <2>1. [old[place] EXCEPT ![l] = some] \in [Locators -> SUBSET (Values \cup {None})]
      BY <1>1 DEF Promises
    <2> QED BY <1>1, <2>1 DEF Promises
  <1>2. CASE place \notin Places
    BY <1>2 DEF Promises
  <1> QED BY <1>1, <1>2

LEMMA UncertainType ==
    ASSUME BrokerTypeOK, NEW job \in Job
    PROVE  Uncertain(job) \in Promises
  <1>1. promised \in Promises /\ job.place \in Places /\ job.locator \in Locators
        /\ job.value \in Values \cup {None}
    BY DEF BrokerTypeOK, Promises, Job
  <1>2. promised[job.place][job.locator] \cup {job.value} \in SUBSET (Values \cup {None})
    BY <1>1 DEF Promises
  <1> QED BY <1>1, <1>2, PromisedType DEF Uncertain

LEMMA OutstandingType ==
    ASSUME BackendsTypeOK, NEW job
    PROVE  Outstanding(job) \subseteq Values \cup {None}
  <1>1. \A j \in Workers : Working(j) => worker[j].job.value \in Values \cup {None}
    BY JobIsJob DEF Job
  <1> QED BY <1>1 DEF Outstanding

LEMMA SettledByAnswer ==
    ASSUME BackendsTypeOK, BrokerTypeOK, NEW k \in Workers, Working(k), UNCHANGED handles,
           Done(k) \/ NotDone(k) \/ Unsure(k)
    PROVE  Settled
  <1>1. Answered(worker[k].client)
    BY DEF Done, NotDone, Unsure
  <1>2. worker[k].job \in Job /\ promised \in Promises
    BY JobIsJob DEF BrokerTypeOK, Promises
  <1>3. promised' \in Promises
    <2>1. CASE Done(k)
      <3>1. {worker[k].job.value} \cup Outstanding(worker[k].job)
                \in SUBSET (Values \cup {None})
        BY <1>2, OutstandingType DEF Job
      <3> QED BY <1>2, <2>1, <3>1, PromisedType DEF Done
    <2>2. CASE NotDone(k)
      BY <1>2, <2>2 DEF NotDone
    <2>3. CASE Unsure(k)
      BY <1>2, <2>3, UncertainType DEF Unsure
    <2> QED BY <2>1, <2>2, <2>3
  <1> QED BY <1>1, <1>3, AnsweredType DEF Settled, BrokerTypeOK, Promises

(* Every step of a thread, with the broker's part.                         *)
LEMMA WorkerStepEffect ==
    ASSUME BackendsTypeOK, LocksHold, BrokerTypeOK, NEW k \in Workers,
           WorkerStep(k) \/ WorkerFails(k)
    PROVE  Working(k) /\ Stepped(k) /\ Settled
  <1>1. Working(k) /\ Stepped(k)
    BY FileLockStepped, FileLoadStepped, FileSaveStepped, FileClaimFailsStepped,
       KeychainFindStepped, KeychainStepped, AnswerStepped
       DEF WorkerStep, WorkerFails, Goes, Succeeds, Answers, Fails
  <1>2. \/ Done(k) \/ NotDone(k) \/ Unsure(k)
        \/ UNCHANGED <<request, promised>>
    BY DEF WorkerStep, WorkerFails, Goes, Succeeds, Answers, Fails
  <1>3. UNCHANGED handles
    BY DEF WorkerStep, WorkerFails
  <1>4. UNCHANGED <<request, promised>> => Settled
    <2>1. SUFFICES ASSUME request' = request, promised' = promised PROVE Settled
      OBVIOUS
    <2>2. BrokerTypeOK'
      BY <1>3, <2>1 DEF BrokerTypeOK
    <2> QED BY <1>3, <2>1, <2>2 DEF Settled
  <1> QED BY <1>1, <1>2, <1>3, <1>4, SettledByAnswer

(* So nothing that a thread does leads back to the source.                 *)
LEMMA WorkerStepAwayFromSource ==
    ASSUME BackendsTypeOK, LocksHold, BrokerTypeOK, NoJobAtTheSource,
           NEW k \in Workers, WorkerStep(k) \/ WorkerFails(k)
    PROVE  /\ NoJobAtTheSource'
           /\ \A f \in Files : files'[f] # files[f] => files'[f].owner \in BackendIds \ {Legacy}
  <1>1. Working(k) /\ Stepped(k) /\ Settled
    BY WorkerStepEffect
  <1>2. worker[k].job.backend \in BackendIds \ {Legacy}
    BY <1>1, JobIsJob DEF NoJobAtTheSource, Job
  <1>3. \A t \in Clients : request'[t].step # "idle" => request'[t].job.backend # Legacy
    BY <1>1 DEF NoJobAtTheSource, Settled, NoRequest
  <1>4. \A j \in Workers : Working(j)' => worker'[j].job.backend # Legacy
    BY <1>1 DEF NoJobAtTheSource, Stepped
  <1>5. \A f \in Files : files'[f] # files[f] => files'[f].owner \in BackendIds \ {Legacy}
    BY <1>1, <1>2 DEF Stepped
  <1> QED BY <1>3, <1>4, <1>5 DEF NoJobAtTheSource

(* A request is for a backend that the broker has.                         *)
LEMMA AskEffect ==
    ASSUME BrokerTypeOK, memory.config \in Config, NEW t \in Clients, NEW c \in Connections,
           NEW kind \in {"put", "delete", "resolve"}, NEW v \in Values \cup {None},
           NEW overwrite \in BOOLEAN, Ask(t, c, kind, v, overwrite)
    PROVE  /\ BrokerTypeOK' /\ UNCHANGED <<backendVars, handles, promised>>
           /\ handles[Legacy] = None /\ NoJobAtTheSource => NoJobAtTheSource'
  <1> DEFINE b   == memory.config.bindings[c]
             job == JobFor(b, kind, v, overwrite)
  <1>1. b \in Binding /\ handles[b.backend] # None
    BY DEF Ask, Config
  <1>2. b.backend \in BackendIds /\ b.locator \in Locators
    BY <1>1 DEF Binding
  <1>3. PlaceOf(handles[b.backend]) \in Places
    <2>1. handles[b.backend] \in Settings
      BY <1>1, <1>2 DEF BrokerTypeOK
    <2> QED BY <2>1 DEF PlaceOf, Settings, FileSettings, Places, Files
  <1>4. job \in Job /\ job.backend = b.backend
    BY <1>2, <1>3 DEF JobFor, Job
  <1>5. /\ request' = [request EXCEPT ![t] = [step |-> "lock", job |-> job]]
        /\ UNCHANGED <<backendVars, handles, promised>>
    BY DEF Ask
  <1> HIDE DEF job, b
  <1>6. [step |-> "lock", job |-> job] \in Request
    BY <1>4 DEF Request
  <1>7. BrokerTypeOK'
    BY <1>5, <1>6 DEF BrokerTypeOK
  <1>8. ASSUME handles[Legacy] = None, NoJobAtTheSource
        PROVE  NoJobAtTheSource'
    <2>1. job.backend # Legacy
      BY <1>1, <1>4, <1>8
    <2>2. worker' = worker
      BY <1>5 DEF backendVars
    <2>3. \A u \in Clients : request'[u].step # "idle" => request'[u].job.backend # Legacy
      BY <1>5, <1>8, <2>1 DEF NoJobAtTheSource, BrokerTypeOK
    <2> QED BY <1>8, <2>2, <2>3 DEF NoJobAtTheSource, Working
  <1> QED BY <1>5, <1>7, <1>8

LEMMA RequestIsRequest ==
    ASSUME BrokerTypeOK, NEW t \in Clients, request[t].step # "idle"
    PROVE  request[t].step \in {"lock", "work"} /\ request[t].job \in Job
  BY DEF BrokerTypeOK, Request, NoRequest

LEMMA DispatchEffect ==
    ASSUME BackendsTypeOK, LocksHold, BrokerTypeOK, NEW t \in Clients, Dispatch(t)
    PROVE  /\ BackendsTypeOK' /\ LocksHold' /\ BrokerTypeOK'
           /\ UNCHANGED <<files, keychain, handles, promised>>
           /\ NoJobAtTheSource => NoJobAtTheSource'
  <1> DEFINE job == request[t].job
             row == [step |-> "queued", job |-> job, client |-> t, abandoned |-> FALSE,
                     copy |-> NoEntries]
             asked == [request[t] EXCEPT !.step = "work"]
  <1>1. PICK k \in Workers : ~Working(k) /\ worker' = [worker EXCEPT ![k] = row]
    BY DEF Dispatch, Spawn
  <1>2. /\ request[t].step = "lock" /\ request' = [request EXCEPT ![t] = asked]
        /\ UNCHANGED <<files, keychain, handles, promised>>
    BY DEF Dispatch
  <1>3. job \in Job
    BY <1>2, RequestIsRequest
  <1>4. row \in Row /\ row.step = "queued" /\ row.job = job
    <2>1. NoEntries \in Entries
      BY DEF NoEntries, Entries
    <2> QED BY <1>3, <2>1 DEF Row
  <1>5. asked \in Request /\ asked.job = job
    <2>1. request[t] \in [step : {"lock", "work"}, job : Job]
      BY <1>2 DEF BrokerTypeOK, Request, NoRequest
    <2> QED BY <2>1 DEF Request
  <1> HIDE DEF row, asked, job
  <1>6. BrokerTypeOK'
    BY <1>2, <1>5 DEF BrokerTypeOK
  <1>7. row \in Row \cup {Idle} /\ worker \in [Workers -> Worker]
    BY <1>4 DEF BackendsTypeOK
  <1>8. [worker EXCEPT ![k] = row] \in [Workers -> Worker]
    BY ONLY <1>7, WorkersWithRow, k \in Workers
  <1>9. /\ worker' \in [Workers -> Worker]
        /\ \A j \in Workers : worker'[j] = IF j = k THEN row ELSE worker[j]
    BY <1>1, <1>7, <1>8
  <1>10. BackendsTypeOK'
    BY <1>2, <1>9 DEF BackendsTypeOK
  <1>11. \A j \in Workers, f \in Files :
             HoldsLock(j, f)' => HoldsLock(j, f) /\ worker'[j] = worker[j]
    BY <1>4, <1>9 DEF HoldsLock, Working
  <1>12. LocksHold'
    BY <1>2, <1>11 DEF LocksHold
  <1>13. ASSUME NoJobAtTheSource PROVE NoJobAtTheSource'
    <2>1. job.backend # Legacy
      BY <1>2, <1>13 DEF NoJobAtTheSource, job
    <2>2. \A u \in Clients : request'[u].step # "idle" => request'[u].job.backend # Legacy
      BY <1>2, <1>5, <1>13, <2>1 DEF NoJobAtTheSource, BrokerTypeOK
    <2>3. \A j \in Workers : Working(j)' => worker'[j].job.backend # Legacy
      BY <1>4, <1>9, <1>13, <2>1 DEF NoJobAtTheSource, Working
    <2> QED BY <2>2, <2>3 DEF NoJobAtTheSource
  <1> QED BY <1>2, <1>6, <1>10, <1>12, <1>13

LEMMA GiveUpWaitingEffect ==
    ASSUME BrokerTypeOK, NEW t \in Clients, GiveUpWaiting(t)
    PROVE  /\ BrokerTypeOK' /\ UNCHANGED <<backendVars, handles>>
           /\ NoJobAtTheSource => NoJobAtTheSource'
  <1>1. /\ request' = [request EXCEPT ![t] = NoRequest]
        /\ UNCHANGED <<backendVars, handles, promised>>
    BY DEF GiveUpWaiting
  <1>2. BrokerTypeOK'
    BY <1>1 DEF BrokerTypeOK, Request
  <1>3. \A u \in Clients : request'[u] \in {request[u], NoRequest}
    BY <1>1 DEF BrokerTypeOK
  <1> QED BY <1>1, <1>2, <1>3 DEF NoJobAtTheSource, NoRequest, backendVars, Working

LEMMA GiveUpWorkEffect ==
    ASSUME BackendsTypeOK, LocksHold, BrokerTypeOK, NEW t \in Clients, GiveUpWork(t)
    PROVE  /\ BackendsTypeOK' /\ LocksHold' /\ BrokerTypeOK'
           /\ UNCHANGED <<files, keychain, handles>>
           /\ NoJobAtTheSource => NoJobAtTheSource'
  <1>1. PICK k \in Workers : Working(k) /\ Abandon(k)
    BY DEF GiveUpWork
  <1> DEFINE flag == worker[k].job.place \in Files
             row  == [worker[k] EXCEPT !.client = None, !.abandoned = flag]
  <1>2. worker[k] \in Row
    BY <1>1, JobIsJob
  <1>3. row \in Row /\ row.job = worker[k].job /\ row.step = worker[k].step
    <2>1. flag \in BOOLEAN
      OBVIOUS
    <2> HIDE DEF flag
    <2> QED BY <1>2, <2>1 DEF Row
  <1>4. worker' = [worker EXCEPT ![k] = row]
    BY <1>1 DEF Abandon
  <1> HIDE DEF row, flag
  <1>5. row \in Row \cup {Idle} /\ worker \in [Workers -> Worker]
    BY <1>3 DEF BackendsTypeOK
  <1>6. [worker EXCEPT ![k] = row] \in [Workers -> Worker]
    BY ONLY <1>5, WorkersWithRow, k \in Workers
  <1>7. \A j \in Workers : worker'[j].job = worker[j].job /\ worker'[j].step = worker[j].step
    BY <1>3, <1>4, <1>5
  <1>8. /\ request[t].step = "work" /\ request' = [request EXCEPT ![t] = NoRequest]
        /\ promised' = Uncertain(request[t].job)
        /\ UNCHANGED <<files, keychain, handles>>
    BY DEF GiveUpWork
  <1>9. BackendsTypeOK'
    BY <1>4, <1>6, <1>8 DEF BackendsTypeOK
  <1>10. LocksHold'
    BY <1>7, <1>8 DEF LocksHold, HoldsLock, Working
  <1>11. promised' \in Promises
    BY <1>8, RequestIsRequest, UncertainType
  <1>12. BrokerTypeOK'
    BY <1>8, <1>11 DEF BrokerTypeOK, Request, Promises
  <1>13. \A u \in Clients : request'[u] \in {request[u], NoRequest}
    BY <1>8 DEF BrokerTypeOK
  <1>14. NoJobAtTheSource => NoJobAtTheSource'
    BY <1>7, <1>13 DEF NoJobAtTheSource, Working, NoRequest
  <1> QED BY <1>8, <1>9, <1>10, <1>12, <1>14

------------------------------------------------------------------------------
(* Bounds and the position of the launch.                                  *)

LEMMA SpendType ==
    ASSUME left \in Bounds, NEW kind \in {"kill", "config", "file", "keychain", "ask"},
           Spend(kind)
    PROVE  left' \in Bounds
  <1>1. left[kind] \in Nat /\ left[kind] - 1 \in Nat
    BY DEF Bounds, Spend
  <1>2. left' = [left EXCEPT ![kind] = left[kind] - 1]
    BY DEF Spend
  <1>3. CASE kind = "kill"
    BY <1>1, <1>2, <1>3 DEF Bounds
  <1>4. CASE kind = "config"
    BY <1>1, <1>2, <1>4 DEF Bounds
  <1>5. CASE kind = "file"
    BY <1>1, <1>2, <1>5 DEF Bounds
  <1>6. CASE kind = "keychain"
    BY <1>1, <1>2, <1>6 DEF Bounds
  <1>7. CASE kind = "ask"
    BY <1>1, <1>2, <1>7 DEF Bounds
  <1> QED BY <1>3, <1>4, <1>5, <1>6, <1>7

LEMMA GotoType ==
    ASSUME app \in App, NEW step \in Steps, Goto(step)
    PROVE  /\ app' \in App /\ app'.step = step /\ app'.exists = app.exists
           /\ app'.todo = app.todo
  BY DEF Goto, App

------------------------------------------------------------------------------
(* The application that serves.                                            *)

(* A step of the broker or its threads, as the application makes it.       *)
LEMMA ServedKeeps ==
    ASSUME IInv, At("serving"), UNCHANGED <<configVars, app, status>>, left' \in Bounds,
           BackendsTypeOK', LocksHold', BrokerTypeOK', UNCHANGED handles,
           handles[Legacy] = None /\ NoJobAtTheSource =>
               /\ NoJobAtTheSource'
               /\ \A f \in Files : files'[f] # files[f]
                                        => files'[f].owner \in BackendIds \ {Legacy}
    PROVE  IInv'
  <1>1. disk' = disk /\ memory' = memory /\ app' = app /\ status' = status
    BY DEF configVars
  <1>2. TypeOK'
    BY <1>1 DEF IInv, TypeOK, ConfigTypeOK
  <1>3. ConfigsAreSound'
    BY <1>1 DEF IInv, ConfigsAreSound, At
  <1>4. MigrationIsAlone' /\ StepsRely'
    BY <1>1 DEF MigrationIsAlone, StepsRely, At, Recorded, Looping
  <1>5. ReadyIsOver'
    <2>1. SUFFICES ASSUME status = "ready" PROVE ReadyIsOver'
      BY <1>1 DEF ReadyIsOver
    <2>2. handles[Legacy] = None /\ NoJobAtTheSource /\ ~Interim(disk) /\ ~Interim(memory.config)
      BY <2>1 DEF IInv, ReadyIsOver, NothingAtTheSource, At
    <2>3. files["plaintext"] # None => files["plaintext"].owner \notin {Legacy, None}
      BY <2>1 DEF IInv, ReadyIsOver
    <2>4. files'["plaintext"] # None => files'["plaintext"].owner \notin {Legacy, None}
      BY <2>2, <2>3, ConfigAssumption DEF Files
    <2> QED BY <1>1, <2>2, <2>4 DEF ReadyIsOver, NothingAtTheSource, At, Interim
  <1> QED BY <1>2, <1>3, <1>4, <1>5 DEF IInv

LEMMA ServeKeeps == IInv /\ Serve => IInv'
  <1> SUFFICES ASSUME IInv, Serve PROVE IInv'
    OBVIOUS
  <1>1. /\ BackendsTypeOK /\ BrokerTypeOK /\ LocksHold /\ left \in Bounds /\ At("serving")
        /\ UNCHANGED <<configVars, app, status>> /\ left' \in Bounds
    BY DEF IInv, TypeOK, Serve
  <1>2. ASSUME NEW t \in Clients, Dispatch(t) PROVE IInv'
    BY <1>1, <1>2, DispatchEffect, ServedKeeps
  <1>3. ASSUME NEW t \in Clients, GiveUpWaiting(t) PROVE IInv'
    <2>1. BrokerTypeOK' /\ UNCHANGED <<backendVars, handles>>
          /\ (NoJobAtTheSource => NoJobAtTheSource')
      BY <1>1, <1>3, GiveUpWaitingEffect
    <2>2. BackendsTypeOK' /\ LocksHold' /\ UNCHANGED files
      BY <1>1, <2>1 DEF backendVars, BackendsTypeOK, LocksHold, HoldsLock, Working
    <2> QED BY <1>1, <2>1, <2>2, ServedKeeps
  <1>4. ASSUME NEW t \in Clients, GiveUpWork(t) PROVE IInv'
    BY <1>1, <1>4, GiveUpWorkEffect, ServedKeeps
  <1>5. ASSUME NEW k \in Workers, WorkerStep(k) PROVE IInv'
    <2>1. Stepped(k) /\ Settled
      BY <1>1, <1>5, WorkerStepEffect
    <2>2. BackendsTypeOK' /\ LocksHold' /\ BrokerTypeOK' /\ UNCHANGED handles
      BY <2>1 DEF Stepped, Settled, BackendsTypeOK
    <2> QED BY <1>1, <1>5, <2>2, WorkerStepAwayFromSource, ServedKeeps
  <1> QED BY <1>2, <1>3, <1>4, <1>5 DEF Serve

LEMMA ServeFailsKeeps == IInv /\ ServeFails => IInv'
  <1> SUFFICES ASSUME IInv, ServeFails PROVE IInv'
    OBVIOUS
  <1>1. /\ BackendsTypeOK /\ BrokerTypeOK /\ LocksHold /\ left \in Bounds /\ At("serving")
        /\ UNCHANGED <<configVars, app, status>>
    BY DEF IInv, TypeOK, ServeFails
  <1>2. PICK k \in Workers :
            WorkerFails(k) /\ Spend(IF worker[k].job.place = "keychain" THEN "keychain" ELSE "file")
    BY DEF ServeFails
  <1>3. left' \in Bounds
    BY <1>1, <1>2, SpendType
  <1>4. Stepped(k) /\ Settled
    BY <1>1, <1>2, WorkerStepEffect
  <1>5. BackendsTypeOK' /\ LocksHold' /\ BrokerTypeOK' /\ UNCHANGED handles
    BY <1>4 DEF Stepped, Settled, BackendsTypeOK
  <1> QED BY <1>1, <1>2, <1>3, <1>5, WorkerStepAwayFromSource, ServedKeeps

LEMMA RequestsKeeps == ASSUME IInv, NEW t \in Clients, Requests(t) PROVE IInv'
  <1>1. /\ BackendsTypeOK /\ BrokerTypeOK /\ LocksHold /\ left \in Bounds /\ At("serving")
        /\ UNCHANGED <<configVars, app, status>> /\ memory.config \in Config
    BY DEF IInv, TypeOK, Requests, ConfigsAreSound, Sound, At
  <1>2. left' \in Bounds
    BY <1>1, SpendType DEF Requests
  <1>3. PICK c \in Connections, kind \in {"put", "delete", "resolve"},
             v \in Values \cup {None}, overwrite \in BOOLEAN : Ask(t, c, kind, v, overwrite)
    <2>1. PICK c \in Connections :
              \/ \E v \in Values, overwrite \in BOOLEAN : Ask(t, c, "put", v, overwrite)
              \/ \E kind \in {"delete", "resolve"} : Ask(t, c, kind, None, FALSE)
      BY DEF Requests
    <2> QED BY <2>1
  <1>4. /\ BrokerTypeOK' /\ UNCHANGED <<backendVars, handles, promised>>
        /\ handles[Legacy] = None /\ NoJobAtTheSource => NoJobAtTheSource'
    BY <1>1, <1>3, AskEffect
  <1>5. BackendsTypeOK' /\ LocksHold' /\ UNCHANGED files
    BY <1>1, <1>4 DEF backendVars, BackendsTypeOK, LocksHold, HoldsLock, Working
  <1> QED BY <1>1, <1>2, <1>4, <1>5, ServedKeeps

------------------------------------------------------------------------------
(* The migration.                                                          *)

Migrating == app.step \in Steps \ {"off", "build", "serving"}

LEMMA NotReadyYet == ASSUME IInv, Migrating PROVE status # "ready"
  BY DEF IInv, ReadyIsOver, Migrating

LEMMA MigratingState ==
    ASSUME IInv, Migrating
    PROVE  /\ Sound(disk) /\ Sound(memory.config)
           /\ memory \in [revision : Nat, config : Config]
           /\ worker = [k \in Workers |-> Idle] /\ request = [t \in Clients |-> NoRequest]
           /\ BackendsTypeOK /\ BrokerTypeOK /\ app \in App /\ left \in Bounds
  BY DEF IInv, Migrating, ConfigsAreSound, MigrationIsAlone, At, TypeOK

(* What a step of the migration has to leave behind.                       *)
LEMMA MigrationKeeps ==
    ASSUME IInv, Migrating, UNCHANGED <<worker, handles, request>>,
           Sound(disk'), memory' \in [revision : Nat, config : Config], Sound(memory'.config),
           files' \in [Files -> Store \cup {None}], keychain' \in Entries,
           promised' \in Promises, left' \in Bounds,
           app' \in App, app'.step \in Steps \ {"off", "serving"}, StepsRely',
           status' \in {"none", "pending", "ready"},
           status' = "ready" => /\ app'.step = "build" /\ files'["plaintext"] = None
                                /\ ~Interim(disk') /\ ~Interim(memory'.config)
    PROVE  IInv'
  <1>1. worker' = [k \in Workers |-> Idle] /\ request' = [t \in Clients |-> NoRequest]
    BY MigratingState
  <1>2. BackendsTypeOK' /\ BrokerTypeOK'
    <2>1. BackendsTypeOK /\ BrokerTypeOK
      BY MigratingState
    <2> QED BY <2>1 DEF BackendsTypeOK, BrokerTypeOK, Promises
  <1>3. disk' \in Config
    BY DEF Sound
  <1>4. TypeOK'
    BY <1>2, <1>3 DEF TypeOK, ConfigTypeOK
  <1>5. ConfigsAreSound'
    BY DEF ConfigsAreSound, At
  <1>6. LocksHold' /\ MigrationIsAlone'
    BY <1>1 DEF LocksHold, HoldsLock, Working, Idle, MigrationIsAlone
  <1>7. ReadyIsOver'
    BY DEF ReadyIsOver, NothingAtTheSource, At
  <1> QED BY <1>4, <1>5, <1>6, <1>7 DEF IInv

LEMMA AtBuildNothingIsRelied == app'.step = "build" => StepsRely'
  BY DEF StepsRely, At, Recorded, Looping

LEMMA ReturnsType ==
    ASSUME app \in App, NEW result, Returns(result)
    PROVE  app' \in App /\ app'.step = "build" /\ StepsRely' /\ status' = result
  <1>1. app' \in App /\ app'.step = "build"
    BY GotoType DEF Returns, Steps
  <1> QED BY <1>1, AtBuildNothingIsRelied DEF Returns

(* A step that only reads.                                                 *)
LEMMA ReadsKeeps ==
    ASSUME IInv, Migrating, Reads, app' \in App, app'.step \in Steps \ {"off", "serving"},
           StepsRely', status' \in {status, "pending"}
    PROVE  IInv'
  <1>1. /\ disk' = disk /\ memory' = memory /\ files' = files /\ keychain' = keychain
        /\ promised' = promised /\ left' = left /\ UNCHANGED <<worker, handles, request>>
    BY DEF Reads, configVars, backendVars, brokerVars
  <1>2. status' \in {"none", "pending"}
    BY NotReadyYet DEF IInv, TypeOK
  <1>3. promised \in Promises /\ files \in [Files -> Store \cup {None}] /\ keychain \in Entries
    BY MigratingState DEF BrokerTypeOK, Promises, BackendsTypeOK
  <1> QED BY <1>1, <1>2, <1>3, MigratingState, MigrationKeeps

LEMMA ReadsAndReturnsKeeps ==
    ASSUME IInv, Migrating, Reads, Returns("pending")
    PROVE  IInv'
  <1>1. app' \in App /\ app'.step = "build" /\ StepsRely' /\ status' = "pending"
    BY MigratingState, ReturnsType
  <1> QED BY <1>1, ReadsKeeps DEF Steps

LEMMA MovedType ==
    ASSUME BrokerTypeOK, NEW config
    PROVE  Moved(config) \in Promises
  <1> DEFINE row == [l \in Locators |-> IF l \in DOMAIN config.migration.receipts
                                        THEN promised["plaintext"][l]
                                        ELSE promised["keychain"][l]]
  <1>1. promised \in Promises
    BY DEF BrokerTypeOK, Promises
  <1>2. row \in [Locators -> SUBSET (Values \cup {None})]
    BY <1>1 DEF Promises, Places, Files
  <1> HIDE DEF row
  <1>3. [promised EXCEPT !["keychain"] = row] \in Promises
    BY <1>1, <1>2 DEF Promises
  <1> QED BY <1>1, <1>3 DEF Moved, row

(* A step that changes the configuration.                                  *)
LEMMA ChangesKeeps ==
    ASSUME IInv, Migrating, NEW config, Sound(config), Changes(config),
           app' \in App, app'.step \in Steps \ {"off", "serving"}, StepsRely',
           status' \in {status, "pending", "ready"},
           status' = "ready" => app'.step = "build" /\ files["plaintext"] = None /\ ~Interim(config)
    PROVE  IInv'
  <1>1. /\ Sound(disk') /\ Sound(memory'.config) /\ memory' \in [revision : Nat, config : Config]
        /\ disk' = config /\ memory'.config = config
    <2>1. "written" \in WriteResults /\ Update(config, "written")
      BY DEF Changes, WriteResults
    <2> QED BY <2>1, MigratingState, UpdateKeepsSound
  <1>2. /\ files' = files /\ keychain' = keychain /\ left' = left
        /\ UNCHANGED <<worker, handles, request>>
    BY DEF Changes, backendVars
  <1>3. promised' \in Promises
    BY MigratingState, MovedType DEF Changes
  <1>4. status' \in {"none", "pending", "ready"}
    BY DEF IInv, TypeOK
  <1>5. files \in [Files -> Store \cup {None}] /\ keychain \in Entries
    BY MigratingState DEF BackendsTypeOK
  <1>6. status' = "ready" => app'.step = "build" /\ files["plaintext"] = None /\ ~Interim(config)
    OBVIOUS
  <1> QED BY <1>1, <1>2, <1>3, <1>4, <1>5, <1>6, MigratingState, MigrationKeeps

LEMMA ChangeFailsKeeps ==
    ASSUME IInv, Migrating, NEW config, Sound(config), ChangeFails(config)
    PROVE  IInv'
  <1>1. PICK result \in WriteResults \ {"written"} : Update(config, result)
    BY DEF ChangeFails
  <1>2. Sound(disk') /\ Sound(memory'.config) /\ memory' \in [revision : Nat, config : Config]
    BY <1>1, MigratingState, UpdateKeepsSound
  <1>3. /\ Spend("config") /\ promised' = Moved(disk') /\ Returns("pending")
        /\ files' = files /\ keychain' = keychain /\ UNCHANGED <<worker, handles, request>>
    BY DEF ChangeFails, backendVars
  <1>4. left' \in Bounds
    BY <1>3, MigratingState, SpendType
  <1>5. promised' \in Promises
    BY <1>3, MigratingState, MovedType
  <1>6. app' \in App /\ app'.step = "build" /\ StepsRely' /\ status' = "pending"
    BY <1>3, MigratingState, ReturnsType
  <1>7. files \in [Files -> Store \cup {None}] /\ keychain \in Entries
    BY MigratingState DEF BackendsTypeOK
  <1> QED BY <1>2, <1>3, <1>4, <1>5, <1>6, <1>7, MigrationKeeps DEF Steps

(* The first decisions.                                                    *)
LEMMA LookForInterimKeeps == IInv /\ LookForInterim => IInv'
  <1> SUFFICES ASSUME IInv, LookForInterim PROVE IInv'
    OBVIOUS
  <1>1. /\ At("look") /\ Migrating /\ Reads /\ memory.config = disk
        /\ app.exists <=> (files["plaintext"] # None)
    BY DEF LookForInterim, At, Migrating, Steps, IInv, StepsRely
  <1>2. CASE MayBegin(memory.config)
    <2> DEFINE next == IF app.exists THEN "list" ELSE "begin"
    <2>1. Goto(next) /\ UNCHANGED status
      BY <1>2 DEF LookForInterim
    <2>2. next \in {"list", "begin"}
      OBVIOUS
    <2> HIDE DEF next
    <2>3. app' \in App /\ app'.step = next /\ app'.exists = app.exists
      BY <2>1, <2>2, MigratingState, <1>1, GotoType DEF Steps
    <2>4. StepsRely'
      BY <1>1, <2>2, <2>3 DEF Reads, backendVars, StepsRely, At, Recorded, Looping
    <2> QED BY <1>1, <2>1, <2>2, <2>3, <2>4, ReadsKeeps DEF Steps
  <1>3. CASE ~MayBegin(memory.config)
    <2>1. CASE ~Interim(memory.config) /\ ~app.exists
      <3>1. Returns("ready")
        BY <1>3, <2>1 DEF LookForInterim
      <3>2. app' \in App /\ app'.step = "build" /\ StepsRely' /\ status' = "ready"
        BY <3>1, <1>1, MigratingState, ReturnsType
      <3>3. /\ disk' = disk /\ memory' = memory /\ files' = files /\ keychain' = keychain
            /\ promised' = promised /\ left' = left /\ UNCHANGED <<worker, handles, request>>
        BY <1>1 DEF Reads, configVars, backendVars, brokerVars
      <3>4. /\ promised \in Promises /\ files \in [Files -> Store \cup {None}]
            /\ keychain \in Entries
        BY <1>1, MigratingState DEF BrokerTypeOK, Promises, BackendsTypeOK
      <3>5. files["plaintext"] = None /\ ~Interim(disk)
        BY <1>1, <2>1
      <3> QED BY <1>1, <2>1, <3>2, <3>3, <3>4, <3>5, MigratingState, MigrationKeeps DEF Steps
    <2>2. CASE ~(~Interim(memory.config) /\ ~app.exists)
      <3>1. Returns("pending")
        BY <1>3, <2>2 DEF LookForInterim
      <3> QED BY <1>1, <3>1, ReadsAndReturnsKeeps
    <2> QED BY <2>1, <2>2
  <1> QED BY <1>2, <1>3

LEMMA ListKeeps == IInv /\ List => IInv'
  <1> SUFFICES ASSUME IInv, List PROVE IInv'
    OBVIOUS
  <1>1. Migrating /\ Reads /\ At("list")
    BY DEF List, At, Migrating, Steps
  <1>2. CASE ~Readable
    BY <1>1, <1>2, ReadsAndReturnsKeeps DEF List
  <1>3. CASE Readable
    <2> DEFINE names == Stored \cup Named(memory.config)
    <2>1. names \subseteq Locators
      <3>1. memory.config \in Config
        BY <1>1, MigratingState DEF Sound
      <3>2. Named(memory.config) \subseteq Locators
        BY <3>1 DEF Named, Config, Binding
      <3> QED BY <3>2 DEF Stored
    <2>2. app' = [app EXCEPT !.step = "begin", !.listed = names] /\ UNCHANGED status
      BY <1>3 DEF List
    <2> HIDE DEF names
    <2>3. app' \in App /\ app'.step = "begin" /\ app'.exists = app.exists
      BY <1>1, <2>1, <2>2, MigratingState DEF App, Steps
    <2>4. StepsRely'
      BY <1>1, <2>3 DEF IInv, Reads, backendVars, StepsRely, At, Recorded, Looping
    <2> QED BY <1>1, <2>2, <2>3, <2>4, ReadsKeeps DEF Steps
  <1> QED BY <1>2, <1>3

(* Where a recorded migration is taken up.                                 *)
LEMMA TakesUpType ==
    ASSUME IInv, Migrating, app.exists <=> (files["plaintext"] # None), UNCHANGED files,
           NEW config, config.migration \in Migration, memory'.config = config, TakesUp(config)
    PROVE  /\ app' \in App /\ app'.step \in Steps \ {"off", "serving"} /\ StepsRely'
           /\ status' \in {status, "pending"}
  <1> DEFINE next == TakeUp(config, app.exists)
  <1>1. next \in {"return", "purge", "finish", "check", "checkpoint"}
        /\ (next = "finish" => ~app.exists)
    BY DEF TakeUp
  <1>2. CASE next = "return"
    <2>1. Returns("pending")
      BY <1>2 DEF TakesUp
    <2> QED BY <2>1, MigratingState, ReturnsType DEF Steps
  <1>3. CASE next # "return"
    <2>1. Goto(next) /\ UNCHANGED status
      BY <1>3 DEF TakesUp
    <2> HIDE DEF next
    <2>2. app' \in App /\ app'.step = next /\ app'.exists = app.exists
      BY <1>1, <1>3, <2>1, MigratingState, GotoType DEF Steps
    <2>3. StepsRely'
      BY <1>1, <1>3, <2>2 DEF StepsRely, At, Recorded, Looping
    <2> QED BY <1>1, <1>3, <2>1, <2>2, <2>3 DEF Steps
  <1> QED BY <1>2, <1>3

LEMMA ResumeKeeps == IInv /\ Resume => IInv'
  <1> SUFFICES ASSUME IInv, Resume PROVE IInv'
    OBVIOUS
  <1>1. /\ At("look") /\ Migrating /\ Reads /\ TakesUp(memory.config)
        /\ memory.config.migration # None
        /\ app.exists <=> (files["plaintext"] # None)
    BY DEF Resume, At, Migrating, Steps, IInv, StepsRely
  <1> DEFINE config == memory.config
  <1>2. config.migration \in Migration
    <2>1. config \in Config
      BY <1>1, MigratingState DEF Sound
    <2> QED BY <1>1, <2>1 DEF Config
  <1>3. files' = files /\ memory'.config = config
    BY <1>1 DEF Reads, configVars, backendVars
  <1>4. TakesUp(config)
    BY <1>1
  <1> HIDE DEF config
  <1>5. /\ app' \in App /\ app'.step \in Steps \ {"off", "serving"} /\ StepsRely'
        /\ status' \in {status, "pending"}
    BY <1>1, <1>2, <1>3, <1>4, TakesUpType
  <1> QED BY <1>1, <1>5, ReadsKeeps

LEMMA BeginKeeps == IInv /\ Begin => IInv'
  <1> SUFFICES ASSUME IInv, Begin PROVE IInv'
    OBVIOUS
  <1>1. At("begin") /\ Migrating /\ (app.exists <=> (files["plaintext"] # None))
    BY DEF Begin, At, Migrating, Steps, IInv, StepsRely
  <1>2. Sound(Begun) /\ Begun.migration \in Migration
    <2>1. app.listed \in SUBSET Locators
      BY <1>1, MigratingState DEF App
    <2> QED BY <1>1, <2>1, MigratingState, WithMigrationSound DEF Begun
  <1>3. CASE Changes(Begun) /\ TakesUp(Begun)
    <2>1. files' = files
      BY <1>3 DEF Changes, backendVars
    <2>2. memory'.config = Begun
      <3>1. "written" \in WriteResults /\ Update(Begun, "written")
        BY <1>3 DEF Changes, WriteResults
      <3> QED BY <1>1, <1>2, <3>1, MigratingState, UpdateKeepsSound
    <2>3. /\ app' \in App /\ app'.step \in Steps \ {"off", "serving"} /\ StepsRely'
          /\ status' \in {status, "pending"}
      BY <1>1, <1>2, <1>3, <2>1, <2>2, TakesUpType
    <2>4. CASE status' = status
      <3>1. status' # "ready"
        BY <1>1, <2>4, NotReadyYet
      <3> QED BY <1>1, <1>2, <1>3, <2>3, <2>4, <3>1, ChangesKeeps
    <2>5. CASE status' = "pending"
      <3> HIDE DEF Begun
      <3> QED BY <1>1, <1>2, <1>3, <2>3, <2>5, ChangesKeeps
    <2> QED BY <2>3, <2>4, <2>5
  <1>4. CASE ChangeFails(Begun)
    BY <1>1, <1>2, <1>4, ChangeFailsKeeps
  <1> QED BY <1>3, <1>4 DEF Begin

LEMMA ReceiptsType ==
    ASSUME NEW migration \in Migration
    PROVE  /\ DOMAIN migration.receipts \in SUBSET Locators
           /\ \A l \in DOMAIN migration.receipts :
                  migration.receipts[l] \in {"none", "copying", "copied"}
  BY DEF Migration, Receipts

LEMMA CheckKeeps == IInv /\ Check => IInv'
  <1> SUFFICES ASSUME IInv, Check PROVE IInv'
    OBVIOUS
  <1> DEFINE manifest == DOMAIN memory.config.migration.receipts
             next == IF manifest = {} THEN "checkpoint" ELSE "read"
  <1>1. /\ At("check") /\ Migrating /\ Reads /\ memory.config.migration \in Migration
        /\ app.exists <=> (files["plaintext"] # None)
    BY DEF Check, At, Migrating, Steps, IInv, StepsRely, Recorded
  <1>2. CASE Readable /\ Stored \subseteq manifest
    <2>1. app' = [app EXCEPT !.step = next, !.todo = manifest] /\ UNCHANGED status
      BY <1>2 DEF Check
    <2>2. manifest \in SUBSET Locators
      BY <1>1, ReceiptsType
    <2>3. next \in {"checkpoint", "read"}
      OBVIOUS
    <2>4. memory' = memory /\ files' = files
      BY <1>1 DEF Reads, configVars, backendVars
    <2>5. manifest = DOMAIN memory'.config.migration.receipts
      BY <2>4
    <2> HIDE DEF next, manifest
    <2>6. app' \in App /\ app'.step = next /\ app'.exists = app.exists /\ app'.todo = manifest
      BY <1>1, <2>1, <2>2, <2>3, MigratingState DEF App, Steps
    <2>7. StepsRely'
      BY <1>1, <2>3, <2>4, <2>5, <2>6 DEF StepsRely, At, Recorded, Looping
    <2> QED BY <1>1, <2>1, <2>3, <2>6, <2>7, ReadsKeeps DEF Steps
  <1>3. CASE ~(Readable /\ Stored \subseteq manifest)
    BY <1>1, <1>3, ReadsAndReturnsKeeps DEF Check
  <1> QED BY <1>2, <1>3

LEMMA ReadKeeps == IInv /\ Read => IInv'
  <1> SUFFICES ASSUME IInv, Read PROVE IInv'
    OBVIOUS
  <1>1. /\ At("read") /\ Migrating /\ Reads /\ memory.config.migration \in Migration
        /\ app.todo \subseteq DOMAIN memory.config.migration.receipts
        /\ app.exists <=> (files["plaintext"] # None)
    BY DEF Read, At, Migrating, Steps, IInv, StepsRely, Recorded, Looping
  <1>2. PICK l \in app.todo :
            IF Held("plaintext", l) = None
            THEN Returns("pending")
            ELSE /\ app' = [app EXCEPT !.step = "peek", !.locator = l,
                                       !.todo = @ \ {l}, !.secret = Held("plaintext", l),
                                       !.receipt = memory.config.migration.receipts[l]]
                 /\ UNCHANGED status
    BY DEF Read
  <1>3. CASE Held("plaintext", l) = None
    BY <1>1, <1>2, <1>3, ReadsAndReturnsKeeps
  <1>4. CASE Held("plaintext", l) # None
    <2> DEFINE held == Held("plaintext", l)
               receipt == memory.config.migration.receipts[l]
    <2>1. l \in Locators /\ receipt \in {"none", "copying", "copied"}
      BY <1>1, ReceiptsType
    <2>2. held \in Values
      <3>1. files["plaintext"] \in Store \cup {None}
        BY <1>1, MigratingState DEF BackendsTypeOK, Files
      <3> QED BY <1>4, <2>1, <3>1 DEF Held, Store, Entries
    <2>3. app \in App
      BY <1>1, MigratingState
    <2>4. app' = [app EXCEPT !.step = "peek", !.locator = l, !.todo = app.todo \ {l},
                             !.secret = held, !.receipt = receipt]
      BY <1>2, <1>4
    <2>5. memory' = memory /\ files' = files
      BY <1>1 DEF Reads, configVars, backendVars
    <2> HIDE DEF held, receipt
    <2>6. app' \in App /\ app'.step = "peek" /\ app'.exists = app.exists
          /\ app'.todo \subseteq app.todo
      BY <2>1, <2>2, <2>3, <2>4 DEF App, Steps
    <2>7. StepsRely'
      BY <1>1, <2>5, <2>6 DEF StepsRely, At, Recorded, Looping
    <2> QED BY <1>1, <1>2, <1>4, <2>6, <2>7, ReadsKeeps DEF Steps
  <1> QED BY <1>3, <1>4

(* A step on the way of a locator that only reads.                         *)
LEMMA LoopKeeps ==
    ASSUME IInv, app.step \in Looping, Reads, NEW step \in Looping \cup {"checkpoint"},
           Goto(step), UNCHANGED status
    PROVE  IInv'
  <1>1. /\ Migrating /\ memory.config.migration \in Migration
        /\ app.todo \subseteq DOMAIN memory.config.migration.receipts
        /\ app.exists <=> (files["plaintext"] # None)
    BY DEF Migrating, Steps, IInv, StepsRely, Recorded, Looping
  <1>2. step \in Steps
    BY DEF Looping, Steps
  <1>3. /\ app' \in App /\ app'.step = step /\ app'.exists = app.exists
        /\ app'.todo = app.todo
    BY <1>1, <1>2, MigratingState, GotoType
  <1>4. memory' = memory /\ files' = files
    BY DEF Reads, configVars, backendVars
  <1>5. StepsRely'
    BY <1>1, <1>3, <1>4 DEF StepsRely, At, Recorded, Looping
  <1> QED BY <1>1, <1>3, <1>5, ReadsKeeps DEF Looping, Steps

LEMMA PeekKeeps == IInv /\ Peek => IInv'
  <1> SUFFICES ASSUME IInv, Peek PROVE IInv'
    OBVIOUS
  <1>1. At("peek") /\ Migrating /\ Reads
    BY DEF Peek, At, Migrating, Steps
  <1>2. CASE AfterPeek = "return"
    BY <1>1, <1>2, ReadsAndReturnsKeeps DEF Peek
  <1>3. CASE AfterPeek # "return"
    <2>1. AfterPeek \in {"verify", "mark", "copy"}
      <3>1. app.receipt \in {"none", "copying", "copied"}
        BY <1>1, MigratingState DEF App
      <3> QED BY <1>3, <3>1 DEF AfterPeek
    <2>2. Goto(AfterPeek) /\ UNCHANGED status
      BY <1>3 DEF Peek
    <2> QED BY <1>1, <2>1, <2>2, LoopKeeps DEF At, Looping
  <1> QED BY <1>2, <1>3

LEMMA VerifyKeeps == IInv /\ Verify => IInv'
  <1> SUFFICES ASSUME IInv, Verify PROVE IInv'
    OBVIOUS
  <1> DEFINE next == IF app.receipt = "copied" THEN AfterLocator ELSE "record"
  <1>1. At("verify") /\ Migrating /\ Reads
    BY DEF Verify, At, Migrating, Steps
  <1>2. CASE keychain[app.locator] = app.secret
    <2>1. Goto(next) /\ UNCHANGED status
      BY <1>2 DEF Verify
    <2>2. next \in Looping \cup {"checkpoint"}
      BY DEF AfterLocator, Looping
    <2> HIDE DEF next
    <2> QED BY <1>1, <2>1, <2>2, LoopKeeps DEF At, Looping
  <1>3. CASE keychain[app.locator] # app.secret
    BY <1>1, <1>3, ReadsAndReturnsKeeps DEF Verify
  <1> QED BY <1>2, <1>3

(* A receipt is recorded, and the locator goes on.                         *)
LEMMA RecordsKeeps ==
    ASSUME IInv, app.step \in Looping, NEW state \in {"copying", "copied"},
           NEW next \in Looping \cup {"checkpoint"}, Records(state, next)
    PROVE  IInv'
  <1> DEFINE config == WithReceipt(memory.config, app.locator, state)
  <1>1. /\ Migrating /\ memory.config.migration \in Migration
        /\ app.todo \subseteq DOMAIN memory.config.migration.receipts
        /\ app.exists <=> (files["plaintext"] # None)
    BY DEF Migrating, Steps, IInv, StepsRely, Recorded, Looping
  <1>2. memory.config.migration # None
    BY DEF Records, CanRecord, Copying
  <1>3. /\ Sound(config) /\ config.migration \in Migration
        /\ DOMAIN config.migration.receipts = DOMAIN memory.config.migration.receipts
    BY <1>1, <1>2, MigratingState, WithReceiptSound
  <1>4. (Changes(config) /\ Goto(next) /\ UNCHANGED status) \/ ChangeFails(config)
    BY DEF Records
  <1> HIDE DEF config
  <1>5. CASE Changes(config) /\ Goto(next) /\ UNCHANGED status
    <2>1. memory'.config = config /\ files' = files
      <3>1. "written" \in WriteResults /\ Update(config, "written") /\ files' = files
        BY <1>5 DEF Changes, WriteResults, backendVars
      <3> QED BY <1>1, <1>3, <3>1, MigratingState, UpdateKeepsSound
    <2>2. next \in Steps
      BY DEF Looping, Steps
    <2>3. /\ app' \in App /\ app'.step = next /\ app'.exists = app.exists
          /\ app'.todo = app.todo
      BY <1>1, <1>5, <2>2, MigratingState, GotoType
    <2>4. StepsRely'
      BY <1>1, <1>3, <2>1, <2>3 DEF StepsRely, At, Recorded, Looping
    <2>5. status' # "ready"
      BY <1>1, <1>5, NotReadyYet
    <2> QED BY <1>1, <1>3, <1>5, <2>3, <2>4, <2>5, ChangesKeeps DEF Looping, Steps
  <1>6. CASE ChangeFails(config)
    BY <1>1, <1>3, <1>6, ChangeFailsKeeps
  <1> QED BY <1>4, <1>5, <1>6

LEMMA MarkKeeps == IInv /\ Mark => IInv'
  BY RecordsKeeps DEF Mark, At, Looping

LEMMA RecordKeeps == IInv /\ Record => IInv'
  <1> SUFFICES ASSUME IInv, Record PROVE IInv'
    OBVIOUS
  <1>1. AfterLocator \in Looping \cup {"checkpoint"}
    BY DEF AfterLocator, Looping
  <1> QED BY <1>1, RecordsKeeps DEF Record, At, Looping

LEMMA CopyKeeps == IInv /\ Copy => IInv'
  <1> SUFFICES ASSUME IInv, Copy PROVE IInv'
    OBVIOUS
  <1>1. /\ Migrating /\ At("copy") /\ memory.config.migration \in Migration
        /\ app.todo \subseteq DOMAIN memory.config.migration.receipts
        /\ app.exists <=> (files["plaintext"] # None)
    BY DEF Copy, At, Migrating, Steps, IInv, StepsRely, Recorded, Looping
  <1>2. /\ keychain' = [keychain EXCEPT ![app.locator] = app.secret]
        /\ Goto("verify") /\ status' = status /\ left' = left /\ disk' = disk
        /\ memory' = memory /\ files' = files /\ promised' = promised
        /\ UNCHANGED <<worker, handles, request>>
    BY DEF Copy, configVars, brokerVars
  <1>3. app.secret \in Values \cup {None}
    BY <1>1, MigratingState DEF App
  <1>4. /\ keychain' \in Entries /\ files \in [Files -> Store \cup {None}]
        /\ promised \in Promises
    BY <1>1, <1>2, <1>3, MigratingState DEF Entries, BackendsTypeOK, BrokerTypeOK, Promises
  <1>5. /\ app' \in App /\ app'.step = "verify" /\ app'.exists = app.exists
        /\ app'.todo = app.todo
    BY <1>1, <1>2, MigratingState, GotoType DEF Steps
  <1>6. StepsRely'
    BY <1>1, <1>2, <1>5 DEF StepsRely, At, Recorded, Looping
  <1>7. status \in {"none", "pending"}
    BY <1>1, NotReadyYet DEF IInv, TypeOK
  <1> QED BY <1>1, <1>2, <1>4, <1>5, <1>6, <1>7, MigratingState, MigrationKeeps DEF Steps

LEMMA KeychainRefusesKeeps == IInv /\ KeychainRefuses => IInv'
  <1> SUFFICES ASSUME IInv, KeychainRefuses PROVE IInv'
    OBVIOUS
  <1>1. Migrating
    BY DEF KeychainRefuses, At, Migrating, Steps
  <1>2. /\ Spend("keychain") /\ Returns("pending") /\ disk' = disk /\ memory' = memory
        /\ files' = files /\ keychain' = keychain /\ promised' = promised
        /\ UNCHANGED <<worker, handles, request>>
    BY DEF KeychainRefuses, configVars, backendVars, brokerVars
  <1>3. left' \in Bounds
    BY <1>1, <1>2, MigratingState, SpendType
  <1>4. app' \in App /\ app'.step = "build" /\ StepsRely' /\ status' = "pending"
    BY <1>1, <1>2, MigratingState, ReturnsType
  <1>5. promised \in Promises /\ files \in [Files -> Store \cup {None}] /\ keychain \in Entries
    BY <1>1, MigratingState DEF BrokerTypeOK, Promises, BackendsTypeOK
  <1> QED BY <1>1, <1>2, <1>3, <1>4, <1>5, MigratingState, MigrationKeeps DEF Steps

(* The end of the migration.                                               *)
LEMMA CheckpointKeeps == IInv /\ Checkpoint => IInv'
  <1> SUFFICES ASSUME IInv, Checkpoint PROVE IInv'
    OBVIOUS
  <1> DEFINE config == Checkpointed(memory.config)
  <1>1. /\ Migrating /\ memory.config.migration \in Migration
        /\ app.exists <=> (files["plaintext"] # None)
    BY DEF Checkpoint, At, Migrating, Steps, IInv, StepsRely, Recorded
  <1>2. Sound(config)
    BY <1>1, MigratingState, CheckpointedSound
  <1>3. \/ /\ Changes(config)
           /\ IF AfterCheckpoint = "return"
              THEN Returns("pending") ELSE Goto(AfterCheckpoint) /\ UNCHANGED status
        \/ ChangeFails(config)
    BY DEF Checkpoint
  <1> HIDE DEF config
  <1>4. AfterCheckpoint \in {"return", "purge", "finish"}
        /\ (AfterCheckpoint = "finish" => ~app.exists)
    BY DEF AfterCheckpoint
  <1>5. ASSUME Changes(config), AfterCheckpoint = "return" PROVE IInv'
    <2>1. Returns("pending")
      <3>1. ~ChangeFails(config) \/ Returns("pending")
        BY DEF ChangeFails
      <3> QED BY <1>3, <1>5, <3>1
    <2>2. app' \in App /\ app'.step = "build" /\ StepsRely' /\ status' = "pending"
      BY <1>1, <2>1, MigratingState, ReturnsType
    <2> QED BY <1>1, <1>2, <1>5, <2>2, ChangesKeeps DEF Steps
  <1>6. ASSUME Changes(config), AfterCheckpoint # "return",
               Goto(AfterCheckpoint), UNCHANGED status
        PROVE  IInv'
    <2>1. AfterCheckpoint \in Steps
      BY <1>4, <1>6 DEF Steps
    <2>2. app' \in App /\ app'.step = AfterCheckpoint /\ app'.exists = app.exists
      BY <1>1, <1>6, <2>1, MigratingState, GotoType
    <2>3. files' = files
      BY <1>6 DEF Changes, backendVars
    <2>4. StepsRely'
      BY <1>1, <1>4, <1>6, <2>2, <2>3 DEF StepsRely, At, Recorded, Looping
    <2>5. status' # "ready"
      BY <1>1, <1>6, NotReadyYet
    <2> QED BY <1>1, <1>2, <1>4, <1>6, <2>2, <2>4, <2>5, ChangesKeeps DEF Steps
  <1>7. ASSUME ChangeFails(config) PROVE IInv'
    BY <1>1, <1>2, <1>7, ChangeFailsKeeps
  <1> QED BY <1>3, <1>5, <1>6, <1>7

(* A step of the purge, that may change the file.                          *)
LEMMA PurgesKeeps ==
    ASSUME IInv, Migrating, UNCHANGED <<configVars, keychain, worker, brokerVars>>,
           left' \in Bounds, files' \in [Files -> Store \cup {None}],
           app' \in App, app'.step \in {"zeroed", "finish", "build"}, StepsRely',
           status' \in {status, "pending"}
    PROVE  IInv'
  <1>1. /\ disk' = disk /\ memory' = memory /\ keychain' = keychain /\ promised' = promised
        /\ UNCHANGED <<worker, handles, request>>
    BY DEF configVars, brokerVars
  <1>2. status' \in {"none", "pending"}
    BY NotReadyYet DEF IInv, TypeOK
  <1>3. promised \in Promises /\ keychain \in Entries
    BY MigratingState DEF BrokerTypeOK, Promises, BackendsTypeOK
  <1> QED BY <1>1, <1>2, <1>3, MigratingState, MigrationKeeps DEF Steps

LEMMA ZeroKeeps == IInv /\ Zero => IInv'
  <1> SUFFICES ASSUME IInv, Zero PROVE IInv'
    OBVIOUS
  <1>1. /\ Migrating /\ Goto("zeroed") /\ status' = status /\ left' = left
        /\ UNCHANGED <<configVars, keychain, worker, brokerVars>>
    BY DEF Zero, At, Migrating, Steps
  <1>2. files' \in [Files -> Store \cup {None}]
    <2>1. Zeroes \in Store
      BY DEF Zeroes, Store, NoEntries, Entries
    <2>2. files \in [Files -> Store \cup {None}]
      BY <1>1, MigratingState DEF BackendsTypeOK
    <2> QED BY <2>1, <2>2 DEF Zero
  <1>3. app' \in App /\ app'.step = "zeroed"
    BY <1>1, MigratingState, GotoType DEF Steps
  <1>4. StepsRely'
    BY <1>3 DEF StepsRely, At, Recorded, Looping
  <1> QED BY <1>1, <1>2, <1>3, <1>4, MigratingState, PurgesKeeps

LEMMA RemoveKeeps == IInv /\ Remove => IInv'
  <1> SUFFICES ASSUME IInv, Remove PROVE IInv'
    OBVIOUS
  <1>1. /\ Migrating /\ Goto("finish") /\ status' = status /\ left' = left
        /\ UNCHANGED <<configVars, keychain, worker, brokerVars>>
    BY DEF Remove, At, Migrating, Steps
  <1>2. files' \in [Files -> Store \cup {None}] /\ files'["plaintext"] = None
    <2>1. files \in [Files -> Store \cup {None}]
      BY <1>1, MigratingState DEF BackendsTypeOK
    <2> QED BY <2>1 DEF Remove, Files
  <1>3. app' \in App /\ app'.step = "finish"
    BY <1>1, MigratingState, GotoType DEF Steps
  <1>4. StepsRely'
    BY <1>2, <1>3 DEF StepsRely, At, Recorded, Looping
  <1> QED BY <1>1, <1>2, <1>3, <1>4, MigratingState, PurgesKeeps

LEMMA PurgeFailsKeeps == IInv /\ PurgeFails => IInv'
  <1> SUFFICES ASSUME IInv, PurgeFails PROVE IInv'
    OBVIOUS
  <1>1. /\ Migrating /\ Spend("file") /\ Returns("pending")
        /\ UNCHANGED <<configVars, keychain, worker, brokerVars>>
    BY DEF PurgeFails, At, Migrating, Steps
  <1>2. files' \in [Files -> Store \cup {None}]
    <2>1. files \in [Files -> Store \cup {None}]
      BY <1>1, MigratingState DEF BackendsTypeOK
    <2> QED BY <2>1 DEF PurgeFails
  <1>3. left' \in Bounds
    BY <1>1, MigratingState, SpendType
  <1>4. app' \in App /\ app'.step = "build" /\ StepsRely' /\ status' = "pending"
    BY <1>1, MigratingState, ReturnsType
  <1> QED BY <1>1, <1>2, <1>3, <1>4, PurgesKeeps

LEMMA FinishKeeps == IInv /\ Finish => IInv'
  <1> SUFFICES ASSUME IInv, Finish PROVE IInv'
    OBVIOUS
  <1> DEFINE config == WithoutMigration(memory.config)
  <1>1. Migrating /\ files["plaintext"] = None /\ ~Interim(memory.config)
    <2>1. Migrating /\ files["plaintext"] = None
      BY DEF Finish, At, Migrating, Steps, IInv, StepsRely
    <2> QED BY <2>1, MigratingState DEF Finish, CanFinish, Sound
  <1>2. Sound(config) /\ ~Interim(config)
    BY <1>1, MigratingState, WithoutMigrationSound
  <1>3. (Changes(config) /\ Returns("ready")) \/ ChangeFails(config)
    BY DEF Finish
  <1> HIDE DEF config
  <1>4. CASE Changes(config) /\ Returns("ready")
    <2>1. app' \in App /\ app'.step = "build" /\ StepsRely' /\ status' = "ready"
      BY <1>1, <1>4, MigratingState, ReturnsType
    <2> QED BY <1>1, <1>2, <1>4, <2>1, ChangesKeeps DEF Steps
  <1>5. CASE ChangeFails(config)
    BY <1>1, <1>2, <1>5, ChangeFailsKeeps
  <1> QED BY <1>3, <1>4, <1>5

------------------------------------------------------------------------------
(* The launch, and its end.                                                *)


LEMMA FreshIsApp == Fresh \in App /\ Fresh.step = "off"
  BY DEF Fresh, App, Steps

LEMMA LaunchKeeps == IInv /\ Launch => IInv'
  <1> SUFFICES ASSUME IInv, Launch PROVE IInv'
    OBVIOUS
  <1>1. /\ At("off") /\ disk' = disk /\ memory' = [revision |-> 0, config |-> disk]
        /\ files' = files /\ keychain' = keychain /\ worker' = worker /\ handles' = handles
        /\ request' = request /\ promised' = promised /\ left' = left /\ status' = "none"
        /\ app' = [Fresh EXCEPT !.step = "look", !.exists = files["plaintext"] # None]
    BY DEF Launch, Open, ReadConfig, backendVars, brokerVars
  <1>2. TypeOK /\ Sound(disk) /\ MigrationIsAlone
    BY DEF IInv, ConfigsAreSound
  <1>3. memory' \in [revision : Nat, config : Config] /\ memory'.config = disk
    BY <1>1, <1>2 DEF Sound
  <1>4. app' \in App /\ app'.step = "look" /\ (app'.exists <=> (files["plaintext"] # None))
    <2> DEFINE exists == files["plaintext"] # None
    <2>1. exists \in BOOLEAN
      OBVIOUS
    <2>2. app' = [Fresh EXCEPT !.step = "look", !.exists = exists]
      BY <1>1
    <2> HIDE DEF exists
    <2>3. app' \in App /\ app'.step = "look" /\ app'.exists = exists
      BY <2>1, <2>2 DEF Fresh, App, Steps
    <2> QED BY <2>3 DEF exists
  <1>5. TypeOK'
    BY <1>1, <1>2, <1>3, <1>4 DEF TypeOK, ConfigTypeOK, BackendsTypeOK, BrokerTypeOK, Worker,
                                  Request, Working
  <1>6. ConfigsAreSound'
    BY <1>1, <1>2, <1>3, <1>4 DEF ConfigsAreSound, At
  <1>7. LocksHold' /\ MigrationIsAlone'
    <2>1. worker = [k \in Workers |-> Idle] /\ request = [t \in Clients |-> NoRequest]
      BY <1>1, <1>2 DEF MigrationIsAlone, At
    <2> QED BY <1>1, <2>1 DEF LocksHold, HoldsLock, Working, Idle, MigrationIsAlone
  <1>8. StepsRely' /\ ReadyIsOver'
    BY <1>1, <1>3, <1>4 DEF StepsRely, ReadyIsOver, At, Recorded, Looping
  <1> QED BY <1>5, <1>6, <1>7, <1>8 DEF IInv

LEMMA BuildKeeps == IInv /\ Build => IInv'
  <1> SUFFICES ASSUME IInv, Build PROVE IInv'
    OBVIOUS
  <1>1. /\ At("build") /\ disk' = disk /\ files' = files /\ keychain' = keychain
        /\ worker' = worker /\ request' = request /\ promised' = promised
        /\ left' = left /\ status' = status
    BY DEF Build, backendVars
  <1>2. /\ TypeOK /\ Sound(disk) /\ Sound(memory.config)
        /\ memory \in [revision : Nat, config : Config]
        /\ worker = [k \in Workers |-> Idle] /\ request = [t \in Clients |-> NoRequest]
    BY <1>1 DEF IInv, ConfigsAreSound, MigrationIsAlone, At
  <1>3. LocksHold' /\ MigrationIsAlone' /\ NoJobAtTheSource'
    BY <1>1, <1>2 DEF LocksHold, HoldsLock, Working, Idle, NoRequest, MigrationIsAlone,
                      NoJobAtTheSource
  <1>4. status = "ready" =>
            /\ files["plaintext"] # None => files["plaintext"].owner \notin {Legacy, None}
            /\ ~Interim(disk) /\ ~Interim(memory.config)
    BY <1>1 DEF IInv, ReadyIsOver, At
  <1>5. CASE ReferencesAreDistinct(memory.config)
    <2>1. Goto("serving") /\ handles' = Handles(memory.config) /\ memory' = memory
      BY <1>5 DEF Build
    <2>2. app' \in App /\ app'.step = "serving"
      BY <1>2, <2>1, GotoType DEF TypeOK, Steps
    <2>3. /\ handles' \in [BackendIds -> Settings \cup {None}]
          /\ handles'[Legacy] = memory.config.backends[Legacy]
      BY <1>2, <2>1 DEF Sound, Config, Handles, Settings, BackendIds, Legacy, Target
    <2>4. TypeOK'
      BY <1>1, <1>2, <2>1, <2>2, <2>3 DEF TypeOK, ConfigTypeOK, BackendsTypeOK, BrokerTypeOK,
                                          Worker, Request, Working
    <2>5. ConfigsAreSound' /\ StepsRely'
      BY <1>1, <1>2, <2>1, <2>2 DEF ConfigsAreSound, StepsRely, At, Recorded, Looping
    <2>6. status = "ready" => handles'[Legacy] = None
      BY <1>2, <1>4, <2>3 DEF Sound, Interim
    <2>7. ReadyIsOver'
      BY <1>1, <1>3, <1>4, <2>1, <2>2, <2>6 DEF ReadyIsOver, NothingAtTheSource, At, Interim
    <2> QED BY <1>3, <2>4, <2>5, <2>7 DEF IInv
  <1>6. CASE ~ReferencesAreDistinct(memory.config)
    <2>1. app' = Fresh /\ memory' = None /\ handles' = handles
      BY <1>6 DEF Build
    <2>2. TypeOK'
      BY <1>1, <1>2, <2>1, FreshIsApp DEF TypeOK, ConfigTypeOK, BackendsTypeOK, BrokerTypeOK,
                                          Worker, Request, Working
    <2>3. ConfigsAreSound' /\ StepsRely'
      BY <1>1, <1>2, <2>1, FreshIsApp DEF ConfigsAreSound, StepsRely, At, Recorded, Looping
    <2>4. ReadyIsOver'
      BY <1>1, <1>4, <2>1, FreshIsApp DEF ReadyIsOver, NothingAtTheSource, At, Interim
    <2> QED BY <1>3, <2>2, <2>3, <2>4 DEF IInv
  <1> QED BY <1>5, <1>6

------------------------------------------------------------------------------
(* The changes of connections, and the end of the process.                 *)

LEMMA ConnectionKeeps ==
    ASSUME IInv, At("serving"), NEW c \in Connections, NEW b \in Binding,
           NEW result \in WriteResults, Update(WithConnection(memory.config, c, b), result),
           left' \in Bounds, UNCHANGED <<backendVars, brokerVars, app, status>>
    PROVE  IInv'
  <1> DEFINE config == WithConnection(memory.config, c, b)
  <1>1. /\ TypeOK /\ Sound(disk) /\ Sound(memory.config) /\ LocksHold
        /\ memory \in [revision : Nat, config : Config]
    BY DEF IInv, ConfigsAreSound, At
  <1>2. Sound(config) /\ (Interim(memory.config) <=> Interim(config))
    BY <1>1, WithConnectionSound
  <1>3. Update(config, result)
    OBVIOUS
  <1> HIDE DEF config
  <1>4. /\ Sound(disk') /\ disk' \in {disk, config}
        /\ memory' \in [revision : Nat, config : Config]
        /\ Sound(memory'.config) /\ memory'.config \in {memory.config, disk, config}
    BY <1>1, <1>2, <1>3, UpdateKeepsSound
  <1>5. /\ files' = files /\ keychain' = keychain /\ worker' = worker /\ handles' = handles
        /\ request' = request /\ promised' = promised /\ app' = app /\ status' = status
    BY DEF backendVars, brokerVars
  <1>6. TypeOK'
    BY <1>1, <1>4, <1>5 DEF TypeOK, ConfigTypeOK, BackendsTypeOK, BrokerTypeOK, Sound
  <1>7. ConfigsAreSound' /\ LocksHold' /\ MigrationIsAlone' /\ StepsRely'
    <2>1. ConfigsAreSound' /\ MigrationIsAlone' /\ StepsRely'
      BY <1>4, <1>5 DEF ConfigsAreSound, MigrationIsAlone, StepsRely, At, Recorded, Looping
    <2>2. LocksHold'
      BY <1>1, <1>5 DEF LocksHold, HoldsLock, Working
    <2> QED BY <2>1, <2>2
  <1>8. ReadyIsOver'
    <2>1. SUFFICES ASSUME status = "ready" PROVE ReadyIsOver'
      BY <1>5 DEF ReadyIsOver
    <2>2. /\ files["plaintext"] # None => files["plaintext"].owner \notin {Legacy, None}
          /\ ~Interim(disk) /\ ~Interim(memory.config)
          /\ handles[Legacy] = None /\ NoJobAtTheSource
      BY <2>1 DEF IInv, ReadyIsOver, NothingAtTheSource, At
    <2>3. ~Interim(disk') /\ ~Interim(memory'.config)
      BY <1>2, <1>4, <2>2
    <2>4. NoJobAtTheSource'
      BY <1>5, <2>2 DEF NoJobAtTheSource, Working
    <2> QED BY <1>5, <2>2, <2>3, <2>4 DEF ReadyIsOver, NothingAtTheSource, At, Interim
  <1> QED BY <1>6, <1>7, <1>8 DEF IInv

LEMMA PutConnectionKeeps ==
    ASSUME IInv, NEW c \in Connections, NEW b \in Binding, PutConnection(c, b)
    PROVE  IInv'
  <1>1. left' \in Bounds
    BY SpendType DEF IInv, TypeOK, PutConnection
  <1>2. "written" \in WriteResults
    BY DEF WriteResults
  <1> QED BY <1>1, <1>2, ConnectionKeeps DEF PutConnection

LEMMA PutConnectionFailsKeeps ==
    ASSUME IInv, NEW c \in Connections, NEW b \in Binding, PutConnectionFails(c, b)
    PROVE  IInv'
  <1>1. left' \in Bounds
    BY SpendType DEF IInv, TypeOK, PutConnectionFails
  <1>2. PICK result \in WriteResults : Update(WithConnection(memory.config, c, b), result)
    BY DEF PutConnectionFails
  <1> QED BY <1>1, <1>2, ConnectionKeeps DEF PutConnectionFails

LEMMA EndedKeeps ==
    ASSUME IInv, ~At("off"), Ended, left' \in Bounds
    PROVE  IInv'
  <1>1. /\ disk' = disk /\ memory' = None /\ files' = files /\ keychain' = keychain
        /\ handles' = handles /\ status' = status /\ app' = Fresh
        /\ worker' = [k \in Workers |-> Idle] /\ request' = [t \in Clients |-> NoRequest]
        /\ promised' = [p \in Places |-> [l \in Locators |-> promised[p][l] \cup InFlight(p, l)]]
    BY DEF Ended, Close, Killed
  <1>2. TypeOK /\ Sound(disk)
    BY DEF IInv, ConfigsAreSound
  <1>3. ASSUME NEW p \in Places, NEW l \in Locators
        PROVE  InFlight(p, l) \subseteq Values \cup {None}
    <2>1. ASSUME NEW k \in Workers, Working(k)
          PROVE  worker[k].job.value \in Values \cup {None}
      <3>1. worker[k].job \in Job
        BY <1>2, <2>1, JobIsJob DEF TypeOK
      <3> QED BY <3>1 DEF Job
    <2> QED BY <2>1 DEF InFlight
  <1>4. promised' \in [Places -> [Locators -> SUBSET (Values \cup {None})]]
    BY <1>1, <1>2, <1>3 DEF TypeOK, BrokerTypeOK
  <1>5. worker' \in [Workers -> Worker] /\ request' \in [Clients -> Request]
    BY <1>1 DEF Worker, Request
  <1>6. TypeOK'
    BY <1>1, <1>2, <1>4, <1>5, FreshIsApp DEF TypeOK, ConfigTypeOK, BackendsTypeOK, BrokerTypeOK
  <1>7. ConfigsAreSound' /\ StepsRely'
    BY <1>1, <1>2, FreshIsApp DEF ConfigsAreSound, StepsRely, At, Recorded, Looping
  <1>8. LocksHold' /\ MigrationIsAlone'
    BY <1>1 DEF LocksHold, HoldsLock, Working, Idle, MigrationIsAlone
  <1>9. ReadyIsOver'
    BY <1>1, FreshIsApp DEF IInv, ReadyIsOver, NothingAtTheSource, At, Interim
  <1> QED BY <1>6, <1>7, <1>8, <1>9 DEF IInv

LEMMA KillKeeps == IInv /\ Kill => IInv'
  <1> SUFFICES ASSUME IInv, Kill PROVE IInv'
    OBVIOUS
  <1>1. left' \in Bounds
    BY SpendType DEF IInv, TypeOK, Kill
  <1> QED BY <1>1, EndedKeeps DEF Kill

LEMMA QuitKeeps == IInv /\ Quit => IInv'
  <1> SUFFICES ASSUME IInv, Quit PROVE IInv'
    OBVIOUS
  <1>1. left' \in Bounds /\ ~At("off")
    BY DEF IInv, TypeOK, Quit, At
  <1> QED BY <1>1, EndedKeeps DEF Quit

------------------------------------------------------------------------------
(* The theorems.                                                           *)

LEMMA InitHolds == Init => IInv
  <1> SUFFICES ASSUME Init PROVE IInv
    OBVIOUS
  <1>1. PICK i \in Installations :
            /\ disk = i.config
            /\ memory = None
            /\ files = i.files
            /\ keychain = i.keychain
            /\ worker = [k \in Workers |-> Idle]
            /\ handles = [b \in BackendIds |-> None]
            /\ request = [t \in Clients |-> NoRequest]
            /\ promised = [p \in Places |-> [l \in Locators |->
                   {IF p = "keychain" THEN i.keychain[l]
                    ELSE IF i.files[p] = None THEN None ELSE i.files[p].entries[l]}]]
            /\ app = Fresh
            /\ status = "none"
            /\ left = i.bounds
    BY DEF Init
  <1>2. /\ i.config \in Config /\ i.files \in [Files -> Store \cup {None}]
        /\ i.keychain \in Entries /\ i.bounds \in Bounds
    BY InstallationAssumption DEF Installation
  <1>3. Sound(disk)
    BY <1>1, <1>2, InstallationAssumption DEF Sound, Valid, Interim
  <1>4. promised \in [Places -> [Locators -> SUBSET (Values \cup {None})]]
    <2>1. ASSUME NEW p \in Places, NEW l \in Locators
          PROVE  promised[p][l] \in SUBSET (Values \cup {None})
      BY <1>1, <1>2, <2>1 DEF Entries, Store, Places
    <2> QED BY <1>1, <2>1
  <1>5. worker \in [Workers -> Worker] /\ request \in [Clients -> Request]
    BY <1>1 DEF Worker, Request
  <1>6. TypeOK
    BY <1>1, <1>2, <1>4, <1>5, FreshIsApp DEF TypeOK, ConfigTypeOK, BackendsTypeOK, BrokerTypeOK
  <1>7. ConfigsAreSound /\ StepsRely /\ ReadyIsOver
    BY <1>1, <1>3, FreshIsApp DEF ConfigsAreSound, StepsRely, ReadyIsOver, At, Recorded, Looping
  <1>8. LocksHold /\ MigrationIsAlone
    BY <1>1 DEF LocksHold, HoldsLock, Working, Idle, MigrationIsAlone
  <1> QED BY <1>6, <1>7, <1>8 DEF IInv

LEMMA StutterKeeps == IInv /\ UNCHANGED vars => IInv'
  <1> SUFFICES ASSUME IInv, UNCHANGED vars PROVE IInv'
    OBVIOUS
  <1>1. /\ disk' = disk /\ memory' = memory /\ files' = files /\ keychain' = keychain
        /\ worker' = worker /\ handles' = handles /\ request' = request
        /\ promised' = promised /\ app' = app /\ status' = status /\ left' = left
    BY DEF vars, configVars, backendVars, brokerVars
  <1>2. TypeOK' /\ ConfigsAreSound' /\ MigrationIsAlone' /\ StepsRely'
    BY <1>1 DEF IInv, TypeOK, ConfigTypeOK, BackendsTypeOK, BrokerTypeOK, ConfigsAreSound, At,
                MigrationIsAlone, StepsRely, Recorded, Looping
  <1>3. LocksHold'
    BY <1>1 DEF IInv, LocksHold, HoldsLock, Working
  <1>4. ReadyIsOver'
    BY <1>1 DEF IInv, ReadyIsOver, NothingAtTheSource, NoJobAtTheSource, At, Interim, Working
  <1> QED BY <1>2, <1>3, <1>4 DEF IInv

LEMMA NextKeeps == IInv /\ [Next]_vars => IInv'
  <1> SUFFICES ASSUME IInv, [Next]_vars PROVE IInv'
    OBVIOUS
  <1>1. CASE MigrationStep
    BY <1>1, LaunchKeeps, LookForInterimKeeps, ListKeeps, ResumeKeeps, BeginKeeps, CheckKeeps,
       ReadKeeps, PeekKeeps, MarkKeeps, CopyKeeps, VerifyKeeps, RecordKeeps, CheckpointKeeps,
       ZeroKeeps, RemoveKeeps, FinishKeeps, BuildKeeps DEF MigrationStep
  <1>2. CASE KeychainRefuses \/ PurgeFails
    BY <1>2, KeychainRefusesKeeps, PurgeFailsKeeps
  <1>3. ASSUME NEW c \in Connections, NEW b \in Binding,
               PutConnection(c, b) \/ PutConnectionFails(c, b)
        PROVE  IInv'
    BY <1>3, PutConnectionKeeps, PutConnectionFailsKeeps
  <1>4. ASSUME NEW t \in Clients, Requests(t) PROVE IInv'
    BY <1>4, RequestsKeeps
  <1>5. CASE Serve \/ ServeFails
    BY <1>5, ServeKeeps, ServeFailsKeeps
  <1>6. CASE Kill \/ Quit
    BY <1>6, KillKeeps, QuitKeeps
  <1>7. CASE UNCHANGED vars
    BY <1>7, StutterKeeps
  <1> QED BY <1>1, <1>2, <1>3, <1>4, <1>5, <1>6, <1>7 DEF Next

(* Every step of every launch, of the callers' requests and of the threads *)
(* on the stores keeps the configuration, the stores, the requests and     *)
(* what the launch has read of the form that the code's types give them.   *)
THEOREM TypeCorrect == Spec => []TypeOK
  <1>1. IInv => TypeOK
    BY DEF IInv
  <1> QED BY <1>1, InitHolds, NextKeeps, PTL DEF Spec

(* Once migrate_interim_secrets has told the user that the credentials are *)
(* ready, no store of the interim releases exists any more, nor can any    *)
(* request, thread or change of a connection bring one back, through every *)
(* kill and every failed write, until the next launch looks again.         *)
THEOREM InterimOver == Spec => []InterimIsOver
  <1>1. IInv => InterimIsOver
    BY DEF IInv, ReadyIsOver, ConfigsAreSound, InterimIsOver, PlaintextIsGone, At
  <1> QED BY <1>1, InitHolds, NextKeeps, PTL DEF Spec

------------------------------------------------------------------------------
(* Why secrets are kept.                                                   *)

(* A backend of the configuration is at the interim file.                  *)
Leads(config) == \E b \in BackendIds : PlaceOf(config.backends[b]) = "plaintext"

(* A migration that may have put something into the keychain.              *)
Moving(config) ==
    /\ Copying(config)
    /\ \E l \in DOMAIN config.migration.receipts : config.migration.receipts[l] # "none"

(* What is on the disk was validated, and nothing but the migration writes *)
(* while it runs.                                                          *)
ConfigsAgree ==
    /\ Valid(disk)
    /\ ~At("off") => Valid(memory.config)
    /\ app.step \notin {"off", "build", "serving"} => memory.config = disk
    /\ app.step \in Recorded => Copying(disk)
    /\ app.step \in {"purge", "zeroed"} => ~Leads(disk) /\ Cleaning(disk)

(* A write into the interim store on behalf of the interim backend.        *)
WritesSource(job) == job.backend = Legacy /\ job.kind # "resolve"

(* Once something may have moved, the interim store is not written.        *)
SourceIsFrozen ==
    Moving(disk) =>
        /\ ~At("off") => Copying(memory.config)
        /\ \A t \in Clients : request[t].step # "idle" => ~WritesSource(request[t].job)
        /\ \A k \in Workers : Working(k) => ~WritesSource(worker[k].job)

(* Jobs and threads: a deletion leaves nothing, a thread that is about to  *)
(* write was asked to, and a thread works for the request it was made for. *)
JobsMakeSense ==
    /\ \A t \in Clients :
           request[t].step # "idle" /\ request[t].job.kind = "delete" => request[t].job.value = None
    /\ \A k \in Workers : Working(k) =>
           LET w == worker[k] IN
           /\ w.job.kind = "delete" => w.job.value = None
           /\ w.step \in {"locked", "loaded"} => w.job.place \in Files
           /\ w.step = "loaded" => w.job.kind # "resolve" /\ w.copy = files[w.job.place].entries
           /\ w.step = "found" => w.job.kind = "put" /\ w.job.place = "keychain"
           /\ w.client # None => /\ request[w.client].step = "work"
                                 /\ request[w.client].job = w.job
           /\ w.client = None /\ w.job.place \in Files => w.abandoned

OneEach ==
    \A j, k \in Workers : Working(j) /\ Working(k) /\ j # k =>
        /\ worker[j].client # None => worker[j].client # worker[k].client
        /\ \A f \in Files : ~(HoldsLock(j, f) /\ HoldsLock(k, f))

(* A write that nobody waits for and that may still be made is promised.   *)
Dropped(k) ==
    /\ Working(k) /\ worker[k].client = None /\ worker[k].job.kind # "resolve"
    /\ worker[k].job.place = "keychain" \/ worker[k].step = "loaded"

DroppedIsPromised ==
    \A k \in Workers :
        Dropped(k) => worker[k].job.value \in promised[worker[k].job.place][worker[k].job.locator]

(* The files.  The interim one may be purged once nothing leads to it.     *)
Unused == ~Leads(disk) /\ (~At("off") => ~Leads(memory.config))

FilesAreKept ==
    \A f \in Files, l \in Locators :
        Held(f, l) \in promised[f][l] \/ (f = "plaintext" /\ Unused)

(* The keychain.  An entry that may not be set yet may be a copy.          *)
Coming(l) ==
    /\ None \in promised["keychain"][l]
    /\ Copying(disk) /\ l \in DOMAIN disk.migration.receipts
    /\ disk.migration.receipts[l] # "none"
    /\ keychain[l] \in promised["plaintext"][l]
    /\ Readable

KeychainIsKept ==
    \A l \in Locators : keychain[l] \in promised["keychain"][l] \/ Coming(l)

(* Where the migration is among the locators of its manifest.              *)
Copied(l) == keychain[l] = Held("plaintext", l)

AtHand == {"peek", "mark", "copy", "verify", "record"}

LoopsAlong ==
    /\ app.step \in Looping => Readable
    /\ At("read") => \A l \in DOMAIN disk.migration.receipts \ app.todo : Copied(l)
    /\ app.step \in AtHand =>
           /\ app.locator \in DOMAIN disk.migration.receipts
           /\ app.secret = Held("plaintext", app.locator)
           /\ \A l \in DOMAIN disk.migration.receipts \ (app.todo \cup {app.locator}) : Copied(l)
    /\ At("peek") => app.receipt = disk.migration.receipts[app.locator]
    /\ At("copy") => disk.migration.receipts[app.locator] # "none"
    /\ At("record") => Copied(app.locator)
    /\ At("checkpoint") => \A l \in DOMAIN disk.migration.receipts : Copied(l)

KeepInv ==
    /\ ConfigsAgree /\ SourceIsFrozen
    /\ JobsMakeSense /\ OneEach /\ DroppedIsPromised
    /\ FilesAreKept /\ KeychainIsKept /\ LoopsAlong

------------------------------------------------------------------------------
(* A thread comes to its end or goes on.                                   *)

NoNewJobs ==
    /\ \A j \in Workers : Working(j)' => Working(j) /\ worker'[j].job = worker[j].job
    /\ \A t \in Clients : request'[t].step # "idle" =>
           request[t].step # "idle" /\ request'[t].job = request[t].job

(* A store changes only under its lock.                                    *)
Locked(k) == \A f \in Files : files'[f] # files[f] => HoldsLock(k, f) \/ LockFree(f)

LEMMA LoadedStays ==
    ASSUME OneEach, NEW k \in Workers, Working(k), Locked(k), NEW j \in Workers, j # k,
           worker[j].step = "loaded", worker[j].job.place \in Files
    PROVE  files'[worker[j].job.place] = files[worker[j].job.place]
  <1>1. Working(j) /\ HoldsLock(j, worker[j].job.place)
    BY DEF Working, HoldsLock
  <1>2. ~HoldsLock(k, worker[j].job.place)
    BY <1>1 DEF OneEach
  <1>3. ~LockFree(worker[j].job.place)
    BY <1>1 DEF LockFree
  <1> QED BY <1>2, <1>3 DEF Locked

LEMMA EndsJobs ==
    ASSUME BackendsTypeOK, BrokerTypeOK, JobsMakeSense, OneEach, NEW k \in Workers, Working(k),
           Ends(k), Answered(worker[k].client), Locked(k)
    PROVE  JobsMakeSense' /\ OneEach' /\ NoNewJobs
  <1>1. \A j \in Workers : worker'[j] = IF j = k THEN Idle ELSE worker[j]
    BY EndsRow DEF BackendsTypeOK
  <1>2. ~Working(k)' /\ \A j \in Workers : j # k => (Working(j)' <=> Working(j))
    BY <1>1 DEF Working, Idle
  <1>3. /\ \A u \in Clients : request'[u] \in {request[u], NoRequest}
        /\ \A u \in Clients : u # worker[k].client => request'[u] = request[u]
    <2>1. \A u \in Clients : request'[u] \in {request[u], NoRequest}
      BY AnsweredType
    <2>2. request \in [Clients -> Request]
      BY DEF BrokerTypeOK
    <2> QED BY <2>1, <2>2 DEF Answered
  <1>4. NoRequest.step = "idle"
    BY DEF NoRequest
  <1>5. NoNewJobs
    BY <1>1, <1>2, <1>3, <1>4 DEF NoNewJobs
  <1>6. JobsMakeSense'
    <2>1. \A t \in Clients : request'[t].step # "idle" /\ request'[t].job.kind = "delete"
                                 => request'[t].job.value = None
      BY <1>3, <1>4 DEF JobsMakeSense
    <2>2. ASSUME NEW j \in Workers, Working(j)'
          PROVE  /\ worker'[j].job.kind = "delete" => worker'[j].job.value = None
                 /\ worker'[j].step \in {"locked", "loaded"} => worker'[j].job.place \in Files
                 /\ worker'[j].step = "loaded" =>
                        /\ worker'[j].job.kind # "resolve"
                        /\ worker'[j].copy = files'[worker'[j].job.place].entries
                 /\ worker'[j].step = "found" => /\ worker'[j].job.kind = "put"
                                                 /\ worker'[j].job.place = "keychain"
                 /\ worker'[j].client # None =>
                        /\ request'[worker'[j].client].step = "work"
                        /\ request'[worker'[j].client].job = worker'[j].job
                 /\ worker'[j].client = None /\ worker'[j].job.place \in Files
                        => worker'[j].abandoned
      <3>1. j # k /\ worker'[j] = worker[j] /\ Working(j)
        BY <1>1, <1>2, <2>2
      <3>2. /\ worker[j].job.kind = "delete" => worker[j].job.value = None
            /\ worker[j].step \in {"locked", "loaded"} => worker[j].job.place \in Files
            /\ worker[j].step = "loaded" =>
                   /\ worker[j].job.kind # "resolve"
                   /\ worker[j].copy = files[worker[j].job.place].entries
            /\ worker[j].step = "found" => /\ worker[j].job.kind = "put"
                                           /\ worker[j].job.place = "keychain"
            /\ worker[j].client # None => /\ request[worker[j].client].step = "work"
                                          /\ request[worker[j].client].job = worker[j].job
            /\ worker[j].client = None /\ worker[j].job.place \in Files => worker[j].abandoned
        BY <3>1 DEF JobsMakeSense
      <3>3. worker[j].step = "loaded" => files'[worker[j].job.place] = files[worker[j].job.place]
        BY <3>1, <3>2, LoadedStays
      <3>4. worker[j].client # None => request'[worker[j].client] = request[worker[j].client]
        <4>1. worker[j].client \in Clients \cup {None}
          BY <3>1, WorkerIsRow DEF BackendsTypeOK, Row
        <4>2. worker[j].client # None => worker[j].client # worker[k].client
          BY <3>1 DEF OneEach
        <4> QED BY <1>3, <4>1, <4>2
      <3> QED BY <3>1, <3>2, <3>3, <3>4
    <2> QED BY <2>1, <2>2 DEF JobsMakeSense
  <1>7. OneEach'
    <2>1. \A i, j \in Workers : Working(i)' /\ Working(j)' /\ i # j =>
              Working(i) /\ Working(j) /\ worker'[i] = worker[i] /\ worker'[j] = worker[j]
      BY <1>1, <1>2
    <2> QED BY <2>1 DEF OneEach, HoldsLock
  <1> QED BY <1>5, <1>6, <1>7

(* A thread that takes another step.                                       *)
LEMMA GoesJobs ==
    ASSUME BackendsTypeOK, BrokerTypeOK, JobsMakeSense, OneEach, NEW k \in Workers, Working(k),
           worker' \in [Workers -> Worker], \A j \in Workers \ {k} : worker'[j] = worker[j],
           worker'[k].job = worker[k].job, worker'[k].client = worker[k].client,
           worker'[k].abandoned = worker[k].abandoned,
           worker'[k].step \in {"locked", "loaded", "found"}, Locked(k), UNCHANGED request,
           worker'[k].step \in {"locked", "loaded"} => worker[k].job.place \in Files,
           worker'[k].step = "loaded" =>
               /\ worker[k].job.kind # "resolve"
               /\ worker'[k].copy = files'[worker[k].job.place].entries,
           worker'[k].step = "found" => /\ worker[k].job.kind = "put"
                                        /\ worker[k].job.place = "keychain",
           \A f \in Files : HoldsLock(k, f)' => HoldsLock(k, f) \/ LockFree(f)
    PROVE  JobsMakeSense' /\ OneEach' /\ NoNewJobs
  <1>1. \A j \in Workers : Working(j)' => Working(j) /\ worker'[j].job = worker[j].job
                                          /\ worker'[j].client = worker[j].client
    BY DEF Working
  <1>2. NoNewJobs
    BY <1>1 DEF NoNewJobs
  <1>3. JobsMakeSense'
    <2>1. ASSUME NEW j \in Workers, Working(j)'
          PROVE  /\ worker'[j].job.kind = "delete" => worker'[j].job.value = None
                 /\ worker'[j].step \in {"locked", "loaded"} => worker'[j].job.place \in Files
                 /\ worker'[j].step = "loaded" =>
                        /\ worker'[j].job.kind # "resolve"
                        /\ worker'[j].copy = files'[worker'[j].job.place].entries
                 /\ worker'[j].step = "found" => /\ worker'[j].job.kind = "put"
                                                 /\ worker'[j].job.place = "keychain"
                 /\ worker'[j].client # None =>
                        /\ request'[worker'[j].client].step = "work"
                        /\ request'[worker'[j].client].job = worker'[j].job
                 /\ worker'[j].client = None /\ worker'[j].job.place \in Files
                        => worker'[j].abandoned
      <3>1. Working(j) /\ worker'[j].job = worker[j].job /\ worker'[j].client = worker[j].client
        BY <1>1, <2>1
      <3>2. /\ worker[j].job.kind = "delete" => worker[j].job.value = None
            /\ worker[j].step \in {"locked", "loaded"} => worker[j].job.place \in Files
            /\ worker[j].step = "loaded" =>
                   /\ worker[j].job.kind # "resolve"
                   /\ worker[j].copy = files[worker[j].job.place].entries
            /\ worker[j].step = "found" => /\ worker[j].job.kind = "put"
                                           /\ worker[j].job.place = "keychain"
            /\ worker[j].client # None => /\ request[worker[j].client].step = "work"
                                          /\ request[worker[j].client].job = worker[j].job
            /\ worker[j].client = None /\ worker[j].job.place \in Files => worker[j].abandoned
        BY <3>1 DEF JobsMakeSense
      <3>3. CASE j = k
        BY <3>1, <3>2, <3>3
      <3>4. CASE j # k
        <4>1. worker'[j] = worker[j]
          BY <3>4
        <4>2. worker[j].step = "loaded" => files'[worker[j].job.place] = files[worker[j].job.place]
          BY <3>2, <3>4, LoadedStays
        <4> QED BY <3>2, <4>1, <4>2
      <3> QED BY <3>3, <3>4
    <2> QED BY <2>1 DEF JobsMakeSense
  <1>4. OneEach'
    <2>1. \A i \in Workers : i # k => \A f \in Files : HoldsLock(i, f)' <=> HoldsLock(i, f)
      BY DEF HoldsLock, Working
    <2>2. ASSUME NEW i \in Workers, NEW j \in Workers, Working(i)', Working(j)', i # j
          PROVE  /\ worker'[i].client # None => worker'[i].client # worker'[j].client
                 /\ \A f \in Files : ~(HoldsLock(i, f)' /\ HoldsLock(j, f)')
      <3>1. /\ Working(i) /\ Working(j) /\ worker'[i].client = worker[i].client
            /\ worker'[j].client = worker[j].client
        BY <1>1, <2>2
      <3>2. worker'[i].client # None => worker'[i].client # worker'[j].client
        BY <2>2, <3>1 DEF OneEach
      <3>3. ASSUME NEW f \in Files, HoldsLock(i, f)', HoldsLock(j, f)' PROVE FALSE
        <4>1. CASE i = k
          BY <2>1, <2>2, <3>1, <3>3, <4>1 DEF OneEach, LockFree
        <4>2. CASE j = k
          BY <2>1, <2>2, <3>1, <3>3, <4>2 DEF OneEach, LockFree
        <4>3. CASE i # k /\ j # k
          BY <2>1, <2>2, <3>1, <3>3, <4>3 DEF OneEach
        <4> QED BY <4>1, <4>2, <4>3
      <3> QED BY <3>2, <3>3
    <2> QED BY <2>2 DEF OneEach
  <1> QED BY <1>2, <1>3, <1>4

------------------------------------------------------------------------------
(* What a thread's last step does to the entries and to the promises.      *)

Grows == \A p \in Places, l \in Locators : promised[p][l] \subseteq promised'[p][l]

LEMMA PromisedUpdate ==
    ASSUME BrokerTypeOK, NEW p \in Places, NEW l \in Locators,
           NEW some \in SUBSET (Values \cup {None}),
           promised' = [promised EXCEPT ![p][l] = some]
    PROVE  /\ promised'[p][l] = some
           /\ \A q \in Places, m \in Locators :
                  q # p \/ m # l => promised'[q][m] = promised[q][m]
  <1>1. promised \in [Places -> [Locators -> SUBSET (Values \cup {None})]]
    BY DEF BrokerTypeOK
  <1>2. promised' = [promised EXCEPT ![p] = [promised[p] EXCEPT ![l] = some]]
    BY <1>1
  <1> QED BY <1>1, <1>2

LEMMA JobParts ==
    ASSUME BackendsTypeOK, NEW k \in Workers, Working(k)
    PROVE  /\ worker[k].job.place \in Places /\ worker[k].job.locator \in Locators
           /\ worker[k].job.value \in Values \cup {None} /\ worker[k].job.backend \in BackendIds
           /\ worker[k].client \in Clients \cup {None}
  BY JobIsJob DEF Row, Job

LEMMA UncertainGrows ==
    ASSUME BrokerTypeOK, NEW job \in Job, promised' = Uncertain(job)
    PROVE  /\ Grows
           /\ job.kind # "resolve" => job.value \in promised'[job.place][job.locator]
  <1>1. job.place \in Places /\ job.locator \in Locators
    BY DEF Job
  <1>2. CASE job.kind = "resolve"
    BY <1>2 DEF Uncertain, Grows
  <1>3. CASE job.kind # "resolve"
    <2>1. promised' = [promised EXCEPT ![job.place][job.locator] = @ \cup {job.value}]
      BY <1>3 DEF Uncertain
    <2> DEFINE some == promised[job.place][job.locator] \cup {job.value}
    <2>2. promised' = [promised EXCEPT ![job.place][job.locator] = some]
      BY <2>1
    <2>3. some \in SUBSET (Values \cup {None})
      BY <1>1 DEF Job, BrokerTypeOK
    <2>4. /\ promised'[job.place][job.locator] = some
          /\ \A q \in Places, m \in Locators :
                 q # job.place \/ m # job.locator => promised'[q][m] = promised[q][m]
      <3> HIDE DEF some
      <3> QED BY <1>1, <2>2, <2>3, PromisedUpdate
    <2> QED BY <1>1, <2>4 DEF Grows
  <1> QED BY <1>2, <1>3

(* Whatever the answer is, but that a write was done.                      *)
LEMMA AnswerGrows ==
    ASSUME BackendsTypeOK, BrokerTypeOK, NEW k \in Workers, Working(k), NotDone(k) \/ Unsure(k)
    PROVE  /\ Grows
           /\ Unsure(k) /\ worker[k].client # None /\ worker[k].job.kind # "resolve" =>
                  worker[k].job.value \in promised'[worker[k].job.place][worker[k].job.locator]
  <1>1. worker[k].job \in Job
    BY JobIsJob
  <1>2. CASE promised' = promised /\ ~(Unsure(k) /\ worker[k].client # None)
    BY <1>2 DEF Grows
  <1>3. CASE promised' = Uncertain(worker[k].job)
    BY <1>1, <1>3, UncertainGrows
  <1> QED BY <1>2, <1>3 DEF NotDone, Unsure

LEMMA GrowsDropped ==
    ASSUME BackendsTypeOK, DroppedIsPromised, Grows,
           \A j \in Workers : Dropped(j)' => Dropped(j) /\ worker'[j].job = worker[j].job
    PROVE  DroppedIsPromised'
  <1> SUFFICES ASSUME NEW j \in Workers, Dropped(j)'
               PROVE  worker'[j].job.value
                          \in promised'[worker'[j].job.place][worker'[j].job.locator]
    BY DEF DroppedIsPromised
  <1>1. Dropped(j) /\ worker'[j].job = worker[j].job /\ Working(j)
    BY DEF Dropped
  <1>2. worker[j].job.value \in promised[worker[j].job.place][worker[j].job.locator]
    BY <1>1 DEF DroppedIsPromised
  <1>3. worker[j].job.place \in Places /\ worker[j].job.locator \in Locators
    BY <1>1, JobParts
  <1> QED BY <1>1, <1>2, <1>3 DEF Grows

LEMMA EndsDropped ==
    ASSUME BackendsTypeOK, NEW k \in Workers, Ends(k), NEW j \in Workers, Dropped(j)'
    PROVE  Dropped(j) /\ worker'[j] = worker[j] /\ j # k
  <1>1. worker'[j] = IF j = k THEN Idle ELSE worker[j]
    BY EndsRow DEF BackendsTypeOK
  <1>2. Idle.step = "idle"
    BY DEF Idle
  <1> QED BY <1>1, <1>2 DEF Dropped, Working

(* A write that is done: what was promised before is replaced, but for the *)
(* writes that may still come.                                             *)
LEMMA DonePromises ==
    ASSUME BackendsTypeOK, BrokerTypeOK, DroppedIsPromised, NEW k \in Workers, Working(k), Done(k),
           Dropped(k) \/ worker[k].client # None
    PROVE  LET job == worker[k].job IN
           /\ job.value \in promised'[job.place][job.locator]
           /\ \A q \in Places, m \in Locators :
                  q # job.place \/ m # job.locator => promised'[q][m] = promised[q][m]
           /\ worker[k].client = None => promised' = promised
           /\ Outstanding(job) \subseteq promised'[job.place][job.locator]
                  \/ worker[k].client = None
  <1>1. worker[k].job.place \in Places /\ worker[k].job.locator \in Locators
    BY JobParts
  <1>2. CASE worker[k].client = None
    BY <1>2 DEF Done, DroppedIsPromised
  <1>3. CASE worker[k].client # None
    <2> DEFINE some == {worker[k].job.value} \cup Outstanding(worker[k].job)
    <2>1. promised' = [promised EXCEPT ![worker[k].job.place][worker[k].job.locator] = some]
      BY <1>3 DEF Done
    <2>2. some \in SUBSET (Values \cup {None})
      BY JobParts, OutstandingType
    <2>3. /\ promised'[worker[k].job.place][worker[k].job.locator] = some
          /\ \A q \in Places, m \in Locators :
                 q # worker[k].job.place \/ m # worker[k].job.locator
                     => promised'[q][m] = promised[q][m]
      <3> DEFINE p == worker[k].job.place  l == worker[k].job.locator
      <3>1. p \in Places /\ l \in Locators /\ promised' = [promised EXCEPT ![p][l] = some]
        BY <1>1, <2>1
      <3> HIDE DEF some, p, l
      <3>2. /\ promised'[p][l] = some
            /\ \A q \in Places, m \in Locators :
                   q # p \/ m # l => promised'[q][m] = promised[q][m]
        <4>1. promised \in [Places -> [Locators -> SUBSET (Values \cup {None})]]
          BY DEF BrokerTypeOK
        <4>2. promised' = [promised EXCEPT ![p] = [promised[p] EXCEPT ![l] = some]]
          BY <3>1, <4>1
        <4> QED BY <3>1, <4>1, <4>2
      <3> QED BY <3>2 DEF p, l
    <2> QED BY <1>3, <2>3
  <1> QED BY <1>2, <1>3

LEMMA DoneDropped ==
    ASSUME BackendsTypeOK, BrokerTypeOK, JobsMakeSense, OneEach, DroppedIsPromised,
           NEW k \in Workers, Working(k), Ends(k), Done(k),
           Dropped(k) \/ worker[k].client # None,
           worker[k].job.place = "keychain" \/ worker[k].step = "loaded"
    PROVE  DroppedIsPromised'
  <1> SUFFICES ASSUME NEW j \in Workers, Dropped(j)'
               PROVE  worker'[j].job.value
                          \in promised'[worker'[j].job.place][worker'[j].job.locator]
    BY DEF DroppedIsPromised
  <1>1. Dropped(j) /\ worker'[j] = worker[j] /\ j # k /\ Working(j)
    <2>1. Dropped(j) /\ worker'[j] = worker[j] /\ j # k
      BY EndsDropped
    <2> QED BY <2>1 DEF Dropped
  <1>2. worker[j].job.value \in promised[worker[j].job.place][worker[j].job.locator]
    BY <1>1 DEF DroppedIsPromised
  <1>3. worker[j].job.place \in Places /\ worker[j].job.locator \in Locators
    BY <1>1, JobParts
  <1>4. /\ \A q \in Places, m \in Locators :
               q # worker[k].job.place \/ m # worker[k].job.locator
                   => promised'[q][m] = promised[q][m]
        /\ worker[k].client = None => promised' = promised
        /\ Outstanding(worker[k].job)
               \subseteq promised'[worker[k].job.place][worker[k].job.locator]
           \/ worker[k].client = None
    BY DonePromises
  <1>5. CASE \/ worker[j].job.place # worker[k].job.place
             \/ worker[j].job.locator # worker[k].job.locator
             \/ worker[k].client = None
    BY <1>1, <1>2, <1>3, <1>4, <1>5
  <1>6. CASE /\ worker[j].job.place = worker[k].job.place
             /\ worker[j].job.locator = worker[k].job.locator
             /\ worker[k].client # None
    <2>1. CASE worker[k].job.place = "keychain"
      <3>1. worker[j].job.value \in Outstanding(worker[k].job)
        BY <1>1, <1>6, <2>1 DEF Outstanding, Dropped
      <3> QED BY <1>1, <1>4, <1>6, <3>1
    <2>2. CASE worker[k].job.place # "keychain"
      <3>1. /\ worker[k].step = "loaded" /\ worker[j].step = "loaded"
            /\ worker[k].job.place \in Files
        BY <1>1, <1>6, <2>2 DEF Dropped, JobsMakeSense
      <3>2. HoldsLock(k, worker[k].job.place) /\ HoldsLock(j, worker[k].job.place)
        BY <1>1, <1>6, <3>1 DEF HoldsLock
      <3> QED BY <1>1, <3>1, <3>2 DEF OneEach
    <2> QED BY <2>1, <2>2
  <1> QED BY <1>5, <1>6

------------------------------------------------------------------------------
(* The entries.                                                            *)

(* Nothing is to be found elsewhere, and no less is promised.              *)
LEMMA SameEntries ==
    ASSUME FilesAreKept, KeychainIsKept, Grows, UNCHANGED <<disk, memory, app, keychain>>,
           \A f \in Files, l \in Locators : Held(f, l)' = Held(f, l),
           Readable => Readable'
    PROVE  FilesAreKept' /\ KeychainIsKept'
  <1>1. Files \subseteq Places /\ "keychain" \in Places /\ "plaintext" \in Places
    BY DEF Places, Files
  <1>2. Unused => Unused'
    BY DEF Unused, At
  <1>3. FilesAreKept'
    BY <1>1, <1>2 DEF FilesAreKept, Grows
  <1>4. KeychainIsKept'
    BY <1>1 DEF KeychainIsKept, Coming, Grows
  <1> QED BY <1>3, <1>4

(* A file that was not there is claimed.                                   *)
LEMMA ClaimEntries ==
    ASSUME BackendsTypeOK, NEW f \in Files, files[f] = None, NEW b \in BackendIds,
           files' = [files EXCEPT ![f] = Claimed(b)]
    PROVE  /\ \A g \in Files, l \in Locators : Held(g, l)' = Held(g, l)
           /\ Readable => Readable'
           /\ \A g \in Files : files'[g] # files[g] => g = f
  <1>1. files \in [Files -> Store \cup {None}]
    BY DEF BackendsTypeOK
  <1>2. files'[f] = Claimed(b) /\ \A g \in Files : g # f => files'[g] = files[g]
    BY <1>1
  <1>3. Claimed(b) # None
    BY ClaimIsStore, BackendsAssumption
  <1>4. ASSUME NEW g \in Files, NEW l \in Locators PROVE Held(g, l)' = Held(g, l)
    <2>1. g # "keychain"
      BY DEF Files
    <2>2. CASE g = f
      <3>1. Claimed(b).entries[l] = None
        BY DEF Claimed, NoEntries
      <3> QED BY <1>2, <1>3, <2>1, <2>2, <3>1 DEF Held
    <2>3. CASE g # f
      BY <1>2, <2>1, <2>3 DEF Held
    <2> QED BY <2>2, <2>3
  <1>5. Readable => Readable'
    <2>1. "plaintext" \in Files
      BY DEF Files
    <2> QED BY <1>2, <2>1 DEF Readable
  <1> QED BY <1>2, <1>4, <1>5

------------------------------------------------------------------------------
(* The steps of a thread.                                                  *)

ServedInv ==
    JobsMakeSense /\ OneEach /\ DroppedIsPromised /\ FilesAreKept /\ KeychainIsKept

LEMMA StepRow ==
    ASSUME worker \in [Workers -> Worker], NEW k \in Workers, Working(k),
           NEW s \in {"queued", "locked", "loaded", "found"}, NEW entries \in Entries,
           \/ Moves(k, s)
           \/ worker' = [worker EXCEPT ![k].step = s, ![k].copy = entries]
    PROVE  /\ worker' \in [Workers -> Worker]
           /\ \A j \in Workers \ {k} : worker'[j] = worker[j]
           /\ worker'[k].step = s /\ worker'[k].job = worker[k].job
           /\ worker'[k].client = worker[k].client
           /\ worker'[k].abandoned = worker[k].abandoned
           /\ ~Moves(k, s) => worker'[k].copy = entries
  <1>1. worker[k] \in Row
    BY WorkerIsRow
  <1>2. CASE Moves(k, s)
    <2>1. worker'[k].client = worker[k].client /\ worker'[k].abandoned = worker[k].abandoned
      BY <1>1, <1>2 DEF Moves, Row
    <2> QED BY <1>2, <2>1, MovesRow
  <1>3. CASE worker' = [worker EXCEPT ![k].step = s, ![k].copy = entries]
    <2>1. /\ worker'[k].client = worker[k].client /\ worker'[k].abandoned = worker[k].abandoned
          /\ worker'[k].copy = entries
      BY <1>1, <1>3 DEF Row
    <2> QED BY <1>3, <2>1, LoadsRow
  <1> QED BY <1>2, <1>3

(* An end that changes nothing.                                            *)
LEMMA QuietEnd ==
    ASSUME BackendsTypeOK, BrokerTypeOK, ServedInv, NEW k \in Workers, Working(k), Ends(k),
           NotDone(k) \/ Unsure(k), UNCHANGED <<disk, memory, app, keychain>>,
           \A f \in Files, l \in Locators : Held(f, l)' = Held(f, l),
           Readable => Readable', Locked(k)
    PROVE  ServedInv' /\ NoNewJobs
  <1>1. Answered(worker[k].client)
    BY DEF NotDone, Unsure
  <1>2. JobsMakeSense' /\ OneEach' /\ NoNewJobs
    BY <1>1, EndsJobs DEF ServedInv
  <1>3. Grows
    BY AnswerGrows
  <1>4. \A j \in Workers : Dropped(j)' => Dropped(j) /\ worker'[j].job = worker[j].job
    BY EndsDropped
  <1>5. DroppedIsPromised'
    BY <1>3, <1>4, GrowsDropped DEF ServedInv
  <1>6. FilesAreKept' /\ KeychainIsKept'
    BY <1>3, SameEntries DEF ServedInv
  <1> QED BY <1>2, <1>5, <1>6 DEF ServedInv

LEMMA SameFiles ==
    ASSUME UNCHANGED <<files, keychain>>, NEW k \in Workers
    PROVE  /\ \A f \in Files, l \in Locators : Held(f, l)' = Held(f, l)
           /\ Readable => Readable'
           /\ Locked(k)
  BY DEF Held, Readable, Locked

(* A step that is not the last and changes no entry.                       *)
LEMMA QuietStep ==
    ASSUME BackendsTypeOK, BrokerTypeOK, ServedInv, NEW k \in Workers, Working(k),
           worker' \in [Workers -> Worker], \A j \in Workers \ {k} : worker'[j] = worker[j],
           worker'[k].job = worker[k].job, worker'[k].client = worker[k].client,
           worker'[k].abandoned = worker[k].abandoned,
           worker'[k].step \in {"locked", "loaded", "found"}, Locked(k),
           UNCHANGED <<request, promised, disk, memory, app, keychain>>,
           worker'[k].step \in {"locked", "loaded"} => worker[k].job.place \in Files,
           worker'[k].step = "loaded" =>
               /\ worker[k].job.kind # "resolve"
               /\ worker'[k].copy = files'[worker[k].job.place].entries
               /\ worker[k].client # None,
           worker'[k].step = "found" => /\ worker[k].job.kind = "put"
                                        /\ worker[k].job.place = "keychain",
           \A f \in Files : HoldsLock(k, f)' => HoldsLock(k, f) \/ LockFree(f),
           \A f \in Files, l \in Locators : Held(f, l)' = Held(f, l),
           Readable => Readable'
    PROVE  ServedInv' /\ NoNewJobs
  <1>1. JobsMakeSense' /\ OneEach' /\ NoNewJobs
    BY GoesJobs DEF ServedInv
  <1>2. Grows
    BY DEF Grows
  <1>3. \A j \in Workers : Dropped(j)' => Dropped(j) /\ worker'[j].job = worker[j].job
    BY DEF Dropped, Working
  <1>4. DroppedIsPromised'
    BY <1>2, <1>3, GrowsDropped DEF ServedInv
  <1>5. FilesAreKept' /\ KeychainIsKept'
    BY <1>2, SameEntries DEF ServedInv
  <1> QED BY <1>1, <1>4, <1>5 DEF ServedInv

(* Someone gets the locks of a store, which is claimed if need be.         *)
LEMMA FileLockServes ==
    ASSUME BackendsTypeOK, BrokerTypeOK, ServedInv, NEW k \in Workers, FileLock(k),
           UNCHANGED <<request, promised, disk, memory, app>>
    PROVE  ServedInv' /\ NoNewJobs
  <1>1. PICK f \in Files :
            /\ Doing(k, f, "queued") /\ LockFree(f)
            /\ files' = [files EXCEPT ![f] =
                             IF @ = None THEN Claimed(worker[k].job.backend) ELSE @]
            /\ Moves(k, "locked") /\ UNCHANGED keychain
    BY DEF FileLock
  <1>2. Working(k) /\ worker[k].job.place = f
    BY <1>1 DEF Working, Doing
  <1>3. NoEntries \in Entries
    BY DEF NoEntries, Entries
  <1>4. /\ worker' \in [Workers -> Worker]
        /\ \A j \in Workers \ {k} : worker'[j] = worker[j]
        /\ worker'[k].step = "locked" /\ worker'[k].job = worker[k].job
        /\ worker'[k].client = worker[k].client
        /\ worker'[k].abandoned = worker[k].abandoned
    BY <1>1, <1>2, <1>3, StepRow DEF BackendsTypeOK
  <1>5. /\ \A g \in Files, l \in Locators : Held(g, l)' = Held(g, l)
        /\ Readable => Readable'
        /\ \A g \in Files : files'[g] # files[g] => g = f
    <2>1. CASE files[f] = None
      <3>1. worker[k].job.backend \in BackendIds
        BY <1>2, JobParts
      <3>2. files' = [files EXCEPT ![f] = Claimed(worker[k].job.backend)]
        BY <1>1, <2>1
      <3> QED BY <2>1, <3>1, <3>2, ClaimEntries
    <2>2. CASE files[f] # None
      <3>1. files' = files
        BY <1>1, <2>2 DEF BackendsTypeOK
      <3> QED BY <1>1, <3>1, SameFiles
    <2> QED BY <2>1, <2>2
  <1>6. Locked(k)
    BY <1>1, <1>5 DEF Locked
  <1>7. \A g \in Files : HoldsLock(k, g)' => HoldsLock(k, g) \/ LockFree(g)
    BY <1>1, <1>2, <1>4 DEF HoldsLock
  <1> QED BY <1>1, <1>2, <1>4, <1>5, <1>6, <1>7, QuietStep

LEMMA FileLoadServes ==
    ASSUME BackendsTypeOK, BrokerTypeOK, LocksHold, ServedInv, NEW k \in Workers, FileLoad(k),
           UNCHANGED <<request, promised, disk, memory, app>>
    PROVE  ServedInv' /\ NoNewJobs
  <1>1. PICK f \in Files :
            /\ Doing(k, f, "locked") /\ ~worker[k].abandoned
            /\ worker[k].job.kind # "resolve"
            /\ worker' = [worker EXCEPT ![k].step = "loaded", ![k].copy = files[f].entries]
            /\ UNCHANGED <<files, keychain>>
    BY DEF FileLoad
  <1>2. Working(k) /\ worker[k].job.place = f /\ HoldsLock(k, f)
    BY <1>1 DEF Working, Doing, HoldsLock
  <1>3. files[f].entries \in Entries
    BY <1>2 DEF LocksHold, Store
  <1>4. /\ worker' \in [Workers -> Worker]
        /\ \A j \in Workers \ {k} : worker'[j] = worker[j]
        /\ worker'[k].step = "loaded" /\ worker'[k].job = worker[k].job
        /\ worker'[k].client = worker[k].client
        /\ worker'[k].abandoned = worker[k].abandoned
        /\ worker'[k].copy = files[f].entries
    <2>1. /\ worker' \in [Workers -> Worker]
          /\ \A j \in Workers \ {k} : worker'[j] = worker[j]
          /\ worker'[k].step = "loaded" /\ worker'[k].job = worker[k].job
          /\ worker'[k].client = worker[k].client
          /\ worker'[k].abandoned = worker[k].abandoned
      BY <1>1, <1>2, <1>3, StepRow DEF BackendsTypeOK
    <2>2. worker[k] \in Row
      BY <1>2, WorkerIsRow DEF BackendsTypeOK
    <2>3. worker'[k].copy = files[f].entries
      BY <1>1, <2>2 DEF Row, BackendsTypeOK
    <2> QED BY <2>1, <2>3
  <1>5. worker[k].client # None
    BY <1>1, <1>2 DEF ServedInv, JobsMakeSense
  <1>6. /\ \A g \in Files, l \in Locators : Held(g, l)' = Held(g, l)
        /\ Readable => Readable'
        /\ Locked(k)
    BY <1>1, SameFiles
  <1>7. \A g \in Files : HoldsLock(k, g)' => HoldsLock(k, g) \/ LockFree(g)
    BY <1>2, <1>4 DEF HoldsLock
  <1>8. worker'[k].copy = files'[worker[k].job.place].entries
    BY <1>1, <1>2, <1>4
  <1> QED BY <1>1, <1>2, <1>4, <1>5, <1>6, <1>7, <1>8, QuietStep

LEMMA KeychainFindServes ==
    ASSUME BackendsTypeOK, BrokerTypeOK, ServedInv, NEW k \in Workers, KeychainFind(k),
           UNCHANGED <<request, promised, disk, memory, app>>
    PROVE  ServedInv' /\ NoNewJobs
  <1>1. /\ Doing(k, "keychain", "queued") /\ worker[k].job.kind = "put"
        /\ worker' = [worker EXCEPT ![k].step = "found", ![k].copy = keychain]
        /\ UNCHANGED <<files, keychain>>
    BY DEF KeychainFind
  <1>2. Working(k) /\ worker[k].job.place = "keychain" /\ keychain \in Entries
    BY <1>1 DEF Working, Doing, BackendsTypeOK
  <1>3. /\ worker' \in [Workers -> Worker]
        /\ \A j \in Workers \ {k} : worker'[j] = worker[j]
        /\ worker'[k].step = "found" /\ worker'[k].job = worker[k].job
        /\ worker'[k].client = worker[k].client
        /\ worker'[k].abandoned = worker[k].abandoned
    BY <1>1, <1>2, StepRow DEF BackendsTypeOK
  <1>4. /\ \A g \in Files, l \in Locators : Held(g, l)' = Held(g, l)
        /\ Readable => Readable'
        /\ Locked(k)
    BY <1>1, SameFiles
  <1>5. \A g \in Files : HoldsLock(k, g)' => HoldsLock(k, g) \/ LockFree(g)
    BY <1>3 DEF HoldsLock
  <1> QED BY <1>1, <1>2, <1>3, <1>4, <1>5, QuietStep

(* Once something may have moved, nothing is saved into the interim store. *)
LEMMA ComingIsFrozen ==
    ASSUME LocksHold, JobsMakeSense, SourceIsFrozen, NEW k \in Workers,
           worker[k].step = "loaded", worker[k].job.place = "plaintext", NEW l \in Locators
    PROVE  ~Coming(l)
  <1>1. SUFFICES ASSUME Coming(l) PROVE FALSE
    OBVIOUS
  <1>2. Working(k) /\ HoldsLock(k, "plaintext") /\ "plaintext" \in Files
    BY DEF Working, HoldsLock, Files
  <1>3. worker[k].job.backend = Legacy
    BY <1>1, <1>2 DEF LocksHold, Coming, Readable
  <1>4. worker[k].job.kind # "resolve"
    BY <1>2 DEF JobsMakeSense
  <1>5. Moving(disk)
    BY <1>1 DEF Coming, Moving
  <1> QED BY <1>2, <1>3, <1>4, <1>5 DEF SourceIsFrozen, WritesSource

(* One entry of a store is written, and what is there then is promised.    *)
LEMMA WrittenEntries ==
    ASSUME FilesAreKept, KeychainIsKept, UNCHANGED <<disk, memory, app, keychain>>,
           NEW f \in Files, NEW l \in Locators,
           Held(f, l)' \in promised'[f][l],
           \A g \in Files, m \in Locators : g # f \/ m # l => Held(g, m)' = Held(g, m),
           \A q \in Places, m \in Locators : q # f \/ m # l => promised[q][m] \subseteq promised'[q][m],
           Readable => Readable',
           Grows \/ f # "plaintext" \/ \A m \in Locators : ~Coming(m)
    PROVE  FilesAreKept' /\ KeychainIsKept'
  <1>1. Files \subseteq Places /\ "keychain" \in Places /\ "plaintext" \in Places
        /\ "keychain" \notin Files
    BY DEF Places, Files
  <1>2. Unused => Unused'
    BY DEF Unused, At
  <1>3. FilesAreKept'
    <2> SUFFICES ASSUME NEW g \in Files, NEW m \in Locators
                 PROVE  Held(g, m)' \in promised'[g][m] \/ (g = "plaintext" /\ Unused')
      BY DEF FilesAreKept
    <2>1. CASE g = f /\ m = l
      BY <2>1
    <2>2. CASE g # f \/ m # l
      BY <1>1, <1>2, <2>2 DEF FilesAreKept
    <2> QED BY <2>1, <2>2
  <1>4. KeychainIsKept'
    <2> SUFFICES ASSUME NEW m \in Locators
                 PROVE  keychain'[m] \in promised'["keychain"][m] \/ Coming(m)'
      BY DEF KeychainIsKept
    <2>1. promised["keychain"][m] \subseteq promised'["keychain"][m]
      BY <1>1
    <2>2. CASE keychain[m] \in promised["keychain"][m]
      BY <2>1, <2>2
    <2>3. CASE Coming(m)
      <3>1. promised["plaintext"][m] \subseteq promised'["plaintext"][m]
        BY <1>1, <2>3 DEF Grows
      <3> QED BY <2>1, <2>3, <3>1 DEF Coming
    <2> QED BY <2>2, <2>3 DEF KeychainIsKept
  <1> QED BY <1>3, <1>4

LEMMA SavedEntries ==
    ASSUME BackendsTypeOK, LocksHold, JobsMakeSense, NEW k \in Workers, FileSave(k, TRUE)
    PROVE  /\ Working(k) /\ Ends(k) /\ UNCHANGED keychain
           /\ worker[k].step = "loaded" /\ worker[k].job.place \in Files
           /\ \E l \in Locators, f \in Files :
                  /\ f = worker[k].job.place /\ l = worker[k].job.locator
                  /\ Held(f, l)' = worker[k].job.value
                  /\ \A g \in Files, m \in Locators : g # f \/ m # l => Held(g, m)' = Held(g, m)
           /\ Readable => Readable'
           /\ Locked(k)
  <1>1. PICK f \in Files :
            /\ Doing(k, f, "loaded") /\ files' = [files EXCEPT ![f].entries = Saved(k)]
            /\ Ends(k) /\ UNCHANGED keychain
    BY DEF FileSave
  <1>2. Working(k) /\ HoldsLock(k, f) /\ worker[k].job.place = f /\ worker[k].step = "loaded"
    BY <1>1 DEF Working, Doing, HoldsLock
  <1>3. files \in [Files -> Store \cup {None}] /\ files[f] \in Store
    BY <1>2 DEF BackendsTypeOK, LocksHold
  <1>4. PICK l \in Locators, v \in Values \cup {None} :
            l = worker[k].job.locator /\ v = worker[k].job.value
    BY <1>2, JobParts
  <1> DEFINE entries == [files[f].entries EXCEPT ![l] = v]
  <1>5. Saved(k) = entries /\ entries \in Entries
    <2>1. worker[k].copy = files[f].entries
      BY <1>2 DEF JobsMakeSense
    <2> QED BY <1>3, <1>4, <2>1 DEF Saved, Store, Entries
  <1>6. entries[l] = v /\ \A m \in Locators : m # l => entries[m] = files[f].entries[m]
    BY <1>3, <1>4 DEF Store, Entries
  <1> DEFINE store == [files[f] EXCEPT !.entries = entries]
  <1> HIDE DEF entries
  <1>7. store \in Store /\ store.entries = entries /\ store.owner = files[f].owner
    BY <1>3, <1>5 DEF Store
  <1>8. files' = [files EXCEPT ![f] = store]
    BY <1>1, <1>5
  <1> HIDE DEF store
  <1>9. files'[f] = store /\ \A g \in Files : g # f => files'[g] = files[g]
    BY <1>3, <1>8
  <1>10. store # None /\ files[f] # None
    BY <1>3, <1>7, BackendsAssumption
  <1>11. "keychain" \notin Files
    BY DEF Files
  <1>12. Held(f, l)' = v
    BY <1>6, <1>7, <1>9, <1>10, <1>11 DEF Held
  <1>13. ASSUME NEW g \in Files, NEW m \in Locators, g # f \/ m # l
         PROVE  Held(g, m)' = Held(g, m)
    <2>1. CASE g = f
      BY <1>6, <1>7, <1>9, <1>10, <1>11, <1>13, <2>1 DEF Held
    <2>2. CASE g # f
      BY <1>9, <1>11, <2>2 DEF Held
    <2> QED BY <2>1, <2>2
  <1>14. Readable => Readable'
    <2>1. "plaintext" \in Files
      BY DEF Files
    <2> QED BY <1>7, <1>9, <1>10, <2>1 DEF Readable
  <1>15. Locked(k)
    BY <1>2, <1>9 DEF Locked
  <1> QED BY <1>1, <1>2, <1>4, <1>12, <1>13, <1>14, <1>15

(* A store is saved: the caller is told that it is done, or that it may be.*)
LEMMA FileSaveServes ==
    ASSUME BackendsTypeOK, BrokerTypeOK, LocksHold, ServedInv, SourceIsFrozen, NEW k \in Workers,
           FileSave(k, TRUE), Done(k) \/ Unsure(k), UNCHANGED <<disk, memory, app>>
    PROVE  ServedInv' /\ NoNewJobs
  <1>1. /\ Working(k) /\ Ends(k) /\ UNCHANGED keychain
        /\ worker[k].step = "loaded" /\ worker[k].job.place \in Files
        /\ Readable => Readable'
        /\ Locked(k)
    BY SavedEntries DEF ServedInv
  <1>2. PICK l \in Locators, f \in Files :
            /\ f = worker[k].job.place /\ l = worker[k].job.locator
            /\ Held(f, l)' = worker[k].job.value
            /\ \A g \in Files, m \in Locators : g # f \/ m # l => Held(g, m)' = Held(g, m)
    BY SavedEntries DEF ServedInv
  <1>3. Answered(worker[k].client)
    BY DEF Done, Unsure
  <1>4. JobsMakeSense' /\ OneEach' /\ NoNewJobs
    BY <1>1, <1>3, EndsJobs DEF ServedInv
  <1>5. worker[k].job.kind # "resolve" /\ f \in Places
    BY <1>1 DEF ServedInv, JobsMakeSense, Places
  <1>6. worker[k].client = None => Dropped(k) /\ worker[k].job.value \in promised[f][l]
    BY <1>1, <1>2, <1>5 DEF Dropped, ServedInv, DroppedIsPromised
  <1>7. CASE Done(k)
    <2>1. /\ worker[k].job.value \in promised'[f][l]
          /\ \A q \in Places, m \in Locators : q # f \/ m # l => promised'[q][m] = promised[q][m]
      BY <1>1, <1>2, <1>6, <1>7, DonePromises DEF ServedInv
    <2>2. DroppedIsPromised'
      BY <1>1, <1>6, <1>7, DoneDropped DEF ServedInv
    <2>3. f # "plaintext" \/ \A m \in Locators : ~Coming(m)
      BY <1>1, <1>2, ComingIsFrozen DEF ServedInv
    <2>4. FilesAreKept' /\ KeychainIsKept'
      BY <1>1, <1>2, <2>1, <2>3, WrittenEntries DEF ServedInv
    <2> QED BY <1>4, <2>2, <2>4 DEF ServedInv
  <1>8. CASE Unsure(k)
    <2>1. Grows /\ worker[k].job.value \in promised'[f][l]
      <3>1. /\ Grows
            /\ worker[k].client # None => worker[k].job.value \in promised'[f][l]
        BY <1>1, <1>2, <1>5, <1>8, AnswerGrows
      <3> QED BY <1>5, <1>6, <3>1 DEF Grows
    <2>2. \A j \in Workers : Dropped(j)' => Dropped(j) /\ worker'[j].job = worker[j].job
      BY <1>1, EndsDropped
    <2>3. DroppedIsPromised'
      BY <2>1, <2>2, GrowsDropped DEF ServedInv
    <2>4. FilesAreKept' /\ KeychainIsKept'
      <3>1. \A q \in Places, m \in Locators :
                q # f \/ m # l => promised[q][m] \subseteq promised'[q][m]
        BY <2>1 DEF Grows
      <3> QED BY <1>1, <1>2, <2>1, <3>1, WrittenEntries DEF ServedInv
    <2> QED BY <1>4, <2>3, <2>4 DEF ServedInv
  <1> QED BY <1>7, <1>8

LEMMA KeychainServes ==
    ASSUME BackendsTypeOK, BrokerTypeOK, ServedInv, NEW k \in Workers,
           KeychainPut(k) \/ KeychainDelete(k), Done(k), UNCHANGED <<disk, memory, app>>
    PROVE  ServedInv' /\ NoNewJobs
  <1>1. /\ worker[k].step \in {"found", "queued"} /\ worker[k].job.place = "keychain"
        /\ Ends(k) /\ UNCHANGED files
        /\ worker[k].step = "found" \/ worker[k].job.kind = "delete"
    BY DEF KeychainPut, KeychainDelete, Doing
  <1>2. Working(k) /\ worker[k].job.kind # "resolve"
    BY <1>1 DEF Working, ServedInv, JobsMakeSense
  <1>3. PICK l \in Locators, v \in Values \cup {None} :
            l = worker[k].job.locator /\ v = worker[k].job.value
    BY <1>2, JobParts
  <1>4. keychain' = [keychain EXCEPT ![l] = v]
    <2>1. CASE KeychainPut(k)
      BY <1>3, <2>1 DEF KeychainPut
    <2>2. CASE KeychainDelete(k)
      <3>1. v = None
        BY <1>2, <1>3, <2>2 DEF KeychainDelete, ServedInv, JobsMakeSense
      <3> QED BY <1>3, <2>2, <3>1 DEF KeychainDelete
    <2> QED BY <2>1, <2>2
  <1>5. keychain'[l] = v /\ \A m \in Locators : m # l => keychain'[m] = keychain[m]
    BY <1>4 DEF BackendsTypeOK, Entries
  <1>6. Locked(k) /\ (Readable => Readable')
    BY <1>1 DEF Locked, Readable
  <1>7. JobsMakeSense' /\ OneEach' /\ NoNewJobs
    BY <1>1, <1>2, <1>6, EndsJobs DEF ServedInv, Done
  <1>8. worker[k].client = None => Dropped(k)
    BY <1>1, <1>2 DEF Dropped
  <1>9. /\ v \in promised'["keychain"][l]
        /\ \A q \in Places, m \in Locators :
               q # "keychain" \/ m # l => promised'[q][m] = promised[q][m]
    BY <1>1, <1>2, <1>3, <1>8, DonePromises DEF ServedInv
  <1>10. DroppedIsPromised'
    BY <1>1, <1>2, <1>8, DoneDropped DEF ServedInv
  <1>11. Files \subseteq Places /\ "keychain" \in Places /\ "plaintext" \in Places
         /\ "keychain" \notin Files
    BY DEF Places, Files
  <1>12. FilesAreKept'
    <2>1. \A f \in Files, m \in Locators : Held(f, m)' = Held(f, m)
      BY <1>1, <1>11 DEF Held
    <2>2. Unused => Unused'
      BY DEF Unused, At
    <2> QED BY <1>9, <1>11, <2>1, <2>2 DEF ServedInv, FilesAreKept
  <1>13. KeychainIsKept'
    <2> SUFFICES ASSUME NEW m \in Locators
                 PROVE  keychain'[m] \in promised'["keychain"][m] \/ Coming(m)'
      BY DEF KeychainIsKept
    <2>1. CASE m = l
      BY <1>5, <1>9, <2>1
    <2>2. CASE m # l
      <3>1. /\ keychain'[m] = keychain[m] /\ promised'["keychain"][m] = promised["keychain"][m]
            /\ promised'["plaintext"][m] = promised["plaintext"][m]
        BY <1>5, <1>9, <1>11, <2>2
      <3> QED BY <1>6, <3>1 DEF ServedInv, KeychainIsKept, Coming
    <2> QED BY <2>1, <2>2
  <1> QED BY <1>7, <1>10, <1>12, <1>13 DEF ServedInv

LEMMA ClaimServes ==
    ASSUME BackendsTypeOK, BrokerTypeOK, ServedInv, NEW k \in Workers, NEW done \in BOOLEAN,
           FileClaimFails(k, done), NotDone(k) \/ Unsure(k), UNCHANGED <<disk, memory, app>>
    PROVE  ServedInv' /\ NoNewJobs
  <1>1. PICK f \in Files :
            /\ Doing(k, f, "queued") /\ LockFree(f) /\ files[f] = None
            /\ files' = IF done THEN [files EXCEPT ![f] = Claimed(worker[k].job.backend)]
                                ELSE files
            /\ Ends(k) /\ UNCHANGED keychain
    BY DEF FileClaimFails
  <1>2. Working(k)
    BY <1>1 DEF Working, Doing
  <1>3. /\ \A g \in Files, l \in Locators : Held(g, l)' = Held(g, l)
        /\ Readable => Readable'
        /\ Locked(k)
    <2>1. CASE ~done
      BY <1>1, <2>1, SameFiles
    <2>2. CASE done
      <3>1. worker[k].job.backend \in BackendIds
        BY <1>2, JobParts
      <3>2. files' = [files EXCEPT ![f] = Claimed(worker[k].job.backend)]
        BY <1>1, <2>2
      <3> QED BY <1>1, <3>1, <3>2, ClaimEntries DEF Locked
    <2> QED BY <2>1, <2>2
  <1> QED BY <1>1, <1>2, <1>3, QuietEnd

(* Every step of a thread, for whoever waits or does not wait for it.      *)
LEMMA WorkerServes ==
    ASSUME BackendsTypeOK, BrokerTypeOK, LocksHold, ServedInv, SourceIsFrozen, NEW k \in Workers,
           WorkerStep(k) \/ WorkerFails(k), UNCHANGED <<disk, memory, app>>
    PROVE  ServedInv' /\ NoNewJobs
  <1>1. ASSUME Ends(k), Working(k), UNCHANGED <<files, keychain>>, NotDone(k) \/ Unsure(k)
        PROVE  ServedInv' /\ NoNewJobs
    <2>1. /\ \A f \in Files, l \in Locators : Held(f, l)' = Held(f, l)
          /\ Readable => Readable'
          /\ Locked(k)
      BY <1>1, SameFiles
    <2> QED BY <1>1, <2>1, QuietEnd
  <1>2. CASE Goes(k)
    BY <1>2, FileLockServes, FileLoadServes, KeychainFindServes DEF Goes
  <1>3. CASE Succeeds(k)
    BY <1>3, FileSaveServes, KeychainServes DEF Succeeds
  <1>4. CASE Answers(k)
    <2>1. Ends(k) /\ Working(k) /\ UNCHANGED <<files, keychain>> /\ NotDone(k)
      BY <1>4 DEF Answers, FileCancelled, FileRefused, FileAnswer, KeychainAnswer, Doing, Working
    <2> QED BY <1>1, <2>1
  <1>5. CASE Fails(k)
    <2>1. CASE (FileInsecure(k) \/ KeychainFails(k)) /\ NotDone(k)
      <3>1. Ends(k) /\ Working(k) /\ UNCHANGED <<files, keychain>>
        BY <2>1 DEF FileInsecure, KeychainFails, Doing, Working
      <3> QED BY <1>1, <2>1, <3>1
    <2>2. CASE \E done \in BOOLEAN : FileClaimFails(k, done) /\ (NotDone(k) \/ Unsure(k))
      BY <2>2, ClaimServes
    <2>3. CASE FileSave(k, FALSE) /\ (NotDone(k) \/ Unsure(k))
      <3>1. Ends(k) /\ Working(k) /\ UNCHANGED <<files, keychain>>
        BY <2>3 DEF FileSave, Doing, Working
      <3> QED BY <1>1, <2>3, <3>1
    <2>4. CASE FileSave(k, TRUE) /\ Unsure(k)
      BY <2>4, FileSaveServes
    <2> QED BY <1>5, <2>1, <2>2, <2>3, <2>4 DEF Fails
  <1> QED BY <1>2, <1>3, <1>4, <1>5 DEF WorkerStep, WorkerFails

------------------------------------------------------------------------------
(* The requests.                                                           *)

(* A step of the application that serves leaves its launch alone.          *)
LEMMA ServingStays ==
    ASSUME ConfigsAgree, At("serving"), UNCHANGED <<disk, memory, app>>
    PROVE  ConfigsAgree' /\ LoopsAlong'
  <1>1. ConfigsAgree'
    BY DEF ConfigsAgree, At, Recorded
  <1>2. LoopsAlong'
    BY DEF LoopsAlong, At, Looping, AtHand
  <1> QED BY <1>1, <1>2

LEMMA FrozenStays ==
    ASSUME SourceIsFrozen, NoNewJobs, UNCHANGED <<disk, memory, app>>
    PROVE  SourceIsFrozen'
  BY DEF SourceIsFrozen, NoNewJobs, At, WritesSource

(* set_connection_credential does not write into the source of a migration *)
(* that is copying.                                                        *)
LEMMA AskServes ==
    ASSUME BackendsTypeOK, BrokerTypeOK, memory.config \in Config, At("serving"),
           ServedInv, SourceIsFrozen,
           NEW t \in Clients, NEW c \in Connections,
           NEW kind \in {"put", "delete", "resolve"}, NEW v \in Values \cup {None},
           NEW overwrite \in BOOLEAN, Ask(t, c, kind, v, overwrite),
           kind # "put" => v = None, UNCHANGED <<disk, memory, app>>
    PROVE  ServedInv' /\ SourceIsFrozen'
  <1> DEFINE b   == memory.config.bindings[c]
             job == JobFor(b, kind, v, overwrite)
             asked == [step |-> "lock", job |-> job]
  <1>1. /\ request[t] = NoRequest /\ request' = [request EXCEPT ![t] = asked]
        /\ files' = files /\ keychain' = keychain /\ worker' = worker /\ promised' = promised
        /\ kind # "resolve" => ~(Copying(memory.config) /\ b.backend = Legacy)
    BY DEF Ask, backendVars
  <1>2. job.kind = kind /\ job.value = v /\ job.backend = b.backend
    BY DEF JobFor
  <1>3. asked.step = "lock" /\ asked.job = job
    OBVIOUS
  <1> HIDE DEF asked, job, b
  <1>4. \A u \in Clients : request'[u] = IF u = t THEN asked ELSE request[u]
    BY <1>1 DEF BrokerTypeOK
  <1>5. request[t].step = "idle"
    BY <1>1 DEF NoRequest
  <1>6. \A k \in Workers : Working(k) => worker[k].client # t
    <2> SUFFICES ASSUME NEW k \in Workers, Working(k), worker[k].client = t PROVE FALSE
      OBVIOUS
    <2>1. t # None
      BY BackendsAssumption
    <2>2. request[t].step = "work"
      BY <2>1 DEF ServedInv, JobsMakeSense
    <2> QED BY <1>5, <2>2
  <1>7. JobsMakeSense'
    <2>1. ASSUME NEW u \in Clients, request'[u].step # "idle", request'[u].job.kind = "delete"
          PROVE  request'[u].job.value = None
      BY <1>2, <1>3, <1>4, <2>1 DEF ServedInv, JobsMakeSense
    <2>2. \A k \in Workers : Working(k) /\ worker[k].client # None =>
              request'[worker[k].client] = request[worker[k].client]
      <3>1. \A k \in Workers : Working(k) => worker[k].client \in Clients \cup {None}
        BY JobParts
      <3> QED BY <1>4, <1>6, <3>1
    <2> QED BY <1>1, <2>1, <2>2 DEF ServedInv, JobsMakeSense, Working
  <1>8. OneEach' /\ DroppedIsPromised' /\ FilesAreKept' /\ KeychainIsKept'
    BY <1>1 DEF ServedInv, OneEach, DroppedIsPromised, FilesAreKept, KeychainIsKept, Working,
                HoldsLock, Dropped, Held, Unused, Coming, Readable, At
  <1>9. SourceIsFrozen'
    <2> SUFFICES ASSUME Moving(disk)
                 PROVE  /\ Copying(memory.config)
                        /\ \A u \in Clients : request'[u].step # "idle" => ~WritesSource(request'[u].job)
                        /\ \A k \in Workers : Working(k) => ~WritesSource(worker[k].job)
      BY <1>1 DEF SourceIsFrozen, Working
    <2>1. /\ Copying(memory.config)
          /\ \A u \in Clients : request[u].step # "idle" => ~WritesSource(request[u].job)
          /\ \A k \in Workers : Working(k) => ~WritesSource(worker[k].job)
      BY DEF SourceIsFrozen, At
    <2>2. ~WritesSource(job)
      BY <1>1, <1>2, <2>1 DEF WritesSource
    <2> QED BY <1>3, <1>4, <2>1, <2>2
  <1> QED BY <1>7, <1>8, <1>9 DEF ServedInv

LEMMA DispatchServes ==
    ASSUME BackendsTypeOK, BrokerTypeOK, ServedInv, SourceIsFrozen, NEW t \in Clients,
           Dispatch(t), UNCHANGED <<disk, memory, app>>
    PROVE  ServedInv' /\ SourceIsFrozen'
  <1> DEFINE job == request[t].job
             row == [step |-> "queued", job |-> job, client |-> t, abandoned |-> FALSE,
                     copy |-> NoEntries]
             asked == [request[t] EXCEPT !.step = "work"]
  <1>1. PICK k \in Workers : ~Working(k) /\ worker' = [worker EXCEPT ![k] = row]
    BY DEF Dispatch, Spawn
  <1>2. /\ request[t].step = "lock" /\ request' = [request EXCEPT ![t] = asked]
        /\ files' = files /\ keychain' = keychain /\ promised' = promised
    BY DEF Dispatch
  <1>3. asked.step = "work" /\ asked.job = job
    <2>1. request[t] \in [step : {"lock", "work"}, job : Job]
      BY <1>2 DEF BrokerTypeOK, Request, NoRequest
    <2> QED BY <2>1
  <1>4. row.step = "queued" /\ row.job = job /\ row.client = t /\ t # None
    BY BackendsAssumption
  <1>5. request[t].job = job
    OBVIOUS
  <1> HIDE DEF row, asked, job
  <1>6. \A u \in Clients : request'[u] = IF u = t THEN asked ELSE request[u]
    BY <1>2 DEF BrokerTypeOK
  <1>7. \A j \in Workers : worker'[j] = IF j = k THEN row ELSE worker[j]
    BY <1>1 DEF BackendsTypeOK
  <1>8. \A j \in Workers : Working(j) => worker[j].client # t
    BY <1>2, <1>4 DEF ServedInv, JobsMakeSense
  <1>9. Working(k)' /\ \A j \in Workers \ {k} : Working(j)' <=> Working(j)
    BY <1>4, <1>7 DEF Working
  <1>10. JobsMakeSense'
    <2>1. \A u \in Clients : request'[u].step # "idle" /\ request'[u].job.kind = "delete"
                                 => request'[u].job.value = None
      BY <1>2, <1>3, <1>5, <1>6 DEF ServedInv, JobsMakeSense
    <2>2. ASSUME NEW j \in Workers, Working(j)'
          PROVE  /\ worker'[j].job.kind = "delete" => worker'[j].job.value = None
                 /\ worker'[j].step \in {"locked", "loaded"} => worker'[j].job.place \in Files
                 /\ worker'[j].step = "loaded" =>
                        /\ worker'[j].job.kind # "resolve"
                        /\ worker'[j].copy = files'[worker'[j].job.place].entries
                 /\ worker'[j].step = "found" => /\ worker'[j].job.kind = "put"
                                                 /\ worker'[j].job.place = "keychain"
                 /\ worker'[j].client # None =>
                        /\ request'[worker'[j].client].step = "work"
                        /\ request'[worker'[j].client].job = worker'[j].job
                 /\ worker'[j].client = None /\ worker'[j].job.place \in Files
                        => worker'[j].abandoned
      <3>1. CASE j = k
        <4>1. job.kind = "delete" => job.value = None
          BY <1>2, <1>5 DEF ServedInv, JobsMakeSense
        <4> QED BY <1>3, <1>4, <1>6, <1>7, <3>1, <4>1
      <3>2. CASE j # k
        <4>1. Working(j) /\ worker'[j] = worker[j] /\ worker[j].client \in Clients \cup {None}
          BY <1>7, <1>9, <2>2, <3>2, JobParts
        <4>2. worker[j].client # None => request'[worker[j].client] = request[worker[j].client]
          BY <1>6, <1>8, <4>1
        <4> QED BY <1>2, <4>1, <4>2 DEF ServedInv, JobsMakeSense
      <3> QED BY <3>1, <3>2
    <2> QED BY <2>1, <2>2 DEF JobsMakeSense
  <1>11. OneEach'
    <2>1. \A f \in Files : ~HoldsLock(k, f)'
      BY <1>4, <1>7 DEF HoldsLock
    <2>2. \A j \in Workers \ {k}, f \in Files : HoldsLock(j, f)' <=> HoldsLock(j, f)
      BY <1>7 DEF HoldsLock, Working
    <2>3. ASSUME NEW i \in Workers, NEW j \in Workers, Working(i)', Working(j)', i # j
          PROVE  /\ worker'[i].client # None => worker'[i].client # worker'[j].client
                 /\ \A f \in Files : ~(HoldsLock(i, f)' /\ HoldsLock(j, f)')
      <3>1. CASE i = k
        BY <1>4, <1>7, <1>8, <1>9, <2>1, <2>3, <3>1
      <3>2. CASE j = k
        BY <1>4, <1>7, <1>8, <1>9, <2>1, <2>3, <3>2
      <3>3. CASE i # k /\ j # k
        BY <1>7, <1>9, <2>2, <2>3, <3>3 DEF ServedInv, OneEach
      <3> QED BY <3>1, <3>2, <3>3
    <2> QED BY <2>3 DEF OneEach
  <1>12. DroppedIsPromised'
    <2>1. \A j \in Workers : Dropped(j)' => Dropped(j) /\ worker'[j].job = worker[j].job
      BY <1>4, <1>7 DEF Dropped, Working
    <2>2. Grows
      BY <1>2 DEF Grows
    <2> QED BY <2>1, <2>2, GrowsDropped DEF ServedInv
  <1>13. FilesAreKept' /\ KeychainIsKept'
    BY <1>2 DEF ServedInv, FilesAreKept, KeychainIsKept, Held, Unused, Coming, Readable, At
  <1>14. SourceIsFrozen'
    <2> SUFFICES ASSUME Moving(disk)
                 PROVE  /\ ~At("off") => Copying(memory.config)
                        /\ \A u \in Clients : request'[u].step # "idle" => ~WritesSource(request'[u].job)
                        /\ \A j \in Workers : Working(j)' => ~WritesSource(worker'[j].job)
      BY DEF SourceIsFrozen, At
    <2>1. /\ ~At("off") => Copying(memory.config)
          /\ \A u \in Clients : request[u].step # "idle" => ~WritesSource(request[u].job)
          /\ \A j \in Workers : Working(j) => ~WritesSource(worker[j].job)
      BY DEF SourceIsFrozen
    <2>2. ~WritesSource(job)
      BY <1>2, <1>5, <2>1
    <2> QED BY <1>3, <1>4, <1>6, <1>7, <1>9, <2>1, <2>2
  <1> QED BY <1>10, <1>11, <1>12, <1>13, <1>14 DEF ServedInv

LEMMA GiveUpWaitingServes ==
    ASSUME BackendsTypeOK, BrokerTypeOK, ServedInv, NEW t \in Clients,
           GiveUpWaiting(t), UNCHANGED <<disk, memory, app>>
    PROVE  ServedInv' /\ NoNewJobs
  <1>1. /\ request[t].step = "lock" /\ request' = [request EXCEPT ![t] = NoRequest]
        /\ files' = files /\ keychain' = keychain /\ worker' = worker /\ promised' = promised
    BY DEF GiveUpWaiting, backendVars
  <1>2. \A u \in Clients : request'[u] = IF u = t THEN NoRequest ELSE request[u]
    BY <1>1 DEF BrokerTypeOK
  <1>3. NoRequest.step = "idle"
    BY DEF NoRequest
  <1>4. \A k \in Workers : Working(k) /\ worker[k].client # None =>
            request'[worker[k].client] = request[worker[k].client]
    <2>1. \A k \in Workers : Working(k) => worker[k].client \in Clients \cup {None}
      BY JobParts
    <2>2. \A k \in Workers : Working(k) /\ worker[k].client # None => worker[k].client # t
      BY <1>1 DEF ServedInv, JobsMakeSense
    <2> QED BY <1>2, <2>1, <2>2
  <1>5. JobsMakeSense'
    <2>1. \A u \in Clients : request'[u].step # "idle" /\ request'[u].job.kind = "delete"
                                 => request'[u].job.value = None
      BY <1>2, <1>3 DEF ServedInv, JobsMakeSense
    <2> QED BY <1>1, <1>4, <2>1 DEF ServedInv, JobsMakeSense, Working
  <1>6. OneEach' /\ DroppedIsPromised' /\ FilesAreKept' /\ KeychainIsKept'
    BY <1>1 DEF ServedInv, OneEach, DroppedIsPromised, FilesAreKept, KeychainIsKept, Working,
                HoldsLock, Dropped, Held, Unused, Coming, Readable, At
  <1>7. NoNewJobs
    BY <1>1, <1>2, <1>3 DEF NoNewJobs, Working
  <1> QED BY <1>5, <1>6, <1>7 DEF ServedInv

(* A caller that gives up on a write is told that it is uncertain, and the *)
(* write of its thread is one that it was told of.                         *)
LEMMA GiveUpWorkServes ==
    ASSUME BackendsTypeOK, BrokerTypeOK, ServedInv, NEW t \in Clients,
           GiveUpWork(t), UNCHANGED <<disk, memory, app>>
    PROVE  ServedInv' /\ NoNewJobs
  <1>1. PICK k \in Workers : Working(k) /\ worker[k].client = t /\ Abandon(k)
    BY DEF GiveUpWork
  <1>2. /\ request[t].step = "work" /\ request' = [request EXCEPT ![t] = NoRequest]
        /\ promised' = Uncertain(request[t].job)
        /\ files' = files /\ keychain' = keychain
    BY DEF GiveUpWork
  <1>3. t # None /\ request[t].job = worker[k].job
    BY <1>1, BackendsAssumption DEF ServedInv, JobsMakeSense
  <1> DEFINE flag == worker[k].job.place \in Files
             row  == [worker[k] EXCEPT !.client = None, !.abandoned = flag]
  <1>4. worker[k] \in Row
    BY <1>1, JobIsJob
  <1>5. /\ row.job = worker[k].job /\ row.step = worker[k].step /\ row.copy = worker[k].copy
        /\ row.client = None /\ row.abandoned = flag
    <2> HIDE DEF flag
    <2> QED BY <1>4 DEF Row
  <1>6. worker' = [worker EXCEPT ![k] = row]
    BY <1>1 DEF Abandon
  <1> HIDE DEF row
  <1>7. \A j \in Workers : worker'[j] = IF j = k THEN row ELSE worker[j]
    BY <1>6 DEF BackendsTypeOK
  <1>8. \A j \in Workers : worker'[j].job = worker[j].job /\ worker'[j].step = worker[j].step
                           /\ worker'[j].copy = worker[j].copy /\ (Working(j)' <=> Working(j))
    BY <1>5, <1>7 DEF Working
  <1>9. \A u \in Clients : request'[u] = IF u = t THEN NoRequest ELSE request[u]
    BY <1>2 DEF BrokerTypeOK
  <1>10. NoRequest.step = "idle"
    BY DEF NoRequest
  <1>11. NoNewJobs
    BY <1>8, <1>9, <1>10 DEF NoNewJobs
  <1>12. JobsMakeSense'
    <2>1. \A u \in Clients : request'[u].step # "idle" /\ request'[u].job.kind = "delete"
                                 => request'[u].job.value = None
      BY <1>9, <1>10 DEF ServedInv, JobsMakeSense
    <2>2. ASSUME NEW j \in Workers, Working(j)'
          PROVE  /\ worker'[j].job.kind = "delete" => worker'[j].job.value = None
                 /\ worker'[j].step \in {"locked", "loaded"} => worker'[j].job.place \in Files
                 /\ worker'[j].step = "loaded" =>
                        /\ worker'[j].job.kind # "resolve"
                        /\ worker'[j].copy = files'[worker'[j].job.place].entries
                 /\ worker'[j].step = "found" => /\ worker'[j].job.kind = "put"
                                                 /\ worker'[j].job.place = "keychain"
                 /\ worker'[j].client # None =>
                        /\ request'[worker'[j].client].step = "work"
                        /\ request'[worker'[j].client].job = worker'[j].job
                 /\ worker'[j].client = None /\ worker'[j].job.place \in Files
                        => worker'[j].abandoned
      <3>1. Working(j)
        BY <1>8, <2>2
      <3>2. /\ worker'[j].job.kind = "delete" => worker'[j].job.value = None
            /\ worker'[j].step \in {"locked", "loaded"} => worker'[j].job.place \in Files
            /\ worker'[j].step = "loaded" =>
                   /\ worker'[j].job.kind # "resolve"
                   /\ worker'[j].copy = files'[worker'[j].job.place].entries
            /\ worker'[j].step = "found" => /\ worker'[j].job.kind = "put"
                                            /\ worker'[j].job.place = "keychain"
        BY <1>2, <1>8, <3>1 DEF ServedInv, JobsMakeSense
      <3>3. CASE j = k
        BY <1>5, <1>7, <3>2, <3>3
      <3>4. CASE j # k
        <4>1. worker'[j] = worker[j] /\ worker[j].client \in Clients \cup {None}
          BY <1>7, <3>1, <3>4, JobParts
        <4>2. worker[j].client # None => worker[j].client # t
          BY <1>1, <3>1, <3>4 DEF ServedInv, OneEach
        <4>3. worker[j].client # None => request'[worker[j].client] = request[worker[j].client]
          BY <1>9, <4>1, <4>2
        <4> QED BY <3>1, <3>2, <4>1, <4>3 DEF ServedInv, JobsMakeSense
      <3> QED BY <3>3, <3>4
    <2> QED BY <2>1, <2>2 DEF JobsMakeSense
  <1>13. OneEach'
    <2>1. \A j \in Workers, f \in Files : HoldsLock(j, f)' <=> HoldsLock(j, f)
      BY <1>8 DEF HoldsLock
    <2>2. \A i \in Workers : worker'[i].client \in {None, worker[i].client}
      BY <1>5, <1>7
    <2>3. \A i, j \in Workers : Working(i)' /\ Working(j)' /\ i # j =>
              /\ worker'[i].client # None => worker'[i].client # worker'[j].client
              /\ \A f \in Files : ~(HoldsLock(i, f)' /\ HoldsLock(j, f)')
      BY <1>8, <2>1, <2>2 DEF ServedInv, OneEach
    <2> QED BY <2>3 DEF OneEach
  <1>14. request[t].job \in Job
    BY <1>2, RequestIsRequest
  <1>15. /\ Grows
         /\ worker[k].job.kind # "resolve" =>
                worker[k].job.value \in promised'[worker[k].job.place][worker[k].job.locator]
    BY <1>2, <1>3, <1>14, UncertainGrows
  <1>16. DroppedIsPromised'
    <2> SUFFICES ASSUME NEW j \in Workers, Dropped(j)'
                 PROVE  worker'[j].job.value
                            \in promised'[worker'[j].job.place][worker'[j].job.locator]
      BY DEF DroppedIsPromised
    <2>1. CASE j = k
      BY <1>8, <1>15, <2>1 DEF Dropped
    <2>2. CASE j # k
      <3>1. Dropped(j) /\ worker'[j] = worker[j] /\ Working(j)
        BY <1>7, <2>2 DEF Dropped, Working
      <3>2. worker[j].job.value \in promised[worker[j].job.place][worker[j].job.locator]
        BY <3>1 DEF ServedInv, DroppedIsPromised
      <3>3. worker[j].job.place \in Places /\ worker[j].job.locator \in Locators
        BY <3>1, JobParts
      <3> QED BY <1>15, <3>1, <3>2, <3>3 DEF Grows
    <2> QED BY <2>1, <2>2
  <1>17. FilesAreKept' /\ KeychainIsKept'
    <2>1. /\ \A f \in Files, l \in Locators : Held(f, l)' = Held(f, l)
          /\ Readable => Readable'
      BY <1>2 DEF Held, Readable
    <2> QED BY <1>2, <1>15, <2>1, SameEntries DEF ServedInv
  <1> QED BY <1>11, <1>12, <1>13, <1>16, <1>17 DEF ServedInv

(* Whatever the application does while it serves.                          *)
LEMMA ServingKeepsSecrets ==
    ASSUME IInv, KeepInv, Serve \/ ServeFails \/ (\E t \in Clients : Requests(t))
    PROVE  KeepInv'
  <1>1. /\ BackendsTypeOK /\ BrokerTypeOK /\ LocksHold /\ At("serving")
        /\ disk' = disk /\ memory' = memory /\ app' = app /\ memory.config \in Config
    BY DEF IInv, TypeOK, Requests, Serve, ServeFails, ConfigsAreSound, Sound, At, configVars
  <1>2. ConfigsAgree /\ SourceIsFrozen /\ ServedInv
    BY DEF KeepInv, ServedInv
  <1>3. ConfigsAgree' /\ LoopsAlong'
    BY <1>1, <1>2, ServingStays
  <1>4. ServedInv' /\ SourceIsFrozen'
    <2>1. ASSUME NEW t \in Clients, Requests(t) PROVE ServedInv' /\ SourceIsFrozen'
      <3>1. PICK c \in Connections :
                \/ \E v \in Values, overwrite \in BOOLEAN : Ask(t, c, "put", v, overwrite)
                \/ \E kind \in {"delete", "resolve"} : Ask(t, c, kind, None, FALSE)
        BY <2>1 DEF Requests
      <3>2. PICK kind \in {"put", "delete", "resolve"}, v \in Values \cup {None},
                 overwrite \in BOOLEAN :
                Ask(t, c, kind, v, overwrite) /\ (kind # "put" => v = None)
        BY <3>1
      <3> QED BY <1>1, <1>2, <3>2, AskServes
    <2>2. ASSUME NEW t \in Clients, Dispatch(t) PROVE ServedInv' /\ SourceIsFrozen'
      BY <1>1, <1>2, <2>2, DispatchServes
    <2>3. ASSUME NEW t \in Clients, GiveUpWaiting(t) PROVE ServedInv' /\ SourceIsFrozen'
      BY <1>1, <1>2, <2>3, GiveUpWaitingServes, FrozenStays
    <2>4. ASSUME NEW t \in Clients, GiveUpWork(t) PROVE ServedInv' /\ SourceIsFrozen'
      BY <1>1, <1>2, <2>4, GiveUpWorkServes, FrozenStays
    <2>5. ASSUME NEW k \in Workers, WorkerStep(k) \/ WorkerFails(k)
          PROVE  ServedInv' /\ SourceIsFrozen'
      BY <1>1, <1>2, <2>5, WorkerServes, FrozenStays
    <2> QED BY <2>1, <2>2, <2>3, <2>4, <2>5 DEF Serve, ServeFails
  <1> QED BY <1>3, <1>4 DEF KeepInv, ServedInv

------------------------------------------------------------------------------
(* While nobody is served.                                                 *)

Alone == worker = [k \in Workers |-> Idle] /\ request = [t \in Clients |-> NoRequest]

LEMMA AloneIsQuiet ==
    ASSUME Alone
    PROVE  /\ JobsMakeSense /\ OneEach /\ DroppedIsPromised
           /\ \A k \in Workers : ~Working(k)
           /\ \A t \in Clients : request[t].step = "idle"
  <1>1. /\ \A k \in Workers : ~Working(k)
        /\ \A t \in Clients : request[t].step = "idle"
    BY DEF Alone, Working, Idle, NoRequest
  <1> QED BY <1>1 DEF JobsMakeSense, OneEach, DroppedIsPromised, Dropped

LEMMA AloneIsQuietThen ==
    ASSUME Alone'
    PROVE  /\ JobsMakeSense' /\ OneEach' /\ DroppedIsPromised'
           /\ \A k \in Workers : ~Working(k)'
           /\ \A t \in Clients : request'[t].step = "idle"
  <1>1. /\ \A k \in Workers : ~Working(k)'
        /\ \A t \in Clients : request'[t].step = "idle"
    BY DEF Alone, Working, Idle, NoRequest
  <1> QED BY <1>1 DEF JobsMakeSense, OneEach, DroppedIsPromised, Dropped

(* What is left to show of a step after which nobody is served.            *)
LEMMA AloneKeeps ==
    ASSUME Alone', ConfigsAgree', FilesAreKept', KeychainIsKept', LoopsAlong',
           Moving(disk)' /\ ~At("off")' => Copying(memory'.config)
    PROVE  KeepInv'
  <1>1. SourceIsFrozen'
    BY AloneIsQuietThen DEF SourceIsFrozen
  <1> QED BY <1>1, AloneIsQuietThen DEF KeepInv

------------------------------------------------------------------------------
(* Configurations.                                                         *)

(* A backend is at the interim file by one of two spellings of its path.   *)
LEMMA LeadsBySettings ==
    ASSUME NEW config \in Config
    PROVE  Leads(config) <=> \E b \in BackendIds : config.backends[b] \in {"plaintext", "alias"}
  BY DEF Leads, PlaceOf

LEMMA NoOwnerNoLead ==
    ASSUME NEW config \in Config, files["plaintext"] # None, ~OwnsPath(config, {})
    PROVE  ~Leads(config)
  BY LeadsBySettings DEF OwnsPath, FileSettings, PlaceOf

LEMMA CopyingLeads ==
    ASSUME NEW config \in Config, Valid(config), Copying(config)
    PROVE  Leads(config)
  BY LeadsBySettings DEF Valid, BackendIds

LEMMA CopyingIsNotCleaning ==
    ASSUME NEW config, Copying(config) PROVE ~Cleaning(config)
  BY DEF Copying, Cleaning

(* A connection is stored.                                                 *)
LEMMA WithConnectionParts ==
    ASSUME NEW config \in Config, NEW c \in Connections, NEW b \in Binding
    PROVE  /\ WithConnection(config, c, b).migration = config.migration
           /\ Leads(WithConnection(config, c, b)) => Leads(config)
  <1>1. /\ WithConnection(config, c, b).migration = config.migration
        /\ WithConnection(config, c, b).backends =
               [config.backends EXCEPT ![Target] = IF b.backend = Target THEN "keychain" ELSE @]
    BY DEF WithConnection, Config
  <1>2. config.backends \in [BackendIds -> Settings \cup {None}]
    BY DEF Config
  <1>3. \A i \in BackendIds :
            WithConnection(config, c, b).backends[i] \in {config.backends[i], "keychain"}
    BY <1>1, <1>2
  <1>4. PlaceOf("keychain") # "plaintext"
    BY DEF PlaceOf
  <1>5. Leads(WithConnection(config, c, b)) => Leads(config)
    BY <1>3, <1>4 DEF Leads
  <1> QED BY <1>1, <1>5

LEMMA ConnectionKeepsSecrets ==
    ASSUME IInv, KeepInv, At("serving"), ~Copying(memory.config),
           NEW c \in Connections, NEW b \in Binding,
           NEW result \in WriteResults, Update(WithConnection(memory.config, c, b), result),
           UNCHANGED <<backendVars, brokerVars, app>>
    PROVE  KeepInv'
  <1> DEFINE config == WithConnection(memory.config, c, b)
  <1>1. /\ Sound(disk) /\ Sound(memory.config)
        /\ memory \in [revision : Nat, config : Config]
    BY DEF IInv, ConfigsAreSound, At
  <1>2. Sound(config) /\ config.migration = memory.config.migration
        /\ (Leads(config) => Leads(memory.config))
    BY <1>1, WithConnectionSound, WithConnectionParts DEF Sound
  <1>3. Update(config, result)
    OBVIOUS
  <1> HIDE DEF config
  <1>4. /\ disk' \in {disk, config} /\ memory'.config \in {memory.config, disk, config}
        /\ memory' \in [revision : Nat, config : Config]
    BY <1>1, <1>2, <1>3, UpdateKeepsSound
  <1>5. /\ files' = files /\ keychain' = keychain /\ worker' = worker /\ request' = request
        /\ promised' = promised /\ app' = app
    BY DEF backendVars, brokerVars
  <1>6. ~Moving(disk) /\ ~Moving(disk')
    <2>1. ~Moving(disk)
      BY DEF KeepInv, SourceIsFrozen, At
    <2> QED BY <1>2, <1>4, <2>1 DEF Moving, Copying
  <1>7. Valid(config) /\ Valid(disk) /\ Valid(memory.config)
    BY <1>3 DEF Update, KeepInv, ConfigsAgree, At
  <1>8. ConfigsAgree'
    BY <1>4, <1>5, <1>7 DEF ConfigsAgree, At, Recorded
  <1>9. LoopsAlong'
    BY <1>5 DEF LoopsAlong, At, Looping, AtHand
  <1>10. SourceIsFrozen'
    BY <1>6 DEF SourceIsFrozen
  <1>11. JobsMakeSense' /\ OneEach' /\ DroppedIsPromised'
    BY <1>5 DEF KeepInv, JobsMakeSense, OneEach, DroppedIsPromised, Working, HoldsLock, Dropped
  <1>12. FilesAreKept'
    <2>1. Unused => Unused'
      BY <1>2, <1>4, <1>5 DEF Unused, At
    <2>2. \A f \in Files, l \in Locators : Held(f, l)' = Held(f, l)
      BY <1>5 DEF Held
    <2> QED BY <1>5, <2>1, <2>2 DEF KeepInv, FilesAreKept
  <1>13. KeychainIsKept'
    <2>1. \A l \in Locators : ~Coming(l)
      BY <1>6 DEF Coming, Moving
    <2> QED BY <1>5, <2>1 DEF KeepInv, KeychainIsKept
  <1> QED BY <1>8, <1>9, <1>10, <1>11, <1>12, <1>13 DEF KeepInv

LEMMA PutConnectionKeepsSecrets ==
    ASSUME IInv, KeepInv, NEW c \in Connections, NEW b \in Binding,
           PutConnection(c, b) \/ PutConnectionFails(c, b)
    PROVE  KeepInv'
  <1>1. PICK result \in WriteResults : Update(WithConnection(memory.config, c, b), result)
    BY DEF PutConnection, PutConnectionFails, WriteResults
  <1> QED BY <1>1, ConnectionKeepsSecrets DEF PutConnection, PutConnectionFails

------------------------------------------------------------------------------
(* The steps of the migration that change neither the configuration nor    *)
(* what is promised.                                                       *)

LEMMA EntriesStay ==
    ASSUME FilesAreKept, KeychainIsKept, UNCHANGED <<files, keychain, disk>>, Grows,
           Unused => Unused'
    PROVE  FilesAreKept' /\ KeychainIsKept'
  <1>1. Files \subseteq Places /\ "keychain" \in Places /\ "plaintext" \in Places
    BY DEF Places, Files
  <1>2. \A f \in Files, l \in Locators : Held(f, l)' = Held(f, l)
    BY DEF Held
  <1>3. FilesAreKept'
    BY <1>1, <1>2 DEF FilesAreKept, Grows
  <1>4. KeychainIsKept'
    BY <1>1 DEF KeychainIsKept, Coming, Grows, Readable
  <1> QED BY <1>3, <1>4

LEMMA StillAlone ==
    ASSUME IInv, Migrating, UNCHANGED <<worker, request>>
    PROVE  Alone'
  BY MigratingState DEF Alone

(* In the migration the snapshot is what is on the disk.                   *)
LEMMA MigratingConfig ==
    ASSUME IInv, KeepInv, Migrating
    PROVE  /\ memory.config = disk /\ Valid(disk) /\ disk \in Config
           /\ ~At("off") /\ ~At("build") /\ ~At("serving")
  <1>1. app.step \notin {"off", "build", "serving"}
    BY DEF Migrating
  <1>2. memory.config = disk /\ Valid(disk)
    BY <1>1 DEF KeepInv, ConfigsAgree
  <1> QED BY <1>1, <1>2, MigratingState DEF At, Sound

LEMMA ReadsKeepSecrets ==
    ASSUME IInv, KeepInv, Migrating,
           UNCHANGED <<disk, memory, files, keychain, worker, request, promised>>,
           app'.step \in Steps \ {"off", "serving"}, LoopsAlong',
           app'.step \in Recorded => Copying(disk),
           app'.step \in {"purge", "zeroed"} => ~Leads(disk) /\ Cleaning(disk)
    PROVE  KeepInv'
  <1>1. /\ memory.config = disk /\ Valid(disk) /\ ~At("off") /\ ~At("off")'
    BY MigratingConfig DEF At
  <1>2. ConfigsAgree'
    BY <1>1 DEF ConfigsAgree
  <1>3. Grows /\ (Unused => Unused')
    BY <1>1 DEF Grows, Unused
  <1>4. FilesAreKept' /\ KeychainIsKept'
    BY <1>3, EntriesStay DEF KeepInv
  <1>5. Moving(disk)' /\ ~At("off")' => Copying(memory'.config)
    BY <1>1 DEF Moving
  <1> QED BY <1>2, <1>4, <1>5, StillAlone, AloneKeeps

(* To a step at which nothing is relied on.                                *)
Resting == {"look", "list", "begin", "check", "purge", "zeroed", "finish", "build"}

LEMMA RestingIsAlong == app'.step \in Resting => LoopsAlong'
  BY DEF LoopsAlong, At, Resting, Looping, AtHand

LEMMA ReturnKeepsSecrets ==
    ASSUME IInv, KeepInv, Migrating, NEW result, Returns(result),
           UNCHANGED <<disk, memory, files, keychain, worker, request, promised>>
    PROVE  KeepInv'
  <1>1. app'.step = "build"
    BY MigratingState, ReturnsType
  <1>2. LoopsAlong'
    BY <1>1, RestingIsAlong DEF Resting
  <1> QED BY <1>1, <1>2, ReadsKeepSecrets DEF Steps, Recorded

LEMMA ReadsAreUnchanged ==
    Reads => UNCHANGED <<disk, memory, files, keychain, worker, request, promised>>
  BY DEF Reads, configVars, backendVars, brokerVars

LEMMA LookForInterimKeepsSecrets == ASSUME IInv, KeepInv, LookForInterim PROVE KeepInv'
  <1>1. /\ Migrating
        /\ UNCHANGED <<disk, memory, files, keychain, worker, request, promised>>
    BY ReadsAreUnchanged DEF LookForInterim, At, Migrating, Steps
  <1>2. CASE \E result \in {"ready", "pending"} : Returns(result)
    BY <1>1, <1>2, ReturnKeepsSecrets
  <1>3. CASE \E step \in {"list", "begin"} : Goto(step)
    <2>1. app'.step \in {"list", "begin"}
      BY <1>1, <1>3, MigratingState, GotoType DEF Steps
    <2>2. LoopsAlong'
      BY <2>1, RestingIsAlong DEF Resting
    <2> QED BY <1>1, <2>1, <2>2, ReadsKeepSecrets DEF Steps, Recorded
  <1> QED BY <1>2, <1>3 DEF LookForInterim

LEMMA ListKeepsSecrets == ASSUME IInv, KeepInv, List PROVE KeepInv'
  <1>1. /\ Migrating
        /\ UNCHANGED <<disk, memory, files, keychain, worker, request, promised>>
    BY ReadsAreUnchanged DEF List, At, Migrating, Steps
  <1>2. CASE Returns("pending")
    BY <1>1, <1>2, ReturnKeepsSecrets
  <1>3. CASE ~Returns("pending")
    <2>1. app'.step = "begin"
      BY <1>1, <1>3, MigratingState DEF List, App
    <2>2. LoopsAlong'
      BY <2>1, RestingIsAlong DEF Resting
    <2> QED BY <1>1, <2>1, <2>2, ReadsKeepSecrets DEF Steps, Recorded
  <1> QED BY <1>2, <1>3

(* Where a recorded migration is taken up.                                 *)
LEMMA TakenUp ==
    ASSUME app \in App, NEW config \in Config, config.migration # None, TakesUp(config),
           files["plaintext"] # None \/ ~app.exists
    PROVE  \/ app'.step = "build"
           \/ app'.step = "purge" /\ Cleaning(config) /\ ~Leads(config)
           \/ app'.step = "finish"
           \/ app'.step = "check" /\ Copying(config)
           \/ app'.step = "checkpoint" /\ Copying(config)
                  /\ DOMAIN config.migration.receipts = {}
  <1> DEFINE next == TakeUp(config, app.exists)
  <1>1. Cleaning(config) \/ Copying(config)
    <2>1. config.migration \in Migration
      BY DEF Config
    <2> QED BY <2>1 DEF Cleaning, Copying, Migration
  <1>2. CASE next = "return"
    <2>1. Returns("pending")
      BY <1>2 DEF TakesUp
    <2> QED BY <2>1, ReturnsType
  <1>3. CASE next # "return"
    <2>1. Goto(next)
      BY <1>3 DEF TakesUp
    <2>2. /\ next \in {"purge", "finish", "check", "checkpoint"}
          /\ next = "purge" => Cleaning(config) /\ app.exists /\ ~OwnsPath(config, {})
          /\ next \in {"check", "checkpoint"} => ~Cleaning(config)
          /\ next = "checkpoint" => DOMAIN config.migration.receipts = {}
      BY <1>3 DEF TakeUp
    <2> HIDE DEF next
    <2>3. app'.step = next
      BY <2>1, <2>2, GotoType DEF Steps
    <2>4. next = "purge" => ~Leads(config)
      BY <2>2, NoOwnerNoLead
    <2> QED BY <1>1, <2>2, <2>3, <2>4
  <1> QED BY <1>2, <1>3

LEMMA ResumeKeepsSecrets == ASSUME IInv, KeepInv, Resume PROVE KeepInv'
  <1>1. /\ Migrating /\ TakesUp(memory.config) /\ memory.config.migration # None
        /\ UNCHANGED <<disk, memory, files, keychain, worker, request, promised>>
        /\ app.exists <=> (files["plaintext"] # None)
    BY ReadsAreUnchanged DEF Resume, At, Migrating, Steps, IInv, StepsRely
  <1>2. memory.config = disk /\ disk \in Config
    BY <1>1, MigratingConfig
  <1>3. \/ app'.step = "build"
        \/ app'.step = "purge" /\ Cleaning(disk) /\ ~Leads(disk)
        \/ app'.step = "finish"
        \/ app'.step = "check" /\ Copying(disk)
        \/ app'.step = "checkpoint" /\ Copying(disk) /\ DOMAIN disk.migration.receipts = {}
    BY <1>1, <1>2, MigratingState, TakenUp
  <1>4. LoopsAlong'
    <2>1. CASE app'.step = "checkpoint"
      BY <1>1, <1>3, <2>1 DEF LoopsAlong, At, Looping, AtHand
    <2>2. CASE app'.step # "checkpoint"
      BY <1>3, <2>2, RestingIsAlong DEF Resting
    <2> QED BY <2>1, <2>2
  <1> QED BY <1>1, <1>3, <1>4, ReadsKeepSecrets DEF Steps, Recorded

LEMMA CheckKeepsSecrets == ASSUME IInv, KeepInv, Check PROVE KeepInv'
  <1> DEFINE manifest == DOMAIN memory.config.migration.receipts
             next == IF manifest = {} THEN "checkpoint" ELSE "read"
  <1>1. /\ Migrating /\ At("check")
        /\ UNCHANGED <<disk, memory, files, keychain, worker, request, promised>>
    BY ReadsAreUnchanged DEF Check, At, Migrating, Steps
  <1>2. CASE Returns("pending")
    BY <1>1, <1>2, ReturnKeepsSecrets
  <1>3. CASE ~Returns("pending")
    <2>1. Readable /\ app' = [app EXCEPT !.step = next, !.todo = manifest]
      BY <1>3 DEF Check
    <2>2. memory.config = disk
      BY <1>1, MigratingConfig
    <2>3. /\ next = "checkpoint" \/ next = "read"
          /\ next = "checkpoint" => DOMAIN disk.migration.receipts = {}
      BY <2>2
    <2>4. Copying(disk)
      BY <1>1 DEF KeepInv, ConfigsAgree, At, Recorded
    <2> HIDE DEF next
    <2>5. app'.step = next /\ app'.todo = DOMAIN disk.migration.receipts
      BY <1>1, <2>1, <2>2, MigratingState DEF App
    <2>6. LoopsAlong'
      BY <1>1, <2>1, <2>3, <2>5 DEF LoopsAlong, At, Looping, AtHand, Readable
    <2> QED BY <1>1, <2>3, <2>4, <2>5, <2>6, ReadsKeepSecrets DEF Steps
  <1> QED BY <1>2, <1>3

(* What holds while a locator is at hand.                                  *)
LEMMA LoopState ==
    ASSUME IInv, KeepInv, app.step \in Looping
    PROVE  /\ Migrating /\ Copying(disk) /\ Readable /\ memory.config = disk
           /\ app.todo \subseteq DOMAIN disk.migration.receipts
           /\ Valid(disk) /\ disk \in Config /\ app \in App
           /\ disk.migration \in Migration
  <1>1. Migrating /\ app.step \in Recorded
    BY DEF Looping, Migrating, Steps, Recorded
  <1>2. memory.config = disk /\ Valid(disk) /\ disk \in Config
    BY <1>1, MigratingConfig
  <1>3. Copying(disk) /\ Readable
    BY <1>1 DEF KeepInv, ConfigsAgree, LoopsAlong
  <1>4. app.todo \subseteq DOMAIN disk.migration.receipts /\ disk.migration \in Migration
    BY <1>1, <1>2 DEF IInv, StepsRely
  <1> QED BY <1>1, <1>2, <1>3, <1>4, MigratingState

LEMMA ReadKeepsSecrets == ASSUME IInv, KeepInv, Read PROVE KeepInv'
  <1>1. /\ Migrating /\ At("read") /\ app.step \in Looping
        /\ UNCHANGED <<disk, memory, files, keychain, worker, request, promised>>
    BY ReadsAreUnchanged DEF Read, At, Migrating, Steps, Looping
  <1>2. PICK l \in app.todo :
            IF Held("plaintext", l) = None
            THEN Returns("pending")
            ELSE /\ app' = [app EXCEPT !.step = "peek", !.locator = l,
                                       !.todo = @ \ {l}, !.secret = Held("plaintext", l),
                                       !.receipt = memory.config.migration.receipts[l]]
                 /\ UNCHANGED status
    BY DEF Read
  <1>3. CASE Held("plaintext", l) = None
    BY <1>1, <1>2, <1>3, ReturnKeepsSecrets
  <1>4. CASE Held("plaintext", l) # None
    <2> DEFINE held == Held("plaintext", l)
               receipt == memory.config.migration.receipts[l]
    <2>1. app' = [app EXCEPT !.step = "peek", !.locator = l, !.todo = app.todo \ {l},
                             !.secret = held, !.receipt = receipt]
      BY <1>2, <1>4
    <2> HIDE DEF held, receipt
    <2>2. /\ app'.step = "peek" /\ app'.locator = l /\ app'.todo = app.todo \ {l}
          /\ app'.secret = held /\ app'.receipt = receipt
      BY <1>1, <2>1, MigratingState DEF App
    <2>3. /\ Copying(disk) /\ Readable /\ memory.config = disk
          /\ l \in DOMAIN disk.migration.receipts
      BY <1>1, LoopState
    <2>4. receipt = disk.migration.receipts[l] /\ held = Held("plaintext", l)
      BY <2>3 DEF receipt, held
    <2>5. \A m \in DOMAIN disk.migration.receipts \ app.todo : Copied(m)
      BY <1>1 DEF KeepInv, LoopsAlong
    <2>6. Held("plaintext", l)' = Held("plaintext", l)
          /\ \A m \in DOMAIN disk.migration.receipts : Copied(m) => Copied(m)'
      BY <1>1 DEF Held, Copied
    <2>7. Readable'
      BY <1>1, <2>3 DEF Readable
    <2>8. LoopsAlong'
      <3>1. \A m \in DOMAIN disk.migration.receipts \ ((app.todo \ {l}) \cup {l}) : Copied(m)'
        BY <2>5, <2>6
      <3>2. app'.secret = Held("plaintext", app.locator)'
        BY <2>2, <2>4, <2>6
      <3> QED BY <1>1, <2>2, <2>3, <2>4, <2>7, <3>1, <3>2 DEF LoopsAlong, At, Looping, AtHand
    <2> QED BY <1>1, <2>2, <2>3, <2>8, ReadsKeepSecrets DEF Steps
  <1> QED BY <1>3, <1>4

(* A step with the locator at hand that only reads.                        *)
LEMMA LoopKeepsSecrets ==
    ASSUME IInv, KeepInv, app.step \in AtHand, Reads,
           NEW step \in Looping \cup {"checkpoint"}, Goto(step),
           step # "peek",
           step = "copy" => disk.migration.receipts[app.locator] # "none",
           step \in {"record", "read", "checkpoint"} => Copied(app.locator),
           step = "checkpoint" => app.todo = {}
    PROVE  KeepInv'
  <1>1. /\ UNCHANGED <<disk, memory, files, keychain, worker, request, promised>>
        /\ app.step \in Looping /\ step \in Steps \ {"off", "serving"}
    BY ReadsAreUnchanged DEF AtHand, Looping, Steps
  <1>2. Copying(disk) /\ Readable /\ app \in App /\ Migrating
    BY <1>1, LoopState
  <1>3. /\ app'.step = step /\ app'.todo = app.todo /\ app'.locator = app.locator
        /\ app'.secret = app.secret
    BY <1>1, <1>2 DEF Goto, App
  <1>4. /\ app.locator \in DOMAIN disk.migration.receipts
        /\ app.secret = Held("plaintext", app.locator)
        /\ \A l \in DOMAIN disk.migration.receipts \ (app.todo \cup {app.locator}) : Copied(l)
    BY DEF KeepInv, LoopsAlong
  <1>5. /\ app'.secret = Held("plaintext", app.locator)'
        /\ \A m \in DOMAIN disk.migration.receipts : Copied(m) => Copied(m)'
        /\ Copied(app.locator) => Copied(app.locator)'
        /\ Readable'
    BY <1>1, <1>2, <1>3, <1>4 DEF Held, Copied, Readable
  <1>6. LoopsAlong'
    <2>1. \A l \in DOMAIN disk.migration.receipts \ (app.todo \cup {app.locator}) : Copied(l)'
      BY <1>4, <1>5
    <2>2. step \in {"read", "checkpoint"} =>
              \A l \in DOMAIN disk.migration.receipts \ app.todo : Copied(l)'
      BY <1>4, <1>5
    <2> QED BY <1>1, <1>3, <1>4, <1>5, <2>1, <2>2 DEF LoopsAlong, At, Looping, AtHand
  <1> QED BY <1>1, <1>2, <1>3, <1>6, ReadsKeepSecrets DEF Looping

LEMMA PeekKeepsSecrets == ASSUME IInv, KeepInv, Peek PROVE KeepInv'
  <1>1. /\ At("peek") /\ Migrating /\ Reads /\ app.step \in AtHand
        /\ UNCHANGED <<disk, memory, files, keychain, worker, request, promised>>
    BY ReadsAreUnchanged DEF Peek, At, Migrating, Steps, AtHand
  <1>2. CASE AfterPeek = "return"
    BY <1>1, <1>2, ReturnKeepsSecrets DEF Peek
  <1>3. CASE AfterPeek # "return"
    <2>1. /\ AfterPeek \in {"verify", "mark", "copy"}
          /\ AfterPeek = "copy" => app.receipt = "copying"
      <3>1. app.receipt \in {"none", "copying", "copied"}
        BY <1>1, MigratingState DEF App
      <3> QED BY <1>3, <3>1 DEF AfterPeek
    <2>2. Goto(AfterPeek)
      BY <1>3 DEF Peek
    <2>3. app.receipt = disk.migration.receipts[app.locator]
      BY <1>1 DEF KeepInv, LoopsAlong
    <2> QED BY <1>1, <2>1, <2>2, <2>3, LoopKeepsSecrets DEF Looping
  <1> QED BY <1>2, <1>3

LEMMA VerifyKeepsSecrets == ASSUME IInv, KeepInv, Verify PROVE KeepInv'
  <1> DEFINE next == IF app.receipt = "copied" THEN AfterLocator ELSE "record"
  <1>1. /\ At("verify") /\ Migrating /\ Reads /\ app.step \in AtHand
        /\ UNCHANGED <<disk, memory, files, keychain, worker, request, promised>>
    BY ReadsAreUnchanged DEF Verify, At, Migrating, Steps, AtHand
  <1>2. CASE keychain[app.locator] # app.secret
    BY <1>1, <1>2, ReturnKeepsSecrets DEF Verify
  <1>3. CASE keychain[app.locator] = app.secret
    <2>1. Goto(next)
      BY <1>3 DEF Verify
    <2>2. next \in {"record", "read", "checkpoint"} /\ (next = "checkpoint" => app.todo = {})
      BY DEF AfterLocator
    <2> HIDE DEF next
    <2>3. Copied(app.locator)
      BY <1>1, <1>3 DEF KeepInv, LoopsAlong, Copied
    <2> QED BY <1>1, <2>1, <2>2, <2>3, LoopKeepsSecrets DEF Looping
  <1> QED BY <1>2, <1>3

LEMMA KeychainRefusesKeepsSecrets == ASSUME IInv, KeepInv, KeychainRefuses PROVE KeepInv'
  <1>1. /\ Migrating /\ Returns("pending")
        /\ UNCHANGED <<disk, memory, files, keychain, worker, request, promised>>
    BY DEF KeychainRefuses, At, Migrating, Steps, configVars, backendVars, brokerVars
  <1> QED BY <1>1, ReturnKeepsSecrets

(* While the migration copies, the interim store is in use, and what it    *)
(* holds is promised.                                                      *)
LEMMA SourceIsKept ==
    ASSUME KeepInv, disk \in Config, Copying(disk), NEW l \in Locators
    PROVE  Held("plaintext", l) \in promised["plaintext"][l]
  <1>1. Leads(disk)
    BY CopyingLeads DEF KeepInv, ConfigsAgree
  <1> QED BY <1>1 DEF KeepInv, FilesAreKept, Unused, Files

(* The copy arrives where nothing was set.                                 *)
LEMMA CopyKeepsSecrets == ASSUME IInv, KeepInv, Copy PROVE KeepInv'
  <1>1. /\ At("copy") /\ app.step \in Looping /\ app.step \in AtHand
        /\ keychain[app.locator] = None
        /\ keychain' = [keychain EXCEPT ![app.locator] = app.secret]
        /\ Goto("verify") /\ UNCHANGED <<disk, memory, files, worker, request, promised>>
    BY DEF Copy, configVars, brokerVars, At, Looping, AtHand
  <1>2. /\ Migrating /\ Copying(disk) /\ Readable /\ memory.config = disk
        /\ Valid(disk) /\ disk \in Config /\ app \in App /\ disk.migration \in Migration
    BY <1>1, LoopState
  <1>3. /\ app.locator \in DOMAIN disk.migration.receipts
        /\ app.secret = Held("plaintext", app.locator)
        /\ \A l \in DOMAIN disk.migration.receipts \ (app.todo \cup {app.locator}) : Copied(l)
        /\ disk.migration.receipts[app.locator] # "none"
    BY <1>1 DEF KeepInv, LoopsAlong
  <1>4. app.locator \in Locators /\ DOMAIN disk.migration.receipts \subseteq Locators
    BY <1>2, <1>3, ReceiptsType
  <1>5. /\ keychain'[app.locator] = app.secret
        /\ \A l \in Locators : l # app.locator => keychain'[l] = keychain[l]
    BY <1>1, <1>2, <1>4, MigratingState DEF BackendsTypeOK, Entries
  <1>6. /\ app'.step = "verify" /\ app'.todo = app.todo /\ app'.locator = app.locator
        /\ app'.secret = app.secret
    BY <1>1, <1>2 DEF Goto, App
  <1>7. Readable' /\ \A f \in Files, l \in Locators : Held(f, l)' = Held(f, l)
    BY <1>1, <1>2 DEF Readable, Held, Files
  <1>8. "plaintext" \in Files
    BY DEF Files
  <1>9. ConfigsAgree'
    BY <1>1, <1>2, <1>6 DEF ConfigsAgree, At
  <1>10. FilesAreKept'
    <2>1. Unused => Unused'
      BY <1>1, <1>2, MigratingConfig DEF Unused
    <2> QED BY <1>1, <1>7, <2>1 DEF KeepInv, FilesAreKept
  <1>11. KeychainIsKept'
    <2> SUFFICES ASSUME NEW l \in Locators
                 PROVE  keychain'[l] \in promised'["keychain"][l] \/ Coming(l)'
      BY DEF KeychainIsKept
    <2>1. CASE l = app.locator
      <3>1. None \in promised["keychain"][l]
        BY <1>1, <2>1 DEF KeepInv, KeychainIsKept, Coming
      <3>2. keychain'[l] \in promised["plaintext"][l]
        BY <1>2, <1>3, <1>4, <1>5, <2>1, SourceIsKept
      <3> QED BY <1>1, <1>2, <1>3, <1>7, <2>1, <3>1, <3>2 DEF Coming
    <2>2. CASE l # app.locator
      <3>1. keychain'[l] = keychain[l]
        BY <1>5, <2>2
      <3> QED BY <1>1, <1>7, <3>1 DEF KeepInv, KeychainIsKept, Coming
    <2> QED BY <2>1, <2>2
  <1>12. LoopsAlong'
    <2>1. app'.secret = Held("plaintext", app.locator)'
      BY <1>1, <1>3, <1>6 DEF Held
    <2>2. ASSUME NEW l \in DOMAIN disk.migration.receipts \ (app.todo \cup {app.locator})
          PROVE  Copied(l)'
      <3>1. keychain'[l] = keychain[l] /\ Held("plaintext", l)' = Held("plaintext", l)
        BY <1>4, <1>5, <1>7, <1>8
      <3> QED BY <1>3, <3>1 DEF Copied
    <2> QED BY <1>1, <1>3, <1>6, <1>7, <2>1, <2>2 DEF LoopsAlong, At, Looping, AtHand
  <1>13. Moving(disk)' /\ ~At("off")' => Copying(memory'.config)
    BY <1>1, <1>2
  <1> QED BY <1>1, <1>2, <1>9, <1>10, <1>11, <1>12, <1>13, StillAlone, AloneKeeps

(* The interim file goes, which nothing leads to.                          *)
LEMMA PurgesKeepSecrets ==
    ASSUME IInv, KeepInv, At("purge") \/ At("zeroed"),
           UNCHANGED <<disk, memory, keychain, worker, request, promised>>,
           files'["other"] = files["other"],
           app'.step \in {"zeroed", "finish", "build"}
    PROVE  KeepInv'
  <1>1. Migrating /\ app.step \in {"purge", "zeroed"}
    BY DEF Migrating, Steps, At
  <1>2. memory.config = disk /\ Valid(disk) /\ ~At("off") /\ ~Leads(disk) /\ Cleaning(disk)
    BY <1>1, MigratingConfig DEF KeepInv, ConfigsAgree
  <1>3. ~Copying(disk)
    BY <1>2, CopyingIsNotCleaning
  <1>4. ConfigsAgree' /\ LoopsAlong'
    BY <1>2, RestingIsAlong DEF ConfigsAgree, At, Recorded, Resting
  <1>5. FilesAreKept'
    <2>1. Unused'
      BY <1>2 DEF Unused
    <2>2. \A l \in Locators : Held("other", l)' = Held("other", l)
      BY DEF Held
    <2>3. \A l \in Locators : Held("other", l) \in promised["other"][l]
      BY DEF KeepInv, FilesAreKept, Files
    <2> QED BY <2>1, <2>2, <2>3 DEF FilesAreKept, Files
  <1>6. KeychainIsKept'
    BY <1>3 DEF KeepInv, KeychainIsKept, Coming
  <1>7. Moving(disk)' /\ ~At("off")' => Copying(memory'.config)
    BY <1>3 DEF Moving
  <1> QED BY <1>1, <1>4, <1>5, <1>6, <1>7, StillAlone, AloneKeeps

LEMMA PurgeKeepsSecrets == ASSUME IInv, KeepInv, Zero \/ Remove \/ PurgeFails PROVE KeepInv'
  <1>1. /\ At("purge") \/ At("zeroed")
        /\ UNCHANGED <<disk, memory, keychain, worker, request, promised>>
        /\ Goto("zeroed") \/ Goto("finish") \/ Goto("build")
    BY DEF Zero, Remove, PurgeFails, Returns, configVars, brokerVars
  <1>2. app \in App /\ files \in [Files -> Store \cup {None}]
    BY DEF IInv, TypeOK, BackendsTypeOK
  <1>3. app'.step \in {"zeroed", "finish", "build"}
    BY <1>1, <1>2, GotoType DEF Steps
  <1>4. files'["other"] = files["other"]
    BY <1>2 DEF Zero, Remove, PurgeFails, Files
  <1> QED BY <1>1, <1>3, <1>4, PurgesKeepSecrets

------------------------------------------------------------------------------
(* The launch and the end of a process.                                    *)

LEMMA LaunchKeepsSecrets == ASSUME IInv, KeepInv, Launch PROVE KeepInv'
  <1>1. /\ At("off") /\ memory' = [revision |-> 0, config |-> disk]
        /\ UNCHANGED <<disk, files, keychain, worker, request, promised>>
        /\ app' = [Fresh EXCEPT !.step = "look", !.exists = files["plaintext"] # None]
    BY DEF Launch, Open, ReadConfig, backendVars, brokerVars
  <1>2. memory'.config = disk /\ app'.step = "look"
    <2> DEFINE exists == files["plaintext"] # None
    <2>1. app' = [Fresh EXCEPT !.step = "look", !.exists = exists]
      BY <1>1
    <2> HIDE DEF exists
    <2> QED BY <1>1, <2>1 DEF Fresh
  <1>3. Alone'
    BY <1>1 DEF IInv, MigrationIsAlone, Alone, At
  <1>4. ConfigsAgree' /\ LoopsAlong'
    BY <1>1, <1>2, RestingIsAlong DEF KeepInv, ConfigsAgree, At, Recorded, Resting
  <1>5. FilesAreKept' /\ KeychainIsKept'
    <2>1. Grows /\ (Unused => Unused')
      BY <1>1, <1>2 DEF Grows, Unused
    <2> QED BY <1>1, <2>1, EntriesStay DEF KeepInv
  <1>6. Moving(disk)' /\ ~At("off")' => Copying(memory'.config)
    BY <1>1, <1>2 DEF Moving
  <1> QED BY <1>3, <1>4, <1>5, <1>6, AloneKeeps

LEMMA BuildKeepsSecrets == ASSUME IInv, KeepInv, Build PROVE KeepInv'
  <1>1. /\ At("build") /\ UNCHANGED <<disk, files, keychain, worker, request, promised>>
        /\ \/ Goto("serving") /\ memory' = memory
           \/ app' = Fresh /\ memory' = None
    BY DEF Build, backendVars
  <1>2. app'.step \in {"serving", "off"} /\ (app'.step = "serving" => memory' = memory)
    BY <1>1, GotoType, FreshIsApp DEF IInv, TypeOK, Steps
  <1>3. Alone'
    BY <1>1 DEF IInv, MigrationIsAlone, Alone, At
  <1>4. Valid(disk) /\ Valid(memory.config) /\ (Moving(disk) => Copying(memory.config))
    BY <1>1 DEF KeepInv, ConfigsAgree, SourceIsFrozen, At
  <1>5. ConfigsAgree' /\ LoopsAlong'
    BY <1>1, <1>2, <1>4 DEF ConfigsAgree, At, Recorded, LoopsAlong, Looping, AtHand
  <1>6. FilesAreKept' /\ KeychainIsKept'
    <2>1. Grows /\ (Unused => Unused')
      BY <1>1, <1>2 DEF Grows, Unused, At
    <2> QED BY <1>1, <2>1, EntriesStay DEF KeepInv
  <1>7. Moving(disk)' /\ ~At("off")' => Copying(memory'.config)
    BY <1>1, <1>2, <1>4 DEF Moving, At
  <1> QED BY <1>3, <1>5, <1>6, <1>7, AloneKeeps

LEMMA EndedKeepsSecrets == ASSUME IInv, KeepInv, Ended PROVE KeepInv'
  <1>1. /\ UNCHANGED <<disk, files, keychain>> /\ app' = Fresh
        /\ worker' = [k \in Workers |-> Idle] /\ request' = [t \in Clients |-> NoRequest]
        /\ promised' = [p \in Places |-> [l \in Locators |-> promised[p][l] \cup InFlight(p, l)]]
    BY DEF Ended, Close, Killed
  <1>2. Alone'
    BY <1>1 DEF Alone
  <1>3. app'.step = "off"
    BY <1>1, FreshIsApp
  <1>4. ConfigsAgree' /\ LoopsAlong'
    BY <1>1, <1>3 DEF KeepInv, ConfigsAgree, At, Recorded, LoopsAlong, Looping, AtHand
  <1>5. FilesAreKept' /\ KeychainIsKept'
    <2>1. Grows
      BY <1>1 DEF Grows
    <2>2. Unused => Unused'
      BY <1>1, <1>3 DEF Unused, At
    <2> QED BY <1>1, <2>1, <2>2, EntriesStay DEF KeepInv
  <1>6. ~(Moving(disk)' /\ ~At("off")')
    BY <1>3 DEF At
  <1> QED BY <1>2, <1>4, <1>5, <1>6, AloneKeeps

------------------------------------------------------------------------------
(* The steps of the migration that change the configuration.               *)

(* What is on the disk then and what the process has of it.                *)
LEMMA Changed ==
    ASSUME IInv, KeepInv, Migrating, NEW config, Sound(config),
           Changes(config) \/ ChangeFails(config)
    PROVE  /\ disk' \in {disk, config} /\ memory'.config \in {disk, config}
           /\ disk' = disk => memory'.config = disk
           /\ Valid(config) /\ Valid(disk)
           /\ Changes(config) => disk' = config /\ memory'.config = config
           /\ promised' = Moved(disk')
           /\ UNCHANGED <<files, keychain, worker, request>>
           /\ ~Changes(config) => app'.step = "build"
  <1>1. /\ Sound(disk) /\ Sound(memory.config) /\ memory \in [revision : Nat, config : Config]
        /\ memory.config = disk /\ Valid(disk) /\ app \in App
    BY MigratingState, MigratingConfig
  <1>2. /\ promised' = Moved(disk') /\ UNCHANGED <<files, keychain, worker, request>>
    BY DEF Changes, ChangeFails, backendVars
  <1>3. ~Changes(config) => app'.step = "build"
    BY <1>1, ReturnsType DEF ChangeFails
  <1>4. PICK result \in WriteResults :
            Update(config, result) /\ (Changes(config) => result = "written")
    BY DEF Changes, ChangeFails, WriteResults
  <1>5. /\ disk' \in {disk, config}
        /\ memory'.config \in {memory.config, disk, config}
        /\ result = "written" => disk' = config /\ memory'.config = config
    BY <1>1, <1>4, UpdateKeepsSound
  <1>6. disk' = disk => memory'.config = disk
    <2>1. CASE result = "unwritten"
      <3>1. memory' = memory
        BY <1>1, <1>4, <2>1 DEF Update, ReadConfig
      <3> QED BY <1>1, <3>1
    <2>2. CASE result # "unwritten"
      <3>1. disk' = config
        BY <1>4, <2>2 DEF Update
      <3> QED BY <1>1, <1>5, <3>1
    <2> QED BY <2>1, <2>2
  <1>7. Valid(config)
    BY <1>4 DEF Update
  <1> QED BY <1>1, <1>2, <1>3, <1>4, <1>5, <1>6, <1>7

LEMMA SameBackendsLead ==
    ASSUME NEW i, NEW j, i.backends = j.backends PROVE Leads(i) <=> Leads(j)
  BY DEF Leads

(* A change of the migration that moves no binding.                        *)
LEMMA ChangeKeepsSecrets ==
    ASSUME IInv, KeepInv, Migrating, NEW config, Sound(config),
           Changes(config) \/ ChangeFails(config),
           config.backends = disk.backends,
           Cleaning(config) => Cleaning(disk),
           Moving(config) => Copying(disk),
           \A l \in Locators : Coming(l) =>
               /\ Copying(config) /\ l \in DOMAIN config.migration.receipts
               /\ config.migration.receipts[l] # "none",
           app'.step \in Steps \ {"off", "serving", "purge", "zeroed"},
           app'.step \in Recorded => Copying(disk'), LoopsAlong'
    PROVE  KeepInv'
  <1>1. /\ disk' \in {disk, config} /\ memory'.config \in {disk, config}
        /\ disk' = disk => memory'.config = disk
        /\ Valid(config) /\ Valid(disk)
        /\ Changes(config) => disk' = config /\ memory'.config = config
        /\ promised' = Moved(disk')
        /\ UNCHANGED <<files, keychain, worker, request>>
        /\ ~Changes(config) => app'.step = "build"
    BY Changed
  <1>2. promised' = promised
    BY <1>1 DEF Moved
  <1>3. ConfigsAgree'
    BY <1>1 DEF ConfigsAgree
  <1>4. memory.config = disk /\ ~At("off")
    BY MigratingConfig
  <1>5. Unused => Unused'
    <2>1. Leads(config) <=> Leads(disk)
      BY SameBackendsLead
    <2> QED BY <1>1, <2>1 DEF Unused
  <1>6. FilesAreKept'
    <2>1. \A f \in Files, l \in Locators : Held(f, l)' = Held(f, l)
      BY <1>1 DEF Held
    <2> QED BY <1>2, <1>5, <2>1 DEF KeepInv, FilesAreKept
  <1>7. KeychainIsKept'
    <2> SUFFICES ASSUME NEW l \in Locators
                 PROVE  keychain'[l] \in promised'["keychain"][l] \/ Coming(l)'
      BY DEF KeychainIsKept
    <2>1. Readable => Readable'
      BY <1>1 DEF Readable
    <2>2. Coming(l) => Coming(l)'
      BY <1>1, <1>2, <2>1 DEF Coming
    <2> QED BY <1>1, <1>2, <2>2 DEF KeepInv, KeychainIsKept
  <1>8. Moving(disk)' /\ ~At("off")' => Copying(memory'.config)
    BY <1>1 DEF Moving
  <1> QED BY <1>1, <1>3, <1>6, <1>7, <1>8, StillAlone, AloneKeeps

LEMMA BeginKeepsSecrets == ASSUME IInv, KeepInv, Begin PROVE KeepInv'
  <1>1. /\ At("begin") /\ Migrating /\ (app.exists <=> (files["plaintext"] # None))
        /\ memory.config.migration = None
    BY DEF Begin, At, Migrating, Steps, IInv, StepsRely, CanBegin
  <1>2. memory.config = disk /\ disk \in Config /\ Sound(disk)
        /\ app \in App /\ app.listed \in SUBSET Locators
    BY <1>1, MigratingConfig, MigratingState DEF App
  <1> DEFINE receipts == [l \in app.listed |-> "none"]
             migration == [phase |-> "copying", receipts |-> receipts]
  <1>3. Sound(Begun) /\ ~Cleaning(Begun) /\ Begun.migration \in Migration
    BY <1>2, WithMigrationSound DEF Begun
  <1>4. Begun.backends = disk.backends /\ Begun.migration = migration
    BY <1>2 DEF Begun, WithMigration, Config
  <1>5. Begun \in Config /\ Begun.migration # None
    BY <1>3, ConfigAssumption DEF Sound
  <1>6. ~Moving(Begun) /\ ~Moving(disk)
    <2>1. \A l \in DOMAIN Begun.migration.receipts : Begun.migration.receipts[l] = "none"
      BY <1>4
    <2> QED BY <1>1, <1>2, <2>1 DEF Moving, Copying
  <1>7. \A l \in Locators : ~Coming(l)
    BY <1>6 DEF Moving, Coming
  <1> DEFINE config == Begun
  <1> HIDE DEF receipts, config
  <1>8. CASE Changes(config) /\ TakesUp(config)
    <2>1. disk' = config /\ memory'.config = config
          /\ UNCHANGED <<files, keychain, worker, request>>
      BY <1>1, <1>3, <1>8, Changed DEF config
    <2>2. \/ app'.step = "build"
          \/ app'.step = "finish"
          \/ app'.step = "check" /\ Copying(config)
          \/ app'.step = "checkpoint" /\ Copying(config)
                 /\ DOMAIN config.migration.receipts = {}
      BY <1>1, <1>2, <1>3, <1>5, <1>8, TakenUp DEF config
    <2>3. LoopsAlong'
      <3>1. CASE app'.step = "checkpoint"
        BY <2>1, <2>2, <3>1 DEF LoopsAlong, At, Looping, AtHand
      <3>2. CASE app'.step # "checkpoint"
        BY <2>2, <3>2, RestingIsAlong DEF Resting
      <3> QED BY <3>1, <3>2
    <2>4. /\ app'.step \in Steps \ {"off", "serving", "purge", "zeroed"}
          /\ app'.step \in Recorded => Copying(disk')
      BY <2>1, <2>2 DEF Steps, Recorded
    <2> QED BY <1>1, <1>3, <1>4, <1>6, <1>7, <1>8, <2>3, <2>4, ChangeKeepsSecrets DEF config
  <1>9. CASE ChangeFails(config)
    <2>1. app'.step = "build"
      BY <1>2, <1>9, ReturnsType DEF ChangeFails
    <2>2. LoopsAlong'
      BY <2>1, RestingIsAlong DEF Resting
    <2> QED BY <1>1, <1>3, <1>4, <1>6, <1>7, <1>9, <2>1, <2>2, ChangeKeepsSecrets
            DEF Steps, Recorded, config
  <1> QED BY <1>8, <1>9 DEF Begin, config

LEMMA FinishKeepsSecrets == ASSUME IInv, KeepInv, Finish PROVE KeepInv'
  <1> DEFINE config == WithoutMigration(memory.config)
  <1>1. At("finish") /\ Migrating /\ Cleaning(memory.config)
    BY DEF Finish, At, Migrating, Steps, CanFinish
  <1>2. memory.config = disk /\ disk \in Config /\ Sound(disk) /\ app \in App
    BY <1>1, MigratingConfig, MigratingState
  <1>3. Sound(config)
    BY <1>2, WithoutMigrationSound
  <1>4. config.backends = disk.backends /\ config.migration = None
    BY <1>2 DEF WithoutMigration, Config
  <1>5. Changes(config) \/ ChangeFails(config)
    BY DEF Finish
  <1>6. \E result \in {"ready", "pending"} : Returns(result)
    BY DEF Finish, ChangeFails
  <1> HIDE DEF config
  <1>7. ~Copying(disk) /\ ~Cleaning(config) /\ ~Moving(config)
    BY <1>1, <1>2, <1>4, CopyingIsNotCleaning DEF Cleaning, Moving, Copying
  <1>8. app'.step = "build"
    BY <1>2, <1>6, ReturnsType
  <1>9. LoopsAlong'
    BY <1>8, RestingIsAlong DEF Resting
  <1>10. \A l \in Locators : ~Coming(l)
    BY <1>7 DEF Coming
  <1> QED BY <1>1, <1>3, <1>4, <1>5, <1>7, <1>8, <1>9, <1>10, ChangeKeepsSecrets
          DEF Steps, Recorded

(* A receipt is recorded.                                                  *)
LEMMA WithReceiptParts ==
    ASSUME NEW config \in Config, config.migration \in Migration, config.migration # None,
           NEW l \in DOMAIN config.migration.receipts, NEW state \in {"copying", "copied"}
    PROVE  LET next == WithReceipt(config, l, state) IN
           /\ next.backends = config.backends
           /\ Cleaning(next) => Cleaning(config)
           /\ Copying(next) <=> Copying(config)
           /\ DOMAIN next.migration.receipts = DOMAIN config.migration.receipts
           /\ next.migration.receipts[l] = state
           /\ \A m \in DOMAIN config.migration.receipts :
                  m # l => next.migration.receipts[m] = config.migration.receipts[m]
  <1> DEFINE old == config.migration
             receipts == [old.receipts EXCEPT ![l] = state]
             migration == [old EXCEPT !.receipts = receipts]
  <1>1. PICK manifest \in SUBSET Locators :
            old.receipts \in [manifest -> {"none", "copying", "copied"}]
    BY DEF Migration, Receipts
  <1>2. /\ receipts \in Receipts /\ DOMAIN receipts = DOMAIN old.receipts
        /\ receipts[l] = state
        /\ \A m \in DOMAIN old.receipts : m # l => receipts[m] = old.receipts[m]
    <2>1. receipts \in [manifest -> {"none", "copying", "copied"}]
      BY <1>1
    <2> QED BY <1>1, <2>1 DEF Receipts
  <1> HIDE DEF receipts
  <1>3. migration \in Migration /\ migration.receipts = receipts /\ migration.phase = old.phase
    BY <1>2 DEF Migration
  <1>4. migration # None
    BY <1>3, ConfigAssumption
  <1> HIDE DEF migration
  <1>5. WithReceipt(config, l, state) = [config EXCEPT !.migration = migration]
    BY DEF WithReceipt, migration, receipts, Config, Migration
  <1>6. /\ WithReceipt(config, l, state).backends = config.backends
        /\ WithReceipt(config, l, state).migration = migration
    BY <1>5 DEF Config
  <1> QED BY <1>2, <1>3, <1>4, <1>6 DEF Cleaning, Copying

LEMMA RecordsKeepSecrets ==
    ASSUME IInv, KeepInv, app.step \in AtHand, NEW state \in {"copying", "copied"},
           NEW next \in {"copy", "read", "checkpoint"}, Records(state, next),
           next # "copy" => Copied(app.locator),
           next = "checkpoint" => app.todo = {}
    PROVE  KeepInv'
  <1> DEFINE config == WithReceipt(memory.config, app.locator, state)
  <1>1. app.step \in Looping
    BY DEF AtHand, Looping
  <1>2. /\ Migrating /\ Copying(disk) /\ Readable /\ memory.config = disk
        /\ disk \in Config /\ app \in App /\ disk.migration \in Migration
        /\ Sound(disk) /\ disk.migration # None
    BY <1>1, LoopState, MigratingState DEF Copying
  <1>3. /\ app.locator \in DOMAIN disk.migration.receipts
        /\ app.secret = Held("plaintext", app.locator)
        /\ \A l \in DOMAIN disk.migration.receipts \ (app.todo \cup {app.locator}) : Copied(l)
    BY DEF KeepInv, LoopsAlong
  <1>4. Sound(config)
    BY <1>2, WithReceiptSound
  <1>5. /\ config.backends = disk.backends
        /\ Cleaning(config) => Cleaning(disk)
        /\ Copying(config)
        /\ DOMAIN config.migration.receipts = DOMAIN disk.migration.receipts
        /\ config.migration.receipts[app.locator] = state
        /\ \A m \in DOMAIN disk.migration.receipts :
               m # app.locator => config.migration.receipts[m] = disk.migration.receipts[m]
    BY <1>2, <1>3, WithReceiptParts
  <1>6. (Changes(config) /\ Goto(next)) \/ ChangeFails(config)
    BY DEF Records
  <1> HIDE DEF config
  <1>7. \A l \in Locators : Coming(l) =>
            /\ Copying(config) /\ l \in DOMAIN config.migration.receipts
            /\ config.migration.receipts[l] # "none"
    BY <1>5 DEF Coming
  <1>8. CASE Changes(config) /\ Goto(next)
    <2>1. disk' = config /\ UNCHANGED <<files, keychain>>
      BY <1>2, <1>4, <1>8, Changed
    <2>2. /\ app'.step = next /\ app'.todo = app.todo /\ app'.locator = app.locator
          /\ app'.secret = app.secret
      BY <1>2, <1>8 DEF Goto, App
    <2>3. /\ app'.secret = Held("plaintext", app.locator)'
          /\ \A m \in DOMAIN disk.migration.receipts : Copied(m) => Copied(m)'
          /\ Readable'
      BY <1>2, <1>3, <2>1, <2>2 DEF Held, Copied, Readable
    <2>4. LoopsAlong'
      <3>1. \A l \in DOMAIN disk'.migration.receipts \ (app.todo \cup {app.locator}) : Copied(l)'
        BY <1>3, <1>5, <2>1, <2>3
      <3>2. CASE next = "copy"
        BY <1>3, <1>5, <2>1, <2>2, <2>3, <3>1, <3>2 DEF LoopsAlong, At, Looping, AtHand
      <3>3. CASE next # "copy"
        <4>1. \A l \in DOMAIN disk'.migration.receipts \ app.todo : Copied(l)'
          BY <1>3, <1>5, <2>1, <2>3, <3>3
        <4> QED BY <2>2, <2>3, <3>3, <4>1 DEF LoopsAlong, At, Looping, AtHand
      <3> QED BY <3>2, <3>3
    <2>5. /\ app'.step \in Steps \ {"off", "serving", "purge", "zeroed"}
          /\ app'.step \in Recorded => Copying(disk')
      BY <1>5, <2>1, <2>2 DEF Steps
    <2> QED BY <1>2, <1>4, <1>5, <1>7, <1>8, <2>4, <2>5, ChangeKeepsSecrets
  <1>9. CASE ChangeFails(config)
    <2>1. app'.step = "build"
      BY <1>2, <1>9, ReturnsType DEF ChangeFails
    <2>2. LoopsAlong'
      BY <2>1, RestingIsAlong DEF Resting
    <2> QED BY <1>2, <1>4, <1>5, <1>7, <1>9, <2>1, <2>2, ChangeKeepsSecrets DEF Steps, Recorded
  <1> QED BY <1>6, <1>8, <1>9

LEMMA MarkKeepsSecrets == ASSUME IInv, KeepInv, Mark PROVE KeepInv'
  BY RecordsKeepSecrets DEF Mark, At, AtHand

LEMMA RecordKeepsSecrets == ASSUME IInv, KeepInv, Record PROVE KeepInv'
  <1>1. At("record") /\ app.step \in AtHand /\ Records("copied", AfterLocator)
    BY DEF Record, At, AtHand
  <1>2. AfterLocator \in {"read", "checkpoint"} /\ (AfterLocator = "checkpoint" => app.todo = {})
    BY DEF AfterLocator
  <1>3. Copied(app.locator)
    BY <1>1 DEF KeepInv, LoopsAlong
  <1> QED BY <1>1, <1>2, <1>3, RecordsKeepSecrets

(* The bindings move, and what the callers rely on with them: every entry  *)
(* of the manifest has its copy by then.                                   *)
LEMMA CheckpointedParts ==
    ASSUME NEW config \in Config, config.migration \in Migration
    PROVE  LET next == Checkpointed(config) IN
           /\ Cleaning(next)
           /\ DOMAIN next.migration.receipts = DOMAIN config.migration.receipts
           /\ Leads(next) => Leads(config)
  <1> DEFINE next == Checkpointed(config)
  <1>1. /\ next.migration = [config.migration EXCEPT !.phase = "cleanup"]
        /\ next.backends = [config.backends EXCEPT ![Legacy] = None, ![Target] = "keychain"]
    BY DEF Checkpointed
  <1>2. /\ next.migration \in Migration /\ next.migration.phase = "cleanup"
        /\ next.migration.receipts = config.migration.receipts
    BY <1>1 DEF Migration
  <1>3. next.migration # None
    BY <1>2, ConfigAssumption
  <1>4. \A i \in BackendIds : next.backends[i] \in {config.backends[i], None, "keychain"}
    BY <1>1 DEF Config
  <1>5. PlaceOf("keychain") # "plaintext" /\ PlaceOf(None) # "plaintext"
    BY ConfigAssumption DEF PlaceOf, Settings, FileSettings
  <1> HIDE DEF next
  <1>6. Leads(next) => Leads(config)
    BY <1>4, <1>5 DEF Leads
  <1>7. Cleaning(next) /\ DOMAIN next.migration.receipts = DOMAIN config.migration.receipts
    BY <1>2, <1>3 DEF Cleaning
  <1> QED BY <1>6, <1>7 DEF next

LEMMA CheckpointKeepsSecrets == ASSUME IInv, KeepInv, Checkpoint PROVE KeepInv'
  <1> DEFINE config == Checkpointed(memory.config)
  <1>1. /\ At("checkpoint") /\ Migrating /\ memory.config.migration \in Migration
        /\ app.exists <=> (files["plaintext"] # None)
    BY DEF Checkpoint, At, Migrating, Steps, IInv, StepsRely, Recorded
  <1>2. /\ memory.config = disk /\ disk \in Config /\ Sound(disk) /\ app \in App
        /\ Valid(disk) /\ ~At("off")
    BY <1>1, MigratingConfig, MigratingState
  <1>3. Copying(disk) /\ ~Cleaning(disk)
    <2>1. Copying(disk)
      BY <1>1 DEF KeepInv, ConfigsAgree, At, Recorded
    <2> QED BY <2>1, CopyingIsNotCleaning
  <1>4. Sound(config) /\ Cleaning(config) /\ config \in Config
        /\ DOMAIN config.migration.receipts = DOMAIN disk.migration.receipts
        /\ (Leads(config) => Leads(disk))
    <2>1. Sound(config)
      BY <1>1, <1>2, CheckpointedSound
    <2>2. /\ Cleaning(config)
          /\ DOMAIN config.migration.receipts = DOMAIN disk.migration.receipts
          /\ (Leads(config) => Leads(disk))
      BY <1>1, <1>2, CheckpointedParts
    <2> QED BY <2>1, <2>2 DEF Sound
  <1>5. \/ /\ Changes(config)
           /\ Returns("pending") \/ (Goto(AfterCheckpoint) /\ AfterCheckpoint # "return")
        \/ ChangeFails(config)
    BY DEF Checkpoint
  <1>6. /\ AfterCheckpoint \in {"return", "purge", "finish"}
        /\ AfterCheckpoint = "purge" => app.exists /\ ~OwnsPath(config, {})
    BY DEF AfterCheckpoint
  <1> HIDE DEF config
  <1>7. AfterCheckpoint = "purge" => ~Leads(config)
    BY <1>1, <1>4, <1>6, NoOwnerNoLead
  <1>8. /\ disk' \in {disk, config} /\ memory'.config \in {disk, config}
        /\ disk' = disk => memory'.config = disk
        /\ Valid(config) /\ Valid(disk)
        /\ Changes(config) => disk' = config /\ memory'.config = config
        /\ promised' = Moved(disk')
        /\ UNCHANGED <<files, keychain, worker, request>>
        /\ ~Changes(config) => app'.step = "build"
    BY <1>1, <1>4, <1>5, Changed
  <1>9. /\ app'.step \in {"build", "purge", "finish"}
        /\ app'.step # "build" => disk' = config /\ memory'.config = config
        /\ app'.step = "purge" => ~Leads(config)
    <2>1. CASE Returns("pending")
      <3>1. app'.step = "build"
        BY <1>2, <2>1, ReturnsType
      <3> QED BY <3>1
    <2>2. CASE Changes(config) /\ Goto(AfterCheckpoint) /\ AfterCheckpoint # "return"
      <3>1. app'.step = AfterCheckpoint
        BY <1>2, <1>6, <2>2, GotoType DEF Steps
      <3> QED BY <1>6, <1>7, <1>8, <2>2, <3>1
    <2> QED BY <1>5, <2>1, <2>2 DEF ChangeFails
  <1>10. ConfigsAgree' /\ LoopsAlong'
    <2>1. LoopsAlong'
      BY <1>9, RestingIsAlong DEF Resting
    <2>2. ConfigsAgree'
      BY <1>4, <1>8, <1>9 DEF ConfigsAgree, Recorded
    <2> QED BY <2>1, <2>2
  <1>11. \A f \in Files, l \in Locators : promised'[f][l] = promised[f][l]
    <2>1. promised \in [Places -> [Locators -> SUBSET (Values \cup {None})]]
      BY <1>1, MigratingState DEF BrokerTypeOK
    <2>2. \A f \in Files : f \in Places /\ f # "keychain"
      BY DEF Files, Places
    <2> QED BY <1>8, <2>1, <2>2 DEF Moved
  <1>12. Leads(disk)
    BY <1>2, <1>3, CopyingLeads
  <1>13. FilesAreKept'
    <2>1. \A f \in Files, l \in Locators : Held(f, l)' = Held(f, l)
      BY <1>8 DEF Held
    <2> QED BY <1>11, <1>12, <2>1 DEF KeepInv, FilesAreKept, Unused
  <1>14. KeychainIsKept'
    <2>1. CASE disk' = disk
      <3>1. promised' = promised
        BY <1>3, <1>8, <2>1 DEF Moved
      <3>2. Grows /\ (Unused => Unused')
        BY <1>12, <3>1 DEF Grows, Unused
      <3> QED BY <1>8, <2>1, <3>2, EntriesStay DEF KeepInv
    <2>2. CASE disk' = config
      <3> DEFINE row == [l \in Locators |-> IF l \in DOMAIN config.migration.receipts
                                            THEN promised["plaintext"][l]
                                            ELSE promised["keychain"][l]]
      <3>1. promised' = [promised EXCEPT !["keychain"] = row]
        BY <1>3, <1>4, <1>8, <2>2 DEF Moved
      <3>2. promised'["keychain"] = row
        <4>1. promised \in [Places -> [Locators -> SUBSET (Values \cup {None})]]
          BY <1>1, MigratingState DEF BrokerTypeOK
        <4> HIDE DEF row
        <4> QED BY <3>1, <4>1 DEF Places
      <3>3. ASSUME NEW l \in Locators PROVE keychain'[l] \in promised'["keychain"][l]
        <4>1. CASE l \in DOMAIN config.migration.receipts
          <5>1. keychain[l] = Held("plaintext", l)
            BY <1>1, <1>4, <4>1 DEF KeepInv, LoopsAlong, Copied
          <5>2. Held("plaintext", l) \in promised["plaintext"][l]
            BY <1>2, <1>3, SourceIsKept
          <5> QED BY <1>8, <3>2, <4>1, <5>1, <5>2
        <4>2. CASE l \notin DOMAIN config.migration.receipts
          <5>1. ~Coming(l)
            BY <1>4, <4>2 DEF Coming
          <5>2. keychain[l] \in promised["keychain"][l]
            BY <5>1 DEF KeepInv, KeychainIsKept
          <5> QED BY <1>8, <3>2, <4>2, <5>2
        <4> QED BY <4>1, <4>2
      <3> QED BY <3>3 DEF KeychainIsKept
    <2> QED BY <1>8, <2>1, <2>2
  <1>15. Moving(disk)' /\ ~At("off")' => Copying(memory'.config)
    <2>1. ~Copying(config)
      BY <1>4, CopyingIsNotCleaning
    <2> QED BY <1>3, <1>8, <2>1 DEF Moving
  <1> QED BY <1>1, <1>8, <1>10, <1>13, <1>14, <1>15, StillAlone, AloneKeeps

------------------------------------------------------------------------------
(* All of it.                                                              *)

LEMMA InitIsKept == Init => KeepInv
  <1> SUFFICES ASSUME Init PROVE KeepInv
    OBVIOUS
  <1>1. PICK i \in Installations :
            /\ disk = i.config
            /\ files = i.files
            /\ keychain = i.keychain
            /\ worker = [k \in Workers |-> Idle]
            /\ request = [t \in Clients |-> NoRequest]
            /\ promised = [p \in Places |-> [l \in Locators |->
                   {IF p = "keychain" THEN i.keychain[l]
                    ELSE IF i.files[p] = None THEN None ELSE i.files[p].entries[l]}]]
            /\ app = Fresh
    BY DEF Init
  <1>2. At("off") /\ Alone
    BY <1>1, FreshIsApp DEF At, Alone
  <1>3. ConfigsAgree /\ LoopsAlong
    BY <1>1, <1>2, InstallationAssumption
       DEF ConfigsAgree, LoopsAlong, At, Recorded, Looping, AtHand
  <1>4. FilesAreKept /\ KeychainIsKept
    BY <1>1 DEF FilesAreKept, KeychainIsKept, Held, Places, Files
  <1>5. SourceIsFrozen
    BY <1>2, AloneIsQuiet DEF SourceIsFrozen
  <1> QED BY <1>2, <1>3, <1>4, <1>5, AloneIsQuiet DEF KeepInv

LEMMA StutterKeepsSecrets == ASSUME KeepInv, UNCHANGED vars PROVE KeepInv'
  <1>1. /\ disk' = disk /\ memory' = memory /\ files' = files /\ keychain' = keychain
        /\ worker' = worker /\ request' = request /\ promised' = promised /\ app' = app
    BY DEF vars, configVars, backendVars, brokerVars
  <1>2. ConfigsAgree' /\ SourceIsFrozen'
    BY <1>1 DEF KeepInv, ConfigsAgree, SourceIsFrozen, At, Working
  <1>3. JobsMakeSense' /\ OneEach' /\ DroppedIsPromised'
    BY <1>1 DEF KeepInv, JobsMakeSense, OneEach, DroppedIsPromised, Working, HoldsLock, Dropped
  <1>4. FilesAreKept' /\ KeychainIsKept'
    <2>1. Grows /\ (Unused => Unused')
      BY <1>1 DEF Grows, Unused, At
    <2> QED BY <1>1, <2>1, EntriesStay DEF KeepInv
  <1>5. LoopsAlong'
    <2>1. Readable' <=> Readable
      BY <1>1 DEF Readable
    <2>2. \A l \in DOMAIN disk.migration.receipts : Copied(l)' <=> Copied(l)
      BY <1>1 DEF Copied, Held
    <2>3. Held("plaintext", app.locator)' = Held("plaintext", app.locator)
          /\ (Copied(app.locator)' <=> Copied(app.locator))
      BY <1>1 DEF Held, Copied
    <2> QED BY <1>1, <2>1, <2>2, <2>3 DEF KeepInv, LoopsAlong, At
  <1> QED BY <1>2, <1>3, <1>4, <1>5 DEF KeepInv

LEMMA NextKeepsSecrets == IInv /\ KeepInv /\ [Next]_vars => KeepInv'
  <1> SUFFICES ASSUME IInv, KeepInv, [Next]_vars PROVE KeepInv'
    OBVIOUS
  <1>1. CASE MigrationStep
    BY <1>1, LaunchKeepsSecrets, LookForInterimKeepsSecrets, ListKeepsSecrets,
       ResumeKeepsSecrets, BeginKeepsSecrets, CheckKeepsSecrets, ReadKeepsSecrets,
       PeekKeepsSecrets, MarkKeepsSecrets, CopyKeepsSecrets, VerifyKeepsSecrets,
       RecordKeepsSecrets, CheckpointKeepsSecrets, PurgeKeepsSecrets, FinishKeepsSecrets,
       BuildKeepsSecrets DEF MigrationStep
  <1>2. CASE KeychainRefuses \/ PurgeFails
    BY <1>2, KeychainRefusesKeepsSecrets, PurgeKeepsSecrets
  <1>3. ASSUME NEW c \in Connections, NEW b \in Binding,
               PutConnection(c, b) \/ PutConnectionFails(c, b)
        PROVE  KeepInv'
    BY <1>3, PutConnectionKeepsSecrets
  <1>4. CASE Serve \/ ServeFails \/ (\E t \in Clients : Requests(t))
    BY <1>4, ServingKeepsSecrets
  <1>5. CASE Kill \/ Quit
    BY <1>5, EndedKeepsSecrets DEF Kill, Quit
  <1>6. CASE UNCHANGED vars
    BY <1>6, StutterKeepsSecrets
  <1> QED BY <1>1, <1>2, <1>3, <1>4, <1>5, <1>6 DEF Next

LEMMA KeptIsKept == ASSUME IInv, KeepInv PROVE SecretsAreKept
  <1> SUFFICES ASSUME NEW c \in Connections, disk.bindings[c] # None
               PROVE  LET b == disk.bindings[c]
                          place == PlaceOf(disk.backends[b.backend]) IN
                      Kept(place, b.locator) \/ Arrives(place, b.locator)
    BY DEF SecretsAreKept
  <1> DEFINE b == disk.bindings[c]
             setting == disk.backends[b.backend]
             place == PlaceOf(setting)
  <1>1. disk \in Config /\ Valid(disk)
    BY DEF IInv, TypeOK, ConfigTypeOK, KeepInv, ConfigsAgree
  <1>2. b \in Binding /\ b.backend \in BackendIds /\ b.locator \in Locators
    BY <1>1 DEF Config, Binding
  <1>3. setting \in Settings
    <2>1. setting # None
      BY <1>1 DEF Valid
    <2> QED BY <1>1, <1>2, <2>1 DEF Config
  <1>4. place \in Files \cup {"keychain"}
    BY <1>3 DEF PlaceOf, Settings, FileSettings, Files
  <1>5. place = "plaintext" => ~Unused
    BY <1>2 DEF Unused, Leads
  <1> HIDE DEF place, b
  <1>6. CASE place = "keychain"
    <2>1. Held(place, b.locator) = keychain[b.locator]
      BY <1>6 DEF Held
    <2>2. keychain[b.locator] \in promised[place][b.locator] \/ Coming(b.locator)
      BY <1>2, <1>6 DEF KeepInv, KeychainIsKept
    <2>3. Coming(b.locator) => Arrives(place, b.locator)
      BY <1>6 DEF Coming, Arrives
    <2> QED BY <2>1, <2>2, <2>3 DEF Kept, place, b
  <1>7. CASE place \in Files
    <2>1. Held(place, b.locator) \in promised[place][b.locator]
      BY <1>2, <1>5, <1>7 DEF KeepInv, FilesAreKept
    <2> QED BY <2>1 DEF Kept, place, b
  <1> QED BY <1>4, <1>6, <1>7

(* Whatever fails, is killed or is given up, and however requests, threads *)
(* of callers that have gone, changes of connections and launches of       *)
(* migrate_interim_secrets interleave: where a binding on the disk leads   *)
(* there is a secret that the callers have reason to expect.               *)
THEOREM SecretsStayKept == Spec => []SecretsAreKept
  <1>1. Init => IInv /\ KeepInv
    BY InitHolds, InitIsKept
  <1>2. IInv /\ KeepInv /\ [Next]_vars => (IInv /\ KeepInv)'
    BY NextKeeps, NextKeepsSecrets
  <1>3. IInv /\ KeepInv => SecretsAreKept
    BY KeptIsKept
  <1> QED BY <1>1, <1>2, <1>3, PTL DEF Spec
================================================================================
