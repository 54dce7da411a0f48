------------------------------ MODULE ConfigStore ------------------------------
(***************************************************************************)
(* The configuration (config.rs): config.toml on the disk, the snapshot of *)
(* it that the process keeps with its revision, and the changes that the   *)
(* desktop application makes to it.  A change is applied to a copy of the  *)
(* snapshot, validated, written with one atomic rename, and only then      *)
(* adopted.  When the write fails, the file is read again, since it may    *)
(* have been replaced all the same.                                        *)
(*                                                                         *)
(* A connection has at most one secret-backed slot here, and a backend is  *)
(* known by its id and by where its settings say that secrets are.         *)
(***************************************************************************)
EXTENDS Naturals, FiniteSets

CONSTANTS
    None,
    Connections,
    Locators

VARIABLES
    disk,           \* config.toml
    memory          \* the snapshot in StoreInner, None while no process runs

configVars == <<disk, memory>>

(* The backend of the interim releases, the one of this release, and one a *)
(* developer may have configured.                                          *)
Legacy == "local-file"
Target == "local-os"
BackendIds == {Legacy, Target, "dev"}

(* LocalFile at secrets.json, LocalFile at another spelling of that path,  *)
(* LocalFile elsewhere, and LocalOs.                                       *)
FileSettings == {"plaintext", "alias", "other"}
Settings == FileSettings \cup {"keychain"}

Binding == [backend : BackendIds, locator : Locators]

(* The manifest of a migration is the domain of its receipts.              *)
Receipts == UNION {[manifest -> {"none", "copying", "copied"}] :
                       manifest \in SUBSET Locators}

Migration == [phase : {"copying", "cleanup"}, receipts : Receipts]

ASSUME ConfigAssumption ==
    /\ None \notin Connections \cup Locators \cup BackendIds \cup Settings
    /\ None \notin Migration

Config == [bindings  : [Connections -> Binding \cup {None}],
           backends  : [BackendIds -> Settings \cup {None}],
           migration : Migration \cup {None}]

ConfigTypeOK ==
    /\ disk \in Config
    /\ memory \in [revision : Nat, config : Config] \cup {None}

Copying(config) == config.migration # None /\ config.migration.phase = "copying"

Cleaning(config) == config.migration # None /\ config.migration.phase = "cleanup"

AllCopied(migration) ==
    \A l \in DOMAIN migration.receipts : migration.receipts[l] = "copied"

(* AppConfig::validate.                                                    *)
Valid(config) ==
    /\ \A i, j \in BackendIds :
           config.backends[i] = config.backends[j] /\ config.backends[i] \in FileSettings
           => i = j
    /\ \A c \in Connections :
           config.bindings[c] # None => config.backends[config.bindings[c].backend] # None
    /\ config.migration # None => config.backends[Target] \in {None, "keychain"}
    /\ Copying(config) => config.backends[Legacy] = "plaintext"
    /\ Cleaning(config) =>
           /\ config.backends[Legacy] # "plaintext"
           /\ config.backends[Target] = "keychain"
           /\ AllCopied(config.migration)

------------------------------------------------------------------------------
(* apply_change.  Each change has the condition under which it is not      *)
(* refused, and its effect.                                                *)

(* PutConnection, and PutConnectionWithSecretBackends for a binding to the *)
(* backend of this release, which registers that backend.                  *)
WithConnection(config, c, b) ==
    [config EXCEPT !.bindings[c] = b,
                   !.backends[Target] = IF b.backend = Target THEN "keychain" ELSE @]

CanBegin(config) == config.migration = None

WithMigration(config, manifest) ==
    [config EXCEPT !.migration =
        [phase |-> "copying", receipts |-> [l \in manifest |-> "none"]]]

CanRecord(config, l, state) ==
    /\ Copying(config)
    /\ l \in DOMAIN config.migration.receipts
    /\ <<config.migration.receipts[l], state>> \in
           {<<"none", "copying">>, <<"copying", "copied">>}

WithReceipt(config, l, state) ==
    [config EXCEPT !.migration.receipts[l] = state]

(* CheckpointCredentialMigration: every binding to the source names the    *)
(* target, and the source is no longer a backend.                          *)
CanCheckpoint(config) == Copying(config) /\ AllCopied(config.migration)

Rebound(config) ==
    [c \in Connections |->
        IF config.bindings[c] # None /\ config.bindings[c].backend = Legacy
        THEN [config.bindings[c] EXCEPT !.backend = Target]
        ELSE config.bindings[c]]

Checkpointed(config) ==
    [bindings  |-> Rebound(config),
     backends  |-> [config.backends EXCEPT ![Legacy] = None, ![Target] = "keychain"],
     migration |-> [config.migration EXCEPT !.phase = "cleanup"]]

CanFinish(config) == Cleaning(config)

WithoutMigration(config) == [config EXCEPT !.migration = None]

------------------------------------------------------------------------------
(* What becomes of a write: it is done, it fails before the rename, or it  *)
(* fails after it, and then the file can be read again or not.             *)
WriteResults == {"written", "unwritten", "reported", "unread"}

(* read_config: the file, brought to this release's schema.                *)
ReadConfig == disk

(* StoreInner::update of a change that apply_change accepts.               *)
Update(config, result) ==
    LET next == [revision |-> memory.revision + 1, config |-> config] IN
    /\ Valid(config)
    /\ disk' = IF result = "unwritten" THEN disk ELSE config
    /\ memory' = CASE result = "written"  -> next
                   [] result = "reported" -> IF config = memory.config THEN memory ELSE next
                   [] result = "unread"   -> memory
                   [] result = "unwritten" ->
                        IF ReadConfig = memory.config THEN memory
                        ELSE [next EXCEPT !.config = ReadConfig]

(* ConfigStore::open: the snapshot of a new process is the file.           *)
Open == memory' = [revision |-> 0, config |-> ReadConfig] /\ UNCHANGED disk

Close == memory' = None /\ UNCHANGED disk
================================================================================
