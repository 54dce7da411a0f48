----------------------------- MODULE ArtifactStore -----------------------------
(***************************************************************************)
(* The content-addressed store of artifact bodies (artifacts.rs) and its   *)
(* rows in the database.  A blob is staged, promoted to the name its       *)
(* digest gives it and then committed as a row by the caller.  A corrupt   *)
(* blob is repaired through a sidecar, and kept in quarantine.  A          *)
(* collection removes old debris and old blobs without a row.              *)
(*                                                                         *)
(* A step of a publisher is one change of the file system, or the check    *)
(* that precedes it, so that the process may be killed and the machine may *)
(* lose power between any two.  Names point to inodes: a rename moves a    *)
(* name, a hard link adds one, and the modification time belongs to the    *)
(* inode.  A name is on the disk for certain only once its directory was   *)
(* synced.                                                                 *)
(***************************************************************************)
EXTENDS Naturals, FiniteSets

CONSTANTS
    None,
    Digests,        \* the blobs that clients publish
    Publishers,     \* threads that publish
    Grace,          \* the grace period, which is also the lease of a publisher
    MaxClock,       \* bound: the last instant
    MaxInodes,      \* bound: staging files created
    FaultPlans      \* bound: how many faults of each kind, one record per plan

FaultKinds == {"io", "kill", "power", "rot"}

ASSUME ArtifactAssumption ==
    /\ None \notin Digests
    /\ Grace \in Nat \ {0} /\ MaxClock \in Nat /\ MaxInodes \in Nat
    /\ FaultPlans \subseteq [FaultKinds -> Nat]

VARIABLES
    clock,
    inodes,         \* what each inode holds and when it was last modified
    made,           \* how many inodes were created
    staging,        \* inodes named in staging/
    quarantine,     \* inodes named in quarantine/
    shard,          \* the names of each digest in sha256/
    disk,           \* the states of those names that a power loss may leave
    publisher,      \* where each publisher is, with what file and lease
    collector,      \* the collection in progress
    starting,       \* digests the recovery at startup has not looked at yet
    rows,           \* external: digests of the rows in the artifacts table
    rotted,         \* external: digests that rotted since publish last returned them
    faults          \* external: faults that may still happen

vars == <<clock, inodes, made, staging, quarantine, shard, disk, publisher,
          collector, starting, rows, rotted, faults>>

Inodes == 1..MaxInodes
Names  == [canonical : 0..MaxInodes, sidecar : 0..MaxInodes]

Inode == [digest : Digests \cup {None}, content : {"partial", "sound", "rotten"},
          mtime : 0..MaxClock]

(* Holding the lock of the digest, from the check of the destination on.   *)
Locked == {"renewed", "quarantined", "aside", "set_aside", "replaced", "finished", "dropped",
           "promoted", "leasing"}
Steps  == {"idle", "writing", "staged", "returned"} \cup Locked

Publisher == [step : Steps, digest : Digests \cup {None}, file : 0..MaxInodes,
              until : 0..(MaxClock + Grace)]
Collector == [step : {"idle", "staging", "quarantine", "blobs"}, now : 0..MaxClock,
              referenced : SUBSET Digests, todo : SUBSET (Inodes \cup Digests)]

NoPublisher == [step |-> "idle", digest |-> None, file |-> 0, until |-> 0]
NoCollector == [step |-> "idle", now |-> 0, referenced |-> {}, todo |-> {}]

----------------------------------------------------------------------------
(* Helpers.                                                                *)

Up == starting = {}

(* Locks and the set of active staging files live in memory and are held   *)
(* by the publishers: a publisher that ends gives them back.               *)
Free(d)   == \A p \in Publishers : publisher[p].digest = d => publisher[p].step \notin Locked
(* A mutant of Active: a file is let go when it is written.                *)
ActiveWhileWriting(i) == \E p \in Publishers : publisher[p].file = i
                                               /\ publisher[p].step = "writing"

Active(i) == \E p \in Publishers : publisher[p].file = i
                                   /\ publisher[p].step \notin {"idle", "returned"}

Sound(d) == /\ shard[d].canonical # 0
            /\ inodes[shard[d].canonical].content = "sound"

Old(i, now) == now >= inodes[i].mtime + Grace

(* A change of the names of d, not synced yet.                             *)
Rename(d, names) ==
    /\ shard' = [shard EXCEPT ![d] = names]
    /\ disk'  = [disk EXCEPT ![d] = @ \cup {names}]

Synced(d) == disk' = [disk EXCEPT ![d] = {shard[d]}]

(* A mutant of Reconciled: the sidecar goes, with or without a blob.       *)
ReconciledByRemoval(names) == [names EXCEPT !.sidecar = 0]

(* A sidecar without a blob is renamed back, one beside a blob is removed. *)
Reconciled(names) ==
    IF names.canonical = 0 THEN [canonical |-> names.sidecar, sidecar |-> 0]
                           ELSE [names EXCEPT !.sidecar = 0]

Spend(kind, n) == /\ faults[kind] >= n
                  /\ faults' = [faults EXCEPT ![kind] = @ - n]

Moves(p, step) == publisher' = [publisher EXCEPT ![p].step = step]

----------------------------------------------------------------------------
(* publish, up to the digest: the file is registered as active, created    *)
(* and filled from the source.                                             *)

CreateStagingFile(p, d) ==
    /\ Up /\ publisher[p].step = "idle" /\ made < MaxInodes
    /\ made' = made + 1
    /\ inodes' = [inodes EXCEPT ![made + 1] = [digest |-> d, content |-> "partial",
                                               mtime |-> clock]]
    /\ staging' = staging \cup {made + 1}
    /\ publisher' = [publisher EXCEPT ![p] = [step |-> "writing", digest |-> d,
                                              file |-> made + 1, until |-> 0]]
    /\ UNCHANGED <<clock, quarantine, shard, disk, collector, starting, rows, rotted, faults>>

Stage(p) ==
    /\ publisher[p].step = "writing"
    /\ inodes' = [inodes EXCEPT ![publisher[p].file] =
                      [@ EXCEPT !.content = "sound", !.mtime = clock]]
    /\ Moves(p, "staged")
    /\ UNCHANGED <<clock, made, staging, quarantine, shard, disk, collector, starting,
                   rows, rotted, faults>>

(* A source that is too large takes its staging file with it, one that     *)
(* fails leaves it.                                                        *)
RejectSource(p) ==
    /\ publisher[p].step = "writing"
    /\ staging' \in {staging, staging \ {publisher[p].file}}
    /\ publisher' = [publisher EXCEPT ![p] = NoPublisher]
    /\ UNCHANGED <<clock, inodes, made, quarantine, shard, disk, collector, starting,
                   rows, rotted, faults>>

----------------------------------------------------------------------------
(* publish, under the lock of the digest.                                  *)

ReuseBlob(p) ==
    LET d == publisher[p].digest IN
    /\ publisher[p].step = "staged" /\ Free(d)
    /\ Sound(d)
    /\ staging' = staging \ {publisher[p].file}
    /\ Moves(p, "leasing")
    /\ UNCHANGED <<clock, inodes, made, quarantine, shard, disk, collector, starting,
                   rows, rotted, faults>>

Promote(p) ==
    LET d == publisher[p].digest IN
    /\ publisher[p].step = "staged" /\ Free(d)
    /\ shard[d].canonical = 0
    /\ Rename(d, [shard[d] EXCEPT !.canonical = publisher[p].file])
    /\ staging' = staging \ {publisher[p].file}
    /\ Moves(p, "promoted")
    /\ UNCHANGED <<clock, inodes, made, quarantine, collector, starting, rows, rotted, faults>>

(* The lease of the corrupt blob is renewed first, so that its name in     *)
(* quarantine is young.                                                    *)
QuarantineCorrupt(p) ==
    LET d == publisher[p].digest  i == shard[d].canonical IN
    /\ \/ /\ publisher[p].step = "staged" /\ Free(d)
          /\ i # 0 /\ ~Sound(d)
          /\ inodes' = [inodes EXCEPT ![i].mtime = clock]
          /\ Moves(p, "renewed")
          /\ UNCHANGED quarantine
       \/ /\ publisher[p].step = "renewed" /\ i # 0
          /\ quarantine' = quarantine \cup {i}
          /\ Moves(p, "quarantined")
          /\ UNCHANGED inodes
    /\ UNCHANGED <<clock, made, staging, shard, disk, collector, starting, rows, rotted, faults>>

SetAside(p) ==
    LET d == publisher[p].digest IN
    /\ publisher[p].step = "quarantined"
    /\ Rename(d, [canonical |-> 0, sidecar |-> shard[d].canonical])
    /\ Moves(p, "aside")
    /\ UNCHANGED <<clock, inodes, made, staging, quarantine, collector, starting, rows,
                   rotted, faults>>

Replace(p) ==
    LET d == publisher[p].digest IN
    /\ publisher[p].step = "set_aside"
    /\ Rename(d, [shard[d] EXCEPT !.canonical = publisher[p].file])
    /\ staging' = staging \ {publisher[p].file}
    /\ Moves(p, "replaced")
    /\ UNCHANGED <<clock, inodes, made, quarantine, collector, starting, rows, rotted, faults>>

DropSidecar(p) ==
    LET d == publisher[p].digest IN
    /\ publisher[p].step = "finished"
    /\ Rename(d, [shard[d] EXCEPT !.sidecar = 0])
    /\ Moves(p, "dropped")
    /\ UNCHANGED <<clock, inodes, made, staging, quarantine, collector, starting, rows,
                   rotted, faults>>

SyncShard(p) ==
    /\ publisher[p].step \in {"aside", "replaced", "dropped", "promoted"}
    /\ Synced(publisher[p].digest)
    /\ Moves(p, CASE publisher[p].step = "aside"    -> "set_aside"
                  [] publisher[p].step = "replaced" -> "finished"
                  [] OTHER                          -> "leasing")
    /\ UNCHANGED <<clock, inodes, made, staging, quarantine, shard, collector, starting,
                   rows, rotted, faults>>

(* A mutant of RefreshLease: the age of the blob is left as it is.         *)
ReturnWithoutLease(p) ==
    LET d == publisher[p].digest IN
    /\ publisher[p].step = "leasing"
    /\ publisher' = [publisher EXCEPT ![p].step = "returned", ![p].file = 0,
                                      ![p].until = clock + Grace]
    /\ rotted' = IF Sound(d) THEN rotted \ {d} ELSE rotted
    /\ UNCHANGED <<clock, inodes, made, staging, quarantine, shard, disk, collector, starting,
                   rows, faults>>

RefreshLease(p) ==
    LET d == publisher[p].digest IN
    /\ publisher[p].step = "leasing"
    /\ inodes' = [inodes EXCEPT ![shard[d].canonical].mtime = clock]
    /\ publisher' = [publisher EXCEPT ![p].step = "returned", ![p].file = 0,
                                      ![p].until = clock + Grace]
    /\ rotted' = IF Sound(d) THEN rotted \ {d} ELSE rotted
    /\ UNCHANGED <<clock, made, staging, quarantine, shard, disk, collector, starting,
                   rows, faults>>

(* A file operation fails and publish returns the error.                   *)
PublishFails(p) ==
    /\ publisher[p].step \in ({"staged"} \cup Locked) \ {"aside", "set_aside"}
    /\ Spend("io", 1)
    /\ publisher' = [publisher EXCEPT ![p] = NoPublisher]
    /\ UNCHANGED <<clock, inodes, made, staging, quarantine, shard, disk, collector,
                   starting, rows, rotted>>

(* Until the corrupt blob is replaced, the failure brings it back, unless  *)
(* bringing it back or its sync fails as well.                             *)
RollBack(p) ==
    LET d == publisher[p].digest  back == Reconciled(shard[d]) IN
    /\ publisher[p].step \in {"aside", "set_aside"}
    /\ \/ /\ Spend("io", 1)
          /\ shard' = [shard EXCEPT ![d] = back]
          /\ disk'  = [disk EXCEPT ![d] = {back}]
       \/ /\ Spend("io", 2)
          /\ \/ Rename(d, back)
             \/ UNCHANGED <<shard, disk>>
    /\ publisher' = [publisher EXCEPT ![p] = NoPublisher]
    /\ UNCHANGED <<clock, inodes, made, staging, quarantine, collector, starting, rows, rotted>>

----------------------------------------------------------------------------
(* The caller of publish commits the record while the lease runs, or lets  *)
(* go of it.  A row is never removed.                                      *)

PutArtifactMetadata(p) ==
    /\ publisher[p].step = "returned" /\ clock < publisher[p].until
    /\ rows' = rows \cup {publisher[p].digest}
    /\ publisher' = [publisher EXCEPT ![p] = NoPublisher]
    /\ UNCHANGED <<clock, inodes, made, staging, quarantine, shard, disk, collector,
                   starting, rotted, faults>>

ForgetRecord(p) ==
    /\ publisher[p].step = "returned"
    /\ publisher' = [publisher EXCEPT ![p] = NoPublisher]
    /\ UNCHANGED <<clock, inodes, made, staging, quarantine, shard, disk, collector,
                   starting, rows, rotted, faults>>

(* open and verify, and the recovery of one digest at startup: what they   *)
(* do about a sidecar.  The sync of the directory may fail.                *)
Reconcile(d) ==
    /\ shard[d].sidecar # 0
    /\ \/ /\ shard' = [shard EXCEPT ![d] = Reconciled(@)]
          /\ disk'  = [disk EXCEPT ![d] = {Reconciled(shard[d])}]
          /\ UNCHANGED faults
       \/ Rename(d, Reconciled(shard[d])) /\ Spend("io", 1)

Open(d) ==
    /\ Up /\ Free(d)
    /\ Reconcile(d)
    /\ UNCHANGED <<clock, inodes, made, staging, quarantine, publisher, collector,
                   starting, rows, rotted>>

RecoverSidecar(d) ==
    /\ d \in starting
    /\ \/ /\ Reconcile(d)
       \/ /\ shard[d].sidecar = 0
          /\ UNCHANGED <<shard, disk, faults>>
    /\ starting' = IF faults' = faults THEN starting \ {d} ELSE starting
    /\ UNCHANGED <<clock, inodes, made, staging, quarantine, publisher, collector, rows, rotted>>

----------------------------------------------------------------------------
(* collect_unreferenced.  The caller reads the rows and calls it at once;  *)
(* the time is read once, the age of a file when its turn comes.           *)

Collect ==
    /\ Up /\ collector.step = "idle"
    /\ collector' = [step |-> "staging", now |-> clock, referenced |-> rows, todo |-> staging]
    /\ UNCHANGED <<clock, inodes, made, staging, quarantine, shard, disk, publisher,
                   starting, rows, rotted, faults>>

(* A listed file that its publisher has moved or removed meanwhile ends    *)
(* the collection with an error.                                           *)
CollectStaging(i) ==
    /\ collector.step = "staging" /\ i \in collector.todo
    /\ IF Active(i) \/ i \in staging
       THEN /\ collector' = [collector EXCEPT !.todo = @ \ {i}]
            /\ staging' = IF ~Active(i) /\ Old(i, collector.now) THEN staging \ {i} ELSE staging
       ELSE /\ collector' = NoCollector
            /\ UNCHANGED staging
    /\ UNCHANGED <<clock, inodes, made, quarantine, shard, disk, publisher, starting, rows,
                   rotted, faults>>

CollectQuarantine(i) ==
    /\ collector.step = "quarantine" /\ i \in collector.todo
    /\ Free(inodes[i].digest)
    /\ quarantine' = IF Old(i, collector.now) THEN quarantine \ {i} ELSE quarantine
    /\ collector' = [collector EXCEPT !.todo = @ \ {i}]
    /\ UNCHANGED <<clock, inodes, made, staging, shard, disk, publisher, starting, rows,
                   rotted, faults>>

CollectBlob(d) ==
    LET i == shard[d].canonical IN
    /\ collector.step = "blobs" /\ d \in collector.todo
    /\ Free(d)
    /\ IF i # 0 /\ Old(i, collector.now)
       THEN Rename(d, [shard[d] EXCEPT !.canonical = 0])
       ELSE UNCHANGED <<shard, disk>>
    /\ collector' = [collector EXCEPT !.todo = @ \ {d}]
    /\ UNCHANGED <<clock, inodes, made, staging, quarantine, publisher, starting, rows,
                   rotted, faults>>

CollectNext ==
    /\ collector.step # "idle" /\ collector.todo = {}
    /\ collector' =
           CASE collector.step = "staging"    -> [collector EXCEPT !.step = "quarantine",
                                                                   !.todo = quarantine]
             [] collector.step = "quarantine" -> [collector EXCEPT !.step = "blobs",
                                                     !.todo = Digests \ collector.referenced]
             [] OTHER                         -> NoCollector
    /\ UNCHANGED <<clock, inodes, made, staging, quarantine, shard, disk, publisher,
                   starting, rows, rotted, faults>>

----------------------------------------------------------------------------
(* The environment: time, decay of the disk, a killed process and a power  *)
(* loss.  A blob whose promotion is lost may be found in staging again.    *)

Tick ==
    /\ clock < MaxClock
    /\ clock' = clock + 1
    /\ UNCHANGED <<inodes, made, staging, quarantine, shard, disk, publisher, collector,
                   starting, rows, rotted, faults>>

Rot(d) ==
    /\ Sound(d)
    /\ Spend("rot", 1)
    /\ inodes' = [inodes EXCEPT ![shard[d].canonical].content = "rotten"]
    /\ rotted' = rotted \cup {d}
    /\ UNCHANGED <<clock, made, staging, quarantine, shard, disk, publisher, collector,
                   starting, rows>>

Restarts ==
    /\ publisher' = [p \in Publishers |-> NoPublisher]
    /\ collector' = NoCollector
    /\ starting'  = Digests

Kill ==
    /\ Up
    /\ Spend("kill", 1)
    /\ Restarts
    /\ UNCHANGED <<clock, inodes, made, staging, quarantine, shard, disk, rows, rotted>>

(* The blobs that lose their last name in sha256/.                         *)
Nameless(left) ==
    {shard[d].canonical : d \in Digests}
    \ ({left[d].canonical : d \in Digests} \cup {left[d].sidecar : d \in Digests} \cup {0})

PowerLoss ==
    /\ Spend("power", 1)
    /\ Restarts
    /\ \E left \in [Digests -> UNION {disk[d] : d \in Digests}] :
           /\ \A d \in Digests : left[d] \in disk[d]
           /\ shard' = left
           /\ disk'  = [d \in Digests |-> {left[d]}]
           /\ staging' \in {staging, staging \cup Nameless(left)}
    /\ UNCHANGED <<clock, inodes, made, quarantine, rows, rotted>>

----------------------------------------------------------------------------
Init ==
    /\ clock = 0
    /\ inodes = [i \in Inodes |-> [digest |-> None, content |-> "partial",
                                   mtime |-> 0]]
    /\ made = 0 /\ staging = {} /\ quarantine = {}
    /\ shard = [d \in Digests |-> [canonical |-> 0, sidecar |-> 0]]
    /\ disk  = [d \in Digests |-> {shard[d]}]
    /\ publisher = [p \in Publishers |-> NoPublisher]
    /\ collector = NoCollector
    /\ starting = Digests
    /\ rows = {} /\ rotted = {}
    /\ faults \in FaultPlans

Publish(p) ==
    \/ \E d \in Digests : CreateStagingFile(p, d)
    \/ Stage(p) \/ RejectSource(p)
    \/ ReuseBlob(p) \/ Promote(p)
    \/ QuarantineCorrupt(p) \/ SetAside(p) \/ Replace(p) \/ DropSidecar(p)
    \/ SyncShard(p) \/ RefreshLease(p)
    \/ PublishFails(p) \/ RollBack(p)
    \/ PutArtifactMetadata(p) \/ ForgetRecord(p)

CollectUnreferenced ==
    \/ Collect \/ CollectNext
    \/ \E i \in Inodes : CollectStaging(i) \/ CollectQuarantine(i)
    \/ \E d \in Digests : CollectBlob(d)

Next ==
    \/ \E p \in Publishers : Publish(p)
    \/ \E d \in Digests : Open(d) \/ RecoverSidecar(d) \/ Rot(d)
    \/ CollectUnreferenced
    \/ Tick \/ Kill \/ PowerLoss

Spec == Init /\ [][Next]_vars

----------------------------------------------------------------------------
(* Every value is of its type, and each name is that of an inode in use.   *)
TypeOK ==
    /\ clock \in 0..MaxClock /\ made \in 0..MaxInodes
    /\ inodes \in [Inodes -> Inode]
    /\ staging \subseteq 1..made /\ quarantine \subseteq 1..made
    /\ shard \in [Digests -> Names]
    /\ disk \in [Digests -> SUBSET Names]
    /\ publisher \in [Publishers -> Publisher]
    /\ collector \in Collector
    /\ starting \subseteq Digests /\ rows \subseteq Digests /\ rotted \subseteq Digests
    /\ faults \in [FaultKinds -> Nat]

(* The blob of a committed row is there, and it is sound unless the disk   *)
(* spoiled it and no publication has repaired it since: a collection that  *)
(* read the rows before the commit does not take it, nor do the recoveries.*)
RowsHaveTheirBlob == \A d \in rows : d \notin rotted => Sound(d)

(* Once a power loss cannot take a blob, sound or not, only a collection   *)
(* can: in the middle of a repair, after its failure and after a recovery  *)
(* the digest still has a file, whatever the disk makes of the steps that  *)
(* were not synced.                                                        *)
OnDisk(d) == [canonical |-> 0, sidecar |-> 0] \notin disk[d]

OnlyCollectionsRemove ==
    [][\A d \in Digests : OnDisk(d) /\ ~OnDisk(d)' => collector.step = "blobs"]_vars

(* While a publisher has its staging file open, or is on its way to move   *)
(* it, the file is there: no collection takes it, however old it is.       *)
StagedFilesStay ==
    \A p \in Publishers :
        publisher[p].step \in {"writing", "staged", "renewed", "quarantined", "aside", "set_aside"}
        => publisher[p].file \in staging

(* Whatever publishers, collections and recoveries do, the store is of its *)
(* type and no staging file is taken from its publisher.                   *)
StoreIsConsistent == TypeOK /\ StagedFilesStay

(* When publish returns, a power loss cannot take the blob: "The           *)
(* destination directory entry is synced before return" (artifacts.rs).    *)
ReturnedBlobsAreDurable ==
    \A p \in Publishers :
        publisher[p].step = "returned" /\ clock < publisher[p].until
        => \A names \in disk[publisher[p].digest] : names.canonical # 0

===============================================================================
