-------------------------- MODULE ArtifactStoreProofs --------------------------
(***************************************************************************)
(* Theorems about the artifact store, for every set of blobs, publishers   *)
(* and faults, every grace period and every bound on time and files.       *)
(***************************************************************************)
EXTENDS ArtifactStore, TLAPS

-----------------------------------------------------------------------------
(* The invariant.  Names are names of inodes that were made; a publisher   *)
(* at work has a digest, and no two have the same file.                    *)

Made == [canonical : 0..made, sidecar : 0..made]

NamesAreMade == shard \in [Digests -> Made] /\ disk \in [Digests -> SUBSET Made]

PublisherInv ==
    /\ publisher \in [Publishers -> Publisher]
    /\ \A p \in Publishers :
           /\ publisher[p].file \in 0..made
           /\ publisher[p].step # "idle" => publisher[p].digest \in Digests

OwnFiles ==
    \A p, q \in Publishers :
        p # q /\ publisher[p].file # 0 => publisher[p].file # publisher[q].file

(* What the publishers and the names leave of the types.                   *)
RestOK ==
    /\ clock \in 0..MaxClock /\ made \in 0..MaxInodes
    /\ inodes \in [Inodes -> Inode]
    /\ staging \subseteq 1..made /\ quarantine \subseteq 1..made
    /\ collector \in Collector
    /\ starting \subseteq Digests /\ rows \subseteq Digests /\ rotted \subseteq Digests
    /\ faults \in [FaultKinds -> Nat]

StoreInv == RestOK /\ NamesAreMade /\ PublisherInv /\ OwnFiles

LEMMA MadeAreNames ==
    ASSUME RestOK
    PROVE  Made \subseteq Names /\ made \in Nat /\ 1..made \subseteq Inodes
  <1>1. made \in Nat /\ made <= MaxInodes /\ MaxInodes \in Nat
    BY ArtifactAssumption DEF RestOK
  <1>2. 0..made \subseteq 0..MaxInodes /\ 1..made \subseteq 1..MaxInodes
    BY <1>1
  <1> QED BY <1>1, <1>2 DEF Made, Names, Inodes

LEMMA InvIsTyped == StoreInv => TypeOK
  <1> SUFFICES ASSUME StoreInv PROVE TypeOK
    OBVIOUS
  <1>1. Made \subseteq Names
    BY MadeAreNames DEF StoreInv
  <1>2. shard \in [Digests -> Names] /\ disk \in [Digests -> SUBSET Names]
    BY <1>1 DEF StoreInv, NamesAreMade
  <1> QED BY <1>2 DEF StoreInv, RestOK, PublisherInv, TypeOK

-----------------------------------------------------------------------------
(* Publishers.                                                             *)

(* What a step may do to one publisher, p: it moves on with its file, or   *)
(* without one, or it ends.                                                *)
Goes(p) ==
    /\ made' = made
    /\ \E row \in Publisher :
           /\ publisher' = [publisher EXCEPT ![p] = row]
           /\ row.file \in {0, publisher[p].file}
           /\ row.step # "idle" => publisher[p].step # "idle" /\ row.digest = publisher[p].digest

LEMMA NoPublisherType == NoPublisher \in Publisher
  <1>1. None \in Digests \cup {None} /\ "idle" \in Steps
    BY DEF Steps
  <1>2. 0 \in 0..MaxInodes /\ 0 \in 0..(MaxClock + Grace)
    BY ArtifactAssumption
  <1> QED BY <1>1, <1>2 DEF NoPublisher, Publisher

LEMMA EndGoes ==
    ASSUME NEW p \in Publishers, made' = made,
           publisher' = [publisher EXCEPT ![p] = NoPublisher]
    PROVE  Goes(p)
  <1>1. NoPublisher.file = 0 /\ NoPublisher.step = "idle"
    BY DEF NoPublisher
  <1> QED BY <1>1, NoPublisherType DEF Goes

LEMMA MoveGoes ==
    ASSUME PublisherInv, NEW p \in Publishers, NEW step \in Steps, made' = made,
           publisher[p].step # "idle", Moves(p, step)
    PROVE  Goes(p)
  <1> DEFINE row == [publisher[p] EXCEPT !.step = step]
  <1>1. publisher[p] \in Publisher
    BY DEF PublisherInv
  <1>2. /\ row \in Publisher /\ row.file = publisher[p].file
        /\ row.digest = publisher[p].digest
    BY <1>1 DEF Publisher
  <1>3. publisher' = [publisher EXCEPT ![p] = row]
    BY DEF Moves
  <1> HIDE DEF row
  <1> QED BY <1>2, <1>3 DEF Goes

LEMMA GoesKeeps ==
    ASSUME RestOK, PublisherInv, OwnFiles, NEW p \in Publishers, Goes(p)
    PROVE  PublisherInv' /\ OwnFiles'
  <1>1. PICK row \in Publisher :
            /\ publisher' = [publisher EXCEPT ![p] = row]
            /\ row.file \in {0, publisher[p].file}
            /\ row.step # "idle" => publisher[p].step # "idle" /\ row.digest = publisher[p].digest
    BY DEF Goes
  <1>2. /\ publisher' \in [Publishers -> Publisher] /\ publisher'[p] = row
        /\ \A q \in Publishers \ {p} : publisher'[q] = publisher[q]
    BY <1>1 DEF PublisherInv
  <1>3. ASSUME NEW q \in Publishers
        PROVE  /\ publisher'[q].file \in {0, publisher[q].file}
               /\ publisher'[q].step # "idle" =>
                      publisher[q].step # "idle" /\ publisher'[q].digest = publisher[q].digest
    BY <1>1, <1>2
  <1>4. made' = made
    BY DEF Goes
  <1>5. 0 \in 0..made
    BY MadeAreNames
  <1>6. PublisherInv'
    BY <1>2, <1>3, <1>4, <1>5 DEF PublisherInv
  <1>7. OwnFiles'
    BY <1>3 DEF OwnFiles
  <1> QED BY <1>6, <1>7
(* A publisher that begins has the file that was just made.                *)
LEMMA BeginKeeps ==
    ASSUME RestOK, PublisherInv, OwnFiles, NEW p \in Publishers, NEW d \in Digests,
           CreateStagingFile(p, d)
    PROVE  PublisherInv' /\ OwnFiles'
  <1> DEFINE row == [step |-> "writing", digest |-> d, file |-> made + 1, until |-> 0]
  <1>1. made \in Nat /\ made < MaxInodes /\ MaxInodes \in Nat /\ made' = made + 1
    BY MadeAreNames, ArtifactAssumption DEF CreateStagingFile
  <1>2. made + 1 \in 0..MaxInodes /\ made + 1 # 0 /\ made + 1 \in 0..(made + 1)
        /\ made + 1 \notin 0..made /\ 0..made \subseteq 0..(made + 1)
    BY <1>1
  <1>3. row \in Publisher
    <2>1. 0 \in 0..(MaxClock + Grace) /\ "writing" \in Steps
      BY ArtifactAssumption DEF Steps
    <2> QED BY <1>2, <2>1 DEF Publisher
  <1>4. row.file = made + 1 /\ row.digest = d
    OBVIOUS
  <1>5. publisher' = [publisher EXCEPT ![p] = row]
    BY DEF CreateStagingFile
  <1> HIDE DEF row
  <1>6. /\ publisher' \in [Publishers -> Publisher] /\ publisher'[p] = row
        /\ \A q \in Publishers \ {p} : publisher'[q] = publisher[q]
    BY <1>3, <1>5 DEF PublisherInv
  <1>7. \A q \in Publishers \ {p} : publisher'[q].file \in 0..made
    BY <1>6 DEF PublisherInv
  <1>8. PublisherInv'
    BY <1>1, <1>2, <1>4, <1>6, <1>7 DEF PublisherInv
  <1>9. OwnFiles'
    BY <1>2, <1>4, <1>6, <1>7 DEF OwnFiles
  <1> QED BY <1>8, <1>9

LEMMA RestartKeeps ==
    ASSUME RestOK, Restarts, made' = made
    PROVE  PublisherInv' /\ OwnFiles'
  <1>1. \A p \in Publishers : publisher'[p] = NoPublisher
    BY DEF Restarts
  <1>2. publisher' \in [Publishers -> Publisher]
    BY NoPublisherType DEF Restarts
  <1>3. NoPublisher.file = 0 /\ NoPublisher.step = "idle" /\ 0 \in 0..made
    BY MadeAreNames DEF NoPublisher
  <1> QED BY <1>1, <1>2, <1>3 DEF PublisherInv, OwnFiles

LEMMA PublisherStep ==
    ASSUME StoreInv, [Next]_vars
    PROVE  PublisherInv' /\ OwnFiles'
  <1>1. RestOK /\ PublisherInv /\ OwnFiles
    BY DEF StoreInv
  <1>2. ASSUME UNCHANGED <<publisher, made>> PROVE PublisherInv' /\ OwnFiles'
    BY <1>1, <1>2 DEF PublisherInv, OwnFiles
  <1>3. ASSUME NEW p \in Publishers, Publish(p) PROVE PublisherInv' /\ OwnFiles'
    <2>1. CASE \E d \in Digests : CreateStagingFile(p, d)
      BY <1>1, <2>1, BeginKeeps
    <2>2. CASE RejectSource(p) \/ PublishFails(p) \/ RollBack(p) \/ PutArtifactMetadata(p)
                 \/ ForgetRecord(p)
      <3>1. made' = made /\ publisher' = [publisher EXCEPT ![p] = NoPublisher]
        BY <2>2 DEF RejectSource, PublishFails, RollBack, PutArtifactMetadata, ForgetRecord
      <3> QED BY <1>1, <3>1, EndGoes, GoesKeeps
    <2>3. CASE Stage(p) \/ ReuseBlob(p) \/ Promote(p) \/ QuarantineCorrupt(p) \/ SetAside(p)
                 \/ Replace(p) \/ DropSidecar(p) \/ SyncShard(p)
      <3>1. /\ made' = made /\ publisher[p].step # "idle"
            /\ \E step \in {"staged", "leasing", "promoted", "renewed", "quarantined", "aside",
                            "replaced", "dropped", "set_aside", "finished"} : Moves(p, step)
        BY <2>3 DEF Stage, ReuseBlob, Promote, QuarantineCorrupt, SetAside, Replace,
               DropSidecar, SyncShard
      <3>2. {"staged", "leasing", "promoted", "renewed", "quarantined", "aside",
             "replaced", "dropped", "set_aside", "finished"} \subseteq Steps
        BY DEF Steps, Locked
      <3>3. Goes(p)
        BY <1>1, <3>1, <3>2, MoveGoes
      <3> QED BY <1>1, <3>3, GoesKeeps
    <2>4. CASE RefreshLease(p)
      <3> DEFINE row == [publisher[p] EXCEPT !.step = "returned", !.file = 0,
                                             !.until = clock + Grace]
      <3>1. publisher[p] \in Publisher /\ "returned" \in Steps
        BY <1>1 DEF PublisherInv, Steps
      <3>2. 0 \in 0..MaxInodes /\ clock + Grace \in 0..(MaxClock + Grace)
        BY <1>1, ArtifactAssumption DEF RestOK
      <3>3. row \in Publisher /\ row.file = 0 /\ row.digest = publisher[p].digest
        BY <3>1, <3>2 DEF Publisher
      <3>4. publisher' = [publisher EXCEPT ![p] = row]
        BY <2>4 DEF RefreshLease
      <3> HIDE DEF row
      <3>5. Goes(p)
        BY <2>4, <3>3, <3>4 DEF Goes, RefreshLease
      <3> QED BY <1>1, <3>5, GoesKeeps
    <2> QED BY <1>3, <2>1, <2>2, <2>3, <2>4 DEF Publish
  <1>4. CASE (\E d \in Digests : Open(d) \/ RecoverSidecar(d) \/ Rot(d)) \/ CollectUnreferenced
               \/ Tick \/ UNCHANGED vars
    BY <1>2, <1>4 DEF Open, RecoverSidecar, Rot, CollectUnreferenced, Collect, CollectNext,
           CollectStaging, CollectQuarantine, CollectBlob, Tick, vars
  <1>5. CASE Kill \/ PowerLoss
    <2>1. Restarts /\ made' = made
      BY <1>5 DEF Kill, PowerLoss
    <2> QED BY <1>1, <2>1, RestartKeeps
  <1> QED BY <1>3, <1>4, <1>5 DEF Next

-----------------------------------------------------------------------------
(* Names.                                                                  *)

LEMMA RenameNames ==
    ASSUME NamesAreMade, made' = made, NEW d \in Digests, NEW names \in Made, Rename(d, names)
    PROVE  NamesAreMade'
  BY DEF NamesAreMade, Rename, Made

LEMMA SettleNames ==
    ASSUME NamesAreMade, made' = made, NEW d \in Digests, NEW names \in Made,
           shard' = [shard EXCEPT ![d] = names], disk' = [disk EXCEPT ![d] = {names}]
    PROVE  NamesAreMade'
  BY DEF NamesAreMade, Made

LEMMA ChangedNames ==
    ASSUME NEW names \in Made, NEW i \in 0..made
    PROVE  /\ [names EXCEPT !.canonical = i] \in Made
           /\ [names EXCEPT !.sidecar = i] \in Made
           /\ [canonical |-> i, sidecar |-> names.canonical] \in Made
           /\ [canonical |-> names.sidecar, sidecar |-> i] \in Made
  BY DEF Made

LEMMA ReconciledNames ==
    ASSUME RestOK, NEW names \in Made
    PROVE  Reconciled(names) \in Made
  <1>1. 0 \in 0..made
    BY MadeAreNames
  <1> QED BY <1>1, ChangedNames DEF Reconciled

LEMMA ReconcileNames ==
    ASSUME RestOK, NamesAreMade, made' = made, NEW d \in Digests, Reconcile(d)
    PROVE  NamesAreMade'
  <1> DEFINE back == Reconciled(shard[d])
  <1>1. back \in Made
    BY ReconciledNames DEF NamesAreMade
  <1>2. \/ shard' = [shard EXCEPT ![d] = back] /\ disk' = [disk EXCEPT ![d] = {back}]
        \/ Rename(d, back)
    BY DEF Reconcile
  <1> HIDE DEF back
  <1> QED BY <1>1, <1>2, RenameNames, SettleNames

LEMMA NamesStep ==
    ASSUME StoreInv, [Next]_vars
    PROVE  NamesAreMade'
  <1>1. RestOK /\ NamesAreMade /\ PublisherInv /\ made \in Nat /\ 0 \in 0..made
    BY MadeAreNames DEF StoreInv
  <1>2. ASSUME UNCHANGED <<shard, disk, made>> PROVE NamesAreMade'
    BY <1>1, <1>2 DEF NamesAreMade, Made
  <1>3. ASSUME NEW p \in Publishers, Publish(p) PROVE NamesAreMade'
    <2> DEFINE d == publisher[p].digest
               i == publisher[p].file
    <2>1. publisher[p].step # "idle" => d \in Digests /\ shard[d] \in Made
      BY <1>1 DEF PublisherInv, NamesAreMade
    <2>2. i \in 0..made
      BY <1>1 DEF PublisherInv
    <2> HIDE DEF i
    <2>3. CASE \E e \in Digests : CreateStagingFile(p, e)
      <3>1. made' = made + 1 /\ shard' = shard /\ disk' = disk
        BY <2>3 DEF CreateStagingFile
      <3>2. 0..made \subseteq 0..made'
        BY <1>1, <3>1
      <3>3. Made \subseteq Made'
        BY <3>2 DEF Made
      <3> QED BY <1>1, <3>1, <3>3 DEF NamesAreMade
    <2>4. CASE Stage(p) \/ RejectSource(p) \/ ReuseBlob(p) \/ QuarantineCorrupt(p)
                 \/ RefreshLease(p) \/ PublishFails(p) \/ PutArtifactMetadata(p) \/ ForgetRecord(p)
      BY <1>2, <2>4 DEF Stage, RejectSource, ReuseBlob, QuarantineCorrupt, RefreshLease,
             PublishFails, PutArtifactMetadata, ForgetRecord
    <2>5. CASE Promote(p) \/ SetAside(p) \/ Replace(p) \/ DropSidecar(p)
      <3>1. publisher[p].step # "idle" /\ made' = made
        BY <2>5 DEF Promote, SetAside, Replace, DropSidecar
      <3>2. \/ Rename(d, [shard[d] EXCEPT !.canonical = i])
            \/ Rename(d, [canonical |-> 0, sidecar |-> shard[d].canonical])
            \/ Rename(d, [shard[d] EXCEPT !.sidecar = 0])
        BY <2>5 DEF Promote, SetAside, Replace, DropSidecar, i
      <3>3. \E names \in Made : Rename(d, names)
        BY <1>1, <2>1, <2>2, <3>1, <3>2, ChangedNames
      <3> QED BY <1>1, <2>1, <3>1, <3>3, RenameNames
    <2>6. CASE SyncShard(p)
      <3>1. /\ publisher[p].step # "idle" /\ made' = made /\ shard' = shard
            /\ disk' = [disk EXCEPT ![d] = {shard[d]}]
        BY <2>6 DEF SyncShard, Synced
      <3> HIDE DEF d
      <3> QED BY <1>1, <2>1, <3>1 DEF NamesAreMade, Made
    <2>7. CASE RollBack(p)
      <3> DEFINE back == Reconciled(shard[d])
      <3>1. publisher[p].step # "idle" /\ made' = made
        BY <2>7 DEF RollBack
      <3>2. \/ shard' = [shard EXCEPT ![d] = back] /\ disk' = [disk EXCEPT ![d] = {back}]
            \/ Rename(d, back)
            \/ UNCHANGED <<shard, disk>>
        BY <2>7 DEF RollBack
      <3>3. back \in Made
        BY <1>1, <2>1, <3>1, ReconciledNames
      <3> HIDE DEF back, d
      <3> QED BY <1>1, <1>2, <2>1, <3>1, <3>2, <3>3, RenameNames, SettleNames
    <2> QED BY <1>3, <2>3, <2>4, <2>5, <2>6, <2>7 DEF Publish
  <1>4. ASSUME NEW d \in Digests, Open(d) \/ RecoverSidecar(d) \/ Rot(d)
        PROVE  NamesAreMade'
    <2>1. made' = made /\ (Reconcile(d) \/ UNCHANGED <<shard, disk>>)
      BY <1>4 DEF Open, RecoverSidecar, Rot
    <2> QED BY <1>1, <1>2, <2>1, ReconcileNames
  <1>5. CASE CollectUnreferenced
    <2>1. ASSUME NEW d \in Digests, CollectBlob(d) PROVE NamesAreMade'
      <3>1. /\ made' = made
            /\ Rename(d, [shard[d] EXCEPT !.canonical = 0]) \/ UNCHANGED <<shard, disk>>
        BY <2>1 DEF CollectBlob
      <3>2. [shard[d] EXCEPT !.canonical = 0] \in Made
        BY <1>1, ChangedNames DEF NamesAreMade
      <3> QED BY <1>1, <1>2, <3>1, <3>2, RenameNames
    <2> QED BY <1>2, <1>5, <2>1 DEF CollectUnreferenced, Collect, CollectNext, CollectStaging,
           CollectQuarantine
  <1>6. CASE Tick \/ Kill \/ UNCHANGED vars
    BY <1>2, <1>6 DEF Tick, Kill, vars
  <1>7. CASE PowerLoss
    <2>1. PICK left \in [Digests -> UNION {disk[d] : d \in Digests}] :
              /\ \A d \in Digests : left[d] \in disk[d]
              /\ shard' = left /\ disk' = [d \in Digests |-> {left[d]}] /\ made' = made
      BY <1>7 DEF PowerLoss
    <2>2. \A d \in Digests : left[d] \in Made
      BY <1>1, <2>1 DEF NamesAreMade
    <2>3. left \in [Digests -> Made]
      BY <2>1, <2>2
    <2> QED BY <2>1, <2>2, <2>3 DEF NamesAreMade, Made
  <1> QED BY <1>3, <1>4, <1>5, <1>6, <1>7 DEF Next

-----------------------------------------------------------------------------
(* The rest of the types.                                                  *)

LEMMA SpendType ==
    ASSUME RestOK, NEW kind \in FaultKinds, NEW n \in Nat, Spend(kind, n)
    PROVE  faults' \in [FaultKinds -> Nat]
  <1>1. faults \in [FaultKinds -> Nat] /\ faults[kind] \in Nat /\ faults[kind] >= n
    BY DEF RestOK, Spend
  <1>2. faults[kind] - n \in Nat
    BY <1>1
  <1>3. faults' = [faults EXCEPT ![kind] = faults[kind] - n]
    BY DEF Spend
  <1> QED BY <1>1, <1>2, <1>3

LEMMA FaultsStep ==
    ASSUME StoreInv, [Next]_vars
    PROVE  faults' \in [FaultKinds -> Nat]
  <1>1. RestOK /\ {"io", "kill", "power", "rot"} = FaultKinds /\ 1 \in Nat /\ 2 \in Nat
    BY DEF StoreInv, FaultKinds
  <1>2. \/ faults' = faults
        \/ \E kind \in FaultKinds, n \in Nat : Spend(kind, n)
    <2>1. ASSUME NEW p \in Publishers, Publish(p)
          PROVE  faults' = faults \/ Spend("io", 1) \/ Spend("io", 2)
      BY <2>1 DEF Publish, CreateStagingFile, Stage, RejectSource, ReuseBlob, Promote,
             QuarantineCorrupt, SetAside, Replace, DropSidecar, SyncShard, RefreshLease,
             PublishFails, RollBack, PutArtifactMetadata, ForgetRecord
    <2>2. ASSUME NEW d \in Digests, Open(d) \/ RecoverSidecar(d) \/ Rot(d)
          PROVE  faults' = faults \/ Spend("io", 1) \/ Spend("rot", 1)
      BY <2>2 DEF Open, RecoverSidecar, Reconcile, Rot
    <2>3. CASE CollectUnreferenced \/ Tick \/ UNCHANGED vars
      BY <2>3 DEF CollectUnreferenced, Collect, CollectNext, CollectStaging, CollectQuarantine,
             CollectBlob, Tick, vars
    <2>4. CASE Kill \/ PowerLoss
      BY <1>1, <2>4 DEF Kill, PowerLoss
    <2> QED BY <1>1, <2>1, <2>2, <2>3, <2>4 DEF Next
  <1> QED BY <1>1, <1>2, SpendType DEF RestOK

LEMMA InodesStep ==
    ASSUME StoreInv, [Next]_vars
    PROVE  inodes' \in [Inodes -> Inode]
  <1>1. inodes \in [Inodes -> Inode] /\ clock \in 0..MaxClock
    BY DEF StoreInv, RestOK
  <1>2. ASSUME UNCHANGED inodes PROVE inodes' \in [Inodes -> Inode]
    BY <1>1, <1>2
  <1>3. ASSUME NEW i, NEW row, i \in Inodes => row \in Inode, inodes' = [inodes EXCEPT ![i] = row]
        PROVE  inodes' \in [Inodes -> Inode]
    BY <1>1, <1>3
  <1>4. ASSUME NEW i \in Inodes
        PROVE  /\ [inodes[i] EXCEPT !.content = "sound", !.mtime = clock] \in Inode
               /\ [inodes[i] EXCEPT !.mtime = clock] \in Inode
               /\ [inodes[i] EXCEPT !.content = "rotten"] \in Inode
    <2>1. inodes[i] \in Inode
      BY <1>1
    <2> QED BY <1>1, <2>1 DEF Inode
  <1>5. ASSUME NEW p \in Publishers, Publish(p) PROVE inodes' \in [Inodes -> Inode]
    <2>1. ASSUME NEW d \in Digests, CreateStagingFile(p, d) PROVE inodes' \in [Inodes -> Inode]
      <3>1. [digest |-> d, content |-> "partial", mtime |-> clock] \in Inode
        BY <1>1 DEF Inode
      <3>2. inodes' = [inodes EXCEPT ![made + 1] = [digest |-> d, content |-> "partial",
                                                    mtime |-> clock]]
        BY <2>1 DEF CreateStagingFile
      <3> QED BY <1>3, <3>1, <3>2
    <2>2. CASE Stage(p)
      <3> DEFINE i == publisher[p].file
      <3>1. inodes' = [inodes EXCEPT ![i] = [inodes[i] EXCEPT !.content = "sound", !.mtime = clock]]
        BY <2>2 DEF Stage
      <3> HIDE DEF i
      <3> QED BY <1>3, <1>4, <3>1
    <2>3. CASE QuarantineCorrupt(p)
      <3> DEFINE i == shard[publisher[p].digest].canonical
      <3>1. inodes' \in {inodes, [inodes EXCEPT ![i] = [inodes[i] EXCEPT !.mtime = clock]]}
        BY <2>3 DEF QuarantineCorrupt
      <3> HIDE DEF i
      <3>2. CASE inodes' = inodes
        BY <1>2, <3>2
      <3>3. CASE inodes' = [inodes EXCEPT ![i] = [inodes[i] EXCEPT !.mtime = clock]]
        BY <1>3, <1>4, <3>3
      <3> QED BY <3>1, <3>2, <3>3
    <2>4. CASE RefreshLease(p)
      <3> DEFINE i == shard[publisher[p].digest].canonical
      <3>1. inodes' = [inodes EXCEPT ![i] = [inodes[i] EXCEPT !.mtime = clock]]
        BY <2>4 DEF RefreshLease
      <3> HIDE DEF i
      <3> QED BY <1>3, <1>4, <3>1
    <2>5. CASE RejectSource(p) \/ ReuseBlob(p) \/ Promote(p) \/ SetAside(p) \/ Replace(p)
                 \/ DropSidecar(p) \/ SyncShard(p) \/ PublishFails(p) \/ RollBack(p)
                 \/ PutArtifactMetadata(p) \/ ForgetRecord(p)
      BY <1>2, <2>5 DEF RejectSource, ReuseBlob, Promote, SetAside, Replace, DropSidecar,
             SyncShard, PublishFails, RollBack, PutArtifactMetadata, ForgetRecord
    <2> QED BY <1>5, <2>1, <2>2, <2>3, <2>4, <2>5 DEF Publish
  <1>6. ASSUME NEW d \in Digests, Rot(d) PROVE inodes' \in [Inodes -> Inode]
    <2> DEFINE i == shard[d].canonical
    <2>1. inodes' = [inodes EXCEPT ![i] = [inodes[i] EXCEPT !.content = "rotten"]]
      BY <1>6 DEF Rot
    <2> HIDE DEF i
    <2> QED BY <1>3, <1>4, <2>1
  <1>7. CASE (\E d \in Digests : Open(d) \/ RecoverSidecar(d)) \/ CollectUnreferenced
               \/ Tick \/ Kill \/ PowerLoss \/ UNCHANGED vars
    BY <1>2, <1>7 DEF Open, RecoverSidecar, CollectUnreferenced, Collect, CollectNext,
           CollectStaging, CollectQuarantine, CollectBlob, Tick, Kill, PowerLoss, vars
  <1> QED BY <1>5, <1>6, <1>7 DEF Next

LEMMA FilesStep ==
    ASSUME StoreInv, [Next]_vars
    PROVE  /\ made' \in 0..MaxInodes /\ staging' \subseteq 1..made'
           /\ quarantine' \subseteq 1..made'
  <1> DEFINE Goal == /\ made' \in 0..MaxInodes /\ staging' \subseteq 1..made'
                     /\ quarantine' \subseteq 1..made'
  <1>1. /\ made \in 0..MaxInodes /\ made \in Nat /\ staging \subseteq 1..made
        /\ quarantine \subseteq 1..made /\ NamesAreMade /\ PublisherInv
    BY MadeAreNames DEF StoreInv, RestOK
  <1>2. ASSUME made' = made, staging' \subseteq staging, quarantine' \subseteq quarantine
        PROVE  Goal
    BY <1>1, <1>2
  <1>3. ASSUME NEW p \in Publishers, Publish(p) PROVE Goal
    <2>1. ASSUME NEW d \in Digests, CreateStagingFile(p, d) PROVE Goal
      <3>1. /\ made' = made + 1 /\ made < MaxInodes /\ MaxInodes \in Nat
            /\ staging' = staging \cup {made + 1} /\ quarantine' = quarantine
        BY <2>1, ArtifactAssumption DEF CreateStagingFile
      <3>2. /\ made + 1 \in 0..MaxInodes /\ 1..made \subseteq 1..(made + 1)
            /\ made + 1 \in 1..(made + 1)
        BY <1>1, <3>1
      <3> QED BY <1>1, <3>1, <3>2
    <2>2. CASE QuarantineCorrupt(p)
      <3> DEFINE i == shard[publisher[p].digest].canonical
      <3>1. /\ made' = made /\ staging' = staging
            /\ quarantine' \in {quarantine, quarantine \cup {i}}
            /\ i # 0 /\ publisher[p].step \in {"staged", "renewed"}
        BY <2>2 DEF QuarantineCorrupt
      <3>2. i \in 0..made
        BY <1>1, <3>1 DEF PublisherInv, NamesAreMade, Made
      <3> HIDE DEF i
      <3>3. i \in 1..made
        BY <1>1, <3>1, <3>2
      <3> QED BY <1>1, <3>1, <3>3
    <2>3. CASE Stage(p) \/ RejectSource(p) \/ ReuseBlob(p) \/ Promote(p) \/ SetAside(p)
                 \/ Replace(p) \/ DropSidecar(p) \/ SyncShard(p) \/ RefreshLease(p)
                 \/ PublishFails(p) \/ RollBack(p) \/ PutArtifactMetadata(p) \/ ForgetRecord(p)
      <3>1. made' = made /\ staging' \subseteq staging /\ quarantine' = quarantine
        BY <2>3 DEF Stage, RejectSource, ReuseBlob, Promote, SetAside, Replace, DropSidecar,
               SyncShard, RefreshLease, PublishFails, RollBack, PutArtifactMetadata, ForgetRecord
      <3> QED BY <1>2, <3>1
    <2> QED BY <1>3, <2>1, <2>2, <2>3 DEF Publish
  <1>4. CASE (\E d \in Digests : Open(d) \/ RecoverSidecar(d) \/ Rot(d)) \/ CollectUnreferenced
               \/ Tick \/ Kill \/ UNCHANGED vars
    <2>1. made' = made /\ staging' \subseteq staging /\ quarantine' \subseteq quarantine
      BY <1>4 DEF Open, RecoverSidecar, Rot, CollectUnreferenced, Collect, CollectNext,
           CollectStaging, CollectQuarantine, CollectBlob, Tick, Kill, vars
    <2> QED BY <1>2, <2>1
  <1>5. CASE PowerLoss
    <2>1. \E left : staging' \in {staging, staging \cup Nameless(left)}
      BY <1>5 DEF PowerLoss
    <2>4. made' = made /\ quarantine' = quarantine
      BY <1>5 DEF PowerLoss
    <2>2. \A d \in Digests : shard[d].canonical \in {0} \cup 1..made
      <3>1. \A d \in Digests : shard[d].canonical \in 0..made
        BY <1>1 DEF NamesAreMade, Made
      <3>2. 0..made \subseteq {0} \cup 1..made
        BY <1>1
      <3> QED BY <3>1, <3>2
    <2>3. staging' \subseteq 1..made
      BY <1>1, <2>1, <2>2 DEF Nameless
    <2> QED BY <1>1, <2>3, <2>4
  <1> QED BY <1>3, <1>4, <1>5 DEF Next

LEMMA CollectorStep ==
    ASSUME StoreInv, [Next]_vars
    PROVE  collector' \in Collector
  <1>1. /\ collector \in Collector /\ clock \in 0..MaxClock /\ rows \subseteq Digests
        /\ staging \subseteq Inodes /\ quarantine \subseteq Inodes
    BY MadeAreNames DEF StoreInv, RestOK
  <1>2. NoCollector \in Collector
    <2>1. 0 \in 0..MaxClock
      BY ArtifactAssumption
    <2> QED BY <2>1 DEF NoCollector, Collector
  <1>3. ASSUME NEW todo, todo \subseteq Inodes \cup Digests,
               NEW step \in {"idle", "staging", "quarantine", "blobs"}
        PROVE  [collector EXCEPT !.step = step, !.todo = todo] \in Collector
    BY <1>1, <1>3 DEF Collector
  <1>4. ASSUME NEW x
        PROVE  [collector EXCEPT !.todo = @ \ {x}] \in Collector
    BY <1>1 DEF Collector
  <1>5. ASSUME UNCHANGED collector PROVE collector' \in Collector
    BY <1>1, <1>5
  <1>6. ASSUME NEW p \in Publishers, Publish(p) PROVE UNCHANGED collector
    BY <1>6 DEF Publish, CreateStagingFile, Stage, RejectSource, ReuseBlob, Promote,
           QuarantineCorrupt, SetAside, Replace, DropSidecar, SyncShard, RefreshLease,
           PublishFails, RollBack, PutArtifactMetadata, ForgetRecord
  <1>7. CASE CollectUnreferenced
    <2>1. CASE Collect
      <3>1. collector' = [step |-> "staging", now |-> clock, referenced |-> rows, todo |-> staging]
        BY <2>1 DEF Collect
      <3> QED BY <1>1, <3>1 DEF Collector
    <2>2. CASE CollectNext
      <3>1. \/ collector' = [collector EXCEPT !.step = "quarantine", !.todo = quarantine]
            \/ collector' = [collector EXCEPT !.step = "blobs",
                                              !.todo = Digests \ collector.referenced]
            \/ collector' = NoCollector
        BY <2>2 DEF CollectNext
      <3> QED BY <1>1, <1>2, <1>3, <3>1
    <2>3. CASE \E i \in Inodes : CollectStaging(i) \/ CollectQuarantine(i)
      BY <1>2, <1>4, <2>3 DEF CollectStaging, CollectQuarantine
    <2>4. CASE \E d \in Digests : CollectBlob(d)
      BY <1>4, <2>4 DEF CollectBlob
    <2> QED BY <1>7, <2>1, <2>2, <2>3, <2>4 DEF CollectUnreferenced
  <1>8. CASE (\E d \in Digests : Open(d) \/ RecoverSidecar(d) \/ Rot(d)) \/ Tick
               \/ UNCHANGED vars
    BY <1>5, <1>8 DEF Open, RecoverSidecar, Rot, Tick, vars
  <1>9. CASE Kill \/ PowerLoss
    BY <1>2, <1>9 DEF Kill, PowerLoss, Restarts
  <1> QED BY <1>5, <1>6, <1>7, <1>8, <1>9 DEF Next

LEMMA SetsStep ==
    ASSUME StoreInv, [Next]_vars
    PROVE  /\ clock' \in 0..MaxClock
           /\ starting' \subseteq Digests /\ rows' \subseteq Digests /\ rotted' \subseteq Digests
  <1> DEFINE Goal == /\ clock' \in 0..MaxClock
                     /\ starting' \subseteq Digests /\ rows' \subseteq Digests
                     /\ rotted' \subseteq Digests
  <1>1. /\ clock \in 0..MaxClock /\ starting \subseteq Digests /\ rows \subseteq Digests
        /\ rotted \subseteq Digests /\ PublisherInv
    BY DEF StoreInv, RestOK
  <1>2. ASSUME clock' = clock, starting' \subseteq Digests, rows' = rows, rotted' = rotted
        PROVE  Goal
    BY <1>1, <1>2
  <1>3. ASSUME NEW p \in Publishers, Publish(p) PROVE Goal
    <2>1. clock' = clock /\ starting' = starting
      BY <1>3 DEF Publish, CreateStagingFile, Stage, RejectSource, ReuseBlob, Promote,
             QuarantineCorrupt, SetAside, Replace, DropSidecar, SyncShard, RefreshLease,
             PublishFails, RollBack, PutArtifactMetadata, ForgetRecord
    <2>2. \/ rows' = rows
          \/ publisher[p].step = "returned" /\ rows' = rows \cup {publisher[p].digest}
      BY <1>3 DEF Publish, CreateStagingFile, Stage, RejectSource, ReuseBlob, Promote,
             QuarantineCorrupt, SetAside, Replace, DropSidecar, SyncShard, RefreshLease,
             PublishFails, RollBack, PutArtifactMetadata, ForgetRecord
    <2>3. rotted' \subseteq rotted
      BY <1>3 DEF Publish, CreateStagingFile, Stage, RejectSource, ReuseBlob, Promote,
             QuarantineCorrupt, SetAside, Replace, DropSidecar, SyncShard, RefreshLease,
             PublishFails, RollBack, PutArtifactMetadata, ForgetRecord
    <2>4. rows' \subseteq Digests
      BY <1>1, <2>2 DEF PublisherInv
    <2> QED BY <1>1, <2>1, <2>3, <2>4
  <1>4. ASSUME NEW d \in Digests, Open(d) \/ RecoverSidecar(d) \/ Rot(d) PROVE Goal
    <2>1. /\ clock' = clock /\ starting' \subseteq starting /\ rows' = rows
          /\ rotted' \subseteq rotted \cup {d}
      BY <1>4 DEF Open, RecoverSidecar, Rot
    <2> QED BY <1>1, <2>1
  <1>5. CASE CollectUnreferenced \/ UNCHANGED vars
    BY <1>1, <1>2, <1>5 DEF CollectUnreferenced, Collect, CollectNext, CollectStaging,
           CollectQuarantine, CollectBlob, vars
  <1>6. CASE Tick
    <2>1. /\ clock' = clock + 1 /\ clock < MaxClock /\ MaxClock \in Nat
          /\ starting' = starting /\ rows' = rows /\ rotted' = rotted
      BY <1>6, ArtifactAssumption DEF Tick
    <2> QED BY <1>1, <2>1
  <1>7. CASE Kill \/ PowerLoss
    BY <1>1, <1>2, <1>7 DEF Kill, PowerLoss, Restarts
  <1> QED BY <1>3, <1>4, <1>5, <1>6, <1>7 DEF Next

LEMMA InvStep == StoreInv /\ [Next]_vars => StoreInv'
  <1> SUFFICES ASSUME StoreInv, [Next]_vars PROVE StoreInv'
    OBVIOUS
  <1>1. RestOK'
    BY FaultsStep, InodesStep, FilesStep, CollectorStep, SetsStep DEF RestOK
  <1> QED BY <1>1, PublisherStep, NamesStep DEF StoreInv

LEMMA InitInv == Init => StoreInv
  <1> SUFFICES ASSUME Init PROVE StoreInv
    OBVIOUS
  <1>1. /\ 0 \in 0..MaxClock /\ 0 \in 0..MaxInodes /\ 0 \in 0..0
        /\ faults \in [FaultKinds -> Nat]
    BY ArtifactAssumption DEF Init
  <1>2. inodes \in [Inodes -> Inode]
    BY <1>1 DEF Init, Inode
  <1>3. NoCollector \in Collector
    BY <1>1 DEF NoCollector, Collector
  <1>4. RestOK
    BY <1>1, <1>2, <1>3 DEF Init, RestOK
  <1>5. NamesAreMade
    <2>1. made = 0 /\ [canonical |-> 0, sidecar |-> 0] \in Made
      BY <1>1 DEF Init, Made
    <2>2. shard \in [Digests -> Made]
      BY <2>1 DEF Init
    <2>3. \A d \in Digests : {shard[d]} \in SUBSET Made
      BY <2>2
    <2> QED BY <2>2, <2>3 DEF Init, NamesAreMade
  <1>6. \A p \in Publishers : publisher[p] = NoPublisher
    BY DEF Init
  <1>7. NoPublisher.file = 0 /\ NoPublisher.step = "idle" /\ made = 0
    BY DEF NoPublisher, Init
  <1>8. PublisherInv
    <2>1. publisher \in [Publishers -> Publisher]
      BY NoPublisherType DEF Init
    <2> QED BY <1>1, <1>6, <1>7, <2>1 DEF PublisherInv
  <1>9. OwnFiles
    BY <1>6, <1>7 DEF OwnFiles
  <1> QED BY <1>4, <1>5, <1>8, <1>9 DEF StoreInv

(* The store is of its type, and no name is that of a file that was not    *)
(* made, whatever publishers, collections, recoveries and faults do.       *)
THEOREM TypeCorrect == Spec => []TypeOK
  <1>1. Spec => []StoreInv
    BY InitInv, InvStep, PTL DEF Spec
  <1> QED BY <1>1, InvIsTyped, PTL

-----------------------------------------------------------------------------
(* Staging files.  A file goes when its publisher moves it, or when a      *)
(* collection finds it in nobody's hands.                                  *)

Handling == {"writing", "staged", "renewed", "quarantined", "aside", "set_aside"}

LEMMA FileIsThere ==
    ASSUME StoreInv, StagedFilesStay, NEW q \in Publishers, publisher[q].step \in Handling
    PROVE  publisher[q].file \in staging /\ publisher[q].file # 0
  <1>1. staging \subseteq 1..made /\ made \in Nat
    BY MadeAreNames DEF StoreInv, RestOK
  <1>2. publisher[q].file \in staging
    BY DEF StagedFilesStay, Handling
  <1> QED BY <1>1, <1>2

(* What a publisher may do to its own file: it keeps it in staging as long *)
(* as it handles it.                                                       *)
Handles(p, row) ==
    /\ publisher' = [publisher EXCEPT ![p] = row]
    /\ staging \ {publisher[p].file} \subseteq staging'
    /\ row.step \in Handling => /\ publisher[p].step \in Handling
                                /\ row.file = publisher[p].file
                                /\ staging \subseteq staging'

LEMMA HandlesStays ==
    ASSUME StoreInv, StagedFilesStay, NEW p \in Publishers, NEW row, Handles(p, row)
    PROVE  StagedFilesStay'
  <1>1. publisher \in [Publishers -> Publisher]
    BY DEF StoreInv, PublisherInv
  <1>2. publisher'[p] = row /\ \A q \in Publishers \ {p} : publisher'[q] = publisher[q]
    BY <1>1 DEF Handles
  <1>3. ASSUME NEW q \in Publishers, publisher'[q].step \in Handling
        PROVE  publisher'[q].file \in staging'
    <2>1. CASE q = p
      BY <1>2, <1>3, <2>1, FileIsThere DEF Handles
    <2>2. CASE q # p
      <3>1. publisher[q].file \in staging /\ publisher[q].file # 0
        BY <1>2, <1>3, <2>2, FileIsThere
      <3>2. publisher[q].file # publisher[p].file
        BY <2>2, <3>1 DEF StoreInv, OwnFiles
      <3> QED BY <1>2, <2>2, <3>1, <3>2 DEF Handles
    <2> QED BY <2>1, <2>2
  <1> QED BY <1>3 DEF StagedFilesStay, Handling

(* The step of a publisher that only moves on.                             *)
LEMMA MovesStays ==
    ASSUME StoreInv, StagedFilesStay, NEW p \in Publishers, NEW step, Moves(p, step),
           staging \ {publisher[p].file} \subseteq staging',
           step \in Handling => publisher[p].step \in Handling /\ staging' = staging
    PROVE  StagedFilesStay'
  <1> DEFINE row == [publisher[p] EXCEPT !.step = step]
  <1>1. publisher[p] \in Publisher
    BY DEF StoreInv, PublisherInv
  <1>2. row.step = step /\ row.file = publisher[p].file
    BY <1>1 DEF Publisher
  <1>3. publisher' = [publisher EXCEPT ![p] = row]
    BY DEF Moves
  <1> HIDE DEF row
  <1>4. Handles(p, row)
    BY <1>2, <1>3 DEF Handles
  <1> QED BY <1>4, HandlesStays

LEMMA EndsStays ==
    ASSUME StoreInv, StagedFilesStay, NEW p \in Publishers,
           publisher' = [publisher EXCEPT ![p] = NoPublisher],
           staging \ {publisher[p].file} \subseteq staging'
    PROVE  StagedFilesStay'
  <1>1. NoPublisher.step \notin Handling
    BY DEF NoPublisher, Handling
  <1>2. Handles(p, NoPublisher)
    BY <1>1 DEF Handles
  <1> QED BY <1>2, HandlesStays

LEMMA PublishStays ==
    ASSUME StoreInv, StagedFilesStay, NEW p \in Publishers, Publish(p)
    PROVE  StagedFilesStay'
  <1>1. ASSUME NEW d \in Digests, CreateStagingFile(p, d) PROVE StagedFilesStay'
    <2> DEFINE row == [step |-> "writing", digest |-> d, file |-> made + 1, until |-> 0]
    <2>1. publisher' = [publisher EXCEPT ![p] = row] /\ staging' = staging \cup {made + 1}
      BY <1>1 DEF CreateStagingFile
    <2>2. publisher'[p] = row /\ \A q \in Publishers \ {p} : publisher'[q] = publisher[q]
      BY <2>1 DEF StoreInv, PublisherInv
    <2>3. row.file = made + 1
      OBVIOUS
    <2> HIDE DEF row
    <2>4. ASSUME NEW q \in Publishers, publisher'[q].step \in Handling
          PROVE  publisher'[q].file \in staging'
      <3>1. CASE q = p
        BY <2>1, <2>2, <2>3, <3>1
      <3>2. CASE q # p
        BY <2>1, <2>2, <2>4, <3>2, FileIsThere
      <3> QED BY <3>1, <3>2
    <2> QED BY <2>4 DEF StagedFilesStay, Handling
  <1>2. CASE Stage(p)
    BY <1>2, MovesStays DEF Stage, Handling
  <1>3. CASE RejectSource(p)
    <2>1. /\ publisher' = [publisher EXCEPT ![p] = NoPublisher]
          /\ staging' \in {staging, staging \ {publisher[p].file}}
      BY <1>3 DEF RejectSource
    <2> QED BY <2>1, EndsStays
  <1>4. CASE ReuseBlob(p)
    BY <1>4, MovesStays DEF ReuseBlob, Handling
  <1>5. CASE Promote(p)
    BY <1>5, MovesStays DEF Promote, Handling
  <1>6. CASE QuarantineCorrupt(p)
    BY <1>6, MovesStays DEF QuarantineCorrupt, Handling
  <1>7. CASE SetAside(p)
    BY <1>7, MovesStays DEF SetAside, Handling
  <1>8. CASE Replace(p)
    BY <1>8, MovesStays DEF Replace, Handling
  <1>9. CASE DropSidecar(p)
    BY <1>9, MovesStays DEF DropSidecar, Handling
  <1>10. CASE SyncShard(p)
    <2>1. CASE publisher[p].step = "aside"
      BY <1>10, <2>1, MovesStays DEF SyncShard, Handling
    <2>2. CASE publisher[p].step = "replaced"
      BY <1>10, <2>2, MovesStays DEF SyncShard, Handling
    <2>3. CASE publisher[p].step \in {"dropped", "promoted"}
      BY <1>10, <2>3, MovesStays DEF SyncShard, Handling
    <2> QED BY <1>10, <2>1, <2>2, <2>3 DEF SyncShard
  <1>11. CASE RefreshLease(p)
    <2> DEFINE row == [publisher[p] EXCEPT !.step = "returned", !.file = 0,
                                           !.until = clock + Grace]
    <2>1. publisher' = [publisher EXCEPT ![p] = row] /\ staging' = staging
      BY <1>11 DEF RefreshLease
    <2>2. row.step = "returned"
      BY DEF StoreInv, PublisherInv, Publisher
    <2>3. "returned" \notin Handling
      BY DEF Handling
    <2> HIDE DEF row
    <2>4. Handles(p, row)
      BY <2>1, <2>2, <2>3 DEF Handles
    <2> QED BY <2>4, HandlesStays
  <1>12. CASE PublishFails(p) \/ RollBack(p) \/ PutArtifactMetadata(p) \/ ForgetRecord(p)
    <2>1. publisher' = [publisher EXCEPT ![p] = NoPublisher] /\ staging' = staging
      BY <1>12 DEF PublishFails, RollBack, PutArtifactMetadata, ForgetRecord
    <2> QED BY <2>1, EndsStays
  <1> QED BY <1>1, <1>2, <1>3, <1>4, <1>5, <1>6, <1>7, <1>8, <1>9, <1>10, <1>11, <1>12
          DEF Publish

LEMMA StagedFilesStep ==
    ASSUME StoreInv, StagedFilesStay, [Next]_vars
    PROVE  StagedFilesStay'
  <1>1. ASSUME UNCHANGED <<publisher, staging>> PROVE StagedFilesStay'
    BY <1>1 DEF StagedFilesStay
  <1>2. ASSUME NEW i \in Inodes, CollectStaging(i) PROVE StagedFilesStay'
    <2>1. publisher' = publisher
      BY <1>2 DEF CollectStaging
    <2>2. \/ staging' = staging
          \/ ~Active(i) /\ staging' = staging \ {i}
      <3>1. CASE Active(i) \/ i \in staging
        <4>1. staging' = IF ~Active(i) /\ Old(i, collector.now) THEN staging \ {i} ELSE staging
          BY <1>2, <3>1, Zenon DEF CollectStaging
        <4> QED BY <4>1
      <3>2. CASE ~(Active(i) \/ i \in staging)
        BY <1>2, <3>2, Zenon DEF CollectStaging
      <3> QED BY <3>1, <3>2
    <2>3. ASSUME NEW q \in Publishers, publisher[q].step \in Handling, ~Active(i)
          PROVE  publisher[q].file # i
      BY <2>3 DEF Active, Handling
    <2>4. \A q \in Publishers : publisher[q].step \in Handling => publisher[q].file \in staging'
      BY <2>2, <2>3, FileIsThere
    <2> QED BY <2>1, <2>4 DEF StagedFilesStay, Handling
  <1>3. CASE CollectUnreferenced
    <2>1. CASE \E i \in Inodes : CollectStaging(i)
      BY <1>2, <2>1
    <2>2. CASE Collect \/ CollectNext \/ (\E i \in Inodes : CollectQuarantine(i))
                 \/ \E d \in Digests : CollectBlob(d)
      BY <1>1, <2>2 DEF Collect, CollectNext, CollectQuarantine, CollectBlob
    <2> QED BY <1>3, <2>1, <2>2 DEF CollectUnreferenced
  <1>4. CASE (\E d \in Digests : Open(d) \/ RecoverSidecar(d) \/ Rot(d)) \/ Tick
               \/ UNCHANGED vars
    BY <1>1, <1>4 DEF Open, RecoverSidecar, Rot, Tick, vars
  <1>5. CASE Kill \/ PowerLoss
    <2>1. \A p \in Publishers : publisher'[p].step = "idle"
      BY <1>5 DEF Kill, PowerLoss, Restarts, NoPublisher
    <2> QED BY <2>1 DEF StagedFilesStay
  <1> QED BY <1>3, <1>4, <1>5, PublishStays DEF Next

(* Every file that a publisher has open or is about to move is in staging, *)
(* however old it is and whichever collections and other publishers run,   *)
(* and the store is of its type.                                           *)
THEOREM StoreConsistent == Spec => []StoreIsConsistent
  <1>1. Init => StagedFilesStay
    BY DEF Init, StagedFilesStay, NoPublisher
  <1>2. StoreInv /\ StagedFilesStay /\ [Next]_vars => StoreInv' /\ StagedFilesStay'
    BY InvStep, StagedFilesStep
  <1>3. StoreInv /\ StagedFilesStay => StoreIsConsistent
    BY InvIsTyped DEF StoreIsConsistent
  <1> QED BY InitInv, <1>1, <1>2, <1>3, PTL DEF Spec

-----------------------------------------------------------------------------
(* What a power loss may leave.  A lock is held by one publisher, and the  *)
(* steps of a repair that count on a blob have one; the names a digest has *)
(* are among those its disk may leave.                                     *)

NoNames == [canonical |-> 0, sidecar |-> 0]

(* The steps of a repair after which the name of the blob may go.          *)
Counting == {"renewed", "quarantined", "replaced", "finished"}

LocksExclude ==
    \A p, q \in Publishers :
        p # q /\ publisher[p].step \in Locked /\ publisher[q].step \in Locked
        => publisher[p].digest # publisher[q].digest

RepairInv ==
    /\ LocksExclude
    /\ \A p \in Publishers :
           publisher[p].step \in Counting => shard[publisher[p].digest].canonical # 0
    /\ starting # {} => \A p \in Publishers : publisher[p].step = "idle"

DiskInv == \A d \in Digests : shard[d] \in disk[d]

(* What a step of a publisher does to itself and to the names of its blob. *)
Publishes(p) ==
    /\ starting' = starting /\ starting = {}
    /\ \E row, names :
           /\ publisher' = [publisher EXCEPT ![p] = row]
           /\ shard' \in {shard, [shard EXCEPT ![publisher[p].digest] = names]}
           /\ row.step \in Locked \/ shard' # shard
              => publisher[p].step \in Locked \/ Free(publisher[p].digest)
           /\ row.step \in Locked => row.digest = publisher[p].digest
           /\ row.step \in Counting => shard'[publisher[p].digest].canonical # 0

LEMMA CountingLocks == Counting \subseteq Locked /\ "idle" \notin Locked
  BY DEF Counting, Locked

LEMMA PublishesKeeps ==
    ASSUME StoreInv, RepairInv, NEW p \in Publishers, Publishes(p)
    PROVE  RepairInv'
  <1>1. PICK row, names :
            /\ publisher' = [publisher EXCEPT ![p] = row]
            /\ shard' \in {shard, [shard EXCEPT ![publisher[p].digest] = names]}
            /\ row.step \in Locked \/ shard' # shard
               => publisher[p].step \in Locked \/ Free(publisher[p].digest)
            /\ row.step \in Locked => row.digest = publisher[p].digest
            /\ row.step \in Counting => shard'[publisher[p].digest].canonical # 0
    BY DEF Publishes
  <1>2. publisher'[p] = row /\ \A q \in Publishers \ {p} : publisher'[q] = publisher[q]
    BY <1>1 DEF StoreInv, PublisherInv
  <1>3. ASSUME NEW q \in Publishers \ {p}, publisher[q].step \in Locked,
               row.step \in Locked \/ shard' # shard
        PROVE  publisher[q].digest # publisher[p].digest
    BY <1>1, <1>3 DEF RepairInv, LocksExclude, Free
  <1>4. LocksExclude'
    BY <1>1, <1>2, <1>3 DEF RepairInv, LocksExclude
  <1>5. ASSUME NEW q \in Publishers, publisher'[q].step \in Counting
        PROVE  shard'[publisher'[q].digest].canonical # 0
    <2>1. CASE q = p
      BY <1>1, <1>2, <1>5, <2>1, CountingLocks
    <2>2. CASE q # p
      <3>1. /\ publisher'[q] = publisher[q] /\ publisher[q].step \in Locked
            /\ shard[publisher[q].digest].canonical # 0
        BY <1>2, <1>5, <2>2, CountingLocks DEF RepairInv
      <3>2. shard'[publisher[q].digest] = shard[publisher[q].digest]
        <4>1. CASE shard' = shard
          BY <4>1
        <4>2. CASE shard' # shard
          <5>1. publisher[q].digest # publisher[p].digest
            BY <1>3, <2>2, <3>1, <4>2
          <5>2. publisher[q].digest \in Digests /\ shard \in [Digests -> Made]
            BY <3>1, CountingLocks DEF StoreInv, PublisherInv, NamesAreMade
          <5> QED BY <1>1, <5>1, <5>2
        <4> QED BY <4>1, <4>2
      <3> QED BY <3>1, <3>2
    <2> QED BY <2>1, <2>2
  <1>6. starting' = {}
    BY DEF Publishes
  <1> QED BY <1>4, <1>5, <1>6 DEF RepairInv

(* The step of a publisher that only moves on.                             *)
LEMMA MovesPublishes ==
    ASSUME StoreInv, RepairInv, NEW p \in Publishers, NEW step, NEW names, Moves(p, step),
           publisher[p].step # "idle", starting' = starting,
           shard' \in {shard, [shard EXCEPT ![publisher[p].digest] = names]},
           step \in Locked \/ shard' # shard
               => publisher[p].step \in Locked \/ Free(publisher[p].digest),
           step \in Counting => shard'[publisher[p].digest].canonical # 0
    PROVE  Publishes(p)
  <1> DEFINE row == [publisher[p] EXCEPT !.step = step]
  <1>1. publisher[p] \in Publisher
    BY DEF StoreInv, PublisherInv
  <1>2. row.step = step /\ row.digest = publisher[p].digest
    BY <1>1 DEF Publisher
  <1>3. publisher' = [publisher EXCEPT ![p] = row]
    BY DEF Moves
  <1>4. starting = {}
    BY DEF RepairInv
  <1> HIDE DEF row
  <1> QED BY <1>2, <1>3, <1>4 DEF Publishes

LEMMA EndsPublishes ==
    ASSUME RepairInv, NEW p \in Publishers, NEW names,
           publisher' = [publisher EXCEPT ![p] = NoPublisher],
           publisher[p].step # "idle", starting' = starting,
           shard' \in {shard, [shard EXCEPT ![publisher[p].digest] = names]},
           shard' # shard => publisher[p].step \in Locked
    PROVE  Publishes(p)
  <1>1. NoPublisher.step \notin Locked /\ NoPublisher.step \notin Counting
    BY CountingLocks DEF NoPublisher
  <1>2. starting = {}
    BY DEF RepairInv
  <1> QED BY <1>1, <1>2 DEF Publishes

LEMMA PublishRepairs ==
    ASSUME StoreInv, StagedFilesStay, RepairInv, NEW p \in Publishers, Publish(p)
    PROVE  RepairInv'
  <1> DEFINE d == publisher[p].digest
  <1>1. ASSUME publisher[p].step # "idle"
        PROVE  /\ d \in Digests /\ shard[d] \in Made
               /\ shard \in [Digests -> Made]
    BY <1>1 DEF StoreInv, PublisherInv, NamesAreMade
  <1>2. ASSUME NEW e \in Digests, CreateStagingFile(p, e) PROVE RepairInv'
    <2> DEFINE row == [step |-> "writing", digest |-> e, file |-> made + 1, until |-> 0]
    <2>1. /\ publisher' = [publisher EXCEPT ![p] = row] /\ shard' = shard
          /\ starting' = starting /\ starting = {}
      BY <1>2 DEF CreateStagingFile, Up
    <2>2. row.step \notin Locked /\ row.step \notin Counting
      BY CountingLocks DEF Locked
    <2> HIDE DEF row
    <2>3. Publishes(p)
      BY <2>1, <2>2 DEF Publishes
    <2> QED BY <2>3, PublishesKeeps
  <1>3. CASE Stage(p)
    BY <1>3, MovesPublishes, PublishesKeeps DEF Stage, Locked, Counting
  <1>4. CASE RejectSource(p) \/ PublishFails(p) \/ PutArtifactMetadata(p) \/ ForgetRecord(p)
    <2>1. /\ publisher' = [publisher EXCEPT ![p] = NoPublisher] /\ shard' = shard
          /\ starting' = starting /\ publisher[p].step # "idle"
      BY <1>4, CountingLocks
         DEF RejectSource, PublishFails, PutArtifactMetadata, ForgetRecord
    <2> QED BY <2>1, EndsPublishes, PublishesKeeps
  <1>5. CASE ReuseBlob(p)
    BY <1>5, MovesPublishes, PublishesKeeps DEF ReuseBlob, Locked, Counting
  <1>6. CASE Promote(p)
    <2>1. /\ Moves(p, "promoted") /\ publisher[p].step = "staged" /\ Free(d)
          /\ shard' = [shard EXCEPT ![d] = [shard[d] EXCEPT !.canonical = publisher[p].file]]
          /\ starting' = starting
      BY <1>6 DEF Promote, Rename
    <2> QED BY <2>1, MovesPublishes, PublishesKeeps DEF Counting
  <1>7. CASE QuarantineCorrupt(p)
    <2>1. /\ shard' = shard /\ shard[d].canonical # 0 /\ starting' = starting
          /\ \/ Moves(p, "renewed") /\ publisher[p].step = "staged" /\ Free(d)
             \/ Moves(p, "quarantined") /\ publisher[p].step = "renewed"
      BY <1>7 DEF QuarantineCorrupt
    <2>2. CASE Moves(p, "renewed") /\ publisher[p].step = "staged" /\ Free(d)
      BY <2>1, <2>2, MovesPublishes, PublishesKeeps
    <2>3. CASE Moves(p, "quarantined") /\ publisher[p].step = "renewed"
      BY <2>1, <2>3, MovesPublishes, PublishesKeeps DEF Locked
    <2> QED BY <2>1, <2>2, <2>3
  <1>8. CASE SetAside(p)
    <2>1. /\ Moves(p, "aside") /\ publisher[p].step = "quarantined"
          /\ shard' = [shard EXCEPT ![d] = [canonical |-> 0, sidecar |-> shard[d].canonical]]
          /\ starting' = starting
      BY <1>8 DEF SetAside, Rename
    <2> QED BY <2>1, MovesPublishes, PublishesKeeps DEF Locked, Counting
  <1>9. CASE Replace(p)
    <2>1. /\ Moves(p, "replaced") /\ publisher[p].step = "set_aside"
          /\ shard' = [shard EXCEPT ![d] = [shard[d] EXCEPT !.canonical = publisher[p].file]]
          /\ starting' = starting
      BY <1>9 DEF Replace, Rename
    <2>2. publisher[p].file # 0
      BY <2>1, FileIsThere DEF Handling
    <2>3. shard'[d].canonical = publisher[p].file
      BY <1>1, <2>1 DEF Made
    <2> QED BY <2>1, <2>2, <2>3, MovesPublishes, PublishesKeeps DEF Locked
  <1>10. CASE DropSidecar(p)
    <2>1. /\ Moves(p, "dropped") /\ publisher[p].step = "finished"
          /\ shard' = [shard EXCEPT ![d] = [shard[d] EXCEPT !.sidecar = 0]]
          /\ starting' = starting
      BY <1>10 DEF DropSidecar, Rename
    <2> QED BY <2>1, MovesPublishes, PublishesKeeps DEF Locked, Counting
  <1>11. CASE SyncShard(p)
    <2>1. shard' = shard /\ starting' = starting
      BY <1>11 DEF SyncShard
    <2>2. CASE publisher[p].step = "aside"
      <3>1. Moves(p, "set_aside")
        BY <1>11, <2>2 DEF SyncShard
      <3> QED BY <2>1, <2>2, <3>1, MovesPublishes, PublishesKeeps DEF Locked, Counting
    <2>3. CASE publisher[p].step = "replaced"
      <3>1. Moves(p, "finished")
        BY <1>11, <2>3 DEF SyncShard
      <3>2. shard[d].canonical # 0
        BY <2>3 DEF RepairInv, Counting
      <3> QED BY <2>1, <2>3, <3>1, <3>2, MovesPublishes, PublishesKeeps DEF Locked
    <2>4. CASE publisher[p].step \in {"dropped", "promoted"}
      <3>1. Moves(p, "leasing")
        BY <1>11, <2>4 DEF SyncShard
      <3> QED BY <2>1, <2>4, <3>1, MovesPublishes, PublishesKeeps DEF Locked, Counting
    <2> QED BY <1>11, <2>2, <2>3, <2>4 DEF SyncShard
  <1>12. CASE RefreshLease(p)
    <2> DEFINE row == [publisher[p] EXCEPT !.step = "returned", !.file = 0,
                                           !.until = clock + Grace]
    <2>1. /\ publisher' = [publisher EXCEPT ![p] = row] /\ shard' = shard
          /\ starting' = starting /\ publisher[p].step = "leasing"
      BY <1>12 DEF RefreshLease
    <2>2. row.step \notin Locked /\ row.step \notin Counting
      BY CountingLocks DEF StoreInv, PublisherInv, Publisher, Locked
    <2>3. starting = {}
      BY <2>1 DEF RepairInv
    <2> HIDE DEF row
    <2>4. Publishes(p)
      BY <2>1, <2>2, <2>3 DEF Publishes
    <2> QED BY <2>4, PublishesKeeps
  <1>13. CASE RollBack(p)
    <2>1. /\ publisher' = [publisher EXCEPT ![p] = NoPublisher]
          /\ publisher[p].step \in {"aside", "set_aside"}
          /\ shard' \in {shard, [shard EXCEPT ![d] = Reconciled(shard[d])]}
          /\ starting' = starting
      BY <1>13 DEF RollBack, Rename
    <2> QED BY <2>1, EndsPublishes, PublishesKeeps DEF Locked
  <1> QED BY <1>2, <1>3, <1>4, <1>5, <1>6, <1>7, <1>8, <1>9, <1>10, <1>11, <1>12, <1>13
          DEF Publish

LEMMA RepairStep ==
    ASSUME StoreInv, StagedFilesStay, RepairInv, [Next]_vars
    PROVE  RepairInv'
  <1>1. ASSUME publisher' = publisher, starting' \subseteq starting,
               \A q \in Publishers :
                   publisher[q].step \in Counting
                   => shard'[publisher[q].digest] = shard[publisher[q].digest]
        PROVE  RepairInv'
    BY <1>1 DEF RepairInv, LocksExclude
  <1>2. ASSUME NEW d \in Digests, NEW names, shard' = [shard EXCEPT ![d] = names],
               publisher' = publisher, starting' \subseteq starting,
               Free(d) \/ starting # {}
        PROVE  RepairInv'
    <2>1. ASSUME NEW q \in Publishers, publisher[q].step \in Counting
          PROVE  shard'[publisher[q].digest] = shard[publisher[q].digest]
      <3>1. publisher[q].step \in Locked /\ publisher[q].step # "idle"
        BY <2>1, CountingLocks
      <3>2. publisher[q].digest # d
        BY <1>2, <3>1 DEF Free, RepairInv
      <3>3. publisher[q].digest \in Digests /\ shard \in [Digests -> Made]
        BY <3>1 DEF StoreInv, PublisherInv, NamesAreMade
      <3> QED BY <1>2, <3>2, <3>3
    <2> QED BY <1>1, <1>2, <2>1
  <1>3. ASSUME NEW d \in Digests, Reconcile(d)
        PROVE  \E names : shard' = [shard EXCEPT ![d] = names]
    BY <1>3 DEF Reconcile, Rename
  <1>4. ASSUME NEW d \in Digests, Open(d) PROVE RepairInv'
    BY <1>2, <1>3, <1>4 DEF Open
  <1>5. ASSUME NEW d \in Digests, RecoverSidecar(d) PROVE RepairInv'
    <2>1. /\ publisher' = publisher /\ starting' \subseteq starting /\ starting # {}
          /\ Reconcile(d) \/ shard' = shard
      BY <1>5 DEF RecoverSidecar
    <2> QED BY <1>1, <1>2, <1>3, <2>1
  <1>6. ASSUME NEW d \in Digests, CollectBlob(d) PROVE RepairInv'
    <2>1. /\ publisher' = publisher /\ starting' = starting /\ Free(d)
          /\ \/ shard' = shard
             \/ shard' = [shard EXCEPT ![d] = [shard[d] EXCEPT !.canonical = 0]]
      BY <1>6 DEF CollectBlob, Rename
    <2> QED BY <1>1, <1>2, <2>1
  <1>7. CASE CollectUnreferenced
    <2>1. CASE Collect \/ CollectNext
                 \/ \E i \in Inodes : CollectStaging(i) \/ CollectQuarantine(i)
      BY <1>1, <2>1 DEF Collect, CollectNext, CollectStaging, CollectQuarantine
    <2> QED BY <1>6, <1>7, <2>1 DEF CollectUnreferenced
  <1>8. CASE (\E d \in Digests : Rot(d)) \/ Tick \/ UNCHANGED vars
    BY <1>1, <1>8 DEF Rot, Tick, vars
  <1>9. CASE Kill \/ PowerLoss
    <2>1. \A p \in Publishers : publisher'[p].step = "idle"
      BY <1>9 DEF Kill, PowerLoss, Restarts, NoPublisher
    <2> QED BY <2>1, CountingLocks DEF RepairInv, LocksExclude
  <1> QED BY <1>4, <1>5, <1>7, <1>8, <1>9, PublishRepairs DEF Next

(* What a step may do to what a power loss may leave of each digest.       *)
DisksGo ==
    \A d \in Digests :
        /\ shard'[d] \in disk'[d]
        /\ NoNames \in disk'[d] => NoNames \in disk[d] \/ collector.step = "blobs"

LEMMA NamesChange ==
    ASSUME StoreInv, DiskInv, NEW d \in Digests, NEW names, NEW left,
           shard' = [shard EXCEPT ![d] = names], disk' = [disk EXCEPT ![d] = left],
           names \in left, left \subseteq disk[d] \cup {names},
           names = NoNames => NoNames \in disk[d] \/ collector.step = "blobs"
    PROVE  DisksGo
  <1>1. shard \in [Digests -> Made] /\ disk \in [Digests -> SUBSET Made]
    BY DEF StoreInv, NamesAreMade
  <1>2. ASSUME NEW e \in Digests
        PROVE  /\ shard'[e] \in disk'[e]
               /\ NoNames \in disk'[e] => NoNames \in disk[e] \/ collector.step = "blobs"
    <2>1. CASE e = d
      BY <1>1, <2>1
    <2>2. CASE e # d
      BY <1>1, <2>2 DEF DiskInv
    <2> QED BY <2>1, <2>2
  <1> QED BY <1>2 DEF DisksGo

LEMMA RenameGoes ==
    ASSUME StoreInv, DiskInv, NEW d \in Digests, NEW names, Rename(d, names),
           names = NoNames => NoNames \in disk[d] \/ collector.step = "blobs"
    PROVE  DisksGo
  <1>1. disk' = [disk EXCEPT ![d] = disk[d] \cup {names}]
    BY DEF Rename
  <1>2. shard' = [shard EXCEPT ![d] = names]
    BY DEF Rename
  <1> QED BY <1>1, <1>2, NamesChange

LEMMA NothingGoes ==
    ASSUME StoreInv, DiskInv, shard' = shard, disk' = disk
    PROVE  DisksGo
  BY DEF DiskInv, DisksGo

(* A reconciliation leaves a file where there was one.                     *)
LEMMA ReconciledHasNames ==
    ASSUME NEW names \in Made, Reconciled(names) = NoNames
    PROVE  names = NoNames
  <1>1. CASE names.canonical = 0
    <2>1. names.sidecar = 0
      BY <1>1 DEF Reconciled, NoNames
    <2> QED BY <1>1, <2>1 DEF Made, NoNames
  <1>2. CASE names.canonical # 0
    <2>1. Reconciled(names).canonical = names.canonical
      BY <1>2 DEF Reconciled, Made
    <2> QED BY <1>2, <2>1 DEF NoNames
  <1> QED BY <1>1, <1>2

LEMMA ReconcileGoes ==
    ASSUME StoreInv, DiskInv, NEW d \in Digests,
           \/ /\ shard' = [shard EXCEPT ![d] = Reconciled(shard[d])]
              /\ disk'  = [disk EXCEPT ![d] = {Reconciled(shard[d])}]
           \/ Rename(d, Reconciled(shard[d]))
    PROVE  DisksGo
  <1>1. shard[d] \in Made /\ shard[d] \in disk[d]
    BY DEF StoreInv, NamesAreMade, DiskInv
  <1>2. Reconciled(shard[d]) = NoNames => NoNames \in disk[d]
    BY <1>1, ReconciledHasNames
  <1> DEFINE names == Reconciled(shard[d])
  <1>3. CASE Rename(d, names)
    BY <1>2, <1>3, RenameGoes
  <1>4. CASE /\ shard' = [shard EXCEPT ![d] = names]
             /\ disk'  = [disk EXCEPT ![d] = {names}]
    <2>1. names \in {names} /\ {names} \subseteq disk[d] \cup {names}
      OBVIOUS
    <2>2. names = NoNames => NoNames \in disk[d] \/ collector.step = "blobs"
      BY <1>2
    <2> HIDE DEF names
    <2> QED BY <1>4, <2>1, <2>2, NamesChange
  <1> QED BY <1>3, <1>4

LEMMA PublishGoes ==
    ASSUME StoreInv, StagedFilesStay, RepairInv, DiskInv, NEW p \in Publishers, Publish(p)
    PROVE  DisksGo
  <1> DEFINE d == publisher[p].digest
  <1>1. ASSUME publisher[p].step # "idle"
        PROVE  d \in Digests /\ shard[d] \in Made /\ shard[d] \in disk[d]
    BY <1>1 DEF StoreInv, PublisherInv, NamesAreMade, DiskInv
  <1>2. CASE \/ \E e \in Digests : CreateStagingFile(p, e)
             \/ Stage(p) \/ RejectSource(p) \/ ReuseBlob(p) \/ QuarantineCorrupt(p)
             \/ RefreshLease(p) \/ PublishFails(p) \/ PutArtifactMetadata(p)
             \/ ForgetRecord(p)
    BY <1>2, NothingGoes
       DEF CreateStagingFile, Stage, RejectSource, ReuseBlob, QuarantineCorrupt,
           RefreshLease, PublishFails, PutArtifactMetadata, ForgetRecord
  <1>3. CASE Promote(p) \/ Replace(p)
    <2>1. /\ publisher[p].step \in {"staged", "set_aside"}
          /\ Rename(d, [shard[d] EXCEPT !.canonical = publisher[p].file])
      BY <1>3 DEF Promote, Replace
    <2>2. publisher[p].file # 0
      BY <2>1, FileIsThere DEF Handling
    <2>3. [shard[d] EXCEPT !.canonical = publisher[p].file] # NoNames
      BY <1>1, <2>1, <2>2 DEF Made, NoNames
    <2> QED BY <1>1, <2>1, <2>3, RenameGoes
  <1>4. CASE SetAside(p)
    <2>1. /\ publisher[p].step = "quarantined"
          /\ Rename(d, [canonical |-> 0, sidecar |-> shard[d].canonical])
      BY <1>4 DEF SetAside
    <2>2. shard[d].canonical # 0
      BY <2>1 DEF RepairInv, Counting
    <2>3. [canonical |-> 0, sidecar |-> shard[d].canonical] # NoNames
      BY <2>2 DEF NoNames
    <2> QED BY <1>1, <2>1, <2>3, RenameGoes
  <1>5. CASE DropSidecar(p)
    <2>1. /\ publisher[p].step = "finished"
          /\ Rename(d, [shard[d] EXCEPT !.sidecar = 0])
      BY <1>5 DEF DropSidecar
    <2>2. shard[d].canonical # 0
      BY <2>1 DEF RepairInv, Counting
    <2>3. [shard[d] EXCEPT !.sidecar = 0] # NoNames
      BY <1>1, <2>1, <2>2 DEF Made, NoNames
    <2> QED BY <1>1, <2>1, <2>3, RenameGoes
  <1>6. CASE SyncShard(p)
    <2>1. /\ publisher[p].step # "idle" /\ shard' = shard
          /\ disk' = [disk EXCEPT ![d] = {shard[d]}]
      BY <1>6 DEF SyncShard, Synced
    <2>2. shard' = [shard EXCEPT ![d] = shard[d]]
      BY <2>1 DEF StoreInv, NamesAreMade
    <2> QED BY <1>1, <2>1, <2>2, NamesChange
  <1>7. CASE RollBack(p)
    <2>1. publisher[p].step # "idle"
      BY <1>7 DEF RollBack
    <2>2. \/ /\ shard' = [shard EXCEPT ![d] = Reconciled(shard[d])]
             /\ disk'  = [disk EXCEPT ![d] = {Reconciled(shard[d])}]
          \/ Rename(d, Reconciled(shard[d]))
          \/ shard' = shard /\ disk' = disk
      BY <1>7 DEF RollBack
    <2> QED BY <1>1, <2>1, <2>2, ReconcileGoes, NothingGoes
  <1> QED BY <1>2, <1>3, <1>4, <1>5, <1>6, <1>7 DEF Publish

LEMMA DisksStep ==
    ASSUME StoreInv, StagedFilesStay, RepairInv, DiskInv, [Next]_vars
    PROVE  DisksGo
  <1>1. ASSUME NEW d \in Digests, Open(d) \/ RecoverSidecar(d) PROVE DisksGo
    <2>1. Reconcile(d) \/ UNCHANGED <<shard, disk, faults>>
      BY <1>1, Zenon DEF Open, RecoverSidecar
    <2>2. CASE Reconcile(d)
      BY <2>2, ReconcileGoes DEF Reconcile
    <2> QED BY <2>1, <2>2, NothingGoes
  <1>2. ASSUME NEW d \in Digests, CollectBlob(d) PROVE DisksGo
    <2>1. /\ collector.step = "blobs"
          /\ \/ Rename(d, [shard[d] EXCEPT !.canonical = 0])
             \/ shard' = shard /\ disk' = disk
      BY <1>2 DEF CollectBlob
    <2> QED BY <2>1, RenameGoes, NothingGoes
  <1>3. CASE CollectUnreferenced
    <2>1. CASE Collect \/ CollectNext
                 \/ \E i \in Inodes : CollectStaging(i) \/ CollectQuarantine(i)
      BY <2>1, NothingGoes DEF Collect, CollectNext, CollectStaging, CollectQuarantine
    <2> QED BY <1>2, <1>3, <2>1 DEF CollectUnreferenced
  <1>4. CASE (\E d \in Digests : Rot(d)) \/ Tick \/ Kill \/ UNCHANGED vars
    BY <1>4, NothingGoes DEF Rot, Tick, Kill, vars
  <1>5. CASE PowerLoss
    <2>1. PICK left : /\ \A d \in Digests : left[d] \in disk[d]
                      /\ shard' = left /\ disk' = [d \in Digests |-> {left[d]}]
      BY <1>5 DEF PowerLoss
    <2> QED BY <2>1 DEF DisksGo
  <1> QED BY <1>1, <1>3, <1>4, <1>5, PublishGoes DEF Next

(* A digest whose file no power loss can take loses it to a collection     *)
(* only: neither a repair, nor its failure, nor a recovery at any point of *)
(* it, leaves a state of the disk without a file.                          *)
THEOREM CollectionsRemove == Spec => OnlyCollectionsRemove
  <1>1. Init => StagedFilesStay /\ RepairInv /\ DiskInv
    <2>1. Init => \A p \in Publishers : publisher[p].step = "idle"
      BY DEF Init, NoPublisher
    <2> QED BY <2>1, CountingLocks
            DEF Init, StagedFilesStay, RepairInv, LocksExclude, DiskInv
  <1>2. StoreInv /\ StagedFilesStay /\ RepairInv /\ DiskInv /\ [Next]_vars
        => StoreInv' /\ StagedFilesStay' /\ RepairInv' /\ DiskInv'
    <2>1. DisksGo => DiskInv'
      BY DEF DisksGo, DiskInv
    <2> QED BY <2>1, InvStep, StagedFilesStep, RepairStep, DisksStep
  <1>3. ASSUME StoreInv, StagedFilesStay, RepairInv, DiskInv, [Next]_vars
        PROVE  [\A d \in Digests : OnDisk(d) /\ ~OnDisk(d)' => collector.step = "blobs"]_vars
    BY <1>3, DisksStep DEF DisksGo, OnDisk, NoNames
  <1> QED BY InitInv, <1>1, <1>2, <1>3, PTL DEF Spec, OnlyCollectionsRemove

-----------------------------------------------------------------------------
(* The blob of a row.  It is lost if its name was not on the disk when the *)
(* machine lost power, for which an operation must have failed or the      *)
(* process have been killed before (the reuse of an unsynced blob).  So    *)
(* either no power is lost, or power losses are all that goes wrong apart  *)
(* from the decay of the disk.                                             *)
PowerLossesAlone ==
    \A plan \in FaultPlans : plan.power = 0 \/ (plan.io = 0 /\ plan.kill = 0)

PlanInv == faults.power = 0 \/ (faults.io = 0 /\ faults.kill = 0)

Slots(names) == {names.canonical, names.sidecar} \ {0}

(* The names of a digest are names of its own files, and of none that a    *)
(* publisher is about to move.                                             *)
OwnNames ==
    \A d \in Digests : \A names \in disk[d] : \A i \in Slots(names) :
        /\ inodes[i].digest = d
        /\ \A p \in Publishers : publisher[p].step \in Handling => publisher[p].file # i

(* A publisher's file is of its digest, and whole once it is staged.       *)
HeldFiles ==
    \A p \in Publishers :
        publisher[p].step \in Handling =>
            /\ inodes[publisher[p].file].digest = publisher[p].digest
            /\ publisher[p].step # "writing" => inodes[publisher[p].file].content = "sound"

(* What a step may do to a file: it stays of its digest, spoils as the     *)
(* blob of one, or is touched.                                             *)
InodesGo ==
    \A i \in 1..made :
        /\ inodes'[i].digest = inodes[i].digest
        /\ inodes[i].content = "sound"
           => \/ inodes'[i].content = "sound"
              \/ \E d \in Digests : i = shard[d].canonical /\ d \in rotted'
        /\ inodes'[i].mtime \in {inodes[i].mtime, clock}

LEMMA SlotsAreFiles ==
    ASSUME StoreInv, NEW d \in Digests, NEW names \in disk[d], NEW i \in Slots(names)
    PROVE  i \in 1..made /\ i \in Inodes /\ i # 0
  <1>1. names \in Made /\ made \in Nat /\ 1..made \subseteq Inodes
    BY MadeAreNames DEF StoreInv, NamesAreMade
  <1>2. i \in 0..made /\ i # 0
    BY <1>1 DEF Made, Slots
  <1> QED BY <1>1, <1>2

LEMMA SlotsOfShard ==
    ASSUME StoreInv, DiskInv, NEW d \in Digests
    PROVE  /\ shard[d] \in disk[d] /\ shard[d] \in Made
           /\ \A i \in {shard[d].canonical, shard[d].sidecar} :
                  i # 0 => i \in Slots(shard[d]) /\ i \in 1..made /\ i \in Inodes
  <1>1. shard[d] \in disk[d] /\ shard[d] \in Made
    BY DEF StoreInv, NamesAreMade, DiskInv
  <1>2. \A i \in {shard[d].canonical, shard[d].sidecar} : i # 0 => i \in Slots(shard[d])
    BY DEF Slots
  <1> QED BY <1>1, <1>2, SlotsAreFiles

(* Files are written, spoil and are leased as InodesGo says.               *)
LEMMA InodesMove ==
    ASSUME StoreInv, [Next]_vars
    PROVE  InodesGo
  <1>0. /\ inodes \in [Inodes -> Inode] /\ made \in Nat /\ 1..made \subseteq Inodes
        /\ \A i \in 1..made : inodes[i] \in Inode
    BY MadeAreNames DEF StoreInv, RestOK
  <1>1. ASSUME inodes' = inodes PROVE InodesGo
    BY <1>1 DEF InodesGo
  <1>2. ASSUME NEW p \in Publishers, NEW d \in Digests, CreateStagingFile(p, d) PROVE InodesGo
    <2>1. \A i \in 1..made : inodes'[i] = inodes[i]
      BY <1>0, <1>2 DEF CreateStagingFile
    <2> QED BY <2>1 DEF InodesGo
  <1>3. ASSUME NEW p \in Publishers, Stage(p) PROVE InodesGo
    <2>1. \A i \in 1..made : inodes'[i] =
              IF i = publisher[p].file THEN [inodes[i] EXCEPT !.content = "sound", !.mtime = clock]
              ELSE inodes[i]
      BY <1>0, <1>3 DEF Stage
    <2>2. \A i \in 1..made : /\ inodes'[i].digest = inodes[i].digest
                             /\ inodes[i].content = "sound" => inodes'[i].content = "sound"
                             /\ inodes'[i].mtime \in {inodes[i].mtime, clock}
      BY <1>0, <2>1 DEF Inode
    <2> QED BY <2>2 DEF InodesGo
  <1>4. ASSUME NEW p \in Publishers, QuarantineCorrupt(p) \/ RefreshLease(p) PROVE InodesGo
    <2> DEFINE j == shard[publisher[p].digest].canonical
    <2>1. inodes' \in {inodes, [inodes EXCEPT ![j].mtime = clock]}
      BY <1>4 DEF QuarantineCorrupt, RefreshLease
    <2>2. \A i \in 1..made :
              inodes'[i] \in {inodes[i], [inodes[i] EXCEPT !.mtime = clock]}
      BY <1>0, <2>1
    <2> HIDE DEF j
    <2>3. \A i \in 1..made : /\ inodes'[i].digest = inodes[i].digest
                             /\ inodes'[i].content = inodes[i].content
                             /\ inodes'[i].mtime \in {inodes[i].mtime, clock}
      BY <1>0, <2>2 DEF Inode
    <2> QED BY <2>3 DEF InodesGo
  <1>5. ASSUME NEW d \in Digests, Rot(d) PROVE InodesGo
    <2>1. /\ inodes' = [inodes EXCEPT ![shard[d].canonical].content = "rotten"]
          /\ d \in rotted'
      BY <1>5 DEF Rot
    <2>2. \A i \in 1..made : inodes'[i] =
              IF i = shard[d].canonical THEN [inodes[i] EXCEPT !.content = "rotten"] ELSE inodes[i]
      BY <1>0, <2>1
    <2>3. \A i \in 1..made : /\ inodes'[i].digest = inodes[i].digest
                             /\ inodes'[i].mtime = inodes[i].mtime
                             /\ i # shard[d].canonical => inodes'[i].content = inodes[i].content
      BY <1>0, <2>2 DEF Inode
    <2> QED BY <2>1, <2>3 DEF InodesGo
  <1>6. ASSUME NEW p \in Publishers, Publish(p) PROVE InodesGo
    <2>1. CASE \/ RejectSource(p) \/ ReuseBlob(p) \/ Promote(p) \/ SetAside(p) \/ Replace(p)
               \/ DropSidecar(p) \/ SyncShard(p) \/ PublishFails(p) \/ RollBack(p)
               \/ PutArtifactMetadata(p) \/ ForgetRecord(p)
      BY <1>1, <2>1 DEF RejectSource, ReuseBlob, Promote, SetAside, Replace, DropSidecar,
         SyncShard, PublishFails, RollBack, PutArtifactMetadata, ForgetRecord
    <2> QED BY <1>2, <1>3, <1>4, <1>6, <2>1 DEF Publish
  <1>7. CASE CollectUnreferenced
    BY <1>1, <1>7 DEF CollectUnreferenced, Collect, CollectNext, CollectStaging,
       CollectQuarantine, CollectBlob
  <1>8. ASSUME NEW d \in Digests, Open(d) \/ RecoverSidecar(d) PROVE InodesGo
    BY <1>1, <1>8 DEF Open, RecoverSidecar
  <1>9. CASE Tick \/ Kill \/ PowerLoss \/ UNCHANGED vars
    BY <1>1, <1>9 DEF Tick, Kill, PowerLoss, vars
  <1> QED BY <1>5, <1>6, <1>7, <1>8, <1>9 DEF Next

(* A publisher that handles a file did so before, with the same file; it   *)
(* is done writing when the file is whole.                                 *)
HandledGo ==
    \A p \in Publishers :
        publisher'[p].step \in Handling =>
            /\ publisher[p].step \in Handling
            /\ publisher'[p].file = publisher[p].file
            /\ publisher'[p].digest = publisher[p].digest
            /\ publisher'[p].step = "writing" \/ publisher[p].step # "writing"
               \/ inodes'[publisher[p].file].content = "sound"

(* One publisher goes from one step to another.                            *)
LEMMA OneMoves ==
    ASSUME StoreInv, NEW p \in Publishers, NEW step, Moves(p, step),
           step \in Handling => /\ publisher[p].step \in Handling
                                /\ publisher[p].step # "writing"
                                   \/ inodes'[publisher[p].file].content = "sound"
    PROVE  HandledGo
  <1>1. /\ publisher'[p].step = step /\ publisher'[p].file = publisher[p].file
        /\ publisher'[p].digest = publisher[p].digest
        /\ \A q \in Publishers \ {p} : publisher'[q] = publisher[q]
    <2>1. publisher \in [Publishers -> Publisher] /\ publisher[p] \in Publisher
      BY DEF StoreInv, PublisherInv
    <2> QED BY <2>1 DEF Moves, Publisher
  <1> QED BY <1>1 DEF HandledGo

(* One publisher lets go of its file.                                      *)
LEMMA OneLetsGo ==
    ASSUME StoreInv, NEW p \in Publishers, NEW row, row.step \notin Handling,
           publisher' = [publisher EXCEPT ![p] = row]
    PROVE  HandledGo
  <1>1. publisher'[p] = row /\ \A q \in Publishers \ {p} : publisher'[q] = publisher[q]
    BY DEF StoreInv, PublisherInv
  <1> QED BY <1>1 DEF HandledGo

LEMMA HandledMove ==
    ASSUME StoreInv, StagedFilesStay, [Next]_vars
    PROVE  HandledGo \/ \E p \in Publishers, d \in Digests : CreateStagingFile(p, d)
  <1>1. ASSUME publisher' = publisher PROVE HandledGo
    BY <1>1 DEF HandledGo
  <1>2. ASSUME NEW p \in Publishers, Stage(p) PROVE HandledGo
    <2>1. publisher[p].file \in Inodes /\ inodes \in [Inodes -> Inode]
      <3>1. publisher[p].file \in 1..made
        BY <1>2, FileIsThere DEF Stage, Handling, StoreInv, RestOK
      <3> QED BY <3>1, MadeAreNames DEF StoreInv, RestOK
    <2>2. inodes'[publisher[p].file].content = "sound"
      BY <1>2, <2>1 DEF Stage, Inode
    <2> QED BY <1>2, <2>2, OneMoves DEF Stage, Handling
  <1>3. ASSUME NEW p \in Publishers,
               \/ RejectSource(p) \/ PublishFails(p) \/ RollBack(p)
               \/ PutArtifactMetadata(p) \/ ForgetRecord(p)
        PROVE  HandledGo
    <2>1. publisher' = [publisher EXCEPT ![p] = NoPublisher]
      BY <1>3 DEF RejectSource, PublishFails, RollBack, PutArtifactMetadata, ForgetRecord
    <2> QED BY <2>1, OneLetsGo DEF NoPublisher, Handling
  <1>4. ASSUME NEW p \in Publishers,
               \/ ReuseBlob(p) \/ Promote(p) \/ Replace(p) \/ DropSidecar(p)
               \/ QuarantineCorrupt(p) \/ SetAside(p)
        PROVE  HandledGo
    <2>1. CASE ReuseBlob(p) \/ Promote(p) \/ Replace(p) \/ DropSidecar(p)
      BY <2>1, OneMoves DEF ReuseBlob, Promote, Replace, DropSidecar, Handling
    <2>2. CASE QuarantineCorrupt(p) \/ SetAside(p)
      BY <2>2, OneMoves DEF QuarantineCorrupt, SetAside, Handling
    <2> QED BY <1>4, <2>1, <2>2
  <1>5. ASSUME NEW p \in Publishers, SyncShard(p) PROVE HandledGo
    <2>1. CASE publisher[p].step = "aside"
      <3>1. Moves(p, "set_aside")
        BY <1>5, <2>1 DEF SyncShard
      <3> QED BY <2>1, <3>1, OneMoves DEF Handling
    <2>2. CASE publisher[p].step = "replaced"
      <3>1. Moves(p, "finished")
        BY <1>5, <2>2 DEF SyncShard
      <3> QED BY <3>1, OneMoves DEF Handling
    <2>3. CASE publisher[p].step \in {"dropped", "promoted"}
      <3>1. Moves(p, "leasing")
        BY <1>5, <2>3 DEF SyncShard
      <3> QED BY <3>1, OneMoves DEF Handling
    <2> QED BY <1>5, <2>1, <2>2, <2>3 DEF SyncShard
  <1>6. ASSUME NEW p \in Publishers, RefreshLease(p) PROVE HandledGo
    <2> DEFINE row == [publisher[p] EXCEPT !.step = "returned", !.file = 0,
                                           !.until = clock + Grace]
    <2>1. publisher' = [publisher EXCEPT ![p] = row]
      BY <1>6 DEF RefreshLease
    <2>2. row.step \notin Handling
      BY DEF StoreInv, PublisherInv, Publisher, Handling
    <2> HIDE DEF row
    <2> QED BY <2>1, <2>2, OneLetsGo
  <1>7. CASE CollectUnreferenced \/ (\E d \in Digests : Open(d) \/ RecoverSidecar(d) \/ Rot(d))
             \/ Tick \/ UNCHANGED vars
    <2>1. publisher' = publisher
      BY <1>7 DEF CollectUnreferenced, Collect, CollectNext, CollectStaging, CollectQuarantine,
         CollectBlob, Open, RecoverSidecar, Rot, Tick, vars
    <2> QED BY <1>1, <2>1
  <1>8. CASE Kill \/ PowerLoss
    <2>1. \A p \in Publishers : publisher'[p].step = "idle"
      BY <1>8 DEF Kill, PowerLoss, Restarts, NoPublisher
    <2> QED BY <2>1 DEF HandledGo, Handling
  <1> QED BY <1>2, <1>3, <1>4, <1>5, <1>6, <1>7, <1>8 DEF Next, Publish

(* Where the names of a digest come from: they were its names, or a        *)
(* publisher of it moves its file there.                                   *)
Given(d, i) ==
    \/ \E names \in disk[d] : i \in Slots(names)
    \/ \E p \in Publishers : /\ publisher[p].step \in Handling /\ publisher[p].digest = d
                             /\ publisher[p].file = i /\ publisher'[p].step \notin Handling

NamesGo == \A d \in Digests : \A names \in disk'[d] : \A i \in Slots(names) : Given(d, i)

LEMMA NamesOfOne ==
    ASSUME StoreInv, DiskInv, NEW d \in Digests, NEW names, NEW left,
           disk' = [disk EXCEPT ![d] = left], left \subseteq disk[d] \cup {names},
           \A i \in Slots(names) : Given(d, i)
    PROVE  NamesGo
  <1>1. disk \in [Digests -> SUBSET Made]
    BY DEF StoreInv, NamesAreMade
  <1>2. ASSUME NEW e \in Digests, NEW other \in disk'[e], NEW i \in Slots(other)
        PROVE  Given(e, i)
    <2>1. CASE other \in disk[e]
      BY <2>1 DEF Given
    <2>2. CASE other \notin disk[e]
      <3>1. e = d /\ other = names
        BY <1>1, <2>2
      <3> QED BY <3>1
    <2> QED BY <2>1, <2>2
  <1> QED BY <1>2 DEF NamesGo

(* Names made of the names there are.                                      *)
LEMMA NamesWithin ==
    ASSUME StoreInv, DiskInv, NEW d \in Digests, NEW names, NEW left,
           disk' = [disk EXCEPT ![d] = left], left \subseteq disk[d] \cup {names},
           Slots(names) \subseteq Slots(shard[d])
    PROVE  NamesGo
  <1>1. \A i \in Slots(names) : Given(d, i)
    BY DEF DiskInv, Given
  <1> QED BY <1>1, NamesOfOne

LEMMA ReconciledSlots ==
    ASSUME NEW names \in Made
    PROVE  Slots(Reconciled(names)) \subseteq Slots(names)
  <1>1. CASE names.canonical = 0
    BY <1>1 DEF Reconciled, Slots, Made
  <1>2. CASE names.canonical # 0
    BY <1>2 DEF Reconciled, Slots, Made
  <1> QED BY <1>1, <1>2

LEMMA ReconcileNamesGo ==
    ASSUME StoreInv, DiskInv, NEW d \in Digests,
           \/ disk'  = [disk EXCEPT ![d] = {Reconciled(shard[d])}]
           \/ Rename(d, Reconciled(shard[d]))
    PROVE  NamesGo
  <1> DEFINE names == Reconciled(shard[d])
  <1>1. Slots(names) \subseteq Slots(shard[d])
    BY ReconciledSlots DEF StoreInv, NamesAreMade
  <1>2. CASE disk' = [disk EXCEPT ![d] = {names}]
    <2>1. {names} \subseteq disk[d] \cup {names}
      OBVIOUS
    <2> HIDE DEF names
    <2> QED BY <1>1, <1>2, <2>1, NamesWithin
  <1>3. CASE Rename(d, names)
    <2> HIDE DEF names
    <2>1. disk' = [disk EXCEPT ![d] = disk[d] \cup {names}]
      BY <1>3 DEF Rename
    <2> QED BY <1>1, <2>1, NamesWithin
  <1> QED BY <1>2, <1>3

LEMMA NamesMove ==
    ASSUME StoreInv, StagedFilesStay, RepairInv, DiskInv, [Next]_vars
    PROVE  NamesGo
  <1>1. ASSUME disk' = disk PROVE NamesGo
    BY <1>1 DEF NamesGo, Given
  <1>2. ASSUME NEW p \in Publishers, Promote(p) \/ Replace(p) PROVE NamesGo
    <2> DEFINE d == publisher[p].digest
               names == [shard[d] EXCEPT !.canonical = publisher[p].file]
    <2>1. /\ publisher[p].step \in Handling /\ publisher[p].step # "idle"
          /\ Rename(d, names)
          /\ Moves(p, "promoted") \/ Moves(p, "replaced")
      BY <1>2 DEF Promote, Replace, Handling
    <2>2. d \in Digests /\ shard[d] \in Made /\ shard[d] \in disk[d]
      BY <2>1 DEF StoreInv, PublisherInv, NamesAreMade, DiskInv
    <2>3. publisher'[p].step \notin Handling
      BY <2>1 DEF Moves, Handling, StoreInv, PublisherInv, Publisher
    <2>4. Slots(names) \subseteq Slots(shard[d]) \cup {publisher[p].file}
      BY <2>2 DEF Slots, Made
    <2>5. \A i \in Slots(names) : Given(d, i)
      BY <2>1, <2>2, <2>3, <2>4 DEF Given
    <2> HIDE DEF names
    <2>6. disk' = [disk EXCEPT ![d] = disk[d] \cup {names}]
      BY <2>1 DEF Rename
    <2> QED BY <2>2, <2>5, <2>6, NamesOfOne
  <1>3. ASSUME NEW p \in Publishers, SetAside(p) \/ DropSidecar(p) PROVE NamesGo
    <2> DEFINE d == publisher[p].digest
    <2>1. /\ publisher[p].step # "idle"
          /\ \/ Rename(d, [canonical |-> 0, sidecar |-> shard[d].canonical])
             \/ Rename(d, [shard[d] EXCEPT !.sidecar = 0])
      BY <1>3 DEF SetAside, DropSidecar
    <2>2. d \in Digests /\ shard[d] \in Made
      BY <2>1 DEF StoreInv, PublisherInv, NamesAreMade
    <2>3. PICK names : Rename(d, names) /\ Slots(names) \subseteq Slots(shard[d])
      <3>1. Slots([canonical |-> 0, sidecar |-> shard[d].canonical]) \subseteq Slots(shard[d])
        BY DEF Slots
      <3>2. Slots([shard[d] EXCEPT !.sidecar = 0]) \subseteq Slots(shard[d])
        BY <2>2 DEF Slots, Made
      <3> QED BY <2>1, <3>1, <3>2
    <2>4. disk' = [disk EXCEPT ![d] = disk[d] \cup {names}]
      BY <2>3 DEF Rename
    <2> QED BY <2>2, <2>3, <2>4, NamesWithin
  <1>4. ASSUME NEW p \in Publishers, SyncShard(p) PROVE NamesGo
    <2> DEFINE d == publisher[p].digest
    <2>1. publisher[p].step # "idle" /\ disk' = [disk EXCEPT ![d] = {shard[d]}]
      BY <1>4 DEF SyncShard, Synced
    <2>2. d \in Digests
      BY <2>1 DEF StoreInv, PublisherInv
    <2>3. {shard[d]} \subseteq disk[d] \cup {shard[d]}
      OBVIOUS
    <2> QED BY <2>1, <2>2, <2>3, NamesWithin
  <1>5. ASSUME NEW p \in Publishers, RollBack(p) PROVE NamesGo
    <2> DEFINE d == publisher[p].digest
    <2>1. /\ publisher[p].step # "idle"
          /\ \/ disk'  = [disk EXCEPT ![d] = {Reconciled(shard[d])}]
             \/ Rename(d, Reconciled(shard[d]))
             \/ disk' = disk
      BY <1>5 DEF RollBack
    <2>2. d \in Digests
      BY <2>1 DEF StoreInv, PublisherInv
    <2> QED BY <1>1, <2>1, <2>2, ReconcileNamesGo
  <1>6. ASSUME NEW p \in Publishers,
               \/ \E d \in Digests : CreateStagingFile(p, d)
               \/ Stage(p) \/ RejectSource(p) \/ ReuseBlob(p) \/ QuarantineCorrupt(p)
               \/ RefreshLease(p) \/ PublishFails(p) \/ PutArtifactMetadata(p) \/ ForgetRecord(p)
        PROVE  NamesGo
    BY <1>1, <1>6 DEF CreateStagingFile, Stage, RejectSource, ReuseBlob, QuarantineCorrupt,
       RefreshLease, PublishFails, PutArtifactMetadata, ForgetRecord
  <1>7. ASSUME NEW d \in Digests, Open(d) \/ RecoverSidecar(d) PROVE NamesGo
    <2>1. Reconcile(d) \/ disk' = disk
      BY <1>7, Zenon DEF Open, RecoverSidecar
    <2>2. CASE Reconcile(d)
      BY <2>2, ReconcileNamesGo DEF Reconcile
    <2> QED BY <1>1, <2>1, <2>2
  <1>8. ASSUME NEW d \in Digests, CollectBlob(d) PROVE NamesGo
    <2> DEFINE names == [shard[d] EXCEPT !.canonical = 0]
    <2>1. disk' = [disk EXCEPT ![d] = disk[d] \cup {names}] \/ disk' = disk
      BY <1>8 DEF CollectBlob, Rename
    <2>2. Slots(names) \subseteq Slots(shard[d])
      <3>1. shard[d] \in Made
        BY DEF StoreInv, NamesAreMade
      <3> QED BY <3>1 DEF Slots, Made
    <2> HIDE DEF names
    <2> QED BY <1>1, <2>1, <2>2, NamesWithin
  <1>9. CASE CollectUnreferenced
    <2>1. CASE Collect \/ CollectNext
                 \/ \E i \in Inodes : CollectStaging(i) \/ CollectQuarantine(i)
      BY <1>1, <2>1 DEF Collect, CollectNext, CollectStaging, CollectQuarantine
    <2> QED BY <1>8, <1>9, <2>1 DEF CollectUnreferenced
  <1>10. CASE (\E d \in Digests : Rot(d)) \/ Tick \/ Kill \/ UNCHANGED vars
    BY <1>1, <1>10 DEF Rot, Tick, Kill, vars
  <1>11. CASE PowerLoss
    <2>1. PICK left : /\ \A d \in Digests : left[d] \in disk[d]
                      /\ disk' = [d \in Digests |-> {left[d]}]
      BY <1>11 DEF PowerLoss
    <2>2. \A d \in Digests : disk'[d] \subseteq disk[d]
      BY <2>1
    <2> QED BY <2>2 DEF NamesGo, Given
  <1> QED BY <1>2, <1>3, <1>4, <1>5, <1>6, <1>7, <1>9, <1>10, <1>11 DEF Next, Publish

(* So names and files stay those of their digest.                          *)
LEMMA FilesStay ==
    ASSUME StoreInv, StagedFilesStay, RepairInv, DiskInv, OwnNames, HeldFiles, [Next]_vars
    PROVE  OwnNames' /\ HeldFiles'
  <1>1. InodesGo /\ NamesGo
    BY InodesMove, NamesMove
  <1>2. ASSUME NEW q \in Publishers, publisher[q].step \in Handling
        PROVE  publisher[q].file \in 1..made
    BY <1>2, FileIsThere DEF StoreInv, RestOK
  <1>3. ASSUME NEW p \in Publishers, NEW d \in Digests, CreateStagingFile(p, d)
        PROVE  OwnNames' /\ HeldFiles'
    <2>1. /\ made \in Nat /\ made + 1 \in Inodes /\ disk' = disk
          /\ inodes'[made + 1].digest = d
          /\ publisher'[p].step = "writing" /\ publisher'[p].digest = d /\ publisher'[p].file = made + 1
          /\ \A q \in Publishers \ {p} : publisher'[q] = publisher[q]
          /\ \A i \in 1..made : inodes'[i] = inodes[i] /\ i # made + 1
      <3>1. /\ made \in Nat /\ MaxInodes \in Nat /\ inodes \in [Inodes -> Inode]
            /\ publisher \in [Publishers -> Publisher]
        BY MadeAreNames, ArtifactAssumption DEF StoreInv, RestOK, PublisherInv
      <3>2. made < MaxInodes
        BY <1>3 DEF CreateStagingFile
      <3>3. made + 1 \in Inodes /\ \A i \in 1..made : i \in Inodes /\ i # made + 1
        BY <3>1, <3>2 DEF Inodes
      <3> QED BY <1>3, <3>1, <3>3 DEF CreateStagingFile
    <2>2. OwnNames'
      BY <2>1, SlotsAreFiles DEF OwnNames
    <2>3. HeldFiles'
      BY <1>2, <2>1 DEF HeldFiles
    <2> QED BY <2>2, <2>3
  <1>4. CASE HandledGo
    <2>1. ASSUME NEW d \in Digests, NEW names \in disk'[d], NEW i \in Slots(names)
          PROVE  /\ inodes'[i].digest = d
                 /\ \A p \in Publishers : publisher'[p].step \in Handling => publisher'[p].file # i
      <3>1. Given(d, i)
        BY <1>1 DEF NamesGo
      <3>2. CASE \E old \in disk[d] : i \in Slots(old)
        <4>1. i \in 1..made
          BY <3>2, SlotsAreFiles
        <4> QED BY <1>1, <1>4, <3>2, <4>1 DEF OwnNames, InodesGo, HandledGo
      <3>3. CASE \E q \in Publishers : /\ publisher[q].step \in Handling /\ publisher[q].digest = d
                                       /\ publisher[q].file = i /\ publisher'[q].step \notin Handling
        <4>1. PICK q \in Publishers : /\ publisher[q].step \in Handling /\ publisher[q].digest = d
                                      /\ publisher[q].file = i /\ publisher'[q].step \notin Handling
          BY <3>3
        <4>2. i \in 1..made /\ i # 0
          BY <1>2, <4>1, FileIsThere
        <4>3. inodes'[i].digest = d
          BY <1>1, <4>1, <4>2 DEF HeldFiles, InodesGo
        <4>4. ASSUME NEW p \in Publishers, publisher'[p].step \in Handling
              PROVE  publisher'[p].file # i
          BY <1>4, <4>1, <4>2, <4>4 DEF HandledGo, StoreInv, OwnFiles
        <4> QED BY <4>3, <4>4
      <3> QED BY <3>1, <3>2, <3>3 DEF Given
    <2>2. ASSUME NEW q \in Publishers, publisher'[q].step \in Handling
          PROVE  /\ inodes'[publisher'[q].file].digest = publisher'[q].digest
                 /\ publisher'[q].step # "writing" => inodes'[publisher'[q].file].content = "sound"
      <3> DEFINE i == publisher[q].file
      <3>1. /\ publisher[q].step \in Handling /\ publisher'[q].file = i
            /\ publisher'[q].digest = publisher[q].digest
            /\ publisher'[q].step = "writing" \/ publisher[q].step # "writing"
               \/ inodes'[i].content = "sound"
        BY <1>4, <2>2 DEF HandledGo
      <3>2. i \in 1..made /\ inodes[i].digest = publisher[q].digest
        BY <1>2, <3>1 DEF HeldFiles
      <3>3. \A d \in Digests : i # shard[d].canonical
        BY <1>2, <3>1, <3>2, SlotsOfShard DEF OwnNames
      <3>4. inodes[i].content = "sound" => inodes'[i].content = "sound"
        BY <1>1, <3>2, <3>3 DEF InodesGo
      <3> QED BY <1>1, <3>1, <3>2, <3>4 DEF HeldFiles, InodesGo
    <2> QED BY <2>1, <2>2 DEF OwnNames, HeldFiles
  <1> QED BY <1>3, <1>4, HandledMove

(* A blob is sound as long as it has its name and does not spoil.          *)
LEMMA SoundStays ==
    ASSUME StoreInv, DiskInv, OwnNames, InodesGo, NEW d \in Digests, Sound(d),
           shard'[d].canonical = shard[d].canonical
    PROVE  /\ Sound(d)' \/ d \in rotted'
           /\ inodes'[shard'[d].canonical].mtime \in {inodes[shard[d].canonical].mtime, clock}
  <1> DEFINE i == shard[d].canonical
  <1>1. /\ i # 0 /\ i \in 1..made /\ inodes[i].content = "sound" /\ inodes[i].digest = d
    BY SlotsOfShard DEF Sound, OwnNames
  <1>2. ASSUME NEW e \in Digests, i = shard[e].canonical PROVE e = d
    <2>1. inodes[i].digest = e
      BY <1>1, <1>2, SlotsOfShard DEF OwnNames
    <2> QED BY <1>1, <2>1
  <1>3. inodes'[i].content = "sound" \/ d \in rotted'
    BY <1>1, <1>2 DEF InodesGo
  <1>4. inodes'[i].mtime \in {inodes[i].mtime, clock}
    BY <1>1 DEF InodesGo
  <1> QED BY <1>1, <1>3, <1>4 DEF Sound

(* While a digest is locked, the other publishers, the collections and the *)
(* readers leave it alone.                                                 *)
LeftAlone(d) ==
    shard'[d] = shard[d] /\ disk'[d] = disk[d] /\ (d \in rotted => d \in rotted')

LEMMA PublishersLeave ==
    ASSUME StoreInv, RepairInv, NEW p \in Publishers, Publish(p), NEW d \in Digests,
           d # publisher[p].digest
    PROVE  LeftAlone(d) /\ (publisher'[p].step \in Locked => publisher'[p].digest # d)
  <1> DEFINE e == publisher[p].digest
  <1>0. /\ shard \in [Digests -> Made] /\ disk \in [Digests -> SUBSET Made]
        /\ publisher \in [Publishers -> Publisher] /\ publisher[p] \in Publisher
    BY DEF StoreInv, NamesAreMade, PublisherInv
  <1>1. ASSUME NEW f \in Digests, CreateStagingFile(p, f)
        PROVE  LeftAlone(d) /\ publisher'[p].step \notin Locked
    BY <1>0, <1>1 DEF CreateStagingFile, LeftAlone, Locked
  <1>2. CASE Stage(p) \/ RejectSource(p) \/ ReuseBlob(p) \/ QuarantineCorrupt(p)
    BY <1>0, <1>2 DEF Stage, RejectSource, ReuseBlob, QuarantineCorrupt, LeftAlone, Locked, Moves,
       NoPublisher, Publisher
  <1>3. CASE PublishFails(p) \/ PutArtifactMetadata(p) \/ ForgetRecord(p)
    BY <1>0, <1>3 DEF PublishFails, PutArtifactMetadata, ForgetRecord, LeftAlone, Locked, NoPublisher
  <1>4. CASE Promote(p) \/ SetAside(p) \/ Replace(p) \/ DropSidecar(p) \/ SyncShard(p)
    <2>1. /\ \E names : shard' \in {shard, [shard EXCEPT ![e] = names]}
          /\ \E left : disk' = [disk EXCEPT ![e] = left]
          /\ rotted' = rotted /\ \E step : Moves(p, step)
      BY <1>4 DEF Promote, SetAside, Replace, DropSidecar, SyncShard, Rename, Synced
    <2>2. shard'[d] = shard[d] /\ disk'[d] = disk[d] /\ publisher'[p].digest = e
      BY <1>0, <2>1 DEF Moves, Publisher
    <2> QED BY <2>1, <2>2 DEF LeftAlone
  <1>5. CASE RefreshLease(p)
    <2>1. /\ shard' = shard /\ disk' = disk /\ (d \in rotted => d \in rotted')
      BY <1>5 DEF RefreshLease
    <2>2. publisher'[p].step = "returned"
      BY <1>0, <1>5 DEF RefreshLease, Publisher
    <2> QED BY <2>1, <2>2 DEF LeftAlone, Locked
  <1>6. CASE RollBack(p)
    <2>1. /\ \E names : shard' \in {shard, [shard EXCEPT ![e] = names]}
          /\ \E left : disk' \in {disk, [disk EXCEPT ![e] = left]}
          /\ rotted' = rotted /\ publisher' = [publisher EXCEPT ![p] = NoPublisher]
      BY <1>6 DEF RollBack, Rename
    <2>2. shard'[d] = shard[d] /\ disk'[d] = disk[d] /\ publisher'[p].step = "idle"
      BY <1>0, <2>1 DEF NoPublisher
    <2> QED BY <2>1, <2>2 DEF LeftAlone, Locked
  <1> QED BY <1>1, <1>2, <1>3, <1>4, <1>5, <1>6 DEF Publish

(* A step of one publisher is about no other.                              *)
LEMMA OtherPublishers ==
    ASSUME StoreInv, NEW p \in Publishers, Publish(p), NEW q \in Publishers, q # p
    PROVE  publisher'[q] = publisher[q]
  <1>1. \E row : publisher' = [publisher EXCEPT ![p] = row]
    <2>1. ASSUME \E d \in Digests : CreateStagingFile(p, d) PROVE \E row : publisher' = [publisher EXCEPT ![p] = row]
      BY <2>1 DEF CreateStagingFile
    <2>2. CASE \/ Stage(p) \/ ReuseBlob(p) \/ Promote(p) \/ QuarantineCorrupt(p) \/ SetAside(p)
               \/ Replace(p) \/ DropSidecar(p) \/ SyncShard(p)
      <3>1. \E step : Moves(p, step)
        BY <2>2 DEF Stage, ReuseBlob, Promote, QuarantineCorrupt, SetAside, Replace, DropSidecar,
           SyncShard
      <3> QED BY <3>1 DEF Moves
    <2>3. CASE RejectSource(p) \/ PublishFails(p) \/ RollBack(p) \/ PutArtifactMetadata(p)
                 \/ ForgetRecord(p)
      BY <2>3 DEF RejectSource, PublishFails, RollBack, PutArtifactMetadata, ForgetRecord
    <2>4. CASE RefreshLease(p)
      BY <2>4 DEF RefreshLease
    <2> QED BY <2>1, <2>2, <2>3, <2>4 DEF Publish
  <1> QED BY <1>1 DEF StoreInv, PublisherInv

(* A publisher begins to hold a lock only if nobody else does.             *)
LEMMA LocksOnlyFree ==
    ASSUME StoreInv, RepairInv, NEW p \in Publishers, Publish(p),
           publisher[p].step \notin Locked, publisher'[p].step \in Locked
    PROVE  /\ ReuseBlob(p) \/ Promote(p) \/ QuarantineCorrupt(p)
           /\ Free(publisher[p].digest) /\ publisher'[p].digest = publisher[p].digest
  <1>0. publisher \in [Publishers -> Publisher] /\ publisher[p] \in Publisher
    BY DEF StoreInv, PublisherInv
  <1>1. CASE \/ \E d \in Digests : CreateStagingFile(p, d)
             \/ Stage(p) \/ RejectSource(p) \/ PutArtifactMetadata(p) \/ ForgetRecord(p)
    <2>1. ASSUME NEW d \in Digests, CreateStagingFile(p, d) PROVE publisher'[p].step = "writing"
      BY <1>0, <2>1 DEF CreateStagingFile
    <2>2. CASE Stage(p)
      BY <1>0, <2>2 DEF Stage, Moves, Publisher, Locked
    <2>3. CASE RejectSource(p) \/ PutArtifactMetadata(p) \/ ForgetRecord(p)
      BY <1>0, <2>3 DEF RejectSource, PutArtifactMetadata, ForgetRecord, NoPublisher, Locked
    <2> QED BY <1>1, <2>1, <2>2, <2>3 DEF Locked
  <1>2. CASE \/ SetAside(p) \/ Replace(p) \/ DropSidecar(p) \/ SyncShard(p) \/ RefreshLease(p)
             \/ RollBack(p)
    BY <1>2 DEF SetAside, Replace, DropSidecar, SyncShard, RefreshLease, RollBack, Locked
  <1>3. CASE PublishFails(p)
    BY <1>0, <1>3 DEF PublishFails, NoPublisher, Locked
  <1>4. CASE ReuseBlob(p) \/ Promote(p) \/ QuarantineCorrupt(p)
    BY <1>0, <1>4 DEF ReuseBlob, Promote, QuarantineCorrupt, Moves, Publisher, Locked
  <1> QED BY <1>1, <1>2, <1>3, <1>4 DEF Publish

LEMMA OthersLeave ==
    ASSUME StoreInv, RepairInv, [Next]_vars, NEW d \in Digests,
           NEW q \in Publishers, publisher[q].digest = d, publisher[q].step \in Locked
    PROVE  \/ Publish(q)
           \/ Kill \/ PowerLoss
           \/ LeftAlone(d) /\ publisher'[q] = publisher[q]
  <1>0. shard \in [Digests -> Made] /\ disk \in [Digests -> SUBSET Made]
    BY DEF StoreInv, NamesAreMade
  <1>1. ASSUME NEW p \in Publishers, p # q, Publish(p)
        PROVE  LeftAlone(d) /\ publisher'[q] = publisher[q]
    <2>1. publisher'[q] = publisher[q]
      BY <1>1, OtherPublishers
    <2>2. CASE d # publisher[p].digest
      BY <1>1, <2>1, <2>2, PublishersLeave
    <2>3. CASE d = publisher[p].digest
      <3>1. publisher[p].step \notin Locked /\ ~ Free(d)
        BY <1>1, <2>3 DEF RepairInv, LocksExclude, Free
      <3>2. /\ UNCHANGED <<shard, disk, rotted>>
        BY <1>1, <2>3, <3>1 DEF Publish, CreateStagingFile, Stage, RejectSource, ReuseBlob, Promote,
           QuarantineCorrupt, SetAside, Replace, DropSidecar, SyncShard, RefreshLease, PublishFails,
           RollBack, PutArtifactMetadata, ForgetRecord, Locked
      <3> QED BY <2>1, <3>2 DEF LeftAlone
    <2> QED BY <2>2, <2>3
  <1>2. ASSUME NEW e \in Digests, Open(e) \/ RecoverSidecar(e) \/ CollectBlob(e)
        PROVE  LeftAlone(d) /\ publisher'[q] = publisher[q]
    <2>1. publisher' = publisher /\ rotted' = rotted
      BY <1>2 DEF Open, RecoverSidecar, CollectBlob
    <2>2. e # d
      <3>1. ~ Free(d) /\ starting = {}
        BY CountingLocks DEF Free, RepairInv
      <3> QED BY <1>2, <3>1 DEF Open, RecoverSidecar, CollectBlob
    <2>3. /\ \E names : shard' \in {shard, [shard EXCEPT ![e] = names]}
          /\ \E left : disk' \in {disk, [disk EXCEPT ![e] = left]}
      <3>1. CASE CollectBlob(e)
        BY <3>1 DEF CollectBlob, Rename
      <3>2. CASE Open(e) \/ RecoverSidecar(e)
        <4>1. Reconcile(e) \/ UNCHANGED <<shard, disk>>
          BY <3>2, Zenon DEF Open, RecoverSidecar
        <4> QED BY <4>1 DEF Reconcile, Rename
      <3> QED BY <1>2, <3>1, <3>2
    <2>4. shard'[d] = shard[d] /\ disk'[d] = disk[d]
      BY <1>0, <2>2, <2>3
    <2> QED BY <2>1, <2>4 DEF LeftAlone
  <1>3. CASE CollectUnreferenced
    <2>1. CASE Collect \/ CollectNext
                 \/ \E i \in Inodes : CollectStaging(i) \/ CollectQuarantine(i)
      BY <2>1 DEF Collect, CollectNext, CollectStaging, CollectQuarantine, LeftAlone
    <2> QED BY <1>2, <1>3, <2>1 DEF CollectUnreferenced
  <1>4. CASE (\E e \in Digests : Rot(e)) \/ Tick \/ UNCHANGED vars
    BY <1>4 DEF Rot, Tick, vars, LeftAlone
  <1> QED BY <1>1, <1>2, <1>3, <1>4 DEF Next

(* What the plan of faults leaves.                                         *)
LEMMA FaultsGo ==
    ASSUME StoreInv, [Next]_vars
    PROVE  \A kind \in FaultKinds :
               faults[kind] \in Nat /\ faults'[kind] \in Nat /\ faults'[kind] <= faults[kind]
  <1>0. faults \in [FaultKinds -> Nat] /\ faults' \in [FaultKinds -> Nat]
    BY InvStep DEF StoreInv, RestOK
  <1>1. ASSUME NEW kind, NEW n \in Nat, Spend(kind, n)
        PROVE  \A k \in FaultKinds : faults'[k] <= faults[k]
    <2>1. \A k \in FaultKinds : faults'[k] = IF k = kind THEN faults[k] - n ELSE faults[k]
      BY <1>0, <1>1 DEF Spend
    <2> QED BY <1>0, <2>1
  <1>2. ASSUME faults' = faults PROVE \A k \in FaultKinds : faults'[k] <= faults[k]
    BY <1>0, <1>2
  <1>3. ASSUME NEW p \in Publishers, Publish(p)
        PROVE  Spend("io", 1) \/ Spend("io", 2) \/ faults' = faults
    BY <1>3 DEF Publish, CreateStagingFile, Stage, RejectSource, ReuseBlob, Promote,
       QuarantineCorrupt, SetAside, Replace, DropSidecar, SyncShard, RefreshLease, PublishFails,
       RollBack, PutArtifactMetadata, ForgetRecord
  <1>4. ASSUME NEW d \in Digests, Open(d) \/ RecoverSidecar(d) \/ Rot(d)
        PROVE  Spend("io", 1) \/ Spend("rot", 1) \/ faults' = faults
    <2>1. CASE Rot(d)
      BY <2>1 DEF Rot
    <2>2. CASE Open(d) \/ RecoverSidecar(d)
      <3>1. Reconcile(d) \/ faults' = faults
        BY <2>2, Zenon DEF Open, RecoverSidecar
      <3> QED BY <3>1, Zenon DEF Reconcile
    <2> QED BY <1>4, <2>1, <2>2
  <1>5. CASE CollectUnreferenced \/ Tick \/ UNCHANGED vars
    <2>1. faults' = faults
      BY <1>5 DEF CollectUnreferenced, Collect, CollectNext, CollectStaging, CollectQuarantine,
         CollectBlob, Tick, vars
    <2> QED BY <1>0, <1>2, <2>1
  <1>6. CASE Kill \/ PowerLoss
    <2>1. Spend("kill", 1) \/ Spend("power", 1)
      BY <1>6 DEF Kill, PowerLoss
    <2> QED BY <1>0, <1>1, <2>1
  <1>7. \A k \in FaultKinds : faults'[k] <= faults[k]
    <2>1. 1 \in Nat /\ 2 \in Nat
      OBVIOUS
    <2> QED BY <1>1, <1>2, <1>3, <1>4, <1>5, <1>6, <2>1 DEF Next
  <1> QED BY <1>0, <1>7

LEMMA PlanStep ==
    ASSUME StoreInv, PlanInv, [Next]_vars
    PROVE  /\ PlanInv'
           /\ faults'["power"] # 0 => faults["power"] # 0
           /\ faults["power"] # 0 =>
                  /\ ~ Spend("io", 1) /\ ~ Spend("io", 2) /\ ~ Spend("kill", 1)
  <1>1. "power" \in FaultKinds /\ "io" \in FaultKinds /\ "kill" \in FaultKinds
    BY DEF FaultKinds
  <1>2. \A kind \in {"power", "io", "kill"} :
            faults[kind] \in Nat /\ faults'[kind] \in Nat /\ faults'[kind] <= faults[kind]
    BY <1>1, FaultsGo
  <1> QED BY <1>2 DEF PlanInv, Spend

(* A repair whose blob has its name again has a sound one, or the disk has *)
(* spoiled that as well.                                                   *)
Repaired == {"replaced", "finished", "dropped", "promoted", "leasing"}

RepairedInv ==
    \A p \in Publishers :
        publisher[p].step \in Repaired => Sound(publisher[p].digest) \/ publisher[p].digest \in rotted

LEMMA RepairedStep ==
    ASSUME StoreInv, StagedFilesStay, RepairInv, DiskInv, OwnNames, HeldFiles, RepairedInv, [Next]_vars
    PROVE  RepairedInv'
  <1> SUFFICES ASSUME NEW p \in Publishers, publisher'[p].step \in Repaired,
                      NEW d \in Digests, publisher'[p].digest = d
               PROVE  Sound(d)' \/ d \in rotted'
    <2>1. StoreInv'
      BY InvStep
    <2>2. \A p \in Publishers : publisher'[p].step \in Repaired => publisher'[p].digest \in Digests
      BY <2>1 DEF StoreInv, PublisherInv, Repaired
    <2> QED BY <2>2 DEF RepairedInv, Sound
  <1>0. /\ InodesGo /\ publisher \in [Publishers -> Publisher] /\ publisher[p] \in Publisher
        /\ shard \in [Digests -> Made] /\ Repaired \subseteq Locked
    BY InodesMove DEF StoreInv, PublisherInv, NamesAreMade, Repaired, Locked
  <1>1. ASSUME shard'[d].canonical = shard[d].canonical, d \in rotted => d \in rotted',
               Sound(d) \/ d \in rotted
        PROVE  Sound(d)' \/ d \in rotted'
    BY <1>0, <1>1, SoundStays
  <1>2. CASE Publish(p)
    <2>1. ASSUME publisher[p].step \in {"staged", "set_aside"}, publisher[p].digest = d,
                 shard' = [shard EXCEPT ![d] = [shard[d] EXCEPT !.canonical = publisher[p].file]],
                 inodes' = inodes
          PROVE  Sound(d)'
      <3>1. publisher[p].file # 0 /\ inodes[publisher[p].file].content = "sound"
        BY <2>1, FileIsThere DEF HeldFiles, Handling
      <3>2. shard'[d].canonical = publisher[p].file
        BY <1>0, <2>1 DEF Made
      <3> QED BY <2>1, <3>1, <3>2 DEF Sound
    <2>2. CASE Promote(p) \/ Replace(p)
      <3>1. publisher[p].digest = d
        BY <1>0, <2>2 DEF Promote, Replace, Moves, Publisher
      <3> QED BY <2>1, <2>2, <3>1 DEF Promote, Replace, Rename
    <2>3. CASE ReuseBlob(p)
      <3>1. publisher[p].digest = d
        BY <1>0, <2>3 DEF ReuseBlob, Moves, Publisher
      <3> QED BY <1>1, <2>3, <3>1 DEF ReuseBlob
    <2>4. CASE SyncShard(p)
      <3>1. publisher[p].digest = d /\ publisher[p].step \in Repaired
        BY <1>0, <2>4 DEF SyncShard, Moves, Publisher, Repaired
      <3> QED BY <1>1, <2>4, <3>1 DEF SyncShard, RepairedInv
    <2>5. CASE DropSidecar(p)
      <3>1. publisher[p].digest = d /\ publisher[p].step \in Repaired
        BY <1>0, <2>5 DEF DropSidecar, Moves, Publisher, Repaired
      <3>2. shard'[d].canonical = shard[d].canonical
        BY <1>0, <2>5, <3>1 DEF DropSidecar, Rename, Made
      <3> QED BY <1>1, <2>5, <3>1, <3>2 DEF DropSidecar, RepairedInv
    <2>6. CASE \/ \E e \in Digests : CreateStagingFile(p, e)
               \/ Stage(p) \/ RejectSource(p) \/ PutArtifactMetadata(p) \/ ForgetRecord(p)
      <3>1. publisher[p].step \notin Locked
        BY <2>6 DEF CreateStagingFile, Stage, RejectSource, PutArtifactMetadata, ForgetRecord, Locked
      <3>2. ReuseBlob(p) \/ Promote(p) \/ QuarantineCorrupt(p)
        BY <1>0, <1>2, <3>1, LocksOnlyFree
      <3>3. publisher[p].step = "staged"
        BY <3>1, <3>2 DEF ReuseBlob, Promote, QuarantineCorrupt, Locked
      <3>4. ~ ((\E e \in Digests : CreateStagingFile(p, e)) \/ Stage(p) \/ RejectSource(p)
               \/ PutArtifactMetadata(p) \/ ForgetRecord(p))
        BY <3>3 DEF CreateStagingFile, Stage, RejectSource, PutArtifactMetadata, ForgetRecord
      <3> QED BY <2>6, <3>4
    <2>7. CASE QuarantineCorrupt(p) \/ SetAside(p)
      <3>1. publisher'[p].step \in {"renewed", "quarantined", "aside"}
        BY <1>0, <2>7 DEF QuarantineCorrupt, SetAside, Moves, Publisher
      <3> QED BY <3>1 DEF Repaired
    <2>8. CASE RefreshLease(p) \/ PublishFails(p) \/ RollBack(p)
      <3>1. publisher'[p].step \in {"returned", "idle"}
        BY <1>0, <2>8 DEF RefreshLease, PublishFails, RollBack, NoPublisher, Publisher
      <3> QED BY <3>1 DEF Repaired
    <2> QED BY <1>2, <2>2, <2>3, <2>4, <2>5, <2>6, <2>7, <2>8 DEF Publish
  <1>3. CASE Kill \/ PowerLoss
    <2>1. publisher'[p].step = "idle"
      BY <1>3 DEF Kill, PowerLoss, Restarts, NoPublisher
    <2> QED BY <2>1 DEF Repaired
  <1>4. CASE publisher'[p] = publisher[p]
    <2>1. publisher[p].digest = d /\ publisher[p].step \in Locked /\ publisher[p].step \in Repaired
      BY <1>0, <1>4
    <2> QED BY <1>1, <1>2, <1>3, <2>1, OthersLeave DEF LeftAlone, RepairedInv
  <1>5. CASE \E q \in Publishers : q # p /\ Publish(q)
    BY <1>4, <1>5, OtherPublishers
  <1>6. ASSUME publisher' = publisher PROVE Sound(d)' \/ d \in rotted'
    BY <1>4, <1>6
  <1>7. CASE \/ CollectUnreferenced \/ Tick \/ UNCHANGED vars
             \/ \E e \in Digests : Open(e) \/ RecoverSidecar(e) \/ Rot(e)
    <2>1. publisher' = publisher
      BY <1>7 DEF CollectUnreferenced, Collect, CollectNext, CollectStaging, CollectQuarantine,
         CollectBlob, Open, RecoverSidecar, Rot, Tick, vars
    <2> QED BY <1>6, <2>1
  <1> QED BY <1>2, <1>3, <1>5, <1>7 DEF Next

(* If power may still be lost: the names of a digest are on the disk as    *)
(* they are, except while a repair moves them, or after a collection took  *)
(* the last of them.                                                       *)
Moving == {"promoted", "aside", "replaced", "dropped"}

Unsynced(d) ==
    \/ shard[d].canonical = 0 /\ Free(d)
    \/ \E p \in Publishers : publisher[p].digest = d /\ publisher[p].step \in Moving

SyncedInv ==
    faults.power # 0 => \A d \in Digests : disk[d] # {shard[d]} => Unsynced(d)

LEMMA SyncedPublish ==
    ASSUME StoreInv, RepairInv, PlanInv, SyncedInv, faults["power"] # 0, NEW p \in Publishers, Publish(p),
           [Next]_vars, NEW d \in Digests, disk'[d] # {shard'[d]}
    PROVE  Unsynced(d)'
  <1>0. /\ publisher \in [Publishers -> Publisher] /\ publisher[p] \in Publisher
        /\ shard \in [Digests -> Made] /\ disk \in [Digests -> SUBSET Made] /\ Moving \subseteq Locked
        /\ ~ Spend("io", 1) /\ ~ Spend("io", 2)
    BY PlanStep DEF StoreInv, PublisherInv, NamesAreMade, Moving, Locked
  <1>1. \A q \in Publishers \ {p} : publisher'[q] = publisher[q]
    BY OtherPublishers
  (* Nobody else's digest.                                                 *)
  <1>2. ASSUME shard'[d] = shard[d], disk'[d] = disk[d],
               publisher[p].digest = d => publisher[p].step \notin Moving,
               publisher'[p].digest = d => publisher'[p].step \notin Locked
        PROVE  Unsynced(d)'
    <2>1. Unsynced(d)
      BY <1>2 DEF SyncedInv
    <2>2. CASE \E q \in Publishers : publisher[q].digest = d /\ publisher[q].step \in Moving
      <3>1. PICK q \in Publishers : publisher[q].digest = d /\ publisher[q].step \in Moving
        BY <2>2
      <3>2. publisher'[q] = publisher[q]
        BY <1>1, <1>2, <3>1
      <3> QED BY <3>1, <3>2 DEF Unsynced
    <2>3. CASE shard[d].canonical = 0 /\ Free(d)
      <3>1. \A q \in Publishers : publisher'[q].digest = d => publisher'[q].step \notin Locked
        BY <1>1, <1>2, <2>3 DEF Free
      <3> QED BY <1>2, <2>3, <3>1 DEF Unsynced, Free
    <2> QED BY <2>1, <2>2, <2>3 DEF Unsynced
  <1>3. CASE publisher[p].digest # d
    BY <1>2, <1>3, PublishersLeave DEF LeftAlone
  <1>4. ASSUME NEW step \in Moving, publisher[p].digest = d, Moves(p, step) PROVE Unsynced(d)'
    <2>1. publisher'[p].digest = d /\ publisher'[p].step \in Moving
      BY <1>0, <1>4 DEF Moves, Publisher
    <2> QED BY <2>1 DEF Unsynced
  <1>5. CASE publisher[p].digest = d
    <2>1. CASE Promote(p) \/ SetAside(p) \/ Replace(p) \/ DropSidecar(p)
      BY <1>4, <1>5, <2>1 DEF Promote, SetAside, Replace, DropSidecar, Moving
    <2>2. CASE SyncShard(p)
      <3>1. disk'[d] = {shard[d]} /\ shard' = shard
        BY <1>0, <1>5, <2>2 DEF SyncShard, Synced
      <3> QED BY <3>1
    <2>3. CASE PublishFails(p) \/ RollBack(p)
      BY <1>0, <2>3 DEF PublishFails, RollBack
    <2>4. CASE ReuseBlob(p) \/ QuarantineCorrupt(p) \/ RefreshLease(p)
      <3>1. shard' = shard /\ disk' = disk
        BY <2>4 DEF ReuseBlob, QuarantineCorrupt, RefreshLease
      <3>2. \/ shard[d].canonical # 0 /\ Free(d)
            \/ publisher[p].step \in {"leasing", "renewed"}
        BY <1>5, <2>4 DEF ReuseBlob, QuarantineCorrupt, RefreshLease, Sound
      <3>3. ~ Unsynced(d)
        <4>1. CASE shard[d].canonical # 0 /\ Free(d)
          BY <1>0, <4>1 DEF Unsynced, Free
        <4>2. CASE publisher[p].step \in {"leasing", "renewed"}
          <5>1. ~ Free(d)
            BY <1>5, <4>2 DEF Free, Locked
          <5>2. \A q \in Publishers : publisher[q].digest = d => publisher[q].step \notin Moving
            BY <1>0, <1>5, <4>2 DEF RepairInv, LocksExclude, Moving, Locked
          <5> QED BY <5>1, <5>2 DEF Unsynced
        <4> QED BY <3>2, <4>1, <4>2
      <3> QED BY <3>1, <3>3 DEF SyncedInv
    <2>5. CASE \/ \E e \in Digests : CreateStagingFile(p, e)
               \/ Stage(p) \/ RejectSource(p) \/ PutArtifactMetadata(p) \/ ForgetRecord(p)
      <3>1. shard' = shard /\ disk' = disk
        BY <2>5 DEF CreateStagingFile, Stage, RejectSource, PutArtifactMetadata, ForgetRecord
      <3>2. publisher[p].step \in {"idle", "writing", "returned"}
        BY <2>5 DEF CreateStagingFile, Stage, RejectSource, PutArtifactMetadata, ForgetRecord
      <3>3. publisher[p].step \notin Locked /\ publisher[p].step # "staged"
        BY <3>2 DEF Locked
      <3>4. publisher'[p].step \notin Locked
        BY <3>3, LocksOnlyFree DEF ReuseBlob, Promote, QuarantineCorrupt, Locked
      <3> QED BY <1>0, <1>2, <3>1, <3>3, <3>4
    <2> QED BY <2>1, <2>2, <2>3, <2>4, <2>5 DEF Publish
  <1> QED BY <1>3, <1>5

LEMMA SyncedStep ==
    ASSUME StoreInv, RepairInv, PlanInv, SyncedInv, [Next]_vars
    PROVE  SyncedInv'
  <1> SUFFICES ASSUME faults["power"] # 0, NEW d \in Digests, disk'[d] # {shard'[d]}
               PROVE  Unsynced(d)'
    BY PlanStep DEF SyncedInv
  <1>0. /\ shard \in [Digests -> Made] /\ disk \in [Digests -> SUBSET Made]
        /\ ~ Spend("io", 1) /\ ~ Spend("kill", 1)
    BY PlanStep DEF StoreInv, NamesAreMade
  <1>1. ASSUME publisher' = publisher, shard'[d] = shard[d], disk'[d] = disk[d]
        PROVE  Unsynced(d)'
    <2>1. Unsynced(d)
      BY <1>1 DEF SyncedInv
    <2> QED BY <1>1, <2>1 DEF Unsynced, Free
  <1>2. ASSUME NEW e \in Digests, Open(e) \/ RecoverSidecar(e) PROVE Unsynced(d)'
    <2>1. publisher' = publisher
      BY <1>2 DEF Open, RecoverSidecar
    <2>2. Reconcile(e) \/ UNCHANGED <<shard, disk>>
      BY <1>2, Zenon DEF Open, RecoverSidecar
    <2>3. CASE Reconcile(e)
      <3>1. /\ shard' = [shard EXCEPT ![e] = Reconciled(shard[e])]
            /\ disk'  = [disk EXCEPT ![e] = {Reconciled(shard[e])}]
        BY <1>0, <2>3 DEF Reconcile
      <3>2. d # e
        BY <1>0, <3>1
      <3> QED BY <1>0, <1>1, <2>1, <3>1, <3>2
    <2> QED BY <1>1, <2>1, <2>2, <2>3
  <1>3. ASSUME NEW e \in Digests, CollectBlob(e) PROVE Unsynced(d)'
    <2>1. /\ publisher' = publisher /\ Free(e)
          /\ \/ Rename(e, [shard[e] EXCEPT !.canonical = 0])
             \/ UNCHANGED <<shard, disk>>
      BY <1>3 DEF CollectBlob
    <2>2. CASE Rename(e, [shard[e] EXCEPT !.canonical = 0])
      <3>1. CASE e = d
        <4>1. shard'[d].canonical = 0
          BY <1>0, <2>2, <3>1 DEF Rename, Made
        <4> QED BY <2>1, <3>1, <4>1 DEF Unsynced, Free
      <3>2. CASE e # d
        BY <1>0, <1>1, <2>1, <2>2, <3>2 DEF Rename
      <3> QED BY <3>1, <3>2
    <2> QED BY <1>1, <2>1, <2>2
  <1>4. CASE CollectUnreferenced
    <2>1. CASE Collect \/ CollectNext
                 \/ \E i \in Inodes : CollectStaging(i) \/ CollectQuarantine(i)
      BY <1>1, <2>1 DEF Collect, CollectNext, CollectStaging, CollectQuarantine
    <2> QED BY <1>3, <1>4, <2>1 DEF CollectUnreferenced
  <1>5. CASE (\E e \in Digests : Rot(e)) \/ Tick \/ UNCHANGED vars
    BY <1>1, <1>5 DEF Rot, Tick, vars
  <1>6. CASE Kill
    BY <1>0, <1>6 DEF Kill
  <1>7. CASE PowerLoss
    <2>1. disk'[d] = {shard'[d]}
      BY <1>7 DEF PowerLoss
    <2> QED BY <2>1
  <1> QED BY <1>2, <1>4, <1>5, <1>6, <1>7, SyncedPublish DEF Next

(* The collection knows the rows that there were when it began; it was not *)
(* later than now, nor does a lease last longer than a grace period.       *)
ClocksInv ==
    /\ collector.now <= clock
    /\ collector.step = "blobs" => collector.todo \cap collector.referenced = {}
    /\ \A p \in Publishers : publisher[p].until <= clock + Grace

LEMMA ClocksStep ==
    ASSUME StoreInv, ClocksInv, [Next]_vars
    PROVE  ClocksInv'
  <1>0. /\ clock \in Nat /\ Grace \in Nat /\ MaxClock \in Nat /\ collector \in Collector
        /\ publisher \in [Publishers -> Publisher] /\ collector.now \in Nat
        /\ \A p \in Publishers : publisher[p] \in Publisher /\ publisher[p].until \in Nat
        /\ NoPublisher.until = 0 /\ NoCollector.now = 0 /\ NoCollector.step = "idle"
    BY ArtifactAssumption DEF StoreInv, RestOK, PublisherInv, Collector, Publisher, NoPublisher,
       NoCollector
  <1>1. ASSUME clock' = clock, collector' = collector,
               \A p \in Publishers :
                   \/ publisher'[p].until = publisher[p].until
                   \/ publisher'[p].until \in {0, clock + Grace}
        PROVE  ClocksInv'
    BY <1>0, <1>1 DEF ClocksInv
  <1>2. ASSUME NEW p \in Publishers, Publish(p) PROVE ClocksInv'
    <2>1. clock' = clock /\ collector' = collector
      BY <1>2 DEF Publish, CreateStagingFile, Stage, RejectSource, ReuseBlob, Promote,
         QuarantineCorrupt, SetAside, Replace, DropSidecar, SyncShard, RefreshLease, PublishFails,
         RollBack, PutArtifactMetadata, ForgetRecord
    <2>2. \/ publisher'[p].until = publisher[p].until
          \/ publisher'[p].until \in {0, clock + Grace}
      <3>1. ASSUME NEW d \in Digests, CreateStagingFile(p, d) PROVE publisher'[p].until = 0
        BY <1>0, <3>1 DEF CreateStagingFile
      <3>2. ASSUME NEW step, Moves(p, step) PROVE publisher'[p].until = publisher[p].until
        BY <1>0, <3>2 DEF Moves, Publisher
      <3>3. CASE \/ Stage(p) \/ ReuseBlob(p) \/ Promote(p) \/ QuarantineCorrupt(p) \/ SetAside(p)
                 \/ Replace(p) \/ DropSidecar(p) \/ SyncShard(p)
        <4>1. \E step : Moves(p, step)
          BY <3>3 DEF Stage, ReuseBlob, Promote, QuarantineCorrupt, SetAside, Replace, DropSidecar,
             SyncShard
        <4> QED BY <3>2, <4>1
      <3>4. CASE RejectSource(p) \/ PublishFails(p) \/ RollBack(p) \/ PutArtifactMetadata(p)
                   \/ ForgetRecord(p)
        BY <1>0, <3>4 DEF RejectSource, PublishFails, RollBack, PutArtifactMetadata, ForgetRecord
      <3>5. CASE RefreshLease(p)
        BY <1>0, <3>5 DEF RefreshLease, Publisher
      <3> QED BY <1>2, <3>1, <3>3, <3>4, <3>5 DEF Publish
    <2> QED BY <1>1, <1>2, <2>1, <2>2, OtherPublishers
  <1>3. ASSUME clock' = clock, publisher' = publisher,
               collector'.now \in {0, clock, collector.now},
               collector'.step = "blobs" => collector'.todo \cap collector'.referenced = {}
        PROVE  ClocksInv'
    BY <1>0, <1>3 DEF ClocksInv
  <1>4. CASE CollectUnreferenced
    <2>1. CASE Collect
      BY <1>3, <2>1 DEF Collect
    <2>2. CASE CollectNext
      <3>1. \/ collector' = NoCollector
            \/ collector' = [collector EXCEPT !.step = "quarantine", !.todo = quarantine]
            \/ collector' = [collector EXCEPT !.step = "blobs", !.todo = Digests \ collector.referenced]
        BY <2>2 DEF CollectNext
      <3>2. /\ collector'.now \in {0, collector.now}
            /\ collector'.step = "blobs" => collector'.todo \cap collector'.referenced = {}
        BY <1>0, <3>1 DEF Collector
      <3> QED BY <1>3, <2>2, <3>2 DEF CollectNext
    <2>3. ASSUME NEW i, collector' = [collector EXCEPT !.todo = @ \ {i}] \/ collector' = NoCollector
          PROVE  /\ collector'.now \in {0, collector.now}
                 /\ collector'.step = "blobs" => collector'.todo \cap collector'.referenced = {}
      BY <1>0, <2>3 DEF Collector, ClocksInv
    <2>4. ASSUME NEW i \in Inodes, CollectStaging(i) \/ CollectQuarantine(i) PROVE ClocksInv'
      <3>1. /\ collector' = [collector EXCEPT !.todo = @ \ {i}] \/ collector' = NoCollector
            /\ clock' = clock /\ publisher' = publisher
        BY <2>4 DEF CollectStaging, CollectQuarantine
      <3> QED BY <1>3, <2>3, <3>1
    <2>5. ASSUME NEW d \in Digests, CollectBlob(d) PROVE ClocksInv'
      BY <1>3, <2>3, <2>5 DEF CollectBlob
    <2> QED BY <1>4, <2>1, <2>2, <2>4, <2>5 DEF CollectUnreferenced
  <1>5. CASE \E d \in Digests : Open(d) \/ RecoverSidecar(d) \/ Rot(d)
    BY <1>1, <1>5 DEF Open, RecoverSidecar, Rot
  <1>6. CASE Tick
    <2>1. clock' = clock + 1 /\ publisher' = publisher /\ collector' = collector
      BY <1>6 DEF Tick
    <2> QED BY <1>0, <2>1 DEF ClocksInv
  <1>7. CASE Kill \/ PowerLoss
    <2>1. /\ clock' = clock /\ collector' = NoCollector
          /\ \A p \in Publishers : publisher'[p] = NoPublisher
      BY <1>7 DEF Kill, PowerLoss, Restarts
    <2> QED BY <1>0, <2>1 DEF ClocksInv
  <1>8. CASE UNCHANGED vars
    BY <1>1, <1>8 DEF vars
  <1> QED BY <1>2, <1>4, <1>5, <1>6, <1>7, <1>8 DEF Next

(* A blob is kept while it is sound and no repair of it is under way.      *)
Changing == Locked \ {"leasing"}

Modified(d) == inodes[shard[d].canonical].mtime

Kept(d) ==
    /\ Sound(d)
    /\ \A p \in Publishers : publisher[p].digest = d => publisher[p].step \notin Changing

(* The collection that runs will not find it old.                          *)
Young(d) == collector.now < Modified(d) + Grace

Leased(p) == publisher[p].step = "returned" /\ clock < publisher[p].until

(* Unless the disk has spoiled it, the blob of a row is kept, and so young *)
(* that a collection that does not know the row leaves it; the blob that a *)
(* publisher has a lease of is kept, and young until the lease ends.       *)
KeptInv ==
    \A d \in Digests \ rotted :
        /\ d \in rows => Kept(d) /\ (collector.step = "idle" \/ d \in collector.referenced \/ Young(d))
        /\ \A p \in Publishers :
               Leased(p) /\ publisher[p].digest = d
               => Kept(d) /\ publisher[p].until <= Modified(d) + Grace

LEMMA SoundTypes ==
    ASSUME StoreInv, DiskInv, NEW d \in Digests, Sound(d)
    PROVE  /\ shard[d].canonical \in Inodes /\ inodes[shard[d].canonical] \in Inode
           /\ Modified(d) \in Nat /\ Grace \in Nat /\ Grace > 0 /\ clock \in Nat
           /\ collector.now \in Nat
           /\ \A p \in Publishers : publisher[p].until \in Nat
  <1>1. shard[d].canonical \in Inodes
    BY SlotsOfShard DEF Sound
  <1>2. inodes[shard[d].canonical] \in Inode
    BY <1>1 DEF StoreInv, RestOK
  <1>3. MaxClock \in Nat /\ Grace \in Nat /\ Grace > 0
    BY ArtifactAssumption
  <1>4. Modified(d) \in Nat
    BY <1>2, <1>3 DEF Modified, Inode
  <1>5. clock \in Nat /\ collector.now \in Nat
    BY <1>3 DEF StoreInv, RestOK, Collector
  <1>6. \A p \in Publishers : publisher[p].until \in Nat
    BY <1>3 DEF StoreInv, PublisherInv, Publisher
  <1> QED BY <1>1, <1>2, <1>3, <1>4, <1>5, <1>6

(* Nobody begins to repair a sound blob.                                   *)
LEMMA RepairsBegin ==
    ASSUME StoreInv, RepairInv, [Next]_vars, NEW d \in Digests, Kept(d),
           NEW p \in Publishers, publisher'[p].digest = d
    PROVE  publisher'[p].step \notin Changing
  <1>0. publisher \in [Publishers -> Publisher] /\ publisher[p] \in Publisher
    BY DEF StoreInv, PublisherInv
  <1>1. CASE publisher'[p] = publisher[p]
    BY <1>1 DEF Kept
  <1>2. CASE Publish(p)
    <2>1. SUFFICES ASSUME publisher'[p].step \in Changing PROVE FALSE
      OBVIOUS
    <2>2. publisher'[p].step \in Locked /\ publisher'[p].step # "leasing"
      BY <2>1 DEF Changing
    <2>3. CASE publisher[p].step \notin Locked
      <3>1. /\ ReuseBlob(p) \/ Promote(p) \/ QuarantineCorrupt(p)
            /\ publisher[p].digest = d
        BY <1>2, <2>2, <2>3, LocksOnlyFree
      <3>2. ReuseBlob(p)
        BY <2>3, <3>1 DEF Promote, QuarantineCorrupt, Kept, Sound, Locked
      <3>3. publisher'[p].step = "leasing"
        BY <1>0, <3>2 DEF ReuseBlob, Moves, Publisher
      <3> QED BY <2>2, <3>3
    <2>4. CASE publisher[p].step \in Locked
      <3>1. CASE RefreshLease(p) \/ PublishFails(p) \/ RollBack(p)
        <4>1. publisher'[p].step \in {"returned", "idle"}
          BY <1>0, <3>1 DEF RefreshLease, PublishFails, RollBack, NoPublisher, Publisher
        <4> QED BY <2>2, <4>1 DEF Locked
      <3>2. CASE QuarantineCorrupt(p) \/ SetAside(p) \/ Replace(p) \/ DropSidecar(p)
                 \/ SyncShard(p)
        <4>1. /\ \E step : Moves(p, step)
              /\ publisher[p].step \in Changing
          BY <2>4, <3>2 DEF QuarantineCorrupt, SetAside, Replace, DropSidecar, SyncShard,
                 Changing, Locked
        <4>2. publisher[p].digest = d
          BY <1>0, <4>1 DEF Moves, Publisher
        <4> QED BY <4>1, <4>2 DEF Kept
      <3>3. CASE \/ \E e \in Digests : CreateStagingFile(p, e)
                 \/ Stage(p) \/ RejectSource(p) \/ ReuseBlob(p) \/ Promote(p)
                 \/ PutArtifactMetadata(p) \/ ForgetRecord(p)
        BY <2>4, <3>3 DEF CreateStagingFile, Stage, RejectSource, ReuseBlob, Promote,
           PutArtifactMetadata, ForgetRecord, Locked
      <3> QED BY <1>2, <3>1, <3>2, <3>3 DEF Publish
    <2> QED BY <2>3, <2>4
  <1>3. CASE \E q \in Publishers : q # p /\ Publish(q)
    BY <1>1, <1>3, OtherPublishers
  <1>4. CASE Kill \/ PowerLoss
    <2>1. publisher'[p].step = "idle"
      BY <1>4 DEF Kill, PowerLoss, Restarts, NoPublisher
    <2> QED BY <2>1 DEF Changing, Locked
  <1>5. CASE \/ CollectUnreferenced \/ Tick \/ UNCHANGED vars
             \/ \E e \in Digests : Open(e) \/ RecoverSidecar(e) \/ Rot(e)
    <2>1. publisher' = publisher
      BY <1>5 DEF CollectUnreferenced, Collect, CollectNext, CollectStaging, CollectQuarantine,
         CollectBlob, Open, RecoverSidecar, Rot, Tick, vars
    <2> QED BY <1>1, <2>1
  <1> QED BY <1>2, <1>3, <1>4, <1>5 DEF Next

(* A blob that is kept, and not found old by the collection whose turn it  *)
(* is, is kept or spoils: no step takes its name.                          *)
LEMMA KeptGoes ==
    ASSUME StoreInv, StagedFilesStay, RepairInv, DiskInv, OwnNames, PlanInv, SyncedInv, [Next]_vars,
           NEW d \in Digests, Kept(d),
           collector.step = "blobs" /\ d \in collector.todo => Young(d)
    PROVE  d \in rotted' \/ (Kept(d)' /\ Modified(d)' \in {Modified(d), clock})
  <1>0. /\ shard \in [Digests -> Made] /\ shard[d] \in Made /\ Sound(d) /\ shard[d].canonical # 0
        /\ \A p \in Publishers : publisher[p].digest = d => publisher[p].step \notin Changing
    BY DEF StoreInv, NamesAreMade, Kept, Sound
  <1>1. shard'[d].canonical = shard[d].canonical
    <2>1. ASSUME NEW p \in Publishers, Publish(p) PROVE shard'[d].canonical = shard[d].canonical
      <3>1. CASE publisher[p].digest # d
        BY <2>1, <3>1, PublishersLeave DEF LeftAlone
      <3>2. CASE publisher[p].digest = d
        <4>1. ~ (Promote(p) \/ SetAside(p) \/ Replace(p) \/ DropSidecar(p) \/ RollBack(p))
          BY <1>0, <3>2 DEF Promote, SetAside, Replace, DropSidecar, RollBack, Changing, Locked
        <4>2. shard' = shard
          BY <2>1, <4>1 DEF Publish, CreateStagingFile, Stage, RejectSource, ReuseBlob,
             QuarantineCorrupt, SyncShard, RefreshLease, PublishFails, PutArtifactMetadata, ForgetRecord
        <4> QED BY <4>2
      <3> QED BY <3>1, <3>2
    <2>2. ASSUME NEW e \in Digests, Open(e) \/ RecoverSidecar(e)
          PROVE  shard'[d].canonical = shard[d].canonical
      <3>1. Reconcile(e) \/ shard' = shard
        BY <2>2, Zenon DEF Open, RecoverSidecar
      <3>2. CASE Reconcile(e)
        <4>1. shard' = [shard EXCEPT ![e] = Reconciled(shard[e])]
          BY <1>0, <3>2 DEF Reconcile, Rename
        <4>2. CASE e = d
          <5>1. shard'[d] = [shard[d] EXCEPT !.sidecar = 0]
            BY <1>0, <4>1, <4>2 DEF Reconciled
          <5> QED BY <1>0, <5>1 DEF Made
        <4>3. CASE e # d
          BY <1>0, <4>1, <4>3
        <4> QED BY <4>2, <4>3
      <3> QED BY <3>1, <3>2
    <2>3. ASSUME NEW e \in Digests, CollectBlob(e) PROVE shard'[d].canonical = shard[d].canonical
      <3>1. CASE e = d
        <4>1. collector.step = "blobs" /\ d \in collector.todo
          BY <2>3, <3>1 DEF CollectBlob
        <4>2. ~ Old(shard[d].canonical, collector.now)
          BY <1>0, <4>1, SoundTypes DEF Old, Young, Modified
        <4> QED BY <2>3, <3>1, <4>2 DEF CollectBlob
      <3>2. CASE e # d
        BY <1>0, <2>3, <3>2 DEF CollectBlob, Rename
      <3> QED BY <3>1, <3>2
    <2>4. CASE CollectUnreferenced
      <3>1. CASE Collect \/ CollectNext
                   \/ \E i \in Inodes : CollectStaging(i) \/ CollectQuarantine(i)
        BY <3>1 DEF Collect, CollectNext, CollectStaging, CollectQuarantine
      <3> QED BY <2>3, <2>4, <3>1 DEF CollectUnreferenced
    <2>5. CASE PowerLoss
      <3>1. faults["power"] # 0
        BY <2>5 DEF PowerLoss, Spend
      <3>2. ~ Unsynced(d)
        BY <1>0 DEF Unsynced, Moving, Changing, Locked
      <3>3. disk[d] = {shard[d]}
        BY <3>1, <3>2 DEF SyncedInv
      <3>4. shard'[d] \in disk[d]
        BY <2>5 DEF PowerLoss
      <3> QED BY <3>3, <3>4
    <2>6. CASE (\E e \in Digests : Rot(e)) \/ Tick \/ Kill \/ UNCHANGED vars
      BY <2>6 DEF Rot, Tick, Kill, vars
    <2> QED BY <2>1, <2>2, <2>4, <2>5, <2>6 DEF Next
  <1>2. InodesGo
    BY InodesMove
  <1>3. /\ Sound(d)' \/ d \in rotted'
        /\ Modified(d)' \in {Modified(d), clock}
    BY <1>0, <1>1, <1>2, SoundStays DEF Modified
  <1>4. \A p \in Publishers : publisher'[p].digest = d => publisher'[p].step \notin Changing
    BY RepairsBegin
  <1> QED BY <1>3, <1>4 DEF Kept

(* What a step does to leases, to rows, to spoiled blobs and to the        *)
(* collection.                                                             *)
LEMMA LeasesGo ==
    ASSUME StoreInv, [Next]_vars, NEW p \in Publishers, publisher'[p].step = "returned"
    PROVE  RefreshLease(p) \/ publisher'[p] = publisher[p]
  <1>0. publisher \in [Publishers -> Publisher] /\ publisher[p] \in Publisher
    BY DEF StoreInv, PublisherInv
  <1>1. CASE Publish(p)
    <2>1. ASSUME NEW e \in Digests, CreateStagingFile(p, e) PROVE publisher'[p].step = "writing"
      BY <1>0, <2>1 DEF CreateStagingFile
    <2>2. ASSUME NEW step \in Steps \ {"returned"}, Moves(p, step)
          PROVE  publisher'[p].step # "returned"
      BY <1>0, <2>2 DEF Moves, Publisher
    <2>3. CASE \/ Stage(p) \/ ReuseBlob(p) \/ Promote(p) \/ QuarantineCorrupt(p) \/ SetAside(p)
               \/ Replace(p) \/ DropSidecar(p) \/ SyncShard(p)
      <3>1. \E step \in Steps \ {"returned"} : Moves(p, step)
        BY <2>3 DEF Stage, ReuseBlob, Promote, QuarantineCorrupt, SetAside, Replace, DropSidecar,
           SyncShard, Steps, Locked
      <3> QED BY <2>2, <3>1
    <2>4. CASE \/ RejectSource(p) \/ PublishFails(p) \/ RollBack(p) \/ PutArtifactMetadata(p)
               \/ ForgetRecord(p)
      <3>1. publisher'[p].step = "idle"
        BY <1>0, <2>4 DEF RejectSource, PublishFails, RollBack, PutArtifactMetadata, ForgetRecord,
           NoPublisher
      <3> QED BY <3>1
    <2> QED BY <1>1, <2>1, <2>3, <2>4 DEF Publish
  <1>2. CASE \E q \in Publishers : q # p /\ Publish(q)
    BY <1>2, OtherPublishers
  <1>3. CASE Kill \/ PowerLoss
    BY <1>3 DEF Kill, PowerLoss, Restarts, NoPublisher
  <1>4. CASE \/ CollectUnreferenced \/ Tick \/ UNCHANGED vars
             \/ \E e \in Digests : Open(e) \/ RecoverSidecar(e) \/ Rot(e)
    BY <1>4 DEF CollectUnreferenced, Collect, CollectNext, CollectStaging, CollectQuarantine,
       CollectBlob, Open, RecoverSidecar, Rot, Tick, vars
  <1> QED BY <1>1, <1>2, <1>3, <1>4 DEF Next

LEMMA RowsGo ==
    ASSUME [Next]_vars, NEW d \in Digests, d \in rows', d \notin rows
    PROVE  \E p \in Publishers : PutArtifactMetadata(p) /\ publisher[p].digest = d
  <1>1. ASSUME rows' = rows PROVE FALSE
    BY <1>1
  <1>2. ASSUME NEW p \in Publishers, Publish(p)
        PROVE  PutArtifactMetadata(p) /\ publisher[p].digest = d
    <2>1. PutArtifactMetadata(p) \/ rows' = rows
      BY <1>2 DEF Publish, CreateStagingFile, Stage, RejectSource, ReuseBlob, Promote,
         QuarantineCorrupt, SetAside, Replace, DropSidecar, SyncShard, RefreshLease, PublishFails,
         RollBack, ForgetRecord
    <2> QED BY <1>1, <2>1 DEF PutArtifactMetadata
  <1>3. CASE \/ CollectUnreferenced \/ Tick \/ Kill \/ PowerLoss \/ UNCHANGED vars
             \/ \E e \in Digests : Open(e) \/ RecoverSidecar(e) \/ Rot(e)
    <2>1. rows' = rows
      BY <1>3 DEF CollectUnreferenced, Collect, CollectNext, CollectStaging, CollectQuarantine,
         CollectBlob, Open, RecoverSidecar, Rot, Tick, Kill, PowerLoss, vars
    <2> QED BY <1>1, <2>1
  <1> QED BY <1>2, <1>3 DEF Next

LEMMA RottedGoes ==
    ASSUME [Next]_vars, NEW d \in Digests, d \in rotted, d \notin rotted'
    PROVE  \E p \in Publishers : RefreshLease(p) /\ publisher[p].digest = d /\ Sound(d)
  <1>1. ASSUME rotted \subseteq rotted' PROVE FALSE
    BY <1>1
  <1>2. ASSUME NEW p \in Publishers, Publish(p)
        PROVE  RefreshLease(p) /\ publisher[p].digest = d /\ Sound(d)
    <2>1. RefreshLease(p) \/ rotted' = rotted
      BY <1>2 DEF Publish, CreateStagingFile, Stage, RejectSource, ReuseBlob, Promote,
         QuarantineCorrupt, SetAside, Replace, DropSidecar, SyncShard, PutArtifactMetadata,
         PublishFails, RollBack, ForgetRecord
    <2> QED BY <1>1, <2>1 DEF RefreshLease
  <1>3. CASE \/ CollectUnreferenced \/ Tick \/ Kill \/ PowerLoss \/ UNCHANGED vars
             \/ \E e \in Digests : Open(e) \/ RecoverSidecar(e) \/ Rot(e)
    <2>1. rotted \subseteq rotted'
      BY <1>3 DEF CollectUnreferenced, Collect, CollectNext, CollectStaging, CollectQuarantine,
         CollectBlob, Open, RecoverSidecar, Rot, Tick, Kill, PowerLoss, vars
    <2> QED BY <1>1, <2>1
  <1> QED BY <1>2, <1>3 DEF Next

LEMMA CollectionGoes ==
    ASSUME StoreInv, [Next]_vars
    PROVE  \/ collector'.step = "idle"
           \/ collector'.referenced = rows
           \/ /\ collector.step # "idle"
              /\ collector'.referenced = collector.referenced /\ collector'.now = collector.now
  <1>0. collector \in Collector
    BY DEF StoreInv, RestOK
  <1>1. CASE collector' = collector
    BY <1>1
  <1>2. CASE CollectUnreferenced
    <2>1. CASE Collect
      BY <2>1 DEF Collect
    <2>2. CASE CollectNext
      <3>1. /\ collector.step # "idle"
            /\ \/ collector' = NoCollector
               \/ collector' = [collector EXCEPT !.step = "quarantine", !.todo = quarantine]
               \/ collector' = [collector EXCEPT !.step = "blobs", !.todo = Digests \ collector.referenced]
        BY <2>2 DEF CollectNext
      <3>2. CASE collector' = NoCollector
        BY <3>2 DEF NoCollector
      <3>3. ASSUME NEW step, NEW todo,
                   collector' = [collector EXCEPT !.step = step, !.todo = todo]
            PROVE  collector'.referenced = collector.referenced /\ collector'.now = collector.now
        BY <1>0, <3>3 DEF Collector
      <3> QED BY <3>1, <3>2, <3>3
    <2>3. CASE \/ \E i \in Inodes : CollectStaging(i) \/ CollectQuarantine(i)
               \/ \E d \in Digests : CollectBlob(d)
      <3>1. /\ collector.step # "idle"
            /\ \E i : collector' = [collector EXCEPT !.todo = @ \ {i}] \/ collector' = NoCollector
        BY <2>3 DEF CollectStaging, CollectQuarantine, CollectBlob
      <3> QED BY <1>0, <3>1 DEF Collector, NoCollector
    <2> QED BY <1>2, <2>1, <2>2, <2>3 DEF CollectUnreferenced
  <1>3. CASE Kill \/ PowerLoss
    BY <1>3 DEF Kill, PowerLoss, Restarts, NoCollector
  <1>4. CASE \/ Tick \/ UNCHANGED vars
             \/ \E e \in Digests : Open(e) \/ RecoverSidecar(e) \/ Rot(e)
             \/ \E p \in Publishers : Publish(p)
    <2>1. collector' = collector
      BY <1>4 DEF Tick, vars, Open, RecoverSidecar, Rot, Publish, CreateStagingFile, Stage,
         RejectSource, ReuseBlob, Promote, QuarantineCorrupt, SetAside, Replace, DropSidecar,
         SyncShard, RefreshLease, PutArtifactMetadata, PublishFails, RollBack, ForgetRecord
    <2> QED BY <1>1, <2>1
  <1> QED BY <1>2, <1>3, <1>4 DEF Next

(* When publish returns, the blob is kept and as young as can be.          *)
LEMMA Refreshed ==
    ASSUME StoreInv, RepairInv, DiskInv, OwnNames, ClocksInv, NEW p \in Publishers, RefreshLease(p),
           NEW d \in Digests, publisher[p].digest = d, Sound(d)
    PROVE  Kept(d)' /\ Modified(d)' = clock /\ Young(d)'
  <1>0. /\ publisher \in [Publishers -> Publisher] /\ publisher[p] \in Publisher
        /\ inodes \in [Inodes -> Inode]
    BY DEF StoreInv, PublisherInv, RestOK
  <1> DEFINE i == shard[d].canonical
  <1>1. /\ inodes' = [inodes EXCEPT ![i].mtime = clock] /\ shard' = shard
        /\ collector' = collector /\ clock' = clock /\ publisher'[p].step = "returned"
    BY <1>0 DEF RefreshLease, Publisher
  <1>2. i \in Inodes /\ inodes[i] \in Inode /\ i # 0 /\ inodes[i].content = "sound"
    BY SoundTypes DEF Sound
  <1>3. inodes'[i].content = "sound" /\ inodes'[i].mtime = clock
    BY <1>0, <1>1, <1>2 DEF Inode
  <1>4. ASSUME NEW q \in Publishers, publisher'[q].digest = d PROVE publisher'[q].step \notin Changing
    <2>1. CASE q = p
      BY <1>1, <2>1 DEF Changing, Locked
    <2>2. CASE q # p
      <3>1. publisher'[q] = publisher[q]
        BY <2>2, OtherPublishers DEF Publish
      <3>2. publisher[p].step \in Locked
        BY DEF RefreshLease, Locked
      <3> QED BY <1>4, <2>2, <3>1, <3>2 DEF RepairInv, LocksExclude, Changing
    <2> QED BY <2>1, <2>2
  <1>5. collector'.now < clock + Grace
    BY <1>1, SoundTypes DEF ClocksInv
  <1> QED BY <1>1, <1>2, <1>3, <1>4, <1>5 DEF Kept, Sound, Modified, Young

BlobsInv ==
    /\ StoreInv /\ StagedFilesStay /\ RepairInv /\ DiskInv
    /\ OwnNames /\ HeldFiles /\ PlanInv /\ RepairedInv /\ SyncedInv /\ ClocksInv

LEMMA KeptStep ==
    ASSUME BlobsInv, KeptInv, [Next]_vars
    PROVE  KeptInv'
  <1> USE DEF BlobsInv
  <1> SUFFICES ASSUME NEW d \in Digests, d \notin rotted'
               PROVE  /\ d \in rows' => /\ Kept(d)'
                                        /\ \/ collector'.step = "idle"
                                           \/ d \in collector'.referenced
                                           \/ Young(d)'
                      /\ \A p \in Publishers :
                             Leased(p)' /\ publisher'[p].digest = d
                             => Kept(d)' /\ publisher'[p].until <= Modified(d)' + Grace
    BY DEF KeptInv, Kept, Young, Modified, Sound, Leased
  <1>0. /\ ClocksInv' /\ clock \in Nat /\ clock' \in Nat /\ clock <= clock'
        /\ \A p \in Publishers : publisher'[p].until \in Nat
    <2>1. StoreInv' /\ MaxClock \in Nat /\ Grace \in Nat
      BY InvStep, ArtifactAssumption
    <2>2. clock \in Nat /\ clock' \in Nat
      BY <2>1 DEF StoreInv, RestOK
    <2>3. \A p \in Publishers : publisher'[p].until \in Nat
      BY <2>1 DEF StoreInv, PublisherInv, Publisher
    <2>4. clock' = clock \/ clock' = clock + 1
      BY DEF Next, Publish, CreateStagingFile, Stage, RejectSource, ReuseBlob, Promote,
         QuarantineCorrupt, SetAside, Replace, DropSidecar, SyncShard, RefreshLease,
         PutArtifactMetadata, PublishFails, RollBack, ForgetRecord, Open, RecoverSidecar, Rot,
         CollectUnreferenced, Collect, CollectNext, CollectStaging, CollectQuarantine, CollectBlob,
         Tick, Kill, PowerLoss, Restarts, vars
    <2> QED BY <2>2, <2>3, <2>4, ClocksStep
  (* A publication of the digest returns.                                  *)
  <1>1. ASSUME NEW p \in Publishers, RefreshLease(p), publisher[p].digest = d, Sound(d)
        PROVE  /\ Kept(d)' /\ Young(d)'
               /\ \A q \in Publishers : publisher'[q].until <= Modified(d)' + Grace
    <2>1. Kept(d)' /\ Modified(d)' = clock /\ Young(d)' /\ clock' = clock
      BY <1>1, Refreshed DEF RefreshLease
    <2> QED BY <1>0, <2>1 DEF ClocksInv
  <1>2. CASE \E p \in Publishers : RefreshLease(p) /\ publisher[p].digest = d /\ Sound(d)
    BY <1>1, <1>2
  (* Any other step.                                                       *)
  <1>3. CASE ~ \E p \in Publishers : RefreshLease(p) /\ publisher[p].digest = d /\ Sound(d)
    <2>1. d \notin rotted
      BY <1>3, RottedGoes
    <2>2. ASSUME Kept(d), collector.step = "blobs" /\ d \in collector.todo => Young(d)
          PROVE  /\ Kept(d)' /\ Modified(d)' \in {Modified(d), clock}
                 /\ Modified(d) \in Nat /\ Grace \in Nat /\ Grace > 0 /\ collector.now \in Nat
                 /\ collector.now <= clock
      <3>1. Sound(d)
        BY <2>2 DEF Kept
      <3> QED BY <2>2, <3>1, KeptGoes, SoundTypes DEF ClocksInv
    <2>3. ASSUME NEW p \in Publishers, Leased(p), publisher[p].digest = d
          PROVE  /\ Young(d) /\ Kept(d)' /\ Modified(d)' \in {Modified(d), clock}
                 /\ Modified(d) \in Nat /\ Grace \in Nat
                 /\ publisher[p].until <= Modified(d) + Grace
                 /\ publisher[p].until <= clock + Grace /\ publisher[p].until \in Nat
      <3>1. Kept(d) /\ publisher[p].until <= Modified(d) + Grace /\ clock < publisher[p].until
        BY <2>1, <2>3 DEF KeptInv, Leased
      <3>2. Sound(d) /\ collector.now <= clock /\ publisher[p].until <= clock + Grace
        BY <3>1 DEF Kept, ClocksInv
      <3>3. /\ Modified(d) \in Nat /\ Grace \in Nat /\ clock \in Nat /\ collector.now \in Nat
            /\ publisher[p].until \in Nat
        BY <3>2, SoundTypes
      <3>4. Young(d)
        BY <3>1, <3>2, <3>3 DEF Young
      <3> QED BY <2>2, <3>1, <3>2, <3>3, <3>4
    <2>4. ASSUME Young(d), collector'.now = collector.now, Modified(d)' \in {Modified(d), clock},
                 Modified(d) \in Nat, Grace \in Nat, Grace > 0
          PROVE  Young(d)'
      <3>1. collector.now <= clock /\ collector.now \in Nat
        BY ArtifactAssumption DEF ClocksInv, StoreInv, RestOK, Collector
      <3> QED BY <1>0, <2>4, <3>1 DEF Young
    <2>5. ASSUME d \in rows', d \in rows
          PROVE  Kept(d)' /\ (collector'.step = "idle" \/ d \in collector'.referenced \/ Young(d)')
      <3>1. Kept(d) /\ (collector.step = "idle" \/ d \in collector.referenced \/ Young(d))
        BY <2>1, <2>5 DEF KeptInv
      <3>2. collector.step = "blobs" /\ d \in collector.todo => Young(d)
        BY <3>1 DEF ClocksInv
      <3>3. /\ Kept(d)' /\ Modified(d)' \in {Modified(d), clock}
            /\ Modified(d) \in Nat /\ Grace \in Nat /\ Grace > 0
        BY <2>2, <3>1, <3>2
      <3> QED BY <2>4, <2>5, <3>1, <3>3, CollectionGoes
    <2>6. ASSUME d \in rows', d \notin rows PROVE Kept(d)' /\ Young(d)'
      <3>1. PICK p \in Publishers : PutArtifactMetadata(p) /\ publisher[p].digest = d
        BY <2>6, RowsGo
      <3>2. Leased(p) /\ collector' = collector
        BY <3>1 DEF PutArtifactMetadata, Leased
      <3> QED BY <2>3, <2>4, <3>1, <3>2, ArtifactAssumption
    <2>7. ASSUME NEW p \in Publishers, Leased(p)', publisher'[p].digest = d
          PROVE  Kept(d)' /\ publisher'[p].until <= Modified(d)' + Grace
      <3>1. publisher'[p] = publisher[p]
        <4>1. ASSUME RefreshLease(p) PROVE FALSE
          <5>1. publisher[p].digest = d /\ publisher[p].step \in Repaired
            BY <2>7, <4>1 DEF RefreshLease, Repaired, StoreInv, PublisherInv, Publisher
          <5> QED BY <1>3, <2>1, <4>1, <5>1 DEF RepairedInv
        <4> QED BY <2>7, <4>1, LeasesGo DEF Leased
      <3>2. Leased(p) /\ publisher[p].digest = d
        BY <1>0, <2>7, <3>1 DEF Leased
      <3> QED BY <1>0, <2>3, <3>1, <3>2
    <2> QED BY <2>5, <2>6, <2>7
  <1> QED BY <1>2, <1>3

(* The blob of a committed row is there and sound unless the disk spoiled  *)
(* it: no interleaving of publish, its leases, collect_unreferenced with   *)
(* the rows it was given, the repairs and recover_temporary_state loses    *)
(* it, whatever publish and the recoveries fail at and whenever the        *)
(* process is killed; nor does a power loss, if no operation failed and no *)
(* process was killed before, whenever it comes.                           *)
THEOREM RowsKeepTheirBlob ==
    ASSUME PowerLossesAlone
    PROVE  Spec => []RowsHaveTheirBlob
  <1>1. Init => BlobsInv /\ KeptInv
    <2> SUFFICES ASSUME Init PROVE BlobsInv /\ KeptInv
      OBVIOUS
    <2>1. \A p \in Publishers : publisher[p].step = "idle" /\ publisher[p].until = 0
      BY DEF Init, NoPublisher
    <2>2. StoreInv /\ StagedFilesStay /\ RepairInv /\ DiskInv
      BY <2>1, InitInv, CountingLocks
         DEF Init, StagedFilesStay, RepairInv, LocksExclude, DiskInv
    <2>3. \A d \in Digests : \A names \in disk[d] : Slots(names) = {}
      BY DEF Init, Slots
    <2>4. OwnNames /\ HeldFiles /\ RepairedInv
      BY <2>1, <2>3 DEF OwnNames, HeldFiles, RepairedInv, Handling, Repaired
    <2>5. PlanInv /\ SyncedInv
      BY DEF Init, PlanInv, PowerLossesAlone, SyncedInv
    <2>6. ClocksInv
      BY <2>1, ArtifactAssumption DEF Init, ClocksInv, NoCollector
    <2>7. KeptInv
      BY <2>1 DEF Init, KeptInv, Leased
    <2> QED BY <2>2, <2>4, <2>5, <2>6, <2>7 DEF BlobsInv
  <1>2. BlobsInv /\ KeptInv /\ [Next]_vars => BlobsInv' /\ KeptInv'
    <2> SUFFICES ASSUME BlobsInv, KeptInv, [Next]_vars PROVE BlobsInv' /\ KeptInv'
      OBVIOUS
    <2>1. DisksGo => DiskInv'
      BY DEF DisksGo, DiskInv
    <2>2. StoreInv' /\ StagedFilesStay' /\ RepairInv' /\ DiskInv'
      BY <2>1, InvStep, StagedFilesStep, RepairStep, DisksStep DEF BlobsInv
    <2>3. OwnNames' /\ HeldFiles' /\ PlanInv'
      BY FilesStay, PlanStep DEF BlobsInv
    <2>4. RepairedInv' /\ SyncedInv' /\ ClocksInv'
      BY RepairedStep, SyncedStep, ClocksStep DEF BlobsInv
    <2> QED BY <2>2, <2>3, <2>4, KeptStep DEF BlobsInv
  <1>3. BlobsInv /\ KeptInv => RowsHaveTheirBlob
    BY DEF BlobsInv, StoreInv, RestOK, KeptInv, Kept, RowsHaveTheirBlob
  <1> QED BY <1>1, <1>2, <1>3, PTL DEF Spec

================================================================================
