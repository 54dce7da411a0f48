----------------------------- MODULE SecretBackends -----------------------------
(***************************************************************************)
(* Where secrets are: the local secret stores (local_file.rs) and the      *)
(* keychain (local_os.rs), and the blocking threads that work on them for  *)
(* the broker.  A thread is not stopped when its caller gives up.  One     *)
(* that works on a file learns of it by a flag, which it reads before it   *)
(* waits for the file's locks, when it has them and before it writes; one  *)
(* that works on the keychain never learns of it.                          *)
(*                                                                         *)
(* A local store is replaced whole, by one atomic rename.  It is claimed   *)
(* for the id of a backend by whoever finds no file.                       *)
(***************************************************************************)
EXTENDS ConfigStore

CONSTANTS
    Values,
    Clients,        \* callers of the broker
    Workers         \* bound: blocking threads at work at once

VARIABLES
    files,          \* the local stores: who claimed each, and its entries
    keychain,       \* the entries of the keychain that are the target's
    worker          \* what each blocking thread is doing, and for whom

backendVars == <<files, keychain, worker>>

Files  == {"plaintext", "other"}
Places == Files \cup {"keychain"}

Entries == [Locators -> Values \cup {None}]
NoEntries == [l \in Locators |-> None]

(* A store without an owner holds only the zeroes of a purge.              *)
Store == [owner : BackendIds \cup {None}, entries : Entries]

ASSUME BackendsAssumption == None \notin Values \cup Clients /\ None \notin Store

Zeroes == [owner |-> None, entries |-> NoEntries]

(* canonical_store_path: two spellings of a path are one store.            *)
PlaceOf(setting) == IF setting = "alias" THEN "plaintext" ELSE setting

Held(place, l) ==
    IF place = "keychain" THEN keychain[l]
    ELSE IF files[place] = None THEN None ELSE files[place].entries[l]

(* A job as the broker hands it to a backend.                              *)
Job == [kind : {"put", "delete", "resolve"}, backend : BackendIds, place : Places,
        locator : Locators, value : Values \cup {None}, overwrite : BOOLEAN]

Idle == [step |-> "idle"]

(* A thread at work: on a file it waits for the locks, has them, or has    *)
(* read the store; on the keychain it has looked for the item or not.      *)
Worker == {Idle} \cup
    [step : {"queued", "locked", "loaded", "found"}, job : Job,
     client : Clients \cup {None}, abandoned : BOOLEAN, copy : Entries]

BackendsTypeOK ==
    /\ files \in [Files -> Store \cup {None}]
    /\ keychain \in Entries
    /\ worker \in [Workers -> Worker]

Working(k) == worker[k].step # "idle"

(* spawn_blocking.                                                         *)
Spawn(k, job, t) ==
    /\ ~Working(k)
    /\ worker' = [worker EXCEPT ![k] =
           [step |-> "queued", job |-> job, client |-> t, abandoned |-> FALSE,
            copy |-> NoEntries]]

(* The future of the caller is dropped, and its AbandonmentGuard with it.  *)
Abandon(k) ==
    worker' = [worker EXCEPT ![k].client = None,
                             ![k].abandoned = worker[k].job.place \in Files]

Moves(k, step) == worker' = [worker EXCEPT ![k].step = step]

Ends(k) == worker' = [worker EXCEPT ![k] = Idle]

------------------------------------------------------------------------------
(* A thread on a local store.                                              *)

Doing(k, place, step) ==
    /\ worker[k].step = step
    /\ worker[k].job.place = place

(* with_process_lock: one thread of the process at a time for each store,  *)
(* under one lock for every backend and every spelling of the path.        *)
HoldsLock(k, f) ==
    /\ Working(k)
    /\ worker[k].job.place = f
    /\ worker[k].step \in {"locked", "loaded"}

(* A mutant of LockFree: the threads do not wait for each other.           *)
LockFreeAlways(f) == TRUE

LockFree(f) == \A k \in Workers : ~HoldsLock(k, f)

(* A thread that is waiting, or has just got the locks, gives up.          *)
FileCancelled(k) ==
    /\ \E f \in Files : Doing(k, f, "queued") \/ Doing(k, f, "locked")
    /\ worker[k].abandoned
    /\ Ends(k)
    /\ UNCHANGED <<files, keychain>>

(* read_store: a store is for the backend that claimed it.                 *)
Opens(f, b) == files[f] # None => files[f].owner = b

Claimed(b) == [owner |-> b, entries |-> NoEntries]

(* with_store_lock: the store is claimed if there is none.  What is there  *)
(* must be readable and belong to the backend.                             *)
FileLock(k) ==
    \E f \in Files :
        /\ Doing(k, f, "queued") /\ ~worker[k].abandoned
        /\ LockFree(f)
        /\ Opens(f, worker[k].job.backend)
        /\ files' = [files EXCEPT ![f] =
               IF @ = None THEN Claimed(worker[k].job.backend) ELSE @]
        /\ Moves(k, "locked")
        /\ UNCHANGED keychain

FileRefused(k) ==
    \E f \in Files :
        /\ Doing(k, f, "queued") /\ ~worker[k].abandoned
        /\ LockFree(f)
        /\ ~Opens(f, worker[k].job.backend)
        /\ Ends(k)
        /\ UNCHANGED <<files, keychain>>

(* The claim is not written, or its commit is reported to have failed.     *)
FileClaimFails(k, done) ==
    \E f \in Files :
        /\ Doing(k, f, "queued") /\ ~worker[k].abandoned
        /\ LockFree(f) /\ files[f] = None
        /\ files' = IF done THEN [files EXCEPT ![f] = Claimed(worker[k].job.backend)]
                            ELSE files
        /\ Ends(k)
        /\ UNCHANGED keychain

(* Somebody else can write the path, or the store, or can read the store.  *)
FileInsecure(k) ==
    /\ \E f \in Files : Doing(k, f, "queued") \/ Doing(k, f, "locked")
    /\ Ends(k)
    /\ UNCHANGED <<files, keychain>>

(* The store is read into a copy; a write is refused when the entry is     *)
(* there and not to be overwritten, a deletion when it is not.             *)
Refused(job, present) ==
    \/ job.kind = "put" /\ present /\ ~job.overwrite
    \/ job.kind = "delete" /\ ~present

FileLoad(k) ==
    LET job == worker[k].job IN
    \E f \in Files :
        /\ Doing(k, f, "locked") /\ ~worker[k].abandoned
        /\ job.kind # "resolve" /\ ~Refused(job, Held(f, job.locator) # None)
        /\ worker' = [worker EXCEPT ![k].step = "loaded",
                                    ![k].copy = files[f].entries]
        /\ UNCHANGED <<files, keychain>>

(* A read is answered, or a write is refused.                              *)
FileAnswer(k) ==
    LET job == worker[k].job IN
    \E f \in Files :
        /\ Doing(k, f, "locked")
        /\ job.kind = "resolve" \/ Refused(job, Held(f, job.locator) # None)
        /\ Ends(k)
        /\ UNCHANGED <<files, keychain>>

(* write_store: the copy, with the one entry changed, replaces the store.  *)
(* Up to the commit a failure leaves the store; a failure reported by the  *)
(* commit, or after it, says nothing.                                      *)
Saved(k) ==
    [worker[k].copy EXCEPT ![worker[k].job.locator] = worker[k].job.value]

FileSave(k, done) ==
    \E f \in Files :
        /\ Doing(k, f, "loaded")
        /\ files' = IF done THEN [files EXCEPT ![f].entries = Saved(k)] ELSE files
        /\ Ends(k)
        /\ UNCHANGED keychain

------------------------------------------------------------------------------
(* A thread on the keychain.                                               *)

(* NativeKeychain::put looks for the item first.                           *)
KeychainFind(k) ==
    LET job == worker[k].job IN
    /\ Doing(k, "keychain", "queued")
    /\ job.kind = "put" /\ ~Refused(job, keychain[job.locator] # None)
    /\ worker' = [worker EXCEPT ![k].step = "found",
                                ![k].copy = keychain]
    /\ UNCHANGED <<files, keychain>>

(* It then sets the password of the item that was there, or adds an item;  *)
(* neither if that changed in between.                                     *)
Unchanged(k) ==
    (worker[k].copy[worker[k].job.locator] = None)
        <=> (keychain[worker[k].job.locator] = None)

KeychainPut(k) ==
    /\ Doing(k, "keychain", "found") /\ Unchanged(k)
    /\ keychain' = [keychain EXCEPT ![worker[k].job.locator] = worker[k].job.value]
    /\ Ends(k)
    /\ UNCHANGED files

KeychainDelete(k) ==
    /\ Doing(k, "keychain", "queued") /\ worker[k].job.kind = "delete"
    /\ keychain' = [keychain EXCEPT ![worker[k].job.locator] = None]
    /\ Ends(k)
    /\ UNCHANGED files

(* It is answered without a change: a read, a refusal, a put that found    *)
(* the entry to have changed, or an error of the keychain (locked, denied, *)
(* unavailable) at either step.                                            *)
KeychainAnswer(k) ==
    LET job == worker[k].job IN
    /\ \/ /\ Doing(k, "keychain", "queued")
          /\ \/ job.kind = "resolve"
             \/ job.kind = "put" /\ Refused(job, keychain[job.locator] # None)
       \/ Doing(k, "keychain", "found") /\ ~Unchanged(k)
    /\ Ends(k)
    /\ UNCHANGED <<files, keychain>>

KeychainFails(k) ==
    /\ Doing(k, "keychain", "queued") \/ Doing(k, "keychain", "found")
    /\ Ends(k)
    /\ UNCHANGED <<files, keychain>>

(* The process ends, and its threads with it.                              *)
Killed == worker' = [k \in Workers |-> Idle]
================================================================================
