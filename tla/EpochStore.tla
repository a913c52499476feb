----------------------------- MODULE EpochStore -----------------------------
(***************************************************************************)
(* A worker's EpochStore: the highest epoch it has accepted of each        *)
(* sandbox, in memory and in one file.  accept() is a chain: an operation  *)
(* starts when the one before has ended.  A higher epoch is set in memory, *)
(* then the whole map is written beside the file, synced, renamed over it, *)
(* and the directory synced; if any of it fails, memory goes back, though  *)
(* the file may have been replaced.                                        *)
(***************************************************************************)
EXTENDS Naturals

CONSTANTS
    Sandboxes,
    MaxStoreFaults   \* bound: failing writes and crashes

ASSUME StoreBound == MaxStoreFaults \in Nat

VARIABLES
    memory,      \* this.epochs, 0 for no entry
    disk,        \* what the file holds
    stale,       \* what it may hold again after a power cut: renames not yet synced
    write,       \* the accept() that persists, and how far it is
    adopted,     \* a process has started on a file whose rename was not synced (history)
    answered,    \* the epoch of the last accept() that succeeded, 0 for none (history)
    storeFaults

store == <<memory, disk, stale, write, adopted, answered, storeFaults>>

Epochs  == [Sandboxes -> Nat]
NoWrite == [at |-> "none"]
Writes  == [at : {"write", "rename", "sync"}, id : Sandboxes, epoch : Nat, previous : Nat]

EpochStoreTypeOK ==
    /\ memory \in Epochs /\ disk \in Epochs /\ answered \in Epochs
    /\ stale \subseteq Epochs
    /\ write \in Writes \cup {NoWrite}
    /\ adopted \in BOOLEAN
    /\ storeFaults \in 0..MaxStoreFaults

StoreInit ==
    /\ memory = [s \in Sandboxes |-> 0] /\ disk = memory /\ answered = memory
    /\ stale = {}
    /\ write = NoWrite /\ adopted = FALSE
    /\ storeFaults = 0

StoreFault == storeFaults < MaxStoreFaults /\ storeFaults' = storeFaults + 1

Answer(s, e) == answered' = [answered EXCEPT ![s] = e]

\* accept(s, e) is at the head of the chain and finds the epoch it names: nothing to write.
AcceptSame(s, e) ==
    /\ write = NoWrite /\ e = memory[s]
    /\ Answer(s, e)
    /\ UNCHANGED <<memory, disk, stale, write, adopted, storeFaults>>

\* It is higher than what was accepted. (A lower one is refused, and changes nothing.)
AcceptHigher(s, e) ==
    /\ write = NoWrite /\ e > memory[s]
    /\ memory' = [memory EXCEPT ![s] = e]
    /\ write' = [at |-> "write", id |-> s, epoch |-> e, previous |-> memory[s]]
    /\ UNCHANGED <<disk, stale, adopted, answered, storeFaults>>

\* The temporary file holds memory, which does not change until the operation ends.
Written ==
    /\ write.at = "write"
    /\ write' = [write EXCEPT !.at = "rename"]
    /\ UNCHANGED <<memory, disk, stale, adopted, answered, storeFaults>>

\* Mutant: accept() succeeds once the file is renamed.
MutantRenamed ==
    /\ write.at = "rename"
    /\ write' = [write EXCEPT !.at = "sync"]
    /\ disk' = memory /\ stale' = stale \cup {disk}
    /\ Answer(write.id, write.epoch)
    /\ UNCHANGED <<memory, adopted, storeFaults>>

Renamed ==
    /\ write.at = "rename"
    /\ write' = [write EXCEPT !.at = "sync"]
    /\ disk' = memory /\ stale' = stale \cup {disk}
    /\ UNCHANGED <<memory, adopted, answered, storeFaults>>

Synced ==
    /\ write.at = "sync"
    /\ write' = NoWrite
    /\ stale' = {}
    /\ Answer(write.id, write.epoch)
    /\ UNCHANGED <<memory, disk, adopted, storeFaults>>

PersistFails ==
    /\ StoreFault
    /\ write # NoWrite
    /\ memory' = [memory EXCEPT ![write.id] = write.previous]
    /\ write' = NoWrite
    /\ UNCHANGED <<disk, stale, adopted, answered>>

\* The worker's process dies, or its host: the file is loaded as it is found.
StoreCrash ==
    /\ StoreFault
    /\ \/ UNCHANGED <<disk, stale>> /\ adopted' = (adopted \/ stale # {})
       \/ disk' \in stale \cup {disk} /\ stale' = {} /\ UNCHANGED adopted
    /\ memory' = disk'
    /\ write' = NoWrite
    /\ UNCHANGED answered

StoreNext ==
    \/ \E s \in Sandboxes, e \in Nat : AcceptSame(s, e) \/ AcceptHigher(s, e)
    \/ Written \/ Renamed \/ Synced \/ PersistFails \/ StoreCrash

StoreSpec == StoreInit /\ [][StoreNext]_store

-----------------------------------------------------------------------------
(* Properties.                                                             *)

\* Whatever an accept() has answered is in memory and on disk, and still would be after a
\* power cut. Except where a process died between its rename and its sync: the next one takes
\* the file as it is, and answers for epochs that a power cut can still undo.
AnsweredIsKept ==
    ~adopted => \A s \in Sandboxes :
        /\ answered[s] <= memory[s] /\ answered[s] <= disk[s]
        /\ \A d \in stale : answered[s] <= d[s]

\* The fence: once an epoch of a sandbox has been accepted, no lower one ever is, across
\* failed writes, writes for other sandboxes and restarts, with the same exception.
FenceNeverReopens ==
    [][~adopted' => \A s \in Sandboxes : answered'[s] >= answered[s]]_store
=============================================================================
