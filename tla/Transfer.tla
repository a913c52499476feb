------------------------------ MODULE Transfer ------------------------------
(***************************************************************************)
(* The destination pulls a snapshot's artifacts from the source: calls of  *)
(* transferMigration, each with a pull per artifact that resumes from the  *)
(* .partial file it finds, checks the digest of what it has hashed, and    *)
(* renames the file into place.  The source serves what its record         *)
(* registers at the time, may take another snapshot meanwhile, and writes  *)
(* its disk in place when it runs again.  A call is asked for again while  *)
(* an earlier one runs when the coordinator has restarted or timed out.    *)
(*                                                                         *)
(* A byte is a pair: the content it is from, and its place.  A digest is   *)
(* the sequence of the bytes hashed.                                       *)
(***************************************************************************)
EXTENDS Naturals, Sequences

CONSTANTS
    Kinds,           \* the artifacts of a snapshot
    InPlace,         \* those whose file the running VM writes: the disk
    Sizes,           \* Sizes[k][g]: the size of artifact k in generation g
    MaxGenerations,  \* bound: snapshots of the source
    Calls,           \* bound: the numbers of calls that run at a time
    MaxFaults        \* bound: connections lost, failing syncs, calls that meet another

Generations == 1..MaxGenerations

ASSUME TransferConstants == /\ InPlace \subseteq Kinds /\ MaxGenerations \in Nat \ {0}
                            /\ Sizes \in [Kinds -> [Generations -> Nat]]
                            /\ Calls \subseteq Nat /\ MaxFaults \in Nat

VARIABLES
    generation,  \* the source's record: the snapshot that it registers
    dirty,       \* the source's VM has run since, and written its disk
    open,        \* the calls that have not been answered
    pull,        \* each call's pull of each artifact
    partial,     \* the .partial file of each artifact
    published,   \* the file in its place
    registered,  \* record.artifacts: the generation it describes, 0 for none
    met,         \* a call has begun while another ran (history)
    torn,        \* a directory sync has failed, after the rename (history)
    faults

source == <<generation, dirty>>
files  == <<partial, published>>
transferVars == <<source, open, pull, files, registered, met, torn, faults>>

\* No file: a byte that no file holds.
NoFile    == << <<1, 0>> >>
\* at: the step it is at; of: the generation of its manifest; sum: what it has hashed; append:
\* it goes on with a partial file; fd: the file it has open.
Idle      == [at |-> "idle", of |-> 0, sum |-> <<>>, append |-> FALSE, fd |-> "none"]

\* The file of artifact k in generation g.
Content(k, g) == [i \in 1..Sizes[k][g] |-> <<g, i>>]

TransferInit ==
    /\ generation = 1 /\ dirty = FALSE
    /\ open = {}
    /\ pull = [c \in Calls |-> [k \in Kinds |-> Idle]]
    /\ partial = [k \in Kinds |-> NoFile]
    /\ published = [k \in Kinds |-> NoFile]
    /\ registered = [k \in Kinds |-> 0]
    /\ met = FALSE /\ torn = FALSE /\ faults = 0

Fault == faults < MaxFaults /\ faults' = faults + 1

-----------------------------------------------------------------------------
(* The source.                                                             *)

Snapshot ==
    /\ generation < MaxGenerations
    /\ generation' = generation + 1 /\ dirty' = FALSE
    /\ UNCHANGED <<open, pull, files, registered, met, torn, faults>>

\* A rollback resumes the source. (Not after its last snapshot: a bound.)
SourceRuns ==
    /\ generation < MaxGenerations
    /\ ~dirty /\ dirty' = TRUE
    /\ UNCHANGED <<generation, open, pull, files, registered, met, torn, faults>>

\* The byte at place i of the stream that serves generation g of artifact k.
Served(k, g, i) == <<IF k \in InPlace THEN (IF dirty THEN 0 ELSE generation) ELSE g, i>>

-----------------------------------------------------------------------------
(* transferMigration.                                                      *)

\* A call that does not find everything registered starts a pull for each artifact. It may
\* come while another runs, or late, with an old manifest. (It takes the first free name.)
Transfer(c, g) ==
    /\ pull[c] = [k \in Kinds |-> Idle] /\ \A d \in Calls : d < c => pull[d] # pull[c]
    /\ \E k \in Kinds : registered[k] # g
    /\ met' = (met \/ open # {})
    /\ IF open # {} \/ g # generation THEN Fault ELSE UNCHANGED faults
    /\ open' = open \cup {c}
    /\ pull' = [pull EXCEPT ![c] = [k \in Kinds |-> [Idle EXCEPT !.at = "stat", !.of = g]]]
    /\ UNCHANGED <<source, files, registered, torn>>

Settled(c, k) == pull[c][k].at \in {"ok", "failed"}

\* Mutant: the call ends with its first failure (Promise.all instead of allSettled).
MutantAllSettled(c) ==
    (\A k \in Kinds : Settled(c, k)) \/ \E k \in Kinds : pull[c][k].at = "failed"

AllSettled(c) == \A k \in Kinds : Settled(c, k)

\* It answers when every pull has settled.
TransferEnds(c) ==
    /\ c \in open
    /\ AllSettled(c)
    /\ open' = open \ {c}
    /\ pull' = [pull EXCEPT ![c] = [k \in Kinds |-> IF Settled(c, k) THEN Idle ELSE @[k]]]
    /\ UNCHANGED <<source, files, registered, met, torn, faults>>

\* The AbortController's signal: a sibling has failed.
Aborted(c) == \E k \in Kinds : pull[c][k].at = "failed"

-----------------------------------------------------------------------------
(* pullArtifact, for artifact k in call c.                                 *)

Fails(c, k) == pull' = [pull EXCEPT ![c][k] = [Idle EXCEPT !.at = "failed"]]

\* An open file stays open when its name goes, or is another one's.
Unlinked == [none |-> "none", partial |-> "gone", published |-> "published", gone |-> "gone"]
Renamed  == [none |-> "none", partial |-> "published", published |-> "gone", gone |-> "gone"]
After(change, k) == [c \in Calls |-> [pull[c] EXCEPT ![k].fd = change[@]]]

\* resumeFromPartial: what is there is hashed, unless it is too long. (A pull that meets
\* another may find a file that grows between its stat and its read.)
ResumeFromPartial(c, k) ==
    LET size == Sizes[k][pull[c][k].of]
        long == partial[k] # NoFile /\ Len(partial[k]) > size
        sum  == IF partial[k] = NoFile \/ long THEN <<>> ELSE partial[k]
    IN  /\ pull[c][k].at = "stat"
        /\ pull' = [(IF long THEN After(Unlinked, k) ELSE pull) EXCEPT
                      ![c][k].at = IF Len(sum) < size THEN "fetch" ELSE "verify",
                      ![c][k].sum = sum, ![c][k].append = sum # <<>>]
        /\ partial' = IF long THEN [partial EXCEPT ![k] = NoFile] ELSE partial
        /\ UNCHANGED <<source, open, published, registered, met, torn, faults>>

\* downloadRemainder. The source still has the snapshot of the manifest, and the file is
\* opened, from its start or to append; or it has another, and refuses the range or names
\* another digest.
Fetch(c, k) ==
    /\ pull[c][k].at = "fetch" /\ ~Aborted(c)
    /\ IF generation # pull[c][k].of
       THEN Fails(c, k) /\ UNCHANGED partial
       ELSE /\ pull' = [pull EXCEPT ![c][k].at = "body", ![c][k].fd = "partial"]
            /\ partial' = [partial EXCEPT ![k] =
                             IF pull[c][k].append /\ @ # NoFile THEN @ ELSE <<>>]
    /\ UNCHANGED <<source, open, published, registered, met, torn, faults>>

\* A file opened to append is written at its end, another where the pull has come to.
Write(file, append, b, i) ==
    IF append THEN Append(file, b)
    ELSE [j \in 1..(IF Len(file) < i THEN i ELSE Len(file)) |->
             IF j = i THEN b ELSE IF j <= Len(file) THEN file[j] ELSE <<0, 0>>]

\* writeBody: a chunk is hashed and written; the last one ends the body.
Chunk(c, k) ==
    LET p == pull[c][k]
        i == Len(p.sum) + 1
        b == Served(k, pull[c][k].of, i)
        WriteIn(name, file) == IF p.fd = name
                               THEN [file EXCEPT ![k] = Write(@, p.append, b, i)] ELSE file
    IN  /\ p.at = "body"
        /\ partial' = WriteIn("partial", partial)
        /\ published' = WriteIn("published", published)
        /\ pull' = [pull EXCEPT ![c][k] =
                      IF i < Sizes[k][pull[c][k].of] THEN [p EXCEPT !.sum = Append(@, b)]
                      ELSE [p EXCEPT !.sum = Append(@, b), !.at = "verify", !.fd = "none"]]
        /\ UNCHANGED <<source, open, registered, met, torn, faults>>

\* The request, or its body, fails: the connection, or the signal. The file stays.
Interrupted(c, k) ==
    /\ pull[c][k].at \in {"fetch", "body"}
    /\ IF Aborted(c) THEN UNCHANGED faults ELSE Fault
    /\ Fails(c, k)
    /\ UNCHANGED <<source, open, files, registered, met, torn>>

\* Mutant: a file that does not verify is kept.
MutantVerifyOrDiscard(c, k) ==
    /\ pull[c][k].at = "verify"
    /\ IF pull[c][k].sum = Content(k, pull[c][k].of)
       THEN pull' = [pull EXCEPT ![c][k].at = "rename"]
       ELSE Fails(c, k)
    /\ UNCHANGED <<source, open, files, registered, met, torn, faults>>

VerifyOrDiscard(c, k) ==
    /\ pull[c][k].at = "verify"
    /\ IF pull[c][k].sum = Content(k, pull[c][k].of)
       THEN pull' = [pull EXCEPT ![c][k].at = "rename"] /\ UNCHANGED partial
       ELSE /\ pull' = [After(Unlinked, k) EXCEPT ![c][k] = [Idle EXCEPT !.at = "failed"]]
            /\ partial' = [partial EXCEPT ![k] = NoFile]
    /\ UNCHANGED <<source, open, published, registered, met, torn, faults>>

\* commitArtifact renames what has the name, and syncs the directory.
Commit(c, k) ==
    /\ pull[c][k].at = "rename"
    /\ IF partial[k] = NoFile
       THEN Fails(c, k) /\ UNCHANGED files
       ELSE /\ published' = [published EXCEPT ![k] = partial[k]]
            /\ partial' = [partial EXCEPT ![k] = NoFile]
            /\ pull' = [After(Renamed, k) EXCEPT ![c][k].at = "sync"]
    /\ UNCHANGED <<source, open, registered, met, torn, faults>>

\* The artifact is registered once all that has succeeded.
Registers(c, k) ==
    /\ pull[c][k].at = "sync"
    /\ \/ /\ pull' = [pull EXCEPT ![c][k] = [Idle EXCEPT !.at = "ok"]]
          /\ registered' = [registered EXCEPT ![k] = pull[c][k].of]
          /\ UNCHANGED <<torn, faults>>
       \/ Fault /\ torn' = TRUE /\ Fails(c, k) /\ UNCHANGED registered
    /\ UNCHANGED <<source, open, files, met>>

Pulls(c, k) == \/ ResumeFromPartial(c, k) \/ Fetch(c, k) \/ Chunk(c, k)
               \/ VerifyOrDiscard(c, k) \/ Commit(c, k) \/ Registers(c, k)

TransferNext ==
    \/ Snapshot \/ SourceRuns
    \/ \E c \in Calls : \/ TransferEnds(c)
                        \/ \E g \in 1..generation : Transfer(c, g)
                        \/ \E k \in Kinds : Pulls(c, k) \/ Interrupted(c, k)

TransferSpec == TransferInit /\ [][TransferNext]_transferVars

\* A transfer that has failed is asked for again: by the coordinator after a restart, or by
\* the next migration.
Asked == open = {} /\ \E c \in Calls : Transfer(c, generation)

TransferFairSpec ==
    /\ TransferSpec
    /\ WF_transferVars(Asked)
    /\ \A c \in Calls : WF_transferVars(TransferEnds(c))
    /\ \A c \in Calls, k \in Kinds :
          /\ WF_transferVars(Pulls(c, k))
          /\ WF_transferVars(Aborted(c) /\ Interrupted(c, k))

-----------------------------------------------------------------------------
(* Properties.                                                             *)

Pull == [at : {"idle", "stat", "fetch", "body", "verify", "rename", "sync", "ok", "failed"},
         of : 0..MaxGenerations, sum : Seq(Nat \X Nat), append : BOOLEAN, fd : {"none", "partial", "published", "gone"}]

TransferTypeOK ==
    /\ generation \in Generations /\ dirty \in BOOLEAN
    /\ open \subseteq Calls
    /\ pull \in [Calls -> [Kinds -> Pull]]
    /\ partial \in [Kinds -> Seq(Nat \X Nat)]
    /\ published \in [Kinds -> Seq(Nat \X Nat)]
    /\ registered \in [Kinds -> 0..MaxGenerations]
    /\ met \in BOOLEAN /\ torn \in BOOLEAN /\ faults \in 0..MaxFaults

\* What the record describes is what the file holds, byte for byte, and what load will map:
\* across pulls cut short and resumed, from a file of another snapshot too, a source that
\* takes another snapshot or writes its disk meanwhile, and siblings that fail. Except where
\* two calls have met: both write one .partial file, and each checks what it has received
\* and not what the file holds. And except where a directory could not be synced after the
\* rename: the file is of the new snapshot, and the record still describes the old one.
RegisteredIsPublished ==
    ~met /\ ~torn =>
        \A k \in Kinds :
            registered[k] # 0 /\ (\A c \in Calls : pull[c][k].at # "sync") =>
                published[k] = Content(k, registered[k])

\* An interrupted transfer completes when it is asked for again, whatever it left behind:
\* unless the source has run since its snapshot, whose disk is then gone.
RetriedTransferCompletes ==
    <>[](dirty \/ \A k \in Kinds : registered[k] = generation)
=============================================================================
