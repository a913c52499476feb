---------------------------- MODULE TransferProofs ----------------------------
(***************************************************************************)
(* What a worker has registered is what it has published, for any number   *)
(* of artifacts, sizes, snapshots and faults, as long as calls of the same *)
(* transfer do not meet and directories can be synced.  The assumption is  *)
(* TransferConstants alone.                                                *)
(***************************************************************************)
EXTENDS Transfer, SequenceTheorems, TLAPS

(* The inductive invariant.                                                *)

\* A pull that is under way has a manifest.
ManifestOK ==
    \A c \in Calls, k \in Kinds :
        pull[c][k].at \in {"stat", "fetch", "body", "verify", "rename", "sync"} =>
            pull[c][k].of # 0

\* Calls that do not meet run one at a time.
OneCall ==
    /\ \A c, d \in open : c = d
    /\ \A c \in Calls, k \in Kinds : c \notin open => pull[c][k] = Idle

\* A pull p of its own: the partial file holds what it has hashed, up to the rename, and after
\* that the published one holds the content of its manifest. Only its body writes.
Downloads(p, k, file, final) ==
    /\ p.fd = IF p.at = "body" THEN "partial" ELSE "none"
    /\ p.at = "stat"   => p.sum = <<>>
    /\ p.at = "fetch"  => IF p.append THEN file = p.sum /\ file # NoFile ELSE p.sum = <<>>
    /\ p.at = "body"   => file = p.sum
    /\ p.at = "verify" => file \in {p.sum, NoFile}
    /\ p.at = "rename" => file \in {Content(k, p.of), NoFile}
    /\ p.at = "sync"   => final = Content(k, p.of)

RegisteredAt(k) ==
    registered[k] # 0 /\ (\A c \in Calls : pull[c][k].at # "sync") =>
        published[k] = Content(k, registered[k])

TransferInv ==
    /\ TransferTypeOK
    /\ ManifestOK
    /\ ~met => OneCall
    /\ ~met => \A c \in Calls, k \in Kinds : Downloads(pull[c][k], k, partial[k], published[k])
    /\ ~met /\ ~torn => \A k \in Kinds : RegisteredAt(k)

-----------------------------------------------------------------------------
(* Types.                                                                  *)

Bytes == Nat \X Nat
Pulling == [Calls -> [Kinds -> Pull]]
Names == {"none", "partial", "published", "gone"}
Renaming == [Names -> Names]

LEMMA Contents ==
    ASSUME NEW k \in Kinds, NEW g \in Generations
    PROVE  Sizes[k][g] \in Nat /\ Content(k, g) \in Seq(Bytes)
<1>1. Sizes[k][g] \in Nat
  BY TransferConstants
<1>2. \A i \in 1..Sizes[k][g] : <<g, i>> \in Bytes
  BY <1>1 DEF Bytes, Generations
<1>3. QED
  BY <1>1, <1>2 DEF Content

LEMMA NoFileTyped == NoFile \in Seq(Bytes)
<1>1. <<1, 0>> \in Bytes
  BY DEF Bytes
<1>2. QED
  BY <1>1 DEF NoFile

LEMMA IdleTyped == Idle \in Pull
<1>1. MaxGenerations \in Nat
  BY TransferConstants
<1>2. QED
  BY <1>1 DEF Idle, Pull

\* A byte written where the file ends is appended to it, however the file was opened.
LEMMA WriteAtEnd ==
    ASSUME NEW file \in Seq(Bytes), NEW append \in BOOLEAN, NEW b \in Bytes
    PROVE  Write(file, append, b, Len(file) + 1) = Append(file, b)
<1>1. CASE append
  BY <1>1 DEF Write
<1>2. CASE ~append
  <2> DEFINE written == [j \in 1..(Len(file) + 1) |->
                           IF j = Len(file) + 1 THEN b ELSE IF j <= Len(file) THEN file[j] ELSE <<0, 0>>]
  <2>1. Len(file) \in Nat /\ Len(file) < Len(file) + 1
    OBVIOUS
  <2>2. Write(file, append, b, Len(file) + 1) = written
    BY <1>2, <2>1 DEF Write
  <2>3. /\ Append(file, b) \in Seq(Bytes) /\ Len(Append(file, b)) = Len(file) + 1
        /\ \A j \in 1..Len(file) : Append(file, b)[j] = file[j]
        /\ Append(file, b)[Len(file) + 1] = b
    BY AppendProperties
  <2>4. Append(file, b) = [j \in 1..(Len(file) + 1) |-> Append(file, b)[j]]
    <3>1. Append(file, b) \in [1..Len(Append(file, b)) -> Bytes]
      BY <2>3, LenProperties
    <3>2. QED
      BY <2>3, <3>1
  <2>5. \A j \in 1..(Len(file) + 1) : written[j] = Append(file, b)[j]
    BY <2>1, <2>3
  <2>6. written = [j \in 1..(Len(file) + 1) |-> written[j]]
    OBVIOUS
  <2>7. QED
    BY <2>2, <2>4, <2>5, <2>6
<1>3. QED
  BY <1>1, <1>2

LEMMA WriteTyped ==
    ASSUME NEW file \in Seq(Bytes), NEW append \in BOOLEAN, NEW b \in Bytes, NEW i \in Nat
    PROVE  Write(file, append, b, i) \in Seq(Bytes)
<1>1. CASE append
  BY <1>1 DEF Write
<1>2. CASE ~append
  <2> DEFINE n == IF Len(file) < i THEN i ELSE Len(file)
             byte(j) == IF j = i THEN b ELSE IF j <= Len(file) THEN file[j] ELSE <<0, 0>>
  <2>1. n \in Nat
    OBVIOUS
  <2>2. \A j \in 1..n : byte(j) \in Bytes
    BY DEF Bytes
  <2>3. [j \in 1..n |-> byte(j)] \in Seq(Bytes)
    <3> HIDE DEF n, byte
    <3>1. QED
      BY <2>1, <2>2
  <2>4. Write(file, append, b, i) = [j \in 1..n |-> byte(j)]
    BY <1>2 DEF Write
  <2>5. QED
    BY <2>3, <2>4
<1>3. QED
  BY <1>1, <1>2

\* A change of the open files of artifact k.
LEMMA AfterTyped ==
    ASSUME pull \in Pulling, NEW k \in Kinds, NEW change \in Renaming
    PROVE  /\ After(change, k) \in Pulling
           /\ \A c \in Calls, l \in Kinds :
                 /\ After(change, k)[c][l].at = pull[c][l].at
                 /\ After(change, k)[c][l].of = pull[c][l].of
                 /\ l # k \/ change[pull[c][l].fd] = pull[c][l].fd =>
                       After(change, k)[c][l] = pull[c][l]
<1>1. ASSUME NEW c \in Calls
      PROVE  [pull[c] EXCEPT ![k].fd = change[@]] \in [Kinds -> Pull]
  <2>1. pull[c] \in [Kinds -> Pull] /\ pull[c][k] \in Pull
    BY DEF Pulling
  <2>2. change[pull[c][k].fd] \in Names
    BY <2>1 DEF Pull, Names, Renaming
  <2>3. [pull[c][k] EXCEPT !.fd = change[@]] \in Pull
    BY <2>1, <2>2 DEF Pull, Names
  <2>4. QED
    BY <2>1, <2>3
<1>2. After(change, k) \in Pulling
  BY <1>1 DEF After, Pulling
<1>3. ASSUME NEW c \in Calls, NEW l \in Kinds
      PROVE  /\ After(change, k)[c][l].at = pull[c][l].at
             /\ After(change, k)[c][l].of = pull[c][l].of
             /\ l # k \/ change[pull[c][l].fd] = pull[c][l].fd =>
                   After(change, k)[c][l] = pull[c][l]
  <2>1. pull[c] \in [Kinds -> Pull] /\ pull[c][l] \in Pull
    BY DEF Pulling
  <2>2. After(change, k)[c] = [pull[c] EXCEPT ![k].fd = change[@]]
    BY DEF After
  <2>3. CASE l # k
    BY <2>1, <2>2, <2>3
  <2>4. CASE l = k
    <3>1. After(change, k)[c][l] = [pull[c][l] EXCEPT !.fd = change[@]]
      BY <2>1, <2>2, <2>4
    <3>2. [pull[c][l] EXCEPT !.fd = change[@]].at = pull[c][l].at
          /\ [pull[c][l] EXCEPT !.fd = change[@]].of = pull[c][l].of
      BY <2>1 DEF Pull
    <3>3. ASSUME change[pull[c][l].fd] = pull[c][l].fd
          PROVE  [pull[c][l] EXCEPT !.fd = change[@]] = pull[c][l]
      BY <2>1, <3>3 DEF Pull
    <3>4. QED
      BY <2>4, <3>1, <3>2, <3>3
  <2>5. QED
    BY <2>3, <2>4
<1>4. QED
  BY <1>2, <1>3

LEMMA Changes ==
    /\ Unlinked \in Renaming /\ Unlinked["none"] = "none"
    /\ Renamed \in Renaming /\ Renamed["none"] = "none"
BY DEF Unlinked, Renamed, Names, Renaming

Typed == TransferTypeOK /\ ManifestOK

LEMMA TypedInit == TransferInit => Typed
<1> SUFFICES ASSUME TransferInit PROVE Typed
  OBVIOUS
<1>1. TransferTypeOK
  <2>1. pull \in [Calls -> [Kinds -> Pull]]
    BY IdleTyped DEF TransferInit
  <2>2. partial \in [Kinds -> Seq(Nat \X Nat)] /\ published \in [Kinds -> Seq(Nat \X Nat)]
    BY NoFileTyped DEF TransferInit, Bytes
  <2>3. 1 \in Generations /\ 0 \in 0..MaxGenerations /\ 0 \in 0..MaxFaults
    BY TransferConstants DEF Generations
  <2>4. QED
    BY <2>1, <2>2, <2>3 DEF TransferInit, TransferTypeOK
<1>2. ManifestOK
  BY DEF TransferInit, ManifestOK, Idle
<1>3. QED
  BY <1>1, <1>2 DEF Typed

LEMMA FaultTyped == ASSUME Typed, Fault PROVE faults' \in 0..MaxFaults
BY TransferConstants DEF Typed, TransferTypeOK, Fault

\* Each step keeps the types.
LEMMA SourceTyped == ASSUME Typed, Snapshot \/ SourceRuns PROVE Typed'
<1>1. generation' \in Generations /\ dirty' \in BOOLEAN
  <2>1. generation \in Generations /\ dirty \in BOOLEAN /\ MaxGenerations \in Nat
    BY TransferConstants DEF Typed, TransferTypeOK
  <2>2. CASE Snapshot
    <3>1. generation < MaxGenerations /\ generation' = generation + 1 /\ dirty' = FALSE
      BY <2>2 DEF Snapshot
    <3>2. generation' \in Generations
      BY <2>1, <3>1 DEF Generations
    <3>3. QED
      BY <3>1, <3>2
  <2>3. CASE SourceRuns
    BY <2>1, <2>3 DEF SourceRuns
  <2>4. QED
    BY <2>2, <2>3
<1>2. UNCHANGED <<open, pull, partial, published, registered, met, torn, faults>>
  BY DEF Snapshot, SourceRuns, files
<1>3. TransferTypeOK'
  BY <1>1, <1>2 DEF Typed, TransferTypeOK
<1>4. ManifestOK'
  BY <1>2 DEF Typed, ManifestOK
<1>5. QED
  BY <1>3, <1>4 DEF Typed

LEMMA TransferTyped ==
    ASSUME Typed, NEW c \in Calls, NEW g \in 1..generation, Transfer(c, g) PROVE Typed'
<1> DEFINE start == [Idle EXCEPT !.at = "stat", !.of = g]
<1>1. generation \in 1..MaxGenerations /\ MaxGenerations \in Nat /\ g \in 1..MaxGenerations
  BY TransferConstants DEF Typed, TransferTypeOK, Generations
<1>2. start \in Pull /\ start.of = g
  <2>1. g \in 0..MaxGenerations
    BY <1>1
  <2>2. QED
    BY <2>1, IdleTyped DEF Pull
<1>3. /\ pull' = [pull EXCEPT ![c] = [k \in Kinds |-> start]]
      /\ open' = open \cup {c} /\ met' \in BOOLEAN
      /\ faults' = faults \/ Fault
      /\ UNCHANGED <<generation, dirty, partial, published, registered, torn>>
  BY DEF Transfer, source, files, Typed, TransferTypeOK
<1> HIDE DEF start
<1>4. pull' \in [Calls -> [Kinds -> Pull]]
  BY <1>2, <1>3 DEF Typed, TransferTypeOK
<1>5. TransferTypeOK'
  BY <1>3, <1>4, FaultTyped DEF Typed, TransferTypeOK
<1>6. ManifestOK'
  <2>1. ASSUME NEW d \in Calls, NEW k \in Kinds,
               pull'[d][k].at \in {"stat", "fetch", "body", "verify", "rename", "sync"}
        PROVE  pull'[d][k].of # 0
    <3>1. CASE d = c
      BY <1>1, <1>2, <1>3, <3>1 DEF Typed, TransferTypeOK
    <3>2. CASE d # c
      BY <1>3, <2>1, <3>2 DEF Typed, TransferTypeOK, ManifestOK
    <3>3. QED
      BY <3>1, <3>2
  <2>2. QED
    BY <2>1 DEF ManifestOK
<1>7. QED
  BY <1>5, <1>6 DEF Typed

LEMMA EndsTyped == ASSUME Typed, NEW c \in Calls, TransferEnds(c) PROVE Typed'
<1>1. /\ pull' = [pull EXCEPT ![c] = [k \in Kinds |-> IF Settled(c, k) THEN Idle ELSE @[k]]]
      /\ open' = open \ {c} /\ AllSettled(c)
      /\ UNCHANGED <<generation, dirty, partial, published, registered, met, torn, faults>>
  BY DEF TransferEnds, source, files
<1>2. \A d \in Calls : d # c => pull'[d] = pull[d]
  BY <1>1 DEF Typed, TransferTypeOK
<1>3. pull'[c] = [k \in Kinds |-> Idle]
  BY <1>1 DEF Typed, TransferTypeOK, AllSettled
<1>4. pull' \in [Calls -> [Kinds -> Pull]]
  BY <1>1, IdleTyped DEF Typed, TransferTypeOK
<1>5. TransferTypeOK'
  BY <1>1, <1>4 DEF Typed, TransferTypeOK
<1>6. ManifestOK'
  BY <1>2, <1>3 DEF Typed, ManifestOK, Idle
<1>7. QED
  BY <1>5, <1>6 DEF Typed

-----------------------------------------------------------------------------
(* Steps.                                                                  *)

LEMMA TransferInitInv == TransferInit => TransferInv
<1> SUFFICES ASSUME TransferInit PROVE TransferInv
  OBVIOUS
<1>1. TransferTypeOK /\ ManifestOK
  BY TypedInit DEF Typed
<1>2. \A c \in Calls, k \in Kinds : pull[c][k] = Idle
  BY DEF TransferInit
<1>3. OneCall
  BY <1>2 DEF TransferInit, OneCall
<1>4. \A c \in Calls, k \in Kinds : Downloads(pull[c][k], k, partial[k], published[k])
  BY <1>2 DEF Downloads, Idle
<1>5. \A k \in Kinds : RegisteredAt(k)
  BY DEF TransferInit, RegisteredAt
<1>6. QED
  BY <1>1, <1>3, <1>4, <1>5 DEF TransferInv

\* A step of one pull keeps the invariant if it does for that pull: others' are idle, or of
\* another artifact.
LEMMA TransferStep ==
    ASSUME TransferInv, NEW c \in Calls, NEW k \in Kinds,
           NEW f \in Pulling, NEW p \in Pull,
           f = pull \/ f = After(Unlinked, k) \/ f = After(Renamed, k),
           pull[c][k].at # "idle",
           f = pull \/ pull[c][k].at # "body",
           pull' = [f EXCEPT ![c][k] = p],
           p.at \in {"ok", "failed"} \/ p.of # 0,
           UNCHANGED <<source, open>>,
           partial' \in [Kinds -> Seq(Bytes)], published' \in [Kinds -> Seq(Bytes)],
           registered' \in [Kinds -> 0..MaxGenerations],
           \A l \in Kinds : l # k => /\ partial'[l] = partial[l] /\ published'[l] = published[l]
                                     /\ registered'[l] = registered[l],
           met' = met, torn' \in BOOLEAN, ~torn' => ~torn, faults' = faults \/ Fault,
           ~met => Downloads(p, k, partial'[k], published'[k]),
           ~met /\ ~torn' =>
               \/ p.at = "sync"
               \/ registered'[k] # 0 => published'[k] = Content(k, registered'[k])
               \/ /\ pull[c][k].at # "sync"
                  /\ registered'[k] = registered[k] /\ published'[k] = published[k]
    PROVE  TransferInv'
<1>1. Typed
  BY DEF TransferInv, Typed
<1>2. pull \in Pulling
  BY <1>1 DEF Typed, TransferTypeOK, Pulling
<1>3. \A d \in Calls, l \in Kinds :
         /\ f[d][l].at = pull[d][l].at /\ f[d][l].of = pull[d][l].of
         /\ l # k \/ pull[d][l].fd = "none" => f[d][l] = pull[d][l]
  <2>1. CASE f = pull
    BY <2>1
  <2>2. CASE f = After(Unlinked, k)
    BY <1>2, <2>2, AfterTyped, Changes
  <2>3. CASE f = After(Renamed, k)
    BY <1>2, <2>3, AfterTyped, Changes
  <2>4. QED
    BY <2>1, <2>2, <2>3
<1>4. /\ pull' \in Pulling /\ pull'[c][k] = p
      /\ \A d \in Calls, l \in Kinds : d # c \/ l # k => pull'[d][l] = f[d][l]
  <2>1. [f[c] EXCEPT ![k] = p] \in [Kinds -> Pull]
    BY DEF Pulling
  <2>2. pull' \in Pulling
    BY <2>1 DEF Pulling
  <2>3. QED
    BY <2>2 DEF Pulling
<1>5. Typed'
  <2>1. TransferTypeOK'
    BY <1>1, <1>4, FaultTyped DEF Typed, TransferTypeOK, Pulling, Bytes, source
  <2>2. ASSUME NEW d \in Calls, NEW l \in Kinds,
               pull'[d][l].at \in {"stat", "fetch", "body", "verify", "rename", "sync"}
        PROVE  pull'[d][l].of # 0
    <3>1. CASE d = c /\ l = k
      BY <1>4, <2>2, <3>1
    <3>2. CASE d # c \/ l # k
      <4>1. pull'[d][l].at = pull[d][l].at /\ pull'[d][l].of = pull[d][l].of
        BY <1>3, <1>4, <3>2
      <4>2. QED
        BY <1>1, <2>2, <4>1 DEF Typed, ManifestOK
    <3>3. QED
      BY <3>1, <3>2
  <2>3. QED
    BY <2>1, <2>2 DEF Typed, ManifestOK
<1>6. CASE met
  BY <1>5, <1>6 DEF TransferInv, Typed
<1>7. CASE ~met
  <2>1. OneCall /\ c \in open
    BY <1>7 DEF TransferInv, OneCall, Idle
  <2>2. ASSUME NEW d \in Calls, NEW l \in Kinds, d # c \/ l # k
        PROVE  pull'[d][l] = pull[d][l]
    <3>1. CASE l # k
      BY <1>3, <1>4, <3>1
    <3>2. CASE d # c
      <4>1. pull[d][l] = Idle
        BY <2>1, <3>2 DEF OneCall
      <4>2. f[d][l] = pull[d][l]
        BY <1>3, <4>1, SMTT(30) DEF Idle
      <4>3. QED
        BY <1>4, <3>2, <4>2
    <3>3. QED
      BY <2>2, <3>1, <3>2
  <2>3. OneCall'
    <3>1. ASSUME NEW d \in Calls, NEW l \in Kinds, d \notin open PROVE pull'[d][l] = Idle
      BY <2>1, <2>2, <3>1, ZenonT(60) DEF OneCall
    <3>2. QED
      BY <2>1, <3>1 DEF OneCall
  <2>4. ASSUME NEW d \in Calls, NEW l \in Kinds
        PROVE  Downloads(pull'[d][l], l, partial'[l], published'[l])
    <3>1. CASE l = k /\ d = c
      BY <1>4, <1>7, <3>1
    <3>2. CASE l = k /\ d # c
      <4>1. pull'[d][l] = Idle
        BY <2>1, <2>2, <3>2, ZenonT(60) DEF OneCall
      <4>2. QED
        BY <4>1 DEF Downloads, Idle
    <3>3. CASE l # k
      <4>1. Downloads(pull[d][l], l, partial[l], published[l])
        BY <1>7 DEF TransferInv
      <4>2. QED
        BY <2>2, <3>3, <4>1
    <3>4. QED
      BY <3>1, <3>2, <3>3
  <2>5. ASSUME ~torn', NEW l \in Kinds PROVE RegisteredAt(l)'
    <3>1. RegisteredAt(l)
      BY <1>7, <2>5 DEF TransferInv
    <3>2. CASE l # k
      BY <2>2, <3>1, <3>2 DEF RegisteredAt
    <3>3. CASE l = k
      <4>1. CASE p.at = "sync"
        BY <1>4, <3>3, <4>1 DEF RegisteredAt
      <4>2. CASE registered'[k] # 0 => published'[k] = Content(k, registered'[k])
        BY <3>3, <4>2 DEF RegisteredAt
      <4>3. CASE /\ pull[c][k].at # "sync"
                 /\ registered'[k] = registered[k] /\ published'[k] = published[k]
        <5>1. (\A d \in Calls : pull'[d][l].at # "sync") => \A d \in Calls : pull[d][l].at # "sync"
          BY <2>2, <3>3, <4>3
        <5>2. QED
          BY <3>1, <3>3, <4>3, <5>1 DEF RegisteredAt
      <4>4. QED
        BY <1>7, <2>5, <4>1, <4>2, <4>3
    <3>4. QED
      BY <3>2, <3>3
  <2>6. QED
    BY <1>5, <2>3, <2>4, <2>5 DEF TransferInv, Typed
<1>8. QED
  BY <1>6, <1>7


\* What is known of a pull before its step.
LEMMA PullFacts ==
    ASSUME TransferInv, NEW c \in Calls, NEW k \in Kinds
    PROVE  /\ pull \in Pulling /\ pull[c][k] \in Pull
           /\ pull[c][k].at \in {"stat", "fetch", "body", "verify", "rename", "sync"} =>
                 pull[c][k].of \in Generations
           /\ partial \in [Kinds -> Seq(Bytes)] /\ published \in [Kinds -> Seq(Bytes)]
           /\ partial[k] \in Seq(Bytes) /\ published[k] \in Seq(Bytes)
           /\ registered \in [Kinds -> 0..MaxGenerations] /\ torn \in BOOLEAN
           /\ ~met => Downloads(pull[c][k], k, partial[k], published[k])
<1>1. TransferTypeOK /\ ManifestOK
  BY DEF TransferInv
<1>2. pull \in Pulling /\ pull[c][k] \in Pull
  BY <1>1 DEF TransferTypeOK, Pulling
<1>3. pull[c][k].at \in {"stat", "fetch", "body", "verify", "rename", "sync"} =>
         pull[c][k].of \in Generations
  <2>1. pull[c][k].of \in 0..MaxGenerations
    BY <1>2 DEF Pull
  <2>2. QED
    BY <1>1, <2>1, TransferConstants DEF ManifestOK, Generations
<1>4. QED
  BY <1>1, <1>2, <1>3 DEF TransferTypeOK, TransferInv, Bytes

Failed == [Idle EXCEPT !.at = "failed"]

LEMMA FailedPull ==
    /\ Failed \in Pull /\ Failed.at = "failed" /\ Failed.fd = "none"
    /\ [Idle EXCEPT !.at = "ok"] \in Pull
    /\ [Idle EXCEPT !.at = "ok"].at = "ok" /\ [Idle EXCEPT !.at = "ok"].fd = "none"
    /\ \A k, file, final : /\ Downloads(Failed, k, file, final)
                           /\ Downloads([Idle EXCEPT !.at = "ok"], k, file, final)
<1>1. /\ Failed \in Pull /\ Failed.at = "failed" /\ Failed.fd = "none"
  BY IdleTyped DEF Failed, Pull, Idle
<1>2. /\ [Idle EXCEPT !.at = "ok"] \in Pull
      /\ [Idle EXCEPT !.at = "ok"].at = "ok" /\ [Idle EXCEPT !.at = "ok"].fd = "none"
  BY IdleTyped DEF Pull, Idle
<1>3. QED
  BY <1>1, <1>2 DEF Downloads

\* A pull that fails leaves the files.
LEMMA Failing ==
    ASSUME TransferInv, NEW c \in Calls, NEW k \in Kinds, Fails(c, k),
           pull[c][k].at \notin {"idle", "sync"},
           UNCHANGED <<source, open, files, registered, met, torn>>, faults' = faults \/ Fault
    PROVE  TransferInv'
<1>1. pull \in Pulling /\ pull' = [pull EXCEPT ![c][k] = Failed]
  BY PullFacts DEF Fails, Failed
<1>2. Failed \in Pull /\ Failed.at = "failed"
  BY FailedPull
<1>3. Downloads(Failed, k, partial'[k], published'[k])
  BY FailedPull
<1>4. /\ partial' \in [Kinds -> Seq(Bytes)] /\ published' \in [Kinds -> Seq(Bytes)]
      /\ registered' \in [Kinds -> 0..MaxGenerations] /\ torn' \in BOOLEAN
  BY PullFacts DEF files
<1>5. QED
  BY <1>1, <1>2, <1>3, <1>4, TransferStep DEF files

LEMMA Interrupts ==
    ASSUME TransferInv, NEW c \in Calls, NEW k \in Kinds, Interrupted(c, k) PROVE TransferInv'
<1>1. pull[c][k].at \notin {"idle", "sync"} /\ Fails(c, k) /\ (faults' = faults \/ Fault)
  BY DEF Interrupted
<1>2. QED
  BY <1>1, Failing DEF Interrupted

LEMMA Resumes ==
    ASSUME TransferInv, NEW c \in Calls, NEW k \in Kinds, ResumeFromPartial(c, k)
    PROVE  TransferInv'
<1> DEFINE size == Sizes[k][pull[c][k].of]
           long == partial[k] # NoFile /\ Len(partial[k]) > size
           sum  == IF partial[k] = NoFile \/ long THEN <<>> ELSE partial[k]
           f    == IF long THEN After(Unlinked, k) ELSE pull
           at   == IF Len(sum) < size THEN "fetch" ELSE "verify"
           p    == [f[c][k] EXCEPT !.at = at, !.sum = sum, !.append = (sum # <<>>)]
<1>1. /\ pull[c][k].at = "stat"
      /\ pull' = [f EXCEPT ![c][k].at = at, ![c][k].sum = sum, ![c][k].append = (sum # <<>>)]
      /\ partial' = IF long THEN [partial EXCEPT ![k] = NoFile] ELSE partial
      /\ UNCHANGED <<source, open, published, registered, met, torn, faults>>
  BY DEF ResumeFromPartial
<1>2. f \in Pulling /\ f[c][k] \in Pull /\ f[c][k].of = pull[c][k].of
  BY PullFacts, AfterTyped, Changes DEF Pulling
<1>3. sum \in Seq(Bytes)
  BY PullFacts
<1>4. pull' = [f EXCEPT ![c][k] = p]
  <2> HIDE DEF f, at, sum
  <2>1. QED
    BY <1>1, <1>2 DEF Pulling
<1>5. /\ p \in Pull /\ p.at = at /\ p.sum = sum /\ p.of # 0 /\ p.fd = f[c][k].fd
      /\ sum = <<>> => p.append = FALSE
      /\ sum # <<>> => p.append = TRUE
  <2>1. at \in {"fetch", "verify"}
    <3> HIDE DEF sum, size
    <3>1. CASE Len(sum) < size
      BY <3>1
    <3>2. CASE ~(Len(sum) < size)
      BY <3>2
    <3>3. QED
      BY <3>1, <3>2
  <2> HIDE DEF at, sum, f, size, long
  <2>2. pull[c][k].of # 0
    BY <1>1, PullFacts DEF Generations
  <2>3. p \in Pull
    <3>1. CASE sum = <<>>
      BY <1>2, <1>3, <2>1, <3>1 DEF Pull, Bytes
    <3>2. CASE sum # <<>>
      BY <1>2, <1>3, <2>1, <3>2 DEF Pull, Bytes
    <3>3. QED
      BY <3>1, <3>2
  <2>4. /\ sum = <<>> => p.append = FALSE
        /\ sum # <<>> => p.append = TRUE
    BY <1>2 DEF Pull
  <2>5. p.at = at /\ p.sum = sum /\ p.of = f[c][k].of /\ p.fd = f[c][k].fd
    BY <1>2 DEF Pull
  <2>6. QED
    BY <1>2, <2>2, <2>3, <2>4, <2>5
<1>6. ~met => Downloads(p, k, partial'[k], published'[k])
  <2>1. CASE met
    BY <2>1
  <2>2. CASE ~met
    <3>1. pull[c][k].fd = "none"
      BY <1>1, <2>2, PullFacts DEF Downloads
    <3>2. f[c][k] = pull[c][k]
      BY <3>1, PullFacts, AfterTyped, Changes
    <3>3. partial'[k] = IF long THEN NoFile ELSE partial[k]
      BY <1>1, PullFacts
    <3>4. /\ p.at = at /\ at \in {"fetch", "verify"} /\ p.fd = "none"
          /\ p.sum = sum
          /\ sum = <<>> => p.append = FALSE
          /\ sum # <<>> => p.append = TRUE
      BY <1>5, <3>1, <3>2
    <3>5. sum # <<>> => partial'[k] = sum /\ partial'[k] # NoFile
      BY <3>3
    <3>6. partial'[k] \in {sum, NoFile}
      BY <3>3
    <3> HIDE DEF at, sum, p
    <3>7. QED
      BY <3>4, <3>5, <3>6 DEF Downloads
  <2>3. QED
    BY <2>1, <2>2
<1>7. /\ partial' \in [Kinds -> Seq(Bytes)] /\ published' \in [Kinds -> Seq(Bytes)]
      /\ registered' \in [Kinds -> 0..MaxGenerations] /\ torn' \in BOOLEAN
      /\ \A l \in Kinds : l # k => partial'[l] = partial[l]
  BY <1>1, PullFacts, NoFileTyped
<1>8. f = pull \/ f = After(Unlinked, k)
  OBVIOUS
<1>9. /\ pull[c][k].at = "stat" /\ p.of # 0
      /\ UNCHANGED <<source, open, published, registered, met, torn, faults>>
  BY <1>1, <1>5
<1> HIDE DEF f, p
<1>10. QED
  BY <1>2, <1>4, <1>5, <1>6, <1>7, <1>8, <1>9, TransferStep

LEMMA Fetches ==
    ASSUME TransferInv, NEW c \in Calls, NEW k \in Kinds, Fetch(c, k)
    PROVE  TransferInv'
<1>1. pull[c][k].at = "fetch"
  BY DEF Fetch
<1>2. CASE Fails(c, k) /\ UNCHANGED partial
  BY <1>1, <1>2, Failing DEF Fetch, files
<1>3. CASE /\ pull' = [pull EXCEPT ![c][k].at = "body", ![c][k].fd = "partial"]
           /\ partial' = [partial EXCEPT ![k] =
                            IF pull[c][k].append /\ @ # NoFile THEN @ ELSE <<>>]
  <2> DEFINE p == [pull[c][k] EXCEPT !.at = "body", !.fd = "partial"]
  <2>1. pull \in Pulling /\ pull[c][k] \in Pull /\ pull[c][k].of # 0
    BY <1>1, PullFacts DEF Generations
  <2>2. pull' = [pull EXCEPT ![c][k] = p]
    BY <1>3, <2>1 DEF Pulling
  <2>3. p \in Pull /\ p.at = "body" /\ p.fd = "partial" /\ p.sum = pull[c][k].sum /\ p.of # 0
    BY <2>1 DEF Pull
  <2>4. partial'[k] = IF pull[c][k].append /\ partial[k] # NoFile THEN partial[k] ELSE <<>>
    BY <1>3, PullFacts
  <2>5. /\ partial' \in [Kinds -> Seq(Bytes)] /\ published' \in [Kinds -> Seq(Bytes)]
        /\ registered' \in [Kinds -> 0..MaxGenerations] /\ torn' \in BOOLEAN
        /\ \A l \in Kinds : l # k => partial'[l] = partial[l]
    BY <1>3, PullFacts DEF Fetch
  <2>6. ~met => partial'[k] = pull[c][k].sum
    BY <1>1, <2>4, PullFacts DEF Downloads
  <2>7. ~met => Downloads(p, k, partial'[k], published'[k])
    <3> HIDE DEF p
    <3>1. QED
      BY <2>3, <2>6 DEF Downloads
  <2> HIDE DEF p
  <2>8. QED
    BY <1>1, <2>1, <2>2, <2>3, <2>5, <2>7, TransferStep, ZenonT(60) DEF Fetch
<1>4. QED
  BY <1>2, <1>3 DEF Fetch

LEMMA Downloading ==
    ASSUME TransferInv, NEW c \in Calls, NEW k \in Kinds, Chunk(c, k)
    PROVE  TransferInv'
<1> DEFINE old == pull[c][k]
           i   == Len(old.sum) + 1
           b   == Served(k, old.of, i)
           p   == IF i < Sizes[k][old.of] THEN [old EXCEPT !.sum = Append(@, b)]
                  ELSE [old EXCEPT !.sum = Append(@, b), !.at = "verify", !.fd = "none"]
           written(name, file) ==
               IF old.fd = name THEN [file EXCEPT ![k] = Write(@, old.append, b, i)] ELSE file
<1>1. /\ old.at = "body" /\ pull' = [pull EXCEPT ![c][k] = p]
      /\ partial' = written("partial", partial) /\ published' = written("published", published)
      /\ UNCHANGED <<source, open, registered, met, torn, faults>>
  BY DEF Chunk
<1>2. /\ pull \in Pulling /\ old \in Pull /\ old.of \in Generations /\ old.of # 0
      /\ old.sum \in Seq(Bytes) /\ old.append \in BOOLEAN /\ i \in Nat
  <2>1. pull \in Pulling /\ old \in Pull /\ old.of \in Generations
    BY <1>1, PullFacts
  <2>2. QED
    BY <2>1 DEF Pull, Bytes, Generations
<1>3. b \in Bytes
  <2>1. generation \in Nat /\ old.of \in Nat
    BY <1>2 DEF TransferInv, TransferTypeOK, Generations
  <2>2. QED
    BY <1>2, <2>1 DEF Served, Bytes
<1>4. Append(old.sum, b) \in Seq(Bytes)
  BY <1>2, <1>3
<1> HIDE DEF b, i
<1>5. /\ p \in Pull /\ p.of # 0 /\ p.sum = Append(old.sum, b)
      /\ \/ p.at = "body" /\ p.fd = old.fd
         \/ p.at = "verify" /\ p.fd = "none"
  BY <1>1, <1>2, <1>4 DEF Pull, Bytes
<1>6. \A file \in [Kinds -> Seq(Bytes)] : \A name :
         /\ written(name, file) \in [Kinds -> Seq(Bytes)]
         /\ \A l \in Kinds : l # k => written(name, file)[l] = file[l]
  BY <1>2, <1>3, WriteTyped
<1>7. ~met => partial'[k] = Append(old.sum, b) /\ published' = published
  <2> SUFFICES ASSUME ~met PROVE partial'[k] = Append(old.sum, b) /\ published' = published
    OBVIOUS
  <2>1. old.fd = "partial" /\ partial[k] = old.sum
    BY <1>1, PullFacts DEF Downloads
  <2>2. Write(partial[k], old.append, b, i) = Append(old.sum, b)
    BY <1>2, <1>3, <2>1, WriteAtEnd DEF i
  <2>3. QED
    BY <1>1, <2>1, <2>2, PullFacts
<1>8. ~met => Downloads(p, k, partial'[k], published'[k])
  <2>1. ~met => old.fd = "partial"
    BY <1>1, PullFacts DEF Downloads
  <2> HIDE DEF p
  <2>2. QED
    BY <1>5, <1>7, <2>1 DEF Downloads
<1>9. /\ partial' \in [Kinds -> Seq(Bytes)] /\ published' \in [Kinds -> Seq(Bytes)]
      /\ \A l \in Kinds : l # k => partial'[l] = partial[l] /\ published'[l] = published[l]
  BY <1>1, <1>6, PullFacts
<1>10. registered' \in [Kinds -> 0..MaxGenerations] /\ torn' \in BOOLEAN
  BY <1>1, PullFacts
<1> HIDE DEF p, written
<1>11. QED
  BY <1>1, <1>2, <1>5, <1>7, <1>8, <1>9, <1>10, TransferStep

LEMMA Verifies ==
    ASSUME TransferInv, NEW c \in Calls, NEW k \in Kinds, VerifyOrDiscard(c, k)
    PROVE  TransferInv'
<1>1. /\ pull[c][k].at = "verify"
      /\ UNCHANGED <<source, open, published, registered, met, torn, faults>>
  BY DEF VerifyOrDiscard
<1>2. /\ pull \in Pulling /\ pull[c][k] \in Pull /\ pull[c][k].of # 0
      /\ partial \in [Kinds -> Seq(Bytes)] /\ published \in [Kinds -> Seq(Bytes)]
      /\ registered \in [Kinds -> 0..MaxGenerations] /\ torn \in BOOLEAN
  BY <1>1, PullFacts DEF Generations
<1>3. CASE /\ pull[c][k].sum = Content(k, pull[c][k].of)
           /\ pull' = [pull EXCEPT ![c][k].at = "rename"] /\ partial' = partial
  <2> DEFINE p == [pull[c][k] EXCEPT !.at = "rename"]
  <2>1. pull' = [pull EXCEPT ![c][k] = p]
    BY <1>2, <1>3 DEF Pulling
  <2>2. /\ p \in Pull /\ p.at = "rename" /\ p.of = pull[c][k].of /\ p.fd = pull[c][k].fd
    BY <1>2 DEF Pull
  <2>3. ~met => pull[c][k].fd = "none" /\ partial[k] \in {Content(k, pull[c][k].of), NoFile}
    BY <1>1, <1>3, PullFacts DEF Downloads
  <2> HIDE DEF p
  <2>4. ~met => Downloads(p, k, partial'[k], published'[k])
    BY <1>3, <2>2, <2>3 DEF Downloads
  <2>5. /\ partial' \in [Kinds -> Seq(Bytes)] /\ published' \in [Kinds -> Seq(Bytes)]
        /\ registered' \in [Kinds -> 0..MaxGenerations] /\ torn' \in BOOLEAN
        /\ p.of # 0 /\ partial' = partial
    BY <1>1, <1>2, <1>3, <2>2
  <2>6. QED
    BY <1>1, <1>2, <2>1, <2>2, <2>4, <2>5, TransferStep
<1>4. CASE /\ pull' = [After(Unlinked, k) EXCEPT ![c][k] = Failed]
           /\ partial' = [partial EXCEPT ![k] = NoFile]
  <2>1. After(Unlinked, k) \in Pulling
    BY <1>2, AfterTyped, Changes
  <2>2. Failed \in Pull /\ Failed.at = "failed" /\ Downloads(Failed, k, partial'[k], published'[k])
    BY FailedPull
  <2>3. partial' \in [Kinds -> Seq(Bytes)] /\ \A l \in Kinds : l # k => partial'[l] = partial[l]
    BY <1>2, <1>4, NoFileTyped
  <2>4. QED
    BY <1>1, <1>2, <1>4, <2>1, <2>2, <2>3, TransferStep
<1>5. QED
  BY <1>3, <1>4 DEF VerifyOrDiscard, Failed

LEMMA Commits ==
    ASSUME TransferInv, NEW c \in Calls, NEW k \in Kinds, Commit(c, k)
    PROVE  TransferInv'
<1>1. /\ pull[c][k].at = "rename"
      /\ UNCHANGED <<source, open, registered, met, torn, faults>>
  BY DEF Commit
<1>2. /\ pull \in Pulling /\ pull[c][k] \in Pull /\ pull[c][k].of # 0
      /\ partial \in [Kinds -> Seq(Bytes)] /\ published \in [Kinds -> Seq(Bytes)]
      /\ registered \in [Kinds -> 0..MaxGenerations] /\ torn \in BOOLEAN
  BY <1>1, PullFacts DEF Generations
<1>3. CASE Fails(c, k) /\ UNCHANGED files
  BY <1>1, <1>3, Failing
<1>4. CASE /\ partial[k] # NoFile
           /\ published' = [published EXCEPT ![k] = partial[k]]
           /\ partial' = [partial EXCEPT ![k] = NoFile]
           /\ pull' = [After(Renamed, k) EXCEPT ![c][k].at = "sync"]
  <2> DEFINE f == After(Renamed, k)
             p == [f[c][k] EXCEPT !.at = "sync"]
  <2>1. f \in Pulling /\ f[c][k] \in Pull /\ f[c][k].of = pull[c][k].of
    BY <1>2, AfterTyped, Changes DEF Pulling
  <2> HIDE DEF f
  <2>2. pull' = [f EXCEPT ![c][k] = p]
    BY <1>4, <2>1 DEF Pulling, f
  <2>3. p \in Pull /\ p.at = "sync" /\ p.of = pull[c][k].of /\ p.fd = f[c][k].fd
    BY <2>1 DEF Pull
  <2>4. /\ partial' \in [Kinds -> Seq(Bytes)] /\ published' \in [Kinds -> Seq(Bytes)]
        /\ published'[k] = partial[k]
        /\ \A l \in Kinds : l # k => partial'[l] = partial[l] /\ published'[l] = published[l]
    BY <1>2, <1>4, NoFileTyped
  <2> HIDE DEF p
  <2>5. ~met => Downloads(p, k, partial'[k], published'[k])
    <3> SUFFICES ASSUME ~met PROVE Downloads(p, k, partial'[k], published'[k])
      OBVIOUS
    <3>1. pull[c][k].fd = "none" /\ partial[k] = Content(k, pull[c][k].of)
      BY <1>1, <1>4, PullFacts DEF Downloads
    <3>2. f[c][k] = pull[c][k]
      BY <1>2, <3>1, AfterTyped, Changes DEF f
    <3>3. QED
      BY <2>3, <2>4, <3>1, <3>2 DEF Downloads
  <2>6. f = After(Renamed, k)
    BY DEF f
  <2>7. QED
    BY <1>1, <1>2, <2>1, <2>2, <2>3, <2>4, <2>5, <2>6, TransferStep
<1>5. QED
  BY <1>3, <1>4 DEF Commit

\* A failed directory sync is the exception that torn names.
LEMMA Registering ==
    ASSUME TransferInv, NEW c \in Calls, NEW k \in Kinds, Registers(c, k)
    PROVE  TransferInv'
<1>1. pull[c][k].at = "sync" /\ UNCHANGED <<source, open, files, met>>
  BY DEF Registers
<1>2. /\ pull \in Pulling /\ pull[c][k].of \in Generations
      /\ partial' \in [Kinds -> Seq(Bytes)] /\ published' \in [Kinds -> Seq(Bytes)]
      /\ registered \in [Kinds -> 0..MaxGenerations] /\ torn \in BOOLEAN
      /\ \A l \in Kinds : partial'[l] = partial[l] /\ published'[l] = published[l]
  BY <1>1, PullFacts DEF files
<1>3. CASE /\ pull' = [pull EXCEPT ![c][k] = [Idle EXCEPT !.at = "ok"]]
           /\ registered' = [registered EXCEPT ![k] = pull[c][k].of]
           /\ UNCHANGED <<torn, faults>>
  <2> DEFINE p == [Idle EXCEPT !.at = "ok"]
  <2>1. p \in Pull /\ p.at = "ok" /\ Downloads(p, k, partial'[k], published'[k])
    BY FailedPull
  <2>2. pull' = [pull EXCEPT ![c][k] = p]
    BY <1>3
  <2> HIDE DEF p
  <2>3. /\ registered' \in [Kinds -> 0..MaxGenerations] /\ registered'[k] = pull[c][k].of
        /\ \A l \in Kinds : l # k => registered'[l] = registered[l]
    BY <1>2, <1>3 DEF Generations
  <2>4. ~met => published'[k] = Content(k, registered'[k])
    BY <1>1, <1>2, <2>3, PullFacts DEF Downloads
  <2>5. torn' \in BOOLEAN /\ (~torn' => ~torn) /\ faults' = faults /\ met' = met
    BY <1>1, <1>2, <1>3
  <2>6. pull[c][k].at # "idle" /\ UNCHANGED <<source, open>>
    BY <1>1
  <2>7. QED
    BY <1>2, <2>1, <2>2, <2>3, <2>4, <2>5, <2>6, TransferStep
<1>4. CASE Fault /\ torn' = TRUE /\ Fails(c, k) /\ UNCHANGED registered
  <2>1. pull' = [pull EXCEPT ![c][k] = Failed]
    BY <1>4 DEF Fails, Failed
  <2>2. Failed \in Pull /\ Failed.at = "failed" /\ Downloads(Failed, k, partial'[k], published'[k])
    BY FailedPull
  <2>3. QED
    BY <1>1, <1>2, <1>4, <2>1, <2>2, TransferStep
<1>5. QED
  BY <1>3, <1>4 DEF Registers

\* A call begins when no other runs, or has met one.
LEMMA Begins ==
    ASSUME TransferInv, NEW c \in Calls, NEW g \in 1..generation, Transfer(c, g)
    PROVE  TransferInv'
<1> DEFINE start == [Idle EXCEPT !.at = "stat", !.of = g]
<1>1. /\ pull' = [pull EXCEPT ![c] = [k \in Kinds |-> start]]
      /\ open' = open \cup {c} /\ met' = (met \/ open # {})
      /\ UNCHANGED <<partial, published, registered, torn>>
  BY DEF Transfer, files
<1>2. Typed'
  BY TransferTyped DEF Typed, TransferInv
<1>3. CASE met'
  BY <1>2, <1>3 DEF TransferInv, Typed
<1>4. CASE ~met'
  <2>1. ~met /\ open = {}
    BY <1>1, <1>4
  <2>2. /\ \A k \in Kinds : pull'[c][k] = start
        /\ \A d \in Calls, k \in Kinds : d # c => pull'[d][k] = Idle
    BY <1>1, <2>1 DEF TransferInv, OneCall, TransferTypeOK
  <2>3. OneCall'
    BY <1>1, <2>1, <2>2 DEF OneCall
  <2>4. start.at = "stat" /\ start.fd = "none" /\ start.sum = <<>>
    BY DEF Idle
  <2> HIDE DEF start
  <2>5. \A d \in Calls, k \in Kinds : Downloads(pull'[d][k], k, partial'[k], published'[k])
    <3>1. \A k, file, final : Downloads(start, k, file, final) /\ Downloads(Idle, k, file, final)
      BY <2>4 DEF Downloads, Idle
    <3>2. QED
      BY <2>2, <3>1
  <2>6. ~torn' => \A k \in Kinds : RegisteredAt(k)'
    <3>1. ~torn => \A k \in Kinds : RegisteredAt(k)
      BY <2>1 DEF TransferInv
    <3>2. ASSUME NEW d \in Calls, NEW k \in Kinds PROVE pull[d][k].at # "sync"
      <4>1. pull[d][k] = Idle
        BY <2>1 DEF TransferInv, OneCall
      <4>2. QED
        BY <4>1 DEF Idle
    <3>3. QED
      BY <1>1, <3>1, <3>2 DEF RegisteredAt
  <2>7. QED
    BY <1>2, <1>4, <2>3, <2>5, <2>6 DEF TransferInv, Typed
<1>5. QED
  BY <1>3, <1>4

LEMMA Ends == ASSUME TransferInv, NEW c \in Calls, TransferEnds(c) PROVE TransferInv'
<1>1. /\ pull' = [pull EXCEPT ![c] = [k \in Kinds |-> IF Settled(c, k) THEN Idle ELSE @[k]]]
      /\ open' = open \ {c} /\ AllSettled(c)
      /\ UNCHANGED <<partial, published, registered, met, torn>>
  BY DEF TransferEnds, files
<1>2. Typed'
  BY EndsTyped DEF Typed, TransferInv
<1>3. /\ \A k \in Kinds : pull'[c][k] = Idle
      /\ \A d \in Calls, k \in Kinds : d # c => pull'[d][k] = pull[d][k]
  BY <1>1 DEF TransferInv, TransferTypeOK, AllSettled
<1>4. CASE met'
  BY <1>2, <1>4 DEF TransferInv, Typed
<1>5. CASE ~met'
  <2>1. OneCall'
    BY <1>1, <1>3, <1>5 DEF TransferInv, OneCall
  <2>2. \A d \in Calls, k \in Kinds : Downloads(pull'[d][k], k, partial'[k], published'[k])
    <3>1. \A k, file, final : Downloads(Idle, k, file, final)
      BY DEF Downloads, Idle
    <3>2. QED
      BY <1>1, <1>3, <1>5, <3>1 DEF TransferInv
  <2>3. ~torn' => \A k \in Kinds : RegisteredAt(k)'
    <3>1. ~torn => \A k \in Kinds : RegisteredAt(k)
      BY <1>1, <1>5 DEF TransferInv
    <3>2. \A k \in Kinds : pull[c][k].at # "sync"
      BY <1>1 DEF AllSettled, Settled
    <3>3. ASSUME NEW k \in Kinds, \A d \in Calls : pull'[d][k].at # "sync"
          PROVE  \A d \in Calls : pull[d][k].at # "sync"
      BY <1>3, <3>2, <3>3
    <3>4. QED
      BY <1>1, <3>1, <3>3 DEF RegisteredAt
  <2>4. QED
    BY <1>2, <1>5, <2>1, <2>2, <2>3 DEF TransferInv, Typed
<1>6. QED
  BY <1>4, <1>5

-----------------------------------------------------------------------------
(* The theorems.                                                           *)

\* Every reachable state satisfies the invariant.
THEOREM TransferInvariant == TransferSpec => []TransferInv
<1>1. TransferInit => TransferInv
  BY TransferInitInv
<1>2. TransferInv /\ [TransferNext]_transferVars => TransferInv'
  <2> SUFFICES ASSUME TransferInv, [TransferNext]_transferVars PROVE TransferInv'
    OBVIOUS
  <2>1. CASE Snapshot \/ SourceRuns
    <3>1. Typed'
      BY <2>1, SourceTyped DEF Typed, TransferInv
    <3>2. UNCHANGED <<open, pull, partial, published, registered, met, torn>>
      BY <2>1 DEF Snapshot, SourceRuns, files
    <3>3. QED
      BY <3>1, <3>2 DEF TransferInv, Typed, OneCall, RegisteredAt
  <2>2. ASSUME NEW c \in Calls, TransferEnds(c) PROVE TransferInv'
    BY <2>2, Ends
  <2>3. ASSUME NEW c \in Calls, NEW g \in 1..generation, Transfer(c, g) PROVE TransferInv'
    BY <2>3, Begins
  <2>4. ASSUME NEW c \in Calls, NEW k \in Kinds, Pulls(c, k) \/ Interrupted(c, k)
        PROVE  TransferInv'
    BY <2>4, Resumes, Fetches, Downloading, Verifies, Commits, Registering, Interrupts DEF Pulls
  <2>5. CASE UNCHANGED transferVars
    <3>1. UNCHANGED <<generation, dirty, open, pull, partial, published, registered, met, torn, faults>>
      BY <2>5 DEF transferVars, source, files
    <3>2. QED
      BY <3>1 DEF TransferInv, TransferTypeOK, ManifestOK, OneCall, RegisteredAt
  <2>6. QED
    BY <2>1, <2>2, <2>3, <2>4, <2>5 DEF TransferNext
<1>3. QED
  BY <1>1, <1>2, PTL DEF TransferSpec

\* The variables keep their types: a pull hashes and writes bytes of its artifact alone.
THEOREM TransferTypes == TransferSpec => []TransferTypeOK
<1>1. TransferInv => TransferTypeOK
  BY DEF TransferInv
<1>2. QED
  BY <1>1, TransferInvariant, PTL

\* What the record describes is what the file holds (transfer.ts, pullArtifact), whatever is
\* interrupted, resumed and replaced, but for the two exceptions of the property.
THEOREM RegisteredArtifactIsPublished == TransferSpec => []RegisteredIsPublished
<1>1. TransferInv => RegisteredIsPublished
  BY DEF TransferInv, RegisteredIsPublished, RegisteredAt
<1>2. QED
  BY <1>1, TransferInvariant, PTL

==============================================================================
