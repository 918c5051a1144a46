------------------------- MODULE ChunkDownloadProofs ------------------------
(***************************************************************************)
(* Proofs about ChunkDownload for any number of aborting and reading       *)
(* threads, any size of the source and of its blocks: type correctness,    *)
(* the order and the end of the bytes, the byte count, and what an abort   *)
(* and a null pointer have to do with the rest.                            *)
(*                                                                         *)
(* The byte count is bounded by the size of the source only because the    *)
(* bytes are accounted for (Bytes); that the state and the download thread *)
(* agree (Stopping) needs to know what the starting thread has not done    *)
(* yet (Starting), since it publishes IN_PROGRESS after the thread runs.   *)
(***************************************************************************)
EXTENDS ChunkDownload, TLAPS

-----------------------------------------------------------------------------
(* Sequences of numbered bytes *)

\* s is the bytes behind the k-th.
Numbered(s, k) == \A i \in 1 .. Len(s) : s[i] = k + i

LEMMA ConcatNumbered ==
    ASSUME NEW S \in SUBSET Int, NEW s \in Seq(S), NEW t \in Seq(S), NEW k \in Int,
           Numbered(s, k), NEW l \in Int, l = k + Len(s), Numbered(t, l)
    PROVE  /\ s \o t \in Seq(S)
           /\ Len(s \o t) = Len(s) + Len(t)
           /\ Numbered(s \o t, k)
<1>1. /\ s \o t \in Seq(S)
      /\ Len(s) \in Nat /\ Len(t) \in Nat
      /\ Len(s \o t) = Len(s) + Len(t)
      /\ \A i \in 1 .. Len(s) + Len(t) :
            (s \o t)[i] = IF i <= Len(s) THEN s[i] ELSE t[i - Len(s)]
  OBVIOUS
<1>2. ASSUME NEW i \in 1 .. Len(s) + Len(t)
      PROVE  (s \o t)[i] = k + i
  <2>1. CASE i <= Len(s)
    BY <1>1, <2>1 DEF Numbered
  <2>2. CASE i > Len(s)
    <3>1. i - Len(s) \in 1 .. Len(t)
      BY <1>1, <2>2
    <3>2. t[i - Len(s)] = k + Len(s) + (i - Len(s))
      BY <3>1 DEF Numbered
    <3> QED
      BY <1>1, <2>2, <3>2
  <2> QED
    BY <1>1, <2>1, <2>2
<1> QED
  BY <1>1, <1>2 DEF Numbered

LEMMA FrontNumbered ==
    ASSUME NEW S \in SUBSET Int, NEW s \in Seq(S), NEW k \in Int, Numbered(s, k),
           NEW n \in 1 .. Len(s)
    PROVE  /\ SubSeq(s, 1, n) \in Seq(S)
           /\ Len(SubSeq(s, 1, n)) = n
           /\ Numbered(SubSeq(s, 1, n), k)
<1>1. /\ Len(s) \in Nat
      /\ SubSeq(s, 1, n) \in Seq(S)
      /\ Len(SubSeq(s, 1, n)) = n
      /\ \A i \in 1 .. n : SubSeq(s, 1, n)[i] = s[i] /\ i \in 1 .. Len(s)
  OBVIOUS
<1> QED
  BY <1>1 DEF Numbered

LEMMA BackNumbered ==
    ASSUME NEW S \in SUBSET Int, NEW s \in Seq(S), NEW k \in Int, Numbered(s, k),
           NEW n \in 1 .. Len(s)
    PROVE  /\ SubSeq(s, n + 1, Len(s)) \in Seq(S)
           /\ Len(SubSeq(s, n + 1, Len(s))) = Len(s) - n
           /\ Numbered(SubSeq(s, n + 1, Len(s)), k + n)
<1>1. /\ Len(s) \in Nat
      /\ SubSeq(s, n + 1, Len(s)) \in Seq(S)
      /\ Len(SubSeq(s, n + 1, Len(s))) = Len(s) - n
      /\ \A i \in 1 .. Len(s) - n :
            SubSeq(s, n + 1, Len(s))[i] = s[n + i] /\ n + i \in 1 .. Len(s)
  OBVIOUS
<1>2. ASSUME NEW i \in 1 .. Len(s) - n
      PROVE  s[n + i] = k + n + i
  <2>1. s[n + i] = k + (n + i)
    BY <1>1 DEF Numbered
  <2> QED
    BY <1>1, <2>1
<1> QED
  BY <1>1, <1>2 DEF Numbered

-----------------------------------------------------------------------------
(* The invariant *)

Pushed == Len(got) + Len(stream)

\* TypeOK without the bound on bytesDownloaded.
Typed ==
    /\ state \in States
    /\ connection \in {"null", "curl", "given"}
    /\ starter \in StarterPcs
    /\ dl \in DownloadPcs
    /\ block \in Seq(1 .. Size)
    /\ ret \in -1 .. MaxBlock
    /\ sent \in 0 .. Size
    /\ errors \in 0 .. MaxErrors
    /\ stream \in Seq(1 .. Size)
    /\ got \in Seq(1 .. Size)
    /\ eos \in BOOLEAN
    /\ bytesDownloaded \in Nat
    /\ aborter \in [Aborters -> AborterPcs]
    /\ reader \in [Readers -> ReaderPcs]

\* What the starting thread has not done, and so cannot have happened yet.
Starting ==
    /\ starter \in {"idle", "create"} => dl = "none"
    /\ starter \in {"idle", "create", "publish"} =>
          state \notin {"IN_PROGRESS", "REQUEST_ABORT", "ABORTED"}
    /\ starter = "connect" => External
    /\ dl # "none" /\ connection = "null" => starter \in {"publish", "connect"}

\* The state and the end of the stream agree with the download thread.
Stopping ==
    /\ dl = "abort" => state = "REQUEST_ABORT"
    /\ state \in {"ABORTED", "COMPLETED"} => dl \in {"eos", "done"}
    /\ eos => dl = "done"
    /\ \A a \in Aborters :
          aborter[a] \in {"wait", "sleep", "woken"} =>
             state \in {"REQUEST_ABORT", "ABORTED", "COMPLETED"} \/ dl \in {"eos", "done"}
    /\ \A r \in Readers : reader[r] = "ended" => eos /\ stream = <<>>

\* Where the bytes that the source has sent are.
Bytes ==
    /\ Numbered(got, 0)
    /\ Numbered(stream, Len(got))
    /\ dl \in {"callback", "push", "count"} => ret = Len(block)
    /\ dl \in {"callback", "push"} =>
          Numbered(block, Pushed) /\ Pushed + Len(block) = sent
    /\ dl \notin {"callback", "push"} =>
          /\ Pushed <= sent
          /\ External \/ dl \in {"none", "fetch", "count", "check"} => Pushed = sent
    /\ dl = "callback" => ~ External
    /\ bytesDownloaded = Pushed - (IF dl = "count" THEN Len(block) ELSE 0)

IInv == Typed /\ Starting /\ Stopping /\ Bytes

LEMMA Lengths ==
    ASSUME Typed
    PROVE  /\ Len(got) \in Nat /\ Len(stream) \in Nat /\ Len(block) \in Nat
           /\ Pushed \in Nat
           /\ 1 .. Size \in SUBSET Int
  BY ChunkAssumption DEF Typed, Pushed

LEMMA InvInit ==
    ASSUME Init
    PROVE  IInv
<1>1. Typed
  <2>1. /\ 0 \in 0 .. Size /\ 0 \in -1 .. MaxBlock /\ 0 \in 0 .. MaxErrors
        /\ <<>> \in Seq(1 .. Size)
    BY ChunkAssumption
  <2>2. /\ aborter \in [Aborters -> AborterPcs]
        /\ reader \in [Readers -> ReaderPcs]
    BY DEF Init, AborterPcs, ReaderPcs
  <2>3. eos \in BOOLEAN
    BY DEF Init
  <2> QED
    BY <2>1, <2>2, <2>3 DEF Init, Typed, States, StarterPcs, DownloadPcs
<1>2. Starting /\ Stopping
  BY DEF Init, Starting, Stopping, External
<1>3. Bytes
  <2>1. Len(got) = 0 /\ Len(stream) = 0
    BY DEF Init
  <2> QED
    BY <2>1 DEF Init, Bytes, Pushed, Numbered, External
<1> QED
  BY <1>1, <1>2, <1>3 DEF IInv

-----------------------------------------------------------------------------
(* The steps *)

\* Waking threads keeps the types of their positions, and ends none.
LEMMA WakeTyped ==
    ASSUME Typed, NEW s, SetState(s)
    PROVE  state' = s /\ aborter' \in [Aborters -> AborterPcs]
  BY DEF Typed, SetState, AborterPcs

LEMMA WakeReadersTyped ==
    ASSUME Typed, WakeReaders
    PROVE  /\ reader' \in [Readers -> ReaderPcs]
           /\ \A r \in Readers : reader'[r] = "ended" => reader[r] = "ended"
  BY DEF Typed, WakeReaders, ReaderPcs

LEMMA InvStarter ==
    ASSUME IInv, StarterStep
    PROVE  IInv'
<1> USE DEF IInv
<1>1. ASSUME NEW from \in {"curl", "null"}, StartDownload(from)
      PROVE  IInv'
  <2>1. Typed' /\ Starting' /\ Stopping'
    BY <1>1 DEF StartDownload, Typed, Starting, Stopping, StarterPcs, External,
                source, blockStream
  <2>2. Bytes'
    BY <1>1, Lengths DEF StartDownload, Starting, Bytes, Pushed, Numbered, External,
                         source, blockStream
  <2> QED
    BY <2>1, <2>2
<1>2. CASE CreateThread
  <2>1. Typed' /\ Starting' /\ Stopping'
    BY <1>2 DEF CreateThread, Typed, Starting, Stopping, StarterPcs, DownloadPcs,
                States, External, source, blockStream
  <2>2. Bytes'
    BY <1>2 DEF CreateThread, Starting, Bytes, Pushed, Numbered, External,
                source, blockStream
  <2> QED
    BY <2>1, <2>2
<1>3. CASE PublishInProgress
  <2>1. state' = "IN_PROGRESS" /\ aborter' \in [Aborters -> AborterPcs]
    BY <1>3, WakeTyped DEF PublishInProgress
  <2>2. Typed' /\ Starting'
    BY <1>3, <2>1 DEF PublishInProgress, Typed, Starting, Stopping, StarterPcs,
                      States, External, source, blockStream
  <2>3. state \notin {"REQUEST_ABORT", "ABORTED"}
    BY <1>3 DEF PublishInProgress, Starting
  <2>4. ASSUME NEW a \in Aborters, aborter'[a] \in {"wait", "sleep", "woken"}
        PROVE  dl \in {"eos", "done"}
    BY <1>3, <2>3, <2>4 DEF PublishInProgress, SetState, Stopping
  <2>5. Stopping'
    BY <1>3, <2>1, <2>3, <2>4 DEF PublishInProgress, Starting, Stopping, blockStream
  <2>6. Bytes'
    BY <1>3 DEF PublishInProgress, Bytes, Pushed, Numbered, External, source,
                blockStream
  <2> QED
    BY <2>2, <2>5, <2>6
<1>4. CASE AssignConnection
  <2>1. Typed' /\ Starting' /\ Stopping'
    BY <1>4 DEF AssignConnection, Typed, Starting, Stopping, StarterPcs, External,
                source, blockStream
  <2>2. Bytes'
    BY <1>4 DEF AssignConnection, Starting, Bytes, Pushed, Numbered, External,
                source, blockStream
  <2> QED
    BY <2>1, <2>2
<1> QED
  BY <1>1, <1>2, <1>3, <1>4 DEF StarterStep

\* What the source delivers are the next bytes.
LEMMA Delivered ==
    ASSUME Typed, Bytes, dl = "fetch", NEW k \in 1 .. MaxBlock, Deliver(k)
    PROVE  /\ block' \in Seq(1 .. Size)
           /\ Len(block') = k
           /\ ret' = k
           /\ ret' \in -1 .. MaxBlock
           /\ sent' \in 0 .. Size
           /\ Numbered(block', Pushed)
           /\ Pushed + Len(block') = sent'
<1>1. sent' = sent + k /\ ret' = k /\ block' = [i \in 1 .. k |-> sent + i]
      /\ sent + k <= Size
  BY DEF Deliver
<1>2. Pushed = sent /\ sent \in Nat /\ k \in Nat
  BY ChunkAssumption DEF Bytes, Typed
<1>3. \A i \in 1 .. k : sent + i \in 1 .. Size
  BY <1>1, <1>2, ChunkAssumption
<1>4. block' \in Seq(1 .. Size) /\ Len(block') = k
  BY <1>1, <1>2, <1>3
<1> QED
  BY <1>1, <1>2, <1>4, ChunkAssumption DEF Numbered

LEMMA InvFetch ==
    ASSUME IInv, ReadConnection \/ CurlPerform
    PROVE  IInv'
<1> USE DEF IInv
<1>0. /\ dl = "fetch"
      /\ UNCHANGED <<state, connection, starter, blockStream, bytesDownloaded,
                     aborter, reader>>
  BY DEF ReadConnection, CurlPerform
<1>1. /\ Pushed' = Pushed /\ (External' <=> External)
      /\ stream' = stream /\ got' = got /\ eos' = eos
      /\ Numbered(got', 0) /\ Numbered(stream', Len(got'))
      /\ Pushed = sent /\ bytesDownloaded' = Pushed
  BY <1>0, Lengths DEF Bytes, Pushed, External, blockStream, Numbered
<1>2. ASSUME NEW k \in 1 .. MaxBlock, Deliver(k), UNCHANGED errors,
             dl' = "push" \/ (dl' = "callback" /\ ~ External)
      PROVE  IInv'
  <2>1. Typed'
    BY <1>0, <1>1, <1>2, Delivered DEF Typed, DownloadPcs
  <2>2. Starting' /\ Stopping'
    BY <1>0, <1>1, <1>2 DEF Starting, Stopping, External
  <2>3. Bytes'
    BY <1>1, <1>2, <1>0, Delivered DEF Bytes, Numbered
  <2> QED
    BY <2>1, <2>2, <2>3
<1>3. ASSUME UNCHANGED <<block, sent>>, ret' \in -1 .. MaxBlock,
             errors' \in 0 .. MaxErrors, dl' \in {"crashed", "check", "decide"}
      PROVE  IInv'
  <2>1. Typed' /\ Starting' /\ Stopping'
    BY <1>0, <1>1, <1>3 DEF Typed, Starting, Stopping, DownloadPcs, External
  <2>2. Bytes'
    BY <1>0, <1>1, <1>3, Lengths DEF Bytes
  <2> QED
    BY <2>1, <2>2
<1>4. CASE ReadConnection
  <2>1. CASE dl' = "crashed" /\ UNCHANGED source
    BY <1>3, <2>1 DEF Typed, source
  <2>2. ASSUME NEW k \in 1 .. MaxBlock, Deliver(k), dl' = "push", UNCHANGED errors
        PROVE  IInv'
    BY <1>2, <2>2
  <2>3. CASE ret' = 0 /\ dl' = "check" /\ UNCHANGED <<block, sent, errors>>
    BY <1>3, <2>3, ChunkAssumption DEF Typed
  <2>4. CASE errors < MaxErrors /\ errors' = errors + 1 /\ ret' = -1 /\ dl' = "check"
             /\ UNCHANGED <<block, sent>>
    BY <1>3, <2>4, ChunkAssumption DEF Typed
  <2> QED
    BY <1>4, <2>1, <2>2, <2>3, <2>4 DEF ReadConnection
<1>5. CASE CurlPerform
  <2>1. ASSUME NEW k \in 1 .. MaxBlock, Deliver(k), dl' = "callback"
        PROVE  IInv'
    BY <1>2, <1>5, <2>1 DEF CurlPerform
  <2>2. CASE dl' = "decide" /\ UNCHANGED <<block, ret, sent>>
    BY <1>3, <1>5, <2>2 DEF CurlPerform, Typed
  <2> QED
    BY <1>5, <2>1, <2>2 DEF CurlPerform
<1> QED
  BY <1>4, <1>5

LEMMA InvPush ==
    ASSUME IInv, PushBack
    PROVE  IInv'
<1> USE DEF IInv
<1>0. /\ dl = "push" /\ dl' = "count"
      /\ stream' = stream \o block
      /\ WakeReaders
      /\ UNCHANGED <<state, connection, starter, source, eos, got, bytesDownloaded,
                     aborter>>
  BY DEF PushBack
<1>1. /\ stream' \in Seq(1 .. Size)
      /\ Len(stream') = Len(stream) + Len(block)
      /\ Numbered(stream', Len(got))
  <2>1. Numbered(block, Len(got) + Len(stream))
    BY <1>0 DEF Bytes, Pushed
  <2> QED
    BY <1>0, <2>1, Lengths, ConcatNumbered DEF Typed, Bytes
<1>2. Typed'
  BY <1>0, <1>1, WakeReadersTyped DEF Typed, DownloadPcs, source
<1>3. Starting' /\ Stopping'
  BY <1>0, WakeReadersTyped DEF Starting, Stopping, External
<1>4. Bytes'
  <2>1. Pushed' = Pushed + Len(block) /\ Pushed \in Nat /\ Len(block) \in Nat
    BY <1>0, <1>1, Lengths DEF Pushed
  <2> QED
    BY <1>0, <1>1, <2>1 DEF Bytes, External, source, Numbered
<1> QED
  BY <1>2, <1>3, <1>4

LEMMA InvDownload ==
    ASSUME IInv,
           \/ CurlResponseCallback \/ CountBytes \/ CheckAbort \/ Decide
           \/ Finish \/ SetEOS
    PROVE  IInv'
<1> USE DEF IInv
<1>0. /\ UNCHANGED <<connection, starter, source, stream, got>>
      /\ (External' <=> External) /\ Pushed' = Pushed
      /\ Numbered(got', 0) /\ Numbered(stream', Len(got'))
      /\ Len(block) \in Nat /\ Pushed \in Nat
  <2>1. UNCHANGED <<connection, starter, source, stream, got>>
    BY DEF CurlResponseCallback, CountBytes, CheckAbort, Decide, Finish, SetEOS,
           blockStream
  <2> QED
    BY <2>1, Lengths DEF External, Pushed, Numbered, Bytes
<1>1. CASE CurlResponseCallback
  <2>1. Typed' /\ Starting' /\ Stopping'
    BY <1>1 DEF CurlResponseCallback, Typed, Starting, Stopping, DownloadPcs,
                External, source, blockStream
  <2>2. Bytes'
    BY <1>0, <1>1 DEF CurlResponseCallback, Bytes, Numbered, source
  <2> QED
    BY <2>1, <2>2
<1>2. CASE CountBytes
  <2>1. Typed' /\ Starting' /\ Stopping'
    <3>1. bytesDownloaded' \in Nat
      BY <1>0, <1>2 DEF CountBytes, Typed, Bytes
    <3> QED
      BY <1>2, <3>1 DEF CountBytes, Typed, Starting, Stopping, DownloadPcs, External,
                         source, blockStream
  <2>2. Bytes'
    BY <1>0, <1>2 DEF CountBytes, Bytes, source
  <2> QED
    BY <2>1, <2>2
<1>3. CASE CheckAbort
  <2>1. Typed' /\ Starting' /\ Stopping'
    BY <1>3 DEF CheckAbort, Typed, Starting, Stopping, DownloadPcs, External,
                source, blockStream
  <2>2. Bytes'
    BY <1>0, <1>3 DEF CheckAbort, Bytes, source
  <2> QED
    BY <2>1, <2>2
<1>4. CASE Decide
  <2>1. Typed' /\ Starting' /\ Stopping'
    BY <1>4 DEF Decide, Typed, Starting, Stopping, DownloadPcs, External, source,
                blockStream
  <2>2. Bytes'
    BY <1>0, <1>4 DEF Decide, Bytes, source
  <2> QED
    BY <2>1, <2>2
<1>5. CASE Finish
  <2>1. /\ \/ dl = "abort" /\ state' = "ABORTED"
           \/ dl = "complete" /\ state' = "COMPLETED"
        /\ aborter' \in [Aborters -> AborterPcs]
        /\ dl' = "eos"
        /\ UNCHANGED <<connection, starter, source, blockStream, bytesDownloaded,
                       reader>>
    BY <1>5, WakeTyped DEF Finish
  <2>2. Typed'
    BY <2>1 DEF Typed, States, DownloadPcs, source, blockStream
  <2>3. Starting' /\ Stopping'
    BY <2>1 DEF Starting, Stopping, External, blockStream
  <2>4. Bytes'
    BY <1>0, <2>1 DEF Bytes, source
  <2> QED
    BY <2>2, <2>3, <2>4
<1>6. CASE SetEOS
  <2>1. Typed'
    BY <1>6, WakeReadersTyped DEF SetEOS, Typed, DownloadPcs, source
  <2>2. Starting' /\ Stopping'
    BY <1>6, WakeReadersTyped DEF SetEOS, Starting, Stopping, External
  <2>3. Bytes'
    BY <1>0, <1>6 DEF SetEOS, Bytes, source
  <2> QED
    BY <2>1, <2>2, <2>3
<1> QED
  BY <1>1, <1>2, <1>3, <1>4, <1>5, <1>6

LEMMA InvAborter ==
    ASSUME IInv, NEW a \in Aborters, AbortDownload(a) \/ AborterStep(a)
    PROVE  IInv'
<1> USE DEF IInv
<1>1. /\ state' \in States
      /\ state' = state \/ (state = "IN_PROGRESS" /\ state' = "REQUEST_ABORT")
      /\ aborter' \in [Aborters -> AborterPcs]
      /\ UNCHANGED <<connection, starter, dl, source, blockStream, bytesDownloaded,
                     reader>>
  BY DEF AbortDownload, AborterStep, RequestAbort, CheckAndWait, RecheckAborted,
         Typed, States, AborterPcs
<1>2. Typed' /\ Starting'
  BY <1>1 DEF Typed, Starting, External, source, blockStream
<1>3. ASSUME NEW b \in Aborters, aborter'[b] \in {"wait", "sleep", "woken"}
      PROVE  state' \in {"REQUEST_ABORT", "ABORTED", "COMPLETED"} \/ dl \in {"eos", "done"}
  BY <1>3 DEF AbortDownload, AborterStep, RequestAbort, CheckAndWait, RecheckAborted,
              Typed, States, Stopping
<1>4. Stopping'
  BY <1>1, <1>3 DEF Stopping, blockStream
<1>5. Bytes'
  BY <1>1 DEF Bytes, Pushed, Numbered, External, source, blockStream
<1> QED
  BY <1>2, <1>4, <1>5

LEMMA InvReader ==
    ASSUME IInv, NEW r \in Readers, Read(r) \/ ReaderStep(r)
    PROVE  IInv'
<1> USE DEF IInv
<1>1. CASE Read(r)
  <2>1. Typed' /\ Starting' /\ Stopping'
    BY <1>1 DEF Read, Typed, Starting, Stopping, ReaderPcs, External, source,
                blockStream
  <2>2. Bytes'
    BY <1>1 DEF Read, Bytes, Pushed, Numbered, External, source, blockStream
  <2> QED
    BY <2>1, <2>2
<1>2. ASSUME NEW len \in 1 .. MaxBlock, GetBytes(r, len)
      PROVE  IInv'
  <2>0. /\ reader[r] = "check"
        /\ UNCHANGED <<state, connection, starter, dl, source, eos, bytesDownloaded,
                       aborter>>
    BY <1>2 DEF GetBytes
  <2>1. CASE stream = <<>>
    <3>1. /\ UNCHANGED <<stream, got>>
          /\ \/ reader' = [reader EXCEPT ![r] = "sleep"]
             \/ reader' = [reader EXCEPT ![r] = "ended"] /\ eos
      BY <1>2, <2>1 DEF GetBytes
    <3>2. Typed' /\ Starting' /\ Stopping'
      BY <2>0, <2>1, <3>1 DEF Typed, Starting, Stopping, ReaderPcs, External, source
    <3>3. Bytes'
      BY <2>0, <3>1 DEF Bytes, Pushed, Numbered, External, source
    <3> QED
      BY <3>2, <3>3
  <2>2. CASE stream # <<>>
    <3> DEFINE n == IF len > Len(stream) THEN Len(stream) ELSE len
    <3>1. /\ got' = got \o SubSeq(stream, 1, n)
          /\ stream' = SubSeq(stream, n + 1, Len(stream))
          /\ reader' = [reader EXCEPT ![r] = "idle"]
      BY <1>2, <2>2 DEF GetBytes
    <3>2. Len(stream) \in Nat \ {0} /\ n \in 1 .. Len(stream)
      BY <2>2, ChunkAssumption DEF Typed
    <3> HIDE DEF n
    <3>a. /\ 1 .. Size \in SUBSET Int /\ Len(got) \in Int
          /\ stream \in Seq(1 .. Size) /\ got \in Seq(1 .. Size)
          /\ Numbered(stream, Len(got)) /\ Numbered(got, 0)
      BY Lengths DEF Typed, Bytes
    <3>3. /\ SubSeq(stream, 1, n) \in Seq(1 .. Size)
          /\ Len(SubSeq(stream, 1, n)) = n
          /\ Numbered(SubSeq(stream, 1, n), Len(got))
      BY <3>a, <3>2, FrontNumbered
    <3>4. /\ stream' \in Seq(1 .. Size)
          /\ Len(stream') = Len(stream) - n
          /\ Numbered(stream', Len(got) + n)
      BY <3>a, <3>1, <3>2, BackNumbered
    <3>5. /\ got' \in Seq(1 .. Size)
          /\ Len(got') = Len(got) + n
          /\ Numbered(got', 0)
      <4>1. Len(got) = 0 + Len(got) /\ Len(got) \in Int
        BY Lengths
      <4> DEFINE u == SubSeq(stream, 1, n)
      <4>2. u \in Seq(1 .. Size) /\ Len(u) = n /\ Numbered(u, Len(got))
        BY <3>3
      <4> HIDE DEF u
      <4> DEFINE k == 0
      <4>3. k \in Int /\ Numbered(got, k) /\ Len(got) = k + Len(got)
        BY <3>a, <4>1
      <4> HIDE DEF k
      <4>4. /\ got \o u \in Seq(1 .. Size)
            /\ Len(got \o u) = Len(got) + Len(u)
            /\ Numbered(got \o u, k)
        BY <3>a, <4>1, <4>2, <4>3, ConcatNumbered
      <4>5. got' = got \o u
        BY <3>1 DEF u
      <4> QED
        BY <4>2, <4>4, <4>5 DEF k
    <3>6. Pushed' = Pushed
      BY <3>2, <3>4, <3>5, Lengths DEF Pushed
    <3>7. Typed'
      BY <2>0, <3>1, <3>4, <3>5 DEF Typed, ReaderPcs, source
    <3>8. Starting' /\ Stopping'
      BY <2>0, <2>2, <3>1 DEF Typed, Starting, Stopping, External
    <3>9. Bytes'
      BY <2>0, <3>4, <3>5, <3>6 DEF Bytes, Numbered, External, source
    <3> QED
      BY <3>7, <3>8, <3>9
  <2> QED
    BY <2>1, <2>2
<1> QED
  BY <1>1, <1>2 DEF ReaderStep

LEMMA InvNext ==
    ASSUME IInv, [Next]_vars
    PROVE  IInv'
<1>1. CASE StarterStep
  BY <1>1, InvStarter
<1>2. CASE DownloadStep
  BY <1>2, InvFetch, InvPush, InvDownload DEF DownloadStep
<1>3. CASE \E a \in Aborters : AbortDownload(a) \/ AborterStep(a)
  BY <1>3, InvAborter
<1>4. CASE \E r \in Readers : Read(r) \/ ReaderStep(r)
  BY <1>4, InvReader
<1>5. CASE UNCHANGED vars
  BY <1>5 DEF vars, IInv, Typed, Starting, Stopping, Bytes, Pushed, Numbered,
              External, source, blockStream
<1> QED
  BY <1>1, <1>2, <1>3, <1>4, <1>5 DEF Next

LEMMA Invariance == Spec => []IInv
<1>1. Init => IInv
  BY InvInit
<1>2. IInv /\ [Next]_vars => IInv'
  BY InvNext
<1> QED
  BY <1>1, <1>2, PTL DEF Spec

-----------------------------------------------------------------------------
(* Theorems *)

\* Every variable of a download keeps its type; in particular the byte count
\* never exceeds what the source has.
THEOREM TypeCorrect == Spec => []TypeOK
<1>1. IInv => TypeOK
  <2> SUFFICES ASSUME IInv PROVE TypeOK
    OBVIOUS
  <2>1. bytesDownloaded \in 0 .. Size
    <3>1. /\ Pushed \in Nat /\ Len(block) \in Nat /\ Len(got) \in Nat
          /\ Len(stream) \in Nat /\ sent \in 0 .. Size /\ Size \in Nat
      BY Lengths, ChunkAssumption DEF IInv, Typed
    <3>2. Pushed <= Size
      BY <3>1 DEF IInv, Bytes
    <3>3. bytesDownloaded = Pushed - (IF dl = "count" THEN Len(block) ELSE 0)
      BY DEF IInv, Bytes
    <3>4. bytesDownloaded \in Nat
      BY DEF IInv, Typed
    <3> QED
      BY <3>1, <3>2, <3>3, <3>4
  <2> QED
    BY <2>1 DEF IInv, Typed, TypeOK
<1> QED
  BY <1>1, Invariance, PTL

\* The bytes reach the readers in order and without a gap, whoever reads them.
THEOREM BytesInOrder == Spec => []InOrder
<1>1. IInv => InOrder
  <2> SUFFICES ASSUME IInv PROVE InOrder
    OBVIOUS
  <2> DEFINE pending == IF dl \in {"callback", "push"} THEN block ELSE <<>>
             both == got \o stream
             all == both \o pending
             zero == 0
  <2>1. /\ Pushed \in Nat /\ Len(got) \in Nat /\ Len(stream) \in Nat
        /\ 1 .. Size \in SUBSET Int
        /\ got \in Seq(1 .. Size) /\ stream \in Seq(1 .. Size)
        /\ zero \in Int /\ Numbered(got, zero) /\ Len(got) = zero + Len(got)
        /\ Numbered(stream, Len(got))
    BY Lengths DEF IInv, Typed, Bytes
  <2>2. /\ pending \in Seq(1 .. Size)
        /\ Len(pending) \in Nat
        /\ Numbered(pending, Pushed)
        /\ Pushed + Len(pending) <= sent
        /\ External \/ dl \in {"fetch", "count"} => Pushed + Len(pending) = sent
    <3>1. CASE dl \in {"callback", "push"}
      BY <2>1, <3>1, Lengths DEF IInv, Typed, Bytes
    <3>2. CASE dl \notin {"callback", "push"}
      <4>1. pending = <<>> /\ Len(pending) = 0 /\ pending \in Seq(1 .. Size)
        BY <3>2
      <4>2. Numbered(pending, Pushed)
        BY <4>1 DEF Numbered
      <4> HIDE DEF pending
      <4> QED
        BY <2>1, <3>2, <4>1, <4>2 DEF IInv, Bytes
    <3> QED
      BY <3>1, <3>2
  <2> HIDE DEF zero, pending
  <2>3. both \in Seq(1 .. Size) /\ Len(both) = Pushed /\ Numbered(both, zero)
    BY <2>1, ConcatNumbered DEF Pushed
  <2> HIDE DEF both
  <2>4. Pushed \in Int /\ Pushed = zero + Len(both)
    BY <2>1, <2>3 DEF zero
  <2>5. /\ all \in Seq(1 .. Size)
        /\ Len(all) = Pushed + Len(pending)
        /\ Numbered(all, zero)
    BY <2>1, <2>2, <2>3, <2>4, ConcatNumbered
  <2> HIDE DEF all
  <2>6. \A i \in DOMAIN all : all[i] = i
    <3>1. DOMAIN all = 1 .. Len(all) /\ Len(all) \in Nat
      BY <2>5
    <3>2. \A i \in 1 .. Len(all) : all[i] = zero + i
      BY <2>5 DEF Numbered
    <3> QED
      BY <3>1, <3>2 DEF zero
  <2>7. Len(all) < sent => ~ External /\ dl \notin {"fetch", "count"}
    <3>1. sent \in Int
      BY ChunkAssumption DEF IInv, Typed
    <3> QED
      BY <2>1, <2>2, <2>5, <3>1
  <2> QED
    BY <2>6, <2>7 DEF InOrder, all, both, pending
<1> QED
  BY <1>1, Invariance, PTL

\* A Read that returns 0 has seen the end of everything that will ever come.
THEOREM EndCorrect == Spec => []EndIsFinal
<1>1. IInv => EndIsFinal
  BY DEF IInv, Stopping, EndIsFinal
<1> QED
  BY <1>1, Invariance, PTL

\* Observers are told the number of bytes that have been pushed.
THEOREM CountCorrect == Spec => []CountMatches
<1>1. IInv => CountMatches
  BY DEF IInv, Bytes, Pushed, CountMatches
<1> QED
  BY <1>1, Invariance, PTL

\* No download ends as aborted unless an abort is requested, whatever number of
\* threads abort it and whenever IN_PROGRESS is published.
THEOREM AbortIsRequested == Spec => AbortAfterRequest
<1>1. IInv /\ [Next]_vars
      => [state' = "ABORTED" /\ state # "ABORTED" => state = "REQUEST_ABORT"]_vars
  <2> SUFFICES ASSUME IInv, Next, state' = "ABORTED", state # "ABORTED"
               PROVE  state = "REQUEST_ABORT"
    OBVIOUS
  <2>1. CASE StarterStep
    BY <2>1 DEF StarterStep, StartDownload, CreateThread, PublishInProgress,
                AssignConnection, SetState
  <2>2. CASE DownloadStep
    BY <2>2 DEF DownloadStep, ReadConnection, CurlPerform, CurlResponseCallback,
                PushBack, CountBytes, CheckAbort, Decide, Finish, SetEOS, SetState,
                IInv, Stopping
  <2>3. CASE \E a \in Aborters : AbortDownload(a) \/ AborterStep(a)
    BY <2>3 DEF AbortDownload, AborterStep, RequestAbort, CheckAndWait,
                RecheckAborted
  <2>4. CASE \E r \in Readers : Read(r) \/ ReaderStep(r)
    BY <2>4 DEF Read, ReaderStep, GetBytes
  <2> QED
    BY <2>1, <2>2, <2>3, <2>4 DEF Next
<1> QED
  BY <1>1, Invariance, PTL DEF Spec, AbortAfterRequest

\* An abort whose CheckAndSet found the download under way or over leaves nothing
\* to the download thread but to set the end of stream, for any number of aborts
\* and whenever IN_PROGRESS is published.  Those that came before line 63 or 77
\* are not covered, and nothing of the kind holds for them.
THEOREM AbortIsQuiet == Spec => AbortMeansQuiet
<1> DEFINE Quiet ==
        \A a \in Aborters :
          aborter[a] # "returned" /\ aborter'[a] = "returned"
          => aborter[a] = "unheard" \/ dl \in {"eos", "done"}
<1>1. IInv /\ [Next]_vars => [Quiet]_vars
  <2> SUFFICES ASSUME IInv, Next, NEW a \in Aborters,
                      aborter[a] # "returned", aborter'[a] = "returned",
                      aborter[a] # "unheard"
               PROVE  dl \in {"eos", "done"}
    OBVIOUS
  <2>1. aborter[a] \in {"wait", "woken"} /\ state # "REQUEST_ABORT"
    <3>1. CASE StarterStep
      BY <3>1 DEF StarterStep, StartDownload, CreateThread, PublishInProgress,
                  AssignConnection, SetState, IInv, Typed
    <3>2. CASE DownloadStep
      BY <3>2 DEF DownloadStep, ReadConnection, CurlPerform, CurlResponseCallback,
                  PushBack, CountBytes, CheckAbort, Decide, Finish, SetEOS, SetState,
                  IInv, Typed
    <3>3. ASSUME NEW b \in Aborters, AbortDownload(b) \/ AborterStep(b)
          PROVE  aborter[a] \in {"wait", "woken"} /\ state # "REQUEST_ABORT"
      BY <3>3 DEF AbortDownload, AborterStep, RequestAbort, CheckAndWait,
                  RecheckAborted, IInv, Typed
    <3>4. CASE \E r \in Readers : Read(r) \/ ReaderStep(r)
      BY <3>4 DEF Read, ReaderStep, GetBytes
    <3> QED
      BY <3>1, <3>2, <3>3, <3>4 DEF Next
  <2> QED
    BY <2>1 DEF IInv, Stopping
<1> QED
  BY <1>1, Invariance, PTL DEF Spec, AbortMeansQuiet

\* The null pointer that connection is at first is read only while the starting
\* thread is still inside StartDownload.
THEOREM CrashInStart == Spec => CrashesOnlyInStart
<1>1. IInv /\ [Next]_vars
      => [dl # "crashed" /\ dl' = "crashed" => starter \in {"publish", "connect"}]_vars
  <2> SUFFICES ASSUME IInv, Next, dl # "crashed", dl' = "crashed"
               PROVE  starter \in {"publish", "connect"}
    OBVIOUS
  <2>1. CASE StarterStep
    BY <2>1 DEF StarterStep, StartDownload, CreateThread, PublishInProgress,
                AssignConnection
  <2>2. CASE DownloadStep
    BY <2>2 DEF DownloadStep, ReadConnection, CurlPerform, CurlResponseCallback,
                PushBack, CountBytes, CheckAbort, Decide, Finish, SetEOS,
                IInv, Starting
  <2>3. CASE \E a \in Aborters : AbortDownload(a) \/ AborterStep(a)
    BY <2>3 DEF AbortDownload, AborterStep, RequestAbort, CheckAndWait,
                RecheckAborted
  <2>4. CASE \E r \in Readers : Read(r) \/ ReaderStep(r)
    BY <2>4 DEF Read, ReaderStep, GetBytes
  <2> QED
    BY <2>1, <2>2, <2>3, <2>4 DEF Next
<1> QED
  BY <1>1, Invariance, PTL DEF Spec, CrashesOnlyInStart
=============================================================================
