--------------------------- MODULE ChunkDownload ---------------------------
(***************************************************************************)
(* A chunk that is downloaded by a thread of its own (AbstractChunk.cpp):  *)
(* the thread that starts it, the threads that abort it, the threads that  *)
(* read it, and the download thread.  They share the download state        *)
(* (DownloadStateManager.cpp) and the block stream (SyncedBlockStream.cpp).*)
(*                                                                         *)
(* A method of those two classes holds its lock from its first statement   *)
(* to its last, or to the wait on its condition variable, and is one       *)
(* action; everything between two such calls may interleave.  A thread     *)
(* that waits sleeps until the condition variable is broadcast: setting    *)
(* the state with CheckAndSet wakes nobody.                                *)
(*                                                                         *)
(* The source of the bytes is libcurl (StartDownload()) or an IConnection  *)
(* (StartDownload(connection)).  Bytes are numbered in the order in which  *)
(* it delivers them; how a block stream cuts them into blocks is left to   *)
(* BlockStream.  A connection that returns -1 for ever, which keeps the    *)
(* thread in its loop until somebody aborts, is left out (MaxErrors).      *)
(***************************************************************************)
EXTENDS Integers, Sequences, FiniteSets

CONSTANTS
    Aborters,       \* threads that call AbortDownload
    Readers,        \* threads that call Read
    Size,           \* number of bytes the source has
    MaxBlock,       \* most bytes the source delivers at once
    MaxErrors       \* how often an IConnection returns -1 before it recovers

ASSUME ChunkAssumption ==
    /\ Size \in Nat
    /\ MaxBlock \in Nat \ {0}
    /\ MaxErrors \in Nat

VARIABLES
    state,          \* the download state
    connection,     \* what the thread reads from: libcurl, or the field connection
    starter,        \* where the thread in StartDownload is
    dl,             \* where the download thread is
    block,          \* the bytes it got with its last read
    ret,            \* what that read returned
    sent,           \* bytes the source has delivered
    errors,         \* times the source has returned -1
    stream,         \* bytes in the block stream
    eos,            \* end of stream has been set
    bytesDownloaded,
    aborter,        \* where each thread in AbortDownload is
    reader,         \* where each thread in Read is
    got             \* bytes that have been read, in the order of the reads

source == <<block, ret, sent, errors>>
External == connection # "curl"
blockStream == <<stream, eos, got>>
vars == <<state, connection, starter, dl, source, blockStream, bytesDownloaded,
          aborter, reader>>

States == {"NOT_STARTED", "IN_PROGRESS", "REQUEST_ABORT", "ABORTED", "COMPLETED"}
StarterPcs == {"idle", "create", "publish", "connect", "returned"}
DownloadPcs == {"none", "fetch", "callback", "push", "count", "check", "decide",
                "abort", "complete", "eos", "done", "crashed"}
AborterPcs == {"idle", "request", "unheard", "wait", "sleep", "woken", "returned"}
ReaderPcs == {"idle", "check", "sleep", "ended"}

Init ==
    /\ state = "NOT_STARTED"
    /\ connection = "null"
    /\ starter = "idle"
    /\ dl = "none"
    /\ block = <<>>
    /\ ret = 0
    /\ sent = 0
    /\ errors = 0
    /\ stream = <<>>
    /\ eos = FALSE
    /\ bytesDownloaded = 0
    /\ aborter = [a \in Aborters |-> "idle"]
    /\ reader = [r \in Readers |-> "idle"]
    /\ got = <<>>

-----------------------------------------------------------------------------
(* DownloadStateManager and SyncedBlockStream *)

\* State(s): set the state and wake everyone who waits for a state.
SetState(s) ==
    /\ state' = s
    /\ aborter' = [a \in Aborters |->
                     IF aborter[a] = "sleep" THEN "woken" ELSE aborter[a]]

\* Broadcast the condition variable full of the stream.
WakeReaders ==
    reader' = [r \in Readers |-> IF reader[r] = "sleep" THEN "check" ELSE reader[r]]

-----------------------------------------------------------------------------
(* StartDownload() and StartDownload(connection) *)

StartDownload(from) ==
    /\ starter = "idle"
    /\ starter' = IF state = "NOT_STARTED" THEN "create" ELSE "returned"
    /\ connection' = from
    /\ UNCHANGED <<state, dl, source, blockStream, bytesDownloaded,
                   aborter, reader>>

\* CreateThreadPortable: the thread runs from here on, or there is none and
\* StartDownload returns false.
CreateThread ==
    /\ starter = "create"
    /\ \/ starter' = "publish" /\ dl' = "fetch"
       \/ starter' = "returned" /\ UNCHANGED dl
    /\ UNCHANGED <<state, connection, source, blockStream, bytesDownloaded,
                   aborter, reader>>

PublishInProgress ==
    /\ starter = "publish"
    /\ starter' = IF External THEN "connect" ELSE "returned"
    /\ SetState("IN_PROGRESS")
    /\ UNCHANGED <<connection, dl, source, blockStream, bytesDownloaded, reader>>

\* Mutant: the connection is not assigned.
AssignNothing ==
    /\ starter = "connect"
    /\ starter' = "returned"
    /\ UNCHANGED <<state, connection, dl, source, blockStream, bytesDownloaded,
                   aborter, reader>>

AssignConnection ==
    /\ starter = "connect"
    /\ starter' = "returned"
    /\ connection' = "given"
    /\ UNCHANGED <<state, dl, source, blockStream, bytesDownloaded, aborter, reader>>

StarterStep ==
    \/ StartDownload("curl")
    \/ StartDownload("null")
    \/ CreateThread
    \/ PublishInProgress
    \/ AssignConnection

-----------------------------------------------------------------------------
(* The download thread *)

\* The source delivers the next k bytes.
Deliver(k) ==
    /\ sent + k <= Size
    /\ sent' = sent + k
    /\ block' = [i \in 1 .. k |-> sent + i]
    /\ ret' = k

\* connection->Read: data, the end, or an error.  A connection that has not
\* been assigned is a null pointer.
ReadConnection ==
    /\ External
    /\ dl = "fetch"
    /\ \/ /\ connection = "null"
          /\ dl' = "crashed"
          /\ UNCHANGED source
       \/ /\ connection = "given"
          /\ \E k \in 1 .. MaxBlock : Deliver(k)
          /\ dl' = "push"
          /\ UNCHANGED errors
       \/ /\ connection = "given"
          /\ sent = Size
          /\ ret' = 0
          /\ dl' = "check"
          /\ UNCHANGED <<block, sent, errors>>
       \/ /\ connection = "given"
          /\ errors < MaxErrors
          /\ errors' = errors + 1
          /\ ret' = -1
          /\ dl' = "check"
          /\ UNCHANGED <<block, sent>>
    /\ UNCHANGED <<state, connection, starter, blockStream, bytesDownloaded,
                   aborter, reader>>

\* curl_easy_perform: libcurl has bytes for the callback, or is done, all bytes
\* delivered or not.
CurlPerform ==
    /\ ~ External
    /\ dl = "fetch"
    /\ \/ /\ \E k \in 1 .. MaxBlock : Deliver(k)
          /\ dl' = "callback"
       \/ /\ dl' = "decide"
          /\ UNCHANGED <<block, ret, sent>>
    /\ UNCHANGED <<state, connection, starter, errors, blockStream, bytesDownloaded,
                   aborter, reader>>

\* The callback refuses the bytes once the abort is requested, and libcurl
\* gives up.
CurlResponseCallback ==
    /\ dl = "callback"
    /\ dl' = IF state = "REQUEST_ABORT" THEN "decide" ELSE "push"
    /\ UNCHANGED <<state, connection, starter, source, blockStream, bytesDownloaded,
                   aborter, reader>>

\* Mutant: the block goes to the front.
PushFront ==
    /\ dl = "push"
    /\ dl' = "count"
    /\ stream' = block \o stream
    /\ WakeReaders
    /\ UNCHANGED <<state, connection, starter, source, eos, got, bytesDownloaded,
                   aborter>>

PushBack ==
    /\ dl = "push"
    /\ dl' = "count"
    /\ stream' = stream \o block
    /\ WakeReaders
    /\ UNCHANGED <<state, connection, starter, source, eos, got, bytesDownloaded,
                   aborter>>

\* Mutant: the size of the buffer is counted, not of what was read into it.
CountBuffer ==
    /\ dl = "count"
    /\ dl' = IF External THEN "check" ELSE "fetch"
    /\ bytesDownloaded' = bytesDownloaded + MaxBlock
    /\ UNCHANGED <<state, connection, starter, source, blockStream, aborter, reader>>

CountBytes ==
    /\ dl = "count"
    /\ dl' = IF External THEN "check" ELSE "fetch"
    /\ bytesDownloaded' = bytesDownloaded + ret
    /\ UNCHANGED <<state, connection, starter, source, blockStream, aborter, reader>>

\* Lines 130-133: an error is followed by another read, an end or an abort is not.
CheckAbort ==
    /\ dl = "check"
    /\ dl' = IF state = "REQUEST_ABORT" \/ ret = 0 THEN "decide" ELSE "fetch"
    /\ UNCHANGED <<state, connection, starter, source, blockStream, bytesDownloaded,
                   aborter, reader>>


\* Mutants: the last look is left out.
DecideAborted ==
    /\ dl = "decide"
    /\ dl' = "abort"
    /\ UNCHANGED <<state, connection, starter, source, blockStream, bytesDownloaded,
                   aborter, reader>>

DecideCompleted ==
    /\ dl = "decide"
    /\ dl' = "complete"
    /\ UNCHANGED <<state, connection, starter, source, blockStream, bytesDownloaded,
                   aborter, reader>>

\* The last look at the state, and the state that follows from it.
Decide ==
    /\ dl = "decide"
    /\ dl' = IF state = "REQUEST_ABORT" THEN "abort" ELSE "complete"
    /\ UNCHANGED <<state, connection, starter, source, blockStream, bytesDownloaded,
                   aborter, reader>>

Finish ==
    /\ \/ dl = "abort" /\ SetState("ABORTED")
       \/ dl = "complete" /\ SetState("COMPLETED")
    /\ dl' = "eos"
    /\ UNCHANGED <<connection, starter, source, blockStream, bytesDownloaded, reader>>

\* Mutant: the end of stream is set and nobody is woken.
SetEOSSilently ==
    /\ dl = "eos"
    /\ dl' = "done"
    /\ eos' = TRUE
    /\ UNCHANGED <<state, connection, starter, source, stream, got, bytesDownloaded,
                   aborter, reader>>

SetEOS ==
    /\ dl = "eos"
    /\ dl' = "done"
    /\ eos' = TRUE
    /\ WakeReaders
    /\ UNCHANGED <<state, connection, starter, source, stream, got, bytesDownloaded,
                   aborter>>

DownloadStep ==
    \/ ReadConnection
    \/ CurlPerform
    \/ CurlResponseCallback
    \/ PushBack
    \/ CountBytes
    \/ CheckAbort
    \/ Decide
    \/ Finish
    \/ SetEOS

-----------------------------------------------------------------------------
(* AbortDownload *)

AbortDownload(a) ==
    /\ aborter[a] = "idle"
    /\ aborter' = [aborter EXCEPT ![a] = "request"]
    /\ UNCHANGED <<state, connection, starter, dl, source, blockStream,
                   bytesDownloaded, reader>>

\* CheckAndSet(IN_PROGRESS, REQUEST_ABORT).  Before IN_PROGRESS is published, the
\* request has no effect.
RequestAbort(a) ==
    /\ aborter[a] = "request"
    /\ aborter' = [aborter EXCEPT ![a] = IF state = "NOT_STARTED" THEN "unheard" ELSE "wait"]
    /\ state' = IF state = "IN_PROGRESS" THEN "REQUEST_ABORT" ELSE state
    /\ UNCHANGED <<connection, starter, dl, source, blockStream, bytesDownloaded,
                   reader>>

\* Mutant: the abort is requested and not waited for.
CheckAndLeave(a) ==
    /\ aborter[a] \in {"wait", "unheard"}
    /\ aborter' = [aborter EXCEPT ![a] = "returned"]
    /\ UNCHANGED <<state, connection, starter, dl, source, blockStream,
                   bytesDownloaded, reader>>

\* CheckAndWait(REQUEST_ABORT, ABORTED): the first look ...
CheckAndWait(a) ==
    /\ aborter[a] \in {"wait", "unheard"}
    /\ aborter' = [aborter EXCEPT ![a] =
                     IF state = "REQUEST_ABORT" THEN "sleep" ELSE "returned"]
    /\ UNCHANGED <<state, connection, starter, dl, source, blockStream,
                   bytesDownloaded, reader>>

\* ... and the look after each wake-up.
RecheckAborted(a) ==
    /\ aborter[a] = "woken"
    /\ aborter' = [aborter EXCEPT ![a] =
                     IF state = "ABORTED" THEN "returned" ELSE "sleep"]
    /\ UNCHANGED <<state, connection, starter, dl, source, blockStream,
                   bytesDownloaded, reader>>

AborterStep(a) ==
    \/ RequestAbort(a)
    \/ CheckAndWait(a)
    \/ RecheckAborted(a)

-----------------------------------------------------------------------------
(* Read *)

Read(r) ==
    /\ reader[r] = "idle"
    /\ reader' = [reader EXCEPT ![r] = "check"]
    /\ UNCHANGED <<state, connection, starter, dl, source, blockStream,
                   bytesDownloaded, aborter>>

\* Mutant: an empty stream is taken for the end of it.
GetBytesAtOnce(r, len) ==
    /\ reader[r] = "check"
    /\ \/ /\ stream = <<>>
          /\ reader' = [reader EXCEPT ![r] = "ended"]
          /\ UNCHANGED <<stream, got>>
       \/ /\ stream # <<>>
          /\ LET n == IF len > Len(stream) THEN Len(stream) ELSE len
             IN  /\ got' = got \o SubSeq(stream, 1, n)
                 /\ stream' = SubSeq(stream, n + 1, Len(stream))
          /\ reader' = [reader EXCEPT ![r] = "idle"]
    /\ UNCHANGED <<state, connection, starter, dl, source, eos, bytesDownloaded,
                   aborter>>

\* SyncedBlockStream::GetBytes: sleep while there is nothing and more may come,
\* return 0 when no more comes, else take up to len bytes from the front.
GetBytes(r, len) ==
    /\ reader[r] = "check"
    /\ \/ /\ stream = <<>> /\ ~ eos
          /\ reader' = [reader EXCEPT ![r] = "sleep"]
          /\ UNCHANGED <<stream, got>>
       \/ /\ stream = <<>> /\ eos
          /\ reader' = [reader EXCEPT ![r] = "ended"]
          /\ UNCHANGED <<stream, got>>
       \/ /\ stream # <<>>
          /\ LET n == IF len > Len(stream) THEN Len(stream) ELSE len
             IN  /\ got' = got \o SubSeq(stream, 1, n)
                 /\ stream' = SubSeq(stream, n + 1, Len(stream))
          /\ reader' = [reader EXCEPT ![r] = "idle"]
    /\ UNCHANGED <<state, connection, starter, dl, source, eos, bytesDownloaded,
                   aborter>>

ReaderStep(r) == \E len \in 1 .. MaxBlock : GetBytes(r, len)

-----------------------------------------------------------------------------
Next ==
    \/ StarterStep
    \/ DownloadStep
    \/ \E a \in Aborters : AbortDownload(a) \/ AborterStep(a)
    \/ \E r \in Readers : Read(r) \/ ReaderStep(r)

Spec == Init /\ [][Next]_vars

\* A thread that has been started, or that is inside a method, keeps running.
\* Nobody is obliged to start, abort or read.
Fairness ==
    /\ WF_vars(CreateThread \/ PublishInProgress \/ AssignConnection)
    /\ WF_vars(DownloadStep)
    /\ \A a \in Aborters : WF_vars(AborterStep(a))
    /\ \A r \in Readers : WF_vars(ReaderStep(r))

LiveSpec == Spec /\ Fairness

-----------------------------------------------------------------------------
(* Properties *)

TypeOK ==
    /\ state \in States
    /\ connection \in {"null", "curl", "given"}
    /\ starter \in StarterPcs
    /\ dl \in DownloadPcs
    /\ block \in Seq(1 .. Size)
    /\ ret \in -1 .. MaxBlock
    /\ sent \in 0 .. Size
    /\ errors \in 0 .. MaxErrors
    /\ stream \in Seq(1 .. Size)
    /\ got \in Seq(1 .. Size)
    /\ eos \in BOOLEAN
    /\ bytesDownloaded \in 0 .. Size
    /\ aborter \in [Aborters -> AborterPcs]
    /\ reader \in [Readers -> ReaderPcs]

\* The bytes read, whoever read them, followed by the bytes in the stream and
\* the block on its way to it, are what the source sent, in order and without
\* a gap; only a block that an abort made the callback refuse is missing
\* (CurlResponseCallback, AbstractChunk.cpp 174).
InOrder ==
    LET pending == IF dl \in {"callback", "push"} THEN block ELSE <<>>
        all == got \o stream \o pending
    IN  /\ \A i \in DOMAIN all : all[i] = i
        /\ Len(all) < sent => ~ External /\ dl \notin {"fetch", "count"}

\* A Read that returns 0 is the end: nothing is in the stream and nothing will
\* be pushed any more, although the state is set before the end of stream is
\* (lines 137-142).
EndIsFinal == (\E r \in Readers : reader[r] = "ended") =>
                  eos /\ stream = <<>> /\ dl = "done"

\* The state becomes ABORTED only when an abort is requested, though the look
\* at the state and the assignment that follows from it are two steps (lines
\* 137-138) and other threads set the state too.
AbortAfterRequest ==
    [][state' = "ABORTED" /\ state # "ABORTED" => state = "REQUEST_ABORT"]_vars

\* When AbortDownload returns, the download thread has nothing left to do but to
\* set the end of stream, whatever the two of them did in between.  The destructor
\* relies on it (line 28) and goes on to destroy the stream.  The only aborts of
\* which this is not true are those whose CheckAndSet came before IN_PROGRESS was
\* published (lines 63, 77): they return at once, and the thread pushes on.
AbortMeansQuiet ==
    [][\A a \in Aborters :
         aborter[a] # "returned" /\ aborter'[a] = "returned"
         => aborter[a] = "unheard" \/ dl \in {"eos", "done"}]_vars

\* The byte count that observers are told is what has been pushed, as soon as
\* the thread that pushed it has counted it (lines 125-126, 180-182).
CountMatches ==
    bytesDownloaded =
        Len(got) + Len(stream) - (IF dl = "count" THEN Len(block) ELSE 0)

\* A Read returns, with data or with 0, if a source that does not hang is read
\* by the download thread and the process does not crash.
ReadReturns ==
    \A r \in Readers :
        (reader[r] # "idle" /\ dl # "none")
        ~> (reader[r] \in {"idle", "ended"} \/ dl = "crashed")

\* An abort that is requested while the download thread still has its last look
\* at the state before it is carried out: the download ends as ABORTED.
AbortHonoured ==
    (/\ state = "REQUEST_ABORT"
     /\ dl \in {"fetch", "callback", "push", "count", "check", "decide"})
    ~> (state = "ABORTED" \/ dl = "crashed")

\* The thread reads from a connection that was not assigned only while
\* StartDownload(connection) is between the creation of the thread and its last
\* statement (lines 72-78); nobody who waits for it to return meets a null
\* pointer.
CrashesOnlyInStart ==
    [][dl # "crashed" /\ dl' = "crashed" => starter \in {"publish", "connect"}]_vars

\* AbortDownload "aborts the download of a chunk" (IDownloadableChunk.h:49) and
\* then returns, whatever the download is doing, unless the process crashes.
AbortReturns ==
    \A a \in Aborters :
        (aborter[a] = "request") ~> (aborter[a] = "returned" \/ dl = "crashed")
=============================================================================
