------------------------ MODULE PersistentConnection ------------------------
(***************************************************************************)
(* One TCP connection that carries the responses to several requests       *)
(* (PersistentHTTPConnection.cpp on top of HTTPConnection.cpp).  Schedule   *)
(* sends the request for a chunk and queues the chunk; each chunk is read   *)
(* by a thread of its own, the download thread of AbstractChunk.cpp, which  *)
(* calls Read until it returns 0.  A thread waits in Read until its chunk   *)
(* is the front of the queue.                                              *)
(*                                                                         *)
(* The socket is a sequence of tokens: <<c, 0>> is the header of the       *)
(* response to chunk c, <<c, i>> the i-th byte of its body.  The server    *)
(* answers in the order of the requests.                                   *)
(*                                                                         *)
(* Schedule takes no lock (lines 148-150), and Read unlocks before it      *)
(* deletes the chunk, pops it and wakes the others (lines 86-90): each of  *)
(* these is a step of its own.  A thread that looks at the front between   *)
(* the delete and the pop compares its chunk with freed memory; here the   *)
(* comparison fails, as it does while the memory is mapped.  What else a   *)
(* push and a pop at the same time do to the std::queue is left out.       *)
(***************************************************************************)
EXTENDS Integers, Sequences, SequencesExt

CONSTANTS
    Chunks,
    Size,           \* Size[c]: bytes in the body of the response to c
    Unsized,        \* chunks whose header comes without Content-Length
    MaxLen,         \* the len given to Read
    Closes,         \* whether the server may close the connection
    Aborting,       \* chunks whose download may be aborted
    Peeking,        \* chunks for which Peek may be called
    None            \* owner of a free mutex

ASSUME ConnectionAssumption ==
    /\ Size \in [Chunks -> Nat]
    /\ Unsized \subseteq Chunks
    /\ MaxLen \in Nat \ {0}
    /\ Closes \in BOOLEAN
    /\ Aborting \subseteq Chunks
    /\ Peeking \subseteq Chunks
    /\ None \notin Chunks

VARIABLES
    schedule,       \* where the thread in Schedule(c) is
    chunkQueue,     \* the chunks that were pushed and not yet popped
    parsed,         \* HTTPChunk::isHeaderParsed
    bytesLeft,      \* HTTPChunk::bytesLeft
    contentLength,  \* HTTPConnection::contentLength
    lock,           \* owner of monitorMutex
    call,           \* the method the reading thread of c is in
    reader,         \* where it is
    got,            \* the bytes it has read
    requests,       \* requests the server has not answered
    wire,           \* tokens sent by the server and not received
    open,           \* the server has not closed the connection
    asked,          \* history: chunks in the order of their requests
    finished,       \* history: chunks in the order of their pops
    missed          \* history: about to sleep when the last broadcast came

chunkVars == <<parsed, bytesLeft, contentLength>>
readVars == <<lock, call, reader, got, missed>>
net == <<requests, wire, open>>
vars == <<schedule, chunkQueue, chunkVars, readVars, net, asked, finished>>

Header(c) == <<c, 0>>
Body(c) == [i \in 1 .. Size[c] |-> <<c, i>>]

Init ==
    /\ schedule = [c \in Chunks |-> "idle"]
    /\ chunkQueue = <<>>
    /\ parsed = [c \in Chunks |-> FALSE]
    /\ bytesLeft = [c \in Chunks |-> 0]
    /\ contentLength = 0
    /\ lock = None
    /\ call = [c \in Chunks |-> "Read"]
    /\ reader = [c \in Chunks |-> "off"]
    /\ got = [c \in Chunks |-> <<>>]
    /\ requests = <<>>
    /\ wire = <<>>
    /\ open = TRUE
    /\ asked = <<>>
    /\ finished = <<>>
    /\ missed = {}

-----------------------------------------------------------------------------
(* The server *)

Answer ==
    /\ open
    /\ requests # <<>>
    /\ requests' = Tail(requests)
    /\ wire' = wire \o <<Header(Head(requests))>> \o Body(Head(requests))
    /\ UNCHANGED <<schedule, chunkQueue, chunkVars, readVars, open, asked,
                   finished>>

\* What has not left the server by then never arrives, and what it has not
\* answered it never will.
Close ==
    /\ Closes
    /\ open
    /\ open' = FALSE
    /\ requests' = <<>>
    /\ \E k \in 0 .. Len(wire) : wire' = SubSeq(wire, 1, k)
    /\ UNCHANGED <<schedule, chunkQueue, chunkVars, readVars, asked,
                   finished>>

-----------------------------------------------------------------------------
(* Schedule *)

\* Schedule sends the request, or returns false: the chunk is of another host
\* than the connection (line 142), Init has not succeeded (line 145), or send()
\* fails, as it does once the connection is closed.  (One that still succeeds then
\* is like one whose request the server had not answered when it closed.  So is a
\* request of which only a part could be sent: the result for the rest of it is
\* ignored, HTTPConnection.cpp 139-140.)
SendData(c) ==
    /\ schedule[c] = "idle"
    /\ \/ /\ open
          /\ schedule' = [schedule EXCEPT ![c] = "sent"]
          /\ asked' = Append(asked, c)
          /\ requests' = Append(requests, c)
       \/ /\ schedule' = [schedule EXCEPT ![c] = "failed"]
          /\ UNCHANGED <<asked, requests>>
    /\ UNCHANGED <<chunkQueue, chunkVars, readVars, wire, open, finished>>

PushChunk(c) ==
    /\ schedule[c] = "sent"
    /\ schedule' = [schedule EXCEPT ![c] = "scheduled"]
    /\ chunkQueue' = Append(chunkQueue, c)
    /\ UNCHANGED <<chunkVars, readVars, net, asked, finished>>

ScheduleStep(c) == SendData(c) \/ PushChunk(c)

-----------------------------------------------------------------------------
(* Read and Peek, and the download thread that calls them *)

\* The reading thread of c moves on and the mutex goes to owner.
Goto(c, from, to, owner) ==
    /\ reader[c] = from
    /\ reader' = [reader EXCEPT ![c] = to]
    /\ lock' = owner

\* A download thread is started for a chunk that was scheduled.
StartReader(c) ==
    /\ schedule[c] = "scheduled"
    /\ Goto(c, "off", "out", lock)
    /\ UNCHANGED <<schedule, chunkQueue, chunkVars, call, got, missed, net,
                   asked, finished>>

CallRead(c) ==
    /\ Goto(c, "out", "lock", lock)
    /\ call' = [call EXCEPT ![c] = "Read"]
    /\ UNCHANGED <<schedule, chunkQueue, chunkVars, got, missed, net, asked,
                   finished>>

CallPeek(c) ==
    /\ c \in Peeking
    /\ Goto(c, "out", "lock", lock)
    /\ call' = [call EXCEPT ![c] = "Peek"]
    /\ UNCHANGED <<schedule, chunkQueue, chunkVars, got, missed, net, asked,
                   finished>>

\* The download of c is aborted after a Read that returned data.
AbortReader(c) ==
    /\ c \in Aborting
    /\ got[c] # <<>>
    /\ Goto(c, "out", "aborted", lock)
    /\ UNCHANGED <<schedule, chunkQueue, chunkVars, call, got, missed, net,
                   asked, finished>>

\* Mutant: a thread does not wait for its turn.
LookAway(c) ==
    /\ reader[c] = "lock"
    /\ lock = None
    /\ Goto(c, "lock", "parse", c)
    /\ UNCHANGED <<schedule, chunkQueue, chunkVars, call, got, missed, net,
                   asked, finished>>

\* Lock, and look whether c is the front; Peek first looks at BytesLeft, which
\* is 0 until the header was parsed, and otherwise ends in the virtual Read,
\* which locks the mutex that this thread holds.
Look(c) ==
    /\ reader[c] = "lock"
    /\ lock = None
    /\ \/ /\ Head(chunkQueue) # c
          /\ Goto(c, "lock", "decided", c)
       \/ /\ Head(chunkQueue) = c
          /\ call[c] = "Read"
          /\ Goto(c, "lock", "parse", c)
       \/ /\ Head(chunkQueue) = c
          /\ call[c] = "Peek"
          /\ bytesLeft[c] = 0
          /\ Goto(c, "lock", "out", None)
       \/ /\ Head(chunkQueue) = c
          /\ call[c] = "Peek"
          /\ bytesLeft[c] > 0
          /\ Goto(c, "lock", "stuck", c)
    /\ UNCHANGED <<schedule, chunkQueue, chunkVars, call, got, missed, net,
                   asked, finished>>

\* SleepConditionVariableCS unlocks and joins the sleepers in one step.
Sleep(c) ==
    /\ Goto(c, "decided", "asleep", None)
    /\ UNCHANGED <<schedule, chunkQueue, chunkVars, call, got, missed, net,
                   asked, finished>>

\* The length that is found, or the one that an earlier header left there.
SetContentLength(c, length) ==
    /\ contentLength' = length
    /\ parsed' = [parsed EXCEPT ![c] = TRUE]
    /\ bytesLeft' = [bytesLeft EXCEPT ![c] = length]

\* ParseHeader reads lines up to the end of the next header and throws them
\* away, or fails when the connection ends before; its result is ignored.
ParseHeader(c) ==
    /\ reader[c] = "parse"
    /\ ~ parsed[c]
    /\ \/ \E i \in DOMAIN wire :
             /\ wire[i][2] = 0
             /\ \A j \in 1 .. i - 1 : wire[j][2] # 0
             /\ wire' = SubSeq(wire, i + 1, Len(wire))
             /\ SetContentLength(c, IF wire[i][1] \in Unsized THEN contentLength
                                    ELSE Size[wire[i][1]])
       \/ /\ ~ open
          /\ \A i \in DOMAIN wire : wire[i][2] # 0
          /\ wire' = <<>>
          /\ SetContentLength(c, contentLength)
    /\ UNCHANGED <<schedule, chunkQueue, readVars, requests, open, asked,
                   finished>>

\* Mutant: a chunk is finished one byte before its end.
CheckLeftOffByOne(c) ==
    /\ parsed[c]
    /\ IF bytesLeft[c] <= 1 THEN Goto(c, "parse", "pop", None)
                            ELSE Goto(c, "parse", "recv", lock)
    /\ UNCHANGED <<schedule, chunkQueue, chunkVars, call, got, missed, net,
                   asked, finished>>

\* With nothing left the mutex is released, otherwise the socket is read.
CheckLeft(c) ==
    /\ parsed[c]
    /\ IF bytesLeft[c] = 0 THEN Goto(c, "parse", "pop", None)
                           ELSE Goto(c, "parse", "recv", lock)
    /\ UNCHANGED <<schedule, chunkQueue, chunkVars, call, got, missed, net,
                   asked, finished>>

\* recv returns some of the bytes that are there; at the end of the connection
\* Read returns 0, and the chunk stays in the queue.
Recv(c) ==
    /\ \/ /\ \E k \in 1 .. MaxLen :
                /\ k <= bytesLeft[c]
                /\ k <= Len(wire)
                /\ got' = [got EXCEPT ![c] = @ \o SubSeq(wire, 1, k)]
                /\ wire' = SubSeq(wire, k + 1, Len(wire))
                /\ bytesLeft' = [bytesLeft EXCEPT ![c] = @ - k]
          /\ Goto(c, "recv", "out", None)
       \/ /\ wire = <<>>
          /\ ~ open
          /\ Goto(c, "recv", "ended", None)
          /\ UNCHANGED <<got, wire, bytesLeft>>
    /\ UNCHANGED <<schedule, chunkQueue, parsed, contentLength, call, missed,
                   requests, open, asked, finished>>

\* delete and pop, without the mutex.
Pop(c) ==
    /\ Goto(c, "pop", "wake", lock)
    /\ chunkQueue' = Tail(chunkQueue)
    /\ finished' = Append(finished, Head(chunkQueue))
    /\ UNCHANGED <<schedule, chunkVars, call, got, missed, net, asked>>

\* Mutant: the last one does not wake the others.
WakeNobody(c) ==
    /\ Goto(c, "wake", "done", lock)
    /\ missed' = {}
    /\ UNCHANGED <<schedule, chunkQueue, chunkVars, call, got, net, asked,
                   finished>>

\* WakeAllConditionVariable, without the mutex.
Wake(c) ==
    /\ reader[c] = "wake"
    /\ reader' = [d \in Chunks |-> IF d = c THEN "done"
                                   ELSE IF reader[d] = "asleep" THEN "lock"
                                   ELSE reader[d]]
    /\ missed' = {d \in Chunks : reader[d] = "decided"}
    /\ UNCHANGED <<schedule, chunkQueue, chunkVars, lock, call, got, net,
                   asked, finished>>

\* The steps of a method that has been called, and the next call.
ReadStep(c) ==
    \/ CallRead(c)
    \/ Look(c)
    \/ Sleep(c)
    \/ ParseHeader(c)
    \/ CheckLeft(c)
    \/ Recv(c)
    \/ Pop(c)
    \/ Wake(c)

-----------------------------------------------------------------------------
Next ==
    \/ Answer
    \/ Close
    \/ \E c \in Chunks :
          \/ ScheduleStep(c)
          \/ StartReader(c)
          \/ CallPeek(c)
          \/ AbortReader(c)
          \/ ReadStep(c)

Spec == Init /\ [][Next]_vars

\* The server answers while it keeps the connection, a thread in Schedule gets
\* on, and a download thread that was started keeps calling Read, however often
\* somebody peeks in between.
Fairness ==
    /\ WF_vars(Answer)
    /\ \A c \in Chunks :
          WF_vars(PushChunk(c)) /\ WF_vars(ReadStep(c)) /\ SF_vars(CallRead(c))

LiveSpec == Spec /\ Fairness

-----------------------------------------------------------------------------
(* Properties *)

\* The chunks were pushed in the order in which their requests were sent, and
\* every header so far gave its length.  The code relies on both (lines
\* 148-150, 82) and makes sure of neither.
Regular ==
    /\ IsPrefix(finished \o chunkQueue, asked)
    /\ \A c \in Chunks : parsed[c] => c \notin Unsized

\* The chunks of one connection do not get mixed up: what a thread reads for a
\* chunk is the beginning of that chunk's body, through partial receives,
\* waiting for the turn, and the end of the connection.
OwnBytes == Regular => \A c \in Chunks : IsPrefix(got[c], Body(c))

\* A chunk that Read ended regularly (lines 84-90) has all its bytes.  The one
\* exception the code allows: the connection ended before the first header, the
\* length is still 0, and the chunk ends as an empty one.
PoppedIsComplete ==
    Regular => \A i \in DOMAIN finished :
                 LET c == finished[i]
                 IN  got[c] = Body(c) \/ (~ open /\ got[c] = <<>>)

InCall == {"lock", "decided", "asleep", "parse", "recv", "pop", "wake"}

\* Why the front of the queue may stay there: nobody reads it, or nobody reads
\* it any more, or its thread waits for itself, or its thread fell asleep after
\* the broadcast that was meant for it.
FrontStays ==
    /\ chunkQueue # <<>>
    /\ LET c == Head(chunkQueue)
       IN  \/ reader[c] \in {"off", "ended", "aborted", "stuck"}
           \/ reader[c] = "asleep" /\ c \in missed

\* A Read that never returns waits behind such a front, or is such a front:
\* there is no other way to hang (lines 68-69, 84-104).
HangsOnlyBehindFront ==
    \A c \in Chunks :
        <>[](reader[c] \in InCall) => <>[](FrontStays \/ ~ Regular)

\* Read "should read a block of bytes from the specified chunk"
\* (include/IConnection.h:34): with a reading thread for every chunk, every
\* chunk gets read to its end.
AllGetRead ==
    (\A c \in Chunks : reader[c] # "off")
    ~> (\A c \in Chunks : reader[c] \in {"done", "ended"})
=============================================================================
