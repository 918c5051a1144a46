# Verification of the AR streaming client

The repository streams volumetric video (MPEG V-PCC point clouds) over
MPEG-DASH.  This directory holds TLA+ models of its own code, the TLC
configurations that check them on small instances, and TLAPS proofs of what
holds for every value of their constants.

## 1. The system

| Part | Source | State it keeps | Operations |
|------|--------|----------------|------------|
| Bounded buffer | `Main/Main.cpp` 57-103 | two semaphores, a mutex, a ring of message pointers | init, queue, dequeue |
| Segment thread (`libdash_thread`) | `Main/Main.cpp` 273-337 | UDP socket, quality string `ret`, segment number | start the downloader for a segment, receive the quality of the next one, queue the names of the segment's files on `buf1` |
| Decode thread (`mpeg_vpcc_thread`) | `Main/Main.cpp` 340-443 | the segment being decoded, the decoder's pid, the number of directories made | fork the decoder, poll for PLY files, move five of them to a directory, queue them on `buf2`, remove the segment, reap and kill the decoder |
| Viewer (`MultipleWindowsApp`, `open3d_thread`) | `Main/Main.cpp` 120-269, 445-456 | current cloud, its mutex, main window, frame count | read a cloud, post it to the UI thread, perturb it, snapshot, close |
| Downloader (`libdash_mcnl_test`) | `libdash_mcnl/libdash_mcnl_test.cpp` | one process per segment: MPD, chosen representation, measured rate | download MPD (segment 0), choose by the quality argument, download the segment, report the next quality by UDP |
| HTTP connections | `libdash_mcnl/HTTPConnection.cpp`, `PersistentHTTPConnection.cpp` (copied in `Main/`) | socket, peek buffer, header flag, content length, chunk queue | Init, Schedule, Read, Peek, Reconnect |
| Chunk download | `libdash/source/network/` | download state, its observers, the download thread, the chunk's block stream | StartDownload, AbortDownload, Read, Peek, Attach, Detach |
| Block streams | `libdash/source/helpers/` | a queue of byte blocks, its length, end-of-stream flag | PushBack, GetBytes, PeekBytes, ToBlock, Clear, EraseFront, GetBlocks |
| MPD model | `libdash/source/mpd/`, `xml/`, `manager/`, `metrics/` | the parsed description | parse, build segment URLs |
| Content server | `server/createContent.sh` | encoded segments, their sizes, the MPD | sample frames, encode, measure, write the MPD |

The client process runs three threads.  The segment thread starts one
downloader process per segment and waits for its datagram, queues the names of
the files it finds on `buf1`; the decode thread removes a name from `buf1`,
runs a decoder process, watches the directory the decoder fills and queues
file names on `buf2`; the viewer's read thread removes those and hands each
cloud to the UI thread.  Files, processes, the datagram and the two buffers are
the only ways in which the parts interact.

V-PCC (`source/`), libcurl, libav, sdl, zlib, iconv, libxml2 and Open3D are
third-party and modelled only as far as the code above relies on them.

### What is hard about it

* **Ring buffers.**  `filled`, `empty` and `num` count one thing at three
  different times, `queue` and `dequeue` store and advance in two statements;
  a wrong post or a missed wrap shows many calls later.
* **Files and processes as queues.**  The decode thread counts the frames in a
  directory with one process and moves them with another while the decoder goes
  on writing; it goes on when the count *equals* five; it takes for its
  decoder whatever child `wait()` returns, and both threads have children.
* **The download state.**  Every method of `DownloadStateManager` locks, but the
  download thread looks at the state and sets it in two calls, the starting
  thread publishes `IN_PROGRESS` and the connection after it has created the
  thread, and a waiting aborter leaves for `ABORTED` only.
* **The block stream.**  Readers sleep until data or the end is announced, and
  the end is announced after the state.
* **The viewer.**  An update of the screen names no cloud: it shows the cloud
  that is there when the UI thread runs it.  The pointer to the window is set by
  one thread and read by the other without a lock.
* **Blocks.**  Callers ask for bytes, the stream holds blocks: a call may end in
  the middle of one, and the loops over the blocks trust a byte count and never
  look whether there is another block.
* **The persistent connection.**  Several threads take turns at one socket, by the
  order of a queue that `Schedule` changes without a lock and `Read` after it has
  unlocked; the length of a body is kept in the connection, not in the chunk.
* **The parser.**  Where an element ends is decided by comparing names, while one
  reader is moved by every level of a recursion.
* **The content script.**  A frame is chosen by a pattern that other names may match,
  and files are counted that no frame was sampled to; integer divisions decide how many
  frames a segment has, and the tests for failed encoders test something else.

`PROJECT.json` lists each hazard at its line, with the properties that catch it.

### What makes each part correct

| Part | Promise | Where |
|------|---------|-------|
| Bounded buffer | it is a FIFO queue of at most `capacity` messages; some waiting call gets through once one can | `IsFifo`, `NoOverwrite`, `SemaphoreAccounting`, `DequeueReturns`, `QueueReturns` |
| Segment and decode threads | every frame of a segment reaches `buf2` once, in the order of segments, directories and the frames in each, which is playback order if the decoders write their frames in order; no file is removed early or kept, one decoder at a time, the quality is the one advised | `FrameInOnePlace`, `PlaybackOrder`, `FinishedIsComplete`, `BinAccounted`, `OneDecoder`, `AdvisedQuality`, `RoomForAll`, `DecodesUnlessOutrun` |
| Chunk download | bytes arrive in order and once, the end is the end, an abort takes place if and only if it is requested in time and returns when all is quiet, unless it came too early to be noticed; nobody sleeps for ever | `InOrder`, `EndIsFinal`, `CountMatches`, `AbortAfterRequest`, `AbortMeansQuiet`, `CrashesOnlyInStart`, `ReadReturns`, `AbortHonoured` |
| Viewer | no half-read cloud is shown, no frame is forgotten, both threads come to an end | `NoHalfLoaded`, `ScreenCatchesUp`, `ReaderEnds`, `UpdatesRun` |
| Block streams | the callers see a queue of bytes, whatever the blocks are, and sleep for want of bytes only | `IsByteQueue`, `LengthIsExact`, `WaitsForData` |
| Persistent connection | each chunk gets its own bytes and all of them, and a thread hangs for one of the known reasons only | `OwnBytes`, `PoppedIsComplete`, `HangsOnlyBehindFront` |
| Parser | for plain documents the tree is the document; it returns, but for a file cut off behind a comment | `InStep`, `TreeIsDocument`, `ParseReturns` |
| Content server | segments of a known length follow each other and, where the names are unambiguous, hold the sampled frames; the bandwidth is the peak | `SegmentLength`, `SegmentsTile`, `BandwidthIsPeak` |

## 2. The modules, and the plan

| Module | Models | Role |
|--------|--------|------|
| `BoundedFifo` | what a bounded buffer promises | abstract specification |
| `BoundedBuffer` | `bounded_buffer_init`, `_queue`, `_dequeue` | implements `BoundedFifo` (`IsFifo`) |
| `SegmentPipeline` | segment thread, downloader process, decode thread, decoder processes, `build/bin`, `dec_test`, `wait()` | composes four kinds of process; `buf1` and `buf2` are sequences, which `ImplementsFifo` justifies |
| `ChunkDownload` | `AbstractChunk`, `DownloadStateManager`, the part of `SyncedBlockStream` they use | starter, download thread, aborters and readers; the stream is a sequence of bytes, which `IsByteQueue` justifies |
| `ByteQueue` | what a block stream promises | abstract specification |
| `BlockStream` | `BlockStream`, `SyncedBlockStream` | implements `ByteQueue` (`IsByteQueue`) |
| `PersistentConnection` | `PersistentHTTPConnection`, `HTTPChunk`, `HTTPConnection::ParseHeader`, `Read` and `SendData`, the download threads that call it | server, scheduling threads and reading threads |
| `CloudViewer` | read thread, UI thread, user | `buf2` is the number of frames delivered |
| `ContentServer` | `createContent.sh` | a script: one thread |
| `DOMParser` | `DOMParser`, libxml2's reader | one thread, on every document |
| `BoundedBufferProofs`, `ChunkDownloadProofs`, `SegmentPipelineProofs`, `CloudViewerProofs`, `BlockStreamProofs`, `PersistentConnectionProofs`, `DOMParserProofs`, `ContentServerProofs` | | theorems about the module of that name |
| `MC...` | | instances for TLC |

The order was: the buffers, on which everything else rests; the program's own logic
(pipeline, download, viewer); what the download rests on (blocks, connection); and
what feeds it (content, MPD).  What could follow:

1. **`ChunkDownload`, the rest**: observers, `WaitState`, the destructor, a second
   `StartDownload`.  No class of the repository attaches an observer or starts a
   chunk twice.
2. **A client of all three threads**: buffers, pipeline and viewer in one module.
   Each pair meets in one queue only, and the modules agree on what they put there
   (`PlaybackOrder`, `RoomForAll`), so the product would mostly multiply states.
3. **A chunk on a real stream**: `ChunkDownload` keeps the bytes of its stream as a
   sequence; with `StreamIsByteQueue` proved, a module that composes it with
   `BlockStream` would show nothing that the two do not show apart.

## 3. How the models correspond to the code

`PROJECT.json` ("map") names the lines of every definition.  In all modules an
action is what a thread does between two points at which another thread can
observe it: a call on a semaphore, mutex, condition variable, pipe, file or shared
variable.  Where the code holds a lock from the first to the last use of a
variable, that is one action.  Variables keep the names of the code where there is
one (`filled`, `ret`, `cnt`, `bytesDownloaded`, `cloud`), and each thread has a
variable that says which statement it executes next.  Definitions marked *Mutant*
are plausible mistakes; substituted for the definition that follows them, each
makes TLC violate a property, which shows that the property depends on that line.

**`BoundedBuffer`.**  One action per statement of the two functions; only
`num++`/`num--` is taken together with the move of the index, both inside the
mutex.  `sem_wait` is a guard and a decrement.  A call starts with its argument, any
message, and ends with the post.

**`SegmentPipeline`.**  The downloader is a process: it writes the segment's file in
the quality it was given, sends a datagram with a quality, and becomes a zombie;
`system()` returns when its child has ended, even if `wait()` of the other thread
has reaped it.  The advised quality is any quality (it is measured).  A decoder
writes its frames in any order, since its writer runs in threads
(`PCCGroupOfFrames.cpp`); `Poll`, `MoveFrames` and `QueueFrame` follow the
processes that count and move (lines 393 and 401) and the loop that queues, so that
frames may arrive between the count and the move.
The listing of `build/bin` queues each name while it is still reading the directory
(`QueueFile` takes any file of the segment that it has not met), so it waits for `buf1`
and overlaps with the removal of other files.  Polls that find nothing change nothing and
are not steps.  A poll whose shell gives no line leaves the loop (`PollFails`): the file
stays in `build/bin` and the shell, which is never closed, is one more child for
`wait()`.  The timing files are left out.  A process or a poll fails at most `MaxFailures`
times.  Segments have one digit: with more than ten, the file of segment 10 would
match the pattern of segment 1.  `left` (files that were given up) and `inOrder` (every
decoder has written its frames one after the other) are history for the properties.

**`ChunkDownload`.**  A method of `DownloadStateManager` or `SyncedBlockStream` is one
action, or two around a wait.  The wait sleeps until a broadcast; `CheckAndSet` does
not broadcast and wakes nobody, like the code.  A chunk is started in one of the two
forms: then `connection` is `"curl"`, or `"null"` until line 78 assigns it.  Bytes
are numbered, so that order and loss are visible.  A connection that has no more
data, or fails, may go on as `IConnection` allows, but not fail for ever (`MaxErrors`).
If the thread cannot be created, `StartDownload` returns and everything stays as it
was.  An aborter is "unheard" when its `CheckAndSet` finds the download not started, that
is before line 63 or 77: it returns and has no effect.

**`CloudViewer`.**  A cloud is the frame it is of and whether it has been read; where
a perturbation moves its points is left out.  `main_vis_` is null or not; that it is a
`shared_ptr` which two threads use at the same time (undefined behaviour even where it
is not null) is not taken further.  A use of a null pointer ends the process.  Of Open3D
it is assumed that updates run in the order in which they are posted, that one posted
for a window that has gone is dropped, that one posted for a null pointer is run or
dropped, and that `Run()` returns when no window is left.

**`BlockStream`.**  A block is a sequence of numbered bytes.  A method of
`SyncedBlockStream` holds its mutex from the first statement to the last or to its
wait; so it is one action, or two with a wait between them, and one action stands for
the methods of both classes.  The loops of `BlockQueueGetBytes`, `EraseFront` and
`GetBlocks` all cut whole blocks and a part of the next one off the front (`Split`).
None of the loops is written as one: they add up lengths (`Ends`) until they have passed
as many bytes as they want (`Passed`), which says in which block they stop.
`Peek` follows `BlockQueuePeekBytes` with its offsets (`Copied`): cells of the caller's
buffer that nothing is copied to are holes, a copy of a negative length is a crash.
`ByteQueue` knows nothing of blocks.

**`PersistentConnection`.**  The socket is a sequence of tokens, a header or a numbered
byte of a body; the server answers in the order of the requests and may close at any
time, losing a suffix of what it sent.  `Schedule` is two steps, the send and the push, or
it returns false at once: for another host, before `Init`, or when the send fails.  What
`SendData` returns for the rest of a request that was sent in part is ignored (line 140);
a request of which the server gets a part only is like one it has not answered when it
closes.
`Read` holds the mutex from its start to line 86 or 101, with its receives inside; the
delete and pop, and the broadcast, come after.  `ParseHeader` skips to the end of the
next header as the code does, bytes of a body included.  A thread that looks at the
queue between the delete and the pop compares its chunk with freed memory; the model
lets the comparison fail.  What two simultaneous changes do to the `std::queue`
itself is left out.  A reading thread calls `Read` until it returns 0, may be aborted
between two calls where `Aborting` says so, and may peek where `Peeking` says so.

**`ContentServer`.**  A frame file is the number in its name and whether the name has
anything else; a segment file is its size, or `NoFile` when the encoder failed.  The
pattern of a frame, `*$f_idx*.ply`, matches every name that has its digits in it
(`Contains`): with the first frame numbered 1, it matches 1 and 10 to 19.  `cp` copies all
of them, `mv` renames a single one to the next number, and fails on none, on several, and
on a file that has that name already (`Renamable`); then the loop ends
(`BreakSampling`) and the copies stay, since `rm` is given a path with `DATA_PATH` in it
twice.  `CountSegments` counts what is there.  A second run (`Rerun`) starts with the
directory that the first has left.  bash goes on after an error: a division by zero
leaves the variable unset, an empty string compares as false, and the status of a
pipeline is that of `cut`.

**`DOMParser`.**  The calls of `ProcessNode` in progress are a stack, their statements
one action each between two reads.  The reader of libxml2 delivers the events of any
well-formed document, one chosen after the other, and the file may break off after any:
elements, text and comments, and the other nodes a document may have (`Others`:
processing instructions, CDATA sections, the document type), which the parser makes open
nodes of.  Where the file breaks off, `xmlTextReaderRead` returns -1, and the reader may
stay on its last event or on none (`kept`): libxml2 does not say which, so the model has
both.  Without a file there is no reader, and `Parse` returns false.
`document` is what these events mean by the rules of XML, computed without the parser;
the properties compare the two.

## 4. The runs

| Run | Question | Instance | Result |
|-----|----------|----------|--------|
| `buffer` | Is the ring a FIFO queue in every interleaving, and does some call get through when one can? | 2 producers, 2 consumers, 2 slots, 2 messages | holds, 68,104 states |
| `chunk` | Order, end, abort and wake-ups of a download | 2 aborters, 2 readers, 3 bytes, blocks of 1 or 2, one error | holds, 145,010 states |
| `chunk_abort_hang` | Does `AbortDownload` return? | 1 aborter, 1 reader | violated |
| `pipeline` | Frames, files, processes and order | 2 segments, 2 qualities, 4 frames in directories of 2, one failure | holds, 433,775 states |
| `pipeline_server_segment` | Does the client get through a segment of the server's size? | the client's constants, 5 frames | violated |
| `viewer` | Half-read clouds, forgotten frames, ends of both threads | 6 frames, 2 snapshots | holds, 144,500 states |
| `viewer_closed_window` | Does the read thread use only an open window? | 4 frames, no snapshot | violated |
| `connection` | Does each chunk get its own bytes, and why may a thread hang? | 3 chunks of 2, 1 and 0 bytes, one without a length, one aborted, one peek, a server that closes | holds, 220,672 states |
| `connection_missed_wakeup` | Does every chunk get read? | 2 chunks, nothing else goes wrong | violated |
| `blocks` | Is a stream of blocks a queue of bytes, and who sleeps? | 2 callers, 4 bytes in blocks of 1 or 2, calls for 1 and 3 | holds, 85,986 states |
| `content` | Segments, how they cover the frames, bandwidths | up to 19 frames numbered from 1 or 1051, with and without a prefix, 2 rates, one missing frame, 2 qualities, 2 runs | holds, 202,623 states |
| `parser` | Is the tree the document, and does the parser return? | all documents of up to 6 events of all kinds and 2 names, cut off anywhere | holds, 3,316,643 states |

**Why the bounds are enough.**  Two threads at each end and two slots make both ends
contend for the mutex, fill and empty the ring and wrap both indices; the theorems of
section 6 hold for every size.  Three bytes in blocks of at most two give a full and a
partial block in either order, and two readers can each get a part of one block; two
aborters meet one who requests and one who finds the request made.  Two segments let
the downloader of one run while the other is decoded, which `wait()` confuses; two
directories of two frames leave room for an outrun, for a move of more frames than
were counted, and for a second directory that is complete at once.  Six frames are
the first, some in between during which updates pile up, the last but one, at which the
read thread stops, and the last, which it never takes.  Three chunks are a front, one
that waits behind it and one that waits behind both; a body of two bytes may come in two
receives, and one of none ends where it starts.  Four bytes in blocks of one and two let
a call for three end inside a block, at its end or behind the last; `Offsets = {0}`
because no caller in the repository passes an offset (see section 7).  Nineteen
frames at either rate give none, one, two and three segments, with and without a
remainder.  Numbered from 1, the pattern of a frame matches several; numbered from 1051, no
number has the digits of another, and with a prefix the sampling gets to its end or to
the missing frame (`Unambiguous`).  A second run finds what the first has left.  Six
events reach an element in one that is in one of its own name, a text
on either side of an element, and a comment followed by each kind of event.

No run uses a state constraint; `MaxErrors`, `MaxFailures`, `MaxSnapshots`, `MaxBytes`,
`MaxFrames`, `MaxRuns`, `MaxSize`, `MaxEvents`, `Size`, `Bins` and `Total` bound the models in the
guards.  No run uses symmetry, which is unsound for liveness.  Deadlock is checked for
the buffer and the streams, which never stop; the other systems end, by design or, in
the findings, not by design, and their liveness properties tell the two apart.

## 5. Fairness

Weak fairness of each thread and process that is inside a call or has work: they are
preemptively scheduled POSIX threads and processes, without priorities.  Nothing
is assumed of who *makes* calls: nobody is obliged to start, abort, read, queue,
take a snapshot or close a window, and no process is obliged to fail or not to.

* In `buffer`, the semaphores and the mutex are not fair to each thread, which POSIX
  does not promise: the properties say that *some* call gets through.  `buf1` and
  `buf2` have one thread at each end, whose call that is.
* In `pipeline`, the poll is only weakly fair, and so may be outrun:
  `DecodesUnlessOutrun` therefore says what follows when it is not and when no
  process fails.  Without the condition it is false, as the code compares for
  equality.
* `viewer` checks `ReaderEnds` under the assumption that all frames arrive
  (`FedSpec`); without it, a closed window does not end a read thread that waits.
* `chunk` assumes that the source, libcurl or the connection, does not block for
  ever.
* In `connection`, the server answers while the connection is open, and a download
  thread calls `Read` again however often somebody peeks in between (strong fairness
  of `CallRead`: the loop of the thread has no other way to go on).  Nobody is obliged
  to schedule a chunk or to start reading it.
* In `blocks`, a caller that is awake proceeds; nobody has to push or to end.
* In `parser`, the one thread runs on.  `ParseReturns` excepts the loop of lines 55-59
  at a comment where the file breaks off (`Spins`), which the model shows to be
  reached: every read there returns -1 and nothing looks at it.

## 6. The proofs

Eight modules hold 32 theorems, each for every value of the constants that the module's
named `ASSUME` allows.  All invariants and both
refinements that hold in the runs are among them; what else holds there is liveness.
The type invariants of `CloudViewer` and `ContentServer` are proved and need no run; those
of `BoundedBuffer`, `ChunkDownload` and `SegmentPipeline` are both proved and run; in
the other three modules the types are a conjunct (`Typed`) of the inductive invariant.

**`BoundedBufferProofs`** (`BufferAssumption`: finite sets of threads, a capacity of at
least one): `TypeCorrect`, `AccountingCorrect`, `NeverOverwrites`, and `ImplementsFifo`,
where the queue is the ring read from `front` and a message is held by its consumer
from the advance of `front` to the return.
`TypeOK` is not inductive: that `num` and the semaphores stay within the capacity
rests on the accounting, which counts the calls that are between their `sem_wait` and
their change of `num`, or between that and their `sem_post`.  The counts change by the
thread that moves (`CountMove`), so each action has to be looked at once for
producers and once for consumers.  The accounting needs no mutex.  The contents
of the ring do: `IInv` adds `MutexOwner` (a thread between lock and unlock is the owner,
so there is one) and `RingContents` (the slots from `front` to `rear` hold messages,
`rear` is `num` slots after `front`, a producer past its store has its message at
`rear`, a consumer past its fetch has that at `front`).  With it, the store hits a
free slot because the accounting leaves room for a producer that has been let
through (`RoomForProducer`), and likewise for consumers (`MessageForConsumer`).  The
refinement then goes action by action: `AdvanceRear` is `Put`, `AdvanceFront` is `Take`,
`PostEmpty` is `Return`, everything else stutters.  The arithmetic of the ring is in
`ModSmall`, `ModBig`, `SlotIsMod`, `SlotsDistinct` and `SlotAfterNext`, which replace
the modulus by a case distinction.

**`ChunkDownloadProofs`** (any number of aborters and readers, any size and block):
`TypeCorrect`, `BytesInOrder`, `EndCorrect`, `CountCorrect`, `AbortIsRequested`,
`AbortIsQuiet`, `CrashInStart`.  `IInv` consists of the types, what the starting
thread has not done yet (`Starting`), how the state and the download thread agree
(`Stopping`; it also says that an abort which was not too early finds the request made or
the download over), and the accounting of the bytes (`Bytes`): what was read, what is in the
stream and the block on its way are numbered without a gap.  `Starting` is needed
because `IN_PROGRESS` is published after the thread runs; the bound on
`bytesDownloaded` in `TypeOK` follows only from `Bytes`.

**`SegmentPipelineProofs`** (any number of segments, qualities, frames, directories and
failures): `TypeCorrect`, `OneAtATime`, `BinCorrect`, `QualityCorrect`,
`InPlaybackOrder`, `NoFrameLost`; `FinishedCorrect` under the hypothesis that the
directories of a segment hold all its frames, and `RoomCorrect` under the hypothesis
that the buffer holds the frames of all segments, which the client's constants meet
(lines 49, 470).  The first hypothesis is what the runs instantiate: with more frames
in a segment than the client counts, it removes the file too early.  What carries the
proof is the order of the segments (`Ordering`): files are handed over one by one, so
that no two of `buf1`, the listing and the decode thread have the same segment;
`Turning` ties the running decoder to the turn, `Placed` says where each frame is
without counting, and `Playing` that `buf2` ends with what this turn and this batch
have queued.  `Counted` adds the cardinalities for `FinishedCorrect`, which is about
segments that were not given up (`left`).  `InPlaybackOrder` says two things.  In every state
`buf2` is in the order of segments, directories and the frames of a directory.  That is
not yet the order of playback: a decoder with several threads may write frame 3 before
frame 1, and frame 1 is then moved to a later directory.  As long as each decoder has
written its frames one after the other (`inOrder`), `buf2` is in playback order; `Sorted`
adds to the invariant that then the frames still to come are behind those that were
written, and these behind those that were queued.

**`CloudViewerProofs`** (any number of frames and snapshots): `TypeCorrect`,
`OnlyWholeClouds`, `NothingForgotten`.  `Locking` says who owns `cloud_lock_`, `Filling`
that a cloud without its points is there only while the read thread reads it, which it
does under the lock; with both, the UI thread never finds such a cloud.  `Counting`
keeps the read thread one frame behind the last.

**`ContentServerProofs`** (any numbers of frames, rates and sizes, any frame missing):
`TypeCorrect`, `SegmentsAreShort`, `SegmentsFollow`, `BandwidthCorrect`.  The arithmetic
is in `CutBounds`: `n \div (n \div N)` is at least `N` and less than `2 * N`, and leaves
less than `n \div N` over.  `Sampling`, `Counting` and `Position` tie the variables of the
script to it.  `SegmentsFollow` is about the numbers, which always tile, and about the
frames behind them where nothing but the frame asked for can match a pattern
(`Unambiguous`: a first run, names with a prefix, no number part of another).  Then
the sampling renames one file in every turn, and every number that is counted is a
file that holds its frame.  With `FRAME_PER_SEG = 5`, a segment never has the ten frames the client
counts on, whatever the content.

**`BlockStreamProofs`** (any callers, any blocks, any lengths): `CountIsExact`, and
`StreamIsByteQueue` under the hypothesis that no peek has a positive offset.  The
hypothesis is needed, since with an offset the code copies other bytes (section 7), and
no caller in the repository passes one.  The invariant is small: the blocks are not
empty, the calls are calls, and the count is exact, which is all that a loop needs to
stop before the blocks do.  The work is in the operators, whose recursion runs over the
blocks.  The library's induction theorems take an operator as a parameter, which no
backend can instantiate; `Induction` states the principle for a *set* of numbers
instead, and is proved from the least element of the numbers outside it.  With it,
concatenating blocks (`FlattenSeq`) is shown to exist and to be unique, to distribute
over `\o` (`FlatConcat`), and to be as long as the last of the sums (`EndsTotal`).
`Whereabouts` puts the two together: for `n` bytes, the blocks before the one in which the
loop stops, that block cut in two, and those behind it make up the bytes, `n` of which
are before the cut.  From that follow `SplitFacts` (what is taken and what is left
are the first `n` bytes and the others), `PeekFacts` and `FindFacts`.  Each action then
has a lemma that names the step of `ByteQueue` it is.

**`PersistentConnectionProofs`** (any chunks, sizes and receives, a server that closes at
any time, any aborts and peeks): `BytesAreOwn`, `PoppedHasAll`.  Both properties are about
regular states: the queue has the order of the requests, and every header came with
the length of its body.  `Once` says that a chunk is asked for, pushed and popped at most
once, `Turns` that the threads which read, read for the front of the queue.  These two
hold in every state.  What follows is claimed of states in order (`Ordered`), and no step
leads from one that is not to one that is: `Own` accounts for what was
read of each chunk and what is left of it, `Wire` says that the tokens on the wire follow
each other without a gap, the first being the one the front needs next and, while the
connection is open, the last being the end of the last response, and `Server` which
responses are still to come.  Without `Wire`, `ParseHeader` could skip to a header of
another chunk; with it, the first token is the header it looks for.

**`DOMParserProofs`** (documents of any length over any names; no element is called
`#text` or `#comment`, which are not names in XML): `StaysInStep`,
`ReturnsTheDocument`.  Both are about plain documents: after a comment comes an element or
another comment, no element is directly in one of its own name, and there are no
processing instructions, CDATA sections or document types.  The MPDs of
`createContent.sh` are plain.  `Documented` is about
the document alone: the open elements are nested, and an end has the name of the
innermost.  `Stands` ties the calls in progress to the elements open before the last
event or behind it, according to the statement.  `Built` is the heart: a node gets its
place when its element ends, in the document when it starts; so the children of every
call in progress lack exactly the next call, those of the innermost lack what was
just read or returned (`Pending`), and all other nodes have all their children.  When
`Parse` returns there is no call left, and nothing is lacking.

**Only model-checked**: everything under fairness, which the prover does not treat (nor
`ENABLED`): `DequeueReturns`, `QueueReturns`, `ReadReturns`, `AbortHonoured`,
`DecodesUnlessOutrun`, `ReaderEnds`, `UpdatesRun`, `HangsOnlyBehindFront`, `WaitsForData`,
`ParseReturns`, and what the four runs of section 7 violate.

## 7. Disagreements of code and documentation

Each is shown by the run of that name, and quoted in `PROJECT.json`.

* `chunk_abort_hang`: an abort requested between the last look at the state and the
  assignment of `COMPLETED` is overwritten, and the aborting thread sleeps for ever.
* `pipeline_server_segment`: the client waits for two directories of five frames; the
  server makes segments of five.  It polls for ever after the first segment.
* `viewer_closed_window`: `main_vis_` is used after the sleep and before the check that
  is there because it "might have changed while sleeping".
* `connection_missed_wakeup`: a finished `Read` pops its chunk and wakes the others after
  it has unlocked; a thread that looked in between sleeps through the broadcast.

Met while modelling, and not shown by a run of their own:

* `AbstractChunk.cpp` 72-78: the download thread may read before `connection` is assigned.
  `CrashesOnlyInStart` says, and a theorem proves, that this happens nowhere else.
* `Main.cpp` 323: a segment file that an interrupted run left in `build/bin` is decoded as
  well and takes the turn of the last segment.  `README.md` asks the user to clean up,
  but names the frames only.
* `Main.cpp` 178, 194, 143: closing the window does not end a read thread that waits for a
  frame, and `Run()` joins it.
* `Main.cpp` 231, 238: "a random walk" replaces the points by the perturbation instead of
  moving them.
* `Main.cpp` 185-186, 250: the read thread closes the window itself, against the comment
  that such things are to be posted to the UI thread.
* `BlockStream.cpp` 162, 167: a peek with an offset skips it in every block and shortens the
  last copy by it; `IDownloadableChunk.h` 73 has it as "the offset to start with".  With a
  positive offset, `IsByteQueue` fails at the first such peek.
* `PersistentHTTPConnection.cpp` 58: a peek at a chunk whose header has been parsed waits
  for the mutex that it holds.
* `PersistentHTTPConnection.cpp` 82: a response without `Content-Length` takes that of the
  response before it.
* `createContent.sh` 137-142: the tests for a failed encoder look at the status of `cut`, and
  never fire.
* `DownloadStateManager.cpp` 44, `AbstractChunk.cpp` 166: observers are notified under a lock
  that is not recursive, or walked without one while `Detach` erases.
* `BlockStream.cpp` 200: `ToBlock` passes a length of 64 bits to a parameter of 32.
* `createContent.sh` 55, 201: with `FPS` above 30 the sampling loop does not advance; the MPD
  of a second run for the same contents is appended to the first.
* `createContent.sh` 61-71, 78: a frame's pattern matches every name with its digits in it;
  `mv` then fails, the sampling ends, and the copies that were not renamed are counted as
  frames.  A second run in the same directory ends the same way when it meets a file of the
  first, which the message at line 67 names as a possible reason.  Frames whose name is the
  bare number of the first frame fail at the first `mv`, onto themselves.
* `createContent.sh` 64, 104: the sampled frames are named by the bare number, and the
  encoder reads them as `%04d.ply`: `START_FRAME` must be at least 1000.
* `Main.cpp` 394: when a poll gives no line, the loop is left with `break` before `pclose`; the
  thread then waits for a child and kills the decoder, and the segment is lost silently.
* `Main.cpp` 396-418, `decOpt.txt` (`--nbThread=4`), `PCCGroupOfFrames.cpp` 71-87: the decoder
  writes the frames of a group in parallel, and the five that are there first are
  queued first: within a segment, frames can reach `buf2` out of playback order.
  `PlaybackOrder` says what the code does ensure.
* `AbstractChunk.cpp` 63, 77: an abort before `IN_PROGRESS` is published has no effect and
  returns at once, while the download goes on.
* `DOMParser.cpp` 55-59: a file that is cut off behind a comment may keep the loop reading
  for ever, since the result of the read is ignored.
* `DOMParser.cpp` 55-61: after a comment at the end of an element, the end itself becomes a
  node, and the element goes on.

## 8. What is not modelled

* Who puts what: a `Put` of `BoundedFifo` may put any message, one of `ByteQueue` any
  bytes at either end.  That the ring stores the argument of the call, and the stream the
  block it was given, is in `Store` and `Push` and not in what they are shown to implement.
* What the decoder leaves in its working directory, which line 422 of `Main.cpp` removes.
* A connection that returns -1 for ever (`AbstractChunk.cpp` 112-135): the download thread
  then loops until somebody aborts.
* Frame numbers of more than four digits, a `START_FRAME` of 0, and prefixes with digits.
* Observers of a download (`Attach`, `Detach`, `Notify`), which run under `stateLock`,
  `WaitState`, the destructor and a second `StartDownload`.
* `HTTPConnection` used on its own (its `Peek` and `PrepareRequest`): one chunk and one
  thread.  `InitChunk` and `Reconnect`: nothing calls them.
* A failed `execl` (line 382), after which the child is a second decode thread.
* A frame file that is still being written when it is queued (line 417): frames appear
  complete in the model.
* Out-of-bounds effects of a failed or oversized `recvfrom` (line 312).
* Streams of four gigabytes, whose length `ToBlock` truncates.
* The classes of `libdash/source/mpd/` and `metrics/`, the mapping of the tree to them
  (`Node.cpp`), string, time and path helpers: getters, setters and formatting, without
  concurrency or a state that could go wrong over several steps.
* The emulation of condition variables for Windows XP: not in the Linux build.
* The V-PCC encoder and decoder (`source/`), HM, HDRTools, TBB, libav, SDL, zlib, iconv,
  libcurl, libxml2 and Open3D, beyond what section 3 says is assumed of them.  These are
  most of the repository: of its 625,000 lines of C, C++ and scripts, the client, libdash
  and the script have about 20,000, of which most are getters and setters.  The codec is
  numerical code on images and point clouds, which runs in one process to its end: its
  correctness is a matter of values that a model of control cannot tell apart, and it is
  third-party and used unchanged.
