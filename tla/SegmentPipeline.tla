-------------------------- MODULE SegmentPipeline --------------------------
(***************************************************************************)
(* From the server to the viewer's queue (Main/Main.cpp): the segment      *)
(* thread, the downloader process it runs for each segment, the decode     *)
(* thread, the decoder process it runs for each file, and the two          *)
(* directories and two buffers between them.                               *)
(*                                                                         *)
(* Segment thread (libdash_thread): run the downloader and wait for it,    *)
(* receive the quality it advises for the next segment, and go through     *)
(* build/bin, queueing each file of this segment on buf1 as it is met.     *)
(* Decode thread (mpeg_vpcc_thread): take a file, start a decoder, poll    *)
(* dec_test until exactly PlyPerDirectory frames are there, move whatever  *)
(* is there then and queue it on buf2; after PlyPerBin \div                *)
(* PlyPerDirectory moves remove the file, wait for a child and kill the    *)
(* decoder.  A poll that gets nothing from its shell gives the file up.    *)
(*                                                                         *)
(* Both threads wait for children of the same process: wait() in the       *)
(* decode thread takes any child that has ended, the downloader of the     *)
(* segment thread's system() and the shell of a poll that was given up     *)
(* included, and may so return while the decoder is running.               *)
(*                                                                         *)
(* A segment's number has one digit (BIN_COUNT is 10), so that the name of *)
(* a file contains the number of one segment only.                         *)
(*                                                                         *)
(* buf1 and buf2 are the queues that BoundedFifo specifies.  Nobody takes   *)
(* anything from buf2 here: the viewer can only make room in it.           *)
(***************************************************************************)
EXTENDS Integers, Sequences, FiniteSets

CONSTANTS
    Bins,               \* BIN_COUNT: segments to download, files to decode
    Qualities,          \* the representations in the MPD
    Lowest,             \* the one that the first segment is asked in
    FramesPerSegment,   \* frames that the server put into a segment
    PlyPerBin,          \* PLY_COUNT_PER_BIN: frames the client expects in it
    PlyPerDirectory,    \* PLY_PER_DIRECTORY
    Capacity,           \* of buf1 and of buf2
    MaxFailures         \* processes that end before their work is done

ASSUME PipelineAssumption ==
    /\ Bins \in Nat \ {0}
    /\ Lowest \in Qualities
    /\ FramesPerSegment \in Nat \ {0}
    /\ PlyPerBin \in Nat \ {0}
    /\ PlyPerDirectory \in 1 .. PlyPerBin
    /\ Capacity \in Nat \ {0}
    /\ MaxFailures \in Nat

Turns == 1 .. Bins
Segments == 0 .. Bins - 1
Files == [quality : Qualities, segment : Segments]
Frames == 0 .. FramesPerSegment - 1
Directories == PlyPerBin \div PlyPerDirectory

VARIABLES
    lib,            \* where the segment thread is
    frame,          \* the segment it is busy with (its loop variable)
    ret,            \* the quality for the next download
    listed,         \* files of the segment that it has met in its listing
    downloader,     \* the downloader process
    sent,           \* datagrams the downloaders have sent
    received,       \* how many of them have been received
    bin,            \* segment files in build/bin
    buf1,
    dec,            \* where the decode thread is
    turn,           \* how many files it has taken
    msg,            \* the file it took last
    cnt,            \* directories it has made for that file
    batch,          \* frames in the last of them that it has still to queue
    proc,           \* the decoder process of each turn
    pending,        \* frames each decoder has not begun to write
    dir,            \* frames in the directory each decoder writes to
    shells,         \* shells of polls that were given up, not yet reaped
    queued,         \* buf2
    failures,
    left,           \* history: files that were given up and stay in bin
    inOrder         \* history: every decoder has written its frames in their order

segmentThread == <<lib, frame, ret, listed, received>>
download == <<downloader, sent>>
decodeThread == <<dec, turn, msg, cnt, batch>>
decoders == <<proc, pending>>
history == <<left, inOrder>>
vars == <<segmentThread, download, bin, buf1, decodeThread, decoders, dir, shells,
          queued, failures, history>>

LibPcs == {"start", "system", "recv", "list", "done"}
DecPcs == {"take", "fork", "poll", "move", "queue", "remove", "wait", "kill", "done"}
DownloaderStates == {"none", "running", "downloaded", "zombie", "reaped"}
ProcessStates == {"none", "running", "zombie", "reaped"}

Init ==
    /\ lib = "start"
    /\ frame = 0
    /\ ret = Lowest
    /\ listed = {}
    /\ downloader = "none"
    /\ sent = <<>>
    /\ received = 0
    /\ bin = {}
    /\ buf1 = <<>>
    /\ dec = "take"
    /\ turn = 0
    /\ msg = [quality |-> Lowest, segment |-> 0]       \* not read before it is set
    /\ cnt = 0
    /\ batch = {}
    /\ proc = [k \in Turns |-> "none"]
    /\ pending = [k \in Turns |-> {}]
    /\ dir = [k \in Turns |-> {}]
    /\ shells = 0
    /\ queued = <<>>
    /\ failures = 0
    /\ left = {}
    /\ inOrder = TRUE

-----------------------------------------------------------------------------
(* The downloader process *)

\* It writes the segment's file in the quality it was given.
DownloadSegment ==
    /\ downloader = "running"
    /\ downloader' = "downloaded"
    /\ bin' = bin \cup {[quality |-> ret, segment |-> frame]}
    /\ UNCHANGED <<segmentThread, sent, buf1, decodeThread, decoders, dir, shells,
                   queued, failures, history>>

\* It advises a quality, measured, for the next segment, and ends.
Report ==
    /\ downloader = "downloaded"
    /\ downloader' = "zombie"
    /\ \E q \in Qualities : sent' = Append(sent, q)
    /\ UNCHANGED <<segmentThread, bin, buf1, decodeThread, decoders, dir, shells,
                   queued, failures, history>>

\* No MPD, or one with fewer segments than BIN_COUNT: it dies before it writes.
DownloaderFails ==
    /\ downloader = "running"
    /\ failures < MaxFailures
    /\ downloader' = "zombie"
    /\ failures' = failures + 1
    /\ UNCHANGED <<segmentThread, sent, bin, buf1, decodeThread, decoders, dir,
                   shells, queued, history>>

DownloaderStep == DownloadSegment \/ Report

-----------------------------------------------------------------------------
(* The segment thread *)

RunDownloader ==
    /\ lib = "start"
    /\ lib' = "system"
    /\ downloader' = "running"
    /\ UNCHANGED <<frame, ret, listed, received, sent, bin, buf1, decodeThread,
                   decoders, dir, shells, queued, failures, history>>

\* system() returns when its child has ended, whoever has reaped it.
SystemReturns ==
    /\ lib = "system"
    /\ downloader \in {"zombie", "reaped"}
    /\ lib' = "recv"
    /\ downloader' = "none"
    /\ UNCHANGED <<frame, ret, listed, received, sent, bin, buf1, decodeThread,
                   decoders, dir, shells, queued, failures, history>>

\* Mutant: the advice is received and not used.
ReceiveNothing ==
    /\ lib = "recv"
    /\ received < Len(sent)
    /\ received' = received + 1
    /\ lib' = "list"
    /\ UNCHANGED <<frame, ret, listed, download, bin, buf1, decodeThread, decoders,
                   dir, shells, queued, failures, history>>

\* recvfrom blocks while no datagram is there.
Receive ==
    /\ lib = "recv"
    /\ received < Len(sent)
    /\ received' = received + 1
    /\ ret' = sent[received + 1]
    /\ lib' = "list"
    /\ UNCHANGED <<frame, listed, download, bin, buf1, decodeThread, decoders, dir,
                   shells, queued, failures, history>>

\* Files of this segment, in any quality, that the listing has not met.
Unlisted == {f \in bin : f.segment = frame /\ f \notin listed}

\* The next of them.  The directory is read on while buf1 is waited for, and
\* the decode thread may remove files meanwhile.
QueueFile ==
    /\ lib = "list"
    /\ Len(buf1) < Capacity
    /\ \E f \in Unlisted :
         /\ listed' = listed \cup {f}
         /\ buf1' = Append(buf1, f)
    /\ UNCHANGED <<lib, frame, ret, received, download, bin, decodeThread, decoders,
                   dir, shells, queued, failures, history>>

\* Mutant: one segment more.
NextSegmentOffByOne ==
    /\ lib = "list"
    /\ Unlisted = {}
    /\ listed' = {}
    /\ frame' = frame + 1
    /\ lib' = IF frame = Bins THEN "done" ELSE "start"
    /\ UNCHANGED <<ret, received, download, bin, buf1, decodeThread, decoders, dir,
                   shells, queued, failures, history>>

NextSegment ==
    /\ lib = "list"
    /\ Unlisted = {}
    /\ listed' = {}
    /\ frame' = frame + 1
    /\ lib' = IF frame + 1 = Bins THEN "done" ELSE "start"
    /\ UNCHANGED <<ret, received, download, bin, buf1, decodeThread, decoders, dir,
                   shells, queued, failures, history>>

SegmentStep ==
    \/ RunDownloader
    \/ SystemReturns
    \/ Receive
    \/ QueueFile
    \/ NextSegment

-----------------------------------------------------------------------------
(* The decoder process of turn k *)

\* Its threads write the frames in any order.
WriteFrame(k) ==
    /\ proc[k] = "running"
    /\ \E f \in pending[k] :
         /\ pending' = [pending EXCEPT ![k] = @ \ {f}]
         /\ dir' = [dir EXCEPT ![k] = @ \cup {f}]
         /\ inOrder' = (inOrder /\ \A g \in pending[k] : f <= g)
    /\ UNCHANGED <<segmentThread, download, bin, buf1, decodeThread, proc, shells,
                   queued, failures, left>>

ExitDecoder(k) ==
    /\ proc[k] = "running"
    /\ pending[k] = {}
    /\ proc' = [proc EXCEPT ![k] = "zombie"]
    /\ UNCHANGED <<segmentThread, download, bin, buf1, decodeThread, pending, dir,
                   shells, queued, failures, history>>

DecoderFails(k) ==
    /\ proc[k] = "running"
    /\ failures < MaxFailures
    /\ failures' = failures + 1
    /\ proc' = [proc EXCEPT ![k] = "zombie"]
    /\ UNCHANGED <<segmentThread, download, bin, buf1, decodeThread, pending, dir,
                   shells, queued, history>>

DecoderStep(k) == WriteFrame(k) \/ ExitDecoder(k)

-----------------------------------------------------------------------------
(* The decode thread *)

TakeFile ==
    /\ dec = "take"
    /\ buf1 # <<>>
    /\ msg' = Head(buf1)
    /\ buf1' = Tail(buf1)
    /\ turn' = turn + 1
    /\ cnt' = 0
    /\ dec' = "fork"
    /\ UNCHANGED <<segmentThread, download, bin, batch, decoders, dir, shells,
                   queued, failures, history>>

Fork ==
    /\ dec = "fork"
    /\ proc' = [proc EXCEPT ![turn] = "running"]
    /\ pending' = [pending EXCEPT ![turn] = Frames]
    /\ dec' = "poll"
    /\ UNCHANGED <<segmentThread, download, bin, buf1, turn, msg, cnt, batch, dir,
                   shells, queued, failures, history>>

\* Mutant: fewer than the number are enough.
PollAny ==
    /\ dec = "poll"
    /\ dir[turn] # {}
    /\ dec' = "move"
    /\ UNCHANGED <<segmentThread, download, bin, buf1, turn, msg, cnt, batch,
                   decoders, dir, shells, queued, failures, history>>

\* One turn of the loop in which something happens: the frames are counted, and
\* only the exact number counts.
Poll ==
    /\ dec = "poll"
    /\ \/ Cardinality(dir[turn]) = PlyPerDirectory /\ dec' = "move"
       \/ /\ Cardinality(dir[turn]) # PlyPerDirectory
          /\ cnt = Directories
          /\ dec' = "remove"
    /\ UNCHANGED <<segmentThread, download, bin, buf1, turn, msg, cnt, batch,
                   decoders, dir, shells, queued, failures, history>>

\* The shell of popen() ends without a line: the loop is left, and neither is
\* the shell reaped nor the file removed.
PollFails ==
    /\ dec = "poll"
    /\ failures < MaxFailures
    /\ failures' = failures + 1
    /\ shells' = shells + 1
    /\ left' = left \cup {msg}
    /\ dec' = "wait"
    /\ UNCHANGED <<segmentThread, download, bin, buf1, turn, msg, cnt, batch,
                   decoders, dir, queued, inOrder>>

\* Mutant: the frames are copied.
CopyFrames ==
    /\ dec = "move"
    /\ batch' = dir[turn]
    /\ cnt' = cnt + 1
    /\ dec' = "queue"
    /\ UNCHANGED <<segmentThread, download, bin, buf1, turn, msg, decoders, dir,
                   shells, queued, failures, history>>

\* By now there may be more of them.
MoveFrames ==
    /\ dec = "move"
    /\ batch' = dir[turn]
    /\ dir' = [dir EXCEPT ![turn] = {}]
    /\ cnt' = cnt + 1
    /\ dec' = "queue"
    /\ UNCHANGED <<segmentThread, download, bin, buf1, turn, msg, decoders, shells,
                   queued, failures, history>>

\* Mutant: the files are not sorted.
QueueAnyFrame ==
    /\ dec = "queue"
    /\ Len(queued) < Capacity
    /\ \E f \in batch :
         /\ queued' = Append(queued, [segment |-> msg.segment, directory |-> cnt - 1,
                                      frame |-> f])
         /\ batch' = batch \ {f}
    /\ UNCHANGED <<segmentThread, download, bin, buf1, dec, turn, msg, cnt,
                   decoders, dir, shells, failures, history>>

\* In the order of their names, which is that of the frames.
QueueFrame ==
    /\ dec = "queue"
    /\ Len(queued) < Capacity
    /\ \E f \in batch :
         /\ \A g \in batch : f <= g
         /\ queued' = Append(queued, [segment |-> msg.segment, directory |-> cnt - 1,
                                      frame |-> f])
         /\ batch' = batch \ {f}
    /\ UNCHANGED <<segmentThread, download, bin, buf1, dec, turn, msg, cnt,
                   decoders, dir, shells, failures, history>>

EndBatch ==
    /\ dec = "queue"
    /\ batch = {}
    /\ dec' = IF cnt = Directories THEN "remove" ELSE "poll"
    /\ UNCHANGED <<segmentThread, download, bin, buf1, turn, msg, cnt, batch,
                   decoders, dir, shells, queued, failures, history>>

\* Mutant: the segment's file is kept.
KeepFile ==
    /\ dec = "remove"
    /\ dec' = "wait"
    /\ UNCHANGED <<segmentThread, download, bin, buf1, turn, msg, cnt, batch,
                   decoders, dir, shells, queued, failures, history>>

RemoveFile ==
    /\ dec = "remove"
    /\ bin' = bin \ {msg}
    /\ dec' = "wait"
    /\ UNCHANGED <<segmentThread, download, buf1, turn, msg, cnt, batch, decoders,
                   dir, shells, queued, failures, history>>

\* wait(): any child of the process that has ended.
WaitChild ==
    /\ dec = "wait"
    /\ \/ /\ downloader = "zombie"
          /\ downloader' = "reaped"
          /\ UNCHANGED <<proc, shells>>
       \/ /\ \E k \in Turns : /\ proc[k] = "zombie"
                              /\ proc' = [proc EXCEPT ![k] = "reaped"]
          /\ UNCHANGED <<downloader, shells>>
       \/ /\ shells > 0
          /\ shells' = shells - 1
          /\ UNCHANGED <<downloader, proc>>
    /\ dec' = "kill"
    /\ UNCHANGED <<segmentThread, sent, bin, buf1, turn, msg, cnt, batch, pending,
                   dir, queued, failures, history>>

\* Mutant: the decoder is left alone.
SpareDecoder ==
    /\ dec = "kill"
    /\ dec' = IF turn = Bins THEN "done" ELSE "take"
    /\ UNCHANGED <<segmentThread, download, bin, buf1, turn, msg, cnt, batch,
                   decoders, dir, shells, queued, failures, history>>

\* Mutant: one file more.
KillOffByOne ==
    /\ dec = "kill"
    /\ proc' = [proc EXCEPT ![turn] = IF @ = "running" THEN "zombie" ELSE @]
    /\ dec' = IF turn > Bins THEN "done" ELSE "take"
    /\ UNCHANGED <<segmentThread, download, bin, buf1, turn, msg, cnt, batch,
                   pending, dir, shells, queued, failures, history>>

\* kill(pid): without effect on a decoder that has ended.
KillDecoder ==
    /\ dec = "kill"
    /\ proc' = [proc EXCEPT ![turn] = IF @ = "running" THEN "zombie" ELSE @]
    /\ dec' = IF turn = Bins THEN "done" ELSE "take"
    /\ UNCHANGED <<segmentThread, download, bin, buf1, turn, msg, cnt, batch,
                   pending, dir, shells, queued, failures, history>>

DecodeStep ==
    \/ TakeFile
    \/ Fork
    \/ Poll
    \/ MoveFrames
    \/ QueueFrame
    \/ EndBatch
    \/ RemoveFile
    \/ WaitChild
    \/ KillDecoder

-----------------------------------------------------------------------------
Next ==
    \/ SegmentStep
    \/ DownloaderStep
    \/ DownloaderFails
    \/ DecodeStep
    \/ PollFails
    \/ \E k \in Turns : DecoderStep(k) \/ DecoderFails(k)

Spec == Init /\ [][Next]_vars

\* Threads and processes keep running.  Nothing has to fail.
Fairness ==
    /\ WF_vars(SegmentStep)
    /\ WF_vars(DownloaderStep)
    /\ WF_vars(DecodeStep)
    /\ \A k \in Turns : WF_vars(DecoderStep(k))

LiveSpec == Spec /\ Fairness

-----------------------------------------------------------------------------
(* Properties *)

TypeOK ==
    /\ lib \in LibPcs
    /\ frame \in 0 .. Bins
    /\ ret \in Qualities
    /\ listed \subseteq Files
    /\ downloader \in DownloaderStates
    /\ sent \in Seq(Qualities)
    /\ received \in 0 .. Bins
    /\ bin \subseteq Files
    /\ buf1 \in Seq(Files)
    /\ dec \in DecPcs
    /\ turn \in 0 .. Bins
    /\ msg \in Files
    /\ cnt \in 0 .. Directories
    /\ batch \subseteq Frames
    /\ proc \in [Turns -> ProcessStates]
    /\ pending \in [Turns -> SUBSET Frames]
    /\ dir \in [Turns -> SUBSET Frames]
    /\ shells \in 0 .. failures
    /\ queued \in Seq([segment : Segments, directory : 0 .. Directories - 1,
                       frame : Frames])
    /\ failures \in 0 .. MaxFailures
    /\ left \subseteq Files
    /\ inOrder \in BOOLEAN

\* Frames of segment s that have been queued on buf2.
QueuedFrames(s) == {queued[i].frame : i \in {j \in DOMAIN queued : queued[j].segment = s}}

\* A frame is either not yet written, in the decoder's directory, in the batch
\* that is being queued, or queued: the move that follows the count (lines
\* 396-401) takes what is there by then, and still nothing is lost, queued
\* twice or left behind, however many writers the decoder has.
FrameInOnePlace ==
    (turn > 0 /\ dec # "fork") =>
        LET s == msg.segment
            there == (IF dec = "queue" THEN batch ELSE {})
            places == <<pending[turn], dir[turn], there, QueuedFrames(s)>>
        IN  /\ UNION {places[i] : i \in 1 .. 4} = Frames
            /\ \A i, j \in 1 .. 4 : i # j => places[i] \cap places[j] = {}
            /\ Cardinality(QueuedFrames(s)) =
                   Cardinality({i \in DOMAIN queued : queued[i].segment = s})

\* When the decode thread removes a segment's file and goes on to kill its
\* decoder, every frame of the segment is on buf2, although it counts
\* directories, not frames (lines 421-431).  A segment that was given up (line
\* 394) is not finished: its file stays.
FinishedIsComplete ==
    (dec \in {"remove", "wait", "kill", "done"} /\ msg \notin left) =>
        QueuedFrames(msg.segment) = Frames

\* At most one decoder runs, whichever child wait() has reaped (lines 377, 429,
\* 431).
OneDecoder == \A j, k \in Turns : proc[j] = "running" /\ proc[k] = "running" => j = k

\* buf2 is in the order of segments, of a segment's directories, and of the
\* frames in a directory.  This is not yet playback order: a decoder's threads
\* write in any order, and a frame written late is in a later directory than its
\* successors.  As long as each decoder has written its frames one after the
\* other, buf2 is in playback order, however the moves cut them into directories.
Before(a, b) ==
    \/ a.segment < b.segment
    \/ a.segment = b.segment /\ a.directory < b.directory
    \/ a.segment = b.segment /\ a.directory = b.directory /\ a.frame < b.frame

Earlier(a, b) ==
    \/ a.segment < b.segment
    \/ a.segment = b.segment /\ a.frame < b.frame

PlaybackOrder ==
    \A i, j \in DOMAIN queued : i < j =>
        /\ Before(queued[i], queued[j])
        /\ inOrder => Earlier(queued[i], queued[j])

\* What is in build/bin is what is on its way: downloaded and not yet listed, on
\* buf1 or being decoded; or its polls failed and it was left there.  A file that
\* has been decoded is gone, and none is removed while its name is in a queue.
Downloaded ==
    IF lib \in {"system", "recv", "list"} THEN Unlisted ELSE {}

BinAccounted ==
    LET waiting == {buf1[i] : i \in DOMAIN buf1}
        decoding == IF dec \in {"fork", "poll", "move", "queue", "remove"} THEN {msg} ELSE {}
    IN  bin = Downloaded \cup waiting \cup decoding \cup left

\* A segment is downloaded in the quality that was advised after the segment
\* before it, and the first in the lowest (lines 282, 308-312): each downloader
\* sends one datagram and does so before it ends, and each is received once.
AdvisedQuality ==
    \A f \in bin :
        f.quality = IF f.segment = 0 THEN Lowest ELSE sent[f.segment]

\* The decode thread never waits for room on buf2, viewer or no viewer: the
\* capacity in main() (line 470) is what all segments together put there.
RoomForAll == dec = "queue" /\ batch # {} => Len(queued) < Capacity

\* A frame more is in the directory than the decode thread counts to.
Outrun == \E k \in Turns : Cardinality(dir[k]) > PlyPerDirectory

\* If no decoder is quicker than the poll and no process fails, every segment is
\* decoded and the decode thread ends.
DecodesUnlessOutrun == [](~ Outrun /\ failures = 0) => <>(dec = "done")

\* The client's constants (line 49) are the frames of a segment: the decode thread
\* gets through a segment that the server has made.
SegmentIsDecoded == [](~ Outrun /\ failures = 0) => <>(turn = 1 /\ dec = "remove")
=============================================================================
