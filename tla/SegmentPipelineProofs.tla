----------------------- MODULE SegmentPipelineProofs ------------------------
(***************************************************************************)
(* Proofs about SegmentPipeline for any number of segments, qualities and  *)
(* frames, any directory size, any capacity and any number of failing      *)
(* processes.                                                              *)
(*                                                                         *)
(* What carries the proof is the order of the segments: the segment thread *)
(* hands them over one by one (Ordering), so that the files on buf1 and    *)
(* the file being decoded belong to different segments, the decode thread  *)
(* removes nothing that is still to be decoded, and the frames of two      *)
(* turns do not mix on buf2 (Playing).  Sorted is about decoders that      *)
(* write their frames one after the other.                                 *)
(***************************************************************************)
EXTENDS SegmentPipeline, FiniteSetTheorems, TLAPS

-----------------------------------------------------------------------------
(* The inductive invariant *)

Advice(s) == IF s = 0 THEN Lowest ELSE sent[s]

\* One datagram per segment: where the segment thread is in its loop says how
\* many it has received and for which segment the advice is.
Numbering ==
    /\ lib = "done" <=> frame = Bins
    /\ received = IF lib = "list" THEN frame + 1 ELSE frame
    /\ received <= Len(sent)
    /\ downloader \in {"running", "downloaded"} => lib = "system"
    /\ lib \in {"start", "system"} => ret = Advice(frame)
    /\ lib = "list" => ret = Advice(frame + 1)

\* Only the decoder of this turn runs, and only from its fork to its kill.
Turning ==
    /\ dec = "take" => turn < Bins
    /\ dec # "take" => turn > 0
    /\ \A k \in Turns :
          proc[k] = "running" => k = turn /\ dec \notin {"take", "fork", "done"}
    /\ dec \in {"fork", "poll", "move"} => cnt < Directories
    /\ dec = "queue" => cnt > 0
    /\ dec \in {"remove", "wait", "kill", "done"} /\ msg \notin left => cnt = Directories

\* Where the decode thread is before the file is removed or given up.
Decoding == {"fork", "poll", "move", "queue", "remove"}

\* The file of segment s has been queued on buf1, or another one before it.
Handed(s) == s <= frame /\ (s = frame => lib = "list" /\ listed # {})

\* One file per segment; the files on buf1 are in the order of their segments,
\* behind the one that was taken last and before the one that is listed.  Those
\* that were given up are not behind the one that was taken last, nor are they
\* the one that is being decoded.
Ordering ==
    /\ lib # "list" => listed = {}
    /\ \A f \in bin, g \in listed : f.segment = frame => f = g
    /\ \A f \in listed : f.segment = frame
    /\ \A f \in bin : f.segment <= frame
    /\ \A f \in bin : lib = "start" \/ downloader = "running" => f.segment # frame
    /\ \A f, g \in bin : f.segment = g.segment => f = g
    /\ \A i \in 1 .. Len(buf1) : Handed(buf1[i].segment)
    /\ \A i, j \in 1 .. Len(buf1) : i < j => buf1[i].segment < buf1[j].segment
    /\ turn > 0 => Handed(msg.segment)
    /\ turn > 0 => \A i \in 1 .. Len(buf1) : msg.segment < buf1[i].segment
    /\ left \subseteq bin
    /\ \A f \in left : turn > 0 /\ f.segment <= msg.segment
    /\ dec \in Decoding => msg \notin left

There == IF dec = "queue" THEN batch ELSE {}

\* FrameInOnePlace without counting, and what it needs: the directories of later
\* turns are empty.
Placed ==
    /\ \A k \in Turns : k > turn \/ (k = turn /\ dec = "fork") => dir[k] = {}
    /\ (turn > 0 /\ dec # "fork") =>
          /\ pending[turn] \cup dir[turn] \cup There \cup QueuedFrames(msg.segment) = Frames
          /\ pending[turn] \cap dir[turn] = {}
          /\ (pending[turn] \cup dir[turn]) \cap There = {}
          /\ (pending[turn] \cup dir[turn] \cup There) \cap QueuedFrames(msg.segment) = {}
    /\ \A i, j \in 1 .. Len(queued) :
          queued[i].segment = queued[j].segment /\ queued[i].frame = queued[j].frame => i = j

\* buf2 ends with what was queued for this turn, and that with what was queued
\* of this batch.
Playing ==
    /\ \A i \in 1 .. Len(queued) :
          /\ turn > 0
          /\ queued[i].segment <= msg.segment
          /\ dec = "fork" => queued[i].segment < msg.segment
          /\ queued[i].segment = msg.segment =>
                /\ queued[i].directory < cnt
                /\ dec = "queue" /\ queued[i].directory = cnt - 1 =>
                      \A f \in batch : queued[i].frame < f
    /\ \A i, j \in 1 .. Len(queued) : i < j => Before(queued[i], queued[j])

IInv ==
    /\ TypeOK
    /\ Numbering
    /\ Turning
    /\ Ordering
    /\ BinAccounted
    /\ AdvisedQuality
    /\ Placed
    /\ Playing

-----------------------------------------------------------------------------
(* Facts about sequences and constants *)

LEMMA AppendFacts ==
    ASSUME NEW S, NEW s \in Seq(S), NEW e \in S
    PROVE  /\ Append(s, e) \in Seq(S)
           /\ Len(s) \in Nat
           /\ Len(Append(s, e)) = Len(s) + 1
           /\ \A i \in 1 .. Len(s) : Append(s, e)[i] = s[i]
           /\ Append(s, e)[Len(s) + 1] = e
OBVIOUS

LEMMA TailFacts ==
    ASSUME NEW S, NEW s \in Seq(S), s # <<>>
    PROVE  /\ Tail(s) \in Seq(S)
           /\ Len(s) \in Nat /\ Len(s) > 0
           /\ Len(Tail(s)) = Len(s) - 1
           /\ \A i \in 1 .. Len(s) - 1 : Tail(s)[i] = s[i + 1]
           /\ Head(s) = s[1] /\ Head(s) \in S
OBVIOUS

\* Entries of a sequence, as the properties write them.
LEMMA Entries ==
    ASSUME NEW S, NEW s \in Seq(S)
    PROVE  DOMAIN s = 1 .. Len(s) /\ \A i \in 1 .. Len(s) : s[i] \in S
OBVIOUS

LEMMA TailEntries ==
    ASSUME NEW S, NEW s \in Seq(S), s # <<>>
    PROVE  {s[i] : i \in DOMAIN s} = {Head(s)} \cup {Tail(s)[i] : i \in DOMAIN Tail(s)}
<1>1. DOMAIN s = 1 .. Len(s) /\ DOMAIN Tail(s) = 1 .. Len(s) - 1
  BY TailFacts, Entries
<1>2. ASSUME NEW i \in 1 .. Len(s)
      PROVE  s[i] = Head(s) \/ \E j \in 1 .. Len(s) - 1 : s[i] = Tail(s)[j]
  <2>1. CASE i = 1
    BY <2>1, TailFacts
  <2>2. CASE i # 1
    <3>1. i - 1 \in 1 .. Len(s) - 1 /\ (i - 1) + 1 = i
      BY <2>2, TailFacts
    <3>2. Tail(s)[i - 1] = s[i]
      BY <3>1, TailFacts
    <3> QED
      BY <3>1, <3>2
  <2> QED
    BY <2>1, <2>2
<1>3. \A j \in 1 .. Len(s) - 1 : j + 1 \in 1 .. Len(s) /\ Tail(s)[j] = s[j + 1]
  BY TailFacts
<1>4. 1 \in 1 .. Len(s) /\ Head(s) = s[1]
  BY TailFacts
<1>5. ASSUME NEW x
      PROVE  x \in {s[i] : i \in 1 .. Len(s)}
             <=> x \in {Head(s)} \cup {Tail(s)[i] : i \in 1 .. Len(s) - 1}
  <2>1. CASE x \in {s[i] : i \in 1 .. Len(s)}
    BY <2>1, <1>2
  <2>2. CASE x = Head(s)
    BY <2>2, <1>4
  <2>3. ASSUME NEW j \in 1 .. Len(s) - 1, x = Tail(s)[j]
        PROVE  x \in {s[i] : i \in 1 .. Len(s)}
    BY <2>3, <1>3
  <2> QED
    BY <2>1, <2>2, <2>3
<1> QED
  BY <1>1, <1>5

LEMMA Constants ==
    /\ Bins \in Nat /\ Bins > 0
    /\ Directories \in Nat /\ Directories > 0
    /\ FramesPerSegment \in Nat
    /\ PlyPerDirectory \in Nat /\ PlyPerDirectory > 0
    /\ MaxFailures \in Nat
    /\ Lowest \in Qualities
<1>1. /\ PlyPerBin \in Nat
      /\ PlyPerDirectory \in Nat /\ PlyPerDirectory > 0 /\ PlyPerDirectory <= PlyPerBin
  BY PipelineAssumption DEF PipelineAssumption
<1>2. PlyPerBin \div PlyPerDirectory \in Nat /\ PlyPerBin \div PlyPerDirectory > 0
  <2>1. \A a, b \in Nat : b > 0 /\ b <= a => a \div b \in Nat /\ a \div b > 0
    OBVIOUS
  <2> QED
    BY <1>1, <2>1
<1> QED
  BY <1>1, <1>2, PipelineAssumption DEF PipelineAssumption, Directories

LEMMA FileFields ==
    /\ \A f \in Files : f.segment \in Segments /\ f.quality \in Qualities
    /\ \A q \in Qualities, s \in Segments : [quality |-> q, segment |-> s] \in Files
    /\ \A s \in Segments : s \in Int /\ s >= 0 /\ s < Bins
BY Constants DEF Files, Segments

LEMMA Queue ==
    ASSUME TypeOK
    PROVE  /\ DOMAIN queued = 1 .. Len(queued)
           /\ Len(queued) \in Nat
           /\ \A i \in 1 .. Len(queued) : /\ queued[i].segment \in Int
                                         /\ queued[i].directory \in Int
                                         /\ queued[i].frame \in Frames
<1> DEFINE Entry == [segment : Segments, directory : 0 .. Directories - 1, frame : Frames]
<1>1. queued \in Seq(Entry)
  BY DEF TypeOK
<1>2. \A e \in Entry : e.segment \in Int /\ e.directory \in Int /\ e.frame \in Frames
  BY Constants DEF Segments
<1> HIDE DEF Entry
<1> QED
  BY <1>1, <1>2, Entries

LEMMA InvInit == Init => IInv
<1> SUFFICES ASSUME Init PROVE IInv
  OBVIOUS
<1> USE Constants, FileFields
<1>1. TypeOK
  <2>1. /\ sent \in Seq(Qualities) /\ buf1 \in Seq(Files)
        /\ queued \in Seq([segment : Segments, directory : 0 .. Directories - 1,
                           frame : Frames])
    BY DEF Init
  <2>2. msg \in Files
    BY DEF Init, Segments
  <2> QED
    BY <2>1, <2>2 DEF Init, TypeOK, LibPcs, DownloaderStates, DecPcs, ProcessStates
<1>2. Numbering
  BY DEF Init, Numbering, Advice
<1>3. Turning
  BY DEF Init, Turning
<1>4. Ordering
  BY DEF Init, Ordering
<1>5. BinAccounted /\ AdvisedQuality
  BY DEF Init, BinAccounted, Downloaded, Unlisted, AdvisedQuality
<1>6. Placed /\ Playing
  BY DEF Init, Placed, Playing
<1> QED
  BY <1>1, <1>2, <1>3, <1>4, <1>5, <1>6 DEF IInv

-----------------------------------------------------------------------------
(* The segment thread *)

\* What is untouched when buf2 and the decode thread's side of the frames are.
LEMMA FramesStay ==
    ASSUME IInv, UNCHANGED <<decodeThread, decoders, dir, queued, left>>
    PROVE  Turning' /\ Placed' /\ Playing'
BY DEF IInv, decodeThread, decoders, Turning, Placed, There, QueuedFrames, Playing, Before

LEMMA InvRunDownloader ==
    ASSUME IInv, RunDownloader
    PROVE  IInv'
<1> USE DEF IInv, RunDownloader, history
<1>1. TypeOK'
  BY DEF TypeOK, LibPcs, DownloaderStates, decodeThread, decoders
<1>2. Numbering'
  BY DEF Numbering, Advice
<1>3. Ordering'
  BY DEF Ordering, Handed, Decoding, decodeThread
<1>4. BinAccounted'
  BY DEF BinAccounted, Downloaded, Unlisted, Ordering, decodeThread
<1>5. AdvisedQuality'
  BY DEF AdvisedQuality
<1> QED
  BY <1>1, <1>2, <1>3, <1>4, <1>5, FramesStay

LEMMA InvSystemReturns ==
    ASSUME IInv, SystemReturns
    PROVE  IInv'
<1> USE DEF IInv, SystemReturns, history
<1>1. TypeOK'
  BY DEF TypeOK, LibPcs, DownloaderStates, decodeThread, decoders
<1>2. Numbering'
  BY DEF Numbering, Advice
<1>3. Ordering'
  BY DEF Ordering, Handed, Decoding, decodeThread
<1>4. BinAccounted'
  BY DEF BinAccounted, Downloaded, Unlisted, decodeThread
<1>5. AdvisedQuality'
  BY DEF AdvisedQuality
<1> QED
  BY <1>1, <1>2, <1>3, <1>4, <1>5, FramesStay

LEMMA InvReceive ==
    ASSUME IInv, Receive
    PROVE  IInv'
<1> USE DEF IInv, Receive, download, history
<1>1. received + 1 \in 1 .. Len(sent) /\ received + 1 <= Bins
  BY Constants DEF TypeOK, Numbering
<1>2. TypeOK'
  BY <1>1, Constants DEF TypeOK, LibPcs, decodeThread, decoders
<1>3. Numbering'
  BY <1>1 DEF Numbering, Advice, TypeOK
<1>4. Ordering'
  BY DEF Ordering, Handed, Decoding, decodeThread
<1>5. BinAccounted'
  BY DEF BinAccounted, Downloaded, Unlisted, decodeThread
<1>6. AdvisedQuality'
  BY DEF AdvisedQuality
<1> QED
  BY <1>2, <1>3, <1>4, <1>5, <1>6, FramesStay

LEMMA InvQueueFile ==
    ASSUME IInv, QueueFile
    PROVE  IInv'
<1> USE DEF IInv, download, history
<1>1. PICK f \in Unlisted : listed' = listed \cup {f} /\ buf1' = Append(buf1, f)
  BY DEF QueueFile
<1>2. UNCHANGED <<lib, frame, ret, received, download, bin, decodeThread, decoders,
                  dir, shells, queued, failures, history>> /\ lib = "list"
  BY DEF QueueFile
<1>3. f \in Files /\ f \in bin /\ f.segment = frame /\ f \notin listed /\ frame \in Nat
  BY DEF TypeOK, Unlisted
<1>4. /\ buf1' \in Seq(Files)
      /\ Len(buf1) \in Nat
      /\ Len(buf1') = Len(buf1) + 1
      /\ \A i \in 1 .. Len(buf1) : buf1'[i] = buf1[i]
      /\ buf1'[Len(buf1) + 1] = f
  BY <1>1, <1>3, AppendFacts DEF TypeOK
<1>5. listed = {} /\ listed' = {f} /\ Unlisted = {f} /\ Unlisted' = {}
  <2>1. listed = {}
    BY <1>3 DEF Ordering
  <2>2. \A g \in bin : g.segment = frame => g = f
    BY <1>3 DEF Ordering
  <2> QED
    BY <1>1, <1>2, <1>3, <2>1, <2>2 DEF Unlisted
<1>6. TypeOK'
  BY <1>1, <1>2, <1>4 DEF TypeOK, decodeThread, decoders
<1>7. Numbering'
  BY <1>2 DEF Numbering, Advice
<1>8. Ordering'
  <2>1. \A i \in 1 .. Len(buf1') : i \in 1 .. Len(buf1) \/ i = Len(buf1) + 1
    BY <1>4
  <2>2. \A i \in 1 .. Len(buf1) : Handed(buf1[i].segment) /\ buf1[i].segment < frame
    <3>1. \A i \in 1 .. Len(buf1) : buf1[i].segment \in Int /\ Handed(buf1[i].segment)
      BY Entries, FileFields DEF Ordering, TypeOK
    <3> QED
      BY <1>3, <1>5, <3>1 DEF Handed
  <2>3. turn > 0 => Handed(msg.segment) /\ msg.segment < frame
    BY <1>3, <1>5, FileFields DEF Ordering, Handed, TypeOK
  <2>4. (\A i \in 1 .. Len(buf1) : Handed(buf1[i].segment))'
    <3>1. frame <= frame
      BY DEF TypeOK
    <3> QED
      BY <1>2, <1>3, <1>4, <1>5, <2>1, <2>2, <3>1 DEF Handed
  <2>5. \A i, j \in 1 .. Len(buf1') : i < j => buf1'[i].segment < buf1'[j].segment
    BY <1>3, <1>4, <2>1, <2>2 DEF Ordering
  <2>6. (turn > 0 => Handed(msg.segment)
                     /\ \A i \in 1 .. Len(buf1) : msg.segment < buf1[i].segment)'
    BY <1>2, <1>3, <1>4, <1>5, <2>1, <2>3 DEF Ordering, Handed, Decoding, decodeThread
  <2>7. /\ lib' # "list" => listed' = {}
        /\ (\A g \in bin, h \in listed : g.segment = frame => g = h)'
        /\ (\A g \in listed : g.segment = frame)'
    <3>1. \A g \in bin : g.segment = frame => g = f
      BY <1>3 DEF Ordering
    <3> QED
      BY <1>2, <1>3, <1>5, <3>1
  <2>8. /\ (\A g \in bin : g.segment <= frame)'
        /\ (\A g \in bin : lib = "start" \/ downloader = "running" => g.segment # frame)'
        /\ (\A g, h \in bin : g.segment = h.segment => g = h)'
        /\ (left \subseteq bin)'
        /\ (\A g \in left : turn > 0 /\ g.segment <= msg.segment)'
        /\ (dec \in Decoding => msg \notin left)'
    BY <1>2 DEF Ordering, decodeThread
  <2> QED
    BY <2>4, <2>5, <2>6, <2>7, <2>8 DEF Ordering
<1>9. BinAccounted'
  <2>1. {buf1'[i] : i \in DOMAIN buf1'} = {buf1[i] : i \in DOMAIN buf1} \cup {f}
    <3>1. DOMAIN buf1' = DOMAIN buf1 \cup {Len(buf1) + 1} /\ DOMAIN buf1 = 1 .. Len(buf1)
      BY <1>4, Entries DEF TypeOK
    <3> QED
      BY <1>4, <3>1
  <2> QED
    BY <1>2, <1>5, <2>1 DEF BinAccounted, Downloaded, decodeThread
<1>10. AdvisedQuality'
  BY <1>2 DEF AdvisedQuality
<1> QED
  BY <1>2, <1>6, <1>7, <1>8, <1>9, <1>10, FramesStay

LEMMA InvNextSegment ==
    ASSUME IInv, NextSegment
    PROVE  IInv'
<1> USE DEF IInv, NextSegment, download, history
<1>1. frame \in Nat /\ frame + 1 <= Bins
  BY Constants DEF TypeOK, Numbering
<1>2. TypeOK'
  BY <1>1, Constants DEF TypeOK, LibPcs, decodeThread, decoders
<1>3. Numbering'
  BY <1>1, Constants DEF Numbering, Advice, TypeOK
<1>4. Ordering'
  <2>1. \A i \in 1 .. Len(buf1) : buf1[i].segment \in Int
    BY Entries, FileFields DEF TypeOK
  <2>2. \A g \in bin : g.segment \in Int
    BY FileFields DEF TypeOK
  <2>3. msg.segment \in Int
    BY FileFields DEF TypeOK
  <2> QED
    BY <1>1, <2>1, <2>2, <2>3 DEF Ordering, Handed, Decoding, decodeThread, Numbering
<1>5. BinAccounted'
  BY <1>1, FileFields DEF BinAccounted, Downloaded, Unlisted, Ordering, decodeThread, TypeOK
<1>6. AdvisedQuality'
  BY DEF AdvisedQuality
<1> QED
  BY <1>2, <1>3, <1>4, <1>5, <1>6, FramesStay

LEMMA InvSegment ==
    ASSUME IInv, SegmentStep
    PROVE  IInv'
BY InvRunDownloader, InvSystemReturns, InvReceive, InvQueueFile, InvNextSegment DEF SegmentStep

-----------------------------------------------------------------------------
(* The downloader *)

LEMMA InvDownloadSegment ==
    ASSUME IInv, DownloadSegment
    PROVE  IInv'
<1> USE DEF IInv, segmentThread, history
<1> DEFINE file == [quality |-> ret, segment |-> frame]
<1>1. /\ downloader = "running" /\ downloader' = "downloaded"
      /\ bin' = bin \cup {file}
      /\ UNCHANGED <<segmentThread, sent, buf1, decodeThread, decoders, dir, shells,
                     queued, failures, history>>
  BY DEF DownloadSegment
<1>2. /\ lib = "system" /\ frame \in Segments
      /\ file \in Files /\ file.segment = frame /\ file.quality = Advice(frame)
  <2>1. lib = "system" /\ frame \in Segments /\ ret = Advice(frame)
    BY <1>1, Constants DEF Numbering, TypeOK, Segments
  <2> QED
    BY <2>1, FileFields DEF TypeOK
<1> HIDE DEF file
<1>3. \A g \in bin : g.segment <= frame /\ g.segment # frame
  BY <1>1 DEF Ordering
<1>4. TypeOK'
  BY <1>1, <1>2 DEF TypeOK, DownloaderStates, decodeThread, decoders
<1>5. Numbering'
  BY <1>1, <1>2 DEF Numbering, Advice
<1>6. Ordering'
  BY <1>1, <1>2, <1>3 DEF Ordering, Handed, Decoding, decodeThread, TypeOK, Segments
<1>7. BinAccounted'
  <2>1. listed = {}
    BY <1>2 DEF Ordering
  <2>2. Unlisted' = Unlisted \cup {file}
    BY <1>1, <1>2, <2>1 DEF Unlisted
  <2> QED
    BY <1>1, <1>2, <2>2 DEF BinAccounted, Downloaded, decodeThread
<1>8. AdvisedQuality'
  BY <1>1, <1>2 DEF AdvisedQuality, Advice
<1> QED
  BY <1>1, <1>4, <1>5, <1>6, <1>7, <1>8, FramesStay

LEMMA InvReport ==
    ASSUME IInv, Report
    PROVE  IInv'
<1> USE DEF IInv, segmentThread, history
<1>1. PICK q \in Qualities : sent' = Append(sent, q)
  BY DEF Report
<1>2. /\ downloader = "downloaded" /\ downloader' = "zombie"
      /\ UNCHANGED <<segmentThread, bin, buf1, decodeThread, decoders, dir, shells,
                     queued, failures, history>>
  BY DEF Report
<1>3. /\ sent' \in Seq(Qualities)
      /\ Len(sent) \in Nat
      /\ Len(sent') = Len(sent) + 1
      /\ \A i \in 1 .. Len(sent) : sent'[i] = sent[i]
  BY <1>1, AppendFacts DEF TypeOK
<1>4. \A s \in 0 .. Len(sent) : Advice(s)' = Advice(s)
  BY <1>3 DEF Advice
<1>5. frame \in 0 .. Len(sent) /\ lib = "system"
  BY <1>2, <1>3 DEF TypeOK, Numbering
<1>6. TypeOK'
  BY <1>2, <1>3 DEF TypeOK, DownloaderStates, decodeThread, decoders
<1>7. Numbering'
  BY <1>2, <1>3, <1>4, <1>5 DEF Numbering, Advice
<1>8. Ordering'
  BY <1>2 DEF Ordering, Handed, Decoding, decodeThread
<1>9. BinAccounted'
  BY <1>2 DEF BinAccounted, Downloaded, Unlisted, decodeThread
<1>10. AdvisedQuality'
  <2>1. \A f \in bin : f.segment \in 0 .. Len(sent)
    BY <1>3, <1>5, FileFields DEF Ordering, TypeOK
  <2> QED
    BY <1>2, <1>4, <2>1 DEF AdvisedQuality, Advice
<1> QED
  BY <1>2, <1>6, <1>7, <1>8, <1>9, <1>10, FramesStay

LEMMA InvDownloaderFails ==
    ASSUME IInv, DownloaderFails
    PROVE  IInv'
<1> USE DEF IInv, DownloaderFails, segmentThread, history
<1>1. TypeOK'
  BY Constants DEF TypeOK, DownloaderStates, decodeThread, decoders
<1>2. Numbering'
  BY DEF Numbering, Advice
<1>3. Ordering'
  BY DEF Ordering, Handed, Decoding, decodeThread
<1>4. BinAccounted'
  BY DEF BinAccounted, Downloaded, Unlisted, decodeThread
<1>5. AdvisedQuality'
  BY DEF AdvisedQuality
<1> QED
  BY <1>1, <1>2, <1>3, <1>4, <1>5, FramesStay

-----------------------------------------------------------------------------
(* The decoder processes *)

\* What is untouched when the files and the segment thread are.
LEMMA FilesStay ==
    ASSUME IInv, UNCHANGED <<segmentThread, download, bin, buf1, decodeThread, left>>
    PROVE  Numbering' /\ Ordering' /\ BinAccounted' /\ AdvisedQuality'
BY DEF IInv, segmentThread, download, decodeThread, Numbering, Advice, Ordering, Handed,
   Decoding, BinAccounted, Downloaded, Unlisted, AdvisedQuality

LEMMA InvWriteFrame ==
    ASSUME IInv, NEW k \in Turns, WriteFrame(k)
    PROVE  IInv'
<1> USE DEF IInv, decodeThread, history
<1>1. PICK f \in pending[k] : /\ pending' = [pending EXCEPT ![k] = @ \ {f}]
                              /\ dir' = [dir EXCEPT ![k] = @ \cup {f}]
                              /\ inOrder' \in BOOLEAN
  BY DEF WriteFrame
<1>2. /\ proc[k] = "running"
      /\ UNCHANGED <<segmentThread, download, bin, buf1, decodeThread, proc, shells,
                     queued, failures, left>>
  BY DEF WriteFrame
<1>3. k = turn /\ dec \notin {"take", "fork", "done"}
  BY <1>2 DEF Turning
<1>4. /\ pending \in [Turns -> SUBSET Frames] /\ dir \in [Turns -> SUBSET Frames]
      /\ f \in Frames
  BY DEF TypeOK
<1>5. TypeOK'
  BY <1>1, <1>2, <1>4 DEF TypeOK, segmentThread, download
<1>6. Turning'
  BY <1>2 DEF Turning
<1>7. Placed'
  <2>1. /\ pending'[turn] = pending[turn] \ {f} /\ dir'[turn] = dir[turn] \cup {f}
        /\ \A j \in Turns : j # turn => dir'[j] = dir[j]
        /\ f \in pending[turn]
    BY <1>1, <1>3, <1>4
  <2>2. There' = There /\ QueuedFrames(msg.segment)' = QueuedFrames(msg.segment)
    BY <1>2 DEF There, QueuedFrames
  <2>3. \A j \in Turns : j > turn \/ (j = turn /\ dec = "fork") => dir'[j] = {}
    BY <1>3, <2>1, Constants DEF Placed, TypeOK, Turns
  <2> QED
    BY <1>2, <2>1, <2>2, <2>3 DEF Placed
<1>8. Playing'
  BY <1>2 DEF Playing, Before
<1> QED
  BY <1>2, <1>5, <1>6, <1>7, <1>8, FilesStay

LEMMA InvEndOfDecoder ==
    ASSUME IInv, NEW k \in Turns, ExitDecoder(k) \/ DecoderFails(k)
    PROVE  IInv'
<1> USE DEF IInv, decodeThread, history
<1>1. /\ proc' = [proc EXCEPT ![k] = "zombie"]
      /\ UNCHANGED <<segmentThread, download, bin, buf1, decodeThread, pending, dir,
                     shells, queued, history>>
  BY DEF ExitDecoder, DecoderFails
<1>2. failures' \in 0 .. MaxFailures /\ shells' \in 0 .. failures'
  BY Constants DEF ExitDecoder, DecoderFails, TypeOK
<1>3. TypeOK'
  BY <1>1, <1>2 DEF TypeOK, ProcessStates, segmentThread, download
<1>4. Turning'
  BY <1>1 DEF Turning, TypeOK
<1>5. Placed' /\ Playing'
  BY <1>1 DEF Placed, There, QueuedFrames, Playing, Before
<1> QED
  BY <1>1, <1>3, <1>4, <1>5, FilesStay

-----------------------------------------------------------------------------
(* The decode thread *)

\* What is untouched when the segment thread and the downloader are.
LEMMA NumbersStay ==
    ASSUME IInv, UNCHANGED <<segmentThread, downloader, sent>>
    PROVE  Numbering'
BY DEF IInv, segmentThread, Numbering, Advice

\* The decode thread goes on with the same file.
LEMMA OrderStays ==
    ASSUME IInv, UNCHANGED <<segmentThread, download, bin, buf1, turn, msg, left>>,
           dec' \in Decoding => dec \in Decoding
    PROVE  Ordering' /\ AdvisedQuality'
BY DEF IInv, segmentThread, download, Ordering, Handed, AdvisedQuality

LEMMA BinStays ==
    ASSUME IInv, UNCHANGED <<segmentThread, bin, buf1, msg, left>>,
           dec \in Decoding <=> dec' \in Decoding
    PROVE  BinAccounted'
BY DEF IInv, segmentThread, BinAccounted, Downloaded, Unlisted, Decoding

LEMMA InvTakeFile ==
    ASSUME IInv, TakeFile
    PROVE  IInv'
<1> USE DEF IInv, TakeFile, segmentThread, download, decoders, history
<1>1. /\ buf1' \in Seq(Files)
      /\ Len(buf1) \in Nat /\ Len(buf1) > 0
      /\ Len(buf1') = Len(buf1) - 1
      /\ \A i \in 1 .. Len(buf1) - 1 : buf1'[i] = buf1[i + 1]
      /\ msg' = buf1[1] /\ msg' \in Files
  BY TailFacts DEF TypeOK
<1>2. turn \in Nat /\ turn < Bins /\ turn' = turn + 1
  BY DEF Turning, TypeOK
<1>3. TypeOK'
  BY <1>1, <1>2, Constants DEF TypeOK, DecPcs
<1>4. Turning'
  BY <1>2, Constants DEF Turning
<1>5. Ordering'
  <2>1. (\A i \in 1 .. Len(buf1) : Handed(buf1[i].segment) /\ msg.segment < buf1[i].segment)'
    BY <1>1 DEF Ordering, Handed
  <2>2. (\A i, j \in 1 .. Len(buf1) : i < j => buf1[i].segment < buf1[j].segment)'
    BY <1>1 DEF Ordering
  <2>3. Handed(msg.segment)'
    BY <1>1 DEF Ordering, Handed
  <2>4. \A f \in left : f \in Files /\ turn > 0 /\ f.segment < msg'.segment
    <3>1. \A f \in left : f \in Files /\ turn > 0 /\ f.segment <= msg.segment
      BY DEF Ordering, TypeOK
    <3>2. turn > 0 => msg.segment < msg'.segment
      BY <1>1 DEF Ordering
    <3>3. msg \in Files
      BY DEF TypeOK
    <3> HIDE DEF IInv, TakeFile
    <3> QED
      BY <1>1, <3>1, <3>2, <3>3, FileFields
  <2>5. (\A f \in left : turn > 0 /\ f.segment <= msg.segment)' /\ msg' \notin left
    <3>1. \A f \in Files : f.segment \in Int
      BY FileFields
    <3>2. UNCHANGED left /\ turn' > 0
      BY <1>2
    <3> HIDE DEF IInv, TakeFile
    <3> QED
      BY <1>1, <2>4, <3>1, <3>2
  <2>6. /\ lib' # "list" => listed' = {}
        /\ (\A f \in bin, g \in listed : f.segment = frame => f = g)'
        /\ (\A f \in listed : f.segment = frame)'
        /\ (\A f \in bin : f.segment <= frame)'
        /\ (\A f \in bin : lib = "start" \/ downloader = "running" => f.segment # frame)'
        /\ (\A f, g \in bin : f.segment = g.segment => f = g)'
        /\ (left \subseteq bin)'
    BY DEF Ordering
  <2> QED
    BY <2>1, <2>2, <2>3, <2>5, <2>6 DEF Ordering
<1>6. BinAccounted'
  <2>1. {buf1[i] : i \in DOMAIN buf1} = {msg'} \cup {buf1'[i] : i \in DOMAIN buf1'}
    <3>1. buf1 \in Seq(Files) /\ buf1 # <<>> /\ buf1' = Tail(buf1) /\ msg' = Head(buf1)
      BY DEF TypeOK
    <3>2. {buf1[i] : i \in DOMAIN buf1}
          = {Head(buf1)} \cup {Tail(buf1)[i] : i \in DOMAIN Tail(buf1)}
      BY <3>1, TailEntries
    <3> QED
      BY <3>1, <3>2
  <2> QED
    BY <2>1 DEF BinAccounted, Downloaded, Unlisted
<1>7. AdvisedQuality'
  BY DEF AdvisedQuality
<1>8. Placed'
  BY <1>2 DEF Placed, Turns
<1>9. Playing'
  <2>1. \A i \in 1 .. Len(queued) : queued[i].segment < msg'.segment
    <3>1. \A i \in 1 .. Len(queued) : queued[i].segment \in Int
      BY Queue
    <3>2. msg.segment \in Int /\ msg'.segment \in Int
      BY <1>1, FileFields DEF TypeOK
    <3> QED
      BY <1>1, <3>1, <3>2 DEF Playing, Ordering
  <2> QED
    <3>1. (\A i \in 1 .. Len(queued) : queued[i].segment < msg.segment)' /\ turn' > 0
      BY <1>2, <2>1
    <3>2. \A i \in 1 .. Len(queued) : queued[i].segment \in Int
      BY Queue
    <3>3. msg'.segment \in Int /\ UNCHANGED queued
      BY <1>1, FileFields
    <3> QED
      BY <3>1, <3>2, <3>3 DEF Playing, Before
<1> QED
  BY <1>3, <1>4, <1>5, <1>6, <1>7, <1>8, <1>9, NumbersStay

LEMMA InvFork ==
    ASSUME IInv, Fork
    PROVE  IInv'
<1> USE DEF IInv, Fork, segmentThread, download, history
<1>1. turn \in Turns
  BY Constants DEF TypeOK, Turning, Turns
<1>2. TypeOK'
  BY <1>1 DEF TypeOK, DecPcs, ProcessStates
<1>3. Turning'
  BY <1>1 DEF Turning, TypeOK
<1>4. Placed'
  <2>1. pending'[turn] = Frames /\ dir[turn] = {} /\ There' = {}
    BY <1>1 DEF TypeOK, Placed, There
  <2>2. QueuedFrames(msg.segment)' = {}
    <3>1. \A i \in 1 .. Len(queued) : queued[i].segment # msg.segment
      BY Queue, FileFields DEF Playing, TypeOK
    <3> QED
      BY <3>1, Queue DEF QueuedFrames
  <2> QED
    BY <2>1, <2>2 DEF Placed
<1>5. Playing'
  BY DEF Playing, Before
<1> QED
  BY <1>2, <1>3, <1>4, <1>5, NumbersStay, OrderStays, BinStays DEF Decoding

LEMMA InvPoll ==
    ASSUME IInv, Poll
    PROVE  IInv'
<1> USE DEF IInv, Poll, segmentThread, download, decoders, history
<1>1. TypeOK'
  BY DEF TypeOK, DecPcs
<1>2. Turning'
  BY DEF Turning
<1>3. Placed' /\ Playing'
  BY DEF Placed, There, QueuedFrames, Playing, Before
<1> QED
  BY <1>1, <1>2, <1>3, NumbersStay, OrderStays, BinStays DEF Decoding

LEMMA InvPollFails ==
    ASSUME IInv, PollFails
    PROVE  IInv'
<1> USE DEF IInv, PollFails, segmentThread, download, decoders
<1>1. turn > 0 /\ msg \in bin /\ msg.segment <= msg.segment
  BY FileFields DEF Turning, BinAccounted, TypeOK
<1>2. TypeOK'
  <2>1. shells' \in 0 .. failures' /\ failures' \in 0 .. MaxFailures
    BY Constants DEF TypeOK
  <2> QED
    BY <2>1 DEF TypeOK, DecPcs
<1>3. Turning'
  BY DEF Turning
<1>4. Ordering'
  BY <1>1 DEF Ordering, Handed, Decoding
<1>5. BinAccounted' /\ AdvisedQuality'
  BY DEF BinAccounted, Downloaded, Unlisted, AdvisedQuality
<1>6. Placed' /\ Playing'
  BY DEF Placed, There, QueuedFrames, Playing, Before
<1> QED
  BY <1>2, <1>3, <1>4, <1>5, <1>6, NumbersStay

LEMMA InvMoveFrames ==
    ASSUME IInv, MoveFrames
    PROVE  IInv'
<1> USE DEF IInv, MoveFrames, segmentThread, download, decoders, history
<1>1. turn \in Turns /\ cnt \in Nat /\ cnt + 1 <= Directories
  BY Constants DEF TypeOK, Turning, Turns
<1>2. TypeOK'
  BY <1>1, Constants DEF TypeOK, DecPcs
<1>3. Turning'
  BY <1>1 DEF Turning
<1>4. Placed'
  <2>1. dir'[turn] = {} /\ \A k \in Turns : k # turn => dir'[k] = dir[k]
    BY <1>1 DEF TypeOK
  <2>2. There = {} /\ There' = dir[turn]
        /\ QueuedFrames(msg.segment)' = QueuedFrames(msg.segment)
    BY DEF There, QueuedFrames
  <2>3. pending[turn] \cup dir[turn] \cup QueuedFrames(msg.segment) = Frames
    BY <1>1, <2>2 DEF Placed, Turns
  <2> QED
    BY <1>1, <2>1, <2>2, <2>3 DEF Placed, Turns
<1>5. Playing'
  <2>1. \A i \in 1 .. Len(queued) : queued[i].directory \in Int
    BY Queue
  <2> QED
    BY <1>1, <2>1 DEF Playing, Before
<1> QED
  BY <1>2, <1>3, <1>4, <1>5, NumbersStay, OrderStays, BinStays DEF Decoding

LEMMA InvEndBatch ==
    ASSUME IInv, EndBatch
    PROVE  IInv'
<1> USE DEF IInv, EndBatch, segmentThread, download, decoders, history
<1>1. TypeOK'
  BY DEF TypeOK, DecPcs
<1>2. Turning'
  BY Constants DEF Turning, TypeOK
<1>3. Placed' /\ Playing'
  BY DEF Placed, There, QueuedFrames, Playing, Before
<1> QED
  BY <1>1, <1>2, <1>3, NumbersStay, OrderStays, BinStays DEF Decoding

LEMMA InvRemoveFile ==
    ASSUME IInv, RemoveFile
    PROVE  IInv'
<1> USE DEF IInv, RemoveFile, segmentThread, download, decoders, history
<1>1. turn > 0 /\ msg.segment \in Int /\ frame \in Int
  BY FileFields DEF Turning, TypeOK
<1>2. msg \notin Downloaded /\ msg \notin left
  <2>1. msg \notin left /\ Handed(msg.segment)
    BY <1>1 DEF Ordering, Decoding
  <2>2. ASSUME msg \in Unlisted, lib \in {"system", "recv", "list"}
        PROVE  FALSE
    <3>1. msg \in bin /\ msg.segment = frame /\ msg \notin listed
      BY <2>2 DEF Unlisted
    <3>2. listed # {}
      BY <2>1, <3>1 DEF Handed
    <3> QED
      BY <3>1, <3>2 DEF Ordering
  <2> QED
    BY <2>1, <2>2 DEF Downloaded
<1>3. msg \notin {buf1[i] : i \in DOMAIN buf1}
  <2>1. DOMAIN buf1 = 1 .. Len(buf1)
    BY Entries DEF TypeOK
  <2>2. \A i \in 1 .. Len(buf1) : msg.segment < buf1[i].segment
    BY <1>1 DEF Ordering
  <2>3. \A i \in 1 .. Len(buf1) : buf1[i] # msg
    BY <1>1, <2>2
  <2> HIDE DEF IInv, RemoveFile
  <2> QED
    BY <2>1, <2>3
<1>4. TypeOK'
  BY DEF TypeOK, DecPcs
<1>5. Turning'
  BY DEF Turning
<1>6. Ordering'
  BY <1>2 DEF Ordering, Handed, Decoding
<1>7. BinAccounted'
  <2>1. Downloaded' = Downloaded
    BY <1>2 DEF Downloaded, Unlisted
  <2> QED
    BY <1>2, <1>3, <2>1 DEF BinAccounted
<1>8. AdvisedQuality'
  BY DEF AdvisedQuality
<1>9. Placed' /\ Playing'
  BY DEF Placed, There, QueuedFrames, Playing, Before
<1> QED
  BY <1>4, <1>5, <1>6, <1>7, <1>8, <1>9, NumbersStay

LEMMA InvWaitChild ==
    ASSUME IInv, WaitChild
    PROVE  IInv'
<1> USE DEF IInv, WaitChild, segmentThread, history
<1>1. /\ downloader' \in DownloaderStates
      /\ downloader' = "running" => downloader = "running"
      /\ downloader' = "downloaded" => downloader = "downloaded"
  BY DEF TypeOK, DownloaderStates
<1>2. /\ proc' \in [Turns -> ProcessStates]
      /\ \A k \in Turns : proc'[k] = "running" => proc[k] = "running"
  BY DEF TypeOK, ProcessStates
<1>3. TypeOK'
  <2>1. shells' \in 0 .. failures
    BY Constants DEF TypeOK
  <2> QED
    BY <1>1, <1>2, <2>1 DEF TypeOK, DecPcs
<1>4. Numbering'
  BY <1>1 DEF Numbering, Advice
<1>5. Turning'
  BY <1>2 DEF Turning
<1>6. Ordering' /\ AdvisedQuality'
  BY <1>1 DEF Ordering, Handed, Decoding, AdvisedQuality
<1>7. BinAccounted'
  BY BinStays DEF Decoding
<1>8. Placed' /\ Playing'
  BY DEF Placed, There, QueuedFrames, Playing, Before
<1> QED
  BY <1>3, <1>4, <1>5, <1>6, <1>7, <1>8

LEMMA InvKillDecoder ==
    ASSUME IInv, KillDecoder
    PROVE  IInv'
<1> USE DEF IInv, KillDecoder, segmentThread, download, history
<1>1. turn \in Turns
  BY Constants DEF TypeOK, Turning, Turns
<1>2. /\ proc' \in [Turns -> ProcessStates]
      /\ \A k \in Turns : proc'[k] # "running"
  BY <1>1 DEF TypeOK, ProcessStates, Turning
<1>3. TypeOK'
  BY <1>2 DEF TypeOK, DecPcs
<1>4. Turning'
  BY <1>1, <1>2, Constants DEF Turning, Turns
<1>5. Placed' /\ Playing'
  BY DEF Placed, There, QueuedFrames, Playing, Before
<1> QED
  BY <1>3, <1>4, <1>5, NumbersStay, OrderStays, BinStays DEF Decoding

LEMMA InvQueueFrame ==
    ASSUME IInv, QueueFrame
    PROVE  IInv'
<1> USE DEF IInv, segmentThread, download, decoders, history
<1> DEFINE Entry == [segment : Segments, directory : 0 .. Directories - 1, frame : Frames]
           entry(f) == [segment |-> msg.segment, directory |-> cnt - 1, frame |-> f]
<1>1. PICK f \in batch : /\ \A g \in batch : f <= g
                         /\ queued' = Append(queued, entry(f))
                         /\ batch' = batch \ {f}
  BY DEF QueueFrame
<1>2. /\ dec = "queue"
      /\ UNCHANGED <<segmentThread, download, bin, buf1, dec, turn, msg, cnt,
                     decoders, dir, shells, failures, history>>
  BY DEF QueueFrame
<1>3. /\ turn \in Turns /\ cnt - 1 \in 0 .. Directories - 1 /\ cnt \in Int
      /\ f \in Frames /\ batch \subseteq Frames /\ msg.segment \in Segments
  BY <1>2, Constants, FileFields DEF TypeOK, Turning, Turns
<1>4. /\ entry(f) \in Entry
      /\ entry(f).segment = msg.segment /\ entry(f).directory = cnt - 1
      /\ entry(f).frame = f
  BY <1>3
<1> HIDE DEF entry
<1>5. /\ queued' \in Seq(Entry)
      /\ Len(queued) \in Nat
      /\ Len(queued') = Len(queued) + 1
      /\ \A i \in 1 .. Len(queued) : queued'[i] = queued[i]
      /\ queued'[Len(queued) + 1] = entry(f)
  BY <1>1, <1>4, AppendFacts DEF TypeOK
<1>6. \A i \in 1 .. Len(queued') : i \in 1 .. Len(queued) \/ i = Len(queued) + 1
  BY <1>5
<1>7. TypeOK'
  BY <1>1, <1>2, <1>5 DEF TypeOK
<1>8. Turning'
  BY <1>2 DEF Turning
<1>9. QueuedFrames(msg.segment)' = QueuedFrames(msg.segment) \cup {f}
  <2>1. DOMAIN queued = 1 .. Len(queued) /\ DOMAIN queued' = 1 .. Len(queued) + 1
    BY <1>5, Queue, Entries
  <2>2. \A x : x \in QueuedFrames(msg.segment) <=>
             \E i \in 1 .. Len(queued) : queued[i].segment = msg.segment /\ x = queued[i].frame
    BY <2>1 DEF QueuedFrames
  <2>3. \A x : x \in QueuedFrames(msg.segment)' <=>
             \E i \in 1 .. Len(queued) + 1 :
                queued'[i].segment = msg.segment /\ x = queued'[i].frame
    BY <1>2, <2>1 DEF QueuedFrames
  <2>4. Len(queued) + 1 \in 1 .. Len(queued) + 1
        /\ \A i \in 1 .. Len(queued) : i \in 1 .. Len(queued) + 1
    BY <1>5
  <2>5. \A i \in 1 .. Len(queued) + 1 : i \in 1 .. Len(queued) \/ i = Len(queued) + 1
    BY <1>5
  <2> HIDE DEF IInv
  <2>6. ASSUME NEW x
        PROVE  x \in QueuedFrames(msg.segment)' <=> x \in QueuedFrames(msg.segment) \cup {f}
    BY <1>4, <1>5, <2>2, <2>3, <2>4, <2>5
  <2> QED
    BY <2>6
<1>10. f \notin QueuedFrames(msg.segment) /\ f \notin pending[turn] \cup dir[turn]
  BY <1>2, <1>3 DEF Placed, There, Turns
<1>11. Placed'
  <2>1. There = batch /\ There' = batch \ {f}
    BY <1>1, <1>2 DEF There
  <2>2. \A i \in 1 .. Len(queued) :
           ~ (queued[i].segment = msg.segment /\ queued[i].frame = f)
    BY <1>10, Queue DEF QueuedFrames
  <2>3. (\A i, j \in 1 .. Len(queued) :
            queued[i].segment = queued[j].segment /\ queued[i].frame = queued[j].frame
            => i = j)'
    <3>1. \A i, j \in 1 .. Len(queued) :
             queued[i].segment = queued[j].segment /\ queued[i].frame = queued[j].frame
             => i = j
      BY DEF Placed
    <3> HIDE DEF IInv
    <3>2. ASSUME NEW i \in 1 .. Len(queued'), NEW j \in 1 .. Len(queued'),
                 queued'[i].segment = queued'[j].segment,
                 queued'[i].frame = queued'[j].frame
          PROVE  i = j
      <4>1. CASE i \in 1 .. Len(queued) /\ j \in 1 .. Len(queued)
        BY <1>5, <3>1, <3>2, <4>1
      <4>2. CASE i \in 1 .. Len(queued) /\ j = Len(queued) + 1
        BY <1>4, <1>5, <2>2, <3>2, <4>2
      <4>3. CASE i = Len(queued) + 1 /\ j \in 1 .. Len(queued)
        BY <1>4, <1>5, <2>2, <3>2, <4>3
      <4> QED
        BY <1>6, <4>1, <4>2, <4>3
    <3> QED
      BY <3>2
  <2> QED
    BY <1>1, <1>2, <1>9, <1>10, <2>1, <2>3 DEF Placed
<1>12. Playing'
  <2>1. \A g \in batch' : f < g
    BY <1>1, <1>3 DEF Frames
  <2>2. \A i \in 1 .. Len(queued) : Before(queued[i], entry(f))
    <3>1. \A i \in 1 .. Len(queued) :
             /\ queued[i].segment < msg.segment \/ queued[i].segment = msg.segment
             /\ queued[i].segment = msg.segment =>
                   queued[i].directory < cnt - 1 \/ queued[i].directory = cnt - 1
      BY <1>3, Queue DEF Playing, Segments
    <3> QED
      BY <1>2, <1>4, <3>1 DEF Playing, Before
  <2>3. (\A i, j \in 1 .. Len(queued) : i < j => Before(queued[i], queued[j]))'
    <3>1. ASSUME NEW i \in 1 .. Len(queued'), NEW j \in 1 .. Len(queued'), i < j
          PROVE  Before(queued'[i], queued'[j])
      <4>1. i \in 1 .. Len(queued) /\ queued'[i] = queued[i]
        BY <1>5, <1>6, <3>1
      <4>2. CASE j \in 1 .. Len(queued)
        BY <1>5, <3>1, <4>1, <4>2 DEF Playing
      <4>3. CASE j = Len(queued) + 1
        BY <1>5, <2>2, <4>1, <4>3
      <4> QED
        BY <1>6, <4>2, <4>3
    <3> QED
      BY <3>1 DEF Before
  <2>4. (\A i \in 1 .. Len(queued) :
          /\ turn > 0
          /\ queued[i].segment <= msg.segment
          /\ queued[i].segment = msg.segment =>
                /\ queued[i].directory < cnt
                /\ dec = "queue" /\ queued[i].directory = cnt - 1 =>
                      \A g \in batch : queued[i].frame < g)'
    BY <1>1, <1>2, <1>3, <1>4, <1>5, <1>6, <2>1 DEF Playing, Turns, Segments
  <2> QED
    BY <1>2, <2>3, <2>4 DEF Playing
<1> QED
  BY <1>2, <1>7, <1>8, <1>11, <1>12, NumbersStay, OrderStays, BinStays

LEMMA InvNext ==
    ASSUME IInv, [Next]_vars
    PROVE  IInv'
<1>1. CASE UNCHANGED vars
  <2>1. UNCHANGED <<segmentThread, download, bin, buf1, decodeThread, decoders, dir,
                    shells, queued, failures, history>>
    BY <1>1 DEF vars
  <2>2. TypeOK'
    BY <2>1 DEF IInv, TypeOK, segmentThread, download, decodeThread, decoders, history
  <2> QED
    BY <2>1, <2>2, FramesStay, FilesStay DEF IInv, history
<1>2. CASE DecodeStep
  BY <1>2, InvTakeFile, InvFork, InvPoll, InvMoveFrames, InvQueueFrame, InvEndBatch,
     InvRemoveFile, InvWaitChild, InvKillDecoder DEF DecodeStep
<1>3. CASE DownloaderStep \/ DownloaderFails
  BY <1>3, InvDownloadSegment, InvReport, InvDownloaderFails DEF DownloaderStep
<1>4. CASE \E k \in Turns : DecoderStep(k) \/ DecoderFails(k)
  BY <1>4, InvWriteFrame, InvEndOfDecoder DEF DecoderStep
<1> QED
  BY <1>1, <1>2, <1>3, <1>4, InvSegment, InvPollFails DEF Next

LEMMA Invariance == Spec => []IInv
<1>1. IInv /\ [Next]_vars => IInv'
  BY InvNext
<1> QED
  BY InvInit, <1>1, PTL DEF Spec

-----------------------------------------------------------------------------
(* Counting the frames *)

Finite == /\ IsFiniteSet(Frames)
          /\ Cardinality(Frames) = FramesPerSegment

LEMMA FramesFinite == Finite
<1>1. 0 \in Int /\ FramesPerSegment - 1 \in Int
  BY Constants
<1>2. /\ IsFiniteSet(0 .. FramesPerSegment - 1)
      /\ Cardinality(0 .. FramesPerSegment - 1)
          = IF 0 > FramesPerSegment - 1 THEN 0 ELSE FramesPerSegment - 1 - 0 + 1
  BY <1>1, FS_Interval
<1> QED
  BY <1>2, Constants DEF Finite, Frames

\* Entries of buf2 and frames of one segment correspond one to one.
LEMMA OncePerFrame ==
    ASSUME IInv, NEW s
    PROVE  Cardinality(QueuedFrames(s))
           = Cardinality({i \in DOMAIN queued : queued[i].segment = s})
<1> DEFINE I == {i \in DOMAIN queued : queued[i].segment = s}
           F == [i \in I |-> queued[i].frame]
<1>1. DOMAIN queued = 1 .. Len(queued) /\ Len(queued) \in Nat
  BY Queue DEF IInv
<1>2. IsFiniteSet(I)
  <2>1. IsFiniteSet(1 .. Len(queued)) /\ I \subseteq 1 .. Len(queued)
    BY <1>1, FS_Interval
  <2> HIDE DEF I
  <2> QED
    BY <2>1, FS_Subset
<1>3. F \in Surjection(I, QueuedFrames(s))
  BY DEF QueuedFrames, Surjection
<1>4. F \in Injection(I, QueuedFrames(s))
  BY <1>1, <1>3 DEF IInv, Placed, Injection, IsInjective, Surjection
<1> HIDE DEF I, F
<1>5. Cardinality(QueuedFrames(s)) = Cardinality(I)
  BY <1>2, <1>3, <1>4, FS_Surjection
<1> QED
  BY <1>5 DEF I

LEMMA AllPlaced ==
    ASSUME IInv
    PROVE  FrameInOnePlace
<1> SUFFICES ASSUME turn > 0, dec # "fork"
             PROVE  LET s == msg.segment
                        there == (IF dec = "queue" THEN batch ELSE {})
                        places == <<pending[turn], dir[turn], there, QueuedFrames(s)>>
                    IN  /\ UNION {places[i] : i \in 1 .. 4} = Frames
                        /\ \A i, j \in 1 .. 4 : i # j => places[i] \cap places[j] = {}
                        /\ Cardinality(QueuedFrames(s)) =
                              Cardinality({i \in DOMAIN queued : queued[i].segment = s})
  BY DEF FrameInOnePlace
<1> DEFINE places == <<pending[turn], dir[turn], There, QueuedFrames(msg.segment)>>
<1>1. /\ pending[turn] \cup dir[turn] \cup There \cup QueuedFrames(msg.segment) = Frames
      /\ pending[turn] \cap dir[turn] = {}
      /\ (pending[turn] \cup dir[turn]) \cap There = {}
      /\ (pending[turn] \cup dir[turn] \cup There) \cap QueuedFrames(msg.segment) = {}
  BY DEF IInv, Placed
<1>2. /\ places[1] = pending[turn] /\ places[2] = dir[turn] /\ places[3] = There
      /\ places[4] = QueuedFrames(msg.segment)
  OBVIOUS
<1> HIDE DEF places
<1>3. 1 .. 4 = {1, 2, 3, 4}
  OBVIOUS
<1>4. UNION {places[i] : i \in 1 .. 4} = Frames
  <2>1. UNION {places[i] : i \in 1 .. 4}
        = places[1] \cup places[2] \cup places[3] \cup places[4]
    BY <1>3
  <2> QED
    BY <1>1, <1>2, <2>1
<1>5. \A i, j \in 1 .. 4 : i # j => places[i] \cap places[j] = {}
  <2>1. /\ places[1] \cap places[2] = {} /\ places[1] \cap places[3] = {}
        /\ places[1] \cap places[4] = {} /\ places[2] \cap places[3] = {}
        /\ places[2] \cap places[4] = {} /\ places[3] \cap places[4] = {}
    BY <1>1, <1>2
  <2> QED
    BY <1>3, <2>1
<1> QED
  BY <1>4, <1>5, OncePerFrame DEF There, places

\* The frames of this turn that have been moved out of the decoder's directory.
Moved == Frames \ (pending[turn] \cup dir[turn])

\* Each directory stands for at least the frames that were counted.
Counted ==
    /\ dec = "fork" => cnt = 0
    /\ dec = "move" => PlyPerDirectory <= Cardinality(dir[turn])
    /\ dec \notin {"take", "fork"} => cnt * PlyPerDirectory <= Cardinality(Moved)

LEMMA Subsets ==
    ASSUME NEW S, S \subseteq Frames
    PROVE  IsFiniteSet(S) /\ Cardinality(S) \in Nat
BY FramesFinite, FS_Subset, FS_CardinalityType DEF Finite

LEMMA CountedFork ==
    ASSUME IInv, IInv', Counted, Fork
    PROVE  Counted'
<1>1. turn \in Turns /\ pending' = [pending EXCEPT ![turn] = Frames] /\ dec' = "poll"
      /\ cnt' = 0 /\ turn' = turn
  BY Constants DEF IInv, TypeOK, Turning, Turns, Fork, Counted
<1>2. Moved' = {}
  BY <1>1 DEF IInv, TypeOK, Moved, Frames
<1>3. cnt' * PlyPerDirectory = 0 /\ Cardinality(Moved') = 0
  BY <1>1, <1>2, Constants, FS_EmptySet
<1> QED
  BY <1>1, <1>3 DEF Counted

LEMMA CountedMove ==
    ASSUME IInv, IInv', Counted, MoveFrames
    PROVE  Counted'
<1>1. /\ turn \in Turns /\ turn' = turn /\ pending' = pending
      /\ dec = "move" /\ dec' = "queue" /\ cnt' = cnt + 1 /\ cnt \in Int
      /\ dir' = [dir EXCEPT ![turn] = {}]
  BY Constants DEF IInv, TypeOK, Turning, Turns, MoveFrames, decoders
<1>2. pending[turn] \subseteq Frames /\ dir[turn] \subseteq Frames /\ dir'[turn] = {}
  BY <1>1 DEF IInv, TypeOK
<1>3. pending[turn] \cap dir[turn] = {}
  BY <1>1 DEF IInv, Placed, Turns
<1>4. Moved' = Moved \cup dir[turn] /\ Moved \cap dir[turn] = {}
  BY <1>1, <1>2, <1>3 DEF Moved, Frames
<1>5. /\ IsFiniteSet(Moved) /\ Cardinality(Moved) \in Nat
      /\ IsFiniteSet(dir[turn]) /\ Cardinality(dir[turn]) \in Nat
  BY <1>2, Subsets DEF Moved
<1>6. Cardinality(Moved') = Cardinality(Moved) + Cardinality(dir[turn])
  BY <1>4, <1>5, FS_Union, FS_EmptySet
<1>7. (cnt + 1) * PlyPerDirectory = cnt * PlyPerDirectory + PlyPerDirectory
      /\ cnt * PlyPerDirectory \in Int
  BY <1>1, Constants
<1> QED
  BY <1>1, <1>5, <1>6, <1>7, Constants DEF Counted

LEMMA CountedWrite ==
    ASSUME IInv, IInv', Counted, NEW k \in Turns, WriteFrame(k)
    PROVE  Counted'
<1>1. PICK f \in pending[k] : /\ pending' = [pending EXCEPT ![k] = @ \ {f}]
                              /\ dir' = [dir EXCEPT ![k] = @ \cup {f}]
  BY DEF WriteFrame
<1>2. k = turn /\ UNCHANGED decodeThread
  BY DEF WriteFrame, IInv, Turning
<1>3. /\ pending'[turn] = pending[turn] \ {f} /\ dir'[turn] = dir[turn] \cup {f}
      /\ dir'[turn] \subseteq Frames /\ f \in pending[turn]
  BY <1>1, <1>2 DEF IInv, TypeOK
<1>4. Moved' = Moved
  BY <1>2, <1>3 DEF Moved, Frames, decodeThread
<1>5. Cardinality(dir[turn]) \in Nat /\ Cardinality(dir'[turn]) \in Nat
      /\ Cardinality(dir[turn]) <= Cardinality(dir'[turn])
  BY <1>3, Subsets, FS_Subset
<1>6. PlyPerDirectory <= Cardinality(dir[turn]) => PlyPerDirectory <= Cardinality(dir'[turn])
  BY <1>5, Constants
<1> QED
  BY <1>2, <1>4, <1>6 DEF Counted, decodeThread

LEMMA CountedNext ==
    ASSUME IInv, IInv', Counted, [Next]_vars
    PROVE  Counted'
<1>1. CASE UNCHANGED vars \/ SegmentStep \/ DownloaderStep \/ DownloaderFails
  <2>1. UNCHANGED <<decodeThread, pending, dir>>
    BY <1>1 DEF vars, decoders, SegmentStep, RunDownloader, SystemReturns, Receive,
       QueueFile, NextSegment, DownloaderStep, DownloadSegment, Report,
       DownloaderFails
  <2> QED
    BY <2>1 DEF Counted, Moved, Frames, decodeThread
<1>2. ASSUME NEW k \in Turns, DecoderStep(k) \/ DecoderFails(k)
      PROVE  Counted'
  <2>1. CASE ExitDecoder(k) \/ DecoderFails(k)
    BY <2>1 DEF ExitDecoder, DecoderFails, Counted, Moved, Frames, decodeThread
  <2> QED
    BY <1>2, <2>1, CountedWrite DEF DecoderStep
<1>3. CASE DecodeStep \/ PollFails
  <2>1. CASE TakeFile
    BY <2>1 DEF TakeFile, Counted
  <2>2. CASE Poll
    <3>1. UNCHANGED <<turn, cnt, pending, dir>> /\ dec = "poll" /\ dec' \in {"move", "remove"}
          /\ (dec' = "move" => Cardinality(dir[turn]) = PlyPerDirectory)
      BY <2>2 DEF Poll, decoders
    <3> QED
      BY <3>1, Constants DEF Counted, Moved, Frames
  <2>3. CASE QueueFrame \/ EndBatch \/ PollFails \/ RemoveFile \/ WaitChild \/ KillDecoder
    <3>1. /\ UNCHANGED <<turn, cnt, pending, dir>>
          /\ dec \notin {"take", "fork"} /\ dec' \notin {"fork", "move"}
      BY <2>3 DEF QueueFrame, EndBatch, PollFails, RemoveFile, WaitChild, KillDecoder,
         decoders
    <3> QED
      BY <3>1 DEF Counted, Moved, Frames
  <2> QED
    BY <1>3, <2>1, <2>2, <2>3, CountedFork, CountedMove DEF DecodeStep
<1> QED
  BY <1>1, <1>2, <1>3 DEF Next

LEMMA Counting == Spec => []Counted
<1>1. Init => Counted
  BY DEF Init, Counted
<1>2. IInv /\ IInv' /\ Counted /\ [Next]_vars => Counted'
  BY CountedNext
<1> QED
  BY Invariance, <1>1, <1>2, PTL DEF Spec

-----------------------------------------------------------------------------
(* Decoders that write in order *)

\* What has been queued of this segment comes before what is being queued, that
\* before what is in the directory, and that before what is still to be written.
Sorted ==
    inOrder =>
        /\ (turn > 0 /\ dec # "fork") =>
              /\ \A f \in dir[turn], g \in pending[turn] : f < g
              /\ \A f \in There, g \in dir[turn] \cup pending[turn] : f < g
              /\ \A f \in QueuedFrames(msg.segment),
                    g \in dir[turn] \cup pending[turn] \cup There : f < g
        /\ \A i, j \in 1 .. Len(queued) : i < j => Earlier(queued[i], queued[j])

\* The decode thread and its decoder at rest.
LEMMA SortedStays ==
    ASSUME Sorted, UNCHANGED <<decodeThread, pending, dir, queued, inOrder>>
    PROVE  Sorted'
BY DEF Sorted, There, QueuedFrames, Earlier, decodeThread

LEMMA SortedFork ==
    ASSUME IInv, Sorted, Fork
    PROVE  Sorted'
<1>1. turn > 0 /\ turn \in Turns /\ turn' = turn /\ dec = "fork" /\ dec' = "poll"
      /\ UNCHANGED <<msg, dir, queued, inOrder>>
  BY Constants DEF IInv, TypeOK, Turning, Turns, Fork, history
<1>2. dir'[turn] = {} /\ There' = {} /\ QueuedFrames(msg.segment)' = {}
  <2>1. dir[turn] = {}
    BY <1>1 DEF IInv, Placed
  <2>2. \A i \in 1 .. Len(queued) : queued[i].segment # msg.segment
    <3>1. \A i \in 1 .. Len(queued) :
             queued[i].segment \in Int /\ queued[i].segment < msg.segment
      BY <1>1, Queue DEF IInv, Playing
    <3>2. msg.segment \in Int
      BY FileFields DEF IInv, TypeOK
    <3> QED
      BY <3>1, <3>2
  <2> QED
    <3>1. DOMAIN queued = 1 .. Len(queued) /\ UNCHANGED <<queued, msg>>
      BY <1>1, Queue DEF IInv
    <3>2. QueuedFrames(msg.segment)' = QueuedFrames(msg.segment)
      BY <3>1 DEF QueuedFrames
    <3>3. {j \in DOMAIN queued : queued[j].segment = msg.segment} = {}
      BY <2>2, <3>1
    <3>4. QueuedFrames(msg.segment) = {}
      BY <3>3, Zenon DEF QueuedFrames
    <3> QED
      BY <1>1, <2>1, <3>2, <3>4 DEF There
<1> QED
  BY <1>1, <1>2 DEF Sorted, Earlier

LEMMA SortedWrite ==
    ASSUME IInv, Sorted, NEW k \in Turns, WriteFrame(k)
    PROVE  Sorted'
<1>1. PICK f \in pending[k] : /\ pending' = [pending EXCEPT ![k] = @ \ {f}]
                              /\ dir' = [dir EXCEPT ![k] = @ \cup {f}]
                              /\ inOrder' = (inOrder /\ \A g \in pending[k] : f <= g)
  BY DEF WriteFrame
<1>2. k = turn /\ turn > 0 /\ dec # "fork" /\ UNCHANGED <<turn, dec, msg, batch, queued>>
  BY Constants DEF WriteFrame, IInv, Turning, Turns, decodeThread
<1>3. /\ pending'[turn] = pending[turn] \ {f} /\ dir'[turn] = dir[turn] \cup {f}
      /\ f \in pending[turn] /\ pending[turn] \subseteq Frames
  BY <1>1, <1>2 DEF IInv, TypeOK
<1>4. There' = There /\ QueuedFrames(msg.segment)' = QueuedFrames(msg.segment)
  BY <1>2 DEF There, QueuedFrames
<1> SUFFICES ASSUME inOrder' PROVE Sorted'
  BY DEF Sorted
<1>5. inOrder /\ \A g \in pending[turn] \ {f} : f < g
  <2>1. inOrder /\ \A g \in pending[turn] : f <= g
    BY <1>1, <1>2, Zenon
  <2>2. \A g \in pending[turn] : g \in Int
    BY <1>3 DEF Frames
  <2> QED
    BY <1>3, <2>1, <2>2
<1> QED
  BY <1>2, <1>3, <1>4, <1>5 DEF Sorted, Earlier

LEMMA SortedMove ==
    ASSUME IInv, Sorted, MoveFrames
    PROVE  Sorted'
<1>1. /\ turn \in Turns /\ turn > 0 /\ dec = "move" /\ dec' = "queue" /\ batch' = dir[turn]
      /\ dir'[turn] = {} /\ UNCHANGED <<turn, msg, pending, queued, inOrder>>
  BY Constants DEF IInv, TypeOK, Turning, Turns, MoveFrames, decoders, history
<1>2. There' = dir[turn] /\ QueuedFrames(msg.segment)' = QueuedFrames(msg.segment)
  BY <1>1 DEF There, QueuedFrames
<1> QED
  BY <1>1, <1>2 DEF Sorted, Earlier

LEMMA SortedQueue ==
    ASSUME IInv, Sorted, QueueFrame
    PROVE  Sorted'
<1> DEFINE Entry == [segment : Segments, directory : 0 .. Directories - 1, frame : Frames]
           entry(f) == [segment |-> msg.segment, directory |-> cnt - 1, frame |-> f]
<1>1. PICK f \in batch : /\ \A g \in batch : f <= g
                         /\ queued' = Append(queued, entry(f))
                         /\ batch' = batch \ {f}
  BY DEF QueueFrame
<1>2. dec = "queue" /\ UNCHANGED <<dec, turn, msg, pending, dir, inOrder>>
  BY DEF QueueFrame, decoders, history
<1>3. /\ turn > 0 /\ cnt - 1 \in 0 .. Directories - 1
      /\ f \in Frames /\ batch \subseteq Frames /\ msg.segment \in Segments
  BY <1>2, Constants, FileFields DEF IInv, TypeOK, Turning
<1>4. entry(f) \in Entry /\ entry(f).segment = msg.segment /\ entry(f).frame = f
  BY <1>3
<1> HIDE DEF entry
<1>5. /\ Len(queued) \in Nat
      /\ Len(queued') = Len(queued) + 1
      /\ \A i \in 1 .. Len(queued) : queued'[i] = queued[i]
      /\ queued'[Len(queued) + 1] = entry(f)
      /\ DOMAIN queued' = 1 .. Len(queued) + 1
  <2>1. queued \in Seq(Entry)
    BY DEF IInv, TypeOK
  <2> HIDE DEF Entry
  <2> QED
    BY <1>1, <1>4, <2>1, AppendFacts, Entries
<1> SUFFICES ASSUME inOrder PROVE Sorted'
  BY <1>2 DEF Sorted
<1>6. There = batch /\ There' = batch \ {f}
  BY <1>1, <1>2 DEF There
<1>7. \A g \in batch \ {f} : f < g
  BY <1>1, <1>3 DEF Frames
<1>8. QueuedFrames(msg.segment)' \subseteq QueuedFrames(msg.segment) \cup {f}
  BY <1>2, <1>4, <1>5, Queue DEF IInv, QueuedFrames
<1>9. \A i \in 1 .. Len(queued) : Earlier(queued[i], entry(f))
  <2>1. ASSUME NEW i \in 1 .. Len(queued), queued[i].segment = msg.segment
        PROVE  queued[i].frame < f
    <3>1. queued[i].frame \in QueuedFrames(msg.segment)
      BY <2>1, Queue DEF IInv, QueuedFrames
    <3> QED
      BY <1>2, <1>3, <1>6, <3>1 DEF Sorted
  <2>2. ASSUME NEW i \in 1 .. Len(queued)
        PROVE  queued[i].segment < msg.segment \/ queued[i].segment = msg.segment
    BY <1>3, Queue DEF IInv, Playing, Segments
  <2> QED
    BY <1>4, <2>1, <2>2 DEF Earlier
<1>10. (\A i, j \in 1 .. Len(queued) : i < j => Earlier(queued[i], queued[j]))'
  <2>1. ASSUME NEW i \in 1 .. Len(queued'), NEW j \in 1 .. Len(queued'), i < j
        PROVE  Earlier(queued'[i], queued'[j])
    <3>1. i \in 1 .. Len(queued) /\ queued'[i] = queued[i]
      BY <1>5, <2>1
    <3>2. CASE j \in 1 .. Len(queued)
      BY <1>5, <2>1, <3>1, <3>2 DEF Sorted
    <3>3. CASE j = Len(queued) + 1
      BY <1>5, <1>9, <3>1, <3>3
    <3> QED
      BY <1>5, <3>2, <3>3
  <2> QED
    BY <2>1 DEF Earlier
<1> QED
  BY <1>2, <1>3, <1>6, <1>7, <1>8, <1>10 DEF Sorted

LEMMA SortedNext ==
    ASSUME IInv, Sorted, [Next]_vars
    PROVE  Sorted'
<1>1. CASE UNCHANGED vars \/ SegmentStep \/ DownloaderStep \/ DownloaderFails
  <2>1. UNCHANGED <<decodeThread, pending, dir, queued, inOrder>>
    BY <1>1 DEF vars, decoders, history, SegmentStep, RunDownloader, SystemReturns,
       Receive, QueueFile, NextSegment, DownloaderStep, DownloadSegment, Report,
       DownloaderFails
  <2> QED
    BY <2>1, SortedStays
<1>2. ASSUME NEW k \in Turns, DecoderStep(k) \/ DecoderFails(k)
      PROVE  Sorted'
  <2>1. CASE ExitDecoder(k) \/ DecoderFails(k)
    BY <2>1, SortedStays DEF ExitDecoder, DecoderFails, history
  <2> QED
    BY <1>2, <2>1, SortedWrite DEF DecoderStep
<1>3. CASE DecodeStep \/ PollFails
  <2>1. CASE TakeFile
    BY <2>1 DEF TakeFile, Sorted, Earlier, history
  <2>2. CASE EndBatch
    <3>1. /\ dec = "queue" /\ batch = {} /\ dec' \notin {"fork", "queue"}
          /\ UNCHANGED <<turn, msg, pending, dir, queued, inOrder>>
      BY <2>2 DEF EndBatch, decoders, history
    <3>2. There = {} /\ There' = {}
      BY <3>1 DEF There
    <3> QED
      BY <3>1, <3>2 DEF Sorted, QueuedFrames, Earlier
  <2>3. CASE Poll \/ PollFails \/ RemoveFile \/ WaitChild \/ KillDecoder
    <3>1. /\ dec \notin {"fork", "queue"} /\ dec' \notin {"fork", "queue"}
          /\ UNCHANGED <<turn, msg, pending, dir, queued, inOrder>>
      BY <2>3 DEF Poll, PollFails, RemoveFile, WaitChild, KillDecoder, decoders, history
    <3>2. There = {} /\ There' = {}
      BY <3>1 DEF There
    <3> QED
      BY <3>1, <3>2 DEF Sorted, QueuedFrames, Earlier
  <2> QED
    BY <1>3, <2>1, <2>2, <2>3, SortedFork, SortedMove, SortedQueue DEF DecodeStep
<1> QED
  BY <1>1, <1>2, <1>3 DEF Next

LEMMA Sorting == Spec => []Sorted
<1>1. Init => Sorted
  BY DEF Init, Sorted
<1>2. IInv /\ Sorted /\ [Next]_vars => Sorted'
  BY SortedNext
<1> QED
  BY Invariance, <1>1, <1>2, PTL DEF Spec

-----------------------------------------------------------------------------
(* The theorems *)

\* Every variable keeps its type: no more datagrams are received than segments
\* were asked for, and the decode thread never makes a directory too many.
THEOREM TypeCorrect == Spec => []TypeOK
<1>1. IInv => TypeOK
  BY DEF IInv
<1> QED
  BY Invariance, <1>1, PTL

\* At most one decoder runs, for any number of segments, though wait() reaps
\* whichever child has ended (lines 377, 429, 431).
THEOREM OneAtATime == Spec => []OneDecoder
<1>1. IInv => OneDecoder
  BY DEF IInv, Turning, OneDecoder
<1> QED
  BY Invariance, <1>1, PTL

\* What is in build/bin is exactly what is on its way to the decoder, for any
\* number of segments and whichever process fails (lines 305-328, 361, 421-425).
THEOREM BinCorrect == Spec => []BinAccounted
<1>1. IInv => BinAccounted
  BY DEF IInv
<1> QED
  BY Invariance, <1>1, PTL

\* Each segment is downloaded in the quality advised after the one before it
\* (lines 282, 308-312).
THEOREM QualityCorrect == Spec => []AdvisedQuality
<1>1. IInv => AdvisedQuality
  BY DEF IInv
<1> QED
  BY Invariance, <1>1, PTL

\* buf2 is in the order of segments, directories and the frames in a directory,
\* for any number of them and whatever the decoder's writers and the poll do; and
\* as long as each decoder has written its frames in their order, it is in
\* playback order, however the moves cut them into directories (lines 397-418).
THEOREM InPlaybackOrder == Spec => []PlaybackOrder
<1>1. IInv /\ Sorted => PlaybackOrder
  BY Queue DEF IInv, Playing, Sorted, PlaybackOrder
<1> QED
  BY Invariance, Sorting, <1>1, PTL

\* Between its writing and buf2 no frame is lost, doubled or left behind, for any
\* number of frames and directories (lines 391-418).
THEOREM NoFrameLost == Spec => []FrameInOnePlace
<1>1. IInv => FrameInOnePlace
  BY AllPlaced
<1> QED
  BY Invariance, <1>1, PTL

\* If the directories the client waits for hold all the frames that the server
\* puts into a segment, then a segment's file is removed and its decoder killed
\* only after all of them are on buf2 (lines 396, 421-431).
THEOREM FinishedCorrect ==
    ASSUME FramesPerSegment <= Directories * PlyPerDirectory
    PROVE  Spec => []FinishedIsComplete
<1>1. ASSUME IInv, Counted
      PROVE  FinishedIsComplete
  <2> SUFFICES ASSUME dec \in {"remove", "wait", "kill", "done"}, msg \notin left
               PROVE  QueuedFrames(msg.segment) = Frames
    BY DEF FinishedIsComplete
  <2>1. turn > 0 /\ cnt = Directories /\ There = {}
    BY <1>1 DEF IInv, Turning, There
  <2>2. QueuedFrames(msg.segment) = Moved
    BY <1>1, <2>1 DEF IInv, Placed, Moved
  <2>3. Directories * PlyPerDirectory <= Cardinality(Moved)
    BY <1>1, <2>1 DEF Counted
  <2>4. /\ IsFiniteSet(Frames) /\ Cardinality(Frames) = FramesPerSegment
        /\ Moved \subseteq Frames
    BY FramesFinite DEF Finite, Moved
  <2>5. /\ Cardinality(Moved) <= Cardinality(Frames)
        /\ Cardinality(Frames) = Cardinality(Moved) => Frames = Moved
        /\ Cardinality(Moved) \in Nat
    BY <2>4, FS_Subset, Subsets
  <2>6. Directories * PlyPerDirectory \in Nat
    BY Constants
  <2> QED
    BY <2>2, <2>3, <2>4, <2>5, <2>6, Constants
<1> QED
  BY Invariance, Counting, <1>1, PTL

\* A buf2 with room for all frames of all segments never makes the decode thread
\* wait, though nobody takes anything from it (lines 417, 470).
THEOREM RoomCorrect ==
    ASSUME Bins * FramesPerSegment <= Capacity
    PROVE  Spec => []RoomForAll
<1>1. ASSUME IInv, dec = "queue", batch # {}
      PROVE  Len(queued) < Capacity
  <2> DEFINE Pairs == Segments \X Frames
  <2>1. PICK f \in batch : TRUE
    BY <1>1
  <2> DEFINE last == <<msg.segment, f>>
             E == [i \in 1 .. Len(queued) |-> <<queued[i].segment, queued[i].frame>>]
  <2>2. turn > 0 /\ f \in There /\ f \in Frames /\ msg.segment \in Segments
    BY <1>1, FileFields DEF IInv, Turning, There, TypeOK
  <2>3. \A i \in 1 .. Len(queued) : queued[i].segment \in Segments /\ queued[i].frame \in Frames
    <3> DEFINE Entry == [segment : Segments, directory : 0 .. Directories - 1, frame : Frames]
    <3>1. queued \in Seq(Entry)
      BY <1>1 DEF IInv, TypeOK
    <3>2. \A e \in Entry : e.segment \in Segments /\ e.frame \in Frames
      OBVIOUS
    <3> HIDE DEF Entry
    <3> QED
      BY <3>1, <3>2, Entries
  <2>4. \A i \in 1 .. Len(queued) :
           ~ (queued[i].segment = msg.segment /\ queued[i].frame = f)
    <3>1. f \notin QueuedFrames(msg.segment)
      BY <1>1, <2>2 DEF IInv, Placed
    <3> QED
      BY <1>1, <3>1, Queue DEF IInv, QueuedFrames
  <2>5. E \in Injection(1 .. Len(queued), Pairs \ {last})
    <3>1. E \in [1 .. Len(queued) -> Pairs \ {last}]
      BY <2>3, <2>4
    <3>2. \A i, j \in 1 .. Len(queued) : E[i] = E[j] => i = j
      BY <1>1 DEF IInv, Placed
    <3> QED
      BY <3>1, <3>2 DEF Injection, IsInjective
  <2>6. IsFiniteSet(Pairs) /\ Cardinality(Pairs) = Bins * FramesPerSegment
    <3>1. IsFiniteSet(Segments) /\ Cardinality(Segments) = Bins
      BY Constants, FS_Interval DEF Segments
    <3> QED
      BY <3>1, FramesFinite, FS_Product DEF Finite
  <2>7. last \in Pairs
    BY <2>2
  <2>8. Len(queued) \in Nat /\ Bins * FramesPerSegment \in Nat
    BY <1>1, Queue, Constants DEF IInv
  <2> HIDE DEF Pairs, E, last
  <2>9. /\ IsFiniteSet(Pairs \ {last})
        /\ Cardinality(Pairs \ {last}) = Bins * FramesPerSegment - 1
    BY <2>6, <2>7, FS_RemoveElement
  <2>10. Cardinality(1 .. Len(queued)) = Len(queued)
    <3>1. 1 \in Int /\ Len(queued) \in Int
      BY <2>8
    <3>2. Cardinality(1 .. Len(queued))
          = IF 1 > Len(queued) THEN 0 ELSE Len(queued) - 1 + 1
      BY <3>1, FS_Interval
    <3> QED
      BY <2>8, <3>2
  <2>11. Len(queued) <= Bins * FramesPerSegment - 1
    BY <2>5, <2>9, <2>10, FS_Injection
  <2> QED
    BY <2>8, <2>11, PipelineAssumption DEF PipelineAssumption
<1>2. IInv => RoomForAll
  BY <1>1 DEF RoomForAll
<1> QED
  BY Invariance, <1>2, PTL
=============================================================================
