---------------------------- MODULE ContentServer ---------------------------
(***************************************************************************)
(* The script that makes the content for the web server                    *)
(* (server/createContent.sh): it samples the frames for the wanted rate,   *)
(* cuts them into segments, lets the encoder write each segment in every   *)
(* quality, and lists all segments in the MPD with a bandwidth per         *)
(* quality.                                                                *)
(*                                                                         *)
(* A frame file is the number in its name; what else the name has is one   *)
(* prefix for all of them, without digits.  A segment file is its size in  *)
(* kB, as `du -sk` reports it, or NoFile when PccAppEncoder failed.  The   *)
(* statements of bash go on after an error: a division by zero leaves a    *)
(* variable unset, and a pipeline has the exit status of its last command. *)
(***************************************************************************)
EXTENDS Integers, Sequences, FiniteSets

CONSTANTS
    Qualities,
    MaxFrames,      \* bound on the number of frames
    FirstFrames,    \* values of the argument START_FRAME
    MaxRuns,        \* bound on the runs with the same arguments
    Rates,          \* values of the argument FPS
    MaxRate,        \* 30
    FRAME_PER_SEG,
    MaxSize         \* bound on the size of a segment file

ASSUME ServerAssumption ==
    /\ MaxFrames \in Nat
    /\ FirstFrames \subseteq Nat \ {0}
    /\ MaxRuns \in Nat
    /\ MaxRate \in Nat
    /\ Rates \subseteq 1 .. MaxRate
    /\ FRAME_PER_SEG \in Nat \ {0}
    /\ MaxSize \in Nat

VARIABLES
    step,           \* the part of the script that runs
    run,            \* number of this run of the script
    first,          \* the argument START_FRAME
    prefix,         \* of the names of the frame files
    frames,         \* numbers of the frame files in DATA_PATH
    term,           \* sampling_term
    f_idx,          \* the frame that is sampled next
    idx,            \* the number it gets
    target_d,       \* target_d[name]: the frame in this file of the directory
    NUM_OF_FRAMES,
    NUM_OF_SEG,
    FRAME_COUNT,
    START_FRAME,
    starts,         \* history: the START_FRAME of each segment
    file,           \* file[q]: the sizes of the segment files, from segment 0
    BANDWIDTH,      \* BANDWIDTH[q]: in kB, as the loop computes it
    urls            \* urls[q]: the segments the MPD lists

inputs == <<first, prefix, frames, term>>
sampling == <<f_idx, idx, target_d>>
counts == <<NUM_OF_FRAMES, NUM_OF_SEG, FRAME_COUNT>>
encoding == <<START_FRAME, starts, file, BANDWIDTH>>
vars == <<step, run, inputs, sampling, counts, encoding, urls>>

NoFile == -1
Steps == {"sample", "count", "encode", "mpd", "done"}

\* The bare number, or a name such as that of a zero-padded number.
Prefixes == {"", "cloud_"}
Names == Prefixes \X Nat

\* The frames are numbered from START_FRAME; one of them may be missing.
Init ==
    /\ first \in FirstFrames
    /\ prefix \in Prefixes
    /\ \E n \in 0 .. MaxFrames, gap \in first .. first + MaxFrames :
          frames = (first .. first + n - 1) \ {gap}
    /\ term \in {MaxRate \div fps : fps \in Rates}
    /\ step = "sample"
    /\ run = 1
    /\ f_idx = first
    /\ idx = first
    /\ target_d = <<>>
    /\ NUM_OF_FRAMES = 0
    /\ NUM_OF_SEG = 0
    /\ FRAME_COUNT = 0
    /\ START_FRAME = first
    /\ starts = <<>>
    /\ file = [q \in Qualities |-> <<>>]
    /\ BANDWIDTH = [q \in Qualities |-> 0]
    /\ urls = [q \in Qualities |-> {}]

\* The script is run once more on the directory that the last run has left.
Rerun ==
    /\ step = "done"
    /\ run < MaxRuns
    /\ run' = run + 1
    /\ step' = "sample"
    /\ f_idx' = first
    /\ idx' = first
    /\ NUM_OF_FRAMES' = 0
    /\ NUM_OF_SEG' = 0
    /\ FRAME_COUNT' = 0
    /\ START_FRAME' = first
    /\ starts' = <<>>
    /\ file' = [q \in Qualities |-> <<>>]
    /\ BANDWIDTH' = [q \in Qualities |-> 0]
    /\ urls' = [q \in Qualities |-> {}]
    /\ UNCHANGED <<inputs, target_d>>

-----------------------------------------------------------------------------
(* Sampling *)

\* The decimal digits of i are among those of n, both of four digits at most:
\* *$i*.ply matches the name of n.
Contains(n, i) ==
    \E low \in {1, 10, 100, 1000}, width \in {10, 100, 1000, 10000} :
        width <= 10 * i /\ i < width /\ (n \div low) % width = i

\* target_d after cp: with every frame file that matches, whatever its number.
Copied ==
    LET copies == {<<prefix, n>> : n \in {m \in frames : Contains(m, f_idx)}}
    IN  [name \in DOMAIN target_d \cup copies |->
            IF name \in copies THEN name[2] ELSE target_d[name]]

\* The files that match in target_d then, those of earlier frames included.
Matching == {name \in DOMAIN Copied : Contains(name[2], f_idx)}

\* mv renames one file, and not to itself; several would need a directory.
Renamable == \E name \in Matching : Matching = {name} /\ name # <<"", idx>>

\* Mutant: a frame keeps its number.
NumberOfFrame == f_idx

NewNumber == idx

SampleFrame ==
    /\ step = "sample"
    /\ f_idx < first + Cardinality(frames)
    /\ Renamable
    /\ \E name \in Matching :
          target_d' = [new \in (DOMAIN Copied \ {name}) \cup {<<"", NewNumber>>} |->
                          IF new = <<"", NewNumber>> THEN Copied[name] ELSE Copied[new]]
    /\ f_idx' = f_idx + term
    /\ idx' = idx + 1
    /\ UNCHANGED <<step, run, inputs, counts, encoding, urls>>

\* mv fails, on no file or on several, and the copies stay: the path that rm
\* is given (68) has DATA_PATH twice.
BreakSampling ==
    /\ step = "sample"
    /\ f_idx < first + Cardinality(frames)
    /\ ~ Renamable
    /\ target_d' = Copied
    /\ step' = "count"
    /\ UNCHANGED <<run, inputs, f_idx, idx, counts, encoding, urls>>

EndSampling ==
    /\ step = "sample"
    /\ f_idx >= first + Cardinality(frames)
    /\ step' = "count"
    /\ UNCHANGED <<run, inputs, sampling, counts, encoding, urls>>

-----------------------------------------------------------------------------
(* Encoding *)

\* Frames in each of segs segments; unset when there is none.
FramesIn(segs, n) == IF segs = 0 THEN 0 ELSE n \div segs

\* Mutant: the last segment may be shorter.
SegmentsRoundedUp(n) == (n + FRAME_PER_SEG - 1) \div FRAME_PER_SEG

SegmentsOf(n) == n \div FRAME_PER_SEG

\* ls counts whatever is in the directory.
CountSegments ==
    /\ step = "count"
    /\ step' = "encode"
    /\ NUM_OF_FRAMES' = Cardinality(DOMAIN target_d)
    /\ NUM_OF_SEG' = SegmentsOf(NUM_OF_FRAMES')
    /\ FRAME_COUNT' = FramesIn(NUM_OF_SEG', NUM_OF_FRAMES')
    /\ UNCHANGED <<run, inputs, sampling, encoding, urls>>

\* Mutant: the last segment decides.
LastOf(size, bandwidth) == size

\* A size that du could not find out compares as false.
Peak(size, bandwidth) == IF size > bandwidth THEN size ELSE bandwidth

\* One turn of the loop: the encoder succeeds or fails for each quality.  The
\* tests for failure (138-142, 147-151, 155-159) look at the status of cut,
\* which is 0, so they never end the script.
EncodeSegment ==
    /\ step = "encode"
    /\ Len(starts) < NUM_OF_SEG
    /\ \E size \in [Qualities -> {NoFile} \cup 1 .. MaxSize] :
          /\ file' = [q \in Qualities |-> Append(file[q], size[q])]
          /\ BANDWIDTH' = [q \in Qualities |-> Peak(size[q], BANDWIDTH[q])]
    /\ starts' = Append(starts, START_FRAME)
    /\ START_FRAME' = START_FRAME + FRAME_COUNT
    /\ UNCHANGED <<step, run, inputs, sampling, counts, urls>>

EndEncoding ==
    /\ step = "encode"
    /\ Len(starts) = NUM_OF_SEG
    /\ step' = "mpd"
    /\ UNCHANGED <<run, inputs, sampling, counts, encoding, urls>>

-----------------------------------------------------------------------------
(* The MPD *)

GenerateMPD ==
    /\ step = "mpd"
    /\ step' = "done"
    /\ urls' = [q \in Qualities |-> 0 .. NUM_OF_SEG - 1]
    /\ UNCHANGED <<run, inputs, sampling, counts, encoding>>

Next ==
    \/ SampleFrame
    \/ BreakSampling
    \/ EndSampling
    \/ CountSegments
    \/ EncodeSegment
    \/ EndEncoding
    \/ GenerateMPD
    \/ Rerun

Spec == Init /\ [][Next]_vars

-----------------------------------------------------------------------------
(* Properties *)

TypeOK ==
    /\ step \in Steps
    /\ run \in Nat \ {0}
    /\ first \in Nat \ {0}
    /\ prefix \in Prefixes
    /\ frames \subseteq first .. first + MaxFrames
    /\ term \in 1 .. MaxRate
    /\ f_idx \in Nat
    /\ idx \in Nat
    /\ DOMAIN target_d \subseteq Names
    /\ target_d \in [DOMAIN target_d -> frames]
    /\ NUM_OF_FRAMES \in Nat
    /\ NUM_OF_SEG \in Nat
    /\ FRAME_COUNT \in Nat
    /\ START_FRAME \in Nat
    /\ starts \in Seq(Nat)
    /\ file \in [Qualities -> Seq({NoFile} \cup 1 .. MaxSize)]
    /\ BANDWIDTH \in [Qualities -> 0 .. MaxSize]
    /\ urls \in [Qualities -> SUBSET Nat]

\* A segment has at least FRAME_PER_SEG frames and less than twice as many, so
\* with 5 it never has the ten that the client counts on (Main.cpp 49),
\* whatever the number of frames.
SegmentLength ==
    step \notin {"sample", "count"} /\ NUM_OF_SEG > 0
    => FRAME_COUNT \in FRAME_PER_SEG .. 2 * FRAME_PER_SEG - 1

\* What the sampling loop relies on and does not test: an empty directory,
\* names other than the bare number, and no frame whose number has the digits
\* of another that the loop asks for.
Unambiguous ==
    /\ run = 1
    /\ prefix # ""
    /\ \A n \in frames, i \in first .. first + Cardinality(frames) :
          Contains(n, i) => n = i

\* The segments follow each other without a gap or an overlap through the
\* numbers of as many frames as there are files in target_d; what is left over
\* is fewer than the segments, or all of it fewer than a segment.  Where the
\* names are unambiguous, each number a segment spans is a file of target_d,
\* and holds the frame that is as many times the sampling term from the first.
SegmentsTile ==
    /\ \A i \in DOMAIN starts :
          /\ starts[i] = first + (i - 1) * FRAME_COUNT
          /\ starts[i] + FRAME_COUNT <= first + NUM_OF_FRAMES
    /\ step = "done" =>
          LET left == NUM_OF_FRAMES - NUM_OF_SEG * FRAME_COUNT
          IN  IF NUM_OF_SEG = 0 THEN left < FRAME_PER_SEG ELSE left < NUM_OF_SEG
    /\ Unambiguous =>
          \A i \in DOMAIN starts :
              \A n \in starts[i] .. starts[i] + FRAME_COUNT - 1 :
                  /\ <<"", n>> \in DOMAIN target_d
                  /\ target_d[<<"", n>>] = first + (n - first) * term

\* The bandwidth of a quality is the size of its largest segment file, also
\* when some segment could not be encoded (lines 162-175).
BandwidthIsPeak ==
    \A q \in Qualities :
        /\ \A i \in DOMAIN file[q] : file[q][i] <= BANDWIDTH[q]
        /\ BANDWIDTH[q] \in {0} \cup {file[q][i] : i \in DOMAIN file[q]}
=============================================================================
