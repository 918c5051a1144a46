---------------------------- MODULE CloudViewer ----------------------------
(***************************************************************************)
(* The viewer (Main/Main.cpp, class MultipleWindowsApp): the read thread,  *)
(* which takes frames from buf2, loads each into the current cloud, posts  *)
(* an update of the screen, sleeps and perturbs the cloud; and the UI      *)
(* thread, which runs the posted updates, takes snapshots and closes       *)
(* windows when the user says so.  The current cloud is behind cloud_lock_,*)
(* the pointer to the main window is behind nothing.                       *)
(*                                                                         *)
(* Of a cloud the model keeps which frame it is of and whether its points  *)
(* have been read; where a perturbation moves them is left out.  Of Open3D *)
(* (not in this repository) it assumes that an update posted for a window  *)
(* that has gone is dropped; what becomes of one posted for a null pointer *)
(* is left open.  Using a null pointer ends the process.                   *)
(***************************************************************************)
EXTENDS Integers, Sequences

CONSTANTS
    Total,          \* PLY_COUNT_PER_BIN * BIN_COUNT
    MaxSnapshots    \* bound on the user's snapshots

ASSUME ViewerAssumption ==
    /\ Total \in Nat /\ Total > 2
    /\ MaxSnapshots \in Nat

VARIABLES
    delivered,      \* frames queued on buf2 so far
    cnt,            \* frames the read thread has finished
    taken,          \* frames it has dequeued
    reader,         \* where it is
    cloud,          \* cloud_
    lock,           \* owner of cloud_lock_
    mainVis,        \* main_vis_ is not null
    posted,         \* updates posted: whether main_vis_ was not null
    ui,             \* where the UI thread is
    screen,         \* the cloud in the main window
    n_snapshots,
    snapshots       \* snapshot windows that are open, with what they show

readThread == <<cnt, taken, reader>>
windows == <<mainVis, screen, n_snapshots, snapshots>>
vars == <<delivered, readThread, cloud, lock, posted, ui, windows>>

ReaderPcs == {"loop", "dequeue", "lockLoad", "new", "read", "post", "lockPerturb",
              "perturb", "count", "check", "done", "crashed"}
UiPcs == {"idle", "lockUpdate", "remove", "add", "lockSnapshot", "snapshot",
          "returned", "crashed"}

NoCloud == [frame |-> 0, filled |-> FALSE]

Init ==
    /\ delivered = 0
    /\ cnt = 0
    /\ taken = 0
    /\ reader = "loop"
    /\ cloud = NoCloud
    /\ lock = "none"
    /\ mainVis = TRUE
    /\ posted = <<>>
    /\ ui = "idle"
    /\ screen = NoCloud
    /\ n_snapshots = 0
    /\ snapshots = {}

\* A null pointer is used: the process ends, and with it both threads.
Crash ==
    /\ reader' = "crashed"
    /\ ui' = "crashed"

\* The decode thread queues the next frame on buf2.
Deliver ==
    /\ ui # "crashed"
    /\ delivered < Total
    /\ delivered' = delivered + 1
    /\ UNCHANGED <<readThread, cloud, lock, posted, ui, windows>>

-----------------------------------------------------------------------------
(* The read thread *)

CheckWindow ==
    /\ reader = "loop"
    /\ reader' = IF mainVis THEN "dequeue" ELSE "done"
    /\ UNCHANGED <<delivered, cnt, taken, cloud, lock, posted, ui, windows>>

Dequeue ==
    /\ reader = "dequeue"
    /\ taken < delivered
    /\ taken' = taken + 1
    /\ reader' = "lockLoad"
    /\ UNCHANGED <<delivered, cnt, cloud, lock, posted, ui, windows>>

\* Mutant: the cloud is replaced without the lock.
LoadUnlocked ==
    /\ reader = "lockLoad"
    /\ reader' = "new"
    /\ UNCHANGED <<delivered, cnt, taken, cloud, lock, posted, ui, windows>>

LockLoad ==
    /\ reader = "lockLoad"
    /\ lock = "none"
    /\ lock' = "reader"
    /\ reader' = "new"
    /\ UNCHANGED <<delivered, cnt, taken, cloud, posted, ui, windows>>

NewCloud ==
    /\ reader = "new"
    /\ cloud' = [frame |-> taken, filled |-> FALSE]
    /\ reader' = "read"
    /\ UNCHANGED <<delivered, cnt, taken, lock, posted, ui, windows>>

ReadPointCloud ==
    /\ reader = "read"
    /\ cloud' = [cloud EXCEPT !.filled = TRUE]
    /\ lock' = "none"
    /\ reader' = "post"
    /\ UNCHANGED <<delivered, cnt, taken, posted, ui, windows>>

\* Mutant: no update is posted while the UI thread is busy.
PostWhenIdle ==
    /\ reader = "post"
    /\ posted' = IF ui = "idle" THEN Append(posted, mainVis) ELSE posted
    /\ reader' = "lockPerturb"
    /\ UNCHANGED <<delivered, cnt, taken, cloud, lock, ui, windows>>

PostUpdate ==
    /\ reader = "post"
    /\ posted' = Append(posted, mainVis)
    /\ reader' = "lockPerturb"
    /\ UNCHANGED <<delivered, cnt, taken, cloud, lock, ui, windows>>

\* After the sleep, however long it takes.
LockPerturb ==
    /\ reader = "lockPerturb"
    /\ lock = "none"
    /\ lock' = "reader"
    /\ reader' = "perturb"
    /\ UNCHANGED <<delivered, cnt, taken, cloud, posted, ui, windows>>

\* Mutant: the lock is not given back.
PerturbAndHold ==
    /\ reader = "perturb"
    /\ reader' = "count"
    /\ UNCHANGED <<delivered, cnt, taken, cloud, lock, posted, ui, windows>>

\* The points change, the frame stays what it is.
Perturb ==
    /\ reader = "perturb"
    /\ lock' = "none"
    /\ reader' = "count"
    /\ UNCHANGED <<delivered, cnt, taken, cloud, posted, ui, windows>>

\* Mutant: the last frame but one is not the last.
CountOneMore ==
    /\ reader = "count"
    /\ cnt' = cnt + 1
    /\ \/ /\ cnt' \in {1, Total + 1} /\ ~ mainVis
          /\ Crash
          /\ UNCHANGED mainVis
       \/ /\ cnt' = Total + 1 /\ mainVis
          /\ mainVis' = FALSE
          /\ reader' = "done"
          /\ UNCHANGED ui
       \/ /\ cnt' = 1 => mainVis
          /\ cnt' # Total + 1
          /\ reader' = "check"
          /\ UNCHANGED <<mainVis, ui>>
    /\ UNCHANGED <<delivered, taken, cloud, lock, posted, screen, n_snapshots,
                   snapshots>>

\* The first frame resets the camera, the last but one closes the window (and
\* OnMainWindowClosing runs on this thread): both go through main_vis_.
Count ==
    /\ reader = "count"
    /\ cnt' = cnt + 1
    /\ \/ /\ cnt' \in {1, Total - 1} /\ ~ mainVis
          /\ Crash
          /\ UNCHANGED mainVis
       \/ /\ cnt' = Total - 1 /\ mainVis
          /\ mainVis' = FALSE
          /\ reader' = "done"
          /\ UNCHANGED ui
       \/ /\ cnt' = 1 => mainVis
          /\ cnt' # Total - 1
          /\ reader' = "check"
          /\ UNCHANGED <<mainVis, ui>>
    /\ UNCHANGED <<delivered, taken, cloud, lock, posted, screen, n_snapshots,
                   snapshots>>

CheckAgain ==
    /\ reader = "check"
    /\ reader' = IF mainVis THEN "loop" ELSE "done"
    /\ UNCHANGED <<delivered, cnt, taken, cloud, lock, posted, ui, windows>>

ReaderStep ==
    \/ CheckWindow
    \/ Dequeue
    \/ LockLoad
    \/ NewCloud
    \/ ReadPointCloud
    \/ PostUpdate
    \/ LockPerturb
    \/ Perturb
    \/ Count
    \/ CheckAgain

-----------------------------------------------------------------------------
(* The UI thread *)

\* The next posted update runs, or is dropped because its window has gone.
TakePosted ==
    /\ ui = "idle"
    /\ posted # <<>>
    /\ posted' = Tail(posted)
    /\ \/ Head(posted) = mainVis /\ ui' = "lockUpdate"
       \/ ~ mainVis /\ UNCHANGED ui
    /\ UNCHANGED <<delivered, readThread, cloud, lock, windows>>

LockUpdate ==
    /\ ui = "lockUpdate"
    /\ lock = "none"
    /\ lock' = "ui"
    /\ ui' = "remove"
    /\ UNCHANGED <<delivered, readThread, cloud, posted, windows>>

RemoveGeometry ==
    /\ ui = "remove"
    /\ IF mainVis
       THEN /\ screen' = NoCloud
            /\ ui' = "add"
            /\ UNCHANGED reader
       ELSE /\ Crash
            /\ UNCHANGED screen
    /\ UNCHANGED <<delivered, cnt, taken, cloud, lock, posted, mainVis,
                   n_snapshots, snapshots>>

AddGeometry ==
    /\ ui = "add"
    /\ IF mainVis
       THEN /\ screen' = cloud
            /\ lock' = "none"
            /\ ui' = "idle"
            /\ UNCHANGED reader
       ELSE /\ Crash
            /\ UNCHANGED <<screen, lock>>
    /\ UNCHANGED <<delivered, cnt, taken, cloud, posted, mainVis, n_snapshots,
                   snapshots>>

\* The user asks for a snapshot; the menu is in the main window.
OnSnapshot ==
    /\ ui = "idle"
    /\ mainVis
    /\ n_snapshots < MaxSnapshots
    /\ n_snapshots' = n_snapshots + 1
    /\ ui' = "lockSnapshot"
    /\ UNCHANGED <<delivered, readThread, cloud, lock, posted, mainVis, screen,
                   snapshots>>

LockSnapshot ==
    /\ ui = "lockSnapshot"
    /\ lock = "none"
    /\ lock' = "ui"
    /\ ui' = "snapshot"
    /\ UNCHANGED <<delivered, readThread, cloud, posted, windows>>

\* The cloud is shared with the new window; before the first frame there is none.
TakeSnapshot ==
    /\ ui = "snapshot"
    /\ IF cloud = NoCloud
       THEN /\ Crash
            /\ UNCHANGED <<snapshots, lock>>
       ELSE /\ snapshots' = snapshots \cup {[number |-> n_snapshots, cloud |-> cloud]}
            /\ lock' = "none"
            /\ ui' = "idle"
            /\ UNCHANGED reader
    /\ UNCHANGED <<delivered, cnt, taken, cloud, posted, mainVis, screen,
                   n_snapshots>>

OnMainWindowClosing ==
    /\ ui = "idle"
    /\ mainVis
    /\ mainVis' = FALSE
    /\ UNCHANGED <<delivered, readThread, cloud, lock, posted, ui, screen,
                   n_snapshots, snapshots>>

CloseSnapshot ==
    /\ ui = "idle"
    /\ \E w \in snapshots : snapshots' = snapshots \ {w}
    /\ UNCHANGED <<delivered, readThread, cloud, lock, posted, ui, mainVis, screen,
                   n_snapshots>>

\* Run() returns when the last window has gone; what is still posted is lost.
RunReturns ==
    /\ ui = "idle"
    /\ ~ mainVis /\ snapshots = {}
    /\ ui' = "returned"
    /\ UNCHANGED <<delivered, readThread, cloud, lock, posted, windows>>

\* What the UI thread does by itself, and what the user makes it do.
UiStep ==
    \/ TakePosted
    \/ LockUpdate
    \/ RemoveGeometry
    \/ AddGeometry
    \/ LockSnapshot
    \/ TakeSnapshot
    \/ RunReturns

UserStep ==
    \/ OnSnapshot
    \/ OnMainWindowClosing
    \/ CloseSnapshot

-----------------------------------------------------------------------------
Next ==
    \/ Deliver
    \/ ReaderStep
    \/ UiStep
    \/ UserStep

Spec == Init /\ [][Next]_vars

\* Both threads keep running; the user owes nothing, and neither do the threads
\* that fill buf2.
Fairness ==
    /\ WF_vars(ReaderStep)
    /\ WF_vars(UiStep)

LiveSpec == Spec /\ Fairness

\* All frames arrive.
FedSpec == LiveSpec /\ WF_vars(Deliver)

-----------------------------------------------------------------------------
(* Properties *)

Clouds == [frame : 0 .. Total, filled : BOOLEAN]

TypeOK ==
    /\ delivered \in 0 .. Total
    /\ cnt \in 0 .. Total - 1
    /\ taken \in 0 .. Total - 1
    /\ reader \in ReaderPcs
    /\ cloud \in Clouds
    /\ lock \in {"none", "reader", "ui"}
    /\ mainVis \in BOOLEAN
    /\ posted \in Seq(BOOLEAN)
    /\ ui \in UiPcs
    /\ screen \in Clouds
    /\ n_snapshots \in 0 .. MaxSnapshots
    /\ snapshots \subseteq [number : 1 .. MaxSnapshots, cloud : Clouds]

\* Neither the main window nor a snapshot ever shows a cloud whose points have
\* not been read, though the update that was posted shows whatever cloud is
\* there when the UI thread comes to it (lines 157-163, 200-205, 213-215).
NoHalfLoaded ==
    /\ screen = NoCloud \/ screen.filled
    /\ \A w \in snapshots : w.cloud.filled

\* No frame is forgotten: if the window does not show the current cloud, the
\* read thread has still to post an update, or one is posted or under way,
\* however the two threads and the snapshots overtake each other (lines 199-215).
ScreenCatchesUp ==
    (mainVis /\ screen.frame # cloud.frame) =>
        \/ reader \in {"read", "post"}
        \/ posted # <<>>
        \/ ui \in {"lockUpdate", "remove", "add"}

\* If all frames arrive, the read thread ends, whatever the user does: after
\* the last frame but one, or after the window has been closed (lines 193, 249,
\* 255), so that Run() can join it.  The process may crash before.
ReaderEnds == <>(reader \in {"done", "crashed"})

\* Every update that was posted is run or dropped, unless Run() returns before:
\* neither thread keeps the lock of the cloud (lines 200, 213, 233).
UpdatesRun == (posted # <<>>) ~> (posted = <<>> \/ ui \in {"returned", "crashed"})

\* "might have changed while sleeping", says the check of main_vis_ at line 255;
\* then the read thread does not use main_vis_ when it has changed.
ReaderUsesOpenWindow ==
    [][cnt' # cnt => reader' # "crashed"]_vars
=============================================================================
