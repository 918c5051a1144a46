------------------------- MODULE CloudViewerProofs --------------------------
(***************************************************************************)
(* Proofs about CloudViewer for any number of frames and snapshots: type   *)
(* correctness, that no window shows a cloud that is being read, and that  *)
(* no frame is forgotten.                                                  *)
(*                                                                         *)
(* That a window only ever gets a cloud that has been read rests on the    *)
(* ownership of cloud_lock_ (Locking): the read thread holds it from the   *)
(* moment the cloud is replaced until its points have been read (Filling). *)
(***************************************************************************)
EXTENDS CloudViewer, TLAPS

-----------------------------------------------------------------------------
(* The inductive invariant *)

\* The statements at which the read thread has a frame that it has not counted.
Busy == {"lockLoad", "new", "read", "post", "lockPerturb", "perturb", "count"}

\* The read thread is ahead of its count by the frame it is busy with, and
\* stops before the last.
Counting ==
    /\ reader \in Busy => taken = cnt + 1 /\ cnt < Total - 1
    /\ reader \in {"loop", "dequeue", "check"} => taken = cnt /\ cnt < Total - 1

\* Who is between taking cloud_lock_ and giving it back owns it, so that there
\* is one; a crash stops both threads.
Locking ==
    /\ reader \in {"new", "read", "perturb"} => lock = "reader"
    /\ ui \in {"remove", "add", "snapshot"} => lock = "ui"
    /\ reader = "crashed" <=> ui = "crashed"
    /\ ui \in {"lockSnapshot", "snapshot"} => n_snapshots > 0

\* A cloud without its points is there only while the read thread reads them,
\* and the window shows none before there is one.
Filling ==
    /\ cloud = NoCloud \/ cloud.filled \/ reader \in {"read", "crashed"}
    /\ cloud = NoCloud => screen = NoCloud

IInv ==
    /\ TypeOK
    /\ Counting
    /\ Locking
    /\ Filling
    /\ NoHalfLoaded
    /\ ScreenCatchesUp

-----------------------------------------------------------------------------
(* Facts about the updates posted and about clouds *)

LEMMA Posting ==
    ASSUME NEW s \in Seq(BOOLEAN), NEW e \in BOOLEAN
    PROVE  Append(s, e) \in Seq(BOOLEAN) /\ Append(s, e) # <<>>
<1>1. Append(s, e) \in Seq(BOOLEAN) /\ Len(Append(s, e)) = Len(s) + 1 /\ Len(s) \in Nat
  OBVIOUS
<1> QED
  BY <1>1

LEMMA Taking ==
    ASSUME NEW s \in Seq(BOOLEAN), s # <<>>
    PROVE  Tail(s) \in Seq(BOOLEAN)
OBVIOUS

LEMMA CloudTypes ==
    /\ NoCloud \in Clouds
    /\ \A c \in Clouds : c.frame \in 0 .. Total /\ c.filled \in BOOLEAN
    /\ \A c \in Clouds : [c EXCEPT !.filled = TRUE] \in Clouds
    /\ \A c \in Clouds : /\ [c EXCEPT !.filled = TRUE].frame = c.frame
                         /\ [c EXCEPT !.filled = TRUE].filled
    /\ \A n \in 0 .. Total : [frame |-> n, filled |-> FALSE] \in Clouds
    /\ NoCloud.frame = 0 /\ ~ NoCloud.filled
<1>1. Total \in Nat
  BY ViewerAssumption DEF ViewerAssumption
<1>2. NoCloud \in Clouds /\ NoCloud.frame = 0 /\ ~ NoCloud.filled
  BY <1>1 DEF Clouds, NoCloud
<1>3. \A n \in 0 .. Total : [frame |-> n, filled |-> FALSE] \in Clouds
  BY DEF Clouds
<1>4. ASSUME NEW c \in Clouds
      PROVE  /\ c.frame \in 0 .. Total /\ c.filled \in BOOLEAN
             /\ [c EXCEPT !.filled = TRUE] \in Clouds
             /\ [c EXCEPT !.filled = TRUE].frame = c.frame
             /\ [c EXCEPT !.filled = TRUE].filled
  BY DEF Clouds
<1> QED
  BY <1>2, <1>3, <1>4

-----------------------------------------------------------------------------
(* The steps *)

LEMMA InvInit == Init => IInv
<1> SUFFICES ASSUME Init PROVE IInv
  OBVIOUS
<1>1. TypeOK
  <2>1. /\ delivered \in 0 .. Total
        /\ cnt \in 0 .. Total - 1
        /\ taken \in 0 .. Total - 1
        /\ n_snapshots \in 0 .. MaxSnapshots
    BY ViewerAssumption DEF ViewerAssumption, Init
  <2>2. mainVis \in BOOLEAN /\ posted \in Seq(BOOLEAN)
    BY DEF Init
  <2> QED
    BY <2>1, <2>2, CloudTypes DEF Init, TypeOK, ReaderPcs, UiPcs
<1> QED
  BY <1>1, CloudTypes, ViewerAssumption DEF ViewerAssumption, Init, IInv, Counting, Busy,
     Locking, Filling, NoHalfLoaded, ScreenCatchesUp

LEMMA InvDeliver ==
    ASSUME IInv, Deliver
    PROVE  IInv'
<1>1. TypeOK'
  BY ViewerAssumption DEF ViewerAssumption, IInv, TypeOK, Deliver, readThread, windows
<1> QED
  BY <1>1 DEF IInv, TypeOK, Deliver, readThread, windows, Counting, Busy, Locking,
     Filling, NoHalfLoaded, ScreenCatchesUp

LEMMA InvReader ==
    ASSUME IInv, ReaderStep
    PROVE  IInv'
<1> USE DEF IInv, readThread, windows, Busy
<1>1. CASE CheckWindow
  <2>1. TypeOK'
    BY <1>1 DEF TypeOK, CheckWindow, ReaderPcs
  <2> QED
    BY <1>1, <2>1 DEF CheckWindow, Counting, Locking, Filling, NoHalfLoaded,
       ScreenCatchesUp
<1>2. CASE Dequeue
  <2>1. TypeOK'
    BY <1>2, ViewerAssumption DEF ViewerAssumption, TypeOK, Dequeue, ReaderPcs, Counting
  <2> QED
    BY <1>2, <2>1 DEF Dequeue, Counting, Locking, Filling, NoHalfLoaded,
       ScreenCatchesUp
<1>3. CASE LockLoad
  <2>1. TypeOK'
    BY <1>3 DEF TypeOK, LockLoad, ReaderPcs
  <2> QED
    BY <1>3, <2>1 DEF LockLoad, Counting, Locking, Filling, NoHalfLoaded,
       ScreenCatchesUp
<1>4. CASE NewCloud
  <2>1. cloud' \in Clouds
    BY <1>4, CloudTypes, ViewerAssumption DEF ViewerAssumption, TypeOK, NewCloud
  <2>2. TypeOK'
    BY <1>4, <2>1 DEF TypeOK, NewCloud, ReaderPcs
  <2>3. cloud'.frame > 0 /\ cloud' # NoCloud
    BY <1>4, CloudTypes, ViewerAssumption DEF ViewerAssumption, TypeOK, NewCloud, Counting
  <2> QED
    BY <1>4, <2>2, <2>3 DEF NewCloud, Counting, Locking, Filling, NoHalfLoaded,
       ScreenCatchesUp
<1>5. CASE ReadPointCloud
  <2>1. cloud' \in Clouds /\ cloud'.frame = cloud.frame /\ cloud'.filled
    BY <1>5, CloudTypes DEF TypeOK, ReadPointCloud
  <2>2. TypeOK'
    BY <1>5, <2>1 DEF TypeOK, ReadPointCloud, ReaderPcs
  <2>3. cloud' # NoCloud
    BY <2>1, CloudTypes
  <2> QED
    BY <1>5, <2>1, <2>2, <2>3 DEF ReadPointCloud, Counting, Locking, Filling,
       NoHalfLoaded, ScreenCatchesUp
<1>6. CASE PostUpdate
  <2>1. posted' \in Seq(BOOLEAN) /\ posted' # <<>>
    BY <1>6, Posting DEF TypeOK, PostUpdate
  <2>2. TypeOK'
    BY <1>6, <2>1 DEF TypeOK, PostUpdate, ReaderPcs
  <2> QED
    BY <1>6, <2>1, <2>2 DEF PostUpdate, Counting, Locking, Filling, NoHalfLoaded,
       ScreenCatchesUp
<1>7. CASE LockPerturb
  <2>1. TypeOK'
    BY <1>7 DEF TypeOK, LockPerturb, ReaderPcs
  <2> QED
    BY <1>7, <2>1 DEF LockPerturb, Counting, Locking, Filling, NoHalfLoaded,
       ScreenCatchesUp
<1>8. CASE Perturb
  <2>1. TypeOK'
    BY <1>8 DEF TypeOK, Perturb, ReaderPcs
  <2> QED
    BY <1>8, <2>1 DEF Perturb, Counting, Locking, Filling, NoHalfLoaded,
       ScreenCatchesUp
<1>9. CASE Count
  <2>1. TypeOK'
    BY <1>9, ViewerAssumption DEF ViewerAssumption, TypeOK, Count, Crash, ReaderPcs,
       UiPcs, Counting
  <2> QED
    BY <1>9, <2>1, ViewerAssumption DEF ViewerAssumption, TypeOK, Count, Crash,
       Counting, Locking, Filling, NoHalfLoaded, ScreenCatchesUp
<1>10. CASE CheckAgain
  <2>1. TypeOK'
    BY <1>10 DEF TypeOK, CheckAgain, ReaderPcs
  <2> QED
    BY <1>10, <2>1 DEF CheckAgain, Counting, Locking, Filling, NoHalfLoaded,
       ScreenCatchesUp
<1> QED
  BY <1>1, <1>2, <1>3, <1>4, <1>5, <1>6, <1>7, <1>8, <1>9, <1>10 DEF ReaderStep

LEMMA InvUi ==
    ASSUME IInv, UiStep
    PROVE  IInv'
<1> USE DEF IInv, readThread, windows, Busy
<1>1. CASE TakePosted
  <2>1. TypeOK'
    BY <1>1, Taking DEF TypeOK, TakePosted, UiPcs
  <2> QED
    BY <1>1, <2>1 DEF TakePosted, Counting, Locking, Filling, NoHalfLoaded,
       ScreenCatchesUp
<1>2. CASE LockUpdate
  <2>1. TypeOK'
    BY <1>2 DEF TypeOK, LockUpdate, UiPcs
  <2> QED
    BY <1>2, <2>1 DEF LockUpdate, Counting, Locking, Filling, NoHalfLoaded,
       ScreenCatchesUp
<1>3. CASE RemoveGeometry
  <2>1. TypeOK'
    BY <1>3, CloudTypes DEF TypeOK, RemoveGeometry, Crash, UiPcs, ReaderPcs
  <2> QED
    BY <1>3, <2>1 DEF RemoveGeometry, Crash, Counting, Locking, Filling, NoHalfLoaded,
       ScreenCatchesUp
<1>4. CASE AddGeometry
  <2>1. TypeOK'
    BY <1>4 DEF TypeOK, AddGeometry, Crash, UiPcs, ReaderPcs
  <2>2. cloud = NoCloud \/ cloud.filled
    BY <1>4 DEF AddGeometry, Locking, Filling
  <2> QED
    BY <1>4, <2>1, <2>2 DEF AddGeometry, Crash, Counting, Locking, Filling,
       NoHalfLoaded, ScreenCatchesUp
<1>5. CASE LockSnapshot
  <2>1. TypeOK'
    BY <1>5 DEF TypeOK, LockSnapshot, UiPcs
  <2> QED
    BY <1>5, <2>1 DEF LockSnapshot, Counting, Locking, Filling, NoHalfLoaded,
       ScreenCatchesUp
<1>6. CASE TakeSnapshot
  <2>1. snapshots' \subseteq [number : 1 .. MaxSnapshots, cloud : Clouds]
    BY <1>6 DEF TypeOK, TakeSnapshot, Locking
  <2>2. TypeOK'
    BY <1>6, <2>1 DEF TypeOK, TakeSnapshot, Crash, UiPcs, ReaderPcs
  <2>3. cloud = NoCloud \/ cloud.filled
    BY <1>6 DEF TakeSnapshot, Locking, Filling
  <2>4. \A w \in snapshots' : w.cloud.filled
    BY <1>6, <2>3 DEF TakeSnapshot, NoHalfLoaded
  <2> QED
    BY <1>6, <2>2, <2>4 DEF TakeSnapshot, Crash, Counting, Locking, Filling,
       NoHalfLoaded, ScreenCatchesUp
<1>7. CASE RunReturns
  <2>1. TypeOK'
    BY <1>7 DEF TypeOK, RunReturns, UiPcs
  <2> QED
    BY <1>7, <2>1 DEF RunReturns, Counting, Locking, Filling, NoHalfLoaded,
       ScreenCatchesUp
<1> QED
  BY <1>1, <1>2, <1>3, <1>4, <1>5, <1>6, <1>7 DEF UiStep

LEMMA InvUser ==
    ASSUME IInv, UserStep
    PROVE  IInv'
<1> USE DEF IInv, readThread, windows, Busy
<1>1. CASE OnSnapshot
  <2>1. TypeOK'
    BY <1>1, ViewerAssumption DEF ViewerAssumption, TypeOK, OnSnapshot, UiPcs
  <2> QED
    BY <1>1, <2>1 DEF TypeOK, OnSnapshot, Counting, Locking, Filling, NoHalfLoaded,
       ScreenCatchesUp
<1>2. CASE OnMainWindowClosing
  <2>1. TypeOK'
    BY <1>2 DEF TypeOK, OnMainWindowClosing
  <2> QED
    BY <1>2, <2>1 DEF OnMainWindowClosing, Counting, Locking, Filling, NoHalfLoaded,
       ScreenCatchesUp
<1>3. CASE CloseSnapshot
  <2>1. TypeOK'
    BY <1>3 DEF TypeOK, CloseSnapshot
  <2> QED
    BY <1>3, <2>1 DEF CloseSnapshot, Counting, Locking, Filling, NoHalfLoaded,
       ScreenCatchesUp
<1> QED
  BY <1>1, <1>2, <1>3 DEF UserStep

LEMMA Invariance == Spec => []IInv
<1>1. IInv /\ UNCHANGED vars => IInv'
  BY DEF vars, readThread, windows, IInv, TypeOK, Counting, Busy, Locking, Filling,
     NoHalfLoaded, ScreenCatchesUp
<1>2. IInv /\ [Next]_vars => IInv'
  BY <1>1, InvDeliver, InvReader, InvUi, InvUser DEF Next
<1> QED
  BY InvInit, <1>2, PTL DEF Spec

-----------------------------------------------------------------------------
(* The theorems *)

\* The read thread counts every frame it takes once and never takes the last;
\* cloud_lock_ has at most one owner (lines 193-258).
THEOREM TypeCorrect == Spec => []TypeOK
<1>1. IInv => TypeOK
  BY DEF IInv
<1> QED
  BY Invariance, <1>1, PTL

\* Neither the main window nor a snapshot shows a cloud whose points are still
\* being read, for any number of frames and snapshots (lines 157-163, 200-215).
THEOREM OnlyWholeClouds == Spec => []NoHalfLoaded
<1>1. IInv => NoHalfLoaded
  BY DEF IInv
<1> QED
  BY Invariance, <1>1, PTL

\* As long as the window is open, a cloud that it does not show yet is on its
\* way to it, for any number of frames and snapshots (lines 199-221).
THEOREM NothingForgotten == Spec => []ScreenCatchesUp
<1>1. IInv => ScreenCatchesUp
  BY DEF IInv
<1> QED
  BY Invariance, <1>1, PTL
=============================================================================
