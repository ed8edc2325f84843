----------------------------- MODULE VDEProofs ------------------------------
(***************************************************************************)
(* Proofs about VDE: the hand-shake of the main thread, the watcher and    *)
(* the engine is inductive when no wake-up is spurious, from every state   *)
(* the hardware may be found in, with or without a deadline and whichever  *)
(* interrupts are enabled.                                                 *)
(***************************************************************************)
EXTENDS VDE, TLAPS

(* What tegra_VDE_init starts from satisfies the hand-shake. *)
LEMMA InitShake == Init => IInv
BY DEF Init, IInv, TypeOK, HandShake, Mains, Irqs, INT_VDE_SYNC_TOKEN, INT_VDE_SXE

(* The resets, the start of the watcher, the preparation of a frame and    *)
(* the end of the process keep it.                                         *)
LEMMA ProcessShake ==
  ASSUME IInv, Process \/ Kill \/ Boot
  PROVE  IInv'
<1> USE DEF IInv, TypeOK, HandShake, Mains, Main, Irqs, INT_VDE_SYNC_TOKEN, INT_VDE_SXE
<1>1. CASE ClearRunning
  <2>1. CASE main = "boot"
    BY <1>1, <2>1 DEF ClearRunning
  <2>2. CASE main = "stuck"
    BY <1>1, <2>2 DEF ClearRunning
  <2> QED
    BY <1>1, <2>1, <2>2 DEF ClearRunning
<1>2. CASE ResetEngine
  BY <1>2 DEF ResetEngine
<1>3. CASE StartWatcher
  BY <1>3 DEF StartWatcher
<1>4. CASE Prepare \/ QueueStaysFull \/ MBENeverReady
  BY <1>4 DEF Prepare, QueueStaysFull, MBENeverReady
<1>5. CASE Abort
  BY <1>5 DEF Abort
<1>6. CASE Kill
  BY <1>6 DEF Kill
<1>7. CASE Boot
  BY <1>7 DEF Boot
<1> QED
  BY <1>1, <1>2, <1>3, <1>4, <1>5, <1>6, <1>7 DEF Process

(* The steps of tegra_VDE_decode_trigger and what follows it keep it. *)
LEMMA TriggerShake ==
  ASSUME IInv, Trigger \/ Timeout
  PROVE  IInv'
<1> USE DEF IInv, TypeOK, HandShake, Mains, Main, Irqs, INT_VDE_SYNC_TOKEN, INT_VDE_SXE
<1>1. CASE Lock
  BY <1>1 DEF Lock
<1>2. CASE Start
  BY <1>2 DEF Start
<1>3. CASE Sleep
  BY <1>3 DEF Sleep
<1>4. CASE Relock
  BY <1>4 DEF Relock
<1>5. CASE Unlock
  BY <1>5 DEF Unlock
<1>6. CASE Report
  BY <1>6 DEF Report
<1>7. CASE Timeout
  BY <1>7 DEF Timeout
<1> QED
  BY <1>1, <1>2, <1>3, <1>4, <1>5, <1>6, <1>7 DEF Trigger

(* The watcher keeps it: irqs_status stays 0, and a signal reaches the     *)
(* main thread only for the frame that is finished.                        *)
LEMMA WatchShake ==
  ASSUME IInv, Watch
  PROVE  IInv'
<1> USE DEF IInv, TypeOK, HandShake, Mains, Irqs, INT_VDE_SYNC_TOKEN, INT_VDE_SXE
<1>1. CASE Poll
  <2> DEFINE new   == latched \intersect Irqs
             fresh == new \ status
  <2>1. CASE fresh = {}
    BY <1>1, <2>1 DEF Poll
  <2>2. CASE fresh # {}
    <3>1. fresh \subseteq {9, 12}
      OBVIOUS
    <3>2. \E i \in fresh : \A j \in fresh : i <= j
      BY <2>2, <3>1
    <3>3. irq' = CHOOSE i \in fresh : \A j \in fresh : i <= j
      BY <1>1, <2>2 DEF Poll
    <3>4. irq' \in latched /\ irq' \in Irqs
      BY <3>2, <3>3
    <3>5. watcher = "poll" /\ watcher' = "handle"
          /\ UNCHANGED <<main, ret, status, mutex, running, engine, latched>>
      BY <1>1, <2>2 DEF Poll
    <3> HIDE DEF fresh, new
    <3>6. irq' # 0 /\ (irq' = INT_VDE_SYNC_TOKEN => INT_VDE_SYNC_TOKEN \in latched)
      BY <3>4
    <3>7. TypeOK'
      BY <3>4, <3>5
    <3>8. HandShake'
      BY <3>4, <3>5, <3>6
    <3> QED
      BY <3>7, <3>8
  <2> QED
    BY <2>1, <2>2
<1>2. CASE WakeWatcher
  BY <1>2 DEF WakeWatcher
<1>3. CASE HandleLock
  BY <1>3 DEF HandleLock
<1>4. CASE Acknowledge
  BY <1>4 DEF Acknowledge
<1>5. CASE Signal
  BY <1>5 DEF Signal, HandleUnlock
<1>6. CASE Ignore
  BY <1>6 DEF Ignore, HandleUnlock
<1> QED
  BY <1>1, <1>2, <1>3, <1>4, <1>5, <1>6 DEF Watch

(* The engine keeps it. *)
LEMMA EngineShake ==
  ASSUME IInv, FinishFrame \/ RaiseSXE
  PROVE  IInv'
<1> USE DEF IInv, TypeOK, HandShake, Mains, Irqs, INT_VDE_SYNC_TOKEN, INT_VDE_SXE
<1>1. CASE FinishFrame
  BY <1>1 DEF FinishFrame
<1>2. CASE RaiseSXE
  BY <1>2 DEF RaiseSXE
<1> QED
  BY <1>1, <1>2

(* Every step of the program, the watcher and the engine keeps it. *)
LEMMA StepShake ==
  ASSUME ~Spurious
  PROVE  IInv /\ [Next]_vars => IInv'
<1> SUFFICES ASSUME IInv, [Next]_vars PROVE IInv'
  OBVIOUS
<1>1. CASE UNCHANGED vars
  BY <1>1 DEF vars, IInv, TypeOK, HandShake
<1>2. CASE WakeUnsignalled
  BY <1>2 DEF WakeUnsignalled
<1> QED
  BY <1>1, <1>2, ProcessShake, TriggerShake, WatchShake, EngineShake DEF Next

(* The hand-shake holds in every state of the specification. *)
THEOREM ShakeInvariant ==
  ASSUME ~Spurious
  PROVE  Spec => []IInv
BY InitShake, StepShake, PTL DEF Spec

(* A frame handed out as decoded is one the engine has finished.           *)
THEOREM DecodedIsFinished ==
  ASSUME ~Spurious
  PROVE  Spec => []SuccessMeansFinished
<1>1. IInv => SuccessMeansFinished
  BY DEF IInv, HandShake, SuccessMeansFinished
<1> QED
  BY <1>1, ShakeInvariant, PTL

(* The engine never works on the buffers while the program, or the one     *)
(* that takes over from a killed one, fills them or hands them out.        *)
THEOREM BuffersQuiet ==
  ASSUME ~Spurious
  PROVE  Spec => []EngineQuiet
<1>1. IInv => EngineQuiet
  BY DEF IInv, HandShake, EngineQuiet
<1> QED
  BY <1>1, ShakeInvariant, PTL

(* The wake-up of a finished frame is not lost.                            *)
THEOREM WakeUpNotLost ==
  ASSUME ~Spurious
  PROVE  Spec => []TokenNotLost
<1>1. IInv => TokenNotLost
  BY DEF IInv, HandShake, TokenNotLost
<1> QED
  BY <1>1, ShakeInvariant, PTL

(* An interrupt is ignored only on the way to an abort.                    *)
THEOREM IgnoredOnlyDying ==
  ASSUME ~Spurious
  PROVE  Spec => []DroppedOnlyDying
<1>1. IInv => DroppedOnlyDying
  BY DEF IInv, TypeOK, HandShake, DroppedOnlyDying, Mains
<1> QED
  BY <1>1, ShakeInvariant, PTL

(* irqs_status never hides a latched interrupt: a poll that finds nothing  *)
(* new is the only one that writes it, and what it writes then is empty.   *)
THEOREM NoIrqStaysHidden ==
  ASSUME ~Spurious
  PROVE  Spec => []NoIrqHidden
<1>1. IInv => NoIrqHidden
  BY DEF IInv, HandShake, NoIrqHidden
<1> QED
  BY <1>1, ShakeInvariant, PTL

(* The engine refines its abstract job: a step of any thread, of the       *)
(* engine or of the outside world submits, finishes, hands out or drops a  *)
(* frame, starts over, or is not seen by the rest of the decoder.          *)
LEMMA StepRefines ==
  ASSUME ~Spurious
  PROVE  IInv /\ [Next]_vars => [Job!Next]_(Job!jobVars)
<1> SUFFICES ASSUME IInv, [Next]_vars PROVE [Job!Next]_(Job!jobVars)
  OBVIOUS
<1> USE DEF Serving, Job!Next, Job!jobVars, Mains, Main, IInv, TypeOK, HandShake
<1>1. CASE Process
  BY <1>1 DEF Process, ClearRunning, ResetEngine, StartWatcher, Prepare, QueueStaysFull,
     MBENeverReady, Abort, Job!Die, Job!Restart
<1>2. CASE Trigger
  BY <1>2 DEF Trigger, Lock, Start, Sleep, Relock, Unlock, Report,
     Job!Submit, Job!HandOut, Job!Die
<1>3. CASE Timeout \/ WakeUnsignalled
  BY <1>3 DEF Timeout, WakeUnsignalled
<1>4. CASE Watch
  BY <1>4 DEF Watch, Poll, WakeWatcher, HandleLock, Acknowledge, Signal, Ignore,
     HandleUnlock
<1>5. CASE Kill \/ Boot
  BY <1>5 DEF Kill, Boot, Job!Die
<1>6. CASE FinishFrame
  BY <1>6 DEF FinishFrame, Job!Finish
<1>7. CASE RaiseSXE \/ UNCHANGED vars
  BY <1>7 DEF RaiseSXE, vars
<1> QED
  BY <1>1, <1>2, <1>3, <1>4, <1>5, <1>6, <1>7 DEF Next

(* What the rest of the decoder may rely on, for every interleaving.       *)
THEOREM RefinesEngineJob ==
  ASSUME ~Spurious
  PROVE  Spec => RefinesJob
<1>1. Init => Job!Init
  BY DEF Init, Job!Init, Serving, Mains
<1> QED
  BY <1>1, ShakeInvariant, StepRefines, PTL DEF Spec, RefinesJob, Job!Spec
=============================================================================
