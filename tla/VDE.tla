-------------------------------- MODULE VDE ---------------------------------
(***************************************************************************)
(* The program and the VDE engine around one frame, decoder.c: the main    *)
(* thread prepares a frame, starts the engine under decode_mutex and       *)
(* sleeps on sync_token_cond; the irq_watcher thread polls the latched     *)
(* interrupts, acknowledges them and signals; a frame that fails resets    *)
(* the engine and, since DECODER_ERR aborts, ends the process.             *)
(*                                                                         *)
(* The engine and the interrupt latch are hardware: they outlive the       *)
(* process, which may be killed at any point and started again.            *)
(* irq_upd_mutex is only ever taken by the watcher and never contended.    *)
(***************************************************************************)
EXTENDS Naturals

CONSTANTS
  Spurious,  \* pthread_cond_timedwait may return 0 unsignalled (POSIX)
  Raised     \* the interrupts enabled in the engine

INT_VDE_SYNC_TOKEN == 9
INT_VDE_SXE        == 12
Irqs == {INT_VDE_SYNC_TOKEN, INT_VDE_SXE}   \* irqs_to_watch

ASSUME EngineAssumption ==
  /\ Spurious \in BOOLEAN
  /\ INT_VDE_SYNC_TOKEN \in Raised /\ Raised \subseteq Irqs

VARIABLES
  main,     \* where the main thread is
  ret,      \* what tegra_VDE_decode_trigger is to return
  watcher,  \* where the irq_watcher thread is
  irq,      \* the interrupt handle_IRQ was called with
  status,   \* irqs_status
  mutex,    \* the owner of decode_mutex
  running,  \* decoder->running
  engine,   \* the engine: idle, at work on a frame, or done with it
  latched   \* PRI_ICTLR_IRQ_LATCHED

vars == <<main, ret, watcher, irq, status, mutex, running, engine, latched>>

(* boot, boot_reset, watch: tegra_VDE_init; stuck, stuck_reset, abort:     *)
(* tegra_VDE_stuck; the others tegra_VDE_decode_frame and _decode_trigger. *)
Mains == {"dead", "boot", "boot_reset", "watch", "prepare", "lock", "start",
          "started", "wait", "wake", "unlock", "report",
          "stuck", "stuck_reset", "abort"}

Main(from, to) == main = from /\ main' = to

-----------------------------------------------------------------------------
(* tegra_VDE_reset: running is cleared without decode_mutex, then the      *)
(* engine is held in reset, which also drops its interrupts.               *)
ClearRunning ==
  /\ Main("boot", "boot_reset") \/ Main("stuck", "stuck_reset")
  /\ running' = FALSE
  /\ UNCHANGED <<ret, watcher, irq, status, mutex, engine, latched>>

(* A mutant of ResetEngine: the engine is not held in reset.               *)
ResetLatchOnly ==
  /\ Main("boot_reset", "watch") \/ Main("stuck_reset", "abort")
  /\ latched' = {}
  /\ UNCHANGED <<ret, watcher, irq, status, mutex, running, engine>>

ResetEngine ==
  /\ Main("boot_reset", "watch") \/ Main("stuck_reset", "abort")
  /\ engine' = "idle"
  /\ latched' = {}
  /\ UNCHANGED <<ret, watcher, irq, status, mutex, running>>

(* enable_IRQ_watch and pthread_create *)
StartWatcher ==
  /\ Main("watch", "prepare")
  /\ watcher' = "poll"
  /\ UNCHANGED <<ret, irq, status, mutex, running, engine, latched>>

(* tegra_VDE_decode_frame up to the trigger: the bitstream is copied, the  *)
(* lists and registers are written.                                        *)
Prepare ==
  /\ Main("prepare", "lock")
  /\ UNCHANGED <<ret, watcher, irq, status, mutex, running, engine, latched>>

(* tegra_VDE_poll_bit: a command queue that stays full is a stuck engine.  *)
QueueStaysFull ==
  /\ Main("prepare", "stuck")
  /\ UNCHANGED <<ret, watcher, irq, status, mutex, running, engine, latched>>

(* tegra_VDE_MBE_wait: the macroblock engine never is ready.               *)
MBENeverReady ==
  /\ Main("prepare", "abort")
  /\ UNCHANGED <<ret, watcher, irq, status, mutex, running, engine, latched>>

-----------------------------------------------------------------------------
(* tegra_VDE_decode_trigger. *)
Lock ==
  /\ mutex = "free"
  /\ Main("lock", "start")
  /\ mutex' = "main"
  /\ UNCHANGED <<ret, watcher, irq, status, running, engine, latched>>

(* Mutants of Start: running is not set, or decode_mutex is let go.        *)
StartNotRunning ==
  /\ Main("start", "started")
  /\ engine' = "busy"
  /\ UNCHANGED <<ret, watcher, irq, status, mutex, running, latched>>

StartUnlocked ==
  /\ Main("start", "started")
  /\ running' = TRUE
  /\ engine' = "busy"
  /\ mutex' = "free"
  /\ UNCHANGED <<ret, watcher, irq, status, latched>>

Start ==
  /\ Main("start", "started")
  /\ running' = TRUE
  /\ engine' = "busy"
  /\ UNCHANGED <<ret, watcher, irq, status, mutex, latched>>

Sleep ==
  /\ Main("started", "wait")
  /\ mutex' = "free"
  /\ UNCHANGED <<ret, watcher, irq, status, running, engine, latched>>

Timeout ==
  /\ Main("wait", "wake")
  /\ ret' = "ETIMEDOUT"
  /\ UNCHANGED <<watcher, irq, status, mutex, running, engine, latched>>

WakeUnsignalled ==
  /\ Spurious
  /\ Main("wait", "wake")
  /\ ret' = "0"
  /\ UNCHANGED <<watcher, irq, status, mutex, running, engine, latched>>

Relock ==
  /\ mutex = "free"
  /\ Main("wake", "unlock")
  /\ mutex' = "main"
  /\ UNCHANGED <<ret, watcher, irq, status, running, engine, latched>>

Unlock ==
  /\ Main("unlock", "report")
  /\ mutex' = "free"
  /\ UNCHANGED <<ret, watcher, irq, status, running, engine, latched>>

(* A mutant of Report: the result is not looked at.                        *)
ReportAnyway ==
  /\ Main("report", "prepare")
  /\ ret' = "none"
  /\ UNCHANGED <<watcher, irq, status, mutex, running, engine, latched>>

(* The rest of tegra_VDE_decode_frame: the frame is handed out and the     *)
(* next one prepared, or the engine is stuck.                              *)
Report ==
  /\ Main("report", IF ret = "0" THEN "prepare" ELSE "stuck")
  /\ ret' = "none"
  /\ UNCHANGED <<watcher, irq, status, mutex, running, engine, latched>>

Abort ==
  /\ Main("abort", "dead")
  /\ watcher' = "none" /\ irq' = 0 /\ status' = {}
  /\ mutex' = "free" /\ running' = FALSE /\ ret' = "none"
  /\ UNCHANGED <<engine, latched>>

(* The process is killed, or main() returns; and is started again.         *)
Kill ==
  /\ main \notin {"dead", "abort"}
  /\ main' = "dead"
  /\ watcher' = "none" /\ irq' = 0 /\ status' = {}
  /\ mutex' = "free" /\ running' = FALSE /\ ret' = "none"
  /\ UNCHANGED <<engine, latched>>

Boot ==
  /\ Main("dead", "boot")
  /\ UNCHANGED <<ret, watcher, irq, status, mutex, running, engine, latched>>

-----------------------------------------------------------------------------
(* A mutant of Poll: irqs_status is brought up to date before handling.    *)
PollEdge ==
  LET new   == latched \intersect Irqs
      fresh == new \ status
  IN
  /\ watcher = "poll"
  /\ status' = new
  /\ IF fresh = {}
       THEN watcher' = "sleep" /\ UNCHANGED irq
       ELSE /\ irq' = CHOOSE i \in fresh : \A j \in fresh : i <= j
            /\ watcher' = "handle"
  /\ UNCHANGED <<main, ret, mutex, running, engine, latched>>

(* One read of the latched interrupts in irq_sts_poll.  The lowest one     *)
(* that is new is handled and the register read again; only when there is  *)
(* none is irqs_status brought up to date and the thread put to sleep.     *)
Poll ==
  LET new   == latched \intersect Irqs
      fresh == new \ status
  IN
  /\ watcher = "poll"
  /\ IF fresh = {}
       THEN status' = new /\ watcher' = "sleep" /\ UNCHANGED irq
       ELSE /\ irq' = CHOOSE i \in fresh : \A j \in fresh : i <= j
            /\ watcher' = "handle"
            /\ UNCHANGED status
  /\ UNCHANGED <<main, ret, mutex, running, engine, latched>>

WakeWatcher ==
  /\ watcher = "sleep" /\ watcher' = "poll"
  /\ UNCHANGED <<main, ret, irq, status, mutex, running, engine, latched>>

(* handle_IRQ *)
HandleLock ==
  /\ watcher = "handle" /\ mutex = "free"
  /\ watcher' = "locked"
  /\ mutex' = "watcher"
  /\ UNCHANGED <<main, ret, irq, status, running, engine, latched>>

(* A mutant of Acknowledge: the interrupt is not cleared.                  *)
AcknowledgeNot ==
  /\ watcher = "locked" /\ running
  /\ watcher' = "acked"
  /\ UNCHANGED <<main, ret, irq, status, mutex, running, engine, latched>>

Acknowledge ==
  /\ watcher = "locked" /\ running
  /\ watcher' = "acked"
  /\ latched' = latched \ {irq}
  /\ UNCHANGED <<main, ret, irq, status, mutex, running, engine>>

HandleUnlock ==
  /\ watcher' = "poll" /\ irq' = 0
  /\ mutex' = "free"
  /\ UNCHANGED <<status, running, engine, latched>>

(* A mutant of Signal: the way out misses the unlock.                      *)
SignalLocked ==
  /\ watcher = "acked"
  /\ IF irq = INT_VDE_SYNC_TOKEN /\ main = "wait"
       THEN main' = "wake" /\ ret' = "0"
       ELSE UNCHANGED <<main, ret>>
  /\ watcher' = "poll" /\ irq' = 0
  /\ UNCHANGED <<status, mutex, running, engine, latched>>

(* pthread_cond_signal, for the sync token only; it wakes the main thread  *)
(* if that still waits.                                                    *)
Signal ==
  /\ watcher = "acked"
  /\ IF irq = INT_VDE_SYNC_TOKEN /\ main = "wait"
       THEN main' = "wake" /\ ret' = "0"
       ELSE UNCHANGED <<main, ret>>
  /\ HandleUnlock

Ignore ==
  /\ watcher = "locked" /\ ~running
  /\ UNCHANGED <<main, ret>>
  /\ HandleUnlock

-----------------------------------------------------------------------------
(* The engine: a finished frame raises the sync token; a bitstream         *)
(* interrupt, where enabled, may come at any time of a frame.              *)
FinishFrame ==
  /\ engine = "busy"
  /\ engine' = "done"
  /\ latched' = latched \union {INT_VDE_SYNC_TOKEN}
  /\ UNCHANGED <<main, ret, watcher, irq, status, mutex, running>>

RaiseSXE ==
  /\ engine = "busy" /\ INT_VDE_SXE \in Raised
  /\ latched' = latched \union {INT_VDE_SXE}
  /\ UNCHANGED <<main, ret, watcher, irq, status, mutex, running, engine>>

-----------------------------------------------------------------------------
(* Before the first start the engine may be in any state a previous owner  *)
(* left it in.                                                             *)
Init ==
  /\ main = "dead" /\ ret = "none"
  /\ watcher = "none" /\ irq = 0 /\ status = {}
  /\ mutex = "free" /\ running = FALSE
  /\ engine \in {"idle", "busy", "done"}
  /\ latched \in SUBSET Irqs

Process == \/ ClearRunning \/ ResetEngine \/ StartWatcher
           \/ Prepare \/ QueueStaysFull \/ MBENeverReady \/ Abort
Trigger == Lock \/ Start \/ Sleep \/ Relock \/ Unlock \/ Report
Watch   == Poll \/ WakeWatcher \/ HandleLock \/ Acknowledge \/ Signal \/ Ignore
Next ==
  \/ Process \/ Trigger \/ Timeout \/ WakeUnsignalled \/ Watch
  \/ Kill \/ Boot
  \/ FinishFrame \/ RaiseSXE

Spec == Init /\ [][Next]_vars

-----------------------------------------------------------------------------
(* The type of the state. *)
TypeOK ==
  /\ main \in Mains
  /\ ret \in {"none", "0", "ETIMEDOUT"}
  /\ watcher \in {"none", "poll", "sleep", "handle", "locked", "acked"}
  /\ irq \in {0} \union Irqs
  /\ status \subseteq Irqs
  /\ mutex \in {"free", "main", "watcher"}
  /\ running \in BOOLEAN
  /\ engine \in {"idle", "busy", "done"}
  /\ latched \subseteq Irqs

(* A frame handed out as decoded is one the engine has finished: no token  *)
(* left by an earlier frame or an earlier process can end the wait.        *)
SuccessMeansFinished == main \in {"wake", "unlock", "report"} /\ ret = "0" => engine = "done"

(* The buffers the engine reads and writes, the bitstream, the lists and   *)
(* the frames, are filled, handed out and given a new role only while it   *)
(* does not work on them, a process that was killed included.              *)
EngineQuiet == main \in {"watch", "prepare", "lock"} => engine # "busy"

(* The sync token is not lost: while the main thread sleeps on a finished  *)
(* frame the watcher either is about to signal it or still is going to see *)
(* the interrupt, which is latched, not hidden by irqs_status, and not     *)
(* ignored for want of the running flag.                                   *)
TokenNotLost ==
  main = "wait" /\ engine = "done" =>
    \/ watcher = "acked" /\ irq = INT_VDE_SYNC_TOKEN
    \/ INT_VDE_SYNC_TOKEN \in latched \ status /\ running

(* irqs_status never hides an interrupt: although irq_sts_poll compares    *)
(* with it, the second of two interrupts is seen without a poll between.   *)
NoIrqHidden == status \intersect latched = {}

(* handle_IRQ ignores an interrupt, which stays latched so that the        *)
(* watcher finds it at once again and again, only when the process is      *)
(* about to abort.                                                         *)
DroppedOnlyDying ==
  watcher = "locked" /\ ~running => main \in {"stuck_reset", "abort"}

(* How the threads, decode_mutex, the engine and the latch stand to each   *)
(* other.  With TypeOK it is inductive as long as no wake-up is spurious:  *)
(* a token is latched or about to be signalled only while the frame it     *)
(* belongs to is waited for, or on the way to an abort.                    *)
HandShake ==
  /\ main \in {"dead", "boot", "boot_reset", "watch"} => watcher = "none"
  /\ mutex = "main" <=> main \in {"start", "started", "unlock"}
  /\ mutex = "watcher" <=> watcher \in {"locked", "acked"}
  /\ watcher \in {"handle", "locked", "acked"} <=> irq # 0
  /\ watcher \in {"handle", "locked"} => irq \in latched \/ main = "abort"
  /\ ret # "none" <=> main \in {"wake", "unlock", "report"}
  /\ main \in {"started", "wait", "wake", "unlock", "report"} =>
       running /\ engine # "idle"
  /\ main = "watch" => latched = {}
  /\ main \in {"watch", "prepare", "lock", "start", "abort"} =>
       engine # "busy" /\ INT_VDE_SYNC_TOKEN \notin latched
  /\ main \in {"wake", "unlock", "report"} /\ ret = "0" =>
       engine = "done" /\ INT_VDE_SYNC_TOKEN \notin latched
  /\ watcher # "none" /\ engine = "busy" =>
       /\ INT_VDE_SYNC_TOKEN \notin latched
       /\ ~(watcher = "acked" /\ irq = INT_VDE_SYNC_TOKEN)
  /\ watcher = "acked" /\ irq = INT_VDE_SYNC_TOKEN =>
       INT_VDE_SYNC_TOKEN \notin latched
  /\ main \in {"started", "wait"} /\ engine = "done" =>
       \/ INT_VDE_SYNC_TOKEN \in latched
       \/ watcher = "acked" /\ irq = INT_VDE_SYNC_TOKEN
  /\ ~running /\ watcher # "none" /\ main \notin {"stuck_reset", "abort"} =>
       engine # "busy" /\ latched = {} /\ irq = 0
  /\ status = {}

IInv == TypeOK /\ HandShake

(* Every thread runs, and decode_mutex is granted when it stays free.      *)
FairSpec == Spec /\ WF_vars(Process) /\ WF_vars(Trigger) /\ WF_vars(Watch)

(* A frame given to the engine comes back or the process ends, even if the *)
(* engine hangs: the wait has a deadline, and decode_mutex is never held   *)
(* for ever.  A bitstream interrupt raised for ever is set aside: it could *)
(* keep the watcher in its loop and win decode_mutex every time.           *)
FrameEnds ==
  WF_vars(Timeout) /\ <>[](INT_VDE_SXE \notin latched) =>
    (main = "start" ~> main \in {"prepare", "dead"})

(* A frame the engine finishes before the deadline is handed out, unless   *)
(* the process dies: the wake-up reaches the main thread whatever the      *)
(* watcher was doing.                                                      *)
FinishedIsHandedOut ==
  WF_vars(FinishFrame) /\ [](ret # "ETIMEDOUT") =>
    (main = "start" ~> main = "dead" \/ (main = "report" /\ ret = "0"))

(* The engine as the rest of the decoder sees it. *)
Serving == main \in Mains \ {"dead", "boot", "boot_reset", "watch",
                             "stuck", "stuck_reset", "abort"}
Job == INSTANCE EngineJob
  WITH up <- Serving,
       job <- CASE ~Serving \/ engine = "idle" -> "none"
                [] Serving /\ engine = "busy" -> "running"
                [] OTHER -> IF main \in {"prepare", "lock", "start"}
                              THEN "none" ELSE "finished"
RefinesJob == Job!Spec

(* "Decoding succeed!" is printed of a frame the engine has decoded.       *)
SucceedIsTrue == main = "report" /\ ret = "0" => engine = "done"
=============================================================================
