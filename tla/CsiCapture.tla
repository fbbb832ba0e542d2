----------------------------- MODULE CsiCapture ------------------------------
(***************************************************************************)
(* The camera interface of video/csi.cpp: the emulation thread (main) asks *)
(* for a frame once per picture and reports a finished one to the guest;   *)
(* the capture thread (capture) grabs it from the webcam and copies it     *)
(* into the guest's memory, at the address a register holds.  The guest    *)
(* runs on the emulation thread, so its stores to the camera's and the     *)
(* clock's registers fall between any two steps of the capture thread.     *)
(***************************************************************************)
EXTENDS Pic

CONSTANTS
  LastLine,   \* the highest value of curr_line: 800
  CsiLine,    \* the line that asks for a frame: 700
  Addr,       \* frame buffers the guest programs
  MayQuit     \* may the user quit the emulator?

CsiIrq == 51

ASSUME CsiAssumption ==
  /\ CsiIrq \in IRQ
  /\ LastLine \in Nat /\ CsiLine \in 0..LastLine
  /\ Addr # {}
  /\ MayQuit \in BOOLEAN

MainSteps == {"run", "tick", "request", "notify", "report", "reported",
              "quit", "quitNotify", "join", "exited"}
CaptureSteps == {"loop", "lock", "test", "wait", "start", "grab", "checkClock",
                 "checkEnable", "readAddr", "copy", "setDone", "clearNeed",
                 "unlock", "exited"}

VARIABLES
  main, capture,    \* what each thread does next
  line,             \* curr_line of the picture unit, which calls CSITick
  clock,            \* bit 0 of the camera's clock register (get_clock_enable)
  csien,            \* CSIEN of csi_tg_cr
  irqEn, irqSt,     \* FRAME_END of csi_tg_irqen and csi_tg_irqst
  fbaddr,           \* csi_tg_fbaddr1
  frameNeed,        \* csi_frame_need
  frameDone,        \* csi_frame_done
  killCapture,      \* kill_capture
  locked,           \* the capture thread holds do_capture_m
  signalled,        \* do_capture_cv was notified while it waited
  dest,             \* the address the capture thread copies to
  pic,              \* the interrupt controller
  copied,           \* history: the capture asked for last has been copied
  wentOff,          \* history: the camera was off since it was asked for
  programmed        \* history: values of fbaddr since the grab ended

regs  == <<clock, csien, irqEn, irqSt, fbaddr>>
flags == <<frameNeed, frameDone, killCapture>>
hist  == <<copied, wentOff, programmed>>
vars  == <<main, capture, line, regs, flags, locked, signalled, dest, pic, hist>>

TypeOK ==
  /\ main \in MainSteps
  /\ capture \in CaptureSteps
  /\ line \in 0..LastLine
  /\ clock \in BOOLEAN /\ csien \in BOOLEAN
  /\ irqEn \in BOOLEAN /\ irqSt \in BOOLEAN
  /\ fbaddr \in Addr
  /\ frameNeed \in BOOLEAN /\ frameDone \in BOOLEAN /\ killCapture \in BOOLEAN
  /\ locked \in BOOLEAN /\ signalled \in BOOLEAN
  /\ dest \in Addr
  /\ pic \in PicState
  /\ copied \in BOOLEAN /\ wentOff \in BOOLEAN
  /\ programmed \subseteq Addr

\* One of the addresses stands for the registers' reset value.
ResetAddr == CHOOSE a \in Addr : TRUE

Init ==
  /\ main = "run" /\ capture = "loop"
  /\ line = 0
  /\ clock = FALSE /\ csien = FALSE /\ irqEn = FALSE /\ irqSt = FALSE
  /\ fbaddr = ResetAddr
  /\ frameNeed = FALSE /\ frameDone = FALSE /\ killCapture = FALSE
  /\ locked = FALSE /\ signalled = FALSE
  /\ dest = ResetAddr
  /\ pic = PicInit
  /\ copied = FALSE /\ wentOff = FALSE /\ programmed = {ResetAddr}

CsiEnabled == clock /\ csien

------------------------------------------------------------------------------
(* The guest, between two ticks. *)

\* What a change of the registers adds to the history.
Observe ==
  /\ wentOff' = (wentOff \/ ~CsiEnabled')
  /\ programmed' = programmed \cup {fbaddr'}
  /\ UNCHANGED copied

GuestOnly == UNCHANGED <<main, capture, line, flags, locked, signalled, dest>>

GuestSwitches ==
  /\ main = "run"
  /\ \/ clock' = ~clock /\ UNCHANGED <<csien, irqEn>>
     \/ csien' = ~csien /\ UNCHANGED <<clock, irqEn>>
     \/ irqEn' = ~irqEn /\ UNCHANGED <<clock, csien>>
  /\ UNCHANGED <<irqSt, fbaddr, pic>>
  /\ Observe
  /\ GuestOnly

GuestSetsAddress ==
  /\ main = "run"
  /\ fbaddr' \in Addr
  /\ UNCHANGED <<clock, csien, irqEn, irqSt, pic>>
  /\ Observe
  /\ GuestOnly

\* A one written to FRAME_END of csi_tg_irqst.
GuestAcks ==
  /\ main = "run"
  /\ irqSt' = FALSE
  /\ pic' = SetIRQState(pic, CsiIrq, FALSE)
  /\ UNCHANGED <<clock, csien, irqEn, fbaddr, hist>>
  /\ GuestOnly

\* Soft reset: the camera's, the clock's and the controller's registers and the
\* CPU's queue; not the flags the threads share.
SoftReset ==
  /\ main = "run"
  /\ clock' = FALSE /\ csien' = FALSE /\ irqEn' = FALSE /\ irqSt' = FALSE
  /\ fbaddr' = ResetAddr
  /\ pic' = [IRQDeviceReset(pic) EXCEPT !.queued = {}]
  /\ Observe
  /\ GuestOnly

GuestStep == GuestSwitches \/ GuestSetsAddress \/ GuestAcks \/ SoftReset

------------------------------------------------------------------------------
(* The emulation thread: CSITick, at the end of every PPUTick. *)

MainOnly == UNCHANGED <<capture, locked, dest>>

BeginTick ==
  /\ main = "run"
  /\ line' = IF line = LastLine THEN 0 ELSE line + 1
  /\ main' = "tick"
  /\ UNCHANGED <<regs, flags, signalled, pic, hist>>
  /\ MainOnly

ChooseIgnoresNeed ==
  /\ main = "tick"
  /\ main' = IF line = CsiLine /\ CsiEnabled THEN "request" ELSE "report"
  /\ UNCHANGED <<line, regs, flags, signalled, pic, hist>>
  /\ MainOnly

Choose ==
  /\ main = "tick"
  /\ main' = IF line = CsiLine /\ ~frameNeed /\ CsiEnabled THEN "request"
             ELSE "report"
  /\ UNCHANGED <<line, regs, flags, signalled, pic, hist>>
  /\ MainOnly

\* Wrong variant: the flag of the previous frame survives the request.
RequestKeepsDone ==
  /\ main = "request"
  /\ ~locked
  /\ frameNeed' = TRUE
  /\ main' = "notify"
  /\ copied' = FALSE /\ wentOff' = FALSE /\ programmed' = {fbaddr}
  /\ UNCHANGED <<line, regs, frameDone, killCapture, signalled, pic>>
  /\ MainOnly

\* Both flags change under the mutex; the section waits for nothing else.
Request ==
  /\ main = "request"
  /\ ~locked
  /\ frameNeed' = TRUE
  /\ frameDone' = FALSE
  /\ main' = "notify"
  /\ copied' = FALSE /\ wentOff' = FALSE /\ programmed' = {fbaddr}
  /\ UNCHANGED <<line, regs, killCapture, signalled, pic>>
  /\ MainOnly

NotifyCaptureForgotten ==
  /\ main = "notify"
  /\ main' = "run"
  /\ UNCHANGED <<line, regs, flags, signalled, pic, hist>>
  /\ MainOnly

NotifyCapture ==
  /\ main = "notify"
  /\ signalled' = (signalled \/ capture = "wait")
  /\ main' = "run"
  /\ UNCHANGED <<line, regs, flags, pic, hist>>
  /\ MainOnly

\* A finished frame: its end is reported if the camera is still on, by the
\* emulation thread, which owns the controller.
Report ==
  /\ main = "report"
  /\ IF frameDone /\ CsiEnabled /\ irqEn
       THEN irqSt' = TRUE /\ pic' = SetIRQState(pic, CsiIrq, TRUE)
       ELSE UNCHANGED <<irqSt, pic>>
  /\ main' = IF frameDone THEN "reported" ELSE "run"
  /\ UNCHANGED <<line, clock, csien, irqEn, fbaddr, flags, signalled, hist>>
  /\ MainOnly

ForgetDone ==
  /\ main = "reported"
  /\ frameDone' = FALSE
  /\ main' = "run"
  /\ UNCHANGED <<line, regs, frameNeed, killCapture, signalled, pic, hist>>
  /\ MainOnly

(* ShutdownCSI, after the main loop. *)

Quit ==
  /\ MayQuit
  /\ main = "run"
  /\ main' = "quit"
  /\ UNCHANGED <<line, regs, flags, signalled, pic, hist>>
  /\ MainOnly

QuitRequest ==
  /\ main = "quit"
  /\ ~locked
  /\ frameNeed' = TRUE
  /\ killCapture' = TRUE
  /\ main' = "quitNotify"
  /\ UNCHANGED <<line, regs, frameDone, signalled, pic, hist>>
  /\ MainOnly

QuitNotifyForgotten ==
  /\ main = "quitNotify"
  /\ main' = "join"
  /\ UNCHANGED <<line, regs, flags, signalled, pic, hist>>
  /\ MainOnly

QuitNotify ==
  /\ main = "quitNotify"
  /\ signalled' = (signalled \/ capture = "wait")
  /\ main' = "join"
  /\ UNCHANGED <<line, regs, flags, pic, hist>>
  /\ MainOnly

Join ==
  /\ main = "join"
  /\ capture = "exited"
  /\ main' = "exited"
  /\ UNCHANGED <<line, regs, flags, signalled, pic, hist>>
  /\ MainOnly

MainStep ==
  \/ BeginTick \/ Choose \/ Request \/ NotifyCapture \/ Report \/ ForgetDone
  \/ QuitRequest \/ QuitNotify \/ Join

------------------------------------------------------------------------------
(* The capture thread: csi_capture_thread and csi_copy_frame. *)

CaptureOnly == UNCHANGED <<main, line, regs, pic>>

CaptureLoop ==
  /\ capture = "loop"
  /\ capture' = IF killCapture THEN "exited" ELSE "lock"
  /\ UNCHANGED <<flags, locked, signalled, dest, hist>>
  /\ CaptureOnly

CaptureLock ==
  /\ capture = "lock"
  /\ ~locked
  /\ locked' = TRUE
  /\ capture' = "test"
  /\ UNCHANGED <<flags, signalled, dest, hist>>
  /\ CaptureOnly

\* The predicate of the wait, which releases the mutex when it is false.
CaptureTest ==
  /\ capture = "test"
  /\ capture' = IF ~frameNeed THEN "wait"
                ELSE IF killCapture THEN "clearNeed" ELSE "start"
  /\ locked' = frameNeed
  /\ signalled' = FALSE
  /\ UNCHANGED <<flags, dest, hist>>
  /\ CaptureOnly

CaptureWake ==
  /\ capture = "wait"
  /\ signalled
  /\ signalled' = FALSE
  /\ capture' = "lock"
  /\ UNCHANGED <<flags, locked, dest, hist>>
  /\ CaptureOnly

CaptureWakeSpuriously ==
  /\ capture = "wait"
  /\ signalled' = FALSE
  /\ capture' = "lock"
  /\ UNCHANGED <<flags, locked, dest, hist>>
  /\ CaptureOnly

\* csi_copy_frame looks at CSIEN first ...
CaptureStart ==
  /\ capture = "start"
  /\ capture' = IF csien THEN "grab" ELSE "setDone"
  /\ UNCHANGED <<flags, locked, signalled, dest, hist>>
  /\ CaptureOnly

\* ... then waits for the webcam ...
GrabEnds ==
  /\ capture = "grab"
  /\ capture' = "checkClock"
  /\ programmed' = {fbaddr}
  /\ UNCHANGED <<flags, locked, signalled, dest, copied, wentOff>>
  /\ CaptureOnly

\* ... and looks again: csi_enabled reads one register, then the other.
CheckClock ==
  /\ capture = "checkClock"
  /\ capture' = IF clock THEN "checkEnable" ELSE "setDone"
  /\ UNCHANGED <<flags, locked, signalled, dest, hist>>
  /\ CaptureOnly

CheckEnable ==
  /\ capture = "checkEnable"
  /\ capture' = IF csien THEN "readAddr" ELSE "setDone"
  /\ UNCHANGED <<flags, locked, signalled, dest, hist>>
  /\ CaptureOnly

\* Wrong variant: the buffer chosen for the previous frame.
ReadAddrIsLatched ==
  /\ capture = "readAddr"
  /\ capture' = "copy"
  /\ UNCHANGED <<flags, locked, signalled, dest, hist>>
  /\ CaptureOnly

ReadAddr ==
  /\ capture = "readAddr"
  /\ dest' = fbaddr
  /\ capture' = "copy"
  /\ UNCHANGED <<flags, locked, signalled, hist>>
  /\ CaptureOnly

CopyEnds ==
  /\ capture = "copy"
  /\ copied' = TRUE
  /\ capture' = "setDone"
  /\ UNCHANGED <<flags, locked, signalled, dest, wentOff, programmed>>
  /\ CaptureOnly

SetDone ==
  /\ capture = "setDone"
  /\ frameDone' = TRUE
  /\ capture' = "clearNeed"
  /\ UNCHANGED <<frameNeed, killCapture, locked, signalled, dest, hist>>
  /\ CaptureOnly

ClearNeed ==
  /\ capture = "clearNeed"
  /\ frameNeed' = FALSE
  /\ capture' = "unlock"
  /\ UNCHANGED <<frameDone, killCapture, locked, signalled, dest, hist>>
  /\ CaptureOnly

CaptureUnlock ==
  /\ capture = "unlock"
  /\ locked' = FALSE
  /\ capture' = "loop"
  /\ UNCHANGED <<flags, signalled, dest, hist>>
  /\ CaptureOnly

CaptureStep ==
  \/ CaptureLoop \/ CaptureLock \/ CaptureTest \/ CaptureWake \/ CaptureStart
  \/ GrabEnds \/ CheckClock \/ CheckEnable \/ ReadAddr \/ CopyEnds
  \/ SetDone \/ ClearNeed \/ CaptureUnlock

Stopped == main = "exited" /\ UNCHANGED vars

Next ==
  \/ GuestStep
  \/ MainStep
  \/ Quit
  \/ CaptureStep
  \/ CaptureWakeSpuriously
  \/ Stopped

Spec == Init /\ [][Next]_vars

\* Both threads are scheduled, the webcam delivers, and a thread waiting for the
\* mutex gets it although the other takes it in between.
LiveSpec ==
  /\ Spec
  /\ WF_vars(MainStep)
  /\ WF_vars(CaptureStep)
  /\ SF_vars(Request)
  /\ SF_vars(QuitRequest)

------------------------------------------------------------------------------
\* The emulation never stands still for the webcam: when CSITick is about to
\* take the mutex, the capture thread is not inside csi_copy_frame, because
\* csi_frame_need stays set until the copy is over.
Capturing == {"start", "grab", "checkClock", "checkEnable", "readAddr", "copy"}
EmulationNeverWaitsForCamera == main = "request" => capture \notin Capturing

\* A frame end is not reported for a picture that is not in memory, unless the
\* guest turned the camera off while it was being captured.
FrameEndMeansFrame == frameDone => copied \/ wentOff

\* The address is read after the slow grab: the frame goes to a buffer the
\* guest had programmed at some time after the webcam delivered it.
DestinationIsCurrent == capture = "copy" => dest \in programmed

\* The status bit and the line always agree, so a guest that polls and one that
\* takes the interrupt see the same frame ends.
StatusMatchesLine == irqSt <=> CsiIrq \in pic.pending

\* Types, the status bit that matches its line, and a mutex that is free for the
\* emulation, whatever CSITick, the capture thread, stores and resets do.
CsiInv == TypeOK /\ StatusMatchesLine /\ EmulationNeverWaitsForCamera

\* While the camera stays on, frames keep being copied to memory.
FramesKeepComing ==
  <>[](CsiEnabled /\ main \notin {"quit", "quitNotify", "join", "exited"})
    => []<>(capture = "copy")

\* The emulator ends when the user quits, whatever the capture thread is doing.
QuitEnds == main = "quit" ~> main = "exited"
==============================================================================
