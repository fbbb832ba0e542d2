---------------------------- MODULE RenderThread -----------------------------
(***************************************************************************)
(* The hand-over of frames between the emulation thread and the render     *)
(* thread of video/ppu.cpp, and the shutdown of the latter.                *)
(*                                                                         *)
(* The emulation thread (main) calls PPUTick once per line.  On the line   *)
(* where vertical blanking ends it asks for a frame; on any line it polls  *)
(* the window's events and shows the picture when one has been rendered.   *)
(* The render thread (render) sleeps on a condition variable, draws into   *)
(* the buffer `scaled` with the mutex held, and says that it is done.      *)
(*                                                                         *)
(* main and render hold what each thread does next.  The interrupts that   *)
(* PPUTick raises and the camera tick it ends with touch none of this      *)
(* state: they are in Blanking and CsiCapture.                             *)
(*                                                                         *)
(* Names that Blanking has too carry a prefix: PictureProofs extends both. *)
(***************************************************************************)
EXTENDS Integers, Sequences

CONSTANTS
  MaxLine,     \* the highest value of curr_line: 800
  RenderLine,  \* the line that asks for a frame: 50
  Events,      \* the kinds of window events the user causes
  MaxEvents    \* how many of them

ASSUME RenderLineAssumption ==
  /\ MaxLine \in Nat
  /\ RenderLine \in Nat
  /\ RenderLine < MaxLine
\* Closing the window, Alt+F4, and a key that loads a saved state.
ASSUME EventAssumption ==
  Events \subseteq {"close", "altf4", "load"} /\ MaxEvents \in Nat

MainSteps == {"run", "request", "notify", "check", "poll", "flip", "clear",
              "endTick", "quit", "quitNotify", "join", "exited", "terminated"}
RenderSteps == {"loop", "lock", "test", "wait", "render", "unlock", "exited"}

VARIABLES
  main, render,       \* what each thread does next
  curr_line,
  renderReady,        \* render_ready
  renderDone,         \* render_done
  killRenderer,       \* kill_renderer
  locked,             \* the render thread holds do_render_m
  signalled,          \* do_render_cv has been notified while it waited
  joinable,           \* ppu_thread.joinable()
  shutdown,           \* shutdown_flag
  events,             \* the window system's queue
  caused,             \* how many events the user has caused
  afterQuit,          \* where do_quit returns to
  loadState,          \* loadstate_flag
  unseen              \* history: a frame was finished after the last flip began

flags == <<renderReady, renderDone, killRenderer>>
sync  == <<locked, signalled, joinable>>
user  == <<events, caused>>
renderVars == <<main, render, curr_line, flags, sync, shutdown, user, afterQuit,
                loadState, unseen>>

RenderTypeOK ==
  /\ main \in MainSteps
  /\ render \in RenderSteps
  /\ curr_line \in 0..MaxLine
  /\ renderReady \in BOOLEAN /\ renderDone \in BOOLEAN /\ killRenderer \in BOOLEAN
  /\ locked \in BOOLEAN /\ signalled \in BOOLEAN /\ joinable \in BOOLEAN
  /\ shutdown \in BOOLEAN
  /\ events \in Seq(Events)
  /\ caused \in 0..MaxEvents
  /\ afterQuit \in {"poll", "flip"}
  /\ loadState \in BOOLEAN
  /\ unseen \in BOOLEAN

RenderInit ==
  /\ main = "run"
  /\ render = "loop"
  /\ curr_line = 0
  /\ renderReady = FALSE /\ renderDone = FALSE /\ killRenderer = FALSE
  /\ locked = FALSE /\ signalled = FALSE /\ joinable = TRUE
  /\ shutdown = FALSE
  /\ events = <<>>
  /\ caused = 0
  /\ afterQuit = "flip"
  /\ loadState = FALSE
  /\ unseen = FALSE

\* The process is gone: exit from main(), or std::terminate.
Ended == main \in {"exited", "terminated"}

------------------------------------------------------------------------------
(* The user. *)

UserActs ==
  /\ ~Ended
  /\ caused < MaxEvents
  /\ \E e \in Events : events' = Append(events, e)
  /\ caused' = caused + 1
  /\ UNCHANGED <<main, render, curr_line, flags, sync, shutdown, afterQuit,
                 loadState, unseen>>

------------------------------------------------------------------------------
(* The render thread: ppu_render_thread. *)

RenderLoop ==
  /\ render = "loop"
  /\ render' = IF killRenderer THEN "exited" ELSE "lock"
  /\ UNCHANGED <<main, curr_line, flags, sync, shutdown, user, afterQuit, loadState,
                 unseen>>

RenderLock ==
  /\ render = "lock"
  /\ ~locked
  /\ locked' = TRUE
  /\ render' = "test"
  /\ UNCHANGED <<main, curr_line, flags, signalled, joinable, shutdown, user,
                 afterQuit, loadState, unseen>>

\* Wrong variant: it draws without looking whether it was woken to die.
RenderTestIgnoresKill ==
  /\ render = "test"
  /\ render' = IF renderReady THEN "render" ELSE "wait"
  /\ locked' = renderReady
  /\ renderReady' = FALSE
  /\ signalled' = FALSE
  /\ UNCHANGED <<main, curr_line, renderDone, killRenderer, joinable, shutdown,
                 user, afterQuit, loadState, unseen>>

\* Wrong variant: the request is not used up by the picture.
RenderTestKeepsReady ==
  /\ render = "test"
  /\ render' = IF ~renderReady THEN "wait"
               ELSE IF killRenderer THEN "unlock" ELSE "render"
  /\ locked' = renderReady
  /\ signalled' = FALSE
  /\ UNCHANGED <<main, curr_line, flags, joinable, shutdown, user, afterQuit,
                 loadState, unseen>>

\* The predicate of the wait; waiting releases the mutex in the same step.  The
\* woken thread clears render_ready and looks whether it was woken to die.
RenderTest ==
  /\ render = "test"
  /\ render' = IF ~renderReady THEN "wait"
               ELSE IF killRenderer THEN "unlock" ELSE "render"
  /\ locked' = renderReady
  /\ renderReady' = FALSE
  /\ signalled' = FALSE
  /\ UNCHANGED <<main, curr_line, renderDone, killRenderer, joinable, shutdown,
                 user, afterQuit, loadState, unseen>>

RenderWake ==
  /\ render = "wait"
  /\ signalled
  /\ signalled' = FALSE
  /\ render' = "lock"
  /\ UNCHANGED <<main, curr_line, flags, locked, joinable, shutdown, user, afterQuit,
                 loadState, unseen>>

\* A condition variable may wake up without being notified.
RenderWakeSpuriously ==
  /\ render = "wait"
  /\ signalled' = FALSE
  /\ render' = "lock"
  /\ UNCHANGED <<main, curr_line, flags, locked, joinable, shutdown, user, afterQuit,
                 loadState, unseen>>

\* PPURender returns: the picture in `scaled` is complete.
RenderFinish ==
  /\ render = "render"
  /\ renderDone' = TRUE
  /\ unseen' = TRUE
  /\ render' = "unlock"
  /\ UNCHANGED <<main, curr_line, renderReady, killRenderer, sync, shutdown, user,
                 afterQuit, loadState>>

RenderUnlock ==
  /\ render = "unlock"
  /\ locked' = FALSE
  /\ render' = "loop"
  /\ UNCHANGED <<main, curr_line, flags, signalled, joinable, shutdown, user,
                 afterQuit, loadState, unseen>>

RenderStep ==
  \/ RenderLoop \/ RenderLock \/ RenderTest \/ RenderWake \/ RenderFinish
  \/ RenderUnlock

------------------------------------------------------------------------------
(* The emulation thread: PPUTick, PPUUpdate and PPUFlip. *)

BeginTick ==
  /\ main = "run"
  /\ curr_line' = IF curr_line = MaxLine THEN 0 ELSE curr_line + 1
  /\ main' = IF curr_line = RenderLine THEN "request" ELSE "check"
  /\ UNCHANGED <<render, flags, sync, shutdown, user, afterQuit, loadState,
                 unseen>>

\* The critical section of the lock_guard is one step: it holds no other wait.
RequestFrame ==
  /\ main = "request"
  /\ ~locked
  /\ renderReady' = TRUE
  /\ main' = "notify"
  /\ UNCHANGED <<render, curr_line, renderDone, killRenderer, sync, shutdown, user,
                 afterQuit, loadState, unseen>>

\* notify_one reaches the render thread only if it waits at that moment.
Notify == signalled' = (signalled \/ render = "wait")

NotifyFrameForgotten ==
  /\ main = "notify"
  /\ main' = "check"
  /\ UNCHANGED <<render, curr_line, flags, sync, shutdown, user, afterQuit,
                 loadState, unseen>>

NotifyFrame ==
  /\ main = "notify"
  /\ Notify
  /\ main' = "check"
  /\ UNCHANGED <<render, curr_line, flags, locked, joinable, shutdown, user,
                 afterQuit, loadState, unseen>>

CheckDone ==
  /\ main = "check"
  /\ main' = IF renderDone THEN "poll" ELSE "endTick"
  /\ UNCHANGED <<render, curr_line, flags, sync, shutdown, user, afterQuit,
                 loadState, unseen>>

\* Wrong variant: closing the window polls on as well.
PollEventNeverBreaks ==
  /\ main = "poll"
  /\ events # <<>>
  /\ events' = Tail(events)
  /\ main' = IF Head(events) = "load" THEN "poll" ELSE "quit"
  /\ afterQuit' = "poll"
  /\ loadState' = (loadState \/ Head(events) = "load")
  /\ UNCHANGED <<render, curr_line, flags, sync, shutdown, caused, unseen>>

\* Closing the window leaves the loop after do_quit; Alt+F4 does not.
PollEvent ==
  /\ main = "poll"
  /\ events # <<>>
  /\ events' = Tail(events)
  /\ main' = IF Head(events) = "load" THEN "poll" ELSE "quit"
  /\ afterQuit' = CASE Head(events) = "close" -> "flip"
                    [] Head(events) = "altf4" -> "poll"
                    [] OTHER -> afterQuit
  /\ loadState' = (loadState \/ Head(events) = "load")
  /\ UNCHANGED <<render, curr_line, flags, sync, shutdown, caused, unseen>>

\* The queue is empty: PPUFlip begins to read `scaled`.
BeginFlip ==
  /\ main = "poll"
  /\ events = <<>>
  /\ main' = "flip"
  /\ unseen' = FALSE
  /\ UNCHANGED <<render, curr_line, flags, sync, shutdown, user, afterQuit, loadState>>

EndFlip ==
  /\ main = "flip"
  /\ renderDone' = FALSE
  /\ main' = "clear"
  /\ UNCHANGED <<render, curr_line, renderReady, killRenderer, sync, shutdown, user,
                 afterQuit, loadState, unseen>>

\* PPUTick clears render_done once more after PPUUpdate.
ClearDone ==
  /\ main = "clear"
  /\ renderDone' = FALSE
  /\ main' = "endTick"
  /\ UNCHANGED <<render, curr_line, renderReady, killRenderer, sync, shutdown, user,
                 afterQuit, loadState, unseen>>

\* Wrong variant: a state to load goes before the shutdown.
EndTickLoadsFirst ==
  /\ main = "endTick"
  /\ main' = IF shutdown /\ ~loadState THEN "exited" ELSE "run"
  /\ IF loadState THEN curr_line' \in 0..MaxLine ELSE curr_line' = curr_line
  /\ loadState' = FALSE
  /\ UNCHANGED <<render, flags, sync, shutdown, user, afterQuit, unseen>>

\* The main loop looks at its flags on the same instruction as PPUTick: it
\* leaves, or it loads a state, which may have been saved on any line.
EndTick ==
  /\ main = "endTick"
  /\ main' = IF shutdown THEN "exited" ELSE "run"
  /\ IF loadState /\ ~shutdown THEN curr_line' \in 0..MaxLine
     ELSE UNCHANGED curr_line
  /\ loadState' = (loadState /\ shutdown)
  /\ UNCHANGED <<render, flags, sync, shutdown, user, afterQuit, unseen>>

(* do_quit and ShutdownPPU. *)

QuitRequest ==
  /\ main = "quit"
  /\ ~locked
  /\ renderReady' = TRUE
  /\ killRenderer' = TRUE
  /\ main' = "quitNotify"
  /\ UNCHANGED <<render, curr_line, renderDone, sync, shutdown, user, afterQuit,
                 loadState, unseen>>

QuitNotifyForgotten ==
  /\ main = "quitNotify"
  /\ main' = "join"
  /\ UNCHANGED <<render, curr_line, flags, sync, shutdown, user, afterQuit, loadState,
                 unseen>>

QuitNotify ==
  /\ main = "quitNotify"
  /\ Notify
  /\ main' = "join"
  /\ UNCHANGED <<render, curr_line, flags, locked, joinable, shutdown, user,
                 afterQuit, loadState, unseen>>

Join ==
  /\ main = "join"
  /\ joinable
  /\ render = "exited"
  /\ joinable' = FALSE
  /\ shutdown' = TRUE
  /\ main' = afterQuit
  /\ unseen' = (unseen /\ afterQuit # "flip")
  /\ UNCHANGED <<render, curr_line, flags, locked, signalled, user, afterQuit,
                 loadState>>

\* Joining a thread that was joined already throws, and nobody catches it.
JoinTwice ==
  /\ main = "join"
  /\ ~joinable
  /\ main' = "terminated"
  /\ UNCHANGED <<render, curr_line, flags, sync, shutdown, user, afterQuit,
                 loadState, unseen>>

MainStep ==
  \/ BeginTick \/ RequestFrame \/ NotifyFrame \/ CheckDone \/ PollEvent
  \/ BeginFlip \/ EndFlip \/ ClearDone \/ EndTick
  \/ QuitRequest \/ QuitNotify \/ Join \/ JoinTwice

Stopped == Ended /\ UNCHANGED renderVars

RenderNext ==
  \/ UserActs
  \/ ~Ended /\ (RenderStep \/ RenderWakeSpuriously)
  \/ MainStep
  \/ Stopped

RenderSpec == RenderInit /\ [][RenderNext]_renderVars

\* Both threads are scheduled and PPURender ends.  A thread that waits for the
\* mutex gets it even if the other one, woken spuriously, takes it in between
\* again and again.
RenderLiveSpec ==
  /\ RenderSpec
  /\ WF_renderVars(~Ended /\ RenderStep)
  /\ WF_renderVars(MainStep)
  /\ SF_renderVars(RequestFrame)
  /\ SF_renderVars(QuitRequest)

------------------------------------------------------------------------------
\* PPUFlip reads `scaled` without the mutex, so it can show a picture that is
\* being drawn over.  That takes a render that lasted until the next frame was
\* asked for: a picture finished before its next RenderLine is shown whole.
TornOnlyWhenLate ==
  main = "flip" /\ render = "render" => curr_line = RenderLine + 1

\* PPUFlip and PPUTick clear render_done after the picture was shown, and may
\* wipe out the flag of a newer picture.  Again only in the tick that asked for
\* that newer picture while the older one was still to be shown.
DroppedOnlyWhenLate ==
  unseen /\ renderDone /\ ~renderDone' => curr_line = RenderLine + 1

\* Every step that begins in a torn picture, and every one that drops a picture,
\* is taken in the tick that asked for the next one: no other loss.
LossesAreLate == [][TornOnlyWhenLate /\ DroppedOnlyWhenLate]_renderVars

\* Nothing is emulated after the render thread was told to die: shutdown_flag
\* is looked at before the next tick, and before a state is loaded.
NoTickAfterShutdown ==
  main \in {"run", "request", "notify"} => joinable /\ ~killRenderer

\* The invariant that makes the safety properties inductive.
\* The mutex is held from the test of the predicate to the unlock; drawing has
\* used up the request; a picture that waits to be shown means that the render
\* thread has nothing left to do, except in the tick that asks for the next.
Showing == {"poll", "flip", "quit", "quitNotify", "join"}
LockIsHeld == locked <=> render \in {"test", "render", "unlock"}
DrawingUsedRequest == render = "render" => ~renderReady /\ ~killRenderer
RequestIsLate == main \in {"request", "notify"} => curr_line = RenderLine + 1
ShowingIsDone == main \in Showing => renderDone
DoneIsIdle ==
  (renderDone \/ main = "clear") /\ ~killRenderer =>
    \/ curr_line = RenderLine + 1 /\ main \in Showing \cup {"notify", "check", "clear"}
    \/ ~renderReady /\ render # "render"

\* The thread is killed only on the way to the end of the main loop.
KilledIsQuitting ==
  /\ killRenderer => shutdown \/ main \in {"quitNotify", "join"}
  /\ main \in {"quitNotify", "join"} => killRenderer
  /\ ~joinable => shutdown
  /\ shutdown => main \notin {"run", "request", "notify", "check"}

\* What was finished since the flip began was asked for in the same tick.
UnseenIsLate ==
  main \in {"flip", "clear"} /\ unseen /\ renderDone => curr_line = RenderLine + 1

RenderInv ==
  /\ LockIsHeld /\ DrawingUsedRequest /\ RequestIsLate
  /\ ShowingIsDone /\ DoneIsIdle /\ KilledIsQuitting /\ UnseenIsLate

\* A request to quit ends the process, whatever the render thread is doing and
\* whenever its wait misses a notification.
QuitRequested == \E k \in DOMAIN events : events[k] \in {"close", "altf4"}
QuitEnds == QuitRequested ~> Ended

\* A user who never presses Alt+F4, which alone polls on after do_quit, gets a
\* clean exit, however often the window is closed: the second join, which throws
\* with nobody to catch it, is never reached.
CloseExits ==
  [](\A k \in DOMAIN events : events[k] # "altf4")
    => (QuitRequested ~> main = "exited")

\* Until then pictures are shown again and again: no wake-up is lost.
PicturesKeepComing == []<>(main = "flip" \/ Ended)
==============================================================================
