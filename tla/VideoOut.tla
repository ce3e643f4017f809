------------------------------- MODULE VideoOut -------------------------------
(***************************************************************************)
(* The video output (video/out/vo.c) with the driver for libmpv: the core, *)
(* which queues frames (player/video.c), the vo thread, which shows them   *)
(* in time, and the render thread of RenderContext.  A section under       *)
(* vo->in->lock is one step.                                               *)
(***************************************************************************)
EXTENDS RenderContext

CONSTANTS
  Lead,          (* timing_offset; flip_queue_offset is 0                 *)
  MaxTime,       (* bound: the clock stops                                 *)
  Vsyncs,        (* bound: num_vsyncs of the frames in display-sync mode   *)
  Budgets        (* bounds: frames, seeks, pauses, redraws, calls, ends     *)

ASSUME TimeAssumption == Lead \in Nat /\ MaxTime \in Nat /\ MaxTime > Lead

ASSUME VsyncsAssumption == Vsyncs \subseteq Nat

(* struct vo_frame, as far as vo.c looks into it                           *)
Frame == [id : Nat, synced : BOOLEAN, vsyncs : Nat, pts : Nat, end : Nat]

(* What draw_frame() is given                                              *)
Drawing == [id : Nat, redraw : BOOLEAN]

ASSUME NoneAssumption == None \notin Frame /\ None \notin Drawing

Kinds == {"frames", "resets", "pauses", "redraws", "calls", "ends"}

ASSUME BudgetsAssumption == Budgets \subseteq [Kinds -> Nat]

VARIABLES
  now,                     (* mp_time_us()                                 *)
  need_wakeup, hasframe, hasframe_rendered, request_redraw, want_redraw, send_reset,
  paused, wakeup_on_done, drop_count, dropped_frame, current_frame, frame_queued,
  current_frame_id,
  wakeup_pts,              (* 0 if there is none                           *)
  vo,                      (* where the vo thread is                       *)
  mode,                    (* it draws for render_frame() or do_redraw()   *)
  drawing,                 (* the frame it draws                           *)
  prev_drop_count, working,
  vo_want_redraw, vo_paused,
  wait_until,              (* when wait_vo() ends                          *)
  core,                    (* run, ready, asleep, wait_frame, call, gone   *)
  awaits,                  (* what it sleeps for: nothing, ready, done     *)
  core_woken,              (* wakeup_core()                                *)
  next,                    (* the frame that vo_queue_frame() will get     *)
  asked,                   (* IsReady was called for the next frame        *)
  request,                 (* what is dispatched to the vo thread          *)
  budget,
  drawn, stale, stale_config     (* history: the last frame drawn, the     *)
                                 (* last before a seek, before a reconfig  *)

queueVars == <<hasframe, hasframe_rendered, drop_count, current_frame, frame_queued,
               current_frame_id>>
redrawVars == <<request_redraw, want_redraw, send_reset, paused>>
drawVars == <<mode, drawing, prev_drop_count, drawn>>
loopVars == <<working, vo_want_redraw, vo_paused, wait_until>>
coreVars == <<core, awaits, next, asked, budget>>
staleVars == <<stale, stale_config>>
lockVars == <<need_wakeup, queueVars, redrawVars, wakeup_on_done, wakeup_pts>>
voThreadVars == <<ctxVars, now, dropped_frame, vo, drawVars, loopVars>>
vars == <<voThreadVars, lockVars, coreVars, core_woken, request, staleVars>>

Never == MaxTime + 1

(* After vo_create() and the first vo_reconfig()                           *)
Init ==
  /\ CtxInit
  /\ now = Lead /\ need_wakeup = FALSE
  /\ hasframe = FALSE /\ hasframe_rendered = FALSE /\ drop_count = 0
  /\ current_frame = None /\ frame_queued = None /\ current_frame_id = 0
  /\ request_redraw = FALSE /\ want_redraw = FALSE /\ send_reset = FALSE /\ paused = FALSE
  /\ wakeup_on_done = FALSE /\ dropped_frame = FALSE /\ wakeup_pts = 0
  /\ vo = "top" /\ mode = "frame" /\ drawing = None /\ prev_drop_count = 0 /\ drawn = 0
  /\ working = FALSE /\ vo_want_redraw = FALSE /\ vo_paused = FALSE /\ wait_until = 0
  /\ core = "run" /\ awaits = "nothing" /\ core_woken = FALSE /\ next = None
  /\ asked = FALSE
  /\ request = "none" /\ budget \in Budgets /\ stale = 0 /\ stale_config = 0

Spend(x) == budget[x] > 0 /\ budget' = [budget EXCEPT ![x] = @ - 1]

Rendering == vo \in {"draw", "target", "flip", "done"} /\ mode = "frame"

(* The current frame is on the screen: timed, or for more vsyncs.          *)
Lasts(f) == f # None /\ IF f.synced THEN f.vsyncs > 0 ELSE now < f.end

StillDisplaying == hasframe /\ (Rendering \/ frame_queued # None \/ Lasts(current_frame))

(* Mutant of ForgetFrames: the frame that is queued stays.                 *)
ForgetCurrentFrame(f) ==
  /\ hasframe' = FALSE /\ hasframe_rendered' = FALSE /\ drop_count' = 0
  /\ current_frame_id' = current_frame_id + 1
  /\ current_frame' = IF f = None THEN None ELSE [f EXCEPT !.vsyncs = 0, !.synced = FALSE]
  /\ UNCHANGED frame_queued

(* forget_frames(): only what can be redrawn is kept.                      *)
ForgetFrames(f) ==
  /\ hasframe' = FALSE /\ hasframe_rendered' = FALSE /\ drop_count' = 0
  /\ current_frame_id' = current_frame_id + 1
  /\ current_frame' = IF f = None THEN None ELSE [f EXCEPT !.vsyncs = 0, !.synced = FALSE]
  /\ frame_queued' = None

Tick ==
  /\ now < MaxTime /\ now' = now + 1
  /\ UNCHANGED <<ctxVars, dropped_frame, vo, drawVars, loopVars, lockVars, coreVars,
                 core_woken, request, staleVars>>

-----------------------------------------------------------------------------
(* The core (write_video(), reset_video_state(), the playloop)             *)

Timed(pts) == [synced |-> FALSE, vsyncs |-> 1, pts |-> pts, end |-> pts + 1]
Synced(n) == [synced |-> TRUE, vsyncs |-> n, pts |-> 0, end |-> 0]

Free(f) == f = None \/ f.vsyncs < 1

(* Mutant of SetTimer: the vo thread sleeps on.                            *)
SetTimerOnly(t, wait) ==
  /\ wakeup_pts' = IF wakeup_pts = 0 \/ t < wakeup_pts THEN t ELSE wakeup_pts
  /\ UNCHANGED need_wakeup

(* ... and "if we have to wait, update the vo thread's timer"              *)
SetTimer(t, wait) ==
  /\ wakeup_pts' = IF wakeup_pts = 0 \/ t < wakeup_pts THEN t ELSE wakeup_pts
  /\ need_wakeup' = (need_wakeup \/ (wait /\ wakeup_pts' # wakeup_pts))

(* write_video() shows only the first frame after a seek while paused.     *)
WriteVideo == core = "run" /\ (paused => ~hasframe)

(* vo_is_ready_for_frame(); if the VO is not ready, the core sleeps.       *)
IsReady(f) ==
  /\ WriteVideo /\ budget["frames"] > 0 /\ asked' = TRUE
  /\ LET free == frame_queued = None /\ Free(current_frame)
         early == ~f.synced /\ f.pts > now + Lead
     IN /\ IF free /\ ~f.synced THEN SetTimer(f.pts - Lead, early)
                                ELSE UNCHANGED <<wakeup_pts, need_wakeup>>
        /\ IF free /\ ~early THEN core' = "ready" /\ next' = f /\ UNCHANGED awaits
                             ELSE core' = "asleep" /\ awaits' = "ready" /\ UNCHANGED next
  /\ UNCHANGED <<voThreadVars, queueVars, redrawVars, wakeup_on_done, core_woken,
                 request, budget, staleVars>>

(* vo_queue_frame()                                                        *)
QueueFrame ==
  /\ core = "ready"
  /\ Spend("frames")
  /\ hasframe' = TRUE /\ current_frame_id' = current_frame_id + 1
  /\ frame_queued' = [id |-> current_frame_id', synced |-> next.synced, vsyncs |-> next.vsyncs,
                      pts |-> next.pts, end |-> next.end]
  /\ wakeup_pts' = next.end /\ need_wakeup' = TRUE
  /\ core' = "run" /\ next' = None /\ asked' = FALSE
  /\ UNCHANGED <<voThreadVars, hasframe_rendered, drop_count, current_frame, redrawVars,
                 wakeup_on_done, awaits, core_woken, request, staleVars>>

(* vo_wait_frame()                                                         *)
WaitFrame ==
  /\ core = "run" /\ (frame_queued # None \/ Rendering)
  /\ core' = "wait_frame"
  /\ UNCHANGED <<voThreadVars, lockVars, awaits, next, asked, budget, core_woken, request,
                 staleVars>>

WaitFrameReturns ==
  /\ core = "wait_frame" /\ frame_queued = None /\ ~Rendering
  /\ core' = "run"
  /\ UNCHANGED <<voThreadVars, lockVars, awaits, next, asked, budget, core_woken, request,
                 staleVars>>

(* vo_request_wakeup_on_done(): a new format waits for the last frame.  A  *)
(* frame is compared with the format before vo_is_ready_for_frame().       *)
RequestWakeupOnDone ==
  /\ WriteVideo /\ ~asked
  /\ wakeup_on_done' = (wakeup_on_done \/ StillDisplaying)
  /\ core_woken' = (core_woken \/ ~StillDisplaying)
  /\ core' = "asleep" /\ awaits' = "done"
  /\ UNCHANGED <<voThreadVars, need_wakeup, queueVars, redrawVars, wakeup_pts, next, asked,
                 budget, request, staleVars>>

(* Mutant of Dispatch: dispatch_wakeup_cb() is not set.                    *)
DispatchQuietly(r) == request' = r /\ UNCHANGED need_wakeup

(* mp_dispatch_run() on the vo thread, which is woken                      *)
Dispatch(r) == request' = r /\ need_wakeup' = TRUE

(* vo_reconfig2(), vo_control(VOCTRL_SCREENSHOT)                           *)
Call(r) ==
  /\ core = "run" /\ (r = "reconfig" => ~StillDisplaying /\ ~asked)
  /\ Spend("calls") /\ Dispatch(r)
  /\ core' = "call"
  /\ UNCHANGED <<voThreadVars, queueVars, redrawVars, wakeup_on_done, wakeup_pts,
                 awaits, next, asked, core_woken, staleVars>>

CallReturns ==
  /\ core = "call" /\ request = "none"
  /\ core' = IF vo = "dead" THEN "gone" ELSE "run"
  /\ UNCHANGED <<voThreadVars, lockVars, awaits, next, asked, budget, core_woken, request,
                 staleVars>>

(* vo_destroy(), because the video ends or was killed                      *)
VoDestroy ==
  /\ core = "run" /\ Dispatch("terminate")
  /\ IF killed THEN UNCHANGED budget ELSE Spend("ends")
  /\ core' = "call"
  /\ UNCHANGED <<voThreadVars, queueVars, redrawVars, wakeup_on_done, wakeup_pts,
                 awaits, next, asked, core_woken, staleVars>>

(* vo_seek_reset()                                                         *)
SeekReset ==
  /\ core = "run"
  /\ Spend("resets")
  /\ ForgetFrames(current_frame) /\ stale' = current_frame_id
  /\ send_reset' = TRUE /\ need_wakeup' = TRUE /\ asked' = FALSE
  /\ UNCHANGED <<voThreadVars, request_redraw, want_redraw, paused, wakeup_on_done,
                 wakeup_pts, core, awaits, next, core_woken, request, stale_config>>

(* Mutant of SetPaused: a frame that was dropped is not drawn.             *)
SetPausedOnly ==
  /\ core = "run"
  /\ Spend("pauses")
  /\ paused' = ~paused /\ need_wakeup' = TRUE
  /\ UNCHANGED <<voThreadVars, queueVars, request_redraw, want_redraw, send_reset,
                 wakeup_on_done, wakeup_pts, core, awaits, next, asked, core_woken, request,
                 staleVars>>

(* vo_set_paused()                                                         *)
SetPaused ==
  /\ core = "run"
  /\ Spend("pauses")
  /\ paused' = ~paused /\ need_wakeup' = TRUE
  /\ request_redraw' = (request_redraw \/ (paused' /\ dropped_frame))
  /\ core_woken' = (core_woken \/ (paused' /\ dropped_frame))
  /\ UNCHANGED <<voThreadVars, queueVars, want_redraw, send_reset, wakeup_on_done,
                 wakeup_pts, core, awaits, next, asked, request, staleVars>>

(* vo_redraw(), for the OSD or since vo_want_redraw()                      *)
Redraw ==
  /\ core = "run" /\ ~request_redraw
  /\ Spend("redraws")
  /\ request_redraw' = TRUE /\ want_redraw' = FALSE /\ need_wakeup' = TRUE
  /\ UNCHANGED <<voThreadVars, queueVars, send_reset, paused, wakeup_on_done,
                 wakeup_pts, core, awaits, next, asked, core_woken, request, staleVars>>

CoreSleeps ==
  /\ core = "run"
  /\ core' = "asleep" /\ awaits' = "nothing"
  /\ UNCHANGED <<voThreadVars, lockVars, next, asked, budget, core_woken, request, staleVars>>

(* It is woken, by kill_video_async() too, ...                             *)
CoreWakes ==
  /\ core = "asleep" /\ (core_woken \/ killed)
  /\ core' = "run" /\ awaits' = "nothing" /\ core_woken' = FALSE
  /\ UNCHANGED <<voThreadVars, lockVars, next, asked, budget, request, staleVars>>

(* ... or for another reason.                                              *)
CoreInput ==
  /\ core = "asleep" /\ ~core_woken
  /\ core' = "run" /\ awaits' = "nothing"
  /\ UNCHANGED <<voThreadVars, lockVars, next, asked, budget, core_woken, request, staleVars>>

-----------------------------------------------------------------------------
(* The vo thread                                                           *)

Goto(l) == vo' = l

(* The end of render_frame(): f is current_frame, queued frame_queued.     *)
TellWhenDone(f, queued) ==
  LET done == wakeup_on_done /\ ~(hasframe /\ (queued # None \/ Lasts(f)))
  IN /\ wakeup_on_done' = (wakeup_on_done /\ ~done)
     /\ core_woken' = (core_woken \/ done)

(* There is something for render_frame() to show.                          *)
MoreVsyncs(f) == f # None /\ f.synced /\ f.vsyncs > 0

NothingToRender ==
  frame_queued = None /\ ~(~paused /\ hasframe /\ MoreVsyncs(current_frame))

(* mp_dispatch_queue_process(), before render_frame()                      *)
Serve(r) == vo = "top" /\ request = r

RenderNothing ==
  /\ Serve("none") /\ NothingToRender
  /\ TellWhenDone(current_frame, None)
  /\ working' = FALSE
  /\ Goto("loop")
  /\ UNCHANGED <<ctxVars, now, dropped_frame, drawVars, need_wakeup, queueVars, redrawVars,
                 wakeup_pts, coreVars, request, staleVars, vo_want_redraw, vo_paused,
                 wait_until>>

(* The frame that is due, and once more for the next vsync                 *)
ToRender == IF frame_queued # None THEN frame_queued ELSE current_frame
Shown(f) == [f EXCEPT !.vsyncs = IF @ > 0 THEN @ - 1 ELSE 0]

(* can_drop, and the last flip was not long ago                            *)
Dropped(f, may) ==
  ~paused /\ IF f.synced THEN f.vsyncs < 1 ELSE may /\ hasframe_rendered /\ f.end < now

RenderDrops ==
  /\ Serve("none") /\ ~NothingToRender
  /\ LET f == ToRender
     IN /\ Dropped(f, TRUE)
        /\ current_frame' = Shown(f) /\ frame_queued' = None
        /\ wakeup_on_done' = (wakeup_on_done /\ Lasts(Shown(f)))
        /\ working' = MoreVsyncs(Shown(f))
  /\ drop_count' = drop_count + 1 /\ dropped_frame' = TRUE
  /\ core_woken' = TRUE
  /\ Goto("loop")
  /\ UNCHANGED <<ctxVars, now, drawVars, need_wakeup, hasframe, hasframe_rendered,
                 current_frame_id, redrawVars, wakeup_pts, coreVars, request, staleVars,
                 vo_want_redraw, vo_paused, wait_until>>

(* A frame is drawn with the lock released; the core is told if it can     *)
(* queue the next one.                                                     *)
RenderFrame ==
  /\ Serve("none") /\ ~NothingToRender
  /\ LET f == ToRender
     IN /\ ~Dropped(f, FALSE)
        /\ current_frame' = Shown(f) /\ frame_queued' = None
        /\ core_woken' = (core_woken \/ Free(Shown(f)) \/ ~f.synced \/ paused)
        /\ drawing' = [id |-> f.id, redraw |-> FALSE]
  /\ dropped_frame' = FALSE /\ hasframe_rendered' = TRUE /\ prev_drop_count' = drop_count
  /\ mode' = "frame"
  /\ Goto("draw")
  /\ UNCHANGED <<ctxVars, now, need_wakeup, hasframe, drop_count, current_frame_id, redrawVars,
                 wakeup_on_done, wakeup_pts, coreVars, request, staleVars, loopVars, drawn>>

Draw ==
  /\ vo = "draw"
  /\ DrawFrame(drawing)
  /\ drawn' = IF drawing.id = 0 THEN drawn ELSE drawing.id
  /\ drawing' = None
  /\ Goto(IF mode = "frame" THEN "target" ELSE "flip")
  /\ UNCHANGED <<now, dropped_frame, mode, prev_drop_count, loopVars, lockVars,
                 coreVars, core_woken, request, staleVars>>

(* wait_until()                                                            *)
Target ==
  /\ vo = "target" /\ now >= current_frame.pts
  /\ Goto("flip")
  /\ UNCHANGED <<ctxVars, now, dropped_frame, drawVars, loopVars, lockVars, coreVars,
                 core_woken, request, staleVars>>

(* flip_page() of the driver                                               *)
Flip ==
  /\ vo = "flip"
  /\ \/ FlipTaken /\ UNCHANGED drop_count
     \/ FlipMissed /\ drop_count' = drop_count + 1
  /\ Goto(IF mode = "frame" THEN "done" ELSE "top")
  /\ UNCHANGED <<now, dropped_frame, drawVars, loopVars, need_wakeup, hasframe,
                 hasframe_rendered, current_frame, frame_queued, current_frame_id, redrawVars,
                 wakeup_on_done, wakeup_pts, coreVars, core_woken, request, staleVars>>

(* The rest of render_frame()                                              *)
FrameDone ==
  /\ vo = "done"
  /\ dropped_frame' = (prev_drop_count < drop_count) /\ prev_drop_count' = 0
  /\ request_redraw' = (request_redraw /\ dropped_frame')
  /\ TellWhenDone(current_frame, frame_queued)
  /\ working' = (MoreVsyncs(current_frame) \/ (frame_queued # None /\ frame_queued.synced))
  /\ Goto("loop")
  /\ UNCHANGED <<ctxVars, now, mode, drawing, drawn, need_wakeup, queueVars, want_redraw,
                 send_reset, paused, wakeup_pts, coreVars, request, staleVars, vo_want_redraw, vo_paused,
                 wait_until>>

(* The rest of the loop of vo_thread(), up to do_redraw() or wait_vo().    *)
(* VOCTRL_RESET and VOCTRL_PAUSE set vo->want_redraw.                      *)
Loop ==
  /\ vo = "loop"
  /\ LET late == wakeup_pts # 0 /\ wakeup_pts <= now
         idle == IF working THEN now ELSE IF wakeup_pts > now THEN wakeup_pts ELSE Never
         asks == vo_want_redraw /\ ~want_redraw
         voctrl == send_reset \/ (paused /\ ~vo_paused)
         redraws == idle > now /\ request_redraw
     IN /\ wakeup_pts' = IF late THEN 0 ELSE wakeup_pts
        /\ want_redraw' = (want_redraw \/ vo_want_redraw)
        /\ core_woken' = (core_woken \/ late \/ asks)
        /\ vo_want_redraw' = voctrl
        /\ wait_until' = IF redraws THEN 0 ELSE IF voctrl THEN 0 ELSE idle
        /\ Goto(IF redraws THEN "redraw" ELSE "wait")
  /\ send_reset' = FALSE /\ vo_paused' = paused /\ working' = FALSE
  /\ UNCHANGED <<ctxVars, now, dropped_frame, drawVars, need_wakeup, queueVars,
                 request_redraw, paused, wakeup_on_done, coreVars, request, staleVars>>

(* do_redraw(), which draws in full what was dropped                       *)
DoRedraw ==
  /\ vo = "redraw"
  /\ request_redraw' = FALSE
  /\ drawing' = [id |-> IF current_frame = None THEN 0 ELSE current_frame.id,
                 redraw |-> ~dropped_frame \/ current_frame = None]
  /\ dropped_frame' = (dropped_frame /\ current_frame = None)
  /\ mode' = "redraw"
  /\ Goto("draw")
  /\ UNCHANGED <<ctxVars, now, prev_drop_count, drawn, loopVars, need_wakeup, queueVars,
                 want_redraw, send_reset, paused, wakeup_on_done, wakeup_pts, coreVars,
                 core_woken, request, staleVars>>

(* wait_vo()                                                               *)
Wakes ==
  /\ vo = "wait" /\ (need_wakeup \/ wait_until <= now)
  /\ need_wakeup' = FALSE /\ wait_until' = 0
  /\ Goto("top")
  /\ UNCHANGED <<ctxVars, now, dropped_frame, drawVars, working, vo_want_redraw, vo_paused,
                 queueVars, redrawVars, wakeup_on_done, wakeup_pts, coreVars, core_woken, request, staleVars>>

(* run_reconfig()                                                          *)
Reconfig ==
  /\ Serve("reconfig")
  /\ ForgetCurrent
  /\ ForgetFrames(None) /\ stale' = current_frame_id /\ stale_config' = current_frame_id
  /\ request' = "none"
  /\ UNCHANGED <<now, dropped_frame, vo, drawVars, loopVars, need_wakeup, redrawVars,
                 wakeup_on_done, wakeup_pts, coreVars, core_woken>>

(* run_control() of a screenshot: the vo thread waits for the render       *)
(* thread.                                                                 *)
Screenshot ==
  /\ Serve("screenshot")
  /\ RunOnRenderThread
  /\ Goto("control")
  /\ UNCHANGED <<now, dropped_frame, drawVars, loopVars, lockVars, coreVars, core_woken,
                 request, staleVars>>

ScreenshotDone ==
  /\ vo = "control" /\ ~dispatch
  /\ request' = "none"
  /\ Goto("top")
  /\ UNCHANGED <<ctxVars, now, dropped_frame, drawVars, loopVars, lockVars, coreVars,
                 core_woken, staleVars>>

(* terminate_vo(), the end of vo_thread(), uninit()                        *)
Terminate ==
  /\ Serve("terminate")
  /\ ForgetFrames(None)
  /\ UninitLocked
  /\ Goto("uninit")
  /\ UNCHANGED <<now, dropped_frame, drawVars, loopVars, need_wakeup, redrawVars,
                 wakeup_on_done, wakeup_pts, coreVars, core_woken, request, staleVars>>

Exit ==
  /\ vo = "uninit"
  /\ UninitUnlock
  /\ request' = "none"
  /\ Goto("dead")
  /\ UNCHANGED <<now, dropped_frame, drawVars, loopVars, lockVars, coreVars, core_woken,
                 staleVars>>

-----------------------------------------------------------------------------
VoThread ==
  \/ RenderNothing \/ RenderDrops \/ RenderFrame \/ Draw \/ Target \/ Flip \/ FrameDone
  \/ Loop \/ DoRedraw \/ Wakes \/ Reconfig \/ Screenshot \/ ScreenshotDone
  \/ Terminate \/ Exit

CoreReturns == QueueFrame \/ WaitFrameReturns \/ CallReturns \/ CoreWakes

CoreCalls ==
  \/ \E pts \in (Lead + 1)..(MaxTime - 1) : pts >= now /\ IsReady(Timed(pts))
  \/ \E n \in Vsyncs : IsReady(Synced(n))
  \/ \E r \in {"reconfig", "screenshot"} : Call(r)
  \/ WaitFrame \/ RequestWakeupOnDone \/ SeekReset \/ SetPaused \/ Redraw
  \/ CoreSleeps \/ CoreInput \/ VoDestroy

OfUser(A) == A /\ UNCHANGED <<now, dropped_frame, vo, drawVars, loopVars, lockVars, coreVars,
                              core_woken, request, staleVars>>

UserFrees ==
  /\ FreeContext /\ Spend("ends")
  /\ UNCHANGED <<now, dropped_frame, vo, drawVars, loopVars, lockVars, core, awaits, next, asked,
                 core_woken, request, staleVars>>

Next == Tick \/ VoThread \/ CoreReturns \/ CoreCalls \/ OfUser(RenderThread) \/ UserFrees

Spec == Init /\ [][Next]_vars

(* Threads run on, time passes, a dead video is destroyed, and the user    *)
(* answers the update callback.  Nobody has to render.                     *)
FairSpec ==
  /\ Spec /\ WF_vars(VoThread) /\ WF_vars(CoreReturns) /\ WF_vars(Tick)
  /\ SF_vars(killed /\ VoDestroy)
  /\ WF_vars(OfUser(RenderThreadRuns)) /\ SF_vars(OfUser(Update))

-----------------------------------------------------------------------------
(* After a seek no older frame is newly shown, frames are shown in their   *)
(* order, and after a reconfiguration the API user does not get to draw an *)
(* image of the old format.                                                *)
NothingStale ==
  [][/\ RenderFrame => drawing'.id > stale /\ drawing'.id >= drawn
     /\ render' = "rendering" /\ render = "idle" =>
          cur_frame' = 0 \/ cur_frame' > stale_config]_vars

(* "assert(!ctx->next_frame)" in draw_frame(), and the assertion of        *)
(* vo_queue_frame(): the vo thread that drew in between has not taken what *)
(* vo_is_ready_for_frame() promised.                                       *)
SlotsFree ==
  /\ vo = "draw" => next_frame = None
  /\ core = "ready" => frame_queued = None /\ Free(current_frame)

(* mpv_render_context_render() blocks only while the vo thread is about to *)
(* flip the very frame it took; so it never waits for a vo thread that     *)
(* itself waits for the render thread.                                     *)
RenderReleased == Blocked => vo \in {"target", "flip"} /\ next_frame = None

(* "Barrier - guarantee uninit() has left the lock region": the context is *)
(* freed only when the vo thread does not use it any more.                 *)
ContextAlive == render = "freed" => vo = "dead"

(* The render thread neither waits for a vo thread that may wait for it,   *)
(* nor frees the context under it.                                         *)
RenderSafe == RenderReleased /\ ContextAlive

(* "Always render when paused (it's typically the last frame for a         *)
(* while)": when the vo thread sleeps, the frame a paused player stays at  *)
(* was drawn, though it may have been dropped before the pause, and is     *)
(* what the API user draws, though they may have missed its time.          *)
PausedFrameDrawn ==
  paused /\ hasframe /\ vo = "wait" /\ ~need_wakeup /\ wait_until > now =>
    drawn = current_frame.id /\ cur_frame = drawn

(* "If the VO is not ready yet [...] the VO will call the wakeup callback  *)
(* once it's ready", and "issue a wakeup once" a frame is not displayed    *)
(* any more: a core that sleeps for it is woken.  (It sleeps on until it   *)
(* is, so that "not for ever" says the same as a leads-to.)                *)
CoreServed == []<>~(core = "asleep" /\ awaits # "nothing" /\ ~core_woken)

(* vo_wait_frame(), what is dispatched to the vo thread and on to the      *)
(* render thread, and mpv_render_context_free() return, even if the API    *)
(* user does not render: no thread stays in such a call for ever.          *)
CallsReturn ==
  /\ []<>(core \notin {"wait_frame", "call"})
  /\ []<>(render # "free")
=============================================================================
