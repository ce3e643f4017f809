---------------------------- MODULE RenderContext ----------------------------
(***************************************************************************)
(* The render API (video/out/vo_libmpv.c): the context that the vo thread  *)
(* and the render thread of the API user share.  The driver's callbacks    *)
(* are operators of the vo thread's steps (module VideoOut); the calls of  *)
(* the user are actions.  What ctx->lock protects is one step.             *)
(***************************************************************************)
EXTENDS Naturals

CONSTANT None

VARIABLES
  next_frame,          (* what draw_frame() was given, None when taken     *)
  cur_frame,           (* the frame that is rendered again, 0 if none      *)
  present_count,
  dispatch,            (* the vo thread waits in mp_dispatch_run()         *)
  in_use,              (* and vo: a VO uses the context                    *)
  locked,              (* ctx->lock is held between two steps              *)
  killed,              (* kill_video_async()                               *)
  render,              (* the render thread: idle, rendering, free,        *)
                       (* barrier, freed                                   *)
  wait_present_count

frameVars == <<next_frame, cur_frame, present_count>>
renderVars == <<render, wait_present_count>>
lifeVars == <<in_use, locked, killed>>
ctxVars == <<frameVars, renderVars, lifeVars, dispatch>>

CtxInit ==
  /\ next_frame = None /\ cur_frame = 0 /\ present_count = 0
  /\ dispatch = FALSE
  /\ in_use = TRUE /\ locked = FALSE /\ killed = FALSE
  /\ render = "idle" /\ wait_present_count = 0

-----------------------------------------------------------------------------
(* The driver, called by the vo thread.  A frame is [id, redraw]; id 0 is  *)
(* a frame without a picture.                                              *)

(* draw_frame() and update()                                               *)
DrawFrame(f) ==
  /\ next_frame' = f
  /\ UNCHANGED <<cur_frame, present_count, renderVars, lifeVars, dispatch>>

(* flip_page(): the frame was taken, mpv_render_context_render() is        *)
(* unblocked.  The wait for mpv_render_context_report_swap(), which 0.2 s  *)
(* end, is the time until the next step of the vo thread.                  *)
FlipTaken ==
  /\ next_frame = None
  /\ present_count' = present_count + 1
  /\ UNCHANGED <<next_frame, cur_frame, renderVars, lifeVars,
                 dispatch>>

(* The time is over, the API user did not take the frame.                  *)
FlipMissed ==
  /\ next_frame # None
  /\ cur_frame' = next_frame.id /\ next_frame' = None
  /\ present_count' = present_count + 2
  /\ UNCHANGED <<renderVars, lifeVars, dispatch>>

(* forget_frames(ctx, true) in reconfig()                                  *)
ForgetCurrent ==
  /\ cur_frame' = 0
  /\ UNCHANGED <<next_frame, present_count, renderVars, lifeVars, dispatch>>

(* VOCTRL_SCREENSHOT is run on the render thread.                          *)
RunOnRenderThread ==
  /\ dispatch' = TRUE
  /\ UNCHANGED <<frameVars, renderVars, lifeVars>>

(* uninit() until in_use is reset, ...                                     *)
UninitLocked ==
  /\ cur_frame' = 0 /\ in_use' = FALSE /\ locked' = TRUE
  /\ UNCHANGED <<next_frame, present_count, renderVars, killed,
                 dispatch>>

(* ... then ctx->lock is released, the last that uninit() does with ctx.   *)
UninitUnlock == locked' = FALSE /\ UNCHANGED <<frameVars, renderVars, in_use, killed, dispatch>>

-----------------------------------------------------------------------------
(* The API user                                                            *)

(* Mutant of Render: the last frame is waited for again.                   *)
RenderAgain ==
  /\ render = "idle" /\ ~locked
  /\ next_frame' = None
  /\ cur_frame' = IF next_frame # None THEN next_frame.id ELSE cur_frame
  /\ wait_present_count' = present_count + 1
  /\ render' = "rendering"
  /\ UNCHANGED <<present_count, lifeVars, dispatch>>

(* mpv_render_context_render(): a frame is taken, the lock released.  The  *)
(* user may have asked not to wait (BLOCK_FOR_TARGET_TIME).                *)
Render ==
  /\ render = "idle" /\ ~locked
  /\ next_frame' = None
  /\ cur_frame' = IF next_frame # None THEN next_frame.id ELSE cur_frame
  /\ wait_present_count' \in
       {0, present_count + (IF next_frame # None /\ ~next_frame.redraw THEN 1 ELSE 0)}
  /\ render' = "rendering"
  /\ UNCHANGED <<present_count, lifeVars, dispatch>>

(* It returns; every change of present_count is signalled.                 *)
RenderReturns ==
  /\ render = "rendering" /\ ~locked /\ wait_present_count <= present_count
  /\ render' = "idle" /\ wait_present_count' = 0
  /\ UNCHANGED <<frameVars, lifeVars, dispatch>>

(* mpv_render_context_update(), which the user calls after the update      *)
(* callback: what was dispatched is run.                                   *)
Update ==
  /\ render = "idle" /\ dispatch
  /\ dispatch' = FALSE
  /\ UNCHANGED <<frameVars, renderVars, lifeVars>>

(* mpv_render_context_free() has the video killed, ...                     *)
FreeContext ==
  /\ render = "idle"
  /\ killed' = in_use /\ render' = "free"
  /\ UNCHANGED <<frameVars, in_use, locked, dispatch, wait_present_count>>

(* ... runs what is dispatched, ...                                        *)
FreeServes ==
  /\ render = "free" /\ dispatch
  /\ dispatch' = FALSE
  /\ UNCHANGED <<frameVars, renderVars, lifeVars>>

(* ... until the VO is gone,                                               *)
FreeUnused ==
  /\ render = "free" /\ ~in_use
  /\ render' = "barrier"
  /\ UNCHANGED <<frameVars, lifeVars, dispatch, wait_present_count>>

(* ... and has left the lock.                                              *)
FreeDone ==
  /\ render = "barrier" /\ ~locked
  /\ render' = "freed"
  /\ UNCHANGED <<frameVars, lifeVars, dispatch, wait_present_count>>

(* What the user must do for the API: finish calls, and answer the update  *)
(* callback.                                                               *)
RenderThreadRuns == RenderReturns \/ FreeServes \/ FreeUnused \/ FreeDone
RenderThread == RenderThreadRuns \/ Render \/ Update

(* A frame without a taker blocks nobody: who waits has taken the frame.   *)
Blocked == render = "rendering" /\ wait_present_count > present_count
=============================================================================
