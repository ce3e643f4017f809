--------------------------- MODULE VideoOutProofs ----------------------------
(***************************************************************************)
(* For any frames, clock and budgets: the vo thread and the render thread  *)
(* do not wait for each other, neither uses what the other has freed or    *)
(* taken, nothing older than a seek or a reconfiguration is shown, and the *)
(* frame of a paused player is drawn.                                      *)
(***************************************************************************)
EXTENDS VideoOut, TLAPS

FrameAsked == [synced : BOOLEAN, vsyncs : Nat, pts : Nat, end : Nat]

(* next_frame is set only between draw_frame() and the end of flip_page(); *)
(* who waits for present_count has taken the frame that is to be flipped.  *)
PresentInv ==
  /\ present_count \in Nat /\ wait_present_count \in Nat
  /\ next_frame # None => vo \in {"target", "flip"}
  /\ Blocked => /\ vo \in {"target", "flip"} /\ next_frame = None
                /\ wait_present_count = present_count + 1

(* in_use and ctx->lock, seen from the end of the vo thread                *)
ContextInv ==
  /\ in_use <=> vo \notin {"uninit", "dead"}
  /\ locked <=> vo = "uninit"
  /\ render = "barrier" => vo \in {"uninit", "dead"}
  /\ render = "freed" => vo = "dead"

SlotInv ==
  /\ now \in Nat /\ current_frame_id \in Nat
  /\ current_frame \in Frame \cup {None} /\ frame_queued \in Frame \cup {None}
  /\ core = "ready" => next \in FrameAsked /\ frame_queued = None /\ Free(current_frame)

LEMMA InitInv == Init => PresentInv /\ ContextInv /\ SlotInv
  BY TimeAssumption DEF Init, CtxInit, PresentInv, ContextInv, SlotInv, Blocked

(* What each thread leaves alone                                           *)
LEMMA CoreKeeps ==
  ASSUME CoreReturns \/ CoreCalls
  PROVE  UNCHANGED <<ctxVars, now, vo>>
  <1>1. CASE CoreReturns
    BY <1>1 DEF CoreReturns, QueueFrame, WaitFrameReturns, CallReturns, CoreWakes, voThreadVars
  <1>2. ASSUME NEW pts, IsReady(Timed(pts)) PROVE UNCHANGED <<ctxVars, now, vo>>
    BY <1>2 DEF IsReady, voThreadVars
  <1>3. ASSUME NEW n, IsReady(Synced(n)) PROVE UNCHANGED <<ctxVars, now, vo>>
    BY <1>3 DEF IsReady, voThreadVars
  <1>4. ASSUME NEW r, Call(r) PROVE UNCHANGED <<ctxVars, now, vo>>
    BY <1>4 DEF Call, voThreadVars
  <1>5. CASE WaitFrame \/ RequestWakeupOnDone \/ SeekReset \/ SetPaused
    BY <1>5 DEF WaitFrame, RequestWakeupOnDone, SeekReset, SetPaused, voThreadVars
  <1>6. CASE Redraw \/ CoreSleeps \/ CoreInput \/ VoDestroy
    BY <1>6 DEF Redraw, CoreSleeps, CoreInput, VoDestroy, voThreadVars
  <1> QED BY <1>1, <1>2, <1>3, <1>4, <1>5, <1>6 DEF CoreCalls

(* The steps of the vo thread that do not touch the context, and those     *)
(* that do                                                                 *)
Inner ==
  \/ RenderNothing \/ RenderDrops \/ RenderFrame \/ Target \/ FrameDone \/ Loop \/ DoRedraw
  \/ Wakes \/ ScreenshotDone

LEMMA InnerKeeps ==
  ASSUME Inner
  PROVE  /\ UNCHANGED <<ctxVars, now>>
         /\ \/ vo = "target" /\ vo' = "flip"
            \/ /\ vo \in {"top", "done", "loop", "redraw", "wait", "control"}
               /\ vo' \in {"top", "draw", "loop", "redraw", "wait"}
  BY DEF Inner, RenderNothing, RenderDrops, RenderFrame, Target, FrameDone, Loop, DoRedraw,
         Wakes, ScreenshotDone, Serve, Goto

LEMMA StepPresent == PresentInv /\ ContextInv /\ [Next]_vars => PresentInv' /\ ContextInv'
  <1> SUFFICES ASSUME PresentInv, ContextInv, [Next]_vars PROVE PresentInv' /\ ContextInv'
    OBVIOUS
  <1> USE DEF PresentInv, ContextInv, Blocked
  <1>1. ASSUME UNCHANGED <<ctxVars, vo>> PROVE PresentInv' /\ ContextInv'
    BY <1>1 DEF ctxVars, frameVars, renderVars, lifeVars
  <1>2. CASE Inner
    BY <1>2, InnerKeeps DEF ctxVars, frameVars, renderVars, lifeVars
  <1>3. CASE Draw
    <2>1. /\ vo = "draw" /\ vo' \in {"target", "flip"}
          /\ UNCHANGED <<present_count, renderVars, lifeVars>>
      BY <1>3 DEF Draw, DrawFrame, Goto
    <2> QED BY <2>1 DEF renderVars, lifeVars
  <1>4. CASE Flip
    <2>1. /\ vo = "flip" /\ vo' \in {"done", "top"}
          /\ UNCHANGED <<renderVars, lifeVars>> /\ next_frame' = None
      BY <1>4 DEF Flip, FlipTaken, FlipMissed, Goto
    <2>2. CASE FlipTaken
      BY <2>1, <2>2 DEF FlipTaken, renderVars, lifeVars
    <2>3. CASE FlipMissed
      BY <2>1, <2>3 DEF FlipMissed, renderVars, lifeVars
    <2> QED BY <1>4, <2>2, <2>3 DEF Flip
  <1>5. CASE Reconfig
    BY <1>5 DEF Reconfig, ForgetCurrent, renderVars, lifeVars
  <1>6. CASE Screenshot
    BY <1>6 DEF Screenshot, Serve, Goto, RunOnRenderThread, frameVars, renderVars, lifeVars
  <1>7. CASE Terminate
    BY <1>7 DEF Terminate, Serve, Goto, UninitLocked, renderVars
  <1>8. CASE Exit
    BY <1>8 DEF Exit, Goto, UninitUnlock, frameVars, renderVars
  <1>9. CASE OfUser(Render)
    BY <1>9 DEF OfUser, Render, lifeVars
  <1>10. CASE OfUser(RenderReturns)
    BY <1>10 DEF OfUser, RenderReturns, frameVars, lifeVars
  <1>11. CASE OfUser(Update) \/ OfUser(FreeServes)
    BY <1>11 DEF OfUser, Update, FreeServes, frameVars, renderVars, lifeVars
  <1>12. CASE OfUser(FreeUnused) \/ OfUser(FreeDone)
    BY <1>12 DEF OfUser, FreeUnused, FreeDone, frameVars, lifeVars
  <1>13. CASE UserFrees
    BY <1>13 DEF UserFrees, FreeContext, frameVars
  <1>14. CASE Tick
    BY <1>1, <1>14 DEF Tick
  <1>15. CASE CoreReturns \/ CoreCalls
    BY <1>1, <1>15, CoreKeeps
  <1>16. CASE UNCHANGED vars
    BY <1>1, <1>16 DEF vars, voThreadVars
  <1> QED
    <2>1. CASE VoThread
      BY <2>1, <1>2, <1>3, <1>4, <1>5, <1>6, <1>7, <1>8 DEF VoThread, Inner
    <2>2. CASE OfUser(RenderThread)
      BY <2>2, <1>9, <1>10, <1>11, <1>12 DEF OfUser, RenderThread, RenderThreadRuns
    <2> QED BY <2>1, <2>2, <1>13, <1>14, <1>15, <1>16 DEF Next

(* What the vo thread does with the two frames                             *)
Slots == <<current_frame_id, current_frame, frame_queued>>

LEMMA ForgetKeeps ==
  ASSUME SlotInv, NEW f \in {None, current_frame}, ForgetFrames(f)
  PROVE  /\ current_frame_id' \in Nat /\ current_frame' \in Frame \cup {None}
         /\ frame_queued' = None /\ Free(current_frame')
  <1>1. CASE f = None
    BY <1>1 DEF SlotInv, ForgetFrames, Free
  <1>2. CASE f # None
    <2>1. f \in Frame /\ current_frame' = [f EXCEPT !.vsyncs = 0, !.synced = FALSE]
      BY <1>2 DEF SlotInv, ForgetFrames
    <2>2. current_frame' \in Frame /\ current_frame'.vsyncs = 0
      BY <2>1 DEF Frame
    <2> QED BY <2>2 DEF SlotInv, ForgetFrames, Free
  <1> QED BY <1>1, <1>2

(* A frame is only taken when the core was not promised a place.           *)
LEMMA RenderKeeps ==
  ASSUME SlotInv, RenderDrops \/ RenderFrame
  PROVE  /\ core # "ready" /\ UNCHANGED <<core, now, current_frame_id>>
         /\ current_frame' \in Frame /\ frame_queued' = None
  <1>1. ~NothingToRender /\ current_frame' = Shown(ToRender) /\ frame_queued' = None
        /\ UNCHANGED <<core, now, current_frame_id>>
    BY DEF RenderDrops, RenderFrame, coreVars
  <1>2. ToRender \in Frame
    BY <1>1 DEF SlotInv, NothingToRender, MoreVsyncs, ToRender
  <1>3. Shown(ToRender) \in Frame
    BY <1>2 DEF Shown, Frame
  <1>4. ASSUME frame_queued = None, Free(current_frame) PROVE NothingToRender
    <2>1. CASE current_frame = None
      BY <1>4, <2>1 DEF NothingToRender, MoreVsyncs
    <2>2. CASE current_frame \in Frame /\ current_frame.vsyncs < 1
      BY <1>4, <2>2 DEF NothingToRender, MoreVsyncs, Frame
    <2> QED BY <1>4, <2>1, <2>2 DEF SlotInv, Free
  <1> QED BY <1>1, <1>3, <1>4 DEF SlotInv

(* The steps of the core that leave the frames alone                       *)
LEMMA IsReadyInv ==
  ASSUME SlotInv, NEW f \in FrameAsked, IsReady(f)
  PROVE  SlotInv'
  <1>1. UNCHANGED <<now, Slots>>
    BY DEF IsReady, voThreadVars, queueVars, Slots
  <1>2. core = "run" /\ (core' = "ready" =>
          next' = f /\ frame_queued = None /\ Free(current_frame))
    BY DEF IsReady, WriteVideo
  <1> QED BY <1>1, <1>2 DEF SlotInv, Slots, Free

LEMMA StepSlots == SlotInv /\ [Next]_vars => SlotInv'
  <1> SUFFICES ASSUME SlotInv, [Next]_vars PROVE SlotInv'
    OBVIOUS
  <1>1. ASSUME UNCHANGED <<now, Slots>>, core' = "ready" => core = "ready" /\ next' = next
        PROVE  SlotInv'
    BY <1>1 DEF SlotInv, Slots, Free
  <1>2. CASE VoThread
    <2>1. CASE Reconfig \/ Terminate
      <3>1. ForgetFrames(None) /\ UNCHANGED <<now, core, next>>
        BY <2>1 DEF Reconfig, Terminate, coreVars
      <3> QED BY <3>1, ForgetKeeps DEF SlotInv
    <2>2. CASE RenderDrops \/ RenderFrame
      BY <2>2, RenderKeeps DEF SlotInv
    <2>3. CASE Inner /\ ~(RenderDrops \/ RenderFrame)
      <3>1. UNCHANGED <<now, Slots, core, next>>
        BY <2>3 DEF Inner, RenderNothing, Target, FrameDone, Loop, DoRedraw, Wakes,
             ScreenshotDone, lockVars, queueVars, coreVars, Slots
      <3> QED BY <3>1, <1>1
    <2>4. CASE Draw \/ Flip \/ Screenshot \/ Exit
      <3>1. UNCHANGED <<now, Slots, core, next>>
        BY <2>4 DEF Draw, Flip, Screenshot, Exit, lockVars, queueVars, coreVars, Slots
      <3> QED BY <3>1, <1>1
    <2> QED BY <1>2, <2>1, <2>2, <2>3, <2>4 DEF VoThread, Inner
  <1>3. CASE QueueFrame
    <2>1. /\ core' = "run" /\ next \in FrameAsked
          /\ current_frame_id' = current_frame_id + 1
          /\ frame_queued' = [id |-> current_frame_id', synced |-> next.synced,
               vsyncs |-> next.vsyncs, pts |-> next.pts, end |-> next.end]
          /\ UNCHANGED <<now, current_frame>>
      BY <1>3 DEF QueueFrame, voThreadVars, SlotInv
    <2> QED BY <2>1 DEF SlotInv, Frame, FrameAsked
  <1>4. ASSUME NEW pts \in now..(MaxTime - 1), IsReady(Timed(pts)) PROVE SlotInv'
    <2>1. Timed(pts) \in FrameAsked
      BY TimeAssumption DEF SlotInv, Timed, FrameAsked
    <2> QED BY <1>4, <2>1, IsReadyInv
  <1>5. ASSUME NEW n \in Vsyncs, IsReady(Synced(n)) PROVE SlotInv'
    <2>1. Synced(n) \in FrameAsked
      BY VsyncsAssumption DEF Synced, FrameAsked
    <2> QED BY <1>5, <2>1, IsReadyInv
  <1>6. CASE SeekReset
    <2>1. /\ ForgetFrames(current_frame) /\ core' = "run"
          /\ UNCHANGED now
      BY <1>6 DEF SeekReset, voThreadVars
    <2> QED BY <2>1, ForgetKeeps DEF SlotInv
  <1>7. ASSUME NEW r, Call(r) PROVE SlotInv'
    <2>1. UNCHANGED <<now, Slots>> /\ core' = "call"
      BY <1>7 DEF Call, voThreadVars, queueVars, Slots
    <2> QED BY <2>1, <1>1
  <1>8. CASE WaitFrameReturns \/ CallReturns \/ CoreWakes \/ WaitFrame \/ RequestWakeupOnDone
    <2>1. UNCHANGED <<now, Slots>> /\ core' \in {"run", "gone", "wait_frame", "asleep"}
      BY <1>8 DEF WaitFrameReturns, CallReturns, CoreWakes, WaitFrame, RequestWakeupOnDone,
           voThreadVars, lockVars, queueVars, Slots
    <2> QED BY <2>1, <1>1
  <1>9. CASE SetPaused \/ Redraw \/ CoreSleeps \/ CoreInput \/ VoDestroy
    <2>1. /\ UNCHANGED <<now, Slots>>
          /\ (UNCHANGED core /\ core = "run") \/ core' \in {"asleep", "run", "call"}
      BY <1>9 DEF SetPaused, Redraw, CoreSleeps, CoreInput, VoDestroy, voThreadVars, lockVars,
           queueVars, Slots
    <2> QED BY <2>1, <1>1
  <1>10. CASE OfUser(RenderThread) \/ UserFrees
    BY <1>1, <1>10 DEF OfUser, UserFrees, lockVars, queueVars, coreVars, Slots
  <1>11. CASE Tick
    BY <1>11 DEF Tick, SlotInv, lockVars, queueVars, coreVars, Free
  <1>12. CASE UNCHANGED vars
    BY <1>1, <1>12 DEF vars, voThreadVars, lockVars, queueVars, coreVars, Slots
  <1> QED
    BY <1>2, <1>3, <1>4, <1>5, <1>6, <1>7, <1>8, <1>9, <1>10, <1>11, <1>12
       DEF Next, CoreReturns, CoreCalls

LEMMA Invariance == Spec => [](PresentInv /\ ContextInv /\ SlotInv)
  <1>1. PresentInv /\ ContextInv /\ SlotInv /\ [Next]_vars
          => (PresentInv /\ ContextInv /\ SlotInv)'
    BY StepPresent, StepSlots
  <1> QED BY InitInv, <1>1, PTL DEF Spec

-----------------------------------------------------------------------------
(* mpv_render_context_render() waits only while the vo thread is about to  *)
(* flip the frame that was taken.                                          *)
LEMMA RenderIsReleased == Spec => []RenderReleased
  <1>1. PresentInv => RenderReleased
    BY DEF PresentInv, RenderReleased
  <1> QED BY Invariance, <1>1, PTL

(* mpv_render_context_free() frees the context when the vo thread has left *)
(* the last function that uses it.                                         *)
LEMMA ContextStaysAlive == Spec => []ContextAlive
  <1>1. ContextInv => ContextAlive
    BY DEF ContextInv, ContextAlive
  <1> QED BY Invariance, <1>1, PTL

(* The render thread neither waits for a vo thread that may wait for it    *)
(* nor frees the context under it, whoever ends first and however frames   *)
(* are taken, missed or given up.                                          *)
THEOREM RenderIsSafe == Spec => []RenderSafe
  BY RenderIsReleased, ContextStaysAlive, PTL DEF RenderSafe

(* draw_frame() never finds a frame in its slot, nor does vo_queue_frame() *)
(* after vo_is_ready_for_frame(), whatever happened in between.            *)
THEOREM SlotsStayFree == Spec => []SlotsFree
  <1>1. PresentInv /\ SlotInv => SlotsFree
    BY DEF PresentInv, SlotInv, SlotsFree
  <1> QED BY Invariance, <1>1, PTL

-----------------------------------------------------------------------------
(* Frames are drawn                                                        *)

(* The frame that is on the screen, or should be, was not drawn.           *)
Undrawn == /\ hasframe /\ frame_queued = None /\ vo # "draw"
           /\ drawn # current_frame.id

(* A frame that waits in the queue keeps the vo thread awake; one that was *)
(* dropped is known as such, and drawn again on behalf of a paused player; *)
(* a vo thread that owes a redraw does not sleep.                          *)
DrawnInv ==
  /\ now <= MaxTime
  /\ frame_queued # None => need_wakeup \/ vo \in {"top", "control"}
  /\ hasframe /\ frame_queued = None => current_frame # None
  /\ vo = "draw" /\ current_frame # None => drawing.id = current_frame.id /\ drawing.id # 0
  /\ vo \in {"target", "done"} => mode = "frame"
  /\ vo \in {"draw", "target", "flip", "done"} /\ mode = "frame" => ~dropped_frame
  /\ Undrawn => dropped_frame /\ (paused => request_redraw)
  /\ vo = "wait" /\ request_redraw /\ ~need_wakeup => wait_until \in 0..now

drawnVars == <<now, frame_queued, vo, mode, dropped_frame, hasframe, current_frame, drawing,
               drawn, paused, request_redraw, wait_until>>

LEMMA SameDrawn ==
  ASSUME DrawnInv, UNCHANGED drawnVars, need_wakeup => need_wakeup'
  PROVE  DrawnInv'
  BY DEF DrawnInv, drawnVars, Undrawn

(* The steps of the core that only ask, wait, call or sleep                *)
LEMMA CoreAsksDrawn ==
  ASSUME DrawnInv,
         \/ \E f : IsReady(f)
         \/ WaitFrame \/ WaitFrameReturns \/ RequestWakeupOnDone
         \/ (\E r : Call(r)) \/ CallReturns \/ VoDestroy
         \/ CoreSleeps \/ CoreWakes \/ CoreInput
  PROVE  DrawnInv'
  <1>1. ASSUME NEW f, IsReady(f) PROVE DrawnInv'
    <2>1. UNCHANGED drawnVars
      BY <1>1 DEF IsReady, drawnVars, voThreadVars, queueVars, redrawVars, drawVars, loopVars
    <2>2. need_wakeup => need_wakeup'
      BY <1>1 DEF IsReady, SetTimer
    <2> QED BY <2>1, <2>2, SameDrawn
  <1>2. CASE WaitFrame \/ WaitFrameReturns \/ RequestWakeupOnDone
    <2>1. UNCHANGED <<drawnVars, need_wakeup>>
      BY <1>2 DEF WaitFrame, WaitFrameReturns, RequestWakeupOnDone, drawnVars, voThreadVars,
         lockVars, queueVars, redrawVars, drawVars, loopVars
    <2> QED BY <2>1, SameDrawn
  <1>3. ASSUME NEW r, Call(r) PROVE DrawnInv'
    <2>1. UNCHANGED drawnVars /\ need_wakeup'
      BY <1>3 DEF Call, Dispatch, drawnVars, voThreadVars, queueVars, redrawVars, drawVars,
         loopVars
    <2> QED BY <2>1, SameDrawn
  <1>4. CASE VoDestroy
    <2>1. UNCHANGED drawnVars /\ need_wakeup'
      BY <1>4 DEF VoDestroy, Dispatch, drawnVars, voThreadVars, queueVars, redrawVars,
         drawVars, loopVars
    <2> QED BY <2>1, SameDrawn
  <1>5. CASE CallReturns \/ CoreSleeps \/ CoreWakes \/ CoreInput
    <2>1. UNCHANGED <<drawnVars, need_wakeup>>
      BY <1>5 DEF CallReturns, CoreSleeps, CoreWakes, CoreInput, drawnVars, voThreadVars,
         lockVars, queueVars, redrawVars, drawVars, loopVars
    <2> QED BY <2>1, SameDrawn
  <1> QED BY <1>1, <1>2, <1>3, <1>4, <1>5

(* A frame is queued, forgotten, or its player is paused; every time the   *)
(* vo thread is woken.                                                     *)
LEMMA CoreActsDrawn ==
  ASSUME DrawnInv, SlotInv, QueueFrame \/ SeekReset \/ SetPaused \/ Redraw
  PROVE  DrawnInv'
  <1> USE DEF voThreadVars, drawVars, loopVars
  <1>1. CASE QueueFrame
    <2>1. frame_queued' \in Frame
      BY <1>1 DEF QueueFrame, SlotInv, Frame, FrameAsked
    <2>2. frame_queued' # None
      BY <2>1, NoneAssumption
    <2>3. need_wakeup' /\ UNCHANGED <<now, vo, mode, dropped_frame, current_frame, drawing>>
      BY <1>1 DEF QueueFrame
    <2> QED BY <2>2, <2>3 DEF DrawnInv, Undrawn
  <1>2. CASE SeekReset
    <2>1. /\ need_wakeup' /\ ~hasframe' /\ frame_queued' = None
          /\ UNCHANGED <<now, vo, mode, dropped_frame, drawing>>
      BY <1>2 DEF SeekReset, ForgetFrames
    <2>2. current_frame' # None => current_frame # None /\ current_frame'.id = current_frame.id
      <3>1. CASE current_frame = None
        BY <1>2, <3>1 DEF SeekReset, ForgetFrames
      <3>2. CASE current_frame \in Frame
        BY <1>2, <3>2, NoneAssumption DEF SeekReset, ForgetFrames, Frame
      <3> QED BY <3>1, <3>2 DEF SlotInv
    <2> QED BY <2>1, <2>2 DEF DrawnInv, Undrawn
  <1>3. CASE SetPaused
    <2>1. /\ need_wakeup' /\ (request_redraw \/ (paused' /\ dropped_frame)) = request_redraw'
          /\ UNCHANGED <<now, vo, mode, dropped_frame, drawing, drawn, hasframe, frame_queued,
                         current_frame>>
      BY <1>3 DEF SetPaused, queueVars
    <2> QED BY <2>1 DEF DrawnInv, Undrawn
  <1>4. CASE Redraw
    <2>1. /\ need_wakeup' /\ request_redraw'
          /\ UNCHANGED <<now, vo, mode, dropped_frame, drawing, drawn, hasframe, frame_queued,
                         current_frame>>
      BY <1>4 DEF Redraw, queueVars
    <2> QED BY <2>1 DEF DrawnInv, Undrawn
  <1> QED BY <1>1, <1>2, <1>3, <1>4

(* What is shown is a frame with an id.                                    *)
IdsInv == /\ frame_queued # None => frame_queued.id # 0
          /\ current_frame # None => current_frame.id # 0

LEMMA SameId ==
  ASSUME NEW f \in Frame
  PROVE  /\ Shown(f) \in Frame /\ Shown(f).id = f.id /\ Shown(f).synced = f.synced
         /\ [f EXCEPT !.vsyncs = 0, !.synced = FALSE] \in Frame
         /\ [f EXCEPT !.vsyncs = 0, !.synced = FALSE].id = f.id
         /\ ~[f EXCEPT !.vsyncs = 0, !.synced = FALSE].synced
  <1>1. f.vsyncs \in Nat /\ f.synced \in BOOLEAN
    BY DEF Frame
  <1>2. \A n \in Nat : /\ [f EXCEPT !.vsyncs = n] \in Frame
                       /\ [f EXCEPT !.vsyncs = n].id = f.id
                       /\ [f EXCEPT !.vsyncs = n].synced = f.synced
    BY DEF Frame
  <1>3. Shown(f) = [f EXCEPT !.vsyncs = IF f.vsyncs > 0 THEN f.vsyncs - 1 ELSE 0]
    BY DEF Shown, Frame
  <1>4. (IF f.vsyncs > 0 THEN f.vsyncs - 1 ELSE 0) \in Nat
    BY <1>1
  <1>5. Shown(f) \in Frame /\ Shown(f).id = f.id /\ Shown(f).synced = f.synced
    BY <1>2, <1>3, <1>4
  <1>6. /\ [f EXCEPT !.vsyncs = 0, !.synced = FALSE] \in Frame
        /\ [f EXCEPT !.vsyncs = 0, !.synced = FALSE].id = f.id
        /\ ~[f EXCEPT !.vsyncs = 0, !.synced = FALSE].synced
    BY DEF Frame
  <1> QED BY <1>5, <1>6

(* render_frame(): a frame is dropped, or drawn.                           *)
LEMMA RenderDrawn ==
  ASSUME DrawnInv, SlotInv, IdsInv, RenderDrops \/ RenderFrame
  PROVE  DrawnInv'
  <1> USE DEF DrawnInv, Undrawn, redrawVars, drawVars, coreVars, loopVars
  <1>1. /\ current_frame' \in Frame /\ current_frame' # None /\ frame_queued' = None
        /\ current_frame' = Shown(ToRender)
    BY RenderKeeps, NoneAssumption DEF RenderDrops, RenderFrame
  <1>2. ToRender \in Frame /\ ToRender.id # 0
    <2>1. ~NothingToRender
      BY DEF RenderDrops, RenderFrame
    <2> QED BY <2>1 DEF SlotInv, NothingToRender, MoreVsyncs, ToRender, IdsInv
  <1>3. current_frame'.id = ToRender.id
    BY <1>1, <1>2, SameId
  <1>4. CASE RenderDrops
    <2>1. /\ ~paused /\ dropped_frame' /\ vo' = "loop"
          /\ UNCHANGED <<now, mode, paused>>
      BY <1>4 DEF RenderDrops, Dropped, Goto
    <2> QED BY <1>1, <2>1
  <1>5. CASE RenderFrame
    <2>1. /\ ~dropped_frame' /\ vo' = "draw" /\ mode' = "frame" /\ drawing'.id = ToRender.id
          /\ UNCHANGED <<now, paused>>
      BY <1>5 DEF RenderFrame, Goto
    <2> QED BY <1>1, <1>2, <1>3, <2>1
  <1> QED BY <1>4, <1>5

(* draw_frame() to the end of render_frame() or do_redraw()                *)
LEMMA PresentDrawn ==
  ASSUME DrawnInv, SlotInv, IdsInv, Draw \/ Target \/ Flip \/ FrameDone \/ DoRedraw
  PROVE  DrawnInv'
  <1> USE DEF DrawnInv, Undrawn, lockVars, queueVars, redrawVars, loopVars, Goto
  <1>1. CASE Draw
    <2>1. /\ vo = "draw" /\ vo' \in {"target", "flip"} /\ (vo' = "target" <=> mode = "frame")
          /\ drawn' = IF drawing.id = 0 THEN drawn ELSE drawing.id
          /\ UNCHANGED <<now, dropped_frame, mode, need_wakeup, hasframe, current_frame,
                         frame_queued, request_redraw, paused>>
      BY <1>1 DEF Draw
    <2> QED BY <2>1
  <1>2. CASE Target
    BY <1>2 DEF Target, drawVars
  <1>3. CASE Flip
    <2>1. /\ vo = "flip" /\ vo' = IF mode = "frame" THEN "done" ELSE "top"
          /\ UNCHANGED <<now, dropped_frame, mode, drawn, need_wakeup, hasframe, current_frame,
                         frame_queued, request_redraw, paused>>
      BY <1>3 DEF Flip, drawVars
    <2> QED BY <2>1
  <1>4. CASE FrameDone
    <2>1. /\ vo = "done" /\ vo' = "loop" /\ ~dropped_frame /\ ~Undrawn
          /\ UNCHANGED <<now, mode, drawn, need_wakeup, hasframe, current_frame, frame_queued,
                         paused>>
      BY <1>4 DEF FrameDone
    <2> QED BY <2>1
  <1>5. CASE DoRedraw
    <2>1. /\ vo = "redraw" /\ vo' = "draw" /\ mode' = "redraw"
          /\ drawing'.id = IF current_frame = None THEN 0 ELSE current_frame.id
          /\ UNCHANGED <<now, need_wakeup, hasframe, current_frame, frame_queued>>
      BY <1>5 DEF DoRedraw
    <2> QED BY <2>1 DEF IdsInv
  <1> QED BY <1>1, <1>2, <1>3, <1>4, <1>5

(* The other steps of the vo thread                                        *)
LEMMA LoopDrawn ==
  ASSUME DrawnInv, now \in Nat,
         \/ RenderNothing \/ Loop \/ Wakes \/ Reconfig \/ Screenshot \/ ScreenshotDone
         \/ Terminate \/ Exit
  PROVE  DrawnInv'
  <1> USE TimeAssumption
          DEF DrawnInv, Undrawn, lockVars, queueVars, redrawVars, drawVars, loopVars, Goto, Serve
  <1>1. CASE RenderNothing
    BY <1>1 DEF RenderNothing, NothingToRender
  <1>2. CASE Loop
    <2>1. /\ vo = "loop" /\ vo' \in {"redraw", "wait"}
          /\ UNCHANGED <<now, frame_queued, mode, dropped_frame, hasframe, current_frame, drawn,
                         paused, request_redraw, need_wakeup>>
      BY <1>2 DEF Loop
    <2>2. vo' = "wait" /\ request_redraw => wait_until' \in 0..now
      BY <1>2, TimeAssumption DEF Loop, Never
    <2> QED BY <2>1, <2>2
  <1>3. CASE Wakes
    BY <1>3 DEF Wakes
  <1>4. CASE Reconfig \/ Terminate
    <2>1. /\ vo = "top" /\ ~hasframe' /\ frame_queued' = None /\ vo' \in {"top", "uninit"}
          /\ UNCHANGED <<now, mode, dropped_frame>>
      BY <1>4 DEF Reconfig, Terminate, ForgetFrames
    <2> QED BY <2>1
  <1>5. CASE Screenshot \/ ScreenshotDone
    BY <1>5 DEF Screenshot, ScreenshotDone
  <1>6. CASE Exit
    BY <1>6 DEF Exit
  <1> QED BY <1>1, <1>2, <1>3, <1>4, <1>5, <1>6

-----------------------------------------------------------------------------
(* Frames are not stale                                                    *)

(* What is queued is newer than the last seek, the last reconfiguration    *)
(* and all that was drawn; what is redrawn, newer than the reconfiguration.*)
StaleInv ==
  /\ {stale, stale_config, drawn, cur_frame} \subseteq 0..current_frame_id
  /\ frame_queued # None =>
       /\ frame_queued.id > stale /\ frame_queued.id > stale_config
       /\ frame_queued.id > drawn /\ frame_queued.id <= current_frame_id
  /\ current_frame # None =>
       /\ current_frame.id > stale_config /\ current_frame.id >= drawn
       /\ current_frame.id \in 1..current_frame_id
       /\ current_frame.synced => current_frame.id > stale
       /\ frame_queued # None => current_frame.id < frame_queued.id
  /\ vo = "draw" => drawing.id = IF current_frame = None THEN 0 ELSE current_frame.id
  /\ cur_frame = 0 \/ cur_frame > stale_config
  /\ next_frame # None =>
       next_frame.id = 0 \/ next_frame.id \in (stale_config + 1)..current_frame_id

staleInvVars == <<current_frame, frame_queued, current_frame_id, stale, stale_config, drawn,
                  drawing, cur_frame, next_frame>>

LEMMA SameStale ==
  ASSUME StaleInv, UNCHANGED staleInvVars, vo' = "draw" => vo = "draw"
  PROVE  StaleInv'
  BY DEF StaleInv, staleInvVars

LEMMA StaleIds == StaleInv /\ SlotInv => IdsInv
  BY NoneAssumption DEF StaleInv, SlotInv, IdsInv, Frame

(* The steps of the core                                                   *)
LEMMA CoreStale ==
  ASSUME StaleInv, SlotInv, CoreReturns \/ CoreCalls
  PROVE  StaleInv'
  <1> USE DEF voThreadVars, ctxVars, frameVars, drawVars, staleVars
  <1>1. CASE QueueFrame
    <2>1. /\ frame_queued'.id = current_frame_id + 1 /\ current_frame_id' = current_frame_id + 1
          /\ UNCHANGED <<current_frame, stale, stale_config, drawn, drawing, cur_frame,
                         next_frame, vo>>
      BY <1>1 DEF QueueFrame
    <2>2. current_frame_id \in Nat /\ current_frame \in Frame \cup {None}
      BY DEF SlotInv
    <2> QED BY <2>1, <2>2 DEF StaleInv, Frame
  <1>2. CASE SeekReset
    <2>1. /\ frame_queued' = None /\ current_frame_id' = current_frame_id + 1
          /\ stale' = current_frame_id
          /\ current_frame' = IF current_frame = None THEN None
               ELSE [current_frame EXCEPT !.vsyncs = 0, !.synced = FALSE]
          /\ UNCHANGED <<stale_config, drawn, drawing, cur_frame, next_frame, vo>>
      BY <1>2 DEF SeekReset, ForgetFrames
    <2>2. current_frame_id \in Nat /\ current_frame \in Frame \cup {None}
      BY DEF SlotInv
    <2>3. CASE current_frame = None
      BY <2>1, <2>2, <2>3 DEF StaleInv
    <2>4. CASE current_frame # None
      <3>1. current_frame'.id = current_frame.id /\ ~current_frame'.synced
            /\ current_frame' # None
        BY <2>1, <2>2, <2>4, SameId, NoneAssumption
      <3> QED BY <2>1, <2>2, <2>4, <3>1 DEF StaleInv
    <2> QED BY <2>3, <2>4
  <1>3. ASSUME NEW f, IsReady(f) PROVE StaleInv'
    <2>1. UNCHANGED <<staleInvVars, vo>>
      BY <1>3 DEF IsReady, queueVars, staleInvVars
    <2> QED BY <2>1, SameStale
  <1>4. ASSUME NEW r, Call(r) PROVE StaleInv'
    <2>1. UNCHANGED <<staleInvVars, vo>>
      BY <1>4 DEF Call, queueVars, staleInvVars
    <2> QED BY <2>1, SameStale
  <1>5. CASE WaitFrame \/ WaitFrameReturns \/ RequestWakeupOnDone \/ CallReturns \/ VoDestroy
    <2>1. UNCHANGED <<staleInvVars, vo>>
      BY <1>5 DEF WaitFrame, WaitFrameReturns, RequestWakeupOnDone, CallReturns, VoDestroy,
         lockVars, queueVars, staleInvVars
    <2> QED BY <2>1, SameStale
  <1>6. CASE SetPaused \/ Redraw \/ CoreSleeps \/ CoreWakes \/ CoreInput
    <2>1. UNCHANGED <<staleInvVars, vo>>
      BY <1>6 DEF SetPaused, Redraw, CoreSleeps, CoreWakes, CoreInput, lockVars, queueVars,
         staleInvVars
    <2> QED BY <2>1, SameStale
  <1> QED BY <1>1, <1>2, <1>3, <1>4, <1>5, <1>6 DEF CoreReturns, CoreCalls

(* What is rendered is new enough, ...                                     *)
LEMMA RendersNew ==
  ASSUME StaleInv, SlotInv, RenderDrops \/ RenderFrame
  PROVE  /\ ToRender \in Frame /\ ToRender.id > stale /\ ToRender.id >= drawn
         /\ ToRender.id > stale_config /\ ToRender.id \in 1..current_frame_id
  <1>1. ~NothingToRender
    BY DEF RenderDrops, RenderFrame
  <1>2. \A f \in Frame : f.id \in Nat
    BY DEF Frame
  <1>3. {stale, stale_config, drawn} \subseteq Nat /\ current_frame_id \in Nat
    BY DEF StaleInv, SlotInv
  <1>4. CASE frame_queued # None
    BY <1>2, <1>3, <1>4 DEF StaleInv, SlotInv, ToRender
  <1>5. CASE frame_queued = None
    <2>1. current_frame # None /\ current_frame.synced /\ ToRender = current_frame
      BY <1>1, <1>5 DEF NothingToRender, MoreVsyncs, ToRender
    <2> QED BY <1>2, <1>3, <2>1 DEF StaleInv, SlotInv
  <1> QED BY <1>4, <1>5

LEMMA FrameToRender == RenderFrame => drawing'.id = ToRender.id
  BY DEF RenderFrame

(* ... and stays so in the steps of the vo thread.                         *)
LEMMA VoStale ==
  ASSUME StaleInv, SlotInv, PresentInv, VoThread
  PROVE  StaleInv'
  <1> USE DEF Goto, staleVars
  <1>1. CASE RenderDrops \/ RenderFrame
    <2>1. /\ current_frame' = Shown(ToRender) /\ frame_queued' = None
          /\ UNCHANGED <<current_frame_id, stale, stale_config, drawn, cur_frame, next_frame>>
          /\ vo' = "draw" => drawing'.id = ToRender.id
      <3>1. CASE RenderDrops
        BY <3>1 DEF RenderDrops, ctxVars, frameVars, drawVars
      <3>2. CASE RenderFrame
        BY <3>2, FrameToRender DEF RenderFrame, ctxVars, frameVars
      <3> QED BY <1>1, <3>1, <3>2
    <2>2. /\ ToRender \in Frame /\ ToRender.id > stale /\ ToRender.id >= drawn
          /\ ToRender.id > stale_config /\ ToRender.id \in 1..current_frame_id
      BY <1>1, RendersNew
    <2>3. current_frame'.id = ToRender.id /\ current_frame' # None
      BY <2>1, <2>2, SameId, NoneAssumption
    <2> HIDE DEF staleVars
    <2> QED BY <2>1, <2>2, <2>3 DEF StaleInv
  <1>2. CASE Draw
    <2>1. /\ vo = "draw" /\ vo' # "draw" /\ next_frame' = drawing
          /\ drawn' = IF drawing.id = 0 THEN drawn ELSE drawing.id
          /\ UNCHANGED <<current_frame, frame_queued, current_frame_id, stale, stale_config,
                         cur_frame>>
      BY <1>2 DEF Draw, DrawFrame, lockVars, queueVars
    <2>2. current_frame # None => current_frame.id \in Nat
      BY DEF SlotInv, Frame
    <2>3. {stale, stale_config, drawn} \subseteq Nat /\ current_frame_id \in Nat
      BY DEF StaleInv, SlotInv
    <2>4. CASE current_frame = None
      BY <2>1, <2>3, <2>4 DEF StaleInv
    <2>5. CASE current_frame # None
      <3>1. drawing.id = current_frame.id /\ current_frame.id # 0
        BY <2>1, <2>5 DEF StaleInv
      <3> QED BY <2>1, <2>2, <2>3, <2>5, <3>1 DEF StaleInv
    <2> QED BY <2>4, <2>5
  <1>3. CASE Flip
    <2>1. /\ vo' # "draw" /\ UNCHANGED <<current_frame, frame_queued, current_frame_id, stale,
                                         stale_config, drawn, drawing>>
          /\ (next_frame' = None \/ next_frame' = next_frame)
          /\ (cur_frame' = cur_frame \/ (next_frame # None /\ cur_frame' = next_frame.id))
      BY <1>3 DEF Flip, FlipTaken, FlipMissed, drawVars
    <2>2. stale_config \in Nat /\ current_frame_id \in Nat
      BY DEF StaleInv, SlotInv
    <2> QED BY <2>1, <2>2 DEF StaleInv
  <1>4. CASE Reconfig \/ Terminate
    <2>1. /\ vo = "top" /\ vo' # "draw" /\ current_frame' = None /\ frame_queued' = None
          /\ current_frame_id' = current_frame_id + 1 /\ cur_frame' = 0
          /\ stale' \in {stale, current_frame_id}
          /\ UNCHANGED <<drawn, next_frame>>
          /\ stale_config' \in {stale_config, current_frame_id}
      BY <1>4 DEF Reconfig, Terminate, ForgetFrames, ForgetCurrent, UninitLocked, Serve, drawVars
    <2>2. next_frame = None
      BY <2>1 DEF PresentInv
    <2>3. current_frame_id \in Nat
      BY DEF SlotInv
    <2> QED BY <2>1, <2>2, <2>3 DEF StaleInv
  <1>5. CASE DoRedraw
    <2>1. /\ drawing'.id = IF current_frame = None THEN 0 ELSE current_frame.id
          /\ UNCHANGED <<current_frame, frame_queued, current_frame_id, stale, stale_config,
                         drawn, cur_frame, next_frame>>
      BY <1>5 DEF DoRedraw, ctxVars, frameVars, queueVars
    <2> QED BY <2>1 DEF StaleInv
  <1>6. CASE \/ RenderNothing \/ Target \/ FrameDone \/ Loop \/ Wakes \/ Screenshot
             \/ ScreenshotDone \/ Exit
    <2>1. UNCHANGED staleInvVars /\ vo' # "draw"
      BY <1>6 DEF RenderNothing, Target, FrameDone, Loop, Wakes, Screenshot, ScreenshotDone,
         Exit, RunOnRenderThread, UninitUnlock, lockVars, queueVars, drawVars, ctxVars,
         frameVars, staleInvVars
    <2> QED BY <2>1, SameStale
  <1> QED BY <1>1, <1>2, <1>3, <1>4, <1>5, <1>6 DEF VoThread

LEMMA UserStale ==
  ASSUME StaleInv, SlotInv, OfUser(RenderThread) \/ UserFrees \/ Tick \/ UNCHANGED vars
  PROVE  StaleInv'
  <1>1. CASE OfUser(Render)
    <2>1. /\ next_frame' = None /\ UNCHANGED <<current_frame, frame_queued, current_frame_id,
               stale, stale_config, drawn, drawing, vo>>
          /\ cur_frame' = IF next_frame # None THEN next_frame.id ELSE cur_frame
      BY <1>1 DEF OfUser, Render, lockVars, queueVars, drawVars, staleVars
    <2>2. CASE next_frame = None
      BY <2>1, <2>2 DEF StaleInv
    <2>3. CASE next_frame # None
      <3>1. stale_config \in Nat /\ current_frame_id \in Nat
        BY DEF StaleInv, SlotInv
      <3> QED BY <2>1, <2>3, <3>1 DEF StaleInv
    <2> QED BY <2>2, <2>3
  <1>2. CASE OfUser(RenderThreadRuns) \/ OfUser(Update)
    <2>1. UNCHANGED <<staleInvVars, vo>>
      BY <1>2 DEF OfUser, RenderThreadRuns, RenderReturns, Update, FreeServes, FreeUnused,
         FreeDone, lockVars, queueVars, drawVars, staleVars, frameVars, staleInvVars
    <2> QED BY <2>1, SameStale
  <1>3. CASE UserFrees \/ Tick \/ UNCHANGED vars
    <2>1. UNCHANGED <<staleInvVars, vo>>
      BY <1>3 DEF UserFrees, FreeContext, Tick, vars, voThreadVars, lockVars, queueVars, drawVars,
         staleVars, ctxVars, frameVars, staleInvVars
    <2> QED BY <2>1, SameStale
  <1> QED BY <1>1, <1>2, <1>3 DEF OfUser, RenderThread

LEMMA StaleInvariance == Spec => [](StaleInv /\ PresentInv /\ ContextInv /\ SlotInv)
  <1>1. Init => StaleInv
    BY DEF Init, CtxInit, StaleInv
  <1>2. StaleInv /\ PresentInv /\ SlotInv /\ [Next]_vars => StaleInv'
    BY CoreStale, VoStale, UserStale DEF Next
  <1> QED BY Invariance, <1>1, <1>2, PTL DEF Spec

(* After a seek no older frame is newly shown, frames are shown in their   *)
(* order, and the API user never draws an image of the old format.         *)
THEOREM NothingOldIsShown == Spec => NothingStale
  <1> DEFINE Shows == /\ RenderFrame => drawing'.id > stale /\ drawing'.id >= drawn
                      /\ render' = "rendering" /\ render = "idle" =>
                           cur_frame' = 0 \/ cur_frame' > stale_config
  <1>1. ASSUME StaleInv, SlotInv, StaleInv', SlotInv', [Next]_vars PROVE [Shows]_vars
    <2>1. RenderFrame => drawing'.id > stale /\ drawing'.id >= drawn
      BY <1>1, RendersNew, FrameToRender
    <2>2. stale_config' = stale_config \/ stale_config' = current_frame_id
      <3>1. CASE VoThread
        BY <3>1 DEF VoThread, RenderNothing, RenderDrops, RenderFrame, Draw, Target, Flip,
           FrameDone, Loop, DoRedraw, Wakes, Reconfig, Screenshot, ScreenshotDone, Terminate,
           Exit, staleVars
      <3>2. CASE CoreReturns
        BY <3>2 DEF CoreReturns, QueueFrame, WaitFrameReturns, CallReturns, CoreWakes, staleVars
      <3>3. CASE CoreCalls
        <4>1. ASSUME NEW f, IsReady(f) PROVE stale_config' = stale_config
          BY <4>1 DEF IsReady, staleVars
        <4>2. ASSUME NEW r, Call(r) PROVE stale_config' = stale_config
          BY <4>2 DEF Call, staleVars
        <4> QED BY <3>3, <4>1, <4>2 DEF CoreCalls, WaitFrame, RequestWakeupOnDone, SeekReset,
               SetPaused, Redraw, CoreSleeps, CoreInput, VoDestroy, staleVars
      <3>4. CASE Tick \/ OfUser(RenderThread) \/ UserFrees \/ UNCHANGED vars
        BY <3>4 DEF Tick, OfUser, UserFrees, vars, staleVars
      <3> QED BY <1>1, <3>1, <3>2, <3>3, <3>4 DEF Next
    <2>3. stale_config' >= stale_config /\ {stale_config, stale_config', cur_frame'} \subseteq Nat
      BY <1>1, <2>2 DEF StaleInv, SlotInv
    <2>4. cur_frame' = 0 \/ cur_frame' > stale_config
      BY <1>1, <2>3 DEF StaleInv
    <2> QED BY <2>1, <2>4
  <1>2. Spec => [][Shows]_vars
    BY StaleInvariance, <1>1, PTL DEF Spec
  <1> QED BY <1>2 DEF NothingStale

-----------------------------------------------------------------------------
(* What is on the screen                                                   *)

(* The frame that the API user draws next                                  *)
Screen == IF next_frame # None THEN next_frame.id ELSE cur_frame

(* The frame that was drawn is on the screen or will be, whether the API   *)
(* user took it or missed it, until it is forgotten.                       *)
ScreenInv ==
  /\ hasframe /\ frame_queued = None /\ drawn = current_frame.id => Screen = drawn
  /\ vo = "draw" => drawing # None

screenVars ==
  <<hasframe, frame_queued, current_frame, drawn, next_frame, cur_frame, drawing>>

LEMMA SameScreen ==
  ASSUME ScreenInv, UNCHANGED screenVars, vo' = "draw" => vo = "draw"
  PROVE  ScreenInv'
  BY DEF ScreenInv, Screen, screenVars

LEMMA CoreScreen ==
  ASSUME ScreenInv, SlotInv, CoreReturns \/ CoreCalls
  PROVE  ScreenInv'
  <1> USE DEF voThreadVars, ctxVars, frameVars, drawVars, screenVars
  <1>1. CASE QueueFrame
    <2>1. frame_queued' \in Frame /\ UNCHANGED <<vo, drawing>>
      BY <1>1 DEF QueueFrame, SlotInv, Frame, FrameAsked
    <2> QED BY <2>1, NoneAssumption DEF ScreenInv
  <1>2. CASE SeekReset
    BY <1>2 DEF SeekReset, ForgetFrames, ScreenInv
  <1>3. ASSUME NEW f, IsReady(f) PROVE ScreenInv'
    <2>1. UNCHANGED screenVars /\ (vo' = "draw" => vo = "draw")
      BY <1>3 DEF IsReady, queueVars
    <2> QED BY <2>1, SameScreen
  <1>4. ASSUME NEW r, Call(r) PROVE ScreenInv'
    <2>1. UNCHANGED screenVars /\ (vo' = "draw" => vo = "draw")
      BY <1>4 DEF Call, queueVars
    <2> QED BY <2>1, SameScreen
  <1>5. CASE WaitFrame \/ WaitFrameReturns \/ RequestWakeupOnDone \/ CallReturns \/ VoDestroy
    <2>1. UNCHANGED screenVars /\ (vo' = "draw" => vo = "draw")
      BY <1>5 DEF WaitFrame, WaitFrameReturns, RequestWakeupOnDone, CallReturns, VoDestroy,
         lockVars, queueVars
    <2> QED BY <2>1, SameScreen
  <1>6. CASE SetPaused \/ Redraw \/ CoreSleeps \/ CoreWakes \/ CoreInput
    <2>1. UNCHANGED screenVars /\ (vo' = "draw" => vo = "draw")
      BY <1>6 DEF SetPaused, Redraw, CoreSleeps, CoreWakes, CoreInput, lockVars, queueVars
    <2> QED BY <2>1, SameScreen
  <1> QED BY <1>1, <1>2, <1>3, <1>4, <1>5, <1>6 DEF CoreReturns, CoreCalls

LEMMA VoScreen ==
  ASSUME ScreenInv, DrawnInv, StaleInv, SlotInv, VoThread
  PROVE  ScreenInv'
  <1>1. CASE RenderDrops \/ RenderFrame
    <2>1. /\ current_frame' = Shown(ToRender) /\ UNCHANGED <<hasframe, drawn, Screen>>
          /\ ToRender \in Frame
      BY <1>1, RendersNew DEF RenderDrops, RenderFrame, ctxVars, frameVars, drawVars, Screen
    <2>5. vo' = "draw" => drawing' # None
      <3>1. CASE RenderDrops
        BY <3>1 DEF RenderDrops, Goto
      <3>2. CASE RenderFrame
        <4>1. drawing' = [id |-> ToRender.id, redraw |-> FALSE] /\ ToRender.id \in Nat
          BY <2>1, <3>2 DEF RenderFrame, Frame
        <4>2. drawing' \in Drawing
          BY <4>1 DEF Drawing
        <4> QED BY <4>2, NoneAssumption
      <3> QED BY <1>1, <3>1, <3>2
    <2>2. current_frame'.id = ToRender.id
      BY <2>1, SameId
    <2>3. CASE frame_queued # None
      <3>1. drawn # frame_queued.id
        BY <2>3 DEF StaleInv, SlotInv, Frame
      <3> QED BY <2>5, <2>1, <2>2, <2>3, <3>1 DEF ScreenInv, ToRender
    <2>4. CASE frame_queued = None
      BY <2>5, <2>1, <2>2, <2>4 DEF ScreenInv, ToRender
    <2> QED BY <2>3, <2>4
  <1>2. CASE Draw
    <2>1. /\ vo = "draw" /\ vo' # "draw" /\ next_frame' = drawing
          /\ drawn' = IF drawing.id = 0 THEN drawn ELSE drawing.id
          /\ UNCHANGED <<hasframe, frame_queued, current_frame, cur_frame>>
      BY <1>2 DEF Draw, DrawFrame, Goto, lockVars, queueVars
    <2>2. CASE current_frame = None
      BY <2>1, <2>2 DEF ScreenInv, DrawnInv
    <2>3. CASE current_frame # None
      <3>1. drawing.id = current_frame.id /\ drawing.id # 0 /\ drawn' = drawing.id
        BY <2>1, <2>3 DEF DrawnInv
      <3> QED BY <2>1, <3>1 DEF ScreenInv, Screen
    <2> QED BY <2>2, <2>3
  <1>3. CASE Flip
    <2>1. UNCHANGED <<hasframe, frame_queued, current_frame, drawn, Screen>> /\ vo' # "draw"
      BY <1>3 DEF Goto, Flip, FlipTaken, FlipMissed, drawVars, Screen
    <2> QED BY <2>1 DEF ScreenInv
  <1>4. CASE Reconfig \/ Terminate
    BY <1>4 DEF Reconfig, Terminate, Serve, Goto, ForgetFrames, ScreenInv
  <1>5. CASE \/ RenderNothing \/ Target \/ FrameDone \/ Loop \/ Wakes
             \/ Screenshot \/ ScreenshotDone \/ Exit
    <2>1. UNCHANGED screenVars /\ (vo' = "draw" => vo = "draw")
      BY <1>5 DEF RenderNothing, Target, FrameDone, Loop, Wakes, Screenshot,
         ScreenshotDone, Exit, Serve, Goto, RunOnRenderThread, UninitUnlock, lockVars, queueVars, drawVars,
         ctxVars, frameVars, screenVars
    <2> QED BY <2>1, SameScreen
  <1>6. CASE DoRedraw
    <2>1. /\ drawing' = [id |-> IF current_frame = None THEN 0 ELSE current_frame.id,
                         redraw |-> ~dropped_frame \/ current_frame = None]
          /\ UNCHANGED <<hasframe, frame_queued, current_frame, drawn, Screen>>
      BY <1>6 DEF DoRedraw, ctxVars, frameVars, queueVars, Screen
    <2>2. (IF current_frame = None THEN 0 ELSE current_frame.id) \in Nat
      BY DEF SlotInv, Frame
    <2>3. (~dropped_frame \/ current_frame = None) \in BOOLEAN
      OBVIOUS
    <2>4. drawing' \in Drawing
      BY <2>1, <2>2, <2>3 DEF Drawing
    <2> QED BY <2>1, <2>4, NoneAssumption DEF ScreenInv
  <1> QED BY <1>1, <1>2, <1>3, <1>4, <1>5, <1>6 DEF VoThread

LEMMA UserScreen ==
  ASSUME ScreenInv, OfUser(RenderThread) \/ UserFrees \/ Tick \/ UNCHANGED vars
  PROVE  ScreenInv'
  <1>1. CASE OfUser(Render)
    <2>1. UNCHANGED <<hasframe, frame_queued, current_frame, drawn, Screen, vo, drawing>>
      BY <1>1 DEF OfUser, Render, lockVars, queueVars, drawVars, Screen
    <2> QED BY <2>1 DEF ScreenInv
  <1>2. CASE OfUser(RenderThreadRuns) \/ OfUser(Update)
    <2>1. UNCHANGED screenVars /\ (vo' = "draw" => vo = "draw")
      BY <1>2 DEF OfUser, RenderThreadRuns, RenderReturns, Update, FreeServes, FreeUnused,
         FreeDone, lockVars, queueVars, drawVars, frameVars, screenVars
    <2> QED BY <2>1, SameScreen
  <1>3. CASE UserFrees \/ Tick \/ UNCHANGED vars
    <2>1. UNCHANGED screenVars /\ (vo' = "draw" => vo = "draw")
      BY <1>3 DEF UserFrees, FreeContext, Tick, vars, voThreadVars, lockVars, queueVars, drawVars,
         ctxVars, frameVars, screenVars
    <2> QED BY <2>1, SameScreen
  <1> QED BY <1>1, <1>2, <1>3 DEF OfUser, RenderThread

(* When the vo thread sleeps, the frame at which a paused player stays was *)
(* drawn, though it was queued, dropped or sought to in the meantime, and  *)
(* the API user draws it, though they may have missed its time.            *)
THEOREM PausedFrameIsDrawn == Spec => []PausedFrameDrawn
  <1>1. Init => DrawnInv
    BY TimeAssumption DEF Init, DrawnInv, Undrawn
  <1>2. ASSUME DrawnInv, StaleInv, SlotInv, [Next]_vars PROVE DrawnInv'
    <2>1. IdsInv
      BY <1>2, StaleIds
    <2>2. CASE VoThread
      BY <1>2, <2>1, <2>2, RenderDrawn, PresentDrawn, LoopDrawn DEF VoThread, SlotInv
    <2>3. CASE CoreReturns \/ CoreCalls
      BY <1>2, <2>3, CoreAsksDrawn, CoreActsDrawn DEF CoreReturns, CoreCalls
    <2>4. CASE OfUser(RenderThread) \/ UserFrees \/ UNCHANGED vars
      <3>1. UNCHANGED <<drawnVars, need_wakeup>>
        BY <2>4 DEF OfUser, UserFrees, vars, voThreadVars, drawnVars, lockVars, queueVars,
           redrawVars, drawVars, loopVars
      <3> QED BY <1>2, <3>1, SameDrawn
    <2>5. CASE Tick
      <3>1. /\ now < MaxTime /\ now' = now + 1 /\ now \in Nat
            /\ UNCHANGED <<frame_queued, vo, mode, dropped_frame, hasframe, current_frame,
                 drawing, drawn, paused, request_redraw, wait_until, need_wakeup>>
        BY <1>2, <2>5 DEF Tick, SlotInv, lockVars, queueVars, redrawVars, drawVars, loopVars
      <3> QED BY <1>2, <3>1, TimeAssumption DEF DrawnInv, Undrawn
    <2> QED BY <1>2, <2>2, <2>3, <2>4, <2>5 DEF Next
  <1>3. Init => ScreenInv
    BY DEF Init, ScreenInv
  <1>4. ASSUME ScreenInv, DrawnInv, StaleInv, SlotInv, [Next]_vars PROVE ScreenInv'
    BY <1>4, CoreScreen, VoScreen, UserScreen DEF Next
  <1>5. ASSUME ScreenInv, DrawnInv, SlotInv, PresentInv PROVE PausedFrameDrawn
    <2> SUFFICES ASSUME paused, hasframe, vo = "wait", ~need_wakeup, wait_until > now
                 PROVE  drawn = current_frame.id /\ cur_frame = drawn
      BY DEF PausedFrameDrawn
    <2>1. frame_queued = None /\ drawn = current_frame.id
      BY <1>5 DEF DrawnInv, SlotInv, Undrawn
    <2>2. next_frame = None
      BY <1>5 DEF PresentInv
    <2> QED BY <1>5, <2>1, <2>2 DEF ScreenInv, Screen
  <1> QED BY StaleInvariance, <1>1, <1>2, <1>3, <1>4, <1>5, PTL DEF Spec
=============================================================================
