---------------------------- MODULE ClientProofs -----------------------------
(***************************************************************************)
(* Proofs about one handle of the client API, for any properties, commands,*)
(* budgets and any size of the ring buffer, in three layers: replies and   *)
(* the life of the handle (ReplyInv, LifeInv); that a user asleep in       *)
(* mpv_wait_event() has missed nothing (NInv); and that changes reach the  *)
(* user, and hooks after the changes before them (TInv).                   *)
(***************************************************************************)
EXTENDS Client, SequenceLemmas

(* The commands that have a place reserved                                 *)
Pending == {c \in Cmds : job[c] \in {"queued", "running"}}

(* reserved_events counts the commands that have not replied; the queue of *)
(* the core holds each queued command once.                                *)
ReplyInv ==
  /\ events \in Seq({"event", "hook"}) /\ reserved_events \in Nat
  /\ Len(events) + reserved_events <= MaxEvents
  /\ job \in [Cmds -> {"none", "queued", "running", "done"}]
  /\ requests \in Seq(Cmds)
  /\ \A i \in 1..Len(requests) : job[requests[i]] = "queued"
  /\ \A i, j \in 1..Len(requests) : requests[i] = requests[j] => i = j
  /\ IsFiniteSet(Pending) /\ reserved_events = Cardinality(Pending)

(* A handle past mpv_wait_async_requests() has nothing reserved and its    *)
(* properties are not read again, because it is marked as destroying.      *)
LifeInv ==
  /\ core \in {"run", "scan", "read", "asleep"}
  /\ async_counter = IF core = "read" THEN 1 ELSE 0
  /\ user \in {"idle", "wait", "asleep"} => ~destroying
  /\ user \in {"remove", "freed"} => destroying /\ reserved_events = 0 /\ CoreFree

LEMMA InitReply == Init => ReplyInv
  <1> SUFFICES ASSUME Init PROVE ReplyInv
    OBVIOUS
  <1>1. Pending = {}
    BY DEF Init, Pending
  <1>2. IsFiniteSet(Pending) /\ Cardinality(Pending) = 0
    BY <1>1, FS_EmptySet
  <1>3. events = <<>> /\ requests = <<>> /\ reserved_events = 0
    BY DEF Init
  <1>4. Len(events) = 0 /\ Len(requests) = 0
    BY <1>3
  <1>5. events \in Seq({"event", "hook"}) /\ requests \in Seq(Cmds)
    BY <1>3
  <1>6. job \in [Cmds -> {"none", "queued", "running", "done"}]
    BY DEF Init
  <1> QED BY <1>2, <1>3, <1>4, <1>5, <1>6, BoundsAssumption DEF ReplyInv

(* Appending an event where there is room                                  *)
LEMMA EventFits ==
  ASSUME ReplyInv, NEW e \in {"event", "hook"}, Room, events' = Append(events, e)
  PROVE  events' \in Seq({"event", "hook"}) /\ Len(events') + reserved_events <= MaxEvents
  BY BoundsAssumption DEF ReplyInv, Room

(* Broadcast and hook events                                               *)
LEMMA SendReplyInv ==
  ASSUME ReplyInv, NEW e \in {"event", "hook"}, NEW sent \in BOOLEAN, SendEvent(e, sent),
         UNCHANGED <<reserved_events, job, requests>>
  PROVE  ReplyInv'
  <1>1. Pending' = Pending
    BY DEF Pending
  <1>2. /\ events' \in Seq({"event", "hook"})
        /\ Len(events') + reserved_events <= MaxEvents
    <2>1. CASE sent
      <3>1. Room /\ events' = Append(events, e)
        BY <2>1, Zenon DEF SendEvent
      <3> QED BY <3>1, EventFits
    <2>2. CASE ~sent
      <3>1. events' = events
        BY <2>2, Zenon DEF SendEvent
      <3> QED BY <3>1 DEF ReplyInv
    <2> QED BY <2>1, <2>2
  <1> QED BY <1>1, <1>2 DEF ReplyInv

(* A command that replies gives its place to the reply.                    *)
LEMMA ReplyTakesPlace ==
  ASSUME ReplyInv, NEW c \in Pending, SendReply, job' = [job EXCEPT ![c] = "done"],
         requests' \in Seq(Cmds),
         \A i \in 1..Len(requests') : job[requests'[i]] = "queued" /\ requests'[i] # c,
         \A i, j \in 1..Len(requests') : requests'[i] = requests'[j] => i = j
  PROVE  ReplyInv'
  <1>1. Pending' = Pending \ {c}
    BY DEF ReplyInv, Pending
  <1>2. IsFiniteSet(Pending') /\ Cardinality(Pending') = Cardinality(Pending) - 1
    BY <1>1, FS_RemoveElement DEF ReplyInv
  <1>3. Cardinality(Pending') \in Nat
    BY <1>2, FS_CardinalityType
  <1>4. reserved_events' = Cardinality(Pending') /\ reserved_events' \in Nat
    BY <1>2, <1>3 DEF SendReply, ReplyInv
  <1>5. /\ events' \in Seq({"event", "hook"})
        /\ Len(events') + reserved_events' <= MaxEvents
    BY BoundsAssumption DEF SendReply, ReplyInv
  <1>6. job' \in [Cmds -> {"none", "queued", "running", "done"}]
    BY DEF ReplyInv
  <1>7. \A i \in 1..Len(requests') : job'[requests'[i]] = "queued"
    <2> TAKE i \in 1..Len(requests')
    <2>1. requests'[i] \in Cmds
      OBVIOUS
    <2> QED BY <2>1 DEF ReplyInv
  <1> QED BY <1>2, <1>4, <1>5, <1>6, <1>7 DEF ReplyInv

(* The head of the queue of the core                                       *)
LEMMA HeadQueued ==
  ASSUME ReplyInv, requests # <<>>
  PROVE  /\ Head(requests) \in Pending /\ job[Head(requests)] = "queued"
         /\ Tail(requests) \in Seq(Cmds)
         /\ \A i \in 1..Len(Tail(requests)) :
              job[Tail(requests)[i]] = "queued" /\ Tail(requests)[i] # Head(requests)
         /\ \A i, j \in 1..Len(Tail(requests)) :
              Tail(requests)[i] = Tail(requests)[j] => i = j
  <1>1. requests \in Seq(Cmds) /\ Len(requests) \in Nat /\ Len(requests) > 0
    BY EmptySeq DEF ReplyInv
  <1>2. Head(requests) = requests[1] /\ requests[1] \in Cmds /\ 1 \in 1..Len(requests)
    BY <1>1
  <1>3. job[Head(requests)] = "queued"
    BY <1>2 DEF ReplyInv
  <1>4. Tail(requests) \in Seq(Cmds) /\ Len(Tail(requests)) = Len(requests) - 1
    BY <1>1
  <1>5. \A i \in 1..Len(Tail(requests)) :
          Tail(requests)[i] = requests[i + 1] /\ i + 1 \in 1..Len(requests) /\ i + 1 # 1
    BY <1>1, <1>4
  <1>6. \A i \in 1..Len(Tail(requests)) :
          job[Tail(requests)[i]] = "queued" /\ Tail(requests)[i] # Head(requests)
    BY <1>2, <1>5 DEF ReplyInv
  <1>7. \A i, j \in 1..Len(Tail(requests)) : Tail(requests)[i] = Tail(requests)[j] => i = j
    <2> TAKE i, j \in 1..Len(Tail(requests))
    <2>1. requests[i + 1] = requests[j + 1] => i + 1 = j + 1
      BY <1>5 DEF ReplyInv
    <2> QED BY <1>5, <2>1
  <1> QED BY <1>2, <1>3, <1>4, <1>6, <1>7 DEF Pending

(* The steps of a command                                                  *)
LEMMA CommandReplyInv ==
  ASSUME ReplyInv, NEW c \in Cmds, CommandAsync(c) \/ RunRequest(c) \/ JobEnds(c)
  PROVE  ReplyInv'
  <1>1. CASE CommandAsync(c)
    <2>0. /\ job[c] = "none" /\ Room /\ events' = events
          /\ reserved_events' = reserved_events + 1
          /\ requests' = Append(requests, c) /\ job' = [job EXCEPT ![c] = "queued"]
      BY <1>1 DEF CommandAsync
    <2>1. Pending' = Pending \cup {c} /\ c \notin Pending
      BY <2>0 DEF ReplyInv, Pending
    <2>2. IsFiniteSet(Pending') /\ Cardinality(Pending') = Cardinality(Pending) + 1
      BY <2>1, FS_AddElement DEF ReplyInv
    <2>3. requests' \in Seq(Cmds) /\ Len(requests') = Len(requests) + 1
      BY <2>0 DEF ReplyInv
    <2>4. /\ \A i \in 1..Len(requests) : requests'[i] = requests[i] /\ requests[i] \in Cmds
                                         /\ requests[i] # c
          /\ requests'[Len(requests')] = c
      BY <2>0, <2>3 DEF ReplyInv
    <2>5. \A i \in 1..Len(requests') : i \in 1..Len(requests) \/ i = Len(requests')
      BY <2>3 DEF ReplyInv
    <2>6. \A i \in 1..Len(requests') : job'[requests'[i]] = "queued"
      BY <2>0, <2>4, <2>5 DEF ReplyInv
    <2>7. \A i, j \in 1..Len(requests') : requests'[i] = requests'[j] => i = j
      BY <2>4, <2>5 DEF ReplyInv
    <2>8. job' \in [Cmds -> {"none", "queued", "running", "done"}]
      BY <2>0 DEF ReplyInv
    <2>9. /\ reserved_events' \in Nat /\ reserved_events' = Cardinality(Pending')
          /\ Len(events') + reserved_events' <= MaxEvents
      BY <2>0, <2>2, BoundsAssumption DEF ReplyInv, Room
    <2> QED BY <2>0, <2>2, <2>3, <2>6, <2>7, <2>8, <2>9 DEF ReplyInv
  <1>2. CASE RunRequest(c)
    <2>0. requests # <<>> /\ c = Head(requests) /\ requests' = Tail(requests)
      BY <1>2 DEF RunRequest
    <2>1. CASE job' = [job EXCEPT ![c] = "done"] /\ SendReply
      BY <2>0, <2>1, HeadQueued, ReplyTakesPlace
    <2>2. CASE /\ job' = [job EXCEPT ![c] = "running"]
               /\ UNCHANGED <<events, reserved_events, need_wakeup>>
      <3>1. Pending' = Pending
        BY <2>0, <2>2, HeadQueued DEF Pending, ReplyInv
      <3>2. \A i \in 1..Len(requests') : job'[requests'[i]] = "queued"
        <4> TAKE i \in 1..Len(requests')
        <4>1. requests'[i] \in Cmds /\ requests'[i] # c /\ job[requests'[i]] = "queued"
          BY <2>0, HeadQueued
        <4> QED BY <2>2, <4>1 DEF ReplyInv
      <3>3. job' \in [Cmds -> {"none", "queued", "running", "done"}]
        BY <2>2 DEF ReplyInv
      <3>4. /\ requests' \in Seq(Cmds)
            /\ \A i, j \in 1..Len(requests') : requests'[i] = requests'[j] => i = j
        BY <2>0, HeadQueued
      <3> QED BY <2>2, <3>1, <3>2, <3>3, <3>4 DEF ReplyInv
    <2> QED BY <1>2, <2>1, <2>2 DEF RunRequest
  <1>3. CASE JobEnds(c)
    <2>1. /\ job[c] = "running" /\ job' = [job EXCEPT ![c] = "done"] /\ SendReply
          /\ requests' = requests
      BY <1>3 DEF JobEnds
    <2>2. c \in Pending
      BY <2>1 DEF Pending
    <2>3. \A i \in 1..Len(requests') : job[requests'[i]] = "queued" /\ requests'[i] # c
      BY <2>1 DEF ReplyInv
    <2>4. /\ requests' \in Seq(Cmds)
          /\ \A i, j \in 1..Len(requests') : requests'[i] = requests'[j] => i = j
      BY <2>1 DEF ReplyInv
    <2> QED BY <2>1, <2>2, <2>3, <2>4, ReplyTakesPlace
  <1> QED BY <1>1, <1>2, <1>3

LEMMA StepReply == ReplyInv /\ [Next]_vars => ReplyInv'
  <1> SUFFICES ASSUME ReplyInv, [Next]_vars PROVE ReplyInv'
    OBVIOUS
  <1>0. ASSUME UNCHANGED <<events, reserved_events, job, requests>> PROVE ReplyInv'
    BY <1>0 DEF ReplyInv, Pending
  <1>1. ASSUME NEW c \in Cmds, CommandAsync(c) \/ RunRequest(c) \/ JobEnds(c)
        PROVE  ReplyInv'
    BY <1>1, CommandReplyInv
  <1>2. CASE Broadcast
    <2>1. PICK sent \in BOOLEAN : SendEvent("event", sent)
      BY <1>2 DEF Broadcast
    <2> QED BY <1>2, <2>1, SendReplyInv DEF Broadcast, jobVars
  <1>3. CASE HookStart
    <2>1. PICK sent \in BOOLEAN :
            IF user = "freed" THEN ~sent /\ UNCHANGED <<events, choked, need_wakeup>>
                              ELSE SendEvent("hook", sent)
      BY <1>3 DEF HookStart
    <2>2. UNCHANGED <<reserved_events, job, requests>>
      BY <1>3 DEF HookStart, jobVars
    <2>3. CASE user = "freed"
      BY <1>0, <2>1, <2>2, <2>3
    <2>4. CASE user # "freed"
      <3>1. SendEvent("hook", sent)
        BY <2>1, <2>4
      <3> QED BY <2>2, <3>1, SendReplyInv
    <2> QED BY <2>3, <2>4
  <1>4. CASE UserTakesEvent
    <2>1. events # <<>> /\ events' = Tail(events)
      BY <1>4 DEF UserTakesEvent
    <2>2. UNCHANGED <<reserved_events, job, requests>>
      BY <1>4 DEF UserTakesEvent, jobVars
    <2>3. events' \in Seq({"event", "hook"}) /\ Len(events') + reserved_events <= MaxEvents
      BY <2>1, BoundsAssumption DEF ReplyInv
    <2>4. Pending' = Pending
      BY <2>2 DEF Pending
    <2> QED BY <2>2, <2>3, <2>4 DEF ReplyInv
  <1>5. CASE FreeHandle
    <2>1. events' = <<>> /\ UNCHANGED <<reserved_events, job, requests>>
      BY <1>5 DEF FreeHandle, Free, jobVars
    <2>2. events' \in Seq({"event", "hook"}) /\ Len(events') = 0 /\ Len(events) \in Nat
      BY <2>1 DEF ReplyInv
    <2>3. Pending' = Pending
      BY <2>1 DEF Pending
    <2>4. Len(events') + reserved_events <= MaxEvents
      BY <2>2, BoundsAssumption DEF ReplyInv
    <2> QED BY <2>1, <2>2, <2>3, <2>4 DEF ReplyInv
  <1>6. ASSUME NEW p \in Props, NEW v \in Values, Change(p, v) \/ ForeignChange(p, v)
        PROVE  ReplyInv'
    BY <1>0, <1>6 DEF Change, ForeignChange, PropertyChange, queueVars, jobVars
  <1>7. ASSUME NEW p \in Props,
               ScanSkip(p) \/ ScanPlain(p) \/ ScanRead(p) \/ Observe(p) \/ Unobserve(p)
        PROVE  ReplyInv'
    BY <1>0, <1>7 DEF ScanSkip, ScanPlain, ScanRead, Observe, Unobserve, queueVars, jobVars
  <1>8. CASE ScanStart \/ ScanResume \/ ScanEnd \/ CoreWakes \/ CoreTimesOut
    BY <1>0, <1>8 DEF ScanStart, ScanResume, ScanEnd, CoreWakes, CoreTimesOut, queueVars, jobVars
  <1>9. CASE UserOverflows \/ UserTakesChange \/ UserSleeps \/ UserWakes \/ UserDrains
             \/ AbortAsync \/ HookContinue \/ Destroy \/ UserTimesOut
    BY <1>0, <1>9 DEF UserOverflows, UserTakesChange, UserSleeps, UserWakes, UserDrains,
                      AbortAsync, HookContinue, Destroy, UserTimesOut, queueVars, jobVars
  <1>10. CASE UNCHANGED vars
    BY <1>0, <1>10 DEF vars, queueVars, jobVars
  <1> QED BY <1>1, <1>2, <1>3, <1>4, <1>5, <1>6, <1>7, <1>8, <1>9, <1>10
          DEF Next, CoreStep, UserReturns, UserPolls, UserCalls

LEMMA InitLife == Init => LifeInv
  BY DEF Init, LifeInv

(* Who is past the wait is not given new requests, and the core does not   *)
(* start to read properties for a handle that is marked.                   *)
LEMMA StepLife == ReplyInv /\ LifeInv /\ [Next]_vars => LifeInv'
  <1> SUFFICES ASSUME ReplyInv, LifeInv, [Next]_vars PROVE LifeInv'
    OBVIOUS
  <1> USE DEF LifeInv, CoreFree
  <1>0. ASSUME UNCHANGED <<core, async_counter, user, destroying, reserved_events>>
        PROVE  LifeInv'
    BY <1>0
  <1>1. ASSUME NEW c \in Cmds, CommandAsync(c) PROVE LifeInv'
    BY <1>1 DEF CommandAsync, scanVars, userVars
  <1>2. ASSUME NEW c \in Cmds, RunRequest(c) \/ JobEnds(c) PROVE LifeInv'
    <2>1. c \in Pending
      <3>1. CASE RunRequest(c)
        BY <3>1, HeadQueued DEF RunRequest
      <3>2. CASE JobEnds(c)
        BY <3>2 DEF JobEnds, Pending
      <3> QED BY <1>2, <3>1, <3>2
    <2>2. Cardinality(Pending) # 0
      BY <2>1, FS_EmptySet DEF ReplyInv
    <2>3. user \notin {"remove", "freed"}
      BY <2>2 DEF ReplyInv
    <2>4. UNCHANGED <<core, async_counter, user, destroying>>
      BY <1>2 DEF RunRequest, JobEnds, scanVars
    <2> QED BY <2>3, <2>4
  <1>3. CASE Broadcast
    BY <1>0, <1>3 DEF Broadcast, scanVars
  <1>4. CASE HookStart
    BY <1>0, <1>4 DEF HookStart, scanVars
  <1>5. ASSUME NEW p \in Props, NEW v \in Values, Change(p, v) \/ ForeignChange(p, v)
        PROVE  LifeInv'
    BY <1>0, <1>5 DEF Change, ForeignChange, PropertyChange, scanVars, userVars, queueVars
  <1>6. CASE ScanStart
    <2>1. UNCHANGED <<async_counter, user, destroying, reserved_events>> /\ core = "run"
      BY <1>6 DEF ScanStart, userVars, queueVars
    <2>2. CASE has_pending_properties /\ ~destroying /\ user # "freed"
      <3>1. core' = "scan"
        BY <1>6, <2>2 DEF ScanStart
      <3> QED BY <2>1, <2>2, <3>1
    <2>3. CASE ~(has_pending_properties /\ ~destroying /\ user # "freed")
      <3>1. core' = "asleep"
        BY <1>6, <2>3 DEF ScanStart
      <3> QED BY <2>1, <3>1
    <2> QED BY <2>2, <2>3
  <1>7. ASSUME NEW p \in Props, ScanSkip(p) \/ ScanPlain(p) PROVE LifeInv'
    BY <1>0, <1>7 DEF ScanSkip, ScanPlain, userVars, queueVars
  <1>8. ASSUME NEW p \in Props, ScanRead(p) PROVE LifeInv'
    BY <1>8 DEF ScanRead, AtProperty, userVars, queueVars
  <1>9. CASE ScanResume
    BY <1>9 DEF ScanResume, userVars, queueVars
  <1>10. CASE ScanEnd
    BY <1>10 DEF ScanEnd, queueVars
  <1>11. CASE CoreWakes \/ CoreTimesOut
    BY <1>11 DEF CoreWakes, CoreTimesOut, userVars, queueVars
  <1>12. ASSUME NEW p \in Props, Observe(p) \/ Unobserve(p) PROVE LifeInv'
    BY <1>0, <1>12 DEF Observe, Unobserve, scanVars, userVars, queueVars
  <1>13. CASE HookContinue
    BY <1>0, <1>13 DEF HookContinue, scanVars, userVars, queueVars
  <1>14. CASE UserOverflows \/ UserTakesEvent \/ UserTakesChange \/ UserSleeps
              \/ UserTimesOut \/ UserWakes
    <2>1. /\ user \in {"idle", "wait", "asleep"} \/ (user = "drain asleep" /\ user' = "drain")
          /\ user' \in {"idle", "wait", "asleep", "drain"}
      BY <1>14 DEF UserOverflows, UserTakesEvent, UserTakesChange, UserSleeps, UserTimesOut,
                   UserWakes, Goto, InWaitEvent
    <2>2. UNCHANGED <<core, async_counter, destroying>>
      BY <1>14 DEF UserOverflows, UserTakesEvent, UserTakesChange, UserSleeps, UserTimesOut,
                   UserWakes, scanVars
    <2> QED BY <2>1, <2>2
  <1>15. CASE UserDrains
    <2>1. UNCHANGED <<core, async_counter, destroying, reserved_events>>
      BY <1>15 DEF UserDrains, scanVars, queueVars
    <2>2. Unlocked
      BY <1>15 DEF UserDrains
    <2>3. CASE ~Drained
      BY <1>15, <2>1, <2>3 DEF UserDrains, Goto
    <2>4. CASE Drained /\ destroying
      <3>1. reserved_events = 0 /\ core # "read" /\ core # "scan"
        BY <2>2, <2>4 DEF Drained, Unlocked
      <3>2. user' = "remove"
        BY <1>15, <2>4 DEF UserDrains, Goto
      <3> QED BY <2>1, <2>4, <3>1, <3>2
    <2>5. CASE Drained /\ ~destroying
      BY <1>15, <2>1, <2>5 DEF UserDrains, Goto
    <2> QED BY <2>3, <2>4, <2>5
  <1>16. CASE AbortAsync
    BY <1>16 DEF AbortAsync, Goto, scanVars, queueVars
  <1>17. CASE Destroy
    BY <1>17 DEF Destroy, Goto, scanVars, queueVars
  <1>18. CASE FreeHandle
    BY <1>18 DEF FreeHandle, Free, Goto, scanVars
  <1>19. CASE UNCHANGED vars
    BY <1>0, <1>19 DEF vars, scanVars, userVars, queueVars
  <1> QED BY <1>1, <1>2, <1>3, <1>4, <1>5, <1>6, <1>7, <1>8, <1>9, <1>10, <1>11, <1>12,
             <1>13, <1>14, <1>15, <1>16, <1>17, <1>18, <1>19
          DEF Next, CoreStep, UserReturns, UserPolls, UserCalls

LEMMA Invariance == Spec => [](ReplyInv /\ LifeInv)
  <1>1. Init => ReplyInv /\ LifeInv
    BY InitReply, InitLife
  <1>2. ReplyInv /\ LifeInv /\ [Next]_vars => (ReplyInv /\ LifeInv)'
    BY StepReply, StepLife
  <1> QED BY <1>1, <1>2, PTL DEF Spec

(* A reply always has its place in the ring buffer (reserve_reply(),       *)
(* send_reply()), whatever its size and whatever is sent meanwhile.        *)
THEOREM RepliesFit == Spec => []ReplyHasPlace
  <1>1. ReplyInv => ReplyHasPlace
    BY DEF ReplyInv, ReplyHasPlace
  <1> QED BY <1>1, Invariance, PTL

(* mpv_destroy() frees the handle only when no command of it is queued or  *)
(* runs and the core is not reading or comparing one of its properties.    *)
THEOREM HandleStaysAlive == Spec => []AliveWhileUsed
  <1>1. ReplyInv /\ LifeInv => AliveWhileUsed
    <2> SUFFICES ASSUME ReplyInv, LifeInv, user = "freed" PROVE AliveWhileUsed
      BY DEF AliveWhileUsed
    <2>1. reserved_events = 0 /\ core \in {"run", "asleep"}
      BY DEF LifeInv, CoreFree
    <2>2. Pending = {}
      BY <2>1, FS_EmptySet DEF ReplyInv
    <2>3. \A c \in Cmds : job[c] \in {"none", "done"}
      BY <2>2 DEF Pending, ReplyInv
    <2> QED BY <2>1, <2>3 DEF AliveWhileUsed
  <1> QED BY <1>1, Invariance, PTL

-----------------------------------------------------------------------------
(* Changes of properties, and who is told of them when *)

PropRecords == [change_ts : Nat, value_ts : Nat, value_ret_ts : Nat,
                value : Values \cup {None}, waiting_for_hook : BOOLEAN]

(* The types; the timestamps of a property in their order; a handle that   *)
(* is marked as destroying observes nothing.                               *)
PropsOK ==
  /\ prop \in [Props -> PropRecords]
  /\ \A p \in Props : /\ prop[p].value_ret_ts <= prop[p].value_ts
                      /\ prop[p].value_ts <= prop[p].change_ts
  /\ actual \in [Props -> Values] /\ known \in [Props -> Values \cup {None}]
  /\ Lists(properties, Observed, Props)
  /\ destroying => properties = <<>>
  /\ cur_property_index \in Nat /\ pos \in Nat /\ val \in Values \cup {None}
  /\ new_property_events \in BOOLEAN /\ has_pending_properties \in BOOLEAN
  /\ woken \in BOOLEAN /\ need_wakeup \in BOOLEAN /\ destroying \in BOOLEAN
  /\ choked \in BOOLEAN /\ list_changed \in BOOLEAN /\ hook_pending \in BOOLEAN

(* What the core reads with the lock dropped is still at its place, unless *)
(* the list has changed.                                                   *)
ReadOK ==
  /\ core # "read" => ~list_changed
  /\ core \in {"scan", "read"} => pos # 0
  /\ core = "read" /\ ~list_changed /\ ~destroying =>
       /\ pos \in DOMAIN properties
       /\ properties[pos] \notin Plain /\ ~UpToDate(properties[pos])

(* There is one hook event in the queue, until its handler returned.       *)
HookOK ==
  /\ \A i \in 1..Len(events) : events[i] = "hook" => hook = "sent"
  /\ \A i, j \in 1..Len(events) : events[i] = "hook" /\ events[j] = "hook" => i = j
  /\ hook_pending => HookFirst
  /\ user = "freed" => events = <<>>

(* Without new_property_events, the round-robin has passed nothing that is *)
(* to be told.                                                             *)
RoundOK ==
  ~new_property_events =>
    \A i \in DOMAIN properties : Ready(i) => cur_property_index < i

SleepOK ==
  user = "asleep" /\ ~need_wakeup =>
    \/ core \in {"scan", "read"} /\ new_property_events
    \/ /\ QueueHoldsNothing \/ (events = <<>> /\ AllReserved)
       /\ HookFirst => hook_pending
       /\ \A i \in DOMAIN properties : ~Ready(i)

NInv == ReplyInv /\ LifeInv /\ PropsOK /\ ReadOK /\ HookOK /\ RoundOK /\ SleepOK

(* What the user knows, and what the core has read, is what the timestamps *)
(* say of it, but for what was overtaken.                                  *)
ToldOK ==
  \A p \in Props :
    /\ p \notin Plain /\ ToldLast(p) => known[p] = prop[p].value
    /\ p \notin Plain /\ UpToDate(p) => prop[p].value = actual[p] \/ p \in overtaken
    /\ p \in Plain /\ UpToDate(p) /\ ToldLast(p) => known[p] = actual[p]

(* A property that is not up to date is before the core, or will be read;  *)
(* a change while the core reads asks it to look again.                    *)
ScanOK ==
  /\ \A i \in DOMAIN properties : ~UpToDate(properties[i]) =>
       \/ has_pending_properties
       \/ core = "scan" /\ pos <= i
       \/ core = "read" /\ (list_changed \/ pos <= i)
  /\ core # "run" /\ has_pending_properties /\ ~destroying => woken
  /\ core = "read" /\ ~list_changed /\ ~destroying =>
       val = actual[properties[pos]] \/ has_pending_properties

(* Once a hook is delayed, the changes that it waits for are marked.       *)
DelayOK ==
  /\ old \subseteq Observed
  /\ hook_pending => \A p \in old :
       known[p] # actual[p] => prop[p].waiting_for_hook \/ p \in overtaken

TInv == NInv /\ ToldOK /\ ScanOK /\ DelayOK

LEMMA ListedProps ==
  ASSUME Lists(properties, Observed, Props)
  PROVE  /\ properties \in Seq(Props) /\ Len(properties) \in Nat
         /\ DOMAIN properties = 1..Len(properties)
         /\ \A i \in DOMAIN properties : properties[i] \in Props /\ properties[i] \in Observed
         /\ Observed \subseteq Props
         /\ \A i, j \in DOMAIN properties : properties[i] = properties[j] => i = j
  BY LenProperties, ElementOfSeq DEF Lists, Observed, IsInjective

LEMMA InitNInv == Init => NInv
  <1> SUFFICES ASSUME Init PROVE NInv
    OBVIOUS
  <1>1. PropsOK
    <2>1. Observed = {}
      BY DEF Init, Observed
    <2>2. Lists(properties, Observed, Props)
      BY <2>1, EmptyLists DEF Init
    <2>3. actual \in [Props -> Values]
      BY SetsAssumption DEF Init
    <2>4. Fresh \in PropRecords
      BY DEF Fresh, PropRecords
    <2>5. prop \in [Props -> PropRecords]
      BY <2>4 DEF Init
    <2>6. \A p \in Props : /\ prop[p].value_ret_ts <= prop[p].value_ts
                           /\ prop[p].value_ts <= prop[p].change_ts
      BY DEF Init, Fresh
    <2>7. known \in [Props -> Values \cup {None}]
      BY DEF Init
    <2>8. /\ destroying => properties = <<>>
          /\ cur_property_index \in Nat /\ pos \in Nat /\ val \in Values \cup {None}
      BY DEF Init
    <2>9. /\ new_property_events \in BOOLEAN /\ has_pending_properties \in BOOLEAN
          /\ woken \in BOOLEAN /\ need_wakeup \in BOOLEAN /\ destroying \in BOOLEAN
          /\ choked \in BOOLEAN /\ list_changed \in BOOLEAN /\ hook_pending \in BOOLEAN
      BY DEF Init
    <2> QED BY <2>2, <2>3, <2>5, <2>6, <2>7, <2>8, <2>9 DEF PropsOK
  <1>2. ReadOK /\ HookOK /\ RoundOK /\ SleepOK
    BY DEF Init, ReadOK, HookOK, RoundOK, SleepOK
  <1> QED BY <1>1, <1>2, InitReply, InitLife DEF NInv

(* A step that changes neither what can be returned to the user nor how    *)
(* the properties are gone through.                                        *)
LEMMA QuietNInv ==
  ASSUME NInv,
         UNCHANGED <<properties, prop, actual, known, events, choked, hook_pending, destroying,
                     new_property_events, cur_property_index, list_changed>>,
         has_pending_properties' \in BOOLEAN, woken' \in BOOLEAN, need_wakeup' \in BOOLEAN,
         pos' \in Nat, val' \in Values \cup {None}, core' # "read" => ~list_changed,
         core' = "read" => core = "read" /\ pos' = pos, core' = "scan" => pos' # 0,
         hook' = hook \/ events = <<>> \/ hook # "sent",
         user' = "freed" => user = "freed",
         user' = "asleep" => user = "asleep" /\ reserved_events' = reserved_events,
         user' = "asleep" /\ ~need_wakeup' =>
           /\ ~need_wakeup
           /\ core \in {"scan", "read"} /\ new_property_events => core' \in {"scan", "read"}
  PROVE  PropsOK' /\ ReadOK' /\ HookOK' /\ RoundOK' /\ SleepOK'
  <1>1. Observed' = Observed
    BY DEF Observed
  <1>2. PropsOK'
    BY <1>1 DEF NInv, PropsOK
  <1>3. ReadOK'
    BY DEF NInv, ReadOK, UpToDate
  <1>4. HookOK'
    <2>1. events = <<>> => Len(events) = 0
      OBVIOUS
    <2> QED BY <2>1 DEF NInv, HookOK, HookFirst
  <1>5. RoundOK'
    BY DEF NInv, RoundOK, Ready, UpToDate, ToldLast
  <1>6. SleepOK'
    <2>1. Waiting' = Waiting
      BY <1>1 DEF Waiting, HookFirst, Untold
    <2> QED BY <2>1 DEF NInv, SleepOK, QueueHoldsNothing, HookFirst, Ready, UpToDate, ToldLast, AllReserved
  <1> QED BY <1>2, <1>3, <1>4, <1>5, <1>6

LEMMA CoreQuietNInv ==
  ASSUME NInv, LifeInv',
         \/ ScanStart \/ ScanEnd \/ CoreWakes \/ CoreTimesOut
         \/ \E p \in Props : ScanSkip(p)
  PROVE  PropsOK' /\ ReadOK' /\ HookOK' /\ RoundOK' /\ SleepOK'
  <1>1. UNCHANGED <<properties, prop, actual, known, events, choked, hook_pending, destroying,
                    new_property_events, cur_property_index, list_changed, user,
                    reserved_events, val>>
    BY DEF ScanStart, ScanEnd, CoreWakes, CoreTimesOut, ScanSkip, propVars,
           queueVars, userVars, hookVars, histVars
  <1>6. has_pending_properties' \in BOOLEAN /\ woken' \in BOOLEAN /\ need_wakeup' \in BOOLEAN
    <2>1. has_pending_properties \in BOOLEAN /\ woken \in BOOLEAN /\ need_wakeup \in BOOLEAN
      BY DEF NInv, PropsOK
    <2>2. woken' \in BOOLEAN /\ has_pending_properties' \in BOOLEAN
      BY <2>1 DEF ScanStart, ScanEnd, CoreWakes, CoreTimesOut, ScanSkip, propVars
    <2>3. need_wakeup' = need_wakeup \/ need_wakeup' = (need_wakeup \/ destroying \/ new_property_events)
      BY DEF ScanStart, ScanEnd, CoreWakes, CoreTimesOut, ScanSkip, userVars
    <2> QED BY <2>1, <2>2, <2>3
  <1>7. pos' \in Nat
    BY DEF ScanStart, ScanEnd, CoreWakes, CoreTimesOut, ScanSkip, NInv, PropsOK
  <1>2. core # "read" /\ core' # "read" /\ (core' = "scan" => pos' # 0)
    BY DEF NInv, PropsOK, ReadOK, ScanStart, ScanEnd, CoreWakes, CoreTimesOut, ScanSkip, AtProperty
  <1>3. hook' = hook \/ events = <<>>
    BY DEF ScanStart, ScanEnd, CoreWakes, CoreTimesOut, ScanSkip, hookVars, HookTestCompletion,
           HookHeld, NInv, HookOK
  <1>4. ~need_wakeup' =>
           /\ ~need_wakeup
           /\ core \in {"scan", "read"} /\ new_property_events => core' \in {"scan", "read"}
    BY DEF ScanStart, ScanEnd, CoreWakes, CoreTimesOut, ScanSkip, AtProperty, userVars
  <1>5. ~list_changed /\ val \in Values \cup {None}
    BY <1>2 DEF NInv, ReadOK, PropsOK
  <1> QED BY <1>1, <1>2, <1>3, <1>4, <1>5, <1>6, <1>7, QuietNInv

LEMMA UserQuietNInv ==
  ASSUME NInv,
         \/ HookContinue \/ UserTimesOut \/ UserWakes \/ UserDrains \/ AbortAsync
         \/ UNCHANGED vars
         \/ \E c \in Cmds : CommandAsync(c)
  PROVE  PropsOK' /\ ReadOK' /\ HookOK' /\ RoundOK' /\ SleepOK'
  <1>1. /\ UNCHANGED <<properties, prop, actual, known, events, choked, hook_pending, destroying,
                       new_property_events, cur_property_index, list_changed, core, pos, val,
                       has_pending_properties>>
        /\ woken' \in BOOLEAN /\ need_wakeup' \in BOOLEAN
    BY DEF NInv, PropsOK, HookContinue, UserTimesOut, UserWakes, UserDrains, AbortAsync,
           CommandAsync, vars, propVars, queueVars, userVars, hookVars, histVars, scanVars
  <1>2. hook' = hook \/ hook # "sent"
    BY DEF HookContinue, UserTimesOut, UserWakes, UserDrains, AbortAsync, CommandAsync, vars, hookVars
  <1>3. /\ user' = "freed" => user = "freed"
        /\ user' = "asleep" => user = "asleep" /\ reserved_events' = reserved_events
                               /\ (~need_wakeup' => ~need_wakeup)
    <2>1. CASE UserTimesOut \/ UserWakes \/ UserDrains \/ AbortAsync
      <3>1. user' # "freed" /\ user' # "asleep"
        BY <2>1 DEF UserTimesOut, UserWakes, UserDrains, AbortAsync, Goto
      <3> QED BY <3>1
    <2>2. CASE HookContinue \/ UNCHANGED vars
      BY <2>2 DEF HookContinue, vars, userVars, queueVars
    <2>3. ASSUME NEW c \in Cmds, CommandAsync(c) PROVE user' = user /\ user = "idle"
      BY <2>3 DEF CommandAsync, userVars
    <2> QED BY <2>1, <2>2, <2>3
  <1>4. (core # "read" => ~list_changed) /\ (core = "scan" => pos # 0)
    BY DEF NInv, ReadOK
  <1>5. pos \in Nat /\ val \in Values \cup {None} /\ has_pending_properties \in BOOLEAN
    BY DEF NInv, PropsOK
  <1> QED BY <1>1, <1>2, <1>3, <1>4, <1>5, QuietNInv

(* The core drops the lock to read a property.                             *)
LEMMA ScanReadNInv ==
  ASSUME NInv, NEW p \in Props, ScanRead(p)
  PROVE  PropsOK' /\ ReadOK' /\ HookOK' /\ RoundOK' /\ SleepOK'
  <1>1. /\ UNCHANGED <<properties, prop, actual, known, events, choked, hook_pending, destroying,
                       new_property_events, cur_property_index, list_changed, user, need_wakeup,
                       reserved_events, pos, hook, has_pending_properties, woken>>
        /\ core = "scan" /\ core' = "read" /\ val' = actual[p] /\ pos <= Len(properties)
        /\ p = properties[pos] /\ ~UpToDate(p) /\ p \notin Plain
    BY DEF ScanRead, AtProperty, propVars, queueVars, userVars, hookVars, histVars
  <1>2. PropsOK /\ Observed' = Observed
    BY <1>1 DEF Observed, NInv
  <1>3. PropsOK'
    BY <1>1, <1>2 DEF PropsOK
  <1>4. ReadOK'
    <2>1. pos \in DOMAIN properties
      <3>1. pos \in Nat /\ Len(properties) \in Nat /\ DOMAIN properties = 1..Len(properties)
        BY <1>2, ListedProps DEF PropsOK
      <3>2. pos # 0
        BY <1>1 DEF NInv, ReadOK
      <3> QED BY <1>1, <3>1, <3>2
    <2> QED BY <1>1, <2>1 DEF NInv, ReadOK, UpToDate
  <1>5. HookOK' /\ RoundOK'
    BY <1>1 DEF NInv, HookOK, HookFirst, RoundOK, Ready, UpToDate, ToldLast
  <1>6. SleepOK'
    <2>1. Waiting' = Waiting
      BY <1>1, <1>2 DEF Waiting, HookFirst, Untold
    <2> QED BY <1>1, <2>1
        DEF NInv, SleepOK, QueueHoldsNothing, HookFirst, Ready, UpToDate, ToldLast, AllReserved
  <1> QED BY <1>3, <1>4, <1>5, <1>6

(* A property has changed: nothing becomes ready to be told of it.         *)
LEMMA ChangeNInv ==
  ASSUME NInv, NEW p \in Props, NEW v \in Values, Change(p, v) \/ ForeignChange(p, v)
  PROVE  PropsOK' /\ ReadOK' /\ HookOK' /\ RoundOK' /\ SleepOK'
  <1>1. /\ UNCHANGED <<properties, known, events, choked, hook_pending, destroying,
                       new_property_events, cur_property_index, list_changed, user, need_wakeup,
                       reserved_events, core, pos, val, hook>>
        /\ has_pending_properties' = TRUE /\ woken' \in BOOLEAN
        /\ actual' = [actual EXCEPT ![p] = v]
        /\ prop' = [prop EXCEPT ![p].change_ts = @ + 1]
    BY DEF NInv, PropsOK, Change, ForeignChange, PropertyChange, queueVars, userVars, scanVars
  <1>2. PropsOK /\ Observed' = Observed
    BY <1>1 DEF Observed, NInv
  <1>3. \A q \in Props :
          /\ prop'[q].change_ts = IF q = p THEN prop[q].change_ts + 1 ELSE prop[q].change_ts
          /\ prop'[q].value_ts = prop[q].value_ts
          /\ prop'[q].value_ret_ts = prop[q].value_ret_ts
          /\ prop'[q].waiting_for_hook = prop[q].waiting_for_hook
    BY <1>1, <1>2 DEF PropsOK, PropRecords
  <1>4. PropsOK'
    <2>1. prop' \in [Props -> PropRecords]
      <3> DEFINE r == [prop[p] EXCEPT !.change_ts = prop[p].change_ts + 1]
      <3>1. prop[p] \in PropRecords
        BY <1>2 DEF PropsOK
      <3>2. prop' = [prop EXCEPT ![p] = r]
        BY <1>1
      <3>3. r \in PropRecords
        BY <3>1 DEF PropRecords
      <3> HIDE DEF r
      <3> QED BY <1>2, <3>2, <3>3 DEF PropsOK
    <2>2. \A q \in Props : /\ prop'[q].value_ret_ts <= prop'[q].value_ts
                           /\ prop'[q].value_ts <= prop'[q].change_ts
      BY <1>2, <1>3 DEF PropsOK, PropRecords
    <2>3. actual' \in [Props -> Values]
      BY <1>1, <1>2 DEF PropsOK
    <2> QED BY <1>1, <1>2, <2>1, <2>2, <2>3 DEF PropsOK
  <1>5. \A q \in Props : /\ UpToDate(q)' => UpToDate(q)
                         /\ ToldLast(q)' <=> ToldLast(q)
                         /\ Untold(q) => Untold(q)'
    <2> TAKE q \in Props
    <2>1. prop[q].value_ts \in Nat /\ prop[q].change_ts \in Nat /\ prop[q].value_ret_ts \in Nat
          /\ prop[q].value_ret_ts <= prop[q].value_ts /\ prop[q].value_ts <= prop[q].change_ts
      BY <1>2 DEF PropsOK, PropRecords
    <2> QED BY <1>3, <2>1 DEF UpToDate, ToldLast, Untold
  <1>6. \A i \in DOMAIN properties : properties[i] \in Props /\ (Ready(i)' => Ready(i))
    <2>1. \A i \in DOMAIN properties : properties[i] \in Props
      BY <1>2, ListedProps DEF PropsOK
    <2> QED BY <1>1, <1>5, <2>1 DEF Ready, UpToDate, ToldLast
  <1>7. ReadOK'
    <2>1. \A i \in DOMAIN properties : UpToDate(properties[i])' => UpToDate(properties[i])
      BY <1>1, <1>5, <1>6 DEF UpToDate
    <2> QED BY <1>1, <2>1 DEF NInv, ReadOK, UpToDate
  <1>8. HookOK'
    BY <1>1 DEF NInv, HookOK, HookFirst
  <1>9. RoundOK'
    BY <1>1, <1>6 DEF NInv, RoundOK
  <1>10. SleepOK'
    <2>1. Waiting \subseteq Waiting'
      <3>1. Observed \subseteq Props
        BY <1>2, ListedProps DEF PropsOK
      <3> QED BY <1>1, <1>2, <1>3, <1>5, <3>1 DEF Waiting, HookFirst
    <2>2. QueueHoldsNothing => QueueHoldsNothing'
      BY <1>1, <2>1 DEF QueueHoldsNothing, HookFirst
    <2> QED BY <1>1, <1>6, <2>2 DEF NInv, SleepOK, HookFirst, AllReserved
  <1> QED BY <1>4, <1>7, <1>8, <1>9, <1>10

(* What the core does with what it has read of p.                          *)
LEMMA CompareEffect ==
  ASSUME PropsOK, NEW p \in Props, NEW changed \in BOOLEAN, NEW v \in Values \cup {None},
         Compare(p, changed, v)
  PROVE  /\ prop' \in [Props -> PropRecords]
         /\ \A q \in Props : q # p => prop'[q] = prop[q]
         /\ prop'[p].change_ts = prop[p].change_ts
         /\ prop'[p].value = v /\ prop'[p].value_ts = prop[p].change_ts
         /\ prop'[p].value_ret_ts = IF ~changed /\ ToldLast(p) THEN prop[p].change_ts
                                                              ELSE prop[p].value_ret_ts
         /\ prop'[p].waiting_for_hook = (prop[p].waiting_for_hook /\ ~(~changed /\ ToldLast(p)))
         /\ new_property_events' = (new_property_events \/ prop[p].waiting_for_hook
                                      \/ ~(~changed /\ ToldLast(p)))
         /\ pos' = pos + 1
  <1> DEFINE same == ~changed /\ ToldLast(p)
             ts == prop[p].change_ts
             r == [change_ts |-> ts, value_ts |-> ts, value |-> v,
                   value_ret_ts |-> IF same THEN ts ELSE prop[p].value_ret_ts,
                   waiting_for_hook |-> prop[p].waiting_for_hook /\ ~same]
  <1>1. prop' = [prop EXCEPT ![p] = r]
    BY DEF Compare
  <1>2. prop[p] \in PropRecords
    BY DEF PropsOK
  <1>3. /\ r.change_ts = ts /\ r.value = v /\ r.value_ts = ts
        /\ r.value_ret_ts = IF same THEN ts ELSE prop[p].value_ret_ts
        /\ r.waiting_for_hook = (prop[p].waiting_for_hook /\ ~same)
        /\ r \in PropRecords
    <2>1. (prop[p].waiting_for_hook /\ ~same) \in BOOLEAN
      OBVIOUS
    <2> HIDE DEF same
    <2> QED BY <1>2, <2>1 DEF PropRecords
  <1>4. /\ new_property_events' = (new_property_events \/ prop[p].waiting_for_hook \/ ~same)
        /\ pos' = pos + 1
    BY DEF Compare
  <1> HIDE DEF r
  <1>5. prop'[p] = r /\ \A q \in Props : q # p => prop'[q] = prop[q]
    BY <1>1 DEF PropsOK
  <1>6. prop' \in [Props -> PropRecords]
    BY <1>1, <1>3 DEF PropsOK
  <1> QED BY <1>3, <1>4, <1>5, <1>6

LEMMA CompareNInv ==
  ASSUME NInv, core \in {"scan", "read"}, core' = "scan", list_changed' = FALSE,
         NEW p \in Props, NEW changed \in BOOLEAN, NEW v \in Values \cup {None},
         Compare(p, changed, v), ~UpToDate(p),
         val' \in Values \cup {None},
         UNCHANGED <<properties, actual, known, events, choked, hook_pending, destroying,
                     cur_property_index, user, need_wakeup, reserved_events, hook,
                     has_pending_properties, woken>>
  PROVE  PropsOK' /\ ReadOK' /\ HookOK' /\ RoundOK' /\ SleepOK'
  <1> DEFINE same == ~changed /\ ToldLast(p)
  <1>1. PropsOK /\ Observed' = Observed
    BY DEF Observed, NInv
  <1>2. /\ prop' \in [Props -> PropRecords]
        /\ \A q \in Props : q # p => prop'[q] = prop[q]
        /\ prop'[p].change_ts = prop[p].change_ts /\ prop'[p].value_ts = prop[p].change_ts
        /\ prop'[p].value_ret_ts = IF same THEN prop[p].change_ts ELSE prop[p].value_ret_ts
        /\ prop'[p].waiting_for_hook = (prop[p].waiting_for_hook /\ ~same)
        /\ new_property_events' = (new_property_events \/ prop[p].waiting_for_hook \/ ~same)
        /\ pos' = pos + 1
    BY <1>1, CompareEffect
  <1> HIDE DEF same
  <1>3. PropsOK'
    <2>1. /\ prop[p].value_ret_ts \in Nat /\ prop[p].value_ts \in Nat /\ prop[p].change_ts \in Nat
          /\ prop[p].value_ret_ts <= prop[p].value_ts /\ prop[p].value_ts <= prop[p].change_ts
      BY <1>1 DEF PropsOK, PropRecords
    <2>2. prop'[p].value_ret_ts <= prop'[p].value_ts /\ prop'[p].value_ts <= prop'[p].change_ts
      BY <1>2, <2>1
    <2>3. \A q \in Props : /\ prop'[q].value_ret_ts <= prop'[q].value_ts
                           /\ prop'[q].value_ts <= prop'[q].change_ts
      BY <1>1, <1>2, <2>2 DEF PropsOK
    <2>4. new_property_events' \in BOOLEAN /\ pos' \in Nat
      BY <1>1, <1>2 DEF PropsOK
    <2> QED BY <1>1, <1>2, <2>3, <2>4 DEF PropsOK
  <1>4. ReadOK'
    BY <1>1, <1>2 DEF ReadOK, PropsOK
  <1>5. HookOK'
    BY DEF NInv, HookOK, HookFirst
  <1>6. ~new_property_events' =>
          /\ same /\ ~prop[p].waiting_for_hook /\ ~prop'[p].waiting_for_hook
          /\ ~new_property_events
          /\ \A i \in DOMAIN properties : Ready(i)' => Ready(i)
    <2> SUFFICES ASSUME ~new_property_events'
                 PROVE  /\ same /\ ~prop[p].waiting_for_hook /\ ~prop'[p].waiting_for_hook
                        /\ ~new_property_events
                        /\ \A i \in DOMAIN properties : Ready(i)' => Ready(i)
      OBVIOUS
    <2>1. same /\ ~prop[p].waiting_for_hook /\ ~new_property_events
      BY <1>2
    <2>2. ~prop'[p].waiting_for_hook
      BY <1>2, <2>1
    <2>3. prop'[p].value_ret_ts = prop'[p].value_ts
      BY <1>2, <2>1
    <2>4. \A i \in DOMAIN properties : properties[i] \in Props
      BY <1>1, ListedProps DEF PropsOK
    <2>5. \A i \in DOMAIN properties : Ready(i)' => Ready(i)
      BY <1>2, <2>3, <2>4 DEF Ready, UpToDate, ToldLast
    <2> QED BY <2>1, <2>2, <2>5
  <1>7. RoundOK'
    BY <1>6 DEF NInv, RoundOK
  <1>8. SleepOK'
    <2> SUFFICES ASSUME user = "asleep", ~need_wakeup, ~new_property_events' PROVE SleepOK'
      BY DEF SleepOK
    <2>1. /\ QueueHoldsNothing \/ (events = <<>> /\ AllReserved)
          /\ HookFirst => hook_pending
          /\ \A i \in DOMAIN properties : ~Ready(i)
      BY <1>6 DEF NInv, SleepOK
    <2>2. Waiting \subseteq Waiting'
      <3>1. \A q \in Waiting : q \in Observed /\ prop[q].waiting_for_hook
        BY <2>1 DEF Waiting
      <3>2. Observed \subseteq Props
        BY <1>1, ListedProps DEF PropsOK
      <3>3. \A q \in Waiting : prop'[q].waiting_for_hook
        BY <1>2, <1>6, <3>1, <3>2
      <3> QED BY <1>1, <3>1, <3>3 DEF Waiting
    <2>3. QueueHoldsNothing => QueueHoldsNothing'
      BY <2>2 DEF QueueHoldsNothing, HookFirst
    <2> QED BY <1>6, <2>1, <2>3 DEF SleepOK, HookFirst, AllReserved
  <1> QED BY <1>3, <1>4, <1>5, <1>7, <1>8

LEMMA ScanNInv ==
  ASSUME NInv, ScanResume \/ \E p \in Props : ScanPlain(p)
  PROVE  PropsOK' /\ ReadOK' /\ HookOK' /\ RoundOK' /\ SleepOK'
  <1>0. PropsOK
    BY DEF NInv
  <1>1. ASSUME NEW p \in Props, ScanPlain(p)
        PROVE  PropsOK' /\ ReadOK' /\ HookOK' /\ RoundOK' /\ SleepOK'
    <2>1. /\ UNCHANGED <<properties, actual, known, events, choked, hook_pending, destroying,
                         cur_property_index, user, need_wakeup, reserved_events, hook,
                         has_pending_properties, woken, core, val, list_changed>>
          /\ core = "scan" /\ ~UpToDate(p) /\ Compare(p, TRUE, None)
      BY <1>1 DEF ScanPlain, AtProperty, queueVars, userVars, hookVars, histVars
    <2>2. list_changed = FALSE /\ val \in Values \cup {None}
      BY <1>0, <2>1 DEF NInv, ReadOK, PropsOK
    <2> QED BY <2>1, <2>2, CompareNInv
  <1>2. CASE ScanResume /\ (list_changed \/ destroying)
    <2>1. /\ UNCHANGED <<properties, prop, actual, known, events, choked, hook_pending, destroying,
                         new_property_events, cur_property_index, user, need_wakeup,
                         reserved_events, hook>>
          /\ core = "read" /\ core' = "scan" /\ list_changed' = FALSE /\ val' = None
          /\ pos' = Len(properties) + 1 /\ has_pending_properties' = TRUE /\ woken' = TRUE
      BY <1>2 DEF ScanResume, queueVars, userVars, hookVars, histVars
    <2>2. Observed' = Observed /\ Len(properties) \in Nat
      BY <1>0, <2>1, ListedProps DEF Observed, PropsOK
    <2>3. PropsOK'
      <3>1. pos' \in Nat /\ val' \in Values \cup {None}
        BY <2>1, <2>2
      <3>2. /\ list_changed' \in BOOLEAN /\ has_pending_properties' \in BOOLEAN
            /\ woken' \in BOOLEAN
        BY <2>1
      <3> QED BY <1>0, <2>1, <2>2, <3>1, <3>2 DEF PropsOK
    <2>4. ReadOK' /\ HookOK' /\ RoundOK'
      BY <2>1, <2>2 DEF NInv, ReadOK, HookOK, HookFirst, RoundOK, Ready, UpToDate, ToldLast
    <2>5. SleepOK'
      <3>1. Waiting' = Waiting
        BY <2>1, <2>2 DEF Waiting, HookFirst, Untold
      <3> QED BY <2>1, <3>1
          DEF NInv, SleepOK, QueueHoldsNothing, HookFirst, Ready, UpToDate, ToldLast, AllReserved
    <2> QED BY <2>3, <2>4, <2>5
  <1>3. CASE ScanResume /\ ~(list_changed \/ destroying)
    <2> DEFINE p == properties[pos]
               changed == prop[p].value_ts = 0 \/ prop[p].value # val
    <2>1. /\ UNCHANGED <<properties, actual, known, events, choked, hook_pending, destroying,
                         cur_property_index, user, need_wakeup, reserved_events, hook,
                         has_pending_properties, woken>>
          /\ core = "read" /\ core' = "scan" /\ list_changed' = FALSE /\ val' = None
          /\ Compare(p, changed, val)
      BY <1>3 DEF ScanResume, queueVars, userVars, hookVars, histVars
    <2>2. p \in Props /\ ~UpToDate(p) /\ val \in Values \cup {None} /\ changed \in BOOLEAN
      BY <1>0, <1>3, <2>1, ListedProps DEF NInv, ReadOK, PropsOK
    <2> HIDE DEF p, changed
    <2> QED BY <2>1, <2>2, CompareNInv
  <1> QED BY <1>1, <1>2, <1>3

(* An event at the end of the queue leaves what is first.                  *)
LEMMA AppendEvent ==
  ASSUME events \in Seq({"event", "hook"}), NEW e \in {"event", "hook"},
         events' = Append(events, e)
  PROVE  /\ Len(events) \in Nat /\ Len(events') = Len(events) + 1 /\ events' # <<>>
         /\ \A i \in 1..Len(events) : events'[i] = events[i]
         /\ events'[Len(events')] = e
         /\ events # <<>> => Head(events') = Head(events) /\ Head(events) = events[1]
                             /\ 1 \in 1..Len(events)
         /\ HookFirst => HookFirst'
  <1>1. /\ Len(events) \in Nat /\ Len(events') = Len(events) + 1 /\ events' # <<>>
        /\ \A i \in 1..Len(events) : events'[i] = events[i]
        /\ events'[Len(events')] = e
    OBVIOUS
  <1>2. ASSUME events # <<>>
        PROVE  Head(events') = Head(events) /\ Head(events) = events[1] /\ 1 \in 1..Len(events)
    BY <1>2, EmptySeq
  <1> QED BY <1>1, <1>2 DEF HookFirst

(* What is sent wakes the user, unless every place is taken: then the      *)
(* queue holds an event, or all places are reserved.                       *)
LEMMA SendEventNInv ==
  ASSUME NInv, NEW e \in {"event", "hook"}, NEW sent \in BOOLEAN, SendEvent(e, sent),
         e = "hook" => hook = "idle" /\ (sent => hook' = "sent"),
         e = "event" => hook' = hook,
         ~sent => hook' = hook \/ hook # "sent",
         user # "freed", woken' \in BOOLEAN,
         UNCHANGED <<properties, prop, actual, known, hook_pending, destroying,
                     new_property_events, cur_property_index, list_changed, core, pos, val,
                     has_pending_properties, user, reserved_events>>
  PROVE  PropsOK' /\ ReadOK' /\ HookOK' /\ RoundOK' /\ SleepOK'
  <1>0. events \in Seq({"event", "hook"}) /\ PropsOK /\ Observed' = Observed
    BY DEF NInv, ReplyInv, Observed
  <1>1. choked' = ~sent /\ sent = (~choked /\ Room)
    BY DEF SendEvent
  <1>2. PropsOK'
    <2>1. need_wakeup' \in BOOLEAN
      BY <1>0 DEF SendEvent, PropsOK
    <2> QED BY <1>0, <1>1, <2>1 DEF PropsOK
  <1>3. ReadOK' /\ RoundOK'
    BY DEF NInv, ReadOK, RoundOK, Ready, UpToDate, ToldLast
  <1>4. CASE sent
    <2>1. events' = Append(events, e) /\ need_wakeup' = TRUE
      BY <1>4, Zenon DEF SendEvent
    <2>2. HookOK'
      <3>1. CASE e = "event"
        <4>1. \A i \in 1..Len(events') :
                events'[i] = "hook" => i \in 1..Len(events) /\ events[i] = "hook"
          BY <1>0, <2>1, <3>1, AppendEvent
        <4>2. hook' = hook /\ user' = user
          BY <3>1
        <4>3. HookFirst => HookFirst'
          BY <1>0, <2>1, AppendEvent
        <4> QED BY <4>1, <4>2, <4>3 DEF NInv, HookOK
      <3>2. CASE e = "hook"
        <4>1. \A i \in 1..Len(events) : events[i] # "hook"
          BY <3>2 DEF NInv, HookOK
        <4>2. \A i \in 1..Len(events') : events'[i] = "hook" => i = Len(events')
          BY <1>0, <2>1, <4>1, AppendEvent
        <4>3. ~hook_pending
          BY <1>0, <2>1, <4>1, AppendEvent DEF NInv, HookOK, HookFirst
        <4>4. hook' = "sent"
          BY <1>4, <3>2
        <4> QED BY <4>2, <4>3, <4>4 DEF HookOK
      <3> QED BY <3>1, <3>2
    <2>3. SleepOK'
      BY <2>1 DEF SleepOK
    <2> QED BY <1>2, <1>3, <2>2, <2>3
  <1>5. CASE ~sent
    <2>1. events' = events /\ need_wakeup' = need_wakeup
      BY <1>5, Zenon DEF SendEvent
    <2>2. HookOK'
      <3>1. hook' = hook \/ \A i \in 1..Len(events) : events[i] # "hook"
        BY <1>5 DEF NInv, HookOK
      <3> QED BY <2>1, <3>1 DEF NInv, HookOK, HookFirst
    <2>3. events = <<>> /\ ~choked => AllReserved
      <3>1. events = <<>> => Len(events) = 0
        OBVIOUS
      <3>2. ~choked => ~Room
        BY <1>0, <1>1, <1>5, Zenon
      <3>3. events = <<>> /\ ~Room => AllReserved
        BY <3>1, BoundsAssumption DEF NInv, ReplyInv, Room, AllReserved
      <3> QED BY <3>2, <3>3
    <2>4. Waiting' = Waiting
      BY <1>0, <2>1 DEF Waiting, HookFirst, Untold
    <2>5. SleepOK'
      BY <2>1, <2>3, <2>4
      DEF NInv, SleepOK, QueueHoldsNothing, HookFirst, Ready, UpToDate, ToldLast, AllReserved
    <2> QED BY <1>2, <1>3, <2>2, <2>5
  <1> QED BY <1>4, <1>5

LEMMA EventNInv ==
  ASSUME NInv, Broadcast \/ HookStart
  PROVE  PropsOK' /\ ReadOK' /\ HookOK' /\ RoundOK' /\ SleepOK'
  <1>0. PropsOK
    BY DEF NInv
  <1>1. CASE Broadcast
    <2>1. PICK sent \in BOOLEAN : SendEvent("event", sent)
      BY <1>1 DEF Broadcast
    <2>2. /\ UNCHANGED <<properties, prop, actual, known, hook_pending, destroying,
                         new_property_events, cur_property_index, list_changed, core, pos, val,
                         has_pending_properties, user, reserved_events, hook, woken>>
          /\ user # "freed"
      BY <1>1 DEF Broadcast, scanVars, propVars, hookVars, histVars
    <2> QED BY <1>0, <2>1, <2>2, SendEventNInv DEF PropsOK
  <1>2. CASE HookStart
    <2>1. PICK sent \in BOOLEAN :
            /\ IF user = "freed" THEN ~sent /\ UNCHANGED <<events, choked, need_wakeup>>
                                 ELSE SendEvent("hook", sent)
            /\ hook' = IF sent THEN "sent" ELSE "removed"
            /\ woken' = (woken \/ ~sent)
      BY <1>2 DEF HookStart
    <2>2. /\ UNCHANGED <<properties, prop, actual, known, hook_pending, destroying,
                         new_property_events, cur_property_index, list_changed, core, pos, val,
                         has_pending_properties, user, reserved_events>>
          /\ hook = "idle"
      BY <1>2 DEF HookStart, scanVars, propVars, histVars
    <2>3. woken' \in BOOLEAN
      BY <2>1
    <2>4. CASE user = "freed"
      <3>1. UNCHANGED <<events, choked, need_wakeup>>
        BY <2>1, <2>4
      <3>2. /\ core # "read" => ~list_changed
            /\ core = "scan" => pos # 0
            /\ pos \in Nat /\ val \in Values \cup {None}
            /\ has_pending_properties \in BOOLEAN /\ need_wakeup \in BOOLEAN
        BY DEF NInv, ReadOK, PropsOK
      <3> QED BY <2>2, <2>3, <2>4, <3>1, <3>2, QuietNInv
    <2>5. CASE user # "freed"
      <3>1. SendEvent("hook", sent)
        BY <2>1, <2>5
      <3> QED BY <2>1, <2>2, <2>3, <2>5, <3>1, SendEventNInv
    <2> QED BY <2>4, <2>5
  <1> QED BY <1>1, <1>2

(* A reply wakes the user; when there are replies to come, the handle is   *)
(* not freed.                                                              *)
LEMMA ReplyNInv ==
  ASSUME NInv, ReplyInv', LifeInv', NEW c \in Cmds, RunRequest(c) \/ JobEnds(c)
  PROVE  PropsOK' /\ ReadOK' /\ HookOK' /\ RoundOK' /\ SleepOK'
  <1>1. /\ UNCHANGED <<properties, prop, actual, known, hook_pending, destroying, choked,
                       new_property_events, cur_property_index, list_changed, core, pos, val,
                       has_pending_properties, user, hook, woken>>
        /\ SendReply \/ UNCHANGED <<events, reserved_events, need_wakeup>>
    BY DEF RunRequest, JobEnds, scanVars, propVars, hookVars, histVars
  <1>2. /\ core # "read" => ~list_changed
        /\ core = "scan" => pos # 0
        /\ pos \in Nat /\ val \in Values \cup {None}
        /\ has_pending_properties \in BOOLEAN /\ need_wakeup \in BOOLEAN /\ woken \in BOOLEAN
    BY DEF NInv, ReadOK, PropsOK
  <1>3. CASE UNCHANGED <<events, reserved_events, need_wakeup>>
    BY <1>1, <1>2, <1>3, QuietNInv
  <1>4. CASE SendReply
    <2>1. /\ events' = Append(events, "event") /\ need_wakeup' = TRUE
          /\ reserved_events' = reserved_events - 1
          /\ events \in Seq({"event", "hook"}) /\ PropsOK /\ Observed' = Observed
      BY <1>1, <1>4 DEF SendReply, NInv, ReplyInv, Observed
    <2>2. user # "freed"
      <3>1. user = "freed" => reserved_events = 0 /\ reserved_events' = 0
        BY <1>1 DEF NInv, LifeInv
      <3> QED BY <2>1, <3>1
    <2>3. PropsOK' /\ ReadOK' /\ RoundOK' /\ SleepOK'
      BY <1>1, <2>1 DEF NInv, PropsOK, ReadOK, RoundOK, SleepOK, Ready, UpToDate, ToldLast
    <2>4. HookOK'
      <3>1. \A i \in 1..Len(events') :
              events'[i] = "hook" => i \in 1..Len(events) /\ events[i] = "hook"
        BY <2>1, AppendEvent
      <3>2. HookFirst => HookFirst'
        BY <2>1, AppendEvent
      <3> QED BY <1>1, <2>2, <3>1, <3>2 DEF NInv, HookOK
    <2> QED BY <2>3, <2>4
  <1> QED BY <1>1, <1>3, <1>4

(* The user observes a property, or no longer does.                        *)
LEMMA ObserveNInv ==
  ASSUME NInv, NEW p \in Props, Observe(p)
  PROVE  PropsOK' /\ ReadOK' /\ HookOK' /\ RoundOK' /\ SleepOK'
  <1>1. /\ UNCHANGED <<prop, actual, known, events, choked, hook_pending, destroying,
                       core, pos, val, user, need_wakeup, reserved_events, hook>>
        /\ properties' = Append(properties, p) /\ p \notin Observed /\ user = "idle"
        /\ new_property_events' = TRUE /\ cur_property_index' = 0
        /\ has_pending_properties' = TRUE /\ list_changed' = (core = "read") /\ woken' = TRUE
    BY DEF Observe, queueVars, scanVars, hookVars, userVars
  <1>2. Lists(properties', Observed \cup {p}, Props)
    BY <1>1, AppendLists DEF NInv, PropsOK
  <1>3. Lists(properties, Observed, Props)'
    <2>1. Observed' = Observed \cup {p}
      BY <1>2 DEF Lists, Observed, ToSet
    <2> QED BY <1>2, <2>1
  <1>4. PropsOK'
    <2>1. ~destroying'
      BY <1>1 DEF NInv, LifeInv
    <2> QED BY <1>1, <1>3, <2>1 DEF NInv, PropsOK
  <1>5. ReadOK' /\ HookOK' /\ RoundOK' /\ SleepOK'
    BY <1>1 DEF NInv, ReadOK, HookOK, HookFirst, RoundOK, SleepOK
  <1> QED BY <1>4, <1>5

LEMMA FreshIs ==
  /\ Fresh \in PropRecords
  /\ Fresh.value_ret_ts = 0 /\ Fresh.value_ts = 0 /\ Fresh.change_ts = 1 /\ Fresh.value = None
  BY DEF Fresh, PropRecords

LEMMA UnobserveNInv ==
  ASSUME NInv, NEW p \in Props, Unobserve(p)
  PROVE  PropsOK' /\ ReadOK' /\ HookOK' /\ RoundOK' /\ SleepOK'
  <1>1. /\ UNCHANGED <<actual, events, choked, hook_pending, destroying, new_property_events,
                       core, pos, val, user, need_wakeup, reserved_events, hook, woken,
                       has_pending_properties>>
        /\ user = "idle" /\ cur_property_index' = 0 /\ list_changed' = (core = "read")
        /\ prop' = [prop EXCEPT ![p] = Fresh] /\ known' = [known EXCEPT ![p] = None]
    BY DEF Unobserve, queueVars, scanVars, userVars
  <1>2. PICK i \in DOMAIN properties : properties[i] = p /\ properties' = RemoveAt(properties, i)
    BY DEF Unobserve
  <1>3. Lists(properties', Observed \ {p}, Props)
    BY <1>2, RemoveAtLists DEF NInv, PropsOK
  <1>4. Lists(properties, Observed, Props)'
    <2>1. Observed' = Observed \ {p}
      BY <1>3 DEF Lists, Observed, ToSet
    <2> QED BY <1>3, <2>1
  <1>5. PropsOK'
    <2>1. ~destroying'
      BY <1>1 DEF NInv, LifeInv
    <2>2. prop' \in [Props -> PropRecords] /\ known' \in [Props -> Values \cup {None}]
      BY <1>1, FreshIs DEF NInv, PropsOK
    <2>3. \A q \in Props : /\ prop'[q].value_ret_ts <= prop'[q].value_ts
                           /\ prop'[q].value_ts <= prop'[q].change_ts
      <3> TAKE q \in Props
      <3>1. prop'[q] = IF q = p THEN Fresh ELSE prop[q]
        BY <1>1 DEF NInv, PropsOK
      <3> QED BY <3>1, FreshIs DEF NInv, PropsOK
    <2>4. list_changed' \in BOOLEAN
      BY <1>1
    <2> QED BY <1>1, <1>4, <2>1, <2>2, <2>3, <2>4 DEF NInv, PropsOK
  <1>6. ReadOK' /\ HookOK' /\ SleepOK'
    BY <1>1 DEF NInv, ReadOK, HookOK, HookFirst, SleepOK
  <1>7. RoundOK'
    <2>1. DOMAIN properties' = 1..Len(properties') /\ Len(properties') \in Nat
      BY <1>3, LenProperties DEF Lists
    <2> QED BY <1>1, <2>1 DEF RoundOK
  <1> QED BY <1>5, <1>6, <1>7

(* mpv_wait_event() returns an event.                                      *)
LEMMA TakeEventNInv ==
  ASSUME NInv, UserTakesEvent \/ UserOverflows
  PROVE  PropsOK' /\ ReadOK' /\ HookOK' /\ RoundOK' /\ SleepOK'
  <1>1. /\ UNCHANGED <<properties, prop, actual, known, destroying, new_property_events,
                       cur_property_index, list_changed, core, pos, val, need_wakeup,
                       reserved_events, woken, has_pending_properties>>
        /\ user' = "idle" /\ choked' \in BOOLEAN
    BY DEF NInv, PropsOK, UserTakesEvent, UserOverflows, Goto, scanVars, propVars, histVars
  <1>2. Observed' = Observed
    BY <1>1 DEF Observed
  <1>3. HookOK' /\ hook_pending' \in BOOLEAN
    <2>1. CASE UserOverflows
      BY <1>1, <2>1 DEF UserOverflows, hookVars, NInv, HookOK, HookFirst, PropsOK
    <2>2. CASE UserTakesEvent
      <3>1. /\ events \in Seq({"event", "hook"}) /\ events # <<>> /\ events' = Tail(events)
            /\ Len(events) \in Nat /\ 1 \in 1..Len(events) /\ Head(events) = events[1]
            /\ Len(events') = Len(events) - 1
            /\ \A i \in 1..Len(events') : /\ i + 1 \in 1..Len(events) /\ i + 1 # 1
                                          /\ events'[i] = events[i + 1]
        BY <2>2, EmptySeq DEF UserTakesEvent, NInv, ReplyInv
      <3>2. \A i, j \in 1..Len(events') : i + 1 = j + 1 => i = j
        BY <3>1
      <3>3. \A i, j \in 1..Len(events') : events'[i] = "hook" /\ events'[j] = "hook" => i = j
        BY <3>1, <3>2 DEF NInv, HookOK
      <3>4. CASE HookFirst
        <4>1. hook_pending' = FALSE /\ events[1] = "hook"
          BY <2>2, <3>1, <3>4 DEF UserTakesEvent, HookFirst
        <4>2. \A i \in 1..Len(events') : events'[i] # "hook"
          BY <3>1, <4>1 DEF NInv, HookOK
        <4>3. user' # "freed"
          BY <1>1
        <4> QED BY <3>3, <4>1, <4>2, <4>3 DEF HookOK
      <3>5. CASE ~HookFirst
        <4>1. UNCHANGED <<hook, hook_pending>> /\ ~hook_pending
          BY <2>2, <3>5 DEF UserTakesEvent, hookVars, NInv, HookOK
        <4>2. \A i \in 1..Len(events') : events'[i] = "hook" => hook' = "sent"
          BY <3>1, <4>1 DEF NInv, HookOK
        <4>3. user' # "freed" /\ hook_pending' \in BOOLEAN
          BY <1>1, <4>1 DEF NInv, PropsOK
        <4> QED BY <3>3, <4>1, <4>2, <4>3 DEF HookOK
      <3> QED BY <3>4, <3>5
    <2> QED BY <2>1, <2>2
  <1>4. PropsOK'
    BY <1>1, <1>2, <1>3 DEF NInv, PropsOK
  <1>5. ReadOK' /\ RoundOK' /\ SleepOK'
    BY <1>1 DEF NInv, ReadOK, RoundOK, SleepOK, Ready, UpToDate, ToldLast
  <1> QED BY <1>3, <1>4, <1>5

(* The flags are set; the rest of the properties is left alone.            *)
LEMMA MarkWaitingIs ==
  ASSUME PropsOK
  PROVE  /\ MarkWaiting(prop) \in [Props -> PropRecords]
         /\ \A q \in Props :
              /\ MarkWaiting(prop)[q].change_ts = prop[q].change_ts
              /\ MarkWaiting(prop)[q].value_ts = prop[q].value_ts
              /\ MarkWaiting(prop)[q].value_ret_ts = prop[q].value_ret_ts
              /\ MarkWaiting(prop)[q].value = prop[q].value
              /\ prop[q].waiting_for_hook \/ q \in Waiting => MarkWaiting(prop)[q].waiting_for_hook
  <1> DEFINE w(q) == IF q \in Observed THEN prop[q].waiting_for_hook \/ q \in Waiting
                                       ELSE prop[q].waiting_for_hook
             r(q) == [prop[q] EXCEPT !.waiting_for_hook = w(q)]
  <1>1. MarkWaiting(prop) = [q \in Props |-> r(q)]
    BY DEF MarkWaiting
  <1>2. ASSUME NEW q \in Props
        PROVE  /\ r(q) \in PropRecords /\ r(q).change_ts = prop[q].change_ts
               /\ r(q).value_ts = prop[q].value_ts /\ r(q).value_ret_ts = prop[q].value_ret_ts
               /\ r(q).value = prop[q].value
               /\ prop[q].waiting_for_hook \/ q \in Waiting => r(q).waiting_for_hook
    <2>1. prop[q] \in PropRecords
      BY DEF PropsOK
    <2>2. prop[q].waiting_for_hook \in BOOLEAN
      BY <2>1 DEF PropRecords
    <2>3. w(q) \in BOOLEAN /\ (prop[q].waiting_for_hook \/ q \in Waiting => w(q))
      BY <2>2 DEF Waiting
    <2> HIDE DEF w
    <2> QED BY <2>1, <2>3 DEF PropRecords
  <1> HIDE DEF r
  <1> QED BY <1>1, <1>2

(* mpv_wait_event() returns a change: the round-robin stops behind it.     *)
LEMMA TakeChangeIs ==
  ASSUME PropsOK, UserTakesChange
  PROVE  \E i \in DOMAIN properties : \E p \in Props :
           /\ p = properties[i] /\ Ready(i)
           /\ prop' \in [Props -> PropRecords]
           /\ \A q \in Props :
                /\ prop'[q].change_ts = prop[q].change_ts
                /\ prop'[q].value_ts = prop[q].value_ts
                /\ prop'[q].value_ret_ts = IF q = p THEN prop[q].value_ts ELSE prop[q].value_ret_ts
                /\ prop'[q].value = prop[q].value
                /\ q # p /\ (prop[q].waiting_for_hook \/ q \in Waiting) => prop'[q].waiting_for_hook
           /\ known' = [known EXCEPT ![p] = IF p \in Plain THEN actual[p] ELSE prop[p].value]
           /\ cur_property_index' = i
           /\ \/ /\ new_property_events' = new_property_events
                 /\ \A j \in DOMAIN properties : Ready(j) => j <= cur_property_index \/ i <= j
              \/ \A j \in DOMAIN properties : Ready(j) => i <= j
  <1> DEFINE ahead == ReadyFrom(cur_property_index + 1)
             again == IF new_property_events THEN ReadyFrom(1) ELSE {}
             candidates == IF ahead # {} THEN ahead ELSE again
             m == MarkWaiting(prop)
  <1>1. PICK i \in candidates : \E p \in {properties[i]} :
          /\ \A j \in candidates : i <= j
          /\ cur_property_index' = i
          /\ new_property_events' = (new_property_events /\ ahead # {})
          /\ prop' = [m EXCEPT ![p].value_ret_ts = prop[p].value_ts, ![p].waiting_for_hook = FALSE]
          /\ known' = [known EXCEPT ![p] = IF p \in Plain THEN actual[p] ELSE prop[p].value]
    BY DEF UserTakesChange
  <1> DEFINE p == properties[i]
  <1>2. i \in DOMAIN properties /\ Ready(i)
    BY <1>1 DEF ReadyFrom
  <1>3. DOMAIN properties = 1..Len(properties) /\ Len(properties) \in Nat /\ p \in Props
    BY <1>2, ListedProps DEF PropsOK
  <1>4. \/ /\ new_property_events' = new_property_events
           /\ \A j \in DOMAIN properties : Ready(j) => j <= cur_property_index \/ i <= j
        \/ \A j \in DOMAIN properties : Ready(j) => i <= j
    <2>1. CASE ahead # {}
      <3>1. new_property_events' = new_property_events
        BY <1>1, <2>1 DEF PropsOK
      <3>2. \A j \in ahead : i <= j
        BY <1>1, <2>1
      <3>3. \A j \in DOMAIN properties : j <= cur_property_index \/ j >= cur_property_index + 1
        BY <1>3 DEF PropsOK
      <3> QED BY <3>1, <3>2, <3>3 DEF ReadyFrom
    <2>2. CASE ahead = {}
      <3>1. \A j \in ReadyFrom(1) : i <= j
        BY <1>1, <2>2
      <3>2. \A j \in DOMAIN properties : j >= 1
        BY <1>3
      <3> QED BY <3>1, <3>2 DEF ReadyFrom
    <2> QED BY <2>1, <2>2
  <1>5. /\ prop' \in [Props -> PropRecords]
        /\ \A q \in Props :
             /\ prop'[q].change_ts = prop[q].change_ts
             /\ prop'[q].value_ts = prop[q].value_ts
             /\ prop'[q].value_ret_ts = IF q = p THEN prop[q].value_ts ELSE prop[q].value_ret_ts
             /\ prop'[q].value = prop[q].value
             /\ q # p /\ (prop[q].waiting_for_hook \/ q \in Waiting) => prop'[q].waiting_for_hook
    <2>1. prop' = [m EXCEPT ![p].value_ret_ts = prop[p].value_ts, ![p].waiting_for_hook = FALSE]
      BY <1>1
    <2>2. prop[p].value_ts \in Nat
      BY <1>3 DEF PropsOK, PropRecords
    <2>3. /\ m \in [Props -> PropRecords]
          /\ \A q \in Props :
               /\ m[q].change_ts = prop[q].change_ts /\ m[q].value_ts = prop[q].value_ts
               /\ m[q].value_ret_ts = prop[q].value_ret_ts /\ m[q].value = prop[q].value
               /\ prop[q].waiting_for_hook \/ q \in Waiting => m[q].waiting_for_hook
      BY MarkWaitingIs
    <2> DEFINE r == [m[p] EXCEPT !.value_ret_ts = prop[p].value_ts, !.waiting_for_hook = FALSE]
    <2> HIDE DEF m, p
    <2>4. prop' = [m EXCEPT ![p] = r]
      BY <1>3, <2>1, <2>3 DEF PropRecords
    <2>5. /\ r \in PropRecords /\ r.change_ts = m[p].change_ts /\ r.value_ts = m[p].value_ts
          /\ r.value = m[p].value /\ r.value_ret_ts = prop[p].value_ts
      BY <1>3, <2>2, <2>3 DEF PropRecords
    <2> HIDE DEF r
    <2>6. prop' \in [Props -> PropRecords]
      BY <1>3, <2>3, <2>4, <2>5
    <2>7. \A q \in Props : prop'[q] = IF q = p THEN r ELSE m[q]
      BY <2>3, <2>4
    <2> QED BY <2>3, <2>5, <2>6, <2>7
  <1>6. /\ known' = [known EXCEPT ![p] = IF p \in Plain THEN actual[p] ELSE prop[p].value]
        /\ cur_property_index' = i
    BY <1>1
  <1> HIDE DEF p
  <1> QED BY <1>2, <1>3, <1>4, <1>5, <1>6 DEF p

LEMMA TakeChangeNInv ==
  ASSUME NInv, UserTakesChange
  PROVE  PropsOK' /\ ReadOK' /\ HookOK' /\ RoundOK' /\ SleepOK'
  <1>1. /\ UNCHANGED <<properties, actual, events, choked, destroying, list_changed, core, pos,
                       val, need_wakeup, reserved_events, woken, has_pending_properties, hook>>
        /\ user' = "idle" /\ hook_pending' = HookFirst
        /\ new_property_events' \in BOOLEAN
    BY DEF UserTakesChange, Goto, queueVars, scanVars
  <1>2. Observed' = Observed /\ PropsOK
    BY <1>1 DEF NInv, Observed
  <1>3. PICK i \in DOMAIN properties : \E p \in Props :
           /\ p = properties[i] /\ Ready(i)
           /\ prop' \in [Props -> PropRecords]
           /\ \A q \in Props :
                /\ prop'[q].change_ts = prop[q].change_ts
                /\ prop'[q].value_ts = prop[q].value_ts
                /\ prop'[q].value_ret_ts = IF q = p THEN prop[q].value_ts ELSE prop[q].value_ret_ts
           /\ known' = [known EXCEPT ![p] = IF p \in Plain THEN actual[p] ELSE prop[p].value]
           /\ cur_property_index' = i
           /\ \/ /\ new_property_events' = new_property_events
                 /\ \A j \in DOMAIN properties : Ready(j) => j <= cur_property_index \/ i <= j
              \/ \A j \in DOMAIN properties : Ready(j) => i <= j
    BY <1>2, TakeChangeIs
  <1> DEFINE p == properties[i]
  <1>4. /\ p \in Props /\ prop' \in [Props -> PropRecords]
        /\ \A q \in Props :
             /\ prop'[q].change_ts = prop[q].change_ts
             /\ prop'[q].value_ts = prop[q].value_ts
             /\ prop'[q].value_ret_ts = IF q = p THEN prop[q].value_ts ELSE prop[q].value_ret_ts
        /\ known' = [known EXCEPT ![p] = IF p \in Plain THEN actual[p] ELSE prop[p].value]
        /\ cur_property_index' = i
    BY <1>3
  <1>5. /\ DOMAIN properties = 1..Len(properties) /\ Len(properties) \in Nat
        /\ \A j \in DOMAIN properties : properties[j] \in Props /\ (properties[j] = p => j = i)
    BY <1>2, ListedProps DEF PropsOK
  <1> HIDE DEF p
  <1>6. PropsOK'
    <2>1. \A q \in Props : /\ prop'[q].value_ret_ts <= prop'[q].value_ts
                           /\ prop'[q].value_ts <= prop'[q].change_ts
      <3> TAKE q \in Props
      <3>1. /\ prop[q].value_ts \in Nat /\ prop[q].value_ret_ts <= prop[q].value_ts
            /\ prop[q].value_ts <= prop[q].change_ts
        BY <1>2 DEF PropsOK, PropRecords
      <3> QED BY <1>4, <3>1
    <2>2. known' \in [Props -> Values \cup {None}]
      <3>1. prop[p].value \in Values \cup {None} /\ actual[p] \in Values
        BY <1>2, <1>4 DEF PropsOK, PropRecords
      <3> QED BY <1>2, <1>4, <3>1 DEF PropsOK
    <2>3. cur_property_index' \in Nat /\ hook_pending' \in BOOLEAN
      BY <1>1, <1>4, <1>5 DEF HookFirst
    <2> QED BY <1>1, <1>2, <1>4, <2>1, <2>2, <2>3 DEF PropsOK
  <1>7. ReadOK'
    <2>1. \A j \in DOMAIN properties : UpToDate(properties[j])' <=> UpToDate(properties[j])
      BY <1>1, <1>4, <1>5 DEF UpToDate
    <2> QED BY <1>1, <2>1 DEF NInv, ReadOK
  <1>8. HookOK' /\ SleepOK'
    BY <1>1 DEF NInv, HookOK, HookFirst, SleepOK
  <1>9. RoundOK'
    <2> SUFFICES ASSUME ~new_property_events', NEW j \in DOMAIN properties, Ready(j)'
                 PROVE  cur_property_index' < j
      BY <1>1 DEF RoundOK
    <2>1. properties[j] # p /\ j # i /\ Ready(j)
      <3>1. properties[j] \in Props /\ ~(prop'[properties[j]].value_ret_ts = prop'[properties[j]].value_ts)
            /\ prop'[properties[j]].value_ts = prop'[properties[j]].change_ts
        BY <1>1, <1>5 DEF Ready, UpToDate, ToldLast
      <3>2. properties[j] # p
        BY <1>4, <3>1
      <3> QED BY <1>4, <3>1, <3>2 DEF Ready, UpToDate, ToldLast, p
    <2>2. i \in Nat /\ j \in Nat
      BY <1>5
    <2>3. i <= j
      <3>1. CASE new_property_events' = new_property_events
        <4>1. ~(j <= cur_property_index)
          BY <1>2, <2>1, <2>2, <3>1 DEF NInv, RoundOK, PropsOK
        <4> QED BY <1>3, <2>1, <4>1
      <3> QED BY <1>3, <2>1, <3>1
    <2> QED BY <1>4, <2>1, <2>2, <2>3
  <1> QED BY <1>6, <1>7, <1>8, <1>9

(* mpv_wait_event() goes to sleep: there is nothing to be told.            *)
LEMMA SleepsNInv ==
  ASSUME NInv, UserSleeps
  PROVE  PropsOK' /\ ReadOK' /\ HookOK' /\ RoundOK' /\ SleepOK'
  <1>1. /\ UNCHANGED <<properties, actual, known, events, choked, destroying, list_changed, core,
                       pos, val, need_wakeup, reserved_events, woken, has_pending_properties, hook>>
        /\ user' = "asleep" /\ hook_pending' = HookFirst /\ QueueHoldsNothing
        /\ new_property_events' = FALSE /\ cur_property_index' = Len(properties)
        /\ prop' = MarkWaiting(prop)
        /\ ReadyFrom(IF new_property_events THEN 1 ELSE cur_property_index + 1) = {}
    BY DEF UserSleeps, Goto, queueVars, scanVars, histVars
  <1>2. Observed' = Observed /\ PropsOK
    BY <1>1 DEF NInv, Observed
  <1>3. /\ prop' \in [Props -> PropRecords]
        /\ \A q \in Props : /\ prop'[q].change_ts = prop[q].change_ts
                            /\ prop'[q].value_ts = prop[q].value_ts
                            /\ prop'[q].value_ret_ts = prop[q].value_ret_ts
                            /\ q \in Waiting => prop'[q].waiting_for_hook
    BY <1>1, <1>2, MarkWaitingIs
  <1>4. /\ DOMAIN properties = 1..Len(properties) /\ Len(properties) \in Nat
        /\ \A j \in DOMAIN properties : properties[j] \in Props
        /\ Observed \subseteq Props
    BY <1>2, ListedProps DEF PropsOK
  <1>5. PropsOK'
    <2>1. \A q \in Props : /\ prop'[q].value_ret_ts <= prop'[q].value_ts
                           /\ prop'[q].value_ts <= prop'[q].change_ts
      BY <1>2, <1>3 DEF PropsOK
    <2>2. cur_property_index' \in Nat /\ hook_pending' \in BOOLEAN
      BY <1>1, <1>4 DEF HookFirst
    <2> QED BY <1>1, <1>2, <1>3, <2>1, <2>2 DEF PropsOK
  <1>6. ReadOK'
    BY <1>1, <1>3, <1>4 DEF NInv, ReadOK, UpToDate
  <1>7. HookOK'
    BY <1>1 DEF NInv, HookOK, HookFirst
  <1>8. \A j \in DOMAIN properties : ~Ready(j) /\ ~Ready(j)'
    <2>1. \A j \in DOMAIN properties : ~Ready(j)
      <3>1. CASE new_property_events
        BY <1>1, <1>4, <3>1 DEF ReadyFrom
      <3>2. CASE ~new_property_events
        <4>1. \A j \in DOMAIN properties : Ready(j) => j >= cur_property_index + 1
          BY <1>2, <1>4, <3>2 DEF NInv, RoundOK, PropsOK
        <4> QED BY <1>1, <3>2, <4>1 DEF ReadyFrom
      <3> QED BY <3>1, <3>2
    <2> QED BY <1>1, <1>3, <1>4, <2>1 DEF Ready, UpToDate, ToldLast
  <1>9. RoundOK'
    BY <1>1, <1>8 DEF RoundOK
  <1>10. SleepOK'
    <2>1. Waiting \subseteq Waiting'
      BY <1>2, <1>3, <1>4 DEF Waiting
    <2>2. QueueHoldsNothing'
      BY <1>1, <2>1 DEF QueueHoldsNothing, HookFirst
    <2> QED BY <1>1, <1>8, <2>2 DEF SleepOK, HookFirst
  <1> QED BY <1>5, <1>6, <1>7, <1>9, <1>10

LEMMA EndNInv ==
  ASSUME NInv, Destroy \/ FreeHandle
  PROVE  PropsOK' /\ ReadOK' /\ HookOK' /\ RoundOK' /\ SleepOK'
  <1>0. <<>> \in Seq(Props) /\ DOMAIN <<>> = {} /\ Lists(<<>>, {}, Props)
    BY EmptyLists
  <1>1. CASE Destroy
    <2>1. /\ UNCHANGED <<actual, events, choked, hook_pending, new_property_events,
                         cur_property_index, core, pos, val, need_wakeup, woken,
                         has_pending_properties, hook>>
          /\ destroying' = TRUE /\ properties' = <<>> /\ list_changed' = (core = "read")
          /\ prop' = [p \in Props |-> Fresh] /\ known' = [p \in Props |-> None]
          /\ user' = "abort"
      BY <1>1 DEF Destroy, Goto, queueVars, scanVars
    <2>2. Observed' = {}
      BY <2>1 DEF Observed
    <2>3. PropsOK'
      <3>1. prop' \in [Props -> PropRecords] /\ known' \in [Props -> Values \cup {None}]
        BY <2>1, FreshIs
      <3>2. \A q \in Props : /\ prop'[q].value_ret_ts <= prop'[q].value_ts
                             /\ prop'[q].value_ts <= prop'[q].change_ts
        BY <2>1, FreshIs
      <3>3. Lists(properties, Observed, Props)'
        BY <1>0, <2>1, <2>2
      <3>4. list_changed' \in BOOLEAN
        BY <2>1
      <3> QED BY <2>1, <3>1, <3>2, <3>3, <3>4 DEF NInv, PropsOK
    <2> QED BY <1>0, <2>1, <2>3 DEF NInv, ReadOK, HookOK, HookFirst, RoundOK, SleepOK
  <1>2. CASE FreeHandle
    <2>1. /\ UNCHANGED <<actual, properties, prop, known, core, pos, val, hook, destroying>>
          /\ events' = <<>> /\ choked' = FALSE /\ need_wakeup' = FALSE /\ hook_pending' = FALSE
          /\ has_pending_properties' = FALSE /\ new_property_events' = FALSE
          /\ cur_property_index' = 0 /\ list_changed' = FALSE /\ woken' = TRUE
          /\ user = "remove" /\ user' = "freed"
      BY <1>2 DEF FreeHandle, Free, Goto, scanVars, histVars
    <2>2. /\ Observed' = Observed /\ destroying /\ properties = <<>>
          /\ core \notin {"scan", "read"} /\ Len(events') = 0
      BY <2>1 DEF NInv, PropsOK, LifeInv, CoreFree, Observed
    <2>3. PropsOK'
      BY <2>1, <2>2 DEF NInv, PropsOK
    <2> QED BY <1>0, <2>1, <2>2, <2>3 DEF NInv, ReadOK, HookOK, RoundOK, SleepOK
  <1> QED BY <1>1, <1>2

LEMMA NextNInv == NInv /\ [Next]_vars => NInv'
  <1> SUFFICES ASSUME NInv, [Next]_vars PROVE NInv'
    OBVIOUS
  <1>1. ReplyInv' /\ LifeInv'
    BY StepReply, StepLife DEF NInv
  <1>2. PropsOK' /\ ReadOK' /\ HookOK' /\ RoundOK' /\ SleepOK'
    BY <1>1, CoreQuietNInv, UserQuietNInv, ScanReadNInv, ChangeNInv, ScanNInv, EventNInv,
       ReplyNInv, ObserveNInv, UnobserveNInv, TakeEventNInv, TakeChangeNInv, SleepsNInv, EndNInv
    DEF Next, CoreStep, UserReturns, UserPolls, UserCalls
  <1> QED BY <1>1, <1>2 DEF NInv

(* A user who sleeps in mpv_wait_event() and whom nobody is waking has no  *)
(* event, no hook and no change to get, whatever the core and the other    *)
(* threads send, read and change meanwhile.                                *)
THEOREM SleepersMissNothing == Spec => []NothingMissed
  <1>1. NInv => NothingMissed
    BY DEF NInv, SleepOK, NothingMissed, CoreFree, ReadyFrom
  <1> QED BY InitNInv, NextNInv, <1>1, PTL DEF Spec

(* An untold change shows in the timestamps.                               *)
LEMMA ToldWhatIs ==
  ASSUME PropsOK, ToldOK, NEW p \in Props, ~Untold(p)
  PROVE  known[p] = actual[p] \/ p \in overtaken
  <1>1. /\ prop[p].value_ts \in Nat /\ prop[p].change_ts \in Nat /\ prop[p].value_ret_ts \in Nat
        /\ prop[p].value_ret_ts <= prop[p].value_ts /\ prop[p].value_ts <= prop[p].change_ts
    BY DEF PropsOK, PropRecords
  <1>2. UpToDate(p) /\ ToldLast(p)
    BY <1>1 DEF Untold, UpToDate, ToldLast
  <1> QED BY <1>2 DEF ToldOK

LEMMA InitTInv == Init => TInv
  <1> SUFFICES ASSUME Init PROVE TInv
    OBVIOUS
  <1>1. ToldOK
    <2>1. \A p \in Props : prop[p] = Fresh /\ known[p] = None
      BY DEF Init
    <2> QED BY <2>1, FreshIs DEF ToldOK, UpToDate, ToldLast
  <1>2. ScanOK /\ DelayOK
    BY DEF Init, ScanOK, DelayOK
  <1> QED BY <1>1, <1>2, InitNInv DEF TInv

(* A step that leaves the properties and the place of the core alone.      *)
LEMMA QuietTInv ==
  ASSUME TInv,
         UNCHANGED <<properties, prop, actual, known, overtaken, list_changed, destroying, core,
                     pos, val, has_pending_properties>>,
         woken => woken',
         old' \subseteq Observed, hook_pending' => hook_pending /\ old' = old
  PROVE  ToldOK' /\ ScanOK' /\ DelayOK'
  <1>1. Observed' = Observed
    BY DEF Observed
  <1>2. ToldOK'
    BY DEF TInv, ToldOK, UpToDate, ToldLast
  <1>3. ScanOK'
    BY DEF TInv, ScanOK, UpToDate
  <1>4. DelayOK'
    BY <1>1 DEF TInv, DelayOK
  <1> QED BY <1>2, <1>3, <1>4

LEMMA OthersTInv ==
  ASSUME TInv,
         \/ HookContinue \/ UserTimesOut \/ UserWakes \/ UserDrains \/ AbortAsync
         \/ UserOverflows \/ UserTakesEvent \/ Broadcast \/ HookStart \/ UNCHANGED vars
         \/ \E c \in Cmds : CommandAsync(c) \/ RunRequest(c) \/ JobEnds(c)
  PROVE  ToldOK' /\ ScanOK' /\ DelayOK'
  <1>1. UNCHANGED <<properties, prop, actual, known, overtaken, list_changed, destroying, core,
                    pos, val, has_pending_properties>>
    BY DEF HookContinue, UserTimesOut, UserWakes, UserDrains, AbortAsync, UserOverflows,
           UserTakesEvent, Broadcast, HookStart, CommandAsync, RunRequest, JobEnds, vars, queueVars,
           propVars, scanVars, userVars, histVars
  <1>2. woken => woken'
    BY DEF HookContinue, UserTimesOut, UserWakes, UserDrains, AbortAsync, UserOverflows,
           UserTakesEvent, Broadcast, HookStart, CommandAsync, RunRequest, JobEnds, vars
  <1>3. old \subseteq Observed
    BY DEF TInv, DelayOK
  <1>4. old' \subseteq Observed /\ (hook_pending' => hook_pending /\ old' = old)
    <2>1. CASE HookStart
      <3>1. hook = "idle" /\ hook_pending' = hook_pending
        BY <2>1 DEF HookStart
      <3>2. ~hook_pending
        <4>1. HookFirst => events[1] = "hook" /\ 1 \in 1..Len(events)
          BY EmptySeq DEF HookFirst, TInv, NInv, ReplyInv
        <4> QED BY <3>1, <4>1 DEF TInv, NInv, HookOK
      <3>3. old' \subseteq Observed
        BY <2>1 DEF HookStart
      <3> QED BY <3>1, <3>2, <3>3
    <2>2. CASE UserTakesEvent
      <3>1. CASE HookFirst
        BY <2>2, <3>1 DEF UserTakesEvent
      <3>2. CASE ~HookFirst
        BY <1>3, <2>2, <3>2 DEF UserTakesEvent, hookVars
      <3> QED BY <3>1, <3>2
    <2>3. CASE ~HookStart /\ ~UserTakesEvent
      <3>1. UNCHANGED <<hook_pending, old>>
        BY <2>3 DEF HookContinue, UserTimesOut, UserWakes, UserDrains, AbortAsync, UserOverflows,
               Broadcast, CommandAsync, RunRequest, JobEnds, vars, hookVars
      <3> QED BY <1>3, <3>1
    <2> QED BY <2>1, <2>2, <2>3
  <1> QED BY <1>1, <1>2, <1>4, QuietTInv

(* The core goes its way through the list.                                 *)
LEMMA CoreTInv ==
  ASSUME TInv,
         \/ ScanStart \/ ScanEnd \/ CoreWakes \/ CoreTimesOut
         \/ \E p \in Props : ScanSkip(p) \/ ScanRead(p)
  PROVE  ToldOK' /\ ScanOK' /\ DelayOK'
  <1>1. UNCHANGED <<properties, prop, actual, known, overtaken, list_changed, destroying,
                    hook_pending, old>>
    BY DEF ScanStart, ScanEnd, CoreWakes, CoreTimesOut, ScanSkip, ScanRead, propVars, hookVars,
           userVars, histVars
  <1>2. Observed' = Observed /\ PropsOK /\ ScanOK
    BY <1>1 DEF Observed, TInv, NInv
  <1>3. ToldOK' /\ DelayOK'
    BY <1>1, <1>2 DEF TInv, ToldOK, DelayOK, UpToDate, ToldLast
  <1>4. /\ DOMAIN properties = 1..Len(properties) /\ Len(properties) \in Nat /\ pos \in Nat
        /\ \A i \in DOMAIN properties : UpToDate(properties[i])' <=> UpToDate(properties[i])
    BY <1>1, <1>2, ListedProps DEF PropsOK, UpToDate
  <1>5. ScanOK'
    <2>1. CASE ScanStart
      <3>1. CASE has_pending_properties /\ ~destroying /\ user # "freed"
        <4>1. core' = "scan" /\ pos' = 1 /\ has_pending_properties' = FALSE
          BY <2>1, <3>1 DEF ScanStart
        <4>2. \A i \in DOMAIN properties : pos' <= i
          BY <1>4, <4>1
        <4> QED BY <1>1, <4>1, <4>2 DEF ScanOK
      <3>2. CASE ~(has_pending_properties /\ ~destroying /\ user # "freed")
        <4>1. core = "run" /\ core' = "asleep" /\ has_pending_properties' = has_pending_properties
          BY <2>1, <3>2 DEF ScanStart
        <4>2. has_pending_properties => destroying /\ properties = <<>>
          BY <1>2, <3>2 DEF TInv, NInv, LifeInv, PropsOK
        <4> QED BY <1>1, <1>2, <1>4, <4>1, <4>2 DEF ScanOK
      <3> QED BY <3>1, <3>2
    <2>2. ASSUME NEW p \in Props, ScanSkip(p) PROVE ScanOK'
      <3>1. /\ core = "scan" /\ core' = core /\ pos' = pos + 1 /\ UpToDate(properties[pos])
            /\ UNCHANGED <<has_pending_properties, woken>>
        BY <2>2 DEF ScanSkip, AtProperty, propVars
      <3>2. \A i \in DOMAIN properties : ~UpToDate(properties[i]) /\ pos <= i => pos' <= i
        BY <1>4, <3>1
      <3> QED BY <1>1, <1>2, <1>4, <3>1, <3>2 DEF ScanOK
    <2>3. ASSUME NEW p \in Props, ScanRead(p) PROVE ScanOK'
      <3>1. /\ core = "scan" /\ core' = "read" /\ pos' = pos /\ p = properties[pos]
            /\ val' = actual[p] /\ UNCHANGED <<has_pending_properties, woken>>
        BY <2>3 DEF ScanRead, AtProperty, propVars
      <3> QED BY <1>1, <1>2, <1>4, <3>1 DEF ScanOK
    <2>4. CASE ScanEnd
      <3>1. /\ core = "scan" /\ core' = "asleep" /\ pos > Len(properties)
            /\ UNCHANGED <<has_pending_properties, woken>>
        BY <2>4 DEF ScanEnd, propVars
      <3>2. \A i \in DOMAIN properties : ~(pos <= i)
        BY <1>4, <3>1
      <3> QED BY <1>1, <1>2, <1>4, <3>1, <3>2 DEF ScanOK
    <2>5. CASE CoreWakes \/ CoreTimesOut
      <3>1. core = "asleep" /\ core' = "run" /\ UNCHANGED has_pending_properties
        BY <2>5 DEF CoreWakes, CoreTimesOut, propVars
      <3> QED BY <1>1, <1>2, <1>4, <3>1 DEF ScanOK
    <2> QED BY <2>1, <2>2, <2>3, <2>4, <2>5
  <1> QED BY <1>3, <1>5

(* A change outdates what was read, and is no longer older than the hook.  *)
LEMMA ChangeTInv ==
  ASSUME TInv,
         NEW p \in Props, NEW v \in Values, Change(p, v) \/ ForeignChange(p, v)
  PROVE  ToldOK' /\ ScanOK' /\ DelayOK'
  <1>1. /\ UNCHANGED <<properties, known, hook_pending, destroying, list_changed, core, pos, val>>
        /\ has_pending_properties' = TRUE
        /\ old' = old \ {p} /\ overtaken' = overtaken \ {p}
        /\ actual' = [actual EXCEPT ![p] = v]
        /\ prop' = [prop EXCEPT ![p].change_ts = @ + 1]
    BY DEF Change, ForeignChange, PropertyChange, queueVars, userVars, scanVars
  <1>2. PropsOK /\ Observed' = Observed
    BY <1>1 DEF Observed, TInv, NInv
  <1>3. \A q \in Props :
          /\ prop'[q].change_ts = IF q = p THEN prop[q].change_ts + 1 ELSE prop[q].change_ts
          /\ prop'[q].value_ts = prop[q].value_ts
          /\ prop'[q].value_ret_ts = prop[q].value_ret_ts
          /\ prop'[q].waiting_for_hook = prop[q].waiting_for_hook
          /\ prop'[q].value = prop[q].value
          /\ q # p => actual'[q] = actual[q]
    BY <1>1, <1>2 DEF PropsOK, PropRecords
  <1>4. \A q \in Props : /\ UpToDate(q)' => UpToDate(q) /\ q # p
                         /\ ToldLast(q)' <=> ToldLast(q)
    <2> TAKE q \in Props
    <2>1. prop[q].value_ts \in Nat /\ prop[q].change_ts \in Nat
          /\ prop[q].value_ts <= prop[q].change_ts
      BY <1>2 DEF PropsOK, PropRecords
    <2> QED BY <1>3, <2>1 DEF UpToDate, ToldLast
  <1>5. ToldOK'
    BY <1>1, <1>3, <1>4 DEF TInv, ToldOK
  <1>6. DelayOK'
    BY <1>1, <1>2, <1>3, ListedProps DEF TInv, DelayOK, PropsOK
  <1>7. ScanOK'
    <2>1. core # "run" => woken'
      BY DEF Change, ForeignChange, CoreFree
    <2> QED BY <1>1, <2>1 DEF ScanOK
  <1> QED BY <1>5, <1>6, <1>7

(* The core has read what is so, unless p was overtaken, or that p changed *)
(* if that is all the user wants to know.                                  *)
LEMMA CompareTInv ==
  ASSUME TInv, core \in {"scan", "read"}, core' = "scan", list_changed' = FALSE,
         ~list_changed, pos \in DOMAIN properties,
         NEW p \in Props, p = properties[pos],
         NEW changed \in BOOLEAN, NEW v \in Values \cup {None},
         Compare(p, changed, v), ~UpToDate(p),
         p \in Plain => changed,
         p \notin Plain => v = actual[p] \/ p \in overtaken',
         p \notin Plain => (~changed => prop[p].value = v),
         overtaken \subseteq overtaken',
         UNCHANGED <<properties, actual, known, hook_pending, old, destroying,
                     has_pending_properties, woken>>
  PROVE  ToldOK' /\ ScanOK' /\ DelayOK'
  <1> DEFINE same == ~changed /\ ToldLast(p)
  <1>1. PropsOK /\ Observed' = Observed
    BY DEF Observed, TInv, NInv
  <1>2. /\ \A q \in Props : q # p => prop'[q] = prop[q]
        /\ prop'[p].value = v
        /\ prop'[p].change_ts = prop[p].change_ts /\ prop'[p].value_ts = prop[p].change_ts
        /\ prop'[p].value_ret_ts = IF same THEN prop[p].change_ts ELSE prop[p].value_ret_ts
        /\ prop'[p].waiting_for_hook = (prop[p].waiting_for_hook /\ ~same)
        /\ pos' = pos + 1
    BY <1>1, CompareEffect
  <1>3. same => p \notin Plain /\ known[p] = v /\ (v = actual[p] \/ p \in overtaken')
    BY DEF TInv, ToldOK
  <1> HIDE DEF same
  <1>4. ToldLast(p)' => same
    <2>1. /\ prop[p].value_ts \in Nat /\ prop[p].change_ts \in Nat /\ prop[p].value_ret_ts \in Nat
          /\ prop[p].value_ret_ts <= prop[p].value_ts /\ prop[p].value_ts <= prop[p].change_ts
      BY <1>1 DEF PropsOK, PropRecords
    <2>2. prop[p].value_ret_ts # prop[p].change_ts
      BY <2>1 DEF UpToDate
    <2> QED BY <1>2, <2>2 DEF ToldLast
  <1>5. ToldOK'
    <2> SUFFICES ASSUME NEW q \in Props
                 PROVE  /\ q \notin Plain /\ ToldLast(q)' => known[q] = prop'[q].value
                        /\ q \notin Plain /\ UpToDate(q)' =>
                             prop'[q].value = actual[q] \/ q \in overtaken'
                        /\ q \in Plain /\ UpToDate(q)' /\ ToldLast(q)' => known[q] = actual[q]
      BY DEF ToldOK
    <2>1. CASE q = p
      BY <1>2, <1>3, <1>4, <2>1
    <2>2. CASE q # p
      BY <1>2, <2>2 DEF TInv, ToldOK, UpToDate, ToldLast
    <2> QED BY <2>1, <2>2
  <1>6. ScanOK'
    <2>0. /\ DOMAIN properties = 1..Len(properties) /\ Len(properties) \in Nat /\ pos \in Nat
          /\ \A i \in DOMAIN properties : properties[i] \in Props /\ (properties[i] = p => i = pos)
      BY <1>1, ListedProps DEF PropsOK
    <2>1. ASSUME NEW i \in DOMAIN properties, ~UpToDate(properties[i])'
          PROVE  has_pending_properties \/ pos' <= i
      <3>1. properties[i] # p /\ ~UpToDate(properties[i])
        <4>1. UpToDate(p)'
          BY <1>2 DEF UpToDate
        <4>2. properties[i] # p
          BY <2>1, <4>1 DEF UpToDate
        <4> QED BY <1>2, <2>0, <2>1, <4>2 DEF UpToDate
      <3>2. has_pending_properties \/ pos <= i
        BY <3>1 DEF TInv, ScanOK
      <3>3. i # pos
        BY <3>1
      <3> QED BY <1>2, <2>0, <3>2, <3>3
    <2> QED BY <2>1 DEF TInv, ScanOK
  <1>7. DelayOK'
    <2> SUFFICES ASSUME hook_pending, NEW q \in old, known[q] # actual[q], q \notin overtaken'
                 PROVE  prop'[q].waiting_for_hook
      BY <1>1 DEF TInv, DelayOK
    <2>1. q \in Props /\ prop[q].waiting_for_hook
      BY <1>1, ListedProps DEF TInv, DelayOK, PropsOK
    <2> QED BY <1>2, <1>3, <2>1
  <1> QED BY <1>5, <1>6, <1>7

LEMMA ScanTInv ==
  ASSUME TInv, ScanResume \/ \E p \in Props : ScanPlain(p)
  PROVE  ToldOK' /\ ScanOK' /\ DelayOK'
  <1>0. PropsOK /\ ReadOK
    BY DEF TInv, NInv
  <1>1. ASSUME NEW p \in Props, ScanPlain(p) PROVE ToldOK' /\ ScanOK' /\ DelayOK'
    <2>1. /\ UNCHANGED <<properties, actual, known, overtaken, hook_pending, old, destroying,
                         has_pending_properties, woken, core, list_changed>>
          /\ core = "scan" /\ ~UpToDate(p) /\ p \in Plain /\ Compare(p, TRUE, None)
          /\ pos <= Len(properties) /\ p = properties[pos]
      BY <1>1 DEF ScanPlain, AtProperty, userVars, hookVars, histVars
    <2>2. ~list_changed /\ list_changed' = FALSE
      BY <1>0, <2>1 DEF ReadOK, PropsOK
    <2>3. pos \in DOMAIN properties
      BY <1>0, <2>1, ListedProps DEF ReadOK, PropsOK
    <2> QED BY <2>1, <2>2, <2>3, CompareTInv
  <1>2. CASE ScanResume /\ (list_changed \/ destroying)
    <2>1. /\ UNCHANGED <<properties, prop, actual, known, overtaken, hook_pending, old,
                         destroying>>
          /\ core' = "scan" /\ has_pending_properties' = TRUE /\ woken' = TRUE
      BY <1>2 DEF ScanResume, userVars, hookVars, histVars
    <2>2. Observed' = Observed
      BY <2>1 DEF Observed
    <2> QED BY <2>1, <2>2 DEF TInv, ToldOK, ScanOK, DelayOK, UpToDate, ToldLast
  <1>3. CASE ScanResume /\ ~(list_changed \/ destroying)
    <2> DEFINE p == properties[pos]
               changed == prop[p].value_ts = 0 \/ prop[p].value # val
    <2>1. /\ UNCHANGED <<properties, actual, known, hook_pending, old, destroying,
                         has_pending_properties, woken>>
          /\ core = "read" /\ core' = "scan" /\ list_changed' = FALSE /\ ~list_changed
          /\ Compare(p, changed, val)
          /\ overtaken' = IF val = actual[p] THEN overtaken ELSE overtaken \cup {p}
      BY <1>3 DEF ScanResume, userVars, hookVars, histVars
    <2>2. /\ p \in Props /\ ~UpToDate(p) /\ p \notin Plain /\ val \in Values \cup {None}
          /\ changed \in BOOLEAN /\ pos \in DOMAIN properties
      BY <1>0, <1>3, <2>1, ListedProps DEF ReadOK, PropsOK
    <2>3. /\ val = actual[p] \/ p \in overtaken'
          /\ overtaken \subseteq overtaken'
          /\ ~changed => prop[p].value = val
      BY <2>1
    <2>4. p = properties[pos]
      OBVIOUS
    <2> HIDE DEF p, changed
    <2> QED BY <2>1, <2>2, <2>3, <2>4, CompareTInv
  <1> QED BY <1>1, <1>2, <1>3

LEMMA ObserveTInv ==
  ASSUME TInv, NInv', NEW p \in Props, Observe(p) \/ Unobserve(p)
  PROVE  ToldOK' /\ ScanOK' /\ DelayOK'
  <1>0. PropsOK /\ Observed \subseteq Props
    BY ListedProps DEF TInv, NInv, PropsOK
  <1>1. CASE Observe(p)
    <2>1. /\ UNCHANGED <<prop, actual, known, overtaken, hook_pending, old, core>>
          /\ properties' = Append(properties, p)
          /\ has_pending_properties' = TRUE /\ list_changed' = (core = "read") /\ woken' = TRUE
      BY <1>1 DEF Observe, scanVars, hookVars
    <2>2. Observed \subseteq Observed'
      <3>1. \A i \in DOMAIN properties : i \in DOMAIN properties' /\ properties'[i] = properties[i]
        BY <1>0, <2>1, ListedProps, AppendProperties DEF PropsOK
      <3> QED BY <3>1 DEF Observed
    <2> QED BY <2>1, <2>2 DEF TInv, ToldOK, ScanOK, DelayOK, UpToDate, ToldLast
  <1>2. CASE Unobserve(p)
    <2>1. /\ UNCHANGED <<actual, hook_pending, core, woken, has_pending_properties, destroying>>
          /\ list_changed' = (core = "read") /\ old' = old \ {p} /\ core # "scan"
          /\ prop' = [prop EXCEPT ![p] = Fresh] /\ known' = [known EXCEPT ![p] = None]
          /\ overtaken' = overtaken \ {p}
      BY <1>2 DEF Unobserve, scanVars, userVars, Unlocked
    <2>2. PICK n \in DOMAIN properties : properties[n] = p /\ properties' = RemoveAt(properties, n)
      BY <1>2 DEF Unobserve
    <2>3. Lists(properties', Observed \ {p}, Props)
      BY <1>0, <2>2, RemoveAtLists DEF PropsOK
    <2>4. \A q \in Props : IF q = p THEN prop'[q] = Fresh /\ known'[q] = None
                                    ELSE prop'[q] = prop[q] /\ known'[q] = known[q]
      BY <1>0, <2>1 DEF PropsOK
    <2>5. ToldOK'
      <3> SUFFICES ASSUME NEW q \in Props
                   PROVE  /\ q \notin Plain /\ ToldLast(q)' => known'[q] = prop'[q].value
                          /\ q \notin Plain /\ UpToDate(q)' =>
                               prop'[q].value = actual[q] \/ q \in overtaken'
                          /\ q \in Plain /\ UpToDate(q)' /\ ToldLast(q)' => known'[q] = actual[q]
        BY <2>1 DEF ToldOK
      <3>1. CASE q = p
        BY <2>4, <3>1, FreshIs DEF UpToDate
      <3>2. CASE q # p
        BY <2>1, <2>4, <3>2 DEF TInv, ToldOK, UpToDate, ToldLast
      <3> QED BY <3>1, <3>2
    <2>6. DelayOK'
      <3>1. Observed' = Observed \ {p}
        BY <2>3 DEF Lists, Observed, ToSet
      <3> QED BY <1>0, <2>1, <2>4, <3>1 DEF TInv, DelayOK
    <2>7. ScanOK'
      <3>1. ASSUME NEW i \in DOMAIN properties', ~UpToDate(properties[i])'
            PROVE  has_pending_properties \/ core = "read"
        <4>1. properties'[i] \in Observed \ {p}
          BY <2>3 DEF Lists, ToSet
        <4>2. PICK j \in DOMAIN properties : properties[j] = properties'[i]
          BY <4>1 DEF Observed
        <4>3. ~UpToDate(properties[j])
          BY <1>0, <2>4, <3>1, <4>1, <4>2 DEF UpToDate
        <4> QED BY <2>1, <4>3 DEF TInv, ScanOK
      <3> QED BY <2>1, <3>1 DEF TInv, ScanOK
    <2> QED BY <2>5, <2>6, <2>7
  <1> QED BY <1>1, <1>2

(* What is told is so, and a delayed hook marks what is not told.          *)
LEMMA ToldTInv ==
  ASSUME TInv, UserTakesChange \/ UserSleeps
  PROVE  ToldOK' /\ ScanOK' /\ DelayOK'
  <1>0. PropsOK /\ ToldOK /\ Observed \subseteq Props
    BY ListedProps DEF TInv, NInv, PropsOK
  <1>1. /\ UNCHANGED <<properties, actual, overtaken, destroying, list_changed, core, pos, val,
                       woken, has_pending_properties, old>>
        /\ hook_pending' = HookFirst
    BY DEF UserTakesChange, UserSleeps, scanVars, histVars
  <1>2. Observed' = Observed
    BY <1>1 DEF Observed
  <1>3. HookFirst => \A q \in old : known[q] # actual[q] =>
                        prop[q].waiting_for_hook \/ q \in Waiting \/ q \in overtaken
    <2> SUFFICES ASSUME HookFirst, NEW q \in old, known[q] # actual[q], q \notin overtaken
                 PROVE  prop[q].waiting_for_hook \/ q \in Waiting
      OBVIOUS
    <2>1. q \in Observed /\ q \in Props
      BY <1>0 DEF TInv, DelayOK
    <2>2. CASE hook_pending
      BY <2>2 DEF TInv, DelayOK
    <2>3. CASE ~hook_pending
      BY <1>0, <2>1, <2>3, ToldWhatIs DEF Waiting
    <2> QED BY <2>2, <2>3
  <1>4. CASE UserTakesChange
    <2>1. PICK i \in DOMAIN properties : \E p \in Props :
            /\ p = properties[i] /\ Ready(i)
            /\ \A q \in Props :
                 /\ prop'[q].change_ts = prop[q].change_ts
                 /\ prop'[q].value_ts = prop[q].value_ts
                 /\ prop'[q].value_ret_ts = IF q = p THEN prop[q].value_ts ELSE prop[q].value_ret_ts
                 /\ prop'[q].value = prop[q].value
                 /\ q # p /\ (prop[q].waiting_for_hook \/ q \in Waiting) => prop'[q].waiting_for_hook
            /\ known' = [known EXCEPT ![p] = IF p \in Plain THEN actual[p] ELSE prop[p].value]
      BY <1>0, <1>4, TakeChangeIs
    <2> DEFINE p == properties[i]
    <2>2. /\ p \in Props /\ UpToDate(p)
          /\ \A q \in Props :
               /\ prop'[q].change_ts = prop[q].change_ts
               /\ prop'[q].value_ts = prop[q].value_ts
               /\ prop'[q].value_ret_ts = IF q = p THEN prop[q].value_ts ELSE prop[q].value_ret_ts
               /\ prop'[q].value = prop[q].value
               /\ q # p /\ (prop[q].waiting_for_hook \/ q \in Waiting) => prop'[q].waiting_for_hook
      BY <2>1 DEF Ready
    <2>3. \A q \in Props : known'[q] = IF q # p THEN known[q]
                                       ELSE IF p \in Plain THEN actual[p] ELSE prop[p].value
      <3>1. known' = [known EXCEPT ![p] = IF p \in Plain THEN actual[p] ELSE prop[p].value]
        BY <2>1
      <3> HIDE DEF p
      <3> QED BY <1>0, <2>2, <3>1 DEF PropsOK
    <2> HIDE DEF p
    <2>4. known'[p] = actual[p] \/ p \in overtaken
      BY <1>0, <2>2, <2>3 DEF ToldOK
    <2>5. ToldOK'
      <3> SUFFICES ASSUME NEW q \in Props
                   PROVE  /\ q \notin Plain /\ ToldLast(q)' => known'[q] = prop'[q].value
                          /\ q \notin Plain /\ UpToDate(q)' =>
                               prop'[q].value = actual[q] \/ q \in overtaken
                          /\ q \in Plain /\ UpToDate(q)' /\ ToldLast(q)' => known'[q] = actual[q]
        BY <1>1 DEF ToldOK
      <3>1. CASE q = p
        BY <1>0, <2>2, <2>3, <2>4, <3>1 DEF ToldOK, UpToDate
      <3>2. CASE q # p
        BY <1>0, <2>2, <2>3, <3>2 DEF ToldOK, UpToDate, ToldLast
      <3> QED BY <3>1, <3>2
    <2>6. ScanOK'
      <3>1. \A j \in DOMAIN properties : UpToDate(properties[j])' <=> UpToDate(properties[j])
        BY <1>0, <1>1, <2>2, ListedProps DEF PropsOK, UpToDate
      <3> QED BY <1>1, <3>1 DEF TInv, ScanOK
    <2>7. DelayOK'
      <3>1. old \subseteq Observed
        BY DEF TInv, DelayOK
      <3> QED BY <1>0, <1>1, <1>2, <1>3, <2>2, <2>3, <2>4, <3>1 DEF DelayOK
    <2> QED BY <2>5, <2>6, <2>7
  <1>5. CASE UserSleeps
    <2>1. UNCHANGED known
      BY <1>5 DEF UserSleeps, histVars
    <2>2. \A q \in Props :
            /\ prop'[q].change_ts = prop[q].change_ts
            /\ prop'[q].value_ts = prop[q].value_ts
            /\ prop'[q].value_ret_ts = prop[q].value_ret_ts
            /\ prop'[q].value = prop[q].value
            /\ prop[q].waiting_for_hook \/ q \in Waiting => prop'[q].waiting_for_hook
      BY <1>0, <1>5, MarkWaitingIs DEF UserSleeps
    <2>3. ToldOK'
      BY <1>0, <1>1, <2>1, <2>2 DEF ToldOK, UpToDate, ToldLast
    <2>4. ScanOK'
      <3>1. \A j \in DOMAIN properties : UpToDate(properties[j])' <=> UpToDate(properties[j])
        BY <1>0, <1>1, <2>2, ListedProps DEF PropsOK, UpToDate
      <3> QED BY <1>1, <3>1 DEF TInv, ScanOK
    <2>5. DelayOK'
      <3>1. old \subseteq Observed
        BY DEF TInv, DelayOK
      <3> QED BY <1>0, <1>1, <1>2, <1>3, <2>1, <2>2, <3>1 DEF DelayOK
    <2> QED BY <2>3, <2>4, <2>5
  <1> QED BY <1>4, <1>5

LEMMA EndTInv ==
  ASSUME TInv, Destroy \/ FreeHandle
  PROVE  ToldOK' /\ ScanOK' /\ DelayOK'
  <1>1. CASE Destroy
    <2>1. /\ destroying' = TRUE /\ properties' = <<>> /\ old' = {}
          /\ prop' = [p \in Props |-> Fresh] /\ known' = [p \in Props |-> None]
      BY <1>1 DEF Destroy
    <2>2. ToldOK'
      BY <2>1, FreshIs DEF ToldOK, UpToDate, ToldLast
    <2>3. DOMAIN properties' = {}
      BY <2>1
    <2> QED BY <2>1, <2>2, <2>3 DEF ScanOK, DelayOK
  <1>2. CASE FreeHandle
    <2>1. /\ UNCHANGED <<actual, properties, prop, known, overtaken, core, destroying, old>>
          /\ hook_pending' = FALSE /\ user = "remove"
      BY <1>2 DEF FreeHandle, Free, scanVars, histVars
    <2>2. Observed' = Observed /\ destroying /\ properties = <<>> /\ core # "read"
      BY <2>1 DEF TInv, NInv, PropsOK, LifeInv, CoreFree, Observed
    <2>3. DOMAIN properties = {}
      BY <2>2
    <2> QED BY <2>1, <2>2, <2>3 DEF TInv, ToldOK, ScanOK, DelayOK, UpToDate, ToldLast
  <1> QED BY <1>1, <1>2

LEMMA NextTInv == TInv /\ [Next]_vars => TInv'
  <1> SUFFICES ASSUME TInv, [Next]_vars PROVE TInv'
    OBVIOUS
  <1>1. NInv'
    BY NextNInv DEF TInv
  <1>2. ToldOK' /\ ScanOK' /\ DelayOK'
    BY <1>1, OthersTInv, CoreTInv, ChangeTInv, ScanTInv, ObserveTInv, ToldTInv, EndTInv
    DEF Next, CoreStep, UserReturns, UserPolls, UserCalls
  <1> QED BY <1>1, <1>2 DEF TInv

(* No change that the user was not told of is forgotten: the core is going *)
(* to read the property, is reading it, or has its value ready, whichever  *)
(* properties change on other threads.  The one exception is a change that *)
(* came while the core read the old value of that very property.           *)
THEOREM ChangesReachTheUser == Spec => []ChangeOnItsWay
  <1>1. TInv => ChangeOnItsWay
    <2> SUFFICES ASSUME TInv, NEW i \in DOMAIN properties, NEW p, p = properties[i],
                        known[p] # actual[p]
                 PROVE  \/ has_pending_properties /\ (core # "asleep" \/ woken) /\ ~UpToDate(p)
                        \/ core = "scan" /\ pos <= i /\ ~UpToDate(p)
                        \/ core = "read" /\ (list_changed \/ pos < i \/ (pos = i /\ val = actual[p]))
                        \/ Ready(i) /\ (p \in Plain \/ prop[p].value = actual[p])
                        \/ p \in overtaken
      BY DEF ChangeOnItsWay
    <2>1. p \in Props /\ ~destroying /\ i \in Nat /\ pos \in Nat
      BY ListedProps DEF TInv, NInv, PropsOK
    <2>2. CASE UpToDate(p)
      BY <2>1, <2>2 DEF TInv, ToldOK, Ready
    <2>3. CASE ~UpToDate(p)
      BY <2>1, <2>3 DEF TInv, ScanOK
    <2> QED BY <2>2, <2>3
  <1>2. TInv /\ [Next]_vars => TInv'
    BY NextTInv
  <1> QED BY InitTInv, <1>1, <1>2, PTL DEF Spec

(* And when the user gets a hook, every property that has not changed      *)
(* since the hook was sent is known to them, with the same exception.      *)
THEOREM HooksComeAfterChanges == Spec => HookAfterChanges
  <1>1. TInv /\ [Next]_vars =>
          [hook' = "returned" /\ hook # "returned" =>
             \A p \in old \ overtaken : known[p] = actual[p]]_vars
    <2> SUFFICES ASSUME TInv, Next, hook' = "returned", hook # "returned",
                        NEW p \in old \ overtaken
                 PROVE  known[p] = actual[p]
      OBVIOUS
    <2>1. p \in Observed /\ p \in Props
      BY ListedProps DEF TInv, NInv, PropsOK, DelayOK
    <2>2. UserTakesEvent /\ HookFirst
      BY DEF Next, CoreStep, UserReturns, UserPolls, UserCalls, ScanStart, ScanResume, ScanEnd,
             CoreWakes, CoreTimesOut, HookTestCompletion, ScanSkip, ScanPlain, ScanRead, RunRequest,
             UserOverflows, UserTakesEvent, UserTakesChange, UserSleeps, UserWakes, UserDrains,
             AbortAsync, FreeHandle, Observe, Unobserve, CommandAsync, HookContinue, Destroy,
             UserTimesOut, HookStart, Broadcast, Change, ForeignChange, PropertyChange, JobEnds,
             hookVars
    <2>3. p \notin Waiting
      BY <2>2 DEF UserTakesEvent
    <2>4. CASE hook_pending
      BY <2>1, <2>3, <2>4 DEF TInv, DelayOK, Waiting
    <2>5. CASE ~hook_pending
      <3>1. ~Untold(p)
        BY <2>1, <2>2, <2>3, <2>5 DEF Waiting
      <3> QED BY <2>1, <3>1, ToldWhatIs DEF TInv, NInv
    <2> QED BY <2>4, <2>5
  <1>2. TInv /\ [Next]_vars => TInv'
    BY NextTInv
  <1> QED BY InitTInv, <1>1, <1>2, PTL DEF Spec, HookAfterChanges
=============================================================================
