-------------------------------- MODULE Client --------------------------------
(***************************************************************************)
(* One handle of the client API (player/client.c): its user's thread       *)
(* (mpv_wait_event, mpv_observe_property, mpv_command_async, mpv_destroy), *)
(* the core, which sends events, runs hooks (player/command.c) and reads   *)
(* the observed properties before it sleeps (mp_wait_events), the worker   *)
(* threads that finish asynchronous commands, and other threads that       *)
(* change properties.  What follows a lock of ctx->lock up to its unlock   *)
(* is one step; the core keeps it between the steps of "scan".             *)
(***************************************************************************)
EXTENDS Naturals, Sequences, SequencesExt

CONSTANTS
  Props,          (* properties; each is observed at most once at a time   *)
  Plain,          (* those observed with MPV_FORMAT_NONE                   *)
  Foreign,        (* those that change on other threads (osd-dimensions)   *)
  Values, None,   (* what a property reads as                              *)
  Cmds,           (* asynchronous commands                                 *)
  Abortable,      (* those with can_abort                                  *)
  MaxEvents,      (* max_events (1000 in the code)                         *)
  Budgets         (* bounds: how many changes of properties, calls of      *)
                  (* mpv_observe_property() and commands there are         *)

ASSUME SetsAssumption ==
  /\ Plain \subseteq Props /\ Foreign \subseteq Props /\ Abortable \subseteq Cmds
  /\ Values # {} /\ None \notin Values
ASSUME BoundsAssumption ==
  MaxEvents \in Nat \ {0} /\ Budgets \subseteq [changes : Nat, observes : Nat, commands : Nat]

VARIABLES
  events, reserved_events, choked,           (* the ring buffer            *)
  properties,              (* the observed properties, in order            *)
  prop,                    (* their struct observe_property                *)
  has_pending_properties, new_property_events, cur_property_index,
  list_changed,            (* properties_change_ts changed during a read   *)
  hook,                    (* the hook handler: idle, sent, returned, removed *)
  hook_pending,
  core,                    (* the core: run, scan, read, asleep            *)
  pos, val,                (* the scan: its position, the value it read    *)
  async_counter,
  woken,                   (* mp_wakeup_core() since the core last slept   *)
  user,                    (* where the user's thread is                   *)
  need_wakeup, destroying,
  requests,                (* commands in the core's dispatch queue        *)
  job,                     (* per command: none, queued, running, done     *)
  aborted,                 (* the commands whose mp_cancel was triggered   *)
  actual,                  (* the properties' values                       *)
  known,                   (* history: what the user was told of them      *)
  old,                     (* history: unchanged since the hook was sent   *)
  overtaken,               (* history: changed while they were last read   *)
  late,                    (* history: commands not started at the abort   *)
  budget                   (* what is left of it                           *)

queueVars == <<events, reserved_events, choked>>
scanVars == <<core, pos, val, async_counter>>
propVars == <<properties, prop, has_pending_properties, new_property_events,
              cur_property_index, list_changed>>
hookVars == <<hook, hook_pending, old>>
userVars == <<user, need_wakeup, destroying>>
jobVars == <<requests, job, aborted, late>>
histVars == <<actual, known, overtaken, budget>>
vars == <<queueVars, scanVars, woken, propVars, hookVars, userVars, jobVars, histVars>>

Fresh == [change_ts |-> 1, value_ts |-> 0, value_ret_ts |-> 0, value |-> None,
          waiting_for_hook |-> FALSE]

Init ==
  /\ events = <<>> /\ reserved_events = 0 /\ choked = FALSE
  /\ properties = <<>> /\ prop = [p \in Props |-> Fresh]
  /\ has_pending_properties = FALSE /\ new_property_events = FALSE
  /\ cur_property_index = 0 /\ list_changed = FALSE
  /\ hook = "idle" /\ hook_pending = FALSE /\ old = {}
  /\ core = "run" /\ pos = 0 /\ val = None /\ async_counter = 0 /\ woken = FALSE
  /\ user = "idle" /\ need_wakeup = FALSE /\ destroying = FALSE
  /\ requests = <<>> /\ job = [c \in Cmds |-> "none"] /\ aborted = {} /\ late = {}
  /\ actual = [p \in Props |-> CHOOSE v \in Values : TRUE] /\ known = [p \in Props |-> None]
  /\ overtaken = {} /\ budget \in Budgets

Observed == {properties[i] : i \in DOMAIN properties}

(* ctx->lock is free                                                       *)
Unlocked == core # "scan"

(* The code of the core and of those that lock it (mp_dispatch_lock)       *)
CoreFree == core \in {"run", "asleep"}
CoreLocked == core = "asleep"

Spend(x) == budget[x] > 0 /\ budget' = [budget EXCEPT ![x] = @ - 1]

(* Mutant of Room: the places of the replies are given away.               *)
RoomForAll == Len(events) < MaxEvents

Room == Len(events) + reserved_events < MaxEvents

(* send_event() and append_event() with wakeup_client(); sent tells        *)
(* whether the event got a place.                                          *)
SendEvent(e, sent) ==
  /\ sent = (~choked /\ Room)
  /\ IF sent THEN events' = Append(events, e) /\ need_wakeup' = TRUE
             ELSE UNCHANGED <<events, need_wakeup>>
  /\ choked' = ~sent

(* send_reply(): a reply is an event like the others.                      *)
SendReply ==
  /\ reserved_events' = reserved_events - 1
  /\ events' = Append(events, "event")
  /\ need_wakeup' = TRUE

-----------------------------------------------------------------------------
(* The core                                                                *)

(* mp_client_property_change(), notify_property_events()                   *)
PropertyChange(p, v) ==
  /\ p \in Observed
  /\ Spend("changes")
  /\ actual' = [actual EXCEPT ![p] = v]
  /\ old' = old \ {p} /\ overtaken' = overtaken \ {p}
  /\ prop' = [prop EXCEPT ![p].change_ts = @ + 1] /\ has_pending_properties' = TRUE
  /\ UNCHANGED <<queueVars, scanVars, properties, new_property_events, cur_property_index,
                 list_changed, hook, hook_pending, userVars, jobVars, known>>

(* mp_dispatch_adjust_timeout() ends the wait of the dispatch queue.       *)
Change(p, v) ==
  /\ CoreFree /\ PropertyChange(p, v)
  /\ woken' = (woken \/ core = "asleep")

(* mp_client_broadcast_event_external()                                    *)
ForeignChange(p, v) == p \in Foreign /\ Unlocked /\ PropertyChange(p, v) /\ woken' = TRUE

Broadcast ==
  /\ CoreFree /\ user # "freed"
  /\ \E sent \in BOOLEAN : SendEvent("event", sent)
  /\ UNCHANGED <<reserved_events, scanVars, woken, propVars, hookVars, user, destroying,
                 jobVars, histVars>>

(* mp_hook_start(): the handler is removed when it cannot be told.         *)
HookStart ==
  /\ core = "run" /\ hook = "idle"
  /\ \E sent \in BOOLEAN :
       /\ IF user = "freed" THEN ~sent /\ UNCHANGED <<events, choked, need_wakeup>>
                            ELSE SendEvent("hook", sent)
       /\ hook' = IF sent THEN "sent" ELSE "removed"
       /\ old' = IF sent THEN Observed ELSE {}
       /\ woken' = (woken \/ ~sent)
  /\ UNCHANGED <<reserved_events, scanVars, propVars, hook_pending, user, destroying,
                 jobVars, histVars>>

(* mp_client_send_property_changes(), else mp_dispatch_queue_process()     *)
ScanStart ==
  /\ core = "run"
  /\ IF has_pending_properties /\ ~destroying /\ user # "freed"
     THEN core' = "scan" /\ pos' = 1 /\ has_pending_properties' = FALSE
     ELSE core' = "asleep" /\ UNCHANGED <<pos, has_pending_properties>>
  /\ UNCHANGED <<queueVars, val, async_counter, woken, properties, prop, new_property_events,
                 cur_property_index, list_changed, hookVars, userVars, jobVars, histVars>>

AtProperty(p) == core = "scan" /\ pos <= Len(properties) /\ p = properties[pos]
UpToDate(p) == prop[p].value_ts = prop[p].change_ts
ToldLast(p) == prop[p].value_ret_ts = prop[p].value_ts

ScanSkip(p) ==
  /\ AtProperty(p) /\ UpToDate(p)
  /\ pos' = pos + 1
  /\ UNCHANGED <<queueVars, core, val, async_counter, woken, propVars, hookVars, userVars,
                 jobVars, histVars>>

(* Mutant of Compare: a hook that waits does not wake the user.            *)
CompareQuietly(p, changed, v) ==
  LET same == ~changed /\ ToldLast(p)
      ts == prop[p].change_ts
  IN /\ prop' = [prop EXCEPT ![p] =
                   [change_ts |-> ts, value_ts |-> ts, value |-> v,
                    value_ret_ts |-> IF same THEN ts ELSE prop[p].value_ret_ts,
                    waiting_for_hook |-> prop[p].waiting_for_hook /\ ~same]]
     /\ new_property_events' = (new_property_events \/ ~same)
     /\ pos' = pos + 1

(* The rest of the loop's body: v is what was read of p.                   *)
Compare(p, changed, v) ==
  LET same == ~changed /\ ToldLast(p)
      ts == prop[p].change_ts
  IN /\ prop' = [prop EXCEPT ![p] =
                   [change_ts |-> ts, value_ts |-> ts, value |-> v,
                    value_ret_ts |-> IF same THEN ts ELSE prop[p].value_ret_ts,
                    waiting_for_hook |-> prop[p].waiting_for_hook /\ ~same]]
     /\ new_property_events' = (new_property_events \/ prop[p].waiting_for_hook \/ ~same)
     /\ pos' = pos + 1

ScanPlain(p) ==
  /\ AtProperty(p) /\ ~UpToDate(p) /\ p \in Plain
  /\ Compare(p, TRUE, None)
  /\ UNCHANGED <<queueVars, core, val, async_counter, woken, properties,
                 has_pending_properties, cur_property_index, list_changed, hookVars,
                 userVars, jobVars, histVars>>

(* ctx->lock is dropped, the getter runs ...                               *)
ScanRead(p) ==
  /\ AtProperty(p) /\ ~UpToDate(p) /\ p \notin Plain
  /\ core' = "read" /\ val' = actual[p]
  /\ async_counter' = async_counter + 1
  /\ UNCHANGED <<queueVars, pos, woken, propVars, hookVars, userVars, jobVars, histVars>>

(* Mutant of ScanResume: nobody starts over.                               *)
ScanResumeOnce ==
  /\ core = "read"
  /\ core' = "scan" /\ async_counter' = async_counter - 1
  /\ IF list_changed \/ destroying
     THEN /\ pos' = Len(properties) + 1
          /\ UNCHANGED <<prop, new_property_events, has_pending_properties, woken, overtaken>>
     ELSE LET p == properties[pos]
          IN /\ Compare(p, prop[p].value_ts = 0 \/ prop[p].value # val, val)
             /\ overtaken' = IF val = actual[p] THEN overtaken ELSE overtaken \cup {p}
             /\ UNCHANGED <<has_pending_properties, woken>>
  /\ val' = None /\ list_changed' = FALSE
  /\ UNCHANGED <<queueVars, properties, cur_property_index, hookVars, userVars, jobVars,
                 actual, known, budget>>

(* ... and the lock is taken again: start over if the list has changed.    *)
ScanResume ==
  /\ core = "read"
  /\ core' = "scan" /\ async_counter' = async_counter - 1
  /\ IF list_changed \/ destroying
     THEN /\ has_pending_properties' = TRUE /\ woken' = TRUE
          /\ pos' = Len(properties) + 1
          /\ UNCHANGED <<prop, new_property_events, overtaken>>
     ELSE LET p == properties[pos]
          IN /\ Compare(p, prop[p].value_ts = 0 \/ prop[p].value # val, val)
             /\ overtaken' = IF val = actual[p] THEN overtaken ELSE overtaken \cup {p}
             /\ UNCHANGED <<has_pending_properties, woken>>
  /\ val' = None /\ list_changed' = FALSE
  /\ UNCHANGED <<queueVars, properties, cur_property_index, hookVars, userVars, jobVars,
                 actual, known, budget>>

(* Mutant of ScanEnd: who waits for async_counter is forgotten.            *)
ScanEndAlone ==
  /\ core = "scan" /\ pos > Len(properties)
  /\ core' = "asleep" /\ pos' = 0
  /\ need_wakeup' = (need_wakeup \/ new_property_events)
  /\ UNCHANGED <<queueVars, val, async_counter, woken, propVars, hookVars, user, destroying,
                 jobVars, histVars>>

ScanEnd ==
  /\ core = "scan" /\ pos > Len(properties)
  /\ core' = "asleep" /\ pos' = 0
  /\ need_wakeup' = (need_wakeup \/ destroying \/ new_property_events)
  /\ UNCHANGED <<queueVars, val, async_counter, woken, propVars, hookVars, user, destroying,
                 jobVars, histVars>>

HookHeld == hook = "sent" \/ (hook = "returned" /\ user = "freed")

(* mp_hook_test_completion() whenever mp_idle() returns                    *)
HookTestCompletion ==
  hook' = IF HookHeld /\ user = "freed" THEN "removed" ELSE hook

(* mp_dispatch_queue_process() returns: woken, ...                         *)
CoreWakes ==
  /\ core = "asleep" /\ woken
  /\ core' = "run" /\ woken' = FALSE /\ HookTestCompletion
  /\ UNCHANGED <<queueVars, pos, val, async_counter, propVars, hook_pending, old, userVars,
                 jobVars, histVars>>

(* ... or because playback goes on.                                        *)
CoreTimesOut ==
  /\ core = "asleep" /\ ~woken
  /\ core' = "run" /\ HookTestCompletion
  /\ UNCHANGED <<queueVars, pos, val, async_counter, woken, propVars, hook_pending, old,
                 userVars, jobVars, histVars>>

(* async_cmd_fn() and run_command(): the command completes at once, or a   *)
(* worker thread runs it, listed for abort_async().                        *)
RunRequest(c) ==
  /\ CoreLocked /\ requests # <<>> /\ c = Head(requests)
  /\ requests' = Tail(requests)
  /\ \/ job' = [job EXCEPT ![c] = "done"] /\ SendReply
     \/ /\ job' = [job EXCEPT ![c] = "running"]
        /\ UNCHANGED <<events, reserved_events, need_wakeup>>
  /\ UNCHANGED <<choked, scanVars, woken, propVars, hookVars, user, destroying, aborted, late,
                 histVars>>

(* run_command_on_worker_thread(), mp_cmd_ctx_complete()                   *)
JobEnds(c) ==
  /\ CoreLocked /\ job[c] = "running"
  /\ job' = [job EXCEPT ![c] = "done"] /\ SendReply
  /\ UNCHANGED <<choked, scanVars, woken, propVars, hookVars, user, destroying, requests,
                 aborted, late, histVars>>

-----------------------------------------------------------------------------
(* The user's thread                                                       *)

Goto(l) == user' = l

(* mpv_observe_property()                                                  *)
Observe(p) ==
  /\ user = "idle" /\ Unlocked /\ p \notin Observed
  /\ Spend("observes")
  /\ properties' = Append(properties, p)
  /\ new_property_events' = TRUE /\ cur_property_index' = 0
  /\ has_pending_properties' = TRUE
  /\ list_changed' = (core = "read") /\ woken' = TRUE
  /\ UNCHANGED <<queueVars, scanVars, prop, hookVars, userVars, jobVars, actual, known,
                 overtaken>>

(* mpv_unobserve_property()                                                *)
Unobserve(p) ==
  /\ user = "idle" /\ Unlocked
  /\ \E i \in DOMAIN properties : properties[i] = p /\ properties' = RemoveAt(properties, i)
  /\ cur_property_index' = 0 /\ list_changed' = (core = "read")
  /\ prop' = [prop EXCEPT ![p] = Fresh]
  /\ known' = [known EXCEPT ![p] = None] /\ old' = old \ {p}
  /\ overtaken' = overtaken \ {p}
  /\ UNCHANGED <<queueVars, scanVars, woken, has_pending_properties,
                 new_property_events, hook, hook_pending, userVars, jobVars, actual, budget>>

(* mpv_command_async(): reserve_reply(), mp_dispatch_enqueue()             *)
CommandAsync(c) ==
  /\ Spend("commands")
  /\ user = "idle" /\ Unlocked /\ job[c] = "none" /\ Room /\ ~choked
  /\ reserved_events' = reserved_events + 1
  /\ requests' = Append(requests, c) /\ job' = [job EXCEPT ![c] = "queued"]
  /\ UNCHANGED <<events, choked, scanVars, woken, propVars, hookVars, userVars, aborted, late,
                 actual, known, overtaken>>

(* mpv_hook_continue()                                                     *)
HookContinue ==
  /\ user = "idle" /\ hook = "returned" /\ CoreLocked
  /\ hook' = "idle" /\ woken' = TRUE
  /\ UNCHANGED <<queueVars, scanVars, propVars, hook_pending, old, userVars, jobVars, histVars>>

(* The loop of mpv_wait_event().  A hook is delayed until the user was     *)
(* told of the changes that were not told when it was first seen.          *)
InWaitEvent == user \in {"idle", "wait"}

HookFirst == events # <<>> /\ Head(events) = "hook"

(* Mutant of Untold: only what the core has read counts.                   *)
UntoldRead(p) == ~ToldLast(p)

(* set_wait_for_hook_flags()                                               *)
Untold(p) == prop[p].value_ret_ts # prop[p].change_ts

Waiting ==
  {p \in Observed : prop[p].waiting_for_hook \/ (HookFirst /\ ~hook_pending /\ Untold(p))}

UserOverflows ==
  /\ InWaitEvent /\ Unlocked /\ choked /\ events = <<>>
  /\ choked' = FALSE
  /\ Goto("idle")
  /\ UNCHANGED <<events, reserved_events, scanVars, woken, propVars, hookVars, need_wakeup,
                 destroying, jobVars, histVars>>

UserTakesEvent ==
  /\ InWaitEvent /\ Unlocked /\ events # <<>> /\ (HookFirst => Waiting = {})
  /\ events' = Tail(events)
  /\ IF HookFirst THEN hook_pending' = FALSE /\ hook' = "returned" /\ old' = {}
                  ELSE UNCHANGED hookVars
  /\ Goto("idle")
  /\ UNCHANGED <<reserved_events, choked, scanVars, woken, propVars, need_wakeup, destroying,
                 jobVars, histVars>>

(* There is nothing in the queue that can be returned.                     *)
QueueHoldsNothing == IF events = <<>> THEN ~choked ELSE HookFirst /\ Waiting # {}

MarkWaiting(ps) ==
  [p \in Props |-> [ps[p] EXCEPT !.waiting_for_hook =
                      IF p \in Observed THEN ps[p].waiting_for_hook \/ p \in Waiting ELSE @]]

(* gen_property_change_event(): round-robin over the properties            *)
Ready(i) == UpToDate(properties[i]) /\ ~ToldLast(properties[i])
ReadyFrom(k) == {i \in DOMAIN properties : i >= k /\ Ready(i)}

UserTakesChange ==
  /\ InWaitEvent /\ Unlocked /\ QueueHoldsNothing
  /\ LET ahead == ReadyFrom(cur_property_index + 1)
         again == IF new_property_events THEN ReadyFrom(1) ELSE {}
         candidates == IF ahead # {} THEN ahead ELSE again
     IN \E i \in candidates : \E p \in {properties[i]} :
          /\ \A j \in candidates : i <= j
          /\ cur_property_index' = i
          /\ new_property_events' = (new_property_events /\ ahead # {})
          /\ prop' = [MarkWaiting(prop) EXCEPT
                        ![p].value_ret_ts = prop[p].value_ts, ![p].waiting_for_hook = FALSE]
          /\ known' = [known EXCEPT ![p] = IF p \in Plain THEN actual[p] ELSE prop[p].value]
  /\ hook_pending' = HookFirst
  /\ Goto("idle")
  /\ UNCHANGED <<queueVars, scanVars, woken, properties, has_pending_properties, list_changed,
                 hook, old, need_wakeup, destroying, jobVars, actual, overtaken, budget>>

(* wait_wakeup() unlocks ctx->lock.                                        *)
UserSleeps ==
  /\ InWaitEvent /\ Unlocked /\ QueueHoldsNothing
  /\ ReadyFrom(IF new_property_events THEN 1 ELSE cur_property_index + 1) = {}
  /\ cur_property_index' = Len(properties) /\ new_property_events' = FALSE
  /\ prop' = MarkWaiting(prop) /\ hook_pending' = HookFirst
  /\ Goto("asleep")
  /\ UNCHANGED <<queueVars, scanVars, woken, properties, has_pending_properties, list_changed,
                 hook, old, need_wakeup, destroying, jobVars, histVars>>

UserTimesOut ==
  /\ user = "asleep"
  /\ Goto("idle")
  /\ UNCHANGED <<queueVars, scanVars, woken, propVars, hookVars, need_wakeup, destroying,
                 jobVars, histVars>>

UserWakes ==
  /\ user \in {"asleep", "drain asleep"} /\ need_wakeup
  /\ need_wakeup' = FALSE
  /\ Goto(IF user = "asleep" THEN "wait" ELSE "drain")
  /\ UNCHANGED <<queueVars, scanVars, woken, propVars, hookVars, destroying, jobVars, histVars>>

(* Mutant of Drained: the reads of properties are not waited for.          *)
DrainedReplies == reserved_events = 0

Drained == reserved_events = 0 /\ async_counter = 0

(* mpv_wait_async_requests()                                               *)
UserDrains ==
  /\ user \in {"idle", "drain"} /\ Unlocked
  /\ Goto(IF ~Drained THEN "drain asleep" ELSE IF destroying THEN "remove" ELSE "idle")
  /\ UNCHANGED <<queueVars, scanVars, woken, propVars, hookVars, need_wakeup, destroying,
                 jobVars, histVars>>

(* mpv_destroy(): the handle is marked, ...                                *)
Destroy ==
  /\ user = "idle" /\ Unlocked
  /\ destroying' = TRUE /\ properties' = <<>> /\ list_changed' = (core = "read")
  /\ prop' = [p \in Props |-> Fresh] /\ known' = [p \in Props |-> None] /\ old' = {}
  /\ overtaken' = {}
  /\ Goto("abort")
  /\ UNCHANGED <<queueVars, scanVars, woken, has_pending_properties, new_property_events,
                 cur_property_index, hook, hook_pending, need_wakeup, jobVars, actual, budget>>

(* Mutant of AbortAsync: nothing is aborted.                               *)
AbortNothing ==
  /\ user = "abort"
  /\ late' = {c \in Cmds : job[c] = "queued"}
  /\ Goto("drain")
  /\ UNCHANGED <<queueVars, scanVars, woken, propVars, hookVars, need_wakeup, destroying,
                 requests, job, aborted, histVars>>

(* ... its commands are aborted, ...                                       *)
AbortAsync ==
  /\ user = "abort"
  /\ aborted' = aborted \cup {c \in Abortable : job[c] = "running"}
  /\ late' = {c \in Cmds : job[c] = "queued"}
  /\ Goto("drain")
  /\ UNCHANGED <<queueVars, scanVars, woken, propVars, hookVars, need_wakeup, destroying,
                 requests, job, histVars>>

(* What is left in the handle is freed with it.                            *)
Free ==
  /\ events' = <<>> /\ choked' = FALSE /\ need_wakeup' = FALSE /\ hook_pending' = FALSE
  /\ has_pending_properties' = FALSE /\ new_property_events' = FALSE
  /\ cur_property_index' = 0 /\ list_changed' = FALSE
  /\ UNCHANGED <<reserved_events, properties, prop>>

(* Mutant of FreeHandle: the core is not woken.                            *)
FreeHandleQuietly ==
  /\ user = "remove"
  /\ Free /\ Goto("freed")
  /\ UNCHANGED <<scanVars, woken, hook, old, destroying, jobVars, histVars>>

(* ... and it is taken from the list and freed, without ctx->lock.         *)
FreeHandle ==
  /\ user = "remove"
  /\ Free /\ Goto("freed")
  /\ woken' = TRUE
  /\ UNCHANGED <<scanVars, hook, old, destroying, jobVars, histVars>>

-----------------------------------------------------------------------------
CoreStep ==
  \/ ScanStart \/ ScanResume \/ ScanEnd \/ CoreWakes
  \/ \E p \in Props : ScanSkip(p) \/ ScanPlain(p) \/ ScanRead(p)
  \/ \E c \in Cmds : RunRequest(c)

UserPolls == UserOverflows \/ UserTakesEvent \/ UserTakesChange \/ UserSleeps

UserReturns == UserPolls \/ UserWakes \/ UserDrains \/ AbortAsync \/ FreeHandle

UserCalls ==
  \/ \E p \in Props : Observe(p) \/ Unobserve(p)
  \/ \E c \in Cmds : CommandAsync(c)
  \/ HookContinue \/ Destroy \/ UserTimesOut

Next ==
  \/ CoreStep \/ UserReturns \/ UserCalls
  \/ CoreTimesOut \/ HookStart \/ Broadcast
  \/ \E p \in Props, v \in Values : Change(p, v) \/ ForeignChange(p, v)
  \/ \E c \in Cmds : JobEnds(c)

Spec == Init /\ [][Next]_vars

(* Calls run on, and the core serves its dispatch queue at last.  A        *)
(* command that can be aborted ends soon only when it is.  The user keeps  *)
(* waiting for events while a hook is to come.                             *)
FairSpec ==
  /\ Spec /\ SF_vars(CoreStep) /\ SF_vars(user # "idle" /\ UserReturns)
  /\ SF_vars(\E c \in Cmds : (c \in Abortable => c \in aborted) /\ JobEnds(c))
  /\ SF_vars(hook = "sent" /\ UserPolls)

-----------------------------------------------------------------------------
(* reserve_reply() guarantees "that the reply can be made, even if the     *)
(* buffer becomes congested _after_ sending the request": events leave     *)
(* every request its place, so that send_reply() never comes to abort().   *)
ReplyHasPlace == Len(events) + reserved_events <= MaxEvents

(* Every place of the ring buffer is reserved for a reply.                 *)
AllReserved == reserved_events = MaxEvents

(* A user who sleeps in mpv_wait_event() and is not being woken misses     *)
(* nothing: no event, no hook and no change could be returned (a scan      *)
(* wakes at its end).  Only of an overflow while all places are reserved   *)
(* for replies it is told no earlier than of the first reply.              *)
NothingMissed ==
  user = "asleep" /\ ~need_wakeup /\ CoreFree =>
    /\ QueueHoldsNothing \/ (events = <<>> /\ AllReserved)
    /\ ReadyFrom(1) = {}

(* A value that the core read and did not see changed since ("not a stale  *)
(* value?" in gen_property_change_event()) is the property's.              *)
ValueNotStale ==
  \A p \in Observed \ Plain : UpToDate(p) => prop[p].value = actual[p]

(* A change that the user was not told of is not forgotten: the core will  *)
(* read the property again, is reading it, or has what is to be told.      *)
(* There is one exception: a change on another thread while the core read  *)
(* the property's old value counts as read (value_ts = change_ts), until   *)
(* the property changes again.                                             *)
ChangeOnItsWay ==
  \A i \in DOMAIN properties :
    LET p == properties[i]
    IN known[p] # actual[p] =>
         \/ has_pending_properties /\ (core # "asleep" \/ woken) /\ ~UpToDate(p)
         \/ core = "scan" /\ pos <= i /\ ~UpToDate(p)
         \/ core = "read" /\ (list_changed \/ pos < i \/ (pos = i /\ val = actual[p]))
         \/ Ready(i) /\ (p \in Plain \/ prop[p].value = actual[p])
         \/ p \in overtaken

(* "Give old property notifications priority over hooks": when the user    *)
(* gets a hook, every property that did not change since it was sent is    *)
(* known to them, however the scans of the core and the waits interleave,  *)
(* but for those whose last change came while their old value was read.    *)
HookAfterChanges ==
  [][hook' = "returned" /\ hook # "returned"
       => \A p \in old \ overtaken : known[p] = actual[p]]_vars

(* "block until all asynchronous requests were served": a handle is freed  *)
(* only when no request, reply or read of a property needs it any more.    *)
AliveWhileUsed ==
  user = "freed" => /\ core \in {"run", "asleep"}
                    /\ \A c \in Cmds : job[c] \in {"none", "done"}

(* The core, which waits for the hook, is not blocked for ever by a user   *)
(* who waits for the core to read the properties, or who is gone.          *)
HookEnds == HookHeld ~> ~HookHeld \/ user = "drain asleep"

(* mpv_destroy() returns, if each command had started when it aborted      *)
(* them, with the core reading a property and replies under way.           *)
DestroyReturns == user = "drain" /\ destroying /\ late = {} ~> user = "freed"

(* "Block until all asynchronous requests are done" (mpv_wait_async_       *)
(* requests()): who still sleeps has something to wait for.                *)
WaitsForRequests == user = "drain asleep" /\ ~need_wakeup /\ CoreFree => ~Drained
=============================================================================
