------------------------------ MODULE TrayApp ------------------------------
(***************************************************************************)
(* The tray application's App as a value, and the engine functions of      *)
(* tray/tier.rs, tray/schedule.rs, tray/power.rs and tray/controller.rs as *)
(* operators from the App before the call to the App after it.  They all   *)
(* run to completion on the UI thread, so one message is one application   *)
(* of them (TrayEngine).                                                   *)
(*                                                                         *)
(* The last argument m of an operator is the set of mishaps of the message *)
(* being handled: the native calls in it that do not go as hoped.  A       *)
(* mishap strikes every call of its kind in that message.                  *)
(***************************************************************************)
EXTENDS TimerController, TickPolicy

CONSTANTS
    Requested,        \* config.request_interval at startup
    Finest,           \* the interval an automatic request resolves to
    Floor,            \* FALLBACK_FLOOR_HNS
    MaxPolls,         \* HANDOFF_MAX_POLLS
    SurfaceAttempts   \* SURFACE_RECOVERY_ATTEMPTS

ASSUME TrayAppAssumption ==
    /\ Requested \in Nat
    /\ Finest \in Nat \ {0}
    /\ Floor \in Nat /\ Floor > Finest
    /\ MaxPolls \in Nat \ {0}
    /\ SurfaceAttempts \in Nat \ {0}

Mishap ==
    {"resolve",        \* no interval can be resolved for a request
     "preflight",      \* the query before the native request fails
     "request",        \* NtSetTimerResolution(TRUE) is refused
     "postcondition",  \* the three samples do not support the request
     "rollback",       \* NtSetTimerResolution(FALSE) after that is refused
     "release",        \* NtSetTimerResolution(FALSE) of a stop is refused
     "finer",          \* another process keeps the system finer
     "observe",        \* the query of an observation fails
     "handoffTimer", "durationTimer",
     "debounceTimer", "surfaceTimer",   \* SetTimer fails
     "icon",           \* Shell_NotifyIconW fails
     "power",          \* GetSystemPowerStatus fails
     "save"}           \* config::save_atomic fails

TrayStatus ==
    {"Running", "Starting", "ScheduledStart", "Pausing", "Stopping",
     "ScheduledStop", "Paused", "Degraded", "Unverified", "Stopped", "Blocked", "Error"}
DurationAction == {"Start", "Stop", "Pause"}
None == "None"

(* The timer of the surface recovery.  Refused: the SetTimer of the last   *)
(* entry to SurfaceDegraded failed, which is recorded and never repeated.  *)
WakeState == {"Off", "Armed", "Refused"}

NoHandoff == [polls |-> -1, paused |-> FALSE, boundary |-> NoInterval]

(* armed abstracts duration_timer_generation: Current when it is the       *)
(* generation of the coordinator, Stale when the coordinator moved on.     *)
(* due says that the deadline of the scheduled action has passed.          *)
App ==
    [ctl : Controller(Nat), status : TrayStatus,
     handoff : [polls : -1..MaxPolls, paused : BOOLEAN, boundary : Option(Nat)],
     desired : {None, "Acquire", "Release"},
     scheduled : DurationAction \cup {None}, due : BOOLEAN,
     armed : {None, "Current", "Stale"},
     power : PowerState, debounce : PowerState \cup {None}, resume : BOOLEAN,
     automatic : BOOLEAN, auto_resume : BOOLEAN, lockout : BOOLEAN,
     tier : OperatingTier, rejected : 0..RejectionLimit,
     anomalies : 0..AnomalyLimit, pending : 0..AnomalyLimit,
     icon : BOOLEAN, wake : WakeState, attempts : 0..SurfaceAttempts, exhausted : BOOLEAN,
     tracked : Nat, gate : BOOLEAN, ipc : BOOLEAN,
     phase : {"starting", "running", "quitting", "exited", "overflow", "reentrant"}]

Capped(n, limit) == IF n > limit THEN limit ELSE n

HandoffPending(s) == s.handoff # NoHandoff
PauseActive(s)    == s.scheduled = "Pause"
Permitted(s)      == decide(s.power, s.lockout)
Resolved(c)       == IF c.req = Automatic THEN Finest ELSE c.req

(* DurationCoordinator::cancel and ::schedule: both move the generation.   *)
PauseCancel(s) ==
    IF s.scheduled = None THEN s
    ELSE [s EXCEPT !.scheduled = None, !.due = FALSE,
                   !.armed = IF @ = None THEN None ELSE "Stale"]
PauseSchedule(s, action) ==
    [s EXCEPT !.scheduled = action, !.due = FALSE,
              !.armed = IF @ = None THEN None ELSE "Stale"]
-----------------------------------------------------------------------------
(* refresh_operating_tier: drain the anomaly producers, evaluate, enter.   *)
(* Entering Quiescent while Owned calls guarded_release, whose first       *)
(* publish evaluates the tier again before anything was released: that     *)
(* recursion has no base case, the stack overflows and the process ends.   *)
drain_anomaly_producers(s) ==
    [s EXCEPT !.anomalies = Capped(s.anomalies + s.pending, AnomalyLimit), !.pending = 0]

EnterTier(s, to, m) ==
    LET entered == [s EXCEPT !.tier = to,
                             !.wake = IF s.tier = "SurfaceDegraded" THEN "Off" ELSE @]
    IN  CASE to = "Stay" -> s
          [] to = "SurfaceDegraded" ->
               [s EXCEPT !.tier = to, !.attempts = 0, !.exhausted = FALSE,
                         !.wake = IF "surfaceTimer" \in m THEN "Refused" ELSE "Armed"]
          [] to = "MetrologyDegraded" ->
               [entered EXCEPT !.ctl = clamp_requested_interval_floor(@, Floor)]
          [] to = "Nominal" ->
               [entered EXCEPT !.rejected = 0, !.anomalies = 0,
                               !.attempts = 0, !.exhausted = FALSE]
          [] to = "Quiescent" ->
               [entered EXCEPT !.phase = IF s.ctl.own = "Owned" /\ ~HandoffPending(s)
                                         THEN "overflow" ELSE @]

ApplyTier(s, m) == EnterTier(s, evaluate_tier(s.tier, s.icon, s.rejected, s.anomalies), m)

refresh_operating_tier(s, m) == ApplyTier(drain_anomaly_producers(s), m)

lifecycle_status(s) ==
    scheduled_lifecycle_status(s.status, HandoffPending(s), s.scheduled)

TracksSelection(s) ==   \* faulty: whatever is selected, owned or not
    IF s.ctl.sel # NoInterval THEN s.ctl.sel ELSE 0

TrackedInterval(s) ==
    IF s.ctl.own = "Owned" /\ s.ctl.sel # NoInterval THEN s.ctl.sel ELSE 0

(* App::publish: mirror the ownership to the emergency path, settle the    *)
(* status, evaluate the tier, and update the icon, whose loss evaluates    *)
(* the tier once more.                                                     *)
UpdateIcon(s, m) ==
    IF s.icon /\ "icon" \in m /\ s.tier \notin {"SurfaceDegraded", "Quiescent"}
    THEN refresh_operating_tier([s EXCEPT !.icon = FALSE], m) ELSE s

Publish(s, m) ==
    UpdateIcon(refresh_operating_tier(
        [s EXCEPT !.tracked = TrackedInterval(s), !.status = lifecycle_status(s)], m), m)

Show(s, status, m) == Publish([s EXCEPT !.status = status], m)

(* The transitional status while a handoff is pending.                     *)
ShowPending(s, m) == Show(s, IF PauseActive(s) THEN "Pausing" ELSE "Stopping", m)

ReleasedStatus(s) == IF PauseActive(s) THEN "Paused" ELSE "Stopped"

show_ownership_status(s, m) ==
    IF HandoffPending(s) THEN ShowPending(s, m)
    ELSE Show(s, CASE s.ctl.own = "Released"  -> ReleasedStatus(s)
                   [] s.ctl.own = "Owned"     -> "Running"
                   [] s.ctl.own = "Uncertain" -> "Unverified", m)
-----------------------------------------------------------------------------
LeavesTimerArmed(s) == s   \* faulty: the timer is not forgotten

cancel_duration_timer(s) == [s EXCEPT !.armed = None]

CanArm(s, m) == s.scheduled # None /\ s.icon /\ "durationTimer" \notin m

arm_duration_timer(s, m) ==
    IF CanArm(s, m) THEN [s EXCEPT !.armed = "Current"]
    ELSE IF s.scheduled = None \/ ~s.icon THEN s
    ELSE Show([PauseCancel(s) EXCEPT !.armed = None], "Error", m)

NeverRearms(s, m) == s   \* faulty: the pause timer is not armed again

ArmIfPaused(s, m) == IF PauseActive(s) THEN arm_duration_timer(s, m) ELSE s

(* A nested process_desired_intent: nothing is ever pending there.         *)
NothingDesired(s) == IF s.desired = None THEN s ELSE [s EXCEPT !.phase = "reentrant"]

(* begin_handoff: without a watcher the release window closes at once.     *)
HandoffStarts(s, m) == s.icon /\ "handoffTimer" \notin m

begin_handoff(s, m) ==
    LET disarmed == cancel_duration_timer(s)
        paused == PauseActive(s)
    IN  IF HandoffStarts(s, m)
        THEN Show([disarmed EXCEPT !.handoff =
                      [polls |-> 0, paused |-> paused, boundary |-> s.ctl.bnd]],
                  IF paused THEN "Pausing" ELSE "Stopping", m)
        ELSE ArmIfPaused(NothingDesired(
                Show([disarmed EXCEPT !.ctl = clear_release_boundary(@)],
                     IF paused THEN "Unverified" ELSE "Stopped", m)), m)

(* guarded_release up to its native call, and whether it returns Ok.       *)
Stopping(s, m) == ShowPending(s, m)
ReleaseSucceeds(s, m) ==
    ~HandoffPending(s) /\ StopSucceeds(Stopping(s, m).ctl, "release" \notin m)

(* What follows the native call, unless a handoff took over.               *)
Released(s, released_status, m) ==
    IF HandoffPending(s) THEN s
    ELSE ArmIfPaused(
            Show([s EXCEPT !.ctl = clear_release_boundary(@)], released_status, m), m)

StopAndWatch(s, released_status, m) ==
    LET after == [s EXCEPT !.ctl = Stop(@, "release" \notin m)]
    IN  IF ~StopSucceeds(s.ctl, "release" \notin m) THEN Show(after, "Unverified", m)
        ELSE Released(IF s.ctl.own # "Released" /\ "finer" \in m
                      THEN begin_handoff(after, m) ELSE after, released_status, m)

guarded_release(s, released_status, m) ==
    IF HandoffPending(s) THEN s ELSE StopAndWatch(Stopping(s, m), released_status, m)

(* The branch of queue_intent while a handoff is pending: coalesce.        *)
DeferRestartsWatch(s, intent, m) ==   \* faulty: every intent restarts the polls
    ShowPending([s EXCEPT !.desired = intent, !.handoff.polls = 0], m)

Defer(s, intent, m) == ShowPending([s EXCEPT !.desired = intent], m)

(* release_for_policy: only power restrictions reach it.                   *)
release_for_policy(s, m) ==
    IF HandoffPending(s) THEN Defer(s, "Release", m)
    ELSE IF s.ctl.own = "Released" THEN Show(s, "Blocked", m)
    ELSE guarded_release([s EXCEPT !.resume = TRUE], "Blocked", m)

RequestOutcome(m) ==
    CASE "resolve" \in m   -> "ResolveFailed"
      [] m \cap {"resolve", "preflight"} = {"preflight"} -> "PreflightFailed"
      [] m \cap {"resolve", "preflight", "request"} = {"request"} -> "RequestFailed"
      [] m \cap {"resolve", "preflight", "request"} = {} ->
           IF "postcondition" \notin m THEN "Verified"
           ELSE IF "rollback" \in m THEN "RollbackFailed" ELSE "Unverified"

acquire_timer(s, m) ==
    LET starting == Show(s, "Starting", m)
        outcome  == RequestOutcome(m)
        started  == [starting EXCEPT
                        !.ctl = Start(@, Resolved(@), outcome),
                        !.rejected = IF outcome = "RequestFailed"
                                     THEN Capped(@ + 1, RejectionLimit) ELSE @]
    IN  IF s.ctl.own # "Released" THEN show_ownership_status(s, m)
        ELSE IF ~tier_allows_high_resolution(s.tier) THEN Show(s, ReleasedStatus(s), m)
        ELSE NothingDesired(
                Show(started, IF Verified(outcome) THEN "Running" ELSE "Error", m))

Taken(s) == [s EXCEPT !.desired = None]

AcquireIgnoresPause(s, m) ==    \* faulty: the pause is not looked at
    IF Permitted(s) THEN acquire_timer(Taken(s), m) ELSE release_for_policy(Taken(s), m)

AcquireIgnoresPolicy(s, m) ==   \* faulty: power is not looked at
    IF PauseActive(s) THEN Taken(s) ELSE acquire_timer(Taken(s), m)

AcquireIntent(s, m) ==
    IF PauseActive(s)
    THEN IF s.ctl.own = "Released"
         THEN arm_duration_timer(Show(Taken(s), "Paused", m), m) ELSE Taken(s)
    ELSE IF Permitted(s) THEN acquire_timer(Taken(s), m)
    ELSE release_for_policy(Taken(s), m)

ReleaseIntent(s, m) ==
    IF s.status = "Starting" THEN s
    ELSE IF s.ctl.own # "Released" THEN guarded_release(Taken(s), ReleasedStatus(s), m)
    ELSE ArmIfPaused(
            Show(Taken(s), IF PauseActive(s) /\ s.status # "Unverified"
                           THEN "Paused" ELSE "Stopped", m), m)

process_desired_intent(s, m) ==
    CASE HandoffPending(s) -> ShowPending(s, m)
      [] ~HandoffPending(s) /\ s.desired = None      -> s
      [] ~HandoffPending(s) /\ s.desired = "Acquire" -> AcquireIntent(s, m)
      [] ~HandoffPending(s) /\ s.desired = "Release" -> ReleaseIntent(s, m)

QueueOnly(s, intent, m) == Defer(s, intent, m)   \* faulty: nobody processes it

QueueIgnoresHandoff(s, intent, m) ==             \* faulty: acts during a handoff
    LET asked == [s EXCEPT !.desired = intent]
    IN  IF intent = "Acquire" THEN AcquireIntent(asked, m) ELSE ReleaseIntent(asked, m)

queue_intent(s, intent, m) ==
    IF HandoffPending(s) THEN Defer(s, intent, m)
    ELSE process_desired_intent([s EXCEPT !.desired = intent], m)
-----------------------------------------------------------------------------
apply_policy(s, m) ==
    IF s.scheduled \in {"Start", "Stop"}
    THEN IF Permitted(s) THEN show_ownership_status(s, m) ELSE release_for_policy(s, m)
    ELSE queue_intent(s, IF /\ ~PauseActive(s)
                            /\ acquisition_is_allowed(s.automatic, s.power, s.lockout)
                         THEN "Acquire" ELSE "Release", m)

refresh_timing_observation(s, m) ==
    [s EXCEPT !.ctl = Query(@, IF "observe" \in m THEN NoInterval ELSE Resolved(@))]

reconcile(s, m) == apply_policy(refresh_timing_observation(s, m), m)

(* PreserveUncertain in automatic mode on AC: settle, then acquire.  From  *)
(* Uncertain, guarded_release is Ok exactly when it ends Released.         *)
AfterSettle(s, m) ==
    IF s.ctl.own = "Released" THEN apply_policy(s, m) ELSE show_ownership_status(s, m)

Reconciliation(s) == power_reconciliation(s.automatic, s.power, s.ctl.own, s.lockout)

ApplyReconciliation(s, action, m) ==
    CASE action = "Acquire" -> apply_policy(s, m)
      [] action = "ReleaseBlocked" -> release_for_policy(s, m)
      [] action \in {"ShowStopped", "PreserveOwned"} -> show_ownership_status(s, m)
      [] action = "PreserveUncertain" ->
           IF uncertain_recovery_attempts_acquire(s.automatic, s.power)
           THEN AfterSettle(guarded_release(s, "Stopped", m), m)
           ELSE show_ownership_status(s, m)

apply_power_reconciliation(s, m) ==
    LET resumes == resume_on_ac_applies(s.auto_resume, s.resume, s.power, s.ctl.own)
    IN  IF PauseActive(s) THEN queue_intent(s, "Release", m)
        ELSE IF resumes THEN queue_intent([s EXCEPT !.resume = FALSE], "Acquire", m)
        ELSE ApplyReconciliation(s, Reconciliation(s), m)

release_for_power_change(s, m) ==
    apply_power_reconciliation(refresh_timing_observation(s, m), m)

(* refresh_power: a failed query is Unknown power, never the old value.    *)
refresh_power(s, os, m) == [s EXCEPT !.power = IF "power" \in m THEN "Unknown" ELSE os]
-----------------------------------------------------------------------------
manual_start(s, m) == queue_intent(s, "Acquire", m)

manual_stop(s, m) == queue_intent([s EXCEPT !.resume = FALSE], "Release", m)

schedule_duration_action(s, action, m) ==
    LET placed == PauseSchedule(cancel_duration_timer(s), action)
        armed  == arm_duration_timer(placed, m)
        shown  == IF PauseActive(s) /\ action # "Pause"
                  THEN show_ownership_status(armed, m) ELSE armed
    IN  IF ~CanArm(placed, m) THEN Show(PauseCancel(armed), "Error", m)
        ELSE IF action = "Pause"
        THEN queue_intent(Show(shown, "Pausing", m), "Release", m)
        ELSE Publish(shown, m)

cancel_scheduled_action(s, os, m) ==
    IF s.scheduled = None THEN s
    ELSE apply_power_reconciliation(
            refresh_power(PauseCancel(cancel_duration_timer(s)), os, m), m)

(* The deadline: what the action does under the power of this moment.      *)
execute_scheduled_action(s, action, os, m) ==
    LET fresh == refresh_power(s, os, m)
    IN  CASE action = "Start" ->
               IF ~Permitted(fresh) THEN release_for_policy(fresh, m)
               ELSE IF fresh.ctl.own = "Released" THEN queue_intent(fresh, "Acquire", m)
               ELSE show_ownership_status(fresh, m)
          [] action = "Stop" ->
               IF s.ctl.own = "Released" THEN show_ownership_status(s, m)
               ELSE guarded_release(s, "Stopped", m)
          [] action = "Pause" -> reconcile(fresh, m)

handle_duration_timer(s, os, m) ==
    IF s.armed # "Current" \/ s.scheduled = None THEN s                \* Stale
    ELSE IF ~s.due THEN arm_duration_timer(s, m)                       \* Early
    ELSE execute_scheduled_action(                                     \* Expired
            PauseCancel(cancel_duration_timer(s)), s.scheduled, os, m)

WatchesTooLong(h) == h.polls > MaxPolls   \* faulty: off by one

HandoffTimedOut(h) == h.polls + 1 >= MaxPolls

handle_handoff_timer(s, m) ==
    LET h == s.handoff
        settled == /\ CanObserve(s.ctl, h.boundary)
                   /\ m \cap {"finer", "observe"} = {}
        over == [s EXCEPT !.handoff = NoHandoff, !.ctl = clear_release_boundary(@)]
        ended == IF settled THEN Show(over, IF h.paused THEN "Paused" ELSE "Stopped", m)
                 ELSE Show(over, IF h.paused THEN "Unverified" ELSE "Stopped", m)
    IN  IF settled \/ HandoffTimedOut(h)
        THEN ArmIfPaused(process_desired_intent(ended, m), m)
        ELSE Show([s EXCEPT !.handoff.polls = @ + 1],
                  IF h.paused THEN "Pausing" ELSE "Stopping", m)
-----------------------------------------------------------------------------
(* Faulty: a debounce already running keeps its old target.                *)
DebounceKeepsTarget(s, m) ==
    IF s.power = "BatterySaver"
    THEN release_for_power_change([s EXCEPT !.debounce = None], m)
    ELSE [s EXCEPT !.debounce = IF @ = None THEN s.power ELSE @]

handle_power_broadcast_event(s, m) ==
    IF s.power = "BatterySaver"
    THEN release_for_power_change([s EXCEPT !.debounce = None], m)
    ELSE [s EXCEPT !.debounce = IF "debounceTimer" \in m THEN None ELSE s.power]

handle_power_debounce_timer(s, m) ==
    LET fired == [s EXCEPT !.debounce = None]
    IN  IF s.power = "Unknown"
        THEN [fired EXCEPT !.debounce = IF "debounceTimer" \in m THEN None ELSE "Unknown"]
        ELSE IF s.debounce = s.power THEN release_for_power_change(fired, m)
        ELSE fired

(* PBT_APMRESUME*, and every power event the window does not recognise.    *)
ResumeEvent(s, os, m) ==
    handle_power_broadcast_event(
        apply_power_reconciliation(refresh_power(s, os, m), m), m)
-----------------------------------------------------------------------------
(* The settings: nothing changes in memory unless it was saved.            *)
set_automatic(s, enabled, m) ==
    LET set == [s EXCEPT !.automatic = enabled]
    IN  IF "save" \in m THEN Publish(s, m)
        ELSE IF enabled THEN reconcile(set, m) ELSE manual_stop(set, m)

set_auto_resume(s, enabled, m) ==
    IF "save" \in m THEN Publish(s, m)
    ELSE apply_power_reconciliation([s EXCEPT !.auto_resume = enabled], m)

set_battery_lockout(s, enabled, m) ==
    IF "save" \in m THEN Publish(s, m)
    ELSE apply_power_reconciliation([s EXCEPT !.lockout = enabled], m)

(* handle_settings_reset, once confirmed.                                  *)
handle_settings_reset(s, m) ==
    LET cleared == [cancel_duration_timer(PauseCancel(manual_stop(s, m)))
                       EXCEPT !.debounce = None, !.resume = FALSE]
        defaults == [cleared EXCEPT !.automatic = FALSE, !.auto_resume = TRUE,
                                    !.lockout = FALSE]
    IN  IF "save" \in m THEN cleared
        ELSE Publish(apply_power_reconciliation(defaults, m), m)

RestoreUnpublished(s, m) ==   \* faulty: the tier never hears of it
    [s EXCEPT !.icon = "icon" \notin m]

restore_tray_icon(s, m) == Publish([s EXCEPT !.icon = "icon" \notin m], m)

(* service_surface_recovery and advance_surface_recovery.                  *)
service_surface_recovery(s, m) ==
    LET tried == s.attempts + 1
        spent == tried >= SurfaceAttempts
    IN  IF s.tier # "SurfaceDegraded" \/ s.icon \/ s.exhausted THEN s
        ELSE IF "icon" \notin m
        THEN Publish([s EXCEPT !.icon = TRUE, !.attempts = 0, !.wake = "Off"], m)
        ELSE Publish([s EXCEPT !.attempts = tried, !.exhausted = spent,
                               !.wake = IF spent THEN "Off" ELSE @], m)
-----------------------------------------------------------------------------
(* cleanup_normal_shutdown: the IPC server goes first, the gate last.      *)
Quiesced(s) ==
    [cancel_duration_timer(PauseCancel(s)) EXCEPT
        !.ipc = FALSE, !.debounce = None, !.resume = FALSE]

CleanupIgnoresHandoff(s, m) ==   \* faulty: a handoff that just began is not waited for
    s.gate \/ HandoffPending(s) \/ ReleaseSucceeds(Quiesced(s), m)

CleanupSucceeds(s, m) ==
    LET q == Quiesced(s)
    IN  \/ s.gate
        \/ HandoffPending(s) /\ s.ctl.own = "Released"
        \/ ReleaseSucceeds(q, m) /\ ~HandoffPending(guarded_release(q, "Stopped", m))

cleanup_normal_shutdown(s, m) ==
    LET q == Quiesced(s)
        ended == IF HandoffPending(s) /\ s.ctl.own = "Released"
                 THEN Show([q EXCEPT !.handoff = NoHandoff,
                                     !.ctl = clear_release_boundary(@)], "Stopped", m)
                 ELSE guarded_release(q, "Stopped", m)
    IN  IF s.gate THEN [s EXCEPT !.ipc = FALSE]
        ELSE [ended EXCEPT !.gate = CleanupSucceeds(s, m)]

(* run(): the calls between the window's creation and its message loop.    *)
Startup(s, probed, m) ==
    LET observed == refresh_timing_observation(refresh_operating_tier(s, m), m)
    IN  apply_power_reconciliation(
            [observed EXCEPT !.phase = "running",
                             !.ctl = IF probed THEN SettleProbed(@) ELSE @], m)
=============================================================================
