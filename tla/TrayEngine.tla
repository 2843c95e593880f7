----------------------------- MODULE TrayEngine -----------------------------
(***************************************************************************)
(* The tray process: one UI thread that handles one message at a time,     *)
(* and around it the user, the IPC server thread, the operating system's   *)
(* power and shell notifications, the timers, and the anomalies that other *)
(* threads report.  A message is one action; what its native calls answer  *)
(* is its set of mishaps.                                                  *)
(***************************************************************************)
EXTENDS TrayApp, FiniteSets

CONSTANTS
    Powers,       \* power states the machine goes through
    Actions,      \* duration actions that get scheduled
    Settings,     \* settings the user toggles
    Verbs,        \* IPC verbs clients send
    Mishaps,      \* the mishaps of this instance
    MaxMishaps,   \* bound: mishaps per message
    MaxAnomalies, \* bound: anomalies reported over the whole run
    Configs       \* configurations the process may start with

ASSUME TrayEngineAssumption ==
    /\ Powers \subseteq PowerState /\ Powers # {}
    /\ Actions \subseteq DurationAction
    /\ Settings \subseteq {"automatic", "auto_resume", "lockout", "reset"}
    /\ Verbs \subseteq {"RequestAcquire", "RequestRelease", "ScheduleAction", "CancelSchedule"}
    /\ Mishaps \subseteq Mishap
    /\ MaxMishaps \in Nat
    /\ MaxAnomalies \in Nat
    /\ Configs \subseteq [automatic : BOOLEAN, auto_resume : BOOLEAN, lockout : BOOLEAN]

VARIABLES
    app,      \* the App of the UI thread
    os,       \* the power state of the machine
    notice,   \* the machine changed power and has not said so yet
    request,  \* the IPC command queued for the UI thread, or None
    reported  \* anomalies reported so far

env  == <<os, notice, request, reported>>
vars == <<app, os, notice, request, reported>>

MishapSets == {m \in SUBSET Mishaps : Cardinality(m) <= MaxMishaps}

TypeOK ==
    /\ app \in App
    /\ os \in Powers
    /\ notice \in BOOLEAN
    /\ request \in Verbs \cup {None}
    /\ reported \in 0..MaxAnomalies

Init ==
    /\ os \in Powers
    /\ reported \in 0..(IF MaxAnomalies < 2 THEN MaxAnomalies ELSE 2)
         \* a corrupt session marker, a recovered configuration
    /\ \E c \in Configs, seen \in {os} \cup (IF "power" \in Mishaps THEN {"Unknown"} ELSE {}) :
         app = [ctl |-> NewController(Requested),
                status |-> IF seen = os THEN "Stopped" ELSE "Degraded",
                handoff |-> NoHandoff, desired |-> None,
                scheduled |-> None, due |-> FALSE, armed |-> None,
                power |-> seen, debounce |-> None, resume |-> FALSE,
                automatic |-> c.automatic, auto_resume |-> c.auto_resume,
                lockout |-> c.lockout,
                tier |-> "Nominal", rejected |-> 0, anomalies |-> 0,
                pending |-> Capped(reported, AnomalyLimit),
                icon |-> TRUE, wake |-> "Off", attempts |-> 0, exhausted |-> FALSE,
                tracked |-> 0, gate |-> FALSE, ipc |-> TRUE, phase |-> "starting"]
    /\ notice = FALSE /\ request = None
-----------------------------------------------------------------------------
(* The end of a message.  A stack overflow ends the process, and Windows   *)
(* drops the kernel request of a process that ends.                        *)
Dropped(s) == [s EXCEPT !.ctl = NewController(Requested), !.handoff = NoHandoff,
                        !.desired = None, !.tracked = 0]

Becomes(s) == app' = IF s.phase = "overflow" THEN Dropped(s) ELSE s

Handle(s) == Becomes(s) /\ UNCHANGED env

Running == app.phase = "running"
Pumping == app.phase \in {"running", "quitting"}  \* GetMessageW still returns

startup ==
    /\ app.phase = "starting"
    /\ \E m \in MishapSets, probed \in BOOLEAN : Handle(Startup(app, probed, m))

(* The menu.                                                               *)
MenuStart ==
    /\ Running /\ StartEnabled(lifecycle_status(app))
    /\ \E m \in MishapSets : Handle(manual_start(app, m))

MenuStop ==
    /\ Running /\ StopEnabled(lifecycle_status(app))
    /\ \E m \in MishapSets : Handle(manual_stop(app, m))

MenuSchedule ==
    /\ Running
    /\ \E a \in Actions, m \in MishapSets : Handle(schedule_duration_action(app, a, m))

MenuCancel ==
    /\ Running /\ app.scheduled # None
    /\ \E m \in MishapSets : Handle(cancel_scheduled_action(app, os, m))

ToggleAutomatic ==
    /\ Running /\ "automatic" \in Settings
    /\ \E m \in MishapSets : Handle(set_automatic(app, ~app.automatic, m))

ToggleAutoResume ==
    /\ Running /\ "auto_resume" \in Settings
    /\ \E m \in MishapSets : Handle(set_auto_resume(app, ~app.auto_resume, m))

ToggleLockout ==
    /\ Running /\ "lockout" \in Settings
    /\ \E m \in MishapSets : Handle(set_battery_lockout(app, ~app.lockout, m))

SettingsReset ==
    /\ Running /\ "reset" \in Settings
    /\ \E m \in MishapSets : Handle(handle_settings_reset(app, m))

(* ID_QUIT, the dialog answered with yes where one is shown.  A cleanup    *)
(* that fails leaves the application open.                                 *)
Quit ==
    /\ Running
    /\ \E m \in MishapSets :
         LET cleaned == cleanup_normal_shutdown(app, m)
         IN  Handle(IF CleanupSucceeds(app, m) /\ cleaned.phase = "running"
                    THEN [cleaned EXCEPT !.phase = "quitting"] ELSE cleaned)

(* GetMessageW returns WM_QUIT once the posted messages are handled, and   *)
(* may fail at any time; either way the loop in run() cleans up and, with  *)
(* the pump bound long exceeded, leaves.                                   *)
LoopEnds ==
    /\ \/ app.phase = "quitting" /\ request = None
       \/ Running
    /\ \E m \in MishapSets :
         Handle([Dropped(cleanup_normal_shutdown(app, m)) EXCEPT !.phase = "exited"])
-----------------------------------------------------------------------------
(* The IPC server thread queues a command and posts WM_APP_IPC.            *)
IpcForward ==
    /\ Pumping /\ app.ipc /\ request = None
    /\ \E v \in Verbs : request' = v
    /\ UNCHANGED <<app, os, notice, reported>>

drain_ipc_command_queue ==
    /\ Pumping /\ request # None
    /\ \E m \in MishapSets :
         \/ request = "RequestAcquire" /\ Becomes(manual_start(app, m))
         \/ request = "RequestRelease" /\ Becomes(manual_stop(app, m))
         \/ request = "ScheduleAction"
              /\ \E a \in Actions : Becomes(schedule_duration_action(app, a, m))
         \/ request = "CancelSchedule" /\ Becomes(cancel_scheduled_action(app, os, m))
         \/ request # "RequestRelease" /\ Becomes(app)  \* its payload is refused
    /\ request' = None
    /\ UNCHANGED <<os, notice, reported>>
-----------------------------------------------------------------------------
(* Timers.  A WM_TIMER may come before its deadline.                       *)
HandoffTimer ==
    /\ Running /\ HandoffPending(app)
    /\ \E m \in MishapSets : Handle(handle_handoff_timer(app, m))

DurationTimer ==
    /\ Running /\ app.armed # None
    /\ \E m \in MishapSets : Handle(handle_duration_timer(app, os, m))

DebounceTimer ==
    /\ Running /\ app.debounce # None
    /\ \E m \in MishapSets : Handle(handle_power_debounce_timer(app, m))

SurfaceTimer ==
    /\ Running /\ app.wake = "Armed"
    /\ \E m \in MishapSets : Handle(service_surface_recovery(app, m))

(* The schedule display, heartbeat and startup setting only publish.       *)
Republish ==
    /\ Running
    /\ \E m \in MishapSets : Handle(Publish(app, m))

TaskbarCreated ==
    /\ Running
    /\ \E m \in MishapSets : Handle(restore_tray_icon(app, m))
-----------------------------------------------------------------------------
(* WM_POWERBROADCAST is sent, so it is handled even after PostQuitMessage. *)
PowerStatusChange ==
    /\ Pumping
    /\ \E m \in MishapSets :
         Becomes(handle_power_broadcast_event(refresh_power(app, os, m), m))
    /\ notice' = FALSE
    /\ UNCHANGED <<os, request, reported>>

Suspend ==
    /\ Pumping
    /\ \E m \in MishapSets : Handle(release_for_power_change(app, m))

Resume ==
    /\ Pumping
    /\ \E m \in MishapSets : Handle(ResumeEvent(app, os, m))
-----------------------------------------------------------------------------
(* The machine, the clock and the other threads.                           *)
PowerChanges ==
    /\ Pumping
    /\ os' \in Powers \ {os}
    /\ notice' = TRUE
    /\ UNCHANGED <<app, request, reported>>

DeadlinePasses ==
    /\ Pumping /\ app.scheduled # None /\ ~app.due
    /\ app' = [app EXCEPT !.due = TRUE]
    /\ UNCHANGED env

AnomalyReported ==
    /\ Pumping /\ reported < MaxAnomalies
    /\ app' = [app EXCEPT !.pending = Capped(@ + 1, AnomalyLimit)]
    /\ reported' = reported + 1
    /\ UNCHANGED <<os, notice, request>>

Next ==
    \/ startup
    \/ MenuStart \/ MenuStop \/ MenuSchedule \/ MenuCancel
    \/ ToggleAutomatic \/ ToggleAutoResume \/ ToggleLockout \/ SettingsReset
    \/ Quit \/ LoopEnds
    \/ IpcForward \/ drain_ipc_command_queue
    \/ HandoffTimer \/ DurationTimer \/ DebounceTimer \/ SurfaceTimer
    \/ Republish \/ TaskbarCreated
    \/ PowerStatusChange \/ Suspend \/ Resume
    \/ PowerChanges \/ DeadlinePasses \/ AnomalyReported

Spec == Init /\ [][Next]_vars

(* What Windows and the clock keep doing while the message loop runs: an   *)
(* armed timer fires, time passes, a power change is broadcast.  The user, *)
(* the clients and the mishaps owe nothing.  Each conjunct is weak         *)
(* fairness, written with the condition under which the action changes     *)
(* something instead of ENABLED, which TLC cannot afford on these handlers.*)
Fairness ==
    /\ WF_vars(DeadlinePasses)
    /\ []<>~(Running /\ HandoffPending(app)) \/ []<><<HandoffTimer>>_vars
    /\ []<>~(Running /\ app.armed = "Current" /\ app.due) \/ []<><<DurationTimer>>_vars
    /\ []<>~(Running /\ app.debounce # None) \/ []<><<DebounceTimer>>_vars
    /\ []<>~(Pumping /\ notice) \/ []<><<PowerStatusChange>>_vars

FairSpec == Spec /\ Fairness
-----------------------------------------------------------------------------
(* An intent is parked only behind a handoff: nothing the user or policy   *)
(* asked for is left in desired_intent with nobody to process it, and the  *)
(* nested calls of process_desired_intent never find one                   *)
(* (queue_intent, process_desired_intent, handle_handoff_timer).           *)
NoStrandedIntent ==
    /\ app.phase # "reentrant"
    /\ Running /\ app.desired # None => HandoffPending(app)

(* While a handoff is watched the ownership is already released, the       *)
(* release window is the one the watcher remembers, and no kernel request  *)
(* is in force (begin_handoff, guarded_release).                           *)
HandoffIsReleased ==
    HandoffPending(app) =>
        /\ app.ctl.own = "Released" /\ ~app.ctl.held
        /\ app.ctl.bnd = app.handoff.boundary /\ app.ctl.bnd # NoInterval

(* A release window without a watcher would pin every later observation to *)
(* a stale interval: each path that ends or refuses a handoff closes it.   *)
WindowIsWatched == app.ctl.bnd # NoInterval => HandoffPending(app)

(* During a pause the timer is held only if a release of it failed: no     *)
(* order of start, resume, power and schedule messages acquires it.        *)
PauseSuppresses ==
    PauseActive(app) /\ app.ctl.own = "Owned" => app.ctl.ver = "Unverified"

(* Whatever is owned, or may be, can still be released: stop() has the     *)
(* interval to release, no clamp or probe has taken it away.               *)
ReleaseReachesKernel == app.ctl.own # "Released" => app.ctl.sel # NoInterval

(* The emergency cleanup, which cannot look at the App, is told about an   *)
(* ownership before the message that acquired it ends, and forgets it with *)
(* the message that released it (publish, publish_tracked_interval).       *)
EmergencyCoversOwned ==
    app.tracked = IF app.ctl.own = "Owned" THEN app.ctl.sel ELSE 0

(* The one timer of the duration coordinator belongs to the schedule it    *)
(* shows: no cancel, replacement or handoff leaves an older one armed.     *)
ArmedIsCurrent == app.armed # None => app.armed = "Current" /\ app.scheduled # None

(* A pause ends: while one is active and the tray icon exists, its timer   *)
(* is armed or the handoff that will arm it is pending.                    *)
PauseWillEnd ==
    Running /\ PauseActive(app) /\ app.icon => app.armed = "Current" \/ HandoffPending(app)

(* An acquisition happens only with power and no pause permitting it, as   *)
(* the UI thread sees them in that very message.                           *)
Acquires == app.ctl.own = "Released" /\ app'.ctl.own # "Released"
AcquireIsPermitted ==
    [][Acquires => decide(app'.power, app'.lockout) /\ ~PauseActive(app')]_vars

(* Nothing is acquired in the message that opens a handoff or while one is *)
(* pending: the system settles before the next request.                    *)
AcquireAfterHandoff == [][Acquires => ~HandoffPending(app')]_vars

(* The shutdown gate opens only on a settled release: nothing owned, no    *)
(* kernel request, no handoff left (cleanup_normal_shutdown).              *)
GateOpensReleased ==
    [][~app.gate /\ app'.gate =>
         app'.ctl.own = "Released" /\ ~app'.ctl.held /\ ~HandoffPending(app')]_vars

(* A lost tray icon waits for the recovery timer until the attempts are    *)
(* used up, with two exceptions.  With a kernel rejection or an anomaly    *)
(* outstanding the tier does not recover, and a second loss in the same    *)
(* tier arms nothing.  And when the SetTimer made on entering the tier     *)
(* failed nobody repeats it: no other path leaves an icon unretried        *)
(* (refresh_operating_tier, advance_surface_recovery, restore_tray_icon).  *)
SurfaceIsRetried ==
    Running /\ ~app.icon /\ app.rejected = 0 /\ app.anomalies = 0 =>
        /\ app.tier = "SurfaceDegraded"
        /\ app.wake = "Armed" \/ app.exhausted \/ app.wake = "Refused"
-----------------------------------------------------------------------------
(* A handoff ends after a bounded number of polls, even when the system    *)
(* stays finer or cannot be read for ever (HandoffTracker).                *)
HandoffEnds == Running /\ HandoffPending(app) ~> ~(Running /\ HandoffPending(app))

(* A pause whose deadline has passed ends, however it was interrupted by   *)
(* handoffs and power changes (handle_duration_timer).                     *)
PauseEnds ==
    Running /\ PauseActive(app) /\ app.due ~> ~(Running /\ PauseActive(app) /\ app.due)

(* Once the machine settles on a power state that forbids the timer, the   *)
(* timer is released for good: debounced, discarded and superseded         *)
(* notifications never leave it held (handle_power_broadcast_event,        *)
(* handle_power_debounce_timer).                                           *)
StablePowerIsObeyed ==
    <>[](Running /\ ~decide(os, app.lockout)) => <>[](app.ctl.own = "Released")
-----------------------------------------------------------------------------
(* What the documentation says and the code does not do.                   *)

(* docs/diagrams/apps/true-tick/src/tray/tier.md: entering Quiescent while *)
(* owned releases as a restorative step.                                   *)
QuiescentReleases == app.phase # "overflow"

(* docs/UI_AND_INTERACTION.md: Start in and Stop in schedule an acquire or *)
(* a release at a future time.                                             *)
ScheduleWillFire ==
    Running /\ app.scheduled # None => app.armed = "Current" \/ HandoffPending(app)

(* docs/diagrams/apps/true-tick/src/tray/controller.md: the shutdown gate  *)
(* verifies only after the release settled; what it verified stays so.     *)
GateMeansReleased == app.gate => app.ctl.own = "Released"

(* ARCHITECTURE.md: with auto resume on, returning to AC reacquires what a *)
(* battery transition released.                                            *)
BatteryReleaseResumes ==
    <>[](/\ Running /\ os = "Ac" /\ app.auto_resume
         /\ app.ctl.own = "Released" /\ app.scheduled = None) => []<>~app.resume
=============================================================================
