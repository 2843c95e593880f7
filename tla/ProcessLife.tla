---------------------------- MODULE ProcessLife -----------------------------
(***************************************************************************)
(* A tray process from its start to its end and what it leaves on disk:    *)
(* the single-instance mutex, the session marker (session.rs), the         *)
(* configuration file (config.rs), the start-up registration               *)
(* (tick-startup-windows), emergency cleanup (emergency.rs), which runs on *)
(* a thread of its own, and the factory reset with its relaunch (menu.rs). *)
(* A process may die between any two steps. Calls that can fail do so at   *)
(* most MaxFaults times.                                                   *)
(***************************************************************************)
EXTENDS Integers, FiniteSets

CONSTANTS Processes,      \* process identifiers
          MaxLaunches,    \* bound: processes started, relaunches included
          MaxFaults       \* bound: file, registry and native calls that fail

ASSUME ProcessLifeAssumption == MaxLaunches \in Nat /\ MaxFaults \in Nat

VARIABLES proc,       \* the processes, see Process
          marker,     \* session.state
          config,     \* true-tick.toml
          backup,     \* the damaged file is kept as true-tick.toml.corrupted.<n>.bak
          registry,   \* the Run key holds the value TrueTick
          portable,   \* the executable lies in a slot of a package
          session,    \* how the last session that wrote its marker ended (history)
          launches, faults

markerVars == <<marker, session>>
configVars == <<config, backup>>
lifeDisk   == <<markerVars, configVars, registry, portable>>
lifeVars   == <<proc, lifeDisk, launches, faults>>

\* A configuration is its start-up switch and whether the rest is as shipped.
Config   == [startup : BOOLEAN, factory : BOOLEAN]
Default  == [startup |-> TRUE, factory |-> TRUE]
NoConfig == [not |-> "present"]
Oversize == [not |-> "read"]
Damaged  == [not |-> "parsed"]       \* empty, not UTF-8, or not a list of settings
Legacy   == [not |-> "migrated"]
ConfigFiles == Config \cup {NoConfig, Oversize, Damaged, Legacy}

\* A tombstone is recognised by its checksum, with or without a reason behind it; "running"
\* is the text that older versions wrote.
Markers == {"absent", "tombstone", "aborted", "clean", "running", "garbage"}

Process == [
    at      : {"off", "created", "marker", "tombstone", "config", "heal", "register", "init",
               "window", "aborted", "running", "wiped", "relaunch", "exit", "closing"},
    cleanup : {"PENDING", "IN_PROGRESS", "DONE"},   \* CLEANUP_STATE
    config  : Config,                               \* App.config
    told    : {"nothing", "FirstRun", "CleanExit", "UncleanShutdown", "Corrupted", "Unreadable",
               "Red", "Info", "registered", "disabled", "unavailable", "error", "rolled back",
               "repair"},    \* the verdict on the previous session, then App.startup_status
    blind   : BOOLEAN,       \* the load failed and the defaults apply
    child   : BOOLEAN]       \* spawned by a reset

New == [at |-> "created", cleanup |-> "PENDING", config |-> Default, told |-> "nothing",
        blind |-> FALSE, child |-> FALSE]
Off == [New EXCEPT !.at = "off"]

At(p, stage) == proc[p].at = stage
Holds(p)     == proc[p].at \notin {"off", "created"}   \* the mutex, until the process ends
\* EMERGENCY_CONTEXT is set before the window is created.
HasContext(p) ==
    proc[p].at \in {"init", "window", "aborted", "running", "wiped", "relaunch", "exit", "closing"}

LifeInit ==
    /\ proc = [p \in Processes |-> Off]
    /\ marker \in {"absent", "running", "garbage"}
    /\ config \in {Default, [startup |-> FALSE, factory |-> FALSE], NoConfig, Oversize, Damaged,
                   Legacy}
    /\ backup = FALSE
    /\ registry = FALSE
    /\ portable \in BOOLEAN
    /\ session = "none"
    /\ launches = 0
    /\ faults = 0

Go(p, stage)   == proc' = [proc EXCEPT ![p].at = stage]
Tell(p, text)  == proc' = [proc EXCEPT ![p].told = text]
Leave(p)       == proc' = [proc EXCEPT ![p] = Off]
\* Of the calls that a step makes those in failed fail; there are MaxFaults failures in all.
Calls(failed)  == /\ faults + Cardinality(failed) <= MaxFaults
                  /\ faults' = faults + Cardinality(failed)
                  /\ UNCHANGED launches
Call(ok)       == Calls(IF ok THEN {} ELSE {"it"})

-----------------------------------------------------------------------------
(* The mutex and the session marker                                        *)

launch(p) ==
    /\ At(p, "off") /\ launches < MaxLaunches
    /\ launches' = launches + 1
    /\ proc' = [proc EXCEPT ![p] = New]
    /\ UNCHANGED <<lifeDisk, faults>>

\* CreateMutexW fails, opens the mutex of another process, or makes it: the first two exit.
EveryInstanceProceeds(ok) == TRUE      \* faulty: an existing mutex is taken as one's own
single_instance_decision(ok) == ok /\ ~ \E q \in Processes : Holds(q)

single_instance(p) == \E ok \in BOOLEAN :
    /\ At(p, "created")
    /\ Call(ok)
    /\ IF single_instance_decision(ok) THEN Go(p, "marker") ELSE Leave(p)
    /\ UNCHANGED lifeDisk

classify_session_read(content, ok) ==
    CASE ~ok -> "Unreadable"
      [] ok /\ content = "absent" -> "FirstRun"
      [] ok /\ content = "clean"  -> "CleanExit"
      [] ok /\ content \in {"tombstone", "aborted", "running"} -> "UncleanShutdown"
      [] OTHER -> "Corrupted"

read_session_marker(p) == \E ok \in BOOLEAN :
    /\ At(p, "marker")
    /\ Call(ok)
    /\ proc' = [proc EXCEPT ![p].at = "tombstone", ![p].told = classify_session_read(marker, ok)]
    /\ UNCHANGED lifeDisk

\* A temporary file that replaces the marker, or nothing.
write_session_bytes_atomic(bytes, ending, ok) ==
    /\ marker' = IF ok THEN bytes ELSE marker
    /\ session' = IF ok THEN ending ELSE session
    /\ UNCHANGED <<configVars, registry, portable>>

create_session_tombstone(p) == \E ok \in BOOLEAN :
    /\ At(p, "tombstone")
    /\ Call(ok)
    /\ write_session_bytes_atomic("tombstone", "live", ok)
    /\ Go(p, "config")

\* The module, the classes, the window or its icon cannot be had. A dialog keeps the process
\* until it is dismissed.
mark_session_aborted(p) == \E ok \in BOOLEAN :
    /\ Call(ok)
    /\ write_session_bytes_atomic("aborted", "died", ok)
    /\ Go(p, "aborted")
abort_startup(p)      == At(p, "init") /\ mark_session_aborted(p)
abort_after_window(p) == At(p, "window") /\ mark_session_aborted(p)

SessionDies == session' = IF session = "live" THEN "died" ELSE session

\* remove_session_marker at the end of run(), whatever the shutdown disposition was. A marker
\* that cannot be removed makes the next start report this session.
mark_session_clean(p) == \E ok \in BOOLEAN :
    /\ At(p, "closing")
    /\ Call(ok)
    /\ marker' = IF ok THEN "absent" ELSE marker
    /\ IF ok THEN session' = "ended" ELSE SessionDies
    /\ Leave(p)
    /\ UNCHANGED <<configVars, registry, portable>>

\* The process is killed, crashes, exits for its child, or is done with its abort dialog.
die(p) ==
    /\ ~At(p, "off")
    /\ IF proc[p].at \in {"created", "marker", "tombstone"} THEN UNCHANGED session ELSE SessionDies
    /\ Leave(p)
    /\ UNCHANGED <<marker, configVars, registry, portable, launches, faults>>

-----------------------------------------------------------------------------
(* Emergency cleanup, on the handler thread or in WM_ENDSESSION            *)

emergency_begin(p) ==
    /\ Holds(p) /\ proc[p].cleanup = "PENDING"
    /\ proc' = [proc EXCEPT ![p].cleanup = "IN_PROGRESS"]
    /\ UNCHANGED <<lifeDisk, launches, faults>>

\* The timer is restored and the log flushed by now; without a context no marker is written.
emergency_finish(p) == \E ok \in BOOLEAN :
    /\ proc[p].cleanup = "IN_PROGRESS"
    /\ proc' = [proc EXCEPT ![p].cleanup = "DONE"]
    /\ Call(ok)
    /\ write_session_bytes_atomic("clean", "ended", ok /\ HasContext(p))

-----------------------------------------------------------------------------
(* The configuration file                                                  *)

LoadError(p) == proc' = [proc EXCEPT ![p].at = "init", ![p].told = "Red", ![p].blind = TRUE]
Loaded(p, c) == proc' = [proc EXCEPT ![p].at = "register", ![p].config = c]

\* load_with_migration: a missing or oversized file is an error, the defaults apply and
\* nothing is written; the legacy request is rewritten; a damaged file is renamed first.
load_config(p) == \E ok \in BOOLEAN :
    /\ At(p, "config")
    /\ Call(ok)
    /\ \/ /\ config \in {NoConfig, Oversize} \/ ~ok
          /\ LoadError(p) /\ UNCHANGED configVars
       \/ /\ ok /\ config \in Config
          /\ Loaded(p, config) /\ UNCHANGED configVars
       \/ /\ ok /\ config = Legacy
          /\ config' = Default /\ UNCHANGED backup
          /\ Loaded(p, Default)
       \/ /\ ok /\ config = Damaged
          /\ config' = NoConfig /\ backup' = TRUE
          /\ Go(p, "heal")
    /\ UNCHANGED <<markerVars, registry, portable>>

\* recover_corrupted: the defaults are saved after the rename; the registration is skipped.
recover_corrupted(p) == \E ok \in BOOLEAN :
    /\ At(p, "heal")
    /\ Call(ok)
    /\ config' = IF ok THEN Default ELSE config
    /\ IF ok THEN proc' = [proc EXCEPT ![p].at = "init", ![p].told = "Info"] ELSE LoadError(p)
    /\ UNCHANGED <<markerVars, backup, registry, portable>>

\* save_atomic of the next configuration: the file and then the memory change, or neither.
SaveForgets(p, next, told, ok) ==     \* faulty: the memory changes although the save failed
    /\ config' = IF ok THEN next ELSE config
    /\ proc' = [proc EXCEPT ![p].told = told, ![p].config = next]
save_atomic(p, next, told, ok) ==
    /\ config' = IF ok THEN next ELSE config
    /\ proc' = [proc EXCEPT ![p].told = told, ![p].config = IF ok THEN next ELSE @]

\* set_automatic, set_auto_resume, set_battery_lockout, persist_presets
set_setting(p) == \E ok \in BOOLEAN :
    /\ At(p, "running")
    /\ Call(ok)
    /\ save_atomic(p, [proc[p].config EXCEPT !.factory = FALSE], proc[p].told, ok)
    /\ UNCHANGED <<markerVars, backup, registry, portable>>

-----------------------------------------------------------------------------
(* The start-up registration                                               *)

\* Only an executable in a slot has a launcher beside it to register.
startup_target(enabled) == enabled => portable

\* The value is set or removed. A failure leaves it open whether it was: closing the key may
\* have failed after the change.
register_target(enabled, ok) ==
    registry' \in CASE ~startup_target(enabled) -> {registry}
                    [] startup_target(enabled) /\ ok -> {enabled}
                    [] OTHER -> {registry, enabled}

\* At start; a load error or a recovery goes past it.
register_at_startup(p) == \E ok \in BOOLEAN :
    LET enabled  == proc[p].config.startup
        possible == ok /\ startup_target(enabled)
    IN /\ At(p, "register")
       /\ Call(ok)
       /\ register_target(enabled, ok)
       /\ proc' = [proc EXCEPT ![p].at = "init",
                      ![p].told = CASE ~possible -> "Red"
                                    [] possible /\ enabled -> "registered"
                                    [] OTHER -> "disabled"]
       /\ UNCHANGED <<markerVars, configVars, portable>>

\* After a save that failed the value that was removed comes back, if it can; the one that
\* was added stays.
RollbackNothing(enabled, ok) == registry' = enabled      \* faulty: neither change is undone
startup_rollback(enabled, ok) ==
    registry' \in CASE enabled \/ (portable /\ ok) -> {TRUE}
                    [] ~enabled /\ portable /\ ~ok -> BOOLEAN
                    [] OTHER -> {FALSE}

\* Registry first, then the file, then, if the file cannot be written, the registry again.
\* Without a launcher to register the switch is saved alone.
set_startup(p, enabled) == \E failed \in SUBSET {"register", "save", "restore"} :
    LET available == startup_target(enabled)
        saved     == "save" \notin failed
        undone    == ~enabled /\ portable /\ "restore" \notin failed
    IN /\ At(p, "running")
       /\ Calls(failed)
       /\ "register" \in failed => available /\ failed = {"register"}
       /\ "restore" \in failed => available /\ ~enabled /\ ~saved
       /\ IF "register" \in failed
          THEN Tell(p, "error") /\ register_target(enabled, FALSE) /\ UNCHANGED config
          ELSE /\ save_atomic(p, [proc[p].config EXCEPT !.startup = enabled],
                       CASE ~available -> "unavailable"
                         [] available /\ saved -> IF enabled THEN "registered" ELSE "disabled"
                         [] OTHER -> IF undone THEN "rolled back" ELSE "repair",
                       saved)
               /\ IF saved \/ ~available THEN register_target(enabled, TRUE)
                                        ELSE startup_rollback(enabled, "restore" \notin failed)
       /\ UNCHANGED <<markerVars, backup, portable>>

-----------------------------------------------------------------------------
(* Resets                                                                  *)

\* handle_settings_reset: the defaults are saved and then registered; startup_status stays,
\* and nobody looks whether the registration failed.
settings_reset(p) == \E failed \in {{}, {"save"}, {"register"}} :
    /\ At(p, "running")
    /\ Calls(failed)
    /\ save_atomic(p, Default, proc[p].told, "save" \notin failed)
    /\ IF "save" \in failed THEN UNCHANGED registry ELSE register_target(TRUE, failed = {})
    /\ UNCHANGED <<markerVars, backup, portable>>

\* execute_reset: the marker goes, then the logs and the configuration, then a new process is
\* spawned while this one still holds the mutex, and this one exits.
reset_marker(p) == \E ok \in BOOLEAN :
    /\ At(p, "running")
    /\ Call(ok)
    /\ write_session_bytes_atomic("absent", "none", ok)
    /\ Go(p, "wiped")

reset_config(p) == \E ok \in BOOLEAN :
    /\ At(p, "wiped")
    /\ Call(ok)
    /\ config' = IF ok THEN NoConfig ELSE config
    /\ Go(p, "relaunch")
    /\ UNCHANGED <<markerVars, backup, registry, portable>>

relaunch_fails(p) ==
    /\ At(p, "relaunch")
    /\ Call(FALSE)
    /\ Go(p, "running")
    /\ UNCHANGED lifeDisk

relaunch(p, child) ==
    /\ At(p, "relaunch") /\ At(child, "off") /\ launches < MaxLaunches
    /\ launches' = launches + 1
    /\ proc' = [proc EXCEPT ![p].at = "exit", ![child] = [New EXCEPT !.child = TRUE]]
    /\ UNCHANGED <<lifeDisk, faults>>

-----------------------------------------------------------------------------
(* The message loop and its end                                            *)

create_window(p) ==
    /\ At(p, "init")
    /\ Go(p, "window")
    /\ UNCHANGED <<lifeDisk, launches, faults>>

\* The icon is there; the server, the probe, the heartbeat and the watchdog may fail.
enter_loop(p) ==
    /\ At(p, "window")
    /\ Go(p, "running")
    /\ UNCHANGED <<lifeDisk, launches, faults>>

shutdown_disposition(exit, verified, usable) ==
    CASE verified /\ exit = "NormalQuit" -> "Complete"
      [] verified /\ exit # "NormalQuit" -> "ExitAfterMessageLoopError"
      [] ~verified /\ exit = "NormalQuit" /\ usable -> "KeepAliveForRetry"
      [] OTHER -> "ExitWithUnresolvedCleanup"

\* The loop ends and cleanup is tried; unless it is kept for a retry within the bound of the
\* shutdown pump, the process goes on to its end.
message_loop_ends(p) ==
    \E exit \in {"NormalQuit", "GetMessageFailed"}, verified, usable, late \in BOOLEAN :
        /\ At(p, "running")
        /\ \/ shutdown_disposition(exit, verified, usable) # "KeepAliveForRetry"
           \/ ~verified /\ late
        /\ Go(p, "closing")
        /\ UNCHANGED <<lifeDisk, launches, faults>>

LifeNext == \E p \in Processes :
    \/ launch(p) \/ single_instance(p)
    \/ read_session_marker(p) \/ create_session_tombstone(p) 
    \/ abort_startup(p) \/ abort_after_window(p) \/ mark_session_clean(p) \/ die(p)
    \/ emergency_begin(p) \/ emergency_finish(p)
    \/ load_config(p) \/ recover_corrupted(p) \/ set_setting(p)
    \/ register_at_startup(p) \/ \E enabled \in BOOLEAN : set_startup(p, enabled)
    \/ settings_reset(p) \/ reset_marker(p) \/ reset_config(p)
    \/ relaunch_fails(p) \/ \E child \in Processes : relaunch(p, child)
    \/ create_window(p) \/ enter_loop(p) \/ message_loop_ends(p)

LifeSpec == LifeInit /\ [][LifeNext]_lifeVars

-----------------------------------------------------------------------------
(* Type invariant of the process, marker and configuration state.          *)
LifeTypeOK ==
    /\ proc \in [Processes -> Process]
    /\ marker \in Markers
    /\ session \in {"none", "live", "ended", "died"}
    /\ config \in ConfigFiles
    /\ backup \in BOOLEAN /\ registry \in BOOLEAN /\ portable \in BOOLEAN
    /\ launches \in 0..MaxLaunches /\ faults \in 0..MaxFaults

\* The verdicts that end in show_unclean_shutdown_warning.
Alarms == {"UncleanShutdown", "Corrupted", "Unreadable"}

(* A start judges the session before it rightly (controller.rs 429-481):   *)
(* it warns of one that wrote its marker and then died or gave up, it      *)
(* warns of one that ended through its shutdown or emergency cleanup only  *)
(* when reading the marker fails, and it never takes the marker of a live  *)
(* process for an old one.                                                 *)
VerdictIsRight ==
    [][\A p \in Processes : At(p, "marker") /\ proc'[p].at = "tombstone" =>
          /\ session # "live"
          /\ session = "died" => proc'[p].told \in Alarms
          /\ session = "ended" /\ faults' = faults => proc'[p].told \notin Alarms]_lifeVars

(* What a running process has in memory is what the file says, however its *)
(* saves fail (commands.rs, presets_window.rs), unless its load had failed *)
(* or its own reset deleted the file.                                      *)
SettingsAgree ==
    \A p \in Processes :
        proc[p].at \in {"init", "window", "running", "closing"} /\ ~proc[p].blind =>
            config \in {proc[p].config, NoConfig}

(* Types, and settings that agree with their file.                         *)
LifeInv == LifeTypeOK /\ SettingsAgree

(* The start-up registration disappears only when a process comes to have  *)
(* the switch off, or says that its registration failed or needs a repair  *)
(* (commands.rs 328-477).                                                  *)
RegistrationKept ==
    [][registry /\ ~registry' => \E p \in Processes :
          /\ proc[p].at \in {"register", "running"}
          /\ ~proc'[p].config.startup \/ proc'[p].told \in {"error", "repair"}]_lifeVars

(* menu.rs:1443, "then relaunches the executable and terminates this       *)
(* process": the process that a reset spawns takes over.                   *)
ResetRestarts ==
    [][\A p \in Processes :
          proc[p].child /\ single_instance(p) /\ faults' = faults
              => proc'[p].at = "marker"]_lifeVars
=============================================================================
