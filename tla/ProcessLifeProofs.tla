-------------------------- MODULE ProcessLifeProofs --------------------------
(***************************************************************************)
(* ProcessLife for any set of processes, any number of launches and any    *)
(* number of failing calls.                                                *)
(***************************************************************************)
EXTENDS ProcessLife, FiniteSetTheorems, TLAPS

\* Two processes never hold the mutex at the same time.
OneHolder == \A p, q \in Processes : Holds(p) /\ Holds(q) => p = q

\* Between its load and its end a process that could load its settings has those of the
\* file, unless the file is gone; before the load it has the defaults.
Settled == {"register", "init", "window", "aborted", "running", "wiped", "relaunch", "exit",
            "closing"}
MemoryIsFile ==
    \A p \in Processes :
        /\ proc[p].at \in Settled /\ ~proc[p].blind => config \in {proc[p].config, NoConfig}
        /\ proc[p].at \notin Settled => proc[p].config = Default /\ ~proc[p].blind

\* The marker on disk fits the way the last session went, and a session that goes on is
\* that of a process past its marker.
MarkerTells ==
    /\ session \in {"live", "died"} => marker \in {"tombstone", "aborted"}
    /\ session = "ended" => marker \in {"absent", "clean"}
    /\ session = "live" =>
          \E p \in Processes : Holds(p) /\ proc[p].at \notin {"marker", "tombstone"}

\* The emergency thread belongs to a process that holds the mutex.
CleanupIsHeld == \A p \in Processes : proc[p].cleanup # "PENDING" => Holds(p)

LifeIInv == LifeTypeOK /\ OneHolder /\ MemoryIsFile /\ MarkerTells /\ CleanupIsHeld

-----------------------------------------------------------------------------

\* A step with failing calls keeps their number within its bound.
LEMMA CallsAreBounded ==
    ASSUME faults \in 0..MaxFaults, NEW failed \in SUBSET {"register", "save", "restore"},
           Calls(failed)
    PROVE  faults' \in 0..MaxFaults /\ launches' = launches
<1>1. /\ IsFiniteSet({"register"})
      /\ IsFiniteSet({"register"} \cup {"save"})
      /\ IsFiniteSet(({"register"} \cup {"save"}) \cup {"restore"})
  <2>1. IsFiniteSet({"register"})
    BY FS_Singleton
  <2>2. IsFiniteSet({"register"} \cup {"save"})
    BY <2>1, FS_AddElement
  <2> QED
    BY <2>1, <2>2, FS_AddElement
<1>2. failed \subseteq ({"register"} \cup {"save"}) \cup {"restore"}
  OBVIOUS
<1>3. Cardinality(failed) \in Nat
  BY <1>1, <1>2, FS_Subset, FS_CardinalityType
<1> QED
  BY <1>3, ProcessLifeAssumption DEF Calls

LEMMA CallIsBounded ==
    ASSUME faults \in 0..MaxFaults, NEW ok \in BOOLEAN, Call(ok)
    PROVE  faults' \in 0..MaxFaults /\ launches' = launches
<1>1. Cardinality({}) \in Nat /\ Cardinality({"it"}) \in Nat
  BY FS_EmptySet, FS_Singleton, FS_CardinalityType
<1> QED
  BY <1>1, ProcessLifeAssumption DEF Call, Calls

\* What the configuration and the process records of a start are.
LEMMA Shipped == /\ Default \in Config /\ Config \subseteq ConfigFiles
                 /\ {NoConfig, Oversize, Damaged, Legacy} \subseteq ConfigFiles
                 /\ [startup |-> FALSE, factory |-> FALSE] \in Config
                 /\ New \in Process /\ Off \in Process
                 /\ New.config = Default /\ ~New.blind /\ New.cleanup = "PENDING"
                 /\ Off.config = Default /\ ~Off.blind /\ Off.cleanup = "PENDING"
                 /\ New.at = "created" /\ Off.at = "off"
<1>1. Default \in Config /\ [startup |-> FALSE, factory |-> FALSE] \in Config
  BY DEF Default, Config
<1>2. New \in Process /\ New.config = Default /\ ~New.blind /\ New.cleanup = "PENDING" /\ New.at = "created"
  BY <1>1 DEF New, Process
<1>3. Off \in Process /\ Off.config = Default /\ ~Off.blind /\ Off.cleanup = "PENDING" /\ Off.at = "off"
  BY <1>2 DEF Off, Process
<1> QED
  BY <1>1, <1>2, <1>3 DEF ConfigFiles

LEMMA LifeInitially == LifeInit => LifeIInv
<1> SUFFICES ASSUME LifeInit PROVE LifeIInv
  OBVIOUS
<1>1. LifeTypeOK
  <2>1. config \in ConfigFiles
    BY Shipped DEF LifeInit
  <2>2. proc \in [Processes -> Process]
    BY Shipped DEF LifeInit
  <2>3. launches \in 0..MaxLaunches /\ faults \in 0..MaxFaults
    BY ProcessLifeAssumption DEF LifeInit
  <2> QED
    BY <2>1, <2>2, <2>3 DEF LifeInit, LifeTypeOK, Markers
<1>2. \A p \in Processes : proc[p] = Off
  BY DEF LifeInit
<1>3. OneHolder /\ MemoryIsFile /\ CleanupIsHeld
  BY <1>2, Shipped DEF OneHolder, MemoryIsFile, CleanupIsHeld, Holds, Settled
<1> QED
  BY <1>1, <1>3 DEF LifeInit, LifeIInv, MarkerTells

\* A process that has written its marker.
Past(stage) == stage \notin {"off", "created", "marker", "tombstone"}

-----------------------------------------------------------------------------
(* How a step changes a process                                            *)

Stages == {"off", "created", "marker", "tombstone", "config", "heal", "register", "init",
           "window", "aborted", "running", "wiped", "relaunch", "exit", "closing"}
Texts  == {"nothing", "FirstRun", "CleanExit", "UncleanShutdown", "Corrupted", "Unreadable",
           "Red", "Info", "registered", "disabled", "unavailable", "error", "rolled back",
           "repair"}

\* Process p comes to the given stage, settings and cleanup state; no other process changes.
Becomes(p, stage, settings, blind, cleanup) ==
    /\ proc'[p] \in Process
    /\ proc' = [proc EXCEPT ![p] = proc'[p]]
    /\ proc'[p].at = stage
    /\ proc'[p].config = settings
    /\ proc'[p].blind = blind
    /\ proc'[p].cleanup = cleanup

LEMMA Shape == Process = [at : Stages, cleanup : {"PENDING", "IN_PROGRESS", "DONE"},
                          config : Config, told : Texts, blind : BOOLEAN, child : BOOLEAN]
BY DEF Process, Stages, Texts

\* The assignments to a process, one lemma each.
LEMMA Informed ==
    ASSUME proc \in [Processes -> Process], NEW p \in Processes, NEW stage \in Stages,
           NEW text \in Texts,
           proc' = [proc EXCEPT ![p].at = stage, ![p].told = text]
    PROVE  Becomes(p, stage, proc[p].config, proc[p].blind, proc[p].cleanup)
<1>1. proc[p] \in Process /\ proc'[p] = [proc[p] EXCEPT !.at = stage, !.told = text]
  OBVIOUS
<1>2. proc' = [proc EXCEPT ![p] = proc'[p]]
  OBVIOUS
<1>3. proc'[p] \in Process
  BY <1>1, Shape
<1>4. proc'[p].blind = proc[p].blind
  BY <1>1, Shape
<1>5. proc'[p].at = stage /\ proc'[p].config = proc[p].config /\ proc'[p].cleanup = proc[p].cleanup
  BY <1>1, Shape
<1> QED
  BY <1>2, <1>3, <1>4, <1>5 DEF Becomes

LEMMA Loading ==
    ASSUME proc \in [Processes -> Process], NEW p \in Processes, NEW settings \in Config,
           proc' = [proc EXCEPT ![p].at = "register", ![p].config = settings]
    PROVE  Becomes(p, "register", settings, proc[p].blind, proc[p].cleanup)
<1>0. "register" \in Stages
  BY DEF Stages, Texts
<1>1. proc[p] \in Process /\ proc'[p] = [proc[p] EXCEPT !.at = "register", !.config = settings]
  OBVIOUS
<1>2. proc' = [proc EXCEPT ![p] = proc'[p]]
  OBVIOUS
<1>3. proc'[p] \in Process
  BY <1>0, <1>1, Shape
<1>4. proc'[p].blind = proc[p].blind
  BY <1>1, Shape
<1>5. proc'[p].at = "register" /\ proc'[p].config = settings /\ proc'[p].cleanup = proc[p].cleanup
  BY <1>1, Shape
<1> QED
  BY <1>2, <1>3, <1>4, <1>5 DEF Becomes

LEMMA Blinded ==
    ASSUME proc \in [Processes -> Process], NEW p \in Processes,
           proc' = [proc EXCEPT ![p].at = "init", ![p].told = "Red", ![p].blind = TRUE]
    PROVE  Becomes(p, "init", proc[p].config, TRUE, proc[p].cleanup)
<1>0. "init" \in Stages /\ "Red" \in Texts
  BY DEF Stages, Texts
<1>1. proc[p] \in Process /\ proc'[p] = [proc[p] EXCEPT !.at = "init", !.told = "Red", !.blind = TRUE]
  OBVIOUS
<1>2. proc' = [proc EXCEPT ![p] = proc'[p]]
  OBVIOUS
<1>3. proc'[p] \in Process
  BY <1>0, <1>1, Shape
<1>4. proc'[p].blind = TRUE
  BY <1>1, Shape
<1>5. proc'[p].at = "init" /\ proc'[p].config = proc[p].config /\ proc'[p].cleanup = proc[p].cleanup
  BY <1>1, Shape
<1> QED
  BY <1>2, <1>3, <1>4, <1>5 DEF Becomes

LEMMA Saved ==
    ASSUME proc \in [Processes -> Process], NEW p \in Processes, NEW settings \in Config,
           NEW text \in Texts,
           proc' = [proc EXCEPT ![p].told = text, ![p].config = settings]
    PROVE  Becomes(p, proc[p].at, settings, proc[p].blind, proc[p].cleanup)
<1>1. proc[p] \in Process /\ proc'[p] = [proc[p] EXCEPT !.told = text, !.config = settings]
  OBVIOUS
<1>2. proc' = [proc EXCEPT ![p] = proc'[p]]
  OBVIOUS
<1>3. proc'[p] \in Process
  BY <1>1, Shape
<1>4. proc'[p].blind = proc[p].blind
  BY <1>1, Shape
<1>5. proc'[p].at = proc[p].at /\ proc'[p].config = settings /\ proc'[p].cleanup = proc[p].cleanup
  BY <1>1, Shape
<1> QED
  BY <1>2, <1>3, <1>4, <1>5 DEF Becomes

LEMMA Cleaning ==
    ASSUME proc \in [Processes -> Process], NEW p \in Processes, NEW state \in {"IN_PROGRESS", "DONE"},
           proc' = [proc EXCEPT ![p].cleanup = state]
    PROVE  Becomes(p, proc[p].at, proc[p].config, proc[p].blind, state)
<1>1. proc[p] \in Process /\ proc'[p] = [proc[p] EXCEPT !.cleanup = state]
  OBVIOUS
<1>2. proc' = [proc EXCEPT ![p] = proc'[p]]
  OBVIOUS
<1>3. proc'[p] \in Process
  BY <1>1, Shape
<1>4. proc'[p].blind = proc[p].blind
  BY <1>1, Shape
<1>5. proc'[p].at = proc[p].at /\ proc'[p].config = proc[p].config /\ proc'[p].cleanup = state
  BY <1>1, Shape
<1> QED
  BY <1>2, <1>3, <1>4, <1>5 DEF Becomes

LEMMA Moved ==
    ASSUME proc \in [Processes -> Process], NEW p \in Processes, NEW stage \in Stages,
           Go(p, stage)
    PROVE  Becomes(p, stage, proc[p].config, proc[p].blind, proc[p].cleanup)
<1>1. proc[p] \in Process /\ proc'[p] = [proc[p] EXCEPT !.at = stage]
  BY DEF Go
<1>2. proc' = [proc EXCEPT ![p] = proc'[p]]
  BY DEF Go
<1>3. proc'[p] \in Process
  BY <1>1 DEF Process, Stages
<1>4. proc'[p].blind = proc[p].blind
  BY <1>1 DEF Process
<1> QED
  BY <1>1, <1>2, <1>3, <1>4 DEF Becomes, Process

LEMMA Left ==
    ASSUME proc \in [Processes -> Process], NEW p \in Processes, Leave(p)
    PROVE  Becomes(p, "off", Default, FALSE, "PENDING")
BY Shipped DEF Leave, Becomes

\* What a change of process p has to respect to keep the invariant: the mutex, the
\* settings, the marker and the types of the rest.
LEMMA OwnStep ==
    ASSUME LifeIInv, NEW p \in Processes, NEW stage, NEW settings, NEW blind, NEW cleanup,
           Becomes(p, stage, settings, blind, cleanup),
           stage \in {"off", "created"} \/ Holds(p),
           cleanup = "PENDING" \/ stage \notin {"off", "created"},
           stage \in Settled /\ ~blind => config' \in {settings, NoConfig},
           stage \notin Settled => settings = Default /\ ~blind,
           config' \in {config, NoConfig} \/ Holds(p),
           session' \in {"live", "died"} => marker' \in {"tombstone", "aborted"},
           session' = "ended" => marker' \in {"absent", "clean"},
           session' = "live" => Past(stage) \/ (session = "live" /\ ~Past(proc[p].at)),
           marker' \in Markers, session' \in {"none", "live", "ended", "died"},
           config' \in ConfigFiles, backup' \in BOOLEAN, registry' \in BOOLEAN,
           portable' \in BOOLEAN, launches' \in 0..MaxLaunches, faults' \in 0..MaxFaults
    PROVE  LifeIInv'
<1> USE DEF LifeIInv
<1>0. /\ proc'[p].at = stage /\ proc'[p].config = settings /\ proc'[p].cleanup = cleanup
      /\ proc'[p].blind = blind
  BY DEF Becomes
<1>1. proc' \in [Processes -> Process] /\ \A q \in Processes \ {p} : proc'[q] = proc[q]
  BY DEF LifeTypeOK, Becomes
<1>2. LifeTypeOK'
  BY <1>1 DEF LifeTypeOK
<1>3. OneHolder'
  BY <1>0, <1>1 DEF OneHolder, Holds
<1>4. CleanupIsHeld'
  BY <1>0, <1>1 DEF CleanupIsHeld, Holds
<1>5. MemoryIsFile'
  <2>1. SUFFICES ASSUME NEW q \in Processes \ {p}
                 PROVE  proc[q].at \in Settled /\ ~proc[q].blind =>
                            config' \in {proc[q].config, NoConfig}
    BY <1>0, <1>1 DEF MemoryIsFile
  <2>2. Holds(p) => proc[q].at \notin Settled
    BY DEF OneHolder, Holds, Settled
  <2> QED
    BY <2>2 DEF MemoryIsFile
<1>6. MarkerTells'
  <2>1. ASSUME session' = "live" PROVE \E q \in Processes : Past(proc'[q].at)
    <3>1. CASE Past(stage)
      BY <1>0, <3>1
    <3>2. CASE session = "live" /\ ~Past(proc[p].at)
      <4>1. PICK q \in Processes : Past(proc[q].at)
        BY <3>2 DEF MarkerTells, Past, Holds
      <4> QED
        BY <1>1, <3>2, <4>1
    <3> QED
      BY <2>1, <3>1, <3>2
  <2> QED
    BY <2>1 DEF MarkerTells, Past, Holds
<1> QED
  BY <1>2, <1>3, <1>4, <1>5, <1>6

-----------------------------------------------------------------------------
(* The steps                                                               *)

\* A save in a running process: the file and the memory change together, or neither does.
LEMMA SaveKeeps ==
    ASSUME LifeIInv, NEW p \in Processes, proc[p].at = "running",
           NEW next \in Config, NEW text \in Texts, NEW ok \in BOOLEAN,
           save_atomic(p, next, text, ok), UNCHANGED <<markerVars, backup>>,
           registry' \in BOOLEAN, portable' \in BOOLEAN, launches' \in 0..MaxLaunches,
           faults' \in 0..MaxFaults
    PROVE  LifeIInv'
<1> USE DEF LifeIInv
<1>0. proc[p] \in Process /\ proc[p].config \in Config
  BY DEF LifeTypeOK, Process
<1>1. PICK settings \in Config : settings = IF ok THEN next ELSE proc[p].config
  BY <1>0
<1>2. proc' = [proc EXCEPT ![p].told = text, ![p].config = settings]
  BY <1>1 DEF save_atomic
<1>3. Becomes(p, proc[p].at, settings, proc[p].blind, proc[p].cleanup)
  BY <1>2, Saved DEF LifeTypeOK
<1>4. /\ config' \in ConfigFiles
      /\ ~proc[p].blind => config' \in {settings, NoConfig}
  BY <1>1, Shipped DEF save_atomic, LifeTypeOK, MemoryIsFile, Settled
<1>5. /\ session' \in {"live", "died"} => marker' \in {"tombstone", "aborted"}
      /\ session' = "ended" => marker' \in {"absent", "clean"}
      /\ marker' \in Markers /\ session' \in {"none", "live", "ended", "died"}
      /\ backup' \in BOOLEAN
  BY DEF markerVars, MarkerTells, LifeTypeOK
<1> QED
  BY <1>3, <1>4, <1>5, OwnStep DEF Holds, Past, Settled

\* The registration is a choice between what was and what is asked for.
LEMMA RegistrationType ==
    ASSUME registry \in BOOLEAN, NEW enabled \in BOOLEAN, NEW ok \in BOOLEAN
    PROVE  /\ register_target(enabled, ok) => registry' \in BOOLEAN
           /\ startup_rollback(enabled, ok) => registry' \in BOOLEAN
BY DEF register_target, startup_rollback

LEMMA LifeStep == LifeIInv /\ [LifeNext]_lifeVars => LifeIInv'
<1> SUFFICES ASSUME LifeIInv, LifeNext PROVE LifeIInv'
  BY DEF lifeVars, lifeDisk, markerVars, configVars, LifeIInv, LifeTypeOK, OneHolder,
         MemoryIsFile, MarkerTells, CleanupIsHeld, Holds
<1> PICK p \in Processes :
        \/ launch(p)
        \/ single_instance(p)
        \/ read_session_marker(p)
        \/ create_session_tombstone(p)
        \/ abort_startup(p)
        \/ abort_after_window(p)
        \/ mark_session_clean(p)
        \/ die(p)
        \/ emergency_begin(p)
        \/ emergency_finish(p)
        \/ load_config(p)
        \/ recover_corrupted(p)
        \/ set_setting(p)
        \/ register_at_startup(p)
        \/ \E enabled \in BOOLEAN : set_startup(p, enabled)
        \/ settings_reset(p)
        \/ reset_marker(p)
        \/ reset_config(p)
        \/ relaunch_fails(p)
        \/ \E child \in Processes : relaunch(p, child)
        \/ create_window(p)
        \/ enter_loop(p)
        \/ message_loop_ends(p)
  BY Zenon DEF LifeNext
<1> proc[p] \in Process
  BY DEF LifeIInv, LifeTypeOK
<1> USE DEF LifeIInv
<1>1. CASE launch(p)
  <2>1. Becomes(p, "created", Default, FALSE, "PENDING")
    BY <1>1, Shipped DEF launch, Becomes, LifeTypeOK
  <2>2. launches' \in 0..MaxLaunches /\ faults' \in 0..MaxFaults
    BY <1>1, ProcessLifeAssumption DEF launch, LifeTypeOK, At
  <2>3. /\ "created" \in {"off", "created"} \/ Holds(p)
        /\ "PENDING" = "PENDING" \/ "created" \notin {"off", "created"}
        /\ config' \in {config, NoConfig} \/ Holds(p)
    BY <1>1 DEF launch, At, lifeDisk, markerVars, configVars, Holds, CleanupIsHeld
  <2>4. /\ "created" \in Settled /\ ~FALSE => config' \in {Default, NoConfig}
        /\ "created" \notin Settled => Default = Default /\ ~FALSE
    BY <1>1 DEF launch, At, lifeDisk, markerVars, configVars, MemoryIsFile, Settled
  <2>5. /\ session' \in {"live", "died"} => marker' \in {"tombstone", "aborted"}
        /\ session' = "ended" => marker' \in {"absent", "clean"}
        /\ session' = "live" => Past("created") \/ (session = "live" /\ ~Past(proc[p].at))
        /\ marker' \in Markers /\ session' \in {"none", "live", "ended", "died"}
    BY <1>1
    DEF launch, At, lifeDisk, markerVars, configVars, LifeTypeOK, MarkerTells, Past, Markers
  <2>6. /\ config' \in ConfigFiles /\ backup' \in BOOLEAN /\ registry' \in BOOLEAN
        /\ portable' \in BOOLEAN
    BY <1>1, Shipped DEF launch, At, lifeDisk, markerVars, configVars, LifeTypeOK
  <2> QED
    BY <2>1, <2>2, <2>3, <2>4, <2>5, <2>6, OwnStep
<1>2. CASE single_instance(p)
  <2>0. /\ launches' \in 0..MaxLaunches /\ faults' \in 0..MaxFaults
        /\ UNCHANGED lifeDisk /\ proc[p].at = "created"
    BY <1>2, CallIsBounded DEF single_instance, At, LifeTypeOK
  <2>1. CASE Leave(p)
    BY <2>0, <2>1, Left, OwnStep
    DEF LifeTypeOK, lifeDisk, markerVars, configVars, MemoryIsFile, MarkerTells, Past, Settled
  <2>2. CASE Go(p, "marker") /\ ~ \E q \in Processes : Holds(q)
    <3>1. Becomes(p, "marker", proc[p].config, proc[p].blind, proc[p].cleanup)
      BY <2>2, Moved DEF Stages, LifeTypeOK
    <3>2. /\ proc' \in [Processes -> Process] /\ proc'[p].at = "marker"
          /\ proc'[p].config = Default /\ ~proc'[p].blind
          /\ \A q \in Processes \ {p} : proc'[q] = proc[q]
      BY <2>0, <3>1 DEF Becomes, LifeTypeOK, MemoryIsFile, Settled
    <3>3. session # "live"
      BY <2>2 DEF MarkerTells
    <3>4. LifeTypeOK'
      BY <2>0, <3>2 DEF LifeTypeOK, lifeDisk, markerVars, configVars
    <3>5. OneHolder' /\ CleanupIsHeld'
      BY <2>2, <3>2 DEF OneHolder, CleanupIsHeld, Holds
    <3>6. MemoryIsFile'
      BY <2>0, <3>2 DEF MemoryIsFile, Settled, lifeDisk, markerVars, configVars
    <3>7. MarkerTells'
      BY <2>0, <3>3 DEF MarkerTells, lifeDisk, markerVars, configVars
    <3> QED
      BY <3>4, <3>5, <3>6, <3>7
  <2> QED
    BY <1>2, <2>1, <2>2 DEF single_instance, single_instance_decision
<1>3. CASE read_session_marker(p)
  <2>1. Becomes(p, "tombstone", proc[p].config, proc[p].blind, proc[p].cleanup)
    <3>1. \A ok \in BOOLEAN : classify_session_read(marker, ok) \in Texts
      BY DEF classify_session_read, Texts
    <3>2. "tombstone" \in Stages
      BY DEF Stages
    <3> QED
      BY <1>3, <3>1, <3>2, Informed DEF read_session_marker, LifeTypeOK
  <2>2. launches' \in 0..MaxLaunches /\ faults' \in 0..MaxFaults
    BY <1>3, CallIsBounded DEF read_session_marker, LifeTypeOK
  <2>3. /\ "tombstone" \in {"off", "created"} \/ Holds(p)
        /\ proc[p].cleanup = "PENDING" \/ "tombstone" \notin {"off", "created"}
        /\ config' \in {config, NoConfig} \/ Holds(p)
    BY <1>3 DEF read_session_marker, At, lifeDisk, markerVars, configVars, Holds, CleanupIsHeld
  <2>4. /\ "tombstone" \in Settled /\ ~proc[p].blind => config' \in {proc[p].config, NoConfig}
        /\ "tombstone" \notin Settled => proc[p].config = Default /\ ~proc[p].blind
    BY <1>3 DEF read_session_marker, At, lifeDisk, markerVars, configVars, MemoryIsFile, Settled
  <2>5. /\ session' \in {"live", "died"} => marker' \in {"tombstone", "aborted"}
        /\ session' = "ended" => marker' \in {"absent", "clean"}
        /\ session' = "live" => Past("tombstone") \/ (session = "live" /\ ~Past(proc[p].at))
        /\ marker' \in Markers /\ session' \in {"none", "live", "ended", "died"}
    BY <1>3
    DEF read_session_marker, At, lifeDisk, markerVars, configVars, LifeTypeOK, MarkerTells,
        Past, Markers
  <2>6. /\ config' \in ConfigFiles /\ backup' \in BOOLEAN /\ registry' \in BOOLEAN
        /\ portable' \in BOOLEAN
    BY <1>3, Shipped DEF read_session_marker, At, lifeDisk, markerVars, configVars, LifeTypeOK
  <2> QED
    BY <2>1, <2>2, <2>3, <2>4, <2>5, <2>6, OwnStep
<1>4. CASE create_session_tombstone(p)
  <2>1. Becomes(p, "config", proc[p].config, proc[p].blind, proc[p].cleanup)
    BY <1>4, Moved
    DEF create_session_tombstone, At, write_session_bytes_atomic, Stages, LifeTypeOK
  <2>2. launches' \in 0..MaxLaunches /\ faults' \in 0..MaxFaults
    BY <1>4, CallIsBounded DEF create_session_tombstone, LifeTypeOK
  <2>3. /\ "config" \in {"off", "created"} \/ Holds(p)
        /\ proc[p].cleanup = "PENDING" \/ "config" \notin {"off", "created"}
        /\ config' \in {config, NoConfig} \/ Holds(p)
    BY <1>4
    DEF create_session_tombstone, At, write_session_bytes_atomic, lifeDisk, markerVars,
        configVars, Holds, CleanupIsHeld
  <2>4. /\ "config" \in Settled /\ ~proc[p].blind => config' \in {proc[p].config, NoConfig}
        /\ "config" \notin Settled => proc[p].config = Default /\ ~proc[p].blind
    BY <1>4
    DEF create_session_tombstone, At, write_session_bytes_atomic, lifeDisk, markerVars,
        configVars, MemoryIsFile, Settled
  <2>5. /\ session' \in {"live", "died"} => marker' \in {"tombstone", "aborted"}
        /\ session' = "ended" => marker' \in {"absent", "clean"}
        /\ session' = "live" => Past("config") \/ (session = "live" /\ ~Past(proc[p].at))
        /\ marker' \in Markers /\ session' \in {"none", "live", "ended", "died"}
    BY <1>4
    DEF create_session_tombstone, At, write_session_bytes_atomic, lifeDisk, markerVars,
        configVars, LifeTypeOK, MarkerTells, Past, Markers
  <2>6. /\ config' \in ConfigFiles /\ backup' \in BOOLEAN /\ registry' \in BOOLEAN
        /\ portable' \in BOOLEAN
    BY <1>4, Shipped
    DEF create_session_tombstone, At, write_session_bytes_atomic, lifeDisk, markerVars,
        configVars, LifeTypeOK
  <2> QED
    BY <2>1, <2>2, <2>3, <2>4, <2>5, <2>6, OwnStep
<1>5. CASE abort_startup(p)
  <2>1. Becomes(p, "aborted", proc[p].config, proc[p].blind, proc[p].cleanup)
    BY <1>5, Moved
    DEF abort_startup, mark_session_aborted, At, write_session_bytes_atomic, Stages, LifeTypeOK
  <2>2. launches' \in 0..MaxLaunches /\ faults' \in 0..MaxFaults
    BY <1>5, CallIsBounded DEF abort_startup, LifeTypeOK, mark_session_aborted
  <2>3. /\ "aborted" \in {"off", "created"} \/ Holds(p)
        /\ proc[p].cleanup = "PENDING" \/ "aborted" \notin {"off", "created"}
        /\ config' \in {config, NoConfig} \/ Holds(p)
    BY <1>5
    DEF abort_startup, mark_session_aborted, At, write_session_bytes_atomic, lifeDisk,
        markerVars, configVars, Holds, CleanupIsHeld
  <2>4. /\ "aborted" \in Settled /\ ~proc[p].blind => config' \in {proc[p].config, NoConfig}
        /\ "aborted" \notin Settled => proc[p].config = Default /\ ~proc[p].blind
    BY <1>5
    DEF abort_startup, mark_session_aborted, At, write_session_bytes_atomic, lifeDisk,
        markerVars, configVars, MemoryIsFile, Settled
  <2>5. /\ session' \in {"live", "died"} => marker' \in {"tombstone", "aborted"}
        /\ session' = "ended" => marker' \in {"absent", "clean"}
        /\ session' = "live" => Past("aborted") \/ (session = "live" /\ ~Past(proc[p].at))
        /\ marker' \in Markers /\ session' \in {"none", "live", "ended", "died"}
    BY <1>5
    DEF abort_startup, mark_session_aborted, At, write_session_bytes_atomic, lifeDisk,
        markerVars, configVars, LifeTypeOK, MarkerTells, Past, Markers
  <2>6. /\ config' \in ConfigFiles /\ backup' \in BOOLEAN /\ registry' \in BOOLEAN
        /\ portable' \in BOOLEAN
    BY <1>5, Shipped
    DEF abort_startup, mark_session_aborted, At, write_session_bytes_atomic, lifeDisk,
        markerVars, configVars, LifeTypeOK
  <2> QED
    BY <2>1, <2>2, <2>3, <2>4, <2>5, <2>6, OwnStep
<1>6. CASE abort_after_window(p)
  <2>1. Becomes(p, "aborted", proc[p].config, proc[p].blind, proc[p].cleanup)
    BY <1>6, Moved
    DEF abort_after_window, mark_session_aborted, At, write_session_bytes_atomic, Stages,
        LifeTypeOK
  <2>2. launches' \in 0..MaxLaunches /\ faults' \in 0..MaxFaults
    BY <1>6, CallIsBounded DEF abort_after_window, LifeTypeOK, mark_session_aborted
  <2>3. /\ "aborted" \in {"off", "created"} \/ Holds(p)
        /\ proc[p].cleanup = "PENDING" \/ "aborted" \notin {"off", "created"}
        /\ config' \in {config, NoConfig} \/ Holds(p)
    BY <1>6
    DEF abort_after_window, mark_session_aborted, At, write_session_bytes_atomic, lifeDisk,
        markerVars, configVars, Holds, CleanupIsHeld
  <2>4. /\ "aborted" \in Settled /\ ~proc[p].blind => config' \in {proc[p].config, NoConfig}
        /\ "aborted" \notin Settled => proc[p].config = Default /\ ~proc[p].blind
    BY <1>6
    DEF abort_after_window, mark_session_aborted, At, write_session_bytes_atomic, lifeDisk,
        markerVars, configVars, MemoryIsFile, Settled
  <2>5. /\ session' \in {"live", "died"} => marker' \in {"tombstone", "aborted"}
        /\ session' = "ended" => marker' \in {"absent", "clean"}
        /\ session' = "live" => Past("aborted") \/ (session = "live" /\ ~Past(proc[p].at))
        /\ marker' \in Markers /\ session' \in {"none", "live", "ended", "died"}
    BY <1>6
    DEF abort_after_window, mark_session_aborted, At, write_session_bytes_atomic, lifeDisk,
        markerVars, configVars, LifeTypeOK, MarkerTells, Past, Markers
  <2>6. /\ config' \in ConfigFiles /\ backup' \in BOOLEAN /\ registry' \in BOOLEAN
        /\ portable' \in BOOLEAN
    BY <1>6, Shipped
    DEF abort_after_window, mark_session_aborted, At, write_session_bytes_atomic, lifeDisk,
        markerVars, configVars, LifeTypeOK
  <2> QED
    BY <2>1, <2>2, <2>3, <2>4, <2>5, <2>6, OwnStep
<1>7. CASE mark_session_clean(p)
  <2>1. Becomes(p, "off", Default, FALSE, "PENDING")
    BY <1>7, Left DEF mark_session_clean, LifeTypeOK
  <2>2. launches' \in 0..MaxLaunches /\ faults' \in 0..MaxFaults
    BY <1>7, CallIsBounded DEF mark_session_clean, LifeTypeOK
  <2>3. /\ "off" \in {"off", "created"} \/ Holds(p)
        /\ "PENDING" = "PENDING" \/ "off" \notin {"off", "created"}
        /\ config' \in {config, NoConfig} \/ Holds(p)
    BY <1>7
    DEF mark_session_clean, SessionDies, At, lifeDisk, markerVars, configVars, Holds,
        CleanupIsHeld
  <2>4. /\ "off" \in Settled /\ ~FALSE => config' \in {Default, NoConfig}
        /\ "off" \notin Settled => Default = Default /\ ~FALSE
    BY <1>7
    DEF mark_session_clean, SessionDies, At, lifeDisk, markerVars, configVars, MemoryIsFile,
        Settled
  <2>5. /\ session' \in {"live", "died"} => marker' \in {"tombstone", "aborted"}
        /\ session' = "ended" => marker' \in {"absent", "clean"}
        /\ session' = "live" => Past("off") \/ (session = "live" /\ ~Past(proc[p].at))
        /\ marker' \in Markers /\ session' \in {"none", "live", "ended", "died"}
    BY <1>7
    DEF mark_session_clean, SessionDies, At, lifeDisk, markerVars, configVars, LifeTypeOK,
        MarkerTells, Past, Markers
  <2>6. /\ config' \in ConfigFiles /\ backup' \in BOOLEAN /\ registry' \in BOOLEAN
        /\ portable' \in BOOLEAN
    BY <1>7, Shipped
    DEF mark_session_clean, SessionDies, At, lifeDisk, markerVars, configVars, LifeTypeOK
  <2> QED
    BY <2>1, <2>2, <2>3, <2>4, <2>5, <2>6, OwnStep
<1>8. CASE die(p)
  <2>1. Becomes(p, "off", Default, FALSE, "PENDING")
    BY <1>8, Left DEF die, LifeTypeOK
  <2>2. launches' \in 0..MaxLaunches /\ faults' \in 0..MaxFaults
    BY <1>8 DEF die, LifeTypeOK
  <2>3. /\ "off" \in {"off", "created"} \/ Holds(p)
        /\ "PENDING" = "PENDING" \/ "off" \notin {"off", "created"}
        /\ config' \in {config, NoConfig} \/ Holds(p)
    BY <1>8 DEF die, SessionDies, At, lifeDisk, markerVars, configVars, Holds, CleanupIsHeld
  <2>4. /\ "off" \in Settled /\ ~FALSE => config' \in {Default, NoConfig}
        /\ "off" \notin Settled => Default = Default /\ ~FALSE
    BY <1>8 DEF die, SessionDies, At, lifeDisk, markerVars, configVars, MemoryIsFile, Settled
  <2>5. /\ session' \in {"live", "died"} => marker' \in {"tombstone", "aborted"}
        /\ session' = "ended" => marker' \in {"absent", "clean"}
        /\ session' = "live" => Past("off") \/ (session = "live" /\ ~Past(proc[p].at))
        /\ marker' \in Markers /\ session' \in {"none", "live", "ended", "died"}
    BY <1>8
    DEF die, SessionDies, At, lifeDisk, markerVars, configVars, LifeTypeOK, MarkerTells, Past,
        Markers
  <2>6. /\ config' \in ConfigFiles /\ backup' \in BOOLEAN /\ registry' \in BOOLEAN
        /\ portable' \in BOOLEAN
    BY <1>8, Shipped DEF die, SessionDies, At, lifeDisk, markerVars, configVars, LifeTypeOK
  <2> QED
    BY <2>1, <2>2, <2>3, <2>4, <2>5, <2>6, OwnStep
<1>9. CASE emergency_begin(p)
  <2>1. Becomes(p, proc[p].at, proc[p].config, proc[p].blind, "IN_PROGRESS")
    BY <1>9, Cleaning DEF emergency_begin, LifeTypeOK
  <2>2. launches' \in 0..MaxLaunches /\ faults' \in 0..MaxFaults
    BY <1>9 DEF emergency_begin, LifeTypeOK
  <2>3. /\ proc[p].at \in {"off", "created"} \/ Holds(p)
        /\ "IN_PROGRESS" = "PENDING" \/ proc[p].at \notin {"off", "created"}
        /\ config' \in {config, NoConfig} \/ Holds(p)
    BY <1>9 DEF emergency_begin, Holds, lifeDisk, markerVars, configVars, Holds, CleanupIsHeld
  <2>4. /\ proc[p].at \in Settled /\ ~proc[p].blind => config' \in {proc[p].config, NoConfig}
        /\ proc[p].at \notin Settled => proc[p].config = Default /\ ~proc[p].blind
    BY <1>9 DEF emergency_begin, Holds, lifeDisk, markerVars, configVars, MemoryIsFile, Settled
  <2>5. /\ session' \in {"live", "died"} => marker' \in {"tombstone", "aborted"}
        /\ session' = "ended" => marker' \in {"absent", "clean"}
        /\ session' = "live" => Past(proc[p].at) \/ (session = "live" /\ ~Past(proc[p].at))
        /\ marker' \in Markers /\ session' \in {"none", "live", "ended", "died"}
    BY <1>9
    DEF emergency_begin, Holds, lifeDisk, markerVars, configVars, LifeTypeOK, MarkerTells, Past,
        Markers
  <2>6. /\ config' \in ConfigFiles /\ backup' \in BOOLEAN /\ registry' \in BOOLEAN
        /\ portable' \in BOOLEAN
    BY <1>9, Shipped DEF emergency_begin, Holds, lifeDisk, markerVars, configVars, LifeTypeOK
  <2> QED
    BY <2>1, <2>2, <2>3, <2>4, <2>5, <2>6, OwnStep
<1>10. CASE emergency_finish(p)
  <2>1. Becomes(p, proc[p].at, proc[p].config, proc[p].blind, "DONE")
    BY <1>10, Cleaning DEF emergency_finish, LifeTypeOK
  <2>2. launches' \in 0..MaxLaunches /\ faults' \in 0..MaxFaults
    BY <1>10, CallIsBounded DEF emergency_finish, LifeTypeOK
  <2>3. /\ proc[p].at \in {"off", "created"} \/ Holds(p)
        /\ "DONE" = "PENDING" \/ proc[p].at \notin {"off", "created"}
        /\ config' \in {config, NoConfig} \/ Holds(p)
    BY <1>10
    DEF emergency_finish, write_session_bytes_atomic, HasContext, Process, lifeDisk, markerVars,
        configVars, Holds, CleanupIsHeld
  <2>4. /\ proc[p].at \in Settled /\ ~proc[p].blind => config' \in {proc[p].config, NoConfig}
        /\ proc[p].at \notin Settled => proc[p].config = Default /\ ~proc[p].blind
    BY <1>10
    DEF emergency_finish, write_session_bytes_atomic, HasContext, Process, lifeDisk, markerVars,
        configVars, MemoryIsFile, Settled
  <2>5. /\ session' \in {"live", "died"} => marker' \in {"tombstone", "aborted"}
        /\ session' = "ended" => marker' \in {"absent", "clean"}
        /\ session' = "live" => Past(proc[p].at) \/ (session = "live" /\ ~Past(proc[p].at))
        /\ marker' \in Markers /\ session' \in {"none", "live", "ended", "died"}
    BY <1>10
    DEF emergency_finish, write_session_bytes_atomic, HasContext, Process, lifeDisk, markerVars,
        configVars, LifeTypeOK, MarkerTells, Past, Markers
  <2>6. /\ config' \in ConfigFiles /\ backup' \in BOOLEAN /\ registry' \in BOOLEAN
        /\ portable' \in BOOLEAN
    BY <1>10, Shipped
    DEF emergency_finish, write_session_bytes_atomic, HasContext, Process, lifeDisk, markerVars,
        configVars, LifeTypeOK
  <2> QED
    BY <2>1, <2>2, <2>3, <2>4, <2>5, <2>6, OwnStep
<1>11. CASE load_config(p)
  <2>0. PICK ok \in BOOLEAN :
           /\ Call(ok) /\ proc[p].at = "config"
           /\ \/ LoadError(p) /\ UNCHANGED configVars
              \/ config \in Config /\ Loaded(p, config) /\ UNCHANGED configVars
              \/ config' = Default /\ UNCHANGED backup /\ Loaded(p, Default)
              \/ config' = NoConfig /\ backup' = TRUE /\ Go(p, "heal")
           /\ UNCHANGED <<markerVars, registry, portable>>
    BY <1>11 DEF load_config, At
  <2>1. /\ launches' \in 0..MaxLaunches /\ faults' \in 0..MaxFaults /\ Holds(p)
        /\ proc[p].config = Default /\ ~proc[p].blind
    BY <2>0, CallIsBounded DEF LifeTypeOK, Holds, MemoryIsFile, Settled
  <2>2. /\ session' \in {"live", "died"} => marker' \in {"tombstone", "aborted"}
        /\ session' = "ended" => marker' \in {"absent", "clean"}
        /\ marker' \in Markers /\ session' \in {"none", "live", "ended", "died"}
        /\ registry' \in BOOLEAN /\ portable' \in BOOLEAN
    BY <2>0 DEF LifeTypeOK, markerVars, MarkerTells
  <2>3. CASE LoadError(p) /\ UNCHANGED configVars
    <3>1. Becomes(p, "init", proc[p].config, TRUE, proc[p].cleanup)
      BY <2>3, Blinded DEF LoadError, LifeTypeOK
    <3> QED
      BY <2>1, <2>2, <2>3, <3>1, OwnStep DEF configVars, LifeTypeOK, Past, Settled
  <2>4. CASE config \in Config /\ Loaded(p, config) /\ UNCHANGED configVars
    <3>1. Becomes(p, "register", config, proc[p].blind, proc[p].cleanup)
      BY <2>4, Loading DEF Loaded, LifeTypeOK
    <3> QED
      BY <2>1, <2>2, <2>4, <3>1, OwnStep DEF configVars, LifeTypeOK, Past, Settled
  <2>5. CASE config' = Default /\ UNCHANGED backup /\ Loaded(p, Default)
    <3>1. Becomes(p, "register", Default, proc[p].blind, proc[p].cleanup)
      BY <2>5, Loading, Shipped DEF Loaded, LifeTypeOK
    <3> QED
      BY <2>1, <2>2, <2>5, <3>1, OwnStep, Shipped DEF LifeTypeOK, Past, Settled
  <2>6. CASE config' = NoConfig /\ backup' = TRUE /\ Go(p, "heal")
    <3>1. Becomes(p, "heal", proc[p].config, proc[p].blind, proc[p].cleanup)
      BY <2>6, Moved DEF Stages, LifeTypeOK
    <3> QED
      BY <2>1, <2>2, <2>6, <3>1, OwnStep, Shipped DEF LifeTypeOK, Past, Settled
  <2> QED
    BY <2>0, <2>3, <2>4, <2>5, <2>6
<1>12. CASE recover_corrupted(p)
  <2>0. PICK ok \in BOOLEAN :
           /\ Call(ok) /\ proc[p].at = "heal"
           /\ config' = IF ok THEN Default ELSE config
           /\ IF ok THEN proc' = [proc EXCEPT ![p].at = "init", ![p].told = "Info"] ELSE LoadError(p)
           /\ UNCHANGED <<markerVars, backup, registry, portable>>
    BY <1>12 DEF recover_corrupted, At
  <2>1. /\ launches' \in 0..MaxLaunches /\ faults' \in 0..MaxFaults /\ Holds(p)
        /\ proc[p].config = Default /\ ~proc[p].blind
        /\ config' \in ConfigFiles
    BY <2>0, CallIsBounded, Shipped DEF LifeTypeOK, Holds, MemoryIsFile, Settled
  <2>2. /\ session' \in {"live", "died"} => marker' \in {"tombstone", "aborted"}
        /\ session' = "ended" => marker' \in {"absent", "clean"}
        /\ marker' \in Markers /\ session' \in {"none", "live", "ended", "died"}
        /\ registry' \in BOOLEAN /\ portable' \in BOOLEAN /\ backup' \in BOOLEAN
    BY <2>0 DEF LifeTypeOK, markerVars, MarkerTells
  <2>3. CASE ok
    <3>1. Becomes(p, "init", proc[p].config, proc[p].blind, proc[p].cleanup)
      BY <2>0, <2>3, Informed DEF Stages, Texts, LifeTypeOK
    <3> QED
      BY <2>0, <2>1, <2>2, <2>3, <3>1, OwnStep DEF Past, Settled
  <2>4. CASE ~ok
    <3>1. Becomes(p, "init", proc[p].config, TRUE, proc[p].cleanup)
      BY <2>0, <2>4, Blinded DEF LoadError, LifeTypeOK
    <3> QED
      BY <2>1, <2>2, <3>1, OwnStep DEF Past, Settled
  <2> QED
    BY <2>3, <2>4
<1>13. CASE set_setting(p)
  <2>1. /\ [proc[p].config EXCEPT !.factory = FALSE] \in Config
        /\ proc[p].told \in Texts
    BY Shape DEF Config
  <2>2. PICK ok \in BOOLEAN :
           /\ Call(ok) /\ proc[p].at = "running"
           /\ save_atomic(p, [proc[p].config EXCEPT !.factory = FALSE], proc[p].told, ok)
           /\ UNCHANGED <<markerVars, backup, registry, portable>>
    BY <1>13 DEF set_setting, At
  <2>3. launches' \in 0..MaxLaunches /\ faults' \in 0..MaxFaults
    BY <2>2, CallIsBounded DEF LifeTypeOK
  <2> QED
    BY <2>1, <2>2, <2>3, SaveKeeps DEF LifeTypeOK
<1>14. CASE register_at_startup(p)
  <2>0. PICK ok \in BOOLEAN, text \in Texts :
           /\ Call(ok) /\ proc[p].at = "register"
           /\ register_target(proc[p].config.startup, ok)
           /\ proc' = [proc EXCEPT ![p].at = "init", ![p].told = text]
           /\ UNCHANGED <<markerVars, configVars, portable>>
    BY <1>14 DEF register_at_startup, At, Texts
  <2>1. Becomes(p, "init", proc[p].config, proc[p].blind, proc[p].cleanup)
    BY <2>0, Informed DEF Stages, LifeTypeOK
  <2>2. launches' \in 0..MaxLaunches /\ faults' \in 0..MaxFaults
    BY <2>0, CallIsBounded DEF LifeTypeOK
  <2>3. proc[p].config.startup \in BOOLEAN
    BY DEF Process, Config
  <2>4. registry' \in BOOLEAN
    BY <2>0, <2>3, RegistrationType DEF LifeTypeOK
  <2>5. /\ session' \in {"live", "died"} => marker' \in {"tombstone", "aborted"}
        /\ session' = "ended" => marker' \in {"absent", "clean"}
        /\ marker' \in Markers /\ session' \in {"none", "live", "ended", "died"}
        /\ portable' \in BOOLEAN /\ backup' \in BOOLEAN /\ config' \in ConfigFiles
        /\ config' = config /\ Holds(p)
        /\ ~proc[p].blind => config \in {proc[p].config, NoConfig}
    BY <2>0 DEF markerVars, configVars, MarkerTells, LifeTypeOK, Holds, MemoryIsFile, Settled
  <2> QED
    BY <2>1, <2>2, <2>4, <2>5, OwnStep DEF Past, Settled
<1>15. ASSUME NEW enabled \in BOOLEAN, set_startup(p, enabled)
      PROVE  LifeIInv'
  <2>1. PICK failed \in SUBSET {"register", "save", "restore"}, text \in Texts :
           /\ Calls(failed) /\ proc[p].at = "running"
           /\ \/ /\ Tell(p, "error") /\ register_target(enabled, FALSE) /\ UNCHANGED config
              \/ /\ save_atomic(p, [proc[p].config EXCEPT !.startup = enabled], text,
                             "save" \notin failed)
                 /\ \E ok \in BOOLEAN : register_target(enabled, ok) \/ startup_rollback(enabled, ok)
           /\ UNCHANGED <<markerVars, backup, portable>>
    BY <1>15 DEF set_startup, At, Texts
  <2>2. /\ launches' \in 0..MaxLaunches /\ faults' \in 0..MaxFaults
        /\ registry' \in BOOLEAN /\ portable' \in BOOLEAN
    BY <2>1, CallsAreBounded, RegistrationType DEF LifeTypeOK
  <2>3. /\ [proc[p].config EXCEPT !.startup = enabled] \in Config
        /\ ("save" \notin failed) \in BOOLEAN
        /\ proc[p].at \in Stages /\ "error" \in Texts
    BY Shape DEF Config, Texts
  <2>4. CASE save_atomic(p, [proc[p].config EXCEPT !.startup = enabled], text,
                         "save" \notin failed)
    BY <2>1, <2>2, <2>3, <2>4, SaveKeeps
  <2>5. CASE Tell(p, "error") /\ UNCHANGED config
    <3>1. /\ proc[p].config \in Config /\ FALSE \in BOOLEAN
          /\ save_atomic(p, proc[p].config, "error", FALSE)
      BY <2>5, Shape DEF Tell, save_atomic, LifeTypeOK
    <3> QED
      BY <2>1, <2>2, <2>3, <3>1, SaveKeeps
  <2> QED
    BY <2>1, <2>4, <2>5
<1>16. CASE settings_reset(p)
  <2>1. Default \in Config /\ proc[p].told \in Texts
    BY Shape, Shipped
  <2>2. PICK failed \in SUBSET {"register", "save", "restore"} :
           /\ Calls(failed) /\ proc[p].at = "running"
           /\ save_atomic(p, Default, proc[p].told, "save" \notin failed)
           /\ registry' = registry \/ \E ok \in BOOLEAN : register_target(TRUE, ok)
           /\ UNCHANGED <<markerVars, backup, portable>>
    <3> PICK failed \in {{}, {"save"}, {"register"}} :
           /\ At(p, "running")
           /\ Calls(failed)
           /\ save_atomic(p, Default, proc[p].told, "save" \notin failed)
           /\ IF "save" \in failed THEN UNCHANGED registry ELSE register_target(TRUE, failed = {})
           /\ UNCHANGED <<markerVars, backup, portable>>
      BY <1>16 DEF settings_reset
    <3>1. failed \in SUBSET {"register", "save", "restore"}
      OBVIOUS
    <3>2. registry' = registry \/ \E ok \in BOOLEAN : register_target(TRUE, ok)
      BY DEF register_target
    <3> QED
      BY <3>1, <3>2 DEF At
  <2>3. launches' \in 0..MaxLaunches /\ faults' \in 0..MaxFaults
    BY <2>2, CallsAreBounded DEF LifeTypeOK
  <2>4. registry' \in BOOLEAN /\ portable' \in BOOLEAN
    BY <2>2, RegistrationType DEF LifeTypeOK
  <2>5. ("save" \notin failed) \in BOOLEAN
    OBVIOUS
  <2> QED
    BY <2>1, <2>2, <2>3, <2>4, <2>5, SaveKeeps
<1>17. CASE reset_marker(p)
  <2>1. Becomes(p, "wiped", proc[p].config, proc[p].blind, proc[p].cleanup)
    BY <1>17, Moved DEF reset_marker, At, write_session_bytes_atomic, Stages, LifeTypeOK
  <2>2. launches' \in 0..MaxLaunches /\ faults' \in 0..MaxFaults
    BY <1>17, CallIsBounded DEF reset_marker, LifeTypeOK
  <2>3. /\ "wiped" \in {"off", "created"} \/ Holds(p)
        /\ proc[p].cleanup = "PENDING" \/ "wiped" \notin {"off", "created"}
        /\ config' \in {config, NoConfig} \/ Holds(p)
    BY <1>17
    DEF reset_marker, At, write_session_bytes_atomic, lifeDisk, markerVars, configVars, Holds,
        CleanupIsHeld
  <2>4. /\ "wiped" \in Settled /\ ~proc[p].blind => config' \in {proc[p].config, NoConfig}
        /\ "wiped" \notin Settled => proc[p].config = Default /\ ~proc[p].blind
    BY <1>17
    DEF reset_marker, At, write_session_bytes_atomic, lifeDisk, markerVars, configVars,
        MemoryIsFile, Settled
  <2>5. /\ session' \in {"live", "died"} => marker' \in {"tombstone", "aborted"}
        /\ session' = "ended" => marker' \in {"absent", "clean"}
        /\ session' = "live" => Past("wiped") \/ (session = "live" /\ ~Past(proc[p].at))
        /\ marker' \in Markers /\ session' \in {"none", "live", "ended", "died"}
    BY <1>17
    DEF reset_marker, At, write_session_bytes_atomic, lifeDisk, markerVars, configVars,
        LifeTypeOK, MarkerTells, Past, Markers
  <2>6. /\ config' \in ConfigFiles /\ backup' \in BOOLEAN /\ registry' \in BOOLEAN
        /\ portable' \in BOOLEAN
    BY <1>17, Shipped
    DEF reset_marker, At, write_session_bytes_atomic, lifeDisk, markerVars, configVars,
        LifeTypeOK
  <2> QED
    BY <2>1, <2>2, <2>3, <2>4, <2>5, <2>6, OwnStep
<1>18. CASE reset_config(p)
  <2>1. Becomes(p, "relaunch", proc[p].config, proc[p].blind, proc[p].cleanup)
    BY <1>18, Moved DEF reset_config, At, Stages, LifeTypeOK
  <2>2. launches' \in 0..MaxLaunches /\ faults' \in 0..MaxFaults
    BY <1>18, CallIsBounded DEF reset_config, LifeTypeOK
  <2>3. /\ "relaunch" \in {"off", "created"} \/ Holds(p)
        /\ proc[p].cleanup = "PENDING" \/ "relaunch" \notin {"off", "created"}
        /\ config' \in {config, NoConfig} \/ Holds(p)
    BY <1>18 DEF reset_config, At, lifeDisk, markerVars, configVars, Holds, CleanupIsHeld
  <2>4. /\ "relaunch" \in Settled /\ ~proc[p].blind => config' \in {proc[p].config, NoConfig}
        /\ "relaunch" \notin Settled => proc[p].config = Default /\ ~proc[p].blind
    BY <1>18 DEF reset_config, At, lifeDisk, markerVars, configVars, MemoryIsFile, Settled
  <2>5. /\ session' \in {"live", "died"} => marker' \in {"tombstone", "aborted"}
        /\ session' = "ended" => marker' \in {"absent", "clean"}
        /\ session' = "live" => Past("relaunch") \/ (session = "live" /\ ~Past(proc[p].at))
        /\ marker' \in Markers /\ session' \in {"none", "live", "ended", "died"}
    BY <1>18
    DEF reset_config, At, lifeDisk, markerVars, configVars, LifeTypeOK, MarkerTells, Past,
        Markers
  <2>6. /\ config' \in ConfigFiles /\ backup' \in BOOLEAN /\ registry' \in BOOLEAN
        /\ portable' \in BOOLEAN
    BY <1>18, Shipped DEF reset_config, At, lifeDisk, markerVars, configVars, LifeTypeOK
  <2> QED
    BY <2>1, <2>2, <2>3, <2>4, <2>5, <2>6, OwnStep
<1>19. CASE relaunch_fails(p)
  <2>1. Becomes(p, "running", proc[p].config, proc[p].blind, proc[p].cleanup)
    BY <1>19, Moved DEF relaunch_fails, At, Stages, LifeTypeOK
  <2>2. launches' \in 0..MaxLaunches /\ faults' \in 0..MaxFaults
    BY <1>19, CallIsBounded DEF relaunch_fails, LifeTypeOK
  <2>3. /\ "running" \in {"off", "created"} \/ Holds(p)
        /\ proc[p].cleanup = "PENDING" \/ "running" \notin {"off", "created"}
        /\ config' \in {config, NoConfig} \/ Holds(p)
    BY <1>19 DEF relaunch_fails, At, lifeDisk, markerVars, configVars, Holds, CleanupIsHeld
  <2>4. /\ "running" \in Settled /\ ~proc[p].blind => config' \in {proc[p].config, NoConfig}
        /\ "running" \notin Settled => proc[p].config = Default /\ ~proc[p].blind
    BY <1>19 DEF relaunch_fails, At, lifeDisk, markerVars, configVars, MemoryIsFile, Settled
  <2>5. /\ session' \in {"live", "died"} => marker' \in {"tombstone", "aborted"}
        /\ session' = "ended" => marker' \in {"absent", "clean"}
        /\ session' = "live" => Past("running") \/ (session = "live" /\ ~Past(proc[p].at))
        /\ marker' \in Markers /\ session' \in {"none", "live", "ended", "died"}
    BY <1>19
    DEF relaunch_fails, At, lifeDisk, markerVars, configVars, LifeTypeOK, MarkerTells, Past,
        Markers
  <2>6. /\ config' \in ConfigFiles /\ backup' \in BOOLEAN /\ registry' \in BOOLEAN
        /\ portable' \in BOOLEAN
    BY <1>19, Shipped DEF relaunch_fails, At, lifeDisk, markerVars, configVars, LifeTypeOK
  <2> QED
    BY <2>1, <2>2, <2>3, <2>4, <2>5, <2>6, OwnStep
<1>20. ASSUME NEW child \in Processes, relaunch(p, child)
      PROVE  LifeIInv'
  <2>1. /\ proc[p].at = "relaunch" /\ proc[child].at = "off" /\ p # child
        /\ proc[p] \in Process
        /\ proc' = [proc EXCEPT ![p].at = "exit", ![child] = [New EXCEPT !.child = TRUE]]
        /\ UNCHANGED <<lifeDisk, faults>>
        /\ launches' \in 0..MaxLaunches
    BY <1>20, ProcessLifeAssumption DEF relaunch, At, LifeTypeOK
  <2>2. [New EXCEPT !.child = TRUE] \in Process
        /\ [proc[p] EXCEPT !.at = "exit"] \in Process
    BY <2>1, Shipped DEF New, Process
  <2>3. /\ proc' \in [Processes -> Process]
        /\ proc'[p] = [proc[p] EXCEPT !.at = "exit"]
        /\ proc'[child] = [New EXCEPT !.child = TRUE]
        /\ \A q \in Processes \ {p, child} : proc'[q] = proc[q]
    BY <2>1, <2>2 DEF LifeTypeOK
  <2>4. /\ proc'[p].at = "exit" /\ proc'[p].config = proc[p].config
        /\ proc'[p].cleanup = proc[p].cleanup
        /\ proc'[child].at = "created" /\ proc'[child].config = Default
        /\ proc'[child].cleanup = "PENDING"
    <3>1. /\ proc'[p].at = "exit" /\ proc'[p].config = proc[p].config
          /\ proc'[p].cleanup = proc[p].cleanup
      BY <2>1, <2>3, Shape
    <3> QED
      BY <2>3, <3>1, Shipped, Shape
  <2>5. proc'[p].blind = proc[p].blind /\ ~proc'[child].blind
    <3>1. proc'[p].blind = proc[p].blind
      BY <2>1, <2>3, Shape
    <3>2. ~proc'[child].blind
      BY <2>3, Shipped, Shape
    <3> QED
      BY <3>1, <3>2
  <2>6. LifeTypeOK'
    BY <2>1, <2>3 DEF LifeTypeOK, lifeDisk, markerVars, configVars
  <2>7. OneHolder' /\ CleanupIsHeld'
    BY <2>1, <2>3, <2>4 DEF OneHolder, CleanupIsHeld, Holds
  <2>8. MemoryIsFile'
    BY <2>1, <2>3, <2>4, <2>5 DEF MemoryIsFile, Settled, lifeDisk, markerVars, configVars
  <2>9. MarkerTells'
    <3>1. session' = "live" => Holds(p)' /\ proc'[p].at \notin {"marker", "tombstone"}
      BY <2>4 DEF Holds
    <3> QED
      BY <2>1, <3>1 DEF MarkerTells, lifeDisk, markerVars, configVars
  <2> QED
    BY <2>6, <2>7, <2>8, <2>9
<1>21. CASE create_window(p)
  <2>1. Becomes(p, "window", proc[p].config, proc[p].blind, proc[p].cleanup)
    BY <1>21, Moved DEF create_window, At, Stages, LifeTypeOK
  <2>2. launches' \in 0..MaxLaunches /\ faults' \in 0..MaxFaults
    BY <1>21 DEF create_window, LifeTypeOK
  <2>3. /\ "window" \in {"off", "created"} \/ Holds(p)
        /\ proc[p].cleanup = "PENDING" \/ "window" \notin {"off", "created"}
        /\ config' \in {config, NoConfig} \/ Holds(p)
    BY <1>21 DEF create_window, At, lifeDisk, markerVars, configVars, Holds, CleanupIsHeld
  <2>4. /\ "window" \in Settled /\ ~proc[p].blind => config' \in {proc[p].config, NoConfig}
        /\ "window" \notin Settled => proc[p].config = Default /\ ~proc[p].blind
    BY <1>21 DEF create_window, At, lifeDisk, markerVars, configVars, MemoryIsFile, Settled
  <2>5. /\ session' \in {"live", "died"} => marker' \in {"tombstone", "aborted"}
        /\ session' = "ended" => marker' \in {"absent", "clean"}
        /\ session' = "live" => Past("window") \/ (session = "live" /\ ~Past(proc[p].at))
        /\ marker' \in Markers /\ session' \in {"none", "live", "ended", "died"}
    BY <1>21
    DEF create_window, At, lifeDisk, markerVars, configVars, LifeTypeOK, MarkerTells, Past,
        Markers
  <2>6. /\ config' \in ConfigFiles /\ backup' \in BOOLEAN /\ registry' \in BOOLEAN
        /\ portable' \in BOOLEAN
    BY <1>21, Shipped DEF create_window, At, lifeDisk, markerVars, configVars, LifeTypeOK
  <2> QED
    BY <2>1, <2>2, <2>3, <2>4, <2>5, <2>6, OwnStep
<1>22. CASE enter_loop(p)
  <2>1. Becomes(p, "running", proc[p].config, proc[p].blind, proc[p].cleanup)
    BY <1>22, Moved DEF enter_loop, At, Stages, LifeTypeOK
  <2>2. launches' \in 0..MaxLaunches /\ faults' \in 0..MaxFaults
    BY <1>22 DEF enter_loop, LifeTypeOK
  <2>3. /\ "running" \in {"off", "created"} \/ Holds(p)
        /\ proc[p].cleanup = "PENDING" \/ "running" \notin {"off", "created"}
        /\ config' \in {config, NoConfig} \/ Holds(p)
    BY <1>22 DEF enter_loop, At, lifeDisk, markerVars, configVars, Holds, CleanupIsHeld
  <2>4. /\ "running" \in Settled /\ ~proc[p].blind => config' \in {proc[p].config, NoConfig}
        /\ "running" \notin Settled => proc[p].config = Default /\ ~proc[p].blind
    BY <1>22 DEF enter_loop, At, lifeDisk, markerVars, configVars, MemoryIsFile, Settled
  <2>5. /\ session' \in {"live", "died"} => marker' \in {"tombstone", "aborted"}
        /\ session' = "ended" => marker' \in {"absent", "clean"}
        /\ session' = "live" => Past("running") \/ (session = "live" /\ ~Past(proc[p].at))
        /\ marker' \in Markers /\ session' \in {"none", "live", "ended", "died"}
    BY <1>22
    DEF enter_loop, At, lifeDisk, markerVars, configVars, LifeTypeOK, MarkerTells, Past, Markers
  <2>6. /\ config' \in ConfigFiles /\ backup' \in BOOLEAN /\ registry' \in BOOLEAN
        /\ portable' \in BOOLEAN
    BY <1>22, Shipped DEF enter_loop, At, lifeDisk, markerVars, configVars, LifeTypeOK
  <2> QED
    BY <2>1, <2>2, <2>3, <2>4, <2>5, <2>6, OwnStep
<1>23. CASE message_loop_ends(p)
  <2>1. Becomes(p, "closing", proc[p].config, proc[p].blind, proc[p].cleanup)
    BY <1>23, Moved DEF message_loop_ends, At, Stages, LifeTypeOK
  <2>2. launches' \in 0..MaxLaunches /\ faults' \in 0..MaxFaults
    BY <1>23 DEF message_loop_ends, LifeTypeOK
  <2>3. /\ "closing" \in {"off", "created"} \/ Holds(p)
        /\ proc[p].cleanup = "PENDING" \/ "closing" \notin {"off", "created"}
        /\ config' \in {config, NoConfig} \/ Holds(p)
    BY <1>23 DEF message_loop_ends, At, lifeDisk, markerVars, configVars, Holds, CleanupIsHeld
  <2>4. /\ "closing" \in Settled /\ ~proc[p].blind => config' \in {proc[p].config, NoConfig}
        /\ "closing" \notin Settled => proc[p].config = Default /\ ~proc[p].blind
    BY <1>23 DEF message_loop_ends, At, lifeDisk, markerVars, configVars, MemoryIsFile, Settled
  <2>5. /\ session' \in {"live", "died"} => marker' \in {"tombstone", "aborted"}
        /\ session' = "ended" => marker' \in {"absent", "clean"}
        /\ session' = "live" => Past("closing") \/ (session = "live" /\ ~Past(proc[p].at))
        /\ marker' \in Markers /\ session' \in {"none", "live", "ended", "died"}
    BY <1>23
    DEF message_loop_ends, At, lifeDisk, markerVars, configVars, LifeTypeOK, MarkerTells, Past,
        Markers
  <2>6. /\ config' \in ConfigFiles /\ backup' \in BOOLEAN /\ registry' \in BOOLEAN
        /\ portable' \in BOOLEAN
    BY <1>23, Shipped DEF message_loop_ends, At, lifeDisk, markerVars, configVars, LifeTypeOK
  <2> QED
    BY <2>1, <2>2, <2>3, <2>4, <2>5, <2>6, OwnStep
<1> QED
  BY <1>1, <1>2, <1>3, <1>4, <1>5, <1>6, <1>7, <1>8, <1>9, <1>10, <1>11, <1>12,
     <1>13, <1>14, <1>15, <1>16, <1>17, <1>18, <1>19, <1>20, <1>21, <1>22, <1>23

-----------------------------------------------------------------------------
(* The theorems                                                            *)

LEMMA LifeIsInvariant == LifeSpec => []LifeIInv
BY LifeInitially, LifeStep, PTL DEF LifeSpec

(* What a running process has in memory is what the file says, however its *)
(* saves fail, and all state has its type (SettingsAgree, LifeTypeOK).     *)
THEOREM SettingsAgreeWithFile == LifeSpec => []LifeInv
<1>1. LifeIInv => LifeInv
  BY DEF LifeIInv, LifeInv, MemoryIsFile, SettingsAgree, Settled
<1> QED
  BY <1>1, LifeIsInvariant, PTL

\* Only its own read of the marker takes a process past it.
LEMMA OnlyTheReadJudges ==
    ASSUME LifeTypeOK, LifeNext, NEW p \in Processes, At(p, "marker"),
           proc'[p].at = "tombstone"
    PROVE  read_session_marker(p)
<1> USE DEF LifeTypeOK, At
<1>0. PICK q \in Processes :
        \/ launch(q)
        \/ single_instance(q)
        \/ read_session_marker(q)
        \/ create_session_tombstone(q)
        \/ abort_startup(q)
        \/ abort_after_window(q)
        \/ mark_session_clean(q)
        \/ die(q)
        \/ emergency_begin(q)
        \/ emergency_finish(q)
        \/ load_config(q)
        \/ recover_corrupted(q)
        \/ set_setting(q)
        \/ register_at_startup(q)
        \/ \E enabled \in BOOLEAN : set_startup(q, enabled)
        \/ settings_reset(q)
        \/ reset_marker(q)
        \/ reset_config(q)
        \/ relaunch_fails(q)
        \/ \E child \in Processes : relaunch(q, child)
        \/ create_window(q)
        \/ enter_loop(q)
        \/ message_loop_ends(q)
  BY Zenon DEF LifeNext
<1>1. CASE launch(q)
  BY <1>1 DEF launch, New
<1>2. CASE single_instance(q)
  BY <1>2 DEF single_instance, Go, Leave, Off, New
<1>3. CASE read_session_marker(q)
  BY <1>3 DEF read_session_marker
<1>4. CASE create_session_tombstone(q)
  BY <1>4 DEF create_session_tombstone, Go
<1>5. CASE abort_startup(q)
  BY <1>5 DEF abort_startup, mark_session_aborted, Go
<1>6. CASE abort_after_window(q)
  BY <1>6 DEF abort_after_window, mark_session_aborted, Go
<1>7. CASE mark_session_clean(q)
  BY <1>7 DEF mark_session_clean, Leave, Off, New
<1>8. CASE die(q)
  BY <1>8 DEF die, Leave, Off, New
<1>9. CASE emergency_begin(q)
  BY <1>9 DEF emergency_begin
<1>10. CASE emergency_finish(q)
  BY <1>10 DEF emergency_finish
<1>11. CASE load_config(q)
  BY <1>11 DEF load_config, LoadError, Loaded, Go
<1>12. CASE recover_corrupted(q)
  BY <1>12 DEF recover_corrupted, LoadError
<1>13. CASE set_setting(q)
  BY <1>13 DEF set_setting, save_atomic
<1>14. CASE register_at_startup(q)
  BY <1>14 DEF register_at_startup
<1>15. ASSUME NEW enabled \in BOOLEAN, set_startup(q, enabled) PROVE FALSE
  BY <1>15 DEF set_startup, save_atomic, Tell
<1>16. CASE settings_reset(q)
  BY <1>16 DEF settings_reset, save_atomic
<1>17. CASE reset_marker(q)
  BY <1>17 DEF reset_marker, Go
<1>18. CASE reset_config(q)
  BY <1>18 DEF reset_config, Go
<1>19. CASE relaunch_fails(q)
  BY <1>19 DEF relaunch_fails, Go
<1>20. ASSUME NEW child \in Processes, relaunch(q, child) PROVE FALSE
  BY <1>20 DEF relaunch, New
<1>21. CASE create_window(q)
  BY <1>21 DEF create_window, Go
<1>22. CASE enter_loop(q)
  BY <1>22 DEF enter_loop, Go
<1>23. CASE message_loop_ends(q)
  BY <1>23 DEF message_loop_ends, Go
<1> QED
  BY <1>0, <1>1, <1>2, <1>3, <1>4, <1>5, <1>6, <1>7, <1>8, <1>9, <1>10, <1>11,
     <1>12, <1>13, <1>14, <1>15, <1>16, <1>17, <1>18, <1>19, <1>20, <1>21, <1>22, <1>23

(* A start that reads the marker warns of a session that died, warns of    *)
(* one that ended only when reading fails, and never judges a session that *)
(* is going on: classify_session_read under the mutex.                     *)
THEOREM StartJudgesRightly == LifeSpec => VerdictIsRight
<1> DEFINE Right(p) == /\ session # "live"
                       /\ session = "died" => proc'[p].told \in Alarms
                       /\ session = "ended" /\ faults' = faults => proc'[p].told \notin Alarms
<1>1. LifeIInv /\ [LifeNext]_lifeVars =>
        [\A p \in Processes : At(p, "marker") /\ proc'[p].at = "tombstone" => Right(p)]_lifeVars
  <2> SUFFICES ASSUME LifeIInv, LifeNext, NEW p \in Processes, At(p, "marker"),
                      proc'[p].at = "tombstone"
               PROVE  Right(p)
    OBVIOUS
  <2>1. session # "live"
    BY DEF LifeIInv, MarkerTells, OneHolder, Holds, At
  <2>2. PICK ok \in BOOLEAN : Call(ok) /\ proc'[p].told = classify_session_read(marker, ok)
    <3>1. read_session_marker(p)
      BY OnlyTheReadJudges DEF LifeIInv
    <3>2. PICK ok \in BOOLEAN :
             /\ Call(ok)
             /\ proc' = [proc EXCEPT ![p].at = "tombstone",
                                    ![p].told = classify_session_read(marker, ok)]
      BY <3>1 DEF read_session_marker
    <3> QED
      BY <3>2 DEF LifeIInv, LifeTypeOK, Process
  <2>3. session = "died" => proc'[p].told \in Alarms
    BY <2>2 DEF LifeIInv, MarkerTells, classify_session_read, Alarms
  <2>4. faults' = faults => ok
    <3>1. Cardinality({"it"}) = 1
      BY FS_Singleton
    <3> QED
      BY <2>2, <3>1 DEF Call, Calls, LifeIInv, LifeTypeOK
  <2>5. session = "ended" /\ ok => proc'[p].told \notin Alarms
    BY <2>2 DEF LifeIInv, MarkerTells, classify_session_read, Alarms
  <2> QED
    BY <2>1, <2>3, <2>4, <2>5
<1> QED
  BY <1>1, LifeIsInvariant, PTL DEF LifeSpec, VerdictIsRight

\* What takes the registration away.
LEMMA RegistrationStep ==
    ASSUME LifeTypeOK, LifeNext, registry, ~registry'
    PROVE  \E p \in Processes :
              /\ proc[p].at \in {"register", "running"}
              /\ ~proc'[p].config.startup \/ proc'[p].told \in {"error", "repair"}
<1>0. PICK q \in Processes :
        \/ registry' = registry
        \/ register_at_startup(q)
        \/ \E enabled \in BOOLEAN : set_startup(q, enabled)
        \/ settings_reset(q)
  BY DEF LifeNext, lifeDisk, launch, single_instance, read_session_marker,
         create_session_tombstone, abort_startup, abort_after_window, mark_session_aborted,
         write_session_bytes_atomic, mark_session_clean, die, emergency_begin,
         emergency_finish, load_config, recover_corrupted, set_setting, reset_marker,
         reset_config, relaunch_fails, relaunch, create_window, enter_loop, message_loop_ends
<1>1. proc[q] \in Process /\ proc[q].config \in Config /\ proc[q].config.startup \in BOOLEAN
  BY DEF LifeTypeOK, Process, Config
<1>2. CASE register_at_startup(q)
  <2>1. ~proc[q].config.startup
    BY <1>1, <1>2 DEF register_at_startup, register_target, LifeTypeOK
  <2>2. proc[q].at = "register" /\ proc'[q].config = proc[q].config
    <3>1. \E text : proc'[q] = [proc[q] EXCEPT !.at = "init", !.told = text]
      BY <1>2 DEF register_at_startup, LifeTypeOK
    <3> QED
      BY <1>1, <1>2, <3>1, Shape DEF register_at_startup, At
  <2> QED
    BY <2>1, <2>2
<1>3. ASSUME NEW enabled \in BOOLEAN, set_startup(q, enabled)
      PROVE  /\ proc[q].at = "running"
             /\ ~proc'[q].config.startup \/ proc'[q].told \in {"error", "repair"}
  <2>1. PICK failed \in SUBSET {"register", "save", "restore"} :
           /\ At(q, "running")
           /\ IF "register" \in failed
              THEN Tell(q, "error")
              ELSE /\ save_atomic(q, [proc[q].config EXCEPT !.startup = enabled],
                        CASE ~startup_target(enabled) -> "unavailable"
                          [] startup_target(enabled) /\ "save" \notin failed ->
                                IF enabled THEN "registered" ELSE "disabled"
                          [] OTHER -> IF ~enabled /\ portable /\ "restore" \notin failed
                                      THEN "rolled back" ELSE "repair",
                        "save" \notin failed)
                   /\ IF "save" \notin failed \/ ~startup_target(enabled)
                      THEN register_target(enabled, TRUE)
                      ELSE startup_rollback(enabled, "restore" \notin failed)
    BY <1>3 DEF set_startup
  <2>2. CASE "register" \in failed
    <3>1. proc'[q] = [proc[q] EXCEPT !.told = "error"]
      BY <2>1, <2>2 DEF Tell, LifeTypeOK
    <3> QED
      BY <1>1, <2>1, <3>1, Shape DEF At
  <2>3. CASE "register" \notin failed /\ ("save" \notin failed \/ ~startup_target(enabled))
    <3>1. startup_target(enabled) /\ ~enabled /\ "save" \notin failed
      BY <2>1, <2>3 DEF register_target, LifeTypeOK
    <3>2. proc'[q].config = [proc[q].config EXCEPT !.startup = enabled]
      <4>1. \E text : proc'[q] = [proc[q] EXCEPT !.told = text,
                                !.config = [proc[q].config EXCEPT !.startup = enabled]]
        BY <2>1, <2>3, <3>1 DEF save_atomic, LifeTypeOK
      <4> QED
        BY <1>1, <4>1, Shape
    <3> QED
      BY <1>1, <2>1, <3>1, <3>2 DEF At, Config
  <2>4. CASE "register" \notin failed /\ ~("save" \notin failed \/ ~startup_target(enabled))
    <3>1. ~enabled /\ ~(portable /\ "restore" \notin failed)
      BY <2>1, <2>4 DEF startup_rollback
    <3>2. proc'[q].told = "repair"
      <4>1. proc'[q] = [proc[q] EXCEPT !.told = "repair", !.config = proc[q].config]
        <5>1. save_atomic(q, [proc[q].config EXCEPT !.startup = enabled], "repair", FALSE)
          BY <2>1, <2>4, <3>1
        <5> QED
          BY <5>1 DEF save_atomic, LifeTypeOK
      <4> QED
        BY <1>1, <4>1, Shape
    <3> QED
      BY <2>1, <3>2 DEF At
  <2> QED
    BY <2>2, <2>3, <2>4
<1>4. ~settings_reset(q)
  BY DEF settings_reset, register_target
<1> QED
  BY <1>0, <1>2, <1>3, <1>4

(* The start-up registration disappears only in a process that comes to    *)
(* have the switch off or says that its registration failed or needs a     *)
(* repair: register_at_startup and the order of writes in set_startup.     *)
THEOREM RegistrationIsKept == LifeSpec => RegistrationKept
<1>1. LifeIInv /\ [LifeNext]_lifeVars =>
        [registry /\ ~registry' => \E p \in Processes :
            /\ proc[p].at \in {"register", "running"}
            /\ ~proc'[p].config.startup \/ proc'[p].told \in {"error", "repair"}]_lifeVars
  BY RegistrationStep DEF LifeIInv
<1> QED
  BY <1>1, LifeIsInvariant, PTL DEF LifeSpec, RegistrationKept

==============================================================================
