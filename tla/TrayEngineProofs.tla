-------------------------- MODULE TrayEngineProofs --------------------------
(***************************************************************************)
(* TrayEngine for every bound on polls, anomalies, rejections, attempts    *)
(* and mishaps.  The operators of TrayApp are functions from the App       *)
(* before a call to the App after it, so the proof is about these values:  *)
(* one lemma per operator says that it keeps the rules, and an action is   *)
(* one application of them.                                                *)
(***************************************************************************)
EXTENDS TrayEngine, TLAPS

Degraded == {"MetrologyDegraded", "Quiescent"}

\* What is owned can be released, and what is released is not held.
CtlSound(c) ==
    /\ c.own # "Released" => c.sel # NoInterval
    /\ c.own = "Released" => c.ver # "Unverified" /\ ~c.held

\* Once the kernel has rejected too often the tier no longer lets anything be acquired
\* below the floor: otherwise the clamp of a later evaluation would take the selection of
\* an owned request away.
Floored(s) ==
    \/ s.rejected < RejectionLimit
    \/ s.tier \in Degraded
    \/ s.tier = "SurfaceDegraded" /\ s.ctl.own = "Released"

\* Without rejections and anomalies the tier is that of the icon.
TierFits(s) ==
    s.rejected = 0 /\ s.anomalies = 0 =>
        IF s.icon THEN s.tier = "Nominal"
        ELSE s.tier = "SurfaceDegraded" /\ (s.wake # "Off" \/ s.exhausted)

HasAttempts(s) == s.exhausted \/ s.attempts < SurfaceAttempts

\* The same before the tier is evaluated.
NearlyFloored(s) ==
    s.rejected < RejectionLimit \/ s.tier \in Degraded \/ s.ctl.own = "Released"
TierNearlyFits(s) ==
    s.rejected = 0 /\ s.anomalies = 0 =>
        \/ s.tier = "Nominal"
        \/ s.tier = "SurfaceDegraded" /\ (s.icon \/ s.wake # "Off" \/ s.exhausted)

Unsettled(s) ==
    /\ s \in App /\ CtlSound(s.ctl)
    /\ NearlyFloored(s) /\ TierNearlyFits(s) /\ HasAttempts(s)

Covered(s) == s.tracked = TrackedInterval(s)

Settled(s) ==
    /\ s \in App /\ CtlSound(s.ctl) /\ Covered(s)
    /\ Floored(s) /\ TierFits(s) /\ HasAttempts(s)

\* What an evaluation of the tier leaves alone.
Same(s, r) ==
    /\ r.handoff = s.handoff /\ r.desired = s.desired
    /\ r.scheduled = s.scheduled /\ r.armed = s.armed
    /\ r.power = s.power /\ r.lockout = s.lockout /\ r.gate = s.gate
    /\ r.phase \in {s.phase, "overflow"}
    /\ r.ctl.own = s.ctl.own /\ r.ctl.ver = s.ctl.ver
    /\ r.ctl.bnd = s.ctl.bnd /\ r.ctl.held = s.ctl.held

\* A handoff watches the window of a release that is over, and only it does.
Watched(s) ==
    /\ HandoffPending(s) =>
          s.ctl.own = "Released" /\ s.ctl.bnd = s.handoff.boundary /\ s.ctl.bnd # NoInterval
    /\ s.ctl.bnd # NoInterval => HandoffPending(s)

TimerIsCurrent(s) == s.armed # None => s.armed = "Current" /\ s.scheduled # None

\* An intent waits behind a handoff, or is left over by the cleanup.
IntentWaits(s) ==
    s.desired # None => HandoffPending(s) \/ (s.phase # "running" /\ s.ctl.own = "Released")

PauseHolds(s) == PauseActive(s) /\ s.ctl.own = "Owned" => s.ctl.ver = "Unverified"

PauseIsTimed(s) ==
    PauseActive(s) /\ s.phase \notin {"overflow", "exited"} =>
        s.armed = "Current" \/ HandoffPending(s)

\* The circumstances x of a message are a set: "started" if the message loop was running,
\* "released" if nothing was owned when the message came, "gate" if the shutdown gate was
\* open, "calm" if no call for the icon fails, and "timed" if moreover a pause had its timer.
Fits(x, m) ==
    /\ "calm" \in x => "icon" \notin m
    /\ "timed" \in x => "calm" \in x

\* What was acquired in the course of the message is permitted.
Lawful(x, s) ==
    "released" \in x /\ s.ctl.own # "Released" => Permitted(s) /\ ~PauseActive(s)

\* The rules that hold between any two calls, except for the settled tier.
Frame(x, s) ==
    /\ Watched(s) /\ TimerIsCurrent(s) /\ Lawful(x, s)
    /\ s.gate <=> "gate" \in x
    /\ s.phase # "reentrant" /\ ("started" \in x => s.phase # "starting")
    /\ "calm" \in x => s.icon

Base(x, s) == Settled(s) /\ Frame(x, s) /\ s.status # "Starting"

Good(x, s) ==
    /\ Base(x, s) /\ IntentWaits(s) /\ PauseHolds(s)
    /\ "timed" \in x => PauseIsTimed(s)

Circumstances(s) ==
    {w \in {"started", "released", "gate", "calm", "timed"} :
        /\ w = "started" => s.phase # "starting"
        /\ w = "released" => s.ctl.own = "Released"
        /\ w = "gate" => s.gate
        /\ w \in {"calm", "timed"} => "icon" \notin Mishaps}

\* Before the message loop nothing is owned, asked for or paused.
Pristine(s) ==
    /\ s.ctl.own = "Released" /\ ~HandoffPending(s) /\ s.desired = None /\ ~PauseActive(s)

\* The inductive invariant.
EngineIInv ==
    /\ TypeOK /\ Good(Circumstances(app), app)
    /\ app.phase = "starting" => Pristine(app)

-----------------------------------------------------------------------------
(* Records                                                                 *)

(* A field of the App takes any value of its type.                         *)
LEMMA Setters ==
    ASSUME NEW s \in App
    PROVE  /\ \A v \in Controller(Nat) : [s EXCEPT !.ctl = v] \in App
           /\ \A v \in TrayStatus : [s EXCEPT !.status = v] \in App
           /\ \A v \in [polls : -1..MaxPolls, paused : BOOLEAN, boundary : Option(Nat)] :
                 [s EXCEPT !.handoff = v] \in App
           /\ \A v \in {None, "Acquire", "Release"} : [s EXCEPT !.desired = v] \in App
           /\ \A v \in DurationAction \cup {None} : [s EXCEPT !.scheduled = v] \in App
           /\ \A v \in {None, "Current", "Stale"} : [s EXCEPT !.armed = v] \in App
           /\ \A v \in PowerState : [s EXCEPT !.power = v] \in App
           /\ \A v \in PowerState \cup {None} : [s EXCEPT !.debounce = v] \in App
BY DEF App

(* So do its counters, tier and phase,                                     *)
LEMMA NumberSetters ==
    ASSUME NEW s \in App
    PROVE  /\ \A v \in 0..RejectionLimit : [s EXCEPT !.rejected = v] \in App
           /\ \A v \in 0..AnomalyLimit : [s EXCEPT !.anomalies = v] \in App
           /\ \A v \in 0..AnomalyLimit : [s EXCEPT !.pending = v] \in App
           /\ \A v \in 0..SurfaceAttempts : [s EXCEPT !.attempts = v] \in App
           /\ \A v \in Nat : [s EXCEPT !.tracked = v] \in App
           /\ \A v \in WakeState : [s EXCEPT !.wake = v] \in App
           /\ \A v \in OperatingTier : [s EXCEPT !.tier = v] \in App
           /\ \A v \in {"starting", "running", "quitting", "exited", "overflow", "reentrant"} :
                 [s EXCEPT !.phase = v] \in App
BY DEF App

(* and its flags.                                                          *)
LEMMA FlagSetters ==
    ASSUME NEW s \in App, NEW v \in BOOLEAN
    PROVE  /\ [s EXCEPT !.due = v] \in App /\ [s EXCEPT !.resume = v] \in App
           /\ [s EXCEPT !.automatic = v] \in App /\ [s EXCEPT !.auto_resume = v] \in App
           /\ [s EXCEPT !.lockout = v] \in App /\ [s EXCEPT !.icon = v] \in App
           /\ [s EXCEPT !.exhausted = v] \in App
           /\ [s EXCEPT !.gate = v] \in App /\ [s EXCEPT !.ipc = v] \in App
BY DEF App

(* Which fields are flags.                                                 *)
LEMMA Flags ==
    ASSUME NEW s \in App
    PROVE  /\ s.due \in BOOLEAN /\ s.resume \in BOOLEAN /\ s.automatic \in BOOLEAN
           /\ s.auto_resume \in BOOLEAN /\ s.lockout \in BOOLEAN /\ s.icon \in BOOLEAN
           /\ s.exhausted \in BOOLEAN /\ s.gate \in BOOLEAN
           /\ s.ipc \in BOOLEAN
BY DEF App

\* The fields that calls change only by publishing.
Stable(s, r) ==
    /\ r.status = s.status /\ r.tier = s.tier
    /\ r.rejected = s.rejected /\ r.anomalies = s.anomalies
    /\ r.icon = s.icon /\ r.wake = s.wake
    /\ r.attempts = s.attempts /\ r.exhausted = s.exhausted
    /\ r.tracked = s.tracked /\ r.gate = s.gate /\ r.phase = s.phase

\* Everything the rules look at except the controller.
Others(s, r) ==
    /\ Stable(s, r)
    /\ r.handoff = s.handoff /\ r.desired = s.desired
    /\ r.scheduled = s.scheduled /\ r.armed = s.armed
    /\ r.power = s.power /\ r.lockout = s.lockout

(* A new controller changes nothing else.                                  *)
LEMMA SetCtl ==
    ASSUME NEW s \in App, NEW c \in Controller(Nat), NEW r, r = [s EXCEPT !.ctl = c]
    PROVE  r \in App /\ r.ctl = c /\ Others(s, r)
BY DEF App, Others, Stable

(* What the fields of an App can be.                                       *)
LEMMA Fields ==
    ASSUME NEW s \in App
    PROVE  /\ s.ctl \in Controller(Nat) /\ s.status \in TrayStatus
           /\ s.handoff \in [polls : -1..MaxPolls, paused : BOOLEAN, boundary : Option(Nat)]
           /\ s.desired \in {None, "Acquire", "Release"}
           /\ s.scheduled \in DurationAction \cup {None}
           /\ s.armed \in {None, "Current", "Stale"}
           /\ s.power \in PowerState /\ s.debounce \in PowerState \cup {None}
           /\ s.tier \in OperatingTier
           /\ s.rejected \in 0..RejectionLimit /\ s.anomalies \in 0..AnomalyLimit
           /\ s.pending \in 0..AnomalyLimit /\ s.attempts \in 0..SurfaceAttempts
           /\ s.tracked \in Nat /\ s.wake \in WakeState
           /\ s.phase \in {"starting", "running", "quitting", "exited", "overflow", "reentrant"}
BY DEF App

-----------------------------------------------------------------------------
(* The tier                                                                *)

(* A clamp keeps everything but the two intervals.                         *)
LEMMA Clamp ==
    ASSUME NEW c \in Controller(Nat)
    PROVE  LET r == clamp_requested_interval_floor(c, Floor)
           IN  /\ r \in Controller(Nat)
               /\ r.own = c.own /\ r.ver = c.ver /\ r.bnd = c.bnd /\ r.held = c.held
BY TrayAppAssumption
   DEF clamp_requested_interval_floor, Controller, Option, NoInterval, Automatic

(* drain_anomaly_producers only moves anomalies.                           *)
LEMMA Drained ==
    ASSUME NEW s, Unsettled(s), NEW r, r = drain_anomaly_producers(s)
    PROVE  /\ Unsettled(r) /\ Same(s, r)
           /\ r.ctl = s.ctl /\ r.status = s.status /\ r.tracked = s.tracked
           /\ r.icon = s.icon /\ r.tier = s.tier /\ r.rejected = s.rejected
<1>1. s \in App
  BY DEF Unsettled
<1>2. /\ Capped(s.anomalies + s.pending, AnomalyLimit) \in 0..AnomalyLimit
      /\ Capped(s.anomalies + s.pending, AnomalyLimit) = 0 => s.anomalies = 0
      /\ 0 \in 0..AnomalyLimit
  BY <1>1, Fields, PolicyAssumption DEF Capped
<1>3. r \in App
  BY <1>1, <1>2, NumberSetters DEF drain_anomaly_producers
<1>4. /\ r.ctl = s.ctl /\ r.status = s.status /\ r.tracked = s.tracked
      /\ r.icon = s.icon /\ r.tier = s.tier /\ r.rejected = s.rejected
      /\ r.anomalies = Capped(s.anomalies + s.pending, AnomalyLimit)
      /\ r.wake = s.wake /\ r.exhausted = s.exhausted /\ r.attempts = s.attempts
  BY <1>1 DEF drain_anomaly_producers, App
<1>5. Same(s, r)
  BY <1>1, <1>4 DEF drain_anomaly_producers, App, Same
<1>6. NearlyFloored(r) /\ HasAttempts(r)
  BY <1>4 DEF Unsettled, NearlyFloored, HasAttempts
<1>7. TierNearlyFits(r)
  BY <1>2, <1>4 DEF Unsettled, TierNearlyFits
<1> QED
  BY <1>3, <1>4, <1>5, <1>6, <1>7 DEF Unsettled

(* Entering a tier: what changes in each case.                             *)
Kept(s, r) ==
    /\ r.status = s.status /\ r.tracked = s.tracked /\ r.icon = s.icon
    /\ r.rejected \in {0, s.rejected}

(* Staying changes nothing.                                                *)
LEMMA Stays ==
    ASSUME NEW s \in App, NEW m, NEW r, r = EnterTier(s, "Stay", m)
    PROVE  r = s
BY DEF EnterTier

(* SurfaceDegraded arms the recovery anew.                                 *)
LEMMA EntersSurface ==
    ASSUME NEW s \in App, NEW m, NEW r, r = EnterTier(s, "SurfaceDegraded", m)
    PROVE  /\ r \in App /\ Same(s, r) /\ Kept(s, r) /\ r.ctl = s.ctl
           /\ r.tier = "SurfaceDegraded" /\ r.wake # "Off" /\ r.attempts = 0
           /\ r.rejected = s.rejected /\ r.anomalies = s.anomalies
<1>0. PICK w \in WakeState :
         w = (IF "surfaceTimer" \in m THEN "Refused" ELSE "Armed") /\ w # "Off"
  BY DEF WakeState
<1>1. r = [s EXCEPT !.tier = "SurfaceDegraded", !.attempts = 0, !.exhausted = FALSE,
                    !.wake = w]
  BY <1>0 DEF EnterTier
<1>2. "SurfaceDegraded" \in OperatingTier /\ 0 \in 0..SurfaceAttempts
  BY TrayAppAssumption DEF OperatingTier
<1>3. r \in App
  <2>1. PICK u : u = [s EXCEPT !.tier = "SurfaceDegraded"]
    OBVIOUS
  <2>2. PICK v : v = [u EXCEPT !.attempts = 0]
    OBVIOUS
  <2>3. PICK x : x = [v EXCEPT !.exhausted = FALSE]
    OBVIOUS
  <2>4. u \in App
    BY <1>2, <2>1, NumberSetters
  <2>5. v \in App
    BY <1>2, <2>2, <2>4, NumberSetters
  <2>6. x \in App
    BY <2>3, <2>5, FlagSetters
  <2>7. [x EXCEPT !.wake = w] \in App
    BY <1>0, <2>6, NumberSetters
  <2>8. r = [x EXCEPT !.wake = w]
    BY <1>1, <2>1, <2>2, <2>3 DEF App
  <2> QED
    BY <2>7, <2>8
<1>4. /\ r.ctl = s.ctl /\ r.tier = "SurfaceDegraded" /\ r.wake = w /\ r.attempts = 0
      /\ r.rejected = s.rejected /\ r.anomalies = s.anomalies /\ r.phase = s.phase
      /\ r.status = s.status /\ r.tracked = s.tracked /\ r.icon = s.icon
  BY <1>1 DEF App
<1>5. /\ r.handoff = s.handoff /\ r.desired = s.desired
      /\ r.scheduled = s.scheduled /\ r.armed = s.armed
      /\ r.power = s.power /\ r.lockout = s.lockout /\ r.gate = s.gate
  BY <1>1 DEF App
<1> QED
  BY <1>0, <1>3, <1>4, <1>5 DEF Same, Kept

(* MetrologyDegraded clamps the intervals.                                 *)
LEMMA EntersMetrology ==
    ASSUME NEW s \in App, NEW m, NEW r, r = EnterTier(s, "MetrologyDegraded", m)
    PROVE  /\ r \in App /\ Same(s, r) /\ Kept(s, r)
           /\ r.tier = "MetrologyDegraded"
           /\ r.rejected = s.rejected /\ r.anomalies = s.anomalies
           /\ r.attempts = s.attempts /\ r.exhausted = s.exhausted
<1>0. PICK w \in WakeState : w = IF s.tier = "SurfaceDegraded" THEN "Off" ELSE s.wake
  BY Fields DEF WakeState
<1>1. PICK e : e = [s EXCEPT !.tier = "MetrologyDegraded", !.wake = w]
  OBVIOUS
<1>2. r = [e EXCEPT !.ctl = clamp_requested_interval_floor(@, Floor)]
  BY <1>0, <1>1 DEF EnterTier
<1>3. "MetrologyDegraded" \in OperatingTier
  BY DEF OperatingTier
<1>4. /\ e \in App /\ Same(s, e) /\ Kept(s, e) /\ e.tier = "MetrologyDegraded"
      /\ e.rejected = s.rejected /\ e.anomalies = s.anomalies
      /\ e.attempts = s.attempts /\ e.exhausted = s.exhausted
  <2>1. e \in App
    BY <1>1, <1>3, NumberSetters, FlagSetters
  <2>2. /\ e.status = s.status /\ e.handoff = s.handoff /\ e.desired = s.desired
        /\ e.scheduled = s.scheduled /\ e.armed = s.armed
        /\ e.power = s.power /\ e.lockout = s.lockout /\ e.gate = s.gate /\ e.phase = s.phase
    BY <1>1 DEF App
  <2>3. /\ e.ctl = s.ctl /\ e.rejected = s.rejected /\ e.anomalies = s.anomalies
        /\ e.attempts = s.attempts /\ e.exhausted = s.exhausted
        /\ e.icon = s.icon /\ e.tracked = s.tracked
    BY <1>1 DEF App
  <2>4. e.tier = "MetrologyDegraded"
    BY <1>1 DEF App
  <2> QED
    BY <2>1, <2>2, <2>3, <2>4 DEF Same, Kept
<1>5. PICK c : c = clamp_requested_interval_floor(e.ctl, Floor)
  OBVIOUS
<1>6. /\ c \in Controller(Nat) /\ c.own = e.ctl.own /\ c.ver = e.ctl.ver
      /\ c.bnd = e.ctl.bnd /\ c.held = e.ctl.held
  BY <1>4, <1>5, Clamp, Fields
<1>7. r = [e EXCEPT !.ctl = c]
  BY <1>2, <1>5
<1>8. r \in App /\ r.ctl = c /\ Others(e, r)
  BY <1>4, <1>6, <1>7, SetCtl
<1> QED
  BY <1>4, <1>6, <1>8 DEF Same, Kept, Others, Stable

(* Nominal forgets the rejections.                                         *)
LEMMA EntersNominal ==
    ASSUME NEW s \in App, NEW m, NEW r, r = EnterTier(s, "Nominal", m)
    PROVE  /\ r \in App /\ Same(s, r) /\ Kept(s, r) /\ r.ctl = s.ctl
           /\ r.tier = "Nominal" /\ r.rejected = 0 /\ r.attempts = 0
<1>0. PICK w \in WakeState : w = IF s.tier = "SurfaceDegraded" THEN "Off" ELSE s.wake
  BY Fields DEF WakeState
<1>1. PICK e : e = [s EXCEPT !.tier = "Nominal", !.wake = w]
  OBVIOUS
<1>2. r = [e EXCEPT !.rejected = 0, !.anomalies = 0, !.attempts = 0, !.exhausted = FALSE]
  BY <1>0, <1>1 DEF EnterTier
<1>3. /\ 0 \in 0..RejectionLimit /\ 0 \in 0..AnomalyLimit /\ 0 \in 0..SurfaceAttempts
      /\ "Nominal" \in OperatingTier
  BY PolicyAssumption, TrayAppAssumption DEF OperatingTier
<1>4. e \in App /\ Same(s, e) /\ Kept(s, e) /\ e.ctl = s.ctl /\ e.tier = "Nominal"
  <2>1. e \in App
    BY <1>1, <1>3, NumberSetters, FlagSetters
  <2>2. /\ e.status = s.status /\ e.handoff = s.handoff /\ e.desired = s.desired
        /\ e.scheduled = s.scheduled /\ e.armed = s.armed
        /\ e.power = s.power /\ e.lockout = s.lockout /\ e.gate = s.gate /\ e.phase = s.phase
    BY <1>1 DEF App
  <2>3. /\ e.ctl = s.ctl /\ e.rejected = s.rejected /\ e.anomalies = s.anomalies
        /\ e.attempts = s.attempts /\ e.exhausted = s.exhausted
        /\ e.icon = s.icon /\ e.tracked = s.tracked
    BY <1>1 DEF App
  <2>4. e.tier = "Nominal"
    BY <1>1 DEF App
  <2> QED
    BY <2>1, <2>2, <2>3, <2>4 DEF Same, Kept
<1>5. r \in App
  <2>1. PICK d : d = [e EXCEPT !.rejected = 0, !.anomalies = 0]
    OBVIOUS
  <2>2. d \in App
    BY <1>3, <1>4, <2>1, NumberSetters
  <2>3. r = [d EXCEPT !.attempts = 0, !.exhausted = FALSE]
    BY <1>2, <2>1
  <2> QED
    BY <1>3, <2>2, <2>3, NumberSetters, FlagSetters
<1>6. /\ r.ctl = e.ctl /\ r.tier = e.tier /\ r.rejected = 0 /\ r.attempts = 0
      /\ r.phase = e.phase /\ r.status = e.status /\ r.tracked = e.tracked /\ r.icon = e.icon
  BY <1>2, <1>4 DEF App
<1>7. /\ r.handoff = e.handoff /\ r.desired = e.desired
      /\ r.scheduled = e.scheduled /\ r.armed = e.armed
      /\ r.power = e.power /\ r.lockout = e.lockout /\ r.gate = e.gate
  BY <1>2, <1>4 DEF App
<1> QED
  BY <1>4, <1>5, <1>6, <1>7 DEF Same, Kept

(* Quiescent overflows the stack when something is owned.                  *)
LEMMA EntersQuiescent ==
    ASSUME NEW s \in App, NEW m, NEW r, r = EnterTier(s, "Quiescent", m)
    PROVE  /\ r \in App /\ Same(s, r) /\ Kept(s, r) /\ r.ctl = s.ctl
           /\ r.tier = "Quiescent"
           /\ r.rejected = s.rejected /\ r.anomalies = s.anomalies
           /\ r.attempts = s.attempts /\ r.exhausted = s.exhausted
<1>0. PICK w \in WakeState : w = IF s.tier = "SurfaceDegraded" THEN "Off" ELSE s.wake
  BY Fields DEF WakeState
<1>1. PICK e : e = [s EXCEPT !.tier = "Quiescent", !.wake = w]
  OBVIOUS
<1>2. PICK p : p = IF s.ctl.own = "Owned" /\ ~HandoffPending(s) THEN "overflow" ELSE e.phase
  OBVIOUS
<1>3. r = [e EXCEPT !.phase = p]
  BY <1>0, <1>1, <1>2 DEF EnterTier
<1>4. "Quiescent" \in OperatingTier
  BY DEF OperatingTier
<1>5. /\ e \in App /\ Same(s, e) /\ Kept(s, e) /\ e.ctl = s.ctl /\ e.tier = "Quiescent"
      /\ e.rejected = s.rejected /\ e.anomalies = s.anomalies
      /\ e.attempts = s.attempts /\ e.exhausted = s.exhausted /\ e.phase = s.phase
  <2>1. e \in App
    BY <1>1, <1>4, NumberSetters, FlagSetters
  <2>2. /\ e.status = s.status /\ e.handoff = s.handoff /\ e.desired = s.desired
        /\ e.scheduled = s.scheduled /\ e.armed = s.armed
        /\ e.power = s.power /\ e.lockout = s.lockout /\ e.gate = s.gate /\ e.phase = s.phase
    BY <1>1 DEF App
  <2>3. /\ e.ctl = s.ctl /\ e.rejected = s.rejected /\ e.anomalies = s.anomalies
        /\ e.attempts = s.attempts /\ e.exhausted = s.exhausted
        /\ e.icon = s.icon /\ e.tracked = s.tracked
    BY <1>1 DEF App
  <2>4. e.tier = "Quiescent"
    BY <1>1 DEF App
  <2> QED
    BY <2>1, <2>2, <2>3, <2>4 DEF Same, Kept
<1>6. p \in {s.phase, "overflow"}
  BY <1>2, <1>5
<1>7. p \in {"starting", "running", "quitting", "exited", "overflow", "reentrant"}
  BY <1>6, Fields
<1>8. r \in App
  BY <1>3, <1>5, <1>7, NumberSetters
<1>9. /\ r.phase = p /\ r.ctl = e.ctl /\ r.tier = e.tier /\ r.status = e.status
      /\ r.tracked = e.tracked /\ r.icon = e.icon
      /\ r.rejected = e.rejected /\ r.anomalies = e.anomalies
      /\ r.attempts = e.attempts /\ r.exhausted = e.exhausted
  BY <1>3, <1>5 DEF App
<1>10. /\ r.handoff = e.handoff /\ r.desired = e.desired
       /\ r.scheduled = e.scheduled /\ r.armed = e.armed
       /\ r.power = e.power /\ r.lockout = e.lockout /\ r.gate = e.gate
  BY <1>3, <1>5 DEF App
<1> QED
  BY <1>5, <1>6, <1>8, <1>9, <1>10 DEF Same, Kept

\* What an evaluation makes of an App: nothing but the tier, its counters and, where
\* nothing is owned, the intervals of the controller.
Evaluated(s, r) ==
    /\ r \in App /\ CtlSound(r.ctl) /\ Same(s, r)
    /\ Floored(r) /\ TierFits(r) /\ HasAttempts(r)
    /\ s.ctl.own # "Released" => r.ctl = s.ctl

\* With too many rejections the tier is one that keeps to the floor.
AtFloor(s) == s.rejected < RejectionLimit \/ s.tier \in Degraded

(* One evaluation suffices for the tier to fit.                            *)
LEMMA TierApplied ==
    ASSUME NEW s, NEW m, Unsettled(s), NEW r, r = ApplyTier(s, m)
    PROVE  /\ Evaluated(s, r) /\ Kept(s, r)
           /\ s.rejected < RejectionLimit \/ s.tier # "Nominal" => AtFloor(r)
<1>1. PICK t : t = evaluate_tier(s.tier, s.icon, s.rejected, s.anomalies)
  OBVIOUS
<1>2. r = EnterTier(s, t, m) /\ s \in App
  BY <1>1 DEF ApplyTier, Unsettled
<1>3. /\ s.tier \in OperatingTier /\ s.rejected \in 0..RejectionLimit
      /\ s.anomalies \in 0..AnomalyLimit /\ s.attempts \in 0..SurfaceAttempts
      /\ AnomalyLimit \in Nat \ {0} /\ RejectionLimit \in Nat \ {0}
      /\ SurfaceAttempts \in Nat \ {0}
  BY <1>2, Fields, PolicyAssumption, TrayAppAssumption
<1> USE DEF Evaluated, Unsettled, CtlSound, Floored, TierFits, HasAttempts,
            NearlyFloored, TierNearlyFits, AtFloor, Degraded, OperatingTier
<1>4. CASE s.anomalies >= AnomalyLimit
  <2>1. t = "Quiescent"
    BY <1>1, <1>4 DEF evaluate_tier
  <2>2. /\ r \in App /\ Same(s, r) /\ Kept(s, r) /\ r.ctl = s.ctl /\ r.tier = "Quiescent"
        /\ r.rejected = s.rejected /\ r.anomalies = s.anomalies
        /\ r.attempts = s.attempts /\ r.exhausted = s.exhausted
    BY <1>2, <2>1, EntersQuiescent
  <2> QED
    BY <1>3, <1>4, <2>2
<1>5. CASE s.anomalies < AnomalyLimit /\ ~s.icon /\ s.tier = "Nominal"
  <2>1. t = "SurfaceDegraded"
    BY <1>1, <1>3, <1>5 DEF evaluate_tier
  <2>2. /\ r \in App /\ Same(s, r) /\ Kept(s, r) /\ r.ctl = s.ctl
        /\ r.tier = "SurfaceDegraded" /\ r.wake # "Off" /\ r.attempts = 0
        /\ r.rejected = s.rejected /\ r.anomalies = s.anomalies
    BY <1>2, <2>1, EntersSurface
  <2>3. ~r.icon
    BY <1>5, <2>2 DEF Kept
  <2> QED
    BY <1>3, <1>5, <2>2, <2>3
<1>6. CASE /\ s.anomalies < AnomalyLimit /\ ~(~s.icon /\ s.tier = "Nominal")
           /\ s.rejected >= RejectionLimit /\ s.tier \notin Degraded
  <2>1. t = "MetrologyDegraded"
    BY <1>1, <1>3, <1>6 DEF evaluate_tier
  <2>2. /\ r \in App /\ Same(s, r) /\ Kept(s, r) /\ r.tier = "MetrologyDegraded"
        /\ r.rejected = s.rejected /\ r.anomalies = s.anomalies
        /\ r.attempts = s.attempts /\ r.exhausted = s.exhausted
    BY <1>2, <2>1, EntersMetrology
  <2>3. s.ctl.own = "Released" /\ r.rejected # 0
    BY <1>3, <1>6, <2>2
  <2>4. CtlSound(r.ctl)
    BY <2>2, <2>3 DEF Same
  <2> QED
    BY <1>3, <1>6, <2>2, <2>3, <2>4
<1>7. CASE /\ s.anomalies < AnomalyLimit /\ ~(~s.icon /\ s.tier = "Nominal")
           /\ ~(s.rejected >= RejectionLimit /\ s.tier \notin Degraded)
           /\ s.tier \in {"SurfaceDegraded", "MetrologyDegraded"}
           /\ s.icon /\ s.rejected = 0 /\ s.anomalies = 0
  <2>1. t = "Nominal"
    BY <1>1, <1>3, <1>7 DEF evaluate_tier
  <2>2. /\ r \in App /\ Same(s, r) /\ Kept(s, r) /\ r.ctl = s.ctl
        /\ r.tier = "Nominal" /\ r.rejected = 0 /\ r.attempts = 0
    BY <1>2, <2>1, EntersNominal
  <2>3. r.icon
    BY <1>7, <2>2 DEF Kept
  <2> QED
    BY <1>3, <1>7, <2>2, <2>3
<1>8. CASE /\ s.anomalies < AnomalyLimit /\ ~(~s.icon /\ s.tier = "Nominal")
           /\ ~(s.rejected >= RejectionLimit /\ s.tier \notin Degraded)
           /\ ~(/\ s.tier \in {"SurfaceDegraded", "MetrologyDegraded"}
                /\ s.icon /\ s.rejected = 0 /\ s.anomalies = 0)
  <2>1. t = "Stay"
    BY <1>1, <1>3, <1>8 DEF evaluate_tier
  <2>2. r = s
    BY <1>2, <2>1, Stays
  <2>3. Same(s, r) /\ Kept(s, r)
    BY <2>2 DEF Same, Kept
  <2> QED
    BY <1>2, <1>3, <1>8, <2>2, <2>3
<1> QED
  BY <1>3, <1>4, <1>5, <1>6, <1>7, <1>8

(* Two evaluations leave alone what each does.                             *)
LEMMA SameTransitive ==
    ASSUME NEW s, NEW r, NEW q, Same(s, r), Same(r, q)
    PROVE  Same(s, q)
BY DEF Same

(* refresh_operating_tier                                                  *)
LEMMA Refreshed ==
    ASSUME NEW s, NEW m, Unsettled(s), NEW r, r = refresh_operating_tier(s, m)
    PROVE  /\ Evaluated(s, r) /\ Kept(s, r)
           /\ s.rejected < RejectionLimit \/ s.tier # "Nominal" => AtFloor(r)
<1>1. PICK d : d = drain_anomaly_producers(s)
  OBVIOUS
<1>2. /\ Unsettled(d) /\ Same(s, d)
      /\ d.ctl = s.ctl /\ d.status = s.status /\ d.tracked = s.tracked
      /\ d.icon = s.icon /\ d.tier = s.tier /\ d.rejected = s.rejected
  BY <1>1, Drained
<1>3. /\ Evaluated(d, r) /\ Kept(d, r)
      /\ d.rejected < RejectionLimit \/ d.tier # "Nominal" => AtFloor(r)
  BY <1>1, <1>2, TierApplied DEF refresh_operating_tier
<1>4. Same(s, r)
  BY <1>2, <1>3, SameTransitive DEF Evaluated
<1> QED
  BY <1>2, <1>3, <1>4 DEF Evaluated, Kept

(* The loss of the icon evaluates the tier once more.                      *)
LEMMA IconUpdated ==
    ASSUME NEW s, NEW m, Settled(s), NEW r, r = UpdateIcon(s, m)
    PROVE  /\ Evaluated(s, r) /\ r.status = s.status /\ r.tracked = s.tracked
           /\ AtFloor(s) => AtFloor(r)
           /\ "icon" \notin m => r.icon = s.icon
<1>1. CASE s.icon /\ "icon" \in m /\ s.tier \notin {"SurfaceDegraded", "Quiescent"}
  <2>1. PICK d : d = [s EXCEPT !.icon = FALSE]
    OBVIOUS
  <2>2. r = refresh_operating_tier(d, m)
    BY <1>1, <2>1 DEF UpdateIcon
  <2>3. d \in App
    BY <2>1, FlagSetters DEF Settled
  <2>4. /\ d.ctl = s.ctl /\ d.status = s.status /\ d.tracked = s.tracked
        /\ d.tier = s.tier /\ d.rejected = s.rejected /\ d.anomalies = s.anomalies
        /\ d.attempts = s.attempts /\ d.exhausted = s.exhausted
    BY <2>1 DEF Settled, App
  <2>5. Same(s, d)
    BY <2>1 DEF Settled, App, Same
  <2>6. Unsettled(d)
    <3>1. NearlyFloored(d) /\ HasAttempts(d)
      BY <2>4 DEF Settled, Floored, NearlyFloored, HasAttempts
    <3>2. TierNearlyFits(d)
      BY <1>1, <2>4 DEF Settled, TierFits, TierNearlyFits
    <3> QED
      BY <2>3, <2>4, <3>1, <3>2 DEF Settled, Unsettled
  <2>7. /\ Evaluated(d, r) /\ Kept(d, r)
        /\ d.rejected < RejectionLimit \/ d.tier # "Nominal" => AtFloor(r)
    BY <2>2, <2>6, Refreshed
  <2>8. Same(s, r)
    BY <2>5, <2>7, SameTransitive DEF Evaluated
  <2> QED
    BY <1>1, <2>4, <2>7, <2>8 DEF Evaluated, Kept, AtFloor, Degraded
<1>2. CASE ~(s.icon /\ "icon" \in m /\ s.tier \notin {"SurfaceDegraded", "Quiescent"})
  <2>1. r = s
    BY <1>2 DEF UpdateIcon
  <2>2. Same(s, r)
    BY <2>1 DEF Same
  <2>3. s.tier \in OperatingTier
    BY Fields DEF Settled
  <2> QED
    BY <2>1, <2>2, <2>3 DEF Settled, Evaluated
<1> QED
  BY <1>1, <1>2

-----------------------------------------------------------------------------
(* publish                                                                 *)

(* The status that is shown is one, and Starting only if it was said.      *)
LEMMA LifecycleStatus ==
    ASSUME NEW s \in App, NEW t, t = lifecycle_status(s)
    PROVE  t \in TrayStatus /\ (s.status # "Starting" => t # "Starting")
<1>1. s.status \in TrayStatus
  BY Fields
<1> QED
  BY <1>1 DEF lifecycle_status, scheduled_lifecycle_status, TrayStatus

(* What the emergency path is told is an interval.                         *)
LEMMA TrackedIsNatural ==
    ASSUME NEW s \in App
    PROVE  TrackedInterval(s) \in Nat
<1>1. s.ctl \in Controller(Nat)
  BY Fields
<1>2. s.ctl.sel \in Nat \cup {NoInterval}
  BY <1>1 DEF Controller, Option, NoInterval, NoReading
<1> QED
  BY <1>2 DEF TrackedInterval

(* publish settles the tier and tells the emergency path; what the rules   *)
(* are about it leaves alone.                                              *)
LEMMA Published ==
    ASSUME NEW s, NEW m, Unsettled(s), NEW r, r = Publish(s, m)
    PROVE  /\ Settled(r) /\ Same(s, r)
           /\ s.status # "Starting" => r.status # "Starting"
           /\ s.rejected < RejectionLimit \/ s.tier # "Nominal" => AtFloor(r)
           /\ "icon" \notin m => r.icon = s.icon
<1>1. PICK t : t = lifecycle_status(s)
  OBVIOUS
<1>2. PICK n : n = TrackedInterval(s)
  OBVIOUS
<1>3. PICK p : p = [s EXCEPT !.tracked = n, !.status = t]
  OBVIOUS
<1>4. PICK q : q = refresh_operating_tier(p, m)
  OBVIOUS
<1>5. r = UpdateIcon(q, m)
  BY <1>1, <1>2, <1>3, <1>4 DEF Publish
<1>6. s \in App /\ t \in TrayStatus /\ n \in Nat /\ (s.status # "Starting" => t # "Starting")
  BY <1>1, <1>2, LifecycleStatus, TrackedIsNatural DEF Unsettled
<1>7. p \in App
  BY <1>3, <1>6, Setters, NumberSetters
<1>8. /\ p.ctl = s.ctl /\ p.tracked = n /\ p.status = t /\ p.tier = s.tier
      /\ p.rejected = s.rejected /\ p.anomalies = s.anomalies /\ p.icon = s.icon
      /\ p.wake = s.wake /\ p.attempts = s.attempts /\ p.exhausted = s.exhausted
  BY <1>3, <1>6 DEF App
<1>9. Same(s, p)
  BY <1>3, <1>6 DEF App, Same
<1>10. Unsettled(p)
  BY <1>7, <1>8 DEF Unsettled, NearlyFloored, TierNearlyFits, HasAttempts
<1>11. /\ Evaluated(p, q) /\ Kept(p, q)
       /\ p.rejected < RejectionLimit \/ p.tier # "Nominal" => AtFloor(q)
  BY <1>4, <1>10, Refreshed
<1>12. Settled(q)
  <2>1. q.tracked = n /\ q.ctl.own = s.ctl.own /\ (s.ctl.own # "Released" => q.ctl = s.ctl)
    BY <1>8, <1>11 DEF Evaluated, Kept, Same
  <2>2. Covered(q)
    BY <1>2, <2>1 DEF Covered, TrackedInterval
  <2> QED
    BY <1>11, <2>2 DEF Evaluated, Settled
<1>13. /\ Evaluated(q, r) /\ r.status = q.status /\ r.tracked = q.tracked
       /\ AtFloor(q) => AtFloor(r)
       /\ "icon" \notin m => r.icon = q.icon
  BY <1>5, <1>12, IconUpdated
<1>14. Settled(r)
  <2>1. r.ctl.own = q.ctl.own /\ (q.ctl.own # "Released" => r.ctl = q.ctl)
    BY <1>13 DEF Evaluated, Same
  <2>2. Covered(r)
    BY <1>12, <1>13, <2>1 DEF Settled, Covered, TrackedInterval
  <2> QED
    BY <1>13, <2>2 DEF Evaluated, Settled
<1>15. Same(s, r)
  <2>1. Same(s, q)
    BY <1>9, <1>11, SameTransitive DEF Evaluated
  <2> QED
    BY <1>13, <2>1, SameTransitive DEF Evaluated
<1>16. s.status # "Starting" => r.status # "Starting"
  BY <1>6, <1>8, <1>11, <1>13 DEF Kept
<1> QED
  BY <1>8, <1>11, <1>13, <1>14, <1>15, <1>16 DEF Kept

(* A new status changes nothing else.                                      *)
LEMMA SetStatus ==
    ASSUME NEW s \in App, NEW t \in TrayStatus, NEW r, r = [s EXCEPT !.status = t]
    PROVE  /\ r \in App /\ r.ctl = s.ctl /\ r.status = t /\ Same(s, r)
           /\ r.tier = s.tier /\ r.rejected = s.rejected /\ r.anomalies = s.anomalies
           /\ r.icon = s.icon /\ r.wake = s.wake
           /\ r.attempts = s.attempts /\ r.exhausted = s.exhausted
<1>1. r \in App
  BY Setters
<1> QED
  BY <1>1 DEF App, Same

(* Show is publish with a new status.                                      *)
LEMMA Shown ==
    ASSUME NEW s, NEW m, Unsettled(s), NEW t \in TrayStatus, NEW r, r = Show(s, t, m)
    PROVE  /\ Settled(r) /\ Same(s, r)
           /\ t # "Starting" => r.status # "Starting"
           /\ s.rejected < RejectionLimit \/ s.tier # "Nominal" => AtFloor(r)
           /\ "icon" \notin m => r.icon = s.icon
<1>1. PICK p : p = [s EXCEPT !.status = t]
  OBVIOUS
<1>2. /\ p \in App /\ p.ctl = s.ctl /\ p.status = t /\ Same(s, p)
      /\ p.tier = s.tier /\ p.rejected = s.rejected /\ p.anomalies = s.anomalies
      /\ p.icon = s.icon /\ p.wake = s.wake
      /\ p.attempts = s.attempts /\ p.exhausted = s.exhausted
  BY <1>1, SetStatus DEF Unsettled
<1>3. Unsettled(p)
  BY <1>2 DEF Unsettled, NearlyFloored, TierNearlyFits, HasAttempts
<1>4. r = Publish(p, m)
  BY <1>1 DEF Show
<1>5. /\ Settled(r) /\ Same(p, r)
      /\ p.status # "Starting" => r.status # "Starting"
      /\ p.rejected < RejectionLimit \/ p.tier # "Nominal" => AtFloor(r)
      /\ "icon" \notin m => r.icon = p.icon
  BY <1>3, <1>4, Published
<1>6. Same(s, r)
  BY <1>2, <1>5, SameTransitive
<1> QED
  BY <1>2, <1>5, <1>6

-----------------------------------------------------------------------------
(* The rules under small changes                                           *)

(* A settled App may be published again.                                   *)
LEMMA SettledIsUnsettled ==
    ASSUME NEW s, Settled(s)
    PROVE  Unsettled(s)
BY DEF Settled, Unsettled, Floored, NearlyFloored, TierFits, TierNearlyFits

(* The settled tier depends on the stable fields alone.                    *)
LEMMA StableIsSettled ==
    ASSUME NEW s, NEW r \in App, Stable(s, r), r.ctl = s.ctl, Settled(s)
    PROVE  Settled(r)
BY DEF Settled, Stable, Covered, TrackedInterval, Floored, TierFits, HasAttempts

(* Publishing keeps the rules.                                             *)
LEMMA SameKeeps ==
    ASSUME NEW s, NEW r, Same(s, r)
    PROVE  /\ HandoffPending(r) <=> HandoffPending(s)
           /\ Watched(s) => Watched(r)
           /\ TimerIsCurrent(s) => TimerIsCurrent(r)
           /\ \A x : Lawful(x, s) => Lawful(x, r)
           /\ IntentWaits(s) => IntentWaits(r)
           /\ PauseHolds(s) => PauseHolds(r)
           /\ PauseIsTimed(s) => PauseIsTimed(r)
           /\ s.phase # "reentrant" => r.phase # "reentrant"
           /\ s.phase # "starting" => r.phase # "starting"
           /\ Permitted(r) <=> Permitted(s)
<1>1. HandoffPending(r) <=> HandoffPending(s)
  BY DEF Same, HandoffPending
<1>2. Watched(s) => Watched(r)
  BY <1>1 DEF Same, Watched
<1>3. TimerIsCurrent(s) => TimerIsCurrent(r)
  BY DEF Same, TimerIsCurrent
<1>4. Permitted(r) <=> Permitted(s)
  BY DEF Same, Permitted
<1>5. \A x : Lawful(x, s) => Lawful(x, r)
  BY <1>4 DEF Same, Lawful, PauseActive
<1>6. IntentWaits(s) => IntentWaits(r)
  BY <1>1 DEF Same, IntentWaits
<1>7. PauseHolds(s) => PauseHolds(r)
  BY DEF Same, PauseHolds, PauseActive
<1>8. PauseIsTimed(s) => PauseIsTimed(r)
  BY <1>1 DEF Same, PauseIsTimed, PauseActive
<1>9. /\ s.phase # "reentrant" => r.phase # "reentrant"
      /\ s.phase # "starting" => r.phase # "starting"
  BY DEF Same
<1> QED
  BY <1>1, <1>2, <1>3, <1>4, <1>5, <1>6, <1>7, <1>8, <1>9

(* So does a change of fields no rule looks at.                            *)
LEMMA NeutralKeeps ==
    ASSUME NEW x, NEW s, NEW r \in App, r.ctl = s.ctl, Others(s, r)
    PROVE  /\ HandoffPending(r) <=> HandoffPending(s)
           /\ Permitted(r) <=> Permitted(s)
           /\ Base(x, s) => Base(x, r)
           /\ IntentWaits(s) => IntentWaits(r)
           /\ Good(x, s) => Good(x, r)
<1>1. Same(s, r)
  BY DEF Same, Others, Stable
<1>2. Base(x, s) => Base(x, r)
  <2>1. SUFFICES ASSUME Base(x, s) PROVE Base(x, r)
    OBVIOUS
  <2>2. Settled(r)
    BY <2>1, StableIsSettled DEF Base, Others
  <2>3. r.gate = s.gate /\ r.icon = s.icon /\ r.status = s.status
    BY DEF Others, Stable
  <2> QED
    BY <1>1, <2>1, <2>2, <2>3, SameKeeps DEF Base, Frame
<1>3. Good(x, s) => Good(x, r)
  BY <1>1, <1>2, SameKeeps DEF Good
<1> QED
  BY <1>1, <1>2, <1>3, SameKeeps

(* What is shown keeps the rules of the state it is shown in.              *)
LEMMA ShowKeeps ==
    ASSUME NEW x, NEW s, NEW m, Fits(x, m), Unsettled(s), Frame(x, s),
           NEW t \in TrayStatus \ {"Starting"}, NEW r, r = Show(s, t, m)
    PROVE  /\ Base(x, r) /\ Same(s, r)
           /\ IntentWaits(s) /\ PauseHolds(s) /\ ("timed" \in x => PauseIsTimed(s)) => Good(x, r)
<1>1. /\ Settled(r) /\ Same(s, r) /\ r.status # "Starting"
      /\ "icon" \notin m => r.icon = s.icon
  BY Shown
<1>2. r.gate = s.gate
  BY <1>1 DEF Same
<1>3. Base(x, r)
  BY <1>1, <1>2, SameKeeps DEF Base, Frame, Fits
<1> QED
  BY <1>1, <1>3, SameKeeps DEF Good

(* publish keeps the rules too.                                            *)
LEMMA PublishKeeps ==
    ASSUME NEW x, NEW s, NEW m, Fits(x, m), Unsettled(s), Frame(x, s),
           s.status # "Starting", NEW r, r = Publish(s, m)
    PROVE  /\ Base(x, r) /\ Same(s, r)
           /\ IntentWaits(s) /\ PauseHolds(s) /\ ("timed" \in x => PauseIsTimed(s)) => Good(x, r)
<1>1. /\ Settled(r) /\ Same(s, r) /\ r.status # "Starting"
      /\ "icon" \notin m => r.icon = s.icon
  BY Published
<1>2. r.gate = s.gate
  BY <1>1 DEF Same
<1>3. Base(x, r)
  BY <1>1, <1>2, SameKeeps DEF Base, Frame, Fits
<1> QED
  BY <1>1, <1>3, SameKeeps DEF Good

(* Both, from an App that keeps all rules.                                 *)
LEMMA GoodShown ==
    ASSUME NEW x, NEW s, NEW m, Fits(x, m), Good(x, s),
           NEW t \in TrayStatus \ {"Starting"}, NEW r, r = Show(s, t, m)
    PROVE  Good(x, r) /\ Same(s, r)
BY ShowKeeps, SettledIsUnsettled DEF Good, Base

(* The same without a new status.                                          *)
LEMMA GoodPublished ==
    ASSUME NEW x, NEW s, NEW m, Fits(x, m), Good(x, s), NEW r, r = Publish(s, m)
    PROVE  Good(x, r) /\ Same(s, r)
BY PublishKeeps, SettledIsUnsettled DEF Good, Base

(* The transitional status.                                                *)
LEMMA PendingShown ==
    ASSUME NEW x, NEW s, NEW m, Fits(x, m), Base(x, s), NEW r, r = ShowPending(s, m)
    PROVE  /\ Base(x, r) /\ Same(s, r)
           /\ Good(x, s) => Good(x, r)
<1>1. PICK t : t = IF PauseActive(s) THEN "Pausing" ELSE "Stopping"
  OBVIOUS
<1>2. t \in TrayStatus \ {"Starting"}
  BY <1>1 DEF TrayStatus
<1>3. r = Show(s, t, m)
  BY <1>1 DEF ShowPending
<1> QED
  BY <1>2, <1>3, ShowKeeps, SettledIsUnsettled DEF Base, Good

(* show_ownership_status                                                   *)
LEMMA OwnershipShown ==
    ASSUME NEW x, NEW s, NEW m, Fits(x, m), Good(x, s), NEW r, r = show_ownership_status(s, m)
    PROVE  Good(x, r) /\ Same(s, r)
<1>1. CASE HandoffPending(s)
  BY <1>1, PendingShown DEF show_ownership_status, Good
<1>2. CASE ~HandoffPending(s)
  <2>1. PICK t : t = CASE s.ctl.own = "Released"  -> ReleasedStatus(s)
                       [] s.ctl.own = "Owned"     -> "Running"
                       [] s.ctl.own = "Uncertain" -> "Unverified"
    OBVIOUS
  <2>2. s.ctl.own \in {"Released", "Owned", "Uncertain"}
    BY Fields DEF Good, Base, Settled, Controller, OwnershipState
  <2>3. t \in TrayStatus \ {"Starting"}
    BY <2>1, <2>2 DEF ReleasedStatus, TrayStatus
  <2>4. r = Show(s, t, m)
    BY <1>2, <2>1 DEF show_ownership_status
  <2> QED
    BY <2>3, <2>4, GoodShown
<1> QED
  BY <1>1, <1>2

-----------------------------------------------------------------------------
(* The duration coordinator and its timer                                  *)

\* Only the schedule changes.
ButSchedule(s, r) ==
    /\ r \in App /\ Stable(s, r) /\ r.ctl = s.ctl
    /\ r.handoff = s.handoff /\ r.desired = s.desired
    /\ r.power = s.power /\ r.lockout = s.lockout

(* cancel_duration_timer                                                   *)
LEMMA Disarmed ==
    ASSUME NEW s \in App, NEW r, r = cancel_duration_timer(s)
    PROVE  ButSchedule(s, r) /\ r.armed = None /\ r.scheduled = s.scheduled
<1>1. r \in App
  BY Setters DEF cancel_duration_timer
<1> QED
  BY <1>1 DEF cancel_duration_timer, App, ButSchedule, Stable

(* DurationCoordinator::cancel                                             *)
LEMMA Cancelled ==
    ASSUME NEW s \in App, NEW r, r = PauseCancel(s)
    PROVE  /\ ButSchedule(s, r) /\ r.scheduled = None
           /\ s.armed = None => r.armed = None
<1>1. CASE s.scheduled = None
  BY <1>1 DEF PauseCancel, ButSchedule, Stable
<1>2. CASE s.scheduled # None
  <2>1. PICK a \in {None, "Current", "Stale"} : a = IF s.armed = None THEN None ELSE "Stale"
    OBVIOUS
  <2>2. r = [s EXCEPT !.scheduled = None, !.due = FALSE, !.armed = a]
    BY <1>2, <2>1 DEF PauseCancel
  <2>3. r \in App
    <3>1. PICK d : d = [s EXCEPT !.scheduled = None, !.due = FALSE]
      OBVIOUS
    <3>2. d \in App
      BY <3>1, Setters, FlagSetters
    <3>3. r = [d EXCEPT !.armed = a]
      BY <2>2, <3>1
    <3> QED
      BY <3>2, <3>3, Setters
  <2>4. /\ r.handoff = s.handoff /\ r.desired = s.desired /\ r.ctl = s.ctl
        /\ r.power = s.power /\ r.lockout = s.lockout /\ r.scheduled = None /\ r.armed = a
    BY <2>2 DEF App
  <2>5. Stable(s, r)
    BY <2>2 DEF App, Stable
  <2> QED
    BY <2>1, <2>3, <2>4, <2>5 DEF ButSchedule
<1> QED
  BY <1>1, <1>2

(* DurationCoordinator::schedule                                           *)
LEMMA Scheduled ==
    ASSUME NEW s \in App, NEW v \in DurationAction, NEW r, r = PauseSchedule(s, v)
    PROVE  /\ ButSchedule(s, r) /\ r.scheduled = v
           /\ s.armed = None => r.armed = None
<1>1. PICK a \in {None, "Current", "Stale"} : a = IF s.armed = None THEN None ELSE "Stale"
  OBVIOUS
<1>2. r = [s EXCEPT !.scheduled = v, !.due = FALSE, !.armed = a]
  BY <1>1 DEF PauseSchedule
<1>3. r \in App
  <2>1. PICK d : d = [s EXCEPT !.scheduled = v, !.due = FALSE]
    OBVIOUS
  <2>2. d \in App
    BY <2>1, Setters, FlagSetters
  <2>3. r = [d EXCEPT !.armed = a]
    BY <1>2, <2>1
  <2> QED
    BY <2>2, <2>3, Setters
<1>4. /\ r.handoff = s.handoff /\ r.desired = s.desired /\ r.ctl = s.ctl
      /\ r.power = s.power /\ r.lockout = s.lockout /\ r.scheduled = v /\ r.armed = a
  BY <1>2 DEF App
<1>5. Stable(s, r)
  BY <1>2 DEF App, Stable
<1> QED
  BY <1>1, <1>3, <1>4, <1>5 DEF ButSchedule

(* Two changes of the schedule are one.                                    *)
LEMMA ButScheduleTransitive ==
    ASSUME NEW s, NEW r, NEW q, ButSchedule(s, r), ButSchedule(r, q)
    PROVE  ButSchedule(s, q)
BY DEF ButSchedule, Stable

(* Without a schedule and a timer the rules hold as before.                *)
LEMMA UnscheduledKeeps ==
    ASSUME NEW x, NEW s, NEW r, ButSchedule(s, r), r.armed = None, r.scheduled = None
    PROVE  /\ HandoffPending(r) <=> HandoffPending(s)
           /\ Base(x, s) => Base(x, r)
           /\ IntentWaits(s) => IntentWaits(r)
           /\ PauseHolds(r) /\ PauseIsTimed(r)
           /\ Base(x, s) /\ IntentWaits(s) => Good(x, r)
<1>1. HandoffPending(r) <=> HandoffPending(s)
  BY DEF ButSchedule, HandoffPending
<1>2. ~PauseActive(r) /\ (Permitted(r) <=> Permitted(s))
  BY DEF ButSchedule, PauseActive, Permitted, None
<1>3. Base(x, s) => Base(x, r)
  <2>1. SUFFICES ASSUME Base(x, s) PROVE Base(x, r)
    OBVIOUS
  <2>2. Settled(r)
    BY <2>1, StableIsSettled DEF Base, ButSchedule
  <2>3. Watched(r)
    BY <1>1, <2>1 DEF Base, Frame, Watched, ButSchedule
  <2>4. Lawful(x, r)
    BY <1>2, <2>1 DEF Base, Frame, Lawful, ButSchedule
  <2> QED
    BY <2>1, <2>2, <2>3, <2>4 DEF Base, Frame, TimerIsCurrent, ButSchedule, Stable
<1>4. IntentWaits(s) => IntentWaits(r)
  BY <1>1 DEF IntentWaits, ButSchedule, Stable
<1>5. PauseHolds(r) /\ PauseIsTimed(r)
  BY <1>2 DEF PauseHolds, PauseIsTimed
<1> QED
  BY <1>1, <1>3, <1>4, <1>5 DEF Good

(* arm_duration_timer arms the timer, or gives the schedule up.            *)
LEMMA Armed ==
    ASSUME NEW x, NEW s, NEW m, Fits(x, m), Base(x, s), IntentWaits(s), PauseHolds(s),
           NEW r, r = arm_duration_timer(s, m)
    PROVE  /\ Base(x, r) /\ IntentWaits(r) /\ PauseHolds(r)
           /\ "calm" \in x => PauseIsTimed(r)
           /\ PauseIsTimed(s) => PauseIsTimed(r)
           /\ r.ctl.own = s.ctl.own /\ r.ctl.held = s.ctl.held
           /\ r.handoff = s.handoff /\ r.desired = s.desired
<1>1. s \in App /\ ("calm" \in x => s.icon)
  BY DEF Base, Settled, Frame
<1>2. CASE CanArm(s, m)
  <2>1. r = [s EXCEPT !.armed = "Current"]
    BY <1>2 DEF arm_duration_timer
  <2>2. r \in App
    BY <1>1, <2>1, Setters
  <2>3. /\ r.handoff = s.handoff /\ r.desired = s.desired /\ r.ctl = s.ctl
        /\ r.scheduled = s.scheduled /\ r.power = s.power /\ r.lockout = s.lockout
        /\ r.armed = "Current"
    BY <1>1, <2>1 DEF App
  <2>4. Stable(s, r)
    BY <1>1, <2>1 DEF App, Stable
  <2>5. Settled(r)
    BY <2>2, <2>3, <2>4, StableIsSettled DEF Base
  <2>6. HandoffPending(r) <=> HandoffPending(s)
    BY <2>3 DEF HandoffPending
  <2>7. Watched(r) /\ IntentWaits(r)
    BY <2>3, <2>4, <2>6 DEF Base, Frame, Watched, IntentWaits, Stable
  <2>8. Lawful(x, r) /\ PauseHolds(r)
    BY <2>3 DEF Base, Frame, Lawful, Permitted, PauseActive, PauseHolds
  <2>9. TimerIsCurrent(r) /\ PauseIsTimed(r)
    BY <1>2, <2>3 DEF CanArm, TimerIsCurrent, PauseIsTimed
  <2>10. r.gate = s.gate /\ r.phase = s.phase /\ r.icon = s.icon /\ r.status = s.status
    BY <2>4 DEF Stable
  <2> QED
    BY <2>3, <2>5, <2>7, <2>8, <2>9, <2>10 DEF Base, Frame
<1>3. CASE ~CanArm(s, m) /\ (s.scheduled = None \/ ~s.icon)
  <2>1. r = s
    BY <1>3 DEF arm_duration_timer
  <2>2. "calm" \in x => PauseIsTimed(s)
    BY <1>1, <1>3 DEF PauseIsTimed, PauseActive, None
  <2> QED
    BY <2>1, <2>2
<1>4. CASE ~CanArm(s, m) /\ ~(s.scheduled = None \/ ~s.icon)
  <2>1. PICK p : p = PauseCancel(s)
    OBVIOUS
  <2>2. PICK q : q = cancel_duration_timer(p)
    OBVIOUS
  <2>3. r = Show(q, "Error", m)
    BY <1>4, <2>1, <2>2 DEF arm_duration_timer, cancel_duration_timer
  <2>4. ButSchedule(s, p) /\ p.scheduled = None
    BY <1>1, <2>1, Cancelled
  <2>5. ButSchedule(p, q) /\ q.scheduled = None /\ q.armed = None
    BY <2>2, <2>4, Disarmed DEF ButSchedule
  <2>6. ButSchedule(s, q)
    BY <2>4, <2>5, ButScheduleTransitive
  <2>7. Base(x, q) /\ IntentWaits(q) /\ PauseHolds(q) /\ PauseIsTimed(q)
    BY <2>5, <2>6, UnscheduledKeeps
  <2>8. "Error" \in TrayStatus \ {"Starting"} /\ Unsettled(q) /\ Frame(x, q)
    BY <2>7, SettledIsUnsettled DEF TrayStatus, Base
  <2>9. Base(x, r) /\ Same(q, r)
    BY <2>3, <2>8, ShowKeeps
  <2> QED
    BY <2>6, <2>7, <2>9, SameKeeps DEF ButSchedule, Same
<1> QED
  BY <1>2, <1>3, <1>4

(* Arming the timer of a pause restores all rules.                         *)
LEMMA ArmedIfPaused ==
    ASSUME NEW x, NEW s, NEW m, Fits(x, m), Base(x, s), IntentWaits(s), PauseHolds(s),
           NEW r, r = ArmIfPaused(s, m)
    PROVE  /\ Good(x, r)
           /\ r.ctl.own = s.ctl.own /\ r.ctl.held = s.ctl.held
           /\ r.handoff = s.handoff /\ r.desired = s.desired
<1>1. "timed" \in x => "calm" \in x
  BY DEF Fits
<1>2. CASE PauseActive(s)
  <2>1. r = arm_duration_timer(s, m)
    BY <1>2 DEF ArmIfPaused
  <2> QED
    BY <1>1, <2>1, Armed DEF Good
<1>3. CASE ~PauseActive(s)
  <2>1. r = s /\ PauseIsTimed(s)
    BY <1>3 DEF ArmIfPaused, PauseIsTimed
  <2> QED
    BY <2>1 DEF Good
<1> QED
  BY <1>2, <1>3

-----------------------------------------------------------------------------
(* Releasing                                                               *)

(* clear_release_boundary only closes the window.                          *)
LEMMA BoundaryCleared ==
    ASSUME NEW c \in Controller(Nat), NEW r, r = clear_release_boundary(c)
    PROVE  /\ r \in Controller(Nat) /\ r.bnd = NoInterval
           /\ r.own = c.own /\ r.ver = c.ver /\ r.sel = c.sel /\ r.held = c.held
BY DEF clear_release_boundary, Controller, Option, NoInterval, NoReading

(* stop() of what is owned ends the request, or leaves it unverified.      *)
LEMMA StopResult ==
    ASSUME NEW c \in Controller(Nat), CtlSound(c), NEW m, NEW r, r = Stop(c, "release" \notin m)
    PROVE  /\ r \in Controller(Nat) /\ CtlSound(r)
           /\ StopSucceeds(c, "release" \notin m) <=> c.own = "Released" \/ "release" \notin m
           /\ c.own = "Released" => r = c
           /\ c.own # "Released" /\ "release" \notin m =>
                 r.own = "Released" /\ ~r.held /\ r.bnd # NoInterval
           /\ c.own # "Released" /\ "release" \in m =>
                 r.own = c.own /\ r.bnd = c.bnd /\ r.ver = "Unverified"
<1>1. /\ c.own \in OwnershipState /\ c.sel \in Option(Nat)
      /\ c.own # "Released" => c.sel # NoInterval
  BY DEF Controller, CtlSound
<1>2. StopReachesKernel(c) <=> c.own # "Released"
  BY <1>1 DEF StopReachesKernel
<1>3. StopSucceeds(c, "release" \notin m) <=> c.own = "Released" \/ "release" \notin m
  BY <1>1 DEF StopSucceeds
<1>4. CASE c.own = "Released"
  BY <1>2, <1>3, <1>4 DEF Stop
<1>5. CASE c.own # "Released" /\ "release" \notin m
  <2>1. r = [c EXCEPT !.own = "Released", !.ver = "NotCollected",
                      !.bnd = c.sel, !.sel = NoInterval, !.held = FALSE]
    BY <1>2, <1>5 DEF Stop
  <2>2. /\ r \in Controller(Nat) /\ r.own = "Released" /\ r.held = FALSE
        /\ r.ver = "NotCollected" /\ r.bnd = c.sel
    BY <2>1 DEF Controller, OwnershipState, Verification, Option, NoInterval, NoReading
  <2> QED
    BY <1>1, <1>3, <1>5, <2>2 DEF CtlSound
<1>6. CASE c.own # "Released" /\ "release" \in m
  <2>1. r = [c EXCEPT !.ver = "Unverified"]
    BY <1>2, <1>6 DEF Stop
  <2>2. /\ r \in Controller(Nat) /\ r.own = c.own /\ r.ver = "Unverified"
        /\ r.bnd = c.bnd /\ r.sel = c.sel
    BY <2>1 DEF Controller, Verification
  <2> QED
    BY <1>1, <1>3, <1>6, <2>2 DEF CtlSound
<1> QED
  BY <1>4, <1>5, <1>6

(* A controller that owns no more than before leaves the tier nearly right.*)
LEMMA CtlChanged ==
    ASSUME NEW s, Unsettled(s), NEW c \in Controller(Nat), CtlSound(c),
           c.own \in {s.ctl.own, "Released"}, NEW r, r = [s EXCEPT !.ctl = c]
    PROVE  Unsettled(r) /\ r.ctl = c /\ Others(s, r)
<1>1. r \in App /\ r.ctl = c /\ Others(s, r)
  BY SetCtl DEF Unsettled
<1>2. NearlyFloored(r) /\ TierNearlyFits(r) /\ HasAttempts(r)
  BY <1>1 DEF Unsettled, NearlyFloored, TierNearlyFits, HasAttempts, Others, Stable
<1> QED
  BY <1>1, <1>2 DEF Unsettled

\* Released, with nobody to watch a window that may be open.
Freed(x, s) ==
    /\ Unsettled(s) /\ s.ctl.own = "Released" /\ ~HandoffPending(s)
    /\ TimerIsCurrent(s) /\ IntentWaits(s)
    /\ s.gate <=> "gate" \in x
    /\ s.phase # "reentrant" /\ ("started" \in x => s.phase # "starting")
    /\ "calm" \in x => s.icon

(* Closing the window and showing the release restores all rules.          *)
LEMMA WindowClosed ==
    ASSUME NEW x, NEW s, NEW m, Fits(x, m), Freed(x, s),
           NEW t \in TrayStatus \ {"Starting"}, NEW r,
           r = Show([s EXCEPT !.ctl = clear_release_boundary(@)], t, m)
    PROVE  /\ Base(x, r) /\ IntentWaits(r) /\ PauseHolds(r)
           /\ r.ctl.own = "Released" /\ r.handoff = s.handoff /\ r.desired = s.desired
<1>1. PICK c : c = clear_release_boundary(s.ctl)
  OBVIOUS
<1>2. s.ctl \in Controller(Nat) /\ CtlSound(s.ctl)
  BY Fields DEF Freed, Unsettled
<1>3. /\ c \in Controller(Nat) /\ c.bnd = NoInterval
      /\ c.own = s.ctl.own /\ c.ver = s.ctl.ver /\ c.sel = s.ctl.sel /\ c.held = s.ctl.held
  BY <1>1, <1>2, BoundaryCleared
<1>4. CtlSound(c) /\ c.own = "Released"
  BY <1>2, <1>3 DEF CtlSound, Freed
<1>5. PICK p : p = [s EXCEPT !.ctl = c]
  OBVIOUS
<1>6. r = Show(p, t, m)
  BY <1>1, <1>5
<1>7. Unsettled(p) /\ p.ctl = c /\ Others(s, p)
  BY <1>3, <1>4, <1>5, CtlChanged DEF Freed
<1>8. ~HandoffPending(p)
  BY <1>7 DEF Freed, HandoffPending, Others
<1>9. Frame(x, p)
  BY <1>3, <1>4, <1>7, <1>8
     DEF Freed, Frame, Watched, TimerIsCurrent, Lawful, Others, Stable
<1>10. IntentWaits(p) /\ PauseHolds(p)
  BY <1>4, <1>7 DEF Freed, HandoffPending, IntentWaits, PauseHolds, Others, Stable
<1>11. Base(x, r) /\ Same(p, r)
  BY <1>6, <1>7, <1>9, ShowKeeps
<1> QED
  BY <1>4, <1>7, <1>10, <1>11, SameKeeps DEF Same, Others

(* What follows the native call of a release.                              *)
LEMMA AfterRelease ==
    ASSUME NEW x, NEW s, NEW m, Fits(x, m), NEW t \in TrayStatus \ {"Starting"},
           Freed(x, s) \/ (Good(x, s) /\ s.ctl.own = "Released"),
           NEW r, r = Released(s, t, m)
    PROVE  Good(x, r) /\ r.ctl.own = "Released"
<1>1. CASE HandoffPending(s)
  BY <1>1 DEF Released, Freed
<1>2. CASE ~HandoffPending(s)
  <2>1. Freed(x, s)
    BY <1>2, SettledIsUnsettled DEF Freed, Good, Base, Frame
  <2>2. PICK p : p = Show([s EXCEPT !.ctl = clear_release_boundary(@)], t, m)
    OBVIOUS
  <2>3. Base(x, p) /\ IntentWaits(p) /\ PauseHolds(p) /\ p.ctl.own = "Released"
    BY <2>1, <2>2, WindowClosed
  <2>4. r = ArmIfPaused(p, m)
    BY <1>2, <2>2 DEF Released
  <2> QED
    BY <2>3, <2>4, ArmedIfPaused
<1> QED
  BY <1>1, <1>2

(* begin_handoff: somebody watches the window, or it is closed.            *)
LEMMA HandoffBegun ==
    ASSUME NEW x, NEW s, NEW m, Fits(x, m), Freed(x, s), s.desired = None,
           s.ctl.bnd # NoInterval, NEW r, r = begin_handoff(s, m)
    PROVE  Good(x, r) /\ r.ctl.own = "Released"
<1>1. PICK d : d = cancel_duration_timer(s)
  OBVIOUS
<1>2. s \in App
  BY DEF Freed, Unsettled
<1>3. ButSchedule(s, d) /\ d.armed = None /\ d.scheduled = s.scheduled
  BY <1>1, <1>2, Disarmed
<1>4. Freed(x, d) /\ d.desired = None /\ d.ctl = s.ctl
  <2>1. ~HandoffPending(d)
    BY <1>3 DEF Freed, HandoffPending, ButSchedule
  <2>2. Unsettled(d)
    BY <1>3 DEF Freed, Unsettled, NearlyFloored, TierNearlyFits, HasAttempts, ButSchedule, Stable
  <2> QED
    BY <1>3, <2>1, <2>2 DEF Freed, ButSchedule, Stable, TimerIsCurrent, IntentWaits
<1>5. PauseActive(d) <=> PauseActive(s)
  BY <1>3 DEF PauseActive
<1>6. CASE HandoffStarts(s, m)
  <2>1. PICK h : h = [polls |-> 0, paused |-> PauseActive(s), boundary |-> s.ctl.bnd]
    OBVIOUS
  <2>2. PICK p : p = [d EXCEPT !.handoff = h]
    OBVIOUS
  <2>3. PICK t : t = IF PauseActive(s) THEN "Pausing" ELSE "Stopping"
    OBVIOUS
  <2>4. r = Show(p, t, m)
    BY <1>1, <1>6, <2>1, <2>2, <2>3 DEF begin_handoff
  <2>5. t \in TrayStatus \ {"Starting"}
    BY <2>3 DEF TrayStatus
  <2>6. h \in [polls : -1..MaxPolls, paused : BOOLEAN, boundary : Option(Nat)]
    <3>1. s.ctl.bnd \in Option(Nat) /\ 0 \in -1..MaxPolls
      BY <1>2, Fields, TrayAppAssumption DEF Controller
    <3>2. PauseActive(s) \in BOOLEAN
      BY DEF PauseActive
    <3> QED
      BY <2>1, <3>1, <3>2
  <2>7. h # NoHandoff /\ h.boundary = s.ctl.bnd
    BY <2>1 DEF NoHandoff
  <2>8. p \in App /\ d \in App
    BY <1>3, <2>2, <2>6, Setters DEF ButSchedule
  <2>9. /\ p.handoff = h /\ p.ctl = d.ctl /\ p.desired = d.desired /\ p.scheduled = d.scheduled
        /\ p.armed = d.armed
    BY <2>2, <2>8 DEF App
  <2>10. Stable(d, p)
    BY <2>2, <2>8 DEF App, Stable
  <2>11. HandoffPending(p)
    BY <2>7, <2>9 DEF HandoffPending
  <2>12. Unsettled(p)
    BY <1>4, <2>8, <2>9, <2>10
       DEF Freed, Unsettled, NearlyFloored, TierNearlyFits, HasAttempts, Stable
  <2>13. Frame(x, p)
    BY <1>3, <1>4, <2>7, <2>9, <2>10, <2>11
       DEF Freed, Frame, Watched, TimerIsCurrent, Lawful, Stable
  <2>14. IntentWaits(p) /\ PauseHolds(p) /\ PauseIsTimed(p)
    BY <1>4, <2>9, <2>11 DEF Freed, IntentWaits, PauseHolds, PauseIsTimed
  <2>15. Good(x, r) /\ Same(p, r)
    BY <2>4, <2>5, <2>12, <2>13, <2>14, ShowKeeps
  <2> QED
    BY <1>4, <2>9, <2>15 DEF Freed, Same
<1>7. CASE ~HandoffStarts(s, m)
  <2>1. PICK t : t = IF PauseActive(s) THEN "Unverified" ELSE "Stopped"
    OBVIOUS
  <2>2. PICK p : p = Show([d EXCEPT !.ctl = clear_release_boundary(@)], t, m)
    OBVIOUS
  <2>3. t \in TrayStatus \ {"Starting"}
    BY <2>1 DEF TrayStatus
  <2>4. /\ Base(x, p) /\ IntentWaits(p) /\ PauseHolds(p)
        /\ p.ctl.own = "Released" /\ p.desired = None
    BY <1>4, <2>2, <2>3, WindowClosed
  <2>5. r = ArmIfPaused(NothingDesired(p), m)
    BY <1>1, <1>7, <2>1, <2>2 DEF begin_handoff
  <2>6. NothingDesired(p) = p
    BY <2>4 DEF NothingDesired
  <2> QED
    BY <2>4, <2>5, <2>6, ArmedIfPaused
<1> QED
  BY <1>6, <1>7

(* The native release with what follows it.                                *)
LEMMA StoppedAndWatched ==
    ASSUME NEW x, NEW s, NEW m, Fits(x, m), Base(x, s), IntentWaits(s), ~HandoffPending(s),
           "timed" \in x => PauseIsTimed(s),
           NEW t \in TrayStatus \ {"Starting"}, NEW r, r = StopAndWatch(s, t, m)
    PROVE  /\ Good(x, r)
           /\ StopSucceeds(s.ctl, "release" \notin m) => r.ctl.own = "Released"
<1>1. PICK c : c = Stop(s.ctl, "release" \notin m)
  OBVIOUS
<1>2. PICK a : a = [s EXCEPT !.ctl = c]
  OBVIOUS
<1>3. s.ctl \in Controller(Nat) /\ CtlSound(s.ctl) /\ Unsettled(s)
  BY Fields, SettledIsUnsettled DEF Base, Settled
<1>4. /\ c \in Controller(Nat) /\ CtlSound(c)
      /\ StopSucceeds(s.ctl, "release" \notin m) <=> s.ctl.own = "Released" \/ "release" \notin m
      /\ s.ctl.own = "Released" => c = s.ctl
      /\ s.ctl.own # "Released" /\ "release" \notin m =>
            c.own = "Released" /\ ~c.held /\ c.bnd # NoInterval
      /\ s.ctl.own # "Released" /\ "release" \in m =>
            c.own = s.ctl.own /\ c.bnd = s.ctl.bnd /\ c.ver = "Unverified"
  BY <1>1, <1>3, StopResult
<1>5. Unsettled(a) /\ a.ctl = c /\ Others(s, a)
  BY <1>2, <1>3, <1>4, CtlChanged
<1>6. ~HandoffPending(a)
  BY <1>5 DEF HandoffPending, Others
<1>7. CASE ~StopSucceeds(s.ctl, "release" \notin m)
  <2>1. r = Show(a, "Unverified", m) /\ "Unverified" \in TrayStatus \ {"Starting"}
    BY <1>1, <1>2, <1>7 DEF StopAndWatch, TrayStatus
  <2>2. c.own # "Released" /\ c.own = s.ctl.own /\ c.bnd = s.ctl.bnd /\ c.ver = "Unverified"
    BY <1>4, <1>7
  <2>3. Frame(x, a)
    BY <1>5, <1>6, <2>2
       DEF Base, Frame, Watched, TimerIsCurrent, Lawful, Permitted, PauseActive, Others, Stable
  <2>4. /\ IntentWaits(a) /\ PauseHolds(a) /\ ("timed" \in x => PauseIsTimed(a))
    BY <1>5, <1>6, <2>2 DEF IntentWaits, PauseHolds, PauseIsTimed, PauseActive, Others, Stable
  <2> QED
    BY <1>5, <1>7, <2>1, <2>3, <2>4, ShowKeeps
<1>8. CASE StopSucceeds(s.ctl, "release" \notin m)
  <2>1. a.ctl.own = "Released"
    BY <1>4, <1>5, <1>8
  <2>2. s.desired # None => s.ctl.own = "Released" /\ s.phase # "running"
    BY DEF IntentWaits
  <2>3. Freed(x, a)
    BY <1>5, <1>6, <2>1, <2>2
       DEF Freed, Base, Frame, TimerIsCurrent, IntentWaits, Others, Stable
  <2>4. PICK b : b = IF s.ctl.own # "Released" /\ "finer" \in m THEN begin_handoff(a, m) ELSE a
    OBVIOUS
  <2>5. r = Released(b, t, m)
    BY <1>1, <1>2, <1>8, <2>4 DEF StopAndWatch
  <2>6. CASE s.ctl.own # "Released" /\ "finer" \in m
    <3>1. a.desired = None /\ a.ctl.bnd # NoInterval
      BY <1>4, <1>5, <1>8, <2>2, <2>6 DEF Others
    <3>2. Good(x, b) /\ b.ctl.own = "Released"
      BY <2>3, <2>4, <2>6, <3>1, HandoffBegun
    <3> QED
      BY <2>5, <3>2, AfterRelease
  <2>7. CASE ~(s.ctl.own # "Released" /\ "finer" \in m)
    <3>1. b = a
      BY <2>4, <2>7
    <3> QED
      BY <2>3, <2>5, <3>1, AfterRelease
  <2> QED
    BY <2>6, <2>7
<1> QED
  BY <1>7, <1>8

(* guarded_release: released, handed over, or still owned and unverified.  *)
LEMMA GuardedRelease ==
    ASSUME NEW x, NEW s, NEW m, Fits(x, m), Base(x, s), IntentWaits(s),
           "timed" \in x => PauseIsTimed(s),
           NEW t \in TrayStatus \ {"Starting"}, NEW r, r = guarded_release(s, t, m)
    PROVE  /\ Good(x, r)
           /\ ReleaseSucceeds(s, m) => r.ctl.own = "Released"
<1>1. CASE HandoffPending(s)
  <2>1. r = s /\ ~ReleaseSucceeds(s, m)
    BY <1>1 DEF guarded_release, ReleaseSucceeds
  <2>2. PauseHolds(s)
    BY <1>1 DEF Base, Frame, Watched, PauseHolds
  <2> QED
    BY <2>1, <2>2 DEF Good
<1>2. CASE ~HandoffPending(s)
  <2>1. PICK p : p = Stopping(s, m)
    OBVIOUS
  <2>2. Base(x, p) /\ Same(s, p)
    BY <2>1, PendingShown DEF Stopping
  <2>3. r = StopAndWatch(p, t, m)
    BY <1>2, <2>1 DEF guarded_release
  <2>4. ~HandoffPending(p) /\ IntentWaits(p) /\ ("timed" \in x => PauseIsTimed(p))
    BY <1>2, <2>2, SameKeeps
  <2>5. ReleaseSucceeds(s, m) => StopSucceeds(p.ctl, "release" \notin m)
    BY <2>1 DEF ReleaseSucceeds
  <2> QED
    BY <2>2, <2>3, <2>4, <2>5, StoppedAndWatched
<1> QED
  BY <1>1, <1>2

-----------------------------------------------------------------------------
(* Intents                                                                 *)

(* Setting desired_intent keeps what does not look at it.                  *)
LEMMA DesiredSet ==
    ASSUME NEW x, NEW s, Base(x, s), NEW v \in {None, "Acquire", "Release"},
           NEW r, r = [s EXCEPT !.desired = v]
    PROVE  /\ Base(x, r) /\ r.desired = v /\ r.ctl = s.ctl /\ Stable(s, r)
           /\ r.scheduled = s.scheduled /\ r.handoff = s.handoff
           /\ r.power = s.power /\ r.lockout = s.lockout
           /\ HandoffPending(r) <=> HandoffPending(s)
           /\ PauseHolds(s) => PauseHolds(r)
           /\ PauseIsTimed(s) => PauseIsTimed(r)
<1>1. s \in App
  BY DEF Base, Settled
<1>2. r \in App
  BY <1>1, Setters
<1>3. /\ r.ctl = s.ctl /\ r.desired = v /\ r.handoff = s.handoff /\ r.scheduled = s.scheduled
      /\ r.armed = s.armed /\ r.power = s.power /\ r.lockout = s.lockout
  BY <1>1 DEF App
<1>4. Stable(s, r)
  BY <1>1 DEF App, Stable
<1>5. Settled(r)
  BY <1>2, <1>3, <1>4, StableIsSettled DEF Base
<1>6. HandoffPending(r) <=> HandoffPending(s)
  BY <1>3 DEF HandoffPending
<1>7. Base(x, r)
  BY <1>3, <1>4, <1>5, <1>6
     DEF Base, Frame, Watched, TimerIsCurrent, Lawful, Permitted, PauseActive, Stable
<1>8. (PauseHolds(s) => PauseHolds(r)) /\ (PauseIsTimed(s) => PauseIsTimed(r))
  BY <1>3, <1>4, <1>6 DEF PauseHolds, PauseIsTimed, PauseActive, Stable
<1> QED
  BY <1>3, <1>4, <1>6, <1>7, <1>8

(* An intent that comes during a handoff waits for its end.                *)
LEMMA Deferred ==
    ASSUME NEW x, NEW s, NEW m, Fits(x, m), Base(x, s), HandoffPending(s),
           NEW v \in {"Acquire", "Release"}, NEW r, r = Defer(s, v, m)
    PROVE  Good(x, r)
<1>1. PICK d : d = [s EXCEPT !.desired = v]
  OBVIOUS
<1>2. Base(x, d) /\ HandoffPending(d)
  BY <1>1, DesiredSet
<1>3. Good(x, d)
  BY <1>2 DEF Good, Base, Frame, Watched, IntentWaits, PauseHolds, PauseIsTimed
<1>4. r = ShowPending(d, m)
  BY <1>1 DEF Defer
<1> QED
  BY <1>2, <1>3, <1>4, PendingShown

(* Fields that no rule looks at.                                           *)
LEMMA NeutralSetters ==
    ASSUME NEW s \in App, NEW v \in BOOLEAN, NEW r,
           \/ r = [s EXCEPT !.resume = v] \/ r = [s EXCEPT !.due = v]
           \/ r = [s EXCEPT !.automatic = v] \/ r = [s EXCEPT !.auto_resume = v]
           \/ r = [s EXCEPT !.ipc = v]
    PROVE  r \in App /\ r.ctl = s.ctl /\ Others(s, r)
<1>1. r \in App
  BY FlagSetters
<1>2. CASE r = [s EXCEPT !.resume = v]
  BY <1>1, <1>2 DEF App, Others, Stable
<1>3. CASE r = [s EXCEPT !.due = v]
  BY <1>1, <1>3 DEF App, Others, Stable
<1>4. CASE r = [s EXCEPT !.automatic = v]
  BY <1>1, <1>4 DEF App, Others, Stable
<1>5. CASE r = [s EXCEPT !.auto_resume = v]
  BY <1>1, <1>5 DEF App, Others, Stable
<1>6. CASE r = [s EXCEPT !.ipc = v]
  BY <1>1, <1>6 DEF App, Others, Stable
<1> QED
  BY <1>2, <1>3, <1>4, <1>5, <1>6

(* release_for_policy                                                      *)
LEMMA PolicyReleased ==
    ASSUME NEW x, NEW s, NEW m, Fits(x, m), Good(x, s), NEW r, r = release_for_policy(s, m)
    PROVE  Good(x, r)
<1>1. CASE HandoffPending(s)
  BY <1>1, Deferred DEF release_for_policy, Good
<1>2. CASE ~HandoffPending(s) /\ s.ctl.own = "Released"
  <2>1. r = Show(s, "Blocked", m) /\ "Blocked" \in TrayStatus \ {"Starting"}
    BY <1>2 DEF release_for_policy, TrayStatus
  <2> QED
    BY <2>1, GoodShown
<1>3. CASE ~HandoffPending(s) /\ s.ctl.own # "Released"
  <2>1. PICK p : p = [s EXCEPT !.resume = TRUE]
    OBVIOUS
  <2>2. r = guarded_release(p, "Blocked", m) /\ "Blocked" \in TrayStatus \ {"Starting"}
    BY <1>3, <2>1 DEF release_for_policy, TrayStatus
  <2>3. p \in App /\ p.ctl = s.ctl /\ Others(s, p)
    BY <2>1, NeutralSetters DEF Good, Base, Settled
  <2>4. Good(x, p)
    BY <2>3, NeutralKeeps
  <2> QED
    BY <2>2, <2>4, GuardedRelease DEF Good
<1> QED
  BY <1>1, <1>2, <1>3

(* The mishaps of a message decide how its request ends.                   *)
LEMMA Outcome ==
    ASSUME NEW m
    PROVE  RequestOutcome(m) \in StartOutcome
<1>1. CASE "resolve" \in m
  <2>1. RequestOutcome(m) = "ResolveFailed"
    BY <1>1 DEF RequestOutcome
  <2> QED
    BY <2>1 DEF StartOutcome
<1>2. CASE "resolve" \notin m /\ "preflight" \in m
  <2>1. m \cap {"resolve", "preflight"} = {"preflight"}
    BY <1>2
  <2>2. m \cap {"resolve", "preflight", "request"} # {"request"}
    BY <1>2
  <2>3. m \cap {"resolve", "preflight", "request"} # {}
    BY <1>2
  <2>4. RequestOutcome(m) = "PreflightFailed"
    BY <1>2, <2>1, <2>2, <2>3 DEF RequestOutcome
  <2> QED
    BY <2>4 DEF StartOutcome
<1>3. CASE "resolve" \notin m /\ "preflight" \notin m /\ "request" \in m
  <2>1. m \cap {"resolve", "preflight"} # {"preflight"}
    BY <1>3
  <2>2. m \cap {"resolve", "preflight", "request"} = {"request"}
    BY <1>3
  <2>3. m \cap {"resolve", "preflight", "request"} # {}
    BY <1>3
  <2>4. RequestOutcome(m) = "RequestFailed"
    BY <1>3, <2>1, <2>2, <2>3 DEF RequestOutcome
  <2> QED
    BY <2>4 DEF StartOutcome
<1>4. CASE "resolve" \notin m /\ "preflight" \notin m /\ "request" \notin m
  <2>1. m \cap {"resolve", "preflight"} # {"preflight"}
    BY <1>4
  <2>2. m \cap {"resolve", "preflight", "request"} # {"request"}
    BY <1>4
  <2>3. m \cap {"resolve", "preflight", "request"} = {}
    BY <1>4
  <2>4. RequestOutcome(m) \in {"Verified", "RollbackFailed", "Unverified"}
    BY <1>4, <2>1, <2>2, <2>3 DEF RequestOutcome
  <2> QED
    BY <2>4 DEF StartOutcome
<1> QED
  BY <1>1, <1>2, <1>3, <1>4

(* start() on a released controller.                                       *)
LEMMA StartResult ==
    ASSUME NEW c \in Controller(Nat), CtlSound(c), c.own = "Released",
           NEW i \in Nat, NEW o \in StartOutcome, NEW r, r = Start(c, i, o)
    PROVE  /\ r \in Controller(Nat) /\ CtlSound(r) /\ r.bnd \in {c.bnd, NoInterval}
           /\ o = "RequestFailed" => r.own = "Released"
<1>1. ~StartIsNoop(c) /\ i # NoInterval
  BY DEF CtlSound, StartIsNoop, NoInterval
<1>2. CASE o = "ResolveFailed"
  BY <1>1, <1>2 DEF Start, Verified
<1>3. CASE o \in {"PreflightFailed", "RequestFailed"}
  <2>1. r = [c EXCEPT !.sel = i, !.bnd = NoInterval]
    BY <1>1, <1>3 DEF Start, Verified
  <2>2. /\ r \in Controller(Nat) /\ r.bnd = NoInterval
        /\ r.own = c.own /\ r.ver = c.ver /\ r.held = c.held
    BY <2>1 DEF Controller, Option, NoInterval, NoReading
  <2> QED
    BY <2>2 DEF CtlSound
<1>4. CASE o = "Unverified"
  <2>1. r = [c EXCEPT !.sel = i, !.bnd = NoInterval, !.own = "Uncertain", !.ver = "Unverified"]
    BY <1>1, <1>4 DEF Start, Verified
  <2>2. /\ r \in Controller(Nat)
        /\ r.sel = i /\ r.bnd = NoInterval /\ r.own = "Uncertain"
    BY <2>1 DEF Controller, OwnershipState, Verification, Option, NoInterval, NoReading
  <2> QED
    BY <1>1, <1>4, <2>2 DEF CtlSound
<1>5. CASE o = "RollbackFailed"
  <2>1. r = [c EXCEPT !.sel = i, !.bnd = NoInterval, !.own = "Uncertain",
                      !.ver = "Unverified", !.held = TRUE]
    BY <1>1, <1>5 DEF Start, Verified
  <2>2. /\ r \in Controller(Nat)
        /\ r.sel = i /\ r.bnd = NoInterval /\ r.own = "Uncertain"
    BY <2>1 DEF Controller, OwnershipState, Verification, Option, NoInterval, NoReading
  <2> QED
    BY <1>1, <1>5, <2>2 DEF CtlSound
<1>6. CASE o \in {"FinerThanRequested", "Verified"}
  <2>1. r = [c EXCEPT !.sel = i, !.bnd = NoInterval, !.own = "Owned", !.ver = o, !.held = TRUE]
    BY <1>1, <1>6 DEF Start, Verified
  <2>2. /\ r \in Controller(Nat)
        /\ r.sel = i /\ r.bnd = NoInterval /\ r.own = "Owned"
    BY <1>6, <2>1 DEF Controller, OwnershipState, Verification, Option, NoInterval, NoReading
  <2> QED
    BY <1>1, <1>6, <2>2 DEF CtlSound
<1> QED
  BY <1>2, <1>3, <1>4, <1>5, <1>6 DEF StartOutcome

(* A request resolves to an interval.                                      *)
LEMMA ResolvedIsNatural ==
    ASSUME NEW c \in Controller(Nat)
    PROVE  Resolved(c) \in Nat
BY TrayAppAssumption DEF Resolved, Controller, Automatic

(* acquire_timer: the tier is evaluated before the request, so that what   *)
(* is acquired is not clamped afterwards.                                  *)
LEMMA Acquired ==
    ASSUME NEW x, NEW s, NEW m, Fits(x, m), Good(x, s), s.desired = None,
           Permitted(s), ~PauseActive(s), ~HandoffPending(s),
           NEW r, r = acquire_timer(s, m)
    PROVE  Good(x, r)
<1>1. CASE s.ctl.own # "Released"
  BY <1>1, OwnershipShown DEF acquire_timer
<1>2. CASE s.ctl.own = "Released" /\ ~tier_allows_high_resolution(s.tier)
  <2>1. r = Show(s, ReleasedStatus(s), m) /\ ReleasedStatus(s) \in TrayStatus \ {"Starting"}
    BY <1>2 DEF acquire_timer, ReleasedStatus, TrayStatus
  <2> QED
    BY <2>1, GoodShown
<1>3. CASE s.ctl.own = "Released" /\ tier_allows_high_resolution(s.tier)
  <2>1. PICK p : p = Show(s, "Starting", m)
    OBVIOUS
  <2>2. PICK o : o = RequestOutcome(m)
    OBVIOUS
  <2>3. PICK c : c = Start(p.ctl, Resolved(p.ctl), o)
    OBVIOUS
  <2>4. PICK n : n = IF o = "RequestFailed" THEN Capped(p.rejected + 1, RejectionLimit)
                     ELSE p.rejected
    OBVIOUS
  <2>5. PICK q : q = [p EXCEPT !.ctl = c, !.rejected = n]
    OBVIOUS
  <2>6. PICK t : t = IF Verified(o) THEN "Running" ELSE "Error"
    OBVIOUS
  <2>7. r = NothingDesired(Show(q, t, m))
    BY <1>3, <2>1, <2>2, <2>3, <2>4, <2>5, <2>6 DEF acquire_timer
  <2>8. /\ Settled(p) /\ Same(s, p) /\ AtFloor(p)
        /\ "icon" \notin m => p.icon = s.icon
    <3>1. Unsettled(s) /\ "Starting" \in TrayStatus
      BY SettledIsUnsettled DEF Good, Base, TrayStatus
    <3>2. s.rejected < RejectionLimit \/ s.tier # "Nominal"
      BY DEF Good, Base, Settled, Floored, Degraded
    <3> QED
      BY <2>1, <3>1, <3>2, Shown
  <2>9. /\ p \in App /\ p.ctl \in Controller(Nat) /\ CtlSound(p.ctl) /\ p.ctl.own = "Released"
        /\ p.ctl.bnd = NoInterval /\ p.rejected \in 0..RejectionLimit
    <3>1. p \in App /\ CtlSound(p.ctl)
      BY <2>8 DEF Settled
    <3>2. p.ctl.own = "Released" /\ p.ctl.bnd = NoInterval
      BY <1>3, <2>8 DEF Same, Good, Base, Frame, Watched
    <3> QED
      BY <3>1, <3>2, Fields
  <2>10. o \in StartOutcome
    BY <2>2, Outcome
  <2>11. /\ c \in Controller(Nat) /\ CtlSound(c) /\ c.bnd = NoInterval
         /\ o = "RequestFailed" => c.own = "Released"
    BY <2>3, <2>9, <2>10, StartResult, ResolvedIsNatural
  <2>12. /\ n \in 0..RejectionLimit
         /\ n = 0 => p.rejected = 0
         /\ o # "RequestFailed" => n = p.rejected
    BY <2>4, <2>9, PolicyAssumption DEF Capped
  <2>13. q \in App
    BY <2>5, <2>9, <2>11, <2>12, Setters, NumberSetters
  <2>14. /\ q.ctl = c /\ q.rejected = n /\ q.tier = p.tier /\ q.anomalies = p.anomalies
         /\ q.icon = p.icon /\ q.wake = p.wake /\ q.attempts = p.attempts
         /\ q.exhausted = p.exhausted /\ q.gate = p.gate /\ q.phase = p.phase
    BY <2>5, <2>9 DEF App
  <2>15. /\ q.handoff = p.handoff /\ q.desired = p.desired /\ q.scheduled = p.scheduled
         /\ q.armed = p.armed /\ q.power = p.power /\ q.lockout = p.lockout
    BY <2>5, <2>9 DEF App
  <2>16. Unsettled(q)
    <3>1. NearlyFloored(q)
      BY <2>8, <2>11, <2>12, <2>14 DEF NearlyFloored, AtFloor
    <3>2. TierNearlyFits(q)
      BY <2>8, <2>12, <2>14 DEF Settled, TierFits, TierNearlyFits
    <3>3. HasAttempts(q)
      BY <2>8, <2>14 DEF Settled, HasAttempts
    <3> QED
      BY <2>11, <2>13, <2>14, <3>1, <3>2, <3>3 DEF Unsettled
  <2>17. /\ ~HandoffPending(q) /\ Permitted(q) /\ ~PauseActive(q) /\ q.desired = None
         /\ q.armed = s.armed /\ q.scheduled = s.scheduled /\ q.gate = s.gate
         /\ q.phase \in {s.phase, "overflow"}
    BY <2>8, <2>14, <2>15 DEF Same, HandoffPending, Permitted, PauseActive
  <2>18. Frame(x, q)
    BY <2>8, <2>11, <2>14, <2>17
       DEF Good, Base, Frame, Watched, TimerIsCurrent, Lawful, Fits
  <2>19. IntentWaits(q) /\ PauseHolds(q) /\ PauseIsTimed(q)
    BY <2>17 DEF IntentWaits, PauseHolds, PauseIsTimed
  <2>20. t \in TrayStatus \ {"Starting"}
    BY <2>6 DEF TrayStatus
  <2>21. PICK w : w = Show(q, t, m)
    OBVIOUS
  <2>22. Good(x, w) /\ w.desired = None
    BY <2>16, <2>17, <2>18, <2>19, <2>20, <2>21, ShowKeeps DEF Same
  <2> QED
    BY <2>7, <2>21, <2>22 DEF NothingDesired
<1> QED
  BY <1>1, <1>2, <1>3

(* An intent that is taken waits no longer.                                *)
LEMMA IntentTaken ==
    ASSUME NEW x, NEW s, Base(x, s), NEW r, r = Taken(s)
    PROVE  /\ Base(x, r) /\ IntentWaits(r) /\ r.desired = None /\ r.ctl = s.ctl
           /\ HandoffPending(r) <=> HandoffPending(s)
           /\ PauseActive(r) <=> PauseActive(s)
           /\ Permitted(r) <=> Permitted(s)
           /\ PauseHolds(s) => PauseHolds(r)
           /\ PauseIsTimed(s) => PauseIsTimed(r)
<1>1. r = [s EXCEPT !.desired = None]
  BY DEF Taken
<1> QED
  BY <1>1, DesiredSet DEF IntentWaits, PauseActive, Permitted

(* The intent to acquire.                                                  *)
LEMMA AcquireIntended ==
    ASSUME NEW x, NEW s, NEW m, Fits(x, m), Base(x, s), PauseHolds(s), ~HandoffPending(s),
           "timed" \in x => PauseIsTimed(s), NEW r, r = AcquireIntent(s, m)
    PROVE  Good(x, r)
<1>1. PICK d : d = Taken(s)
  OBVIOUS
<1>2. /\ Base(x, d) /\ IntentWaits(d) /\ d.desired = None /\ d.ctl = s.ctl
      /\ HandoffPending(d) <=> HandoffPending(s)
      /\ PauseActive(d) <=> PauseActive(s)
      /\ Permitted(d) <=> Permitted(s)
      /\ PauseHolds(s) => PauseHolds(d)
      /\ PauseIsTimed(s) => PauseIsTimed(d)
  BY <1>1, IntentTaken
<1>3. Good(x, d)
  BY <1>2 DEF Good
<1>4. CASE PauseActive(s) /\ s.ctl.own = "Released"
  <2>1. PICK p : p = Show(d, "Paused", m)
    OBVIOUS
  <2>2. r = arm_duration_timer(p, m) /\ "Paused" \in TrayStatus \ {"Starting"}
    BY <1>1, <1>4, <2>1 DEF AcquireIntent, TrayStatus
  <2>3. Good(x, p)
    BY <1>3, <2>1, <2>2, GoodShown
  <2> QED
    BY <2>2, <2>3, Armed DEF Good
<1>5. CASE PauseActive(s) /\ s.ctl.own # "Released"
  BY <1>1, <1>3, <1>5 DEF AcquireIntent
<1>6. CASE ~PauseActive(s) /\ Permitted(s)
  <2>1. r = acquire_timer(d, m)
    BY <1>1, <1>6 DEF AcquireIntent
  <2> QED
    BY <1>2, <1>3, <1>6, <2>1, Acquired
<1>7. CASE ~PauseActive(s) /\ ~Permitted(s)
  <2>1. r = release_for_policy(d, m)
    BY <1>1, <1>7 DEF AcquireIntent
  <2> QED
    BY <1>3, <2>1, PolicyReleased
<1> QED
  BY <1>4, <1>5, <1>6, <1>7

(* The intent to release; a pause may have begun while owned.              *)
LEMMA ReleaseIntended ==
    ASSUME NEW x, NEW s, NEW m, Fits(x, m), Base(x, s), ~HandoffPending(s),
           "timed" \in x => PauseIsTimed(s), NEW r, r = ReleaseIntent(s, m)
    PROVE  Good(x, r)
<1>1. PICK d : d = Taken(s)
  OBVIOUS
<1>2. /\ Base(x, d) /\ IntentWaits(d) /\ d.ctl = s.ctl
      /\ PauseIsTimed(s) => PauseIsTimed(d)
  BY <1>1, IntentTaken
<1>3. s.status # "Starting"
  BY DEF Base
<1>4. CASE s.ctl.own # "Released"
  <2>1. r = guarded_release(d, ReleasedStatus(s), m)
    BY <1>1, <1>3, <1>4 DEF ReleaseIntent
  <2>2. ReleasedStatus(s) \in TrayStatus \ {"Starting"}
    BY DEF ReleasedStatus, TrayStatus
  <2> QED
    BY <1>2, <2>1, <2>2, GuardedRelease
<1>5. CASE s.ctl.own = "Released"
  <2>1. PICK t : t = IF PauseActive(s) /\ s.status # "Unverified" THEN "Paused" ELSE "Stopped"
    OBVIOUS
  <2>2. PICK p : p = Show(d, t, m)
    OBVIOUS
  <2>3. r = ArmIfPaused(p, m)
    BY <1>1, <1>3, <1>5, <2>1, <2>2 DEF ReleaseIntent
  <2>4. t \in TrayStatus \ {"Starting"} /\ Unsettled(d) /\ Frame(x, d)
    BY <1>2, <2>1, SettledIsUnsettled DEF TrayStatus, Base
  <2>5. Base(x, p) /\ Same(d, p)
    BY <2>2, <2>4, ShowKeeps
  <2>6. PauseHolds(d)
    BY <1>2, <1>5 DEF PauseHolds
  <2> QED
    BY <1>2, <2>3, <2>5, <2>6, SameKeeps, ArmedIfPaused
<1> QED
  BY <1>4, <1>5

(* process_desired_intent                                                  *)
LEMMA IntentProcessed ==
    ASSUME NEW x, NEW s, NEW m, Fits(x, m), Base(x, s), PauseHolds(s) \/ s.desired = "Release",
           "timed" \in x => PauseIsTimed(s), NEW r, r = process_desired_intent(s, m)
    PROVE  Good(x, r)
<1>1. CASE HandoffPending(s)
  <2>1. r = ShowPending(s, m)
    BY <1>1 DEF process_desired_intent
  <2>2. Good(x, s)
    BY <1>1 DEF Good, Base, Frame, Watched, IntentWaits, PauseHolds
  <2> QED
    BY <2>1, <2>2, PendingShown
<1>2. CASE ~HandoffPending(s)
  <2>1. s.desired \in {None, "Acquire", "Release"}
    BY Fields DEF Base, Settled
  <2>2. CASE s.desired = None
    <3>1. r = s /\ PauseHolds(s)
      BY <1>2, <2>2 DEF process_desired_intent, None
    <3> QED
      BY <2>2, <3>1 DEF Good, IntentWaits
  <2>3. CASE s.desired = "Acquire"
    <3>1. r = AcquireIntent(s, m) /\ PauseHolds(s)
      BY <1>2, <2>3 DEF process_desired_intent, None
    <3> QED
      BY <1>2, <3>1, AcquireIntended
  <2>4. CASE s.desired = "Release"
    <3>1. r = ReleaseIntent(s, m)
      BY <1>2, <2>4 DEF process_desired_intent, None
    <3> QED
      BY <1>2, <3>1, ReleaseIntended
  <2> QED
    BY <2>1, <2>2, <2>3, <2>4
<1> QED
  BY <1>1, <1>2

(* queue_intent                                                            *)
LEMMA Queued ==
    ASSUME NEW x, NEW s, NEW m, Fits(x, m), Base(x, s), NEW v \in {"Acquire", "Release"},
           PauseHolds(s) \/ v = "Release",
           "timed" \in x => PauseIsTimed(s), NEW r, r = queue_intent(s, v, m)
    PROVE  Good(x, r)
<1>1. CASE HandoffPending(s)
  BY <1>1, Deferred DEF queue_intent
<1>2. CASE ~HandoffPending(s)
  <2>1. PICK d : d = [s EXCEPT !.desired = v]
    OBVIOUS
  <2>2. r = process_desired_intent(d, m)
    BY <1>2, <2>1 DEF queue_intent
  <2>3. /\ Base(x, d) /\ d.desired = v
        /\ PauseHolds(s) => PauseHolds(d)
        /\ PauseIsTimed(s) => PauseIsTimed(d)
    BY <2>1, DesiredSet
  <2> QED
    BY <2>2, <2>3, IntentProcessed
<1> QED
  BY <1>1, <1>2

-----------------------------------------------------------------------------
(* Policy and power                                                        *)

(* apply_policy                                                            *)
LEMMA PolicyApplied ==
    ASSUME NEW x, NEW s, NEW m, Fits(x, m), Good(x, s), NEW r, r = apply_policy(s, m)
    PROVE  Good(x, r)
<1>1. CASE s.scheduled \in {"Start", "Stop"} /\ Permitted(s)
  BY <1>1, OwnershipShown DEF apply_policy
<1>2. CASE s.scheduled \in {"Start", "Stop"} /\ ~Permitted(s)
  BY <1>2, PolicyReleased DEF apply_policy
<1>3. CASE s.scheduled \notin {"Start", "Stop"}
  <2>1. PICK v : v = IF /\ ~PauseActive(s)
                        /\ acquisition_is_allowed(s.automatic, s.power, s.lockout)
                     THEN "Acquire" ELSE "Release"
    OBVIOUS
  <2>2. r = queue_intent(s, v, m) /\ v \in {"Acquire", "Release"}
    BY <1>3, <2>1 DEF apply_policy
  <2> QED
    BY <2>2, Queued DEF Good
<1> QED
  BY <1>1, <1>2, <1>3

(* An observation only selects an interval where none was.                 *)
LEMMA Observed ==
    ASSUME NEW x, NEW s, NEW m, Good(x, s), NEW r, r = refresh_timing_observation(s, m)
    PROVE  Good(x, r) /\ Same(s, r)
<1>1. PICK i : i = IF "observe" \in m THEN NoInterval ELSE Resolved(s.ctl)
  OBVIOUS
<1>2. PICK c : c = Query(s.ctl, i)
  OBVIOUS
<1>3. r = [s EXCEPT !.ctl = c]
  BY <1>1, <1>2 DEF refresh_timing_observation
<1>4. s \in App /\ s.ctl \in Controller(Nat) /\ CtlSound(s.ctl)
  BY Fields DEF Good, Base, Settled
<1>5. i \in Option(Nat)
  BY <1>1, <1>4, ResolvedIsNatural DEF Option, NoInterval, NoReading
<1>6. PICK j : j = IF s.ctl.bnd = NoInterval THEN QueryInterval(s.ctl, i) ELSE s.ctl.sel
  OBVIOUS
<1>7. c = [s.ctl EXCEPT !.sel = j]
  BY <1>2, <1>6 DEF Query
<1>8. j \in Option(Nat) /\ (s.ctl.sel # NoInterval => j = s.ctl.sel)
  BY <1>4, <1>5, <1>6 DEF QueryInterval, Controller
<1>9. /\ c \in Controller(Nat) /\ c.own = s.ctl.own /\ c.ver = s.ctl.ver
      /\ c.bnd = s.ctl.bnd /\ c.held = s.ctl.held /\ c.sel = j
  BY <1>4, <1>7, <1>8 DEF Controller
<1>10. CtlSound(c)
  BY <1>4, <1>8, <1>9 DEF CtlSound
<1>11. r \in App /\ r.ctl = c /\ Others(s, r)
  BY <1>3, <1>4, <1>9, SetCtl
<1>12. Same(s, r)
  BY <1>9, <1>11 DEF Same, Others, Stable
<1>13. Settled(r)
  <2>1. Covered(r)
    BY <1>4, <1>8, <1>9, <1>11
       DEF Good, Base, Settled, CtlSound, Covered, TrackedInterval, Others, Stable
  <2>2. Floored(r) /\ TierFits(r) /\ HasAttempts(r)
    BY <1>9, <1>11
       DEF Good, Base, Settled, Floored, TierFits, HasAttempts, Others, Stable
  <2> QED
    BY <1>10, <1>11, <2>1, <2>2 DEF Settled
<1>14. Base(x, r)
  <2>1. r.gate = s.gate /\ r.icon = s.icon /\ r.status = s.status
    BY <1>11 DEF Others, Stable
  <2> QED
    BY <1>12, <1>13, <2>1, SameKeeps DEF Good, Base, Frame
<1> QED
  BY <1>11, <1>12, <1>14, SameKeeps DEF Good

(* reconcile                                                               *)
LEMMA Reconciled ==
    ASSUME NEW x, NEW s, NEW m, Fits(x, m), Good(x, s), NEW r, r = reconcile(s, m)
    PROVE  Good(x, r)
<1>1. PICK p : p = refresh_timing_observation(s, m)
  OBVIOUS
<1>2. Good(x, p)
  BY <1>1, Observed
<1>3. r = apply_policy(p, m)
  BY <1>1 DEF reconcile
<1> QED
  BY <1>2, <1>3, PolicyApplied

(* What power_reconciliation decides.                                      *)
LEMMA ReconciliationApplied ==
    ASSUME NEW x, NEW s, NEW m, Fits(x, m), Good(x, s),
           NEW r, r = ApplyReconciliation(s, Reconciliation(s), m)
    PROVE  Good(x, r)
<1>1. s.ctl.own \in {"Released", "Owned", "Uncertain"}
  BY Fields DEF Good, Base, Settled, Controller, OwnershipState
<1>2. PICK a : a = Reconciliation(s)
  OBVIOUS
<1>3. a \in {"ReleaseBlocked", "PreserveOwned", "PreserveUncertain", "Acquire", "ShowStopped"}
  BY <1>1, <1>2 DEF Reconciliation, power_reconciliation
<1>4. CASE a = "Acquire"
  <2>1. r = apply_policy(s, m)
    BY <1>2, <1>4 DEF ApplyReconciliation
  <2> QED
    BY <2>1, PolicyApplied
<1>5. CASE a = "ReleaseBlocked"
  <2>1. r = release_for_policy(s, m)
    BY <1>2, <1>5 DEF ApplyReconciliation
  <2> QED
    BY <2>1, PolicyReleased
<1>6. CASE a \in {"ShowStopped", "PreserveOwned"}
  <2>1. r = show_ownership_status(s, m)
    BY <1>2, <1>6 DEF ApplyReconciliation
  <2> QED
    BY <2>1, OwnershipShown
<1>7. CASE a = "PreserveUncertain"
  <2>1. CASE uncertain_recovery_attempts_acquire(s.automatic, s.power)
    <3>1. PICK p : p = guarded_release(s, "Stopped", m)
      OBVIOUS
    <3>2. "Stopped" \in TrayStatus \ {"Starting"}
      BY DEF TrayStatus
    <3>3. Good(x, p)
      BY <3>1, <3>2, GuardedRelease DEF Good
    <3>4. r = AfterSettle(p, m)
      BY <1>2, <1>7, <2>1, <3>1 DEF ApplyReconciliation
    <3> QED
      BY <3>3, <3>4, PolicyApplied, OwnershipShown DEF AfterSettle
  <2>2. CASE ~uncertain_recovery_attempts_acquire(s.automatic, s.power)
    <3>1. r = show_ownership_status(s, m)
      BY <1>2, <1>7, <2>2 DEF ApplyReconciliation
    <3> QED
      BY <3>1, OwnershipShown
  <2> QED
    BY <2>1, <2>2
<1> QED
  BY <1>3, <1>4, <1>5, <1>6, <1>7

(* apply_power_reconciliation                                              *)
LEMMA PowerReconciled ==
    ASSUME NEW x, NEW s, NEW m, Fits(x, m), Good(x, s),
           NEW r, r = apply_power_reconciliation(s, m)
    PROVE  Good(x, r)
<1>1. CASE PauseActive(s)
  <2>1. r = queue_intent(s, "Release", m)
    BY <1>1 DEF apply_power_reconciliation
  <2> QED
    BY <2>1, Queued DEF Good
<1>2. CASE /\ ~PauseActive(s)
           /\ resume_on_ac_applies(s.auto_resume, s.resume, s.power, s.ctl.own)
  <2>1. PICK p : p = [s EXCEPT !.resume = FALSE]
    OBVIOUS
  <2>2. r = queue_intent(p, "Acquire", m)
    BY <1>2, <2>1 DEF apply_power_reconciliation
  <2>3. p \in App /\ p.ctl = s.ctl /\ Others(s, p)
    BY <2>1, NeutralSetters DEF Good, Base, Settled
  <2>4. Good(x, p)
    BY <2>3, NeutralKeeps
  <2> QED
    BY <2>2, <2>4, Queued DEF Good
<1>3. CASE /\ ~PauseActive(s)
           /\ ~resume_on_ac_applies(s.auto_resume, s.resume, s.power, s.ctl.own)
  <2>1. r = ApplyReconciliation(s, Reconciliation(s), m)
    BY <1>3 DEF apply_power_reconciliation
  <2> QED
    BY <2>1, ReconciliationApplied
<1> QED
  BY <1>1, <1>2, <1>3

(* release_for_power_change                                                *)
LEMMA PowerChangeReleased ==
    ASSUME NEW x, NEW s, NEW m, Fits(x, m), Good(x, s),
           NEW r, r = release_for_power_change(s, m)
    PROVE  Good(x, r)
<1>1. PICK p : p = refresh_timing_observation(s, m)
  OBVIOUS
<1>2. Good(x, p)
  BY <1>1, Observed
<1>3. r = apply_power_reconciliation(p, m)
  BY <1>1 DEF release_for_power_change
<1> QED
  BY <1>2, <1>3, PowerReconciled

\* Before anything is acquired in a message.
Fresh(x, s) == "released" \in x => s.ctl.own = "Released"

(* Power may be read anew before anything is acquired.                     *)
LEMMA PowerRefreshed ==
    ASSUME NEW x, NEW s, NEW m, Good(x, s), Fresh(x, s), NEW o \in PowerState,
           NEW r, r = refresh_power(s, o, m)
    PROVE  Good(x, r) /\ r.ctl = s.ctl
<1>1. PICK v : v = IF "power" \in m THEN "Unknown" ELSE o
  OBVIOUS
<1>2. r = [s EXCEPT !.power = v] /\ v \in PowerState
  BY <1>1 DEF refresh_power, PowerState
<1>3. s \in App
  BY DEF Good, Base, Settled
<1>4. r \in App
  BY <1>2, <1>3, Setters
<1>5. /\ r.ctl = s.ctl /\ r.handoff = s.handoff /\ r.desired = s.desired
      /\ r.scheduled = s.scheduled /\ r.armed = s.armed
  BY <1>2, <1>3 DEF App
<1>6. Stable(s, r)
  BY <1>2, <1>3 DEF App, Stable
<1>7. Settled(r)
  BY <1>4, <1>5, <1>6, StableIsSettled DEF Good, Base
<1>8. HandoffPending(r) <=> HandoffPending(s)
  BY <1>5 DEF HandoffPending
<1>9. Base(x, r)
  BY <1>5, <1>6, <1>7, <1>8
     DEF Fresh, Good, Base, Frame, Watched, TimerIsCurrent, Lawful, Stable
<1>10. IntentWaits(r) /\ PauseHolds(r) /\ ("timed" \in x => PauseIsTimed(r))
  BY <1>5, <1>6, <1>8 DEF Good, IntentWaits, PauseHolds, PauseIsTimed, PauseActive, Stable
<1> QED
  BY <1>5, <1>9, <1>10 DEF Good

-----------------------------------------------------------------------------
(* Messages                                                                *)

(* They may be set at any time.                                            *)
LEMMA FlagSet ==
    ASSUME NEW x, NEW s, Good(x, s), NEW v \in BOOLEAN, NEW r,
           \/ r = [s EXCEPT !.resume = v] \/ r = [s EXCEPT !.due = v]
           \/ r = [s EXCEPT !.automatic = v] \/ r = [s EXCEPT !.auto_resume = v]
           \/ r = [s EXCEPT !.ipc = v]
    PROVE  Good(x, r) /\ r.ctl = s.ctl /\ Others(s, r)
BY NeutralSetters, NeutralKeeps DEF Good, Base, Settled

(* So may the target of the debounce.                                      *)
LEMMA DebounceSet ==
    ASSUME NEW x, NEW s, Good(x, s), NEW v \in PowerState \cup {None},
           NEW r, r = [s EXCEPT !.debounce = v]
    PROVE  Good(x, r) /\ r.ctl = s.ctl /\ Others(s, r)
<1>1. s \in App
  BY DEF Good, Base, Settled
<1>2. r \in App
  BY <1>1, Setters
<1>3. r.ctl = s.ctl /\ Others(s, r)
  BY <1>1 DEF App, Others, Stable
<1> QED
  BY <1>2, <1>3, NeutralKeeps

(* manual_start                                                            *)
LEMMA ManualStart ==
    ASSUME NEW x, NEW s, NEW m, Fits(x, m), Good(x, s), NEW r, r = manual_start(s, m)
    PROVE  Good(x, r)
BY Queued DEF manual_start, Good

(* manual_stop                                                             *)
LEMMA ManualStop ==
    ASSUME NEW x, NEW s, NEW m, Fits(x, m), Good(x, s), NEW r, r = manual_stop(s, m)
    PROVE  Good(x, r)
<1>1. PICK p : p = [s EXCEPT !.resume = FALSE]
  OBVIOUS
<1>2. Good(x, p)
  BY <1>1, FlagSet
<1>3. r = queue_intent(p, "Release", m)
  BY <1>1 DEF manual_stop
<1> QED
  BY <1>2, <1>3, Queued DEF Good

(* A new schedule with its timer.                                          *)
LEMMA RescheduledKeeps ==
    ASSUME NEW x, NEW s, Good(x, s), Fresh(x, s), NEW r, ButSchedule(s, r),
           r.armed = "Current", r.scheduled # None
    PROVE  /\ Base(x, r) /\ IntentWaits(r) /\ PauseIsTimed(r)
           /\ ~PauseActive(r) => Good(x, r)
<1>1. HandoffPending(r) <=> HandoffPending(s)
  BY DEF ButSchedule, HandoffPending
<1>2. Settled(r)
  BY StableIsSettled DEF Good, Base, ButSchedule
<1>3. Watched(r)
  BY <1>1 DEF Good, Base, Frame, Watched, ButSchedule
<1>4. Lawful(x, r)
  BY DEF Fresh, Lawful, ButSchedule
<1>5. Base(x, r)
  BY <1>2, <1>3, <1>4 DEF Good, Base, Frame, TimerIsCurrent, ButSchedule, Stable
<1>6. IntentWaits(r)
  BY <1>1 DEF Good, IntentWaits, ButSchedule, Stable
<1>7. PauseIsTimed(r) /\ (~PauseActive(r) => PauseHolds(r))
  BY DEF PauseIsTimed, PauseHolds
<1> QED
  BY <1>5, <1>6, <1>7 DEF Good

(* schedule_duration_action                                                *)
LEMMA ActionScheduled ==
    ASSUME NEW x, NEW s, NEW m, Fits(x, m), Good(x, s), Fresh(x, s),
           NEW v \in DurationAction, NEW r, r = schedule_duration_action(s, v, m)
    PROVE  Good(x, r)
<1>1. PICK d : d = cancel_duration_timer(s)
  OBVIOUS
<1>2. PICK p : p = PauseSchedule(d, v)
  OBVIOUS
<1>3. PICK a : a = arm_duration_timer(p, m)
  OBVIOUS
<1>4. s \in App /\ v # None
  BY DEF Good, Base, Settled, DurationAction, None
<1>5. ButSchedule(s, d) /\ d.armed = None
  BY <1>1, <1>4, Disarmed
<1>6. ButSchedule(d, p) /\ p.scheduled = v /\ p.armed = None
  BY <1>2, <1>5, Scheduled DEF ButSchedule
<1>7. ButSchedule(s, p) /\ p \in App
  BY <1>5, <1>6, ButScheduleTransitive DEF ButSchedule
<1>8. CASE ~CanArm(p, m)
  <2>1. PICK q : q = PauseCancel(a)
    OBVIOUS
  <2>2. r = Show(q, "Error", m) /\ "Error" \in TrayStatus \ {"Starting"}
    BY <1>1, <1>2, <1>3, <1>8, <2>1 DEF schedule_duration_action, TrayStatus
  <2>3. CASE ~p.icon
    <3>1. a = p
      BY <1>3, <1>8, <2>3 DEF arm_duration_timer
    <3>2. ButSchedule(p, q) /\ q.scheduled = None /\ q.armed = None
      BY <1>6, <1>7, <2>1, <3>1, Cancelled
    <3>3. ButSchedule(s, q)
      BY <1>7, <3>2, ButScheduleTransitive
    <3>4. Good(x, q)
      BY <3>2, <3>3, UnscheduledKeeps DEF Good
    <3> QED
      BY <2>2, <3>4, GoodShown
  <2>4. CASE p.icon
    <3>1. PICK e : e = PauseCancel(p)
      OBVIOUS
    <3>2. PICK f : f = cancel_duration_timer(e)
      OBVIOUS
    <3>3. a = Show(f, "Error", m)
      BY <1>3, <1>4, <1>6, <1>8, <2>4, <3>1, <3>2
         DEF arm_duration_timer, cancel_duration_timer
    <3>4. ButSchedule(p, e) /\ e.scheduled = None
      BY <1>7, <3>1, Cancelled
    <3>5. ButSchedule(e, f) /\ f.scheduled = None /\ f.armed = None
      BY <3>2, <3>4, Disarmed DEF ButSchedule
    <3>6. ButSchedule(s, f)
      BY <1>7, <3>4, <3>5, ButScheduleTransitive
    <3>7. Good(x, f)
      BY <3>5, <3>6, UnscheduledKeeps DEF Good
    <3>8. Good(x, a) /\ a.scheduled = None
      BY <2>2, <3>3, <3>5, <3>7, GoodShown DEF Same
    <3>9. q = a
      BY <2>1, <3>8 DEF PauseCancel
    <3> QED
      BY <2>2, <3>8, <3>9, GoodShown
  <2>5. p.icon \in BOOLEAN
    BY <1>7, Flags
  <2> QED
    BY <2>3, <2>4
<1>9. CASE CanArm(p, m)
  <2>1. a = [p EXCEPT !.armed = "Current"]
    BY <1>3, <1>9 DEF arm_duration_timer
  <2>2. a \in App
    BY <1>7, <2>1, Setters
  <2>3. a.armed = "Current" /\ a.scheduled = v /\ ButSchedule(p, a)
    BY <1>6, <1>7, <2>1, <2>2 DEF App, ButSchedule, Stable
  <2>4. ButSchedule(s, a)
    BY <1>7, <2>3, ButScheduleTransitive
  <2>5. /\ Base(x, a) /\ IntentWaits(a) /\ PauseIsTimed(a)
        /\ ~PauseActive(a) => Good(x, a)
    BY <1>4, <2>3, <2>4, RescheduledKeeps
  <2>6. CASE v = "Pause"
    <3>1. PICK q : q = Show(a, "Pausing", m)
      OBVIOUS
    <3>2. r = queue_intent(q, "Release", m) /\ "Pausing" \in TrayStatus \ {"Starting"}
      BY <1>1, <1>2, <1>3, <1>9, <2>6, <3>1 DEF schedule_duration_action, TrayStatus
    <3>3. Base(x, q) /\ Same(a, q)
      BY <2>5, <3>1, <3>2, ShowKeeps, SettledIsUnsettled DEF Base
    <3>4. PauseIsTimed(q)
      BY <2>5, <3>3, SameKeeps
    <3> QED
      BY <3>2, <3>3, <3>4, Queued
  <2>7. CASE v # "Pause"
    <3>1. Good(x, a)
      BY <2>3, <2>5, <2>7 DEF PauseActive
    <3>2. PICK q : q = IF PauseActive(s) /\ v # "Pause" THEN show_ownership_status(a, m) ELSE a
      OBVIOUS
    <3>3. r = Publish(q, m)
      BY <1>1, <1>2, <1>3, <1>9, <2>7, <3>2 DEF schedule_duration_action
    <3>4. Good(x, q)
      BY <3>1, <3>2, OwnershipShown
    <3> QED
      BY <3>3, <3>4, GoodPublished
  <2> QED
    BY <2>6, <2>7
<1> QED
  BY <1>8, <1>9

(* A schedule and its timer taken down together.                           *)
LEMMA Unscheduled ==
    ASSUME NEW x, NEW s, Good(x, s), NEW r,
           \/ r = PauseCancel(cancel_duration_timer(s))
           \/ r = cancel_duration_timer(PauseCancel(s))
    PROVE  Good(x, r) /\ ButSchedule(s, r) /\ r.armed = None /\ r.scheduled = None
<1>1. s \in App
  BY DEF Good, Base, Settled
<1>2. ButSchedule(s, r) /\ r.armed = None /\ r.scheduled = None
  <2>1. CASE r = PauseCancel(cancel_duration_timer(s))
    <3>1. PICK d : d = cancel_duration_timer(s)
      OBVIOUS
    <3>2. ButSchedule(s, d) /\ d.armed = None
      BY <1>1, <3>1, Disarmed
    <3>3. ButSchedule(d, r) /\ r.scheduled = None /\ r.armed = None
      BY <2>1, <3>1, <3>2, Cancelled DEF ButSchedule
    <3> QED
      BY <3>2, <3>3, ButScheduleTransitive
  <2>2. CASE r = cancel_duration_timer(PauseCancel(s))
    <3>1. PICK d : d = PauseCancel(s)
      OBVIOUS
    <3>2. ButSchedule(s, d) /\ d.scheduled = None
      BY <1>1, <3>1, Cancelled
    <3>3. ButSchedule(d, r) /\ r.scheduled = None /\ r.armed = None
      BY <2>2, <3>1, <3>2, Disarmed DEF ButSchedule
    <3> QED
      BY <3>2, <3>3, ButScheduleTransitive
  <2> QED
    BY <2>1, <2>2
<1> QED
  BY <1>2, UnscheduledKeeps DEF Good

(* cancel_scheduled_action                                                 *)
LEMMA ScheduleCancelled ==
    ASSUME NEW x, NEW s, NEW m, Fits(x, m), Good(x, s), Fresh(x, s), NEW o \in PowerState,
           NEW r, r = cancel_scheduled_action(s, o, m)
    PROVE  Good(x, r)
<1>1. CASE s.scheduled = None
  BY <1>1 DEF cancel_scheduled_action
<1>2. CASE s.scheduled # None
  <2>1. PICK d : d = PauseCancel(cancel_duration_timer(s))
    OBVIOUS
  <2>2. PICK p : p = refresh_power(d, o, m)
    OBVIOUS
  <2>3. r = apply_power_reconciliation(p, m)
    BY <1>2, <2>1, <2>2 DEF cancel_scheduled_action
  <2>4. Good(x, d) /\ Fresh(x, d)
    BY <2>1, Unscheduled DEF Fresh, ButSchedule
  <2>5. Good(x, p)
    BY <2>2, <2>4, PowerRefreshed
  <2> QED
    BY <2>3, <2>5, PowerReconciled
<1> QED
  BY <1>1, <1>2

(* execute_scheduled_action                                                *)
LEMMA ActionExecuted ==
    ASSUME NEW x, NEW s, NEW m, Fits(x, m), Good(x, s), Fresh(x, s), NEW o \in PowerState,
           NEW v \in DurationAction, NEW r, r = execute_scheduled_action(s, v, o, m)
    PROVE  Good(x, r)
<1>1. PICK p : p = refresh_power(s, o, m)
  OBVIOUS
<1>2. Good(x, p)
  BY <1>1, PowerRefreshed
<1>3. CASE v = "Start"
  <2>1. CASE ~Permitted(p)
    <3>1. r = release_for_policy(p, m)
      BY <1>1, <1>3, <2>1 DEF execute_scheduled_action
    <3> QED
      BY <1>2, <3>1, PolicyReleased
  <2>2. CASE Permitted(p) /\ p.ctl.own = "Released"
    <3>1. r = queue_intent(p, "Acquire", m)
      BY <1>1, <1>3, <2>2 DEF execute_scheduled_action
    <3> QED
      BY <1>2, <3>1, Queued DEF Good
  <2>3. CASE Permitted(p) /\ p.ctl.own # "Released"
    <3>1. r = show_ownership_status(p, m)
      BY <1>1, <1>3, <2>3 DEF execute_scheduled_action
    <3> QED
      BY <1>2, <3>1, OwnershipShown
  <2> QED
    BY <2>1, <2>2, <2>3
<1>4. CASE v = "Stop"
  <2>1. CASE s.ctl.own = "Released"
    <3>1. r = show_ownership_status(s, m)
      BY <1>4, <2>1 DEF execute_scheduled_action
    <3> QED
      BY <3>1, OwnershipShown
  <2>2. CASE s.ctl.own # "Released"
    <3>1. r = guarded_release(s, "Stopped", m) /\ "Stopped" \in TrayStatus \ {"Starting"}
      BY <1>4, <2>2 DEF execute_scheduled_action, TrayStatus
    <3> QED
      BY <3>1, GuardedRelease DEF Good
  <2> QED
    BY <2>1, <2>2
<1>5. CASE v = "Pause"
  <2>1. r = reconcile(p, m)
    BY <1>1, <1>5 DEF execute_scheduled_action
  <2> QED
    BY <1>2, <2>1, Reconciled
<1> QED
  BY <1>3, <1>4, <1>5 DEF DurationAction

(* handle_duration_timer: stale, early or expired.                         *)
LEMMA DurationTimerHandled ==
    ASSUME NEW x, NEW s, NEW m, Fits(x, m), Good(x, s), Fresh(x, s), NEW o \in PowerState,
           NEW r, r = handle_duration_timer(s, o, m)
    PROVE  Good(x, r)
<1>1. CASE s.armed # "Current" \/ s.scheduled = None
  BY <1>1 DEF handle_duration_timer
<1>2. CASE ~(s.armed # "Current" \/ s.scheduled = None) /\ ~s.due
  <2>1. r = arm_duration_timer(s, m)
    BY <1>2 DEF handle_duration_timer
  <2> QED
    BY <2>1, Armed DEF Good
<1>3. CASE ~(s.armed # "Current" \/ s.scheduled = None) /\ s.due
  <2>1. PICK d : d = PauseCancel(cancel_duration_timer(s))
    OBVIOUS
  <2>2. r = execute_scheduled_action(d, s.scheduled, o, m)
    BY <1>3, <2>1 DEF handle_duration_timer
  <2>3. Good(x, d) /\ Fresh(x, d)
    BY <2>1, Unscheduled DEF Fresh, ButSchedule
  <2>4. s.scheduled \in DurationAction
    BY <1>3, Fields DEF Good, Base, Settled
  <2> QED
    BY <2>2, <2>3, <2>4, ActionExecuted
<1> QED
  BY <1>1, <1>2, <1>3

(* The circumstances may be narrowed, and are renewed with each message.   *)
LEMMA Narrowed ==
    ASSUME NEW x, NEW y, NEW s, Base(x, s),
           s.gate <=> "gate" \in y,
           "released" \in y => "released" \in x \/ s.ctl.own = "Released",
           "started" \in y => "started" \in x \/ s.phase # "starting",
           "calm" \in y => "calm" \in x,
           "timed" \in y => "timed" \in x
    PROVE  Base(y, s) /\ (Good(x, s) => Good(y, s))
<1>1. Lawful(y, s)
  BY DEF Base, Frame, Lawful
<1>2. Base(y, s)
  BY <1>1 DEF Base, Frame
<1> QED
  BY <1>2 DEF Good

\* A handoff taken down with its window.
Over(s) == [s EXCEPT !.handoff = NoHandoff, !.ctl = clear_release_boundary(@)]

(* The end of a handoff closes its window; an intent may be waiting.       *)
LEMMA HandoffEnded ==
    ASSUME NEW x, NEW s, NEW m, Fits(x, m), Good(x, s), HandoffPending(s),
           NEW t \in TrayStatus \ {"Starting"},
           NEW r, r = Show(Over(s), t, m)
    PROVE  /\ Base(x, r) /\ PauseHolds(r) /\ r.ctl.own = "Released" /\ ~HandoffPending(r)
           /\ r.scheduled = s.scheduled /\ r.phase \in {s.phase, "overflow"}
<1>1. s \in App /\ s.ctl \in Controller(Nat) /\ CtlSound(s.ctl) /\ Unsettled(s)
  BY Fields, SettledIsUnsettled DEF Good, Base, Settled
<1>2. NoHandoff \in [polls : -1..MaxPolls, paused : BOOLEAN, boundary : Option(Nat)]
  BY TrayAppAssumption DEF NoHandoff, Option, NoInterval, NoReading
<1>3. PICK e : e = [s EXCEPT !.handoff = NoHandoff]
  OBVIOUS
<1>4. e \in App
  BY <1>1, <1>2, <1>3, Setters
<1>5. /\ e.ctl = s.ctl /\ e.handoff = NoHandoff /\ e.desired = s.desired
      /\ e.scheduled = s.scheduled /\ e.armed = s.armed
      /\ e.power = s.power /\ e.lockout = s.lockout
  BY <1>1, <1>2, <1>3 DEF App
<1>6. Stable(s, e)
  BY <1>1, <1>2, <1>3 DEF App, Stable
<1>7. Settled(e)
  BY <1>4, <1>5, <1>6, StableIsSettled DEF Good, Base
<1>8. PICK c : c = clear_release_boundary(s.ctl)
  OBVIOUS
<1>9. /\ c \in Controller(Nat) /\ c.bnd = NoInterval
      /\ c.own = s.ctl.own /\ c.ver = s.ctl.ver /\ c.sel = s.ctl.sel /\ c.held = s.ctl.held
  BY <1>1, <1>8, BoundaryCleared
<1>10. CtlSound(c) /\ c.own = "Released"
  BY <1>1, <1>9 DEF CtlSound, Good, Base, Frame, Watched
<1>11. PICK p : p = [e EXCEPT !.ctl = c]
  OBVIOUS
<1>12. p = Over(s)
  BY <1>3, <1>8, <1>11 DEF Over
<1>13. Unsettled(p) /\ p.ctl = c /\ Others(e, p)
  BY <1>5, <1>7, <1>9, <1>10, <1>11, CtlChanged, SettledIsUnsettled
<1>14. ~HandoffPending(p) /\ p.scheduled = s.scheduled /\ p.phase = s.phase
  BY <1>5, <1>6, <1>13 DEF HandoffPending, Others, Stable
<1>15. Frame(x, p)
  BY <1>5, <1>6, <1>9, <1>10, <1>13, <1>14
     DEF Good, Base, Frame, Watched, TimerIsCurrent, Lawful, Others, Stable
<1>16. PauseHolds(p)
  BY <1>10, <1>13 DEF PauseHolds
<1>17. Base(x, r) /\ Same(p, r)
  BY <1>12, <1>13, <1>15, ShowKeeps
<1> QED
  BY <1>10, <1>13, <1>14, <1>16, <1>17, SameKeeps DEF Same

(* One more poll.                                                          *)
LEMMA PollCounted ==
    ASSUME NEW x, NEW s, Good(x, s), HandoffPending(s), ~HandoffTimedOut(s.handoff),
           NEW r, r = [s EXCEPT !.handoff.polls = @ + 1]
    PROVE  Good(x, r)
<1>1. PICK h : h = [s.handoff EXCEPT !.polls = @ + 1]
  OBVIOUS
<1>2. r = [s EXCEPT !.handoff = h]
  BY <1>1
<1>3. s \in App /\ s.handoff \in [polls : -1..MaxPolls, paused : BOOLEAN, boundary : Option(Nat)]
  BY Fields DEF Good, Base, Settled
<1>4. /\ h \in [polls : -1..MaxPolls, paused : BOOLEAN, boundary : Option(Nat)]
      /\ h.boundary = s.handoff.boundary /\ h.polls # -1
  BY <1>1, <1>3, TrayAppAssumption DEF HandoffTimedOut
<1>5. r \in App
  <2>1. \A v \in [polls : -1..MaxPolls, paused : BOOLEAN, boundary : Option(Nat)] :
           [s EXCEPT !.handoff = v] \in App
    BY <1>3, Setters
  <2>2. [s EXCEPT !.handoff = h] \in App
    BY <1>4, <2>1
  <2> QED
    BY <1>2, <2>2, Zenon
<1>6. /\ r.ctl = s.ctl /\ r.handoff = h /\ r.desired = s.desired
      /\ r.scheduled = s.scheduled /\ r.armed = s.armed
      /\ r.power = s.power /\ r.lockout = s.lockout
  BY <1>2, <1>3, <1>4 DEF App
<1>7. Stable(s, r)
  BY <1>2, <1>3, <1>4 DEF App, Stable
<1>8. Settled(r)
  BY <1>5, <1>6, <1>7, StableIsSettled DEF Good, Base
<1>9. HandoffPending(r)
  BY <1>4, <1>6 DEF HandoffPending, NoHandoff
<1>10. Base(x, r)
  BY <1>4, <1>6, <1>7, <1>8, <1>9
     DEF Good, Base, Frame, Watched, TimerIsCurrent, Lawful, Permitted, PauseActive, Stable
<1> QED
  BY <1>6, <1>9, <1>10 DEF Good, IntentWaits, PauseHolds, PauseActive, PauseIsTimed

(* handle_handoff_timer                                                    *)
LEMMA HandoffTimerHandled ==
    ASSUME NEW x, NEW s, NEW m, Fits(x, m), Good(x, s), HandoffPending(s),
           NEW r, r = handle_handoff_timer(s, m)
    PROVE  Good(x, r)
<1>1. PICK settled \in BOOLEAN : settled = (/\ CanObserve(s.ctl, s.handoff.boundary)
                                            /\ m \cap {"finer", "observe"} = {})
  OBVIOUS
<1>2. CASE settled \/ HandoffTimedOut(s.handoff)
  <2>1. PICK t : t = IF settled THEN IF s.handoff.paused THEN "Paused" ELSE "Stopped"
                     ELSE IF s.handoff.paused THEN "Unverified" ELSE "Stopped"
    OBVIOUS
  <2>2. t \in TrayStatus \ {"Starting"}
    BY <2>1 DEF TrayStatus
  <2>3. PICK e : e = Show(Over(s), t, m)
    OBVIOUS
  <2>4. PICK p : p = process_desired_intent(e, m)
    OBVIOUS
  <2>5. r = ArmIfPaused(p, m)
    BY <1>1, <1>2, <2>1, <2>3, <2>4 DEF handle_handoff_timer, Over
  <2>6. Base(x, e) /\ PauseHolds(e)
    BY <2>2, <2>3, HandoffEnded
  <2>7. PICK y : y = x \ {"timed"}
    OBVIOUS
  <2>8. Fits(y, m) /\ "timed" \notin y
    BY <2>7 DEF Fits
  <2>9. Base(y, e)
    BY <2>6, <2>7, Narrowed DEF Base, Frame
  <2>10. Good(y, p)
    BY <2>4, <2>6, <2>8, <2>9, IntentProcessed
  <2>11. Base(x, p)
    BY <2>7, <2>10 DEF Good, Base, Frame, Lawful
  <2> QED
    BY <2>5, <2>10, <2>11, ArmedIfPaused DEF Good
<1>3. CASE ~(settled \/ HandoffTimedOut(s.handoff))
  <2>1. PICK t : t = IF s.handoff.paused THEN "Pausing" ELSE "Stopping"
    OBVIOUS
  <2>2. t \in TrayStatus \ {"Starting"}
    BY <2>1 DEF TrayStatus
  <2>3. PICK p : p = [s EXCEPT !.handoff.polls = @ + 1]
    OBVIOUS
  <2>4. r = Show(p, t, m)
    BY <1>1, <1>3, <2>1, <2>3 DEF handle_handoff_timer
  <2>5. Good(x, p)
    BY <1>3, <2>3, PollCounted
  <2> QED
    BY <2>2, <2>4, <2>5, GoodShown
<1> QED
  BY <1>2, <1>3

(* handle_power_broadcast_event                                            *)
LEMMA PowerBroadcastHandled ==
    ASSUME NEW x, NEW s, NEW m, Fits(x, m), Good(x, s),
           NEW r, r = handle_power_broadcast_event(s, m)
    PROVE  Good(x, r)
<1>1. s.power \in PowerState
  BY Fields DEF Good, Base, Settled
<1>2. CASE s.power = "BatterySaver"
  <2>1. PICK p : p = [s EXCEPT !.debounce = None]
    OBVIOUS
  <2>2. r = release_for_power_change(p, m)
    BY <1>2, <2>1 DEF handle_power_broadcast_event
  <2>3. Good(x, p)
    BY <2>1, DebounceSet
  <2> QED
    BY <2>2, <2>3, PowerChangeReleased
<1>3. CASE s.power # "BatterySaver"
  <2>1. PICK v \in PowerState \cup {None} : v = IF "debounceTimer" \in m THEN None ELSE s.power
    BY <1>1
  <2>2. r = [s EXCEPT !.debounce = v]
    BY <1>3, <2>1 DEF handle_power_broadcast_event
  <2> QED
    BY <2>2, DebounceSet
<1> QED
  BY <1>2, <1>3

(* handle_power_debounce_timer                                             *)
LEMMA DebounceTimerHandled ==
    ASSUME NEW x, NEW s, NEW m, Fits(x, m), Good(x, s),
           NEW r, r = handle_power_debounce_timer(s, m)
    PROVE  Good(x, r)
<1>1. PICK p : p = [s EXCEPT !.debounce = None]
  OBVIOUS
<1>2. Good(x, p)
  BY <1>1, DebounceSet
<1>3. CASE s.power = "Unknown"
  <2>0. "Unknown" \in PowerState \cup {None} /\ None \in PowerState \cup {None}
    BY DEF PowerState
  <2>1. PICK v \in PowerState \cup {None} : v = IF "debounceTimer" \in m THEN None ELSE "Unknown"
    BY <2>0
  <2>2. r = [p EXCEPT !.debounce = v]
    BY <1>1, <1>3, <2>1 DEF handle_power_debounce_timer
  <2> QED
    BY <1>2, <2>2, DebounceSet
<1>4. CASE s.power # "Unknown" /\ s.debounce = s.power
  <2>1. r = release_for_power_change(p, m)
    BY <1>1, <1>4 DEF handle_power_debounce_timer
  <2> QED
    BY <1>2, <2>1, PowerChangeReleased
<1>5. CASE s.power # "Unknown" /\ s.debounce # s.power
  BY <1>1, <1>2, <1>5 DEF handle_power_debounce_timer
<1> QED
  BY <1>3, <1>4, <1>5

(* Resuming from sleep.                                                    *)
LEMMA ResumeHandled ==
    ASSUME NEW x, NEW s, NEW m, Fits(x, m), Good(x, s), Fresh(x, s), NEW o \in PowerState,
           NEW r, r = ResumeEvent(s, o, m)
    PROVE  Good(x, r)
<1>1. PICK p : p = refresh_power(s, o, m)
  OBVIOUS
<1>2. PICK q : q = apply_power_reconciliation(p, m)
  OBVIOUS
<1>3. r = handle_power_broadcast_event(q, m)
  BY <1>1, <1>2 DEF ResumeEvent
<1>4. Good(x, p)
  BY <1>1, PowerRefreshed
<1>5. Good(x, q)
  BY <1>2, <1>4, PowerReconciled
<1> QED
  BY <1>3, <1>5, PowerBroadcastHandled

-----------------------------------------------------------------------------
(* Settings and the tray icon                                              *)

(* set_automatic                                                           *)
LEMMA AutomaticSet ==
    ASSUME NEW x, NEW s, NEW m, Fits(x, m), Good(x, s), NEW v \in BOOLEAN,
           NEW r, r = set_automatic(s, v, m)
    PROVE  Good(x, r)
<1>1. PICK p : p = [s EXCEPT !.automatic = v]
  OBVIOUS
<1>2. Good(x, p)
  BY <1>1, FlagSet
<1>3. r = IF "save" \in m THEN Publish(s, m)
          ELSE IF v THEN reconcile(p, m) ELSE manual_stop(p, m)
  BY <1>1 DEF set_automatic
<1>4. CASE "save" \in m
  BY <1>3, <1>4, GoodPublished
<1>5. CASE "save" \notin m /\ v
  BY <1>2, <1>3, <1>5, Reconciled
<1>6. CASE "save" \notin m /\ ~v
  BY <1>2, <1>3, <1>6, ManualStop
<1> QED
  BY <1>4, <1>5, <1>6

(* set_auto_resume                                                         *)
LEMMA AutoResumeSet ==
    ASSUME NEW x, NEW s, NEW m, Fits(x, m), Good(x, s), NEW v \in BOOLEAN,
           NEW r, r = set_auto_resume(s, v, m)
    PROVE  Good(x, r)
<1>1. PICK p : p = [s EXCEPT !.auto_resume = v]
  OBVIOUS
<1>2. Good(x, p)
  BY <1>1, FlagSet
<1>3. r = IF "save" \in m THEN Publish(s, m) ELSE apply_power_reconciliation(p, m)
  BY <1>1 DEF set_auto_resume
<1>4. CASE "save" \in m
  BY <1>3, <1>4, GoodPublished
<1>5. CASE "save" \notin m
  BY <1>2, <1>3, <1>5, PowerReconciled
<1> QED
  BY <1>4, <1>5

(* The lockout may be set before anything is acquired, and cleared always: *)
(* what was permitted with it is permitted without it.                     *)
LEMMA LockoutChanged ==
    ASSUME NEW x, NEW s, Good(x, s), NEW v \in BOOLEAN, Fresh(x, s) \/ ~v,
           NEW r, r = [s EXCEPT !.lockout = v]
    PROVE  Good(x, r)
<1>1. s \in App
  BY DEF Good, Base, Settled
<1>2. r \in App
  BY <1>1, FlagSetters
<1>3. /\ r.ctl = s.ctl /\ r.handoff = s.handoff /\ r.desired = s.desired
      /\ r.scheduled = s.scheduled /\ r.armed = s.armed
      /\ r.power = s.power /\ r.lockout = v
  BY <1>1 DEF App
<1>4. Stable(s, r)
  BY <1>1 DEF App, Stable
<1>5. Settled(r)
  BY <1>2, <1>3, <1>4, StableIsSettled DEF Good, Base
<1>6. HandoffPending(r) <=> HandoffPending(s)
  BY <1>3 DEF HandoffPending
<1>7. Lawful(x, r)
  <2>1. ~v /\ Permitted(s) => Permitted(r)
    BY <1>3 DEF Permitted, decide
  <2> QED
    BY <1>3, <2>1 DEF Good, Base, Frame, Fresh, Lawful, PauseActive
<1>8. Base(x, r)
  BY <1>3, <1>4, <1>5, <1>6, <1>7 DEF Good, Base, Frame, Watched, TimerIsCurrent, Stable
<1>9. IntentWaits(r) /\ PauseHolds(r) /\ ("timed" \in x => PauseIsTimed(r))
  BY <1>3, <1>4, <1>6 DEF Good, IntentWaits, PauseHolds, PauseIsTimed, PauseActive, Stable
<1> QED
  BY <1>8, <1>9 DEF Good

(* set_battery_lockout                                                     *)
LEMMA LockoutSet ==
    ASSUME NEW x, NEW s, NEW m, Fits(x, m), Good(x, s), Fresh(x, s), NEW v \in BOOLEAN,
           NEW r, r = set_battery_lockout(s, v, m)
    PROVE  Good(x, r)
<1>1. PICK p : p = [s EXCEPT !.lockout = v]
  OBVIOUS
<1>2. Good(x, p)
  BY <1>1, LockoutChanged
<1>3. r = IF "save" \in m THEN Publish(s, m) ELSE apply_power_reconciliation(p, m)
  BY <1>1 DEF set_battery_lockout
<1>4. CASE "save" \in m
  BY <1>3, <1>4, GoodPublished
<1>5. CASE "save" \notin m
  BY <1>2, <1>3, <1>5, PowerReconciled
<1> QED
  BY <1>4, <1>5

(* handle_settings_reset                                                   *)
LEMMA SettingsWereReset ==
    ASSUME NEW x, NEW s, NEW m, Fits(x, m), Good(x, s), NEW r, r = handle_settings_reset(s, m)
    PROVE  Good(x, r)
<1>1. PICK p : p = manual_stop(s, m)
  OBVIOUS
<1>2. PICK q : q = cancel_duration_timer(PauseCancel(p))
  OBVIOUS
<1>3. PICK d : d = [q EXCEPT !.debounce = None]
  OBVIOUS
<1>4. PICK c : c = [d EXCEPT !.resume = FALSE]
  OBVIOUS
<1>5. Good(x, p)
  BY <1>1, ManualStop
<1>6. Good(x, q)
  BY <1>2, <1>5, Unscheduled
<1>7. Good(x, d)
  BY <1>3, <1>6, DebounceSet
<1>8. Good(x, c)
  BY <1>4, <1>7, FlagSet
<1>9. c = [cancel_duration_timer(PauseCancel(manual_stop(s, m)))
              EXCEPT !.debounce = None, !.resume = FALSE]
  BY <1>1, <1>2, <1>3, <1>4
<1>10. CASE "save" \in m
  BY <1>8, <1>9, <1>10 DEF handle_settings_reset
<1>11. CASE "save" \notin m
  <2>1. PICK e : e = [c EXCEPT !.automatic = FALSE]
    OBVIOUS
  <2>2. PICK f : f = [e EXCEPT !.auto_resume = TRUE]
    OBVIOUS
  <2>3. PICK g : g = [f EXCEPT !.lockout = FALSE]
    OBVIOUS
  <2>4. PICK h : h = apply_power_reconciliation(g, m)
    OBVIOUS
  <2>5. Good(x, e)
    BY <1>8, <2>1, FlagSet
  <2>6. Good(x, f)
    BY <2>2, <2>5, FlagSet
  <2>7. Good(x, g)
    BY <2>3, <2>6, LockoutChanged
  <2>8. Good(x, h)
    BY <2>4, <2>7, PowerReconciled
  <2>9. g = [c EXCEPT !.automatic = FALSE, !.auto_resume = TRUE, !.lockout = FALSE]
    BY <2>1, <2>2, <2>3
  <2>10. r = Publish(h, m)
    BY <1>9, <1>11, <2>4, <2>9 DEF handle_settings_reset
  <2> QED
    BY <2>8, <2>10, GoodPublished
<1> QED
  BY <1>10, <1>11

(* What changes only the tray icon and its recovery is settled by the      *)
(* publish that follows.                                                   *)
LEMMA SurfacePublished ==
    ASSUME NEW x, NEW s, NEW m, Fits(x, m), Good(x, s), NEW p \in App,
           p.ctl = s.ctl, Same(s, p), p.status = s.status, p.tier = s.tier,
           p.rejected = s.rejected, p.anomalies = s.anomalies,
           TierNearlyFits(p), HasAttempts(p), "calm" \in x => p.icon,
           NEW r, r = Publish(p, m)
    PROVE  Good(x, r)
<1>1. Unsettled(p)
  BY SettledIsUnsettled DEF Good, Base, Unsettled, NearlyFloored
<1>2. p.gate = s.gate
  BY DEF Same
<1>3. Frame(x, p) /\ p.status # "Starting"
  BY <1>2, SameKeeps DEF Good, Base, Frame
<1> QED
  BY <1>1, <1>3, SameKeeps, PublishKeeps DEF Good

(* restore_tray_icon                                                       *)
LEMMA IconRestored ==
    ASSUME NEW x, NEW s, NEW m, Fits(x, m), Good(x, s), NEW r, r = restore_tray_icon(s, m)
    PROVE  Good(x, r)
<1>1. PICK v \in BOOLEAN : v = ("icon" \notin m)
  OBVIOUS
<1>2. PICK p : p = [s EXCEPT !.icon = v]
  OBVIOUS
<1>3. r = Publish(p, m)
  BY <1>1, <1>2 DEF restore_tray_icon
<1>4. s \in App /\ TierFits(s) /\ HasAttempts(s)
  BY DEF Good, Base, Settled
<1>5. p \in App
  BY <1>2, <1>4, FlagSetters
<1>6. /\ p.ctl = s.ctl /\ p.status = s.status /\ p.tier = s.tier
      /\ p.rejected = s.rejected /\ p.anomalies = s.anomalies /\ p.icon = v
      /\ p.wake = s.wake /\ p.attempts = s.attempts /\ p.exhausted = s.exhausted
  BY <1>2, <1>4 DEF App
<1>7. Same(s, p)
  BY <1>2, <1>4 DEF App, Same
<1>8. TierNearlyFits(p) /\ HasAttempts(p)
  BY <1>4, <1>6 DEF TierFits, TierNearlyFits, HasAttempts
<1> QED
  BY <1>1, <1>3, <1>5, <1>6, <1>7, <1>8, SurfacePublished DEF Fits

(* service_surface_recovery stays within its attempts.                     *)
LEMMA SurfaceServiced ==
    ASSUME NEW x, NEW s, NEW m, Fits(x, m), Good(x, s),
           NEW r, r = service_surface_recovery(s, m)
    PROVE  Good(x, r)
<1>1. s \in App /\ HasAttempts(s) /\ TierFits(s) /\ ("calm" \in x => s.icon)
  BY DEF Good, Base, Settled, Frame
<1>2. s.attempts \in 0..SurfaceAttempts /\ SurfaceAttempts \in Nat \ {0}
  BY <1>1, Fields, TrayAppAssumption
<1>3. CASE s.tier # "SurfaceDegraded" \/ s.icon \/ s.exhausted
  BY <1>3 DEF service_surface_recovery
<1>4. CASE ~(s.tier # "SurfaceDegraded" \/ s.icon \/ s.exhausted) /\ "icon" \notin m
  <2>1. PICK p : p = [s EXCEPT !.icon = TRUE, !.attempts = 0, !.wake = "Off"]
    OBVIOUS
  <2>2. r = Publish(p, m)
    BY <1>4, <2>1 DEF service_surface_recovery
  <2>3. 0 \in 0..SurfaceAttempts /\ "Off" \in WakeState
    BY <1>2 DEF WakeState
  <2>4. p \in App
    BY <1>1, <2>1, <2>3, NumberSetters, FlagSetters
  <2>5. /\ p.ctl = s.ctl /\ p.status = s.status /\ p.tier = s.tier
        /\ p.rejected = s.rejected /\ p.anomalies = s.anomalies /\ p.icon = TRUE
        /\ p.attempts = 0
    BY <1>1, <2>1 DEF App
  <2>6. Same(s, p)
    BY <1>1, <2>1 DEF App, Same
  <2>7. TierNearlyFits(p) /\ HasAttempts(p)
    BY <1>2, <1>4, <2>5 DEF TierNearlyFits, HasAttempts
  <2> QED
    BY <2>2, <2>4, <2>5, <2>6, <2>7, SurfacePublished
<1>5. CASE ~(s.tier # "SurfaceDegraded" \/ s.icon \/ s.exhausted) /\ "icon" \in m
  <2>1. PICK n : n = s.attempts + 1
    OBVIOUS
  <2>2. PICK v \in BOOLEAN : v = (n >= SurfaceAttempts)
    <3>1. (n >= SurfaceAttempts) \in BOOLEAN
      BY <1>2, <2>1
    <3> QED
      BY <3>1
  <2>3. PICK w \in WakeState : w = IF v THEN "Off" ELSE s.wake
    BY <1>1, Fields DEF WakeState
  <2>4. PICK p : p = [s EXCEPT !.attempts = n, !.exhausted = v, !.wake = w]
    OBVIOUS
  <2>5. r = Publish(p, m)
    BY <1>5, <2>1, <2>2, <2>3, <2>4 DEF service_surface_recovery
  <2>6. n \in 0..SurfaceAttempts /\ (v \/ n < SurfaceAttempts)
    <3>1. s.attempts < SurfaceAttempts
      BY <1>1, <1>5 DEF HasAttempts
    <3>2. v <=> n >= SurfaceAttempts
      BY <2>2, Zenon
    <3>3. n \in 0..SurfaceAttempts /\ (n >= SurfaceAttempts \/ n < SurfaceAttempts)
      BY <1>2, <2>1, <3>1
    <3> QED
      BY <3>2, <3>3, Zenon
  <2>7. p \in App
    BY <1>1, <2>4, <2>6, NumberSetters, FlagSetters
  <2>8. /\ p.ctl = s.ctl /\ p.status = s.status /\ p.tier = s.tier
        /\ p.rejected = s.rejected /\ p.anomalies = s.anomalies /\ p.icon = s.icon
        /\ p.attempts = n /\ p.exhausted = v /\ p.wake = w
    BY <1>1, <2>4, <2>6 DEF App
  <2>9. Same(s, p)
    BY <1>1, <2>4, <2>6 DEF App, Same
  <2>10. TierNearlyFits(p) /\ HasAttempts(p)
    BY <1>1, <1>5, <2>3, <2>6, <2>8 DEF TierFits, TierNearlyFits, HasAttempts
  <2> QED
    BY <1>1, <2>5, <2>7, <2>8, <2>9, <2>10, SurfacePublished
<1> QED
  BY <1>3, <1>4, <1>5

-----------------------------------------------------------------------------
(* Startup and shutdown                                                    *)

(* A new phase changes nothing else.                                       *)
LEMMA PhaseSet ==
    ASSUME NEW x, NEW s, Base(x, s), NEW v \in {"running", "quitting", "exited"},
           NEW r, r = [s EXCEPT !.phase = v]
    PROVE  /\ Base(x, r) /\ r.phase = v /\ r.ctl = s.ctl /\ r.gate = s.gate
           /\ r.handoff = s.handoff /\ r.desired = s.desired
           /\ r.scheduled = s.scheduled /\ r.armed = s.armed
<1>1. s \in App
  BY DEF Base, Settled
<1>2. r \in App
  BY <1>1, NumberSetters
<1>3. /\ r.ctl = s.ctl /\ r.handoff = s.handoff /\ r.desired = s.desired
      /\ r.scheduled = s.scheduled /\ r.armed = s.armed
      /\ r.power = s.power /\ r.lockout = s.lockout /\ r.gate = s.gate /\ r.phase = v
  BY <1>1 DEF App
<1>4. /\ r.status = s.status /\ r.tier = s.tier
      /\ r.rejected = s.rejected /\ r.anomalies = s.anomalies
      /\ r.icon = s.icon /\ r.wake = s.wake
      /\ r.attempts = s.attempts /\ r.exhausted = s.exhausted /\ r.tracked = s.tracked
  BY <1>1 DEF App
<1>5. Settled(r)
  BY <1>2, <1>3, <1>4
     DEF Base, Settled, Covered, TrackedInterval, Floored, TierFits, HasAttempts
<1>6. HandoffPending(r) <=> HandoffPending(s)
  BY <1>3 DEF HandoffPending
<1>7. Base(x, r)
  BY <1>3, <1>4, <1>5, <1>6
     DEF Base, Frame, Watched, TimerIsCurrent, Lawful, Permitted, PauseActive
<1> QED
  BY <1>3, <1>7

(* A new controller owns nothing.                                          *)
LEMMA NewIsSound ==
    ASSUME NEW c, c = NewController(Requested)
    PROVE  /\ c \in Controller(Nat) /\ CtlSound(c) /\ c.own = "Released" /\ c.bnd = NoInterval
<1>1. Requested \in Nat
  BY TrayAppAssumption
<1> QED
  BY <1>1 DEF NewController, Controller, OwnershipState, Verification, Option, NoInterval,
              NoReading, CtlSound

(* A process that ends drops what it owned and what it watched.            *)
LEMMA ProcessDropped ==
    ASSUME NEW x, NEW s, Base(x, s), NEW r, r = Dropped(s)
    PROVE  /\ Base(x, r) /\ IntentWaits(r) /\ PauseHolds(r)
           /\ r.phase = s.phase /\ r.gate = s.gate
           /\ r.ctl.own = "Released" /\ ~HandoffPending(r) /\ r.desired = None
<1>1. s \in App
  BY DEF Base, Settled
<1>2. PICK c : c = NewController(Requested)
  OBVIOUS
<1>3. c \in Controller(Nat) /\ CtlSound(c) /\ c.own = "Released" /\ c.bnd = NoInterval
  BY <1>2, NewIsSound
<1>4. NoHandoff \in [polls : -1..MaxPolls, paused : BOOLEAN, boundary : Option(Nat)]
  BY TrayAppAssumption DEF NoHandoff, Option, NoInterval, NoReading
<1>5. r = [s EXCEPT !.ctl = c, !.handoff = NoHandoff, !.desired = None, !.tracked = 0]
  BY <1>2 DEF Dropped
<1>6. r \in App
  <2>1. PICK d : d = [s EXCEPT !.ctl = c, !.handoff = NoHandoff]
    OBVIOUS
  <2>2. d \in App
    BY <1>1, <1>3, <1>4, <2>1, Setters
  <2>3. PICK f : f = [d EXCEPT !.desired = None]
    OBVIOUS
  <2>4. f \in App
    BY <2>2, <2>3, Setters
  <2>5. r = [f EXCEPT !.tracked = 0]
    BY <1>5, <2>1, <2>3
  <2>6. \A v \in Nat : [f EXCEPT !.tracked = v] \in App
    BY <2>4, NumberSetters
  <2>7. 0 \in Nat
    OBVIOUS
  <2> QED
    BY <2>5, <2>6, <2>7, Zenon
<1>7. /\ r.ctl = c /\ r.handoff = NoHandoff /\ r.desired = None /\ r.tracked = 0
      /\ r.scheduled = s.scheduled /\ r.armed = s.armed
      /\ r.gate = s.gate /\ r.phase = s.phase
  BY <1>1, <1>5 DEF App
<1>8. /\ r.status = s.status /\ r.tier = s.tier
      /\ r.rejected = s.rejected /\ r.anomalies = s.anomalies
      /\ r.icon = s.icon /\ r.wake = s.wake
      /\ r.attempts = s.attempts /\ r.exhausted = s.exhausted
  BY <1>1, <1>5 DEF App
<1>9. Settled(r)
  <2>1. Covered(r)
    BY <1>3, <1>7 DEF Covered, TrackedInterval
  <2> QED
    BY <1>3, <1>6, <1>7, <1>8, <2>1 DEF Base, Settled, Floored, TierFits, HasAttempts
<1>10. ~HandoffPending(r)
  BY <1>7 DEF HandoffPending
<1>11. Base(x, r)
  BY <1>3, <1>7, <1>8, <1>9, <1>10 DEF Base, Frame, Watched, TimerIsCurrent, Lawful
<1> QED
  BY <1>3, <1>7, <1>10, <1>11 DEF IntentWaits, PauseHolds

\* What the UI thread leaves behind when a message is handled.
Left(s) == IF s.phase = "overflow" THEN Dropped(s) ELSE s

(* The end of a message keeps the rules.                                   *)
LEMMA LeftIsGood ==
    ASSUME NEW x, NEW s, Good(x, s), NEW r, r = Left(s)
    PROVE  Good(x, r) /\ r.gate = s.gate /\ r.phase = s.phase
<1>1. CASE s.phase = "overflow"
  <2>1. r = Dropped(s)
    BY <1>1 DEF Left
  <2>2. /\ Base(x, r) /\ IntentWaits(r) /\ PauseHolds(r)
        /\ r.phase = s.phase /\ r.gate = s.gate
    BY <2>1, ProcessDropped DEF Good
  <2>3. PauseIsTimed(r)
    BY <1>1, <2>2 DEF PauseIsTimed
  <2> QED
    BY <2>2, <2>3 DEF Good
<1>2. CASE s.phase # "overflow"
  BY <1>2 DEF Left
<1> QED
  BY <1>1, <1>2

(* run() up to the message loop.                                           *)
LEMMA Started ==
    ASSUME NEW x, NEW y, NEW s, NEW m, Fits(x, m), y = x \cup {"started"},
           Good(x, s), s.phase = "starting", Pristine(s),
           NEW probed \in BOOLEAN, NEW r, r = Startup(s, probed, m)
    PROVE  Good(y, r)
<1>1. PICK t : t = refresh_operating_tier(s, m)
  OBVIOUS
<1>2. PICK o : o = refresh_timing_observation(t, m)
  OBVIOUS
<1>3. PICK c : c = IF probed THEN SettleProbed(o.ctl) ELSE o.ctl
  OBVIOUS
<1>4. PICK e : e = [o EXCEPT !.phase = "running"]
  OBVIOUS
<1>5. PICK f : f = [e EXCEPT !.ctl = c]
  OBVIOUS
<1>6. Evaluated(s, t) /\ Kept(s, t) /\ Same(s, t)
  BY <1>1, Refreshed, SettledIsUnsettled DEF Good, Base, Evaluated
<1>7. Good(x, t)
  <2>1. t.ctl.own = "Released" /\ t.tracked = s.tracked
    BY <1>6 DEF Pristine, Same, Kept
  <2>2. Covered(t)
    BY <2>1 DEF Good, Base, Settled, Pristine, Covered, TrackedInterval
  <2>3. Settled(t)
    BY <1>6, <2>2 DEF Evaluated, Settled
  <2>4. t.gate = s.gate /\ t.icon = s.icon /\ t.status = s.status
    BY <1>6 DEF Same, Kept
  <2>5. Base(x, t)
    BY <1>6, <2>3, <2>4, SameKeeps DEF Good, Base, Frame
  <2> QED
    BY <1>6, <2>5, SameKeeps DEF Good
<1>8. Good(x, o) /\ Same(t, o)
  BY <1>2, <1>7, Observed
<1>9. Pristine(o)
  BY <1>6, <1>8 DEF Pristine, Same, HandoffPending, PauseActive
<1>10. /\ Base(x, e) /\ e.phase = "running" /\ e.ctl = o.ctl
       /\ e.handoff = o.handoff /\ e.desired = o.desired /\ e.scheduled = o.scheduled
       /\ e.gate = o.gate
  BY <1>4, <1>8, PhaseSet DEF Good
<1>11. Pristine(e)
  BY <1>9, <1>10 DEF Pristine, HandoffPending, PauseActive
<1>12. e \in App /\ e.ctl \in Controller(Nat) /\ CtlSound(e.ctl) /\ e.ctl.bnd = NoInterval
  BY <1>10, <1>11, Fields DEF Base, Settled, Frame, Watched, Pristine
<1>13. c \in Controller(Nat) /\ CtlSound(c) /\ c.own = "Released" /\ c.bnd = NoInterval
  <2>1. e.ctl.own = "Released"
    BY <1>11 DEF Pristine
  <2>2. CASE probed
    BY <1>3, <1>10, <1>12, <2>1, <2>2
       DEF SettleProbed, Controller, Option, NoInterval, NoReading, CtlSound
  <2>3. CASE ~probed
    BY <1>3, <1>10, <1>12, <2>1, <2>3
  <2> QED
    BY <2>2, <2>3
<1>14. f \in App /\ f.ctl = c /\ Others(e, f)
  BY <1>5, <1>12, <1>13, SetCtl
<1>15. Pristine(f) /\ f.phase = "running" /\ f.gate = e.gate
  BY <1>10, <1>11, <1>13, <1>14
     DEF Pristine, HandoffPending, PauseActive, Others, Stable
<1>16. Settled(f)
  <2>1. Covered(f)
    BY <1>10, <1>11, <1>13, <1>14
       DEF Base, Settled, Pristine, Covered, TrackedInterval, Others, Stable
  <2> QED
    BY <1>10, <1>11, <1>13, <1>14, <2>1
       DEF Base, Settled, Pristine, Floored, TierFits, HasAttempts, Others, Stable
<1>17. Base(x, f)
  BY <1>10, <1>13, <1>14, <1>15, <1>16
     DEF Base, Frame, Pristine, Watched, TimerIsCurrent, Lawful, Others, Stable
<1>18. Good(x, f)
  BY <1>15, <1>17 DEF Good, Pristine, IntentWaits, PauseHolds, PauseIsTimed
<1>19. Good(y, f)
  BY <1>15, <1>17, <1>18, Narrowed DEF Base, Frame
<1>20. r = apply_power_reconciliation(f, m)
  <2>1. f = [o EXCEPT !.phase = "running", !.ctl = IF probed THEN SettleProbed(@) ELSE @]
    BY <1>3, <1>4, <1>5
  <2> QED
    BY <1>1, <1>2, <2>1 DEF Startup
<1>21. Fits(y, m)
  BY DEF Fits
<1> QED
  BY <1>19, <1>20, <1>21, PowerReconciled

(* The shutdown gate opens or not.                                         *)
LEMMA GateSet ==
    ASSUME NEW x, NEW y, NEW s, Base(x, s), NEW v \in BOOLEAN,
           NEW r, r = [s EXCEPT !.gate = v],
           v <=> "gate" \in y,
           \A w \in {"started", "released", "calm", "timed"} : w \in y => w \in x
    PROVE  /\ Base(y, r) /\ r.gate = v /\ r.ctl = s.ctl /\ r.phase = s.phase
           /\ HandoffPending(r) <=> HandoffPending(s)
           /\ IntentWaits(s) => IntentWaits(r)
           /\ PauseHolds(s) => PauseHolds(r)
           /\ PauseIsTimed(s) => PauseIsTimed(r)
           /\ Good(x, s) => Good(y, r)
<1>1. s \in App
  BY DEF Base, Settled
<1>2. r \in App
  BY <1>1, FlagSetters
<1>3. /\ r.ctl = s.ctl /\ r.handoff = s.handoff /\ r.desired = s.desired
      /\ r.scheduled = s.scheduled /\ r.armed = s.armed
      /\ r.power = s.power /\ r.lockout = s.lockout /\ r.gate = v /\ r.phase = s.phase
  BY <1>1 DEF App
<1>4. /\ r.status = s.status /\ r.tier = s.tier
      /\ r.rejected = s.rejected /\ r.anomalies = s.anomalies
      /\ r.icon = s.icon /\ r.wake = s.wake
      /\ r.attempts = s.attempts /\ r.exhausted = s.exhausted /\ r.tracked = s.tracked
  BY <1>1 DEF App
<1>5. Settled(r)
  BY <1>2, <1>3, <1>4
     DEF Base, Settled, Covered, TrackedInterval, Floored, TierFits, HasAttempts
<1>6. HandoffPending(r) <=> HandoffPending(s)
  BY <1>3 DEF HandoffPending
<1>7. Watched(r) /\ TimerIsCurrent(r) /\ Lawful(y, r)
  BY <1>3, <1>6 DEF Base, Frame, Watched, TimerIsCurrent, Lawful, Permitted, PauseActive
<1>8. Base(y, r)
  BY <1>3, <1>4, <1>5, <1>7 DEF Base, Frame
<1>9. /\ IntentWaits(s) => IntentWaits(r)
      /\ PauseHolds(s) => PauseHolds(r)
      /\ PauseIsTimed(s) => PauseIsTimed(r)
  BY <1>3, <1>6 DEF IntentWaits, PauseHolds, PauseIsTimed, PauseActive
<1> QED
  BY <1>3, <1>6, <1>8, <1>9 DEF Good

(* What the cleanup takes down first.                                      *)
LEMMA WasQuiesced ==
    ASSUME NEW x, NEW s, Good(x, s), NEW r, r = Quiesced(s)
    PROVE  /\ Good(x, r) /\ ~PauseActive(r) /\ r.ctl = s.ctl
           /\ HandoffPending(r) <=> HandoffPending(s)
<1>1. PICK p : p = cancel_duration_timer(PauseCancel(s))
  OBVIOUS
<1>2. PICK q : q = [p EXCEPT !.ipc = FALSE]
  OBVIOUS
<1>3. PICK t : t = [q EXCEPT !.debounce = None]
  OBVIOUS
<1>4. r = [t EXCEPT !.resume = FALSE]
  BY <1>1, <1>2, <1>3 DEF Quiesced
<1>5. Good(x, p) /\ ButSchedule(s, p) /\ p.scheduled = None
  BY <1>1, Unscheduled
<1>6. Good(x, q) /\ q.ctl = p.ctl /\ Others(p, q)
  BY <1>2, <1>5, FlagSet
<1>7. Good(x, t) /\ t.ctl = q.ctl /\ Others(q, t)
  BY <1>3, <1>6, DebounceSet
<1>8. Good(x, r) /\ r.ctl = t.ctl /\ Others(t, r)
  BY <1>4, <1>7, FlagSet
<1>9. r.scheduled = None /\ r.handoff = s.handoff /\ r.ctl = s.ctl
  BY <1>5, <1>6, <1>7, <1>8 DEF ButSchedule, Others
<1> QED
  BY <1>8, <1>9 DEF PauseActive, HandoffPending, None

(* cleanup_normal_shutdown.  An intent that waited for a handoff is left   *)
(* over when the cleanup ends that handoff, and then it succeeds.          *)
LEMMA Cleaned ==
    ASSUME NEW x, NEW y, NEW s, NEW m, Fits(x, m), Good(x, s),
           y = IF CleanupSucceeds(s, m) THEN x \cup {"gate"} ELSE x \ {"gate"},
           NEW r, r = cleanup_normal_shutdown(s, m)
    PROVE  /\ Base(y, r) /\ PauseHolds(r) /\ ("timed" \in y => PauseIsTimed(r))
           /\ IntentWaits(r) \/ (CleanupSucceeds(s, m) /\ r.ctl.own = "Released")
           /\ ~s.gate /\ r.gate => r.ctl.own = "Released" /\ ~HandoffPending(r)
<1>1. CASE s.gate
  <2>1. r = [s EXCEPT !.ipc = FALSE] /\ CleanupSucceeds(s, m)
    BY <1>1 DEF cleanup_normal_shutdown, CleanupSucceeds
  <2>2. Good(x, r) /\ Others(s, r)
    BY <2>1, FlagSet
  <2>3. r.gate /\ "gate" \in y
    BY <1>1, <2>1, <2>2 DEF Others, Stable
  <2>4. Good(y, r)
    BY <2>1, <2>2, <2>3, Narrowed DEF Good
  <2> QED
    BY <1>1, <2>4 DEF Good
<1>2. CASE ~s.gate
  <2>1. PICK q : q = Quiesced(s)
    OBVIOUS
  <2>2. /\ Good(x, q) /\ ~PauseActive(q) /\ q.ctl = s.ctl
        /\ HandoffPending(q) <=> HandoffPending(s)
    BY <2>1, WasQuiesced
  <2>3. "Stopped" \in TrayStatus \ {"Starting"}
    BY DEF TrayStatus
  <2>4. HandoffPending(s) => s.ctl.own = "Released"
    BY DEF Good, Base, Frame, Watched
  <2>5. PICK v \in BOOLEAN : v = CleanupSucceeds(s, m)
    <3>1. CleanupSucceeds(s, m) \in BOOLEAN
      BY Zenon DEF CleanupSucceeds
    <3> QED
      BY <3>1
  <2>6. /\ v <=> "gate" \in y
        /\ \A w \in {"started", "released", "calm", "timed"} : w \in y => w \in x
    BY <2>5, Zenon
  <2>7. CASE HandoffPending(s)
    <3>1. PICK e : e = Show(Over(q), "Stopped", m)
      OBVIOUS
    <3>2. /\ Base(x, e) /\ PauseHolds(e) /\ e.ctl.own = "Released" /\ ~HandoffPending(e)
          /\ e.scheduled = q.scheduled
      BY <2>2, <2>3, <2>7, <3>1, HandoffEnded
    <3>3. CleanupSucceeds(s, m) /\ v
      BY <2>4, <2>5, <2>7 DEF CleanupSucceeds
    <3>4. r = [e EXCEPT !.gate = v]
      BY <1>2, <2>1, <2>4, <2>5, <2>7, <3>1 DEF cleanup_normal_shutdown, Over
    <3>5. PauseIsTimed(e)
      BY <2>2, <3>2 DEF PauseIsTimed, PauseActive
    <3>6. /\ Base(y, r) /\ r.ctl = e.ctl
          /\ HandoffPending(r) <=> HandoffPending(e)
          /\ PauseHolds(r) /\ PauseIsTimed(r)
      BY <2>6, <3>2, <3>4, <3>5, GateSet
    <3> QED
      BY <3>2, <3>3, <3>6
  <2>8. CASE ~HandoffPending(s)
    <3>1. PICK e : e = guarded_release(q, "Stopped", m)
      OBVIOUS
    <3>2. Good(x, e) /\ (ReleaseSucceeds(q, m) => e.ctl.own = "Released")
      BY <2>2, <2>3, <3>1, GuardedRelease DEF Good
    <3>3. CleanupSucceeds(s, m) <=> ReleaseSucceeds(q, m) /\ ~HandoffPending(e)
      BY <1>2, <2>1, <2>8, <3>1 DEF CleanupSucceeds
    <3>5. r = [e EXCEPT !.gate = v]
      BY <1>2, <2>1, <2>5, <2>8, <3>1 DEF cleanup_normal_shutdown
    <3>6. /\ Good(y, r) /\ r.gate = v /\ r.ctl = e.ctl
          /\ HandoffPending(r) <=> HandoffPending(e)
      BY <2>6, <3>2, <3>5, GateSet DEF Good
    <3> QED
      BY <2>5, <3>2, <3>3, <3>6 DEF Good
  <2> QED
    BY <2>7, <2>8
<1> QED
  BY <1>1, <1>2

-----------------------------------------------------------------------------
(* Steps                                                                   *)

(* The circumstances of a message that finds the App s.                    *)
LEMMA CircumstancesAre ==
    ASSUME NEW s
    PROVE  /\ "started" \in Circumstances(s) <=> s.phase # "starting"
           /\ "released" \in Circumstances(s) <=> s.ctl.own = "Released"
           /\ "gate" \in Circumstances(s) <=> s.gate
           /\ "calm" \in Circumstances(s) <=> "icon" \notin Mishaps
           /\ "timed" \in Circumstances(s) <=> "icon" \notin Mishaps
           /\ \A m \in MishapSets : Fits(Circumstances(s), m)
<1>1. /\ "started" \in Circumstances(s) <=> s.phase # "starting"
      /\ "released" \in Circumstances(s) <=> s.ctl.own = "Released"
      /\ "gate" \in Circumstances(s) <=> s.gate
      /\ "calm" \in Circumstances(s) <=> "icon" \notin Mishaps
      /\ "timed" \in Circumstances(s) <=> "icon" \notin Mishaps
  BY DEF Circumstances
<1>2. \A m \in MishapSets : m \subseteq Mishaps
  BY DEF MishapSets
<1> QED
  BY <1>1, <1>2 DEF Fits

\* What one message may do.
Proper(s, r) ==
    /\ Good(Circumstances(r), r) /\ r.phase # "starting"
    /\ s.ctl.own = "Released" /\ r.ctl.own # "Released" => Permitted(r) /\ ~PauseActive(r)
    /\ ~s.gate /\ r.gate => r.ctl.own = "Released" /\ ~HandoffPending(r)

(* Rules kept in the circumstances of s make the step from s proper.       *)
LEMMA Concluded ==
    ASSUME NEW s, NEW r, NEW y, Good(y, r), "started" \in y,
           s.ctl.own = "Released" => "released" \in y,
           "icon" \notin Mishaps => "calm" \in y /\ "timed" \in y,
           ~s.gate /\ r.gate => r.ctl.own = "Released" /\ ~HandoffPending(r)
    PROVE  Proper(s, r)
<1>1. Base(y, r) /\ r.phase # "starting" /\ Lawful(y, r)
  BY DEF Good, Base, Frame
<1>2. Good(Circumstances(r), r)
  BY <1>1, CircumstancesAre, Narrowed
<1>3. s.ctl.own = "Released" /\ r.ctl.own # "Released" => Permitted(r) /\ ~PauseActive(r)
  BY <1>1 DEF Lawful
<1> QED
  BY <1>1, <1>2, <1>3 DEF Proper

(* A handler that keeps the rules makes a proper step.                     *)
LEMMA Message ==
    ASSUME NEW s, s.phase # "starting", NEW p, Good(Circumstances(s), p), NEW r, r = Left(p)
    PROVE  Proper(s, r)
<1>1. Good(Circumstances(s), r)
  BY LeftIsGood
<1>2. r.gate <=> s.gate
  BY <1>1, CircumstancesAre DEF Good, Base, Frame
<1> QED
  BY <1>1, <1>2, CircumstancesAre, Concluded

(* Quit                                                                    *)
LEMMA QuitStep ==
    ASSUME NEW s, s.phase # "starting", Good(Circumstances(s), s), NEW m \in MishapSets,
           NEW c, c = cleanup_normal_shutdown(s, m),
           NEW p, p = IF CleanupSucceeds(s, m) /\ c.phase = "running"
                      THEN [c EXCEPT !.phase = "quitting"] ELSE c,
           NEW r, r = Left(p)
    PROVE  Proper(s, r)
<1>1. PICK x : x = Circumstances(s)
  OBVIOUS
<1>2. PICK y : y = IF CleanupSucceeds(s, m) THEN x \cup {"gate"} ELSE x \ {"gate"}
  OBVIOUS
<1>3. /\ Base(y, c) /\ PauseHolds(c) /\ ("timed" \in y => PauseIsTimed(c))
      /\ IntentWaits(c) \/ (CleanupSucceeds(s, m) /\ c.ctl.own = "Released")
      /\ ~s.gate /\ c.gate => c.ctl.own = "Released" /\ ~HandoffPending(c)
  BY <1>1, <1>2, CircumstancesAre, Cleaned
<1>4. /\ "started" \in y
      /\ s.ctl.own = "Released" => "released" \in y
      /\ "icon" \notin Mishaps => "calm" \in y /\ "timed" \in y
  BY <1>1, <1>2, CircumstancesAre
<1>5. Good(y, p) /\ p.gate = c.gate /\ p.ctl = c.ctl /\ p.handoff = c.handoff
  <2>1. CASE CleanupSucceeds(s, m) /\ c.phase = "running"
    <3>1. p = [c EXCEPT !.phase = "quitting"]
      BY <2>1
    <3>2. /\ Base(y, p) /\ p.phase = "quitting" /\ p.ctl = c.ctl /\ p.gate = c.gate
          /\ p.handoff = c.handoff /\ p.desired = c.desired
          /\ p.scheduled = c.scheduled /\ p.armed = c.armed
      BY <1>3, <3>1, PhaseSet
    <3>3. IntentWaits(p)
      BY <1>3, <3>2 DEF IntentWaits, HandoffPending
    <3>4. PauseHolds(p) /\ ("timed" \in y => PauseIsTimed(p))
      BY <1>3, <2>1, <3>2 DEF PauseHolds, PauseIsTimed, PauseActive, HandoffPending
    <3> QED
      BY <3>2, <3>3, <3>4 DEF Good
  <2>2. CASE ~(CleanupSucceeds(s, m) /\ c.phase = "running")
    <3>1. p = c
      BY <2>2
    <3>2. IntentWaits(c)
      BY <1>3, <2>2 DEF IntentWaits
    <3> QED
      BY <1>3, <3>1, <3>2 DEF Good
  <2> QED
    BY <2>1, <2>2
<1>6. Good(y, r) /\ r.gate = p.gate
  BY <1>5, LeftIsGood
<1>7. ~s.gate /\ r.gate => r.ctl.own = "Released" /\ ~HandoffPending(r)
  <2>1. CASE p.phase = "overflow"
    BY <1>5, <2>1, ProcessDropped DEF Left, Good
  <2>2. CASE p.phase # "overflow"
    BY <1>3, <1>5, <1>6, <2>2 DEF Left, HandoffPending
  <2> QED
    BY <2>1, <2>2
<1> QED
  BY <1>4, <1>6, <1>7, Concluded

(* LoopEnds                                                                *)
LEMMA LoopEndsStep ==
    ASSUME NEW s, s.phase # "starting", Good(Circumstances(s), s), NEW m \in MishapSets,
           NEW c, c = cleanup_normal_shutdown(s, m),
           NEW p, p = [Dropped(c) EXCEPT !.phase = "exited"], NEW r, r = Left(p)
    PROVE  Proper(s, r)
<1>1. PICK x : x = Circumstances(s)
  OBVIOUS
<1>2. PICK y : y = IF CleanupSucceeds(s, m) THEN x \cup {"gate"} ELSE x \ {"gate"}
  OBVIOUS
<1>3. PICK d : d = Dropped(c)
  OBVIOUS
<1>4. Base(y, c)
  BY <1>1, <1>2, CircumstancesAre, Cleaned
<1>5. /\ "started" \in y
      /\ s.ctl.own = "Released" => "released" \in y
      /\ "icon" \notin Mishaps => "calm" \in y /\ "timed" \in y
  BY <1>1, <1>2, CircumstancesAre
<1>6. Base(y, d) /\ d.ctl.own = "Released" /\ ~HandoffPending(d) /\ d.desired = None
  BY <1>3, <1>4, ProcessDropped
<1>7. /\ Base(y, p) /\ p.phase = "exited" /\ p.ctl = d.ctl
      /\ p.handoff = d.handoff /\ p.desired = d.desired
  BY <1>3, <1>6, PhaseSet
<1>8. Good(y, p)
  BY <1>6, <1>7 DEF Good, IntentWaits, PauseHolds, PauseIsTimed
<1>9. r = p
  BY <1>7 DEF Left
<1> QED
  BY <1>5, <1>6, <1>7, <1>8, <1>9, Concluded DEF HandoffPending

(* Another thread reports an anomaly.                                      *)
LEMMA AnomalySet ==
    ASSUME NEW x, NEW s, Good(x, s), NEW r,
           r = [s EXCEPT !.pending = Capped(@ + 1, AnomalyLimit)]
    PROVE  Good(x, r)
<1>1. s \in App
  BY DEF Good, Base, Settled
<1>2. PICK n : n = Capped(s.pending + 1, AnomalyLimit)
  OBVIOUS
<1>3. n \in 0..AnomalyLimit
  BY <1>1, <1>2, Fields, PolicyAssumption DEF Capped
<1>4. r = [s EXCEPT !.pending = n]
  BY <1>2
<1>5. \A v \in 0..AnomalyLimit : [s EXCEPT !.pending = v] \in App
  BY <1>1, NumberSetters
<1>6. r \in App
  BY <1>3, <1>4, <1>5, Zenon
<1>7. r.ctl = s.ctl /\ Others(s, r)
  BY <1>1, <1>4 DEF App, Others, Stable
<1> QED
  BY <1>6, <1>7, NeutralKeeps

(* Every action is one proper message, or none.                            *)
LEMMA AppStep ==
    ASSUME EngineIInv, Next
    PROVE  app' = app \/ Proper(app, app')
<1> DEFINE x == Circumstances(app)
<1>1. Good(x, app) /\ (\A m \in MishapSets : Fits(x, m)) /\ Fresh(x, app)
  BY CircumstancesAre DEF EngineIInv, Fresh
<1>2. os \in PowerState
  BY TrayEngineAssumption DEF EngineIInv, TypeOK
<1>3. app \in App
  BY DEF EngineIInv, TypeOK
<1>4. \A p : Becomes(p) <=> app' = Left(p)
  BY DEF Becomes, Left
<1>5. \A p : Handle(p) => app' = Left(p)
  BY <1>4 DEF Handle
<1>6. \A p : app.phase # "starting" /\ Good(x, p) /\ app' = Left(p) => Proper(app, app')
  BY Message
<1>7. ASSUME startup PROVE Proper(app, app')
  <2>1. PICK m \in MishapSets, probed \in BOOLEAN : Handle(Startup(app, probed, m))
    BY <1>7 DEF startup
  <2>2. PICK y : y = x \cup {"started"}
    OBVIOUS
  <2>3. PICK p : p = Startup(app, probed, m)
    OBVIOUS
  <2>4. Good(y, p)
    BY <1>1, <1>7, <2>2, <2>3, Started DEF startup, EngineIInv
  <2>5. app' = Left(p)
    BY <1>5, <2>1, <2>3
  <2>6. Good(y, app')
    BY <2>4, <2>5, LeftIsGood
  <2>7. app'.gate <=> app.gate
    BY <2>2, <2>6, CircumstancesAre DEF Good, Base, Frame
  <2> QED
    BY <2>2, <2>6, <2>7, CircumstancesAre, Concluded
<1>8. ASSUME MenuStart PROVE Proper(app, app')
  <2>1. PICK m \in MishapSets : Handle(manual_start(app, m))
    BY <1>8 DEF MenuStart
  <2>2. Good(x, manual_start(app, m))
    BY <1>1, ManualStart
  <2> QED
    BY <1>5, <1>6, <1>8, <2>1, <2>2 DEF MenuStart, Running
<1>9. ASSUME MenuStop PROVE Proper(app, app')
  <2>1. PICK m \in MishapSets : Handle(manual_stop(app, m))
    BY <1>9 DEF MenuStop
  <2>2. Good(x, manual_stop(app, m))
    BY <1>1, ManualStop
  <2> QED
    BY <1>5, <1>6, <1>9, <2>1, <2>2 DEF MenuStop, Running
<1>10. ASSUME MenuSchedule PROVE Proper(app, app')
  <2>1. PICK a \in Actions, m \in MishapSets : Handle(schedule_duration_action(app, a, m))
    BY <1>10 DEF MenuSchedule
  <2>2. Good(x, schedule_duration_action(app, a, m))
    BY <1>1, ActionScheduled, TrayEngineAssumption
  <2> QED
    BY <1>5, <1>6, <1>10, <2>1, <2>2 DEF MenuSchedule, Running
<1>11. ASSUME MenuCancel PROVE Proper(app, app')
  <2>1. PICK m \in MishapSets : Handle(cancel_scheduled_action(app, os, m))
    BY <1>11 DEF MenuCancel
  <2>2. Good(x, cancel_scheduled_action(app, os, m))
    BY <1>1, <1>2, ScheduleCancelled
  <2> QED
    BY <1>5, <1>6, <1>11, <2>1, <2>2 DEF MenuCancel, Running
<1>12. ASSUME ToggleAutomatic PROVE Proper(app, app')
  <2>1. PICK m \in MishapSets : Handle(set_automatic(app, ~app.automatic, m))
    BY <1>12 DEF ToggleAutomatic
  <2>2. Good(x, set_automatic(app, ~app.automatic, m))
    BY <1>1, AutomaticSet
  <2> QED
    BY <1>5, <1>6, <1>12, <2>1, <2>2 DEF ToggleAutomatic, Running
<1>13. ASSUME ToggleAutoResume PROVE Proper(app, app')
  <2>1. PICK m \in MishapSets : Handle(set_auto_resume(app, ~app.auto_resume, m))
    BY <1>13 DEF ToggleAutoResume
  <2>2. Good(x, set_auto_resume(app, ~app.auto_resume, m))
    BY <1>1, AutoResumeSet
  <2> QED
    BY <1>5, <1>6, <1>13, <2>1, <2>2 DEF ToggleAutoResume, Running
<1>14. ASSUME ToggleLockout PROVE Proper(app, app')
  <2>1. PICK m \in MishapSets : Handle(set_battery_lockout(app, ~app.lockout, m))
    BY <1>14 DEF ToggleLockout
  <2>2. Good(x, set_battery_lockout(app, ~app.lockout, m))
    BY <1>1, LockoutSet
  <2> QED
    BY <1>5, <1>6, <1>14, <2>1, <2>2 DEF ToggleLockout, Running
<1>15. ASSUME SettingsReset PROVE Proper(app, app')
  <2>1. PICK m \in MishapSets : Handle(handle_settings_reset(app, m))
    BY <1>15 DEF SettingsReset
  <2>2. Good(x, handle_settings_reset(app, m))
    BY <1>1, SettingsWereReset
  <2> QED
    BY <1>5, <1>6, <1>15, <2>1, <2>2 DEF SettingsReset, Running
<1>16. ASSUME Quit PROVE Proper(app, app')
  <2>1. PICK m \in MishapSets :
           Handle(IF CleanupSucceeds(app, m) /\ cleanup_normal_shutdown(app, m).phase = "running"
                  THEN [cleanup_normal_shutdown(app, m) EXCEPT !.phase = "quitting"]
                  ELSE cleanup_normal_shutdown(app, m))
    BY <1>16 DEF Quit
  <2>2. PICK c : c = cleanup_normal_shutdown(app, m)
    OBVIOUS
  <2>3. PICK p : p = IF CleanupSucceeds(app, m) /\ c.phase = "running"
                     THEN [c EXCEPT !.phase = "quitting"] ELSE c
    OBVIOUS
  <2>4. app' = Left(p)
    BY <1>5, <2>1, <2>2, <2>3
  <2>5. app.phase # "starting"
    BY <1>16 DEF Quit, Running
  <2> QED
    BY <1>1, <2>2, <2>3, <2>4, <2>5, QuitStep
<1>17. ASSUME LoopEnds PROVE Proper(app, app')
  <2>1. PICK m \in MishapSets :
           Handle([Dropped(cleanup_normal_shutdown(app, m)) EXCEPT !.phase = "exited"])
    BY <1>17 DEF LoopEnds
  <2>2. PICK c : c = cleanup_normal_shutdown(app, m)
    OBVIOUS
  <2>3. PICK p : p = [Dropped(c) EXCEPT !.phase = "exited"]
    OBVIOUS
  <2>4. app' = Left(p)
    BY <1>5, <2>1, <2>2, <2>3
  <2>5. app.phase # "starting"
    BY <1>17 DEF LoopEnds, Running
  <2> QED
    BY <1>1, <2>2, <2>3, <2>4, <2>5, LoopEndsStep
<1>18. ASSUME drain_ipc_command_queue PROVE Proper(app, app')
  <2>1. PICK m \in MishapSets :
           \/ Becomes(manual_start(app, m)) \/ Becomes(manual_stop(app, m))
           \/ \E a \in Actions : Becomes(schedule_duration_action(app, a, m))
           \/ Becomes(cancel_scheduled_action(app, os, m)) \/ Becomes(app)
    BY <1>18 DEF drain_ipc_command_queue
  <2>2. app.phase # "starting"
    BY <1>18 DEF drain_ipc_command_queue, Pumping
  <2>3. /\ Good(x, manual_start(app, m)) /\ Good(x, manual_stop(app, m))
        /\ Good(x, cancel_scheduled_action(app, os, m))
    BY <1>1, <1>2, ManualStart, ManualStop, ScheduleCancelled
  <2>4. \A a \in Actions : Good(x, schedule_duration_action(app, a, m))
    BY <1>1, ActionScheduled, TrayEngineAssumption
  <2> QED
    BY <1>1, <1>4, <1>6, <2>1, <2>2, <2>3, <2>4
<1>19. ASSUME HandoffTimer PROVE Proper(app, app')
  <2>1. PICK m \in MishapSets : Handle(handle_handoff_timer(app, m))
    BY <1>19 DEF HandoffTimer
  <2>2. Good(x, handle_handoff_timer(app, m))
    BY <1>1, <1>19, HandoffTimerHandled DEF HandoffTimer
  <2> QED
    BY <1>5, <1>6, <1>19, <2>1, <2>2 DEF HandoffTimer, Running
<1>20. ASSUME DurationTimer PROVE Proper(app, app')
  <2>1. PICK m \in MishapSets : Handle(handle_duration_timer(app, os, m))
    BY <1>20 DEF DurationTimer
  <2>2. Good(x, handle_duration_timer(app, os, m))
    BY <1>1, <1>2, DurationTimerHandled
  <2> QED
    BY <1>5, <1>6, <1>20, <2>1, <2>2 DEF DurationTimer, Running
<1>21. ASSUME DebounceTimer PROVE Proper(app, app')
  <2>1. PICK m \in MishapSets : Handle(handle_power_debounce_timer(app, m))
    BY <1>21 DEF DebounceTimer
  <2>2. Good(x, handle_power_debounce_timer(app, m))
    BY <1>1, DebounceTimerHandled
  <2> QED
    BY <1>5, <1>6, <1>21, <2>1, <2>2 DEF DebounceTimer, Running
<1>22. ASSUME SurfaceTimer PROVE Proper(app, app')
  <2>1. PICK m \in MishapSets : Handle(service_surface_recovery(app, m))
    BY <1>22 DEF SurfaceTimer
  <2>2. Good(x, service_surface_recovery(app, m))
    BY <1>1, SurfaceServiced
  <2> QED
    BY <1>5, <1>6, <1>22, <2>1, <2>2 DEF SurfaceTimer, Running
<1>23. ASSUME Republish PROVE Proper(app, app')
  <2>1. PICK m \in MishapSets : Handle(Publish(app, m))
    BY <1>23 DEF Republish
  <2>2. Good(x, Publish(app, m))
    BY <1>1, GoodPublished
  <2> QED
    BY <1>5, <1>6, <1>23, <2>1, <2>2 DEF Republish, Running
<1>24. ASSUME TaskbarCreated PROVE Proper(app, app')
  <2>1. PICK m \in MishapSets : Handle(restore_tray_icon(app, m))
    BY <1>24 DEF TaskbarCreated
  <2>2. Good(x, restore_tray_icon(app, m))
    BY <1>1, IconRestored
  <2> QED
    BY <1>5, <1>6, <1>24, <2>1, <2>2 DEF TaskbarCreated, Running
<1>25. ASSUME PowerStatusChange PROVE Proper(app, app')
  <2>1. PICK m \in MishapSets :
           Becomes(handle_power_broadcast_event(refresh_power(app, os, m), m))
    BY <1>25 DEF PowerStatusChange
  <2>2. Good(x, refresh_power(app, os, m))
    BY <1>1, <1>2, PowerRefreshed
  <2>3. Good(x, handle_power_broadcast_event(refresh_power(app, os, m), m))
    BY <1>1, <2>2, PowerBroadcastHandled
  <2> QED
    BY <1>4, <1>6, <1>25, <2>1, <2>3 DEF PowerStatusChange, Pumping
<1>26. ASSUME Suspend PROVE Proper(app, app')
  <2>1. PICK m \in MishapSets : Handle(release_for_power_change(app, m))
    BY <1>26 DEF Suspend
  <2>2. Good(x, release_for_power_change(app, m))
    BY <1>1, PowerChangeReleased
  <2> QED
    BY <1>5, <1>6, <1>26, <2>1, <2>2 DEF Suspend, Pumping
<1>27. ASSUME Resume PROVE Proper(app, app')
  <2>1. PICK m \in MishapSets : Handle(ResumeEvent(app, os, m))
    BY <1>27 DEF Resume
  <2>2. Good(x, ResumeEvent(app, os, m))
    BY <1>1, <1>2, ResumeHandled
  <2> QED
    BY <1>5, <1>6, <1>27, <2>1, <2>2 DEF Resume, Pumping
<1>28. ASSUME DeadlinePasses PROVE Proper(app, app')
  <2>1. app' = [app EXCEPT !.due = TRUE] /\ app.phase # "starting"
    BY <1>28 DEF DeadlinePasses, Pumping
  <2>2. Good(x, app')
    BY <1>1, <2>1, FlagSet
  <2>3. app'.gate <=> app.gate
    BY <2>2, CircumstancesAre DEF Good, Base, Frame
  <2> QED
    BY <2>1, <2>2, <2>3, CircumstancesAre, Concluded
<1>29. ASSUME AnomalyReported PROVE Proper(app, app')
  <2>1. /\ app' = [app EXCEPT !.pending = Capped(@ + 1, AnomalyLimit)]
        /\ app.phase # "starting"
    BY <1>29 DEF AnomalyReported, Pumping
  <2>2. Good(x, app')
    BY <1>1, <2>1, AnomalySet
  <2>3. app'.gate <=> app.gate
    BY <2>2, CircumstancesAre DEF Good, Base, Frame
  <2> QED
    BY <2>1, <2>2, <2>3, CircumstancesAre, Concluded
<1>30. ASSUME IpcForward \/ PowerChanges PROVE app' = app
  BY <1>30 DEF IpcForward, PowerChanges
<1> QED
  BY <1>7, <1>8, <1>9, <1>10, <1>11, <1>12, <1>13, <1>14, <1>15, <1>16, <1>17, <1>18, <1>19,
     <1>20, <1>21, <1>22, <1>23, <1>24, <1>25, <1>26, <1>27, <1>28, <1>29, <1>30 DEF Next

(* What is around the UI thread keeps its type.                            *)
LEMMA EnvStep ==
    ASSUME TypeOK, [Next]_vars
    PROVE  /\ os' \in Powers /\ notice' \in BOOLEAN
           /\ request' \in Verbs \cup {None} /\ reported' \in 0..MaxAnomalies
<1>1. /\ os \in Powers /\ notice \in BOOLEAN
      /\ request \in Verbs \cup {None} /\ reported \in 0..MaxAnomalies
  BY DEF TypeOK
<1>2. CASE UNCHANGED env
  BY <1>1, <1>2 DEF env
<1>3. CASE drain_ipc_command_queue
  BY <1>1, <1>3 DEF drain_ipc_command_queue
<1>4. CASE IpcForward
  BY <1>1, <1>4 DEF IpcForward
<1>5. CASE PowerStatusChange
  BY <1>1, <1>5 DEF PowerStatusChange
<1>6. CASE PowerChanges
  BY <1>1, <1>6 DEF PowerChanges
<1>7. CASE AnomalyReported
  BY <1>1, <1>7, TrayEngineAssumption DEF AnomalyReported
<1>8. CASE startup \/ MenuStart \/ MenuStop \/ MenuSchedule \/ MenuCancel \/ Quit \/ LoopEnds
  <2>1. UNCHANGED env
    BY <1>8 DEF startup, MenuStart, MenuStop, MenuSchedule, MenuCancel, Quit, LoopEnds, Handle
  <2> QED
    BY <1>2, <2>1
<1>9. CASE ToggleAutomatic \/ ToggleAutoResume \/ ToggleLockout \/ SettingsReset
  <2>1. UNCHANGED env
    BY <1>9 DEF ToggleAutomatic, ToggleAutoResume, ToggleLockout, SettingsReset, Handle
  <2> QED
    BY <1>2, <2>1
<1>10. CASE HandoffTimer \/ DurationTimer \/ DebounceTimer \/ SurfaceTimer \/ Republish
            \/ TaskbarCreated
  <2>1. UNCHANGED env
    BY <1>10 DEF HandoffTimer, DurationTimer, DebounceTimer, SurfaceTimer, Republish,
                 TaskbarCreated, Handle
  <2> QED
    BY <1>2, <2>1
<1>11. CASE Suspend \/ Resume \/ DeadlinePasses
  <2>1. UNCHANGED env
    BY <1>11 DEF Suspend, Resume, DeadlinePasses, Handle
  <2> QED
    BY <1>2, <2>1
<1>12. CASE UNCHANGED vars
  BY <1>1, <1>12 DEF vars
<1> QED
  BY <1>3, <1>4, <1>5, <1>6, <1>7, <1>8, <1>9, <1>10, <1>11, <1>12 DEF Next

(* The process starts within the rules.                                    *)
LEMMA InitiallyGood ==
    ASSUME Init
    PROVE  EngineIInv
<1>1. PICK cfg \in Configs, seen \in {os} \cup (IF "power" \in Mishaps THEN {"Unknown"} ELSE {}) :
         app = [ctl |-> NewController(Requested),
                status |-> IF seen = os THEN "Stopped" ELSE "Degraded",
                handoff |-> NoHandoff, desired |-> None,
                scheduled |-> None, due |-> FALSE, armed |-> None,
                power |-> seen, debounce |-> None, resume |-> FALSE,
                automatic |-> cfg.automatic, auto_resume |-> cfg.auto_resume,
                lockout |-> cfg.lockout,
                tier |-> "Nominal", rejected |-> 0, anomalies |-> 0,
                pending |-> Capped(reported, AnomalyLimit),
                icon |-> TRUE, wake |-> "Off", attempts |-> 0, exhausted |-> FALSE,
                tracked |-> 0, gate |-> FALSE, ipc |-> TRUE, phase |-> "starting"]
  BY DEF Init
<1>2. PICK c : c = NewController(Requested)
  OBVIOUS
<1>3. c \in Controller(Nat) /\ CtlSound(c) /\ c.own = "Released" /\ c.bnd = NoInterval
  BY <1>2, NewIsSound
<1>4. /\ os \in Powers /\ notice \in BOOLEAN /\ request \in Verbs \cup {None}
      /\ reported \in 0..MaxAnomalies
  <2>1. reported \in 0..(IF MaxAnomalies < 2 THEN MaxAnomalies ELSE 2)
    BY DEF Init
  <2>2. MaxAnomalies \in Nat
    BY TrayEngineAssumption
  <2>3. reported \in 0..MaxAnomalies
    BY <2>1, <2>2
  <2>4. os \in Powers /\ notice = FALSE /\ request = None
    BY DEF Init
  <2> QED
    BY <2>3, <2>4
<1>5. PICK n : n = Capped(reported, AnomalyLimit)
  OBVIOUS
<1>6. PICK t : t = IF seen = os THEN "Stopped" ELSE "Degraded"
  OBVIOUS
<1>7. /\ n \in 0..AnomalyLimit /\ 0 \in 0..AnomalyLimit
      /\ 0 \in 0..RejectionLimit /\ 0 \in 0..SurfaceAttempts
      /\ 0 < RejectionLimit /\ 0 < SurfaceAttempts
  BY <1>4, <1>5, PolicyAssumption, TrayAppAssumption, TrayEngineAssumption DEF Capped
<1>8. t \in TrayStatus /\ t # "Starting" /\ seen \in PowerState /\ "Nominal" \in OperatingTier
  BY <1>4, <1>6, TrayEngineAssumption DEF TrayStatus, PowerState, OperatingTier
<1>9. cfg.automatic \in BOOLEAN /\ cfg.auto_resume \in BOOLEAN /\ cfg.lockout \in BOOLEAN
  BY TrayEngineAssumption
<1>10. NoHandoff \in [polls : -1..MaxPolls, paused : BOOLEAN, boundary : Option(Nat)]
  BY TrayAppAssumption DEF NoHandoff, Option, NoInterval, NoReading
<1>11. app \in App
  BY <1>1, <1>2, <1>3, <1>5, <1>6, <1>7, <1>8, <1>9, <1>10 DEF App, WakeState
<1>12. /\ app.ctl = c /\ app.status = t /\ app.handoff = NoHandoff /\ app.desired = None
       /\ app.scheduled = None /\ app.armed = None /\ app.tier = "Nominal"
       /\ app.rejected = 0 /\ app.icon = TRUE /\ app.attempts = 0
       /\ app.tracked = 0 /\ app.gate = FALSE /\ app.phase = "starting"
  BY <1>1, <1>2, <1>6
<1>13. Pristine(app)
  BY <1>3, <1>12 DEF Pristine, HandoffPending, PauseActive, None
<1>14. Settled(app)
  BY <1>3, <1>7, <1>11, <1>12
     DEF Settled, Covered, TrackedInterval, Floored, TierFits, HasAttempts
<1>15. Base(Circumstances(app), app)
  BY <1>3, <1>8, <1>12, <1>13, <1>14, CircumstancesAre
     DEF Base, Frame, Pristine, Watched, TimerIsCurrent, Lawful
<1>16. Good(Circumstances(app), app)
  BY <1>13, <1>15 DEF Good, Pristine, IntentWaits, PauseHolds, PauseIsTimed
<1> QED
  BY <1>4, <1>11, <1>13, <1>16 DEF EngineIInv, TypeOK

(* The inductive invariant is kept.                                        *)
LEMMA EngineStep ==
    ASSUME EngineIInv, [Next]_vars
    PROVE  EngineIInv'
<1>1. app' = app \/ Proper(app, app')
  BY AppStep DEF vars
<1>2. Good(Circumstances(app'), app') /\ (app'.phase = "starting" => Pristine(app'))
  BY <1>1 DEF EngineIInv, Proper
<1>3. app' \in App
  BY <1>2 DEF Good, Base, Settled
<1>4. TypeOK'
  BY <1>3, EnvStep DEF EngineIInv, TypeOK
<1> QED
  BY <1>2, <1>4 DEF EngineIInv

-----------------------------------------------------------------------------
(* The inductive invariant holds: between any two messages the controller  *)
(* is sound, the tier is settled, windows are watched, timers current and  *)
(* intents waiting behind a handoff (TrayEngine).                          *)
THEOREM EngineInvariance == Spec => []EngineIInv
<1>1. Init => EngineIInv
  BY InitiallyGood
<1>2. EngineIInv /\ [Next]_vars => EngineIInv'
  BY EngineStep
<1> QED
  BY <1>1, <1>2, PTL DEF Spec

(* Every operator of the tray application returns an App, whatever goes    *)
(* wrong in a message: counters stay within their limits.                  *)
THEOREM TypeCorrect == Spec => []TypeOK
<1>1. EngineIInv => TypeOK
  BY DEF EngineIInv
<1> QED
  BY <1>1, EngineInvariance, PTL

(* No intent is stranded: desired_intent is taken in the message that set  *)
(* it, or waits for a pending handoff (queue_intent,                       *)
(* process_desired_intent, handle_handoff_timer).                          *)
THEOREM IntentsAreProcessed == Spec => []NoStrandedIntent
<1>1. EngineIInv => NoStrandedIntent
  BY DEF EngineIInv, Good, Base, Frame, IntentWaits, NoStrandedIntent, Running
<1> QED
  BY <1>1, EngineInvariance, PTL

(* A handoff is watched only after its release is over, and it remembers   *)
(* the window of that release (begin_handoff, guarded_release).            *)
THEOREM HandoffsFollowReleases == Spec => []HandoffIsReleased
<1>1. EngineIInv => HandoffIsReleased
  BY DEF EngineIInv, Good, Base, Settled, CtlSound, Frame, Watched, HandoffIsReleased
<1> QED
  BY <1>1, EngineInvariance, PTL

(* No release window stays open without a watcher (begin_handoff,          *)
(* handle_handoff_timer, cleanup_normal_shutdown).                         *)
THEOREM WindowsAreWatched == Spec => []WindowIsWatched
<1>1. EngineIInv => WindowIsWatched
  BY DEF EngineIInv, Good, Base, Frame, Watched, WindowIsWatched
<1> QED
  BY <1>1, EngineInvariance, PTL

(* An armed duration timer belongs to the schedule that is shown           *)
(* (schedule_duration_action, cancel_scheduled_action).                    *)
THEOREM TimersAreCurrent == Spec => []ArmedIsCurrent
<1>1. EngineIInv => ArmedIsCurrent
  BY DEF EngineIInv, Good, Base, Frame, TimerIsCurrent, ArmedIsCurrent
<1> QED
  BY <1>1, EngineInvariance, PTL

(* Nothing is acquired during a pause: what is still owned then is what a  *)
(* failed release left unverified (schedule_duration_action,               *)
(* process_desired_intent, apply_power_reconciliation).                    *)
THEOREM PausesSuppress == Spec => []PauseSuppresses
<1>1. EngineIInv => PauseSuppresses
  BY DEF EngineIInv, Good, PauseHolds, PauseSuppresses
<1> QED
  BY <1>1, EngineInvariance, PTL

(* As long as no call for the tray icon fails, a pause has its timer armed *)
(* or a handoff that will arm it (arm_duration_timer,                      *)
(* handle_handoff_timer).                                                  *)
THEOREM PausesAreTimed == Spec => []("icon" \notin Mishaps => PauseWillEnd)
<1>1. EngineIInv => ("icon" \notin Mishaps => PauseWillEnd)
  BY CircumstancesAre DEF EngineIInv, Good, PauseIsTimed, PauseWillEnd, Running
<1> QED
  BY <1>1, EngineInvariance, PTL

(* No clamp of a degraded tier and no probe takes the selected interval of *)
(* an ownership away, so its release reaches the kernel (EnterTier,        *)
(* acquire_timer, stop).                                                   *)
THEOREM ReleasesReachKernel == Spec => []ReleaseReachesKernel
<1>1. EngineIInv => ReleaseReachesKernel
  BY DEF EngineIInv, Good, Base, Settled, CtlSound, ReleaseReachesKernel
<1> QED
  BY <1>1, EngineInvariance, PTL

(* Between messages the emergency path tracks exactly what is owned        *)
(* (publish, publish_tracked_interval).                                    *)
THEOREM EmergencyIsTold == Spec => []EmergencyCoversOwned
<1>1. EngineIInv => EmergencyCoversOwned
  BY DEF EngineIInv, Good, Base, Settled, CtlSound, Covered, TrackedInterval,
         EmergencyCoversOwned
<1> QED
  BY <1>1, EngineInvariance, PTL

(* A lost icon puts the tier into SurfaceDegraded with its retries armed,  *)
(* used up or refused by SetTimer, unless rejections or anomalies hold it  *)
(* (refresh_operating_tier, advance_surface_recovery).                     *)
THEOREM LostIconsAreRetried == Spec => []SurfaceIsRetried
<1>1. EngineIInv => SurfaceIsRetried
  BY DEF EngineIInv, Good, Base, Settled, TierFits, App, WakeState, SurfaceIsRetried
<1> QED
  BY <1>1, EngineInvariance, PTL

(* A message that acquires the timer does so with the power it saw and the *)
(* lockout permitting it and with no pause active (process_desired_intent, *)
(* apply_power_reconciliation).                                            *)
THEOREM AcquisitionsArePermitted == Spec => AcquireIsPermitted
<1>1. EngineIInv /\ [Next]_vars =>
        [Acquires => decide(app'.power, app'.lockout) /\ ~PauseActive(app')]_vars
  <2>1. SUFFICES ASSUME EngineIInv, [Next]_vars, Acquires
                 PROVE  decide(app'.power, app'.lockout) /\ ~PauseActive(app')
    OBVIOUS
  <2>2. Proper(app, app')
    BY <2>1, AppStep DEF Acquires, vars
  <2> QED
    BY <2>1, <2>2 DEF Acquires, Proper, Permitted
<1> QED
  BY <1>1, EngineInvariance, PTL DEF Spec, AcquireIsPermitted

(* A message that acquires the timer leaves no handoff pending             *)
(* (process_desired_intent, begin_handoff).                                *)
THEOREM AcquisitionsWaitForHandoffs == Spec => AcquireAfterHandoff
<1>1. EngineIInv /\ [Next]_vars => [Acquires => ~HandoffPending(app')]_vars
  <2>1. SUFFICES ASSUME EngineIInv, [Next]_vars, Acquires
                 PROVE  ~HandoffPending(app')
    OBVIOUS
  <2>2. Proper(app, app')
    BY <2>1, AppStep DEF Acquires, vars
  <2> QED
    BY <2>1, <2>2 DEF Acquires, Proper, Good, Base, Frame, Watched
<1> QED
  BY <1>1, EngineInvariance, PTL DEF Spec, AcquireAfterHandoff

(* The shutdown gate opens with nothing owned, nothing requested and no    *)
(* handoff pending (cleanup_normal_shutdown).                              *)
THEOREM GateOpensSettled == Spec => GateOpensReleased
<1>1. EngineIInv /\ [Next]_vars =>
        [~app.gate /\ app'.gate =>
           app'.ctl.own = "Released" /\ ~app'.ctl.held /\ ~HandoffPending(app')]_vars
  <2>1. SUFFICES ASSUME EngineIInv, [Next]_vars, ~app.gate, app'.gate
                 PROVE  app'.ctl.own = "Released" /\ ~app'.ctl.held /\ ~HandoffPending(app')
    OBVIOUS
  <2>2. Proper(app, app')
    BY <2>1, AppStep DEF vars
  <2> QED
    BY <2>1, <2>2 DEF Proper, Good, Base, Settled, CtlSound
<1> QED
  BY <1>1, EngineInvariance, PTL DEF Spec, GateOpensReleased
=============================================================================
