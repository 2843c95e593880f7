--------------------------- MODULE LauncherProofs ---------------------------
(***************************************************************************)
(* The launcher for any number of launcher processes, any failure          *)
(* threshold and any number of releases and changes to the package.        *)
(***************************************************************************)
EXTENDS Launcher, TLAPS

\* The stages of a launcher whose slot has been verified, and those of a restoration.
AcceptedStages == {"swap", "clear", "remove", "restored", "clearA", "removeA", "clearB",
                   "removeB", "commit", "spawn"}
RestoredStages == {"copied", "restored", "clearA", "removeA", "clearB", "removeB"}

Accepted(l, s) == pc[l] \in AcceptedStages /\ slot[l] = s

\* A launcher that found slot s unfit and has not restored it since.
Rejected(l, s) ==
    \/ pc[l] \in {"countStandby", "writeStandby", "golden", "copied"}
    \/ pc[l] \in {"count", "write", "standby"} /\ slot[l] = s
    \/ pc[l] = "repair" /\ parse_active_slot # "none"

\* The golden master is no way out.
Unrestorable == ~Restorable

\* No restoration has made slot s what it is now.
Original(s) == Unrestorable \/ (s = "A" /\ file["A"] # file["Recovery"])

\* A launcher that may still write or remove the failure counter of slot s.
Tracks(l, s) ==
    \/ pc[l] \in {"count", "write", "standby", "swap", "clear", "remove"} /\ slot[l] = s
    \/ pc[l] \in {"countStandby", "writeStandby", "golden"} \cup RestoredStages

\* What a launcher has accepted verifies, now and until it is started.
AcceptedIsVerified ==
    \A l \in Launchers, s \in Slots : Accepted(l, s) => verify_slot_executable(s)

\* During a restoration slot A is the golden master, whose checksum is right and which has
\* its configuration.
RestoredIsGolden ==
    \A l \in Launchers : pc[l] \in RestoredStages =>
        slot[l] = "A" /\ file["A"] = file["Recovery"] /\ verify_golden_master /\ goldenConfig

\* Launchers agree about a slot that was not restored: as long as one of them is about to
\* start it no other has rejected it, and a rejected one that verifies has failed too often.
Agreement ==
    \A s \in Slots : Original(s) =>
        /\ \A l, m \in Launchers : Accepted(l, s) =>
              health[s] < BootFailureThreshold /\ ~Rejected(m, s)
        /\ \A l \in Launchers : Rejected(l, s) /\ verify_slot_executable(s) =>
              /\ health[s] >= BootFailureThreshold
              /\ pc[l] \in {"write", "writeStandby"} /\ slot[l] = s =>
                     count[l] >= BootFailureThreshold

\* The counter that waits to be committed is that of the manifest; where none waits the
\* recorded one covers it.
CounterWaits ==
    \A l \in Launchers : pc[l] \in AcceptedStages =>
        \/ pending[l] = 0 /\ manifest.counter <= seen
        \/ pending[l] # 0 /\ pending[l] = manifest.counter /\ pc[l] # "spawn"

\* The repair dialog follows a failed restoration, or an active-slot.txt that is of no use,
\* and then no launcher comes further.
RepairHasReason ==
    \A l \in Launchers :
        /\ pc[l] = "repair" /\ parse_active_slot # "none" => Unrestorable
        /\ parse_active_slot = "none" => pc[l] \in {"idle"} \cup Dialog

\* A launcher only touches failure counters that it could read, so that one that cannot be
\* read stays what it is.
HealthReadable ==
    \A l \in Launchers :
        /\ \A s \in Slots : Tracks(l, s) => health[s] # UnparsableHealth
        /\ pc[l] = "unreadable" => \E s \in Slots : health[s] = UnparsableHealth

LauncherIInv == /\ LauncherTypeOK /\ AcceptedIsVerified /\ RestoredIsGolden /\ Agreement
                /\ CounterWaits /\ RepairHasReason /\ HealthReadable /\ NewestIsRecorded

-----------------------------------------------------------------------------
(* What the checks see                                                     *)

Pcs == {"idle", "count", "write", "standby", "countStandby", "writeStandby", "swap", "golden",
        "copied", "restored", "commit", "spawn", "repair", "unreadable", "failed",
        "clear", "clearA", "clearB", "remove", "removeA", "removeB"}

LEMMA Domains ==
    /\ DOMAIN Removal = {"clear", "clearA", "clearB"}
    /\ DOMAIN AfterClear = {"clear", "clearA", "clearB", "remove", "removeA", "removeB"}
    /\ BootFailureThreshold \in Nat \ {0} /\ HealthCap = BootFailureThreshold + 1
    /\ UnparsableHealth = BootFailureThreshold + 2
    /\ MaxRelease \in Nat /\ UnparsableCounter = MaxRelease + 1
BY LauncherAssumption
DEF Removal, AfterClear, HealthCap, UnparsableHealth, UnparsableCounter

LEMMA PcType ==
    ASSUME LauncherTypeOK, NEW l \in Launchers
    PROVE  pc[l] \in Pcs
BY Domains DEF LauncherTypeOK, Pcs, Dialog

LEMMA PcChange ==
    ASSUME LauncherTypeOK, NEW l \in Launchers, NEW p \in Pcs, Goto(l, p)
    PROVE  /\ pc' \in [Launchers -> {"idle", "count", "write", "standby", "countStandby",
                             "writeStandby", "swap", "golden", "copied", "restored",
                             "commit", "spawn"} \cup Dialog \cup DOMAIN AfterClear]
           /\ pc'[l] = p /\ \A m \in Launchers \ {l} : pc'[m] = pc[m]
BY Domains DEF LauncherTypeOK, Pcs, Goto, Dialog

\* As long as the files and the recorded counter stay, so does what is said of them.
LEMMA SameFiles ==
    ASSUME UNCHANGED <<file, manifest, sums, goldenConfig, seen>>
    PROVE  /\ verify_golden_master' <=> verify_golden_master
           /\ Unrestorable' <=> Unrestorable
           /\ \A s \in Slots : /\ verify_slot_executable(s)' <=> verify_slot_executable(s)
                               /\ Original(s)' <=> Original(s)
           /\ PendingCounter' = PendingCounter
BY DEF verify_golden_master, verify_entry_digest, Unrestorable, Restorable, verify_slot_integrity,
       verify_slot_integrity_checksum, prepare_signed_manifest, verify_manifest,
       verify_slot_executable, Original, PendingCounter

\* Nor do they change when the counter of a manifest that was not refused is recorded.
LEMMA CounterRecorded ==
    ASSUME UNCHANGED <<file, manifest, sums, goldenConfig>>, seen \in Nat, manifest.counter \in Nat,
           seen' = manifest.counter, manifest.counter >= seen
    PROVE  /\ verify_golden_master' <=> verify_golden_master
           /\ Unrestorable' <=> Unrestorable
           /\ \A s \in Slots : /\ verify_slot_executable(s)' <=> verify_slot_executable(s)
                               /\ Original(s)' <=> Original(s)
BY DEF verify_golden_master, verify_entry_digest, Unrestorable, Restorable, verify_slot_integrity,
       verify_slot_integrity_checksum, prepare_signed_manifest, verify_manifest,
       verify_slot_executable, Original

\* active-slot.txt stays of use once it is.
LEMMA ParseSlot ==
    ASSUME LauncherTypeOK
    PROVE  /\ parse_active_slot \in Slots \cup {"none"}
           /\ parse_active_slot = "none" <=>
                 \/ active = "absent"
                 \/ active = "garbled" /\ file["A"] = "absent" /\ file["B"] = "absent"
BY DEF LauncherTypeOK, parse_active_slot, fallback_slot_from_installed_executables, Slots

LEMMA LauncherInitially == LauncherInit => LauncherIInv
<1> SUFFICES ASSUME LauncherInit PROVE LauncherIInv
  OBVIOUS
<1>1. LauncherTypeOK
  <2>1. /\ file \in [Files -> Contents \cup {"absent"}]
        /\ sums \in [Files -> Contents \cup {"absent"}]
        /\ manifest \in [counter : 0..MaxRelease, valid : BOOLEAN,
                         entries : [Files -> Contents \cup {"absent"}]]
    BY LauncherAssumption DEF LauncherInit, Contents, Unsigned
  <2>2. /\ health \in [Slots -> 0..UnparsableHealth] /\ count \in [Launchers -> 0..HealthCap]
        /\ pending \in [Launchers -> 0..MaxRelease]
        /\ seen \in 0..UnparsableCounter /\ newest \in 0..MaxRelease /\ changes \in 0..MaxEvents
    BY LauncherAssumption, Domains DEF LauncherInit
  <2> QED
    BY <2>1, <2>2 DEF LauncherInit, LauncherTypeOK, Slots
<1>2. \A l \in Launchers : pc[l] = "idle"
  BY DEF LauncherInit
<1>3. /\ AcceptedIsVerified /\ RestoredIsGolden /\ Agreement /\ CounterWaits
      /\ RepairHasReason /\ HealthReadable
  BY <1>2 DEF AcceptedIsVerified, RestoredIsGolden, Agreement, CounterWaits, RepairHasReason,
       HealthReadable, Tracks, Accepted, Rejected, AcceptedStages, RestoredStages
<1> QED
  BY <1>1, <1>3 DEF LauncherIInv, LauncherInit, NewestIsRecorded

-----------------------------------------------------------------------------
(* The steps of a launcher                                                 *)

Others(l) == \A m \in Launchers \ {l} : /\ pc'[m] = pc[m] /\ slot'[m] = slot[m]
                                        /\ count'[m] = count[m] /\ pending'[m] = pending[m]

\* A launcher that is under way was not sent to the dialog by active-slot.txt.
LEMMA UnderWay ==
    ASSUME LauncherIInv, NEW l \in Launchers, pc[l] \notin {"idle"} \cup Dialog
    PROVE  parse_active_slot # "none"
BY DEF LauncherIInv, RepairHasReason

LEMMA Tables ==
    /\ Removal["clear"] = "remove" /\ Removal["clearA"] = "removeA" /\ Removal["clearB"] = "removeB"
    /\ AfterClear["clear"] = "commit" /\ AfterClear["clearA"] = "clearB"
    /\ AfterClear["clearB"] = "commit" /\ AfterClear["remove"] = "commit"
    /\ AfterClear["removeA"] = "clearB" /\ AfterClear["removeB"] = "commit"
BY DEF Removal, AfterClear

\* A golden master that is whole and in place can be restored if it verifies there.
LEMMA RestorableIs ==
    ASSUME file["A"] = file["Recovery"], verify_golden_master, goldenConfig
    PROVE  Unrestorable <=> ~verify_slot_executable("A")
BY DEF verify_golden_master, verify_entry_digest, Unrestorable, Restorable,
       verify_slot_executable

LEMMA PendingType == ASSUME LauncherTypeOK PROVE PendingCounter \in 0..MaxRelease
BY LauncherAssumption DEF LauncherTypeOK, PendingCounter

LEMMA CountType ==
    ASSUME LauncherTypeOK, NEW s \in Slots
    PROVE  (IF health[s] < HealthCap THEN health[s] + 1 ELSE HealthCap) \in 0..HealthCap
BY Domains DEF LauncherTypeOK

\* What the check of slot s leaves behind.
LEMMA CheckSlotIs ==
    ASSUME LauncherTypeOK, NEW l \in Launchers, NEW s \in Slots, NEW accepted \in Pcs,
           NEW rejected \in Pcs, CheckSlot(l, s, accepted, rejected), UNCHANGED <<diskVars, newest>>
    PROVE  /\ LauncherTypeOK' /\ Others(l) /\ slot'[l] = s /\ count' = count
           /\ \/ health[s] = UnparsableHealth /\ pc'[l] = "unreadable"
              \/ /\ health[s] # UnparsableHealth
                 /\ \/ /\ verify_and_check_slot(s) /\ pc'[l] = accepted
                       /\ pending'[l] = PendingCounter
                    \/ ~verify_and_check_slot(s) /\ pc'[l] = rejected
<1>1. /\ pending' \in [Launchers -> 0..MaxRelease]
      /\ verify_and_check_slot(s) => pending'[l] = PendingCounter
      /\ \A m \in Launchers \ {l} : pending'[m] = pending[m]
  BY PendingType, Domains DEF CheckSlot, LauncherTypeOK
<1>2. /\ slot' \in [Launchers -> Slots] /\ UNCHANGED <<diskVars, newest, count>>
      /\ slot'[l] = s /\ \A m \in Launchers \ {l} : slot'[m] = slot[m]
  BY DEF CheckSlot, LauncherTypeOK
<1>3. PICK p \in Pcs : /\ Goto(l, p)
                       /\ \/ health[s] = UnparsableHealth /\ p = "unreadable"
                          \/ /\ health[s] # UnparsableHealth
                             /\ \/ verify_and_check_slot(s) /\ p = accepted
                                \/ ~verify_and_check_slot(s) /\ p = rejected
  <2>1. "unreadable" \in Pcs
    BY DEF Pcs
  <2>2. CASE health[s] = UnparsableHealth
    <3>1. ~verify_and_check_slot(s)
      BY <2>2, Domains DEF verify_and_check_slot
    <3>2. Goto(l, "unreadable")
      BY <2>2, <3>1 DEF CheckSlot
    <3> QED
      BY <2>1, <2>2, <3>2
  <2>3. CASE health[s] # UnparsableHealth /\ verify_and_check_slot(s)
    <3>1. Goto(l, accepted)
      BY <2>3 DEF CheckSlot
    <3> QED
      BY <2>3, <3>1
  <2>4. CASE health[s] # UnparsableHealth /\ ~verify_and_check_slot(s)
    <3>1. Goto(l, rejected)
      BY <2>4 DEF CheckSlot
    <3> QED
      BY <2>4, <3>1
  <2> QED
    BY <2>2, <2>3, <2>4
<1>4. /\ pc' \in [Launchers -> {"idle", "count", "write", "standby", "countStandby",
                             "writeStandby", "swap", "golden", "copied", "restored",
                             "commit", "spawn"} \cup Dialog \cup DOMAIN AfterClear]
      /\ pc'[l] = p /\ \A m \in Launchers \ {l} : pc'[m] = pc[m]
  BY <1>3, PcChange
<1>5. LauncherTypeOK'
  BY <1>1, <1>2, <1>4 DEF LauncherTypeOK, diskVars, packageVars
<1>6. Others(l)
  BY <1>1, <1>2, <1>4 DEF Others
<1> QED
  BY <1>1, <1>2, <1>3, <1>4, <1>5, <1>6

LEMMA ReadSlotHealthKeeps ==
    ASSUME LauncherIInv, NEW l \in Launchers, read_slot_health(l)
    PROVE  LauncherIInv'
<1> USE DEF LauncherIInv
<1>1. /\ UNCHANGED <<file, manifest, sums, goldenConfig, seen>>
      /\ Others(l)
      /\ pc[l] \in {"count", "countStandby"} /\ slot'[l] = slot[l]
      /\ pc'[l] = (IF pc[l] = "count" THEN "write" ELSE "writeStandby")
      /\ count'[l] = IF health[slot[l]] < HealthCap THEN health[slot[l]] + 1 ELSE HealthCap
      /\ health' = health /\ active' = active /\ newest' = newest
  BY PcChange DEF read_slot_health, diskVars, packageVars, Others, Pcs, LauncherTypeOK, Goto
<1>2. LauncherTypeOK'
  BY <1>1, Domains, CountType
  DEF LauncherTypeOK, read_slot_health, diskVars, packageVars, Goto, Dialog
<1>3. /\ verify_golden_master' <=> verify_golden_master
      /\ Unrestorable' <=> Unrestorable
      /\ \A s \in Slots : /\ verify_slot_executable(s)' <=> verify_slot_executable(s)
                          /\ Original(s)' <=> Original(s)
  BY <1>1, SameFiles
<1>4. parse_active_slot' = "none" <=> parse_active_slot = "none"
  BY <1>1 DEF parse_active_slot, fallback_slot_from_installed_executables
<1>5. AcceptedIsVerified'
  BY <1>1, <1>3 DEF AcceptedIsVerified, Accepted, AcceptedStages, Others
<1>6. RestoredIsGolden'
  BY <1>1, <1>3 DEF RestoredIsGolden, RestoredStages, Others
<1>7. Agreement'
  BY <1>1, <1>2, <1>3, <1>4, Domains
  DEF Agreement, AcceptedStages, RestoredStages, Accepted, Rejected, Others, LauncherTypeOK
<1>8. CounterWaits'
  BY <1>1 DEF CounterWaits, AcceptedStages, Others
<1>9. RepairHasReason'
  BY <1>1, <1>3, <1>4 DEF RepairHasReason, Dialog, Others
<1>10. NewestIsRecorded'
  BY <1>1 DEF NewestIsRecorded
<1>11. HealthReadable'
  BY <1>1 DEF HealthReadable, Tracks, RestoredStages, Others
<1> QED
  BY <1>2, <1>5, <1>6, <1>7, <1>8, <1>9, <1>10, <1>11

LEMMA IncrementSlotHealthKeeps ==
    ASSUME LauncherIInv, NEW l \in Launchers, increment_slot_health(l)
    PROVE  LauncherIInv'
<1> USE DEF LauncherIInv
<1>1. /\ UNCHANGED <<file, manifest, sums, goldenConfig, seen>>
      /\ Others(l)
      /\ pc[l] \in {"write", "writeStandby"} /\ slot'[l] = slot[l]
      /\ pc'[l] = (IF pc[l] = "write" THEN "standby" ELSE "golden")
      /\ health' = [health EXCEPT ![slot[l]] = count[l]]
      /\ active' = active /\ newest' = newest
  BY PcChange DEF increment_slot_health, packageVars, Others, Pcs, LauncherTypeOK, Goto
<1>2. LauncherTypeOK'
  BY <1>1, Domains DEF LauncherTypeOK, increment_slot_health, packageVars, Goto, Dialog
<1>3. /\ verify_golden_master' <=> verify_golden_master
      /\ Unrestorable' <=> Unrestorable
      /\ \A s \in Slots : /\ verify_slot_executable(s)' <=> verify_slot_executable(s)
                          /\ Original(s)' <=> Original(s)
  BY <1>1, SameFiles
<1>4. parse_active_slot' = "none" <=> parse_active_slot = "none"
  BY <1>1 DEF parse_active_slot, fallback_slot_from_installed_executables
<1>5. AcceptedIsVerified'
  BY <1>1, <1>3 DEF AcceptedIsVerified, Accepted, AcceptedStages, Others
<1>6. RestoredIsGolden'
  BY <1>1, <1>3 DEF RestoredIsGolden, RestoredStages, Others
<1>7. Agreement'
  BY <1>1, <1>2, <1>3, <1>4, Domains
  DEF Agreement, AcceptedStages, RestoredStages, Accepted, Rejected, Others, LauncherTypeOK
<1>8. CounterWaits'
  BY <1>1 DEF CounterWaits, AcceptedStages, Others
<1>9. RepairHasReason'
  BY <1>1, <1>3, <1>4 DEF RepairHasReason, Dialog, Others
<1>10. NewestIsRecorded'
  BY <1>1 DEF NewestIsRecorded
<1>11. HealthReadable'
  <2>1. Tracks(l, slot[l]) /\ slot[l] \in Slots /\ count[l] # UnparsableHealth
    BY <1>1, Domains DEF Tracks, LauncherTypeOK
  <2>2. \A s \in Slots : health[s] = UnparsableHealth <=> health'[s] = UnparsableHealth
    BY <1>1, <2>1 DEF HealthReadable, LauncherTypeOK
  <2> QED
    BY <1>1, <2>2 DEF HealthReadable, Tracks, RestoredStages, Others
<1> QED
  BY <1>2, <1>5, <1>6, <1>7, <1>8, <1>9, <1>10, <1>11

LEMMA WriteActiveSlotKeeps ==
    ASSUME LauncherIInv, NEW l \in Launchers, write_active_slot(l)
    PROVE  LauncherIInv'
<1> USE DEF LauncherIInv
<1>1. /\ UNCHANGED <<file, manifest, sums, goldenConfig, seen>>
      /\ Others(l)
      /\ pc[l] \in {"swap", "restored"} /\ slot'[l] = slot[l] /\ pending'[l] = pending[l]
      /\ pc'[l] = (IF pc[l] = "swap" THEN "clear" ELSE "clearA")
      /\ health' = health /\ active' = slot[l] /\ newest' = newest
  BY PcChange DEF write_active_slot, Others, Pcs, LauncherTypeOK, Goto
<1>2. LauncherTypeOK'
  BY <1>1, Domains DEF LauncherTypeOK, write_active_slot, Goto
<1>3. /\ verify_golden_master' <=> verify_golden_master
      /\ Unrestorable' <=> Unrestorable
      /\ \A s \in Slots : /\ verify_slot_executable(s)' <=> verify_slot_executable(s)
                          /\ Original(s)' <=> Original(s)
  BY <1>1, SameFiles
<1>4. parse_active_slot' = "none" <=> parse_active_slot = "none"
  BY <1>1, UnderWay
  DEF Dialog, parse_active_slot, fallback_slot_from_installed_executables, LauncherTypeOK, Slots
<1>5. AcceptedIsVerified'
  BY <1>1, <1>3 DEF AcceptedIsVerified, Accepted, AcceptedStages, Others
<1>6. RestoredIsGolden'
  BY <1>1, <1>3 DEF RestoredIsGolden, RestoredStages, Others
<1>7. Agreement'
  BY <1>1, <1>2, <1>3, <1>4, Domains
  DEF Agreement, AcceptedStages, RestoredStages, Accepted, Rejected, Others
<1>8. CounterWaits'
  BY <1>1 DEF CounterWaits, AcceptedStages, Others
<1>9. RepairHasReason'
  BY <1>1, <1>3, <1>4 DEF RepairHasReason, Dialog, Others
<1>10. NewestIsRecorded'
  BY <1>1 DEF NewestIsRecorded
<1>11. HealthReadable'
  BY <1>1 DEF HealthReadable, Tracks, RestoredStages, Others
<1> QED
  BY <1>2, <1>5, <1>6, <1>7, <1>8, <1>9, <1>10, <1>11

LEMMA FindSlotHealthKeeps ==
    ASSUME LauncherIInv, NEW l \in Launchers, find_slot_health(l)
    PROVE  LauncherIInv'
<1> USE DEF LauncherIInv
<1>1. /\ UNCHANGED <<file, manifest, sums, goldenConfig, seen>>
      /\ Others(l)
      /\ pc[l] \in {"clear", "clearA", "clearB"} /\ slot'[l] = slot[l] /\ pending'[l] = pending[l]
      /\ \/ pc[l] = "clear"  /\ pc'[l] \in {"commit", "remove"}
         \/ pc[l] = "clearA" /\ pc'[l] \in {"clearB", "removeA"}
         \/ pc[l] = "clearB" /\ pc'[l] \in {"commit", "removeB"}
      /\ health' = health /\ active' = active /\ newest' = newest
  BY Domains, Tables DEF find_slot_health, diskVars, packageVars, Others, LauncherTypeOK, Goto
<1>2. LauncherTypeOK'
  BY <1>1, Domains, Tables DEF LauncherTypeOK, find_slot_health, diskVars, packageVars, Goto
<1>3. /\ verify_golden_master' <=> verify_golden_master
      /\ Unrestorable' <=> Unrestorable
      /\ \A s \in Slots : /\ verify_slot_executable(s)' <=> verify_slot_executable(s)
                          /\ Original(s)' <=> Original(s)
  BY <1>1, SameFiles
<1>4. parse_active_slot' = "none" <=> parse_active_slot = "none"
  BY <1>1 DEF parse_active_slot, fallback_slot_from_installed_executables
<1>5. AcceptedIsVerified'
  BY <1>1, <1>3 DEF AcceptedIsVerified, Accepted, AcceptedStages, Others
<1>6. RestoredIsGolden'
  BY <1>1, <1>3 DEF RestoredIsGolden, RestoredStages, Others
<1>7. Agreement'
  BY <1>1, <1>2, <1>3, <1>4, Domains
  DEF Agreement, AcceptedStages, RestoredStages, Accepted, Rejected, Others
<1>8. CounterWaits'
  BY <1>1 DEF CounterWaits, AcceptedStages, Others
<1>9. RepairHasReason'
  BY <1>1, <1>3, <1>4 DEF RepairHasReason, Dialog, Others
<1>10. NewestIsRecorded'
  BY <1>1 DEF NewestIsRecorded
<1>11. HealthReadable'
  BY <1>1 DEF HealthReadable, Tracks, RestoredStages, Others
<1> QED
  BY <1>2, <1>5, <1>6, <1>7, <1>8, <1>9, <1>10, <1>11

LEMMA SelectStandbyKeeps ==
    ASSUME LauncherIInv, NEW l \in Launchers, select_standby(l)
    PROVE  LauncherIInv'
<1> USE DEF LauncherIInv
<1>1. /\ UNCHANGED <<file, manifest, sums, goldenConfig, seen>>
      /\ Others(l)
      /\ pc[l] = "standby" /\ slot[l] \in Slots /\ slot'[l] = alternate(slot[l])
      /\ \/ health[alternate(slot[l])] = UnparsableHealth /\ pc'[l] = "unreadable"
         \/ /\ verify_and_check_slot(alternate(slot[l])) /\ pc'[l] = "swap"
            /\ pending'[l] = PendingCounter
            /\ health[alternate(slot[l])] # UnparsableHealth
         \/ /\ ~verify_and_check_slot(alternate(slot[l])) /\ pc'[l] = "countStandby"
            /\ health[alternate(slot[l])] # UnparsableHealth
      /\ health' = health /\ active' = active /\ newest' = newest /\ count' = count
      /\ LauncherTypeOK'
  <2>1. /\ slot[l] \in Slots /\ alternate(slot[l]) \in Slots
        /\ pc[l] = "standby" /\ UNCHANGED <<diskVars, newest>>
        /\ CheckSlot(l, alternate(slot[l]), "swap", "countStandby")
    BY DEF select_standby, LauncherTypeOK, alternate, Slots
  <2>2. "swap" \in Pcs /\ "countStandby" \in Pcs
    BY DEF Pcs
  <2> QED
    BY <2>1, <2>2, CheckSlotIs DEF diskVars, packageVars
<1>2. LauncherTypeOK'
  BY <1>1
<1>3. /\ verify_golden_master' <=> verify_golden_master
      /\ Unrestorable' <=> Unrestorable
      /\ \A s \in Slots : /\ verify_slot_executable(s)' <=> verify_slot_executable(s)
                          /\ Original(s)' <=> Original(s)
  BY <1>1, SameFiles
<1>4. parse_active_slot' = "none" <=> parse_active_slot = "none"
  BY <1>1 DEF parse_active_slot, fallback_slot_from_installed_executables
<1>5. AcceptedIsVerified'
  BY <1>1, <1>3
  DEF AcceptedIsVerified, Accepted, AcceptedStages, Others, verify_and_check_slot, alternate,
      Slots
<1>6. RestoredIsGolden'
  BY <1>1, <1>3 DEF RestoredIsGolden, RestoredStages, Others
<1>7. Agreement'
  BY <1>1, <1>2, <1>3, <1>4, Domains
  DEF Agreement, AcceptedStages, RestoredStages, Accepted, Rejected, Others,
      verify_and_check_slot, alternate, Slots, AcceptedIsVerified, LauncherTypeOK
<1>8. CounterWaits'
  BY <1>1 DEF CounterWaits, AcceptedStages, Others, PendingCounter, Unsigned, LauncherTypeOK
<1>9. RepairHasReason'
  BY <1>1, <1>3, <1>4 DEF RepairHasReason, Dialog, Others
<1>10. NewestIsRecorded'
  BY <1>1 DEF NewestIsRecorded
<1>11. HealthReadable'
  BY <1>1 DEF HealthReadable, Tracks, RestoredStages, Others, alternate, Slots
<1> QED
  BY <1>2, <1>5, <1>6, <1>7, <1>8, <1>9, <1>10, <1>11

LEMMA SelectKeeps ==
    ASSUME LauncherIInv, NEW l \in Launchers, select(l)
    PROVE  LauncherIInv'
<1> USE DEF LauncherIInv
<1>1. /\ UNCHANGED <<file, manifest, sums, goldenConfig, seen>>
      /\ Others(l)
      /\ pc[l] = "idle"
      /\ \/ parse_active_slot = "none" /\ pc'[l] = "repair"
         \/ /\ parse_active_slot \in Slots /\ pc'[l] = "unreadable"
            /\ health[parse_active_slot] = UnparsableHealth
         \/ /\ parse_active_slot \in Slots /\ verify_and_check_slot(parse_active_slot)
            /\ pc'[l] = "clear" /\ slot'[l] = parse_active_slot /\ pending'[l] = PendingCounter
            /\ health[parse_active_slot] # UnparsableHealth
         \/ /\ parse_active_slot \in Slots /\ ~verify_and_check_slot(parse_active_slot)
            /\ pc'[l] = "count" /\ slot'[l] = parse_active_slot
            /\ health[parse_active_slot] # UnparsableHealth
      /\ health' = health /\ active' = active /\ newest' = newest
      /\ LauncherTypeOK'
  <2>1. CASE parse_active_slot = "none"
    <3>1. /\ Goto(l, "repair") /\ UNCHANGED <<slot, count, pending, diskVars, newest>>
          /\ pc[l] = "idle" /\ "repair" \in Pcs
      BY <2>1 DEF select, Pcs
    <3>2. pc'[l] = "repair" /\ LauncherTypeOK' /\ Others(l)
      BY <3>1, PcChange DEF LauncherTypeOK, diskVars, packageVars, Others
    <3> QED
      BY <2>1, <3>1, <3>2 DEF diskVars, packageVars
  <2>2. CASE parse_active_slot # "none"
    <3>1. /\ parse_active_slot \in Slots /\ pc[l] = "idle" /\ UNCHANGED <<diskVars, newest>>
          /\ CheckSlot(l, parse_active_slot, "clear", "count")
      BY <2>2, ParseSlot DEF select
    <3>2. "clear" \in Pcs /\ "count" \in Pcs
      BY DEF Pcs
    <3> QED
      BY <3>1, <3>2, CheckSlotIs DEF diskVars, packageVars
  <2> QED
    BY <2>1, <2>2
<1>2. LauncherTypeOK'
  BY <1>1
<1>3. /\ verify_golden_master' <=> verify_golden_master
      /\ Unrestorable' <=> Unrestorable
      /\ \A s \in Slots : /\ verify_slot_executable(s)' <=> verify_slot_executable(s)
                          /\ Original(s)' <=> Original(s)
  BY <1>1, SameFiles
<1>4. parse_active_slot' = "none" <=> parse_active_slot = "none"
  BY <1>1 DEF parse_active_slot, fallback_slot_from_installed_executables
<1>5. AcceptedIsVerified'
  BY <1>1, <1>3 DEF AcceptedIsVerified, Accepted, AcceptedStages, Others, verify_and_check_slot
<1>6. RestoredIsGolden'
  BY <1>1, <1>3 DEF RestoredIsGolden, RestoredStages, Others
<1>7. Agreement'
  BY <1>1, <1>2, <1>3, <1>4, Domains, ParseSlot
  DEF Agreement, AcceptedStages, RestoredStages, Accepted, Rejected, Others,
      verify_and_check_slot, AcceptedIsVerified, LauncherTypeOK
<1>8. CounterWaits'
  BY <1>1 DEF CounterWaits, AcceptedStages, Others, PendingCounter, Unsigned, LauncherTypeOK
<1>9. RepairHasReason'
  BY <1>1, <1>3, <1>4 DEF RepairHasReason, Dialog, Others, Slots
<1>10. NewestIsRecorded'
  BY <1>1 DEF NewestIsRecorded
<1>11. HealthReadable'
  BY <1>1 DEF HealthReadable, Tracks, RestoredStages, Others
<1> QED
  BY <1>2, <1>5, <1>6, <1>7, <1>8, <1>9, <1>10, <1>11

LEMMA VerifyRestoredKeeps ==
    ASSUME LauncherIInv, NEW l \in Launchers, verify_restored(l)
    PROVE  LauncherIInv'
<1> USE DEF LauncherIInv
<1>1. /\ UNCHANGED <<file, manifest, sums, goldenConfig, seen>>
      /\ Others(l)
      /\ pc[l] = "copied" /\ slot'[l] = slot[l]
      /\ \/ verify_slot_executable("A") /\ pc'[l] = "restored" /\ pending'[l] = PendingCounter
         \/ ~verify_slot_executable("A") /\ pc'[l] = "repair"
      /\ slot[l] = "A" /\ file["A"] = file["Recovery"] /\ verify_golden_master /\ goldenConfig
      /\ health' = health /\ active' = active /\ newest' = newest
  BY DEF verify_restored, diskVars, packageVars, Others, LauncherTypeOK, Goto,
      RestoredIsGolden, RestoredStages
<1>2. LauncherTypeOK'
  <2>1. pending' \in [Launchers -> 0..MaxRelease]
    BY PendingType DEF verify_restored, LauncherTypeOK
  <2> QED
    BY <2>1, Domains DEF LauncherTypeOK, Goto, verify_restored, diskVars, packageVars, Dialog
<1>3. /\ verify_golden_master' <=> verify_golden_master
      /\ Unrestorable' <=> Unrestorable
      /\ \A s \in Slots : /\ verify_slot_executable(s)' <=> verify_slot_executable(s)
                          /\ Original(s)' <=> Original(s)
  BY <1>1, SameFiles
<1>4. parse_active_slot' = "none" <=> parse_active_slot = "none"
  BY <1>1 DEF parse_active_slot, fallback_slot_from_installed_executables
<1>5. AcceptedIsVerified'
  BY <1>1, <1>3 DEF AcceptedIsVerified, Accepted, AcceptedStages, Others
<1>6. RestoredIsGolden'
  BY <1>1, <1>3 DEF RestoredIsGolden, RestoredStages, Others
<1>7. Agreement'
  <2>1. verify_slot_executable("A") => \A s \in Slots : ~Original(s)
    BY <1>1, RestorableIs DEF Original
  <2>2. CASE verify_slot_executable("A")
    BY <1>3, <2>1, <2>2 DEF Agreement
  <2>3. CASE ~verify_slot_executable("A")
    BY <1>1, <1>3, <1>4, <2>3 DEF Agreement, AcceptedStages, Accepted, Rejected, Others
  <2> QED
    BY <2>2, <2>3
<1>8. CounterWaits'
  BY <1>1 DEF CounterWaits, AcceptedStages, Others, PendingCounter, Unsigned, LauncherTypeOK
<1>9. RepairHasReason'
  BY <1>1, <1>3, <1>4, RestorableIs DEF RepairHasReason, Dialog, Others
<1>10. NewestIsRecorded'
  BY <1>1 DEF NewestIsRecorded
<1>11. HealthReadable'
  BY <1>1 DEF HealthReadable, Tracks, RestoredStages, Others
<1> QED
  BY <1>2, <1>5, <1>6, <1>7, <1>8, <1>9, <1>10, <1>11

LEMMA ClearSlotHealthKeeps ==
    ASSUME LauncherIInv, NEW l \in Launchers, clear_slot_health(l)
    PROVE  LauncherIInv'
<1> USE DEF LauncherIInv
<1>1. /\ UNCHANGED <<file, manifest, sums, goldenConfig, seen>>
      /\ Others(l)
      /\ pc[l] \in {"remove", "removeA", "removeB"} /\ ClearTarget(l) \in Slots
      /\ slot'[l] = slot[l] /\ pending'[l] = pending[l]
      /\ pc'[l] = "failed" \/ pc'[l] = AfterClear[pc[l]]
      /\ health' = [health EXCEPT ![ClearTarget(l)] = 0]
      /\ active' = active /\ newest' = newest
  BY DEF clear_slot_health, packageVars, Others, LauncherTypeOK, Goto, ClearTarget, Slots
<1>2. LauncherTypeOK'
  BY <1>1, Domains, Tables, LauncherAssumption
  DEF LauncherTypeOK, clear_slot_health, Goto, packageVars, Slots, Dialog
<1>3. /\ verify_golden_master' <=> verify_golden_master
      /\ Unrestorable' <=> Unrestorable
      /\ \A s \in Slots : /\ verify_slot_executable(s)' <=> verify_slot_executable(s)
                          /\ Original(s)' <=> Original(s)
  BY <1>1, SameFiles
<1>4. parse_active_slot' = "none" <=> parse_active_slot = "none"
  BY <1>1 DEF parse_active_slot, fallback_slot_from_installed_executables
<1>5. AcceptedIsVerified'
  BY <1>1, <1>3, Tables DEF AcceptedIsVerified, Accepted, AcceptedStages, Others
<1>6. RestoredIsGolden'
  BY <1>1, <1>3, Tables DEF RestoredIsGolden, RestoredStages, Others
<1>7. Agreement'
  <2>1. CASE pc[l] \in {"removeA", "removeB"}
    <3>1. Accepted(l, "A") /\ file["A"] = file["Recovery"] /\ verify_golden_master /\ goldenConfig
      BY <2>1 DEF Accepted, AcceptedStages, RestoredIsGolden, RestoredStages
    <3>2. verify_slot_executable("A")
      BY <3>1 DEF AcceptedIsVerified, Slots
    <3>3. \A s \in Slots : ~Original(s)
      BY <3>1, <3>2, RestorableIs DEF Original
    <3> QED
      BY <1>3, <3>3 DEF Agreement
  <2>2. CASE pc[l] = "remove"
    <3>1. Accepted(l, ClearTarget(l)) /\ pc'[l] \in {"failed", "commit"}
      BY <1>1, <2>2, Tables DEF Accepted, AcceptedStages, ClearTarget
    <3> SUFFICES ASSUME NEW s \in Slots, Original(s)
                 PROVE  /\ \A k, m \in Launchers : Accepted(k, s)' =>
                              health'[s] < BootFailureThreshold /\ ~Rejected(m, s)'
                        /\ \A k \in Launchers : Rejected(k, s)' /\ verify_slot_executable(s) =>
                              /\ health'[s] >= BootFailureThreshold
                              /\ pc'[k] \in {"write", "writeStandby"} /\ slot'[k] = s =>
                                     count'[k] >= BootFailureThreshold
      BY <1>3 DEF Agreement
    <3>2. \A k \in Launchers : Rejected(k, s)' => Rejected(k, s)
      BY <1>1, <1>4, <3>1 DEF Rejected, Others
    <3>3. \A k \in Launchers : Accepted(k, s)' => Accepted(k, s)
      BY <1>1, <2>2, <3>1 DEF Accepted, AcceptedStages, Others
    <3>4. CASE ClearTarget(l) = s
      BY <1>1, <3>1, <3>2, <3>3, <3>4, Domains DEF Agreement, LauncherTypeOK
    <3>5. CASE ClearTarget(l) # s
      <4>1. health'[s] = health[s]
        BY <1>1, <3>5 DEF LauncherTypeOK
      <4>2. \A k \in Launchers : Rejected(k, s)' => k # l
        BY <3>1 DEF Rejected
      <4> QED
        BY <1>1, <3>2, <3>3, <4>1, <4>2 DEF Agreement, Others
    <3> QED
      BY <3>4, <3>5
  <2> QED
    BY <1>1, <2>1, <2>2
<1>8. CounterWaits'
  BY <1>1, Tables DEF CounterWaits, AcceptedStages, Others
<1>9. RepairHasReason'
  BY <1>1, <1>3, <1>4, Tables DEF RepairHasReason, Dialog, Others
<1>10. NewestIsRecorded'
  BY <1>1 DEF NewestIsRecorded
<1>11. HealthReadable'
  <2>1. Tracks(l, ClearTarget(l)) /\ UnparsableHealth # 0
    BY <1>1, Domains DEF Tracks, RestoredStages, ClearTarget
  <2>2. \A s \in Slots : health[s] = UnparsableHealth <=> health'[s] = UnparsableHealth
    BY <1>1, <2>1 DEF HealthReadable, LauncherTypeOK
  <2> QED
    BY <1>1, <2>2, Tables DEF HealthReadable, Tracks, RestoredStages, Others
<1> QED
  BY <1>2, <1>5, <1>6, <1>7, <1>8, <1>9, <1>10, <1>11

LEMMA SpawnKeeps ==
    ASSUME LauncherIInv, NEW l \in Launchers, spawn(l)
    PROVE  LauncherIInv'
<1> USE DEF LauncherIInv
<1>1. /\ UNCHANGED <<file, manifest, sums, goldenConfig, seen>>
      /\ Others(l)
      /\ pc[l] = "spawn" /\ pc'[l] = "idle"
      /\ newest' = IF manifest.counter > newest THEN manifest.counter ELSE newest
      /\ health' = health /\ active' = active
  BY DEF spawn, End, diskVars, packageVars, Others, LauncherTypeOK, Goto
<1>2. LauncherTypeOK'
  BY <1>1, Domains, LauncherAssumption
  DEF LauncherTypeOK, spawn, End, Goto, diskVars, packageVars, Slots
<1>3. /\ verify_golden_master' <=> verify_golden_master
      /\ Unrestorable' <=> Unrestorable
      /\ \A s \in Slots : /\ verify_slot_executable(s)' <=> verify_slot_executable(s)
                          /\ Original(s)' <=> Original(s)
  BY <1>1, SameFiles
<1>4. parse_active_slot' = "none" <=> parse_active_slot = "none"
  BY <1>1 DEF parse_active_slot, fallback_slot_from_installed_executables
<1>5. AcceptedIsVerified'
  BY <1>1, <1>3 DEF AcceptedIsVerified, Accepted, AcceptedStages, Others
<1>6. RestoredIsGolden'
  BY <1>1, <1>3 DEF RestoredIsGolden, RestoredStages, Others
<1>7. Agreement'
  BY <1>1, <1>2, <1>3, <1>4, Domains
  DEF Agreement, AcceptedStages, RestoredStages, Accepted, Rejected, Others
<1>8. CounterWaits'
  BY <1>1 DEF CounterWaits, AcceptedStages, Others
<1>9. RepairHasReason'
  BY <1>1, <1>3, <1>4 DEF RepairHasReason, Dialog, Others
<1>10. NewestIsRecorded'
  BY <1>1 DEF NewestIsRecorded, CounterWaits, AcceptedStages, LauncherTypeOK
<1>11. HealthReadable'
  BY <1>1 DEF HealthReadable, Tracks, RestoredStages, Others
<1> QED
  BY <1>2, <1>5, <1>6, <1>7, <1>8, <1>9, <1>10, <1>11

LEMMA AbandonKeeps ==
    ASSUME LauncherIInv, NEW l \in Launchers, abandon(l)
    PROVE  LauncherIInv'
<1> USE DEF LauncherIInv
<1>1. /\ UNCHANGED <<file, manifest, sums, goldenConfig, seen>>
      /\ Others(l)
      /\ pc[l] # "idle" /\ pc'[l] = "idle" /\ newest' = newest
      /\ health' = health /\ active' = active
  BY DEF abandon, End, diskVars, packageVars, Others, LauncherTypeOK, Goto
<1>2. LauncherTypeOK'
  BY <1>1, Domains, LauncherAssumption
  DEF LauncherTypeOK, abandon, End, Goto, diskVars, packageVars, Slots
<1>3. /\ verify_golden_master' <=> verify_golden_master
      /\ Unrestorable' <=> Unrestorable
      /\ \A s \in Slots : /\ verify_slot_executable(s)' <=> verify_slot_executable(s)
                          /\ Original(s)' <=> Original(s)
  BY <1>1, SameFiles
<1>4. parse_active_slot' = "none" <=> parse_active_slot = "none"
  BY <1>1 DEF parse_active_slot, fallback_slot_from_installed_executables
<1>5. AcceptedIsVerified'
  BY <1>1, <1>3 DEF AcceptedIsVerified, Accepted, AcceptedStages, Others
<1>6. RestoredIsGolden'
  BY <1>1, <1>3 DEF RestoredIsGolden, RestoredStages, Others
<1>7. Agreement'
  BY <1>1, <1>2, <1>3, <1>4, Domains
  DEF Agreement, AcceptedStages, RestoredStages, Accepted, Rejected, Others
<1>8. CounterWaits'
  BY <1>1 DEF CounterWaits, AcceptedStages, Others
<1>9. RepairHasReason'
  BY <1>1, <1>3, <1>4 DEF RepairHasReason, Dialog, Others
<1>10. NewestIsRecorded'
  BY <1>1 DEF NewestIsRecorded
<1>11. HealthReadable'
  BY <1>1 DEF HealthReadable, Tracks, RestoredStages, Others
<1> QED
  BY <1>2, <1>5, <1>6, <1>7, <1>8, <1>9, <1>10, <1>11

LEMMA FailKeeps ==
    ASSUME LauncherIInv, NEW l \in Launchers, fail(l)
    PROVE  LauncherIInv'
<1> USE DEF LauncherIInv
<1>1. /\ UNCHANGED <<file, manifest, sums, goldenConfig, seen>>
      /\ Others(l)
      /\ pc[l] \notin Dialog /\ pc'[l] = "failed" /\ newest' = newest
      /\ health' = health /\ active' = active
  BY DEF fail, diskVars, packageVars, Others, LauncherTypeOK, Goto
<1>2. LauncherTypeOK'
  BY <1>1, Domains, LauncherAssumption
  DEF LauncherTypeOK, fail, Goto, diskVars, packageVars, Dialog
<1>3. /\ verify_golden_master' <=> verify_golden_master
      /\ Unrestorable' <=> Unrestorable
      /\ \A s \in Slots : /\ verify_slot_executable(s)' <=> verify_slot_executable(s)
                          /\ Original(s)' <=> Original(s)
  BY <1>1, SameFiles
<1>4. parse_active_slot' = "none" <=> parse_active_slot = "none"
  BY <1>1 DEF parse_active_slot, fallback_slot_from_installed_executables
<1>5. AcceptedIsVerified'
  BY <1>1, <1>3 DEF AcceptedIsVerified, Accepted, AcceptedStages, Others
<1>6. RestoredIsGolden'
  BY <1>1, <1>3 DEF RestoredIsGolden, RestoredStages, Others
<1>7. Agreement'
  BY <1>1, <1>2, <1>3, <1>4, Domains
  DEF Agreement, AcceptedStages, RestoredStages, Accepted, Rejected, Others
<1>8. CounterWaits'
  BY <1>1 DEF CounterWaits, AcceptedStages, Others
<1>9. RepairHasReason'
  BY <1>1, <1>3, <1>4 DEF RepairHasReason, Dialog, Others
<1>10. NewestIsRecorded'
  BY <1>1 DEF NewestIsRecorded
<1>11. HealthReadable'
  BY <1>1 DEF HealthReadable, Tracks, RestoredStages, Others
<1> QED
  BY <1>2, <1>5, <1>6, <1>7, <1>8, <1>9, <1>10, <1>11

LEMMA CommitReleaseCounterKeeps ==
    ASSUME LauncherIInv, NEW l \in Launchers, commit_release_counter(l)
    PROVE  LauncherIInv'
<1> USE DEF LauncherIInv
<1>1. /\ UNCHANGED <<file, manifest, sums, goldenConfig, health, active, newest>>
      /\ Others(l)
      /\ pc[l] = "commit" /\ pc'[l] = "spawn" /\ slot'[l] = slot[l] /\ slot[l] \in Slots
      /\ pending'[l] = 0 /\ seen' = IF pending[l] = 0 THEN seen ELSE pending[l]
      /\ pending[l] \in 0..MaxRelease /\ seen \in Nat /\ manifest.counter \in Nat
  BY Domains DEF commit_release_counter, packageVars, Others, LauncherTypeOK, Goto
<1>2. LauncherTypeOK'
  BY <1>1, Domains, LauncherAssumption
  DEF LauncherTypeOK, commit_release_counter, packageVars, Goto
<1>3. pending[l] # 0 => seen' = manifest.counter /\ manifest.counter >= seen
  <2> SUFFICES ASSUME pending[l] # 0 PROVE seen' = manifest.counter /\ manifest.counter >= seen
    OBVIOUS
  <2>1. seen' = manifest.counter /\ manifest # Unsigned
    BY <1>1 DEF CounterWaits, AcceptedStages, Unsigned
  <2>2. verify_slot_executable(slot[l])
    BY <1>1 DEF AcceptedIsVerified, Accepted, AcceptedStages
  <2> QED
    BY <2>1, <2>2 DEF verify_slot_executable, verify_slot_integrity, prepare_signed_manifest
<1>4. /\ verify_golden_master' <=> verify_golden_master
      /\ Unrestorable' <=> Unrestorable
      /\ \A s \in Slots : /\ verify_slot_executable(s)' <=> verify_slot_executable(s)
                          /\ Original(s)' <=> Original(s)
  BY <1>1, <1>3, SameFiles, CounterRecorded
<1>5. parse_active_slot' = parse_active_slot
  BY <1>1 DEF parse_active_slot, fallback_slot_from_installed_executables
<1>6. AcceptedIsVerified'
  BY <1>1, <1>4 DEF AcceptedIsVerified, Accepted, AcceptedStages, Others
<1>7. RestoredIsGolden'
  BY <1>1, <1>4 DEF RestoredIsGolden, RestoredStages, Others
<1>8. Agreement'
  BY <1>1, <1>4, <1>5 DEF Agreement, AcceptedStages, Accepted, Rejected, Others
<1>9. CounterWaits'
  BY <1>1, <1>3 DEF CounterWaits, AcceptedStages, Others
<1>10. RepairHasReason'
  BY <1>1, <1>4, <1>5 DEF RepairHasReason, Dialog, Others
<1>11. NewestIsRecorded'
  BY <1>1, <1>3 DEF NewestIsRecorded, LauncherTypeOK
<1>12. HealthReadable'
  BY <1>1 DEF HealthReadable, Tracks, RestoredStages, Others
<1> QED
  BY <1>2, <1>6, <1>7, <1>8, <1>9, <1>10, <1>11, <1>12

\* The restoration of one launcher does not take the slot from under another one: where
\* another one is about to start slot A, it already is the golden master.
LEMMA RestoreFromGoldenMasterKeeps ==
    ASSUME LauncherIInv, NEW l \in Launchers, restore_from_golden_master(l)
    PROVE  LauncherIInv'
<1> USE DEF LauncherIInv
<1>1. /\ UNCHANGED <<active, manifest, sums, goldenConfig, seen, health, newest>>
      /\ Others(l)
      /\ pc[l] = "golden"
      /\ count'[l] = count[l] /\ pending'[l] = pending[l]
      /\ parse_active_slot # "none"
  BY UnderWay DEF restore_from_golden_master, Others, LauncherTypeOK, Goto, Dialog
<1>2. LauncherTypeOK'
  BY <1>1, Domains
  DEF LauncherTypeOK, restore_from_golden_master, Goto, Slots, Files, Dialog
<1>3. CASE ~(verify_golden_master /\ goldenConfig)
  <2>1. UNCHANGED <<file, slot>> /\ pc'[l] = "repair" /\ Unrestorable
    BY <1>3 DEF restore_from_golden_master, Goto, LauncherTypeOK, Unrestorable, Restorable
  <2>2. /\ verify_golden_master' <=> verify_golden_master
        /\ Unrestorable' <=> Unrestorable
        /\ \A s \in Slots : /\ verify_slot_executable(s)' <=> verify_slot_executable(s)
                            /\ Original(s)' <=> Original(s)
    BY <1>1, <2>1, SameFiles
  <2>3. parse_active_slot' = parse_active_slot
    BY <1>1, <2>1 DEF parse_active_slot, fallback_slot_from_installed_executables
  <2>4. AcceptedIsVerified' /\ RestoredIsGolden'
    BY <1>1, <2>1, <2>2 DEF AcceptedIsVerified, Accepted, AcceptedStages, RestoredIsGolden,
         RestoredStages, Others
  <2>5. Agreement'
    BY <1>1, <2>1, <2>2, <2>3 DEF Agreement, AcceptedStages, Accepted, Rejected, Others
  <2>6. CounterWaits' /\ RepairHasReason' /\ NewestIsRecorded'
    BY <1>1, <2>1, <2>2, <2>3 DEF CounterWaits, AcceptedStages, RepairHasReason, Dialog,
         NewestIsRecorded, Others
  <2>7. HealthReadable'
    BY <1>1, <2>1 DEF HealthReadable, Tracks, RestoredStages, Others
  <2> QED
    BY <1>2, <2>4, <2>5, <2>6, <2>7
<1>4. CASE verify_golden_master /\ goldenConfig
  <2>1. /\ file' = [file EXCEPT !["A"] = file["Recovery"]]
        /\ pc'[l] = "copied" /\ slot'[l] = "A"
    BY <1>4 DEF restore_from_golden_master, Goto, LauncherTypeOK
  <2>2. /\ file'["A"] = file["Recovery"] /\ file'["B"] = file["B"]
        /\ file'["Recovery"] = file["Recovery"] /\ file["Recovery"] # "absent"
    BY <1>4, <2>1 DEF LauncherTypeOK, Files, Slots, verify_golden_master, verify_entry_digest
  <2>3. /\ verify_golden_master'
        /\ Unrestorable' <=> Unrestorable
        /\ verify_slot_executable("B")' <=> verify_slot_executable("B")
    BY <1>1, <1>4, <2>2
    DEF verify_golden_master, verify_entry_digest, Unrestorable, Restorable, verify_slot_integrity,
        verify_slot_integrity_checksum, prepare_signed_manifest, verify_manifest,
        verify_slot_executable
  <2>4. parse_active_slot' # "none"
    BY <1>1, <2>2
    DEF parse_active_slot, fallback_slot_from_installed_executables, Slots, LauncherTypeOK
  <2>5. \A m \in Launchers : Accepted(m, "A") => UNCHANGED file
    <3> SUFFICES ASSUME NEW m \in Launchers, Accepted(m, "A") PROVE UNCHANGED file
      OBVIOUS
    <3>1. ~Original("A")
      BY <1>1 DEF Agreement, Rejected, Slots
    <3> QED
      BY <2>1, <3>1 DEF Original, LauncherTypeOK
  <2>6. AcceptedIsVerified'
    <3>1. \A m \in Launchers, s \in Slots : Accepted(m, s)' => Accepted(m, s)
      BY <1>1, <2>1 DEF Accepted, AcceptedStages, Others
    <3>2. \A m \in Launchers : Accepted(m, "A") => verify_slot_executable("A")'
      BY <1>1, <2>5, SameFiles DEF AcceptedIsVerified, Slots
    <3> QED
      BY <2>3, <3>1, <3>2 DEF AcceptedIsVerified, Slots
  <2>7. RestoredIsGolden'
    BY <1>1, <1>4, <2>1, <2>2, <2>3 DEF RestoredIsGolden, RestoredStages, Others
  <2>8. Agreement'
    <3>1. \A s \in Slots : Original(s)' => Unrestorable
      BY <2>2, <2>3 DEF Original
    <3>2. Unrestorable => ~verify_slot_executable("A")'
      BY <1>1, <1>4, <2>2
      DEF verify_golden_master, verify_entry_digest, Unrestorable, Restorable,
          verify_slot_integrity,
          verify_slot_integrity_checksum, prepare_signed_manifest, verify_manifest,
          verify_slot_executable
    <3>3. \A m \in Launchers, s \in Slots :
             /\ Accepted(m, s)' => Accepted(m, s)
             /\ Rejected(m, s)' <=> Rejected(m, s)
      BY <1>1, <2>1, <2>4 DEF Accepted, AcceptedStages, Rejected, Others
    <3> SUFFICES ASSUME NEW s \in Slots, Unrestorable
                 PROVE  /\ \A k, m \in Launchers : Accepted(k, s)' =>
                              health'[s] < BootFailureThreshold /\ ~Rejected(m, s)'
                        /\ \A k \in Launchers : Rejected(k, s)' /\ verify_slot_executable(s)' =>
                              /\ health'[s] >= BootFailureThreshold
                              /\ pc'[k] \in {"write", "writeStandby"} /\ slot'[k] = s =>
                                     count'[k] >= BootFailureThreshold
      BY <3>1 DEF Agreement
    <3>4. Original(s)
      BY DEF Original
    <3>5. \A k, m \in Launchers : Accepted(k, s)' =>
             health'[s] < BootFailureThreshold /\ ~Rejected(m, s)'
      BY <1>1, <3>3, <3>4 DEF Agreement
    <3>6. ASSUME NEW k \in Launchers, Rejected(k, s)', verify_slot_executable(s)'
          PROVE  /\ health'[s] >= BootFailureThreshold
                 /\ pc'[k] \in {"write", "writeStandby"} /\ slot'[k] = s =>
                        count'[k] >= BootFailureThreshold
      <4>1. s = "B" /\ verify_slot_executable("B")
        BY <2>3, <3>2, <3>6 DEF Slots
      <4> QED
        BY <1>1, <2>1, <3>3, <3>4, <3>6, <4>1 DEF Agreement, Others
    <3> QED
      BY <3>5, <3>6
  <2>9. CounterWaits' /\ NewestIsRecorded'
    BY <1>1, <2>1 DEF CounterWaits, AcceptedStages, NewestIsRecorded, Others
  <2>10. RepairHasReason'
    BY <1>1, <2>1, <2>3, <2>4 DEF RepairHasReason, Dialog, Others
  <2>11. HealthReadable'
    BY <1>1, <2>1 DEF HealthReadable, Tracks, RestoredStages, Others
  <2> QED
    BY <1>2, <2>6, <2>7, <2>8, <2>9, <2>10, <2>11
<1> QED
  BY <1>3, <1>4

-----------------------------------------------------------------------------
(* The package changes                                                     *)

\* While no launcher is under way there is nothing to keep but types and the counter.
LEMMA QuietKeeps ==
    ASSUME LauncherIInv, Quiet, UNCHANGED <<localVars, newest>>, seen' >= seen, LauncherTypeOK'
    PROVE  LauncherIInv'
<1>1. \A l \in Launchers : pc'[l] = "idle"
  BY DEF Quiet, localVars
<1>2. NewestIsRecorded'
  BY Domains DEF LauncherIInv, NewestIsRecorded, LauncherTypeOK
<1> QED
  BY <1>1, <1>2 DEF LauncherIInv, AcceptedIsVerified, RestoredIsGolden, Agreement, CounterWaits,
       RepairHasReason, HealthReadable, Tracks, Accepted, Rejected, AcceptedStages, RestoredStages

LEMMA PackageKeeps ==
    ASSUME LauncherIInv,
           \/ \E f \in Files, content \in Contents \cup {"absent"} : replace(f, content)
           \/ \E n \in 0..MaxRelease : sign_manifest(n)
           \/ \E s \in Slots : garble_health(s)
           \/ garble_active \/ garble_counter \/ remove_golden_config \/ render_sha256sums
    PROVE  LauncherIInv'
<1>0. /\ LauncherTypeOK /\ seen >= seen /\ UnparsableCounter >= seen
      /\ UnparsableCounter \in 0..UnparsableCounter
      /\ UnparsableHealth \in 0..UnparsableHealth
  BY Domains DEF LauncherIInv, LauncherTypeOK
<1>1. ASSUME NEW f \in Files, NEW content \in Contents \cup {"absent"}, replace(f, content)
      PROVE  LauncherIInv'
  <2>1. LauncherTypeOK'
    BY <1>0, <1>1, LauncherAssumption DEF replace, Change, LauncherTypeOK, localVars
  <2> QED
    BY <1>0, <1>1, <2>1, QuietKeeps DEF replace, Change
<1>2. ASSUME NEW n \in 0..MaxRelease, sign_manifest(n)
      PROVE  LauncherIInv'
  <2>1. manifest' \in [counter : 0..MaxRelease, valid : BOOLEAN,
                       entries : [Files -> Contents \cup {"absent"}]]
    BY <1>0, <1>2 DEF sign_manifest, build_entries, LauncherTypeOK
  <2>2. LauncherTypeOK'
    BY <1>0, <1>2, <2>1, LauncherAssumption DEF sign_manifest, Change, LauncherTypeOK, localVars
  <2> QED
    BY <1>0, <1>2, <2>2, QuietKeeps DEF sign_manifest, Change
<1>3. CASE garble_active
  <2>1. LauncherTypeOK'
    BY <1>0, <1>3, LauncherAssumption DEF garble_active, Change, LauncherTypeOK, localVars
  <2> QED
    BY <1>0, <1>3, <2>1, QuietKeeps DEF garble_active, Change
<1>4. CASE render_sha256sums
  <2>1. LauncherTypeOK'
    BY <1>0, <1>4 DEF render_sha256sums, build_entries, LauncherTypeOK, localVars
  <2> QED
    BY <1>0, <1>4, <2>1, QuietKeeps DEF render_sha256sums
<1>5. ASSUME NEW s \in Slots, garble_health(s)
      PROVE  LauncherIInv'
  <2>1. LauncherTypeOK'
    BY <1>0, <1>5, LauncherAssumption DEF garble_health, Change, LauncherTypeOK, localVars
  <2> QED
    BY <1>0, <1>5, <2>1, QuietKeeps DEF garble_health, Change
<1>6. CASE garble_counter
  <2>1. LauncherTypeOK'
    BY <1>0, <1>6, LauncherAssumption DEF garble_counter, Change, LauncherTypeOK, localVars
  <2> QED
    BY <1>0, <1>6, <2>1, QuietKeeps DEF garble_counter, Change
<1>7. CASE remove_golden_config
  <2>1. goldenConfig' \in BOOLEAN
    BY <1>7, Zenon DEF remove_golden_config
  <2>2. LauncherTypeOK'
    BY <1>0, <1>7, <2>1, LauncherAssumption
    DEF remove_golden_config, Change, LauncherTypeOK, localVars
  <2> QED
    BY <1>0, <1>7, <2>2, QuietKeeps DEF remove_golden_config, Change
<1> QED
  BY <1>1, <1>2, <1>3, <1>4, <1>5, <1>6, <1>7

LEMMA LauncherKeeps == LauncherIInv /\ [LauncherNext]_launcherVars => LauncherIInv'
<1> SUFFICES ASSUME LauncherIInv, [LauncherNext]_launcherVars PROVE LauncherIInv'
  OBVIOUS
<1>1. ASSUME NEW l \in Launchers, LauncherStep(l) PROVE LauncherIInv'
  BY <1>1, SelectKeeps, ReadSlotHealthKeeps, IncrementSlotHealthKeeps, SelectStandbyKeeps,
     WriteActiveSlotKeeps,
     RestoreFromGoldenMasterKeeps, VerifyRestoredKeeps, FindSlotHealthKeeps,
     ClearSlotHealthKeeps, CommitReleaseCounterKeeps, SpawnKeeps
  DEF LauncherStep
<1>2. CASE UNCHANGED launcherVars
  BY <1>2, SameFiles
  DEF launcherVars, diskVars, packageVars, localVars, LauncherIInv, LauncherTypeOK,
      AcceptedIsVerified, RestoredIsGolden, Agreement, CounterWaits, RepairHasReason,
      NewestIsRecorded, HealthReadable, Tracks, Accepted, Rejected, parse_active_slot,
      fallback_slot_from_installed_executables
<1> QED
  BY <1>1, <1>2, FailKeeps, AbandonKeeps, PackageKeeps DEF LauncherNext

-----------------------------------------------------------------------------
(* The theorems                                                            *)

LEMMA LauncherIsInvariant == LauncherSpec => []LauncherIInv
BY LauncherInitially, LauncherKeeps, PTL DEF LauncherSpec

(* No interleaving of launchers, no restoration and no death of one starts *)
(* an executable that does not verify, and the recorded release counter    *)
(* covers what was started: verify_slot_executable and                     *)
(* commit_release_counter of the launcher.                                 *)
THEOREM StartedIsVerified == LauncherSpec => []LauncherInv
<1>1. LauncherIInv => LauncherInv
  <2> SUFFICES ASSUME LauncherIInv, NEW l \in Launchers, pc[l] = "spawn"
               PROVE  verify_slot_executable(slot[l])
    BY DEF LauncherIInv, LauncherInv, SpawnedIsVerified
  <2> QED
    BY DEF LauncherIInv, LauncherTypeOK, AcceptedIsVerified, Accepted, AcceptedStages
<1> QED
  BY <1>1, LauncherIsInvariant, PTL

(* The dialog that blames the package is the last resort: with a readable  *)
(* active-slot.txt neither slot can be started and the golden master       *)
(* cannot be restored, whatever other launchers did to the counters in     *)
(* between, and where it is a health file that cannot be read there is     *)
(* one: the error returns of select.                                       *)
THEOREM DialogIsLastResort == LauncherSpec => []RepairIsLastResort
<1>1. LauncherIInv => RepairIsLastResort
  <2> SUFFICES ASSUME LauncherIInv, NEW l \in Launchers, pc[l] = "repair", active # "absent"
               PROVE  /\ \A s \in Slots : ~verify_and_check_slot(s)
                      /\ parse_active_slot # "none" => Unrestorable
    BY DEF LauncherIInv, HealthReadable, RepairIsLastResort, Unrestorable
  <2>1. parse_active_slot # "none" => Unrestorable
    BY DEF LauncherIInv, RepairHasReason
  <2>2. CASE parse_active_slot # "none"
    <3> SUFFICES ASSUME NEW s \in Slots, verify_slot_executable(s)
                 PROVE  ~(health[s] < BootFailureThreshold)
      BY <2>1 DEF verify_and_check_slot
    <3>1. Original(s) /\ Rejected(l, s)
      BY <2>1, <2>2 DEF Original, Rejected
    <3> QED
      BY <2>1, <2>2, <3>1, Domains DEF LauncherIInv, Agreement, LauncherTypeOK
  <2>3. CASE parse_active_slot = "none"
    BY <2>3, ParseSlot DEF LauncherIInv, verify_and_check_slot, verify_slot_executable, Slots
  <2> QED
    BY <2>1, <2>2, <2>3
<1> QED
  BY <1>1, LauncherIsInvariant, PTL
=============================================================================
