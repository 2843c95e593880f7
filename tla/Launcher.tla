------------------------------ MODULE Launcher ------------------------------
(***************************************************************************)
(* The portable launcher (apps/launcher), the manifest tool that signs a   *)
(* package (apps/manifest-tool) and the verification both share            *)
(* (tick-crypto), over the files of one package. Every action that writes  *)
(* changes one file, so a launcher can die between any two of them; two    *)
(* launchers may run at the same time. A file's content is a model value;  *)
(* "absent" is a missing file and a path that a manifest does not list.    *)
(* Every error of run() ends in the same dialog; the model tells apart why *)
(* it is shown: "repair" when nothing is left to start, "unreadable" for a *)
(* health file that is no number, "failed" for a file operation or a spawn *)
(* that failed. What is verified can be read.                              *)
(***************************************************************************)
EXTENDS Integers, FiniteSets

CONSTANTS Launchers,             \* launcher processes
          BootFailureThreshold,  \* BOOT_FAILURE_THRESHOLD
          MaxRelease,            \* bound: largest release counter that is signed
          MaxEvents              \* bound: changes to the package

ASSUME LauncherAssumption == /\ BootFailureThreshold \in Nat \ {0}
                             /\ MaxRelease \in Nat /\ MaxEvents \in Nat

VARIABLES active,    \* active-slot.txt
          file,      \* the three executables
          manifest,  \* manifest.sig
          sums,      \* SHA256SUMS.txt
          goldenConfig,  \* there is a Recovery/true-tick.toml
          seen,      \* release-counter.state
          health,    \* slot-<slot>-health.state, 0 when there is none
          pc, slot, count, pending,   \* of each launcher
          signing,   \* the manifest tool has written manifest.sig only
          changes,   \* changes made to the package
          newest     \* largest release counter that was launched

packageVars  == <<active, file, manifest, sums, goldenConfig, signing, changes>>
diskVars     == <<packageVars, seen, health>>
localVars    == <<pc, slot, count, pending>>
launcherVars == <<diskVars, localVars, newest>>

Slots      == {"A", "B"}
Files      == Slots \cup {"Recovery"}
Contents   == {"v1", "v2"}     \* damage is a content that nothing lists
Unsigned   == [counter |-> 0, valid |-> FALSE, entries |-> [f \in Files |-> "absent"]]
alternate(s) == IF s = "A" THEN "B" ELSE "A"
HealthCap  == BootFailureThreshold + 1     \* above the threshold counters read alike
Dialog     == {"repair", "unreadable", "failed"}

\* Files that hold no number. A counter that cannot be read refuses every signed manifest,
\* as one above every manifest's does.
UnparsableHealth  == HealthCap + 1
UnparsableCounter == MaxRelease + 1

LauncherInit ==
    /\ active = "A"
    /\ file = [f \in Files |-> "v1"]
    /\ manifest = Unsigned
    /\ sums = file
    /\ goldenConfig = TRUE
    /\ seen = 0
    /\ health = [s \in Slots |-> 0]
    /\ pc = [l \in Launchers |-> "idle"]
    /\ slot = [l \in Launchers |-> "A"]
    /\ count = [l \in Launchers |-> 0]
    /\ pending = [l \in Launchers |-> 0]
    /\ signing = FALSE
    /\ changes = 0
    /\ newest = 0

-----------------------------------------------------------------------------
(* Verification                                                            *)

\* verify_entry_digest: the path is listed with the digest of this content.
verify_entry_digest(entries, f, content) == entries[f] # "absent" /\ entries[f] = content

\* The manifest parses and its signature verifies under the trust anchor.
verify_manifest == manifest.valid

\* The signature verifies, the counter is not below the recorded one, and the slot and,
\* if it is listed, the recovery executable have the signed digests.
prepare_signed_manifest(s, content) ==
    /\ verify_manifest
    /\ manifest.counter >= seen
    /\ verify_entry_digest(manifest.entries, s, content)
    /\ manifest.entries["Recovery"] = "absent"
         \/ verify_entry_digest(manifest.entries, "Recovery", file["Recovery"])

verify_slot_integrity_checksum(s, content) == verify_entry_digest(sums, s, content)

\* A manifest.sig decides alone; without one SHA256SUMS.txt does.
verify_slot_integrity(s, content) ==
    IF manifest = Unsigned THEN verify_slot_integrity_checksum(s, content)
                           ELSE prepare_signed_manifest(s, content)

verify_slot_executable(s) == file[s] # "absent" /\ verify_slot_integrity(s, file[s])

\* Returned unwritten by the verification, 0 for no upgrade.
PendingCounter == IF manifest # Unsigned /\ manifest.counter > seen THEN manifest.counter ELSE 0

\* The golden master is checked against SHA256SUMS.txt even in a signed package.
verify_golden_master == verify_entry_digest(sums, "Recovery", file["Recovery"])

\* It has to come with its configuration, and to pass as slot A where it is put.
Restorable ==
    verify_golden_master /\ goldenConfig /\ verify_slot_integrity("A", file["Recovery"])

verify_and_check_slot(s) == health[s] < BootFailureThreshold /\ verify_slot_executable(s)

-----------------------------------------------------------------------------
(* select, one step for each file that is written                          *)

Goto(l, p) == pc' = [pc EXCEPT ![l] = p]

\* A launcher that ends keeps nothing.
End(l) == /\ Goto(l, "idle")
          /\ slot' = [slot EXCEPT ![l] = "A"]
          /\ count' = [count EXCEPT ![l] = 0]
          /\ pending' = [pending EXCEPT ![l] = 0]

\* A value that names no slot is replaced by the first slot that has an executable.
fallback_slot_from_installed_executables ==
    IF file["A"] # "absent" THEN "A" ELSE IF file["B"] # "absent" THEN "B" ELSE "none"

\* The slot to try first; a missing active-slot.txt is an error.
parse_active_slot ==
    CASE active \in Slots    -> active
      [] active = "absent"   -> "none"
      [] active = "garbled"  -> fallback_slot_from_installed_executables

\* A health file that cannot be read ends the selection; a slot that has failed too often
\* or does not verify is rejected; an accepted one takes its pending counter along.
CheckSlot(l, s, accepted, rejected) ==
    /\ Goto(l, CASE health[s] = UnparsableHealth -> "unreadable"
                 [] verify_and_check_slot(s)     -> accepted
                 [] OTHER                        -> rejected)
    /\ slot' = [slot EXCEPT ![l] = s]
    /\ pending' = [pending EXCEPT ![l] = IF verify_and_check_slot(s) THEN PendingCounter ELSE 0]
    /\ UNCHANGED count

\* A corrupted slot is given up on without trying the other one.
SelectOnlyActive(l) ==
    /\ pc[l] = "idle"
    /\ IF active \in Slots
          THEN CheckSlot(l, active, "clear", "repair")
          ELSE Goto(l, "repair") /\ UNCHANGED <<slot, count, pending>>
    /\ UNCHANGED <<diskVars, newest>>

\* Read active-slot.txt and check the slot it names.
select(l) ==
    /\ pc[l] = "idle"
    /\ LET s == parse_active_slot
       IN  IF s = "none"
              THEN Goto(l, "repair") /\ UNCHANGED <<slot, count, pending>>
              ELSE CheckSlot(l, s, "clear", "count")
    /\ UNCHANGED <<diskVars, newest>>

\* increment_slot_health reads the counter of the rejected slot again ...
read_slot_health(l) ==
    /\ pc[l] \in {"count", "countStandby"}
    /\ count' = [count EXCEPT ![l] = IF health[slot[l]] < HealthCap THEN health[slot[l]] + 1
                                                                  ELSE HealthCap]
    /\ Goto(l, IF pc[l] = "count" THEN "write" ELSE "writeStandby")
    /\ UNCHANGED <<diskVars, slot, pending, newest>>

\* ... and writes it increased; then the other slot is checked or, after that, the golden
\* master.
increment_slot_health(l) ==
    /\ pc[l] \in {"write", "writeStandby"}
    /\ health' = [health EXCEPT ![slot[l]] = count[l]]
    /\ count' = [count EXCEPT ![l] = 0]
    /\ Goto(l, IF pc[l] = "write" THEN "standby" ELSE "golden")
    /\ UNCHANGED <<packageVars, seen, slot, pending, newest>>

select_standby(l) ==
    /\ pc[l] = "standby"
    /\ CheckSlot(l, alternate(slot[l]), "swap", "countStandby")
    /\ UNCHANGED <<diskVars, newest>>

\* Log the decision and write active-slot.txt, for the standby or the restored slot.
write_active_slot(l) ==
    /\ pc[l] \in {"swap", "restored"}
    /\ active' = slot[l]
    /\ Goto(l, IF pc[l] = "swap" THEN "clear" ELSE "clearA")
    /\ UNCHANGED <<file, manifest, sums, goldenConfig, signing, changes, seen, health, slot,
                   count, pending, newest>>

\* A golden master that comes with its configuration replaces slot A ...
restore_from_golden_master(l) ==
    /\ pc[l] = "golden"
    /\ IF verify_golden_master /\ goldenConfig
          THEN /\ file' = [file EXCEPT !["A"] = file["Recovery"]]
               /\ slot' = [slot EXCEPT ![l] = "A"]
               /\ Goto(l, "copied")
          ELSE Goto(l, "repair") /\ UNCHANGED <<file, slot>>
    /\ UNCHANGED <<active, manifest, sums, goldenConfig, signing, changes, seen, health, count,
                   pending, newest>>

\* The restored slot is taken as it is.
RestoredUnverified(l) ==
    /\ pc[l] = "copied"
    /\ Goto(l, "restored")
    /\ pending' = [pending EXCEPT ![l] = PendingCounter]
    /\ UNCHANGED <<diskVars, slot, count, newest>>

\* ... the configuration follows, and it has to verify as slot A, whatever its failure
\* counter says.
verify_restored(l) ==
    /\ pc[l] = "copied"
    /\ IF verify_slot_executable("A")
          THEN Goto(l, "restored") /\ pending' = [pending EXCEPT ![l] = PendingCounter]
          ELSE Goto(l, "repair") /\ UNCHANGED pending
    /\ UNCHANGED <<diskVars, slot, count, newest>>

\* clear_slot_health looks for the file and then removes it, for the slot that starts,
\* or for A and then B after a restoration.
ClearTarget(l) == CASE pc[l] \in {"clear", "remove"}   -> slot[l]
                    [] pc[l] \in {"clearA", "removeA"} -> "A"
                    [] pc[l] \in {"clearB", "removeB"} -> "B"
Removal    == [clear  |-> "remove", clearA  |-> "removeA", clearB  |-> "removeB"]
AfterClear == [clear  |-> "commit", clearA  |-> "clearB",  clearB  |-> "commit",
               remove |-> "commit", removeA |-> "clearB",  removeB |-> "commit"]

find_slot_health(l) ==
    /\ pc[l] \in DOMAIN Removal
    /\ Goto(l, IF health[ClearTarget(l)] = 0 THEN AfterClear[pc[l]] ELSE Removal[pc[l]])
    /\ UNCHANGED <<diskVars, slot, count, pending, newest>>

\* Another launcher may have removed it in between: an error that ends the selection.
clear_slot_health(l) ==
    /\ pc[l] \in {"remove", "removeA", "removeB"}
    /\ Goto(l, IF health[ClearTarget(l)] = 0 THEN "failed" ELSE AfterClear[pc[l]])
    /\ health' = [health EXCEPT ![ClearTarget(l)] = 0]
    /\ UNCHANGED <<packageVars, seen, slot, count, pending, newest>>

commit_release_counter(l) ==
    /\ pc[l] = "commit"
    /\ seen' = IF pending[l] = 0 THEN seen ELSE pending[l]
    /\ pending' = [pending EXCEPT ![l] = 0]
    /\ Goto(l, "spawn")
    /\ UNCHANGED <<packageVars, health, slot, count, newest>>

\* Command::spawn, and the launcher is done.
spawn(l) ==
    /\ pc[l] = "spawn"
    /\ End(l)
    /\ newest' = IF manifest.counter > newest THEN manifest.counter ELSE newest
    /\ UNCHANGED diskVars

\* What the next step reads, writes, removes, copies or starts fails, which leaves the files
\* as they are. Looking whether a file exists cannot fail, nor can committing no counter.
fail(l) ==
    /\ pc[l] \notin Dialog \cup DOMAIN Removal
    /\ pc[l] = "commit" => pending[l] # 0
    /\ Goto(l, "failed")
    /\ UNCHANGED <<diskVars, slot, count, pending, newest>>

\* The dialog is closed, or the process is killed: nothing more is done.
abandon(l) ==
    /\ pc[l] # "idle"
    /\ End(l)
    /\ UNCHANGED <<diskVars, newest>>

-----------------------------------------------------------------------------
(* The package changes while no launcher is under way                      *)

Quiet  == \A l \in Launchers : pc[l] = "idle"
Change == Quiet /\ changes < MaxEvents /\ changes' = changes + 1

\* An executable is replaced by another build, damaged or deleted.
replace(f, content) ==
    /\ Change
    /\ file[f] # content
    /\ file' = [file EXCEPT ![f] = content]
    /\ UNCHANGED <<active, manifest, sums, goldenConfig, signing, seen, health, localVars, newest>>

\* active-slot.txt is edited into something that names no slot, or is deleted.
garble_active ==
    /\ Change
    /\ active' \in {"garbled", "absent"}
    /\ UNCHANGED <<file, manifest, sums, goldenConfig, signing, seen, health, localVars, newest>>

\* A state file is damaged.
garble_health(s) ==
    /\ Change
    /\ health' = [health EXCEPT ![s] = UnparsableHealth]
    /\ UNCHANGED <<active, file, manifest, sums, goldenConfig, signing, seen, localVars, newest>>

garble_counter ==
    /\ Change
    /\ seen' = UnparsableCounter
    /\ UNCHANGED <<active, file, manifest, sums, goldenConfig, signing, health, localVars, newest>>

\* The configuration of the golden master is deleted.
remove_golden_config ==
    /\ Change
    /\ goldenConfig' = FALSE
    /\ UNCHANGED <<active, file, manifest, sums, signing, seen, health, localVars, newest>>

\* Every executable of the package with its digest; what is missing is not listed.
build_entries == file

\* cmd_sign writes manifest.sig for what is in the package; counter 0 stands for a file
\* that does not parse or whose signature does not verify under the trust anchor.
sign_manifest(n) ==
    /\ Change
    /\ manifest' = [counter |-> n, valid |-> n > 0, entries |-> build_entries]
    /\ signing' = TRUE
    /\ UNCHANGED <<active, file, sums, goldenConfig, seen, health, localVars, newest>>

\* SHA256SUMS.txt follows, unless the tool is stopped in between.
render_sha256sums ==
    /\ signing /\ Quiet
    /\ sums' \in {build_entries, sums}
    /\ signing' = FALSE
    /\ UNCHANGED <<active, file, manifest, goldenConfig, changes, seen, health, localVars, newest>>

LauncherStep(l) ==
    \/ select(l) \/ read_slot_health(l) \/ increment_slot_health(l) \/ select_standby(l)
    \/ write_active_slot(l)
    \/ restore_from_golden_master(l) \/ verify_restored(l)
    \/ find_slot_health(l) \/ clear_slot_health(l)
    \/ commit_release_counter(l) \/ spawn(l)

LauncherNext ==
    \/ \E l \in Launchers : LauncherStep(l) \/ fail(l) \/ abandon(l)
    \/ \E f \in Files, content \in Contents \cup {"absent"} : replace(f, content)
    \/ \E n \in 0..MaxRelease : sign_manifest(n)
    \/ \E s \in Slots : garble_health(s)
    \/ garble_active \/ garble_counter \/ remove_golden_config \/ render_sha256sums

LauncherSpec == LauncherInit /\ [][LauncherNext]_launcherVars

-----------------------------------------------------------------------------
(* Types of the package's files and of the launchers' local state.         *)
LauncherTypeOK ==
    /\ active \in Slots \cup {"garbled", "absent"}
    /\ file \in [Files -> Contents \cup {"absent"}]
    /\ manifest \in [counter : 0..MaxRelease, valid : BOOLEAN,
                     entries : [Files -> Contents \cup {"absent"}]]
    /\ sums \in [Files -> Contents \cup {"absent"}]
    /\ goldenConfig \in BOOLEAN
    /\ seen \in 0..UnparsableCounter /\ newest \in 0..MaxRelease
    /\ health \in [Slots -> 0..UnparsableHealth]
    /\ pc \in [Launchers -> {"idle", "count", "write", "standby", "countStandby",
                             "writeStandby", "swap", "golden", "copied", "restored",
                             "commit", "spawn"} \cup Dialog \cup DOMAIN AfterClear]
    /\ slot \in [Launchers -> Slots]
    /\ count \in [Launchers -> 0..HealthCap]
    /\ pending \in [Launchers -> 0..MaxRelease]
    /\ signing \in BOOLEAN
    /\ changes \in 0..MaxEvents

\* What is about to be spawned passes, against the files as they are at that moment, the
\* verification it was selected by: no interleaving of two launchers, no restoration by
\* the other one and no crash before it lets an unverified executable start.
SpawnedIsVerified ==
    \A l \in Launchers : pc[l] = "spawn" => verify_slot_executable(slot[l])

\* The recorded counter is never below a release that was started, so that a signed
\* package older than one that ran is refused.
NewestIsRecorded == newest <= seen

\* What a launch rests on: verified files and a counter that covers what ran.
LauncherInv == LauncherTypeOK /\ SpawnedIsVerified /\ NewestIsRecorded

\* The dialog that says that both slots are corrupted, or that active-slot.txt names none, is
\* shown only when there is nothing to start: neither slot passes its failure counter and its
\* verification, and the golden master cannot be restored, unless active-slot.txt is missing
\* or names no slot and no slot has a file. Where a health file is the reason, there is one
\* that holds no number. The third reason, a failed file operation, is no judgement about
\* the package: there a slot may well be fit.
RepairIsLastResort ==
    \A l \in Launchers :
        /\ (pc[l] = "repair" /\ active # "absent") =>
              /\ \A s \in Slots : ~verify_and_check_slot(s)
              /\ parse_active_slot # "none" => ~Restorable
        /\ pc[l] = "unreadable" => \E s \in Slots : health[s] = UnparsableHealth

\* PORTABLE_PACKAGING.md: if slot launching fails, the counter on disk remains at the
\* previous value, so that an earlier release can still be started.
CounterFollowsLaunch ==
    [][\A l \in Launchers : pc[l] = "spawn" /\ pc'[l] = "failed" => seen <= newest]_launcherVars
=============================================================================
