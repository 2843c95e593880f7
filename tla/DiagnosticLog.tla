---------------------------- MODULE DiagnosticLog ----------------------------
(***************************************************************************)
(* The diagnostic store of tick-diagnostics with its hash chain, and the   *)
(* flushes of logging/mod.rs that append it to the daily file: on the      *)
(* calling thread (the tray's thread, the emergency thread) and on the one *)
(* detached writer thread.                                                 *)
(***************************************************************************)
EXTENDS Selection, SequencesExt

CONSTANTS maximum_events,   \* capacity of the store
          Callers,          \* threads that flush synchronously
          LogDays,          \* LOG_RETENTION_DAYS
          MaxFiles,         \* MAX_RETAINED_LOG_FILES
          MaxDay,           \* bound: days the session lasts
          MaxSequence,      \* bound: events recorded by the program
          MaxRepeats,       \* where the repeat count saturates
          MaxLogFaults      \* bound: writes that fail or find the disk full

ASSUME DiagnosticLogAssumption ==
    /\ maximum_events \in Nat /\ maximum_events >= 2
    /\ {LogDays, MaxFiles, MaxDay, MaxSequence, MaxRepeats, MaxLogFaults} \subseteq Nat
    /\ MaxRepeats >= 1

VARIABLES events,               \* the retained events, oldest first after the marker
          next_sequence, last_entry_hash, truncation_recorded,
          coalesced_details,    \* the repeat count the coalescer wrote last, 0 for none
          persisted,            \* last_persisted_event_sequence
          flush,                \* the flushes under way: what each will append
          today,
          logs,                 \* each day's file: its first row and its number of headers
          written,              \* history: the sequence numbers that reached a file
          lost,                 \* history: events evicted before any file had them
          logFaults

storeVars == <<events, next_sequence, last_entry_hash, truncation_recorded,
               coalesced_details>>
fileVars == <<persisted, flush, today, logs, written, logFaults>>
logVars == <<storeVars, lost, fileVars>>

Writer == "writer"              \* the detached thread, at most one at a time
Layouts == {"layout", "layout2"}   \* diagnostic.layout.error with two details
EventNames == Layouts \cup {"other"}
Absent == [first |-> "none", headers |-> 0]
Empty  == [first |-> "nothing", headers |-> 0]    \* created, with no byte in it
Torn   == [first |-> "fragment", headers |-> 0]   \* its header was cut short
Headed == [first |-> "header", headers |-> 1]
NoFlush == [not |-> "active"]

genesis_hash == [sequence |-> 0]

\* SHA-256 of the predecessor's hash and of the fields; details are their repeat count.
compute_entry_hash(prev, sequence, name, details) ==
    [prev |-> prev.sequence, sequence |-> sequence, name |-> name, details |-> details]

LogInit ==
    /\ events = <<>> /\ next_sequence = 1 /\ last_entry_hash = genesis_hash
    /\ truncation_recorded = FALSE /\ coalesced_details = 0
    /\ persisted = 0 /\ flush = [c \in Callers \cup {Writer} |-> NoFlush]
    /\ today = 1 /\ logs = [d \in 1..MaxDay |-> Absent]
    /\ written = {} /\ lost = {} /\ logFaults = 0

Sequences(evs) == {evs[i].sequence : i \in DOMAIN evs}

-----------------------------------------------------------------------------
(* Recording. *)

\* The store's fields, passed through the steps of record_with_context.
Store == [events |-> events, next |-> next_sequence, hash |-> last_entry_hash,
          marked |-> truncation_recorded]

Entry(s, name) ==
    [sequence |-> s.next, name |-> name, details |-> 1, prev_hash |-> s.hash,
     entry_hash |-> compute_entry_hash(s.hash, s.next, name, 1)]

Marker(s) == Entry(s, "log_truncated")
Chained(s, entry) == [s EXCEPT !.next = @ + 1, !.hash = entry.entry_hash]

\* The marker takes a place in the chain and stands at the front.
Mark(s) == [Chained(s, Marker(s)) EXCEPT !.events = <<Marker(s)>> \o @, !.marked = TRUE]

\* A full store evicts its oldest event; the first time it is also marked, and
\* evicts once more to make room.
Evict(s) ==
    LET grown == IF s.marked THEN [s EXCEPT !.events = RemoveAt(@, 2)]
                 ELSE Mark([s EXCEPT !.events = Tail(@)])
    IN IF Len(grown.events) >= maximum_events
       THEN [grown EXCEPT !.events = RemoveAt(@, 2)] ELSE grown

Push(s, name) == [Chained(s, Entry(s, name)) EXCEPT !.events = Append(@, Entry(s, name))]
Recorded(s, name) ==
    Push(IF Len(s.events) >= maximum_events THEN Evict(s) ELSE s, name)

\* A repeated layout error only counts up the last event's details; its hash stays.
Repeats(name) ==
    /\ name \in Layouts /\ events # <<>> /\ Last(events).name = name
    /\ Last(events).details = 1 \/ Last(events).details = coalesced_details
coalesce_repeated_layout_event ==
    LET count == IF Last(events).details < MaxRepeats THEN Last(events).details + 1
                 ELSE MaxRepeats
    IN /\ events' = [events EXCEPT ![Len(events)].details = count]
       /\ coalesced_details' = count
       /\ UNCHANGED <<next_sequence, last_entry_hash, truncation_recorded, lost>>

RecordedIf(condition, s) == IF condition THEN Recorded(s, "other") ELSE s

\* The store after some events, none of them a repeated layout error.
SetStore(s) ==
    /\ events' = s.events /\ next_sequence' = s.next /\ last_entry_hash' = s.hash
    /\ truncation_recorded' = s.marked
    /\ coalesced_details' = IF s = Store THEN coalesced_details ELSE 0
    /\ lost' = (1..(s.next - 1)) \ (Sequences(s.events) \cup written)

record_with_context(name) ==
    /\ next_sequence <= MaxSequence
    /\ IF Repeats(name) THEN coalesce_repeated_layout_event ELSE SetStore(Recorded(Store, name))
    /\ UNCHANGED fileVars

\* What the diagnostic window shows as the integrity of the retained events.
verify_event_chain(evs) ==
    {i \in DOMAIN evs :
        \/ evs[i].entry_hash # compute_entry_hash(evs[i].prev_hash, evs[i].sequence,
                                                  evs[i].name, evs[i].details)
        \/ /\ i > 1 /\ evs[i].sequence = evs[i - 1].sequence + 1
           /\ evs[i - 1].entry_hash # evs[i].prev_hash}

-----------------------------------------------------------------------------
(* Flushing. *)

load_baseline(c) ==
    /\ flush[c] = NoFlush
    /\ \E detached \in {FALSE} \cup {c = "tray"} :
          flush' = [flush EXCEPT ![c] = [at |-> "build", baseline |-> persisted,
                                         detached |-> detached]]
    /\ UNCHANGED <<storeVars, lost, persisted, today, logs, written, logFaults>>

Pending(baseline) == Retain(events, {i \in DOMAIN events : events[i].sequence > baseline})
Job(lines) == [at |-> "append", fresh |-> FALSE, day |-> today, last |-> Last(lines).sequence,
               lines |-> [i \in DOMAIN lines |-> lines[i].sequence]]

\* Nothing to write ends the flush; a detached one goes to the writer thread, or is
\* dropped while that thread is active.
build_log_lines(c) ==
    /\ flush[c] # NoFlush /\ flush[c].at = "build"
    /\ LET lines == Pending(flush[c].baseline)
       IN flush' = IF lines = <<>> THEN [flush EXCEPT ![c] = NoFlush]
                   ELSE IF ~flush[c].detached THEN [flush EXCEPT ![c] = Job(lines)]
                   ELSE IF flush[Writer] # NoFlush THEN [flush EXCEPT ![c] = NoFlush]
                   ELSE [flush EXCEPT ![c] = NoFlush, ![Writer] = Job(lines)]
    /\ UNCHANGED <<storeVars, lost, persisted, today, logs, written, logFaults>>

\* The files that a retention pass removes: the expired ones, then the oldest of those
\* beyond the number that may be kept. A file's day begins at midnight and is compared
\* with the time of now, which is later in its day.
purge_expired_logs(files, day) ==
    LET present == {d \in DOMAIN files : files[d] # Absent}
        expired == {d \in present : d <= day - LogDays}
        kept    == present \ expired
    IN expired \cup {d \in kept : Cardinality({e \in kept : e >= d}) > MaxFiles}

\* What becomes of the first row: the header goes into a file without a byte, before any
\* line, unless the write fails with nothing or a part of it written.
write_log_lines(file, cut) ==
    IF file \notin {Absent, Empty} THEN {file}
    ELSE {[first |-> "header", headers |-> file.headers + 1]}
             \cup (IF cut THEN {Empty, Torn} ELSE {})

\* Only a write that succeeded is committed.
CommitAnyway(job, failed) == [at |-> "commit", last |-> job.last]         \* faulty
AfterAppend(job, failed) ==
    IF failed THEN NoFlush ELSE [at |-> "commit", last |-> job.last]

\* Whether the file is new is looked up before the lock is taken.
find_log_file(c) ==
    /\ flush[c] # NoFlush /\ flush[c].at = "append"
    /\ flush' = [flush EXCEPT ![c].at = "write", ![c].fresh = logs[flush[c].day] = Absent]
    /\ UNCHANGED <<storeVars, lost, persisted, today, logs, written, logFaults>>

\* Under LOG_APPEND_LOCK. The write may fail in the header or after any number of lines,
\* which is recorded; a file found to be new starts a retention pass, recorded too when it
\* removes something. A failed write ends the flush without committing.
append_log_lines(c) ==
    /\ flush[c] # NoFlush /\ flush[c].at = "write"
    /\ \E k \in 0..Len(flush[c].lines), failed \in BOOLEAN :
       \E file \in write_log_lines(logs[flush[c].day], failed /\ k = 0) :
         LET grown   == [logs EXCEPT ![flush[c].day] = file]
             removed == IF flush[c].fresh THEN purge_expired_logs(grown, today) ELSE {}
         IN /\ IF failed THEN logFaults < MaxLogFaults ELSE k = Len(flush[c].lines)
            /\ logFaults' = IF failed THEN logFaults + 1 ELSE logFaults
            /\ logs' = [d \in DOMAIN logs |-> IF d \in removed THEN Absent ELSE grown[d]]
            /\ written' = written \cup Range(SubSeq(flush[c].lines, 1, k))
            /\ SetStore(RecordedIf(removed # {}, RecordedIf(failed, Store)))
            /\ flush' = [flush EXCEPT ![c] = AfterAppend(@, failed)]
    /\ UNCHANGED <<persisted, today>>

\* The directory or the file cannot be opened, or the disk is nearly full.
append_refused(c) ==
    /\ flush[c] # NoFlush /\ flush[c].at \in {"append", "write"} /\ logFaults < MaxLogFaults
    /\ logFaults' = logFaults + 1
    /\ SetStore(Recorded(Store, "other"))
    /\ flush' = [flush EXCEPT ![c] = NoFlush]
    /\ UNCHANGED <<persisted, today, logs, written>>

commit_sequence(c) ==
    /\ flush[c] # NoFlush /\ flush[c].at = "commit"
    /\ persisted' = flush[c].last
    /\ flush' = [flush EXCEPT ![c] = NoFlush]
    /\ UNCHANGED <<storeVars, lost, today, logs, written, logFaults>>

next_day ==
    /\ today < MaxDay /\ today' = today + 1
    /\ UNCHANGED <<storeVars, lost, persisted, flush, logs, written, logFaults>>

LogNext ==
    \/ \E name \in EventNames : record_with_context(name)
    \/ \E c \in Callers : load_baseline(c) \/ build_log_lines(c)
    \/ \E c \in Callers \cup {Writer} :
          \/ find_log_file(c) \/ append_log_lines(c) \/ append_refused(c)
          \/ commit_sequence(c)
    \/ next_day

LogSpec == LogInit /\ [][LogNext]_logVars

-----------------------------------------------------------------------------
(* The store is within its capacity, and no number is ahead of the events. *)
LogTypeOK ==
    /\ next_sequence \in Nat \ {0} /\ Len(events) <= maximum_events
    /\ Sequences(events) \subseteq 1..(next_sequence - 1)
    /\ persisted < next_sequence /\ written \subseteq 1..(next_sequence - 1)

(* The hash chain holds over everything the store retains, wherever events *)
(* were evicted and the marker put in, but for the layout errors whose     *)
(* repeat count was written over.                                          *)
ChainHolds == \A i \in verify_event_chain(events) : events[i].details > 1

(* The same without the exception: the integrity that the diagnostic       *)
(* window shows is broken by nothing that the program does itself.         *)
ChainVerifies == verify_event_chain(events) = {}

(* However the flushes of the threads overlap and fail, an event counted   *)
(* as persisted has been written to a file, unless the store evicted it    *)
(* before any flush.                                                       *)
PersistedIsWritten == \A n \in 1..persisted : n \in written \cup lost

(* A daily file begins with its header and has no second one, although two *)
(* threads may both have found it new, unless the write of the header      *)
(* failed: that leaves a fragment, or an empty file that gets one later.   *)
HeaderOnce == \A d \in DOMAIN logs : logs[d] \in {Absent, Empty, Torn, Headed}

(* The store and its files: the chain across evictions, nothing counted as *)
(* persisted that is not, well-formed files.                               *)
LogInv == LogTypeOK /\ ChainHolds /\ PersistedIsWritten /\ HeaderOnce
==============================================================================
