-------------------------- MODULE DiagnosticWindow --------------------------
(***************************************************************************)
(* The diagnostic window: the refresh that is posted, coalesced and        *)
(* followed up, the virtual list whose rows are a filtered copy of the     *)
(* event store, the selection kept by sequence number while rows move, the *)
(* rubber band, and the copy and export of the selected rows.              *)
(*                                                                         *)
(* Every handler runs on the tray's thread and gets the whole App; w is    *)
(* that App, and a helper returns it as it leaves it.                      *)
(***************************************************************************)
EXTENDS Selection, SequencesExt

CONSTANTS maximum_rows,     \* events the store retains
          Limits,           \* numbers of rows that may be typed into Show rows
          DefaultLimit,     \* what the state starts with
          RangeTexts,       \* what may be typed into the range: its parts between dashes
          MaxInputs,        \* bound: inputs from the user, events of the tray and failed posts
          MaxPostFaults     \* bound: PostMessageW calls that fail

ASSUME DiagnosticWindowAssumption ==
    /\ maximum_rows \in Nat /\ maximum_rows >= 2
    /\ {DefaultLimit, MaxInputs, MaxPostFaults} \cup Limits \subseteq Nat

VARIABLES app,       \* the event store, DiagnosticUiState and the native controls
          inputs     \* bound: inputs so far

windowVars == <<app, inputs>>

-----------------------------------------------------------------------------
(* The event store, as DiagnosticLog models it without the chain. *)

SequencesOf(events) == {events[i].sequence : i \in DOMAIN events}
Rows(events) == [i \in DOMAIN events |-> events[i].sequence]

MakeRoom(w) ==
    LET marked == IF w.marked THEN [w EXCEPT !.events = RemoveAt(@, 2)]
                  ELSE [w EXCEPT !.events = <<[sequence |-> w.next, name |-> "truncated"]>>
                                            \o Tail(@),
                                 !.next = @ + 1, !.marked = TRUE]
    IN IF Len(marked.events) >= maximum_rows
       THEN [marked EXCEPT !.events = RemoveAt(@, 2)] ELSE marked

\* An event of any thread: the window is not told.
record_event(w, name) ==
    LET s == IF Len(w.events) >= maximum_rows THEN MakeRoom(w) ELSE w
    IN [s EXCEPT !.events = Append(@, [sequence |-> s.next, name |-> name]), !.next = @ + 1]

-----------------------------------------------------------------------------
(* Requesting a refresh. *)

diagnostic_refresh_is_coalesced(pending, refreshing) == pending \/ refreshing

request_diagnostic_refresh(w) ==
    IF diagnostic_refresh_is_coalesced(w.pending, w.refreshing)
    THEN [w EXCEPT !.pending = @ \/ w.refreshing]
    ELSE IF ~w.open THEN w
    ELSE IF w.posts THEN [w EXCEPT !.pending = TRUE, !.queue = @ + 1]
    ELSE [w EXCEPT !.dropped = TRUE, !.faults = @ + 1]

\* App::record and record_with_outcome: the event, and a refresh that shows it.
record(w, name) ==
    LET r == record_event(w, name)
    IN request_diagnostic_refresh([r EXCEPT !.wanted = r.next - 1])

begin_operation(w) == [record_event(w, "operation") EXCEPT !.operation = TRUE]

\* An operation begun during another leaves nothing to finish to the outer one.
finish_operation(w) ==
    IF w.operation THEN record([w EXCEPT !.operation = FALSE], "operation") ELSE w

operation(w, name) == finish_operation(record(begin_operation(w), name))

\* An event about the refresh itself, recorded while it runs.
record_diagnostic_refresh_event(w) ==
    [record_event(w, "diagnostic") EXCEPT !.direct = @ \/ w.refreshing]

-----------------------------------------------------------------------------
(* Rows, and which of them are visible. *)

NoSelection == [start |-> 0, end |-> 0]     \* None, and every row of none
All(n) == IF n = 0 THEN NoSelection ELSE [start |-> 1, end |-> n]
row_count(sel) == IF sel.start = 0 \/ sel.end < sel.start THEN 0 ELSE sel.end - sel.start + 1

latest_row_selection(limit, n) ==
    IF n = 0 THEN All(0)
    ELSE LET rows == IF limit < n THEN limit ELSE n IN [start |-> n - rows + 1, end |-> n]

\* The text between the dashes: a number, or 0 for what is no positive number. No
\* text, or the word all, is every row.
IsRange(text, n) ==
    /\ Len(text) \in {1, 2} /\ \A i \in DOMAIN text : text[i] > 0
    /\ Head(text) <= Last(text) /\ Last(text) <= n
parse_row_selection(text, n) ==
    CASE text = <<>> -> [ok |-> TRUE, rows |-> All(n)]
      [] IsRange(text, n) -> [ok |-> TRUE, rows |-> [start |-> Head(text), end |-> Last(text)]]
      [] OTHER -> [ok |-> FALSE, rows |-> NoSelection]

selected_event_sequences(events, sel) ==
    IF row_count(sel) = 0 THEN {} ELSE {events[i].sequence : i \in sel.start..sel.end}
selected_event_sequences_for_sequences(events, sequences) == sequences \cap SequencesOf(events)

\* The rows at which the sequences now stand, when they are all there and adjacent.
row_selection_for_sequences(events, sequences) ==
    LET at == {i \in DOMAIN events : events[i].sequence \in sequences}
    IN IF Cardinality(at) = Cardinality(sequences) /\ at # {}
          /\ \A i, j \in at : i..j \subseteq at
       THEN [start |-> CHOOSE i \in at : \A j \in at : i <= j,
             end |-> CHOOSE i \in at : \A j \in at : j <= i]
       ELSE NoSelection

from_event_name(name) == CASE name = "timer" -> "Timer" [] name = "window" -> "UI"
                           [] OTHER -> "System"
search_matches(search, name) == search = "" \/ search = name

diagnostic_filtered_events(w, events) ==
    LET Matches(name) == /\ w.category \in {"All", from_event_name(name)}
                         /\ search_matches(w.search, name)
    IN Retain(events, {i \in DOMAIN events : Matches(events[i].name)})
diagnostic_visible_selection(w, n) ==
    IF w.all THEN All(n) ELSE latest_row_selection(w.limit, n)
diagnostic_filtered_visible_events(w, events) ==
    LET filtered == diagnostic_filtered_events(w, events)
        sel == diagnostic_visible_selection(w, Len(filtered))
    IN IF row_count(sel) = 0 THEN <<>> ELSE SubSeq(filtered, sel.start, sel.end)

-----------------------------------------------------------------------------
(* The refresh. *)

\* Copy and Export are offered when they would have something to take.
set_diagnostic_action_enabled(w) ==
    [w EXCEPT !.enabled = w.grid # {} \/ row_count(w.selection) > 0]

preserve_diagnostic_grid_selection(w, events) ==
    LET kept == selected_event_sequences_for_sequences(events, w.grid)
    IN IF kept = w.grid THEN w
       ELSE record_diagnostic_refresh_event([w EXCEPT !.grid = kept])

\* The typed range is read anew from the text.
ParseRange(w, events) ==
    LET parsed == parse_row_selection(w.text, Len(events))
    IN [w EXCEPT !.selection = parsed.rows,
                 !.sequences = selected_event_sequences(events, parsed.rows),
                 !.reset = FALSE]

\* A selection whose rows are gone stays reset until the user types again.
ResetRange(w) ==
    request_diagnostic_refresh(record_diagnostic_refresh_event(
        [w EXCEPT !.selection = NoSelection, !.sequences = {}, !.reset = TRUE]))

RefreshReparses(w, events, preserve) ==           \* faulty: rows, not events, are kept
    set_diagnostic_action_enabled(ParseRange(w, events))
refresh_diagnostic_controls(w, events, preserve) ==
    LET moved == row_selection_for_sequences(events, w.sequences)
    IN set_diagnostic_action_enabled(
           CASE preserve /\ w.reset -> w
             [] preserve /\ ~w.reset /\ w.text # <<>> /\ w.sequences # {} ->
                   IF moved # NoSelection THEN [w EXCEPT !.selection = moved] ELSE ResetRange(w)
             [] OTHER -> ParseRange(w, events))

\* The list keeps the state of its items by position when their number changes
\* (native); the rows of the selection are then marked as well.
SetItemCount(w, rows) == [w EXCEPT !.shown = rows, !.native = @ \cap DOMAIN rows]
apply_diagnostic_grid_selection(w) ==
    [w EXCEPT !.native = @ \cup {i \in DOMAIN w.shown : w.shown[i] \in w.grid}]

diagnostic_follow_up_needed(direct, follow_up) == direct /\ ~follow_up

FinishCoalesces(w, needed) ==                     \* faulty: the flag stops its own message
    LET f == [w EXCEPT !.refreshing = FALSE, !.follow_up = @ \/ needed]
    IN IF f.pending \/ needed THEN request_diagnostic_refresh(f) ELSE f
finish_diagnostic_refresh(w, needed) ==
    LET f == [w EXCEPT !.refreshing = FALSE, !.follow_up = @ \/ needed]
    IN IF f.pending \/ needed
       THEN request_diagnostic_refresh([f EXCEPT !.pending = FALSE]) ELSE f

refresh_diagnostic_window(w, allow_follow_up) ==
    LET follow_up == w.follow_up
        events == w.events
        begun == [w EXCEPT !.refreshing = TRUE, !.follow_up = FALSE, !.direct = FALSE,
                           !.snap = events, !.dropped = FALSE]
        kept == refresh_diagnostic_controls(
                    preserve_diagnostic_grid_selection(begun, events), events, TRUE)
        rows == Rows(diagnostic_filtered_visible_events(kept, events))
        marked == apply_diagnostic_grid_selection(SetItemCount(kept, rows))
        done == IF follow_up THEN marked
                ELSE record_diagnostic_refresh_event(marked)
    IN finish_diagnostic_refresh(done,
           allow_follow_up /\ diagnostic_follow_up_needed(done.direct, follow_up))

-----------------------------------------------------------------------------
(* Handlers of the user's input. *)

update_diagnostic_grid_selection(w) ==
    set_diagnostic_action_enabled(
        [w EXCEPT !.grid = selected_event_sequences_for_sequences(
                               w.events, {w.shown[i] : i \in w.native})])

\* The selection in the list changed: LVN_ITEMCHANGED.
Picked(w, positions) == update_diagnostic_grid_selection([w EXCEPT !.native = positions])

diagnostic_range_changed(w, text) ==
    LET typed == [w EXCEPT !.text = text]
        events == w.events
        told == record(begin_operation(ParseRange(typed, events)), "diagnostic")
        ended == finish_operation(IF parse_row_selection(text, Len(events)).ok THEN told
                                  ELSE record(told, "diagnostic"))
        done == refresh_diagnostic_controls(ended, events, FALSE)
    IN [done EXCEPT !.typed = done.sequences]

\* 0 stands for text that is no row count: the limit stays.
diagnostic_display_changed(w, limit) ==
    operation(IF limit = 0 THEN w ELSE [w EXCEPT !.limit = limit, !.all = FALSE],
              "diagnostic")
diagnostic_show_all(w) == operation([w EXCEPT !.all = TRUE], "diagnostic")

diagnostic_category_filter_changed(w, category) ==
    request_diagnostic_refresh(operation([w EXCEPT !.category = category], "diagnostic"))
diagnostic_search_changed(w, search) ==
    IF search = w.search THEN w
    ELSE request_diagnostic_refresh(operation([w EXCEPT !.search = search], "diagnostic"))

\* Copy and Export take the rows marked in the list, else the range as it now reads.
\* Export all has to get past the same test. rows is {} when the handler gives up.
Transfer(w) ==
    LET grid == selected_event_sequences_for_sequences(w.events, w.grid)
        ranged == ParseRange(w, w.events)
        begun == begin_operation(w)
        refused == finish_operation(record(record(begun, "diagnostic"), "diagnostic"))
    IN IF grid # {} THEN [app |-> record(begun, "diagnostic"), rows |-> grid]
       ELSE IF ranged.sequences = {} THEN [app |-> refused, rows |-> {}]
       ELSE [app |-> record(begin_operation(ranged), "diagnostic"), rows |-> ranged.sequences]

\* The requested rows reached the clipboard or the file, or nothing did.
Ended(w, done) ==
    finish_operation(IF done THEN record(w, "diagnostic")
                     ELSE record(record(w, "diagnostic"), "diagnostic"))

copy_tsv_to_clipboard(w, done) ==
    LET t == Transfer(w)
        asked == [t.app EXCEPT !.typed = t.app.sequences]
    IN IF t.rows = {} THEN t.app ELSE Ended(record(asked, "diagnostic"), done)

\* The save dialog runs its own message loop: the window is disabled under it, but
\* refreshes and the tray go on. The rows were taken before it opened.
choose_export_path(w, everything) ==
    LET t == Transfer(w)
        rows == IF everything THEN SequencesOf(w.events) ELSE t.rows
        asked == [t.app EXCEPT !.typed = t.app.sequences]
    IN IF t.rows = {} THEN t.app
       ELSE [record(asked, "diagnostic") EXCEPT !.dialog = rows]
write_export_tsv(w, done) == Ended([w EXCEPT !.dialog = {}], done)

-----------------------------------------------------------------------------
(* The rubber band over the list. *)

NoBand == [phase |-> "idle", anchor |-> 0, initial |-> {}]

\* The native list selects the row; the band is armed while the button stays down.
handle_marquee_lbuttondown(w, row, held) ==
    LET picked == Picked(w, {row})
    IN IF held THEN [picked EXCEPT !.band.phase = "pending", !.band.anchor = row] ELSE picked

Band(w, row, additive) ==
    LET low == IF row < w.band.anchor THEN row ELSE w.band.anchor
        high == IF row < w.band.anchor THEN w.band.anchor ELSE row
    IN ((low..high) \cup (IF additive THEN w.band.initial ELSE {})) \cap DOMAIN w.shown

update_marquee_selection(w, row, additive) == Picked(w, Band(w, row, additive))

handle_marquee_mousemove(w, row, additive) ==
    LET active == IF w.band.phase = "pending"
                  THEN [w EXCEPT !.band.phase = "active", !.band.initial = w.native] ELSE w
    IN update_marquee_selection(active, row, additive)

\* The button came up, or the drag was given up: what is marked stays.
handle_marquee_cancel(w) ==
    IF w.band.phase = "active" THEN update_diagnostic_grid_selection([w EXCEPT !.band = NoBand])
    ELSE [w EXCEPT !.band = NoBand]

-----------------------------------------------------------------------------
(* The window's life. *)

\* What the destroyed window leaves of the state: the store, the limit and Show all.
clear_diagnostic_state(w) ==
    [w EXCEPT !.open = FALSE, !.pending = FALSE, !.queue = 0, !.refreshing = FALSE,
              !.follow_up = FALSE, !.direct = FALSE,
              !.selection = NoSelection, !.sequences = {}, !.reset = FALSE, !.grid = {},
              !.category = "All", !.search = "", !.text = <<>>, !.enabled = FALSE,
              !.shown = <<>>, !.native = {}, !.snap = <<>>, !.typed = {}, !.band = NoBand,
              !.dropped = FALSE]

\* The tray's Logs command around what it does with the window.
LogsBegun(w) == record_event(record(begin_operation(w), "window"), "window")
logs_command(w, Do(_)) == finish_operation(Do(LogsBegun(w)))

\* Controls created and filled while hidden, then shown.
CreateControls(w) ==
    refresh_diagnostic_window([w EXCEPT !.open = TRUE], FALSE)
opened(w) ==
    request_diagnostic_refresh(record(record(
        record_event(CreateControls(record_event(w, "window")), "window"),
        "diagnostic"), "diagnostic"))
\* A control, the title or the layout could not be had: the window is destroyed.
create_failed(w) == clear_diagnostic_state(record_event(record_event(w, "window"), "diagnostic"))

-----------------------------------------------------------------------------
WindowInit ==
    /\ inputs = 0
    /\ app = [events |-> <<>>, next |-> 1, marked |-> FALSE, operation |-> FALSE,
              open |-> FALSE, pending |-> FALSE, queue |-> 0, refreshing |-> FALSE,
              follow_up |-> FALSE, direct |-> FALSE, selection |-> NoSelection,
              sequences |-> {}, reset |-> FALSE, grid |-> {}, limit |-> DefaultLimit,
              all |-> FALSE, category |-> "All", search |-> "", text |-> <<>>,
              enabled |-> FALSE, shown |-> <<>>, native |-> {}, band |-> NoBand,
              dialog |-> {}, posts |-> TRUE,
              snap |-> <<>>, wanted |-> 0, dropped |-> FALSE, faults |-> 0,
              typed |-> {}, passes |-> 0]

Posts == IF app.faults < MaxPostFaults THEN BOOLEAN ELSE {TRUE}

\* A handler runs to its end before the next message.
Handle(F(_)) ==
    \E posts \in Posts :
        app' = [F([app EXCEPT !.posts = posts, !.passes = 0]) EXCEPT !.posts = TRUE]

Input(F(_)) == inputs + app.faults < MaxInputs /\ inputs' = inputs + 1 /\ Handle(F)

\* The user acts on an open window with no dialog over it.
User(F(_)) == app.open /\ app.dialog = {} /\ Input(F)

TrayOperation == Input(LAMBDA w : operation(w, "timer"))
ThreadRecords == Input(LAMBDA w : record_event(w, "timer"))

OpenWindow ==
    /\ ~app.open
    /\ \/ Input(LAMBDA w : logs_command(w, opened))
       \/ Input(LAMBDA w : logs_command(w, create_failed))
Reopen == User(LAMBDA w : logs_command(w, request_diagnostic_refresh))
Focus == User(request_diagnostic_refresh)
CloseWindow == User(clear_diagnostic_state)

\* A Shift range clears the marks and sets others. The list has owner data and reports the
\* range in a notification that handle_diagnostic_notify does not know; whether an
\* LVN_ITEMCHANGED follows, for the row that gets the focus, is left open.
ShiftRange(w, positions, told) ==
    IF told THEN Picked(w, positions) ELSE [Picked(w, {}) EXCEPT !.native = positions]

\* Clicks of the native list: one row, a row toggled with Ctrl, a Shift range, none.
NativeClick ==
    \E row \in DOMAIN app.shown :
        \/ User(LAMBDA w : Picked(w, (w.native \ {row}) \cup ({row} \ w.native)))
        \/ \E anchor \in 1..row, told \in BOOLEAN :
              User(LAMBDA w : ShiftRange(w, anchor..row, told))
        \/ User(LAMBDA w : Picked(w, {}))
select_all_diagnostic_rows == User(LAMBDA w : Picked(w, DOMAIN w.shown))

EditRange == \E text \in RangeTexts : User(LAMBDA w : diagnostic_range_changed(w, text))
EditLimit == \E limit \in Limits \cup {0} : User(LAMBDA w : diagnostic_display_changed(w, limit))
ShowAll == User(diagnostic_show_all)
PickCategory ==
    \E category \in {"All", "Timer"} :
        User(LAMBDA w : diagnostic_category_filter_changed(w, category))
EditSearch ==
    \E search \in {"", "operation"} : User(LAMBDA w : diagnostic_search_changed(w, search))

\* By the button, while it is enabled, or by Ctrl+C in the list at any time.
Copy == \E done \in BOOLEAN : User(LAMBDA w : copy_tsv_to_clipboard(w, done))
Export ==
    \E everything \in BOOLEAN :
        /\ everything \/ app.enabled
        /\ User(LAMBDA w : choose_export_path(w, everything))
DialogEnds ==
    /\ app.dialog # {}
    /\ \E done \in BOOLEAN : Handle(LAMBDA w : write_export_tsv(w, done))
    /\ UNCHANGED inputs

ButtonDown ==
    \E row \in DOMAIN app.shown, held \in BOOLEAN :
        User(LAMBDA w : handle_marquee_lbuttondown(w, row, held))
MouseMove ==
    /\ app.band.phase # "idle"
    /\ \E row \in DOMAIN app.shown, additive \in BOOLEAN :
           User(LAMBDA w : handle_marquee_mousemove(w, row, additive))
BandEnds == app.band.phase # "idle" /\ User(handle_marquee_cancel)

\* WM_DIAGNOSTIC_REFRESH.
RefreshMessage ==
    /\ app.queue > 0
    /\ \E posts \in Posts :
          LET w == [app EXCEPT !.queue = @ - 1, !.pending = FALSE, !.posts = posts,
                               !.passes = @ + 1]
          IN app' = [refresh_diagnostic_window(w, TRUE) EXCEPT !.posts = TRUE]
    /\ UNCHANGED inputs

WindowNext ==
    \/ TrayOperation \/ ThreadRecords \/ OpenWindow \/ Reopen \/ Focus \/ CloseWindow
    \/ NativeClick \/ select_all_diagnostic_rows \/ EditRange \/ EditLimit \/ ShowAll
    \/ PickCategory \/ EditSearch \/ Copy \/ Export \/ DialogEnds
    \/ ButtonDown \/ MouseMove \/ BandEnds \/ RefreshMessage

WindowSpec == WindowInit /\ [][WindowNext]_windowVars

-----------------------------------------------------------------------------
(* A flag that says a refresh is coming has its message in the queue, or   *)
(* the window would never refresh again (request_diagnostic_refresh,       *)
(* clear_diagnostic_state).                                                *)
RefreshWillCome == app.open /\ app.pending => app.queue > 0

(* One input causes at most four refreshes one after the other, although a *)
(* refresh records events of its own (diagnostic_follow_up_needed,         *)
(* finish_diagnostic_refresh).                                             *)
PassesBounded == app.passes <= 4

(* With no refresh to come the list shows what the filter, the limit and   *)
(* the newest event recorded through the App ask for (record, the          *)
(* handlers of the toolbar, refresh_diagnostic_window). Where the message  *)
(* of a refresh could not be posted nothing repeats it: until the next     *)
(* refresh runs the list may be stale, and is excused.                     *)
DisplayIsCurrent ==
    app.open /\ app.queue = 0 /\ ~app.dropped =>
        /\ app.shown = Rows(diagnostic_filtered_visible_events(app, app.snap))
        /\ \E sequence \in SequencesOf(app.snap) \cup {0} : app.wanted <= sequence

(* A refresh that is asked for comes, refreshes do not feed on themselves, *)
(* and when the last has run the list shows the present state, unless the  *)
(* post of a refresh failed since.                                         *)
RefreshSettles == RefreshWillCome /\ PassesBounded /\ DisplayIsCurrent

(* Refreshes keep a typed range on the events it named when it was typed   *)
(* or last copied, or reset it; they never let it slide to other events    *)
(* (refresh_diagnostic_controls).                                          *)
RangeKeepsEvents ==
    app.typed # {} /\ app.text # <<>> => app.sequences \in {{}, app.typed}

(* Every visible row of the selection is marked in the list, wherever the  *)
(* row has moved to (apply_diagnostic_grid_selection). The converse does   *)
(* not hold: marks at rows that events have left stay, and a Ctrl+click    *)
(* takes them into the selection.                                          *)
MarksCoverSelection == \A i \in DOMAIN app.shown : app.shown[i] \in app.grid => i \in app.native

(* A typed range stays on its events while rows move, and the list marks   *)
(* at least the rows that are selected.                                    *)
SelectionKeepsEvents == RangeKeepsEvents /\ MarksCoverSelection
=============================================================================
