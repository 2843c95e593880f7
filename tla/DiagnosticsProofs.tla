-------------------------- MODULE DiagnosticsProofs -------------------------
(***************************************************************************)
(* The event store and its log files for any number of events, callers and *)
(* days, and the diagnostic window for any store, limits and ranges.       *)
(***************************************************************************)
EXTENDS DiagnosticLog, DiagnosticWindow, SelectionProofs, SequenceTheorems

-----------------------------------------------------------------------------
(* The event store.                                                        *)

Names == EventNames \cup {"log_truncated"}
Hash == {genesis_hash} \cup [prev : Nat, sequence : Nat, name : Names, details : Nat]
Event == [sequence : Nat, name : Names, details : Nat \ {0}, prev_hash : Hash,
          entry_hash : Hash]
Stores == [events : Seq(Event), next : Nat \ {0}, hash : Hash, marked : BOOLEAN]

\* An event is numbered below the next, has the hash of its fields as they were recorded,
\* and the newest has the hash that the next will refer to.
EventOK(s, e) ==
    /\ e.sequence \in 1..(s.next - 1)
    /\ e.entry_hash = compute_entry_hash(e.prev_hash, e.sequence, e.name, 1)
    /\ e.sequence = s.next - 1 => e.entry_hash = s.hash
Linked(e, f) == f.sequence = e.sequence + 1 => f.prev_hash = e.entry_hash

\* What the chain rests on: neighbours in number are linked, wherever they stand.
StoreOK(s) ==
    /\ s \in Stores /\ Len(s.events) <= maximum_events
    /\ \A i \in DOMAIN s.events : EventOK(s, s.events[i])
    /\ \A i, j \in DOMAIN s.events : Linked(s.events[i], s.events[j])

\* The events of es are among those of fs.
Among(es, fs) == \A i \in DOMAIN es : \E j \in DOMAIN fs : es[i] = fs[j]

(* A hash carries the number of the event it is of, zero for the first.    *)
LEMMA HashSequence == ASSUME NEW h \in Hash PROVE h.sequence \in Nat
  BY DEF Hash, genesis_hash

(* The event made of a store and a name is numbered next, refers to the    *)
(* newest hash and has the hash of its own fields.                         *)
LEMMA EntryIsEvent ==
    ASSUME NEW s \in Stores, NEW name \in Names
    PROVE  /\ Entry(s, name) \in Event
           /\ Entry(s, name).sequence = s.next /\ Entry(s, name).details = 1
           /\ Entry(s, name).prev_hash = s.hash
           /\ Entry(s, name).entry_hash = compute_entry_hash(s.hash, s.next, name, 1)
           /\ Entry(s, name).name = name
<1>1. /\ s.next \in Nat \ {0} /\ s.hash \in Hash
  BY DEF Stores
<1>2. s.hash.sequence \in Nat
  BY <1>1, HashSequence
<1>3. compute_entry_hash(s.hash, s.next, name, 1)
        \in [prev : Nat, sequence : Nat, name : Names, details : Nat]
  BY <1>1, <1>2 DEF compute_entry_hash
<1>4. compute_entry_hash(s.hash, s.next, name, 1) \in Hash
  BY <1>3 DEF Hash
<1> QED
  BY <1>1, <1>4 DEF Entry, Event

(* A store of some of its events and the next one is sound: what referred  *)
(* to the newest hash still does.                                          *)
LEMMA StoreGrows ==
    ASSUME NEW s, StoreOK(s), NEW name \in Names, NEW m \in BOOLEAN,
           NEW es \in Seq(Event), Len(es) <= maximum_events,
           \A i \in DOMAIN es : \/ es[i] = Entry(s, name)
                                \/ \E j \in DOMAIN s.events : es[i] = s.events[j]
    PROVE  StoreOK([events |-> es, next |-> s.next + 1, hash |-> Entry(s, name).entry_hash,
                    marked |-> m])
<1> DEFINE n == Entry(s, name)
           t == [events |-> es, next |-> s.next + 1, hash |-> n.entry_hash, marked |-> m]
<1>1. s \in Stores /\ s.next \in Nat \ {0} /\ s.events \in Seq(Event)
  BY DEF StoreOK, Stores
<1>2. /\ n \in Event /\ n.sequence = s.next /\ n.details = 1 /\ n.prev_hash = s.hash
      /\ n.entry_hash = compute_entry_hash(s.hash, s.next, name, 1) /\ n.name = name
  BY <1>1, EntryIsEvent
<1> HIDE DEF n
<1>3. t \in Stores /\ t.next = s.next + 1 /\ t.events = es /\ t.hash = n.entry_hash
  BY <1>1, <1>2 DEF Stores, Event
<1> HIDE DEF t
<1>4. ASSUME NEW i \in DOMAIN es, es[i] = n PROVE EventOK(t, es[i])
  BY <1>1, <1>2, <1>3, <1>4 DEF EventOK
<1>5. ASSUME NEW j \in DOMAIN s.events PROVE EventOK(t, s.events[j])
  <2>0. s.events[j] \in Event
    BY <1>1
  <2>1. EventOK(s, s.events[j]) /\ s.events[j].sequence \in Nat
    BY <2>0 DEF StoreOK, Event
  <2> QED
    BY <2>1, <1>1, <1>3 DEF EventOK
<1>6. \A i \in DOMAIN es : EventOK(t, es[i])
  BY <1>4, <1>5 DEF n
<1>7. ASSUME NEW i \in DOMAIN es, NEW j \in DOMAIN es PROVE Linked(es[i], es[j])
  <2>1. ASSUME NEW k \in DOMAIN s.events
        PROVE  s.events[k].sequence \in Nat /\ s.events[k].sequence < s.next
               /\ (s.events[k].sequence + 1 = s.next => s.events[k].entry_hash = s.hash)
    <3>1. s.events[k].sequence \in 1..(s.next - 1)
      BY DEF StoreOK, EventOK
    <3>2. s.events[k].sequence = s.next - 1 => s.events[k].entry_hash = s.hash
      BY DEF StoreOK, EventOK
    <3> QED
      BY <1>1, <3>1, <3>2
  <2>2. CASE es[i] = n /\ es[j] = n
    BY <2>2, <1>1, <1>2 DEF Linked
  <2>3. ASSUME NEW k \in DOMAIN s.events, es[i] = n, es[j] = s.events[k]
        PROVE  Linked(es[i], es[j])
    BY <2>3, <2>1, <1>1, <1>2 DEF Linked
  <2>4. ASSUME NEW k \in DOMAIN s.events, es[i] = s.events[k], es[j] = n
        PROVE  Linked(es[i], es[j])
    BY <2>4, <2>1, <1>1, <1>2 DEF Linked
  <2>5. ASSUME NEW k \in DOMAIN s.events, NEW l \in DOMAIN s.events,
               es[i] = s.events[k], es[j] = s.events[l]
        PROVE  Linked(es[i], es[j])
    BY <2>5 DEF StoreOK
  <2> QED
    BY <2>2, <2>3, <2>4, <2>5 DEF n
<1> QED
  BY <1>3, <1>6, <1>7 DEF StoreOK, t, n

(* A store that loses events is sound: the links are between numbers, so a *)
(* gap breaks none.                                                        *)
LEMMA StoreShrinks ==
    ASSUME NEW s, StoreOK(s), NEW es \in Seq(Event), Len(es) <= maximum_events,
           Among(es, s.events)
    PROVE  StoreOK([s EXCEPT !.events = es])
<1> DEFINE t == [s EXCEPT !.events = es]
<1>1. /\ t \in Stores /\ t.events = es /\ t.next = s.next /\ t.hash = s.hash
      /\ s.events \in Seq(Event)
  BY DEF StoreOK, Stores
<1> HIDE DEF t
<1>2. \A i \in DOMAIN es : EventOK(t, es[i])
  BY <1>1 DEF StoreOK, Among, EventOK
<1>3. \A i, j \in DOMAIN es : Linked(es[i], es[j])
  BY DEF StoreOK, Among
<1> QED
  BY <1>1, <1>2, <1>3 DEF StoreOK, t

(* Without its second element a sequence is one shorter and the rest moves *)
(* up (Vec::remove(1), behind the marker).                                 *)
LEMMA RemoveSecond ==
    ASSUME NEW S, NEW es \in Seq(S), NEW n \in Nat, n = Len(es), n >= 2
    PROVE  /\ RemoveAt(es, 2) \in Seq(S) /\ Len(RemoveAt(es, 2)) = n - 1
           /\ \A i \in 1..(n - 1) : RemoveAt(es, 2)[i] = IF i = 1 THEN es[1] ELSE es[i + 1]
           /\ Among(RemoveAt(es, 2), es)
<1> DEFINE a == SubSeq(es, 1, 1)
           b == SubSeq(es, 3, n)
<1>1. a \in Seq(S) /\ Len(a) = 1 /\ a[1] = es[1]
  OBVIOUS
<1>2. /\ b \in Seq(S) /\ Len(b) = IF 3 <= n THEN n - 3 + 1 ELSE 0
      /\ \A i \in 1..(n - 3 + 1) : b[i] = es[3 + i - 1]
  <2>1. \A i \in 3..n : es[i] \in S
    OBVIOUS
  <2> QED
    BY <2>1, SubSeqProperties
<1>3. RemoveAt(es, 2) = a \o b
  BY DEF RemoveAt
<1> HIDE DEF a, b
<1>4. /\ a \o b \in Seq(S) /\ Len(a \o b) = Len(a) + Len(b)
      /\ \A i \in 1..(Len(a) + Len(b)) : (a \o b)[i] = IF i <= Len(a) THEN a[i] ELSE b[i - Len(a)]
  BY <1>1, <1>2, ConcatProperties, Zenon
<1>5. Len(b) = n - 2 /\ Len(a) + Len(b) = n - 1
  BY <1>1, <1>2
<1>6. ASSUME NEW i \in 1..(n - 1) PROVE (a \o b)[i] = IF i = 1 THEN es[1] ELSE es[i + 1]
  <2>1. CASE i = 1
    BY <2>1, <1>1, <1>4, <1>5
  <2>2. CASE i # 1
    <3>1. i - 1 \in 1..(n - 3 + 1) /\ 3 + (i - 1) - 1 = i + 1 /\ ~(i <= 1)
      BY <2>2
    <3>2. (a \o b)[i] = b[i - 1]
      BY <1>1, <1>4, <1>5, <3>1
    <3> QED
      BY <3>1, <3>2, <1>2, <2>2
  <2> QED
    BY <2>1, <2>2
<1>7. Among(a \o b, es)
  <2>1. DOMAIN (a \o b) = 1..(n - 1) /\ DOMAIN es = 1..n
    BY <1>4, <1>5
  <2>2. ASSUME NEW i \in 1..(n - 1) PROVE \E j \in 1..n : (a \o b)[i] = es[j]
    <3>1. 1 \in 1..n /\ i + 1 \in 1..n
      OBVIOUS
    <3> QED
      BY <3>1, <1>6
  <2> QED
    BY <2>1, <2>2 DEF Among
<1> QED
  BY <1>3, <1>4, <1>5, <1>6, <1>7

(* Records with several fields replaced, field by field.                   *)
LEMMA ChainedIs ==
    ASSUME NEW s \in Stores, NEW e
    PROVE  Chained(s, e) = [events |-> s.events, next |-> s.next + 1, hash |-> e.entry_hash,
                            marked |-> s.marked]
<1> DEFINE h == e.entry_hash
           n == s.next + 1
           t == [s EXCEPT !.next = n]
<1>1. Chained(s, e) = [s EXCEPT !.next = n, !.hash = h]
  BY DEF Chained
<1> HIDE DEF h, n
<1>2. [s EXCEPT !.next = n, !.hash = h] = [[s EXCEPT !.next = n] EXCEPT !.hash = h]
  OBVIOUS
<1>3. t = [events |-> s.events, next |-> n, hash |-> s.hash, marked |-> s.marked]
  BY DEF Stores
<1> HIDE DEF t
<1>4. [t EXCEPT !.hash = h] = [events |-> s.events, next |-> n, hash |-> h, marked |-> s.marked]
  BY <1>3
<1> QED
  BY <1>1, <1>2, <1>4 DEF h, n, t

(* The marker of a truncation is put in front and takes the next number.   *)
LEMMA MarkIs ==
    ASSUME NEW s \in Stores, NEW m, m = Marker(s)
    PROVE  Mark(s) = [events |-> <<m>> \o s.events, next |-> s.next + 1, hash |-> m.entry_hash,
                      marked |-> TRUE]
<1> DEFINE c == Chained(s, m)
           es == <<m>> \o c.events
           t == [c EXCEPT !.events = es]
           true == TRUE
<1>1. Mark(s) = [c EXCEPT !.events = es, !.marked = true]
  BY DEF Mark
<1>2. c = [events |-> s.events, next |-> s.next + 1, hash |-> m.entry_hash, marked |-> s.marked]
  BY ChainedIs
<1> HIDE DEF c, true
<1>3. es = <<m>> \o s.events
  BY <1>2
<1> HIDE DEF es
<1>4. [c EXCEPT !.events = es, !.marked = true] = [[c EXCEPT !.events = es] EXCEPT !.marked = true]
  OBVIOUS
<1>5. t = [events |-> es, next |-> s.next + 1, hash |-> m.entry_hash, marked |-> s.marked]
  BY <1>2
<1> HIDE DEF t
<1>6. [t EXCEPT !.marked = true]
        = [events |-> es, next |-> s.next + 1, hash |-> m.entry_hash, marked |-> true]
  BY <1>5
<1> QED
  BY <1>1, <1>3, <1>4, <1>6 DEF t, true

(* An event is put behind the others and takes the next number.            *)
LEMMA PushIs ==
    ASSUME NEW s \in Stores, NEW name, NEW e, e = Entry(s, name)
    PROVE  Push(s, name) = [events |-> Append(s.events, e), next |-> s.next + 1,
                            hash |-> e.entry_hash, marked |-> s.marked]
<1> DEFINE c == Chained(s, e)
           es == Append(c.events, e)
<1>1. Push(s, name) = [c EXCEPT !.events = es]
  BY DEF Push
<1>2. c = [events |-> s.events, next |-> s.next + 1, hash |-> e.entry_hash, marked |-> s.marked]
  BY ChainedIs
<1> HIDE DEF c
<1>3. es = Append(s.events, e)
  BY <1>2
<1> HIDE DEF es
<1> QED
  BY <1>1, <1>2, <1>3

\* No event comes back, and the numbers go up.
Follows(s, t) ==
    /\ t.next >= s.next
    /\ \A i \in DOMAIN t.events :
          \/ \E j \in DOMAIN s.events : t.events[i].sequence = s.events[j].sequence
          \/ t.events[i].sequence >= s.next

(* Making room keeps the store sound, leaves room for one event and brings *)
(* no event back, whether or not a marker was there before.                *)
LEMMA EvictKeeps ==
    ASSUME NEW s, StoreOK(s), Len(s.events) >= maximum_events
    PROVE  /\ StoreOK(Evict(s)) /\ Len(Evict(s).events) < maximum_events
           /\ Follows(s, Evict(s))
<1>0. /\ s \in Stores /\ s.events \in Seq(Event) /\ Len(s.events) = maximum_events
      /\ maximum_events \in Nat /\ maximum_events >= 2 /\ s.next \in Nat
      /\ \A i \in DOMAIN s.events : s.events[i] \in Event /\ s.events[i].sequence \in Nat
  <2>1. s \in Stores /\ s.events \in Seq(Event) /\ s.next \in Nat
    BY DEF StoreOK, Stores
  <2>2. \A i \in DOMAIN s.events : s.events[i] \in Event
    BY <2>1
  <2> QED
    BY <2>1, <2>2, DiagnosticLogAssumption DEF StoreOK, Event
<1>1. CASE s.marked
  <2> DEFINE es == RemoveAt(s.events, 2)
  <2>1. es \in Seq(Event) /\ Len(es) = maximum_events - 1 /\ Among(es, s.events)
    BY <1>0, RemoveSecond
  <2> HIDE DEF es
  <2>2. /\ [s EXCEPT !.events = es].events = es /\ [s EXCEPT !.events = es].next = s.next
    BY <1>0 DEF Stores
  <2>3. Evict(s) = [s EXCEPT !.events = es]
    BY <1>0, <1>1, <2>1, <2>2 DEF Evict, es
  <2>4. StoreOK(Evict(s))
    BY <1>0, <2>1, <2>3, StoreShrinks
  <2>5. Evict(s).events = es /\ Evict(s).next = s.next
    BY <2>2, <2>3
  <2> QED
    BY <1>0, <2>1, <2>4, <2>5 DEF Among, Follows
<1>2. CASE ~s.marked
  <2> DEFINE r == [s EXCEPT !.events = Tail(@)]
             m == Marker(s)
             es == <<m>> \o Tail(s.events)
             g == [events |-> es, next |-> s.next + 1, hash |-> m.entry_hash, marked |-> TRUE]
  <2>1. "log_truncated" \in Names
    BY DEF Names
  <2>2. m \in Event /\ m.sequence = s.next /\ m = Entry(s, "log_truncated")
    BY <1>0, <2>1, EntryIsEvent DEF Marker
  <2>3. /\ Tail(s.events) \in Seq(Event) /\ Len(Tail(s.events)) = maximum_events - 1
        /\ \A i \in DOMAIN Tail(s.events) : i + 1 \in DOMAIN s.events
                                           /\ Tail(s.events)[i] = s.events[i + 1]
    BY <1>0
  <2>4. Marker(r) = m
    BY <1>0 DEF Marker, Entry, Stores
  <2> HIDE DEF m
  <2>5. /\ es \in Seq(Event) /\ Len(es) = maximum_events
        /\ \A i \in DOMAIN es : es[i] = IF i = 1 THEN m ELSE Tail(s.events)[i - 1]
    BY <2>2, <2>3, <1>0
  <2>6. \A i \in DOMAIN es : es[i] = m \/ \E j \in DOMAIN s.events : es[i] = s.events[j]
    <3> SUFFICES ASSUME NEW i \in DOMAIN es, i # 1
                 PROVE  \E j \in DOMAIN s.events : es[i] = s.events[j]
      BY <2>5
    <3>1. i - 1 \in DOMAIN Tail(s.events)
      BY <2>3, <2>5, <1>0
    <3> QED
      BY <3>1, <2>3, <2>5
  <2>7. Mark(r) = g
    <3>1. r \in Stores /\ r.events = Tail(s.events) /\ r.next = s.next
      BY <1>0, <2>3 DEF Stores
    <3> QED
      BY <3>1, <2>4, MarkIs
  <2> HIDE DEF es
  <2>8. StoreOK(g)
    BY <1>0, <2>1, <2>2, <2>5, <2>6, StoreGrows
  <2> DEFINE fs == RemoveAt(es, 2)
  <2>9. fs \in Seq(Event) /\ Len(fs) = maximum_events - 1 /\ Among(fs, es)
    BY <1>0, <2>5, RemoveSecond
  <2> HIDE DEF fs
  <2>10. Evict(s) = [g EXCEPT !.events = fs]
    <3>1. g.events = es /\ Len(g.events) >= maximum_events
      BY <1>0, <2>5
    <3>2. Evict(s) = IF Len(Mark(r).events) >= maximum_events
                     THEN [Mark(r) EXCEPT !.events = RemoveAt(@, 2)] ELSE Mark(r)
      BY <1>2 DEF Evict
    <3> HIDE DEF g
    <3> QED
      BY <3>1, <3>2, <2>7 DEF fs
  <2>11. Evict(s) = [events |-> fs, next |-> s.next + 1, hash |-> m.entry_hash,
                     marked |-> TRUE]
    BY <2>10
  <2>12. g.events = es
    OBVIOUS
  <2>13. StoreOK(Evict(s))
    <3> HIDE DEF g
    <3> QED
      BY <1>0, <2>8, <2>9, <2>10, <2>12, StoreShrinks
  <2>14. Follows(s, Evict(s))
    BY <1>0, <2>2, <2>6, <2>9, <2>11 DEF Among, Follows
  <2> QED
    BY <1>0, <2>9, <2>11, <2>13, <2>14
<1> QED
  BY <1>1, <1>2

(* Recording an event, with the eviction before it, keeps the store sound  *)
(* and brings no event back.                                               *)
LEMMA RecordKeeps ==
    ASSUME NEW s, StoreOK(s), NEW name \in EventNames
    PROVE  /\ StoreOK(Recorded(s, name)) /\ Follows(s, Recorded(s, name))
           /\ Recorded(s, name).next > s.next
<1> DEFINE r == IF Len(s.events) >= maximum_events THEN Evict(s) ELSE s
           n == Entry(r, name)
           es == Append(r.events, n)
           t == [events |-> es, next |-> r.next + 1, hash |-> n.entry_hash, marked |-> r.marked]
<1>0. /\ s.next \in Nat /\ maximum_events \in Nat /\ Len(s.events) \in Nat
  BY DiagnosticLogAssumption DEF StoreOK, Stores
<1>1. StoreOK(r) /\ Len(r.events) < maximum_events /\ Follows(s, r)
  BY <1>0, EvictKeeps DEF Follows
<1> HIDE DEF r
<1>2. r \in Stores /\ r.events \in Seq(Event) /\ r.next \in Nat /\ r.marked \in BOOLEAN
  BY <1>1 DEF StoreOK, Stores
<1>3. name \in Names
  BY DEF Names
<1>4. n \in Event /\ n.sequence = r.next
  BY <1>2, <1>3, EntryIsEvent
<1>5. Recorded(s, name) = t
  BY <1>2, PushIs DEF Recorded, r
<1> HIDE DEF n
<1>6. /\ es \in Seq(Event) /\ Len(es) <= maximum_events
      /\ \A i \in DOMAIN es : es[i] = n \/ (i \in DOMAIN r.events /\ es[i] = r.events[i])
  BY <1>0, <1>1, <1>2, <1>4
<1> HIDE DEF es
<1>7. StoreOK(t)
  BY <1>1, <1>2, <1>3, <1>6, StoreGrows DEF n
<1>8. t.events = es /\ t.next = r.next + 1
  OBVIOUS
<1>9. r.next >= s.next /\ t.next > s.next
  BY <1>0, <1>1, <1>2, <1>8 DEF Follows
<1>10. ASSUME NEW i \in DOMAIN es
       PROVE  \/ \E j \in DOMAIN s.events : es[i].sequence = s.events[j].sequence
              \/ es[i].sequence >= s.next
  BY <1>1, <1>4, <1>6, <1>9 DEF Follows
<1>11. Follows(s, t)
  <2> HIDE DEF t
  <2> QED
    BY <1>0, <1>2, <1>8, <1>9, <1>10 DEF Follows
<1> QED
  BY <1>5, <1>7, <1>9, <1>11

-----------------------------------------------------------------------------
(* The invariant of the store and its flushes. *)

Settled(n) == \A k \in 1..n : k \in written \cup lost

Building == [at : {"build"}, baseline : Nat, detached : BOOLEAN]
Appending == [at : {"append", "write"}, fresh : BOOLEAN, day : Int, last : Nat, lines : Seq(Nat)]
Committing == [at : {"commit"}, last : Nat]

\* A flush will not commit a number before everything up to it is written, lost, or
\* among the lines it is about to append.
FlushOK(f) ==
    \/ f = NoFlush
    \/ f \in Building /\ f.baseline < next_sequence /\ Settled(f.baseline)
    \/ /\ f \in Appending /\ f.last < next_sequence
       /\ \A i \in DOMAIN f.lines : f.lines[i] \in 1..(next_sequence - 1)
       /\ \A k \in 1..f.last : k \in written \cup lost \/ \E i \in DOMAIN f.lines : f.lines[i] = k
    \/ f \in Committing /\ f.last < next_sequence /\ Settled(f.last)

Numbers == 1..(next_sequence - 1)

\* Every number given out is retained, written or lost, and what is lost is gone.
Accounted ==
    /\ written \subseteq Numbers /\ lost \subseteq Numbers
    /\ \A n \in Numbers : n \in Sequences(events) \cup written \cup lost
    /\ \A n \in lost : n \notin Sequences(events)

\* The inductive invariant.
LogIInv ==
    /\ StoreOK(Store) /\ Accounted /\ today \in Int
    /\ persisted \in Nat /\ persisted < next_sequence /\ Settled(persisted)
    /\ DOMAIN flush = Callers \cup {Writer}
    /\ flush = [c \in Callers \cup {Writer} |-> flush[c]]
    /\ \A c \in Callers \cup {Writer} : FlushOK(flush[c])
    /\ HeaderOnce

(* The store is made of these variables.                                   *)
LEMMA StoreFields ==
    /\ Store.events = events /\ Store.next = next_sequence /\ Store.hash = last_entry_hash
    /\ Store.marked = truncation_recorded
  BY DEF Store

\* What every step does to the numbers: more of them, and none unsettled.
Advances ==
    /\ next_sequence' \in Nat /\ next_sequence' >= next_sequence
    /\ \A n \in Nat : n \in written \cup lost => n \in written' \cup lost'

(* A step that sets the variables to a store that follows the one before   *)
(* keeps the account of the events: each is retained, written or lost.     *)
LEMMA StoreStep ==
    ASSUME StoreOK(Store), Accounted, NEW t, StoreOK(t), Follows(Store, t), SetStore(t),
           written \subseteq written', written' \subseteq Numbers
    PROVE  StoreOK(Store') /\ Accounted' /\ Advances
<1>1. /\ next_sequence \in Nat \ {0} /\ t.next \in Nat \ {0} /\ t.next >= next_sequence
      /\ t \in Stores /\ t.events \in Seq(Event)
  BY StoreFields DEF StoreOK, Stores, Follows
<1>2. /\ events' = t.events /\ next_sequence' = t.next /\ last_entry_hash' = t.hash
      /\ truncation_recorded' = t.marked
      /\ lost' = (1..(t.next - 1)) \ (Sequences(t.events) \cup written)
  BY DEF SetStore
<1>3. Store' = t
  BY <1>1, <1>2 DEF Store, Stores
<1>4. ASSUME NEW n \in lost, n \in Sequences(t.events) PROVE FALSE
  <2>1. PICK i \in DOMAIN t.events : n = t.events[i].sequence
    BY <1>4 DEF Sequences
  <2>2. n \notin Sequences(events) /\ n < next_sequence /\ n \in Nat
    BY <1>1 DEF Accounted, Numbers
  <2>3. \A j \in DOMAIN events : n # events[j].sequence
    BY <2>2 DEF Sequences
  <2> QED
    BY <1>1, <2>1, <2>2, <2>3, StoreFields DEF Follows
<1>5. ASSUME NEW n \in Nat, n \in written \cup lost PROVE n \in written' \cup lost'
  <2>1. n \in 1..(t.next - 1)
    BY <1>1, <1>5 DEF Accounted, Numbers
  <2> QED
    BY <1>2, <1>4, <1>5, <2>1
<1>6. Advances
  BY <1>1, <1>2, <1>5 DEF Advances
<1>7. Accounted'
  <2>1. written' \subseteq 1..(t.next - 1)
    BY <1>1 DEF Numbers
  <2>2. Sequences(events)' = Sequences(t.events)
    BY <1>2 DEF Sequences
  <2> QED
    BY <1>2, <2>1, <2>2 DEF Accounted, Numbers
<1> QED
  BY <1>3, <1>6, <1>7

(* What is written or lost up to a number stays so.                        *)
LEMMA SettledStays ==
    ASSUME Advances, NEW n \in Nat, Settled(n)
    PROVE  Settled(n)'
  BY DEF Advances, Settled

(* A flush that is under way stays sound while others record, write and    *)
(* evict.                                                                  *)
LEMMA FlushStays ==
    ASSUME next_sequence \in Nat, Advances, NEW f, FlushOK(f)
    PROVE  FlushOK(f)'
<1>0. next_sequence' \in Nat /\ next_sequence' >= next_sequence
  BY DEF Advances
<1>1. CASE f = NoFlush
  BY <1>1 DEF FlushOK
<1>2. CASE f \in Building /\ f.baseline < next_sequence /\ Settled(f.baseline)
  BY <1>0, <1>2, SettledStays DEF FlushOK, Building
<1>3. CASE f \in Committing /\ f.last < next_sequence /\ Settled(f.last)
  BY <1>0, <1>3, SettledStays DEF FlushOK, Committing
<1>4. CASE /\ f \in Appending /\ f.last < next_sequence
           /\ \A i \in DOMAIN f.lines : f.lines[i] \in 1..(next_sequence - 1)
           /\ \A k \in 1..f.last :
                 k \in written \cup lost \/ \E i \in DOMAIN f.lines : f.lines[i] = k
  <2>1. f.last \in Nat /\ f.last < next_sequence'
    BY <1>0, <1>4 DEF Appending
  <2>2. \A i \in DOMAIN f.lines : f.lines[i] \in 1..(next_sequence' - 1)
    BY <1>0, <1>4
  <2>3. \A k \in 1..f.last : k \in written' \cup lost' \/ \E i \in DOMAIN f.lines : f.lines[i] = k
    BY <1>4, <2>1 DEF Advances
  <2> QED
    BY <1>4, <2>1, <2>2, <2>3 DEF FlushOK
<1> QED
  BY <1>1, <1>2, <1>3, <1>4 DEF FlushOK

(* The events of a sound store are numbered below the next.                *)
LEMMA StoreTypes ==
    ASSUME StoreOK(Store)
    PROVE  /\ next_sequence \in Nat \ {0} /\ events \in Seq(Event)
           /\ \A i \in DOMAIN events : events[i] \in Event /\ events[i].sequence \in Numbers
           /\ Sequences(events) \subseteq Numbers
<1>1. next_sequence \in Nat \ {0} /\ events \in Seq(Event)
  BY StoreFields DEF StoreOK, Stores
<1>2. \A i \in DOMAIN events : events[i] \in Event /\ events[i].sequence \in Numbers
  BY <1>1, StoreFields DEF StoreOK, EventOK, Numbers
<1> QED
  BY <1>1, <1>2 DEF Sequences

(* A step that leaves the store and the files alone keeps the account.     *)
LEMMA Unrecorded ==
    ASSUME LogIInv, UNCHANGED <<storeVars, lost, written>>
    PROVE  StoreOK(Store') /\ Accounted' /\ Advances
<1>1. Store' = Store /\ events' = events
  BY DEF Store, storeVars
<1>2. StoreOK(Store') /\ Accounted'
  BY <1>1 DEF LogIInv, storeVars, Accounted, Numbers, Sequences
<1> QED
  BY <1>2, StoreTypes DEF Advances, storeVars, LogIInv

(* A repeated layout event counts up in the details of the newest, which   *)
(* keeps its number and its hash (coalesce_repeated_layout_event).         *)
LEMMA CoalesceKeeps ==
    ASSUME LogIInv, NEW name \in EventNames, Repeats(name), coalesce_repeated_layout_event,
           UNCHANGED written
    PROVE  StoreOK(Store') /\ Accounted' /\ Advances
<1> DEFINE n == Len(events)
           count == IF Last(events).details < MaxRepeats THEN Last(events).details + 1
                    ELSE MaxRepeats
           e == [events[n] EXCEPT !.details = count]
           es == [events EXCEPT ![n] = e]
<1>1. /\ StoreOK(Store) /\ next_sequence \in Nat \ {0} /\ events \in Seq(Event)
      /\ \A i \in DOMAIN events : events[i] \in Event
  BY StoreTypes DEF LogIInv
<1>2. events # <<>> /\ n \in DOMAIN events
  BY <1>1 DEF Repeats
<1>3. events[n] \in Event /\ Last(events) = events[n]
  BY <1>1, <1>2 DEF Last
<1>4. count \in Nat \ {0}
  <2>1. events[n].details \in Nat \ {0}
    BY <1>3 DEF Event
  <2> QED
    BY <1>3, <2>1, DiagnosticLogAssumption
<1>5. /\ events' = es /\ UNCHANGED <<next_sequence, last_entry_hash, truncation_recorded, lost>>
  <2>1. events' = [events EXCEPT ![Len(events)].details = count]
    BY DEF coalesce_repeated_layout_event
  <2> QED
    BY <2>1 DEF coalesce_repeated_layout_event
<1> HIDE DEF count
<1>6. /\ e \in Event /\ e.sequence = events[n].sequence /\ e.name = events[n].name
      /\ e.prev_hash = events[n].prev_hash /\ e.entry_hash = events[n].entry_hash
  BY <1>3, <1>4 DEF Event
<1> HIDE DEF e
<1>7. /\ es \in Seq(Event) /\ Len(es) = Len(events) /\ DOMAIN es = DOMAIN events
      /\ \A i \in DOMAIN events : es[i] = IF i = n THEN e ELSE events[i]
  BY <1>1, <1>2, <1>6
<1>8. \A i \in DOMAIN events :
          /\ es[i].sequence = events[i].sequence /\ es[i].name = events[i].name
          /\ es[i].prev_hash = events[i].prev_hash /\ es[i].entry_hash = events[i].entry_hash
  BY <1>6, <1>7
<1> HIDE DEF es
<1> DEFINE t == [events |-> es, next |-> next_sequence, hash |-> last_entry_hash,
                 marked |-> truncation_recorded]
<1>9. Store' = t
  BY <1>5 DEF Store
<1>10. /\ t \in Stores /\ t.events = es /\ t.next = next_sequence /\ t.hash = last_entry_hash
  BY <1>1, <1>7, StoreFields DEF StoreOK, Stores
<1> HIDE DEF t
<1>11. StoreOK(t)
  <2>1. Len(t.events) <= maximum_events
    BY <1>1, <1>7, <1>10, StoreFields DEF StoreOK
  <2>2. \A i \in DOMAIN t.events : EventOK(t, t.events[i])
    BY <1>1, <1>7, <1>8, <1>10, StoreFields DEF StoreOK, EventOK
  <2>3. \A i, j \in DOMAIN t.events : Linked(t.events[i], t.events[j])
    BY <1>1, <1>7, <1>8, <1>10, StoreFields DEF StoreOK, Linked
  <2> QED
    BY <1>10, <2>1, <2>2, <2>3 DEF StoreOK
<1>12. Sequences(events)' = Sequences(events)
  BY <1>5, <1>7, <1>8 DEF Sequences
<1>13. Accounted'
  BY <1>5, <1>12 DEF LogIInv, Accounted, Numbers
<1> QED
  BY <1>1, <1>5, <1>9, <1>11, <1>13 DEF Advances

(* The same for an event that is recorded on a condition.                  *)
LEMMA RecordedIfKeeps ==
    ASSUME NEW s, StoreOK(s), NEW b \in BOOLEAN
    PROVE  StoreOK(RecordedIf(b, s)) /\ Follows(s, RecordedIf(b, s))
<1>1. "other" \in EventNames
  BY DEF EventNames
<1>2. s.next \in Nat
  BY DEF StoreOK, Stores
<1> QED
  BY <1>1, <1>2, RecordKeeps DEF RecordedIf, Follows

(* Stores that follow one another follow the first.                        *)
LEMMA FollowsTransitive ==
    ASSUME NEW r, NEW s, NEW t, StoreOK(r), StoreOK(s), StoreOK(t), Follows(r, s), Follows(s, t)
    PROVE  Follows(r, t)
<1>1. r.next \in Nat /\ s.next \in Nat /\ t.next \in Nat
  BY DEF StoreOK, Stores
<1>2. \A i \in DOMAIN t.events : t.events[i].sequence \in Nat
  BY <1>1 DEF StoreOK, EventOK
<1> QED
  BY <1>1, <1>2 DEF Follows

(* What a flush leaves of the others.                                      *)
LEMMA FlushesStay ==
    ASSUME LogIInv, Advances, NEW c \in Callers \cup {Writer}, NEW f, FlushOK(f)',
           flush' = [flush EXCEPT ![c] = f]
    PROVE  /\ DOMAIN flush' = Callers \cup {Writer}
           /\ flush' = [d \in Callers \cup {Writer} |-> flush'[d]]
           /\ \A d \in Callers \cup {Writer} : FlushOK(flush[d])'
<1>1. next_sequence \in Nat
  BY StoreTypes DEF LogIInv
<1>2. \A d \in Callers \cup {Writer} : flush'[d] = f \/ flush'[d] = flush[d]
  BY DEF LogIInv
<1>3. ASSUME NEW d \in Callers \cup {Writer}, NEW g, g = flush[d] PROVE FlushOK(g)'
  BY <1>1, <1>3, FlushStays DEF LogIInv
<1>4. ASSUME NEW d \in Callers \cup {Writer} PROVE FlushOK(flush[d])'
  <2>1. CASE flush'[d] = f
    BY <2>1 DEF FlushOK, Settled
  <2>2. CASE flush'[d] = flush[d]
    BY <2>2, <1>3 DEF FlushOK, Settled
  <2> QED
    BY <1>2, <2>1, <2>2
<1> QED
  BY <1>4 DEF LogIInv

-----------------------------------------------------------------------------
(* The log and its flushes, step by step.                                  *)

(* The empty store and no flush satisfy the invariant.                     *)
LEMMA LogStarts == LogInit => LogIInv
<1> SUFFICES ASSUME LogInit PROVE LogIInv
  OBVIOUS
<1>1. /\ events = <<>> /\ next_sequence = 1 /\ last_entry_hash = genesis_hash
      /\ truncation_recorded = FALSE /\ persisted = 0 /\ today = 1 /\ written = {} /\ lost = {}
      /\ flush = [c \in Callers \cup {Writer} |-> NoFlush] /\ logs = [d \in 1..MaxDay |-> Absent]
  BY DEF LogInit
<1>2. genesis_hash \in Hash
  BY DEF Hash
<1>3. Store \in Stores /\ Store.events = <<>>
  <2>1. Store.events = <<>> /\ <<>> \in Seq(Event)
    BY <1>1 DEF Store
  <2>2. /\ truncation_recorded \in BOOLEAN /\ next_sequence \in Nat \ {0}
        /\ last_entry_hash \in Hash /\ events \in Seq(Event)
    <3>1. truncation_recorded \in BOOLEAN
      BY <1>1, Zenon
    <3> QED
      BY <1>1, <1>2, <3>1
  <2> QED
    BY <2>1, <2>2 DEF Store, Stores
<1>4. StoreOK(Store)
  BY <1>3, DiagnosticLogAssumption DEF StoreOK
<1>5. Accounted /\ Settled(persisted)
  BY <1>1 DEF Accounted, Numbers, Settled
<1>6. \A c \in Callers \cup {Writer} : FlushOK(flush[c])
  BY <1>1 DEF FlushOK
<1>7. HeaderOnce
  BY <1>1 DEF HeaderOnce
<1> QED
  BY <1>1, <1>4, <1>5, <1>6, <1>7 DEF LogIInv

(* A step that records and touches no flush keeps the invariant.           *)
LEMMA Carried ==
    ASSUME LogIInv, StoreOK(Store'), Accounted', Advances,
           UNCHANGED <<persisted, flush, today, logs>>
    PROVE  LogIInv'
<1>1. next_sequence \in Nat /\ persisted \in Nat
  BY StoreTypes DEF LogIInv
<1>2. ASSUME NEW d \in Callers \cup {Writer} PROVE FlushOK(flush[d])'
  <2>1. ASSUME NEW g, g = flush[d] PROVE FlushOK(g)'
    BY <1>1, <2>1, FlushStays DEF LogIInv
  <2> QED
    BY <2>1 DEF FlushOK, Settled
<1>3. Settled(persisted)'
  <2>1. ASSUME NEW n \in Nat, n = persisted PROVE Settled(n)'
    BY <2>1, SettledStays DEF LogIInv
  <2> QED
    BY <1>1, <2>1 DEF Settled
<1>4. StoreOK(Store)'
  BY DEF StoreOK, EventOK
<1>5. persisted' < next_sequence'
  BY <1>1 DEF LogIInv, Advances
<1>6. HeaderOnce'
  BY DEF LogIInv, HeaderOnce
<1> QED
  BY <1>2, <1>3, <1>4, <1>5, <1>6 DEF LogIInv

(* A step of one flush keeps the invariant when it leaves the flush sound, *)
(* the days as they are and one header to a file.                          *)
LEMMA FlushStep ==
    ASSUME LogIInv, StoreOK(Store'), Accounted', Advances, HeaderOnce',
           NEW c \in Callers \cup {Writer}, NEW f, FlushOK(f)',
           flush' = [flush EXCEPT ![c] = f], UNCHANGED <<persisted, today>>
    PROVE  LogIInv'
<1>1. next_sequence \in Nat /\ persisted \in Nat
  BY StoreTypes DEF LogIInv
<1>2. /\ DOMAIN flush' = Callers \cup {Writer}
      /\ flush' = [d \in Callers \cup {Writer} |-> flush'[d]]
      /\ \A d \in Callers \cup {Writer} : FlushOK(flush[d])'
  BY FlushesStay
<1>3. Settled(persisted)'
  <2>1. ASSUME NEW n \in Nat, n = persisted PROVE Settled(n)'
    BY <2>1, SettledStays DEF LogIInv
  <2> QED
    BY <1>1, <2>1 DEF Settled
<1>4. StoreOK(Store)'
  BY DEF StoreOK, EventOK
<1>5. persisted' < next_sequence'
  BY <1>1 DEF LogIInv, Advances
<1> QED
  BY <1>2, <1>3, <1>4, <1>5 DEF LogIInv

(* Recording keeps the invariant (record_with_context).                    *)
LEMMA RecordStep ==
    ASSUME LogIInv, NEW name \in EventNames, record_with_context(name)
    PROVE  LogIInv'
<1>1. UNCHANGED <<persisted, flush, today, logs, written>>
  BY DEF record_with_context, fileVars
<1>2. StoreOK(Store') /\ Accounted' /\ Advances
  <2>1. CASE Repeats(name)
    BY <1>1, <2>1, CoalesceKeeps DEF record_with_context
  <2>2. CASE ~Repeats(name)
    <3>1. SetStore(Recorded(Store, name))
      BY <2>2 DEF record_with_context
    <3>2. StoreOK(Store) /\ Accounted
      BY DEF LogIInv
    <3>3. StoreOK(Recorded(Store, name)) /\ Follows(Store, Recorded(Store, name))
      BY <3>2, RecordKeeps
    <3>4. written \subseteq written' /\ written' \subseteq Numbers
      BY <1>1, <3>2 DEF Accounted
    <3> QED
      BY <3>1, <3>2, <3>3, <3>4, StoreStep
  <2> QED
    BY <2>1, <2>2
<1> QED
  BY <1>1, <1>2, Carried

(* A flush begins with the number that is persisted when it looks          *)
(* (load_baseline).                                                        *)
LEMMA LoadStep ==
    ASSUME LogIInv, NEW c \in Callers, load_baseline(c)
    PROVE  LogIInv'
<1>1. UNCHANGED <<storeVars, lost, persisted, today, logs, written>>
  BY DEF load_baseline
<1>2. StoreOK(Store') /\ Accounted' /\ Advances
  BY <1>1, Unrecorded
<1>3. PICK detached \in BOOLEAN :
         flush' = [flush EXCEPT ![c] = [at |-> "build", baseline |-> persisted,
                                        detached |-> detached]]
  BY DEF load_baseline
<1>4. HeaderOnce' /\ next_sequence' = next_sequence
  BY <1>1 DEF LogIInv, HeaderOnce, storeVars
<1>5. ASSUME NEW p, p = persisted
      PROVE  FlushOK([at |-> "build", baseline |-> p, detached |-> detached])'
  <2>1. p \in Nat /\ p < next_sequence /\ Settled(p)'
    BY <1>1, <1>5 DEF LogIInv, Settled
  <2>2. [at |-> "build", baseline |-> p, detached |-> detached] \in Building
    BY <2>1 DEF Building
  <2> QED
    BY <1>4, <2>1, <2>2 DEF FlushOK
<1>6. ASSUME NEW p, p = persisted PROVE LogIInv'
  <2>1. flush' = [flush EXCEPT ![c] = [at |-> "build", baseline |-> p, detached |-> detached]]
    BY <1>3, <1>6
  <2> QED
    BY <1>1, <1>2, <1>4, <1>5, <1>6, <2>1, FlushStep
<1> QED
  BY <1>6

(* A flush commits a number up to which everything is written or lost,     *)
(* although others have committed meanwhile.                               *)
LEMMA CommitStep ==
    ASSUME LogIInv, NEW c \in Callers \cup {Writer}, commit_sequence(c)
    PROVE  LogIInv'
<1>1. /\ UNCHANGED <<storeVars, lost, today, logs, written>>
      /\ flush[c] # NoFlush /\ flush[c].at = "commit" /\ persisted' = flush[c].last
      /\ flush' = [flush EXCEPT ![c] = NoFlush]
  BY DEF commit_sequence
<1>2. StoreOK(Store') /\ Accounted' /\ Advances
  BY <1>1, Unrecorded
<1>3. FlushOK(flush[c])
  BY DEF LogIInv
<1>4. flush[c].last \in Nat /\ flush[c].last < next_sequence /\ Settled(flush[c].last)
  BY <1>1, <1>3 DEF FlushOK, Building, Appending, Committing
<1>5. next_sequence' = next_sequence
  BY <1>1 DEF storeVars
<1>6. persisted' \in Nat /\ persisted' < next_sequence' /\ Settled(persisted)'
  BY <1>1, <1>4, <1>5 DEF Settled
<1>7. FlushOK(NoFlush)'
  BY DEF FlushOK
<1>8. /\ DOMAIN flush' = Callers \cup {Writer}
      /\ flush' = [d \in Callers \cup {Writer} |-> flush'[d]]
      /\ \A d \in Callers \cup {Writer} : FlushOK(flush[d])'
  BY <1>1, <1>2, <1>7, FlushesStay
<1>9. StoreOK(Store)' /\ HeaderOnce'
  BY <1>1, <1>2 DEF StoreOK, EventOK, LogIInv, HeaderOnce
<1> QED
  BY <1>1, <1>2, <1>6, <1>8, <1>9 DEF LogIInv

(* A file that cannot be written commits nothing.                          *)
LEMMA RefusedStep ==
    ASSUME LogIInv, NEW c \in Callers \cup {Writer}, append_refused(c)
    PROVE  LogIInv'
<1>1. /\ UNCHANGED <<persisted, today, logs, written>> /\ SetStore(Recorded(Store, "other"))
      /\ flush' = [flush EXCEPT ![c] = NoFlush]
  BY DEF append_refused
<1>2. StoreOK(Store) /\ Accounted /\ "other" \in EventNames
  BY DEF LogIInv, EventNames
<1>3. StoreOK(Recorded(Store, "other")) /\ Follows(Store, Recorded(Store, "other"))
  BY <1>2, RecordKeeps
<1>4. written \subseteq written' /\ written' \subseteq Numbers
  BY <1>1, <1>2 DEF Accounted
<1>5. StoreOK(Store') /\ Accounted' /\ Advances
  BY <1>1, <1>2, <1>3, <1>4, StoreStep
<1>6. FlushOK(NoFlush)' /\ HeaderOnce'
  BY <1>1 DEF FlushOK, LogIInv, HeaderOnce
<1> QED
  BY <1>1, <1>5, <1>6, FlushStep

(* The lines a flush takes and the events evicted before them account for  *)
(* every number up to the last one taken.                                  *)
LEMMA BuildStep ==
    ASSUME LogIInv, NEW c \in Callers, build_log_lines(c)
    PROVE  LogIInv'
<1> DEFINE b == flush[c].baseline
           I == {i \in DOMAIN events : events[i].sequence > b}
           lines == Retain(events, I)
           job == Job(lines)
<1>1. /\ UNCHANGED <<storeVars, lost, persisted, today, logs, written>>
      /\ flush[c] # NoFlush /\ flush[c].at = "build"
      /\ flush' = IF lines = <<>> THEN [flush EXCEPT ![c] = NoFlush]
                  ELSE IF ~flush[c].detached THEN [flush EXCEPT ![c] = job]
                  ELSE IF flush[Writer] # NoFlush THEN [flush EXCEPT ![c] = NoFlush]
                  ELSE [flush EXCEPT ![c] = NoFlush, ![Writer] = job]
  BY DEF build_log_lines, Pending
<1>2. StoreOK(Store') /\ Accounted' /\ Advances
  BY <1>1, Unrecorded
<1>3. FlushOK(flush[c])
  BY DEF LogIInv
<1>4. b \in Nat /\ b < next_sequence /\ Settled(b)
  BY <1>1, <1>3 DEF FlushOK, Building, Appending, Committing
<1>5. /\ next_sequence \in Nat \ {0} /\ events \in Seq(Event)
      /\ \A i \in DOMAIN events : events[i] \in Event /\ events[i].sequence \in Numbers
  BY StoreTypes DEF LogIInv
<1>6. /\ lines \in Seq(Event)
      /\ \A i \in DOMAIN lines : \E j \in I : lines[i] = events[j]
      /\ \A j \in I : \E i \in DOMAIN lines : lines[i] = events[j]
  <2>0. I \in SUBSET DOMAIN events /\ events \in Seq(Event)
    BY <1>5
  <2> HIDE DEF I
  <2>1. ASSUME NEW r, r = lines
        PROVE  /\ r \in Seq(Event)
               /\ \A n \in DOMAIN r : \E i \in I : r[n] = events[i]
               /\ \A i \in I : \E n \in DOMAIN r : r[n] = events[i]
    BY <2>0, <2>1, RetainFinds
  <2> HIDE DEF lines
  <2> QED
    BY <2>1
<1> HIDE DEF lines
<1>7. ASSUME lines # <<>> PROVE FlushOK(job)
  <2> DEFINE numbers == [i \in DOMAIN lines |-> lines[i].sequence]
             l == Last(lines).sequence
  <2>1. \A i \in DOMAIN lines : lines[i].sequence \in Numbers /\ lines[i].sequence \in Nat
    BY <1>5, <1>6 DEF Numbers
  <2>2. Len(lines) \in DOMAIN lines /\ Last(lines) = lines[Len(lines)]
    BY <1>6, <1>7 DEF Last
  <2>3. l \in Numbers /\ l \in Nat /\ l < next_sequence
    BY <1>5, <2>1, <2>2 DEF Numbers
  <2>4. /\ numbers \in Seq(Nat) /\ DOMAIN numbers = DOMAIN lines
        /\ \A i \in DOMAIN lines : numbers[i] = lines[i].sequence
    BY <1>6, <2>1
  <2>5. job = [at |-> "append", fresh |-> FALSE, day |-> today, last |-> l, lines |-> numbers]
    BY DEF Job
  <2>6. today \in Int
    BY DEF LogIInv
  <2> HIDE DEF l, numbers, job
  <2>7. job \in Appending /\ job.last = l /\ job.lines = numbers
    BY <2>3, <2>4, <2>5, <2>6 DEF Appending
  <2>8. ASSUME NEW k \in 1..l
        PROVE  k \in written \cup lost \/ \E i \in DOMAIN numbers : numbers[i] = k
    <3>1. k \in Numbers /\ k \in Nat
      BY <1>5, <2>3 DEF Numbers
    <3>2. CASE k <= b
      BY <1>4, <2>3, <3>2 DEF Settled
    <3>3. CASE k > b /\ k \notin written \cup lost
      <4>1. PICK j \in DOMAIN events : k = events[j].sequence
        BY <3>1, <3>3 DEF LogIInv, Accounted, Sequences
      <4>2. j \in I
        BY <3>3, <4>1
      <4> QED
        BY <1>6, <2>4, <4>1, <4>2
    <3> QED
      BY <1>4, <3>1, <3>2, <3>3
  <2>9. \A i \in DOMAIN numbers : numbers[i] \in 1..(next_sequence - 1)
    BY <2>1, <2>4 DEF Numbers
  <2> QED
    BY <2>3, <2>7, <2>8, <2>9 DEF FlushOK
<1>8. FlushOK(NoFlush)' /\ HeaderOnce'
  BY <1>1 DEF FlushOK, LogIInv, HeaderOnce
<1>9. ASSUME NEW f, f = job, lines # <<>> PROVE FlushOK(f)'
  BY <1>2, <1>5, <1>7, <1>9, FlushStays
<1> HIDE DEF job
<1>10. CASE flush' = [flush EXCEPT ![c] = NoFlush]
  BY <1>1, <1>2, <1>8, <1>10, FlushStep
<1>11. CASE lines # <<>> /\ flush' = [flush EXCEPT ![c] = job]
  <2>1. ASSUME NEW f, f = job PROVE LogIInv'
    <3>1. flush' = [flush EXCEPT ![c] = f] /\ FlushOK(f)'
      BY <1>9, <1>11, <2>1
    <3> QED
      BY <1>1, <1>2, <1>8, <3>1, FlushStep
  <2> QED
    BY <2>1
<1>12. CASE lines # <<>> /\ flush' = [flush EXCEPT ![c] = NoFlush, ![Writer] = job]
  <2>1. next_sequence' = next_sequence
    BY <1>1 DEF storeVars
  <2>2. ASSUME NEW d \in Callers \cup {Writer}
        PROVE  flush'[d] = job \/ flush'[d] = NoFlush \/ flush'[d] = flush[d]
    BY <1>12 DEF LogIInv
  <2>3. ASSUME NEW d \in Callers \cup {Writer} PROVE FlushOK(flush[d])'
    <3>1. ASSUME NEW g, g = flush[d] PROVE FlushOK(g)'
      BY <1>2, <1>5, <3>1, FlushStays DEF LogIInv
    <3>2. ASSUME NEW g, g = flush'[d], FlushOK(g)' PROVE FlushOK(flush[d])'
      BY <3>2 DEF FlushOK, Settled
    <3>3. ASSUME NEW g, g = flush'[d] PROVE FlushOK(g)'
      BY <1>8, <1>9, <1>12, <2>2, <3>1, <3>3
    <3> QED
      BY <3>2, <3>3
  <2>4. /\ DOMAIN flush' = Callers \cup {Writer}
        /\ flush' = [d \in Callers \cup {Writer} |-> flush'[d]]
    BY <1>12 DEF LogIInv
  <2>5. Settled(persisted)' /\ persisted' \in Nat /\ persisted' < next_sequence'
    BY <1>1, <2>1 DEF LogIInv, Settled
  <2>6. StoreOK(Store)'
    BY <1>2 DEF StoreOK, EventOK
  <2> QED
    BY <1>1, <1>2, <1>8, <2>3, <2>4, <2>5, <2>6 DEF LogIInv
<1> QED
  BY <1>1, <1>10, <1>11, <1>12

(* Looking for the file changes nothing that a flush will commit.          *)
LEMMA FindStep ==
    ASSUME LogIInv, NEW c \in Callers \cup {Writer}, find_log_file(c)
    PROVE  LogIInv'
<1> DEFINE f == flush[c]
           g == [f EXCEPT !.at = "write", !.fresh = logs[f.day] = Absent]
<1>1. /\ UNCHANGED <<storeVars, lost, persisted, today, logs, written>>
      /\ f # NoFlush /\ f.at = "append" /\ flush' = [flush EXCEPT ![c] = g]
  <2>1. /\ UNCHANGED <<storeVars, lost, persisted, today, logs, written>>
        /\ f # NoFlush /\ f.at = "append"
    BY DEF find_log_file
  <2>2. ASSUME NEW new
        PROVE  [flush EXCEPT ![c].at = "write", ![c].fresh = new] =
               [flush EXCEPT ![c] = [flush[c] EXCEPT !.at = "write", !.fresh = new]]
    BY DEF LogIInv
  <2> QED
    BY <2>1, <2>2 DEF find_log_file
<1>2. StoreOK(Store') /\ Accounted' /\ Advances /\ next_sequence \in Nat
  BY <1>1, Unrecorded, StoreTypes DEF LogIInv
<1>3. FlushOK(f)
  BY DEF LogIInv
<1>4. /\ f \in Appending /\ f.last < next_sequence
      /\ \A i \in DOMAIN f.lines : f.lines[i] \in 1..(next_sequence - 1)
      /\ \A k \in 1..f.last : k \in written \cup lost \/ \E i \in DOMAIN f.lines : f.lines[i] = k
  BY <1>1, <1>3 DEF FlushOK, Building, Committing
<1>5. g \in Appending /\ g.last = f.last /\ g.lines = f.lines
  <2>1. (logs[f.day] = Absent) \in BOOLEAN
    OBVIOUS
  <2>2. ASSUME NEW new \in BOOLEAN, NEW h, h = [f EXCEPT !.at = "write", !.fresh = new]
        PROVE  h \in Appending /\ h.last = f.last /\ h.lines = f.lines
    <3> HIDE DEF f
    <3> QED
      BY <1>4, <2>2 DEF Appending
  <2> HIDE DEF f
  <2> QED
    BY <2>1, <2>2
<1>6. FlushOK(g)
  <2> HIDE DEF f, g
  <2> QED
    BY <1>4, <1>5 DEF FlushOK
<1>7. HeaderOnce'
  BY <1>1 DEF LogIInv, HeaderOnce
<1> HIDE DEF f, g
<1>8. ASSUME NEW h, h = g PROVE LogIInv'
  <2>1. FlushOK(h)'
    BY <1>2, <1>6, <1>8, FlushStays
  <2>2. flush' = [flush EXCEPT ![c] = h]
    BY <1>1, <1>8
  <2> QED
    BY <1>1, <1>2, <1>7, <2>1, <2>2, FlushStep
<1> QED
  BY <1>8

(* Appending writes the lines, and a header to a file that has none.       *)
LEMMA AppendStep ==
    ASSUME LogIInv, NEW c \in Callers \cup {Writer}, append_log_lines(c)
    PROVE  LogIInv'
<1> DEFINE lines == flush[c].lines
           day == flush[c].day
           grown(file) == [logs EXCEPT ![day] = file]
           purged(file) == IF flush[c].fresh THEN purge_expired_logs(grown(file), today) ELSE {}
<1>0. PICK k \in 0..Len(lines), failed \in BOOLEAN :
         \E file \in write_log_lines(logs[day], failed /\ k = 0) :
         /\ IF failed THEN logFaults < MaxLogFaults ELSE k = Len(lines)
         /\ logs' = [d \in DOMAIN logs |-> IF d \in purged(file) THEN Absent ELSE grown(file)[d]]
         /\ written' = written \cup Range(SubSeq(lines, 1, k))
         /\ SetStore(RecordedIf(purged(file) # {}, RecordedIf(failed, Store)))
         /\ flush' = [flush EXCEPT ![c] = AfterAppend(@, failed)]
  BY DEF append_log_lines
<1>a. PICK file \in write_log_lines(logs[day], failed /\ k = 0) :
         /\ IF failed THEN logFaults < MaxLogFaults ELSE k = Len(lines)
         /\ logs' = [d \in DOMAIN logs |-> IF d \in purged(file) THEN Absent ELSE grown(file)[d]]
         /\ written' = written \cup Range(SubSeq(lines, 1, k))
         /\ SetStore(RecordedIf(purged(file) # {}, RecordedIf(failed, Store)))
         /\ flush' = [flush EXCEPT ![c] = AfterAppend(@, failed)]
  BY <1>0
<1> DEFINE after == grown(file)
           removed == purged(file)
<1>1.    /\ IF failed THEN logFaults < MaxLogFaults ELSE k = Len(lines)
         /\ logs' = [d \in DOMAIN logs |-> IF d \in removed THEN Absent ELSE after[d]]
         /\ written' = written \cup Range(SubSeq(lines, 1, k))
         /\ SetStore(RecordedIf(removed # {}, RecordedIf(failed, Store)))
         /\ flush' = [flush EXCEPT ![c] = AfterAppend(@, failed)]
  BY <1>a
<1>2. UNCHANGED <<persisted, today>> /\ flush[c] # NoFlush /\ flush[c].at = "write"
  BY DEF append_log_lines
<1>3. HeaderOnce'
  <2>1. ASSUME NEW d \in DOMAIN logs
        PROVE  after[d] \in {Absent, Empty, Torn, Headed}
    <3>1. day \in DOMAIN logs => file \in {logs[day], Empty, Torn, Headed}
      BY DEF write_log_lines, Absent, Empty, Headed
    <3> QED
      BY <3>1 DEF LogIInv, HeaderOnce
  <2> HIDE DEF after, removed
  <2> QED
    BY <1>1, <2>1 DEF HeaderOnce
<1> HIDE DEF after
<1>4. FlushOK(flush[c])
  BY DEF LogIInv
<1>5. /\ flush[c] \in Appending /\ flush[c].last < next_sequence
      /\ \A i \in DOMAIN lines : lines[i] \in 1..(next_sequence - 1)
      /\ \A n \in 1..flush[c].last :
            n \in written \cup lost \/ \E i \in DOMAIN lines : lines[i] = n
  BY <1>2, <1>4 DEF FlushOK, Building, Committing
<1>6. lines \in Seq(Nat) /\ flush[c].last \in Nat
  BY <1>5 DEF Appending
<1> HIDE DEF lines
<1> DEFINE some == SubSeq(lines, 1, k)
<1>7. /\ some \in Seq(Nat) /\ DOMAIN some = 1..k
      /\ \A i \in 1..k : some[i] = lines[i] /\ i \in DOMAIN lines
  BY <1>6
<1> HIDE DEF some
<1>8. written' = written \cup {lines[i] : i \in 1..k}
  BY <1>1, <1>7, ZenonT(60) DEF Range, some
<1>9. written \subseteq written' /\ written' \subseteq Numbers
  BY <1>5, <1>7, <1>8 DEF LogIInv, Accounted, Numbers
<1> DEFINE s == RecordedIf(failed, Store)
           t == RecordedIf(removed # {}, s)
<1> HIDE DEF removed
<1>10. StoreOK(Store) /\ Accounted
  BY DEF LogIInv
<1>11. StoreOK(s) /\ Follows(Store, s)
  BY <1>10, RecordedIfKeeps
<1> HIDE DEF s
<1>12. StoreOK(t) /\ Follows(s, t)
  BY <1>11, RecordedIfKeeps
<1>13. SetStore(t)
  BY <1>1 DEF s
<1> HIDE DEF t
<1>14. Follows(Store, t)
  BY <1>10, <1>11, <1>12, FollowsTransitive
<1>15. StoreOK(Store') /\ Accounted' /\ Advances
  BY <1>9, <1>10, <1>12, <1>13, <1>14, StoreStep
<1>16. CASE failed
  <2>1. flush' = [flush EXCEPT ![c] = NoFlush]
    BY <1>1, <1>16 DEF AfterAppend
  <2>2. FlushOK(NoFlush)'
    BY DEF FlushOK
  <2> QED
    BY <1>2, <1>3, <1>15, <2>1, <2>2, FlushStep
<1>17. CASE ~failed
  <2>1. flush' = [flush EXCEPT ![c] = [at |-> "commit", last |-> flush[c].last]]
    BY <1>1, <1>17 DEF AfterAppend
  <2>2. \A n \in 1..flush[c].last : n \in written' \cup lost'
    <3>1. DOMAIN lines = 1..k
      BY <1>1, <1>6, <1>17
    <3> QED
      BY <1>5, <1>6, <1>8, <1>15, <3>1 DEF Advances
  <2>3. ASSUME NEW n, n = flush[c].last PROVE FlushOK([at |-> "commit", last |-> n])'
    <3>1. n \in Nat /\ n < next_sequence' /\ Settled(n)'
      BY <1>5, <1>6, <1>10, <1>15, <2>2, <2>3, StoreTypes DEF Settled, Advances
    <3>2. [at |-> "commit", last |-> n] \in Committing
      BY <3>1 DEF Committing
    <3> QED
      BY <3>1, <3>2 DEF FlushOK
  <2>4. ASSUME NEW n, n = flush[c].last PROVE LogIInv'
    <3>1. flush' = [flush EXCEPT ![c] = [at |-> "commit", last |-> n]]
      BY <2>1, <2>4
    <3> QED
      BY <1>2, <1>3, <1>15, <2>3, <2>4, <3>1, FlushStep
  <2> QED
    BY <2>4
<1> QED
  BY <1>16, <1>17

(* One step per action keeps the inductive invariant.                      *)
LEMMA LogStepKeeps == LogIInv /\ [LogNext]_logVars => LogIInv'
<1> SUFFICES ASSUME LogIInv, [LogNext]_logVars PROVE LogIInv'
  OBVIOUS
<1>1. ASSUME next_day \/ UNCHANGED logVars PROVE LogIInv'
  <2>1. UNCHANGED <<storeVars, lost, written, persisted, flush, logs>> /\ today' \in Int
    BY <1>1 DEF next_day, logVars, fileVars, LogIInv
  <2>2. StoreOK(Store') /\ Accounted' /\ Advances
    BY <2>1, Unrecorded
  <2>3. next_sequence' = next_sequence
    BY <2>1 DEF storeVars
  <2>4. StoreOK(Store)' /\ HeaderOnce' /\ Settled(persisted)'
    BY <2>1, <2>2 DEF StoreOK, EventOK, HeaderOnce, Settled, LogIInv
  <2>5. ASSUME NEW d \in Callers \cup {Writer} PROVE FlushOK(flush[d])'
    <3>1. FlushOK(flush[d])
      BY DEF LogIInv
    <3> QED
      BY <2>1, <2>3, <3>1 DEF FlushOK, Settled
  <2> QED
    BY <2>1, <2>2, <2>3, <2>4, <2>5 DEF LogIInv
<1> QED
  BY <1>1, RecordStep, LoadStep, BuildStep, FindStep, AppendStep, RefusedStep, CommitStep
  DEF LogNext

(* The inductive invariant implies the one that is checked.                *)
LEMMA LogIInvImplies == LogIInv => LogInv
<1> SUFFICES ASSUME LogIInv PROVE LogInv
  OBVIOUS
<1>1. /\ next_sequence \in Nat \ {0} /\ events \in Seq(Event)
      /\ \A i \in DOMAIN events : events[i] \in Event
      /\ Sequences(events) \subseteq Numbers
  BY StoreTypes DEF LogIInv
<1>2. LogTypeOK
  BY <1>1, StoreFields DEF LogIInv, LogTypeOK, StoreOK, Accounted, Numbers
<1>3. ChainHolds
  <2> SUFFICES ASSUME NEW i \in verify_event_chain(events), events[i].details = 1 PROVE FALSE
    BY <1>1 DEF ChainHolds, verify_event_chain, Event
  <2>1. i \in DOMAIN events /\ EventOK(Store, events[i])
    BY StoreFields DEF verify_event_chain, LogIInv, StoreOK
  <2>2. i > 1 /\ i - 1 \in DOMAIN events => Linked(events[i - 1], events[i])
    BY <2>1, StoreFields DEF LogIInv, StoreOK
  <2>3. events[i].entry_hash = compute_entry_hash(events[i].prev_hash, events[i].sequence,
                                                  events[i].name, events[i].details)
    BY <2>1 DEF EventOK
  <2>4. i > 1 => i - 1 \in DOMAIN events
    BY <1>1, <2>1
  <2> QED
    BY <2>1, <2>2, <2>3, <2>4 DEF verify_event_chain, Linked
<1>4. PersistedIsWritten /\ HeaderOnce
  BY DEF LogIInv, PersistedIsWritten, Settled
<1> QED
  BY <1>2, <1>3, <1>4 DEF LogInv

(* Whatever is recorded, evicted and flushed, by which thread and with     *)
(* which failures: the hash chain holds over the retained events, but for  *)
(* layout errors whose repeat count was written over, an event counted as  *)
(* persisted was written unless the store had evicted it before, and every *)
(* file has its header once unless writing it failed                       *)
(* (record_with_context, append_log_lines, commit_sequence).               *)
THEOREM LogIsSound == LogSpec => []LogInv
<1>1. LogInit => LogIInv
  BY LogStarts
<1>2. LogIInv /\ [LogNext]_logVars => LogIInv'
  BY LogStepKeeps
<1>3. LogIInv => LogInv
  BY LogIInvImplies
<1> QED
  BY <1>1, <1>2, <1>3, PTL DEF LogSpec

-----------------------------------------------------------------------------
(* The store as the window sees it.                                        *)

RowNames == {"truncated", "operation", "diagnostic", "timer", "window"}
Row == [sequence : Nat, name : RowNames]
Fields == {"events", "next", "marked", "operation", "open", "pending", "queue", "refreshing",
           "follow_up", "direct", "selection", "sequences", "reset", "grid", "limit", "all",
           "category", "search", "text", "enabled", "shown", "native", "band", "dialog",
           "posts", "snap", "wanted", "dropped", "faults", "typed", "passes"}

\* The numbers of the events go up to the next, none twice.
EventsOK(es, next) ==
    /\ es \in Seq(Row)
    /\ \A i \in DOMAIN es : es[i].sequence < next
    /\ \A i, j \in DOMAIN es : es[i].sequence = es[j].sequence => i = j

LogOK(w) ==
    /\ DOMAIN w = Fields /\ w.next \in Nat \ {0} /\ EventsOK(w.events, w.next)
    /\ Len(w.events) <= maximum_rows
    /\ w.next - 1 \in SequencesOf(w.events) \cup {0}
    /\ w.wanted \in Nat /\ w.wanted < w.next

\* What no event and no request for a refresh changes.
Unlogged(w, v) ==
    /\ v.open = w.open /\ v.refreshing = w.refreshing /\ v.follow_up = w.follow_up
    /\ v.selection = w.selection /\ v.sequences = w.sequences /\ v.reset = w.reset
    /\ v.grid = w.grid /\ v.limit = w.limit /\ v.all = w.all /\ v.category = w.category
    /\ v.search = w.search /\ v.text = w.text /\ v.enabled = w.enabled /\ v.shown = w.shown
    /\ v.native = w.native /\ v.band = w.band /\ v.dialog = w.dialog /\ v.posts = w.posts
    /\ v.snap = w.snap /\ v.typed = w.typed /\ v.passes = w.passes
\* What no event changes.
Unrequested(w, v) ==
    /\ v.pending = w.pending /\ v.queue = w.queue /\ v.dropped = w.dropped

(* Removing the second event keeps the numbers distinct and below the      *)
(* next.                                                                   *)
LEMMA RemoveKeepsOK ==
    ASSUME NEW es, NEW next \in Nat, EventsOK(es, next), Len(es) >= 2
    PROVE  EventsOK(RemoveAt(es, 2), next) /\ Len(RemoveAt(es, 2)) = Len(es) - 1
<1> DEFINE n == Len(es)
           rs == RemoveAt(es, 2)
<1>1. es \in Seq(Row) /\ n \in Nat /\ n >= 2
  BY DEF EventsOK
<1>2. /\ rs \in Seq(Row) /\ Len(rs) = n - 1
      /\ \A i \in 1..(n - 1) : rs[i] = IF i = 1 THEN es[1] ELSE es[i + 1]
  BY <1>1, RemoveSecond
<1> HIDE DEF rs
<1>3. DOMAIN rs = 1..(n - 1) /\ DOMAIN es = 1..n
  BY <1>1, <1>2
<1> DEFINE at(i) == IF i = 1 THEN 1 ELSE i + 1
<1>4. \A i \in 1..(n - 1) : at(i) \in 1..n /\ rs[i] = es[at(i)]
  BY <1>1, <1>2
<1>5. \A i, j \in 1..(n - 1) : at(i) = at(j) => i = j
  OBVIOUS
<1> HIDE DEF at, n
<1>6. EventsOK(rs, next)
  <2>1. \A i \in 1..n : es[i].sequence < next
    BY <1>3 DEF EventsOK
  <2>2. \A i, j \in 1..n : es[i].sequence = es[j].sequence => i = j
    BY <1>3 DEF EventsOK
  <2>3. \A i \in 1..(n - 1) : rs[i].sequence < next
    BY <1>4, <2>1
  <2>4. \A i, j \in 1..(n - 1) : rs[i].sequence = rs[j].sequence => i = j
    BY <1>4, <1>5, <2>2
  <2> QED
    BY <1>2, <1>3, <2>3, <2>4 DEF EventsOK
<1> QED
  BY <1>2, <1>6 DEF rs, n

(* The marker in front with the next number keeps them so.                 *)
LEMMA FrontKeepsOK ==
    ASSUME NEW es, NEW next \in Nat, EventsOK(es, next), Len(es) >= 1, NEW m \in Row,
           m.sequence = next
    PROVE  EventsOK(<<m>> \o Tail(es), next + 1) /\ Len(<<m>> \o Tail(es)) = Len(es)
<1> DEFINE n == Len(es)
           ts == Tail(es)
           rs == <<m>> \o ts
<1>1. es \in Seq(Row) /\ n \in Nat /\ n >= 1 /\ DOMAIN es = 1..n
  BY DEF EventsOK
<1>2. ts \in Seq(Row) /\ Len(ts) = n - 1 /\ \A i \in 1..(n - 1) : ts[i] = es[i + 1]
  BY <1>1
<1> HIDE DEF ts
<1> DEFINE f == <<m>>
<1>a. f \in Seq(Row) /\ Len(f) = 1 /\ f[1] = m
  OBVIOUS
<1> HIDE DEF f
<1>b. /\ f \o ts \in Seq(Row) /\ Len(f \o ts) = Len(f) + Len(ts)
      /\ \A i \in 1..(Len(f) + Len(ts)) :
            (f \o ts)[i] = IF i <= Len(f) THEN f[i] ELSE ts[i - Len(f)]
  <2>1. f \in Seq(Row) /\ ts \in Seq(Row)
    BY <1>a, <1>2
  <2> QED
    BY <2>1, ConcatProperties, Zenon
<1> HIDE DEF n
<1>3. rs = f \o ts /\ rs \in Seq(Row) /\ Len(rs) = n /\ DOMAIN rs = 1..n /\ rs[1] = m
  <2>1. rs = f \o ts
    BY DEF f
  <2> HIDE DEF rs
  <2>2. Len(f) + Len(ts) = n
    BY <1>1, <1>2, <1>a
  <2> QED
    <3> DEFINE c == f \o ts
    <3>1. c \in Seq(Row) /\ Len(c) = n /\ c[1] = m
      BY <1>1, <1>a, <1>b, <2>2
    <3>2. rs = c
      BY <2>1
    <3> HIDE DEF c
    <3> QED
      BY <1>1, <2>1, <3>1, <3>2
<1>4. \A i \in 2..n : rs[i] = ts[i - 1]
  <2> HIDE DEF rs
  <2>1. \A i \in 2..n : i \in 1..(Len(f) + Len(ts)) /\ ~(i <= Len(f)) /\ i - Len(f) = i - 1
    BY <1>1, <1>2, <1>a
  <2> QED
    BY <1>3, <1>b, <2>1
<1>5. \A i \in 2..n : rs[i] = es[i]
  BY <1>1, <1>2, <1>4
<1> HIDE DEF rs, n
<1>6. \A i \in 1..n : es[i] \in Row /\ es[i].sequence \in Nat /\ es[i].sequence < next
  <2>1. \A i \in 1..n : es[i] \in Row /\ es[i].sequence < next
    BY <1>1 DEF EventsOK
  <2> QED
    BY <2>1 DEF Row
<1>7. \A i \in 1..n : (i = 1 /\ rs[i].sequence = next) \/ (i \in 2..n /\ rs[i] = es[i])
  BY <1>3, <1>5
<1>8. \A i \in 1..n : rs[i].sequence < next + 1
  BY <1>6, <1>7
<1>9. \A i, j \in 1..n : rs[i].sequence = rs[j].sequence => i = j
  BY <1>1, <1>6, <1>7, SMTT(30) DEF EventsOK
<1>10. EventsOK(rs, next + 1)
  BY <1>3, <1>8, <1>9 DEF EventsOK
<1> QED
  BY <1>3, <1>10 DEF rs, ts, n

(* A new event at the end keeps them so.                                   *)
LEMMA AppendKeepsOK ==
    ASSUME NEW es, NEW next \in Nat, EventsOK(es, next), NEW m \in Row, m.sequence = next
    PROVE  /\ EventsOK(Append(es, m), next + 1) /\ Len(Append(es, m)) = Len(es) + 1
           /\ next \in SequencesOf(Append(es, m))
<1> DEFINE n == Len(es)
           rs == Append(es, m)
<1>1. es \in Seq(Row) /\ n \in Nat /\ DOMAIN es = 1..n
  BY DEF EventsOK
<1>2. /\ rs \in Seq(Row) /\ Len(rs) = n + 1 /\ DOMAIN rs = 1..(n + 1) /\ rs[n + 1] = m
      /\ \A i \in 1..n : rs[i] = es[i]
  BY <1>1
<1> HIDE DEF rs, n
<1>6. \A i \in 1..n : es[i] \in Row /\ es[i].sequence \in Nat /\ es[i].sequence < next
  <2>1. \A i \in 1..n : es[i] \in Row /\ es[i].sequence < next
    BY <1>1 DEF EventsOK
  <2> QED
    BY <2>1 DEF Row
<1>7. \A i \in 1..(n + 1) : (i = n + 1 /\ rs[i].sequence = next) \/ (i \in 1..n /\ rs[i] = es[i])
  BY <1>1, <1>2
<1>8. \A i \in 1..(n + 1) : rs[i].sequence < next + 1
  BY <1>6, <1>7
<1>9. \A i, j \in 1..(n + 1) : rs[i].sequence = rs[j].sequence => i = j
  BY <1>1, <1>6, <1>7 DEF EventsOK
<1>10. EventsOK(rs, next + 1)
  BY <1>2, <1>8, <1>9 DEF EventsOK
<1>11. next \in SequencesOf(rs)
  BY <1>1, <1>2 DEF SequencesOf
<1> QED
  BY <1>2, <1>10, <1>11 DEF rs, n

(* Eviction and the marker.                                                *)
LEMMA MakeRoomKeeps ==
    ASSUME NEW w, LogOK(w), Len(w.events) >= maximum_rows
    PROVE  LET v == MakeRoom(w)
           IN /\ DOMAIN v = Fields /\ v.next \in Nat \ {0} /\ v.next >= w.next
              /\ EventsOK(v.events, v.next) /\ Len(v.events) < maximum_rows
              /\ v.wanted = w.wanted /\ v.direct = w.direct
              /\ Unlogged(w, v) /\ Unrequested(w, v) /\ v.operation = w.operation
<1> DEFINE m == [sequence |-> w.next, name |-> "truncated"]
           a == [w EXCEPT !.events = RemoveAt(@, 2)]
           b == [w EXCEPT !.events = <<m>> \o Tail(@), !.next = @ + 1, !.marked = TRUE]
           g == IF w.marked THEN a ELSE b
<1>1. /\ DOMAIN w = Fields /\ w.next \in Nat \ {0} /\ EventsOK(w.events, w.next)
      /\ Len(w.events) = maximum_rows /\ maximum_rows \in Nat /\ maximum_rows >= 2
      /\ w.events \in Seq(Row)
  BY DiagnosticWindowAssumption DEF LogOK, EventsOK
<1>2. /\ DOMAIN a = Fields /\ a.next = w.next /\ a.events = RemoveAt(w.events, 2)
      /\ a.wanted = w.wanted /\ a.direct = w.direct
      /\ Unlogged(w, a) /\ Unrequested(w, a) /\ a.operation = w.operation
  BY <1>1 DEF Fields, Unlogged, Unrequested
<1>3. /\ DOMAIN b = Fields /\ b.next = w.next + 1 /\ b.events = <<m>> \o Tail(w.events)
      /\ b.wanted = w.wanted /\ b.direct = w.direct
      /\ Unlogged(w, b) /\ Unrequested(w, b) /\ b.operation = w.operation
  BY <1>1 DEF Fields, Unlogged, Unrequested
<1>4. m \in Row /\ m.sequence = w.next
  BY <1>1 DEF Row, RowNames
<1> HIDE DEF m
<1>5. /\ EventsOK(a.events, a.next) /\ Len(a.events) = maximum_rows - 1
  BY <1>1, <1>2, RemoveKeepsOK
<1>6. /\ EventsOK(b.events, b.next) /\ Len(b.events) = maximum_rows
  BY <1>1, <1>3, <1>4, FrontKeepsOK
<1> DEFINE v == [b EXCEPT !.events = RemoveAt(@, 2)]
<1> HIDE DEF a, b
<1>7. /\ DOMAIN v = Fields /\ v.next = b.next /\ v.events = RemoveAt(b.events, 2)
      /\ v.wanted = b.wanted /\ v.direct = b.direct
      /\ Unlogged(b, v) /\ Unrequested(b, v) /\ v.operation = b.operation
  BY <1>3 DEF Fields, Unlogged, Unrequested
<1>8. /\ EventsOK(v.events, v.next) /\ Len(v.events) = maximum_rows - 1
  <2> HIDE DEF v
  <2>1. b.next \in Nat /\ Len(b.events) >= 2
    BY <1>1, <1>3, <1>6
  <2>2. EventsOK(RemoveAt(b.events, 2), b.next) /\ Len(RemoveAt(b.events, 2)) = Len(b.events) - 1
    BY <1>6, <2>1, RemoveKeepsOK
  <2> QED
    BY <1>6, <1>7, <2>2
<1>9. Unlogged(w, v) /\ Unrequested(w, v)
  BY <1>3, <1>7 DEF Unlogged, Unrequested
<1>10. MakeRoom(w) = IF Len(g.events) >= maximum_rows
                     THEN [g EXCEPT !.events = RemoveAt(@, 2)] ELSE g
  BY DEF MakeRoom, a, b, m
<1> HIDE DEF v
<1>11. CASE w.marked
  <2>1. MakeRoom(w) = a
    BY <1>1, <1>5, <1>10, <1>11
  <2> QED
    BY <1>1, <1>2, <1>5, <2>1
<1>12. CASE ~w.marked
  <2>1. MakeRoom(w) = v
    BY <1>1, <1>6, <1>10, <1>12 DEF v
  <2> QED
    BY <1>1, <1>3, <1>7, <1>8, <1>9, <2>1
<1> QED
  BY <1>11, <1>12

(* An event that any thread records leaves a sound store and the window as *)
(* it was.                                                                 *)
LEMMA RecordEvent ==
    ASSUME NEW w, LogOK(w), NEW name \in RowNames, NEW v, v = record_event(w, name)
    PROVE  /\ LogOK(v) /\ v.next > w.next /\ v.wanted = w.wanted /\ v.direct = w.direct
           /\ Unlogged(w, v) /\ Unrequested(w, v) /\ v.operation = w.operation
<1> DEFINE s == IF Len(w.events) >= maximum_rows THEN MakeRoom(w) ELSE w
           m == [sequence |-> s.next, name |-> name]
           r == [s EXCEPT !.events = Append(@, m), !.next = @ + 1]
<1>1. /\ DOMAIN w = Fields /\ w.next \in Nat \ {0} /\ EventsOK(w.events, w.next)
      /\ Len(w.events) \in Nat /\ maximum_rows \in Nat /\ w.wanted \in Nat /\ w.wanted < w.next
  BY DiagnosticWindowAssumption DEF LogOK, EventsOK
<1>2. v = r
  BY DEF record_event
<1>3. /\ DOMAIN s = Fields /\ s.next \in Nat \ {0} /\ s.next >= w.next
      /\ EventsOK(s.events, s.next) /\ Len(s.events) < maximum_rows
      /\ s.wanted = w.wanted /\ s.direct = w.direct
      /\ Unlogged(w, s) /\ Unrequested(w, s) /\ s.operation = w.operation
  <2>1. CASE Len(w.events) >= maximum_rows
    BY <2>1, MakeRoomKeeps
  <2>2. CASE ~(Len(w.events) >= maximum_rows)
    BY <1>1, <2>2 DEF Unlogged, Unrequested
  <2> QED
    BY <2>1, <2>2
<1> HIDE DEF s
<1>4. m \in Row /\ m.sequence = s.next
  BY <1>3 DEF Row
<1> HIDE DEF m
<1>5. /\ EventsOK(Append(s.events, m), s.next + 1) /\ Len(Append(s.events, m)) = Len(s.events) + 1
      /\ s.next \in SequencesOf(Append(s.events, m))
  BY <1>3, <1>4, AppendKeepsOK
<1>6. /\ DOMAIN r = Fields /\ r.events = Append(s.events, m) /\ r.next = s.next + 1
      /\ r.wanted = s.wanted /\ r.direct = s.direct
      /\ Unlogged(s, r) /\ Unrequested(s, r) /\ r.operation = s.operation
  BY <1>3 DEF Fields, Unlogged, Unrequested
<1> HIDE DEF r
<1>7. Unlogged(w, r) /\ Unrequested(w, r)
  BY <1>3, <1>6 DEF Unlogged, Unrequested
<1>8. LogOK(r)
  <2>1. Len(s.events) \in Nat
    BY <1>3 DEF EventsOK
  <2>2. r.next - 1 = s.next /\ r.next \in Nat \ {0} /\ r.wanted < r.next
    BY <1>1, <1>3, <1>6
  <2> QED
    BY <1>1, <1>3, <1>5, <1>6, <2>1, <2>2 DEF LogOK
<1> QED
  BY <1>1, <1>2, <1>3, <1>6, <1>7, <1>8

-----------------------------------------------------------------------------
(* Requests for a refresh.                                                 *)

\* Between two handlers no refresh runs, and the flag of a coming one goes with its message.
Ready(w) ==
    /\ w.pending \in BOOLEAN /\ ~w.refreshing /\ w.queue \in {0, 1}
    /\ (w.pending <=> w.queue = 1) /\ (w.queue = 1 => w.open)
Calm(w) == LogOK(w) /\ Ready(w)
\* The list may be behind: a refresh comes, or could not be posted.
Due(w) == w.open => w.queue = 1 \/ w.dropped

(* A request leaves a refresh to come: the message and its flag are set    *)
(* together, or the post failed and the list is known to be behind         *)
(* (request_diagnostic_refresh).                                           *)
LEMMA Request ==
    ASSUME NEW w, Calm(w), NEW v, v = request_diagnostic_refresh(w)
    PROVE  Calm(v) /\ Due(v) /\ Unlogged(w, v) /\ v.wanted = w.wanted
<1> DEFINE a == [w EXCEPT !.pending = @ \/ w.refreshing]
           b == [w EXCEPT !.pending = TRUE, !.queue = @ + 1]
           c == [w EXCEPT !.dropped = TRUE, !.faults = @ + 1]
<1>1. /\ DOMAIN w = Fields /\ ~w.refreshing /\ w.queue \in {0, 1} /\ w.pending \in BOOLEAN
      /\ (w.pending <=> w.queue = 1) /\ (w.queue = 1 => w.open)
  BY DEF Calm, LogOK, Ready
<1>2. CASE w.pending
  <2>1. v = a
    BY <1>2 DEF request_diagnostic_refresh, diagnostic_refresh_is_coalesced
  <2>2. /\ DOMAIN a = Fields /\ a.next = w.next /\ a.events = w.events /\ a.wanted = w.wanted
        /\ Unlogged(w, a) /\ a.queue = w.queue /\ a.dropped = w.dropped
    BY <1>1 DEF Fields, Unlogged
  <2>3. a.pending = TRUE
    BY <1>1, <1>2 DEF Fields
  <2> HIDE DEF a
  <2>4. LogOK(a)
    BY <2>2 DEF Calm, LogOK
  <2>5. Ready(a) /\ Due(a)
    BY <1>1, <1>2, <2>2, <2>3 DEF Ready, Due, Unlogged
  <2> QED
    BY <2>1, <2>2, <2>4, <2>5 DEF Calm
<1>3. CASE ~w.pending /\ ~w.open
  <2>1. v = w
    BY <1>1, <1>3 DEF request_diagnostic_refresh, diagnostic_refresh_is_coalesced
  <2> QED
    BY <1>3, <2>1 DEF Due, Unlogged
<1>4. CASE ~w.pending /\ w.open /\ w.posts
  <2>1. v = b
    BY <1>1, <1>4 DEF request_diagnostic_refresh, diagnostic_refresh_is_coalesced
  <2>2. /\ DOMAIN b = Fields /\ b.next = w.next /\ b.events = w.events /\ b.wanted = w.wanted
        /\ Unlogged(w, b) /\ b.queue = w.queue + 1 /\ b.pending = TRUE
    BY <1>1 DEF Fields, Unlogged
  <2> HIDE DEF b
  <2>3. LogOK(b)
    BY <2>2 DEF Calm, LogOK
  <2>4. Ready(b) /\ Due(b)
    <3>1. b.queue = 1
      BY <1>1, <1>4, <2>2
    <3>2. b.pending \in BOOLEAN /\ b.pending
      BY <2>2, Zenon
    <3> QED
      BY <1>1, <1>4, <2>2, <3>1, <3>2 DEF Ready, Due, Unlogged
  <2> QED
    BY <2>1, <2>2, <2>3, <2>4 DEF Calm
<1>5. CASE ~w.pending /\ w.open /\ ~w.posts
  <2>1. v = c
    BY <1>1, <1>5 DEF request_diagnostic_refresh, diagnostic_refresh_is_coalesced
  <2>2. /\ DOMAIN c = Fields /\ c.next = w.next /\ c.events = w.events /\ c.wanted = w.wanted
        /\ Unlogged(w, c) /\ c.queue = w.queue /\ c.pending = w.pending /\ c.dropped = TRUE
    BY <1>1 DEF Fields, Unlogged
  <2> HIDE DEF c
  <2>3. LogOK(c)
    BY <2>2 DEF Calm, LogOK
  <2>4. Ready(c) /\ Due(c)
    BY <1>1, <1>5, <2>2 DEF Ready, Due, Unlogged
  <2> QED
    BY <2>1, <2>2, <2>3, <2>4 DEF Calm
<1> QED
  BY <1>2, <1>3, <1>4, <1>5

(* An event alone leaves what is to come as it is.                         *)
LEMMA Noted ==
    ASSUME NEW w, Calm(w), NEW name \in RowNames, NEW v, v = record_event(w, name)
    PROVE  /\ Calm(v) /\ Unlogged(w, v) /\ Unrequested(w, v) /\ v.wanted = w.wanted
           /\ (Due(w) => Due(v))
<1>1. /\ LogOK(v) /\ v.wanted = w.wanted /\ Unlogged(w, v) /\ Unrequested(w, v)
  BY RecordEvent DEF Calm
<1> QED
  BY <1>1 DEF Calm, Ready, Due, Unlogged, Unrequested

(* An event recorded through the App leaves a refresh to come              *)
(* (App::record).                                                          *)
LEMMA Recording ==
    ASSUME NEW w, Calm(w), NEW name \in RowNames, NEW v, v = record(w, name)
    PROVE  Calm(v) /\ Due(v) /\ Unlogged(w, v)
<1> DEFINE r == record_event(w, name)
           s == [r EXCEPT !.wanted = r.next - 1]
<1>1. Calm(r) /\ Unlogged(w, r)
  BY Noted
<1>2. v = request_diagnostic_refresh(s)
  BY DEF record
<1> HIDE DEF r
<1>3. /\ DOMAIN s = Fields /\ s.next = r.next /\ s.events = r.events /\ s.wanted = r.next - 1
      /\ Unlogged(r, s) /\ Unrequested(r, s)
  BY <1>1 DEF Calm, LogOK, Fields, Unlogged, Unrequested
<1> HIDE DEF s
<1>4. Calm(s)
  BY <1>1, <1>3 DEF Calm, LogOK, Ready, Unlogged, Unrequested
<1>5. Calm(v) /\ Due(v) /\ Unlogged(s, v)
  BY <1>2, <1>4, Request
<1> QED
  BY <1>1, <1>3, <1>5 DEF Unlogged

(* An operation that begins leaves what is to come as it is.               *)
LEMMA Begun ==
    ASSUME NEW w, Calm(w), NEW v, v = begin_operation(w)
    PROVE  Calm(v) /\ Unlogged(w, v) /\ (Due(w) => Due(v))
<1> DEFINE r == record_event(w, "operation")
           s == [r EXCEPT !.operation = TRUE]
<1>1. /\ "operation" \in RowNames /\ v = s
  BY DEF RowNames, begin_operation
<1>2. /\ Calm(r) /\ Unlogged(w, r) /\ (Due(w) => Due(r))
  BY <1>1, Noted
<1> HIDE DEF r
<1>3. /\ DOMAIN s = Fields /\ s.next = r.next /\ s.events = r.events /\ s.wanted = r.wanted
      /\ Unlogged(r, s) /\ Unrequested(r, s)
  BY <1>2 DEF Calm, LogOK, Fields, Unlogged, Unrequested
<1> HIDE DEF s
<1> QED
  BY <1>1, <1>2, <1>3 DEF Calm, LogOK, Ready, Unlogged, Unrequested, Due

(* An operation that ends leaves a refresh to come when one was.           *)
LEMMA Finished ==
    ASSUME NEW w, Calm(w), NEW v, v = finish_operation(w)
    PROVE  Calm(v) /\ Unlogged(w, v) /\ (Due(w) => Due(v))
<1> DEFINE s == [w EXCEPT !.operation = FALSE]
<1>1. "operation" \in RowNames
  BY DEF RowNames
<1>2. CASE w.operation
  <2>1. v = record(s, "operation")
    BY <1>2 DEF finish_operation
  <2>2. /\ DOMAIN s = Fields /\ s.next = w.next /\ s.events = w.events /\ s.wanted = w.wanted
        /\ Unlogged(w, s) /\ Unrequested(w, s)
    BY DEF Calm, LogOK, Fields, Unlogged, Unrequested
  <2> HIDE DEF s
  <2>3. Calm(s)
    BY <2>2 DEF Calm, LogOK, Ready, Unlogged, Unrequested
  <2>4. Calm(v) /\ Due(v) /\ Unlogged(s, v)
    BY <1>1, <2>1, <2>3, Recording
  <2> QED
    BY <2>2, <2>4 DEF Unlogged
<1>3. CASE ~w.operation
  <2>1. v = w
    BY <1>3 DEF finish_operation
  <2> QED
    BY <2>1 DEF Unlogged
<1> QED
  BY <1>2, <1>3

(* What events and requests leave alone stays alone through several of     *)
(* them.                                                                   *)
LEMMA Unlogs == ASSUME NEW u, NEW v, NEW w, Unlogged(u, v), Unlogged(v, w) PROVE Unlogged(u, w)
  BY DEF Unlogged

(* A whole operation leaves a refresh to come.                             *)
LEMMA Operated ==
    ASSUME NEW w, Calm(w), NEW name \in RowNames, NEW v, v = operation(w, name)
    PROVE  Calm(v) /\ Due(v) /\ Unlogged(w, v)
<1> DEFINE r == begin_operation(w)
           s == record(r, name)
<1>1. v = finish_operation(s)
  BY DEF operation
<1>2. Calm(r) /\ Unlogged(w, r)
  BY Begun
<1>3. Calm(s) /\ Due(s) /\ Unlogged(r, s)
  BY <1>2, Recording
<1> HIDE DEF r, s
<1>4. Calm(v) /\ Unlogged(s, v) /\ Due(v)
  BY <1>1, <1>3, Finished
<1> QED
  BY <1>2, <1>3, <1>4, Unlogs

-----------------------------------------------------------------------------
(* What the list shows.                                                    *)

\* Rows are numbered from one, and no event has two.
Distinct(rows) ==
    /\ \E n \in Nat : DOMAIN rows = 1..n
    /\ \A i, j \in DOMAIN rows : rows[i] = rows[j] => i = j
ListOK(w) == w.limit \in Nat /\ w.native \subseteq DOMAIN w.shown /\ Distinct(w.shown)
Marks(w) == \A i \in DOMAIN w.shown : w.shown[i] \in w.grid => i \in w.native
\* A range that was dropped stays so.
RangeKept(w) ==
    w.typed # {} /\ w.text # <<>> => w.sequences = w.typed \/ (w.sequences = {} /\ w.reset)
Shows(w) ==
    /\ w.shown = Rows(diagnostic_filtered_visible_events(w, w.snap))
    /\ \E sequence \in SequencesOf(w.snap) \cup {0} : w.wanted <= sequence
Current(w) == w.open /\ w.queue = 0 /\ ~w.dropped => Shows(w)

\* What the list shows, and why.
SameView(w, v) ==
    /\ v.open = w.open /\ v.limit = w.limit /\ v.all = w.all /\ v.category = w.category
    /\ v.search = w.search /\ v.text = w.text /\ v.typed = w.typed /\ v.passes = w.passes
    /\ v.posts = w.posts /\ v.snap = w.snap /\ v.wanted = w.wanted
    /\ v.refreshing = w.refreshing /\ v.follow_up = w.follow_up /\ v.queue = w.queue
    /\ v.dropped = w.dropped

(* The view is determined by the filter, the limit and the events.         *)
LEMMA SameRows ==
    ASSUME NEW w, NEW v, NEW es, v.limit = w.limit, v.all = w.all, v.category = w.category,
           v.search = w.search
    PROVE  diagnostic_filtered_visible_events(v, es) = diagnostic_filtered_visible_events(w, es)
<1>1. diagnostic_filtered_events(v, es) = diagnostic_filtered_events(w, es)
  BY DEF diagnostic_filtered_events
<1>2. \A n : diagnostic_visible_selection(v, n) = diagnostic_visible_selection(w, n)
  BY DEF diagnostic_visible_selection
<1> QED
  BY <1>1, <1>2 DEF diagnostic_filtered_visible_events

(* The visible rows are numbered from one and no event has two, whatever   *)
(* filter and limit are set.                                               *)
LEMMA RowsAreDistinct ==
    ASSUME NEW w, w.limit \in Nat, NEW next \in Nat, NEW es, EventsOK(es, next), NEW rows,
           rows = Rows(diagnostic_filtered_visible_events(w, es))
    PROVE  Distinct(rows)
<1> DEFINE fs == diagnostic_filtered_events(w, es)
           sel == diagnostic_visible_selection(w, Len(fs))
           vs == SubSeq(fs, sel.start, sel.end)
<1>1. PICK I : fs = Retain(es, I)
  BY DEF diagnostic_filtered_events
<1> DEFINE A == I \cap DOMAIN es
           n == Cardinality(A)
<1>2. es \in Seq(Row)
  BY DEF EventsOK
<1>3. fs \in Seq(Row)
  BY <1>1, <1>2, RetainKeeps
<1>4. PICK p \in Bijection(1..n, A) :
          /\ Retain(es, I) = [k \in 1..n |-> es[p[k]]]
          /\ \A k, l \in 1..n : k < l => p[k] < p[l]
  BY <1>2, RetainEnumerates, Zenon
<1> HIDE DEF fs
<1>5. p \in [1..n -> A] /\ \A k, l \in 1..n : p[k] = p[l] => k = l
  BY <1>4 DEF Bijection, Injection, IsInjective
<1>6. DOMAIN fs = 1..n /\ \A k \in 1..n : fs[k] = es[p[k]] /\ p[k] \in DOMAIN es
  BY <1>1, <1>4, <1>5
<1> HIDE DEF n, A
<1>7. \A k, l \in DOMAIN fs : fs[k].sequence = fs[l].sequence => k = l
  <2>1. \A i, j \in DOMAIN es : es[i].sequence = es[j].sequence => i = j
    BY DEF EventsOK
  <2> QED
    BY <1>5, <1>6, <2>1
<1>8. CASE row_count(sel) = 0
  <2>1. rows = Rows(<<>>)
    BY <1>8 DEF diagnostic_filtered_visible_events, fs
  <2>2. DOMAIN rows = {} /\ DOMAIN rows = 1..0
    BY <2>1 DEF Rows
  <2> QED
    BY <2>2 DEF Distinct
<1>9. CASE row_count(sel) # 0
  <2> DEFINE m == Len(fs)
  <2>1. m \in Nat /\ DOMAIN fs = 1..m
    BY <1>3
  <2> HIDE DEF m
  <2>2. sel = diagnostic_visible_selection(w, m)
    BY DEF m
  <2> HIDE DEF sel
  <2>3. sel.start \in 1..m /\ sel.end \in 1..m /\ sel.start <= sel.end
    BY <1>9, <2>1, <2>2 DEF diagnostic_visible_selection, All, latest_row_selection, NoSelection,
       row_count
  <2> DEFINE a == sel.start
             b == sel.end
  <2>4. rows = Rows(SubSeq(fs, a, b))
    BY <1>9 DEF diagnostic_filtered_visible_events, fs, sel
  <2>5. a \in 1..m /\ b \in 1..m /\ a <= b
    BY <2>3
  <2> HIDE DEF a, b
  <2>6. SubSeq(fs, a, b) = [i \in 1..(b - a + 1) |-> fs[i + a - 1]]
    BY <1>3, <2>1, <2>5
  <2>7. \A i \in 1..(b - a + 1) : i + a - 1 \in 1..m
    BY <2>1, <2>5
  <2>8. DOMAIN rows = 1..(b - a + 1) /\ \A i \in DOMAIN rows : rows[i] = fs[i + a - 1].sequence
    BY <2>4, <2>6 DEF Rows
  <2>9. ASSUME NEW i \in DOMAIN rows, NEW j \in DOMAIN rows, rows[i] = rows[j] PROVE i = j
    <3>1. i + a - 1 = j + a - 1
      BY <1>7, <2>1, <2>7, <2>8, <2>9
    <3> QED
      BY <2>1, <2>5, <2>8, <3>1
  <2>10. b - a + 1 \in Nat
    BY <2>1, <2>5
  <2> QED
    BY <2>8, <2>9, <2>10 DEF Distinct
<1> QED
  BY <1>8, <1>9

-----------------------------------------------------------------------------
(* The refresh, step by step. *)

(* An event about the refresh itself calls for a follow-up and leaves the  *)
(* rest.                                                                   *)
LEMMA RefreshEvent ==
    ASSUME NEW w, LogOK(w), w.refreshing = TRUE, NEW v, v = record_diagnostic_refresh_event(w)
    PROVE  LogOK(v) /\ Unlogged(w, v) /\ Unrequested(w, v) /\ v.wanted = w.wanted /\ v.direct
<1> DEFINE r == record_event(w, "diagnostic")
           s == [r EXCEPT !.direct = @ \/ w.refreshing]
<1>1. "diagnostic" \in RowNames /\ v = s
  BY DEF RowNames, record_diagnostic_refresh_event
<1>2. /\ LogOK(r) /\ Unlogged(w, r) /\ Unrequested(w, r) /\ r.wanted = w.wanted
  BY <1>1, RecordEvent
<1> HIDE DEF r
<1>3. /\ DOMAIN s = Fields /\ s.next = r.next /\ s.events = r.events /\ s.wanted = r.wanted
      /\ Unlogged(r, s) /\ Unrequested(r, s) /\ s.direct
  BY <1>2 DEF LogOK, Fields, Unlogged, Unrequested
<1> HIDE DEF s
<1> QED
  BY <1>1, <1>2, <1>3 DEF LogOK, Unlogged, Unrequested

(* The marked events that are gone leave the selection.                    *)
LEMMA PreserveKeeps ==
    ASSUME NEW w, LogOK(w), w.refreshing = TRUE, NEW es,
           NEW v, v = preserve_diagnostic_grid_selection(w, es)
    PROVE  /\ LogOK(v) /\ SameView(w, v) /\ v.pending = w.pending /\ v.shown = w.shown
           /\ v.native = w.native /\ v.sequences = w.sequences /\ v.reset = w.reset
<1> DEFINE kept == selected_event_sequences_for_sequences(es, w.grid)
           g == [w EXCEPT !.grid = kept]
<1> HIDE DEF kept
<1>1. /\ DOMAIN g = Fields /\ g.next = w.next /\ g.events = w.events
      /\ SameView(w, g) /\ g.pending = w.pending /\ g.shown = w.shown
      /\ g.native = w.native /\ g.sequences = w.sequences /\ g.reset = w.reset
  BY DEF LogOK, Fields, SameView
<1>2. v = w \/ v = record_diagnostic_refresh_event(g)
  BY DEF preserve_diagnostic_grid_selection, kept
<1> HIDE DEF g
<1>3. LogOK(g) /\ g.refreshing = TRUE
  BY <1>1 DEF LogOK, SameView
<1>4. CASE v = w
  BY <1>4 DEF SameView
<1>5. CASE v = record_diagnostic_refresh_event(g)
  <2>1. LogOK(v) /\ Unlogged(g, v) /\ Unrequested(g, v) /\ v.wanted = g.wanted
    BY <1>3, <1>5, RefreshEvent
  <2> QED
    BY <1>1, <2>1 DEF Unlogged, Unrequested, SameView
<1> QED
  BY <1>2, <1>4, <1>5

(* Enabling Copy and Export changes nothing else.                          *)
LEMMA EnabledKeeps ==
    ASSUME NEW w, LogOK(w), NEW v, v = set_diagnostic_action_enabled(w)
    PROVE  /\ LogOK(v) /\ SameView(w, v) /\ v.pending = w.pending /\ v.shown = w.shown
           /\ v.native = w.native /\ v.sequences = w.sequences /\ v.reset = w.reset
           /\ v.grid = w.grid /\ v.direct = w.direct /\ v.band = w.band
<1> DEFINE e == w.grid # {} \/ row_count(w.selection) > 0
<1>1. v = [w EXCEPT !.enabled = e]
  BY DEF set_diagnostic_action_enabled
<1> HIDE DEF e
<1> QED
  BY <1>1 DEF LogOK, Fields, SameView

(* Reading the range anew changes the range only.                          *)
LEMMA ParseKeeps ==
    ASSUME NEW w, LogOK(w), NEW es, NEW v, v = ParseRange(w, es)
    PROVE  /\ LogOK(v) /\ SameView(w, v) /\ v.pending = w.pending /\ v.shown = w.shown
           /\ v.native = w.native /\ v.reset = FALSE
           /\ v.grid = w.grid /\ v.direct = w.direct
<1> DEFINE r == parse_row_selection(w.text, Len(es)).rows
           q == selected_event_sequences(es, r)
<1>1. v = [w EXCEPT !.selection = r, !.sequences = q, !.reset = FALSE]
  BY DEF ParseRange
<1> HIDE DEF r, q
<1> QED
  BY <1>1 DEF LogOK, Fields, SameView

(* Dropping the range asks for another refresh, which the running one      *)
(* remembers.                                                              *)
LEMMA ResetKeeps ==
    ASSUME NEW w, LogOK(w), w.refreshing = TRUE, NEW v, v = ResetRange(w)
    PROVE  /\ LogOK(v) /\ SameView(w, v) /\ v.pending = TRUE /\ v.shown = w.shown
           /\ v.native = w.native /\ v.reset = TRUE /\ v.sequences = {}
           /\ v.grid = w.grid
<1> DEFINE a == [w EXCEPT !.selection = NoSelection, !.sequences = {}, !.reset = TRUE]
           b == record_diagnostic_refresh_event(a)
           c == [b EXCEPT !.pending = @ \/ b.refreshing]
<1>1. /\ DOMAIN a = Fields /\ a.next = w.next /\ a.events = w.events
      /\ SameView(w, a) /\ a.shown = w.shown
      /\ a.native = w.native /\ a.reset = TRUE /\ a.sequences = {} /\ a.grid = w.grid
  BY DEF LogOK, Fields, SameView
<1>2. v = request_diagnostic_refresh(b)
  BY DEF ResetRange
<1> HIDE DEF a
<1>3. LogOK(a) /\ a.refreshing = TRUE
  BY <1>1 DEF LogOK, SameView
<1>4. LogOK(b) /\ Unlogged(a, b) /\ Unrequested(a, b) /\ b.wanted = a.wanted
  BY <1>3, RefreshEvent
<1> HIDE DEF b
<1>5. b.refreshing = TRUE
  BY <1>3, <1>4 DEF Unlogged
<1>6. v = c
  BY <1>2, <1>5 DEF request_diagnostic_refresh, diagnostic_refresh_is_coalesced
<1>7. /\ DOMAIN c = Fields /\ c.next = b.next /\ c.events = b.events
      /\ SameView(b, c) /\ c.shown = b.shown
      /\ c.native = b.native /\ c.reset = b.reset /\ c.sequences = b.sequences /\ c.grid = b.grid
  BY <1>4 DEF LogOK, Fields, SameView
<1>8. c.pending = TRUE
  BY <1>4, <1>5 DEF LogOK, Fields
<1> HIDE DEF c
<1>9. LogOK(c) /\ SameView(a, c)
  BY <1>4, <1>7 DEF LogOK, SameView, Unlogged, Unrequested
<1> QED
  BY <1>1, <1>4, <1>6, <1>7, <1>8, <1>9 DEF SameView, Unlogged

(* Two windows that look like a third look alike.                          *)
LEMMA SameViews ==
    ASSUME NEW u, NEW v, NEW w, SameView(u, v), SameView(v, w)
    PROVE  SameView(u, w)
  BY DEF SameView

(* A range that nothing touches is kept.                                   *)
LEMMA RangeFollows ==
    ASSUME NEW w, NEW v, RangeKept(w), SameView(w, v), v.sequences = w.sequences,
           v.reset = w.reset
    PROVE  RangeKept(v)
<1>1. v.typed = w.typed /\ v.text = w.text
  BY DEF SameView
<1> QED
  BY <1>1 DEF RangeKept

(* The range goes with its events or is dropped; it is dropped once, and   *)
(* only when typed.                                                        *)
LEMMA ControlsKeep ==
    ASSUME NEW w, LogOK(w), w.refreshing = TRUE, w.pending = FALSE, NEW es, RangeKept(w),
           NEW v, v = refresh_diagnostic_controls(w, es, TRUE)
    PROVE  /\ LogOK(v) /\ SameView(w, v) /\ v.shown = w.shown /\ v.native = w.native
           /\ v.grid = w.grid /\ RangeKept(v) /\ (w.reset => v.reset)
           /\ v.pending \in BOOLEAN /\ (v.pending => v.reset /\ ~w.reset /\ w.text # <<>>)
<1> DEFINE moved == row_selection_for_sequences(es, w.sequences)
           m == [w EXCEPT !.selection = moved]
           follows == w.text # <<>> /\ w.sequences # {}
<1> HIDE DEF moved
<1>1. \/ w.reset /\ v = set_diagnostic_action_enabled(w)
      \/ ~w.reset /\ follows /\ v = set_diagnostic_action_enabled(m)
      \/ ~w.reset /\ follows /\ v = set_diagnostic_action_enabled(ResetRange(w))
      \/ ~w.reset /\ ~follows /\ v = set_diagnostic_action_enabled(ParseRange(w, es))
  BY DEF refresh_diagnostic_controls, moved
<1>2. CASE w.reset /\ v = set_diagnostic_action_enabled(w)
  <2>1. /\ LogOK(v) /\ SameView(w, v) /\ v.pending = w.pending /\ v.shown = w.shown
        /\ v.native = w.native /\ v.sequences = w.sequences /\ v.reset = w.reset
        /\ v.grid = w.grid
    BY <1>2, EnabledKeeps
  <2>2. RangeKept(v)
    BY <2>1, RangeFollows
  <2>3. v.pending = FALSE
    BY <2>1
  <2> QED
    BY <2>1, <2>2, <2>3, Zenon
<1>3. CASE ~w.reset /\ follows /\ v = set_diagnostic_action_enabled(m)
  <2>1. /\ LogOK(m) /\ SameView(w, m) /\ m.pending = w.pending /\ m.shown = w.shown
        /\ m.native = w.native /\ m.sequences = w.sequences /\ m.reset = w.reset
        /\ m.grid = w.grid
    BY DEF LogOK, Fields, SameView
  <2> HIDE DEF m
  <2>2. /\ LogOK(v) /\ SameView(m, v) /\ v.pending = m.pending /\ v.shown = m.shown
        /\ v.native = m.native /\ v.sequences = m.sequences /\ v.reset = m.reset
        /\ v.grid = m.grid
    BY <1>3, <2>1, EnabledKeeps, ZenonT(60)
  <2>3. SameView(w, v)
    BY <2>1, <2>2, SameViews, Zenon
  <2>4. v.sequences = w.sequences /\ v.reset = w.reset
    BY <2>1, <2>2, Zenon
  <2>5. RangeKept(v)
    BY <2>3, <2>4, RangeFollows, Zenon
  <2>6. v.pending = FALSE
    BY <2>1, <2>2
  <2> QED
    BY <2>1, <2>2, <2>3, <2>5, <2>6, Zenon
<1>4. CASE ~w.reset /\ follows /\ v = set_diagnostic_action_enabled(ResetRange(w))
  <2> DEFINE r == ResetRange(w)
  <2>1. /\ LogOK(r) /\ SameView(w, r) /\ r.pending = TRUE /\ r.shown = w.shown
        /\ r.native = w.native /\ r.reset = TRUE /\ r.sequences = {} /\ r.grid = w.grid
    BY ResetKeeps
  <2> HIDE DEF r
  <2>2. /\ LogOK(v) /\ SameView(r, v) /\ v.pending = r.pending /\ v.shown = r.shown
        /\ v.native = r.native /\ v.sequences = r.sequences /\ v.reset = r.reset
        /\ v.grid = r.grid
    <3>1. v = set_diagnostic_action_enabled(r)
      BY <1>4 DEF r
    <3> QED
      BY <2>1, <3>1, EnabledKeeps, ZenonT(60)
  <2>3. RangeKept(v) /\ SameView(w, v)
    <3>1. v.reset /\ v.sequences = {}
      BY <2>1, <2>2, Zenon
    <3>2. RangeKept(v)
      BY <3>1, Zenon DEF RangeKept
    <3> QED
      BY <2>1, <2>2, <3>2, SameViews, Zenon
  <2>4. v.pending = TRUE /\ v.reset = TRUE
    BY <2>1, <2>2, Zenon
  <2> QED
    BY <1>4, <2>1, <2>2, <2>3, <2>4, Zenon
<1>5. CASE ~w.reset /\ ~follows /\ v = set_diagnostic_action_enabled(ParseRange(w, es))
  <2> DEFINE r == ParseRange(w, es)
  <2>1. /\ LogOK(r) /\ SameView(w, r) /\ r.pending = w.pending /\ r.shown = w.shown
        /\ r.native = w.native /\ r.grid = w.grid
    BY ParseKeeps, ZenonT(60)
  <2> HIDE DEF r
  <2>2. /\ LogOK(v) /\ SameView(r, v) /\ v.pending = r.pending /\ v.shown = r.shown
        /\ v.native = r.native /\ v.grid = r.grid
    BY <1>5, <2>1, EnabledKeeps, ZenonT(60) DEF r
  <2>3. w.typed = {} \/ w.text = <<>>
    BY <1>5 DEF RangeKept
  <2> QED
    <3>0. SameView(w, v)
      BY <2>1, <2>2, SameViews, Zenon
    <3>1. RangeKept(v) /\ SameView(w, v)
      <4>1. v.typed = w.typed /\ v.text = w.text
        BY <3>0, Zenon DEF SameView
      <4> QED
        BY <2>3, <3>0, <4>1, Zenon DEF RangeKept
    <3>2. v.pending = FALSE
      BY <2>1, <2>2, Zenon
    <3> QED
      BY <1>5, <2>1, <2>2, <3>1, <3>2, Zenon
<1> QED
  BY <1>1, <1>2, <1>3, <1>4, <1>5

-----------------------------------------------------------------------------
(* The end of a refresh posts another when one was asked for meanwhile or  *)
(* a follow-up is needed, and for no other reason.                         *)
LEMMA FinishKeeps ==
    ASSUME NEW w, LogOK(w), w.queue = 0, w.pending \in BOOLEAN, w.follow_up = FALSE,
           NEW needed \in BOOLEAN, w.open, NEW v, v = finish_diagnostic_refresh(w, needed)
    PROVE  /\ Calm(v) /\ v.open /\ v.limit = w.limit /\ v.all = w.all /\ v.category = w.category
           /\ v.search = w.search /\ v.text = w.text /\ v.typed = w.typed /\ v.passes = w.passes
           /\ v.snap = w.snap /\ v.wanted = w.wanted /\ v.shown = w.shown /\ v.native = w.native
           /\ v.grid = w.grid /\ v.sequences = w.sequences /\ v.reset = w.reset
           /\ (v.follow_up <=> needed) /\ (v.queue = 1 => w.pending \/ needed)
<1> DEFINE u == w.follow_up \/ needed
           f == [w EXCEPT !.refreshing = FALSE, !.follow_up = u]
           g == [f EXCEPT !.pending = FALSE]
           Kept(x) == /\ x.open /\ x.limit = w.limit /\ x.all = w.all /\ x.category = w.category
                      /\ x.search = w.search /\ x.text = w.text /\ x.typed = w.typed
                      /\ x.passes = w.passes /\ x.snap = w.snap /\ x.wanted = w.wanted
                      /\ x.shown = w.shown /\ x.native = w.native /\ x.grid = w.grid
                      /\ x.sequences = w.sequences /\ x.reset = w.reset
<1>0. (u <=> needed) /\ u \in BOOLEAN
  BY Zenon
<1>1. v = IF f.pending \/ needed THEN request_diagnostic_refresh(g) ELSE f
  BY DEF finish_diagnostic_refresh
<1> HIDE DEF u
<1>2. /\ DOMAIN f = Fields /\ f.next = w.next /\ f.events = w.events /\ Kept(f)
      /\ f.refreshing = FALSE /\ f.follow_up = u /\ f.pending = w.pending /\ f.queue = w.queue
  BY DEF LogOK, Fields
<1> HIDE DEF f
<1>3. /\ DOMAIN g = Fields /\ g.next = w.next /\ g.events = w.events /\ Kept(g)
      /\ g.refreshing = FALSE /\ g.follow_up = u /\ g.pending = FALSE /\ g.queue = w.queue
  BY <1>2 DEF Fields
<1> HIDE DEF g
<1>4. LogOK(f) /\ LogOK(g)
  BY <1>2, <1>3 DEF LogOK
<1>5. CASE w.pending \/ needed
  <2>1. Calm(g)
    <3>1. g.pending \in BOOLEAN /\ ~g.pending
      BY <1>3, Zenon
    <3> QED
      BY <1>3, <1>4, <3>1 DEF Calm, Ready
  <2>2. v = request_diagnostic_refresh(g)
    BY <1>1, <1>2, <1>5
  <2>3. Calm(v) /\ Unlogged(g, v) /\ v.wanted = g.wanted
    BY <2>1, <2>2, Request
  <2>4. Kept(v) /\ v.follow_up = u
    BY <1>3, <2>3 DEF Unlogged
  <2> QED
    BY <1>0, <1>5, <2>3, <2>4
<1>6. CASE ~(w.pending \/ needed)
  <2>1. v = f
    BY <1>1, <1>2, <1>6
  <2>2. Calm(f) /\ f.queue = 0
    BY <1>2, <1>4, <1>6 DEF Calm, Ready
  <2> QED
    BY <1>0, <1>2, <1>6, <2>1, <2>2
<1> QED
  BY <1>5, <1>6

(* The list with its new rows has every visible row of the selection       *)
(* marked.                                                                 *)
LEMMA MarkedKeeps ==
    ASSUME NEW w, LogOK(w), NEW rows, Distinct(rows),
           w.limit \in Nat, NEW v, v = apply_diagnostic_grid_selection(SetItemCount(w, rows))
    PROVE  /\ LogOK(v) /\ SameView(w, v) /\ v.pending = w.pending /\ v.shown = rows
           /\ v.sequences = w.sequences /\ v.reset = w.reset /\ v.grid = w.grid
           /\ ListOK(v) /\ Marks(v)
<1> DEFINE a == [w EXCEPT !.shown = rows, !.native = @ \cap DOMAIN rows]
           b == [a EXCEPT !.native = @ \cup {i \in DOMAIN a.shown : a.shown[i] \in a.grid}]
<1>1. v = b
  BY DEF apply_diagnostic_grid_selection, SetItemCount
<1>2. /\ DOMAIN a = Fields /\ a.next = w.next /\ a.events = w.events
      /\ SameView(w, a) /\ a.pending = w.pending /\ a.shown = rows
      /\ a.sequences = w.sequences /\ a.reset = w.reset /\ a.grid = w.grid
      /\ a.native \subseteq DOMAIN rows
  BY DEF LogOK, Fields, SameView
<1> HIDE DEF a
<1> DEFINE more == {i \in DOMAIN a.shown : a.shown[i] \in a.grid}
<1>3. more \subseteq DOMAIN rows /\ \A i \in DOMAIN rows : rows[i] \in w.grid => i \in more
  BY <1>2
<1> HIDE DEF more
<1>4. /\ DOMAIN b = Fields /\ b.next = a.next /\ b.events = a.events
      /\ SameView(a, b) /\ b.pending = a.pending /\ b.shown = a.shown
      /\ b.sequences = a.sequences /\ b.reset = a.reset /\ b.grid = a.grid
      /\ b.native = a.native \cup more
  BY <1>2 DEF Fields, SameView, more
<1> HIDE DEF b
<1>5. SameView(w, b) /\ b.shown = rows /\ b.grid = w.grid
  BY <1>2, <1>4 DEF SameView
<1>6. LogOK(b)
  BY <1>2, <1>4, <1>5 DEF LogOK, SameView
<1>7. b.limit \in Nat /\ b.native \subseteq DOMAIN b.shown
  BY <1>2, <1>3, <1>4, <1>5 DEF SameView
<1>8. ListOK(b) /\ Marks(b)
  BY <1>3, <1>4, <1>5, <1>7 DEF ListOK, Marks
<1> QED
  BY <1>1, <1>2, <1>4, <1>5, <1>6, <1>8

Startable(w) ==
    /\ LogOK(w) /\ w.open /\ w.queue = 0 /\ w.pending = FALSE /\ w.limit \in Nat /\ RangeKept(w)

(* A refresh leaves the list current and its selection on its events; it   *)
(* is followed by another only as its follow-up, or once when the range    *)
(* was dropped.                                                            *)
LEMMA RefreshKeeps ==
    ASSUME NEW w, Startable(w), NEW allow \in BOOLEAN,
           NEW v, v = refresh_diagnostic_window(w, allow)
    PROVE  /\ Calm(v) /\ v.open /\ ListOK(v) /\ Marks(v) /\ RangeKept(v) /\ Shows(v)
           /\ v.passes = w.passes /\ v.text = w.text
           /\ (v.queue = 1 /\ allow) =>
                 \/ ~w.follow_up /\ v.follow_up /\ (w.reset => v.reset)
                 \/ w.follow_up /\ ~v.follow_up /\ v.reset /\ ~w.reset /\ w.text # <<>>
<1> DEFINE es == w.events
           a == [w EXCEPT !.refreshing = TRUE, !.follow_up = FALSE, !.direct = FALSE,
                          !.snap = es, !.dropped = FALSE]
           b == preserve_diagnostic_grid_selection(a, es)
           c == refresh_diagnostic_controls(b, es, TRUE)
           rows == Rows(diagnostic_filtered_visible_events(c, es))
           d == apply_diagnostic_grid_selection(SetItemCount(c, rows))
           e == IF w.follow_up THEN d ELSE record_diagnostic_refresh_event(d)
           needed == allow /\ diagnostic_follow_up_needed(e.direct, w.follow_up)
<1>1. v = finish_diagnostic_refresh(e, needed)
  BY DEF refresh_diagnostic_window
<1>2. /\ DOMAIN a = Fields /\ a.next = w.next /\ a.events = w.events /\ a.wanted = w.wanted
      /\ a.refreshing = TRUE /\ a.follow_up = FALSE /\ a.snap = es /\ a.queue = 0
      /\ a.pending = FALSE /\ a.text = w.text /\ a.typed = w.typed /\ a.sequences = w.sequences
      /\ a.reset = w.reset /\ a.passes = w.passes /\ a.limit = w.limit /\ a.open = w.open
  BY DEF Startable, LogOK, Fields
<1> HIDE DEF a, es
<1>3. LogOK(a) /\ RangeKept(a)
  BY <1>2 DEF Startable, LogOK, RangeKept
<1>4. /\ LogOK(b) /\ SameView(a, b) /\ b.pending = a.pending
      /\ b.sequences = a.sequences /\ b.reset = a.reset
  <2>1. LogOK(a) /\ a.refreshing = TRUE
    BY <1>2, <1>3
  <2> QED
    BY <2>1, PreserveKeeps
<1> HIDE DEF b
<1>5. RangeKept(b) /\ b.refreshing = TRUE /\ b.pending = FALSE
  BY <1>2, <1>3, <1>4 DEF RangeKept, SameView
<1>6. /\ LogOK(c) /\ SameView(b, c) /\ RangeKept(c) /\ (b.reset => c.reset)
      /\ c.pending \in BOOLEAN /\ (c.pending => c.reset /\ ~b.reset /\ b.text # <<>>)
  <2>1. LogOK(b) /\ RangeKept(b) /\ b.refreshing = TRUE /\ b.pending = FALSE
    BY <1>4, <1>5
  <2> QED
    BY <2>1, ControlsKeep
<1> HIDE DEF c
<1>7. SameView(a, c) /\ c.limit \in Nat
  BY <1>2, <1>4, <1>6 DEF Startable, SameView
<1>8. w.next \in Nat /\ EventsOK(es, w.next)
  BY DEF Startable, LogOK, es
<1>9. Distinct(rows)
  BY <1>7, <1>8, RowsAreDistinct
<1> HIDE DEF rows
<1>10. /\ LogOK(d) /\ SameView(c, d) /\ d.pending = c.pending /\ d.shown = rows
       /\ d.sequences = c.sequences /\ d.reset = c.reset /\ d.grid = c.grid
       /\ ListOK(d) /\ Marks(d)
  BY <1>6, <1>7, <1>9, MarkedKeeps
<1> HIDE DEF d
<1>11. d.refreshing = TRUE /\ SameView(a, d)
  BY <1>2, <1>7, <1>10 DEF SameView
<1>12. /\ LogOK(e) /\ SameView(d, e) /\ e.pending = d.pending /\ e.shown = d.shown
       /\ e.native = d.native /\ e.sequences = d.sequences /\ e.reset = d.reset /\ e.grid = d.grid
       /\ (~w.follow_up => e.direct)
  <2>1. CASE w.follow_up
    BY <1>10, <2>1 DEF SameView
  <2>2. CASE ~w.follow_up
    <3>1. e = record_diagnostic_refresh_event(d)
      BY <2>2
    <3> HIDE DEF e
    <3>2. /\ LogOK(e) /\ Unlogged(d, e) /\ Unrequested(d, e) /\ e.wanted = d.wanted /\ e.direct
      BY <1>10, <1>11, <3>1, RefreshEvent
    <3> QED
      BY <3>2 DEF Unlogged, Unrequested, SameView
  <2> QED
    BY <2>1, <2>2
<1> HIDE DEF e
<1>13. needed \in BOOLEAN /\ (needed => ~w.follow_up) /\ (allow /\ ~w.follow_up => needed)
  BY <1>12 DEF diagnostic_follow_up_needed
<1> HIDE DEF needed
<1>14. SameView(a, e) /\ e.queue = 0 /\ e.pending \in BOOLEAN /\ e.follow_up = FALSE /\ e.open
  BY <1>2, <1>6, <1>10, <1>11, <1>12 DEF Startable, SameView
<1>15. /\ Calm(v) /\ v.open /\ v.limit = e.limit /\ v.all = e.all /\ v.category = e.category
       /\ v.search = e.search /\ v.text = e.text /\ v.typed = e.typed /\ v.passes = e.passes
       /\ v.snap = e.snap /\ v.wanted = e.wanted /\ v.shown = e.shown /\ v.native = e.native
       /\ v.grid = e.grid /\ v.sequences = e.sequences /\ v.reset = e.reset
       /\ (v.follow_up <=> needed) /\ (v.queue = 1 => e.pending \/ needed)
  BY <1>1, <1>12, <1>13, <1>14, FinishKeeps, ZenonT(60)
<1>16. ListOK(v) /\ Marks(v)
  BY <1>10, <1>12, <1>15 DEF ListOK, Marks, SameView
<1>17. RangeKept(v)
  BY <1>6, <1>7, <1>10, <1>12, <1>14, <1>15 DEF RangeKept, SameView
<1>18. Shows(v)
  <2>1. diagnostic_filtered_visible_events(v, es) = diagnostic_filtered_visible_events(c, es)
    BY <1>7, <1>14, <1>15, SameRows DEF SameView
  <2>2. v.snap = es /\ v.shown = rows
    BY <1>2, <1>10, <1>12, <1>14, <1>15 DEF SameView
  <2>3. v.wanted = w.wanted
    BY <1>2, <1>14, <1>15 DEF SameView
  <2>4. \E sequence \in SequencesOf(es) \cup {0} : w.wanted <= sequence
    <3>1. w.next - 1 \in SequencesOf(w.events) \cup {0} /\ w.wanted <= w.next - 1
      BY DEF Startable, LogOK
    <3> QED
      BY <3>1 DEF es
  <2> QED
    BY <2>1, <2>2, <2>3, <2>4 DEF Shows, rows
<1>19. v.passes = w.passes /\ v.text = w.text /\ b.text = w.text /\ b.reset = w.reset
  BY <1>2, <1>4, <1>14, <1>15 DEF SameView
<1>20. (w.reset => v.reset) /\ (e.pending => v.reset /\ ~w.reset /\ w.text # <<>>)
  BY <1>6, <1>10, <1>12, <1>15, <1>19
<1>21. ASSUME v.queue = 1, allow
       PROVE  \/ ~w.follow_up /\ v.follow_up /\ (w.reset => v.reset)
              \/ w.follow_up /\ ~v.follow_up /\ v.reset /\ ~w.reset /\ w.text # <<>>
  BY <1>13, <1>15, <1>20, <1>21
<1> QED
  BY <1>15, <1>16, <1>17, <1>18, <1>19, <1>21

-----------------------------------------------------------------------------
(* The handlers.                                                           *)

Listed(w) == ListOK(w) /\ Marks(w)
Good(w) == Calm(w) /\ Listed(w) /\ RangeKept(w) /\ Current(w)

\* What the invariant reads, apart from the marks and the range.
Alike(w, v) ==
    /\ DOMAIN v = Fields /\ v.next = w.next /\ v.events = w.events /\ v.wanted = w.wanted
    /\ v.open = w.open /\ v.refreshing = w.refreshing /\ v.queue = w.queue
    /\ v.pending = w.pending /\ v.limit = w.limit /\ v.shown = w.shown
    /\ v.dropped = w.dropped /\ v.all = w.all /\ v.category = w.category
    /\ v.search = w.search /\ v.snap = w.snap
SameMarks(w, v) == v.native = w.native /\ v.grid = w.grid
SameRange(w, v) ==
    /\ v.typed = w.typed /\ v.text = w.text /\ v.sequences = w.sequences /\ v.reset = w.reset

(* What the store and the requests are made of decides whether they are    *)
(* sound.                                                                  *)
LEMMA AlikeCalm ==
    ASSUME NEW w, NEW v, Alike(w, v), Calm(w)
    PROVE  Calm(v) /\ (Due(w) => Due(v))
BY DEF Alike, Calm, LogOK, Ready, Due

(* What the list is made of decides whether it is current.                 *)
LEMMA AlikeCurrent ==
    ASSUME NEW w, NEW v, Alike(w, v), Current(w)
    PROVE  Current(v)
<1>1. diagnostic_filtered_visible_events(v, w.snap) = diagnostic_filtered_visible_events(w, w.snap)
  BY SameRows DEF Alike
<1> QED
  BY <1>1 DEF Alike, Current, Shows

(* A change of what the invariant does not read keeps it.                  *)
LEMMA AlikeGood ==
    ASSUME NEW w, NEW v, Alike(w, v), SameMarks(w, v), SameRange(w, v), Good(w)
    PROVE  Good(v)
<1>1. Calm(v) /\ Current(v)
  BY AlikeCalm, AlikeCurrent DEF Good
<1>2. Listed(v)
  BY DEF Good, Listed, ListOK, Marks, Alike, SameMarks
<1>3. RangeKept(v)
  BY DEF Good, RangeKept, SameRange
<1> QED
  BY <1>1, <1>2, <1>3 DEF Good

(* A list that is behind is current as soon as the refresh has run.        *)
LEMMA DueIsCurrent ==
    ASSUME NEW v, Due(v)
    PROVE  Current(v)
BY DEF Due, Current

(* Events and requests leave the list, its marks and the range.            *)
LEMMA UnloggedKeeps ==
    ASSUME NEW w, NEW v, Unlogged(w, v)
    PROVE  (Listed(w) => Listed(v)) /\ (RangeKept(w) => RangeKept(v)) /\ v.passes = w.passes
BY DEF Unlogged, Listed, ListOK, Marks, RangeKept

-----------------------------------------------------------------------------
(* Events of the tray. *)

(* An operation of the tray keeps the invariant.                           *)
LEMMA OperationGood ==
    ASSUME NEW w, Good(w), NEW v, v = operation(w, "timer")
    PROVE  Good(v) /\ v.passes = w.passes
<1>1. "timer" \in RowNames
  BY DEF RowNames
<1>2. Calm(v) /\ Due(v) /\ Unlogged(w, v)
  BY <1>1, Operated DEF Good
<1> QED
  BY <1>2, DueIsCurrent, UnloggedKeeps DEF Good

(* An event that another thread records keeps it: the list is current for  *)
(* what the App recorded.                                                  *)
LEMMA NotedGood ==
    ASSUME NEW w, Good(w), NEW v, v = record_event(w, "timer")
    PROVE  Good(v) /\ v.passes = w.passes
<1>1. "timer" \in RowNames
  BY DEF RowNames
<1>2. Calm(v) /\ Unlogged(w, v) /\ Unrequested(w, v) /\ v.wanted = w.wanted
  BY <1>1, Noted DEF Good
<1>3. diagnostic_filtered_visible_events(v, w.snap) = diagnostic_filtered_visible_events(w, w.snap)
  BY <1>2, SameRows DEF Unlogged
<1>4. Current(v)
  BY <1>2, <1>3 DEF Good, Current, Shows, Unlogged, Unrequested
<1> QED
  BY <1>2, <1>4, UnloggedKeeps DEF Good

(* A request for a refresh keeps it.                                       *)
LEMMA RequestGood ==
    ASSUME NEW w, Good(w), NEW v, v = request_diagnostic_refresh(w)
    PROVE  Good(v) /\ v.passes = w.passes
<1>2. Calm(v) /\ Due(v) /\ Unlogged(w, v)
  BY Request DEF Good
<1> QED
  BY <1>2, DueIsCurrent, UnloggedKeeps DEF Good

-----------------------------------------------------------------------------
(* The Logs command and the life of the window. *)

(* The Logs command begins with an operation and two events.               *)
LEMMA LogsBegins ==
    ASSUME NEW w, Calm(w), NEW v, v = LogsBegun(w)
    PROVE  Calm(v) /\ Unlogged(w, v)
<1> DEFINE a == begin_operation(w)
           b == record(a, "window")
<1>1. "window" \in RowNames /\ v = record_event(b, "window")
  BY DEF RowNames, LogsBegun
<1>2. Calm(a) /\ Unlogged(w, a)
  BY Begun
<1>3. Calm(b) /\ Unlogged(a, b)
  BY <1>1, <1>2, Recording
<1> HIDE DEF a, b
<1>4. Calm(v) /\ Unlogged(b, v)
  BY <1>1, <1>3, Noted
<1> QED
  BY <1>2, <1>3, <1>4, Unlogs

(* The Logs command on an open window keeps the invariant.                 *)
LEMMA ReopenGood ==
    ASSUME NEW w, Good(w), NEW v,
           v = finish_operation(request_diagnostic_refresh(LogsBegun(w)))
    PROVE  Good(v) /\ v.passes = w.passes
<1> DEFINE a == LogsBegun(w)
           b == request_diagnostic_refresh(a)
<1>1. Calm(a) /\ Unlogged(w, a)
  BY LogsBegins DEF Good
<1>2. Calm(b) /\ Due(b) /\ Unlogged(a, b)
  BY <1>1, Request
<1>3. v = finish_operation(b)
  OBVIOUS
<1> HIDE DEF a, b
<1>4. Calm(v) /\ Due(v) /\ Unlogged(b, v)
  BY <1>2, <1>3, Finished
<1>5. Unlogged(w, v)
  BY <1>1, <1>2, <1>4, Unlogs
<1> QED
  BY <1>4, <1>5, DueIsCurrent, UnloggedKeeps DEF Good

(* A destroyed window leaves no message, no selection and no rows          *)
(* (clear_diagnostic_state).                                               *)
LEMMA ClearGood ==
    ASSUME NEW w, LogOK(w), w.limit \in Nat, NEW v, v = clear_diagnostic_state(w)
    PROVE  Good(v) /\ v.open = FALSE /\ v.passes = w.passes
<1>1. /\ DOMAIN v = Fields /\ v.next = w.next /\ v.events = w.events /\ v.wanted = w.wanted
      /\ v.open = FALSE /\ v.pending = FALSE /\ v.queue = 0 /\ v.refreshing = FALSE
      /\ v.limit = w.limit /\ v.shown = <<>> /\ v.native = {} /\ v.text = <<>>
      /\ v.passes = w.passes
  BY DEF clear_diagnostic_state, LogOK, Fields
<1>2. LogOK(v) /\ ~v.open
  BY <1>1 DEF LogOK
<1>3. v.pending \in BOOLEAN /\ ~v.pending /\ ~v.refreshing
  BY <1>1, Zenon
<1>4. Calm(v)
  BY <1>1, <1>2, <1>3 DEF Calm, Ready
<1>5. DOMAIN v.shown = {} /\ DOMAIN v.shown = 1..0
  BY <1>1
<1>6. Listed(v)
  BY <1>1, <1>5 DEF Listed, ListOK, Marks, Distinct
<1> QED
  BY <1>1, <1>2, <1>4, <1>6 DEF Good, RangeKept, Current

(* The Logs command that opens the window keeps the invariant: the list is *)
(* filled before it is shown.                                              *)
LEMMA OpenedGood ==
    ASSUME NEW w, Good(w), ~w.open, NEW v, v = finish_operation(opened(LogsBegun(w)))
    PROVE  Good(v) /\ v.passes = w.passes
<1> DEFINE a == LogsBegun(w)
           b == record_event(a, "window")
           c == [b EXCEPT !.open = TRUE]
           d == refresh_diagnostic_window(c, FALSE)
           e == record_event(d, "window")
           f == record(e, "diagnostic")
           g == record(f, "diagnostic")
           h == request_diagnostic_refresh(g)
<1>1. "window" \in RowNames /\ "diagnostic" \in RowNames
  BY DEF RowNames
<1>2. v = finish_operation(h)
  BY DEF opened, CreateControls
<1>3. Calm(a) /\ Unlogged(w, a)
  BY LogsBegins DEF Good
<1>4. Calm(b) /\ Unlogged(a, b)
  BY <1>1, <1>3, Noted
<1> HIDE DEF a, b
<1>5. Unlogged(w, b)
  BY <1>3, <1>4, Unlogs
<1>6. /\ DOMAIN c = Fields /\ c.next = b.next /\ c.events = b.events /\ c.wanted = b.wanted
      /\ c.open = TRUE /\ c.pending = b.pending /\ c.queue = b.queue
      /\ c.limit = b.limit /\ c.typed = b.typed /\ c.text = b.text
      /\ c.sequences = b.sequences /\ c.reset = b.reset /\ c.passes = b.passes
  BY <1>4 DEF Calm, LogOK, Fields
<1> HIDE DEF c
<1>7. c.queue = 0 /\ c.pending = FALSE
  BY <1>4, <1>5, <1>6 DEF Calm, Ready, Unlogged
<1>8. LogOK(c)
  BY <1>4, <1>6 DEF Calm, LogOK
<1>9. RangeKept(b) /\ b.limit \in Nat
  BY <1>5, UnloggedKeeps DEF Good, Listed, ListOK, Unlogged
<1>10. Startable(c)
  BY <1>6, <1>7, <1>8, <1>9 DEF Startable, RangeKept
<1>11. /\ Calm(d) /\ ListOK(d) /\ Marks(d) /\ RangeKept(d) /\ d.passes = c.passes
  BY <1>10, RefreshKeeps
<1> HIDE DEF d
<1>12. Calm(e) /\ Unlogged(d, e)
  BY <1>1, <1>11, Noted
<1> HIDE DEF e
<1>13. Calm(f) /\ Unlogged(e, f)
  BY <1>1, <1>12, Recording
<1> HIDE DEF f
<1>14. Calm(g) /\ Unlogged(f, g)
  BY <1>1, <1>13, Recording
<1> HIDE DEF g
<1>15. Calm(h) /\ Due(h) /\ Unlogged(g, h)
  BY <1>14, Request
<1> HIDE DEF h
<1>16. Calm(v) /\ Due(v) /\ Unlogged(h, v)
  BY <1>2, <1>15, Finished
<1>17. Unlogged(d, v)
  <2>1. Unlogged(d, g)
    BY <1>12, <1>13, <1>14, Unlogs
  <2> QED
    BY <1>15, <1>16, <2>1, Unlogs
<1>18. Listed(v) /\ RangeKept(v) /\ v.passes = d.passes
  BY <1>11, <1>17, UnloggedKeeps DEF Listed
<1>19. v.passes = w.passes
  BY <1>5, <1>6, <1>11, <1>18 DEF Unlogged
<1> QED
  BY <1>16, <1>18, <1>19, DueIsCurrent DEF Good

(* So does the one whose window could not be built.                        *)
LEMMA FailedGood ==
    ASSUME NEW w, Good(w), NEW v, v = finish_operation(create_failed(LogsBegun(w)))
    PROVE  Good(v) /\ v.passes = w.passes
<1> DEFINE a == LogsBegun(w)
           b == record_event(a, "window")
           c == record_event(b, "diagnostic")
           d == clear_diagnostic_state(c)
<1>1. "window" \in RowNames /\ "diagnostic" \in RowNames
  BY DEF RowNames
<1>2. v = finish_operation(d)
  BY DEF create_failed
<1>3. Calm(a) /\ Unlogged(w, a)
  BY LogsBegins DEF Good
<1> HIDE DEF a
<1>4. Calm(b) /\ Unlogged(a, b)
  BY <1>1, <1>3, Noted
<1> HIDE DEF b
<1>5. Calm(c) /\ Unlogged(b, c)
  BY <1>1, <1>4, Noted
<1> HIDE DEF c
<1>6. Unlogged(w, c)
  BY <1>3, <1>4, <1>5, Unlogs
<1>7. LogOK(c) /\ c.limit \in Nat
  BY <1>5, <1>6 DEF Calm, Good, Listed, ListOK, Unlogged
<1>8. Good(d) /\ d.open = FALSE /\ d.passes = c.passes
  BY <1>7, ClearGood
<1> HIDE DEF d
<1>9. Calm(v) /\ Unlogged(d, v)
  BY <1>2, <1>8, Finished DEF Good
<1>10. v.passes = w.passes /\ v.open = FALSE
  BY <1>6, <1>8, <1>9 DEF Unlogged
<1>11. Current(v)
  BY <1>10 DEF Current
<1> QED
  BY <1>8, <1>9, <1>10, <1>11, UnloggedKeeps DEF Good

(* The marked rows are those of the selected events, since no event has    *)
(* two rows.                                                               *)
LEMMA PickedGood ==
    ASSUME NEW w, Good(w), NEW positions, positions \subseteq DOMAIN w.shown,
           NEW v, v = Picked(w, positions)
    PROVE  /\ Good(v) /\ v.passes = w.passes /\ Alike(w, v)
           /\ positions = {} => v.grid = {}
<1> DEFINE a == [w EXCEPT !.native = positions]
           g == selected_event_sequences_for_sequences(
                    a.events, {a.shown[i] : i \in a.native})
           b == [a EXCEPT !.grid = g]
<1>1. v = set_diagnostic_action_enabled(b)
  BY DEF Picked, update_diagnostic_grid_selection
<1>2. /\ DOMAIN w = Fields
  BY DEF Good, Calm, LogOK
<1>3. /\ Alike(w, a) /\ SameRange(w, a) /\ a.native = positions /\ a.passes = w.passes
  BY <1>2 DEF Fields, Alike, SameRange
<1> HIDE DEF a
<1>4. \A s \in g : \E i \in positions : s = a.shown[i]
  BY <1>3 DEF selected_event_sequences_for_sequences
<1> HIDE DEF g
<1>5. /\ Alike(a, b) /\ SameRange(a, b) /\ b.native = a.native /\ b.grid = g /\ b.passes = a.passes
  BY <1>3 DEF Fields, Alike, SameRange
<1> HIDE DEF b
<1>6. Alike(w, b) /\ SameRange(w, b) /\ b.native = positions /\ b.passes = w.passes
  BY <1>3, <1>5 DEF Alike, SameRange
<1>7. Calm(b) /\ Current(b)
  BY <1>6, AlikeCalm, AlikeCurrent DEF Good
<1>8. ListOK(b)
  BY <1>6 DEF Good, Listed, ListOK, Alike
<1>9. Marks(b)
  <2> SUFFICES ASSUME NEW i \in DOMAIN b.shown, b.shown[i] \in b.grid PROVE i \in b.native
    BY DEF Marks
  <2>1. PICK j \in positions : b.shown[i] = a.shown[j]
    BY <1>4, <1>5
  <2>2. a.shown = w.shown /\ b.shown = w.shown
    BY <1>3, <1>6 DEF Alike
  <2>3. \A k, l \in DOMAIN w.shown : w.shown[k] = w.shown[l] => k = l
    BY DEF Good, Listed, ListOK, Distinct
  <2>4. i = j
    BY <2>1, <2>2, <2>3
  <2> QED
    BY <1>6, <2>4
<1>10. Good(b)
  BY <1>6, <1>7, <1>8, <1>9 DEF Good, Listed, RangeKept, SameRange
<1>11. /\ Alike(b, v) /\ SameMarks(b, v) /\ SameRange(b, v) /\ v.passes = b.passes
  <2>1. LogOK(b) /\ DOMAIN b = Fields
    BY <1>7 DEF Calm, LogOK
  <2> DEFINE e == b.grid # {} \/ row_count(b.selection) > 0
  <2>2. v = [b EXCEPT !.enabled = e]
    BY <1>1 DEF set_diagnostic_action_enabled
  <2> HIDE DEF e
  <2> QED
    BY <2>1, <2>2 DEF Fields, Alike, SameMarks, SameRange
<1>12. Good(v)
  BY <1>10, <1>11, AlikeGood
<1>13. Alike(w, v) /\ v.passes = w.passes
  BY <1>6, <1>11 DEF Alike
<1>14. positions = {} => v.grid = {}
  BY <1>4, <1>5, <1>11 DEF SameMarks
<1> QED
  BY <1>12, <1>13, <1>14

(* A Shift range either tells the application of its rows, or leaves it    *)
(* with none selected: then no mark is owed.                               *)
LEMMA ShiftRangeGood ==
    ASSUME NEW w, Good(w), NEW positions, positions \subseteq DOMAIN w.shown,
           NEW told \in BOOLEAN, NEW v, v = ShiftRange(w, positions, told)
    PROVE  Good(v) /\ v.passes = w.passes
<1>1. CASE told
  BY <1>1, PickedGood DEF ShiftRange
<1>2. CASE ~told
  <2> DEFINE p == Picked(w, {})
  <2>1. v = [p EXCEPT !.native = positions]
    BY <1>2 DEF ShiftRange
  <2>2. Good(p) /\ p.passes = w.passes /\ Alike(w, p) /\ p.grid = {}
    BY PickedGood
  <2> HIDE DEF p
  <2>3. DOMAIN p = Fields /\ p.shown = w.shown
    BY <2>2 DEF Alike
  <2>4. /\ Alike(p, v) /\ SameRange(p, v) /\ v.native = positions /\ v.grid = {}
        /\ v.passes = w.passes
    BY <2>1, <2>2, <2>3 DEF Fields, Alike, SameRange
  <2>5. Calm(v) /\ Current(v)
    BY <2>2, <2>4, AlikeCalm, AlikeCurrent DEF Good
  <2>6. Listed(v)
    BY <2>2, <2>3, <2>4 DEF Good, Listed, ListOK, Marks, Alike
  <2>7. RangeKept(v)
    BY <2>2, <2>4 DEF Good, RangeKept, SameRange
  <2> QED
    BY <2>4, <2>5, <2>6, <2>7 DEF Good
<1> QED
  BY <1>1, <1>2

(* The rubber band is no part of what the list shows.                      *)
LEMMA BandGood ==
    ASSUME NEW w, Good(w), NEW b, NEW v, v = [w EXCEPT !.band = b]
    PROVE  /\ Good(v) /\ v.passes = w.passes /\ v.shown = w.shown
           /\ v.native = w.native /\ v.band = b
<1>1. DOMAIN w = Fields
  BY DEF Good, Calm, LogOK
<1>2. /\ Alike(w, v) /\ SameMarks(w, v) /\ SameRange(w, v) /\ v.passes = w.passes
      /\ v.shown = w.shown /\ v.native = w.native /\ v.band = b
  BY <1>1 DEF Fields, Alike, SameMarks, SameRange
<1> QED
  BY <1>2, AlikeGood

(* The button down on a row keeps the invariant                            *)
(* (handle_marquee_lbuttondown).                                           *)
LEMMA ButtonGood ==
    ASSUME NEW w, Good(w), NEW row \in DOMAIN w.shown, NEW held \in BOOLEAN,
           NEW v, v = handle_marquee_lbuttondown(w, row, held)
    PROVE  Good(v) /\ v.passes = w.passes
<1> DEFINE p == Picked(w, {row})
           b == [[p.band EXCEPT !.phase = "pending"] EXCEPT !.anchor = row]
           q == [p EXCEPT !.band = b]
<1>1. Good(p) /\ p.passes = w.passes
  BY PickedGood
<1>2. DOMAIN p = Fields
  BY <1>1 DEF Good, Calm, LogOK
<1>3. v = p \/ v = [p EXCEPT !.band.phase = "pending", !.band.anchor = row]
  BY DEF handle_marquee_lbuttondown
<1> HIDE DEF p
<1>4. [p EXCEPT !.band.phase = "pending", !.band.anchor = row] = q
  BY <1>2 DEF Fields
<1> HIDE DEF b
<1>5. Good(q) /\ q.passes = p.passes
  BY <1>1, BandGood
<1> HIDE DEF q
<1> QED
  BY <1>1, <1>3, <1>4, <1>5

(* The band that moves keeps it, with the rows it began with or without    *)
(* (handle_marquee_mousemove).                                             *)
LEMMA MoveGood ==
    ASSUME NEW w, Good(w), NEW row, NEW additive,
           NEW v, v = handle_marquee_mousemove(w, row, additive)
    PROVE  Good(v) /\ v.passes = w.passes
<1> DEFINE b == [[w.band EXCEPT !.phase = "active"] EXCEPT !.initial = w.native]
           q == [w EXCEPT !.band = b]
           a == IF w.band.phase = "pending"
                THEN [w EXCEPT !.band.phase = "active", !.band.initial = w.native] ELSE w
<1>1. v = Picked(a, Band(a, row, additive))
  BY DEF handle_marquee_mousemove, update_marquee_selection
<1>2. DOMAIN w = Fields
  BY DEF Good, Calm, LogOK
<1>3. [w EXCEPT !.band.phase = "active", !.band.initial = w.native] = q
  BY <1>2 DEF Fields
<1> HIDE DEF b
<1>4. Good(q) /\ q.passes = w.passes
  BY BandGood
<1> HIDE DEF q
<1>5. Good(a) /\ a.passes = w.passes
  BY <1>3, <1>4
<1> HIDE DEF a
<1>6. Band(a, row, additive) \subseteq DOMAIN a.shown
  BY DEF Band
<1> QED
  BY <1>1, <1>5, <1>6, PickedGood

(* The band that ends keeps it (handle_marquee_cancel).                    *)
LEMMA CancelGood ==
    ASSUME NEW w, Good(w), NEW v, v = handle_marquee_cancel(w)
    PROVE  Good(v) /\ v.passes = w.passes
<1> DEFINE a == [w EXCEPT !.band = NoBand]
<1>1. Good(a) /\ a.passes = w.passes
  BY BandGood
<1>2. DOMAIN a = Fields
  BY <1>1 DEF Good, Calm, LogOK
<1>3. v = a \/ v = update_diagnostic_grid_selection(a)
  BY DEF handle_marquee_cancel
<1>4. a = [a EXCEPT !.native = a.native]
  BY <1>2 DEF Fields
<1> HIDE DEF a
<1>5. v = a \/ v = Picked(a, a.native)
  BY <1>3, <1>4 DEF Picked
<1>6. a.native \subseteq DOMAIN a.shown
  BY <1>1 DEF Good, Listed, ListOK
<1> QED
  BY <1>1, <1>5, <1>6, PickedGood

-----------------------------------------------------------------------------
(* The toolbar. *)

\* The same App with another limit or filter.
Refiltered(w, v) ==
    /\ DOMAIN v = Fields /\ v.next = w.next /\ v.events = w.events /\ v.wanted = w.wanted
    /\ v.open = w.open /\ v.refreshing = w.refreshing /\ v.queue = w.queue
    /\ v.pending = w.pending /\ v.limit \in Nat /\ v.shown = w.shown
    /\ SameMarks(w, v) /\ SameRange(w, v) /\ v.passes = w.passes

(* A change of what the list is to show is followed by an operation, and   *)
(* so by a refresh.                                                        *)
LEMMA RefilteredGood ==
    ASSUME NEW w, Good(w), NEW a, Refiltered(w, a), NEW v, v = operation(a, "diagnostic")
    PROVE  Good(v) /\ v.passes = w.passes
<1>1. "diagnostic" \in RowNames
  BY DEF RowNames
<1>2. Calm(a)
  BY DEF Refiltered, Good, Calm, LogOK, Ready
<1>3. Listed(a) /\ RangeKept(a)
  BY DEF Refiltered, Good, Listed, ListOK, Marks, RangeKept, SameMarks, SameRange
<1>4. Calm(v) /\ Due(v) /\ Unlogged(a, v)
  BY <1>1, <1>2, Operated
<1> QED
  BY <1>3, <1>4, DueIsCurrent, UnloggedKeeps DEF Good, Refiltered

(* Typing a number of rows keeps the invariant                             *)
(* (diagnostic_display_changed).                                           *)
LEMMA DisplayGood ==
    ASSUME NEW w, Good(w), NEW limit \in Nat, NEW v, v = diagnostic_display_changed(w, limit)
    PROVE  Good(v) /\ v.passes = w.passes
<1> DEFINE a == [w EXCEPT !.limit = limit, !.all = FALSE]
<1>1. DOMAIN w = Fields /\ w.limit \in Nat
  BY DEF Good, Calm, LogOK, Listed, ListOK
<1>2. Refiltered(w, a) /\ Refiltered(w, w)
  BY <1>1 DEF Fields, Refiltered, SameMarks, SameRange
<1>3. v = operation(w, "diagnostic") \/ v = operation(a, "diagnostic")
  BY DEF diagnostic_display_changed
<1> HIDE DEF a
<1> QED
  BY <1>2, <1>3, RefilteredGood

(* Show all keeps it (diagnostic_show_all).                                *)
LEMMA AllGood ==
    ASSUME NEW w, Good(w), NEW v, v = diagnostic_show_all(w)
    PROVE  Good(v) /\ v.passes = w.passes
<1> DEFINE a == [w EXCEPT !.all = TRUE]
<1>1. DOMAIN w = Fields /\ w.limit \in Nat
  BY DEF Good, Calm, LogOK, Listed, ListOK
<1>2. Refiltered(w, a)
  BY <1>1 DEF Fields, Refiltered, SameMarks, SameRange
<1>3. v = operation(a, "diagnostic")
  BY DEF diagnostic_show_all
<1> HIDE DEF a
<1> QED
  BY <1>2, <1>3, RefilteredGood

(* Choosing a category keeps it (diagnostic_category_filter_changed).      *)
LEMMA CategoryGood ==
    ASSUME NEW w, Good(w), NEW category, NEW v, v = diagnostic_category_filter_changed(w, category)
    PROVE  Good(v) /\ v.passes = w.passes
<1> DEFINE a == [w EXCEPT !.category = category]
           o == operation(a, "diagnostic")
<1>1. DOMAIN w = Fields /\ w.limit \in Nat
  BY DEF Good, Calm, LogOK, Listed, ListOK
<1>2. Refiltered(w, a)
  BY <1>1 DEF Fields, Refiltered, SameMarks, SameRange
<1>3. v = request_diagnostic_refresh(o)
  BY DEF diagnostic_category_filter_changed
<1> HIDE DEF a
<1>4. Good(o) /\ o.passes = w.passes
  BY <1>2, RefilteredGood
<1> HIDE DEF o
<1> QED
  BY <1>3, <1>4, RequestGood

(* Typing a search text keeps it (diagnostic_search_changed).              *)
LEMMA SearchGood ==
    ASSUME NEW w, Good(w), NEW search, NEW v, v = diagnostic_search_changed(w, search)
    PROVE  Good(v) /\ v.passes = w.passes
<1> DEFINE a == [w EXCEPT !.search = search]
           o == operation(a, "diagnostic")
<1>1. DOMAIN w = Fields /\ w.limit \in Nat
  BY DEF Good, Calm, LogOK, Listed, ListOK
<1>2. Refiltered(w, a)
  BY <1>1 DEF Fields, Refiltered, SameMarks, SameRange
<1>3. v = w \/ v = request_diagnostic_refresh(o)
  BY DEF diagnostic_search_changed
<1> HIDE DEF a
<1>4. Good(o) /\ o.passes = w.passes
  BY <1>2, RefilteredGood
<1> HIDE DEF o
<1> QED
  BY <1>3, <1>4, RequestGood

-----------------------------------------------------------------------------
(* The range, copy and export. *)

(* The range is read anew: the rest of the window is as it was.            *)
LEMMA ParsedCalm ==
    ASSUME NEW w, Calm(w), Listed(w), NEW es, NEW v, v = ParseRange(w, es)
    PROVE  /\ Calm(v) /\ Listed(v) /\ v.passes = w.passes /\ (Due(w) => Due(v))
<1>1. /\ LogOK(v) /\ SameView(w, v) /\ v.pending = w.pending /\ v.shown = w.shown
      /\ v.native = w.native /\ v.grid = w.grid
  BY ParseKeeps, ZenonT(60) DEF Calm
<1>2. Ready(v) /\ (Due(w) => Due(v))
  BY <1>1 DEF SameView, Calm, Ready, Due
<1>3. Listed(v)
  BY <1>1 DEF SameView, Listed, ListOK, Marks
<1> QED
  BY <1>1, <1>2, <1>3 DEF Calm, SameView

(* The range names the events it names now.                                *)
LEMMA TypedGood ==
    ASSUME NEW w, Calm(w), Listed(w), Due(w), NEW v, v = [w EXCEPT !.typed = w.sequences]
    PROVE  Good(v) /\ Due(v) /\ v.passes = w.passes
<1>1. DOMAIN w = Fields
  BY DEF Calm, LogOK
<1>2. Alike(w, v) /\ SameMarks(w, v) /\ v.typed = v.sequences /\ v.passes = w.passes
  BY <1>1 DEF Fields, Alike, SameMarks
<1>3. Calm(v) /\ Due(v)
  BY <1>2, AlikeCalm
<1>4. Listed(v)
  BY <1>2 DEF Listed, ListOK, Marks, Alike, SameMarks
<1>5. RangeKept(v)
  BY <1>2 DEF RangeKept
<1> QED
  BY <1>2, <1>3, <1>4, <1>5, DueIsCurrent DEF Good

(* Typing a range keeps it: the range then names the events at its rows    *)
(* (diagnostic_range_changed).                                             *)
LEMMA RangeGood ==
    ASSUME NEW w, Good(w), NEW text, NEW v, v = diagnostic_range_changed(w, text)
    PROVE  Good(v) /\ v.passes = w.passes
<1> DEFINE es == w.events
           a == [w EXCEPT !.text = text]
           b == ParseRange(a, es)
           c == begin_operation(b)
           d == record(c, "diagnostic")
           e == IF parse_row_selection(text, Len(es)).ok THEN d ELSE record(d, "diagnostic")
           f == finish_operation(e)
           p == ParseRange(f, es)
           g == set_diagnostic_action_enabled(p)
<1>1. "diagnostic" \in RowNames
  BY DEF RowNames
<1>2. v = [g EXCEPT !.typed = g.sequences]
  BY DEF diagnostic_range_changed, refresh_diagnostic_controls
<1>3. DOMAIN w = Fields
  BY DEF Good, Calm, LogOK
<1>4. Alike(w, a) /\ SameMarks(w, a) /\ a.passes = w.passes
  BY <1>3 DEF Fields, Alike, SameMarks
<1> HIDE DEF a
<1>5. Calm(a) /\ Listed(a)
  <2>1. Calm(a)
    BY <1>4, AlikeCalm DEF Good
  <2> QED
    BY <1>4, <2>1 DEF Good, Listed, ListOK, Marks, Alike, SameMarks
<1> HIDE DEF es
<1>6. Calm(b) /\ Listed(b) /\ b.passes = a.passes
  BY <1>5, ParsedCalm
<1> HIDE DEF b
<1>7. Calm(c) /\ Unlogged(b, c)
  BY <1>6, Begun
<1> HIDE DEF c
<1>8. Calm(d) /\ Due(d) /\ Unlogged(c, d)
  BY <1>1, <1>7, Recording
<1> HIDE DEF d
<1>9. Calm(e) /\ Due(e) /\ Unlogged(d, e)
  <2>1. CASE e = d
    BY <1>8, <2>1 DEF Unlogged
  <2>2. CASE e = record(d, "diagnostic")
    BY <1>1, <1>8, <2>2, Recording
  <2> QED
    BY <2>1, <2>2
<1> HIDE DEF e
<1>10. Calm(f) /\ Due(f) /\ Unlogged(e, f)
  BY <1>9, Finished
<1> HIDE DEF f
<1>11. Unlogged(b, f)
  <2>1. Unlogged(b, e)
    BY <1>7, <1>8, <1>9, Unlogs
  <2> QED
    BY <1>10, <2>1, Unlogs
<1>12. Listed(f) /\ f.passes = b.passes
  BY <1>6, <1>11, UnloggedKeeps
<1>13. Calm(p) /\ Listed(p) /\ p.passes = f.passes /\ Due(p)
  BY <1>10, <1>12, ParsedCalm
<1> HIDE DEF p
<1>14. /\ LogOK(g) /\ SameView(p, g) /\ g.pending = p.pending /\ g.shown = p.shown
       /\ g.native = p.native /\ g.grid = p.grid
  BY <1>13, EnabledKeeps DEF Calm
<1> HIDE DEF g
<1>15. Calm(g) /\ Due(g) /\ Listed(g) /\ g.passes = p.passes
  <2>1. Ready(g) /\ Due(g)
    BY <1>13, <1>14 DEF SameView, Calm, Ready, Due
  <2>2. Listed(g)
    BY <1>13, <1>14 DEF SameView, Listed, ListOK, Marks
  <2> QED
    BY <1>14, <2>1, <2>2 DEF SameView, Calm
<1>16. Good(v) /\ v.passes = g.passes
  BY <1>2, <1>15, TypedGood
<1> QED
  BY <1>4, <1>6, <1>12, <1>13, <1>15, <1>16

(* What copy and export begin with: refused, or the range as it now reads. *)
LEMMA TransferCalm ==
    ASSUME NEW w, Good(w), NEW t, t = Transfer(w)
    PROVE  /\ Calm(t.app) /\ Due(t.app) /\ Listed(t.app) /\ t.app.passes = w.passes
           /\ (t.rows = {} => RangeKept(t.app))
<1> DEFINE grid == selected_event_sequences_for_sequences(w.events, w.grid)
           ranged == ParseRange(w, w.events)
           begun == begin_operation(w)
           told == record(begun, "diagnostic")
           again == record(told, "diagnostic")
           refused == finish_operation(again)
           taken == begin_operation(ranged)
           asked == record(taken, "diagnostic")
<1>1. "diagnostic" \in RowNames
  BY DEF RowNames
<1>2. \/ grid # {} /\ t = [app |-> told, rows |-> grid]
      \/ t = [app |-> refused, rows |-> {}]
      \/ ranged.sequences # {} /\ t = [app |-> asked, rows |-> ranged.sequences]
  BY DEF Transfer
<1>3. Calm(begun) /\ Unlogged(w, begun)
  BY Begun DEF Good
<1>4. Calm(ranged) /\ Listed(ranged) /\ ranged.passes = w.passes
  BY ParsedCalm DEF Good
<1> HIDE DEF grid, ranged, begun
<1>5. Calm(told) /\ Due(told) /\ Unlogged(begun, told)
  BY <1>1, <1>3, Recording
<1>6. Calm(taken) /\ Unlogged(ranged, taken)
  BY <1>4, Begun
<1> HIDE DEF told, taken
<1>7. Calm(again) /\ Due(again) /\ Unlogged(told, again)
  BY <1>1, <1>5, Recording
<1>8. Calm(asked) /\ Due(asked) /\ Unlogged(taken, asked)
  BY <1>1, <1>6, Recording
<1> HIDE DEF again, asked
<1>9. Calm(refused) /\ Due(refused) /\ Unlogged(again, refused)
  BY <1>7, Finished
<1> HIDE DEF refused
<1>10. Unlogged(w, told) /\ Unlogged(w, refused) /\ Unlogged(ranged, asked)
  <2>1. Unlogged(w, told) /\ Unlogged(ranged, asked)
    BY <1>3, <1>5, <1>6, <1>8, Unlogs
  <2>2. Unlogged(w, again)
    BY <1>7, <2>1, Unlogs
  <2> QED
    BY <1>9, <2>1, <2>2, Unlogs
<1>11. /\ Listed(told) /\ told.passes = w.passes /\ Listed(asked) /\ asked.passes = w.passes
       /\ Listed(refused) /\ refused.passes = w.passes /\ RangeKept(refused)
  BY <1>4, <1>10, UnloggedKeeps DEF Good
<1>12. CASE grid # {} /\ t = [app |-> told, rows |-> grid]
  BY <1>5, <1>11, <1>12
<1>13. CASE t = [app |-> refused, rows |-> {}]
  BY <1>9, <1>11, <1>13
<1>14. CASE ranged.sequences # {} /\ t = [app |-> asked, rows |-> ranged.sequences]
  BY <1>8, <1>11, <1>14
<1> QED
  BY <1>2, <1>12, <1>13, <1>14

(* The end of a copy or an export keeps the invariant, whether it worked   *)
(* or not.                                                                 *)
LEMMA EndedGood ==
    ASSUME NEW w, Calm(w), Listed(w), RangeKept(w), NEW done, NEW v, v = Ended(w, done)
    PROVE  Good(v) /\ v.passes = w.passes
<1> DEFINE a == record(w, "diagnostic")
           b == record(a, "diagnostic")
           c == IF done THEN a ELSE b
<1>1. "diagnostic" \in RowNames /\ v = finish_operation(c)
  BY DEF RowNames, Ended
<1>2. Calm(a) /\ Due(a) /\ Unlogged(w, a)
  BY <1>1, Recording
<1> HIDE DEF a
<1>3. Calm(b) /\ Due(b) /\ Unlogged(a, b)
  BY <1>1, <1>2, Recording
<1> HIDE DEF b
<1>4. Unlogged(w, b)
  BY <1>2, <1>3, Unlogs
<1>5. Calm(c) /\ Due(c) /\ Unlogged(w, c)
  BY <1>2, <1>3, <1>4
<1> HIDE DEF c
<1>6. Calm(v) /\ Due(v) /\ Unlogged(c, v)
  BY <1>1, <1>5, Finished
<1>7. Unlogged(w, v)
  BY <1>5, <1>6, Unlogs
<1> QED
  BY <1>6, <1>7, DueIsCurrent, UnloggedKeeps DEF Good

(* So does the request for the rows, after which the range names the       *)
(* events it was read as.                                                  *)
LEMMA AskedGood ==
    ASSUME NEW w, Good(w), NEW v,
           v = record([Transfer(w).app EXCEPT !.typed = Transfer(w).app.sequences], "diagnostic")
    PROVE  Good(v) /\ v.passes = w.passes
<1> DEFINE t == Transfer(w)
           a == t.app
           b == [a EXCEPT !.typed = a.sequences]
<1>1. "diagnostic" \in RowNames /\ v = record(b, "diagnostic")
  BY DEF RowNames
<1>2. Calm(a) /\ Due(a) /\ Listed(a) /\ a.passes = w.passes
  BY TransferCalm
<1> HIDE DEF a, t
<1>3. Good(b) /\ b.passes = a.passes
  BY <1>2, TypedGood
<1> HIDE DEF b
<1>4. Calm(v) /\ Due(v) /\ Unlogged(b, v)
  BY <1>1, <1>3, Recording DEF Good
<1> QED
  BY <1>2, <1>3, <1>4, DueIsCurrent, UnloggedKeeps DEF Good

(* A copy or an export with nothing to take leaves the range.              *)
LEMMA RefusedGood ==
    ASSUME NEW w, Good(w), Transfer(w).rows = {}, NEW v, v = Transfer(w).app
    PROVE  Good(v) /\ v.passes = w.passes
<1> DEFINE t == Transfer(w)
<1>1. /\ Calm(t.app) /\ Due(t.app) /\ Listed(t.app) /\ t.app.passes = w.passes
      /\ (t.rows = {} => RangeKept(t.app))
  BY TransferCalm
<1> QED
  BY <1>1, DueIsCurrent DEF Good

(* Copying keeps the invariant (copy_tsv_to_clipboard).                    *)
LEMMA CopyGood ==
    ASSUME NEW w, Good(w), NEW done, NEW v, v = copy_tsv_to_clipboard(w, done)
    PROVE  Good(v) /\ v.passes = w.passes
<1> DEFINE a == record([Transfer(w).app EXCEPT !.typed = Transfer(w).app.sequences], "diagnostic")
<1>1. \/ Transfer(w).rows = {} /\ v = Transfer(w).app
      \/ v = Ended(a, done)
  BY DEF copy_tsv_to_clipboard
<1>2. Good(a) /\ a.passes = w.passes
  BY AskedGood
<1> HIDE DEF a
<1>3. CASE Transfer(w).rows = {} /\ v = Transfer(w).app
  BY <1>3, RefusedGood
<1>4. CASE v = Ended(a, done)
  BY <1>2, <1>4, EndedGood DEF Good
<1> QED
  BY <1>1, <1>3, <1>4

(* The save dialog is no part of what the list shows.                      *)
LEMMA DialogGood ==
    ASSUME NEW w, Good(w), NEW d, NEW v, v = [w EXCEPT !.dialog = d]
    PROVE  Good(v) /\ v.passes = w.passes
<1>1. DOMAIN w = Fields
  BY DEF Good, Calm, LogOK
<1>2. Alike(w, v) /\ SameMarks(w, v) /\ SameRange(w, v) /\ v.passes = w.passes
  BY <1>1 DEF Fields, Alike, SameMarks, SameRange
<1> QED
  BY <1>2, AlikeGood

(* The export up to its dialog keeps the invariant (choose_export_path).   *)
LEMMA ExportGood ==
    ASSUME NEW w, Good(w), NEW everything, NEW v, v = choose_export_path(w, everything)
    PROVE  Good(v) /\ v.passes = w.passes
<1> DEFINE a == record([Transfer(w).app EXCEPT !.typed = Transfer(w).app.sequences], "diagnostic")
           rows == IF everything THEN SequencesOf(w.events) ELSE Transfer(w).rows
<1>1. \/ Transfer(w).rows = {} /\ v = Transfer(w).app
      \/ v = [a EXCEPT !.dialog = rows]
  BY DEF choose_export_path
<1>2. Good(a) /\ a.passes = w.passes
  BY AskedGood
<1> HIDE DEF a, rows
<1>3. CASE Transfer(w).rows = {} /\ v = Transfer(w).app
  BY <1>3, RefusedGood
<1>4. CASE v = [a EXCEPT !.dialog = rows]
  BY <1>2, <1>4, DialogGood
<1> QED
  BY <1>1, <1>3, <1>4

(* So does the export after its dialog (write_export_tsv).                 *)
LEMMA WrittenGood ==
    ASSUME NEW w, Good(w), NEW done, NEW v, v = write_export_tsv(w, done)
    PROVE  Good(v) /\ v.passes = w.passes
<1> DEFINE a == [w EXCEPT !.dialog = {}]
<1>1. v = Ended(a, done)
  BY DEF write_export_tsv
<1>2. Good(a) /\ a.passes = w.passes
  BY DialogGood
<1> HIDE DEF a
<1> QED
  BY <1>1, <1>2, EndedGood DEF Good

-----------------------------------------------------------------------------
(* The invariant of the window.                                            *)

\* The refreshes an input may still cause: a follow-up after one that is none, and two
\* more when the range is dropped, which happens once.
Chain(w) ==
    /\ w.passes \in Nat /\ w.passes <= 4
    /\ w.queue > 0 => w.passes + (IF w.follow_up THEN 1 ELSE 2)
                               + (IF ~w.reset /\ w.text # <<>> THEN 2 ELSE 0) <= 4

WindowIInv == Good(app) /\ Chain(app)

(* A handler starts with what the last one left.                           *)
LEMMA Handled ==
    ASSUME NEW a, Good(a), NEW posts, NEW w, w = [a EXCEPT !.posts = posts, !.passes = 0]
    PROVE  Good(w) /\ w.passes = 0 /\ w.shown = a.shown /\ w.native = a.native /\ w.open = a.open
<1>1. DOMAIN a = Fields
  BY DEF Good, Calm, LogOK
<1>2. /\ Alike(a, w) /\ SameMarks(a, w) /\ SameRange(a, w) /\ w.passes = 0
  BY <1>1 DEF Fields, Alike, SameMarks, SameRange
<1>3. Good(w)
  BY <1>2, AlikeGood
<1> QED
  BY <1>2, <1>3 DEF Alike, SameMarks

(* What a handler leaves when it began a count of refreshes starts that    *)
(* count.                                                                  *)
LEMMA Stored ==
    ASSUME NEW v, Good(v), v.passes = 0, NEW z, z = [v EXCEPT !.posts = TRUE]
    PROVE  Good(z) /\ Chain(z)
<1>1. DOMAIN v = Fields
  BY DEF Good, Calm, LogOK
<1>2. /\ Alike(v, z) /\ SameMarks(v, z) /\ SameRange(v, z) /\ z.passes = 0
  BY <1>1 DEF Fields, Alike, SameMarks, SameRange
<1>3. Good(z)
  BY <1>2, AlikeGood
<1>4. Chain(z)
  BY <1>2 DEF Chain
<1> QED
  BY <1>3, <1>4

(* The closed window of the start satisfies the invariant.                 *)
LEMMA WindowStarts == WindowInit => WindowIInv
<1> SUFFICES ASSUME WindowInit PROVE WindowIInv
  OBVIOUS
<1>1. /\ DOMAIN app = Fields /\ app.events = <<>> /\ app.next = 1 /\ app.wanted = 0
      /\ app.open = FALSE /\ app.pending = FALSE /\ app.queue = 0 /\ app.refreshing = FALSE
      /\ app.limit = DefaultLimit /\ app.shown = <<>> /\ app.native = {} /\ app.typed = {}
      /\ app.passes = 0
  BY DEF WindowInit, Fields
<1>2. DefaultLimit \in Nat /\ maximum_rows \in Nat
  BY DiagnosticWindowAssumption
<1>3. EventsOK(app.events, app.next)
  BY <1>1 DEF EventsOK
<1>4. LogOK(app)
  BY <1>1, <1>2, <1>3 DEF LogOK, SequencesOf
<1>5. app.pending \in BOOLEAN /\ ~app.pending /\ ~app.refreshing /\ ~app.open
  BY <1>1, Zenon
<1>6. Calm(app)
  BY <1>1, <1>4, <1>5 DEF Calm, Ready
<1>7. DOMAIN app.shown = {} /\ DOMAIN app.shown = 1..0
  BY <1>1
<1>8. Listed(app)
  BY <1>1, <1>2, <1>7 DEF Listed, ListOK, Marks, Distinct
<1> QED
  BY <1>1, <1>5, <1>6, <1>8 DEF WindowIInv, Good, RangeKept, Current, Chain

(* A refresh leaves fewer to come.                                         *)
LEMMA MessageKeeps == ASSUME WindowIInv, RefreshMessage PROVE WindowIInv'
<1>1. PICK posts \in Posts :
          app' = [refresh_diagnostic_window(
                      [app EXCEPT !.queue = @ - 1, !.pending = FALSE, !.posts = posts,
                                  !.passes = @ + 1], TRUE) EXCEPT !.posts = TRUE]
  BY DEF RefreshMessage
<1> DEFINE w == [app EXCEPT !.queue = @ - 1, !.pending = FALSE, !.posts = posts,
                            !.passes = @ + 1]
           v == refresh_diagnostic_window(w, TRUE)
           z == [v EXCEPT !.posts = TRUE]
<1>2. app' = z
  BY <1>1
<1>3. DOMAIN app = Fields /\ app.queue \in {0, 1} /\ app.queue > 0 /\ app.open
  BY DEF RefreshMessage, WindowIInv, Good, Calm, LogOK, Ready
<1>4. /\ DOMAIN w = Fields /\ w.next = app.next /\ w.events = app.events
      /\ w.wanted = app.wanted /\ w.open = app.open /\ w.queue = app.queue - 1
      /\ w.pending = FALSE /\ w.limit = app.limit /\ SameRange(app, w)
      /\ w.passes = app.passes + 1 /\ w.follow_up = app.follow_up
  BY <1>3 DEF Fields, SameRange
<1> HIDE DEF w
<1>5. LogOK(w) /\ w.limit \in Nat /\ RangeKept(w)
  BY <1>4 DEF WindowIInv, Good, Calm, LogOK, Listed, ListOK, RangeKept, SameRange
<1>6. Startable(w)
  BY <1>3, <1>4, <1>5 DEF Startable
<1>7. /\ Calm(v) /\ v.open /\ ListOK(v) /\ Marks(v) /\ RangeKept(v) /\ Shows(v)
      /\ v.passes = w.passes /\ v.text = w.text
      /\ v.queue = 1 =>
            \/ ~w.follow_up /\ v.follow_up /\ (w.reset => v.reset)
            \/ w.follow_up /\ ~v.follow_up /\ v.reset /\ ~w.reset /\ w.text # <<>>
  BY <1>6, RefreshKeeps
<1> HIDE DEF v
<1>8. Good(v)
  BY <1>7 DEF Good, Listed, Current
<1>9. DOMAIN v = Fields /\ v.queue \in {0, 1}
  BY <1>7 DEF Calm, LogOK, Ready
<1>10. /\ Alike(v, z) /\ SameMarks(v, z) /\ SameRange(v, z) /\ z.passes = v.passes
       /\ z.follow_up = v.follow_up
  BY <1>9 DEF Fields, Alike, SameMarks, SameRange
<1> HIDE DEF z
<1>11. Good(z)
  BY <1>8, <1>10, AlikeGood
<1>12. /\ z.queue = v.queue /\ z.passes = app.passes + 1 /\ z.text = app.text
       /\ z.reset = v.reset /\ w.reset = app.reset /\ w.text = app.text
  BY <1>4, <1>7, <1>10 DEF Alike, SameRange
<1>13. /\ app.passes \in Nat
       /\ app.passes + (IF app.follow_up THEN 1 ELSE 2)
                     + (IF ~app.reset /\ app.text # <<>> THEN 2 ELSE 0) <= 4
  BY <1>3 DEF WindowIInv, Chain
<1>14. z.passes \in Nat /\ z.passes <= 4
  BY <1>12, <1>13
<1>15. ASSUME z.queue > 0
       PROVE  z.passes + (IF z.follow_up THEN 1 ELSE 2)
                       + (IF ~z.reset /\ z.text # <<>> THEN 2 ELSE 0) <= 4
  <2>1. v.queue = 1
    BY <1>9, <1>12, <1>15
  <2>2. CASE ~w.follow_up /\ v.follow_up /\ (w.reset => v.reset)
    <3>1. ~app.follow_up /\ z.follow_up /\ (app.reset => z.reset)
      BY <1>4, <1>10, <1>12, <2>2, Zenon
    <3> QED
      BY <1>12, <1>13, <3>1
  <2>3. CASE w.follow_up /\ ~v.follow_up /\ v.reset /\ ~w.reset /\ w.text # <<>>
    <3>1. app.follow_up /\ ~z.follow_up /\ z.reset /\ ~app.reset /\ app.text # <<>>
      BY <1>4, <1>10, <1>12, <2>3, Zenon
    <3> QED
      BY <1>12, <1>13, <3>1
  <2> QED
    BY <1>7, <2>1, <2>2, <2>3
<1>16. Chain(z)
  BY <1>14, <1>15 DEF Chain
<1> QED
  BY <1>2, <1>11, <1>16 DEF WindowIInv

\* The App as a handler gets it, and as the handler leaves it.
Begin(a, posts) == [a EXCEPT !.posts = posts, !.passes = 0]
Left(v) == [v EXCEPT !.posts = TRUE]

(* One step per action keeps the inductive invariant.                      *)
LEMMA HandlersKeep == WindowIInv /\ [WindowNext]_windowVars => WindowIInv'
<1> SUFFICES ASSUME WindowIInv, [WindowNext]_windowVars PROVE WindowIInv'
  OBVIOUS
<1>1. ASSUME NEW posts
      PROVE  LET w == Begin(app, posts)
             IN  /\ Good(w) /\ w.passes = 0 /\ w.shown = app.shown /\ w.native = app.native
                 /\ w.open = app.open
  BY Handled DEF Begin, WindowIInv
<1>2. ASSUME NEW v, Good(v), v.passes = 0, app' = Left(v) PROVE WindowIInv'
  BY <1>2, Stored DEF Left, WindowIInv
<1>3. CASE TrayOperation
  <2>1. PICK posts : app' = Left(operation(Begin(app, posts), "timer"))
    BY <1>3 DEF TrayOperation, Input, Handle, Begin, Left
  <2> QED
    BY <1>1, <1>2, <2>1, OperationGood
<1>4. CASE ThreadRecords
  <2>1. PICK posts : app' = Left(record_event(Begin(app, posts), "timer"))
    BY <1>4 DEF ThreadRecords, Input, Handle, Begin, Left
  <2> QED
    BY <1>1, <1>2, <2>1, NotedGood
<1>5. CASE Reopen
  <2>1. PICK posts :
            app' = Left(finish_operation(request_diagnostic_refresh(LogsBegun(Begin(app, posts)))))
    BY <1>5 DEF Reopen, User, Input, Handle, logs_command, Begin, Left
  <2> QED
    BY <1>1, <1>2, <2>1, ReopenGood
<1>6. CASE Focus
  <2>1. PICK posts : app' = Left(request_diagnostic_refresh(Begin(app, posts)))
    BY <1>6 DEF Focus, User, Input, Handle, Begin, Left
  <2> QED
    BY <1>1, <1>2, <2>1, RequestGood
<1>7. CASE EditRange
  <2>1. PICK text, posts : app' = Left(diagnostic_range_changed(Begin(app, posts), text))
    BY <1>7 DEF EditRange, User, Input, Handle, Begin, Left
  <2> QED
    BY <1>1, <1>2, <2>1, RangeGood
<1>8. CASE ShowAll
  <2>1. PICK posts : app' = Left(diagnostic_show_all(Begin(app, posts)))
    BY <1>8 DEF ShowAll, User, Input, Handle, Begin, Left
  <2> QED
    BY <1>1, <1>2, <2>1, AllGood
<1>9. CASE PickCategory
  <2>1. PICK category, posts :
            app' = Left(diagnostic_category_filter_changed(Begin(app, posts), category))
    BY <1>9 DEF PickCategory, User, Input, Handle, Begin, Left
  <2> QED
    BY <1>1, <1>2, <2>1, CategoryGood
<1>10. CASE EditSearch
  <2>1. PICK search, posts : app' = Left(diagnostic_search_changed(Begin(app, posts), search))
    BY <1>10 DEF EditSearch, User, Input, Handle, Begin, Left
  <2> QED
    BY <1>1, <1>2, <2>1, SearchGood
<1>11. CASE Copy
  <2>1. PICK done, posts : app' = Left(copy_tsv_to_clipboard(Begin(app, posts), done))
    BY <1>11 DEF Copy, User, Input, Handle, Begin, Left
  <2> QED
    BY <1>1, <1>2, <2>1, CopyGood
<1>12. CASE Export
  <2>1. PICK everything, posts : app' = Left(choose_export_path(Begin(app, posts), everything))
    BY <1>12 DEF Export, User, Input, Handle, Begin, Left
  <2> QED
    BY <1>1, <1>2, <2>1, ExportGood
<1>13. CASE DialogEnds
  <2>1. PICK done, posts : app' = Left(write_export_tsv(Begin(app, posts), done))
    BY <1>13 DEF DialogEnds, Handle, Begin, Left
  <2> QED
    BY <1>1, <1>2, <2>1, WrittenGood
<1>14. CASE MouseMove
  <2>1. PICK row, additive, posts :
            app' = Left(handle_marquee_mousemove(Begin(app, posts), row, additive))
    BY <1>14 DEF MouseMove, User, Input, Handle, Begin, Left
  <2> QED
    BY <1>1, <1>2, <2>1, MoveGood
<1>15. CASE BandEnds
  <2>1. PICK posts : app' = Left(handle_marquee_cancel(Begin(app, posts)))
    BY <1>15 DEF BandEnds, User, Input, Handle, Begin, Left
  <2> QED
    BY <1>1, <1>2, <2>1, CancelGood
<1>16. CASE EditLimit
  <2>1. PICK limit, posts :
            /\ limit \in Limits \cup {0}
            /\ app' = Left(diagnostic_display_changed(Begin(app, posts), limit))
    BY <1>16 DEF EditLimit, User, Input, Handle, Begin, Left
  <2>2. limit \in Nat
    BY <2>1, DiagnosticWindowAssumption
  <2> QED
    BY <1>1, <1>2, <2>1, <2>2, DisplayGood
<1>17. CASE CloseWindow
  <2>1. PICK posts : app' = Left(clear_diagnostic_state(Begin(app, posts)))
    BY <1>17 DEF CloseWindow, User, Input, Handle, Begin, Left
  <2>2. LogOK(Begin(app, posts)) /\ Begin(app, posts).limit \in Nat
    BY <1>1 DEF Good, Calm, Listed, ListOK
  <2> QED
    BY <1>1, <1>2, <2>1, <2>2, ClearGood
<1>18. CASE OpenWindow
  <2>1. PICK posts : \/ app' = Left(finish_operation(opened(LogsBegun(Begin(app, posts)))))
                     \/ app' = Left(finish_operation(create_failed(LogsBegun(Begin(app, posts)))))
    BY <1>18 DEF OpenWindow, Input, Handle, logs_command, Begin, Left
  <2>2. Good(Begin(app, posts)) /\ Begin(app, posts).passes = 0 /\ ~Begin(app, posts).open
    BY <1>1, <1>18 DEF OpenWindow
  <2>3. CASE app' = Left(finish_operation(opened(LogsBegun(Begin(app, posts)))))
    BY <1>2, <2>2, <2>3, OpenedGood
  <2>4. CASE app' = Left(finish_operation(create_failed(LogsBegun(Begin(app, posts)))))
    BY <1>2, <2>2, <2>4, FailedGood
  <2> QED
    BY <2>1, <2>3, <2>4
<1>19. CASE NativeClick
  <2>1. PICK row \in DOMAIN app.shown :
            \/ User(LAMBDA w : Picked(w, (w.native \ {row}) \cup ({row} \ w.native)))
            \/ \E anchor \in 1..row, told \in BOOLEAN :
                  User(LAMBDA w : ShiftRange(w, anchor..row, told))
            \/ User(LAMBDA w : Picked(w, {}))
    BY <1>19 DEF NativeClick
  <2>2. PICK n \in Nat : DOMAIN app.shown = 1..n
    BY DEF WindowIInv, Good, Listed, ListOK, Distinct
  <2>3. \A posts :
            LET w == Begin(app, posts)
            IN  /\ Good(w) /\ w.passes = 0
                /\ (w.native \ {row}) \cup ({row} \ w.native) \subseteq DOMAIN w.shown
                /\ \A anchor \in 1..row : anchor..row \subseteq DOMAIN w.shown
                /\ {} \subseteq DOMAIN w.shown
    <3>1. \A anchor \in 1..row : anchor..row \subseteq DOMAIN app.shown
      BY <2>1, <2>2
    <3>2. \A posts : LET w == Begin(app, posts)
                     IN  w.native \subseteq DOMAIN w.shown /\ w.shown = app.shown
      BY <1>1 DEF Good, Listed, ListOK
    <3> QED
      BY <1>1, <2>1, <3>1, <3>2
  <2>4. CASE User(LAMBDA w : Picked(w, (w.native \ {row}) \cup ({row} \ w.native)))
    <3>1. PICK posts :
              LET w == Begin(app, posts)
              IN  app' = Left(Picked(w, (w.native \ {row}) \cup ({row} \ w.native)))
      BY <2>4 DEF User, Input, Handle, Begin, Left
    <3> QED
      BY <1>2, <2>3, <3>1, PickedGood
  <2>5. CASE \E anchor \in 1..row, told \in BOOLEAN :
                 User(LAMBDA w : ShiftRange(w, anchor..row, told))
    <3>1. PICK anchor \in 1..row, told \in BOOLEAN :
              User(LAMBDA w : ShiftRange(w, anchor..row, told))
      BY <2>5
    <3>2. PICK posts :
              app' = Left(ShiftRange(Begin(app, posts), anchor..row, told))
      BY <3>1 DEF User, Input, Handle, Begin, Left
    <3> QED
      BY <1>2, <2>3, <3>1, <3>2, ShiftRangeGood
  <2>6. CASE User(LAMBDA w : Picked(w, {}))
    <3>1. PICK posts : app' = Left(Picked(Begin(app, posts), {}))
      BY <2>6 DEF User, Input, Handle, Begin, Left
    <3> QED
      BY <1>2, <2>3, <3>1, PickedGood
  <2> QED
    BY <2>1, <2>4, <2>5, <2>6
<1>20. CASE select_all_diagnostic_rows
  <2>1. PICK posts : app' = Left(Picked(Begin(app, posts), DOMAIN Begin(app, posts).shown))
    BY <1>20 DEF select_all_diagnostic_rows, User, Input, Handle, Begin, Left
  <2> QED
    BY <1>1, <1>2, <2>1, PickedGood
<1>21. CASE ButtonDown
  <2>1. PICK row, held, posts :
            /\ row \in DOMAIN app.shown /\ held \in BOOLEAN
            /\ app' = Left(handle_marquee_lbuttondown(Begin(app, posts), row, held))
    BY <1>21 DEF ButtonDown, User, Input, Handle, Begin, Left
  <2>2. row \in DOMAIN Begin(app, posts).shown /\ held \in BOOLEAN
    BY <1>1, <2>1
  <2> QED
    BY <1>1, <1>2, <2>1, <2>2, ButtonGood
<1>22. CASE RefreshMessage
  BY <1>22, MessageKeeps
<1>23. CASE UNCHANGED windowVars
  BY <1>23 DEF windowVars, WindowIInv
<1> QED
  BY <1>3, <1>4, <1>5, <1>6, <1>7, <1>8, <1>9, <1>10, <1>11, <1>12, <1>13,
     <1>14, <1>15, <1>16, <1>17, <1>18, <1>19, <1>20, <1>21, <1>22, <1>23
     DEF WindowNext

(* The inductive invariant always holds.                                   *)
LEMMA WindowInvariant == WindowSpec => []WindowIInv
  BY WindowStarts, HandlersKeep, PTL DEF WindowSpec

(* For every store size, limit and typed range: a refresh that is marked   *)
(* as coming has its message in the queue, one input causes at most four   *)
(* refreshes although each records events of its own, and when none is to  *)
(* come the list shows what filter, limit and newest event ask for         *)
(* (request_diagnostic_refresh, finish_diagnostic_refresh,                 *)
(* refresh_diagnostic_window).                                             *)
THEOREM RefreshesSettle == WindowSpec => []RefreshSettles
<1>1. WindowIInv => RefreshSettles
  <2> SUFFICES ASSUME WindowIInv PROVE RefreshSettles
    OBVIOUS
  <2>1. RefreshWillCome
    BY DEF RefreshWillCome, WindowIInv, Good, Calm, Ready
  <2>2. PassesBounded
    BY DEF PassesBounded, WindowIInv, Chain
  <2>3. DisplayIsCurrent
    BY DEF DisplayIsCurrent, WindowIInv, Good, Current, Shows
  <2> QED
    BY <2>1, <2>2, <2>3 DEF RefreshSettles
<1> QED
  BY <1>1, WindowInvariant, PTL

(* However events are evicted and rows move, a typed range stays on the    *)
(* events it named or is dropped, and every visible row of a selected      *)
(* event is marked (refresh_diagnostic_controls,                           *)
(* apply_diagnostic_grid_selection).                                       *)
THEOREM SelectionIsKept == WindowSpec => []SelectionKeepsEvents
<1>1. WindowIInv => SelectionKeepsEvents
  BY DEF SelectionKeepsEvents, RangeKeepsEvents, MarksCoverSelection, WindowIInv, Good,
     Listed, Marks, RangeKept
<1> QED
  BY <1>1, WindowInvariant, PTL

=============================================================================
