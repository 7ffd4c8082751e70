------------------------------- MODULE Events -------------------------------
(***************************************************************************)
(* The events the agent knows (events.c): how a name is resolved, how the  *)
(* supported ones are listed, and how the value of an event comes about:   *)
(* its backend decides which fields a snapshot (measure.c) stores, its     *)
(* getters compute from a field.  Nothing but the table known_events keeps *)
(* the three together.                                                     *)
(*                                                                         *)
(* The build, the events PAPI has and what PAPI fails to say about them    *)
(* are chosen at the start and stay.  Names are compared without regard to *)
(* case, so the model has them in one case; the name of an event PAPI      *)
(* knows is a model value, with or without the prefix "PAPI:".  The        *)
(* factor 1000 of the time units is a constant.                            *)
(***************************************************************************)
EXTENDS Integers, Sequences, FiniteSets

CONSTANTS
  Presets,     \* PAPI preset events in the order PAPI enumerates them
  Components,  \* for each PAPI component its native events, in that order
  Strangers,   \* names nobody knows
  MaxBad,      \* bound on the events PAPI does not fully support
  MaxBadUsed,  \* the same for the builds in which an event set is made
  Kilo,        \* 1000
  Jumps,       \* by how much time passes in a step
  MaxTime      \* bound on the time

ASSUME EventsAssumption ==
  /\ Kilo \in Nat \ {0} /\ Jumps \subseteq Nat /\ MaxTime \in Nat

SeqRange(s) == {s[i] : i \in DOMAIN s}
PresetCodes == SeqRange(Presets)
NativeCodes == UNION {SeqRange(Components[c]) : c \in DOMAIN Components}
Codes == PresetCodes \cup NativeCodes

VARIABLES
  build,     \* which of HAS_PAPI and HAS_GETRUSAGE are defined
  named,     \* events whose name and code PAPI translates into each other
  described, \* events PAPI_get_event_info describes
  counted,   \* presets that can be counted on this machine
  pc,        \* what the calling thread is doing
  entry,     \* its position in known_events
  comp, pos, \* and in the list of a PAPI component, 0 for the presets
  list,      \* the names added to the list so far
  used,      \* used_events of the event set
  field,     \* the position in the order of fields
  start, end,  \* the two snapshots: when each field was read, Reading is its value
  now,       \* the time, which also stands for every counter
  system     \* how much of it the thread spent in the kernel

world == <<build, named, described, counted>>
listing == <<entry, comp, pos, list>>
measuring == <<used, field, start, end>>
time == <<now, system>>
vars == <<world, pc, listing, measuring, time>>

-----------------------------------------------------------------------------
Known(name, needs, obsolete, resolver, lister, backend, getter) ==
  [name |-> name, needs |-> needs, obsolete |-> obsolete, resolver |-> resolver,
   lister |-> lister, backend |-> backend, getter |-> getter]

LegacyWallclock_ThreadTime ==   \* variant
  Known("SYS_WALLCLOCK", "any", TRUE, "NULL", "NULL", "threadtime", "thread_time")

LegacyWallclock ==
  Known("SYS_WALLCLOCK", "any", TRUE, "NULL", "NULL", "wallclock", "wall_clock_time")

ThreadTimeRusage_WrongBackend ==   \* variant
  Known("SYS:thread-time-rusage", "rusage", FALSE, "NULL", "NULL", "threadtime",
        "thread_time_rusage")

ThreadTimeRusage ==
  Known("SYS:thread-time-rusage", "rusage", FALSE, "NULL", "NULL", "rusage",
        "thread_time_rusage")

(* The table for all builds, in its order; the terminating entry is left   *)
(* out.  "" stands for any name.                                           *)
all_known_events ==
  << Known("JVM_COMPILATIONS", "any", TRUE, "NULL", "NULL", "compilations", "jvm_compilations"),
     LegacyWallclock,
     Known("forced-context-switch", "rusage", TRUE, "NULL", "NULL", "rusage",
           "context_switch_forced"),
     Known("JVM:compilations", "any", FALSE, "NULL", "NULL", "compilations", "jvm_compilations"),
     Known("PAPI:", "papi", FALSE, "resolve_papi_event_with_prefix", "list_papi_events",
           "papi", "papi"),
     Known("SYS:forced-context-switches", "rusage", FALSE, "NULL", "NULL", "rusage",
           "context_switch_forced"),
     Known("SYS:thread-time", "any", FALSE, "NULL", "NULL", "threadtime", "thread_time"),
     ThreadTimeRusage,
     Known("SYS:wallclock-time", "any", FALSE, "NULL", "NULL", "wallclock", "wall_clock_time"),
     Known("", "papi", TRUE, "resolve_papi_event", "NULL", "papi", "papi") >>

(* The entries this build has, as positions in the table.                  *)
known_events ==
  {i \in DOMAIN all_known_events : all_known_events[i].needs \in build \cup {"any"}}

(* The first of some positions, or the one after the last.                 *)
First(S, after) == IF S = {} THEN after ELSE CHOOSE k \in S : \A m \in S : k <= m

EntryFrom(i) == First({k \in known_events : k >= i}, Len(all_known_events) + 1)

(* A name as Java gives it: with or without the prefix "PAPI:".            *)
Name(prefix, base) == [prefix |-> prefix, base |-> base]
KnownNames == {Name("", e.name) : e \in SeqRange(all_known_events)} \ {Name("", ""), Name("", "PAPI:")}
EventNames ==
  KnownNames \cup [prefix : {"", "PAPI:"}, base : Codes \cup Strangers]

(* PAPI has no event twice, and names none like an event of the table.     *)
ASSUME PapiAssumption ==
  /\ Presets \in Seq(PresetCodes) /\ Components \in Seq(Seq(NativeCodes))
  /\ \A i, k \in DOMAIN Presets : Presets[i] = Presets[k] => i = k
  /\ \A c, d \in DOMAIN Components :
       \A i \in DOMAIN Components[c], k \in DOMAIN Components[d] :
         Components[c][i] = Components[d][k] => c = d /\ i = k
  /\ PresetCodes \cap NativeCodes = {}
  /\ \A e \in SeqRange(all_known_events) : e.name \notin Codes

-----------------------------------------------------------------------------
NotFound == [backend |-> "none", getter |-> "none", id |-> "none"]
Info(e, id) == [backend |-> e.backend, getter |-> e.getter, id |-> id]

(* PAPI takes a name without the prefix; a preset that cannot be counted   *)
(* here is refused.                                                        *)
resolve_papi_event(n) ==
  /\ n.prefix = "" /\ n.base \in named \cap described
  /\ n.base \in PresetCodes => n.base \in counted

resolve_papi_event_with_prefix_Whole(n) == resolve_papi_event(n)   \* variant

resolve_papi_event_with_prefix(n) == resolve_papi_event(Name("", n.base))

Matches(e, n) ==
  CASE e.resolver = "NULL" -> n = Name("", e.name)
    [] e.resolver = "resolve_papi_event_with_prefix" ->
         n.prefix = "PAPI:" /\ resolve_papi_event_with_prefix(n)
    [] e.resolver = "resolve_papi_event" -> resolve_papi_event(n)

(* The first entry that matches, and whose resolver agrees, if it has one. *)
ubench_event_resolve(n) ==
  LET found == {i \in known_events : Matches(all_known_events[i], n)}
      e == all_known_events[First(found, 0)]
  IN  IF found = {} THEN NotFound
      ELSE Info(e, IF e.backend = "papi" THEN n.base ELSE "none")

isEventSupported(n) == ubench_event_resolve(n) # NotFound

-----------------------------------------------------------------------------
Backends == {"rusage", "compilations", "threadtime", "papi", "wallclock"}
Unset == -1   \* a field of a fresh buffer

(* A snapshot: a field for each backend, and the part of the rusage field  *)
(* that is system time.                                                    *)
Fields == Backends \cup {"system"}
NoFields == [b \in Fields |-> Unset]

Bad == Cardinality(Codes \ named) + Cardinality(Codes \ described)
         + Cardinality(PresetCodes \ counted)

Init ==
  /\ build \in SUBSET {"papi", "rusage"}
  /\ named \in SUBSET Codes /\ described \in SUBSET Codes /\ counted \in SUBSET PresetCodes
  /\ Bad <= MaxBad
  /\ "papi" \notin build => named = Codes /\ described = Codes /\ counted = PresetCodes
  /\ pc = "java"
  /\ entry = EntryFrom(1) /\ comp = 0 /\ pos = 1 /\ list = <<>>
  /\ used = {} /\ field = 1 /\ start = NoFields /\ end = NoFields
  /\ now = 0 /\ system = 0

(* getSupportedEvents; a JNI call that fails returns null instead.         *)
getSupportedEvents ==
  /\ pc = "java"
  /\ pc' = "iterate"
  /\ UNCHANGED <<world, listing, measuring, time>>

Current == all_known_events[entry]

(* One entry of ubench_event_iterate that has no lister; one with a        *)
(* resolver but no lister is skipped.                                      *)
ubench_event_iterate ==
  /\ pc = "iterate" /\ entry \in known_events
  /\ Current.obsolete \/ Current.lister = "NULL"
  /\ list' = IF Current.obsolete \/ Current.resolver # "NULL" THEN list
             ELSE Append(list, Name("", Current.name))
  /\ entry' = EntryFrom(entry + 1)
  /\ UNCHANGED <<world, pc, comp, pos, measuring, time>>

list_papi_events ==
  /\ pc = "iterate" /\ entry \in known_events
  /\ ~Current.obsolete /\ Current.lister = "list_papi_events"
  /\ pc' = "presets"
  /\ pos' = 1
  /\ UNCHANGED <<world, entry, comp, list, measuring, time>>

Available(i) == Presets[i] \in counted

(* PAPI_enum_event: the first preset of all, then the available ones.      *)
NextPreset(i) ==
  First({k \in i + 1 .. Len(Presets) : Available(k)}, Len(Presets) + 1)

Listed(c) == Append(list, Name("PAPI:", c))

ListPreset_Stays ==   \* variant
  LET c == Presets[pos]
      good == c \in named \cap described \cap counted
  IN  /\ pc = "presets" /\ pos <= Len(Presets)
      /\ list' = IF good THEN Listed(c) ELSE list
      /\ pos' = IF good THEN NextPreset(pos) ELSE pos
      /\ UNCHANGED <<world, pc, entry, comp, measuring, time>>

ListPreset_Stops ==   \* variant
  LET c == Presets[pos]
      good == c \in named \cap described \cap counted
  IN  /\ pc = "presets" /\ pos <= Len(Presets)
      /\ list' = IF good THEN Listed(c) ELSE list
      /\ pos' = IF good THEN NextPreset(pos) ELSE Len(Presets) + 1
      /\ UNCHANGED <<world, pc, entry, comp, measuring, time>>

(* An event that PAPI cannot name or describe, or not count, is skipped    *)
(* and the enumeration goes on.                                            *)
ListPreset ==
  LET c == Presets[pos]
  IN  /\ pc = "presets" /\ pos <= Len(Presets)
      /\ list' = IF c \in named \cap described \cap counted THEN Listed(c) ELSE list
      /\ pos' = NextPreset(pos)
      /\ UNCHANGED <<world, pc, entry, comp, measuring, time>>

PresetsDone ==
  /\ pc = "presets" /\ pos > Len(Presets)
  /\ pc' = "components" /\ comp' = 1 /\ pos' = 1
  /\ UNCHANGED <<world, entry, list, measuring, time>>

(* PAPI_enum_cmp_event and the body of its loop.                           *)
ListNative ==
  LET c == Components[comp][pos]
  IN  /\ pc = "components" /\ comp <= Len(Components) /\ pos <= Len(Components[comp])
      /\ list' = IF c \in named THEN Listed(c) ELSE list
      /\ pos' = pos + 1
      /\ UNCHANGED <<world, pc, entry, comp, measuring, time>>

ComponentDone ==
  /\ pc = "components" /\ comp <= Len(Components) /\ pos > Len(Components[comp])
  /\ comp' = comp + 1 /\ pos' = 1
  /\ UNCHANGED <<world, pc, entry, list, measuring, time>>

PapiDone ==
  /\ pc = "components" /\ comp > Len(Components)
  /\ pc' = "iterate" /\ entry' = EntryFrom(entry + 1) /\ comp' = 0 /\ pos' = 1
  /\ UNCHANGED <<world, list, measuring, time>>

ListReturned ==
  /\ pc = "iterate" /\ entry > Len(all_known_events)
  /\ pc' = "listed"
  /\ UNCHANGED <<world, listing, measuring, time>>

-----------------------------------------------------------------------------
(* An event set of some names; one that is not supported makes             *)
(* createEventSet throw.                                                   *)
Create(names) ==
  /\ pc = "java" /\ Bad <= MaxBadUsed
  /\ \A n \in names : isEventSupported(n)
  /\ used' = {ubench_event_resolve(n) : n \in names}
  /\ pc' = "start"
  /\ UNCHANGED <<world, listing, field, start, end, time>>

used_backends == {info.backend : info \in used}

(* The order in which do_snapshot reads, and the order of stop.            *)
StartOrder == <<"rusage", "compilations", "threadtime", "papi", "wallclock">>

StopOrder_AsStart == StartOrder   \* variant

StopOrder == <<"wallclock", "papi", "threadtime", "compilations", "rusage">>

Second == Kilo * Kilo * Kilo   \* in nanoseconds
Timespec(t) == [tv_sec |-> t \div Second, tv_nsec |-> t % Second]
Timeval(t) == [tv_sec |-> t \div Second, tv_usec |-> (t % Second) \div Kilo]

(* What a backend stored in a snapshot: the time in its units, or a        *)
(* counter.  getrusage tells user and system time, each to the microsecond.*)
Reading(b, s) ==
  CASE b \in {"wallclock", "threadtime"} -> Timespec(s[b])
    [] b = "rusage" -> [ru_utime |-> Timeval(s[b] - s["system"]),
                        ru_stime |-> Timeval(s["system"]), ru_nivcsw |-> s[b]]
    [] b \in {"compilations", "papi"} -> s[b]

(* A field is stored when one of the events is of its backend.             *)
Stored(snapshot, b) ==
  IF b \in used_backends
  THEN [snapshot EXCEPT ![b] = now, !["system"] = IF b = "rusage" THEN system ELSE @]
  ELSE snapshot

ubench_measure_start ==
  /\ pc = "start" /\ field <= Len(StartOrder)
  /\ start' = Stored(start, StartOrder[field])
  /\ field' = field + 1
  /\ UNCHANGED <<world, pc, listing, used, end, time>>

(* start has returned, the measured code runs, stop is called.             *)
StopCalled ==
  /\ pc = "start" /\ field > Len(StartOrder)
  /\ pc' = "stop" /\ field' = 1
  /\ UNCHANGED <<world, listing, used, start, end, time>>

ubench_measure_stop ==
  /\ pc = "stop" /\ field <= Len(StopOrder)
  /\ end' = Stored(end, StopOrder[field])
  /\ field' = field + 1
  /\ UNCHANGED <<world, pc, listing, used, start, time>>

StopReturned ==
  /\ pc = "stop" /\ field > Len(StopOrder)
  /\ pc' = "measured"
  /\ UNCHANGED <<world, listing, measuring, time>>

Tick(d, inKernel) ==
  /\ pc \in {"start", "stop"} /\ now + d <= MaxTime
  /\ now' = now + d
  /\ system' = IF inKernel THEN system + d ELSE system
  /\ UNCHANGED <<world, pc, listing, measuring>>

ListStep ==
  \/ ubench_event_iterate \/ list_papi_events
  \/ ListPreset \/ PresetsDone
  \/ ListNative \/ ComponentDone \/ PapiDone
  \/ ListReturned

MeasureStep ==
  \/ ubench_measure_start \/ StopCalled
  \/ ubench_measure_stop \/ StopReturned

Next ==
  \/ getSupportedEvents
  \/ \E m, n \in EventNames : Create({m, n})
  \/ ListStep
  \/ MeasureStep
  \/ \E d \in Jumps, inKernel \in BOOLEAN : Tick(d, inKernel)

(* A native method that was entered runs until it returns.                 *)
Spec == Init /\ [][Next]_vars /\ WF_vars(ListStep)

-----------------------------------------------------------------------------
(* The getters, of the difference of two snapshots and of one.             *)
timespec_diff_ns(a, b) ==
  (b.tv_sec - a.tv_sec) * Kilo * Kilo * Kilo + (b.tv_nsec - a.tv_nsec)

timeval_diff_us(a, b) ==
  (b.tv_sec - a.tv_sec) * Kilo * Kilo + (b.tv_usec - a.tv_usec)

TIMESPEC_TO_NANOS(t) == t.tv_sec * Kilo * Kilo * Kilo + t.tv_nsec
TIMEVAL_TO_MICROS(t) == t.tv_sec * Kilo * Kilo + t.tv_usec

(* The field a getter reads.                                               *)
Reads(getter) ==
  CASE getter = "wall_clock_time" -> "wallclock"
    [] getter = "thread_time" -> "threadtime"
    [] getter \in {"context_switch_forced", "thread_time_rusage"} -> "rusage"
    [] getter = "jvm_compilations" -> "compilations"
    [] getter = "papi" -> "papi"

op_get(getter, s, e) ==
  LET b == Reads(getter)
      v == Reading(b, s)
      w == Reading(b, e)
  IN  CASE getter \in {"wall_clock_time", "thread_time"} -> timespec_diff_ns(v, w)
        [] getter = "thread_time_rusage" ->
             (timeval_diff_us(v.ru_utime, w.ru_utime)
                + timeval_diff_us(v.ru_stime, w.ru_stime)) * Kilo
        [] getter = "context_switch_forced" -> w.ru_nivcsw - v.ru_nivcsw
        [] getter \in {"jvm_compilations", "papi"} -> w - v

op_get_raw(getter, s) ==
  LET b == Reads(getter)
      v == Reading(b, s)
  IN  CASE getter \in {"wall_clock_time", "thread_time"} -> TIMESPEC_TO_NANOS(v)
        [] getter = "thread_time_rusage" ->
             (TIMEVAL_TO_MICROS(v.ru_utime) + TIMEVAL_TO_MICROS(v.ru_stime)) * Kilo
        [] getter = "context_switch_forced" -> v.ru_nivcsw
        [] getter \in {"jvm_compilations", "papi"} -> v

-----------------------------------------------------------------------------
(* The names getSupportedEvents should return.                             *)
SupportedNames ==
  {Name("", all_known_events[i].name) :
     i \in {k \in known_events : ~all_known_events[k].obsolete
                                /\ all_known_events[k].lister = "NULL"}}
  \cup (IF "papi" \in build
        THEN {Name("PAPI:", c) : c \in (named \cap described) \ (PresetCodes \ counted)}
        ELSE {})

(* Native events that PAPI names and does not describe: the loop over the  *)
(* components lists them, resolve_papi_event refuses them.                 *)
UnusableNames ==
  IF "papi" \in build
  THEN {Name("PAPI:", c) : c \in (NativeCodes \cap named) \ described} ELSE {}

(* The list holds every supported event once and none under an old name,   *)
(* whichever events PAPI has and fails to name or describe; beyond them it *)
(* holds the unusable native events and nothing else.                      *)
ListIsComplete ==
  pc = "listed" =>
    /\ SeqRange(list) = SupportedNames \cup UnusableNames
    /\ Cardinality(SeqRange(list)) = Len(list)

(* Every name on the list, the unusable ones aside, is accepted by         *)
(* createEventSet and stands for the event it was listed for.              *)
ListedMeansItself ==
  \A i \in DOMAIN list :
    LET n == list[i]
        info == ubench_event_resolve(n)
    IN  \/ n \in UnusableNames /\ info = NotFound
        \/ /\ n \notin UnusableNames /\ info # NotFound
           /\ n.prefix = "PAPI:" <=> info.backend = "papi"
           /\ n.prefix = "PAPI:" => info.id = n.base

(* "Get list of events supported on current platform": every name          *)
(* getSupportedEvents returns is accepted by isEventSupported.             *)
ListedIsSupported == pc = "listed" => \A i \in DOMAIN list : isEventSupported(list[i])

(* What an old name is called now.                                         *)
NewName(n) ==
  CASE n = Name("", "JVM_COMPILATIONS") -> Name("", "JVM:compilations")
    [] n = Name("", "SYS_WALLCLOCK") -> Name("", "SYS:wallclock-time")
    [] n = Name("", "forced-context-switch") -> Name("", "SYS:forced-context-switches")
    [] OTHER -> Name("PAPI:", n.base)

(* Besides the names on the list only the old ones are supported, and each *)
(* means the same event as its new name.                                   *)
OldNamesAgree ==
  pc = "java" => \A n \in EventNames \ SupportedNames :
    isEventSupported(n) =>
      /\ NewName(n) \in SupportedNames
      /\ ubench_event_resolve(n) = ubench_event_resolve(NewName(n))

(* For every event of the event set both snapshots hold the field that its *)
(* getter reads, the value is the time, or count, between the two readings *)
(* (for getrusage, which cuts user and system time off separately, to less *)
(* than two microseconds), and it is the difference of the raw values.     *)
ValuesAreRight ==
  pc = "measured" => \A info \in used :
    LET g == info.getter
        b == Reads(g)
        passed == end[b] - start[b]
    IN  IF start[b] = Unset \/ end[b] = Unset THEN FALSE
        ELSE /\ op_get(g, start, end) = op_get_raw(g, end) - op_get_raw(g, start)
             /\ IF g = "thread_time_rusage"
                THEN /\ op_get(g, start, end) > passed - 2 * Kilo
                     /\ op_get(g, start, end) < passed + 2 * Kilo
                ELSE op_get(g, start, end) = passed

(* stop reads in the reverse of the order of start, so the measurement of  *)
(* a backend that start reads earlier contains that of a later one, and    *)
(* the wall clock counts the reading of no other.                          *)
IntervalsNest ==
  pc = "measured" => \A i, k \in DOMAIN StartOrder :
    LET b == StartOrder[i]
        c == StartOrder[k]
    IN  i < k /\ {b, c} \subseteq used_backends =>
          start[b] <= start[c] /\ end[c] <= end[b]

(* getSupportedEvents returns.                                             *)
ListingEnds == (pc = "iterate") ~> (pc = "listed")
=============================================================================
