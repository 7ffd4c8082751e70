---------------------------- MODULE Events_proof ----------------------------
(***************************************************************************)
(* Proofs about Events, for every build, every set of events PAPI has or   *)
(* fails to support, and every length of a second.                         *)
(***************************************************************************)
EXTENDS Events, FiniteSetTheorems, WellFoundedInduction, TLAPS

(***************************************************************************)
(* The table known_events.                                                 *)
(***************************************************************************)
table == all_known_events

(* What the entries have in common: the field the getter reads is the one  *)
(* the backend stores, and an entry without a resolver has a name of its   *)
(* own.  The entry of PAPI is the fifth, the entry for any name the last.  *)
Getters == {"wall_clock_time", "thread_time", "context_switch_forced", "thread_time_rusage",
            "jvm_compilations", "papi"}

RowIs(i, name, needs, resolver, lister, backend, getter) ==
  /\ table[i].name = name /\ table[i].needs = needs /\ table[i].resolver = resolver
  /\ table[i].lister = lister /\ table[i].backend = backend /\ table[i].getter = getter

LEMMA KnownRow ==
  ASSUME NEW i, NEW n, NEW d, NEW o, NEW r, NEW l, NEW b, NEW g, table[i] = Known(n, d, o, r, l, b, g)
  PROVE  RowIs(i, n, d, r, l, b, g)
BY DEF Known, RowIs

LEMMA ObsoleteRow ==
  ASSUME NEW i, NEW n, NEW d, NEW r, NEW l, NEW b, NEW g
  PROVE  /\ table[i] = Known(n, d, TRUE, r, l, b, g) => table[i].obsolete
         /\ table[i] = Known(n, d, FALSE, r, l, b, g) => ~table[i].obsolete
BY DEF Known

LEMMA TableRows ==
  /\ DOMAIN table = 1 .. 10 /\ Len(table) = 10
  /\ RowIs(1, "JVM_COMPILATIONS", "any", "NULL", "NULL", "compilations", "jvm_compilations")
  /\ table[1].obsolete
  /\ RowIs(2, "SYS_WALLCLOCK", "any", "NULL", "NULL", "wallclock", "wall_clock_time")
  /\ table[2].obsolete
  /\ RowIs(3, "forced-context-switch", "rusage", "NULL", "NULL", "rusage", "context_switch_forced")
  /\ table[3].obsolete
  /\ RowIs(4, "JVM:compilations", "any", "NULL", "NULL", "compilations", "jvm_compilations")
  /\ ~table[4].obsolete
  /\ RowIs(5, "PAPI:", "papi", "resolve_papi_event_with_prefix", "list_papi_events", "papi", "papi")
  /\ ~table[5].obsolete
  /\ RowIs(6, "SYS:forced-context-switches", "rusage", "NULL", "NULL", "rusage", "context_switch_forced")
  /\ ~table[6].obsolete
  /\ RowIs(7, "SYS:thread-time", "any", "NULL", "NULL", "threadtime", "thread_time")
  /\ ~table[7].obsolete
  /\ RowIs(8, "SYS:thread-time-rusage", "rusage", "NULL", "NULL", "rusage", "thread_time_rusage")
  /\ ~table[8].obsolete
  /\ RowIs(9, "SYS:wallclock-time", "any", "NULL", "NULL", "wallclock", "wall_clock_time")
  /\ ~table[9].obsolete
  /\ RowIs(10, "", "papi", "resolve_papi_event", "NULL", "papi", "papi")
  /\ table[10].obsolete
<1>1. DOMAIN table = 1 .. 10 /\ Len(table) = 10
  BY DEF table, all_known_events
<1>2. RowIs(1, "JVM_COMPILATIONS", "any", "NULL", "NULL", "compilations", "jvm_compilations")
      /\ table[1].obsolete
  <2>1. table[1] = Known("JVM_COMPILATIONS", "any", TRUE, "NULL", "NULL", "compilations", "jvm_compilations")
    BY DEF table, all_known_events
  <2> QED
    BY <2>1, KnownRow, ObsoleteRow
<1>3. RowIs(2, "SYS_WALLCLOCK", "any", "NULL", "NULL", "wallclock", "wall_clock_time")
      /\ table[2].obsolete
  <2>1. table[2] = Known("SYS_WALLCLOCK", "any", TRUE, "NULL", "NULL", "wallclock", "wall_clock_time")
    BY DEF table, all_known_events, LegacyWallclock
  <2> QED
    BY <2>1, KnownRow, ObsoleteRow
<1>4. RowIs(3, "forced-context-switch", "rusage", "NULL", "NULL", "rusage", "context_switch_forced")
      /\ table[3].obsolete
  <2>1. table[3] = Known("forced-context-switch", "rusage", TRUE, "NULL", "NULL", "rusage", "context_switch_forced")
    BY DEF table, all_known_events
  <2> QED
    BY <2>1, KnownRow, ObsoleteRow
<1>5. RowIs(4, "JVM:compilations", "any", "NULL", "NULL", "compilations", "jvm_compilations")
      /\ ~table[4].obsolete
  <2>1. table[4] = Known("JVM:compilations", "any", FALSE, "NULL", "NULL", "compilations", "jvm_compilations")
    BY DEF table, all_known_events
  <2> QED
    BY <2>1, KnownRow, ObsoleteRow
<1>6. RowIs(5, "PAPI:", "papi", "resolve_papi_event_with_prefix", "list_papi_events", "papi", "papi")
      /\ ~table[5].obsolete
  <2>1. table[5] = Known("PAPI:", "papi", FALSE, "resolve_papi_event_with_prefix", "list_papi_events", "papi", "papi")
    BY DEF table, all_known_events
  <2> QED
    BY <2>1, KnownRow, ObsoleteRow
<1>7. RowIs(6, "SYS:forced-context-switches", "rusage", "NULL", "NULL", "rusage", "context_switch_forced")
      /\ ~table[6].obsolete
  <2>1. table[6] = Known("SYS:forced-context-switches", "rusage", FALSE, "NULL", "NULL", "rusage", "context_switch_forced")
    BY DEF table, all_known_events
  <2> QED
    BY <2>1, KnownRow, ObsoleteRow
<1>8. RowIs(7, "SYS:thread-time", "any", "NULL", "NULL", "threadtime", "thread_time")
      /\ ~table[7].obsolete
  <2>1. table[7] = Known("SYS:thread-time", "any", FALSE, "NULL", "NULL", "threadtime", "thread_time")
    BY DEF table, all_known_events
  <2> QED
    BY <2>1, KnownRow, ObsoleteRow
<1>9. RowIs(8, "SYS:thread-time-rusage", "rusage", "NULL", "NULL", "rusage", "thread_time_rusage")
      /\ ~table[8].obsolete
  <2>1. table[8] = Known("SYS:thread-time-rusage", "rusage", FALSE, "NULL", "NULL", "rusage", "thread_time_rusage")
    BY DEF table, all_known_events, ThreadTimeRusage
  <2> QED
    BY <2>1, KnownRow, ObsoleteRow
<1>10. RowIs(9, "SYS:wallclock-time", "any", "NULL", "NULL", "wallclock", "wall_clock_time")
      /\ ~table[9].obsolete
  <2>1. table[9] = Known("SYS:wallclock-time", "any", FALSE, "NULL", "NULL", "wallclock", "wall_clock_time")
    BY DEF table, all_known_events
  <2> QED
    BY <2>1, KnownRow, ObsoleteRow
<1>11. RowIs(10, "", "papi", "resolve_papi_event", "NULL", "papi", "papi")
      /\ table[10].obsolete
  <2>1. table[10] = Known("", "papi", TRUE, "resolve_papi_event", "NULL", "papi", "papi")
    BY DEF table, all_known_events
  <2> QED
    BY <2>1, KnownRow, ObsoleteRow
<1> QED
  BY <1>1, <1>2, <1>3, <1>4, <1>5, <1>6, <1>7, <1>8, <1>9, <1>10, <1>11

LEMMA TenRows == \A i \in 1 .. 10 : i \in {1, 2, 3, 4, 5, 6, 7, 8, 9, 10}
OBVIOUS

LEMMA TableBackends ==
  ASSUME NEW i \in 1 .. 10
  PROVE  /\ table[i].backend \in Backends /\ table[i].getter \in Getters
         /\ Reads(table[i].getter) = table[i].backend
         /\ (table[i].backend = "papi") <=> (i \in {5, 10})
<1>1. /\ table[1].backend = "compilations" /\ table[2].backend = "wallclock"
      /\ table[3].backend = "rusage" /\ table[4].backend = "compilations"
      /\ table[5].backend = "papi" /\ table[6].backend = "rusage"
      /\ table[7].backend = "threadtime" /\ table[8].backend = "rusage"
      /\ table[9].backend = "wallclock" /\ table[10].backend = "papi"
  BY TableRows, Zenon DEF RowIs
<1>2. /\ table[1].getter = "jvm_compilations" /\ table[2].getter = "wall_clock_time"
      /\ table[3].getter = "context_switch_forced" /\ table[4].getter = "jvm_compilations"
      /\ table[5].getter = "papi" /\ table[6].getter = "context_switch_forced"
      /\ table[7].getter = "thread_time" /\ table[8].getter = "thread_time_rusage"
      /\ table[9].getter = "wall_clock_time" /\ table[10].getter = "papi"
  BY TableRows, Zenon DEF RowIs
<1>3. (table[i].backend = "papi") <=> (i \in {5, 10})
  BY <1>1, TenRows
<1>4. table[i].backend \in Backends /\ table[i].getter \in Getters
  BY <1>1, <1>2, TenRows DEF Backends, Getters
<1>5. Reads(table[i].getter) = table[i].backend
  BY <1>1, <1>2, TenRows DEF Reads
<1> QED
  BY <1>3, <1>4, <1>5

LEMMA TableResolvers ==
  ASSUME NEW i \in 1 .. 10
  PROVE  /\ table[i].resolver = IF i = 5 THEN "resolve_papi_event_with_prefix"
                                ELSE IF i = 10 THEN "resolve_papi_event" ELSE "NULL"
         /\ table[i].lister = IF i = 5 THEN "list_papi_events" ELSE "NULL"
         /\ table[i].needs = IF i \in {5, 10} THEN "papi"
                             ELSE IF i \in {3, 6, 8} THEN "rusage" ELSE "any"
<1>1. /\ table[1].resolver = "NULL" /\ table[2].resolver = "NULL"
      /\ table[3].resolver = "NULL" /\ table[4].resolver = "NULL"
      /\ table[5].resolver = "resolve_papi_event_with_prefix" /\ table[6].resolver = "NULL"
      /\ table[7].resolver = "NULL" /\ table[8].resolver = "NULL"
      /\ table[9].resolver = "NULL" /\ table[10].resolver = "resolve_papi_event"
  BY TableRows, Zenon DEF RowIs
<1>2. /\ table[1].lister = "NULL" /\ table[2].lister = "NULL"
      /\ table[3].lister = "NULL" /\ table[4].lister = "NULL"
      /\ table[5].lister = "list_papi_events" /\ table[6].lister = "NULL"
      /\ table[7].lister = "NULL" /\ table[8].lister = "NULL"
      /\ table[9].lister = "NULL" /\ table[10].lister = "NULL"
  BY TableRows, Zenon DEF RowIs
<1>3. /\ table[1].needs = "any" /\ table[2].needs = "any"
      /\ table[3].needs = "rusage" /\ table[4].needs = "any"
      /\ table[5].needs = "papi" /\ table[6].needs = "rusage"
      /\ table[7].needs = "any" /\ table[8].needs = "rusage"
      /\ table[9].needs = "any" /\ table[10].needs = "papi"
  BY TableRows, Zenon DEF RowIs
<1> QED
  BY <1>1, <1>2, <1>3, TenRows

LEMMA TableObsolete ==
  ASSUME NEW i \in 1 .. 10
  PROVE  table[i].obsolete <=> i \in {1, 2, 3, 10}
BY TenRows, TableRows

LEMMA TableNames ==
  ASSUME NEW i \in 1 .. 10, NEW k \in 1 .. 10, table[i].name = table[k].name
  PROVE  i = k
<1>1. /\ table[1].name = "JVM_COMPILATIONS" /\ table[2].name = "SYS_WALLCLOCK"
      /\ table[3].name = "forced-context-switch" /\ table[4].name = "JVM:compilations"
      /\ table[5].name = "PAPI:" /\ table[6].name = "SYS:forced-context-switches"
      /\ table[7].name = "SYS:thread-time" /\ table[8].name = "SYS:thread-time-rusage"
      /\ table[9].name = "SYS:wallclock-time" /\ table[10].name = ""
  BY TableRows, Zenon DEF RowIs
<1> QED
  BY <1>1, TenRows

(***************************************************************************)
(* The arithmetic of the getters.                                          *)
(***************************************************************************)
LEMMA DivMod ==
  ASSUME NEW t \in Nat, NEW n \in Nat \ {0}
  PROVE  /\ t \div n \in Nat /\ t % n \in 0 .. n - 1
         /\ (t \div n) * n + (t % n) = t
OBVIOUS

LEMMA SecondType == Second \in Nat \ {0} /\ Kilo \in Nat \ {0} /\ Kilo * Kilo \in Nat
<1>1. Kilo \in Nat \ {0}
  BY EventsAssumption
<1>2. \A x, y \in Nat \ {0} : x * y \in Nat \ {0}
  OBVIOUS
<1> QED
  BY <1>1, <1>2 DEF Second

(* A struct timespec holds the time.                                       *)
LEMMA TimespecHolds ==
  ASSUME NEW t \in Nat
  PROVE  /\ Timespec(t).tv_sec \in Nat /\ Timespec(t).tv_nsec \in Nat
         /\ Timespec(t).tv_sec * Second + Timespec(t).tv_nsec = t
BY DivMod, SecondType DEF Timespec

(* A struct timeval holds it to the microsecond.                           *)
LEMMA TimevalHolds ==
  ASSUME NEW t \in Nat
  PROVE  /\ Timeval(t).tv_sec \in Nat /\ Timeval(t).tv_usec \in Nat
         /\ Timeval(t).tv_sec * Second + Timeval(t).tv_usec * Kilo <= t
         /\ t < Timeval(t).tv_sec * Second + Timeval(t).tv_usec * Kilo + Kilo
<1> DEFINE x == t \div Second
           r == t % Second
           u == r \div Kilo
           v == r % Kilo
<1>1. x \in Nat /\ r \in Nat /\ x * Second + r = t
  BY DivMod, SecondType
<1>2. u \in Nat /\ v \in 0 .. Kilo - 1 /\ u * Kilo + v = r
  BY DivMod, SecondType, <1>1
<1>3. Timeval(t).tv_sec = x /\ Timeval(t).tv_usec = u
  BY DEF Timeval
<1> HIDE DEF x, r, u, v
<1>4. x * Second \in Nat /\ u * Kilo \in Nat
  BY <1>1, <1>2, SecondType
<1> QED
  BY <1>1, <1>2, <1>3, <1>4, SecondType

(* What ValuesAreRight says of one getter and two snapshots.               *)
ValueRight(g, s, e) ==
  LET b == Reads(g)
      passed == e[b] - s[b]
  IN  /\ op_get(g, s, e) = op_get_raw(g, e) - op_get_raw(g, s)
      /\ IF g = "thread_time_rusage"
         THEN /\ op_get(g, s, e) > passed - 2 * Kilo
              /\ op_get(g, s, e) < passed + 2 * Kilo
         ELSE op_get(g, s, e) = passed

LEMMA TimespecDiff ==
  ASSUME NEW t \in Nat, NEW u \in Nat
  PROVE  /\ timespec_diff_ns(Timespec(t), Timespec(u)) = u - t
         /\ TIMESPEC_TO_NANOS(Timespec(t)) = t
<1> DEFINE a == Timespec(t).tv_sec
           b == Timespec(u).tv_sec
           c == Timespec(t).tv_nsec
           d == Timespec(u).tv_nsec
<1>1. a \in Nat /\ b \in Nat /\ c \in Nat /\ d \in Nat /\ a * Second + c = t /\ b * Second + d = u
  BY TimespecHolds
<1>2. /\ timespec_diff_ns(Timespec(t), Timespec(u)) = (b - a) * Kilo * Kilo * Kilo + (d - c)
      /\ TIMESPEC_TO_NANOS(Timespec(t)) = a * Kilo * Kilo * Kilo + c
  BY DEF timespec_diff_ns, TIMESPEC_TO_NANOS
<1> HIDE DEF a, b, c, d
<1>3. \A x \in Int : x * Kilo * Kilo * Kilo = x * Second
  BY SecondType DEF Second
<1>4. (b - a) * Second = b * Second - a * Second
  BY <1>1, SecondType
<1> QED
  BY <1>1, <1>2, <1>3, <1>4, SecondType

LEMMA TimevalDiff ==
  ASSUME NEW t \in Nat, NEW u \in Nat
  PROVE  LET D == timeval_diff_us(Timeval(t), Timeval(u)) * Kilo
             T == TIMEVAL_TO_MICROS(Timeval(t)) * Kilo
             U == TIMEVAL_TO_MICROS(Timeval(u)) * Kilo
         IN  /\ timeval_diff_us(Timeval(t), Timeval(u)) \in Int
             /\ TIMEVAL_TO_MICROS(Timeval(t)) \in Int
             /\ D \in Int /\ T \in Int /\ U \in Int
             /\ D = U - T /\ D > u - t - Kilo /\ D < u - t + Kilo
<1> DEFINE a == Timeval(t).tv_sec
           b == Timeval(u).tv_sec
           c == Timeval(t).tv_usec
           d == Timeval(u).tv_usec
           M == Kilo * Kilo
<1>1. /\ a \in Nat /\ c \in Nat /\ a * Second + c * Kilo <= t /\ t < a * Second + c * Kilo + Kilo
      /\ b \in Nat /\ d \in Nat /\ b * Second + d * Kilo <= u /\ u < b * Second + d * Kilo + Kilo
  BY TimevalHolds
<1>2. /\ timeval_diff_us(Timeval(t), Timeval(u)) = (b - a) * Kilo * Kilo + (d - c)
      /\ TIMEVAL_TO_MICROS(Timeval(t)) = a * Kilo * Kilo + c
      /\ TIMEVAL_TO_MICROS(Timeval(u)) = b * Kilo * Kilo + d
  BY DEF timeval_diff_us, TIMEVAL_TO_MICROS
<1>3. M \in Nat /\ Kilo \in Nat /\ M * Kilo = Second
  BY SecondType DEF Second
<1>4. \A x \in Int : x * Kilo * Kilo = x * M
  BY SecondType
<1> HIDE DEF a, b, c, d, M
<1>5. \A x, y \in Int : x * M + y \in Int /\ (x * M + y) * Kilo = x * Second + y * Kilo
  <2>1. \A x, y, m, k \in Int : x * m + y \in Int /\ (x * m + y) * k = x * (m * k) + y * k
    OBVIOUS
  <2> QED
    BY <2>1, <1>3
<1>6. (b - a) * Second = b * Second - a * Second /\ (d - c) * Kilo = d * Kilo - c * Kilo
  BY <1>1, <1>3, SecondType
<1>7. a * Second \in Int /\ b * Second \in Int /\ c * Kilo \in Int /\ d * Kilo \in Int
  BY <1>1, <1>3, SecondType
<1>8. a \in Int /\ b \in Int /\ c \in Int /\ d \in Int /\ b - a \in Int /\ d - c \in Int
  BY <1>1
<1>9. /\ timeval_diff_us(Timeval(t), Timeval(u)) = (b - a) * M + (d - c)
      /\ TIMEVAL_TO_MICROS(Timeval(t)) = a * M + c
      /\ TIMEVAL_TO_MICROS(Timeval(u)) = b * M + d
  BY <1>2, <1>4, <1>8
<1>10. /\ timeval_diff_us(Timeval(t), Timeval(u)) \in Int
       /\ TIMEVAL_TO_MICROS(Timeval(t)) \in Int
       /\ timeval_diff_us(Timeval(t), Timeval(u)) * Kilo = (b - a) * Second + (d - c) * Kilo
       /\ TIMEVAL_TO_MICROS(Timeval(t)) * Kilo = a * Second + c * Kilo
       /\ TIMEVAL_TO_MICROS(Timeval(u)) * Kilo = b * Second + d * Kilo
  BY <1>5, <1>8, <1>9
<1> QED
  BY <1>1, <1>3, <1>6, <1>7, <1>10

(* A snapshot whose rusage field was read has its system part, too.        *)
SystemPart(s) == s["system"] \in 0 .. s["rusage"]

LEMMA GetterRight ==
  ASSUME NEW g \in Getters, NEW s, NEW e, s[Reads(g)] \in Nat, e[Reads(g)] \in Nat,
         Reads(g) = "rusage" => SystemPart(s) /\ SystemPart(e)
  PROVE  ValueRight(g, s, e)
<1> DEFINE t == s[Reads(g)]
           u == e[Reads(g)]
<1>1. CASE g \in {"wall_clock_time", "thread_time"}
  <2>1. Reading(Reads(g), s) = Timespec(t) /\ Reading(Reads(g), e) = Timespec(u)
    BY <1>1 DEF Reading, Reads
  <2>2. /\ op_get(g, s, e) = timespec_diff_ns(Timespec(t), Timespec(u))
        /\ op_get_raw(g, s) = TIMESPEC_TO_NANOS(Timespec(t))
        /\ op_get_raw(g, e) = TIMESPEC_TO_NANOS(Timespec(u))
    BY <1>1, <2>1 DEF op_get, op_get_raw
  <2>3. g # "thread_time_rusage"
    BY <1>1
  <2> QED
    BY <2>2, <2>3, TimespecDiff DEF ValueRight
<1>2. CASE g = "thread_time_rusage"
  <2> DEFINE p == s["system"]
             q == e["system"]
             D == timeval_diff_us(Timeval(t - p), Timeval(u - q))
             T == TIMEVAL_TO_MICROS(Timeval(t - p))
             U == TIMEVAL_TO_MICROS(Timeval(u - q))
             E == timeval_diff_us(Timeval(p), Timeval(q))
             P == TIMEVAL_TO_MICROS(Timeval(p))
             Q == TIMEVAL_TO_MICROS(Timeval(q))
  <2>1. /\ Reads(g) = "rusage" /\ t \in Nat /\ u \in Nat
        /\ p \in Nat /\ q \in Nat /\ t - p \in Nat /\ u - q \in Nat
    BY <1>2 DEF Reads, SystemPart
  <2>2. /\ Reading(Reads(g), s) =
             [ru_utime |-> Timeval(t - p), ru_stime |-> Timeval(p), ru_nivcsw |-> t]
        /\ Reading(Reads(g), e) =
             [ru_utime |-> Timeval(u - q), ru_stime |-> Timeval(q), ru_nivcsw |-> u]
    BY <2>1 DEF Reading
  <2>3. /\ op_get(g, s, e) = (D + E) * Kilo
        /\ op_get_raw(g, s) = (T + P) * Kilo
        /\ op_get_raw(g, e) = (U + Q) * Kilo
    BY <1>2, <2>2 DEF op_get, op_get_raw
  <2>4. /\ D \in Int /\ T \in Int /\ U \in Int /\ D * Kilo = U * Kilo - T * Kilo
        /\ D * Kilo > (u - q) - (t - p) - Kilo /\ D * Kilo < (u - q) - (t - p) + Kilo
    BY <2>1, TimevalDiff
  <2>5. /\ E \in Int /\ P \in Int /\ Q \in Int /\ E * Kilo = Q * Kilo - P * Kilo
        /\ E * Kilo > q - p - Kilo /\ E * Kilo < q - p + Kilo
    BY <2>1, TimevalDiff
  <2> HIDE DEF D, E, T, U, P, Q
  <2>6. /\ (D + E) * Kilo = D * Kilo + E * Kilo
        /\ (T + P) * Kilo = T * Kilo + P * Kilo
        /\ (U + Q) * Kilo = U * Kilo + Q * Kilo
        /\ D * Kilo \in Int /\ E * Kilo \in Int /\ T * Kilo \in Int /\ P * Kilo \in Int
        /\ U * Kilo \in Int /\ Q * Kilo \in Int /\ Kilo \in Nat
    BY <2>4, <2>5, SecondType
  <2> HIDE DEF t, u, p, q
  <2>7. /\ op_get(g, s, e) = op_get_raw(g, e) - op_get_raw(g, s)
        /\ op_get(g, s, e) > u - t - 2 * Kilo /\ op_get(g, s, e) < u - t + 2 * Kilo
    BY <2>1, <2>3, <2>4, <2>5, <2>6
  <2> QED
    BY <1>2, <2>7 DEF ValueRight, t, u
<1>3. CASE g = "context_switch_forced"
  BY <1>3 DEF ValueRight, op_get, op_get_raw, Reading, Reads
<1>4. CASE g \in {"jvm_compilations", "papi"}
  <2>1. Reading(Reads(g), s) = t /\ Reading(Reads(g), e) = u
    BY <1>4 DEF Reading, Reads
  <2> QED
    BY <1>4, <2>1 DEF ValueRight, op_get, op_get_raw
<1> QED
  BY <1>1, <1>2, <1>3, <1>4 DEF Getters

(***************************************************************************)
(* The entries of a build, and the one that a name resolves to.            *)
(***************************************************************************)
LEMMA FirstLeast ==
  ASSUME NEW S, S \subseteq Nat, S # {}, NEW after
  PROVE  First(S, after) \in S /\ \A m \in S : First(S, after) <= m
<1>1. PICK x \in S : \A y \in S : ~(<<y, x>> \in OpToRel(<, Nat))
  BY NatLessThanWellFounded, WFMin
<1>2. \A y \in S : ~(y < x)
  BY <1>1 DEF OpToRel
<1>3. \E k \in S : \A m \in S : k <= m
  BY <1>2
<1> QED
  BY <1>3 DEF First

LEMMA EntriesOf ==
  /\ known_events \subseteq 1 .. 10
  /\ {1, 2, 4, 7, 9} \subseteq known_events
  /\ "papi" \in build => {5, 10} \subseteq known_events
  /\ "papi" \notin build => 5 \notin known_events /\ 10 \notin known_events
  /\ \A i \in known_events : i \in {3, 6, 8} => {3, 6, 8} \subseteq known_events
<1>1. \A i : i \in known_events <=> i \in 1 .. 10 /\ table[i].needs \in build \cup {"any"}
  BY TableRows DEF known_events, table
<1>2. \A i \in 1 .. 10 : table[i].needs = IF i \in {5, 10} THEN "papi"
                             ELSE IF i \in {3, 6, 8} THEN "rusage" ELSE "any"
  BY TableResolvers
<1> QED
  BY <1>1, <1>2

LEMMA KnownRange == \A k \in known_events : k \in 1 .. 10 /\ k \in Nat
<1>1. known_events \subseteq 1 .. 10
  BY EntriesOf
<1> QED
  BY <1>1

LEMMA TableLen == Len(all_known_events) + 1 = 11
<1>1. Len(all_known_events) = 10
  BY TableRows DEF table
<1> QED
  BY <1>1

(* The next entry of the build: none is passed over.                       *)
LEMMA EntryFromNext ==
  ASSUME NEW i \in Nat
  PROVE  /\ EntryFrom(i) \in known_events \cup {11} /\ (EntryFrom(i) >= i \/ EntryFrom(i) = 11)
         /\ \A k \in known_events : k < EntryFrom(i) <=> k < i
<1> DEFINE S == {k \in known_events : k >= i}
<1>1. EntryFrom(i) = First(S, 11)
  BY TableLen DEF EntryFrom
<1>2. S \subseteq Nat /\ \A k \in known_events : k \in 1 .. 10
  BY KnownRange
<1>3. CASE S = {}
  <2>1. EntryFrom(i) = 11
    BY <1>1, <1>3 DEF First
  <2> QED
    BY <2>1, <1>2, <1>3
<1>4. CASE S # {}
  <2>1. EntryFrom(i) \in S /\ \A m \in S : EntryFrom(i) <= m
    BY <1>1, <1>2, <1>4, FirstLeast
  <2> QED
    BY <2>1, <1>2
<1> QED
  BY <1>3, <1>4

IdFor(i, n) == IF table[i].backend = "papi" THEN n.base ELSE "none"

LEMMA ResolveIs ==
  ASSUME NEW n, NEW i \in known_events, Matches(table[i], n),
         \A k \in known_events : k < i => ~Matches(table[k], n)
  PROVE  ubench_event_resolve(n) = Info(table[i], IdFor(i, n))
<1> DEFINE found == {k \in known_events : Matches(table[k], n)}
<1>1. found \subseteq Nat /\ i \in found /\ i \in Nat
  BY KnownRange
<1>2. First(found, 0) \in found /\ First(found, 0) <= i
  BY <1>1, FirstLeast
<1>3. First(found, 0) = i
  BY <1>1, <1>2
<1> QED
  BY <1>1, <1>3 DEF ubench_event_resolve, table, IdFor

LEMMA ResolveNone ==
  ASSUME NEW n, \A k \in known_events : ~Matches(table[k], n)
  PROVE  ubench_event_resolve(n) = NotFound
BY DEF ubench_event_resolve, table

LEMMA FoundInfo ==
  ASSUME NEW i \in 1 .. 10, NEW id
  PROVE  Info(table[i], id) # NotFound
<1>1. table[i].backend \in Backends
  BY TableBackends
<1>2. table[i].backend # "none"
  BY <1>1 DEF Backends
<1> QED
  BY <1>2 DEF Info, NotFound

LEMMA ResolveFound ==
  ASSUME NEW n, isEventSupported(n)
  PROVE  \E i \in known_events :
           /\ Matches(table[i], n) /\ ubench_event_resolve(n) = Info(table[i], IdFor(i, n))
           /\ \A k \in known_events : k < i => ~Matches(table[k], n)
<1> DEFINE found == {k \in known_events : Matches(table[k], n)}
<1>1. found \subseteq Nat /\ \A k \in known_events : k \in Nat
  BY KnownRange
<1>2. found # {}
  BY ResolveNone DEF isEventSupported
<1>3. First(found, 0) \in found /\ \A m \in found : First(found, 0) <= m
  BY <1>1, <1>2, FirstLeast
<1>4. PICK i \in known_events : Matches(table[i], n) /\ \A k \in known_events : k < i => ~Matches(table[k], n)
  BY <1>1, <1>3
<1> QED
  BY <1>4, ResolveIs

(***************************************************************************)
(* Measuring.  The fields read so far are in the order of their readings.  *)
(***************************************************************************)
InfoOK(info) ==
  /\ info.backend \in Backends /\ info.getter \in Getters
  /\ Reads(info.getter) = info.backend

Taken(s, order, n, backends, t) ==
  \A i \in 1 .. n : order[i] \in backends =>
    /\ s[order[i]] \in 0 .. t
    /\ order[i] = "rusage" => SystemPart(s)
    /\ \A k \in 1 .. i : order[k] \in backends => s[order[k]] <= s[order[i]]

MeasureInv ==
  /\ now \in Nat /\ system \in 0 .. now /\ field \in 1 .. 6
  /\ start \in [Fields -> Int] /\ end \in [Fields -> Int]
  /\ \A info \in used : InfoOK(info)
  /\ pc = "java" => field = 1
  /\ pc = "start" => Taken(start, StartOrder, field - 1, used_backends, now)
  /\ pc \in {"stop", "measured"} =>
       /\ Taken(start, StartOrder, 5, used_backends, now)
       /\ Taken(end, StopOrder, field - 1, used_backends, now)
  /\ pc = "measured" => field = 6

IsOrder(order) ==
  /\ \A i \in 1 .. 5 : order[i] \in Backends
  /\ \A i, k \in 1 .. 5 : order[i] = order[k] => i = k

LEMMA Orders ==
  /\ IsOrder(StartOrder) /\ IsOrder(StopOrder)
  /\ Len(StartOrder) = 5 /\ Len(StopOrder) = 5
  /\ DOMAIN StartOrder = 1 .. 5
  /\ \A i \in 1 .. 5 : StopOrder[6 - i] = StartOrder[i]
  /\ \A b \in Backends : \E i \in 1 .. 5 : StartOrder[i] = b
<1>1. /\ StartOrder[1] = "rusage" /\ StartOrder[2] = "compilations" /\ StartOrder[3] = "threadtime"
      /\ StartOrder[4] = "papi" /\ StartOrder[5] = "wallclock"
      /\ StopOrder[5] = "rusage" /\ StopOrder[4] = "compilations" /\ StopOrder[3] = "threadtime"
      /\ StopOrder[2] = "papi" /\ StopOrder[1] = "wallclock"
  BY DEF StartOrder, StopOrder
<1>2. /\ Len(StartOrder) = 5 /\ Len(StopOrder) = 5 /\ DOMAIN StartOrder = 1 .. 5
  BY DEF StartOrder, StopOrder
<1>3. \A i \in 1 .. 5 : i \in {1, 2, 3, 4, 5}
  OBVIOUS
<1>4. IsOrder(StartOrder)
  <2>1. \A i \in 1 .. 5 : StartOrder[i] \in Backends
    BY <1>1, <1>3 DEF Backends
  <2>2. \A i, k \in 1 .. 5 : StartOrder[i] = StartOrder[k] => i = k
    BY <1>1, <1>3
  <2> QED
    BY <2>1, <2>2 DEF IsOrder
<1>5. IsOrder(StopOrder)
  <2>1. \A i \in 1 .. 5 : StopOrder[i] \in Backends
    BY <1>1, <1>3 DEF Backends
  <2>2. \A i, k \in 1 .. 5 : StopOrder[i] = StopOrder[k] => i = k
    BY <1>1, <1>3
  <2> QED
    BY <2>1, <2>2 DEF IsOrder
<1>6. \A i \in 1 .. 5 : StopOrder[6 - i] = StartOrder[i]
  BY <1>1, <1>3
<1>7. \A b \in Backends : \E i \in 1 .. 5 : StartOrder[i] = b
  BY <1>1 DEF Backends
<1> QED
  BY <1>2, <1>4, <1>5, <1>6, <1>7

(* Storing the next field.                                                 *)
LEMMA StoreNext ==
  ASSUME now \in Nat, system \in 0 .. now, NEW s \in [Fields -> Int], NEW order, IsOrder(order),
         NEW n \in 1 .. 5, Taken(s, order, n - 1, used_backends, now)
  PROVE  /\ Stored(s, order[n]) \in [Fields -> Int]
         /\ Taken(Stored(s, order[n]), order, n, used_backends, now)
<1> DEFINE t == Stored(s, order[n])
<1>1. /\ \A i \in 1 .. 5 : order[i] \in Backends /\ order[i] \in Fields /\ order[i] # "system"
      /\ "system" \in Fields
  BY DEF IsOrder, Backends, Fields
<1>2. /\ t \in [Fields -> Int]
      /\ order[n] \in used_backends => t[order[n]] = now
      /\ \A i \in 1 .. n - 1 : t[order[i]] = s[order[i]]
  BY <1>1 DEF Stored, IsOrder
<1>3. /\ order[n] \in used_backends /\ order[n] = "rusage" => SystemPart(t)
      /\ \A i \in 1 .. n - 1 : order[i] = "rusage" /\ SystemPart(s) => SystemPart(t)
  <2>1. order[n] \in used_backends /\ order[n] = "rusage" => t["system"] = system
    BY <1>1 DEF Stored
  <2>2. order[n] # "rusage" => t["system"] = s["system"]
    BY <1>1 DEF Stored
  <2>3. \A i \in 1 .. n - 1 : order[i] = "rusage" => order[n] # "rusage"
    BY DEF IsOrder
  <2> QED
    BY <1>2, <2>1, <2>2, <2>3 DEF SystemPart
<1> HIDE DEF t
<1>4. ASSUME NEW i \in 1 .. n, order[i] \in used_backends
      PROVE  /\ t[order[i]] \in 0 .. now
             /\ order[i] = "rusage" => SystemPart(t)
             /\ \A k \in 1 .. i : order[k] \in used_backends => t[order[k]] <= t[order[i]]
  <2>1. CASE i = n
    BY <1>2, <1>3, <1>4, <2>1 DEF Taken
  <2>2. CASE i # n
    BY <1>2, <1>3, <1>4, <2>2 DEF Taken
  <2> QED
    BY <2>1, <2>2
<1>5. Taken(t, order, n, used_backends, now)
  BY <1>4 DEF Taken
<1> QED
  BY <1>2, <1>5 DEF t

LEMMA TakenStays ==
  ASSUME NEW s, NEW order, NEW n, NEW backends, NEW t \in Nat, NEW u \in Nat, t <= u,
         Taken(s, order, n, backends, t)
  PROVE  Taken(s, order, n, backends, u)
BY DEF Taken

LEMMA ResolvedOK ==
  ASSUME NEW n, isEventSupported(n)
  PROVE  InfoOK(ubench_event_resolve(n))
<1>1. PICK i \in known_events : ubench_event_resolve(n) = Info(table[i], IdFor(i, n))
  BY ResolveFound
<1>2. i \in 1 .. 10
  BY KnownRange
<1>3. /\ ubench_event_resolve(n).backend = table[i].backend
      /\ ubench_event_resolve(n).getter = table[i].getter
  BY <1>1 DEF Info
<1> QED
  BY <1>2, <1>3, TableBackends DEF InfoOK

LEMMA MeasureInit == Init => MeasureInv
<1> SUFFICES ASSUME Init PROVE MeasureInv
  OBVIOUS
<1>1. start \in [Fields -> Int] /\ end \in [Fields -> Int]
  BY DEF Init, NoFields, Unset, Fields
<1> QED
  BY <1>1 DEF Init, MeasureInv

(* A step of the listing leaves the event set alone.                       *)
LEMMA MeasureListing ==
  ASSUME MeasureInv, UNCHANGED <<measuring, time>>,
         pc' \in {"iterate", "presets", "components", "listed"}
  PROVE  MeasureInv'
BY DEF MeasureInv, measuring, time, InfoOK

LEMMA MeasureNext == MeasureInv /\ [Next]_vars => MeasureInv'
<1> SUFFICES ASSUME MeasureInv, [Next]_vars PROVE MeasureInv'
  OBVIOUS
<1>0. /\ now \in Nat /\ system \in 0 .. now /\ field \in 1 .. 6
      /\ start \in [Fields -> Int] /\ end \in [Fields -> Int]
      /\ \A info \in used : InfoOK(info)
  BY DEF MeasureInv
<1>1. CASE getSupportedEvents
  BY <1>1, MeasureListing DEF getSupportedEvents
<1>2. ASSUME NEW m \in EventNames, NEW n \in EventNames, Create({m, n})
      PROVE  MeasureInv'
  <2>1. isEventSupported(m) /\ isEventSupported(n)
    BY <1>2 DEF Create
  <2>2. used' = {ubench_event_resolve(k) : k \in {m, n}}
    BY <1>2 DEF Create
  <2>3. \A info \in used' : InfoOK(info)
    BY <2>1, <2>2, ResolvedOK
  <2>4. /\ pc = "java" /\ pc' = "start" /\ field' = field /\ start' = start
        /\ end' = end /\ now' = now /\ system' = system
    BY <1>2 DEF Create, time
  <2>5. field' = 1
    BY <2>4 DEF MeasureInv
  <2>6. Taken(start, StartOrder, field - 1, used_backends, now)'
    BY <2>5 DEF Taken, SystemPart
  <2>7. \A info : InfoOK(info)' <=> InfoOK(info)
    BY DEF InfoOK
  <2> QED
    BY <1>0, <2>3, <2>4, <2>5, <2>6, <2>7 DEF MeasureInv
<1>3. CASE ListStep
  <2>1. UNCHANGED <<measuring, time>>
    BY <1>3 DEF ListStep, ubench_event_iterate, list_papi_events, ListPreset, PresetsDone,
                ListNative, ComponentDone, PapiDone, ListReturned, measuring
  <2>2. pc' \in {"iterate", "presets", "components", "listed"}
    BY <1>3 DEF ListStep, ubench_event_iterate, list_papi_events, ListPreset, PresetsDone,
                ListNative, ComponentDone, PapiDone, ListReturned
  <2> QED
    BY <2>1, <2>2, MeasureListing
<1>4. CASE ubench_measure_start
  <2>1. /\ pc = "start" /\ pc' = "start" /\ field' = field + 1 /\ used' = used /\ end' = end
        /\ now' = now /\ system' = system /\ start' = Stored(start, StartOrder[field])
        /\ field \in 1 .. 5
    BY <1>0, <1>4, Orders DEF ubench_measure_start, time
  <2>2. Taken(start, StartOrder, field - 1, used_backends, now)
    BY <2>1 DEF MeasureInv
  <2>3. /\ start' \in [Fields -> Int]
        /\ Taken(start', StartOrder, field, used_backends, now)
    BY <1>0, <2>1, <2>2, StoreNext, Orders
  <2>4. used_backends' = used_backends /\ field' - 1 = field /\ field' \in 1 .. 6
    BY <1>0, <2>1 DEF used_backends
  <2>5. StartOrder' = StartOrder
    BY DEF StartOrder
  <2>6. Taken(start, StartOrder, field - 1, used_backends, now)'
    BY <2>1, <2>3, <2>4, <2>5 DEF Taken, SystemPart
  <2> QED
    BY <1>0, <2>1, <2>3, <2>4, <2>6 DEF MeasureInv, InfoOK
<1>5. CASE StopCalled
  <2>1. /\ pc = "start" /\ pc' = "stop" /\ field' = 1 /\ used' = used /\ start' = start
        /\ end' = end /\ now' = now /\ system' = system /\ field = 6
    BY <1>0, <1>5, Orders DEF StopCalled, time
  <2>2. Taken(start, StartOrder, 5, used_backends, now)
    BY <2>1 DEF MeasureInv
  <2>3. used_backends' = used_backends
    BY <2>1 DEF used_backends
  <2>4. Taken(start, StartOrder, 5, used_backends, now)'
    BY <2>1, <2>2, <2>3 DEF Taken, SystemPart, StartOrder
  <2>5. Taken(end, StopOrder, field - 1, used_backends, now)'
    BY <2>1 DEF Taken, SystemPart
  <2> QED
    BY <1>0, <2>1, <2>4, <2>5 DEF MeasureInv, InfoOK
<1>6. CASE ubench_measure_stop
  <2>1. /\ pc = "stop" /\ pc' = "stop" /\ field' = field + 1 /\ used' = used /\ start' = start
        /\ now' = now /\ system' = system /\ end' = Stored(end, StopOrder[field])
        /\ field \in 1 .. 5
    BY <1>0, <1>6, Orders DEF ubench_measure_stop, time
  <2>2. /\ Taken(start, StartOrder, 5, used_backends, now)
        /\ Taken(end, StopOrder, field - 1, used_backends, now)
    BY <2>1 DEF MeasureInv
  <2>3. /\ end' \in [Fields -> Int]
        /\ Taken(end', StopOrder, field, used_backends, now)
    BY <1>0, <2>1, <2>2, StoreNext, Orders
  <2>4. used_backends' = used_backends /\ field' - 1 = field /\ field' \in 1 .. 6
    BY <1>0, <2>1 DEF used_backends
  <2>5. Taken(start, StartOrder, 5, used_backends, now)'
    BY <2>1, <2>2, <2>4 DEF Taken, SystemPart, StartOrder
  <2>6. StopOrder' = StopOrder
    BY DEF StopOrder
  <2>7. Taken(end, StopOrder, field - 1, used_backends, now)'
    BY <2>1, <2>3, <2>4, <2>6 DEF Taken, SystemPart
  <2> QED
    BY <1>0, <2>1, <2>3, <2>4, <2>5, <2>7 DEF MeasureInv, InfoOK
<1>7. CASE StopReturned
  <2>1. /\ pc = "stop" /\ pc' = "measured" /\ field = 6 /\ UNCHANGED <<measuring, time>>
    BY <1>0, <1>7, Orders DEF StopReturned
  <2> QED
    BY <2>1 DEF MeasureInv, measuring, time, Taken, SystemPart, used_backends, InfoOK, StartOrder, StopOrder
<1>8. ASSUME NEW d \in Jumps, NEW inKernel \in BOOLEAN, Tick(d, inKernel)
      PROVE  MeasureInv'
  <2>1. /\ pc' = pc /\ UNCHANGED measuring /\ now' \in Nat /\ now <= now' /\ system' \in 0 .. now'
        /\ pc \in {"start", "stop"}
    BY <1>0, <1>8, EventsAssumption DEF Tick
  <2>2. /\ used' = used /\ field' = field /\ start' = start /\ end' = end
        /\ used_backends' = used_backends
    BY <2>1 DEF measuring, used_backends
  <2>3. \A s, order, n : Taken(s, order, n, used_backends, now) =>
                           Taken(s, order, n, used_backends, now')
    BY <1>0, <2>1, TakenStays
  <2>4. /\ Taken(start, StartOrder, field - 1, used_backends, now)' <=>
             Taken(start, StartOrder, field - 1, used_backends, now')
        /\ Taken(start, StartOrder, 5, used_backends, now)' <=>
             Taken(start, StartOrder, 5, used_backends, now')
        /\ Taken(end, StopOrder, field - 1, used_backends, now)' <=>
             Taken(end, StopOrder, field - 1, used_backends, now')
    BY <2>2 DEF Taken, SystemPart, StartOrder, StopOrder
  <2> QED
    BY <1>0, <2>1, <2>2, <2>3, <2>4 DEF MeasureInv, InfoOK
<1>9. CASE UNCHANGED vars
  BY <1>9 DEF vars, measuring, time, MeasureInv, Taken, SystemPart, used_backends, InfoOK, StartOrder, StopOrder
<1> QED
  BY <1>1, <1>2, <1>3, <1>4, <1>5, <1>6, <1>7, <1>8, <1>9 DEF Next, MeasureStep

(* What ValuesAreRight and IntervalsNest rest on holds throughout: in each *)
(* snapshot the fields of the event set read so far are in the order of    *)
(* their readings (ubench_measure_start and ubench_measure_stop).          *)
THEOREM Measured == Spec => []MeasureInv
BY MeasureInit, MeasureNext, PTL DEF Spec

LEMMA AllTaken ==
  ASSUME MeasureInv, pc = "measured", NEW b \in used_backends
  PROVE  /\ start[b] \in Nat /\ end[b] \in Nat
         /\ b = "rusage" => SystemPart(start) /\ SystemPart(end)
<1>1. /\ now \in Nat /\ field = 6
      /\ Taken(start, StartOrder, 5, used_backends, now)
      /\ Taken(end, StopOrder, field - 1, used_backends, now)
      /\ \A info \in used : InfoOK(info)
  BY DEF MeasureInv
<1>2. b \in Backends
  BY <1>1 DEF used_backends, InfoOK
<1>3. PICK i \in 1 .. 5 : StartOrder[i] = b
  BY <1>2, Orders
<1>4. StopOrder[6 - i] = b /\ 6 - i \in 1 .. field - 1
  BY <1>1, <1>3, Orders
<1> QED
  BY <1>1, <1>3, <1>4 DEF Taken

(* For any snapshots the getters of an event set report the time between   *)
(* the readings of their own field (ValuesAreRight): the backend under     *)
(* which an event is stored is the one its getter reads, and the division  *)
(* into seconds and parts of a second loses at most what a struct timeval  *)
(* cannot hold, for any number of parts.                                   *)
THEOREM ValuesRight == Spec => []ValuesAreRight
<1>1. MeasureInv => ValuesAreRight
  <2> SUFFICES ASSUME MeasureInv, pc = "measured", NEW info \in used
               PROVE  /\ ~(start[Reads(info.getter)] = Unset \/ end[Reads(info.getter)] = Unset)
                      /\ ValueRight(info.getter, start, end)
    BY DEF ValuesAreRight, ValueRight
  <2>1. InfoOK(info)
    BY DEF MeasureInv
  <2>2. Reads(info.getter) \in used_backends /\ info.getter \in Getters
    BY <2>1 DEF InfoOK, used_backends
  <2>3. /\ start[Reads(info.getter)] \in Nat /\ end[Reads(info.getter)] \in Nat
        /\ Reads(info.getter) = "rusage" => SystemPart(start) /\ SystemPart(end)
    BY <2>2, AllTaken
  <2>4. ValueRight(info.getter, start, end)
    BY <2>2, <2>3, GetterRight
  <2> QED
    BY <2>3, <2>4 DEF Unset
<1> QED
  BY <1>1, Measured, PTL

(* The measurement of a backend that start reads earlier contains that of  *)
(* a later one (IntervalsNest), since stop reads in the reverse order and  *)
(* the time does not go back.                                              *)
THEOREM Nested == Spec => []IntervalsNest
<1>1. MeasureInv => IntervalsNest
  <2> SUFFICES ASSUME MeasureInv, pc = "measured",
                      NEW i \in 1 .. 5, NEW k \in 1 .. 5, i < k,
                      StartOrder[i] \in used_backends, StartOrder[k] \in used_backends
               PROVE  /\ start[StartOrder[i]] <= start[StartOrder[k]]
                      /\ end[StartOrder[k]] <= end[StartOrder[i]]
    BY Orders DEF IntervalsNest
  <2>1. /\ field = 6
        /\ Taken(start, StartOrder, 5, used_backends, now)
        /\ Taken(end, StopOrder, field - 1, used_backends, now)
    BY DEF MeasureInv
  <2>2. start[StartOrder[i]] <= start[StartOrder[k]]
    BY <2>1 DEF Taken
  <2>3. /\ 6 - i \in 1 .. field - 1 /\ 6 - k \in 1 .. 6 - i
        /\ StopOrder[6 - i] = StartOrder[i] /\ StopOrder[6 - k] = StartOrder[k]
    BY <2>1, Orders
  <2>4. end[StopOrder[6 - k]] <= end[StopOrder[6 - i]]
    BY <2>1, <2>3 DEF Taken
  <2> QED
    BY <2>2, <2>3, <2>4
<1> QED
  BY <1>1, Measured, PTL

(***************************************************************************)
(* Which names resolve, and to what.                                       *)
(***************************************************************************)
WorldInv ==
  named \subseteq Codes /\ described \subseteq Codes

(* An event of PAPI that can be used on this machine.                      *)
Good(c) == c \in named /\ c \in described /\ (c \in PresetCodes => c \in counted)

LEMMA NamesAre ==
  /\ table[1].name = "JVM_COMPILATIONS" /\ table[2].name = "SYS_WALLCLOCK"
  /\ table[3].name = "forced-context-switch" /\ table[4].name = "JVM:compilations"
  /\ table[5].name = "PAPI:" /\ table[6].name = "SYS:forced-context-switches"
  /\ table[7].name = "SYS:thread-time" /\ table[8].name = "SYS:thread-time-rusage"
  /\ table[9].name = "SYS:wallclock-time" /\ table[10].name = ""
BY TableRows, Zenon DEF RowIs

LEMMA MatchesPlain ==
  ASSUME NEW i \in 1 .. 10, i # 5, i # 10, NEW n
  PROVE  Matches(table[i], n) <=> n = Name("", table[i].name)
<1>1. table[i].resolver = "NULL"
  BY TableResolvers
<1> QED
  BY <1>1 DEF Matches

LEMMA MatchesPapi ==
  ASSUME NEW n
  PROVE  /\ Matches(table[5], n) <=> n.prefix = "PAPI:" /\ Good(n.base)
         /\ Matches(table[10], n) <=> n.prefix = "" /\ Good(n.base)
<1>1. /\ table[5].resolver = "resolve_papi_event_with_prefix"
      /\ table[10].resolver = "resolve_papi_event"
  BY TableResolvers
<1>2. resolve_papi_event(n) <=> n.prefix = "" /\ Good(n.base)
  BY DEF resolve_papi_event, Good
<1>3. resolve_papi_event_with_prefix(n) <=> Good(n.base)
  BY DEF resolve_papi_event_with_prefix, resolve_papi_event, Good, Name
<1>4. Matches(table[5], n) <=> n.prefix = "PAPI:" /\ resolve_papi_event_with_prefix(n)
  BY <1>1 DEF Matches
<1>5. Matches(table[10], n) <=> resolve_papi_event(n)
  BY <1>1 DEF Matches
<1> QED
  BY <1>2, <1>3, <1>4, <1>5

LEMMA NameParts == \A p, b : Name(p, b).prefix = p /\ Name(p, b).base = b
BY DEF Name

LEMMA NameDiffers ==
  ASSUME NEW p, NEW b, NEW q, NEW c, p # q \/ b # c
  PROVE  Name(p, b) # Name(q, c)
BY NameParts

(* A name of the table means its own entry, whatever PAPI has.             *)
LEMMA ResolvePlain ==
  ASSUME NEW i \in known_events, i # 5, i # 10
  PROVE  ubench_event_resolve(Name("", table[i].name)) = Info(table[i], "none")
<1> DEFINE n == Name("", table[i].name)
<1>1. i \in 1 .. 10
  BY KnownRange
<1>2. Matches(table[i], n)
  BY <1>1, MatchesPlain
<1>3. ASSUME NEW k \in known_events, k < i PROVE ~Matches(table[k], n)
  <2>1. k \in 1 .. 10 /\ k # 10 /\ k # i
    BY <1>1, <1>3, KnownRange
  <2>2. CASE k = 5
    BY <2>2, MatchesPapi, NameParts
  <2>3. CASE k # 5
    <3>0. table[i].name # table[k].name
      BY <1>1, <2>1, TableNames
    <3>1. n # Name("", table[k].name)
      BY <3>0, NameDiffers
    <3> QED
      BY <2>1, <2>3, <3>1, MatchesPlain
  <2> QED
    BY <2>2, <2>3
<1>4. table[i].backend # "papi"
  BY <1>1, TableBackends
<1> QED
  BY <1>2, <1>3, <1>4, ResolveIs DEF IdFor

(* A name with the prefix means the event of PAPI that it names.           *)
LEMMA ResolvePrefixed ==
  ASSUME "papi" \in build, NEW c, Good(c)
  PROVE  ubench_event_resolve(Name("PAPI:", c)) = Info(table[5], c)
<1> DEFINE n == Name("PAPI:", c)
<1>1. 5 \in known_events
  BY EntriesOf
<1>2. n.prefix = "PAPI:" /\ n.base = c
  BY NameParts
<1>3. Matches(table[5], n)
  BY <1>2, MatchesPapi
<1>4. ASSUME NEW k \in known_events, k < 5 PROVE ~Matches(table[k], n)
  <2>1. k \in 1 .. 10 /\ k # 5 /\ k # 10
    BY <1>4, KnownRange
  <2>2. n # Name("", table[k].name)
    BY NameDiffers
  <2> QED
    BY <2>1, <2>2, MatchesPlain
<1>5. IdFor(5, n) = c
  BY <1>2, TableBackends DEF IdFor
<1> HIDE DEF n
<1>6. ubench_event_resolve(n) = Info(table[5], IdFor(5, n))
  BY <1>1, <1>3, <1>4, ResolveIs
<1> QED
  BY <1>5, <1>6 DEF n

(* So does the name alone, unless the table has it.                        *)
LEMMA ResolveBare ==
  ASSUME WorldInv, "papi" \in build, NEW c, Good(c)
  PROVE  /\ ubench_event_resolve(Name("", c)) = Info(table[10], c)
         /\ \A k \in 1 .. 10 : table[k].name # c
<1> DEFINE n == Name("", c)
<1>1. 10 \in known_events
  BY EntriesOf
<1>2. n.prefix = "" /\ n.base = c
  BY NameParts
<1>3. Matches(table[10], n)
  BY <1>2, MatchesPapi
<1>4. \A k \in 1 .. 10 : table[k].name # c
  <2>1. c \in Codes
    BY DEF Good, WorldInv
  <2>2. \A k \in DOMAIN all_known_events : all_known_events[k].name \notin Codes
    BY PapiAssumption DEF SeqRange
  <2>3. DOMAIN all_known_events = 1 .. 10
    BY TableRows DEF table
  <2> QED
    BY <2>1, <2>2, <2>3 DEF table
<1>5. ASSUME NEW k \in known_events, k < 10 PROVE ~Matches(table[k], n)
  <2>1. k \in 1 .. 10 /\ k # 10
    BY <1>5, KnownRange
  <2>2. CASE k = 5
    BY <2>2, <1>2, MatchesPapi
  <2>3. CASE k # 5
    <3>1. n # Name("", table[k].name)
      BY <1>4, <2>1, NameDiffers
    <3> QED
      BY <2>1, <2>3, <3>1, MatchesPlain
  <2> QED
    BY <2>2, <2>3
<1>6. IdFor(10, n) = c
  <2>1. table[10].backend = "papi"
    BY TableBackends
  <2> QED
    BY <1>2, <2>1 DEF IdFor
<1> HIDE DEF n
<1>7. ubench_event_resolve(n) = Info(table[10], IdFor(10, n))
  BY <1>1, <1>3, <1>5, ResolveIs
<1> QED
  BY <1>4, <1>6, <1>7 DEF n

LEMMA PapiAlike == \A c : Info(table[10], c) = Info(table[5], c)
<1>1. /\ table[5].backend = "papi" /\ table[10].backend = "papi"
      /\ table[5].getter = "papi" /\ table[10].getter = "papi"
  BY TableRows, Zenon DEF RowIs
<1> QED
  BY <1>1 DEF Info

(* The entries that are listed by their own name.                          *)
ListedRows == {4, 6, 7, 8, 9}

LEMMA SupportedAre ==
  SupportedNames = {Name("", table[i].name) : i \in known_events \cap ListedRows}
                     \cup (IF "papi" \in build THEN {Name("PAPI:", c) : c \in {c \in named : Good(c)}}
                           ELSE {})
<1>1. ASSUME NEW k \in known_events
      PROVE  (~table[k].obsolete /\ table[k].lister = "NULL") <=> k \in ListedRows
  <2>1. k \in 1 .. 10
    BY KnownRange
  <2>2. (table[k].obsolete <=> k \in {1, 2, 3, 10}) /\ (table[k].lister = "NULL" <=> k # 5)
    BY <2>1, TableObsolete, TableResolvers
  <2> QED
    BY <2>1, <2>2, TenRows DEF ListedRows
<1>2. {k \in known_events : ~table[k].obsolete /\ table[k].lister = "NULL"}
        = known_events \cap ListedRows
  BY <1>1
<1>3. (named \cap described) \ (PresetCodes \ counted) = {c \in named : Good(c)}
  BY DEF Good
<1> QED
  BY <1>2, <1>3 DEF SupportedNames, table

LEMMA WorldNext == [Next]_vars => UNCHANGED world
<1> SUFFICES ASSUME [Next]_vars PROVE UNCHANGED world
  OBVIOUS
<1>1. CASE ListStep
  BY <1>1 DEF ListStep, ubench_event_iterate, list_papi_events, ListPreset, PresetsDone,
              ListNative, ComponentDone, PapiDone, ListReturned
<1>2. CASE MeasureStep
  BY <1>2 DEF MeasureStep, ubench_measure_start, StopCalled, ubench_measure_stop, StopReturned
<1>3. CASE getSupportedEvents \/ \E m, n \in EventNames : Create({m, n})
  BY <1>3 DEF getSupportedEvents, Create
<1>4. CASE \E d \in Jumps, inKernel \in BOOLEAN : Tick(d, inKernel)
  BY <1>4 DEF Tick
<1>5. CASE UNCHANGED vars
  BY <1>5 DEF vars
<1> QED
  BY <1>1, <1>2, <1>3, <1>4, <1>5 DEF Next

(* PAPI knows no event that it does not have (resolve_papi_event and the   *)
(* listing ask it about the same events).                                  *)
THEOREM WorldStays == Spec => []WorldInv
<1>1. Init => WorldInv
  BY DEF Init, WorldInv
<1>2. WorldInv /\ [Next]_vars => WorldInv'
  BY WorldNext DEF WorldInv, world
<1> QED
  BY <1>1, <1>2, PTL DEF Spec

(* An old name and its new one have the same backend and getter.           *)
LEMMA RowsAlike ==
  /\ Info(table[1], "none") = Info(table[4], "none")
  /\ Info(table[2], "none") = Info(table[9], "none")
  /\ Info(table[3], "none") = Info(table[6], "none")
<1>1. /\ table[1].backend = "compilations" /\ table[4].backend = "compilations"
      /\ table[2].backend = "wallclock" /\ table[9].backend = "wallclock"
      /\ table[3].backend = "rusage" /\ table[6].backend = "rusage"
  BY TableRows, Zenon DEF RowIs
<1>2. /\ table[1].getter = "jvm_compilations" /\ table[4].getter = "jvm_compilations"
      /\ table[2].getter = "wall_clock_time" /\ table[9].getter = "wall_clock_time"
      /\ table[3].getter = "context_switch_forced" /\ table[6].getter = "context_switch_forced"
  BY TableRows, Zenon DEF RowIs
<1> QED
  BY <1>1, <1>2 DEF Info

LEMMA NewNames ==
  /\ NewName(Name("", table[1].name)) = Name("", table[4].name)
  /\ NewName(Name("", table[2].name)) = Name("", table[9].name)
  /\ NewName(Name("", table[3].name)) = Name("", table[6].name)
<1>1. /\ Name("", "SYS_WALLCLOCK") # Name("", "JVM_COMPILATIONS")
      /\ Name("", "forced-context-switch") # Name("", "JVM_COMPILATIONS")
      /\ Name("", "forced-context-switch") # Name("", "SYS_WALLCLOCK")
  BY DEF Name
<1> QED
  BY <1>1, NamesAre DEF NewName

(* No name is supported besides the listed ones and the old ones, and an   *)
(* old name means what its new name means (OldNamesAgree), on every build  *)
(* and with any events of PAPI.                                            *)
THEOREM OldNamesMeanNew == Spec => []OldNamesAgree
<1>1. ASSUME WorldInv, NEW n \in EventNames, n \notin SupportedNames, isEventSupported(n)
      PROVE  /\ NewName(n) \in SupportedNames
             /\ ubench_event_resolve(n) = ubench_event_resolve(NewName(n))
  <2>1. PICK i \in known_events : /\ Matches(table[i], n)
                                  /\ ubench_event_resolve(n) = Info(table[i], IdFor(i, n))
    BY <1>1, ResolveFound
  <2>2. i \in 1 .. 10
    BY KnownRange
  <2>3. n = Name(n.prefix, n.base)
    <3>1. CASE n \in KnownNames
      <4>1. PICK e \in SeqRange(all_known_events) : n = Name("", e.name)
        BY <3>1 DEF KnownNames
      <4> QED
        BY <4>1 DEF Name
    <3>2. CASE n \in [prefix : {"", "PAPI:"}, base : Codes \cup Strangers]
      BY <3>2 DEF Name
    <3> QED
      BY <3>1, <3>2 DEF EventNames
  <2>4. ASSUME "papi" \in build, NEW c, Good(c)
        PROVE  Name("PAPI:", c) \in SupportedNames
    BY <2>4, SupportedAre DEF Good
  <2>5. CASE i = 5
    <3>1. n.prefix = "PAPI:" /\ Good(n.base)
      BY <2>1, <2>5, MatchesPapi
    <3>2. "papi" \in build
      BY <2>5, EntriesOf
    <3> QED
      BY <1>1, <2>3, <2>4, <3>1, <3>2
  <2>6. CASE i = 10
    <3> DEFINE c == n.base
    <3>1. n.prefix = "" /\ Good(c)
      BY <2>1, <2>6, MatchesPapi
    <3>2. "papi" \in build
      BY <2>6, EntriesOf
    <3>3. n = Name("", c)
      BY <2>3, <3>1
    <3> HIDE DEF c
    <3>4. /\ ubench_event_resolve(n) = Info(table[10], c)
          /\ \A k \in 1 .. 10 : table[k].name # c
      BY <1>1, <3>1, <3>2, <3>3, ResolveBare
    <3>5. c # "JVM_COMPILATIONS" /\ c # "SYS_WALLCLOCK" /\ c # "forced-context-switch"
      <4>1. table[1].name # c /\ table[2].name # c /\ table[3].name # c
        BY <3>4
      <4> QED
        BY <4>1, NamesAre
    <3>6. NewName(n) = Name("PAPI:", c)
      BY <3>3, <3>5, NameDiffers, NameParts DEF NewName
    <3>7. ubench_event_resolve(NewName(n)) = Info(table[5], c)
      BY <3>1, <3>2, <3>6, ResolvePrefixed
    <3> QED
      BY <2>4, <3>1, <3>2, <3>4, <3>6, <3>7, PapiAlike
  <2>7. CASE i # 5 /\ i # 10
    <3>1. n = Name("", table[i].name)
      BY <2>1, <2>2, <2>7, MatchesPlain
    <3>2. ubench_event_resolve(n) = Info(table[i], "none")
      BY <2>7, <3>1, ResolvePlain
    <3>3. i \notin ListedRows
      BY <1>1, <3>1, SupportedAre
    <3>4. i \in {1, 2, 3}
      BY <2>2, <2>7, <3>3, TenRows DEF ListedRows
    <3>5. PICK k \in known_events \cap ListedRows :
            NewName(n) = Name("", table[k].name) /\ Info(table[i], "none") = Info(table[k], "none")
      <4>1. 4 \in known_events /\ 9 \in known_events /\ (i = 3 => 6 \in known_events)
        BY EntriesOf
      <4> QED
        BY <3>1, <3>4, <4>1, NewNames, RowsAlike DEF ListedRows
    <3>6. NewName(n) \in SupportedNames
      BY <3>5, SupportedAre
    <3>7. ubench_event_resolve(NewName(n)) = Info(table[k], "none")
      <4>1. k \in known_events /\ k # 5 /\ k # 10
        BY DEF ListedRows
      <4> QED
        BY <3>5, <4>1, ResolvePlain
    <3> QED
      BY <3>2, <3>5, <3>6, <3>7
  <2> QED
    BY <2>5, <2>6, <2>7
<1>2. WorldInv => OldNamesAgree
  BY <1>1 DEF OldNamesAgree
<1> QED
  BY <1>2, WorldStays, PTL

(***************************************************************************)
(* Listing.  The list holds the names of the entries and of the events of  *)
(* PAPI that were passed, each once.                                       *)
(***************************************************************************)
(* An event that the listing names: of a native one it does not ask whether *)
(* PAPI describes it.                                                      *)
Shown(c) == c \in named /\ (c \in PresetCodes => c \in described /\ c \in counted)

RowNames(e) == {Name("", table[i].name) : i \in {k \in known_events \cap ListedRows : k < e}}
PapiNames(P) == {Name("PAPI:", c) : c \in {c \in P : Shown(c)}}

(* The events of the components before a position.                         *)
NativesBefore(d, p) ==
  {c \in NativeCodes : \E k \in DOMAIN Components : \E i \in DOMAIN Components[k] :
                         c = Components[k][i] /\ (k < d \/ (k = d /\ i < p))}

PresetsBefore(p) == {c \in PresetCodes : \E i \in DOMAIN Presets : c = Presets[i] /\ i < p}

PassedCodes(at, e, d, p) ==
  IF "papi" \notin build THEN {}
  ELSE IF e > 5 THEN Codes
  ELSE IF at = "presets" THEN PresetsBefore(p)
  ELSE IF at = "components" THEN PresetCodes \cup NativesBefore(d, p)
  ELSE {}

AnyName == {Name("", table[i].name) : i \in 1 .. 10} \cup {Name("PAPI:", c) : c \in Codes}

Distinct(s) == \A i, k \in DOMAIN s : s[i] = s[k] => i = k

(* Where the calling thread is.                                            *)
AtOK(at, e, d, p) ==
  /\ e \in known_events \cup {11}
  /\ at = "java" => e = 1
  /\ at = "listed" => e = 11
  /\ at \in {"presets", "components"} => e = 5
  /\ at = "presets" => p \in 1 .. Len(Presets) + 1
  /\ at = "components" =>
       /\ d \in 1 .. Len(Components) + 1 /\ p \in Nat \ {0}
       /\ d <= Len(Components) => p <= Len(Components[d]) + 1

ListOK(l, at, e, d, p) ==
  /\ l \in Seq(AnyName) /\ Distinct(l)
  /\ SeqRange(l) = RowNames(e) \cup PapiNames(PassedCodes(at, e, d, p))

ListInv ==
  /\ WorldInv /\ AtOK(pc, entry, comp, pos)
  /\ ListOK(list, pc, entry, comp, pos)

LEMMA AppendNew ==
  ASSUME NEW S, NEW s \in Seq(S), Distinct(s), NEW x \in S, x \notin SeqRange(s)
  PROVE  /\ Append(s, x) \in Seq(S) /\ Distinct(Append(s, x))
         /\ SeqRange(Append(s, x)) = SeqRange(s) \cup {x}
<1> DEFINE t == Append(s, x)
<1>1. /\ t \in Seq(S) /\ Len(s) \in Nat /\ DOMAIN s = 1 .. Len(s) /\ DOMAIN t = 1 .. Len(s) + 1
      /\ t[Len(s) + 1] = x /\ \A i \in 1 .. Len(s) : t[i] = s[i]
  OBVIOUS
<1> HIDE DEF t
<1>2. \A i \in 1 .. Len(s) : s[i] # x
  BY <1>1 DEF SeqRange
<1>3. Distinct(t)
  BY <1>1, <1>2 DEF Distinct
<1>4. SeqRange(t) = SeqRange(s) \cup {x}
  BY <1>1 DEF SeqRange
<1> QED
  BY <1>1, <1>3, <1>4 DEF t

LEMMA RowNext ==
  ASSUME NEW e \in known_events
  PROVE  /\ EntryFrom(e + 1) \in known_events \cup {11}
         /\ e \in ListedRows =>
              RowNames(EntryFrom(e + 1)) = RowNames(e) \cup {Name("", table[e].name)}
         /\ e \notin ListedRows => RowNames(EntryFrom(e + 1)) = RowNames(e)
         /\ e > 5 => EntryFrom(e + 1) > 5
         /\ 5 \in known_events /\ e < 5 => EntryFrom(e + 1) <= 5
         /\ e = 5 => EntryFrom(e + 1) > 5
<1> DEFINE f == EntryFrom(e + 1)
<1>1. e \in 1 .. 10 /\ e + 1 \in Nat /\ \A k \in known_events : k \in 1 .. 10
  BY KnownRange
<1>2. /\ f \in known_events \cup {11} /\ (f >= e + 1 \/ f = 11)
      /\ \A k \in known_events : k < f <=> k < e + 1
  BY <1>1, EntryFromNext
<1> HIDE DEF f
<1>3. \A k \in known_events : k < f <=> (k < e \/ k = e)
  BY <1>1, <1>2
<1>4. e \in ListedRows => RowNames(f) = RowNames(e) \cup {Name("", table[e].name)}
  BY <1>3 DEF RowNames
<1>5. e \notin ListedRows => RowNames(f) = RowNames(e)
  <2> SUFFICES ASSUME e \notin ListedRows
               PROVE {k \in known_events \cap ListedRows : k < f}
                       = {k \in known_events \cap ListedRows : k < e}
    BY DEF RowNames
  <2> QED
    BY <1>3
<1>6. f \in 1 .. 11 /\ f > e
  BY <1>1, <1>2
<1>7. 5 \in known_events /\ e < 5 => f <= 5
  BY <1>1, <1>2, <1>6
<1>8. (e > 5 => f > 5) /\ (e = 5 => f > 5)
  BY <1>1, <1>6
<1> QED
  BY <1>2, <1>4, <1>5, <1>7, <1>8 DEF f

LEMMA RowIsNew ==
  ASSUME NEW e \in known_events, NEW P
  PROVE  /\ Name("", table[e].name) \notin RowNames(e) \cup PapiNames(P)
         /\ Name("", table[e].name) \in AnyName
<1>1. e \in 1 .. 10
  BY KnownRange
<1>2. ASSUME NEW k \in known_events, k < e
      PROVE  Name("", table[k].name) # Name("", table[e].name)
  <2>1. k \in 1 .. 10 /\ k # e
    BY <1>1, <1>2, KnownRange
  <2>2. table[k].name # table[e].name
    BY <1>1, <2>1, TableNames
  <2> QED
    BY <2>2, NameDiffers
<1>3. \A c : Name("PAPI:", c) # Name("", table[e].name)
  BY NameDiffers
<1>4. Name("", table[e].name) \notin RowNames(e)
  BY <1>2 DEF RowNames
<1>5. Name("", table[e].name) \notin PapiNames(P)
  BY <1>3 DEF PapiNames
<1>6. Name("", table[e].name) \in AnyName
  BY <1>1 DEF AnyName
<1> QED
  BY <1>4, <1>5, <1>6

LEMMA PapiIsNew ==
  ASSUME NEW c \in Codes, NEW P, c \notin P, NEW e
  PROVE  /\ Name("PAPI:", c) \notin RowNames(e) \cup PapiNames(P)
         /\ Name("PAPI:", c) \in AnyName
<1>1. \A b : Name("", b) # Name("PAPI:", c)
  BY NameDiffers
<1>2. \A d : d # c => Name("PAPI:", d) # Name("PAPI:", c)
  BY NameDiffers
<1>3. Name("PAPI:", c) \notin RowNames(e)
  BY <1>1 DEF RowNames
<1>4. Name("PAPI:", c) \notin PapiNames(P)
  BY <1>2 DEF PapiNames
<1> QED
  BY <1>3, <1>4 DEF AnyName

LEMMA PapiGrows ==
  ASSUME NEW P, NEW Q, NEW c, \A d : Shown(d) => (d \in Q <=> d \in P \/ d = c)
  PROVE  /\ Shown(c) => PapiNames(Q) = PapiNames(P) \cup {Name("PAPI:", c)}
         /\ ~Shown(c) => PapiNames(Q) = PapiNames(P)
<1>1. ASSUME Shown(c) PROVE {d \in Q : Shown(d)} = {d \in P : Shown(d)} \cup {c}
  BY <1>1
<1>2. ASSUME ~Shown(c) PROVE {d \in Q : Shown(d)} = {d \in P : Shown(d)}
  BY <1>2
<1>3. Shown(c) => PapiNames(Q) = PapiNames(P) \cup {Name("PAPI:", c)}
  BY <1>1 DEF PapiNames
<1>4. ~Shown(c) => PapiNames(Q) = PapiNames(P)
  BY <1>2 DEF PapiNames
<1> QED
  BY <1>3, <1>4

LEMMA PapiSame ==
  ASSUME NEW P, NEW Q, \A d : Shown(d) => (d \in Q <=> d \in P)
  PROVE  PapiNames(Q) = PapiNames(P)
<1>1. {d \in Q : Shown(d)} = {d \in P : Shown(d)}
  OBVIOUS
<1> QED
  BY <1>1 DEF PapiNames

LEMMA PresetsAre ==
  /\ Len(Presets) \in Nat /\ DOMAIN Presets = 1 .. Len(Presets)
  /\ \A i \in 1 .. Len(Presets) : Presets[i] \in PresetCodes
  /\ \A i, k \in 1 .. Len(Presets) : Presets[i] = Presets[k] => i = k
  /\ \A c \in PresetCodes : \E i \in 1 .. Len(Presets) : Presets[i] = c
<1>1. Presets \in Seq(PresetCodes)
  BY PapiAssumption
<1>2. Len(Presets) \in Nat /\ DOMAIN Presets = 1 .. Len(Presets)
  BY <1>1
<1>3. \A i, k \in DOMAIN Presets : Presets[i] = Presets[k] => i = k
  BY PapiAssumption
<1> QED
  BY <1>2, <1>3 DEF PresetCodes, SeqRange

LEMMA ComponentsAre ==
  /\ Len(Components) \in Nat /\ DOMAIN Components = 1 .. Len(Components)
  /\ \A d \in 1 .. Len(Components) :
       /\ Len(Components[d]) \in Nat /\ DOMAIN Components[d] = 1 .. Len(Components[d])
       /\ \A i \in 1 .. Len(Components[d]) : Components[d][i] \in NativeCodes
  /\ \A c \in NativeCodes : \E d \in 1 .. Len(Components) : \E i \in 1 .. Len(Components[d]) :
       Components[d][i] = c
<1>1. Components \in Seq(Seq(NativeCodes))
  BY PapiAssumption
<1>2. Len(Components) \in Nat /\ DOMAIN Components = 1 .. Len(Components)
  BY <1>1
<1>3. ASSUME NEW d \in 1 .. Len(Components)
      PROVE  /\ Len(Components[d]) \in Nat /\ DOMAIN Components[d] = 1 .. Len(Components[d])
             /\ \A i \in 1 .. Len(Components[d]) : Components[d][i] \in NativeCodes
  <2>1. Components[d] \in Seq(NativeCodes)
    BY <1>1, <1>3
  <2> QED
    BY <2>1
<1>4. ASSUME NEW c \in NativeCodes
      PROVE  \E d \in 1 .. Len(Components) : \E i \in 1 .. Len(Components[d]) : Components[d][i] = c
  <2>1. PICK d \in DOMAIN Components : c \in SeqRange(Components[d])
    BY DEF NativeCodes
  <2>2. PICK i \in DOMAIN Components[d] : Components[d][i] = c
    BY <2>1 DEF SeqRange
  <2> QED
    BY <1>2, <1>3, <2>1, <2>2
<1> QED
  BY <1>2, <1>3, <1>4

(* The presets that PAPI_enum_event passes over cannot be counted.         *)
LEMMA NextPresetStep ==
  ASSUME NEW p \in 1 .. Len(Presets)
  PROVE  /\ NextPreset(p) \in 1 .. Len(Presets) + 1
         /\ \A d : Shown(d) => (d \in PresetsBefore(NextPreset(p))
                                 <=> d \in PresetsBefore(p) \/ d = Presets[p])
         /\ Presets[p] \notin PresetsBefore(p)
<1> DEFINE S == {k \in p + 1 .. Len(Presets) : Available(k)}
           q == NextPreset(p)
<1>0. S \subseteq Nat /\ Len(Presets) \in Nat /\ q = First(S, Len(Presets) + 1)
  BY PresetsAre DEF NextPreset
<1> HIDE DEF q
<1>1. /\ q \in p + 1 .. Len(Presets) + 1
      /\ \A k \in p + 1 .. q - 1 : ~Available(k)
  <2>1. CASE S = {}
    <3>1. q = Len(Presets) + 1
      BY <1>0, <2>1 DEF First
    <3>2. \A k \in p + 1 .. Len(Presets) : ~Available(k)
      BY <2>1
    <3>3. q - 1 = Len(Presets) /\ q \in p + 1 .. Len(Presets) + 1
      BY <1>0, <3>1
    <3> QED
      BY <3>2, <3>3
  <2>2. CASE S # {}
    <3>1. q \in S /\ \A m \in S : q <= m
      BY <1>0, <2>2, FirstLeast
    <3>2. q \in p + 1 .. Len(Presets)
      BY <3>1
    <3>3. ASSUME NEW k \in p + 1 .. q - 1 PROVE ~Available(k)
      <4>1. k \in p + 1 .. Len(Presets) /\ ~(q <= k)
        BY <1>0, <3>2
      <4> QED
        BY <3>1, <4>1
    <3> QED
      BY <1>0, <3>2, <3>3
  <2> QED
    BY <2>1, <2>2
<1> HIDE DEF S
<1>2. ASSUME NEW d, Shown(d)
      PROVE  d \in PresetsBefore(q) <=> d \in PresetsBefore(p) \/ d = Presets[p]
  <2>1. ASSUME d \in PresetsBefore(q) PROVE d \in PresetsBefore(p) \/ d = Presets[p]
    <3>1. PICK i \in DOMAIN Presets : d = Presets[i] /\ i < q
      BY <2>1 DEF PresetsBefore
    <3>2. d \in PresetCodes /\ i \in 1 .. Len(Presets)
      BY <3>1, PresetsAre
    <3>3. Available(i)
      BY <1>2, <3>1, <3>2 DEF Available, Shown
    <3>4. i < p \/ i = p
      BY <1>0, <1>1, <3>1, <3>2, <3>3
    <3> QED
      BY <3>1, <3>2, <3>4 DEF PresetsBefore
  <2>2. ASSUME d \in PresetsBefore(p) PROVE d \in PresetsBefore(q)
    <3>1. PICK i \in DOMAIN Presets : d = Presets[i] /\ i < p
      BY <2>2 DEF PresetsBefore
    <3>2. d \in PresetCodes /\ i \in 1 .. Len(Presets)
      BY <3>1, PresetsAre
    <3>3. i < q
      BY <1>0, <1>1, <3>1, <3>2
    <3> QED
      BY <3>1, <3>2, <3>3 DEF PresetsBefore
  <2>3. Presets[p] \in PresetsBefore(q)
    BY <1>0, <1>1, PresetsAre DEF PresetsBefore
  <2> QED
    BY <2>1, <2>2, <2>3
<1>3. Presets[p] \notin PresetsBefore(p)
  BY PresetsAre DEF PresetsBefore
<1>4. q \in 1 .. Len(Presets) + 1
  BY <1>0, <1>1
<1> QED
  BY <1>2, <1>3, <1>4 DEF q

LEMMA PresetEnds ==
  /\ PresetsBefore(1) = {}
  /\ PresetsBefore(Len(Presets) + 1) = PresetCodes
<1>1. PresetsBefore(1) = {}
  BY PresetsAre DEF PresetsBefore
<1>2. PresetsBefore(Len(Presets) + 1) = PresetCodes
  BY PresetsAre DEF PresetsBefore
<1> QED
  BY <1>1, <1>2

LEMMA NativeStep ==
  ASSUME NEW d \in 1 .. Len(Components), NEW p \in 1 .. Len(Components[d])
  PROVE  /\ NativesBefore(d, p + 1) = NativesBefore(d, p) \cup {Components[d][p]}
         /\ Components[d][p] \notin NativesBefore(d, p)
         /\ Components[d][p] \in NativeCodes /\ Components[d][p] \notin PresetCodes
<1> DEFINE x == Components[d][p]
<1>1. /\ x \in NativeCodes /\ Len(Components[d]) \in Nat
      /\ d \in DOMAIN Components /\ p \in DOMAIN Components[d]
  BY ComponentsAre
<1>2. x \notin PresetCodes
  BY <1>1, PapiAssumption
<1>3. ASSUME NEW k \in DOMAIN Components, NEW i \in DOMAIN Components[k], Components[k][i] = x
      PROVE  k = d /\ i = p
  BY <1>1, <1>3, PapiAssumption
<1>4. x \notin NativesBefore(d, p)
  <2> SUFFICES ASSUME x \in NativesBefore(d, p) PROVE FALSE
    OBVIOUS
  <2>1a. PICK k \in DOMAIN Components : \E i \in DOMAIN Components[k] :
          x = Components[k][i] /\ (k < d \/ (k = d /\ i < p))
    BY DEF NativesBefore
  <2>1. PICK i \in DOMAIN Components[k] : x = Components[k][i] /\ (k < d \/ (k = d /\ i < p))
    BY <2>1a
  <2>2. k = d /\ i = p
    BY <1>3, <2>1
  <2> QED
    BY <2>1, <2>2
<1>5. \A k \in DOMAIN Components : \A i \in DOMAIN Components[k] :
        (k < d \/ (k = d /\ i < p + 1)) <=> ((k < d \/ (k = d /\ i < p)) \/ (k = d /\ i = p))
  BY ComponentsAre
<1>6. ASSUME NEW c \in NativesBefore(d, p + 1)
      PROVE  c \in NativesBefore(d, p) \cup {x}
  <2>1. c \in NativeCodes
    BY DEF NativesBefore
  <2>2a. PICK k \in DOMAIN Components : \E i \in DOMAIN Components[k] :
          c = Components[k][i] /\ (k < d \/ (k = d /\ i < p + 1))
    BY DEF NativesBefore
  <2>2. PICK i \in DOMAIN Components[k] : c = Components[k][i] /\ (k < d \/ (k = d /\ i < p + 1))
    BY <2>2a
  <2>3. (k < d \/ (k = d /\ i < p)) \/ (k = d /\ i = p)
    BY <1>5, <2>2
  <2> QED
    BY <2>1, <2>2, <2>3 DEF NativesBefore
<1>7. ASSUME NEW c \in NativesBefore(d, p)
      PROVE  c \in NativesBefore(d, p + 1)
  <2>1. c \in NativeCodes
    BY DEF NativesBefore
  <2>2a. PICK k \in DOMAIN Components : \E i \in DOMAIN Components[k] :
          c = Components[k][i] /\ (k < d \/ (k = d /\ i < p))
    BY DEF NativesBefore
  <2>2. PICK i \in DOMAIN Components[k] : c = Components[k][i] /\ (k < d \/ (k = d /\ i < p))
    BY <2>2a
  <2>3. k < d \/ (k = d /\ i < p + 1)
    BY <1>5, <2>2
  <2> QED
    BY <2>1, <2>2, <2>3 DEF NativesBefore
<1>8. x \in NativesBefore(d, p + 1)
  BY <1>1, <1>5 DEF NativesBefore
<1> QED
  BY <1>1, <1>2, <1>4, <1>6, <1>7, <1>8

LEMMA NativeEnds ==
  /\ NativesBefore(1, 1) = {}
  /\ \A d \in 1 .. Len(Components) :
       NativesBefore(d, Len(Components[d]) + 1) = NativesBefore(d + 1, 1)
  /\ \A p : NativesBefore(Len(Components) + 1, p) = NativeCodes
<1>1. NativesBefore(1, 1) = {}
  <2> SUFFICES ASSUME NEW c \in NativesBefore(1, 1) PROVE FALSE
    OBVIOUS
  <2>1a. PICK k \in DOMAIN Components : \E i \in DOMAIN Components[k] :
          k < 1 \/ (k = 1 /\ i < 1)
    BY DEF NativesBefore
  <2>1. PICK i \in DOMAIN Components[k] : k < 1 \/ (k = 1 /\ i < 1)
    BY <2>1a
  <2>2. k \in 1 .. Len(Components) /\ i \in 1 .. Len(Components[k])
    BY ComponentsAre
  <2> QED
    BY <2>1, <2>2, ComponentsAre
<1>2. ASSUME NEW d \in 1 .. Len(Components)
      PROVE  NativesBefore(d, Len(Components[d]) + 1) = NativesBefore(d + 1, 1)
  <2>1. ASSUME NEW k \in DOMAIN Components, NEW i \in DOMAIN Components[k]
        PROVE  (k < d \/ (k = d /\ i < Len(Components[d]) + 1)) <=> (k < d + 1 \/ (k = d + 1 /\ i < 1))
    <3>1. k \in 1 .. Len(Components) /\ i \in 1 .. Len(Components[k]) /\ Len(Components) \in Nat
          /\ Len(Components[k]) \in Nat /\ Len(Components[d]) \in Nat
      BY ComponentsAre
    <3>2. CASE k = d
      BY <3>1, <3>2
    <3>3. CASE k # d
      BY <3>1, <3>3
    <3> QED
      BY <3>2, <3>3
  <2> QED
    BY <2>1 DEF NativesBefore
<1>3. ASSUME NEW p
      PROVE  NativesBefore(Len(Components) + 1, p) = NativeCodes
  <2>1. ASSUME NEW c \in NativeCodes PROVE c \in NativesBefore(Len(Components) + 1, p)
    <3>1. PICK k \in 1 .. Len(Components) : \E i \in 1 .. Len(Components[k]) : Components[k][i] = c
      BY ComponentsAre
    <3>2. PICK i \in 1 .. Len(Components[k]) : Components[k][i] = c
      BY <3>1
    <3>3. k \in DOMAIN Components /\ i \in DOMAIN Components[k] /\ k < Len(Components) + 1
      BY ComponentsAre
    <3> QED
      BY <3>2, <3>3 DEF NativesBefore
  <2> QED
    BY <2>1 DEF NativesBefore
<1> QED
  BY <1>1, <1>2, <1>3

(* Three ways the list may change: not at all, by the name of an entry, or *)
(* by the name of an event of PAPI.                                        *)
LEMMA ListStays ==
  ASSUME NEW l, NEW at, NEW e, NEW d, NEW p, ListOK(l, at, e, d, p),
         NEW bt, NEW f, NEW c, NEW q, RowNames(f) = RowNames(e),
         PapiNames(PassedCodes(bt, f, c, q)) = PapiNames(PassedCodes(at, e, d, p))
  PROVE  ListOK(l, bt, f, c, q)
BY DEF ListOK

LEMMA ListGrows ==
  ASSUME NEW l, NEW at, NEW e, NEW d, NEW p, ListOK(l, at, e, d, p),
         NEW bt, NEW f, NEW c, NEW q, NEW x \in AnyName,
         x \notin RowNames(e) \cup PapiNames(PassedCodes(at, e, d, p)),
         RowNames(f) \cup PapiNames(PassedCodes(bt, f, c, q))
           = (RowNames(e) \cup PapiNames(PassedCodes(at, e, d, p))) \cup {x}
  PROVE  ListOK(Append(l, x), bt, f, c, q)
<1>1. /\ l \in Seq(AnyName) /\ Distinct(l)
      /\ SeqRange(l) = RowNames(e) \cup PapiNames(PassedCodes(at, e, d, p))
  BY DEF ListOK
<1>2. /\ Append(l, x) \in Seq(AnyName) /\ Distinct(Append(l, x))
      /\ SeqRange(Append(l, x)) = SeqRange(l) \cup {x}
  BY <1>1, AppendNew
<1> QED
  BY <1>1, <1>2 DEF ListOK

(* The world stays, so the new list may be judged in the old world.        *)
LEMMA ListCarries ==
  ASSUME WorldInv, UNCHANGED world, AtOK(pc', entry', comp', pos'),
         ListOK(list', pc', entry', comp', pos')
  PROVE  ListInv'
<1>1. build' = build /\ named' = named /\ described' = described /\ counted' = counted
  BY DEF world
<1>2. Codes' = Codes /\ PresetCodes' = PresetCodes /\ NativeCodes' = NativeCodes
  BY DEF Codes, PresetCodes, NativeCodes, SeqRange
<1>3. WorldInv'
  BY <1>1, <1>2 DEF WorldInv
<1>4. known_events' = known_events
  BY <1>1 DEF known_events
<1>5. \A c : Shown(c)' <=> Shown(c)
  BY <1>1, <1>2 DEF Shown
<1>6. AtOK(pc, entry, comp, pos)'
  BY <1>4 DEF AtOK
<1>7. RowNames(entry)' = RowNames(entry')
  BY <1>4 DEF RowNames
<1>8. PassedCodes(pc, entry, comp, pos)' = PassedCodes(pc', entry', comp', pos')
  BY <1>1, <1>2 DEF PassedCodes, PresetsBefore, NativesBefore
<1>9. PapiNames(PassedCodes(pc, entry, comp, pos))' = PapiNames(PassedCodes(pc', entry', comp', pos'))
  BY <1>5, <1>8 DEF PapiNames
<1>10. AnyName' = AnyName /\ SeqRange(list)' = SeqRange(list') /\ Distinct(list)' = Distinct(list')
  BY <1>2 DEF AnyName, SeqRange, Distinct
<1>11. ListOK(list, pc, entry, comp, pos)'
  BY <1>7, <1>9, <1>10 DEF ListOK
<1> QED
  BY <1>3, <1>6, <1>11 DEF ListInv

(* An entry that is listed by its own name, or not at all.                 *)
LEMMA IterateKeeps ==
  ASSUME ListInv, ubench_event_iterate
  PROVE  ListInv'
<1> DEFINE f == EntryFrom(entry + 1)
           P == PassedCodes("iterate", entry, comp, pos)
<1>1. /\ pc = "iterate" /\ pc' = "iterate" /\ entry \in known_events /\ entry' = f
      /\ comp' = comp /\ pos' = pos /\ UNCHANGED world
      /\ table[entry].obsolete \/ table[entry].lister = "NULL"
      /\ list' = IF table[entry].obsolete \/ table[entry].resolver # "NULL" THEN list
                 ELSE Append(list, Name("", table[entry].name))
  BY DEF ubench_event_iterate, Current, table
<1>2. entry \in 1 .. 10
  BY <1>1, KnownRange
<1>3. /\ entry # 5
      /\ (table[entry].obsolete \/ table[entry].resolver # "NULL") <=> entry \notin ListedRows
  <2>1. /\ table[entry].obsolete <=> entry \in {1, 2, 3, 10}
        /\ table[entry].lister = "NULL" <=> entry # 5
        /\ table[entry].resolver # "NULL" <=> entry \in {5, 10}
    BY <1>2, TableObsolete, TableResolvers
  <2>2. entry # 5
    <3> SUFFICES ASSUME entry = 5 PROVE FALSE
      OBVIOUS
    <3>1. ~table[entry].obsolete /\ table[entry].lister # "NULL"
      BY <2>1
    <3> QED
      BY <1>1, <3>1
  <2>3. entry \in {1, 2, 3, 10} <=> entry \notin ListedRows
    BY <1>2, <2>2, TenRows DEF ListedRows
  <2> QED
    BY <2>1, <2>2, <2>3
<1>4. /\ f \in known_events \cup {11}
      /\ entry \in ListedRows => RowNames(f) = RowNames(entry) \cup {Name("", table[entry].name)}
      /\ entry \notin ListedRows => RowNames(f) = RowNames(entry)
      /\ entry > 5 => f > 5
      /\ 5 \in known_events /\ entry < 5 => f <= 5
  BY <1>1, RowNext
<1> HIDE DEF f
<1>5. f \in 1 .. 11
  <2>1. f \in known_events \/ f = 11
    BY <1>4
  <2>2. f \in known_events => f \in 1 .. 10
    BY KnownRange
  <2> QED
    BY <2>1, <2>2
<1>6. PassedCodes("iterate", f, comp, pos) = P
  <2>1. "papi" \in build => 5 \in known_events
    BY EntriesOf
  <2>2. CASE "papi" \notin build
    BY <2>2 DEF PassedCodes
  <2>3. CASE "papi" \in build /\ entry > 5
    BY <1>4, <2>3 DEF PassedCodes
  <2>4. CASE "papi" \in build /\ ~(entry > 5)
    <3>0. entry < 5
      BY <1>2, <1>3, <2>4
    <3>1. ~(f > 5)
      <4>1. f <= 5
        BY <1>4, <2>1, <2>4, <3>0
      <4> QED
        BY <1>5, <4>1
    <3> QED
      BY <2>4, <3>1 DEF PassedCodes
  <2> QED
    BY <2>2, <2>3, <2>4
<1> HIDE DEF P
<1>7. WorldInv /\ ListOK(list, "iterate", entry, comp, pos)
  BY <1>1 DEF ListInv
<1>8. ListOK(list', "iterate", f, comp, pos)
  <2>1. CASE entry \in ListedRows
    <3> DEFINE x == Name("", table[entry].name)
    <3>1. x \in AnyName /\ x \notin RowNames(entry) \cup PapiNames(P)
      BY <1>1, RowIsNew
    <3>2. list' = Append(list, x)
      BY <1>1, <1>3, <2>1
    <3>3. RowNames(f) \cup PapiNames(P) = (RowNames(entry) \cup PapiNames(P)) \cup {x}
      BY <1>4, <2>1
    <3> HIDE DEF x
    <3> QED
      BY <1>6, <1>7, <3>1, <3>2, <3>3, ListGrows DEF P
  <2>2. CASE entry \notin ListedRows
    <3>1. list' = list /\ RowNames(f) = RowNames(entry)
      BY <1>1, <1>3, <1>4, <2>2
    <3> QED
      BY <1>6, <1>7, <3>1, ListStays DEF P
  <2> QED
    BY <2>1, <2>2
<1>9. AtOK("iterate", f, comp, pos)
  BY <1>4 DEF AtOK
<1> QED
  BY <1>1, <1>7, <1>8, <1>9, ListCarries

LEMMA PresetKeeps ==
  ASSUME ListInv, ListPreset
  PROVE  ListInv'
<1> DEFINE c == Presets[pos]
           q == NextPreset(pos)
           P == PassedCodes("presets", entry, comp, pos)
           Q == PassedCodes("presets", entry, comp, q)
<1>1. /\ pc = "presets" /\ pc' = "presets" /\ entry' = entry /\ comp' = comp /\ pos' = q
      /\ UNCHANGED world /\ pos <= Len(Presets)
      /\ list' = IF c \in named \cap described \cap counted THEN Append(list, Name("PAPI:", c)) ELSE list
  BY DEF ListPreset, Listed
<1>2. WorldInv /\ AtOK("presets", entry, comp, pos) /\ ListOK(list, "presets", entry, comp, pos)
  BY <1>1 DEF ListInv
<1>3. entry = 5 /\ 5 \in known_events /\ pos \in 1 .. Len(Presets)
  BY <1>1, <1>2, PresetsAre DEF AtOK
<1>4. "papi" \in build
  BY <1>3, EntriesOf
<1>5. P = PresetsBefore(pos) /\ Q = PresetsBefore(q)
  BY <1>3, <1>4 DEF PassedCodes
<1>6. /\ q \in 1 .. Len(Presets) + 1 /\ c \notin P
      /\ \A d : Shown(d) => (d \in Q <=> d \in P \/ d = c)
  BY <1>3, <1>5, NextPresetStep
<1>7. c \in PresetCodes /\ c \in Codes
  BY <1>3, PresetsAre DEF Codes
<1>8. Shown(c) <=> c \in named \cap described \cap counted
  BY <1>7 DEF Shown
<1> HIDE DEF c, q, P, Q
<1>9. ListOK(list', "presets", entry, comp, q)
  <2>1. CASE Shown(c)
    <3> DEFINE x == Name("PAPI:", c)
    <3>1. x \in AnyName /\ x \notin RowNames(entry) \cup PapiNames(P)
      BY <1>6, <1>7, PapiIsNew
    <3>2. PapiNames(Q) = PapiNames(P) \cup {x}
      BY <1>6, <2>1, PapiGrows
    <3>3. list' = Append(list, x)
      BY <1>1, <1>8, <2>1
    <3> HIDE DEF x
    <3>4. RowNames(entry) \cup PapiNames(Q) = (RowNames(entry) \cup PapiNames(P)) \cup {x}
      BY <3>2
    <3> QED
      BY <1>2, <3>1, <3>3, <3>4, ListGrows DEF P, Q
  <2>2. CASE ~Shown(c)
    <3>1. PapiNames(Q) = PapiNames(P)
      BY <1>6, <2>2, PapiGrows
    <3>2. list' = list
      BY <1>1, <1>8, <2>2
    <3> QED
      BY <1>2, <3>1, <3>2, ListStays DEF P, Q
  <2> QED
    BY <2>1, <2>2
<1>10. AtOK("presets", entry, comp, q)
  BY <1>3, <1>6 DEF AtOK
<1> QED
  BY <1>1, <1>2, <1>9, <1>10, ListCarries

LEMMA NativeKeeps ==
  ASSUME ListInv, ListNative
  PROVE  ListInv'
<1> DEFINE c == Components[comp][pos]
           q == pos + 1
           P == PassedCodes("components", entry, comp, pos)
           Q == PassedCodes("components", entry, comp, q)
<1>1. /\ pc = "components" /\ pc' = "components" /\ entry' = entry /\ comp' = comp /\ pos' = q
      /\ UNCHANGED world /\ comp <= Len(Components) /\ pos <= Len(Components[comp])
      /\ list' = IF c \in named THEN Append(list, Name("PAPI:", c)) ELSE list
  BY DEF ListNative, Listed
<1>2. WorldInv /\ AtOK("components", entry, comp, pos) /\ ListOK(list, "components", entry, comp, pos)
  BY <1>1 DEF ListInv
<1>3. /\ entry = 5 /\ 5 \in known_events /\ comp \in 1 .. Len(Components)
      /\ pos \in 1 .. Len(Components[comp]) /\ Len(Components[comp]) \in Nat
  <2>1. entry = 5 /\ entry \in known_events \cup {11}
        /\ comp \in 1 .. Len(Components) + 1 /\ pos \in Nat \ {0}
    BY <1>2 DEF AtOK
  <2>2. comp \in 1 .. Len(Components)
    BY <1>1, <2>1, ComponentsAre
  <2>3. Len(Components[comp]) \in Nat
    BY <2>2, ComponentsAre
  <2> QED
    BY <1>1, <2>1, <2>2, <2>3
<1>4. "papi" \in build
  BY <1>3, EntriesOf
<1>5. P = PresetCodes \cup NativesBefore(comp, pos) /\ Q = PresetCodes \cup NativesBefore(comp, q)
  BY <1>3, <1>4 DEF PassedCodes
<1>6. /\ NativesBefore(comp, q) = NativesBefore(comp, pos) \cup {c}
      /\ c \notin NativesBefore(comp, pos) /\ c \in NativeCodes /\ c \notin PresetCodes
  BY <1>3, NativeStep
<1>7. c \in Codes /\ c \notin P /\ \A d : Shown(d) => (d \in Q <=> d \in P \/ d = c)
  BY <1>5, <1>6 DEF Codes
<1>8. Shown(c) <=> c \in named
  BY <1>6 DEF Shown
<1>9. q \in Nat \ {0} /\ q <= Len(Components[comp]) + 1
  BY <1>3
<1> HIDE DEF c, q, P, Q
<1>10. ListOK(list', "components", entry, comp, q)
  <2>1. CASE Shown(c)
    <3> DEFINE x == Name("PAPI:", c)
    <3>1. x \in AnyName /\ x \notin RowNames(entry) \cup PapiNames(P)
      BY <1>7, PapiIsNew
    <3>2. PapiNames(Q) = PapiNames(P) \cup {x}
      BY <1>7, <2>1, PapiGrows
    <3>3. list' = Append(list, x)
      BY <1>1, <1>8, <2>1
    <3> HIDE DEF x
    <3>4. RowNames(entry) \cup PapiNames(Q) = (RowNames(entry) \cup PapiNames(P)) \cup {x}
      BY <3>2
    <3> QED
      BY <1>2, <3>1, <3>3, <3>4, ListGrows DEF P, Q
  <2>2. CASE ~Shown(c)
    <3>1. PapiNames(Q) = PapiNames(P)
      BY <1>7, <2>2, PapiGrows
    <3>2. list' = list
      BY <1>1, <1>8, <2>2
    <3> QED
      BY <1>2, <3>1, <3>2, ListStays DEF P, Q
  <2> QED
    BY <2>1, <2>2
<1>11. AtOK("components", entry, comp, q)
  BY <1>2, <1>3, <1>9 DEF AtOK
<1> QED
  BY <1>1, <1>2, <1>10, <1>11, ListCarries

LEMMA ListInit == Init => ListInv
<1> SUFFICES ASSUME Init PROVE ListInv
  OBVIOUS
<1>1. WorldInv /\ pc = "java" /\ entry = EntryFrom(1) /\ list = <<>>
  BY DEF Init, WorldInv
<1>2. 1 \in known_events
  BY EntriesOf
<1>3. EntryFrom(1) = 1
  <2>1. /\ EntryFrom(1) \in known_events \cup {11} /\ (EntryFrom(1) >= 1 \/ EntryFrom(1) = 11)
        /\ 1 < EntryFrom(1) <=> 1 < 1
    BY <1>2, EntryFromNext
  <2>2. EntryFrom(1) \in 1 .. 11
    <3>1. EntryFrom(1) \in known_events => EntryFrom(1) \in 1 .. 10
      BY KnownRange
    <3> QED
      BY <2>1, <3>1
  <2> QED
    BY <2>1, <2>2
<1>4. RowNames(1) = {}
  <2>1. {k \in known_events \cap ListedRows : k < 1} = {}
    BY DEF ListedRows
  <2> QED
    BY <2>1 DEF RowNames
<1>5. PapiNames(PassedCodes("java", 1, comp, pos)) = {}
  <2>1. PassedCodes("java", 1, comp, pos) = {}
    BY DEF PassedCodes
  <2> QED
    BY <2>1 DEF PapiNames
<1>6. <<>> \in Seq(AnyName) /\ Distinct(<<>>) /\ SeqRange(<<>>) = {}
  BY DEF Distinct, SeqRange
<1>7. ListOK(<<>>, "java", 1, comp, pos)
  BY <1>4, <1>5, <1>6 DEF ListOK
<1>8. AtOK("java", 1, comp, pos)
  BY <1>2 DEF AtOK
<1> QED
  BY <1>1, <1>3, <1>7, <1>8 DEF ListInv

LEMMA SamePassed ==
  ASSUME NEW at \in {"java", "iterate", "listed", "start", "stop", "measured"},
         NEW bt \in {"java", "iterate", "listed", "start", "stop", "measured"},
         NEW e, NEW d, NEW p
  PROVE  PassedCodes(bt, e, d, p) = PassedCodes(at, e, d, p)
BY DEF PassedCodes

(* A step that does not list.                                              *)
LEMMA ListIdle ==
  ASSUME ListInv, UNCHANGED <<world, listing>>,
         pc \in {"java", "iterate", "start", "stop"},
         pc' \in {"iterate", "listed", "start", "stop", "measured"},
         pc' = "listed" => entry = 11
  PROVE  ListInv'
<1>1. entry' = entry /\ comp' = comp /\ pos' = pos /\ list' = list
  BY DEF listing
<1>2. WorldInv /\ AtOK(pc, entry, comp, pos) /\ ListOK(list, pc, entry, comp, pos)
  BY DEF ListInv
<1>3. PassedCodes(pc', entry, comp, pos) = PassedCodes(pc, entry, comp, pos)
  BY SamePassed
<1>4. ListOK(list, pc', entry, comp, pos)
  BY <1>2, <1>3 DEF ListOK
<1>5. AtOK(pc', entry, comp, pos)
  BY <1>2 DEF AtOK
<1> QED
  BY <1>1, <1>2, <1>4, <1>5, ListCarries

LEMMA PapiSteps ==
  ASSUME ListInv, list_papi_events \/ PresetsDone \/ ComponentDone \/ PapiDone
  PROVE  ListInv'
<1>0. WorldInv /\ AtOK(pc, entry, comp, pos) /\ ListOK(list, pc, entry, comp, pos)
  BY DEF ListInv
<1>1. /\ UNCHANGED world /\ list' = list /\ entry \in known_events /\ entry = 5
  <2>1. CASE list_papi_events
    <3>1. /\ entry \in known_events /\ table[entry].lister = "list_papi_events"
          /\ UNCHANGED world /\ list' = list
      BY <2>1 DEF list_papi_events, Current, table
    <3>2. entry \in 1 .. 10
      BY <3>1, KnownRange
    <3>3. entry = 5
      BY <3>1, <3>2, TableResolvers
    <3> QED
      BY <3>1, <3>3
  <2>2. CASE PresetsDone \/ ComponentDone \/ PapiDone
    <3>1. pc \in {"presets", "components"} /\ UNCHANGED world /\ list' = list
      BY <2>2 DEF PresetsDone, ComponentDone, PapiDone
    <3> QED
      BY <1>0, <3>1 DEF AtOK
  <2> QED
    BY <2>1, <2>2
<1>2. "papi" \in build
  BY <1>1, EntriesOf
<1>3. CASE list_papi_events
  <2>1. pc = "iterate" /\ pc' = "presets" /\ pos' = 1 /\ entry' = entry /\ comp' = comp
    BY <1>3 DEF list_papi_events
  <2>2. PassedCodes("presets", entry, comp, 1) = PassedCodes("iterate", entry, comp, pos)
    BY <1>1, PresetEnds DEF PassedCodes
  <2>3. ListOK(list, "presets", entry, comp, 1)
    BY <1>0, <2>1, <2>2 DEF ListOK
  <2>4. AtOK("presets", entry, comp, 1)
    BY <1>1, PresetsAre DEF AtOK
  <2> QED
    BY <1>0, <1>1, <2>1, <2>3, <2>4, ListCarries
<1>4. CASE PresetsDone
  <2>1. /\ pc = "presets" /\ pc' = "components" /\ pos' = 1 /\ entry' = entry /\ comp' = 1
        /\ pos > Len(Presets)
    BY <1>4 DEF PresetsDone
  <2>2. pos = Len(Presets) + 1
    BY <1>0, <2>1, PresetsAre DEF AtOK
  <2>3. PassedCodes("components", entry, 1, 1) = PassedCodes("presets", entry, comp, pos)
    BY <1>1, <2>2, PresetEnds, NativeEnds DEF PassedCodes
  <2>4. ListOK(list, "components", entry, 1, 1)
    BY <1>0, <2>1, <2>3 DEF ListOK
  <2>5. 1 <= Len(Components) => Len(Components[1]) \in Nat
    BY ComponentsAre
  <2>6. AtOK("components", entry, 1, 1)
    BY <1>1, <2>5, ComponentsAre DEF AtOK
  <2> QED
    BY <1>0, <1>1, <2>1, <2>4, <2>6, ListCarries
<1>5. CASE ComponentDone
  <2>1. /\ pc = "components" /\ pc' = "components" /\ pos' = 1 /\ entry' = entry
        /\ comp' = comp + 1 /\ comp <= Len(Components) /\ pos > Len(Components[comp])
    BY <1>5 DEF ComponentDone
  <2>2. comp \in 1 .. Len(Components) /\ pos \in Nat /\ pos <= Len(Components[comp]) + 1
    BY <1>0, <2>1, ComponentsAre DEF AtOK
  <2>3. Len(Components[comp]) \in Nat
    BY <2>2, ComponentsAre
  <2>4. pos = Len(Components[comp]) + 1
    BY <2>1, <2>2, <2>3
  <2>5. NativesBefore(comp, pos) = NativesBefore(comp + 1, 1)
    BY <2>2, <2>4, NativeEnds
  <2>6. PassedCodes("components", entry, comp + 1, 1) = PassedCodes("components", entry, comp, pos)
    BY <1>1, <2>5 DEF PassedCodes
  <2>7. ListOK(list, "components", entry, comp + 1, 1)
    BY <1>0, <2>1, <2>6 DEF ListOK
  <2>8. comp + 1 \in 1 .. Len(Components) + 1
    BY <2>2, ComponentsAre
  <2>9. comp + 1 <= Len(Components) => Len(Components[comp + 1]) \in Nat
    BY <2>2, ComponentsAre
  <2>10. AtOK("components", entry, comp + 1, 1)
    BY <1>1, <2>8, <2>9 DEF AtOK
  <2> QED
    BY <1>0, <1>1, <2>1, <2>7, <2>10, ListCarries
<1>6. CASE PapiDone
  <2> DEFINE f == EntryFrom(entry + 1)
  <2>1. /\ pc = "components" /\ pc' = "iterate" /\ pos' = 1 /\ entry' = f
        /\ comp' = 0 /\ comp > Len(Components)
    BY <1>6 DEF PapiDone
  <2>2. comp = Len(Components) + 1
    BY <1>0, <2>1, ComponentsAre DEF AtOK
  <2>3. f \in known_events \cup {11} /\ RowNames(f) = RowNames(entry) /\ f > 5
    <3>1. entry \notin ListedRows
      BY <1>1 DEF ListedRows
    <3> QED
      BY <1>1, <3>1, RowNext
  <2> HIDE DEF f
  <2>4. PassedCodes("iterate", f, 0, 1) = PassedCodes("components", entry, comp, pos)
    BY <1>1, <2>2, <2>3, NativeEnds DEF PassedCodes, Codes
  <2>5. ListOK(list, "iterate", f, 0, 1)
    BY <1>0, <2>1, <2>3, <2>4 DEF ListOK
  <2>6. AtOK("iterate", f, 0, 1)
    BY <2>3 DEF AtOK
  <2> QED
    BY <1>0, <1>1, <2>1, <2>5, <2>6, ListCarries
<1> QED
  BY <1>3, <1>4, <1>5, <1>6

LEMMA ListNext == ListInv /\ [Next]_vars => ListInv'
<1> SUFFICES ASSUME ListInv, [Next]_vars PROVE ListInv'
  OBVIOUS
<1>1. CASE getSupportedEvents
  BY <1>1, ListIdle DEF getSupportedEvents
<1>2. ASSUME NEW m \in EventNames, NEW n \in EventNames, Create({m, n})
      PROVE  ListInv'
  BY <1>2, ListIdle DEF Create
<1>3. CASE ListStep
  <2>1. CASE ListReturned
    <3>1. pc = "iterate" /\ pc' = "listed" /\ UNCHANGED <<world, listing>> /\ entry > 10
      BY <2>1, TableRows DEF ListReturned, table
    <3>2. entry \in known_events \cup {11} /\ (entry \in known_events => entry \in 1 .. 10)
      BY KnownRange DEF ListInv, AtOK
    <3>3. entry = 11
      BY <3>1, <3>2
    <3> QED
      BY <3>1, <3>3, ListIdle
  <2> QED
    BY <1>3, <2>1, IterateKeeps, PresetKeeps, NativeKeeps, PapiSteps DEF ListStep
<1>4. CASE MeasureStep
  <2>1. /\ UNCHANGED <<world, listing>> /\ pc \in {"start", "stop"}
        /\ pc' \in {"start", "stop", "measured"}
    BY <1>4 DEF MeasureStep, ubench_measure_start, StopCalled, ubench_measure_stop, StopReturned
  <2> QED
    BY <2>1, ListIdle
<1>5. ASSUME NEW d \in Jumps, NEW inKernel \in BOOLEAN, Tick(d, inKernel)
      PROVE  ListInv'
  <2>1. UNCHANGED <<world, listing>> /\ pc \in {"start", "stop"} /\ pc' = pc
    BY <1>5 DEF Tick
  <2> QED
    BY <2>1, ListIdle
<1>6. CASE UNCHANGED vars
  <2>1. UNCHANGED world /\ UNCHANGED <<pc, entry, comp, pos, list>>
    BY <1>6 DEF vars, listing
  <2> QED
    BY <2>1, ListCarries DEF ListInv
<1> QED
  BY <1>1, <1>2, <1>3, <1>4, <1>5, <1>6 DEF Next

(* What ListIsComplete and ListedMeansItself rest on: at every step of     *)
(* ubench_event_iterate and list_papi_events the list holds the names      *)
(* passed so far, each once.                                               *)
THEOREM Listing == Spec => []ListInv
BY ListInit, ListNext, PTL DEF Spec

(* A name that resolve_papi_event refuses is not found under the prefix.   *)
LEMMA ResolveRefused ==
  ASSUME NEW c, ~Good(c)
  PROVE  ubench_event_resolve(Name("PAPI:", c)) = NotFound
<1> DEFINE n == Name("PAPI:", c)
<1>1. n.prefix = "PAPI:" /\ n.base = c
  BY NameParts
<1>2. ASSUME NEW k \in known_events PROVE ~Matches(table[k], n)
  <2>1. k \in 1 .. 10
    BY KnownRange
  <2>2. CASE k = 5 \/ k = 10
    BY <1>1, <2>2, MatchesPapi
  <2>3. CASE k # 5 /\ k # 10
    <3>1. n # Name("", table[k].name)
      BY NameDiffers
    <3> QED
      BY <2>1, <2>3, <3>1, MatchesPlain
  <2> QED
    BY <2>2, <2>3
<1> HIDE DEF n
<1> QED
  BY <1>2, ResolveNone DEF n

LEMMA UnusableAre ==
  /\ \A b : Name("", b) \notin UnusableNames
  /\ \A c : Good(c) => Name("PAPI:", c) \notin UnusableNames
  /\ "papi" \in build =>
       \A c \in Codes : Shown(c) /\ ~Good(c) => Name("PAPI:", c) \in UnusableNames
<1>1. \A b : Name("", b) \notin UnusableNames
  <2> SUFFICES ASSUME NEW b, Name("", b) \in UnusableNames PROVE FALSE
    OBVIOUS
  <2>1. PICK d : Name("", b) = Name("PAPI:", d)
    BY DEF UnusableNames
  <2> QED
    BY <2>1, NameDiffers
<1>2. ASSUME NEW c, Good(c), Name("PAPI:", c) \in UnusableNames PROVE FALSE
  <2>1. PICK d \in (NativeCodes \cap named) \ described : Name("PAPI:", c) = Name("PAPI:", d)
    BY <1>2 DEF UnusableNames
  <2>2. c = d
    BY <2>1, NameDiffers
  <2> QED
    BY <1>2, <2>1, <2>2 DEF Good
<1>3. ASSUME "papi" \in build, NEW c \in Codes, Shown(c), ~Good(c)
      PROVE  Name("PAPI:", c) \in UnusableNames
  <2>1. c \in (NativeCodes \cap named) \ described
    BY <1>3 DEF Shown, Good, Codes
  <2> QED
    BY <1>3, <2>1 DEF UnusableNames
<1> QED
  BY <1>1, <1>2, <1>3

(* At every moment of the listing a name on the list is either that of a   *)
(* native event PAPI names and does not describe, and createEventSet       *)
(* refuses it, or resolves to the event it was listed for                  *)
(* (ListedMeansItself), for any events of PAPI and any defects of theirs.  *)
THEOREM ListedResolves == Spec => []ListedMeansItself
<1>1. ListInv => ListedMeansItself
  <2> SUFFICES ASSUME ListInv, NEW j \in DOMAIN list
               PROVE  \/ list[j] \in UnusableNames /\ ubench_event_resolve(list[j]) = NotFound
                      \/ /\ list[j] \notin UnusableNames /\ ubench_event_resolve(list[j]) # NotFound
                         /\ (list[j].prefix = "PAPI:") <=> (ubench_event_resolve(list[j]).backend = "papi")
                         /\ (list[j].prefix = "PAPI:") => (ubench_event_resolve(list[j]).id = list[j].base)
    BY DEF ListedMeansItself
  <2> DEFINE P == PassedCodes(pc, entry, comp, pos)
  <2>1. list[j] \in RowNames(entry) \cup PapiNames(P)
    BY DEF ListInv, ListOK, SeqRange
  <2>2. CASE list[j] \in RowNames(entry)
    <3>1. PICK i \in known_events \cap ListedRows : list[j] = Name("", table[i].name)
      BY <2>2 DEF RowNames
    <3>2. i \in known_events /\ i # 5 /\ i # 10 /\ i \in 1 .. 10
      BY KnownRange DEF ListedRows
    <3>3. ubench_event_resolve(list[j]) = Info(table[i], "none")
      BY <3>1, <3>2, ResolvePlain
    <3>4. Info(table[i], "none").backend # "papi"
      BY <3>2, TableBackends DEF Info
    <3>5. Info(table[i], "none") # NotFound
      BY <3>2, FoundInfo
    <3>6. list[j].prefix = "" /\ list[j] \notin UnusableNames
      BY <3>1, NameParts, UnusableAre
    <3> QED
      BY <3>3, <3>4, <3>5, <3>6
  <2>3. CASE list[j] \in PapiNames(P)
    <3>1. PICK c \in P : Shown(c) /\ list[j] = Name("PAPI:", c)
      BY <2>3 DEF PapiNames
    <3>2. "papi" \in build
      BY DEF PassedCodes
    <3>3. c \in Codes
      BY <3>1 DEF ListInv, WorldInv, Shown
    <3>4. CASE ~Good(c)
      BY <3>1, <3>2, <3>3, <3>4, ResolveRefused, UnusableAre
    <3>5. CASE Good(c)
      <4>1. ubench_event_resolve(list[j]) = Info(table[5], c)
        BY <3>1, <3>2, <3>5, ResolvePrefixed
      <4>2. Info(table[5], c).backend = "papi" /\ Info(table[5], c).id = c
        BY TableBackends DEF Info
      <4>3. Info(table[5], c) # NotFound
        BY FoundInfo
      <4>4. list[j].prefix = "PAPI:" /\ list[j].base = c /\ list[j] \notin UnusableNames
        BY <3>1, <3>5, NameParts, UnusableAre
      <4> QED
        BY <4>1, <4>2, <4>3, <4>4
    <3> QED
      BY <3>4, <3>5
  <2> QED
    BY <2>1, <2>2, <2>3
<1> QED
  BY <1>1, Listing, PTL

LEMMA DistinctCount ==
  ASSUME NEW S, NEW s \in Seq(S), Distinct(s)
  PROVE  Cardinality(SeqRange(s)) = Len(s)
<1>1. Len(s) \in Nat /\ DOMAIN s = 1 .. Len(s) /\ s \in [1 .. Len(s) -> S]
  OBVIOUS
<1>2. s \in Bijection(1 .. Len(s), SeqRange(s))
  <2>1. s \in [1 .. Len(s) -> SeqRange(s)]
    BY <1>1 DEF SeqRange
  <2>2. IsInjective(s)
    BY <1>1 DEF IsInjective, Distinct
  <2>3. \A t \in SeqRange(s) : \E i \in 1 .. Len(s) : s[i] = t
    BY <1>1 DEF SeqRange
  <2> QED
    BY <2>1, <2>2, <2>3 DEF Bijection, Injection, Surjection
<1>3. IsFiniteSet(1 .. Len(s)) /\ Cardinality(1 .. Len(s)) = Len(s)
  BY <1>1, FS_Interval
<1> QED
  BY <1>2, <1>3, FS_Bijection DEF ExistsBijection

(* The list that getSupportedEvents returns holds every supported event    *)
(* and every native event that PAPI names and does not describe, each once *)
(* and nothing else (ListIsComplete), whatever PAPI fails to name, describe *)
(* or count.                                                               *)
THEOREM ListComplete == Spec => []ListIsComplete
<1>1. ListInv => ListIsComplete
  <2> SUFFICES ASSUME ListInv, pc = "listed"
               PROVE  /\ SeqRange(list) = SupportedNames \cup UnusableNames
                      /\ Cardinality(SeqRange(list)) = Len(list)
    BY DEF ListIsComplete
  <2>1. /\ entry = 11 /\ list \in Seq(AnyName) /\ Distinct(list) /\ WorldInv
        /\ SeqRange(list) = RowNames(11) \cup PapiNames(PassedCodes("listed", 11, comp, pos))
    BY DEF ListInv, AtOK, ListOK
  <2>2. {k \in known_events \cap ListedRows : k < 11} = known_events \cap ListedRows
    BY DEF ListedRows
  <2>3. RowNames(11) = {Name("", table[i].name) : i \in known_events \cap ListedRows}
    BY <2>2 DEF RowNames
  <2>4. PassedCodes("listed", 11, comp, pos) = IF "papi" \in build THEN Codes ELSE {}
    BY DEF PassedCodes
  <2>5. {c \in Codes : Shown(c)}
          = {c \in named : Good(c)} \cup ((NativeCodes \cap named) \ described)
    <3>1. PresetCodes \cap NativeCodes = {}
      BY PapiAssumption
    <3> QED
      BY <2>1, <3>1 DEF WorldInv, Good, Shown, Codes
  <2>6. PapiNames(Codes)
          = {Name("PAPI:", c) : c \in {c \in named : Good(c)}}
              \cup {Name("PAPI:", c) : c \in (NativeCodes \cap named) \ described}
    BY <2>5 DEF PapiNames
  <2>7. PapiNames({}) = {}
    BY DEF PapiNames
  <2>8. SeqRange(list) = SupportedNames \cup UnusableNames
    <3>1. CASE "papi" \in build
      BY <2>1, <2>3, <2>4, <2>6, <3>1, SupportedAre DEF UnusableNames
    <3>2. CASE "papi" \notin build
      BY <2>1, <2>3, <2>4, <2>7, <3>2, SupportedAre DEF UnusableNames
    <3> QED
      BY <3>1, <3>2
  <2> QED
    BY <2>1, <2>8, DistinctCount
<1> QED
  BY <1>1, Listing, PTL
=============================================================================
